------------------------------ MODULE InputProofs ------------------------------
(***************************************************************************)
(* What comes from outside is read right: FramingExact, for all streams of *)
(* messages and however their bytes are cut into chunks, FirstSourceWins,  *)
(* whatever the sources of a configuration say, and RagFits, whatever a    *)
(* model is asked and in whatever order the blocks of its answer come.     *)
(***************************************************************************)
EXTENDS StructureProofs

----------------------------------------------------------------------------
(* What the buffer holds. *)

(* A buffer has these fields, and of those some tell what was read of the  *)
(* header of a message.                                                    *)
IsBuffer(b) ==
  b = [bufs |-> b.bufs, buf0 |-> b.buf0, pos0 |-> b.pos0, len |-> b.len, open |-> b.open,
       curMessageType |-> b.curMessageType, curMessageLen |-> b.curMessageLen,
       curMessageLenUnread |-> b.curMessageLenUnread, curMessageReady |-> b.curMessageReady]
SameHeader(b, c) ==
  /\ c.open = b.open /\ c.curMessageType = b.curMessageType /\ c.curMessageLen = b.curMessageLen
  /\ c.curMessageLenUnread = b.curMessageLenUnread /\ c.curMessageReady = b.curMessageReady

(* The chunks after the first are the bytes of W from `from' to `fed': off *)
(* says where each begins.                                                 *)
Chunked(bufs, W, off, from, fed) ==
  /\ off \in [1 .. Len(bufs) + 1 -> Nat] /\ off[1] = from /\ off[Len(bufs) + 1] = fed
  /\ \A i \in 1 .. Len(bufs) + 1 : off[i] <= fed
  /\ \A i \in 1 .. Len(bufs) :
       /\ bufs[i] \in Seq(Byte) /\ Len(bufs[i]) >= 1 /\ off[i + 1] = off[i] + Len(bufs[i])
       /\ \A j \in 1 .. Len(bufs[i]) : bufs[i][j] = W[off[i] + j]

(* All its bytes are those of W from pos to fed.                           *)
Held(b, W, pos, fed) ==
  /\ IsBuffer(b) /\ pos \in Nat /\ fed \in Nat /\ pos <= fed /\ b.len = fed - pos
  /\ b.buf0 \in Seq(Byte) /\ b.pos0 \in 0 .. Len(b.buf0) /\ b.bufs \in Seq(Seq(Byte))
  /\ \A j \in 1 .. Len(b.buf0) - b.pos0 : b.buf0[b.pos0 + j] = W[pos + j]
  /\ \E off : Chunked(b.bufs, W, off, pos + (Len(b.buf0) - b.pos0), fed)
  /\ b.open \/ (b.pos0 = Len(b.buf0) /\ b.bufs = <<>>)

(* n bytes of w, after the first m.                                        *)
Part(w, m, n) == SubSeq(w, m + 1, m + n)
SameBytes(v, l, w, m, n) == \A j \in 1 .. n : v[l + j] = w[m + j]

LEMMA Slice ==
  ASSUME NEW w \in Seq(Byte), NEW m \in Nat, NEW n \in Nat, m + n <= Len(w)
  PROVE  /\ Part(w, m, n) \in Seq(Byte) /\ Len(Part(w, m, n)) = n
         /\ \A j \in 1 .. n : Part(w, m, n)[j] = w[m + j]
<1>1. \A i \in m + 1 .. m + n : w[i] \in Byte
  <2>1. \A i \in m + 1 .. m + n : i \in 1 .. Len(w)
    BY LenProperties
  <2> QED
    BY <2>1, ElementOfSeq
<1> DEFINE a == m + 1
<1> DEFINE z == m + n
<1>2. a \in Int /\ z \in Int /\ (a <= z <=> n # 0) /\ z - a + 1 = n /\ \A j \in 1 .. n : a + j - 1 = m + j
  OBVIOUS
<1> HIDE DEF a, z
<1>3. /\ SubSeq(w, a, z) \in Seq(Byte) /\ Len(SubSeq(w, a, z)) = (IF a <= z THEN z - a + 1 ELSE 0)
      /\ \A i \in 1 .. z - a + 1 : SubSeq(w, a, z)[i] = w[a + i - 1]
  <2>1. \A i \in a .. z : w[i] \in Byte
    BY <1>1 DEF a, z
  <2> QED
    BY <1>2, <2>1, SubSeqProperties
<1> QED
  BY <1>2, <1>3 DEF a, z, Part

(* What is left of w.                                                      *)
Rest(w, m) == Part(w, m, Len(w) - m)

(* Two parts are the same if their bytes are.                              *)
LEMMA SliceEqual ==
  ASSUME NEW v \in Seq(Byte), NEW w \in Seq(Byte), NEW l \in Nat, NEW m \in Nat, NEW n \in Nat,
         l + n <= Len(v), m + n <= Len(w), SameBytes(v, l, w, m, n)
  PROVE  Part(v, l, n) = Part(w, m, n)
<1>1. Part(v, l, n) \in Seq(Byte) /\ Len(Part(v, l, n)) = n /\ \A j \in 1 .. n : Part(v, l, n)[j] = v[l + j]
  BY Slice
<1>2. Part(w, m, n) \in Seq(Byte) /\ Len(Part(w, m, n)) = n /\ \A j \in 1 .. n : Part(w, m, n)[j] = w[m + j]
  BY Slice
<1>3. \A j \in 1 .. n : Part(v, l, n)[j] = Part(w, m, n)[j]
  BY <1>1, <1>2, Zenon DEF SameBytes
<1> QED
  BY <1>1, <1>2, <1>3, SeqEqual

(* A part goes on in the next.                                             *)
LEMMA SliceConcat ==
  ASSUME NEW w \in Seq(Byte), NEW m \in Nat, NEW n \in Nat, NEW k \in Nat, m + n + k <= Len(w)
  PROVE  Part(w, m, n) \o Part(w, m + n, k) = Part(w, m, n + k)
<1> DEFINE a == m + 1
<1> DEFINE z == m + n
<1> DEFINE y == z + k
<1>1. a \in 1 .. Len(w) + 1 /\ z \in a - 1 .. Len(w) /\ y \in z .. Len(w) /\ y = m + (n + k)
  BY LenProperties
<1> HIDE DEF a, z, y
<1>2. SubSeq(w, a, z) \o SubSeq(w, z + 1, y) = SubSeq(w, a, y)
  BY <1>1, ConcatAdjacentSubSeq
<1> QED
  BY <1>1, <1>2 DEF Part, a, z, y

(* The first chunk has a byte if any has one.                              *)
LEMMA EnsureHeld ==
  ASSUME NEW b, NEW W, NEW pos, NEW fed, Held(b, W, pos, fed), pos < fed
  PROVE  LET e == ensureFirstBuf(b)
         IN /\ Held(e, W, pos, fed) /\ SameHeader(b, e) /\ e.pos0 < Len(e.buf0)
            /\ Len(e.bufs) = Len(b.bufs) - (IF b.pos0 = Len(b.buf0) THEN 1 ELSE 0)
<1> DEFINE e == ensureFirstBuf(b)
<1>1. CASE b.pos0 # Len(b.buf0)
  <2>1. e = b
    BY <1>1 DEF ensureFirstBuf, len0
  <2>2. b.pos0 < Len(b.buf0) /\ Len(b.bufs) = Len(b.bufs) - 0
    BY <1>1, LenProperties DEF Held
  <2> QED
    BY <1>1, <2>1, <2>2 DEF SameHeader
<1>2. CASE b.pos0 = Len(b.buf0)
  <2> DEFINE M == Len(b.bufs)
  <2>1. b.bufs \in Seq(Seq(Byte)) /\ M \in Nat /\ pos \in Nat /\ fed \in Nat /\ Len(b.buf0) \in Nat
    BY LenProperties DEF Held
  <2>2. PICK off : Chunked(b.bufs, W, off, pos, fed)
    <3>1. PICK off : Chunked(b.bufs, W, off, pos + (Len(b.buf0) - b.pos0), fed)
      BY DEF Held
    <3>2. pos + (Len(b.buf0) - b.pos0) = pos
      BY <1>2, <2>1
    <3> QED
      BY <3>1, <3>2
  <2>3. M # 0
    <3> SUFFICES ASSUME M = 0 PROVE FALSE
      OBVIOUS
    <3>1. off[1] = pos /\ off[M + 1] = fed /\ M + 1 = 1
      BY <2>2 DEF Chunked
    <3> QED
      BY <2>1, <3>1
  <2>4. b.bufs # <<>> /\ Head(b.bufs) = b.bufs[1] /\ 1 \in 1 .. M
        /\ Tail(b.bufs) \in Seq(Seq(Byte)) /\ Len(Tail(b.bufs)) = M - 1
        /\ \A i \in 1 .. M - 1 : Tail(b.bufs)[i] = b.bufs[i + 1]
    BY <2>1, <2>3
  <2>5. e = [b EXCEPT !.buf0 = Head(b.bufs), !.bufs = Tail(@), !.pos0 = 0]
    BY <1>2 DEF ensureFirstBuf, len0
  <2>6. /\ IsBuffer(e) /\ e.buf0 = b.bufs[1] /\ e.bufs = Tail(b.bufs) /\ e.pos0 = 0 /\ e.len = b.len
        /\ SameHeader(b, e)
    <3>1. IsBuffer(b)
      BY DEF Held
    <3> HIDE DEF e
    <3> QED
      BY <2>4, <2>5, <3>1 DEF IsBuffer, SameHeader
  <2> HIDE DEF e
  <2>7. e.buf0 \in Seq(Byte) /\ Len(e.buf0) >= 1 /\ Len(e.buf0) \in Nat
        /\ (\A j \in 1 .. Len(e.buf0) : e.buf0[j] = W[pos + j]) /\ off[2] = pos + Len(e.buf0)
    BY <2>2, <2>4, <2>6 DEF Chunked
  <2>8. Chunked(e.bufs, W, [i \in 1 .. M |-> off[i + 1]], pos + Len(e.buf0), fed)
    <3> DEFINE off2 == [i \in 1 .. M |-> off[i + 1]]
    <3>1. off2 \in [1 .. M -> Nat] /\ off2[1] = off[2] /\ off2[M] = fed
      <4>1. \A i \in 1 .. M : i + 1 \in 1 .. M + 1
        BY <2>1
      <4>2. M \in 1 .. M
        BY <2>1, <2>3
      <4> QED
        BY <2>2, <2>4, <4>1, <4>2 DEF Chunked
    <3>2. Len(e.bufs) + 1 = M /\ Len(e.bufs) = M - 1
      BY <2>1, <2>4, <2>6
    <3>3. ASSUME NEW i \in 1 .. M - 1
          PROVE  /\ e.bufs[i] \in Seq(Byte) /\ Len(e.bufs[i]) >= 1 /\ off2[i + 1] = off2[i] + Len(e.bufs[i])
                 /\ \A j \in 1 .. Len(e.bufs[i]) : e.bufs[i][j] = W[off2[i] + j]
      <4>1. i + 1 \in 1 .. M /\ i \in 1 .. M /\ e.bufs[i] = b.bufs[i + 1]
        BY <2>1, <2>4, <2>6
      <4>2. off2[i] = off[i + 1] /\ off2[i + 1] = off[(i + 1) + 1]
        BY <4>1
      <4> HIDE DEF off2
      <4>3. \A k \in 1 .. M :
              /\ b.bufs[k] \in Seq(Byte) /\ Len(b.bufs[k]) >= 1 /\ off[k + 1] = off[k] + Len(b.bufs[k])
              /\ \A j \in 1 .. Len(b.bufs[k]) : b.bufs[k][j] = W[off[k] + j]
        BY <2>2, Zenon DEF Chunked
      <4> DEFINE m == i + 1
      <4>4. m \in 1 .. M /\ e.bufs[i] = b.bufs[m] /\ off2[i] = off[m] /\ off2[i + 1] = off[m + 1]
        BY <4>1, <4>2, Zenon
      <4> HIDE DEF m
      <4> QED
        BY <4>3, <4>4, Zenon
    <3>5. \A i \in 1 .. M : off2[i] <= fed
      <4>1. \A i \in 1 .. M : i + 1 \in 1 .. M + 1
        BY <2>1
      <4> QED
        BY <2>2, <4>1 DEF Chunked
    <3> HIDE DEF off2
    <3>4. Chunked(e.bufs, W, off2, pos + Len(e.buf0), fed)
      BY <2>7, <3>1, <3>2, <3>3, <3>5 DEF Chunked
    <3> QED
      BY <3>4 DEF off2
  <2>9. b.open
    BY <2>4 DEF Held
  <2>10. e.open
    BY <2>6, <2>9 DEF SameHeader
  <2>11. Held(e, W, pos, fed)
    <3>1. pos + (Len(e.buf0) - e.pos0) = pos + Len(e.buf0) /\ e.pos0 \in 0 .. Len(e.buf0)
          /\ (\A j \in 1 .. Len(e.buf0) - e.pos0 : e.buf0[e.pos0 + j] = W[pos + j])
          /\ e.bufs \in Seq(Seq(Byte))
      BY <2>1, <2>4, <2>6, <2>7
    <3>2. pos <= fed /\ b.len = fed - pos
      BY DEF Held
    <3>3. \E off3 : Chunked(e.bufs, W, off3, pos + (Len(e.buf0) - e.pos0), fed)
      BY <2>8, <3>1
    <3> QED
      BY <2>1, <2>6, <2>7, <2>10, <3>1, <3>2, <3>3 DEF Held
  <2> QED
    BY <1>2, <2>4, <2>6, <2>7, <2>11 DEF e
<1> QED
  BY <1>1, <1>2

(* Bytes of the first chunk are read.                                      *)
LEMMA AdvanceHeld ==
  ASSUME NEW b, NEW W \in Seq(Byte), NEW pos, NEW fed, Held(b, W, pos, fed), fed <= Len(W),
         NEW n \in 0 .. Len(b.buf0) - b.pos0
  PROVE  /\ Held(Advance(b, n), W, pos + n, fed) /\ SameHeader(b, Advance(b, n))
         /\ Advance(b, n).bufs = b.bufs /\ Advance(b, n).buf0 = b.buf0 /\ Advance(b, n).pos0 = b.pos0 + n
         /\ InFirst(b, n) = Part(W, pos, n) /\ pos + n <= fed
<1> DEFINE a == Advance(b, n)
<1>1. pos \in Nat /\ fed \in Nat /\ pos <= fed /\ b.len = fed - pos /\ Len(b.buf0) \in Nat /\ b.pos0 \in Nat
      /\ b.pos0 <= Len(b.buf0) /\ n \in Nat /\ b.pos0 + n <= Len(b.buf0)
  BY LenProperties DEF Held
<1>2. /\ IsBuffer(a) /\ SameHeader(b, a) /\ a.bufs = b.bufs /\ a.buf0 = b.buf0
      /\ a.pos0 = b.pos0 + n /\ a.len = b.len - n
  <2>1. IsBuffer(b)
    BY DEF Held
  <2>2. a = [b EXCEPT !.pos0 = @ + n, !.len = @ - n]
    BY DEF Advance
  <2> HIDE DEF a
  <2> QED
    BY <2>1, <2>2 DEF IsBuffer, SameHeader
<1> HIDE DEF a
<1>3. PICK off : Chunked(b.bufs, W, off, pos + (Len(b.buf0) - b.pos0), fed)
  BY DEF Held
<1>4. pos + (Len(b.buf0) - b.pos0) = (pos + n) + (Len(a.buf0) - a.pos0)
  BY <1>1, <1>2
<1>5. pos + (Len(b.buf0) - b.pos0) <= fed
  <2>1. 1 \in 1 .. Len(b.bufs) + 1
    BY LenProperties DEF Held
  <2> QED
    BY <1>3, <2>1 DEF Chunked
<1>6. SameBytes(b.buf0, b.pos0, W, pos, n)
  <2>1. \A j \in 1 .. Len(b.buf0) - b.pos0 : b.buf0[b.pos0 + j] = W[pos + j]
    BY DEF Held
  <2>2. \A j \in 1 .. n : j \in 1 .. Len(b.buf0) - b.pos0
    BY <1>1
  <2> QED
    BY <2>1, <2>2, Zenon DEF SameBytes
<1>7. InFirst(b, n) = Part(W, pos, n)
  <2>1. InFirst(b, n) = Part(b.buf0, b.pos0, n)
    BY DEF InFirst, Part
  <2>2. pos + n <= Len(W) /\ b.buf0 \in Seq(Byte)
    BY <1>1, <1>5, LenProperties DEF Held
  <2>3. b.pos0 \in Nat /\ n \in Nat /\ pos \in Nat /\ b.pos0 + n <= Len(b.buf0)
    BY <1>1
  <2>4. Part(b.buf0, b.pos0, n) = Part(W, pos, n)
    BY <1>6, <2>2, <2>3, SliceEqual
  <2> QED
    BY <2>1, <2>4
<1>8. \A j \in 1 .. Len(a.buf0) - a.pos0 : a.buf0[a.pos0 + j] = W[(pos + n) + j]
  <2>1. ASSUME NEW j \in 1 .. Len(a.buf0) - a.pos0 PROVE a.buf0[a.pos0 + j] = W[(pos + n) + j]
    <3>0. j \in 1 .. Len(b.buf0) - (b.pos0 + n)
      BY <1>2, <2>1
    <3>1. n + j \in 1 .. Len(b.buf0) - b.pos0 /\ a.pos0 + j = b.pos0 + (n + j) /\ (pos + n) + j = pos + (n + j)
      <4> DEFINE L == Len(b.buf0)
      <4>1. L \in Nat /\ pos \in Nat /\ b.pos0 \in Nat /\ n \in Nat /\ j \in 1 .. L - (b.pos0 + n)
            /\ a.pos0 = b.pos0 + n
        BY <1>1, <1>2, <3>0
      <4>2. n + j \in 1 .. L - b.pos0
        <5> HIDE DEF L
        <5> QED
          BY <4>1
      <4> QED
        BY <4>1, <4>2
    <3>2. b.buf0[b.pos0 + (n + j)] = W[pos + (n + j)]
      BY <3>1 DEF Held
    <3> QED
      BY <1>2, <3>1, <3>2
  <2> QED
    BY <2>1
<1>9. pos + n \in Nat /\ pos + n <= fed /\ a.len = fed - (pos + n) /\ a.pos0 \in 0 .. Len(a.buf0)
  BY SMTT(30), <1>1, <1>2, <1>5
<1>10. a.buf0 \in Seq(Byte) /\ a.bufs \in Seq(Seq(Byte)) /\ (a.open \/ (a.pos0 = Len(a.buf0) /\ a.bufs = <<>>))
  <2>1. b.open \/ (b.pos0 = Len(b.buf0) /\ b.bufs = <<>>)
    BY DEF Held
  <2> QED
    BY <1>1, <1>2, <2>1 DEF Held, SameHeader
<1>11. Held(a, W, pos + n, fed)
  BY <1>1, <1>2, <1>3, <1>4, <1>8, <1>9, <1>10 DEF Held
<1> QED
  BY <1>2, <1>7, <1>9, <1>11 DEF a

----------------------------------------------------------------------------
(* A read takes as many chunks as it needs. *)

(* The turns of its loop: there is one function of them.                   *)
ReadsOn(r, b, size, k) ==
  r = [n \in 0 .. k |-> IF n = 0 THEN [buf |-> b, bytes |-> <<>>, left |-> size] ELSE ReadChunk(r[n - 1])]
LEMMA ReadTurnsExist ==
  ASSUME NEW b, NEW size, NEW k \in Nat
  PROVE  \E r : ReadsOn(r, b, size, k)
<1> DEFINE S == {n \in Nat : \E r : ReadsOn(r, b, size, n)}
<1>1. 0 \in S
  <2> DEFINE r == [n \in 0 .. 0 |-> [buf |-> b, bytes |-> <<>>, left |-> size]]
  <2>1. ReadsOn(r, b, size, 0)
    BY DEF ReadsOn
  <2> QED
    BY <2>1
<1>2. ASSUME NEW n \in Nat, n \in S PROVE n + 1 \in S
  <2>1. PICK r : ReadsOn(r, b, size, n)
    BY <1>2
  <2> DEFINE q == [m \in 0 .. n + 1 |-> IF m <= n THEN r[m] ELSE ReadChunk(r[n])]
  <2>2. \A m \in 0 .. n : r[m] = IF m = 0 THEN [buf |-> b, bytes |-> <<>>, left |-> size] ELSE ReadChunk(r[m - 1])
    BY <2>1 DEF ReadsOn
  <2>3. ASSUME NEW m \in 0 .. n + 1
        PROVE  q[m] = IF m = 0 THEN [buf |-> b, bytes |-> <<>>, left |-> size] ELSE ReadChunk(q[m - 1])
    <3>1. CASE m = n + 1
      <4>1. q[m] = ReadChunk(r[n]) /\ m # 0 /\ m - 1 = n /\ q[n] = r[n]
        BY <3>1
      <4> QED
        BY <4>1
    <3>2. CASE m # n + 1
      <4>1. m \in 0 .. n /\ q[m] = r[m]
        BY <3>2
      <4>2. m # 0 => q[m - 1] = r[m - 1]
        BY <3>2
      <4> HIDE DEF q
      <4> QED
        BY <2>2, <4>1, <4>2
    <3> QED
      BY <3>1, <3>2
  <2>4. q = [m \in 0 .. n + 1 |-> q[m]]
    OBVIOUS
  <2> HIDE DEF q
  <2>5. ReadsOn(q, b, size, n + 1)
    BY <2>3, <2>4 DEF ReadsOn
  <2> QED
    BY <2>5
<1>3. Nat \subseteq S
  <2> HIDE DEF S
  <2> QED
    BY <1>1, <1>2, Induction
<1> QED
  BY <1>3

LEMMA ReadTurnsIs ==
  ASSUME NEW b, NEW size, Len(b.bufs) \in Nat
  PROVE  ReadsOn(ReadTurns(b, size), b, size, Len(b.bufs) + 1)
<1>0. Len(b.bufs) + 1 \in Nat
  OBVIOUS
<1>1. PICK r : ReadsOn(r, b, size, Len(b.bufs) + 1)
  BY <1>0, ReadTurnsExist
<1>2. r = [n \in 0 .. Len(b.bufs) + 1 |->
             IF n = 0 THEN [buf |-> b, bytes |-> <<>>, left |-> size] ELSE ReadChunk(r[n - 1])]
  BY <1>1 DEF ReadsOn
<1> QED
  BY <1>2 DEF ReadTurns, ReadsOn

(* What has been read after n turns, of `size' bytes from `pos' on: all,   *)
(* or what was in n chunks.                                                *)
ReadSoFar(r, n, b, W, pos, fed, size) ==
  /\ r = [buf |-> r.buf, bytes |-> r.bytes, left |-> r.left]
  /\ r.left \in 0 .. size /\ r.bytes = Part(W, pos, size - r.left)
  /\ Held(r.buf, W, pos + (size - r.left), fed) /\ SameHeader(b, r.buf)
  /\ r.left = 0 \/ n = 0 \/ (r.buf.pos0 = Len(r.buf.buf0) /\ Len(r.buf.bufs) <= Len(b.bufs) + 1 - n)
  /\ n = 0 => r.buf = b

LEMMA ReadSoFarStarts ==
  ASSUME NEW b, NEW W \in Seq(Byte), NEW pos, NEW fed, Held(b, W, pos, fed), fed <= Len(W),
         NEW size \in Nat
  PROVE  ReadSoFar([buf |-> b, bytes |-> <<>>, left |-> size], 0, b, W, pos, fed, size)
<1>1. pos \in Nat /\ fed \in Nat /\ pos <= fed /\ Len(W) \in Nat
  BY LenProperties DEF Held
<1>2. Part(W, pos, size - size) = <<>>
  <2>1. size - size = 0 /\ 0 \in Nat /\ pos + 0 <= Len(W)
    BY <1>1
  <2>2. Part(W, pos, 0) \in Seq(Byte) /\ Len(Part(W, pos, 0)) = 0
    BY <1>1, <2>1, Slice
  <2> QED
    BY <2>1, <2>2, EmptySeq
<1>3. pos + (size - size) = pos /\ size \in 0 .. size
  BY <1>1
<1> DEFINE r == [buf |-> b, bytes |-> <<>>, left |-> size]
<1>4. r.buf = b /\ r.bytes = <<>> /\ r.left = size /\ r = [buf |-> r.buf, bytes |-> r.bytes, left |-> r.left]
  OBVIOUS
<1> HIDE DEF r
<1>5. SameHeader(b, b)
  BY DEF SameHeader
<1>6. ReadSoFar(r, 0, b, W, pos, fed, size)
  BY <1>2, <1>3, <1>4, <1>5 DEF ReadSoFar
<1> QED
  BY <1>6 DEF r

LEMMA ReadSoFarGoesOn ==
  ASSUME NEW b, NEW W \in Seq(Byte), NEW pos \in Nat, NEW fed \in Nat, fed <= Len(W),
         NEW size \in Nat, pos + size <= fed, Len(b.bufs) \in Nat,
         NEW n \in Nat, NEW r, ReadSoFar(r, n, b, W, pos, fed, size)
  PROVE  ReadSoFar(ReadChunk(r), n + 1, b, W, pos, fed, size)
<1>1. CASE r.left = 0
  <2>1. ReadChunk(r) = r
    BY <1>1 DEF ReadChunk
  <2> QED
    BY <1>1, <2>1 DEF ReadSoFar
<1>2. CASE r.left # 0
  <2> DEFINE at == pos + (size - r.left)
  <2> DEFINE e == ensureFirstBuf(r.buf)
  <2> DEFINE nread == Len(e.buf0) - e.pos0
  <2> DEFINE k == IF r.left <= nread THEN r.left ELSE nread
  <2> DEFINE a == Advance(e, k)
  <2>1. /\ r.left \in 1 .. size /\ at \in Nat /\ at < fed /\ Held(r.buf, W, at, fed) /\ SameHeader(b, r.buf)
        /\ r.bytes = Part(W, pos, size - r.left) /\ size - r.left \in Nat /\ at + r.left = pos + size
    BY SMTT(30), <1>2 DEF ReadSoFar
  <2> HIDE DEF at
  <2>2. /\ Held(e, W, at, fed) /\ SameHeader(r.buf, e) /\ e.pos0 < Len(e.buf0)
        /\ Len(e.bufs) = Len(r.buf.bufs) - (IF r.buf.pos0 = Len(r.buf.buf0) THEN 1 ELSE 0)
    BY <2>1, EnsureHeld
  <2>3. ReadChunk(r) = [buf |-> a, bytes |-> r.bytes \o InFirst(e, k), left |-> r.left - k]
    BY <1>2, Zenon DEF ReadChunk, ReadUpTo, ReadBytes, len0
  <2> HIDE DEF e
  <2>4. nread \in Nat /\ nread >= 1 /\ r.left \in Nat
    <3>1. Len(e.buf0) \in Nat /\ e.pos0 \in 0 .. Len(e.buf0) /\ e.pos0 < Len(e.buf0)
      BY <2>2, LenProperties DEF Held
    <3> DEFINE L == Len(e.buf0)
    <3>2. L \in Nat /\ e.pos0 \in 0 .. L /\ e.pos0 < L
      BY <3>1
    <3>3. L - e.pos0 \in Nat /\ L - e.pos0 >= 1
      <4> HIDE DEF L
      <4> QED
        BY <3>2
    <3>4. r.left \in Nat
      BY <2>1
    <3> QED
      BY <3>3, <3>4
  <2> HIDE DEF nread
  <2>5. k \in 1 .. r.left /\ k \in 0 .. nread /\ (k = r.left \/ k = nread)
    BY <2>1, <2>4
  <2> HIDE DEF k
  <2>6. k \in 0 .. Len(e.buf0) - e.pos0
    BY <2>5 DEF nread
  <2>7. /\ Held(a, W, at + k, fed) /\ SameHeader(e, a) /\ a.bufs = e.bufs /\ a.buf0 = e.buf0
        /\ a.pos0 = e.pos0 + k /\ InFirst(e, k) = Part(W, at, k)
    BY <2>2, <2>6, AdvanceHeld
  <2> HIDE DEF a
  <2>8. r.bytes \o InFirst(e, k) = Part(W, pos, size - (r.left - k))
    <3>1. at = pos + (size - r.left)
      BY DEF at
    <3> DEFINE m == size - r.left
    <3> DEFINE left == r.left
    <3>2. left \in 1 .. size /\ k \in 1 .. left /\ m = size - left
      BY <2>1, <2>5
    <3>3. r.bytes = Part(W, pos, m) /\ InFirst(e, k) = Part(W, pos + m, k)
      BY <2>1, <2>7, <3>1
    <3>4. size - (r.left - k) = size - (left - k)
      OBVIOUS
    <3> HIDE DEF m, left
    <3>5. m \in Nat /\ k \in Nat /\ size - (left - k) = m + k /\ pos + m + k <= pos + size
      BY <3>2
    <3>6. Len(W) \in Nat /\ pos + m + k <= Len(W)
      BY <3>5, LenProperties
    <3>7. Part(W, pos, m) \o Part(W, pos + m, k) = Part(W, pos, m + k)
      BY SMTT(30), <3>5, <3>6, SliceConcat
    <3> QED
      BY <3>3, <3>4, <3>5, <3>7
  <2> DEFINE q == [buf |-> a, bytes |-> r.bytes \o InFirst(e, k), left |-> r.left - k]
  <2>9. q.buf = a /\ q.bytes = r.bytes \o InFirst(e, k) /\ q.left = r.left - k
        /\ q = [buf |-> q.buf, bytes |-> q.bytes, left |-> q.left]
    OBVIOUS
  <2> HIDE DEF q
  <2>10. q.left \in 0 .. size /\ at + k = pos + (size - q.left)
    <3>1. at = pos + (size - r.left)
      BY DEF at
    <3> DEFINE left == r.left
    <3>2. left \in 1 .. size /\ k \in 1 .. left /\ q.left = left - k /\ at = pos + (size - left)
      BY <2>1, <2>5, <2>9, <3>1
    <3> HIDE DEF left
    <3> QED
      BY <3>2
  <2>11. SameHeader(b, a)
    BY <2>1, <2>2, <2>7 DEF SameHeader
  <2>12. q.left = 0 \/ (a.pos0 = Len(a.buf0) /\ Len(a.bufs) <= Len(b.bufs) + 1 - (n + 1))
    <3> SUFFICES ASSUME q.left # 0 PROVE a.pos0 = Len(a.buf0) /\ Len(a.bufs) <= Len(b.bufs) + 1 - (n + 1)
      OBVIOUS
    <3>1. k = nread
      BY <2>4, <2>5, <2>9
    <3>2. a.pos0 = Len(a.buf0)
      <4>1. Len(e.buf0) \in Nat /\ e.pos0 \in 0 .. Len(e.buf0)
        BY <2>2, LenProperties DEF Held
      <4> QED
        BY <2>7, <3>1, <4>1 DEF nread
    <3>3. Len(r.buf.bufs) \in Nat
      BY <2>1, LenProperties DEF Held
    <3>4. CASE n = 0
      <4>1. r.buf = b
        BY <3>4 DEF ReadSoFar
      <4> DEFINE M == Len(b.bufs)
      <4>2. M \in Nat /\ Len(a.bufs) \in {M, M - 1}
        <5>1. Len(a.bufs) = Len(r.buf.bufs) - (IF r.buf.pos0 = Len(r.buf.buf0) THEN 1 ELSE 0)
          BY <2>2, <2>7
        <5>2. M \in Nat /\ Len(r.buf.bufs) = M
          BY <3>3, <4>1
        <5> HIDE DEF M
        <5>3. Len(a.bufs) = M - 1 \/ Len(a.bufs) = M
          BY <5>1, <5>2
        <5> QED
          BY <5>2, <5>3
      <4>3. Len(a.bufs) <= M + 1 - (n + 1)
        <5> HIDE DEF M
        <5> QED
          BY <3>4, <4>2
      <4> QED
        BY <3>2, <4>3
    <3>5. CASE n # 0
      <4>1. r.buf.pos0 = Len(r.buf.buf0) /\ Len(r.buf.bufs) <= Len(b.bufs) + 1 - n
        BY <1>2, <3>5 DEF ReadSoFar
      <4>2. Len(a.bufs) = Len(r.buf.bufs) - 1
        BY <2>2, <2>7, <4>1
      <4> DEFINE M == Len(b.bufs)
      <4> DEFINE K == Len(r.buf.bufs)
      <4>3. M \in Nat /\ K \in Nat /\ K <= M + 1 - n /\ Len(a.bufs) = K - 1
        BY <3>3, <4>1, <4>2
      <4>4. Len(a.bufs) <= M + 1 - (n + 1)
        <5> HIDE DEF M, K
        <5> QED
          BY <4>3
      <4> QED
        BY <3>2, <4>4
    <3> QED
      BY <3>4, <3>5
  <2>13. ReadSoFar(q, n + 1, b, W, pos, fed, size)
    <3>1. n + 1 # 0
      OBVIOUS
    <3>2. q.bytes = Part(W, pos, size - q.left)
      BY <2>8, <2>9
    <3>3. Held(q.buf, W, pos + (size - q.left), fed) /\ SameHeader(b, q.buf)
      BY <2>7, <2>9, <2>10, <2>11
    <3> QED
      BY <2>9, <2>10, <2>12, <3>1, <3>2, <3>3 DEF ReadSoFar
  <2> QED
    BY <2>3, <2>13 DEF q
<1> QED
  BY <1>1, <1>2

(* A read that does not ask for more than there is, gets it.               *)
LEMMA ReadHeld ==
  ASSUME NEW b, NEW W \in Seq(Byte), NEW pos, NEW fed, Held(b, W, pos, fed), fed <= Len(W),
         NEW size \in Nat, pos + size <= fed
  PROVE  LET r == ReadBuffer(b, size)
         IN /\ r = [buf |-> r.buf, bytes |-> r.bytes, left |-> r.left] /\ r.bytes = Part(W, pos, size)
            /\ Held(r.buf, W, pos + size, fed) /\ SameHeader(b, r.buf)
<1>1. pos \in Nat /\ fed \in Nat /\ Len(b.bufs) \in Nat
  BY LenProperties DEF Held
<1> DEFINE turns == Len(b.bufs) + 1
<1> DEFINE t == ReadTurns(b, size)
<1>2. ReadsOn(t, b, size, turns)
  BY <1>1, ReadTurnsIs
<1> HIDE DEF t
<1>3. turns \in Nat
  BY <1>1
<1>4. t[0] = [buf |-> b, bytes |-> <<>>, left |-> size] /\ \A n \in 0 .. turns : n # 0 => t[n] = ReadChunk(t[n - 1])
  <2> HIDE DEF turns
  <2> QED
    BY <1>2, <1>3 DEF ReadsOn
<1> DEFINE S == {n \in Nat : n <= turns => ReadSoFar(t[n], n, b, W, pos, fed, size)}
<1>5. 0 \in S
  BY <1>4, ReadSoFarStarts
<1>6. ASSUME NEW n \in Nat, n \in S PROVE n + 1 \in S
  <2> SUFFICES ASSUME n + 1 <= turns PROVE ReadSoFar(t[n + 1], n + 1, b, W, pos, fed, size)
    OBVIOUS
  <2> HIDE DEF turns
  <2>1. ReadSoFar(t[n], n, b, W, pos, fed, size)
    BY <1>3, <1>6
  <2>2. t[n + 1] = ReadChunk(t[n])
    <3>1. n + 1 \in 0 .. turns /\ n + 1 # 0 /\ (n + 1) - 1 = n
      BY <1>3
    <3>2. t[n + 1] = ReadChunk(t[(n + 1) - 1])
      BY <1>4, <3>1, Zenon
    <3> QED
      BY <3>1, <3>2
  <2>3. ReadSoFar(ReadChunk(t[n]), n + 1, b, W, pos, fed, size)
    BY <1>1, <2>1, ReadSoFarGoesOn
  <2> QED
    BY <2>2, <2>3
<1>7. Nat \subseteq S
  <2> HIDE DEF S
  <2> QED
    BY <1>5, <1>6, Induction
<1>8. ReadSoFar(t[turns], turns, b, W, pos, fed, size)
  BY <1>3, <1>7
<1> DEFINE q == t[turns]
<1>9. q.left = 0
  <2> SUFFICES ASSUME q.left # 0 PROVE FALSE
    OBVIOUS
  <2> HIDE DEF q
  <2>1. /\ q.left \in 0 .. size /\ Held(q.buf, W, pos + (size - q.left), fed)
        /\ q.buf.pos0 = Len(q.buf.buf0) /\ Len(q.buf.bufs) <= 0
    BY <1>1, <1>8 DEF ReadSoFar, q
  <2>2. Len(q.buf.bufs) = 0 /\ Len(q.buf.buf0) \in Nat
    BY SMTT(30), <2>1, LenProperties DEF Held
  <2> DEFINE at == pos + (size - q.left)
  <2>3. at \in Nat /\ at + (Len(q.buf.buf0) - q.buf.pos0) = at
    BY <1>1, <2>1, <2>2
  <2> HIDE DEF at
  <2>4. PICK off : Chunked(q.buf.bufs, W, off, at, fed)
    BY <2>1, <2>3 DEF Held, at
  <2>5. at = fed
    BY <2>2, <2>4 DEF Chunked
  <2> QED
    BY <1>1, <2>1, <2>5 DEF at
<1>10. ReadBuffer(b, size) = q
  BY DEF ReadBuffer, t
<1> HIDE DEF q
<1>11. size - q.left = size
  BY <1>9
<1>12. q.bytes = Part(W, pos, size) /\ Held(q.buf, W, pos + size, fed) /\ SameHeader(b, q.buf)
  BY <1>8, <1>11 DEF ReadSoFar, q
<1>13. q = [buf |-> q.buf, bytes |-> q.bytes, left |-> q.left]
  BY <1>8 DEF ReadSoFar, q
<1> QED
  BY <1>10, <1>12, <1>13

(* Bytes arrive.                                                           *)
LEMMA FeedHeld ==
  ASSUME NEW b, NEW W \in Seq(Byte), NEW pos, NEW fed, Held(b, W, pos, fed),
         NEW n \in Nat \ {0}, fed + n <= Len(W)
  PROVE  LET c == feed(b, Part(W, fed, n))
         IN /\ Held(c, W, pos, fed + n) /\ c.curMessageType = b.curMessageType
            /\ c.curMessageLen = b.curMessageLen /\ c.curMessageLenUnread = b.curMessageLenUnread
            /\ c.curMessageReady = b.curMessageReady
<1> DEFINE chunk == Part(W, fed, n)
<1> DEFINE c == feed(b, chunk)
<1> DEFINE M == Len(b.bufs)
<1> DEFINE L == Len(b.buf0)
<1>1. /\ pos \in Nat /\ fed \in Nat /\ pos <= fed /\ b.len = fed - pos /\ M \in Nat /\ L \in Nat
      /\ b.pos0 \in 0 .. L /\ b.bufs \in Seq(Seq(Byte)) /\ b.buf0 \in Seq(Byte) /\ IsBuffer(b)
  BY LenProperties DEF Held
<1>2. chunk \in Seq(Byte) /\ Len(chunk) = n /\ \A j \in 1 .. n : chunk[j] = W[fed + j]
  BY <1>1, Slice
<1>3. PICK off : Chunked(b.bufs, W, off, pos + (L - b.pos0), fed)
  BY DEF Held
<1> HIDE DEF chunk
<1>4. CASE ~ b.open \/ (b.pos0 = Len(b.buf0) /\ b.bufs = <<>>)
  <2>1. b.pos0 = L /\ b.bufs = <<>> /\ M = 0
    BY <1>4, EmptySeq DEF Held
  <2>2. pos = fed
    <3>1. off[1] = pos + (L - b.pos0) /\ off[1] = fed
      BY <1>3, <2>1 DEF Chunked
    <3>2. L - b.pos0 = 0
      BY <1>1, <2>1
    <3> HIDE DEF L
    <3> QED
      BY <1>1, <3>1, <3>2
  <2>3. c = [b EXCEPT !.buf0 = chunk, !.pos0 = 0, !.len = Len(chunk), !.open = TRUE]
    BY <1>4 DEF feed, len0
  <2> HIDE DEF c
  <2>4. /\ IsBuffer(c) /\ c.buf0 = chunk /\ c.bufs = b.bufs /\ c.pos0 = 0 /\ c.len = n /\ c.open = TRUE
        /\ c.curMessageType = b.curMessageType
        /\ c.curMessageLen = b.curMessageLen /\ c.curMessageLenUnread = b.curMessageLenUnread
        /\ c.curMessageReady = b.curMessageReady
    BY <1>1, <1>2, <2>3 DEF IsBuffer
  <2>5. Chunked(c.bufs, W, [i \in 1 .. 1 |-> fed + n], fed + n, fed + n)
    <3>1. [i \in 1 .. 1 |-> fed + n] \in [1 .. 1 -> Nat]
      BY <1>1
    <3>2. Len(c.bufs) = 0 /\ 1 .. 0 = {} /\ 0 + 1 = 1
      BY <2>1, <2>4
    <3> DEFINE one == [i \in 1 .. 1 |-> fed + n]
    <3>3. one[1] = fed + n /\ \A i \in 1 .. 1 : one[i] <= fed + n
      BY <1>1
    <3> HIDE DEF one
    <3> QED
      BY <3>1, <3>2, <3>3 DEF Chunked, one
  <2>6. pos + (Len(c.buf0) - c.pos0) = fed + n
    <3>1. Len(c.buf0) = n /\ c.pos0 = 0
      BY <1>2, <2>4
    <3> QED
      BY <1>1, <2>2, <3>1
  <2>7. Held(c, W, pos, fed + n)
    <3>1. /\ c.buf0 \in Seq(Byte) /\ c.pos0 \in 0 .. Len(c.buf0) /\ c.bufs \in Seq(Seq(Byte))
          /\ c.len = (fed + n) - pos /\ pos <= fed + n /\ fed + n \in Nat
      BY <1>1, <1>2, <2>2, <2>4
    <3>2. \A j \in 1 .. Len(c.buf0) - c.pos0 : c.buf0[c.pos0 + j] = W[pos + j]
      BY <1>2, <2>2, <2>4
    <3> QED
      BY <1>1, <2>4, <2>5, <2>6, <3>1, <3>2 DEF Held
  <2> QED
    BY <2>4, <2>7, Zenon DEF c, chunk
<1>5. CASE ~ (~ b.open \/ (b.pos0 = Len(b.buf0) /\ b.bufs = <<>>))
  <2>1. c = [b EXCEPT !.bufs = Append(@, chunk), !.len = @ + Len(chunk)]
    BY <1>5 DEF feed, len0
  <2> HIDE DEF c
  <2>2. /\ IsBuffer(c) /\ c.buf0 = b.buf0 /\ c.bufs = Append(b.bufs, chunk) /\ c.pos0 = b.pos0
        /\ c.len = b.len + n /\ c.open = b.open
        /\ c.curMessageType = b.curMessageType
        /\ c.curMessageLen = b.curMessageLen /\ c.curMessageLenUnread = b.curMessageLenUnread
        /\ c.curMessageReady = b.curMessageReady
    BY <1>1, <1>2, <2>1 DEF IsBuffer
  <2>3. c.bufs \in Seq(Seq(Byte)) /\ Len(c.bufs) = M + 1 /\ (\A i \in 1 .. M : c.bufs[i] = b.bufs[i])
        /\ c.bufs[M + 1] = chunk
    BY <1>1, <1>2, <2>2, AppendProperties
  <2> DEFINE off2 == [i \in 1 .. M + 2 |-> IF i <= M + 1 THEN off[i] ELSE fed + n]
  <2> HIDE DEF M, L
  <2>4. /\ off \in [1 .. M + 1 -> Nat] /\ off[1] = pos + (L - b.pos0) /\ off[M + 1] = fed
        /\ \A i \in 1 .. M + 1 : off[i] <= fed
        /\ \A i \in 1 .. M :
             /\ b.bufs[i] \in Seq(Byte) /\ Len(b.bufs[i]) >= 1 /\ off[i + 1] = off[i] + Len(b.bufs[i])
             /\ \A j \in 1 .. Len(b.bufs[i]) : b.bufs[i][j] = W[off[i] + j]
    BY <1>3 DEF Chunked, M
  <2>5. /\ off2 \in [1 .. M + 2 -> Nat] /\ off2[1] = off[1] /\ off2[M + 2] = fed + n
        /\ off2[M + 1] = fed /\ \A i \in 1 .. M + 2 : off2[i] <= fed + n
    BY <1>1, <2>4
  <2>6. ASSUME NEW i \in 1 .. M + 1
        PROVE  /\ c.bufs[i] \in Seq(Byte) /\ Len(c.bufs[i]) >= 1 /\ off2[i + 1] = off2[i] + Len(c.bufs[i])
               /\ \A j \in 1 .. Len(c.bufs[i]) : c.bufs[i][j] = W[off2[i] + j]
    <3>1. CASE i = M + 1
      <4>1. i + 1 = M + 2 /\ off2[i] = fed /\ off2[i + 1] = fed + n
        BY <1>1, <2>5, <3>1
      <4> HIDE DEF off2
      <4> QED
        BY <1>2, <2>3, <3>1, <4>1
    <3>2. CASE i # M + 1
      <4>1. i \in 1 .. M /\ off2[i] = off[i] /\ off2[i + 1] = off[i + 1]
        BY <1>1, <3>2
      <4>2. c.bufs[i] = b.bufs[i]
        BY <2>3, <4>1
      <4>3. /\ b.bufs[i] \in Seq(Byte) /\ Len(b.bufs[i]) >= 1 /\ off[i + 1] = off[i] + Len(b.bufs[i])
            /\ \A j \in 1 .. Len(b.bufs[i]) : b.bufs[i][j] = W[off[i] + j]
        BY <2>4, <4>1, Zenon
      <4> HIDE DEF off2
      <4> QED
        BY <4>1, <4>2, <4>3, Zenon
    <3> QED
      BY <3>1, <3>2
  <2> HIDE DEF off2
  <2>7. Chunked(c.bufs, W, off2, pos + (L - b.pos0), fed + n)
    <3>1. Len(c.bufs) + 1 = M + 2
      BY <1>1, <2>3
    <3> QED
      BY <2>3, <2>4, <2>5, <2>6, <3>1 DEF Chunked
  <2>8. Held(c, W, pos, fed + n)
    <3>1. c.len = (fed + n) - pos /\ pos <= fed + n /\ fed + n \in Nat /\ c.pos0 \in 0 .. L
      BY <1>1, <2>2
    <3>2. \A j \in 1 .. Len(c.buf0) - c.pos0 : c.buf0[c.pos0 + j] = W[pos + j]
      BY <2>2 DEF Held
    <3>3. \E o : Chunked(c.bufs, W, o, pos + (Len(c.buf0) - c.pos0), fed + n)
      BY <2>2, <2>7 DEF L
    <3>4. c.open
      BY <1>5, <2>2
    <3> QED
      BY <1>1, <2>2, <2>3, <3>1, <3>2, <3>3, <3>4 DEF Held, L
  <2> QED
    BY <2>2, <2>8, Zenon DEF c, chunk
<1> QED
  BY <1>4, <1>5

----------------------------------------------------------------------------
(* A length is four bytes. *)

LEMMA DivideByByte ==
  ASSUME NEW n \in Nat
  PROVE  /\ n \div 256 \in Nat /\ n % 256 \in Byte /\ n = (256 * (n \div 256)) + (n % 256)
         /\ n \div 65536 = (n \div 256) \div 256
         /\ n \div 16777216 = ((n \div 256) \div 256) \div 256
  BY SMT DEF Byte

(* The four bytes of a length give it back.                                *)
LEMMA LengthBytes ==
  ASSUME NEW n \in Nat, FitsInt32(n)
  PROVE  Bytes32(n) \in Seq(Byte) /\ Len(Bytes32(n)) = 4 /\ Int32(Bytes32(n)) = n
<1> DEFINE q == n \div 256
<1> DEFINE p == q \div 256
<1> DEFINE o == p \div 256
<1>1. q \in Nat /\ n % 256 \in Byte /\ n = (256 * q) + (n % 256)
  BY DivideByByte, SMT
<1>2. p \in Nat /\ q % 256 \in Byte /\ q = (256 * p) + (q % 256)
  BY <1>1, DivideByByte, SMT
<1>3. o \in Nat /\ p % 256 \in Byte /\ p = (256 * o) + (p % 256)
  BY <1>2, DivideByByte, SMT
<1>4. Bytes32(n) = <<o, p % 256, q % 256, n % 256>> /\ o < 128
  BY DivideByByte, SMT DEF Bytes32, FitsInt32
<1> HIDE DEF o, p, q
<1>5. <<o, p % 256, q % 256, n % 256>> \in Seq(Byte) /\ Len(<<o, p % 256, q % 256, n % 256>>) = 4
  BY <1>1, <1>2, <1>3, <1>4, SMT DEF Byte
<1>6. Int32(<<o, p % 256, q % 256, n % 256>>) = n
  BY <1>1, <1>2, <1>3, SMT DEF Int32
<1> QED
  BY <1>4, <1>5, <1>6, SMT

----------------------------------------------------------------------------
(* The bytes of messages. *)

(* Parts of a concatenation are parts of its sides.                        *)
LEMMA PartLeft ==
  ASSUME NEW v \in Seq(Byte), NEW w \in Seq(Byte), NEW m \in Nat, NEW n \in Nat, m + n <= Len(v)
  PROVE  Part(v \o w, m, n) = Part(v, m, n)
<1>1. v \o w \in Seq(Byte) /\ Len(v \o w) = Len(v) + Len(w) /\ Len(v) \in Nat /\ Len(w) \in Nat
      /\ \A i \in 1 .. Len(v) + Len(w) : (v \o w)[i] = IF i <= Len(v) THEN v[i] ELSE w[i - Len(v)]
  BY ConcatProperties, LenProperties
<1>2. ASSUME NEW j \in 1 .. n PROVE (v \o w)[m + j] = v[m + j]
  BY <1>1
<1>3. SameBytes(v \o w, m, v, m, n)
  BY <1>2 DEF SameBytes
<1> DEFINE x == v \o w
<1>4. m + n <= Len(x)
  BY <1>1
<1>5. x \in Seq(Byte) /\ SameBytes(x, m, v, m, n)
  BY <1>1, <1>3
<1> HIDE DEF x
<1>6. Part(x, m, n) = Part(v, m, n)
  BY <1>4, <1>5, SliceEqual
<1> QED
  BY <1>6 DEF x

LEMMA PartRight ==
  ASSUME NEW v \in Seq(Byte), NEW w \in Seq(Byte), NEW m \in Nat, NEW n \in Nat, m + n <= Len(w),
         NEW l, l = Len(v) + m
  PROVE  Part(v \o w, l, n) = Part(w, m, n)
<1>1. v \o w \in Seq(Byte) /\ Len(v \o w) = Len(v) + Len(w) /\ Len(v) \in Nat /\ Len(w) \in Nat
      /\ \A i \in 1 .. Len(v) + Len(w) : (v \o w)[i] = IF i <= Len(v) THEN v[i] ELSE w[i - Len(v)]
  BY ConcatProperties, LenProperties
<1>2. ASSUME NEW j \in 1 .. n PROVE (v \o w)[l + j] = w[m + j]
  <2> DEFINE L == Len(v)
  <2> DEFINE K == Len(w)
  <2>1. L \in Nat /\ K \in Nat /\ m + n <= K /\ l = L + m
    BY <1>1
  <2>2. l + j \in 1 .. L + K /\ ~ (l + j <= L) /\ l + j - L = m + j
    <3> HIDE DEF L, K
    <3> QED
      BY <2>1
  <2> QED
    BY <1>1, <2>2
<1>3. SameBytes(v \o w, l, w, m, n)
  BY <1>2 DEF SameBytes
<1> DEFINE x == v \o w
<1>4. l \in Nat /\ l + n <= Len(x)
  BY <1>1
<1>5. x \in Seq(Byte) /\ SameBytes(x, l, w, m, n)
  BY <1>1, <1>3
<1> HIDE DEF x
<1>6. Part(x, l, n) = Part(w, m, n)
  BY <1>4, <1>5, SliceEqual
<1> QED
  BY <1>6 DEF x

LEMMA PartOfRight ==
  ASSUME NEW v \in Seq(Byte), NEW w \in Seq(Byte), NEW n \in Nat, n <= Len(w), NEW l, l = Len(v)
  PROVE  Part(v \o w, l, n) = Part(w, 0, n)
<1> DEFINE m == 0
<1>1. m \in Nat /\ m + n <= Len(w) /\ l = Len(v) + m
  BY LenProperties
<1> HIDE DEF m
<1>2. Part(v \o w, l, n) = Part(w, m, n)
  BY <1>1, PartRight
<1> QED
  BY <1>2 DEF m

LEMMA PartWhole ==
  ASSUME NEW w \in Seq(Byte), NEW n, n = Len(w)
  PROVE  Part(w, 0, n) = w
<1>1. Len(w) \in Nat /\ 0 + n = Len(w) /\ 0 + 1 = 1
  BY LenProperties
<1> QED
  BY <1>1, SubSeqFull DEF Part

(* A message is its type, its length and its payload.                      *)
LEMMA MessageParts ==
  ASSUME NEW m, IsMessage(m)
  PROVE  LET w == Message(m[1], m[2])
             n == Len(m[2])
         IN /\ m = <<m[1], m[2]>> /\ m[1] \in Nat \ {0} /\ m[2] \in Seq(Byte) /\ n \in Nat
            /\ w \in Seq(Byte) /\ Len(w) = n + 5
            /\ Part(w, 0, 1) = <<m[1]>> /\ Part(w, 5, n) = m[2]
            /\ Len(Part(w, 1, 4)) = 4 /\ Int32(Part(w, 1, 4)) = n + 4
<1> DEFINE n == Len(m[2])
<1> DEFINE type == <<m[1]>>
<1> DEFINE length == Bytes32(n + 4)
<1> DEFINE w == Message(m[1], m[2])
<1>1. m = <<m[1], m[2]>> /\ m[1] \in Byte /\ m[1] # 0 /\ m[2] \in Seq(Byte) /\ FitsInt32(n + 4)
  BY DEF IsMessage
<1>2. n \in Nat /\ m[1] \in Nat \ {0}
  <2>1. n \in Nat
    BY <1>1, LenProperties
  <2>2. \A x \in Byte : x # 0 => x \in Nat \ {0}
    BY DEF Byte
  <2> QED
    BY <1>1, <2>1, <2>2
<1>3. type \in Seq(Byte) /\ Len(type) = 1
  BY <1>1, SMT
<1>4. length \in Seq(Byte) /\ Len(length) = 4 /\ Int32(length) = n + 4
  BY <1>1, <1>2, LengthBytes, SMT
<1>5. w = (type \o length) \o m[2]
  BY DEF Message
<1> HIDE DEF type, length, w
<1> DEFINE v == type \o length
<1>6. v \in Seq(Byte) /\ Len(v) = 5 /\ w \in Seq(Byte) /\ Len(w) = n + 5
  <2>1. v \in Seq(Byte) /\ Len(v) = Len(type) + Len(length)
    BY <1>3, <1>4, ConcatProperties
  <2>2. Len(v) = 5
    <3> HIDE DEF v
    <3> QED
      BY <1>3, <1>4, <2>1
  <2>3. v \o m[2] \in Seq(Byte) /\ Len(v \o m[2]) = Len(v) + n
    <3> DEFINE payload == m[2]
    <3>1. payload \in Seq(Byte)
      BY <1>1
    <3> HIDE DEF v, payload
    <3>2. v \o payload \in Seq(Byte) /\ Len(v \o payload) = Len(v) + Len(payload)
      BY <2>1, <3>1, ConcatProperties
    <3> QED
      BY <3>2 DEF payload
  <2>4. w \in Seq(Byte) /\ Len(w) = Len(v) + n
    BY <1>5, <2>3
  <2> HIDE DEF v
  <2>5. Len(w) = n + 5
    BY <1>2, <2>2, <2>4
  <2> QED
    BY <2>1, <2>2, <2>4, <2>5
<1>7. /\ 0 \in Nat /\ 1 \in Nat /\ 4 \in Nat /\ 5 \in Nat /\ 0 + 1 <= 1 /\ 0 + 4 <= 4 /\ 1 = 1 + 0
      /\ 0 + 1 <= 5 /\ 1 + 4 <= 5 /\ 5 = 5 + 0 /\ 0 + n <= n
  BY <1>2
<1>8. Part(v, 0, 1) = type
  <2>1. Part(type \o length, 0, 1) = Part(type, 0, 1)
    BY <1>3, <1>4, <1>7, PartLeft
  <2> QED
    BY <1>3, <2>1, PartWhole
<1>9. Part(v, 1, 4) = length
  <2>1. 4 <= Len(length) /\ 1 = Len(type)
    BY <1>3, <1>4
  <2>2. Part(type \o length, 1, 4) = Part(length, 0, 4)
    BY <1>3, <1>4, <1>7, <2>1, PartOfRight
  <2> QED
    BY <1>4, <2>2, PartWhole
<1>10. w = v \o m[2]
  BY <1>5
<1> HIDE DEF v
<1>11. Part(w, 0, 1) = type /\ Part(w, 1, 4) = length
  <2> DEFINE payload == m[2]
  <2>2. payload \in Seq(Byte) /\ v \in Seq(Byte) /\ 0 + 1 <= Len(v) /\ 1 + 4 <= Len(v)
    BY <1>1, <1>6, <1>7
  <2> HIDE DEF payload
  <2>3. Part(v \o payload, 0, 1) = Part(v, 0, 1)
    BY <1>7, <2>2, PartLeft, Zenon
  <2>4. Part(v \o payload, 1, 4) = Part(v, 1, 4)
    BY <1>7, <2>2, PartLeft, Zenon
  <2>1. Part(v \o m[2], 0, 1) = Part(v, 0, 1) /\ Part(v \o m[2], 1, 4) = Part(v, 1, 4)
    BY <2>3, <2>4 DEF payload
  <2> QED
    BY <1>8, <1>9, <1>10, <2>1
<1>12. Part(w, 5, n) = m[2]
  <2> DEFINE payload == m[2]
  <2>3. payload \in Seq(Byte) /\ v \in Seq(Byte) /\ n \in Nat /\ n <= Len(payload) /\ 5 = Len(v)
    BY <1>1, <1>2, <1>6, <1>7
  <2> HIDE DEF payload
  <2>4. Part(v \o payload, 5, n) = Part(payload, 0, n)
    BY <2>3, PartOfRight
  <2>1. Part(v \o m[2], 5, n) = Part(m[2], 0, n)
    BY <2>4 DEF payload
  <2>2. Part(m[2], 0, n) = m[2]
    BY <1>1, PartWhole
  <2> QED
    BY <1>10, <2>1, <2>2
<1> QED
  BY <1>1, <1>2, <1>4, <1>6, <1>11, <1>12 DEF type, w

(* The message m, from one place of W to another.                          *)
MessageAt(m, W, from, to) ==
  LET n == Len(m[2])
  IN /\ m = <<m[1], m[2]>> /\ m[1] \in Nat \ {0} /\ n \in Nat
     /\ from \in Nat /\ to = from + (n + 5) /\ to <= Len(W)
     /\ Part(W, from, 1) = <<m[1]>> /\ Part(W, from + 5, n) = m[2]
     /\ Len(Part(W, from + 1, 4)) = 4 /\ Int32(Part(W, from + 1, 4)) = n + 4

LEMMA MessageEnds ==
  ASSUME NEW m, NEW W, NEW from, NEW to, MessageAt(m, W, from, to)
  PROVE  to \in Nat /\ to <= Len(W) /\ from < to
<1> DEFINE n == Len(m[2])
<1>1. n \in Nat /\ from \in Nat /\ to = from + (n + 5) /\ to <= Len(W)
  BY DEF MessageAt
<1> HIDE DEF n
<1> QED
  BY <1>1

LEMMA MessageStays ==
  ASSUME NEW m, NEW W \in Seq(Byte), NEW w \in Seq(Byte), NEW from, NEW to, MessageAt(m, W, from, to)
  PROVE  MessageAt(m, W \o w, from, to)
<1> DEFINE n == Len(m[2])
<1> DEFINE one == from + 1
<1> DEFINE five == from + 5
<1>1. /\ m = <<m[1], m[2]>> /\ m[1] \in Nat \ {0} /\ n \in Nat
      /\ from \in Nat /\ to = from + (n + 5) /\ to <= Len(W)
      /\ Part(W, from, 1) = <<m[1]>> /\ Part(W, five, n) = m[2]
      /\ Len(Part(W, one, 4)) = 4 /\ Int32(Part(W, one, 4)) = n + 4
  BY DEF MessageAt
<1>2. Len(W \o w) = Len(W) + Len(w) /\ Len(W) \in Nat /\ Len(w) \in Nat
  BY ConcatProperties, LenProperties
<1> HIDE DEF n
<1>3. /\ 1 \in Nat /\ from + 1 <= Len(W) /\ 4 \in Nat /\ one \in Nat /\ one + 4 <= Len(W)
      /\ five \in Nat /\ five + n <= Len(W) /\ to <= Len(W \o w)
  BY <1>1, <1>2
<1> HIDE DEF one, five
<1>4. Part(W \o w, from, 1) = Part(W, from, 1)
  BY SMTT(30), <1>1, <1>3, PartLeft
<1>5. Part(W \o w, one, 4) = Part(W, one, 4)
  <2> DEFINE four == 4
  <2>1. four \in Nat /\ one \in Nat /\ one + four <= Len(W)
    BY <1>3
  <2> HIDE DEF four
  <2>2. Part(W \o w, one, four) = Part(W, one, four)
    BY <2>1, PartLeft
  <2> QED
    BY <2>2 DEF four
<1>6. Part(W \o w, five, n) = Part(W, five, n)
  BY <1>1, <1>3, PartLeft
<1>7. /\ Part(W \o w, from, 1) = <<m[1]>> /\ Part(W \o w, five, n) = m[2]
      /\ Len(Part(W \o w, one, 4)) = 4 /\ Int32(Part(W \o w, one, 4)) = n + 4
  BY <1>1, <1>4, <1>5, <1>6
<1> QED
  BY <1>1, <1>3, <1>7 DEF MessageAt, n, one, five

LEMMA MessageAdded ==
  ASSUME NEW m, IsMessage(m), NEW W \in Seq(Byte)
  PROVE  LET w == W \o Message(m[1], m[2])
         IN w \in Seq(Byte) /\ MessageAt(m, w, Len(W), Len(w))
<1> DEFINE w == Message(m[1], m[2])
<1> DEFINE x == W \o w
<1> DEFINE n == Len(m[2])
<1> DEFINE L == Len(W)
<1>1. /\ m = <<m[1], m[2]>> /\ m[1] \in Nat \ {0} /\ n \in Nat
      /\ w \in Seq(Byte) /\ Len(w) = n + 5
      /\ Part(w, 0, 1) = <<m[1]>> /\ Part(w, 5, n) = m[2]
      /\ Len(Part(w, 1, 4)) = 4 /\ Int32(Part(w, 1, 4)) = n + 4
  BY MessageParts
<1> HIDE DEF w
<1>2. x \in Seq(Byte) /\ Len(x) = L + Len(w) /\ L \in Nat
  <2>1. W \o w \in Seq(Byte) /\ Len(W \o w) = Len(W) + Len(w)
    BY <1>1, ConcatProperties, Zenon
  <2>2. Len(W) \in Nat
    BY LenProperties
  <2> QED
    BY <2>1, <2>2
<1> HIDE DEF x, n
<1> DEFINE one == L + 1
<1> DEFINE five == L + 5
<1>3. /\ Len(x) = L + (n + 5) /\ Len(x) <= Len(x) /\ 0 \in Nat /\ 1 \in Nat /\ 4 \in Nat /\ 5 \in Nat
      /\ 0 + 1 <= Len(w) /\ 1 + 4 <= Len(w) /\ 5 + n <= Len(w) /\ L = L + 0
  BY <1>1, <1>2
<1>4. Part(x, L, 1) = Part(w, 0, 1)
  <2>1. 1 <= Len(w)
    BY <1>1
  <2> QED
    BY SMTT(30), <1>1, <2>1, PartOfRight DEF x
<1>5. Part(x, one, 4) = Part(w, 1, 4)
  <2> DEFINE u == 1
  <2> DEFINE four == 4
  <2>1. u \in Nat /\ four \in Nat /\ one = Len(W) + u /\ u + four <= Len(w)
    BY <1>3
  <2> HIDE DEF one, u, four
  <2>2. Part(x, one, four) = Part(w, u, four)
    BY <1>1, <2>1, PartRight DEF x
  <2> QED
    BY <2>2 DEF u, four
<1>6. Part(x, five, n) = Part(w, 5, n)
  <2> DEFINE u == 5
  <2>1. u \in Nat /\ n \in Nat /\ five = Len(W) + u /\ u + n <= Len(w)
    BY <1>1, <1>3
  <2> HIDE DEF five, u
  <2>2. Part(x, five, n) = Part(w, u, n)
    BY <1>1, <2>1, PartRight DEF x
  <2> QED
    BY <2>2 DEF u
<1> HIDE DEF L, one, five
<1>7. /\ Part(x, L, 1) = <<m[1]>> /\ Part(x, five, n) = m[2]
      /\ Len(Part(x, one, 4)) = 4 /\ Int32(Part(x, one, 4)) = n + 4
  BY <1>1, <1>4, <1>5, <1>6
<1>8. MessageAt(m, x, L, Len(x))
  BY <1>1, <1>2, <1>3, <1>7 DEF MessageAt, n, one, five
<1> QED
  BY <1>2, <1>8 DEF x, w, L

(* Messages one after another, from their starts.                          *)
Laid(messages, n, W, start) ==
  /\ W \in Seq(Byte) /\ start \in [1 .. n + 1 -> Nat] /\ start[1] = 0 /\ start[n + 1] = Len(W)
  /\ \A k \in 1 .. n : MessageAt(messages[k], W, start[k], start[k + 1])

LEMMA LaidGrows ==
  ASSUME NEW messages, NEW n \in Nat, NEW W, NEW start, Laid(messages, n, W, start),
         IsMessage(messages[n + 1])
  PROVE  LET w == W \o Message(messages[n + 1][1], messages[n + 1][2])
         IN \E start2 : Laid(messages, n + 1, w, start2)
<1> DEFINE m == messages[n + 1]
<1> DEFINE w == W \o Message(m[1], m[2])
<1> DEFINE start2 == [k \in 1 .. n + 2 |-> IF k = n + 2 THEN Len(w) ELSE start[k]]
<1>1. /\ W \in Seq(Byte) /\ start \in [1 .. n + 1 -> Nat] /\ start[1] = 0 /\ start[n + 1] = Len(W)
      /\ \A k \in 1 .. n : MessageAt(messages[k], W, start[k], start[k + 1])
  BY DEF Laid
<1>2. w \in Seq(Byte) /\ MessageAt(m, w, Len(W), Len(w))
  <2> HIDE DEF m
  <2> QED
    BY <1>1, MessageAdded DEF m
<1>3. Message(m[1], m[2]) \in Seq(Byte)
  <2> HIDE DEF m
  <2> QED
    BY MessageParts DEF m
<1>4. \A k \in 1 .. n : MessageAt(messages[k], w, start[k], start[k + 1])
  <2> HIDE DEF m
  <2> QED
    BY <1>1, <1>3, MessageStays
<1>5. Len(w) \in Nat
  BY <1>2, LenProperties
<1> HIDE DEF m, w
<1>6. /\ start2 \in [1 .. n + 2 -> Nat] /\ start2[1] = 0 /\ start2[n + 2] = Len(w) /\ start2[n + 1] = Len(W)
      /\ \A k \in 1 .. n : start2[k] = start[k] /\ start2[k + 1] = start[k + 1]
  BY <1>1, <1>5
<1> HIDE DEF start2
<1>7. ASSUME NEW k \in 1 .. n + 1 PROVE MessageAt(messages[k], w, start2[k], start2[k + 1])
  <2>1. CASE k = n + 1
    <3>1. k + 1 = n + 2
      BY <2>1
    <3> QED
      BY <1>2, <1>6, <2>1, <3>1 DEF m
  <2>2. CASE k # n + 1
    <3>1. k \in 1 .. n
      BY <2>2
    <3> QED
      BY <1>4, <1>6, <3>1
  <2> QED
    BY <2>1, <2>2
<1>8. (n + 1) + 1 = n + 2
  OBVIOUS
<1>9. Laid(messages, n + 1, w, start2)
  BY <1>2, <1>6, <1>7, <1>8 DEF Laid
<1> QED
  BY <1>9 DEF w, m

(* The function that makes the bytes: there is one.                        *)
BytesGoOn(bytes, messages, k) ==
  bytes = [n \in 0 .. k |->
             IF n = 0 THEN <<>> ELSE bytes[n - 1] \o Message(messages[n][1], messages[n][2])]
LEMMA BytesExist ==
  ASSUME NEW messages, NEW k \in Nat
  PROVE  \E bytes : BytesGoOn(bytes, messages, k)
<1> DEFINE S == {n \in Nat : \E bytes : BytesGoOn(bytes, messages, n)}
<1>1. 0 \in S
  <2> DEFINE bytes == [n \in 0 .. 0 |-> <<>>]
  <2>1. BytesGoOn(bytes, messages, 0)
    BY DEF BytesGoOn
  <2> QED
    BY <2>1
<1>2. ASSUME NEW n \in Nat, n \in S PROVE n + 1 \in S
  <2>1. PICK r : BytesGoOn(r, messages, n)
    BY <1>2
  <2> DEFINE w == Message(messages[n + 1][1], messages[n + 1][2])
  <2> DEFINE q == [m \in 0 .. n + 1 |-> IF m <= n THEN r[m] ELSE r[n] \o w]
  <2>2. \A m \in 0 .. n :
          r[m] = IF m = 0 THEN <<>> ELSE r[m - 1] \o Message(messages[m][1], messages[m][2])
    BY <2>1 DEF BytesGoOn
  <2>3. ASSUME NEW m \in 0 .. n + 1
        PROVE  q[m] = IF m = 0 THEN <<>> ELSE q[m - 1] \o Message(messages[m][1], messages[m][2])
    <3>1. CASE m = n + 1
      <4>1. q[m] = r[n] \o w /\ m # 0 /\ m - 1 = n /\ q[n] = r[n]
        BY <3>1
      <4> HIDE DEF q
      <4> QED
        BY <3>1, <4>1
    <3>2. CASE m # n + 1
      <4>1. m \in 0 .. n /\ q[m] = r[m]
        BY <3>2
      <4>2. m # 0 => q[m - 1] = r[m - 1]
        BY <3>2
      <4> HIDE DEF q
      <4> QED
        BY <2>2, <4>1, <4>2
    <3> QED
      BY <3>1, <3>2
  <2>4. q = [m \in 0 .. n + 1 |-> q[m]]
    OBVIOUS
  <2> HIDE DEF q
  <2>5. BytesGoOn(q, messages, n + 1)
    BY <2>3, <2>4 DEF BytesGoOn
  <2> QED
    BY <2>5
<1>3. Nat \subseteq S
  <2> HIDE DEF S
  <2> QED
    BY <1>1, <1>2, Induction
<1> QED
  BY <1>3

(* A stream of messages: what the code on the other side may have sent.    *)
Stream(messages) ==
  messages \in Seq(Range(messages)) /\ \A n \in DOMAIN messages : IsMessage(messages[n])

LEMMA StreamsAre == ASSUME NEW messages \in Streams PROVE Stream(messages)
  BY StructuresAssumption DEF StructuresAssumption, Stream

LEMMA BytesLaid ==
  ASSUME NEW messages, Stream(messages)
  PROVE  \E start : Laid(messages, Len(messages), Bytes(messages), start)
<1> DEFINE N == Len(messages)
<1> DEFINE B == BytesTo(messages)
<1>1. N \in Nat /\ DOMAIN messages = 1 .. N
  BY LenProperties DEF Stream
<1>2. PICK r : BytesGoOn(r, messages, N)
  BY <1>1, BytesExist
<1>3. r = [n \in 0 .. N |-> IF n = 0 THEN <<>> ELSE r[n - 1] \o Message(messages[n][1], messages[n][2])]
  BY <1>2 DEF BytesGoOn
<1>4. BytesGoOn(B, messages, N)
  BY <1>3 DEF BytesTo, BytesGoOn
<1>5. Bytes(messages) = B[N]
  BY DEF Bytes
<1> HIDE DEF B, N
<1>6. /\ B[0] = <<>>
      /\ \A n \in 0 .. N : n # 0 => B[n] = B[n - 1] \o Message(messages[n][1], messages[n][2])
  <2>1. B = [n \in 0 .. N |-> IF n = 0 THEN <<>> ELSE B[n - 1] \o Message(messages[n][1], messages[n][2])]
    BY <1>4 DEF BytesGoOn
  <2>2. 0 \in 0 .. N
    BY <1>1
  <2>3. B[0] = <<>>
    BY <2>1, <2>2, Zenon
  <2>4. ASSUME NEW n \in 0 .. N, n # 0
        PROVE  B[n] = B[n - 1] \o Message(messages[n][1], messages[n][2])
    BY <2>1, <2>4, Zenon
  <2> QED
    BY <2>3, <2>4
<1> DEFINE S == {n \in Nat : n <= N => \E start : Laid(messages, n, B[n], start)}
<1>7. 0 \in S
  <2> DEFINE start == [k \in 1 .. 0 + 1 |-> 0]
  <2>1. start \in [1 .. 0 + 1 -> Nat] /\ start[1] = 0 /\ start[0 + 1] = 0 /\ 1 .. 0 = {}
    OBVIOUS
  <2>2. <<>> \in Seq(Byte) /\ Len(<<>>) = 0
    BY EmptySeq
  <2> HIDE DEF start
  <2>3. Laid(messages, 0, B[0], start)
    BY <1>6, <2>1, <2>2 DEF Laid
  <2> QED
    BY <2>3
<1>8. ASSUME NEW n \in Nat, n \in S PROVE n + 1 \in S
  <2> SUFFICES ASSUME n + 1 <= N PROVE \E start : Laid(messages, n + 1, B[n + 1], start)
    OBVIOUS
  <2>1. PICK start : Laid(messages, n, B[n], start)
    BY <1>1, <1>8
  <2>2. n + 1 \in 0 .. N /\ n + 1 # 0 /\ (n + 1) - 1 = n /\ n + 1 \in DOMAIN messages
    BY <1>1
  <2>3. B[n + 1] = B[n] \o Message(messages[n + 1][1], messages[n + 1][2])
    <3>1. B[n + 1] = B[(n + 1) - 1] \o Message(messages[n + 1][1], messages[n + 1][2])
      BY <1>6, <2>2, Zenon
    <3> QED
      BY <2>2, <3>1
  <2>4. IsMessage(messages[n + 1])
    BY <2>2 DEF Stream
  <2> QED
    BY <2>1, <2>3, <2>4, LaidGrows
<1>9. Nat \subseteq S
  <2> HIDE DEF S
  <2> QED
    BY <1>7, <1>8, Induction
<1> QED
  BY <1>1, <1>5, <1>9 DEF N

----------------------------------------------------------------------------
(* Messages are taken as they were sent. *)

(* How much of the header of a message m the buffer has read: nothing, its *)
(* type, or all of it.                                                     *)
NoHeader(b) ==
  /\ b.curMessageType = 0 /\ b.curMessageLen = 0 /\ b.curMessageLenUnread = 0
  /\ b.curMessageReady = FALSE
TypeRead(b, m) ==
  /\ b.curMessageType = m[1] /\ b.curMessageLen = 0 /\ b.curMessageLenUnread = 0
  /\ b.curMessageReady = FALSE
LengthRead(b, m) ==
  /\ b.curMessageType = m[1] /\ b.curMessageLen = Len(m[2]) + 4 /\ b.curMessageLenUnread = Len(m[2])
  /\ b.curMessageReady \in BOOLEAN

(* Message k is next: what was read ends in it where the header says, and  *)
(* it is ready only when all its bytes have come.                          *)
Sent(messages, W, start) == Len(messages) \in Nat /\ Laid(messages, Len(messages), W, start)
Header(b, messages, start, k, pos, fed) ==
  \/ NoHeader(b) /\ pos = start[k]
  \/ k <= Len(messages) /\ TypeRead(b, messages[k]) /\ pos = start[k] + 1
  \/ /\ k <= Len(messages) /\ LengthRead(b, messages[k]) /\ pos = start[k] + 5
     /\ b.curMessageReady => start[k + 1] <= fed
Reading(b, messages, W, start, k, pos, fed) ==
  /\ Held(b, W, pos, fed) /\ fed <= Len(W) /\ k \in 1 .. Len(messages) + 1
  /\ Header(b, messages, start, k, pos, fed)

(* What is held does not depend on the header.                             *)
LEMMA HeaderApart ==
  ASSUME NEW b, NEW c, NEW W, NEW pos, NEW fed, Held(b, W, pos, fed), IsBuffer(c),
         c.bufs = b.bufs, c.buf0 = b.buf0, c.pos0 = b.pos0, c.len = b.len, c.open = b.open
  PROVE  Held(c, W, pos, fed)
  BY DEF Held

(* The numbers of a reading.                                               *)
LEMMA ReadingNumbers ==
  ASSUME NEW b, NEW messages, NEW W, NEW start, NEW k, NEW pos, NEW fed,
         Sent(messages, W, start), Reading(b, messages, W, start, k, pos, fed)
  PROVE  /\ Held(b, W, pos, fed) /\ W \in Seq(Byte) /\ pos \in Nat /\ fed \in Nat /\ pos <= fed /\ fed <= Len(W)
         /\ b.len = fed - pos /\ k \in Nat /\ k \in 1 .. Len(messages) + 1 /\ start[k] \in Nat
         /\ k <= Len(messages) => MessageAt(messages[k], W, start[k], start[k + 1])
         /\ k > Len(messages) => k = Len(messages) + 1 /\ start[k] = Len(W)
<1> DEFINE N == Len(messages)
<1>1. /\ N \in Nat /\ W \in Seq(Byte) /\ start \in [1 .. N + 1 -> Nat] /\ start[N + 1] = Len(W)
      /\ \A i \in 1 .. N : MessageAt(messages[i], W, start[i], start[i + 1])
  BY DEF Sent, Laid
<1>2. Held(b, W, pos, fed) /\ fed <= Len(W) /\ k \in 1 .. N + 1
  BY DEF Reading
<1>3. pos \in Nat /\ fed \in Nat /\ pos <= fed /\ b.len = fed - pos
  BY <1>2 DEF Held
<1> HIDE DEF N
<1>4. k \in Nat /\ (k <= N => k \in 1 .. N) /\ (k > N => k = N + 1) /\ start[k] \in Nat
  BY <1>1, <1>2
<1> QED
  BY <1>1, <1>2, <1>3, <1>4 DEF N

(* The type of a message is taken as soon as it has come,                  *)
LEMMA TakeTypeReads ==
  ASSUME NEW b, NEW messages, NEW W, NEW start, NEW k, NEW pos, NEW fed,
         Sent(messages, W, start), Reading(b, messages, W, start, k, pos, fed), b.curMessageReady = FALSE
  PROVE  LET t == TakeType(b)
         IN \E pos2 : /\ Reading(t, messages, W, start, k, pos2, fed) /\ t.curMessageReady = FALSE
                      /\ t.curMessageType = 0 => pos2 = fed
<1> DEFINE m == messages[k]
<1>1. /\ Held(b, W, pos, fed) /\ W \in Seq(Byte) /\ pos \in Nat /\ fed \in Nat /\ pos <= fed /\ fed <= Len(W)
      /\ b.len = fed - pos /\ k \in Nat /\ k \in 1 .. Len(messages) + 1 /\ start[k] \in Nat
      /\ k <= Len(messages) => MessageAt(m, W, start[k], start[k + 1])
      /\ k > Len(messages) => k = Len(messages) + 1 /\ start[k] = Len(W)
  BY ReadingNumbers
<1>2. Header(b, messages, start, k, pos, fed) /\ Len(messages) \in Nat
  BY DEF Reading, Sent
<1> HIDE DEF m
<1>3. CASE b.curMessageType = 0 /\ b.len >= 1
  <2>1. NoHeader(b) /\ pos = start[k]
    <3>1. k <= Len(messages) => m[1] # 0
      BY <1>1 DEF MessageAt
    <3> QED
      BY <1>2, <1>3, <3>1 DEF Header, TypeRead, LengthRead, m
  <2>2. pos + 1 <= fed
    BY <1>1, <1>3
  <2>3. k <= Len(messages)
    <3> DEFINE N == Len(messages)
    <3> DEFINE L == Len(W)
    <3>1. N \in Nat /\ L \in Nat /\ (k > N => start[k] = L) /\ fed <= L
      BY <1>1, <1>2, LenProperties
    <3> HIDE DEF N, L
    <3>2. k <= N
      BY <1>1, <2>1, <2>2, <3>1
    <3> QED
      BY <3>2 DEF N
  <2> DEFINE r == ReadBuffer(b, 1)
  <2> DEFINE t == TakeType(b)
  <2>4. r.bytes = Part(W, pos, 1) /\ Held(r.buf, W, pos + 1, fed) /\ SameHeader(b, r.buf)
    <3> DEFINE one == 1
    <3>1. one \in Nat /\ pos + one <= fed
      BY <2>2
    <3> HIDE DEF one
    <3>2. LET q == ReadBuffer(b, one)
          IN q.bytes = Part(W, pos, one) /\ Held(q.buf, W, pos + one, fed) /\ SameHeader(b, q.buf)
      BY <1>1, <3>1, ReadHeld
    <3> QED
      BY <3>2 DEF one
  <2>5. t = [r.buf EXCEPT !.curMessageType = r.bytes[1]]
    BY <1>3 DEF TakeType
  <2> HIDE DEF r, t
  <2>6. r.bytes[1] = m[1] /\ m[1] # 0
    <3>1. Part(W, pos, 1) = <<m[1]>> /\ m[1] # 0
      BY <1>1, <2>1, <2>3 DEF MessageAt
    <3> QED
      BY <2>4, <3>1
  <2>7. /\ IsBuffer(t) /\ t.bufs = r.buf.bufs /\ t.buf0 = r.buf.buf0 /\ t.pos0 = r.buf.pos0 /\ t.len = r.buf.len
        /\ t.open = r.buf.open /\ TypeRead(t, m)
    <3>1. IsBuffer(r.buf)
      BY <2>4 DEF Held
    <3> QED
      BY <2>1, <2>4, <2>5, <2>6, <3>1 DEF IsBuffer, TypeRead, NoHeader, SameHeader
  <2>8. Held(t, W, pos + 1, fed)
    BY <2>4, <2>7, HeaderApart
  <2>9. Reading(t, messages, W, start, k, pos + 1, fed)
    BY <1>1, <2>1, <2>3, <2>7, <2>8 DEF Reading, Header, m
  <2>10. t.curMessageReady = FALSE /\ t.curMessageType # 0
    BY <2>6, <2>7 DEF TypeRead
  <2> QED
    BY <2>9, <2>10 DEF t
<1>4. CASE ~ (b.curMessageType = 0 /\ b.len >= 1)
  <2>1. TakeType(b) = b
    BY <1>4 DEF TakeType
  <2>2. b.curMessageType = 0 => pos = fed
    BY <1>1, <1>4
  <2> QED
    BY <2>1, <2>2
<1> QED
  BY <1>3, <1>4

(* and its length when all four bytes have.                                *)
LEMMA TakeLengthReads ==
  ASSUME NEW b, NEW messages, NEW W, NEW start, NEW k, NEW pos, NEW fed,
         Sent(messages, W, start), Reading(b, messages, W, start, k, pos, fed), b.curMessageReady = FALSE,
         b.curMessageType = 0 => pos = fed
  PROVE  LET t == TakeLength(b)
         IN \E pos2 : /\ Reading(t, messages, W, start, k, pos2, fed) /\ t.curMessageReady = FALSE
                      /\ t.curMessageLen = 0 => k = Len(messages) + 1 \/ fed < start[k + 1]
<1> DEFINE m == messages[k]
<1> DEFINE n == Len(m[2])
<1> DEFINE N == Len(messages)
<1>1. /\ Held(b, W, pos, fed) /\ W \in Seq(Byte) /\ pos \in Nat /\ fed \in Nat /\ pos <= fed /\ fed <= Len(W)
      /\ b.len = fed - pos /\ k \in Nat /\ k \in 1 .. N + 1 /\ start[k] \in Nat
      /\ k <= N => MessageAt(m, W, start[k], start[k + 1])
      /\ k > N => k = N + 1 /\ start[k] = Len(W)
  BY ReadingNumbers
<1>2. Header(b, messages, start, k, pos, fed) /\ N \in Nat
  BY DEF Reading, Sent
<1>3. k <= N => /\ m[1] # 0 /\ n \in Nat /\ start[k + 1] = start[k] + (n + 5)
                /\ Len(Part(W, start[k] + 1, 4)) = 4 /\ Int32(Part(W, start[k] + 1, 4)) = n + 4
  BY <1>1 DEF MessageAt
<1>4. CASE b.curMessageType # 0 /\ b.curMessageLen = 0 /\ b.len >= 4
  <2>1. k <= N /\ TypeRead(b, m) /\ pos = start[k] + 1
    <3>1. LengthRead(b, m) /\ k <= N => b.curMessageLen # 0
      BY <1>3 DEF LengthRead
    <3> QED
      BY <1>2, <1>4, <3>1 DEF Header, NoHeader
  <2>2. pos + 4 <= fed
    BY <1>1, <1>4
  <2> DEFINE r == ReadBuffer(b, 4)
  <2> DEFINE t == TakeLength(b)
  <2>3. r.bytes = Part(W, pos, 4) /\ Held(r.buf, W, pos + 4, fed) /\ SameHeader(b, r.buf)
    <3> DEFINE four == 4
    <3>1. four \in Nat /\ pos + four <= fed
      BY <2>2
    <3> HIDE DEF four
    <3>2. LET q == ReadBuffer(b, four)
          IN q.bytes = Part(W, pos, four) /\ Held(q.buf, W, pos + four, fed) /\ SameHeader(b, q.buf)
      BY <1>1, <3>1, ReadHeld
    <3> QED
      BY <3>2 DEF four
  <2>4. t = [r.buf EXCEPT !.curMessageLen = Int32(r.bytes), !.curMessageLenUnread = Int32(r.bytes) - 4]
    BY <1>4 DEF TakeLength
  <2> HIDE DEF r, t
  <2>5. Int32(r.bytes) = n + 4 /\ Int32(r.bytes) - 4 = n /\ n \in Nat
    BY <1>3, <2>1, <2>3
  <2> HIDE DEF n
  <2>6. /\ IsBuffer(t) /\ t.bufs = r.buf.bufs /\ t.buf0 = r.buf.buf0 /\ t.pos0 = r.buf.pos0 /\ t.len = r.buf.len
        /\ t.open = r.buf.open /\ t.curMessageType = m[1] /\ t.curMessageLen = n + 4
        /\ t.curMessageLenUnread = n /\ t.curMessageReady = FALSE
    <3>1. IsBuffer(r.buf)
      BY <2>3 DEF Held
    <3> QED
      BY <2>1, <2>3, <2>4, <2>5, <3>1 DEF IsBuffer, TypeRead, SameHeader
  <2>7. Held(t, W, pos + 4, fed)
    BY <2>3, <2>6, HeaderApart
  <2>8. pos + 4 = start[k] + 5 /\ t.curMessageLen # 0
    <3>1. start[k] \in Nat /\ pos = start[k] + 1
      BY <1>1, <2>1
    <3>2. n + 4 # 0
      BY <2>5
    <3> QED
      BY <2>6, <3>1, <3>2
  <2>9. LengthRead(t, m)
    BY <2>6 DEF LengthRead, n
  <2>10. Reading(t, messages, W, start, k, pos + 4, fed)
    BY <1>1, <2>1, <2>6, <2>7, <2>8, <2>9 DEF Reading, Header, m
  <2> QED
    BY <2>6, <2>8, <2>10 DEF t
<1>5. CASE ~ (b.curMessageType # 0 /\ b.curMessageLen = 0 /\ b.len >= 4)
  <2>1. TakeLength(b) = b
    BY <1>5 DEF TakeLength
  <2>2. ASSUME b.curMessageLen = 0, k # N + 1 PROVE fed < start[k + 1]
    <3>0. k <= N
      <4> HIDE DEF N
      <4> QED
        BY <1>1, <1>2, <2>2
    <3>1. /\ m[1] # 0 /\ n \in Nat /\ start[k + 1] = start[k] + (n + 5)
      BY <1>3, <3>0
    <3>2. (b.curMessageType = 0 /\ pos = start[k]) \/ (b.curMessageType # 0 /\ pos = start[k] + 1)
      BY <1>2, <2>2, <3>1 DEF Header, NoHeader, TypeRead, LengthRead
    <3> HIDE DEF n
    <3> QED
      BY <1>1, <1>5, <2>2, <3>1, <3>2
  <2> QED
    BY <2>1, <2>2
<1> QED
  BY <1>4, <1>5

(* A message is ready when it has come whole.                              *)
LEMMA TakeMessageReads ==
  ASSUME NEW b, NEW messages, NEW W, NEW start, NEW k, NEW pos, NEW fed,
         Sent(messages, W, start), Reading(b, messages, W, start, k, pos, fed)
  PROVE  LET t == takeMessage(b)
         IN /\ \E pos2 : Reading(t, messages, W, start, k, pos2, fed)
            /\ t.curMessageReady = FALSE => k = Len(messages) + 1 \/ fed < start[k + 1]
            /\ t.curMessageReady \in BOOLEAN
<1>0. b.curMessageReady \in BOOLEAN
  BY DEF Reading, Header, NoHeader, TypeRead, LengthRead
<1>1. CASE b.curMessageReady = TRUE
  <2>1. takeMessage(b) = b
    BY <1>1 DEF takeMessage
  <2> QED
    BY <1>1, <2>1
<1>2. CASE b.curMessageReady = FALSE
  <2> DEFINE m == messages[k]
  <2> DEFINE n == Len(m[2])
  <2> DEFINE N == Len(messages)
  <2> DEFINE u == TakeType(b)
  <2> DEFINE v == TakeLength(u)
  <2> DEFINE t == takeMessage(b)
  <2>1. PICK pos1 : /\ Reading(u, messages, W, start, k, pos1, fed) /\ u.curMessageReady = FALSE
                    /\ u.curMessageType = 0 => pos1 = fed
    BY <1>2, TakeTypeReads
  <2> HIDE DEF u
  <2>2. PICK pos2 : /\ Reading(v, messages, W, start, k, pos2, fed) /\ v.curMessageReady = FALSE
                    /\ v.curMessageLen = 0 => k = N + 1 \/ fed < start[k + 1]
    BY <2>1, TakeLengthReads
  <2>3. t = [v EXCEPT !.curMessageReady = v.curMessageLen # 0 /\ v.len >= v.curMessageLenUnread]
    BY <1>2 DEF takeMessage, u
  <2> HIDE DEF v, t
  <2>4. /\ Held(v, W, pos2, fed) /\ pos2 \in Nat /\ fed \in Nat /\ fed <= Len(W)
        /\ v.len = fed - pos2 /\ k \in Nat /\ k \in 1 .. N + 1 /\ start[k] \in Nat
        /\ k <= N => MessageAt(m, W, start[k], start[k + 1])
    BY <2>2, ReadingNumbers
  <2>5. Header(v, messages, start, k, pos2, fed)
    BY <2>2 DEF Reading
  <2> DEFINE ready == v.curMessageLen # 0 /\ v.len >= v.curMessageLenUnread
  <2>6. /\ IsBuffer(t) /\ t.bufs = v.bufs /\ t.buf0 = v.buf0 /\ t.pos0 = v.pos0 /\ t.len = v.len
        /\ t.open = v.open /\ t.curMessageType = v.curMessageType /\ t.curMessageLen = v.curMessageLen
        /\ t.curMessageLenUnread = v.curMessageLenUnread /\ t.curMessageReady = ready
    <3>1. IsBuffer(v)
      BY <2>4 DEF Held
    <3> HIDE DEF ready
    <3>2. t = [v EXCEPT !.curMessageReady = ready]
      BY <2>3 DEF ready
    <3> QED
      BY <3>1, <3>2 DEF IsBuffer
  <2>7. ready \in BOOLEAN
    OBVIOUS
  <2>8. Held(t, W, pos2, fed)
    BY <2>4, <2>6, HeaderApart
  <2>9. CASE k <= N /\ LengthRead(v, m) /\ pos2 = start[k] + 5
    <3>1. n \in Nat /\ start[k + 1] = start[k] + (n + 5)
      BY <2>4, <2>9 DEF MessageAt
    <3>2. v.curMessageLen = n + 4 /\ v.curMessageLenUnread = n
      BY <2>9 DEF LengthRead
    <3>3. ready <=> start[k + 1] <= fed
      <4> DEFINE a == start[k]
      <4> DEFINE e == start[k + 1]
      <4>1. a \in Nat /\ n \in Nat /\ e = a + (n + 5) /\ v.len = fed - (a + 5) /\ fed \in Nat
        BY <2>4, <2>9, <3>1
      <4> HIDE DEF n, a, e
      <4>2. ready <=> fed - (a + 5) >= n
        BY <3>1, <3>2, <4>1
      <4>3. ready <=> e <= fed
        BY <4>1, <4>2
      <4> QED
        BY <4>3 DEF e
    <3> HIDE DEF ready
    <3>4. LengthRead(t, m)
      BY <2>6, <2>7, <2>9 DEF LengthRead
    <3>5. Reading(t, messages, W, start, k, pos2, fed)
      BY <2>4, <2>6, <2>8, <2>9, <3>3, <3>4 DEF Reading, Header, m
    <3>6. t.curMessageReady = FALSE => fed < start[k + 1]
      BY SMTT(30), <2>4, <2>6, <3>1, <3>3
    <3> QED
      BY <2>6, <2>7, <3>5, <3>6 DEF t
  <2>10. CASE v.curMessageLen = 0
    <3>1. t.curMessageReady = FALSE
      BY <2>6, <2>10
    <3>2. ~ LengthRead(v, m) \/ ~ (k <= N)
      BY <2>4, <2>10 DEF LengthRead, MessageAt
    <3> HIDE DEF ready
    <3>3. Header(t, messages, start, k, pos2, fed)
      BY <2>5, <2>6, <3>1, <3>2 DEF Header, NoHeader, TypeRead, m
    <3>4. Reading(t, messages, W, start, k, pos2, fed)
      BY <2>4, <2>8, <3>3 DEF Reading
    <3> QED
      BY <2>2, <2>10, <3>1, <3>4 DEF t
  <2> QED
    BY <2>5, <2>9, <2>10 DEF Header, NoHeader, TypeRead
<1> QED
  BY <1>0, <1>1, <1>2

(* The rest of a message is taken, and its header forgotten.               *)
LEMMA ConsumeRest ==
  ASSUME NEW b, NEW W \in Seq(Byte), NEW at, NEW fed, Held(b, W, at, fed), fed <= Len(W),
         NEW rest \in Nat, at + rest <= fed, b.curMessageLenUnread = rest
  PROVE  LET c == consumeMessage(b)
         IN c.bytes = Part(W, at, rest) /\ Held(c.buf, W, at + rest, fed) /\ NoHeader(c.buf)
<1> DEFINE r == ReadBuffer(b, rest)
<1> DEFINE f == finishMessage(r.buf)
<1>1. r.bytes = Part(W, at, rest) /\ Held(r.buf, W, at + rest, fed)
  BY ReadHeld
<1>2. consumeMessage(b) = [buf |-> f, bytes |-> r.bytes]
  BY DEF consumeMessage
<1> HIDE DEF r
<1>3. f = [r.buf EXCEPT !.curMessageLen = 0, !.curMessageLenUnread = 0, !.curMessageReady = FALSE,
                        !.curMessageType = 0]
  BY DEF finishMessage
<1> HIDE DEF f
<1>4. /\ IsBuffer(f) /\ f.bufs = r.buf.bufs /\ f.buf0 = r.buf.buf0 /\ f.pos0 = r.buf.pos0 /\ f.len = r.buf.len
      /\ f.open = r.buf.open /\ NoHeader(f)
  <2>1. IsBuffer(r.buf)
    BY <1>1 DEF Held
  <2> QED
    BY <1>3, <2>1 DEF IsBuffer, NoHeader
<1>5. Held(f, W, at + rest, fed)
  BY <1>1, <1>4, HeaderApart
<1> QED
  BY <1>1, <1>2, <1>4, <1>5

(* A message that is ready is read in two parts, the first of n bytes, as  *)
(* it was sent; what follows it is next.                                   *)
LEMMA ConsumeReads ==
  ASSUME NEW b, NEW messages, NEW W, NEW start, NEW k, NEW pos, NEW fed,
         Sent(messages, W, start), Reading(b, messages, W, start, k, pos, fed), b.curMessageReady = TRUE,
         NEW n \in 0 .. b.curMessageLenUnread
  PROVE  LET r == readBuffer(b, n)
             c == consumeMessage(r.buf)
         IN /\ k <= Len(messages) /\ <<b.curMessageType, r.bytes \o c.bytes>> = messages[k]
            /\ \E pos2 : Reading(c.buf, messages, W, start, k + 1, pos2, fed)
            /\ NoHeader(c.buf)
<1> DEFINE m == messages[k]
<1> DEFINE size == Len(m[2])
<1> DEFINE N == Len(messages)
<1>1. /\ Held(b, W, pos, fed) /\ W \in Seq(Byte) /\ pos \in Nat /\ fed \in Nat /\ fed <= Len(W)
      /\ k \in Nat /\ k \in 1 .. N + 1 /\ start[k] \in Nat
      /\ k <= N => MessageAt(m, W, start[k], start[k + 1])
  BY ReadingNumbers
<1>2. k <= N /\ LengthRead(b, m) /\ pos = start[k] + 5 /\ start[k + 1] <= fed
  BY DEF Reading, Header, NoHeader, TypeRead
<1>3. m = <<m[1], m[2]>> /\ size \in Nat /\ start[k + 1] = start[k] + (size + 5) /\ Part(W, start[k] + 5, size) = m[2]
  BY <1>1, <1>2 DEF MessageAt
<1>4. b.curMessageType = m[1] /\ b.curMessageLenUnread = size
  BY <1>2 DEF LengthRead
<1> HIDE DEF size
<1> DEFINE rest == size - n
<1>5. n \in Nat /\ rest \in Nat /\ n + rest = size /\ pos + n <= fed /\ (pos + n) + rest <= fed
      /\ (pos + n) + rest = start[k + 1] /\ pos + n \in Nat
  <2> DEFINE a == start[k]
  <2> DEFINE e == start[k + 1]
  <2>1. a \in Nat /\ size \in Nat /\ e = a + (size + 5) /\ pos = a + 5 /\ e <= fed /\ fed \in Nat
        /\ n \in 0 .. size
    BY <1>1, <1>2, <1>3, <1>4
  <2> HIDE DEF a, e
  <2>2. n \in Nat /\ rest \in Nat /\ n + rest = size /\ pos + n <= fed /\ (pos + n) + rest <= fed
        /\ (pos + n) + rest = e /\ pos + n \in Nat
    BY <2>1
  <2> QED
    BY <2>2 DEF e
<1> DEFINE q == ReadBuffer(b, n)
<1> DEFINE r == readBuffer(b, n)
<1> DEFINE c == consumeMessage(r.buf)
<1>6. /\ q = [buf |-> q.buf, bytes |-> q.bytes, left |-> q.left] /\ q.bytes = Part(W, pos, n)
      /\ Held(q.buf, W, pos + n, fed) /\ SameHeader(b, q.buf)
  BY <1>1, <1>5, ReadHeld
<1>7. r = [q EXCEPT !.buf.curMessageLenUnread = @ - n]
  BY DEF readBuffer
<1> HIDE DEF q, r, rest
<1>8. r.buf = [q.buf EXCEPT !.curMessageLenUnread = size - n] /\ r.bytes = q.bytes
  <2>1. IsBuffer(q.buf) /\ q.buf.curMessageLenUnread = size
    BY <1>4, <1>6 DEF Held, SameHeader
  <2> QED
    BY <1>6, <1>7, <2>1 DEF IsBuffer
<1> DEFINE a == r.buf
<1>9. /\ IsBuffer(a) /\ a.bufs = q.buf.bufs /\ a.buf0 = q.buf.buf0 /\ a.pos0 = q.buf.pos0 /\ a.len = q.buf.len
      /\ a.open = q.buf.open /\ a.curMessageLenUnread = rest
  <2>1. IsBuffer(q.buf)
    BY <1>6 DEF Held
  <2>2. a = [q.buf EXCEPT !.curMessageLenUnread = rest]
    BY <1>8 DEF rest
  <2> HIDE DEF a
  <2> QED
    BY <2>1, <2>2 DEF IsBuffer
<1> HIDE DEF a, c
<1>10. Held(a, W, pos + n, fed)
  BY <1>6, <1>9, HeaderApart
<1>11. c.bytes = Part(W, pos + n, rest) /\ Held(c.buf, W, (pos + n) + rest, fed) /\ NoHeader(c.buf)
  <2> DEFINE at == pos + n
  <2>1. Held(a, W, at, fed) /\ at + rest <= fed
    BY <1>5, <1>10
  <2> HIDE DEF at
  <2>2. LET d == consumeMessage(a)
        IN d.bytes = Part(W, at, rest) /\ Held(d.buf, W, at + rest, fed) /\ NoHeader(d.buf)
    BY <1>1, <1>5, <1>9, <2>1, ConsumeRest
  <2>3. c = consumeMessage(a)
    BY DEF c, a
  <2> QED
    BY <2>2, <2>3 DEF at
<1>12. r.bytes \o c.bytes = m[2]
  <2>1. pos + n + rest <= Len(W)
    BY <1>1, <1>5, LenProperties
  <2>4. W \in Seq(Byte) /\ pos \in Nat /\ n \in Nat /\ rest \in Nat
    BY <1>1, <1>5
  <2>2. Part(W, pos, n) \o Part(W, pos + n, rest) = Part(W, pos, n + rest)
    BY <2>1, <2>4, SliceConcat
  <2>3. Part(W, pos, n + rest) = m[2]
    BY <1>2, <1>3, <1>5
  <2> QED
    BY <1>6, <1>8, <1>11, <2>2, <2>3
<1>13. Reading(c.buf, messages, W, start, k + 1, start[k + 1], fed)
  <2>1. k + 1 \in 1 .. N + 1
    <3>1. N \in Nat
      BY DEF Sent
    <3> HIDE DEF N
    <3> QED
      BY <1>1, <1>2, <3>1
  <2>2. Held(c.buf, W, start[k + 1], fed)
    BY <1>5, <1>11
  <2> QED
    BY <1>1, <1>11, <2>1, <2>2 DEF Reading, Header
<1>14. <<b.curMessageType, r.bytes \o c.bytes>> = m
  BY <1>3, <1>4, <1>12
<1> QED
  BY <1>2, <1>11, <1>13, <1>14 DEF c, r, m

(* The same, when the message is taken at once.                            *)
LEMMA ConsumeWhole ==
  ASSUME NEW b, NEW messages, NEW W, NEW start, NEW k, NEW pos, NEW fed,
         Sent(messages, W, start), Reading(b, messages, W, start, k, pos, fed), b.curMessageReady = TRUE
  PROVE  LET c == consumeMessage(b)
         IN /\ k <= Len(messages) /\ <<b.curMessageType, c.bytes>> = messages[k]
            /\ \E pos2 : Reading(c.buf, messages, W, start, k + 1, pos2, fed)
            /\ NoHeader(c.buf)
<1> DEFINE m == messages[k]
<1> DEFINE size == Len(m[2])
<1> DEFINE N == Len(messages)
<1> DEFINE c == consumeMessage(b)
<1>1. /\ Held(b, W, pos, fed) /\ W \in Seq(Byte) /\ pos \in Nat /\ fed \in Nat /\ fed <= Len(W)
      /\ k \in Nat /\ k \in 1 .. N + 1 /\ start[k] \in Nat
      /\ k <= N => MessageAt(m, W, start[k], start[k + 1])
  BY ReadingNumbers
<1>2. k <= N /\ LengthRead(b, m) /\ pos = start[k] + 5 /\ start[k + 1] <= fed
  BY DEF Reading, Header, NoHeader, TypeRead
<1>3. m = <<m[1], m[2]>> /\ size \in Nat /\ start[k + 1] = start[k] + (size + 5) /\ Part(W, start[k] + 5, size) = m[2]
  BY <1>1, <1>2 DEF MessageAt
<1>4. b.curMessageType = m[1] /\ b.curMessageLenUnread = size
  BY <1>2 DEF LengthRead
<1> HIDE DEF size
<1>5. pos + size = start[k + 1]
  <2> DEFINE from == start[k]
  <2>1. from \in Nat /\ pos = from + 5 /\ start[k + 1] = from + (size + 5) /\ size \in Nat
    BY <1>1, <1>2, <1>3
  <2> HIDE DEF from
  <2> QED
    BY <2>1
<1>6. c.bytes = Part(W, pos, size) /\ Held(c.buf, W, pos + size, fed) /\ NoHeader(c.buf)
  <2>1. pos + size <= fed
    BY <1>2, <1>5
  <2> QED
    BY SMTT(30), <1>1, <1>3, <1>4, <2>1, ConsumeRest
<1> HIDE DEF c
<1>7. Reading(c.buf, messages, W, start, k + 1, start[k + 1], fed)
  <2>1. k + 1 \in 1 .. N + 1
    <3>1. N \in Nat
      BY DEF Sent
    <3> HIDE DEF N
    <3> QED
      BY <1>1, <1>2, <3>1
  <2>2. Held(c.buf, W, start[k + 1], fed)
    BY <1>5, <1>6
  <2> QED
    BY <1>1, <1>6, <2>1, <2>2 DEF Reading, Header
<1>8. <<b.curMessageType, c.bytes>> = m
  <2>1. c.bytes = m[2]
    BY <1>2, <1>3, <1>6
  <2> QED
    BY <1>3, <1>4, <2>1
<1> QED
  BY <1>2, <1>6, <1>7, <1>8 DEF c, m

(* A look at the next byte, between messages: the type of the next one.    *)
LEMMA TakeMessageTypeReads ==
  ASSUME NEW b, NEW messages, NEW W, NEW start, NEW k, NEW pos, NEW fed, NEW type,
         Sent(messages, W, start), Reading(b, messages, W, start, k, pos, fed),
         NoHeader(b) \/ b.curMessageReady = TRUE
  PROVE  LET t == takeMessageType(b, type)
         IN /\ t.taken \in BOOLEAN /\ \E pos2 : Reading(t.buf, messages, W, start, k, pos2, fed)
            /\ t.taken => t.buf.curMessageReady = TRUE /\ t.buf.curMessageType = type
<1> DEFINE t == takeMessageType(b, type)
<1>1. CASE b.curMessageReady = TRUE
  <2> DEFINE same == b.curMessageType = type
  <2>1. t = [buf |-> b, taken |-> same]
    BY <1>1 DEF takeMessageType
  <2>2. same \in BOOLEAN /\ (same => b.curMessageType = type)
    OBVIOUS
  <2> HIDE DEF t, same
  <2>3. t.buf = b /\ t.taken = same
    BY <2>1
  <2> QED
    BY <1>1, <2>2, <2>3 DEF t
<1>2. CASE b.curMessageReady = FALSE /\ b.len < 1
  <2>1. takeMessageType(b, type) = [buf |-> b, taken |-> FALSE]
    BY <1>2 DEF takeMessageType
  <2> QED
    BY <2>1
<1>3. CASE NoHeader(b) /\ ~ (b.len < 1)
  <2> DEFINE m == messages[k]
  <2> DEFINE N == Len(messages)
  <2> DEFINE first == ensureFirstBuf(b)
  <2> DEFINE same == first.buf0[first.pos0 + 1] = type
  <2> DEFINE next == IF same THEN takeMessage(first) ELSE first
  <2> DEFINE taken == same /\ next.curMessageReady
  <2>0. t = [buf |-> next, taken |-> taken]
    BY <1>3 DEF takeMessageType, NoHeader
  <2>1. t.buf = next /\ t.taken = taken
    <3> HIDE DEF t, next, taken
    <3> QED
      BY <2>0
  <2> HIDE DEF t
  <2>2. /\ Held(b, W, pos, fed) /\ pos \in Nat /\ fed \in Nat /\ pos <= fed /\ fed <= Len(W) /\ b.len = fed - pos
        /\ k \in Nat /\ k \in 1 .. N + 1 /\ start[k] \in Nat /\ W \in Seq(Byte)
        /\ k <= N => MessageAt(m, W, start[k], start[k + 1])
    BY ReadingNumbers
  <2>3. Header(b, messages, start, k, pos, fed)
    BY DEF Reading
  <2>4. pos < fed
    BY <1>3, <2>2
  <2>5. Held(first, W, pos, fed) /\ SameHeader(b, first) /\ first.pos0 < Len(first.buf0)
    BY <2>2, <2>4, EnsureHeld
  <2> HIDE DEF first
  <2>6. Reading(first, messages, W, start, k, pos, fed)
    <3>1. Header(first, messages, start, k, pos, fed)
      BY <2>3, <2>5 DEF Header, NoHeader, TypeRead, LengthRead, SameHeader
    <3> QED
      BY <2>2, <2>5, <3>1 DEF Reading
  <2>7. CASE ~ same
    <3>1. next = first
      BY <2>7
    <3>2. taken = FALSE
      BY <2>7
    <3> HIDE DEF same, next, taken
    <3> QED
      BY <2>1, <2>6, <3>1, <3>2 DEF t
  <2>8. CASE same
    <3>1. next = takeMessage(first)
      BY <2>8
    <3> HIDE DEF next
    <3>2. PICK pos2 : Reading(next, messages, W, start, k, pos2, fed)
      BY <2>6, <3>1, TakeMessageReads
    <3>3. next.curMessageReady \in BOOLEAN
      BY <2>6, <3>1, TakeMessageReads
    <3>4. ASSUME next.curMessageReady = TRUE PROVE next.curMessageType = type
      <4>1. k <= N /\ LengthRead(next, m)
        BY <3>2, <3>4 DEF Reading, Header, NoHeader, TypeRead
      <4>2. pos = start[k]
        <5>1. k <= N => m[1] # 0
          BY <2>2 DEF MessageAt
        <5> QED
          BY <1>3, <2>3, <5>1 DEF Header, NoHeader, TypeRead, LengthRead
      <4>3. Part(W, pos, 1) = <<m[1]>>
        BY <2>2, <4>1, <4>2 DEF MessageAt
      <4>4. m[1] = W[pos + 1]
        <5> DEFINE one == 1
        <5>1. one \in Nat /\ pos + one <= Len(W) /\ 1 \in 1 .. one
          BY <2>2, <2>4, LenProperties
        <5> HIDE DEF one
        <5>2. Part(W, pos, one)[1] = W[pos + 1]
          BY <2>2, <5>1, Slice
        <5> QED
          BY <4>3, <5>2 DEF one
      <4>5. first.buf0[first.pos0 + 1] = W[pos + 1]
        <5> DEFINE L == Len(first.buf0)
        <5>1. L \in Nat /\ first.pos0 \in 0 .. L /\ first.pos0 < L
          BY <2>5, LenProperties DEF Held
        <5>2. 1 \in 1 .. L - first.pos0
          <6> HIDE DEF L
          <6> QED
            BY <5>1
        <5> QED
          BY <2>5, <5>2 DEF Held
      <4> QED
        BY <2>8, <4>1, <4>4, <4>5 DEF LengthRead
    <3> HIDE DEF same
    <3>5. taken \in BOOLEAN /\ (taken => next.curMessageReady = TRUE)
      BY <2>8, <3>3
    <3> HIDE DEF taken
    <3> QED
      BY <2>1, <3>2, <3>4, <3>5 DEF t
  <2> QED
    BY <2>7, <2>8
<1>4. b.curMessageReady \in BOOLEAN
  BY DEF Reading, Header, NoHeader, TypeRead, LengthRead
<1> QED
  BY <1>1, <1>2, <1>3, <1>4

(* What was taken and the next message are one more.                       *)
LEMMA GotNext ==
  ASSUME NEW messages, Stream(messages), NEW k \in 1 .. Len(messages),
         NEW got, got = SubSeq(messages, 1, k - 1)
  PROVE  Append(got, messages[k]) = SubSeq(messages, 1, (k + 1) - 1)
<1> DEFINE R == Range(messages)
<1> DEFINE N == Len(messages)
<1>1. messages \in Seq(R) /\ N \in Nat
  BY LenProperties DEF Stream
<1> HIDE DEF R
<1>2. 1 \in 1 .. N /\ k \in 1 .. N /\ (k + 1) - 1 = k /\ k - 1 \in Int
  <2>1. k \in 1 .. N
    OBVIOUS
  <2> HIDE DEF N
  <2> QED
    BY <1>1, <2>1
<1>3. SubSeq(messages, 1, k) = SubSeq(messages, 1, k - 1) \o <<messages[k]>>
  BY <1>1, <1>2, SubSeqRecursiveSecond
<1>4. messages[k] \in R
  BY <1>1, ElementOfSeq
<1>5. got \in Seq(R)
  <2>1. \A i \in 1 .. k - 1 : i \in 1 .. N
    <3> HIDE DEF N
    <3> QED
      BY <1>1, <1>2
  <2>2. \A i \in 1 .. k - 1 : messages[i] \in R
    BY <1>1, <2>1, ElementOfSeq
  <2> QED
    BY <1>2, <2>2, SubSeqProperties
<1>6. Append(got, messages[k]) = got \o <<messages[k]>>
  BY <1>4, <1>5, AppendIsConcat
<1> QED
  BY <1>2, <1>3, <1>6

(* The turns of the loop that takes data messages in a row.                *)
TurnsGoOn(t, buf, got, k) ==
  t = [n \in 0 .. k |-> IF n = 0 THEN [buf |-> buf, got |-> got, more |-> TRUE] ELSE TakeDataTurn(t[n - 1])]
LEMMA TurnsExist ==
  ASSUME NEW buf, NEW got, NEW k \in Nat
  PROVE  \E t : TurnsGoOn(t, buf, got, k)
<1> DEFINE S == {n \in Nat : \E t : TurnsGoOn(t, buf, got, n)}
<1> DEFINE begin == [buf |-> buf, got |-> got, more |-> TRUE]
<1>1. 0 \in S
  <2> DEFINE t == [n \in 0 .. 0 |-> begin]
  <2>1. TurnsGoOn(t, buf, got, 0)
    BY DEF TurnsGoOn
  <2> QED
    BY <2>1
<1>2. ASSUME NEW n \in Nat, n \in S PROVE n + 1 \in S
  <2>1. PICK r : TurnsGoOn(r, buf, got, n)
    BY <1>2
  <2> DEFINE q == [m \in 0 .. n + 1 |-> IF m <= n THEN r[m] ELSE TakeDataTurn(r[n])]
  <2>2. \A m \in 0 .. n : r[m] = IF m = 0 THEN begin ELSE TakeDataTurn(r[m - 1])
    BY <2>1 DEF TurnsGoOn
  <2>3. ASSUME NEW m \in 0 .. n + 1 PROVE q[m] = IF m = 0 THEN begin ELSE TakeDataTurn(q[m - 1])
    <3> HIDE DEF begin
    <3>1. CASE m = n + 1
      <4>1. q[m] = TakeDataTurn(r[n]) /\ m # 0 /\ m - 1 = n /\ q[n] = r[n]
        BY <3>1
      <4> HIDE DEF q
      <4> QED
        BY <4>1
    <3>2. CASE m # n + 1
      <4>1. m \in 0 .. n /\ q[m] = r[m]
        BY <3>2
      <4>2. m # 0 => q[m - 1] = r[m - 1]
        BY <3>2
      <4> HIDE DEF q
      <4> QED
        BY <2>2, <4>1, <4>2
    <3> QED
      BY <3>1, <3>2
  <2>4. q = [m \in 0 .. n + 1 |-> q[m]]
    OBVIOUS
  <2> HIDE DEF q
  <2>5. TurnsGoOn(q, buf, got, n + 1)
    BY <2>3, <2>4 DEF TurnsGoOn
  <2> QED
    BY <2>5
<1>3. Nat \subseteq S
  <2> HIDE DEF S
  <2> QED
    BY <1>1, <1>2, Induction
<1> QED
  BY <1>3

(* Between turns, all that was taken was sent in this order.               *)
TurnReads(t, messages, W, start, fed) ==
  /\ t = [buf |-> t.buf, got |-> t.got, more |-> t.more] /\ t.more \in BOOLEAN
  /\ \E k, pos : /\ Reading(t.buf, messages, W, start, k, pos, fed)
                 /\ t.got = SubSeq(messages, 1, k - 1)
  /\ t.more => NoHeader(t.buf) \/ (t.buf.curMessageReady = TRUE /\ t.buf.curMessageType = D)

LEMMA TurnStays ==
  ASSUME NEW messages, NEW W, NEW start, NEW fed, Stream(messages), Sent(messages, W, start),
         NEW t, TurnReads(t, messages, W, start, fed)
  PROVE  TurnReads(TakeDataTurn(t), messages, W, start, fed)
<1>1. PICK k, pos : Reading(t.buf, messages, W, start, k, pos, fed) /\ t.got = SubSeq(messages, 1, k - 1)
  BY DEF TurnReads
<1> DEFINE m == takeMessageType(t.buf, D)
<1> DEFINE c == consumeMessage(m.buf)
<1> DEFINE q == TakeDataTurn(t)
<1>2. q = IF ~ t.more THEN t
          ELSE IF m.taken THEN [buf |-> c.buf, got |-> Append(t.got, <<D, c.bytes>>), more |-> TRUE]
          ELSE [buf |-> m.buf, got |-> t.got, more |-> FALSE]
  BY DEF TakeDataTurn
<1> HIDE DEF q
<1>3. CASE t.more
  <2>1. /\ m.taken \in BOOLEAN /\ \E pos2 : Reading(m.buf, messages, W, start, k, pos2, fed)
        /\ m.taken => m.buf.curMessageReady = TRUE /\ m.buf.curMessageType = D
    <3>1. NoHeader(t.buf) \/ t.buf.curMessageReady = TRUE
      BY <1>3 DEF TurnReads
    <3> QED
      BY <1>1, <3>1, TakeMessageTypeReads
  <2> HIDE DEF m
  <2>2. PICK pos2 : Reading(m.buf, messages, W, start, k, pos2, fed)
    BY <2>1
  <2>3. CASE m.taken
    <3> DEFINE b == m.buf
    <3> DEFINE n == b.curMessageLenUnread
    <3>1. Reading(b, messages, W, start, k, pos2, fed) /\ b.curMessageReady = TRUE /\ b.curMessageType = D
      BY <2>1, <2>2, <2>3
    <3> HIDE DEF b
    <3>2. /\ k <= Len(messages) /\ <<b.curMessageType, c.bytes>> = messages[k]
          /\ \E pos3 : Reading(c.buf, messages, W, start, k + 1, pos3, fed)
          /\ NoHeader(c.buf)
      <4>1. LET d == consumeMessage(b)
            IN /\ k <= Len(messages) /\ <<b.curMessageType, d.bytes>> = messages[k]
               /\ \E pos3 : Reading(d.buf, messages, W, start, k + 1, pos3, fed)
               /\ NoHeader(d.buf)
        BY <3>1, ConsumeWhole
      <4> QED
        BY <4>1 DEF b
    <3> HIDE DEF c
    <3>3. k \in 1 .. Len(messages)
      BY <3>1, <3>2 DEF Reading, Sent
    <3> DEFINE got2 == Append(t.got, <<D, c.bytes>>)
    <3>4. got2 = SubSeq(messages, 1, (k + 1) - 1)
      <4>1. Append(t.got, messages[k]) = SubSeq(messages, 1, (k + 1) - 1)
        BY <1>1, <3>3, GotNext
      <4> QED
        BY <3>1, <3>2, <4>1
    <3>5. q = [buf |-> c.buf, got |-> got2, more |-> TRUE]
      BY <1>2, <1>3, <2>3
    <3> HIDE DEF got2
    <3>6. q.buf = c.buf /\ q.got = got2 /\ q.more = TRUE /\ q = [buf |-> q.buf, got |-> q.got, more |-> q.more]
      BY <3>5
    <3>7. TurnReads(q, messages, W, start, fed)
      BY <3>2, <3>4, <3>6 DEF TurnReads
    <3> QED
      BY <3>7 DEF q
  <2>4. CASE ~ m.taken
    <3>1. q = [buf |-> m.buf, got |-> t.got, more |-> FALSE]
      BY <1>2, <1>3, <2>4
    <3>2. q.buf = m.buf /\ q.got = t.got /\ q.more = FALSE /\ q = [buf |-> q.buf, got |-> q.got, more |-> q.more]
      BY <3>1
    <3>3. TurnReads(q, messages, W, start, fed)
      BY <1>1, <2>2, <3>2 DEF TurnReads
    <3> QED
      BY <3>3 DEF q
  <2> QED
    BY <2>3, <2>4
<1>4. CASE ~ t.more
  <2>1. q = t
    BY <1>2, <1>4
  <2> QED
    BY <2>1 DEF q
<1> QED
  BY <1>3, <1>4

(* All turns together.                                                     *)
ReadFrom(d, messages, W, start, fed) ==
  \E k, pos : Reading(d.buf, messages, W, start, k, pos, fed) /\ d.got = SubSeq(messages, 1, k - 1)

LEMMA TakeDataReads ==
  ASSUME NEW messages, NEW W, NEW start, NEW fed, Stream(messages), Sent(messages, W, start),
         NEW b, NEW k, NEW pos, Reading(b, messages, W, start, k, pos, fed),
         b.curMessageReady = TRUE, b.curMessageType = D, NEW got, got = SubSeq(messages, 1, k - 1)
  PROVE  ReadFrom(TakeData(b, got), messages, W, start, fed)
<1> DEFINE n == b.len + 1
<1> DEFINE t == TakeDataTurns(b, got)
<1>1. n \in Nat
  <2>1. b.len = fed - pos /\ fed \in Nat /\ pos \in Nat /\ pos <= fed
    BY ReadingNumbers
  <2> QED
    BY <2>1
<1>2. TurnsGoOn(t, b, got, n)
  <2> HIDE DEF n
  <2>1. PICK r : TurnsGoOn(r, b, got, n)
    BY <1>1, TurnsExist
  <2> USE DEF n
  <2>2. r = [i \in 0 .. n |-> IF i = 0 THEN [buf |-> b, got |-> got, more |-> TRUE] ELSE TakeDataTurn(r[i - 1])]
    BY <2>1 DEF TurnsGoOn
  <2> QED
    BY <2>2 DEF TakeDataTurns, TurnsGoOn
<1>3. TakeData(b, got) = t[n]
  BY DEF TakeData
<1> HIDE DEF n, t
<1> DEFINE begin == [buf |-> b, got |-> got, more |-> TRUE]
<1>4. t[0] = begin /\ \A i \in 0 .. n : i # 0 => t[i] = TakeDataTurn(t[i - 1])
  <2>1. t = [i \in 0 .. n |-> IF i = 0 THEN begin ELSE TakeDataTurn(t[i - 1])]
    BY <1>2 DEF TurnsGoOn
  <2>2. 0 \in 0 .. n
    BY <1>1
  <2> HIDE DEF begin
  <2>3. t[0] = begin
    BY <2>1, <2>2, Zenon
  <2>4. ASSUME NEW i \in 0 .. n, i # 0 PROVE t[i] = TakeDataTurn(t[i - 1])
    BY <2>1, <2>4, Zenon
  <2> QED
    BY <2>3, <2>4
<1>5. /\ begin.buf = b /\ begin.got = got /\ begin.more = TRUE
      /\ begin = [buf |-> begin.buf, got |-> begin.got, more |-> begin.more]
  OBVIOUS
<1> HIDE DEF begin
<1> DEFINE S == {i \in Nat : i <= n => TurnReads(t[i], messages, W, start, fed)}
<1>6. 0 \in S
  <2>1. TurnReads(begin, messages, W, start, fed)
    BY <1>5 DEF TurnReads
  <2> QED
    BY <1>4, <2>1
<1>7. ASSUME NEW i \in Nat, i \in S PROVE i + 1 \in S
  <2> SUFFICES ASSUME i + 1 <= n PROVE TurnReads(t[i + 1], messages, W, start, fed)
    OBVIOUS
  <2>1. TurnReads(t[i], messages, W, start, fed)
    BY <1>1, <1>7
  <2>2. i + 1 \in 0 .. n /\ i + 1 # 0 /\ (i + 1) - 1 = i
    BY <1>1
  <2>3. t[i + 1] = TakeDataTurn(t[(i + 1) - 1])
    BY <1>4, <2>2, Zenon
  <2>4. t[i + 1] = TakeDataTurn(t[i])
    BY <2>2, <2>3
  <2> QED
    BY <2>1, <2>4, TurnStays
<1>8. Nat \subseteq S
  <2> HIDE DEF S
  <2> QED
    BY <1>6, <1>7, Induction
<1>9. TurnReads(t[n], messages, W, start, fed)
  BY <1>1, <1>8
<1> QED
  BY <1>3, <1>9 DEF TurnReads, ReadFrom

----------------------------------------------------------------------------
(* The buffer part of the specification. *)

(* The inductive invariant: the buffer holds the bytes that have come and  *)
(* were not read, and stands in the message after those taken.             *)
Framed(x) ==
  LET W == Bytes(x.sent)
  IN /\ x = [sent |-> x.sent, coming |-> x.coming, buf |-> x.buf, got |-> x.got] /\ x.sent \in Streams
     /\ \E start, k, pos, fed :
          /\ Sent(x.sent, W, start) /\ Reading(x.buf, x.sent, W, start, k, pos, fed)
          /\ x.got = SubSeq(x.sent, 1, k - 1) /\ x.coming = Rest(W, fed)
FramingInv == part = "buffer" => Framed(s)

LEMMA FramingInit == InitStructures => FramingInv
<1> SUFFICES ASSUME InitStructures, part = "buffer" PROVE Framed(s)
  BY DEF FramingInv
<1>1. PICK messages \in Streams : s = InitBuffer(messages)
  BY DEF InitStructures
<1> DEFINE W == Bytes(messages)
<1> DEFINE N == Len(messages)
<1>2. Stream(messages)
  BY StreamsAre
<1>3. PICK start : Laid(messages, N, W, start)
  BY <1>2, BytesLaid
<1>4. N \in Nat /\ messages \in Seq(Range(messages))
  BY <1>2, LenProperties DEF Stream
<1>5. Sent(messages, W, start) /\ W \in Seq(Byte) /\ start[1] = 0
  BY <1>3, <1>4 DEF Sent, Laid
<1>6. s.sent = messages /\ s.coming = W /\ s.buf = EmptyBuffer /\ s.got = <<>>
      /\ s = [sent |-> s.sent, coming |-> s.coming, buf |-> s.buf, got |-> s.got]
  <2> HIDE DEF W
  <2>1. s = [sent |-> messages, coming |-> W, buf |-> EmptyBuffer, got |-> <<>>]
    BY <1>1 DEF InitBuffer, W
  <2> QED
    BY <2>1
<1> DEFINE b == EmptyBuffer
<1>7. /\ b.bufs = <<>> /\ b.buf0 = <<>> /\ b.pos0 = 0 /\ b.len = 0 /\ b.open = FALSE
      /\ NoHeader(b) /\ IsBuffer(b)
  BY DEF EmptyBuffer, NoHeader, IsBuffer
<1> HIDE DEF b, W
<1>8. Held(b, W, 0, 0)
  <2> DEFINE off == [i \in 1 .. 1 |-> 0]
  <2>1. off \in [1 .. 1 -> Nat] /\ off[1] = 0 /\ 1 .. 0 = {} /\ \A i \in 1 .. 1 : off[i] <= 0
    OBVIOUS
  <2>2. <<>> \in Seq(Byte) /\ <<>> \in Seq(Seq(Byte)) /\ Len(<<>>) = 0 /\ 0 + 1 = 1 /\ 0 + (0 - 0) = 0
        /\ 0 - 0 = 0 /\ 0 \in 0 .. 0 /\ 0 \in Nat /\ 0 <= 0
    BY EmptySeq
  <2> HIDE DEF off
  <2>3. Chunked(<<>>, W, off, 0, 0)
    BY <2>1, <2>2 DEF Chunked
  <2> QED
    BY <1>7, <2>1, <2>2, <2>3 DEF Held
<1>9. Reading(b, messages, W, start, 1, 0, 0)
  <2>1. 0 <= Len(W) /\ 1 \in 1 .. N + 1
    BY <1>4, <1>5, LenProperties
  <2> QED
    BY <1>5, <1>7, <1>8, <2>1 DEF Reading, Header
<1>10. <<>> = SubSeq(messages, 1, 1 - 1)
  BY SubSeqEmpty
<1>11. W = Rest(W, 0)
  <2>1. Len(W) - 0 = Len(W)
    BY <1>5, LenProperties
  <2> QED
    BY <1>5, <2>1, PartWhole DEF Rest
<1> QED
  BY <1>5, <1>6, <1>9, <1>10, <1>11 DEF Framed, W, b

(* Of what is still to come, a part arrives and the rest remains.          *)
LEMMA PartsOfRest ==
  ASSUME NEW W \in Seq(Byte), NEW fed \in Nat, fed <= Len(W), NEW coming, coming = Rest(W, fed),
         NEW n \in 1 .. Len(coming)
  PROVE  /\ n \in Nat \ {0} /\ fed + n <= Len(W) /\ SubSeq(coming, 1, n) = Part(W, fed, n)
         /\ SubSeq(coming, n + 1, Len(coming)) = Rest(W, fed + n)
<1> DEFINE L == Len(W)
<1> DEFINE K == L - fed
<1>1. L \in Nat /\ fed <= L
  BY LenProperties
<1>2. K \in Nat /\ fed + K <= Len(W) /\ L = fed + K
  <2>1. K \in Nat /\ fed + K <= L /\ L = fed + K
    <3> HIDE DEF L
    <3> QED
      BY <1>1
  <2> QED
    BY <2>1
<1>3. coming = Part(W, fed, K)
  BY DEF Rest
<1> HIDE DEF K
<1>4. coming \in Seq(Byte) /\ Len(coming) = K /\ \A j \in 1 .. K : coming[j] = W[fed + j]
  <2>1. fed + K <= Len(W) /\ K \in Nat
    BY <1>2
  <2>2. /\ Part(W, fed, K) \in Seq(Byte) /\ Len(Part(W, fed, K)) = K
        /\ \A j \in 1 .. K : Part(W, fed, K)[j] = W[fed + j]
    BY <2>1, Slice, Zenon
  <2> QED
    BY <1>3, <2>2, Zenon
<1>5. n \in 1 .. K /\ n \in Nat /\ n # 0 /\ n <= K
  BY <1>2, <1>4
<1>6. SubSeq(coming, 1, n) = Part(coming, 0, n)
  <2>1. 0 + 1 = 1 /\ 0 + n = n
    BY <1>5
  <2> QED
    BY <2>1 DEF Part
<1> DEFINE rest == K - n
<1> DEFINE at == fed + n
<1>7. /\ rest \in Nat /\ n + rest = K /\ at \in Nat /\ at <= L /\ at + rest <= L /\ rest = L - at
      /\ 0 \in Nat /\ 0 + n <= K /\ fed + n <= L /\ n + rest <= K
  <2> HIDE DEF L
  <2> QED
    BY <1>1, <1>2, <1>5
<1>8. SubSeq(coming, n + 1, Len(coming)) = Part(coming, n, rest)
  BY <1>4, <1>7 DEF Part
<1>9. SameBytes(coming, 0, W, fed, n)
  <2>1. ASSUME NEW j \in 1 .. n PROVE coming[0 + j] = W[fed + j]
    <3>1. j \in 1 .. K /\ 0 + j = j
      BY <1>2, <1>5
    <3> QED
      BY <1>4, <3>1
  <2> QED
    BY <2>1 DEF SameBytes
<1>10. SameBytes(coming, n, W, at, rest)
  <2>1. ASSUME NEW j \in 1 .. rest PROVE coming[n + j] = W[at + j]
    <3>1. n + j \in 1 .. K /\ at + j = fed + (n + j)
      BY <1>2, <1>5
    <3> QED
      BY <1>4, <3>1
  <2> QED
    BY <2>1 DEF SameBytes
<1> HIDE DEF rest, at
<1>11. Part(coming, 0, n) = Part(W, fed, n)
  <2> DEFINE nought == 0
  <2>1. nought \in Nat /\ nought + n <= Len(coming) /\ SameBytes(coming, nought, W, fed, n)
    BY <1>4, <1>7, <1>9
  <2> HIDE DEF nought
  <2>2. Part(coming, nought, n) = Part(W, fed, n)
    BY <1>4, <1>5, <1>7, <2>1, SliceEqual
  <2> QED
    BY <2>2 DEF nought
<1>12. Part(coming, n, rest) = Part(W, at, rest)
  BY <1>4, <1>5, <1>7, <1>10, SliceEqual
<1> QED
  BY <1>5, <1>6, <1>7, <1>8, <1>11, <1>12 DEF at, Rest

LEMMA FeedFrames == ASSUME Framed(s), Feed PROVE Framed(s')
<1> DEFINE messages == s.sent
<1> DEFINE W == Bytes(messages)
<1> DEFINE coming == s.coming
<1>1. PICK start, k, pos, fed :
        /\ Sent(messages, W, start) /\ Reading(s.buf, messages, W, start, k, pos, fed)
        /\ s.got = SubSeq(messages, 1, k - 1) /\ coming = Rest(W, fed)
  BY DEF Framed
<1>2. s = [sent |-> s.sent, coming |-> s.coming, buf |-> s.buf, got |-> s.got] /\ messages \in Streams
  BY DEF Framed
<1>3. PICK n \in 1 .. Len(coming) :
        s' = [s EXCEPT !.buf = feed(@, SubSeq(coming, 1, n)), !.coming = SubSeq(@, n + 1, Len(@))]
  BY DEF Feed
<1> DEFINE c == feed(s.buf, SubSeq(coming, 1, n))
<1> DEFINE rest == SubSeq(coming, n + 1, Len(coming))
<1>4. /\ s'.sent = messages /\ s'.coming = rest /\ s'.buf = c /\ s'.got = s.got
      /\ s' = [sent |-> s'.sent, coming |-> s'.coming, buf |-> s'.buf, got |-> s'.got]
  <2>1. s' = [s EXCEPT !.buf = c, !.coming = rest]
    BY <1>3
  <2> HIDE DEF c, rest
  <2> QED
    BY <1>2, <2>1
<1>5. /\ Held(s.buf, W, pos, fed) /\ W \in Seq(Byte) /\ pos \in Nat /\ fed \in Nat /\ fed <= Len(W)
      /\ k \in Nat /\ k \in 1 .. Len(messages) + 1
      /\ k <= Len(messages) => MessageAt(messages[k], W, start[k], start[k + 1])
  BY <1>1, ReadingNumbers
<1> HIDE DEF W, coming
<1>6. /\ n \in Nat \ {0} /\ fed + n <= Len(W) /\ SubSeq(coming, 1, n) = Part(W, fed, n)
      /\ rest = Rest(W, fed + n)
  <2>1. W \in Seq(Byte) /\ fed \in Nat /\ fed <= Len(W) /\ coming = Rest(W, fed)
    BY <1>1, <1>5
  <2>2. /\ n \in Nat \ {0} /\ fed + n <= Len(W) /\ SubSeq(coming, 1, n) = Part(W, fed, n)
        /\ SubSeq(coming, n + 1, Len(coming)) = Rest(W, fed + n)
    <3> DEFINE w == W
    <3>1. w \in Seq(Byte) /\ fed \in Nat /\ fed <= Len(w) /\ coming = Rest(w, fed) /\ n \in 1 .. Len(coming)
      BY <2>1
    <3> HIDE DEF w
    <3>2. n \in Nat \ {0}
      BY <3>1, PartsOfRest
    <3>3. fed + n <= Len(w)
      BY <3>1, PartsOfRest
    <3>4. SubSeq(coming, 1, n) = Part(w, fed, n)
      BY <3>1, PartsOfRest
    <3>5. SubSeq(coming, n + 1, Len(coming)) = Rest(w, fed + n)
      BY <3>1, PartsOfRest
    <3> QED
      BY <3>2, <3>3, <3>4, <3>5 DEF w
  <2> QED
    BY <2>2
<1>7. /\ Held(c, W, pos, fed + n) /\ c.curMessageType = s.buf.curMessageType
      /\ c.curMessageLen = s.buf.curMessageLen /\ c.curMessageLenUnread = s.buf.curMessageLenUnread
      /\ c.curMessageReady = s.buf.curMessageReady
  <2>1. LET e == feed(s.buf, Part(W, fed, n))
        IN /\ Held(e, W, pos, fed + n) /\ e.curMessageType = s.buf.curMessageType
           /\ e.curMessageLen = s.buf.curMessageLen /\ e.curMessageLenUnread = s.buf.curMessageLenUnread
           /\ e.curMessageReady = s.buf.curMessageReady
    BY <1>5, <1>6, FeedHeld
  <2>2. c = feed(s.buf, Part(W, fed, n))
    BY <1>6
  <2> HIDE DEF c
  <2> QED
    BY <2>1, <2>2
<1> HIDE DEF c, rest
<1>8. Reading(c, messages, W, start, k, pos, fed + n)
  <2>1. k <= Len(messages) /\ start[k + 1] <= fed => start[k + 1] <= fed + n
    <3>1. k <= Len(messages) => start[k + 1] \in Nat
      BY <1>5, MessageEnds
    <3> QED
      BY <1>5, <1>6, <3>1
  <2>2. Header(s.buf, messages, start, k, pos, fed)
    BY <1>1 DEF Reading
  <2>3. Header(c, messages, start, k, pos, fed + n)
    BY <1>7, <2>1, <2>2 DEF Header, NoHeader, TypeRead, LengthRead
  <2> QED
    BY <1>5, <1>6, <1>7, <2>3 DEF Reading
<1>9. Sent(messages, W, start)
  BY <1>1
<1> HIDE DEF messages
<1>10. W = Bytes(s'.sent)
  BY <1>4 DEF W
<1> QED
  BY <1>1, <1>2, <1>4, <1>6, <1>8, <1>9, <1>10 DEF Framed

LEMMA TakeFrames == ASSUME Framed(s), Take PROVE Framed(s')
<1> DEFINE messages == s.sent
<1> DEFINE W == Bytes(messages)
<1>1. PICK start, k, pos, fed :
        /\ Sent(messages, W, start) /\ Reading(s.buf, messages, W, start, k, pos, fed)
        /\ s.got = SubSeq(messages, 1, k - 1) /\ s.coming = Rest(W, fed)
  BY DEF Framed
<1>2. s = [sent |-> s.sent, coming |-> s.coming, buf |-> s.buf, got |-> s.got] /\ messages \in Streams
  BY DEF Framed
<1> DEFINE t == takeMessage(s.buf)
<1>3. s' = [s EXCEPT !.buf = t]
  BY DEF Take
<1>4. PICK pos2 : Reading(t, messages, W, start, k, pos2, fed)
  BY <1>1, TakeMessageReads
<1> HIDE DEF t
<1>5. /\ s'.sent = messages /\ s'.coming = s.coming /\ s'.buf = t /\ s'.got = s.got
      /\ s' = [sent |-> s'.sent, coming |-> s'.coming, buf |-> s'.buf, got |-> s'.got]
  BY <1>2, <1>3
<1> HIDE DEF messages
<1> QED
  BY <1>1, <1>2, <1>4, <1>5 DEF Framed

LEMMA ConsumeFrames == ASSUME Framed(s), Consume PROVE Framed(s')
<1> DEFINE messages == s.sent
<1> DEFINE W == Bytes(messages)
<1> DEFINE b == s.buf
<1>1. PICK start, k, pos, fed :
        /\ Sent(messages, W, start) /\ Reading(b, messages, W, start, k, pos, fed)
        /\ s.got = SubSeq(messages, 1, k - 1) /\ s.coming = Rest(W, fed)
  BY DEF Framed
<1>2. s = [sent |-> s.sent, coming |-> s.coming, buf |-> s.buf, got |-> s.got] /\ messages \in Streams
  BY DEF Framed
<1>3. Stream(messages)
  BY <1>2, StreamsAre
<1>4. b.curMessageReady = TRUE
  BY <1>1 DEF Consume, Reading, Header, NoHeader, TypeRead, LengthRead
<1> HIDE DEF W, b
<1>5. \E c, got2 :
        /\ s' = [s EXCEPT !.buf = c, !.got = got2]
        /\ \E k2, pos2 : /\ Reading(c, messages, W, start, k2, pos2, fed)
                         /\ got2 = SubSeq(messages, 1, k2 - 1)
  <2>1. CASE b.curMessageType = D
    <3> DEFINE t == TakeData(b, s.got)
    <3>1. s' = [s EXCEPT !.buf = t.buf, !.got = t.got]
      BY <2>1 DEF Consume, b
    <3>2. \E k2, pos2 : Reading(t.buf, messages, W, start, k2, pos2, fed) /\ t.got = SubSeq(messages, 1, k2 - 1)
      <4> DEFINE got == s.got
      <4>1. /\ Stream(messages) /\ Sent(messages, W, start) /\ Reading(b, messages, W, start, k, pos, fed)
            /\ b.curMessageReady = TRUE /\ b.curMessageType = D /\ got = SubSeq(messages, 1, k - 1)
        BY <1>1, <1>3, <1>4, <2>1
      <4> HIDE DEF messages, got, t
      <4>2. ReadFrom(TakeData(b, got), messages, W, start, fed)
        BY <4>1, TakeDataReads
      <4>3. t = TakeData(b, got)
        BY DEF t, got
      <4>4. ReadFrom(t, messages, W, start, fed)
        BY <4>2, <4>3
      <4> QED
        BY <4>4 DEF ReadFrom
    <3> HIDE DEF t
    <3> QED
      BY <3>1, <3>2
  <2>2. CASE b.curMessageType # D
    <3>1. PICK n \in 0 .. b.curMessageLenUnread :
            LET r == readBuffer(b, n)
                c == consumeMessage(r.buf)
            IN s' = [s EXCEPT !.buf = c.buf, !.got = Append(@, <<b.curMessageType, r.bytes \o c.bytes>>)]
      BY <2>2 DEF Consume, b
    <3> DEFINE r == readBuffer(b, n)
    <3> DEFINE c == consumeMessage(r.buf)
    <3> DEFINE got2 == Append(s.got, <<b.curMessageType, r.bytes \o c.bytes>>)
    <3>2. /\ k <= Len(messages) /\ <<b.curMessageType, r.bytes \o c.bytes>> = messages[k]
          /\ \E pos2 : Reading(c.buf, messages, W, start, k + 1, pos2, fed)
      <4>1. /\ Sent(messages, W, start) /\ Reading(b, messages, W, start, k, pos, fed)
            /\ b.curMessageReady = TRUE /\ n \in 0 .. b.curMessageLenUnread
        BY <1>1, <1>4
      <4> HIDE DEF messages, c, r
      <4>2. LET p == readBuffer(b, n)
                d == consumeMessage(p.buf)
            IN /\ k <= Len(messages) /\ <<b.curMessageType, p.bytes \o d.bytes>> = messages[k]
               /\ \E pos2 : Reading(d.buf, messages, W, start, k + 1, pos2, fed)
               /\ NoHeader(d.buf)
        BY <4>1, ConsumeReads
      <4> QED
        BY <4>2 DEF c, r
    <3>3. k \in 1 .. Len(messages)
      BY <1>1, <3>2 DEF Reading, Sent
    <3>4. got2 = SubSeq(messages, 1, (k + 1) - 1)
      <4>1. Append(s.got, messages[k]) = SubSeq(messages, 1, (k + 1) - 1)
        BY <1>1, <1>3, <3>3, GotNext
      <4> QED
        BY <3>2, <4>1
    <3>5. s' = [s EXCEPT !.buf = c.buf, !.got = got2]
      BY <3>1
    <3> HIDE DEF c, r, got2
    <3> QED
      BY <3>2, <3>4, <3>5
  <2> QED
    BY <2>1, <2>2
<1>6. PICK c, got2 :
        /\ s' = [s EXCEPT !.buf = c, !.got = got2]
        /\ \E k2, pos2 : /\ Reading(c, messages, W, start, k2, pos2, fed)
                         /\ got2 = SubSeq(messages, 1, k2 - 1)
  BY <1>5
<1>7. /\ s'.sent = messages /\ s'.coming = s.coming /\ s'.buf = c /\ s'.got = got2
      /\ s' = [sent |-> s'.sent, coming |-> s'.coming, buf |-> s'.buf, got |-> s'.got]
  BY <1>2, <1>6
<1>8. PICK k2, pos2 : Reading(c, messages, W, start, k2, pos2, fed) /\ got2 = SubSeq(messages, 1, k2 - 1)
  BY <1>6
<1> HIDE DEF messages
<1>9. W = Bytes(s'.sent) /\ Sent(messages, W, start) /\ s.coming = Rest(W, fed)
  BY <1>1, <1>7 DEF W
<1> QED
  BY <1>2, <1>7, <1>8, <1>9 DEF Framed

LEMMA FramingStep == FramingInv /\ [NextStructures]_<<part, s>> => FramingInv'
<1> SUFFICES ASSUME FramingInv, [NextStructures]_<<part, s>>, part' = "buffer" PROVE Framed(s')
  BY DEF FramingInv
<1>1. CASE Feed \/ Take \/ Consume
  <2>1. Framed(s)
    BY <1>1 DEF FramingInv, Feed, Take, Consume
  <2> QED
    BY <1>1, <2>1, FeedFrames, TakeFrames, ConsumeFrames
<1>2. CASE UNCHANGED <<part, s>>
  BY <1>2 DEF FramingInv
<1>3. ASSUME LruStep \/ OptionsCall \/ Launch \/ Answer PROVE FALSE
  BY <1>3 DEF LruStep, OptionsCall, Launch, Answer
<1> QED
  BY <1>1, <1>2, <1>3 DEF NextStructures

(* Framed says that what was read is what was sent; and that a buffer from *)
(* which no message can be taken, after the last byte, has given all.      *)
LEMMA FramedExact ==
  ASSUME NEW x, Framed(x)
  PROVE  /\ x.got = SubSeq(x.sent, 1, Len(x.got))
         /\ x.coming = <<>> /\ ~ takeMessage(x.buf).curMessageReady => x.got = x.sent
<1> DEFINE messages == x.sent
<1> DEFINE N == Len(messages)
<1> DEFINE R == Range(messages)
<1> DEFINE W == Bytes(messages)
<1> DEFINE t == takeMessage(x.buf)
<1>1. PICK start, k, pos, fed :
        /\ Sent(messages, W, start) /\ Reading(x.buf, messages, W, start, k, pos, fed)
        /\ x.got = SubSeq(messages, 1, k - 1) /\ x.coming = Rest(W, fed)
  BY DEF Framed
<1>2. messages \in Seq(R) /\ N \in Nat
  <2>1. Stream(messages)
    BY StreamsAre DEF Framed
  <2> QED
    BY <2>1, LenProperties DEF Stream
<1>3. /\ W \in Seq(Byte) /\ fed \in Nat /\ fed <= Len(W) /\ k \in Nat /\ k \in 1 .. N + 1
      /\ k <= N => MessageAt(messages[k], W, start[k], start[k + 1])
  BY <1>1, ReadingNumbers
<1>4. k - 1 \in 0 .. N /\ (k = N + 1 => k - 1 = N) /\ (k <= N \/ k = N + 1)
  <2> HIDE DEF N
  <2> QED
    BY <1>2, <1>3
<1>5. Len(x.got) = k - 1
  <2> DEFINE n == k - 1
  <2>1. n \in 0 .. N /\ 1 \in Int /\ n \in Int /\ (IF 1 <= n THEN n - 1 + 1 ELSE 0) = n
    BY <1>2, <1>4
  <2> HIDE DEF n
  <2>2. \A i \in 1 .. n : i \in 1 .. N
    <3> HIDE DEF N
    <3> QED
      BY <1>2, <2>1
  <2> HIDE DEF R
  <2>3. \A i \in 1 .. n : messages[i] \in R
    BY <1>2, <2>2, ElementOfSeq
  <2>4. Len(SubSeq(messages, 1, n)) = IF 1 <= n THEN n - 1 + 1 ELSE 0
    BY <2>1, <2>3, SubSeqProperties
  <2> QED
    BY <1>1, <2>1, <2>4 DEF n
<1>6. ASSUME x.coming = <<>>, ~ t.curMessageReady PROVE x.got = messages
  <2>1. fed = Len(W)
    <3> DEFINE L == Len(W)
    <3> DEFINE n == L - fed
    <3>1. L \in Nat
      BY <1>3, LenProperties
    <3>2. n \in Nat /\ fed + n <= L /\ (n = 0 => fed = L)
      BY <1>3, <3>1
    <3> HIDE DEF n
    <3>3. Len(Part(W, fed, n)) = n
      BY <1>3, <3>2, Slice
    <3>4. Len(x.coming) = n
      BY <1>1, <3>3 DEF n, Rest
    <3>5. Len(x.coming) = 0
      BY <1>6
    <3> QED
      BY <3>2, <3>4, <3>5
  <2>2. t.curMessageReady = FALSE
    BY <1>1, <1>6, TakeMessageReads
  <2>3. k = N + 1 \/ fed < start[k + 1]
    BY <1>1, <2>2, TakeMessageReads
  <2>4. k = N + 1
    <3>1. k <= N => start[k + 1] \in Nat /\ start[k + 1] <= Len(W)
      BY <1>3, MessageEnds
    <3> HIDE DEF N
    <3> QED
      BY <1>3, <1>4, <2>1, <2>3, <3>1
  <2>5. x.got = SubSeq(messages, 1, N)
    BY <1>1, <1>4, <2>4
  <2> HIDE DEF R
  <2> QED
    BY <1>2, <2>5, SubSeqFull
<1> QED
  BY <1>1, <1>5, <1>6

(* However the bytes of any stream of messages are cut into chunks, the    *)
(* messages read are those sent, in their order, and all of them once all  *)
(* bytes have come (buffer.ts, ReadMessageBuffer).                         *)
THEOREM FramingAlwaysExact == StructuresSpec => []FramingExact
<1>1. FramingInv => FramingExact
  BY FramedExact DEF FramingInv, FramingExact
<1> QED
  BY <1>1, FramingInit, FramingStep, PTL DEF StructuresSpec

----------------------------------------------------------------------------
(* The configuration. *)

(* Parameters that are taken as they are; a configuration on its way.      *)
Plain == Params \ {"database", "branch", "tlsSecurity"}
IsConfig(c) ==
  /\ c = [p \in Params |-> c[p]]
  /\ None \in {c["database"], c["branch"]} /\ c["tlsSecurity"] # Refused

(* One source more, with its offer, from c to d. *)
Secured(old, value, env) == IF old # None \/ value = None THEN old ELSE ClientSecurity(value, env)
Takes(d, c, offer, env) ==
  /\ IsConfig(d)
  /\ \A p \in Plain : d[p] = FirstOf(c[p], offer[p])
  /\ Name(d) = FirstOf(Name(c), Name(offer))
  /\ d["tlsSecurity"] = Secured(c["tlsSecurity"], offer["tlsSecurity"], env)

(* All parameters, the plain ones and three others. *)
LEMMA PlainIs ==
  /\ Params = Plain \cup {"database", "branch", "tlsSecurity"}
  /\ "database" \notin Plain /\ "branch" \notin Plain /\ "tlsSecurity" \notin Plain
  BY DEF Plain, Params, Single

(* _setParam(): a value is taken if there is none, or is an error. *)
LEMMA SetParamIs ==
  ASSUME NEW c, IsConfig(c), NEW p \in Params, NEW value, NEW env
  PROVE  \/ SetParam(c, p, value, env) = Error
         \/ SetParam(c, p, value, env) =
              [c EXCEPT ![p] = IF p = "tlsSecurity" THEN Secured(c[p], value, env) ELSE FirstOf(c[p], value)]
<1> DEFINE d == SetParam(c, p, value, env)
           taken == IF p = "tlsSecurity" THEN Secured(c[p], value, env) ELSE FirstOf(c[p], value)
<1>1. [c EXCEPT ![p] = c[p]] = c
  BY DEF IsConfig
<1>2. CASE c = Error \/ value = None \/ c[p] # None
  <2>1. d = c
    BY <1>2 DEF SetParam
  <2>2. c # Error => taken = c[p]
    BY <1>2 DEF Secured, FirstOf
  <2> HIDE DEF d, taken
  <2>3. d = Error \/ d = [c EXCEPT ![p] = taken]
    BY <1>1, <2>1, <2>2
  <2> QED
    BY <2>3 DEF d, taken
<1>3. CASE ~(c = Error \/ value = None \/ c[p] # None)
  <2>1. \/ d = Error
        \/ p = "tlsSecurity" /\ d = [c EXCEPT ![p] = ClientSecurity(value, env)]
        \/ p # "tlsSecurity" /\ d = [c EXCEPT ![p] = value]
    BY <1>3, Zenon DEF SetParam
  <2>2. taken = IF p = "tlsSecurity" THEN ClientSecurity(value, env) ELSE value
    BY <1>3, Zenon DEF Secured, FirstOf
  <2> HIDE DEF d, taken
  <2>3. d = Error \/ d = [c EXCEPT ![p] = taken]
    BY <2>1, <2>2
  <2> QED
    BY <2>3 DEF d, taken
<1> QED
  BY <1>2, <1>3

(* TLS security that is refused is an error. *)
LEMMA SetParamSecure ==
  ASSUME NEW c, IsConfig(c), NEW value, NEW env
  PROVE  \/ SetParam(c, "tlsSecurity", value, env) = Error
         \/ SetParam(c, "tlsSecurity", value, env)["tlsSecurity"] # Refused
<1>1. "tlsSecurity" \in Params
  BY PlainIs
<1>2. c["tlsSecurity"] # Refused /\ \A v : [c EXCEPT !["tlsSecurity"] = v]["tlsSecurity"] = v
  BY <1>1 DEF IsConfig
<1> QED
  BY <1>2, Zenon DEF SetParam

(* What SetParam() leaves in its parameter. *)
Taken(c, p, value, env) == IF p = "tlsSecurity" THEN Secured(c[p], value, env) ELSE FirstOf(c[p], value)
ParamTaken(d, c, p, value, env) ==
  /\ d = [c EXCEPT ![p] = Taken(c, p, value, env)]
  /\ d[p] = Taken(c, p, value, env)
  /\ p = "tlsSecurity" => d[p] # Refused
LEMMA SetParamTakes ==
  ASSUME NEW c, IsConfig(c), NEW p \in Params, NEW value, NEW env, NEW d, d = SetParam(c, p, value, env), d # Error
  PROVE  ParamTaken(d, c, p, value, env)
<1>2. d = [c EXCEPT ![p] = Taken(c, p, value, env)]
  BY SetParamIs DEF Taken
<1>3. p = "tlsSecurity" => d[p] # Refused
  BY SetParamSecure
<1>4. \A v : [c EXCEPT ![p] = v][p] = v
  BY DEF IsConfig
<1> QED
  BY <1>2, <1>3, <1>4, Zenon DEF ParamTaken

(* The parameters of a source, but for database and branch. *)
AllTaken(d, c, values, env) ==
  /\ IsConfig(d)
  /\ \A p \in Plain : d[p] = FirstOf(c[p], Given(values, p))
  /\ d["database"] = c["database"] /\ d["branch"] = c["branch"]
  /\ d["tlsSecurity"] = Secured(c["tlsSecurity"], Given(values, "tlsSecurity"), env)
LEMMA SetAllIs ==
  ASSUME NEW c, IsConfig(c), NEW values, NEW env, NEW d, d = SetAll(c, values, env), d # Error
  PROVE  AllTaken(d, c, values, env)
<1> DEFINE rest == DOMAIN values \ {"database", "branch"}
           new == [p \in rest |-> SetParam(c, p, values[p], env)]
           all == [p \in Params |-> IF p \in rest THEN new[p][p] ELSE c[p]]
<1>1. (\A p \in rest : new[p] # Error) /\ d = all
  BY Zenon DEF SetAll
<1>2. ASSUME NEW p \in Params, p \in rest
      PROVE  d[p] = Taken(c, p, values[p], env) /\ (p = "tlsSecurity" => d[p] # Refused)
  <2> DEFINE e == SetParam(c, p, values[p], env)
  <2>1. new[p] = e /\ d[p] = new[p][p] /\ e # Error
    BY <1>1, <1>2
  <2> HIDE DEF e, new, rest, all
  <2>2. e = SetParam(c, p, values[p], env)
    BY DEF e
  <2>3. e[p] = Taken(c, p, values[p], env) /\ (p = "tlsSecurity" => e[p] # Refused)
    <3>1. ParamTaken(e, c, p, values[p], env)
      BY <2>1, <2>2, SetParamTakes, Zenon
    <3> QED
      BY <3>1, Zenon DEF ParamTaken
  <2> QED
    BY <2>1, <2>3, Zenon
<1>3. ASSUME NEW p \in Params, p \notin rest PROVE d[p] = c[p]
  BY <1>1, <1>3
<1>4. d = [p \in Params |-> d[p]]
  BY <1>1
<1> HIDE DEF new, all
<1>5. d["database"] = c["database"] /\ d["branch"] = c["branch"]
  BY <1>3, PlainIs
<1>6. ASSUME NEW p \in Plain PROVE d[p] = FirstOf(c[p], Given(values, p))
  <2>1. p \in Params /\ p # "database" /\ p # "branch" /\ p # "tlsSecurity"
    BY PlainIs
  <2>2. CASE p \in DOMAIN values
    <3>1. d[p] = Taken(c, p, values[p], env) /\ Given(values, p) = values[p]
      BY <1>2, <2>1, <2>2 DEF Given
    <3> QED
      BY <2>1, <3>1, Zenon DEF Taken
  <2>3. CASE p \notin DOMAIN values
    <3>1. d[p] = c[p] /\ Given(values, p) = None
      BY <1>3, <2>1, <2>3 DEF Given
    <3> QED
      BY <3>1, Zenon DEF FirstOf
  <2> QED
    BY <2>2, <2>3
<1>7. /\ d["tlsSecurity"] = Secured(c["tlsSecurity"], Given(values, "tlsSecurity"), env)
      /\ d["tlsSecurity"] # Refused
  <2> DEFINE p == "tlsSecurity"
  <2>0. p = "tlsSecurity"
    OBVIOUS
  <2>1. p \in Params /\ p # "database" /\ p # "branch" /\ c[p] # Refused
    BY PlainIs DEF IsConfig
  <2> HIDE DEF p
  <2>2. CASE p \in DOMAIN values
    <3>1. d[p] = Taken(c, p, values[p], env) /\ Given(values, p) = values[p] /\ d[p] # Refused
      BY <1>2, <2>0, <2>1, <2>2 DEF Given
    <3> QED
      BY <2>0, <3>1, Zenon DEF Taken
  <2>3. CASE p \notin DOMAIN values
    <3>1. d[p] = c[p] /\ Given(values, p) = None
      BY <1>3, <2>1, <2>3 DEF Given
    <3> QED
      BY <2>0, <2>1, <3>1, Zenon DEF Secured
  <2> QED
    BY <2>2, <2>3
<1>8. IsConfig(d)
  BY <1>4, <1>5, <1>7 DEF IsConfig
<1> QED
  BY <1>5, <1>6, <1>7, <1>8, Zenon DEF AllTaken

(* Then database and branch. *)
LEMMA SetEitherIs ==
  ASSUME NEW c, IsConfig(c), NEW values, NEW d, d = SetEither(c, values), d # Error
  PROVE  /\ IsConfig(d) /\ \A p \in Params \ {"database", "branch"} : d[p] = c[p]
         /\ Name(d) = FirstOf(Name(c), Name(values))
<1>1. "database" \in Params /\ "branch" \in Params /\ c = [p \in Params |-> c[p]] /\ c["tlsSecurity"] # Refused
      /\ "tlsSecurity" \in Params /\ None \in {c["database"], c["branch"]}
  BY PlainIs DEF IsConfig
<1>2. CASE c["database"] # None \/ c["branch"] # None
  BY <1>2, Zenon DEF SetEither, Name, FirstOf
<1>3. CASE ~(c["database"] # None \/ c["branch"] # None)
  <2> DEFINE q == IF values["database"] # None THEN "database" ELSE "branch"
             name == values[q]
  <2>1. d = SetParam(c, q, name, None) /\ q \in {"database", "branch"} /\ name = Name(values)
    BY <1>3 DEF SetEither, Name, FirstOf
  <2> HIDE DEF q, name
  <2>2. d = [c EXCEPT ![q] = Taken(c, q, name, None)] /\ Taken(c, q, name, None) = name
    <3>1. ParamTaken(d, c, q, name, None)
      BY <1>1, <2>1, SetParamTakes
    <3>2. c[q] = None /\ q # "tlsSecurity"
      BY <1>3, <2>1
    <3>3. Taken(c, q, name, None) = name
      BY <3>2, Zenon DEF Taken, FirstOf
    <3> QED
      BY <3>1, <3>3, Zenon DEF ParamTaken
  <2>3. d = [c EXCEPT ![q] = name]
    BY <2>2
  <2>4. /\ d = [p \in Params |-> d[p]] /\ d[q] = name
        /\ \A p \in Params : p # q => d[p] = c[p]
    BY <1>1, <2>1, <2>3
  <2>5. IsConfig(d)
    BY <1>1, <1>3, <2>1, <2>4 DEF IsConfig
  <2>6. Name(d) = FirstOf(Name(c), Name(values))
    BY <1>1, <1>3, <2>1, <2>4 DEF Name, FirstOf
  <2> QED
    BY <2>1, <2>4, <2>5, <2>6
<1> QED
  BY <1>2, <1>3

(* A source gives what it says. *)
LEMMA SetSourceTakes ==
  ASSUME NEW c, IsConfig(c), NEW values, NEW env, NEW d, d = SetSource(c, values, env), d # Error
  PROVE  Takes(d, c, Says(values), env)
<1> DEFINE either == [p \in {"database", "branch"} |-> Given(values, p)]
           a == SetAll(c, values, env)
<1>1. a # Error /\ d = SetEither(a, either)
  BY DEF SetSource, Then
<1>2. either["database"] = Given(values, "database") /\ either["branch"] = Given(values, "branch")
  OBVIOUS
<1> HIDE DEF either
<1>3. a = SetAll(c, values, env)
  OBVIOUS
<1> HIDE DEF a
<1>4. /\ IsConfig(a)
      /\ \A p \in Plain : a[p] = FirstOf(c[p], Given(values, p))
      /\ a["database"] = c["database"] /\ a["branch"] = c["branch"]
      /\ a["tlsSecurity"] = Secured(c["tlsSecurity"], Given(values, "tlsSecurity"), env)
  <2>1. AllTaken(a, c, values, env)
    BY <1>1, <1>3, SetAllIs, Zenon
  <2> QED
    BY <2>1, Zenon DEF AllTaken
<1>5. /\ IsConfig(d) /\ \A p \in Params \ {"database", "branch"} : d[p] = a[p]
      /\ Name(d) = FirstOf(Name(a), Name(either))
  BY <1>1, <1>4, SetEitherIs, Zenon
<1>6. \A p \in Params : Says(values)[p] = Given(values, p)
  BY DEF Says
<1>7. Name(a) = Name(c) /\ Name(either) = Name(Says(values))
  BY <1>2, <1>4, <1>6, PlainIs DEF Name
<1>8. \A p \in Plain : d[p] = FirstOf(c[p], Says(values)[p])
  BY <1>4, <1>5, <1>6, PlainIs
<1>9. d["tlsSecurity"] = Secured(c["tlsSecurity"], Says(values)["tlsSecurity"], env)
  BY <1>4, <1>5, <1>6, PlainIs
<1> QED
  BY <1>5, <1>7, <1>8, <1>9, Zenon DEF Takes

(* Two offers of the same. *)
LEMMA SameOffer ==
  ASSUME NEW d, NEW c, NEW o, NEW q, NEW env, Takes(d, c, o, env),
         \A p \in Plain : o[p] = q[p], Name(o) = Name(q), o["tlsSecurity"] = q["tlsSecurity"]
  PROVE  Takes(d, c, q, env)
  BY DEF Takes

(* validateCredentials(): what is said twice is said once. *)
LEMMA CredentialsTake ==
  ASSUME NEW c, IsConfig(c), NEW x, x.kind = "credentials", NEW env, ValidateCredentials(x.data) # Error,
         NEW d, d = SetSource(c, ValidateCredentials(x.data), env), d # Error
  PROVE  Takes(d, c, Offer(x), env)
<1> DEFINE data == x.data
           creds == ValidateCredentials(data)
           says == Says([host |-> data.host, port |-> data.port, user |-> data.user,
                         database |-> data.database, branch |-> data.branch,
                         tlsCA |-> FirstOf(data.ca, data.certData),
                         tlsSecurity |-> FirstOf(data.security, Verify(data))])
<1>1. Takes(d, c, Says(creds), env)
  BY SetSourceTakes, Zenon
<1>2. Offer(x) = says
  BY Zenon DEF Offer
<1> DEFINE branch == IF data.database = None THEN data.branch ELSE None
           ca == IF data.certData = None THEN data.ca ELSE data.certData
           security == IF data.security = None THEN Verify(data) ELSE data.security
<1>3. creds = [port |-> data.port, user |-> data.user, host |-> data.host, database |-> data.database,
               branch |-> branch, tlsCA |-> ca, tlsSecurity |-> security]
  BY Zenon DEF ValidateCredentials
<1>4. ca = FirstOf(data.ca, data.certData)
  <2>1. ~Disagree(data.certData, data.ca)
    BY Zenon DEF ValidateCredentials
  <2> QED
    BY <2>1 DEF Disagree, FirstOf
<1>5. security = FirstOf(data.security, Verify(data))
  BY DEF FirstOf
<1>6. FirstOf(data.database, branch) = FirstOf(data.database, data.branch)
  BY DEF FirstOf
<1> HIDE DEF branch, ca, security, creds, data
<1>7. /\ Says(creds)["database"] = data.database /\ Says(creds)["branch"] = branch
      /\ Says(creds)["tlsSecurity"] = security
      /\ \A p \in Plain : Says(creds)[p] = says[p]
  BY <1>3, <1>4 DEF Says, Given, Plain, Params, Single
<1>8. says["database"] = data.database /\ says["branch"] = data.branch
      /\ says["tlsSecurity"] = FirstOf(data.security, Verify(data))
  BY DEF Says, Given, Params, Single
<1>9. Name(Says(creds)) = Name(says)
  BY <1>6, <1>7, <1>8 DEF Name
<1>10. Says(creds)["tlsSecurity"] = says["tlsSecurity"]
  BY <1>5, <1>7, <1>8
<1> HIDE DEF says
<1>11. Takes(d, c, says, env)
  BY <1>1, <1>7, <1>9, <1>10, SameOffer, Zenon
<1> QED
  BY <1>2, <1>11, Zenon

(* A host and a port. *)
LEMMA AddressTakes ==
  ASSUME NEW c, IsConfig(c), NEW x, x.kind = "address", NEW env,
         NEW d, d = SetSource(c, [host |-> x.host, port |-> x.port], env), d # Error
  PROVE  Takes(d, c, Offer(x), env)
<1>1. Takes(d, c, Says([host |-> x.host, port |-> x.port]), env)
  BY SetSourceTakes, Zenon
<1>2. Offer(x) = Says([host |-> x.host, port |-> x.port])
  BY Zenon DEF Offer
<1> QED
  BY <1>1, <1>2, Zenon

(* parseCloudInstanceNameIntoConfig(): the key and the host it computes. *)
LEMMA CloudTakes ==
  ASSUME NEW c, IsConfig(c), NEW x, x.kind = "cloud", NEW env, NEW d, d = CloudInstance(c, x), d # Error
  PROVE  Takes(d, c, Offer(x), env)
<1> DEFINE says == Says([secretKey |-> "cloud-credentials", host |-> "cloud"])
           key == IF c["secretKey"] = None THEN "cloud-credentials" ELSE c["secretKey"]
           host == IF c["host"] = None THEN "cloud" ELSE c["host"]
<1>1. Offer(x) = says
  BY Zenon DEF Offer
<1>2. d = [c EXCEPT !["secretKey"] = key, !["host"] = host]
  BY DEF CloudInstance
<1>3. key = FirstOf(c["secretKey"], "cloud-credentials") /\ host = FirstOf(c["host"], "cloud")
  BY DEF FirstOf
<1> HIDE DEF key, host
<1>4. /\ says["secretKey"] = "cloud-credentials" /\ says["host"] = "cloud"
      /\ \A p \in Params \ {"secretKey", "host"} : says[p] = None
  BY DEF Says, Given, Params, Single
<1>5. /\ "secretKey" \in Params /\ "host" \in Params /\ {"database", "branch", "tlsSecurity"} \subseteq Params
      /\ "secretKey" \in Plain /\ "host" \in Plain
      /\ "database" \notin {"secretKey", "host"} /\ "branch" \notin {"secretKey", "host"}
      /\ "tlsSecurity" \notin {"secretKey", "host"} /\ "secretKey" # "host"
  BY DEF Plain, Params, Single
<1>6. c = [p \in Params |-> c[p]] /\ None \in {c["database"], c["branch"]} /\ c["tlsSecurity"] # Refused
  BY DEF IsConfig
<1> HIDE DEF says
<1>7. /\ d = [p \in Params |-> d[p]]
      /\ d["secretKey"] = key /\ d["host"] = host
      /\ \A p \in Params \ {"secretKey", "host"} : d[p] = c[p]
  BY <1>2, <1>5, <1>6
<1>8. /\ d["database"] = c["database"] /\ d["branch"] = c["branch"] /\ d["tlsSecurity"] = c["tlsSecurity"]
      /\ says["database"] = None /\ says["branch"] = None /\ says["tlsSecurity"] = None
  BY <1>4, <1>5, <1>7
<1>9. IsConfig(d)
  BY <1>6, <1>7, <1>8 DEF IsConfig
<1>10. \A p \in Plain : d[p] = FirstOf(c[p], says[p])
  <2>1. ASSUME NEW p \in Plain, p \notin {"secretKey", "host"} PROVE d[p] = FirstOf(c[p], says[p])
    <3>1. p \in Params
      BY PlainIs
    <3>2. d[p] = c[p] /\ says[p] = None
      BY <1>4, <1>7, <2>1, <3>1
    <3> QED
      BY <3>2, Zenon DEF FirstOf
  <2> QED
    BY <1>3, <1>4, <1>7, <2>1
<1>11. Name(d) = FirstOf(Name(c), Name(says)) /\ d["tlsSecurity"] = Secured(c["tlsSecurity"], says["tlsSecurity"], env)
  BY <1>8, Zenon DEF Name, FirstOf, Secured
<1> QED
  BY <1>1, <1>9, <1>10, <1>11, Zenon DEF Takes

(* A part of a DSN: one that is not there offers nothing. *)
LEMMA DsnPartTakes ==
  ASSUME NEW c, IsConfig(c), NEW p \in Params, NEW ways, NEW value, NEW env,
         NEW d, d = DsnPart(c, p, ways, value, env), d # Error
  PROVE  ParamTaken(d, c, p, IF ways = {} THEN None ELSE value, env)
<1> DEFINE way == IF ways = {} THEN None ELSE value
<1>1. CASE c[p] # None \/ ways = {}
  <2>1. d = c
    BY <1>1, Zenon DEF DsnPart
  <2>2. Taken(c, p, way, env) = c[p]
    BY <1>1 DEF Taken, Secured, FirstOf
  <2>3. c = [c EXCEPT ![p] = c[p]] /\ (p = "tlsSecurity" => c[p] # Refused)
    BY DEF IsConfig
  <2> QED
    BY <2>1, <2>2, <2>3, Zenon DEF ParamTaken
<1>2. CASE ~(c[p] # None \/ ways = {})
  <2>1. way = value /\ d = SetParam(c, p, value, env)
    BY <1>2 DEF DsnPart
  <2> HIDE DEF way
  <2>2. ParamTaken(d, c, p, value, env)
    BY <2>1, SetParamTakes, Zenon
  <2> QED
    BY <2>1, <2>2, Zenon DEF way
<1> QED
  BY <1>1, <1>2

(* The path of a DSN and its database or branch. *)
EitherTaken(d, c, name) ==
  /\ IsConfig(d) /\ \A p \in Params \ {"database", "branch"} : d[p] = c[p]
  /\ Name(d) = FirstOf(Name(c), name)
LEMMA DsnEitherTakes ==
  ASSUME NEW c, IsConfig(c), NEW x, NEW env, NEW d, d = DsnEither(c, x, env), d # Error
  PROVE  EitherTaken(d, c, IF x.branch # {} \/ x.path \cup x.database # {} THEN "dsn" ELSE None)
<1>0. /\ c = [p \in Params |-> c[p]] /\ None \in {c["database"], c["branch"]} /\ c["tlsSecurity"] # Refused
      /\ "database" \in Params /\ "branch" \in Params /\ "tlsSecurity" \in Params
      /\ "database" # "branch" /\ "database" # "tlsSecurity" /\ "branch" # "tlsSecurity"
  BY PlainIs DEF IsConfig
<1> DEFINE name == IF x.branch # {} \/ x.path \cup x.database # {} THEN "dsn" ELSE None
<1>1. CASE (x.branch # {} /\ c["database"] # None) \/ (x.branch = {} /\ c["branch"] # None)
  <2>1. d = c
    BY <1>1, Zenon DEF DsnEither
  <2>2. FirstOf(Name(c), name) = Name(c)
    BY <1>0, <1>1 DEF Name, FirstOf
  <2> QED
    BY <2>1, <2>2, Zenon DEF EitherTaken
<1>2. CASE x.branch # {} /\ c["database"] = None
  <2> DEFINE ways == x.path \cup x.branch
  <2>1. d = DsnPart(c, "branch", ways, "dsn", env) /\ ways # {} /\ name = "dsn"
    BY <1>2 DEF DsnEither
  <2> HIDE DEF ways, name
  <2> DEFINE p == "branch"
             way == IF ways = {} THEN None ELSE "dsn"
             dsn == "dsn"
  <2>2. p \in Params /\ p # "tlsSecurity" /\ d = DsnPart(c, p, ways, dsn, env) /\ way = dsn
    BY <1>0, <2>1
  <2> HIDE DEF p, dsn
  <2>3. ParamTaken(d, c, p, IF ways = {} THEN None ELSE dsn, env)
    BY <2>2, DsnPartTakes, Zenon
  <2>4. (IF ways = {} THEN None ELSE dsn) = dsn
    BY <2>1
  <2>5. d = [c EXCEPT ![p] = FirstOf(c[p], dsn)]
    BY <2>2, <2>3, <2>4, Zenon DEF ParamTaken, Taken
  <2>6. /\ d = [q \in Params |-> d[q]] /\ d["branch"] = FirstOf(c["branch"], "dsn")
        /\ \A q \in Params \ {"branch"} : d[q] = c[q]
    BY <1>0, <2>5 DEF p, dsn
  <2>7. d["database"] = None /\ d["tlsSecurity"] = c["tlsSecurity"]
    BY <1>0, <1>2, <2>6
  <2>8. IsConfig(d)
    BY <1>0, <2>6, <2>7 DEF IsConfig
  <2>9. Name(d) = FirstOf(Name(c), name)
    BY <1>2, <2>1, <2>6, <2>7 DEF Name, FirstOf
  <2> QED
    BY <2>6, <2>8, <2>9 DEF name, EitherTaken
<1>3. CASE x.branch = {} /\ c["branch"] = None
  <2> DEFINE ways == x.path \cup x.database
  <2>1. d = DsnPart(c, "database", ways, "dsn", env) /\ name = (IF ways = {} THEN None ELSE "dsn")
    BY <1>3 DEF DsnEither
  <2> HIDE DEF ways, name
  <2> DEFINE p == "database"
             dsn == "dsn"
  <2>2. p \in Params /\ p # "tlsSecurity" /\ d = DsnPart(c, p, ways, dsn, env)
    BY <1>0, <2>1
  <2> HIDE DEF p, dsn
  <2>3. ParamTaken(d, c, p, IF ways = {} THEN None ELSE dsn, env)
    BY <2>2, DsnPartTakes, Zenon
  <2>4. (IF ways = {} THEN None ELSE dsn) = name
    BY <2>1 DEF dsn
  <2>5. d = [c EXCEPT ![p] = FirstOf(c[p], name)]
    BY <2>2, <2>3, <2>4, Zenon DEF ParamTaken, Taken
  <2>6. /\ d = [q \in Params |-> d[q]] /\ d["database"] = FirstOf(c["database"], name)
        /\ \A q \in Params \ {"database"} : d[q] = c[q]
    BY <1>0, <2>5 DEF p
  <2>7. d["branch"] = None /\ d["tlsSecurity"] = c["tlsSecurity"]
    BY <1>0, <1>3, <2>6
  <2>8. IsConfig(d)
    BY <1>0, <2>6, <2>7 DEF IsConfig
  <2>9. Name(d) = FirstOf(Name(c), name)
    BY <1>3, <2>6, <2>7 DEF Name, FirstOf
  <2> QED
    BY <2>6, <2>8, <2>9 DEF name, EitherTaken
<1> QED
  BY <1>1, <1>2, <1>3

(* parseDSNIntoConfig(): what the parts of the DSN say. *)
LEMMA DsnTakes ==
  ASSUME NEW c, IsConfig(c), NEW x, x.kind = "dsn", NEW env, NEW d, d = ParseDSN(c, x, env), d # Error
  PROVE  Takes(d, c, Offer(x), env)
<1> DEFINE parts == [p \in DsnParams |-> DsnPart(c, p, x.parts[p], DsnValue(x, p), env)]
           b == [p \in Params |-> IF p \in DsnParams THEN parts[p][p] ELSE c[p]]
           name == IF x.branch # {} \/ x.path \cup x.database # {} THEN "dsn" ELSE None
           says == [p \in Params |->
                      CASE p = "branch" -> IF x.branch # {} THEN "dsn" ELSE None
                        [] p = "database" -> IF x.branch = {} /\ x.path \cup x.database # {} THEN "dsn" ELSE None
                        [] p = "cloudProfile" -> None
                        [] OTHER -> IF x.parts[p] # {} THEN DsnValue(x, p) ELSE None]
<1>1. Offer(x) = says
  BY Zenon DEF Offer
<1>2. (\A p \in DsnParams : parts[p] # Error) /\ d = DsnEither(b, x, env)
  BY Zenon DEF ParseDSN
<1>3. /\ Params = DsnParams \cup {"cloudProfile", "database", "branch"}
      /\ "cloudProfile" \notin DsnParams /\ "database" \notin DsnParams /\ "branch" \notin DsnParams
      /\ "tlsSecurity" \in DsnParams /\ "cloudProfile" \in Plain
      /\ \A p \in DsnParams : p \in Params /\ p # "cloudProfile" /\ p # "database" /\ p # "branch"
      /\ \A p \in Plain : p \in DsnParams \/ p = "cloudProfile"
      /\ \A p \in Plain : p # "tlsSecurity"
  BY DEF DsnParams, Plain, Params, Single
<1>4. /\ \A p \in DsnParams : says[p] = IF x.parts[p] # {} THEN DsnValue(x, p) ELSE None
      /\ says["cloudProfile"] = None
      /\ FirstOf(says["database"], says["branch"]) = name
  <2>1. \A p \in DsnParams : says[p] = IF x.parts[p] # {} THEN DsnValue(x, p) ELSE None
    BY <1>3
  <2>2. /\ says["cloudProfile"] = None
        /\ says["branch"] = IF x.branch # {} THEN "dsn" ELSE None
        /\ says["database"] = IF x.branch = {} /\ x.path \cup x.database # {} THEN "dsn" ELSE None
    BY <1>3
  <2> QED
    BY <2>1, <2>2 DEF FirstOf
<1> HIDE DEF says
<1>5. ASSUME NEW p \in DsnParams
      PROVE  /\ b[p] = Taken(c, p, says[p], env)
             /\ p = "tlsSecurity" => b[p] # Refused
  <2> DEFINE a == DsnPart(c, p, x.parts[p], DsnValue(x, p), env)
             ways == x.parts[p]
             value == DsnValue(x, p)
  <2>1. parts[p] = a /\ b[p] = parts[p][p] /\ p \in Params
    BY <1>3
  <2>2. a # Error
    BY <1>2, <2>1
  <2>3. a = DsnPart(c, p, ways, value, env)
    OBVIOUS
  <2> HIDE DEF a, ways, value, parts, b
  <2>4. ParamTaken(a, c, p, IF ways = {} THEN None ELSE value, env)
    BY <2>1, <2>2, <2>3, DsnPartTakes, Zenon
  <2>5. says[p] = IF ways = {} THEN None ELSE value
    BY <1>4, Zenon DEF ways, value
  <2> QED
    BY <2>1, <2>4, <2>5, Zenon DEF ParamTaken
<1>6. /\ b = [p \in Params |-> b[p]]
      /\ \A p \in {"cloudProfile", "database", "branch"} : b[p] = c[p]
  BY <1>3
<1> HIDE DEF parts, b
<1>7. IsConfig(b)
  BY <1>3, <1>5, <1>6 DEF IsConfig
<1>8. /\ IsConfig(d) /\ \A p \in Params \ {"database", "branch"} : d[p] = b[p]
      /\ Name(d) = FirstOf(Name(b), name)
  <2>1. EitherTaken(d, b, name)
    BY <1>2, <1>7, DsnEitherTakes, Zenon
  <2> HIDE DEF name
  <2> QED
    BY <2>1, Zenon DEF EitherTaken
<1>9. Name(b) = Name(c) /\ Name(says) = name
  BY <1>4, <1>6 DEF Name
<1>10. d["tlsSecurity"] = Secured(c["tlsSecurity"], says["tlsSecurity"], env)
  <2> DEFINE p == "tlsSecurity"
  <2>1. p \in DsnParams /\ p \in Params \ {"database", "branch"} /\ p = "tlsSecurity"
    BY <1>3
  <2> HIDE DEF p
  <2>2. d[p] = Taken(c, p, says[p], env)
    BY <1>5, <1>8, <2>1
  <2> QED
    BY <2>1, <2>2, Zenon DEF Taken
<1>11. ASSUME NEW p \in Plain PROVE d[p] = FirstOf(c[p], says[p])
  <2>1. p \in Params \ {"database", "branch"} /\ p # "tlsSecurity"
    BY PlainIs
  <2>2. d[p] = b[p]
    BY <1>8, <2>1
  <2>3. CASE p \in DsnParams
    BY <1>5, <2>1, <2>2, <2>3, Zenon DEF Taken
  <2>4. CASE p = "cloudProfile"
    <3>1. b[p] = c[p] /\ says[p] = None
      BY <1>4, <1>6, <2>4
    <3> QED
      BY <2>2, <3>1, Zenon DEF FirstOf
  <2> QED
    BY <1>3, <2>3, <2>4
<1> QED
  BY <1>1, <1>8, <1>9, <1>10, <1>11, Zenon DEF Takes

----------------------------------------------------------------------------
(* The first offer. *)

(* x is the first value of v[1], ..., v[n] that is one. *)
IsFirst(x, v, n) ==
  \/ x = None /\ \A k \in 1 .. n : v[k] = None
  \/ x # None /\ \E k \in 1 .. n : v[k] = x /\ \A j \in 1 .. n : j < k => v[j] = None

(* One value more: it is the first if there was none. *)
LEMMA FirstGrows ==
  ASSUME NEW x, NEW v, NEW n \in Nat, IsFirst(x, v, n), NEW w, \A k \in 1 .. n : w[k] = v[k]
  PROVE  IsFirst(FirstOf(x, w[n + 1]), w, n + 1)
<1>1. 1 .. n + 1 = 1 .. n \cup {n + 1} /\ n + 1 \notin 1 .. n /\ \A k \in 1 .. n : k < n + 1 /\ ~(n + 1 < k)
  OBVIOUS
<1>2. CASE x = None /\ \A k \in 1 .. n : v[k] = None
  <2>1. FirstOf(x, w[n + 1]) = w[n + 1]
    BY <1>2 DEF FirstOf
  <2>2. \A k \in 1 .. n : w[k] = None
    BY <1>2
  <2>3. CASE w[n + 1] = None
    BY <1>1, <2>1, <2>2, <2>3, Zenon DEF IsFirst
  <2>4. CASE w[n + 1] # None
    <3>1. n + 1 \in 1 .. n + 1 /\ ~(n + 1 < n + 1)
      OBVIOUS
    <3>2. \A j \in 1 .. n + 1 : j < n + 1 => w[j] = None
      BY <1>1, <2>2, <3>1, Zenon
    <3> QED
      BY <2>1, <2>4, <3>1, <3>2, Zenon DEF IsFirst
  <2> QED
    BY <2>3, <2>4
<1>3. CASE x # None /\ \E k \in 1 .. n : v[k] = x /\ \A j \in 1 .. n : j < k => v[j] = None
  <2>1. PICK k \in 1 .. n : v[k] = x /\ \A j \in 1 .. n : j < k => v[j] = None
    BY <1>3
  <2>2. w[k] = x /\ k \in 1 .. n + 1
    BY <1>1, <2>1
  <2>3. \A j \in 1 .. n + 1 : j < k => w[j] = None
    BY <1>1, <2>1, Zenon
  <2>4. FirstOf(x, w[n + 1]) = x
    BY <1>3 DEF FirstOf
  <2> QED
    BY <1>3, <2>2, <2>3, <2>4, Zenon DEF IsFirst
<1> QED
  BY <1>2, <1>3 DEF IsFirst

(* FirstOffer() is the first of a column of offers. *)
LEMMA FirstOfferIs ==
  ASSUME NEW S, NEW offers \in Seq(S), NEW p, NEW x, IsFirst(x, [k \in 1 .. Len(offers) |-> offers[k][p]], Len(offers))
  PROVE  FirstOffer(offers, p) = x
<1> DEFINE giving == {n \in DOMAIN offers : offers[n][p] # None}
           N == Len(offers)
           v == [k \in 1 .. N |-> offers[k][p]]
<1>1. N \in Nat /\ DOMAIN offers = 1 .. N
  BY LenProperties
<1>2. \A k \in 1 .. N : v[k] = offers[k][p]
  OBVIOUS
<1>3. giving \subseteq 1 .. N /\ \A k \in 1 .. N : k \in giving <=> v[k] # None
  BY <1>1, <1>2
<1>4. FirstOffer(offers, p) = IF giving = {} THEN None ELSE offers[Min(giving)][p]
  BY DEF FirstOffer
<1>5. IsFirst(x, v, N)
  OBVIOUS
<1> HIDE DEF giving, N, v
<1>6. CASE x = None /\ \A k \in 1 .. N : v[k] = None
  BY <1>3, <1>4, <1>6
<1>7. CASE x # None /\ \E k \in 1 .. N : v[k] = x /\ \A j \in 1 .. N : j < k => v[j] = None
  <2>1. PICK k \in 1 .. N : v[k] = x /\ \A j \in 1 .. N : j < k => v[j] = None
    BY <1>7
  <2>2. k \in giving
    BY <1>3, <1>7, <2>1
  <2>3. \A j \in giving : k <= j
    BY <1>1, <1>3, <2>1
  <2>4. Min(giving) \in giving /\ \A j \in giving : Min(giving) <= j
    BY <2>2, <2>3 DEF Min
  <2> DEFINE m == Min(giving)
  <2>5. m \in giving /\ m <= k
    BY <2>2, <2>4, Zenon
  <2> HIDE DEF m
  <2>7. m \in Nat /\ k \in Nat /\ k <= m
    BY <1>1, <1>3, <2>3, <2>5
  <2>6. Min(giving) = k
    <3>1. m = k
      BY <2>5, <2>7
    <3> QED
      BY <3>1 DEF m
  <2> QED
    BY <1>2, <1>4, <2>1, <2>2, <2>6
<1> QED
  BY <1>5, <1>6, <1>7, Zenon DEF IsFirst

(* A configuration that has the first of the offers so far.                *)
Column(offers, p) == [k \in 1 .. Len(offers) |-> offers[k][p]]
Names(offers) == [k \in 1 .. Len(offers) |-> Name(offers[k])]
Summary(c, offers, env) ==
  /\ IsConfig(c)
  /\ \A p \in Plain : IsFirst(c[p], Column(offers, p), Len(offers))
  /\ IsFirst(Name(c), Names(offers), Len(offers))
  /\ \E t : /\ IsFirst(t, Column(offers, "tlsSecurity"), Len(offers))
            /\ c["tlsSecurity"] = IF t = None THEN None ELSE ClientSecurity(t, env)

(* TLS security, once computed, is there. *)
LEMMA SecurityIs == \A value, env : ClientSecurity(value, env) # None
  BY DEF ClientSecurity, Securities, None, Refused

(* With one offer more it has the first of them all. *)
LEMMA SummaryGrows ==
  ASSUME NEW S, NEW offers \in Seq(S), NEW o \in S, NEW c, NEW env, Summary(c, offers, env), NEW d, Takes(d, c, o, env)
  PROVE  offers \o <<o>> \in Seq(S) /\ Summary(d, offers \o <<o>>, env)
<1> DEFINE n == Len(offers)
           more == offers \o <<o>>
<1>1. <<o>> \in Seq(S) /\ Len(<<o>>) = 1 /\ <<o>>[1] = o
  OBVIOUS
<1>2. n \in Nat /\ more \in Seq(S) /\ Len(more) = n + 1 /\ more[n + 1] = o /\ \A k \in 1 .. n : more[k] = offers[k]
  <2>1. /\ more \in Seq(S) /\ Len(more) = Len(offers) + Len(<<o>>)
        /\ \A i \in 1 .. Len(offers) + Len(<<o>>) :
             more[i] = IF i <= Len(offers) THEN offers[i] ELSE <<o>>[i - Len(offers)]
    BY <1>1, ConcatProperties
  <2>2. n \in Nat
    BY LenProperties
  <2> HIDE DEF more
  <2> QED
    BY <1>1, <2>1, <2>2
<1> HIDE DEF n, more
<1>3. ASSUME NEW p PROVE /\ \A k \in 1 .. n : Column(more, p)[k] = Column(offers, p)[k]
                         /\ Column(more, p)[n + 1] = o[p]
  <2>1. \A k \in 1 .. n : k \in 1 .. n + 1
    BY <1>2
  <2>2. n + 1 \in 1 .. n + 1
    BY <1>2
  <2> QED
    BY <1>2, <2>1, <2>2 DEF Column, n
<1>4. (\A k \in 1 .. n : Names(more)[k] = Names(offers)[k]) /\ Names(more)[n + 1] = Name(o)
  <2>1. \A k \in 1 .. n : k \in 1 .. n + 1
    BY <1>2
  <2>2. n + 1 \in 1 .. n + 1
    BY <1>2
  <2> QED
    BY <1>2, <2>1, <2>2 DEF Names, n
<1>5. ASSUME NEW p \in Plain PROVE IsFirst(d[p], Column(more, p), n + 1)
  <2>1. IsFirst(c[p], Column(offers, p), n) /\ d[p] = FirstOf(c[p], o[p])
    BY Zenon DEF Summary, Takes, n
  <2>2. IsFirst(FirstOf(c[p], Column(more, p)[n + 1]), Column(more, p), n + 1)
    BY <1>2, <1>3, <2>1, FirstGrows, Zenon
  <2> QED
    BY <1>3, <2>1, <2>2, Zenon
<1>6. IsFirst(Name(d), Names(more), n + 1)
  <2>1. IsFirst(Name(c), Names(offers), n) /\ Name(d) = FirstOf(Name(c), Name(o))
    BY Zenon DEF Summary, Takes, n
  <2>2. IsFirst(FirstOf(Name(c), Names(more)[n + 1]), Names(more), n + 1)
    BY <1>2, <1>4, <2>1, FirstGrows, Zenon
  <2> QED
    BY <1>4, <2>1, <2>2, Zenon
<1> DEFINE tls == "tlsSecurity"
<1>7. PICK t : /\ IsFirst(t, Column(offers, tls), n)
               /\ c[tls] = IF t = None THEN None ELSE ClientSecurity(t, env)
  BY Zenon DEF Summary, n
<1>8. d[tls] = Secured(c[tls], o[tls], env)
  BY Zenon DEF Takes
<1>11. IsConfig(d)
  BY Zenon DEF Takes
<1> DEFINE u == FirstOf(t, o[tls])
<1> HIDE DEF tls
<1>9. IsFirst(u, Column(more, tls), n + 1)
  <2>1. IsFirst(FirstOf(t, Column(more, tls)[n + 1]), Column(more, tls), n + 1)
    BY <1>2, <1>3, <1>7, FirstGrows, Zenon
  <2> QED
    BY <1>3, <2>1, Zenon
<1>10. d[tls] = IF u = None THEN None ELSE ClientSecurity(u, env)
  <2>1. CASE t = None
    <3>1. c[tls] = None /\ u = o[tls]
      BY <1>7, <2>1 DEF FirstOf
    <3> HIDE DEF u
    <3> QED
      BY <1>8, <3>1, Zenon DEF Secured
  <2>2. CASE t # None
    <3>1. c[tls] = ClientSecurity(t, env) /\ u = t
      BY <1>7, <2>2 DEF FirstOf
    <3>2. c[tls] # None
      BY <3>1, SecurityIs
    <3> HIDE DEF u
    <3> QED
      BY <1>8, <2>2, <3>1, <3>2, Zenon DEF Secured
  <2> QED
    BY <2>1, <2>2
<1> HIDE DEF u
<1>12. Summary(d, more, env)
  BY <1>2, <1>5, <1>6, <1>9, <1>10, <1>11, Zenon DEF Summary, tls
<1> QED
  BY <1>2, <1>12 DEF more

(* resolveConfigOptions(): the parameters of a level, then the compound    *)
(* option it has.                                                          *)
LEMMA CompoundTakes ==
  ASSUME NEW c, IsConfig(c), NEW x, NEW env, NEW d, d # Error,
         d = CASE x.kind = "dsn" -> ParseDSN(c, x, env)
               [] x.kind = "address" -> SetSource(c, [host |-> x.host, port |-> x.port], env)
               [] x.kind = "credentials" ->
                    IF ValidateCredentials(x.data) = Error THEN Error ELSE SetSource(c, ValidateCredentials(x.data), env)
               [] x.kind = "cloud" -> CloudInstance(c, x)
               [] OTHER -> Error
  PROVE  Takes(d, c, Offer(x), env)
<1>1. \/ x.kind = "dsn" /\ d = ParseDSN(c, x, env)
      \/ x.kind = "address" /\ d = SetSource(c, [host |-> x.host, port |-> x.port], env)
      \/ /\ x.kind = "credentials" /\ ValidateCredentials(x.data) # Error
         /\ d = SetSource(c, ValidateCredentials(x.data), env)
      \/ x.kind = "cloud" /\ d = CloudInstance(c, x)
  OBVIOUS
<1> QED
  BY <1>1, DsnTakes, AddressTakes, CredentialsTake, CloudTakes, Zenon

(* A level adds its offers: its parameters and its compound option. *)
LEMMA LevelTakes ==
  ASSUME NEW S, NEW offers \in Seq(S), NEW c, NEW env, Summary(c, offers, env),
         NEW level, Says(level.single) \in S, level.compound # {} => Offer(CHOOSE x \in level.compound : TRUE) \in S,
         NEW d, d = ResolveOptions(c, level, env), d # Error
  PROVE  offers \o OffersOf(level) \in Seq(S) /\ Summary(d, offers \o OffersOf(level), env)
<1> DEFINE single == SetSource(c, level.single, env)
           x == CHOOSE x \in level.compound : TRUE
           says == Says(level.single)
           offer == Offer(x)
<1>1. /\ single # Error
      /\ level.compound = {} => d = single
      /\ level.compound # {} =>
           d = CASE x.kind = "dsn" -> ParseDSN(single, x, env)
                 [] x.kind = "address" -> SetSource(single, [host |-> x.host, port |-> x.port], env)
                 [] x.kind = "credentials" ->
                      IF ValidateCredentials(x.data) = Error THEN Error
                      ELSE SetSource(single, ValidateCredentials(x.data), env)
                 [] x.kind = "cloud" -> CloudInstance(single, x)
                 [] OTHER -> Error
  BY Zenon DEF ResolveOptions, Then
<1>2. OffersOf(level) = <<says>> \o (IF level.compound = {} THEN <<>> ELSE <<offer>>)
  BY DEF OffersOf
<1>3. single = SetSource(c, level.single, env) /\ says = Says(level.single) /\ says \in S
  OBVIOUS
<1>14. level.compound # {} => offer \in S
  OBVIOUS
<1>4. <<says>> \in Seq(S) /\ (level.compound # {} => <<offer>> \in Seq(S))
  BY <1>3, <1>14
<1>13. offer = Offer(x)
  OBVIOUS
<1> HIDE DEF single, x, says, offer
<1>5. IsConfig(c)
  BY Zenon DEF Summary
<1>6. Takes(single, c, says, env)
  BY <1>1, <1>3, <1>5, SetSourceTakes, Zenon
<1>7. offers \o <<says>> \in Seq(S) /\ Summary(single, offers \o <<says>>, env)
  BY <1>3, <1>6, SummaryGrows, Zenon
<1>8. CASE level.compound = {}
  <2>1. OffersOf(level) = <<says>> /\ d = single
    BY <1>1, <1>2, <1>4, <1>8, ConcatEmptySeq
  <2> QED
    BY <1>7, <2>1, Zenon
<1>9. CASE level.compound # {}
  <2>1. IsConfig(single)
    BY <1>7, Zenon DEF Summary
  <2>2. Takes(d, single, offer, env)
    BY <1>1, <1>9, <1>13, <2>1, CompoundTakes, Zenon
  <2>3. (offers \o <<says>>) \o <<offer>> \in Seq(S) /\ Summary(d, (offers \o <<says>>) \o <<offer>>, env)
    <3>1. offer \in S
      BY <1>9, <1>14
    <3> QED
      BY <1>7, <2>2, <3>1, SummaryGrows, Zenon
  <2>4. (offers \o <<says>>) \o <<offer>> = offers \o (<<says>> \o <<offer>>)
    <3> DEFINE a == <<says>>
               b == <<offer>>
    <3>1. a \in Seq(S) /\ b \in Seq(S)
      BY <1>4, <1>9
    <3> HIDE DEF a, b
    <3>2. (offers \o a) \o b = offers \o (a \o b)
      BY <3>1, ConcatAssociative
    <3> QED
      BY <3>2 DEF a, b
  <2>5. OffersOf(level) = <<says>> \o <<offer>>
    BY <1>2, <1>9
  <2> QED
    BY <2>3, <2>4, <2>5, Zenon
<1> QED
  BY <1>8, <1>9

(* The offers of a project are the same if its branch is the only name.    *)
LEMMA SameSummary ==
  ASSUME NEW c, NEW env, NEW offers, Summary(c, offers, env), NEW others, NEW n, Len(offers) = n, Len(others) = n,
         \A k \in 1 .. n : /\ \A p \in Plain \cup {"tlsSecurity"} : others[k][p] = offers[k][p]
                           /\ Name(others[k]) = Name(offers[k])
  PROVE  Summary(c, others, env)
<1>1. \A p \in Plain \cup {"tlsSecurity"} : Column(others, p) = Column(offers, p)
  BY DEF Column
<1>2. Names(others) = Names(offers)
  BY DEF Names
<1>3. /\ IsConfig(c)
      /\ \A p \in Plain : IsFirst(c[p], Column(offers, p), n)
      /\ IsFirst(Name(c), Names(offers), n)
      /\ \E t : /\ IsFirst(t, Column(offers, "tlsSecurity"), n)
                /\ c["tlsSecurity"] = IF t = None THEN None ELSE ClientSecurity(t, env)
  BY Zenon DEF Summary
<1>4. \A p \in Plain : Column(others, p) = Column(offers, p)
  BY <1>1
<1>5. Column(others, "tlsSecurity") = Column(offers, "tlsSecurity")
  BY <1>1
<1>6. /\ IsConfig(c)
      /\ \A p \in Plain : IsFirst(c[p], Column(others, p), n)
      /\ IsFirst(Name(c), Names(others), n)
      /\ \E t : /\ IsFirst(t, Column(others, "tlsSecurity"), n)
                /\ c["tlsSecurity"] = IF t = None THEN None ELSE ClientSecurity(t, env)
  BY <1>2, <1>3, <1>4, <1>5, Zenon
<1> QED
  BY <1>6, Zenon DEF Summary

(* A project adds its offers, its name being one. *)
LEMMA ProjectTakes ==
  ASSUME NEW S, NEW offers \in Seq(S), NEW c, NEW env, Summary(c, offers, env),
         NEW project, IsLevel(project), Says(project.single) \in S,
         Says([project.single EXCEPT !["database"] = None]) \in S,
         project.compound # {} => Offer(CHOOSE x \in project.compound : TRUE) \in S,
         NEW d, d = ResolveProject(c, project, env), d # Error
  PROVE  offers \o OffersOf(project) \in Seq(S) /\ Summary(d, offers \o OffersOf(project), env)
<1> DEFINE alone == [project.single EXCEPT !["database"] = None]
           other == [project EXCEPT !.single["database"] = None]
<1>1. /\ project.compound # {}
      /\ ~Disagree(project.single["database"], project.single["branch"])
      /\ d = ResolveOptions(c, IF project.single["branch"] = None THEN project ELSE other, env)
  BY Zenon DEF ResolveProject
<1>2. CASE project.single["branch"] = None
  <2>1. d = ResolveOptions(c, project, env)
    BY <1>1, <1>2
  <2> QED
    BY <2>1, LevelTakes, Zenon
<1>3. CASE project.single["branch"] # None
  <2>1. d = ResolveOptions(c, other, env)
    BY <1>1, <1>3
  <2>2. other.single = alone /\ other.compound = project.compound
    BY DEF IsLevel
  <2>3. /\ \A p \in Single : p # "database" => alone[p] = project.single[p]
        /\ DOMAIN alone = Single /\ DOMAIN project.single = Single /\ alone["database"] = None
        /\ "database" \in Single /\ "branch" \in Single /\ "database" # "branch"
    BY DEF IsLevel, Single
  <2> DEFINE said == Says(project.single)
             says == Says(alone)
             offer == Offer(CHOOSE x \in project.compound : TRUE)
             rest == IF project.compound = {} THEN <<>> ELSE <<offer>>
  <2>4. OffersOf(other) = <<says>> \o rest /\ OffersOf(project) = <<said>> \o rest
    BY <2>2 DEF OffersOf
  <2>5. /\ \A p \in Plain \cup {"tlsSecurity"} : said[p] = says[p]
        /\ Name(said) = Name(says)
    <3>1. \A p \in Params : p # "database" => says[p] = said[p]
      BY <2>3 DEF Says, Given
    <3>2. /\ said["database"] = project.single["database"] /\ said["branch"] = project.single["branch"]
          /\ says["database"] = None /\ says["branch"] = project.single["branch"]
      BY <2>3, PlainIs DEF Says, Given
    <3>3. project.single["database"] # None => project.single["database"] = project.single["branch"]
      BY <1>1, <1>3 DEF Disagree
    <3> HIDE DEF said, says
    <3>4. Name(said) = Name(says)
      BY <3>2, <3>3, Zenon DEF Name, FirstOf
    <3> QED
      BY <3>1, <3>4, PlainIs
  <2>6. says \in S /\ said \in S /\ offer \in S
    BY <1>1
  <2>7. rest \in Seq(S) /\ <<says>> \in Seq(S) /\ <<said>> \in Seq(S)
    <3> HIDE DEF says, said, offer
    <3> QED
      BY <2>6
  <2>8. Says(other.single) \in S /\ Offer(CHOOSE x \in other.compound : TRUE) \in S
    BY <2>2, <2>6
  <2> DEFINE first == offers \o OffersOf(other)
             second == offers \o OffersOf(project)
  <2>9. first \in Seq(S) /\ Summary(d, first, env)
    <3> HIDE DEF other
    <3> QED
      BY <2>1, <2>8, LevelTakes, Zenon
  <2> DEFINE a == <<says>> \o rest
             b == <<said>> \o rest
  <2>10. first = offers \o a /\ second = offers \o b
    BY <2>4
  <2> HIDE DEF says, said, rest, other
  <2>11. /\ a \in Seq(S) /\ b \in Seq(S) /\ Len(a) = 1 + Len(rest) /\ Len(b) = 1 + Len(rest) /\ Len(rest) \in Nat
         /\ \A k \in 1 .. 1 + Len(rest) : /\ a[k] = IF k <= 1 THEN says ELSE rest[k - 1]
                                         /\ b[k] = IF k <= 1 THEN said ELSE rest[k - 1]
    <3>1. /\ Len(<<says>>) = 1 /\ Len(<<said>>) = 1 /\ <<says>>[1] = says /\ <<said>>[1] = said
      OBVIOUS
    <3>2. /\ a \in Seq(S) /\ Len(a) = Len(<<says>>) + Len(rest)
          /\ \A k \in 1 .. Len(<<says>>) + Len(rest) :
               a[k] = IF k <= Len(<<says>>) THEN <<says>>[k] ELSE rest[k - Len(<<says>>)]
      BY <2>7, ConcatProperties
    <3>3. /\ b \in Seq(S) /\ Len(b) = Len(<<said>>) + Len(rest)
          /\ \A k \in 1 .. Len(<<said>>) + Len(rest) :
               b[k] = IF k <= Len(<<said>>) THEN <<said>>[k] ELSE rest[k - Len(<<said>>)]
      BY <2>7, ConcatProperties
    <3>4. Len(rest) \in Nat
      BY <2>7, LenProperties
    <3> HIDE DEF a, b
    <3> QED
      BY <3>1, <3>2, <3>3, <3>4
  <2> HIDE DEF a, b
  <2>12. /\ second \in Seq(S) /\ Len(first) = Len(offers) + Len(a) /\ Len(second) = Len(offers) + Len(b)
         /\ Len(offers) \in Nat
         /\ \A k \in 1 .. Len(offers) + Len(a) : first[k] = IF k <= Len(offers) THEN offers[k] ELSE a[k - Len(offers)]
         /\ \A k \in 1 .. Len(offers) + Len(b) : second[k] = IF k <= Len(offers) THEN offers[k] ELSE b[k - Len(offers)]
    <3>0. offers \in Seq(S) /\ a \in Seq(S) /\ b \in Seq(S)
      BY <2>11, Zenon
    <3>1. offers \o a \in Seq(S) /\ offers \o b \in Seq(S) /\ Len(offers) \in Nat
      BY <3>0, ConcatProperties, LenProperties
    <3>2. /\ Len(offers \o a) = Len(offers) + Len(a)
          /\ \A k \in 1 .. Len(offers) + Len(a) : (offers \o a)[k] = IF k <= Len(offers) THEN offers[k] ELSE a[k - Len(offers)]
      BY <3>0, ConcatProperties, Zenon
    <3>3. /\ Len(offers \o b) = Len(offers) + Len(b)
          /\ \A k \in 1 .. Len(offers) + Len(b) : (offers \o b)[k] = IF k <= Len(offers) THEN offers[k] ELSE b[k - Len(offers)]
      BY <3>0, ConcatProperties, Zenon
    <3> HIDE DEF first, second
    <3> QED
      BY <2>10, <3>1, <3>2, <3>3
  <2> HIDE DEF first, second
  <2> DEFINE n == Len(offers) + Len(a)
  <2>13. \A k \in 1 .. n : /\ \A p \in Plain \cup {"tlsSecurity"} : second[k][p] = first[k][p]
                           /\ Name(second[k]) = Name(first[k])
    <3> TAKE k \in 1 .. n
    <3>1. CASE k <= Len(offers)
      <4>1. second[k] = first[k]
        BY <2>11, <2>12, <3>1
      <4> QED
        BY <4>1, Zenon
    <3>2. CASE k = Len(offers) + 1
      <4>1. k - Len(offers) = 1 /\ ~(k <= Len(offers)) /\ 1 \in 1 .. 1 + Len(rest) /\ k \in 1 .. Len(offers) + Len(b)
        BY <2>11, <2>12, <3>2
      <4>2. first[k] = a[1] /\ second[k] = b[1]
        BY <2>12, <4>1
      <4>3. a[1] = says /\ b[1] = said
        BY <2>11, <4>1
      <4> QED
        BY <2>5, <4>2, <4>3, Zenon
    <3>3. CASE k > Len(offers) + 1
      <4> DEFINE j == k - Len(offers)
      <4>1. j \in 1 .. 1 + Len(rest) /\ ~(j <= 1) /\ ~(k <= Len(offers)) /\ k \in 1 .. Len(offers) + Len(b)
        BY <2>11, <2>12, <3>3
      <4>2. first[k] = a[j] /\ second[k] = b[j]
        BY <2>12, <4>1
      <4> HIDE DEF j
      <4>3. a[j] = b[j]
        BY <2>11, <4>1
      <4> QED
        BY <4>2, <4>3, Zenon
    <3> QED
      BY <2>11, <2>12, <3>1, <3>2, <3>3
  <2>14. Len(first) = n /\ Len(second) = n
    BY <2>11, <2>12
  <2> HIDE DEF n
  <2>15. Summary(d, second, env)
    BY <2>9, <2>13, <2>14, SameSummary, Zenon
  <2> QED
    BY <2>12, <2>15 DEF second
<1> QED
  BY <1>2, <1>3

(* parseConnectDsnAndArgs(): one level after the other, until one has a    *)
(* compound option, and the default of the TLS security at last.           *)
LEMMA DefaultSecured ==
  ASSUME NEW c, NEW offers, NEW env, Summary(c, offers, env),
         NEW d, d = SetParam(c, "tlsSecurity", "default", env), d # Error
  PROVE  /\ \A p \in Params \ {"tlsSecurity"} : d[p] = c[p]
         /\ \E t : /\ IsFirst(t, Column(offers, "tlsSecurity"), Len(offers))
                   /\ d["tlsSecurity"] = ClientSecurity(FirstOf(t, "default"), env)
         /\ d["tlsSecurity"] # Refused
<1> DEFINE tls == "tlsSecurity"
           default == "default"
<1>1. IsConfig(c) /\ tls \in Params /\ tls = "tlsSecurity" /\ default # None /\ d = SetParam(c, tls, default, env)
  BY PlainIs DEF Summary, None
<1>2. PICK t : /\ IsFirst(t, Column(offers, tls), Len(offers))
               /\ c[tls] = IF t = None THEN None ELSE ClientSecurity(t, env)
  BY Zenon DEF Summary
<1> HIDE DEF tls, default
<1>3. ParamTaken(d, c, tls, default, env)
  BY <1>1, SetParamTakes, Zenon
<1>4. /\ d = [c EXCEPT ![tls] = Secured(c[tls], default, env)] /\ d[tls] = Secured(c[tls], default, env)
      /\ d[tls] # Refused
  BY <1>1, <1>3, Zenon DEF ParamTaken, Taken
<1>5. \A p \in Params \ {tls} : d[p] = c[p]
  BY <1>1, <1>4 DEF IsConfig
<1>6. d[tls] = ClientSecurity(FirstOf(t, default), env)
  <2>1. CASE t = None
    <3>1. c[tls] = None /\ FirstOf(t, default) = default
      BY <1>2, <2>1 DEF FirstOf
    <3> QED
      BY <1>1, <1>4, <3>1, Zenon DEF Secured
  <2>2. CASE t # None
    <3>1. c[tls] = ClientSecurity(t, env) /\ FirstOf(t, default) = t
      BY <1>2, <2>2 DEF FirstOf
    <3>2. c[tls] # None
      BY <3>1, SecurityIs
    <3> QED
      BY <1>4, <3>1, <3>2, Zenon DEF Secured
  <2> QED
    BY <2>1, <2>2
<1> QED
  BY <1>2, <1>4, <1>5, <1>6 DEF tls, default

(* Strict client security gives strict TLS security, or an error. *)
LEMMA StrictIs == \A value : ClientSecurity(value, "strict") \in {"strict", Refused}
  BY DEF ClientSecurity, None

(* What Named() makes of the offers. *)
LEMMA NamedFirst ==
  ASSUME NEW S, NEW offers \in Seq(S), \A o \in S : DOMAIN o = Params /\ o = [p \in Params |-> o[p]],
         NEW x, IsFirst(x, Names(offers), Len(offers))
  PROVE  FirstOffer([n \in DOMAIN offers |-> Named(offers[n])], "database") = x
<1> DEFINE T == {Named(o) : o \in S}
           named == [n \in DOMAIN offers |-> Named(offers[n])]
           N == Len(offers)
<1>1. N \in Nat /\ DOMAIN offers = 1 .. N /\ \A n \in 1 .. N : offers[n] \in S
  BY LenProperties, ElementOfSeq
<1>2. named \in [1 .. N -> T]
  BY <1>1
<1> HIDE DEF T
<1>3. named \in Seq(T) /\ Len(named) = N
  <2> HIDE DEF named, N
  <2> QED
    BY <1>1, <1>2, SeqDef, LenProperties
<1>4. ASSUME NEW n \in 1 .. N PROVE named[n]["database"] = Name(offers[n])
  <2>1. named[n] = Named(offers[n])
    BY <1>1
  <2>2. offers[n] \in S
    BY <1>1
  <2>3. DOMAIN offers[n] = Params /\ offers[n] = [p \in Params |-> offers[n][p]] /\ "database" \in Params
    BY <2>2, PlainIs
  <2>4. Named(offers[n])["database"] = Name(offers[n])
    BY <2>3 DEF Named
  <2> QED
    BY <2>1, <2>4
<1> HIDE DEF named, N
<1>5. [k \in 1 .. Len(named) |-> named[k]["database"]] = [k \in 1 .. N |-> Name(offers[k])]
  BY <1>3, <1>4
<1>6. Names(offers) = [k \in 1 .. N |-> Name(offers[k])]
  BY DEF Names, N
<1>7. IsFirst(x, [k \in 1 .. Len(named) |-> named[k]["database"]], Len(named))
  <2>1. IsFirst(x, Names(offers), Len(named))
    BY <1>3 DEF N
  <2> QED
    BY <1>5, <1>6, <2>1, Zenon
<1>8. FirstOffer(named, "database") = x
  BY <1>3, <1>7, FirstOfferIs, Zenon
<1> QED
  BY <1>8 DEF named

(* No source has been asked yet. *)
LEMMA NothingTaken == ASSUME NEW env PROVE Summary(Unset, <<>>, env)
<1>1. /\ Unset = [p \in Params |-> Unset[p]] /\ \A p \in Params : Unset[p] = None
      /\ "database" \in Params /\ "branch" \in Params /\ "tlsSecurity" \in Params /\ \A p \in Plain : p \in Params
  BY PlainIs DEF Unset
<1>2. Len(<<>>) = 0 /\ 1 .. 0 = {} /\ None # Refused
  BY DEF None, Refused
<1>3. \A v : IsFirst(None, v, Len(<<>>))
  BY <1>2 DEF IsFirst
<1>4. IsConfig(Unset) /\ Name(Unset) = None
  BY <1>1, <1>2 DEF IsConfig, Name, FirstOf
<1>5. Unset["tlsSecurity"] = IF None = None THEN None ELSE ClientSecurity(None, env)
  BY <1>1
<1> HIDE DEF Unset
<1>6. \A p \in Plain : IsFirst(Unset[p], Column(<<>>, p), Len(<<>>))
  BY <1>1, <1>3
<1>7. IsFirst(Name(Unset), Names(<<>>), Len(<<>>))
  BY <1>3, <1>4
<1> QED
  BY <1>3, <1>4, <1>5, <1>6, <1>7, Zenon DEF Summary

(* What the sources of an input may offer. *)
Levels3(input) == {input.options, input.environment, input.project}
MayOffer(input) ==
  {Says(level.single) : level \in Levels3(input)}
    \cup {Says([input.project.single EXCEPT !["database"] = None])}
    \cup UNION {{Offer(x) : x \in level.compound} : level \in Levels3(input)}

(* An offer is one of all parameters. *)
LEMMA OffersAre ==
  ASSUME NEW input \in ConfigInputs, NEW o \in MayOffer(input)
  PROVE  DOMAIN o = Params /\ o = [p \in Params |-> o[p]]
<1>1. \A v : DOMAIN Says(v) = Params /\ Says(v) = [p \in Params |-> Says(v)[p]]
  BY DEF Says
<1>2. ASSUME NEW x, x.kind \in {"dsn", "address", "credentials", "cloud"}
      PROVE  DOMAIN Offer(x) = Params /\ Offer(x) = [p \in Params |-> Offer(x)[p]]
  <2>1. CASE x.kind = "dsn"
    <3> DEFINE says == [p \in Params |->
                      CASE p = "branch" -> IF x.branch # {} THEN "dsn" ELSE None
                        [] p = "database" -> IF x.branch = {} /\ x.path \cup x.database # {} THEN "dsn" ELSE None
                        [] p = "cloudProfile" -> None
                        [] OTHER -> IF x.parts[p] # {} THEN DsnValue(x, p) ELSE None]
    <3>1. Offer(x) = says
      BY <2>1, Zenon DEF Offer
    <3>2. DOMAIN says = Params /\ says = [p \in Params |-> says[p]]
      BY Zenon
    <3> QED
      BY <3>1, <3>2, Zenon
  <2>2. CASE x.kind # "dsn"
    <3>1. \E v : Offer(x) = Says(v)
      BY <1>2, <2>2, Zenon DEF Offer
    <3> QED
      BY <1>1, <3>1, Zenon
  <2> QED
    BY <2>1, <2>2
<1>3. \A level \in Levels3(input) : IsLevel(level)
  BY StructuresAssumption DEF StructuresAssumption, Levels3
<1>4. CASE \E v : o = Says(v)
  BY <1>1, <1>4, Zenon
<1>5. CASE \E level \in Levels3(input) : \E x \in level.compound : o = Offer(x)
  <2>1. PICK level \in Levels3(input) : \E x \in level.compound : o = Offer(x)
    BY <1>5
  <2>2. PICK x \in level.compound : o = Offer(x)
    BY <2>1
  <2>3. x.kind \in {"dsn", "address", "credentials", "cloud"}
    BY <1>3 DEF IsLevel
  <2> QED
    BY <1>2, <2>2, <2>3
<1> QED
  BY <1>4, <1>5 DEF MayOffer

(* The offers of a level are among those. *)
LEMMA LevelOffers ==
  ASSUME NEW input, NEW level \in Levels3(input)
  PROVE  /\ Says(level.single) \in MayOffer(input)
         /\ level.compound # {} => Offer(CHOOSE x \in level.compound : TRUE) \in MayOffer(input)
<1>1. Says(level.single) \in MayOffer(input)
  BY Zenon DEF MayOffer
<1>2. ASSUME level.compound # {} PROVE Offer(CHOOSE x \in level.compound : TRUE) \in MayOffer(input)
  <2> DEFINE y == CHOOSE x \in level.compound : TRUE
  <2>1. y \in level.compound
    BY <1>2
  <2> HIDE DEF y
  <2>2. Offer(y) \in MayOffer(input)
    <3> DEFINE Those == {Offer(x) : x \in level.compound}
               Every == {{Offer(x) : x \in l.compound} : l \in Levels3(input)}
    <3>1. Offer(y) \in Those /\ Those \in Every
      BY <2>1
    <3>2. UNION Every \subseteq MayOffer(input)
      BY DEF MayOffer
    <3> HIDE DEF Those, Every
    <3> QED
      BY <3>1, <3>2, Zenon
  <2> QED
    BY <2>2 DEF y
<1> QED
  BY <1>1, <1>2

(* The levels that are asked, and the configuration they give. *)
LEMMA ResolveSummary ==
  ASSUME NEW input \in ConfigInputs, Resolve(input) # Error
  PROVE  /\ Offers(input) \in Seq(MayOffer(input))
         /\ \E c : /\ Summary(c, Offers(input), input.clientSecurity)
                   /\ Resolve(input) = SetParam(c, "tlsSecurity", "default", input.clientSecurity)
<1> DEFINE env == input.clientSecurity
           options == ResolveOptions(Unset, input.options, env)
           environment == Then(options, LAMBDA c : ResolveOptions(c, input.environment, env))
           project == Then(environment, LAMBDA c : ResolveProject(c, input.project, env))
           chosen == IF input.options.compound # {} THEN options
                     ELSE IF input.environment.compound # {} THEN environment ELSE project
           S == MayOffer(input)
           o1 == OffersOf(input.options)
           o2 == OffersOf(input.environment)
           o3 == OffersOf(input.project)
<1>1. chosen # Error /\ Resolve(input) = SetParam(chosen, "tlsSecurity", "default", env)
  BY DEF Resolve, Then
<1>2. /\ environment # Error => options # Error /\ environment = ResolveOptions(options, input.environment, env)
      /\ project # Error => environment # Error /\ project = ResolveProject(environment, input.project, env)
  BY DEF Then
<1>3. Offers(input) = o1 \o (IF input.options.compound # {} THEN <<>>
                             ELSE o2 \o (IF input.environment.compound # {} THEN <<>> ELSE o3))
  BY DEF Offers
<1>4. IsLevel(input.project)
  BY StructuresAssumption DEF StructuresAssumption
<1>5. /\ input.options \in Levels3(input) /\ input.environment \in Levels3(input) /\ input.project \in Levels3(input)
  BY DEF Levels3
<1>6. Says([input.project.single EXCEPT !["database"] = None]) \in S
  BY DEF MayOffer
<1>7. /\ chosen = IF input.options.compound # {} THEN options
                  ELSE IF input.environment.compound # {} THEN environment ELSE project
      /\ options = ResolveOptions(Unset, input.options, env)
  OBVIOUS
<1>8. \A level : OffersOf(level) = OffersOf(level)
  OBVIOUS
<1> HIDE DEF env, options, environment, project, chosen
<1>9. options # Error => o1 \in Seq(S) /\ Summary(options, o1, env)
  <2> SUFFICES ASSUME options # Error PROVE o1 \in Seq(S) /\ Summary(options, o1, env)
    OBVIOUS
  <2> DEFINE none == <<>>
  <2>1. none \in Seq(S) /\ Summary(Unset, none, env)
    BY NothingTaken
  <2>2. Says(input.options.single) \in S
        /\ (input.options.compound # {} => Offer(CHOOSE x \in input.options.compound : TRUE) \in S)
    BY <1>5, LevelOffers, Zenon
  <2> HIDE DEF none, S
  <2>3. none \o OffersOf(input.options) \in Seq(S) /\ Summary(options, none \o OffersOf(input.options), env)
    BY <1>7, <2>1, <2>2, LevelTakes, Zenon
  <2>4. o1 \in Seq(S)
    <3>1. Says(input.options.single) \in S
      BY <2>2
    <3> QED
      BY <2>2, <3>1 DEF OffersOf
  <2>5. none \o o1 = o1
    BY <2>4, ConcatEmptySeq DEF none
  <2> QED
    BY <2>3, <2>4, <2>5
<1>10. environment # Error => o1 \o o2 \in Seq(S) /\ Summary(environment, o1 \o o2, env)
  <2> SUFFICES ASSUME environment # Error PROVE o1 \o o2 \in Seq(S) /\ Summary(environment, o1 \o o2, env)
    OBVIOUS
  <2>1. o1 \in Seq(S) /\ Summary(options, o1, env)
    BY <1>2, <1>9
  <2>2. Says(input.environment.single) \in S
        /\ (input.environment.compound # {} => Offer(CHOOSE x \in input.environment.compound : TRUE) \in S)
    BY <1>5, LevelOffers, Zenon
  <2> HIDE DEF o1, S
  <2> QED
    BY <1>2, <2>1, <2>2, LevelTakes, Zenon
<1>11. project # Error => (o1 \o o2) \o o3 \in Seq(S) /\ Summary(project, (o1 \o o2) \o o3, env)
  <2> SUFFICES ASSUME project # Error PROVE (o1 \o o2) \o o3 \in Seq(S) /\ Summary(project, (o1 \o o2) \o o3, env)
    OBVIOUS
  <2> DEFINE o == o1 \o o2
  <2>1. o \in Seq(S) /\ Summary(environment, o, env)
    BY <1>2, <1>10
  <2>2. Says(input.project.single) \in S
        /\ (input.project.compound # {} => Offer(CHOOSE x \in input.project.compound : TRUE) \in S)
    BY <1>5, LevelOffers, Zenon
  <2> HIDE DEF o, S
  <2>3. o \o OffersOf(input.project) \in Seq(S) /\ Summary(project, o \o OffersOf(input.project), env)
    BY <1>2, <1>4, <1>6, <2>1, <2>2, ProjectTakes, Zenon
  <2> QED
    BY <2>3 DEF o
<1>12. ASSUME NEW level \in Levels3(input) PROVE OffersOf(level) \in Seq(S)
  <2>1. Says(level.single) \in S /\ (level.compound # {} => Offer(CHOOSE x \in level.compound : TRUE) \in S)
    BY LevelOffers, Zenon
  <2> HIDE DEF S
  <2> QED
    BY <2>1 DEF OffersOf
<1>13. o1 \in Seq(S) /\ o2 \in Seq(S) /\ o3 \in Seq(S)
  BY <1>5, <1>12
<1> HIDE DEF o1, o2, o3, S
<1>14. Offers(input) \in Seq(S) /\ Summary(chosen, Offers(input), env)
  <2>1. CASE input.options.compound # {}
    <3>1. Offers(input) = o1 /\ chosen = options
      BY <1>3, <1>7, <1>13, <2>1, ConcatEmptySeq
    <3> QED
      BY <1>1, <1>9, <3>1
  <2>2. CASE input.options.compound = {} /\ input.environment.compound # {}
    <3>1. Offers(input) = o1 \o o2 /\ chosen = environment
      BY <1>3, <1>7, <1>13, <2>2, ConcatEmptySeq
    <3> QED
      BY <1>1, <1>10, <3>1
  <2>3. CASE input.options.compound = {} /\ input.environment.compound = {}
    <3>1. Offers(input) = o1 \o (o2 \o o3) /\ chosen = project
      BY <1>3, <1>7, <2>3
    <3>2. (o1 \o o2) \o o3 = o1 \o (o2 \o o3)
      BY <1>13, ConcatAssociative
    <3> QED
      BY <1>1, <1>11, <3>1, <3>2
  <2> QED
    BY <2>1, <2>2, <2>3
<1> QED
  BY <1>1, <1>14 DEF env, S

(* Every parameter as its first source offers it. *)
LEMMA ResolvedAsOffered ==
  ASSUME NEW input \in ConfigInputs, Resolve(input) # Error
  PROVE  AsOffered(Resolve(input), input)
<1> DEFINE offers == Offers(input)
           env == input.clientSecurity
           d == Resolve(input)
           S == MayOffer(input)
<1>1. PICK c : Summary(c, offers, env) /\ d = SetParam(c, "tlsSecurity", "default", env)
  BY ResolveSummary, Zenon
<1>2. offers \in Seq(S)
  BY ResolveSummary, Zenon
<1>3. \A o \in S : DOMAIN o = Params /\ o = [p \in Params |-> o[p]]
  BY OffersAre
<1>4. d # Error /\ offers = Offers(input)
  OBVIOUS
<1> HIDE DEF offers, env, d, S
<1>5. /\ \A p \in Params \ {"tlsSecurity"} : d[p] = c[p]
      /\ \E t : /\ IsFirst(t, Column(offers, "tlsSecurity"), Len(offers))
                /\ d["tlsSecurity"] = ClientSecurity(FirstOf(t, "default"), env)
      /\ d["tlsSecurity"] # Refused
  BY <1>1, <1>4, DefaultSecured
<1>6. ASSUME NEW p \in Params \ {"database", "branch", "tlsSecurity"} PROVE d[p] = FirstOffer(offers, p)
  <2>1. p \in Plain /\ d[p] = c[p]
    BY <1>5 DEF Plain
  <2>2. IsFirst(c[p], Column(offers, p), Len(offers))
    BY <1>1, <2>1 DEF Summary
  <2>3. FirstOffer(offers, p) = c[p]
    BY <1>2, <2>2, FirstOfferIs DEF Column
  <2> QED
    BY <2>1, <2>3
<1>7. d["database"] = c["database"] /\ d["branch"] = c["branch"]
  BY <1>5, PlainIs
<1>8. None \in {d["database"], d["branch"]}
  BY <1>1, <1>7 DEF Summary, IsConfig
<1>9. Name(d) = FirstOffer([n \in DOMAIN offers |-> Named(offers[n])], "database")
  <2>1. Name(d) = Name(c)
    BY <1>7 DEF Name
  <2>2. IsFirst(Name(c), Names(offers), Len(offers))
    BY <1>1 DEF Summary
  <2> QED
    BY <1>2, <1>3, <2>1, <2>2, NamedFirst
<1>10. d["tlsSecurity"] = ClientSecurity(FirstOf(FirstOffer(offers, "tlsSecurity"), "default"), env)
  <2>1. PICK t : /\ IsFirst(t, Column(offers, "tlsSecurity"), Len(offers))
                 /\ d["tlsSecurity"] = ClientSecurity(FirstOf(t, "default"), env)
    BY <1>5
  <2>2. FirstOffer(offers, "tlsSecurity") = t
    BY <1>2, <2>1, FirstOfferIs DEF Column
  <2> QED
    BY <2>1, <2>2
<1>11. env = "strict" => d["tlsSecurity"] = "strict"
  BY <1>5, <1>10, StrictIs
<1> QED
  BY <1>4, <1>6, <1>8, <1>9, <1>10, <1>11 DEF AsOffered, d, env, offers

(* The input of a behaviour about the configuration stays what it is.      *)
ConfigInv == part = "config" => s \in ConfigInputs

(* Whatever the options of createClient(), the environment and the project *)
(* say, each parameter comes from the first that offers it, none is asked  *)
(* once the server is known, database and branch are one name, and strict  *)
(* client security is not lowered (conUtils.ts).                           *)
THEOREM FirstSourceAlwaysWins == StructuresSpec => []FirstSourceWins
<1>1. InitStructures => ConfigInv
  BY DEF InitStructures, ConfigInv
<1>2. ConfigInv /\ [NextStructures]_<<part, s>> => ConfigInv'
  <2> SUFFICES ASSUME ConfigInv, [NextStructures]_<<part, s>> PROVE ConfigInv'
    OBVIOUS
  <2>1. CASE UNCHANGED <<part, s>>
    BY <2>1 DEF ConfigInv
  <2>2. CASE LruStep \/ Feed \/ Take \/ Consume \/ OptionsCall \/ Launch \/ Answer
    <3>1. part' \in {"lru", "buffer", "options", "cli", "rag"}
      BY <2>2 DEF LruStep, Feed, Take, Consume, OptionsCall, Launch, Answer
    <3> QED
      BY <3>1 DEF ConfigInv
  <2> QED
    BY <2>1, <2>2 DEF NextStructures
<1>3. ConfigInv => FirstSourceWins
  BY ResolvedAsOffered, Zenon DEF ConfigInv, FirstSourceWins
<1> QED
  BY <1>1, <1>2, <1>3, PTL DEF StructuresSpec

----------------------------------------------------------------------------
(* A sequence and what follows it, whatever they hold.                     *)
LEMMA CatIs ==
  ASSUME NEW a, IsSeq(a), NEW b, IsSeq(b)
  PROVE  /\ IsSeq(a \o b) /\ Len(a \o b) = Len(a) + Len(b)
         /\ \A i \in 1 .. Len(a) : (a \o b)[i] = a[i]
         /\ \A i \in 1 .. Len(b) : (a \o b)[Len(a) + i] = b[i]
<1> DEFINE S == {a[i] : i \in 1 .. Len(a)} \cup {b[i] : i \in 1 .. Len(b)}
<1>1. a \in Seq(S) /\ b \in Seq(S)
  <2>1. \A i \in 1 .. Len(a) : a[i] \in S
    OBVIOUS
  <2>2. \A i \in 1 .. Len(b) : b[i] \in S
    OBVIOUS
  <2> HIDE DEF S
  <2> QED
    BY <2>1, <2>2 DEF IsSeq
<1> HIDE DEF S
<1>2. /\ a \o b \in Seq(S) /\ Len(a \o b) = Len(a) + Len(b)
      /\ \A i \in 1 .. Len(a) + Len(b) : (a \o b)[i] = IF i <= Len(a) THEN a[i] ELSE b[i - Len(a)]
  BY <1>1, ConcatProperties
<1> DEFINE w == a \o b
<1>3. IsSeq(w)
  <2>1. w \in [1 .. Len(w) -> S] /\ Len(w) \in Nat
    BY <1>2, LenProperties
  <2> HIDE DEF w
  <2> QED
    BY <2>1 DEF IsSeq
<1>4. Len(a) \in Nat /\ Len(b) \in Nat
  BY DEF IsSeq
<1>5. \A i \in 1 .. Len(b) : Len(a) + i \in 1 .. Len(a) + Len(b) /\ ~(Len(a) + i <= Len(a)) /\ Len(a) + i - Len(a) = i
  BY <1>4
<1> QED
  BY <1>2, <1>3, <1>4, <1>5

(* Sequences of one length are equal if their elements are.                *)
LEMMA SameSeq ==
  ASSUME NEW a, IsSeq(a), NEW b, IsSeq(b), Len(a) = Len(b), \A i \in 1 .. Len(a) : a[i] = b[i]
  PROVE  a = b
<1>1. a = [i \in 1 .. Len(a) |-> a[i]] /\ b = [i \in 1 .. Len(a) |-> b[i]]
  BY DEF IsSeq
<1>2. [i \in 1 .. Len(a) |-> a[i]] = [i \in 1 .. Len(a) |-> b[i]]
  OBVIOUS
<1> QED
  BY <1>1, <1>2, Zenon

(* Nothing put before or behind a sequence leaves it as it is.             *)
LEMMA CatNothing ==
  ASSUME NEW a, IsSeq(a)
  PROVE  a \o <<>> = a /\ <<>> \o a = a
<1>1. IsSeq(<<>>) /\ Len(<<>>) = 0 /\ Len(a) \in Nat
  BY EmptyIsSeq DEF IsSeq
<1>2. a \o <<>> = a
  <2>1. IsSeq(a \o <<>>) /\ Len(a \o <<>>) = Len(a) /\ \A i \in 1 .. Len(a) : (a \o <<>>)[i] = a[i]
    BY <1>1, CatIs
  <2> QED
    BY <2>1, SameSeq
<1>3. <<>> \o a = a
  <2>1. IsSeq(<<>> \o a) /\ Len(<<>> \o a) = Len(a) /\ \A i \in 1 .. Len(a) : (<<>> \o a)[0 + i] = a[i]
    BY <1>1, CatIs
  <2>2. \A i \in 1 .. Len(a) : (<<>> \o a)[i] = a[i]
    <3>1. \A i \in 1 .. Len(a) : 0 + i = i
      BY <1>1
    <3> QED
      BY <2>1, <3>1
  <2> QED
    BY <2>1, <2>2, SameSeq
<1> QED
  BY <1>2, <1>3

(* It does not matter what is put together first.                          *)
LEMMA CatAssociative ==
  ASSUME NEW a, IsSeq(a), NEW b, IsSeq(b), NEW c, IsSeq(c)
  PROVE  (a \o b) \o c = a \o (b \o c)
<1> DEFINE l == (a \o b) \o c
<1> DEFINE r == a \o (b \o c)
<1>1. IsSeq(a \o b) /\ IsSeq(b \o c)
  BY CatIs
<1>2. IsSeq(l) /\ IsSeq(r)
  BY <1>1, CatIs
<1>3. Len(a) \in Nat /\ Len(b) \in Nat /\ Len(c) \in Nat
  BY DEF IsSeq
<1>4. Len(l) = Len(a) + Len(b) + Len(c) /\ Len(r) = Len(a) + Len(b) + Len(c)
  <2>1. Len(a \o b) = Len(a) + Len(b) /\ Len(b \o c) = Len(b) + Len(c)
    BY CatIs
  <2>2. Len(l) = Len(a \o b) + Len(c) /\ Len(r) = Len(a) + Len(b \o c)
    BY <1>1, CatIs
  <2> HIDE DEF l, r
  <2> QED
    BY <1>3, <2>1, <2>2
<1>5. ASSUME NEW i \in 1 .. Len(l) PROVE l[i] = r[i]
  <2>1. CASE i \in 1 .. Len(a)
    <3>1. i \in 1 .. Len(a \o b)
      BY <1>3, <2>1, CatIs
    <3>2. l[i] = (a \o b)[i]
      BY <1>1, <3>1, CatIs
    <3>3. (a \o b)[i] = a[i] /\ r[i] = a[i]
      BY <1>1, <2>1, CatIs
    <3> QED
      BY <3>2, <3>3, Zenon
  <2>2. CASE i - Len(a) \in 1 .. Len(b)
    <3> DEFINE j == i - Len(a)
    <3>1. j \in 1 .. Len(b) /\ i = Len(a) + j /\ i \in 1 .. Len(a \o b) /\ j \in 1 .. Len(b \o c)
      BY <1>3, <1>4, <2>2, CatIs
    <3> HIDE DEF j
    <3>2. l[i] = (a \o b)[i]
      BY <1>1, <3>1, CatIs
    <3>3. (a \o b)[Len(a) + j] = b[j] /\ r[Len(a) + j] = (b \o c)[j] /\ (b \o c)[j] = b[j]
      BY <1>1, <3>1, CatIs
    <3> HIDE DEF l, r
    <3> QED
      BY <3>1, <3>2, <3>3, Zenon
  <2>3. CASE i - Len(a) - Len(b) \in 1 .. Len(c)
    <3> DEFINE j == i - Len(a) - Len(b)
    <3>1. /\ j \in 1 .. Len(c) /\ i = Len(a \o b) + j /\ i = Len(a) + (Len(b) + j)
          /\ Len(b) + j \in 1 .. Len(b \o c)
      BY <1>3, <1>4, <2>3, CatIs
    <3> HIDE DEF j
    <3>2. l[Len(a \o b) + j] = c[j]
      BY <1>1, <3>1, CatIs
    <3>3. r[Len(a) + (Len(b) + j)] = (b \o c)[Len(b) + j]
      BY <1>1, <3>1, CatIs
    <3>4. (b \o c)[Len(b) + j] = c[j]
      BY <3>1, CatIs
    <3> HIDE DEF l, r
    <3> QED
      BY <3>1, <3>2, <3>3, <3>4, Zenon
  <2> HIDE DEF l, r
  <2> QED
    BY <1>3, <1>4, <2>1, <2>2, <2>3
<1> HIDE DEF l, r
<1>6. l = r
  BY <1>2, <1>4, <1>5, SameSeq
<1> QED
  BY <1>6 DEF l, r

(* To append is to put a sequence of one behind.                           *)
LEMMA AppendIsCat ==
  ASSUME NEW a, IsSeq(a), NEW x
  PROVE  Append(a, x) = a \o <<x>>
<1>1. IsSeq(<<x>>) /\ Len(<<x>>) = 1 /\ <<x>>[1] = x
  BY OneIsSeq
<1>2. IsSeq(Append(a, x)) /\ Len(Append(a, x)) = Len(a) + 1 /\ \A i \in 1 .. Len(a) + 1 : Append(a, x)[i] = IF i = Len(a) + 1 THEN x ELSE a[i]
  BY AppendIsSeq
<1>3. /\ IsSeq(a \o <<x>>) /\ Len(a \o <<x>>) = Len(a) + 1
      /\ \A i \in 1 .. Len(a) : (a \o <<x>>)[i] = a[i]
      /\ (a \o <<x>>)[Len(a) + 1] = x
  BY <1>1, CatIs
<1>4. Len(a) \in Nat
  BY DEF IsSeq
<1>5. \A i \in 1 .. Len(a) + 1 : Append(a, x)[i] = (a \o <<x>>)[i]
  BY <1>2, <1>3, <1>4
<1> QED
  BY <1>2, <1>3, <1>5, SameSeq

(* A sequence that is not empty is one with its last element appended.     *)
LEMMA LastApart ==
  ASSUME NEW q, IsSeq(q), NEW n \in Nat, Len(q) = n + 1
  PROVE  \E p : /\ IsSeq(p) /\ Len(p) = n /\ q = Append(p, q[n + 1])
                /\ \A i \in 1 .. n : p[i] = q[i]
<1> DEFINE p == [i \in 1 .. n |-> q[i]]
<1>1. Len(p) = n /\ \A i \in 1 .. n : p[i] = q[i]
  OBVIOUS
<1>2. p = [i \in 1 .. n |-> p[i]]
  OBVIOUS
<1> HIDE DEF p
<1>3. IsSeq(p)
  BY <1>1, <1>2 DEF IsSeq
<1>4. /\ IsSeq(Append(p, q[n + 1])) /\ Len(Append(p, q[n + 1])) = n + 1
      /\ \A i \in 1 .. n + 1 : Append(p, q[n + 1])[i] = IF i = n + 1 THEN q[n + 1] ELSE p[i]
  BY <1>1, <1>3, AppendIsSeq
<1>5. \A i \in 1 .. n + 1 : Append(p, q[n + 1])[i] = q[i]
  BY <1>1, <1>4
<1>6. q = Append(p, q[n + 1])
  BY <1>4, <1>5, SameSeq
<1> QED
  BY <1>1, <1>3, <1>6

----------------------------------------------------------------------------
(* Sequences in a row. *)

(* A sequence of sequences, and them in a row.                             *)
Seqs(q) == IsSeq(q) /\ \A i \in 1 .. Len(q) : IsSeq(q[i])
Row(q) == Talk!FlattenSeq(q)
RowGoesOn(row, q, k) == row = [i \in 1 .. k |-> IF i = 1 THEN q[i] ELSE row[i - 1] \o q[i]]

(* The function that makes a row: there is one.                            *)
LEMMA RowExists ==
  ASSUME NEW q, NEW k \in Nat
  PROVE  \E row : RowGoesOn(row, q, k)
<1> DEFINE S == {n \in Nat : \E row : RowGoesOn(row, q, n)}
<1>1. 0 \in S
  <2> DEFINE row == [n \in 1 .. 0 |-> <<>>]
  <2>1. RowGoesOn(row, q, 0)
    BY DEF RowGoesOn
  <2> QED
    BY <2>1
<1>2. ASSUME NEW n \in Nat, n \in S PROVE n + 1 \in S
  <2>1. PICK r : RowGoesOn(r, q, n)
    BY <1>2
  <2> DEFINE new == IF n = 0 THEN q[1] ELSE r[n] \o q[n + 1]
  <2> DEFINE row == [m \in 1 .. n + 1 |-> IF m <= n THEN r[m] ELSE new]
  <2>2. \A m \in 1 .. n : r[m] = IF m = 1 THEN q[m] ELSE r[m - 1] \o q[m]
    BY <2>1 DEF RowGoesOn
  <2>3. ASSUME NEW m \in 1 .. n + 1
        PROVE  row[m] = IF m = 1 THEN q[m] ELSE row[m - 1] \o q[m]
    <3>1. CASE m = n + 1
      <4>1. row[m] = new /\ (m = 1 <=> n = 0) /\ m - 1 = n /\ (n # 0 => row[n] = r[n])
        BY <3>1
      <4> HIDE DEF row
      <4> QED
        BY <3>1, <4>1
    <3>2. CASE m # n + 1
      <4>1. m \in 1 .. n /\ row[m] = r[m]
        BY <3>2
      <4>2. m # 1 => row[m - 1] = r[m - 1]
        BY <3>2
      <4> HIDE DEF row
      <4> QED
        BY <2>2, <4>1, <4>2
    <3> QED
      BY <3>1, <3>2
  <2>4. row = [m \in 1 .. n + 1 |-> row[m]]
    OBVIOUS
  <2> HIDE DEF row
  <2>5. RowGoesOn(row, q, n + 1)
    BY <2>3, <2>4 DEF RowGoesOn
  <2> QED
    BY <2>5
<1>3. Nat \subseteq S
  <2> HIDE DEF S
  <2> QED
    BY <1>1, <1>2, Induction
<1> QED
  BY <1>3

(* It makes the row.                                                       *)
LEMMA RowIs ==
  ASSUME NEW q, IsSeq(q)
  PROVE  /\ Len(q) = 0 => Row(q) = <<>>
         /\ Len(q) # 0 => \E row : RowGoesOn(row, q, Len(q)) /\ Row(q) = row[Len(q)]
<1>1. Len(q) = 0 => Row(q) = <<>>
  <2>1. Len(q) = 0 => q = <<>>
    BY EmptyIsSeq, SameSeq
  <2> QED
    BY <2>1 DEF Row, Talk!FlattenSeq
<1>2. ASSUME Len(q) # 0 PROVE \E row : RowGoesOn(row, q, Len(q)) /\ Row(q) = row[Len(q)]
  <2> DEFINE f == CHOOSE row : row = [i \in 1 .. Len(q) |-> IF i = 1 THEN q[i] ELSE row[i - 1] \o q[i]]
  <2>1. Row(q) = f[Len(q)]
    BY <1>2 DEF Row, Talk!FlattenSeq
  <2>2. \E row : row = [i \in 1 .. Len(q) |-> IF i = 1 THEN q[i] ELSE row[i - 1] \o q[i]]
    <3>1. Len(q) \in Nat
      BY DEF IsSeq
    <3> QED
      BY <3>1, RowExists DEF RowGoesOn
  <2>3. f = [i \in 1 .. Len(q) |-> IF i = 1 THEN q[i] ELSE f[i - 1] \o q[i]]
    BY <2>2
  <2> HIDE DEF f
  <2> QED
    BY <2>1, <2>3 DEF RowGoesOn
<1> QED
  BY <1>1, <1>2

(* One sequence more is put behind the row.                                *)
LEMMA RowOneMore ==
  ASSUME NEW q, IsSeq(q), NEW x, IsSeq(x)
  PROVE  Row(Append(q, x)) = Row(q) \o x
<1> DEFINE n == Len(q)
<1> DEFINE a == Append(q, x)
<1>1. /\ IsSeq(a) /\ Len(a) = n + 1 /\ a[n + 1] = x /\ \A i \in 1 .. n : a[i] = q[i]
      /\ n \in Nat
  BY AppendIsSeq DEF IsSeq
<1> HIDE DEF a
<1>2. PICK r : RowGoesOn(r, a, n + 1) /\ Row(a) = r[n + 1]
  BY <1>1, RowIs
<1>3. \A i \in 1 .. n + 1 : r[i] = IF i = 1 THEN a[i] ELSE r[i - 1] \o a[i]
  BY <1>2 DEF RowGoesOn
<1>4. CASE n = 0
  <2>1. Row(a) = x
    BY <1>1, <1>2, <1>3, <1>4
  <2>2. Row(q) = <<>>
    BY <1>4, RowIs
  <2> QED
    BY <2>1, <2>2, CatNothing DEF a
<1>5. CASE n # 0
  <2>1. PICK t : RowGoesOn(t, q, n) /\ Row(q) = t[n]
    BY <1>5, RowIs
  <2>2. \A i \in 1 .. n : t[i] = IF i = 1 THEN q[i] ELSE t[i - 1] \o q[i]
    BY <2>1 DEF RowGoesOn
  <2> DEFINE S == {m \in Nat : m + 1 \in 1 .. n => r[m + 1] = t[m + 1]}
  <2>3. 0 \in S
    BY <1>1, <1>3, <2>2
  <2>4. ASSUME NEW m \in Nat, m \in S PROVE m + 1 \in S
    <3> SUFFICES ASSUME m + 1 + 1 \in 1 .. n PROVE r[m + 1 + 1] = t[m + 1 + 1]
      OBVIOUS
    <3> DEFINE i == m + 1 + 1
    <3>1. i \in 1 .. n /\ i \in 1 .. n + 1 /\ i # 1 /\ i - 1 = m + 1 /\ m + 1 \in 1 .. n
      BY <1>1
    <3>2. r[m + 1] = t[m + 1]
      BY <2>4, <3>1
    <3> HIDE DEF i
    <3>3. r[i] = r[m + 1] \o a[i] /\ t[i] = t[m + 1] \o q[i] /\ a[i] = q[i]
      BY <1>1, <1>3, <2>2, <3>1
    <3>4. r[i] = t[i]
      BY <3>2, <3>3
    <3> QED
      BY <3>4 DEF i
  <2>5. Nat \subseteq S
    <3> HIDE DEF S
    <3> QED
      BY <2>3, <2>4, Induction
  <2>6. r[n] = t[n]
    <3>1. n - 1 \in Nat /\ n - 1 + 1 = n /\ n \in 1 .. n
      BY <1>1, <1>5
    <3>2. n - 1 \in S
      BY <2>5, <3>1
    <3> QED
      BY <3>1, <3>2
  <2>7. r[n + 1] = r[n] \o a[n + 1]
    <3> DEFINE i == n + 1
    <3>1. i \in 1 .. n + 1 /\ i # 1 /\ i - 1 = n
      BY <1>1, <1>5
    <3> HIDE DEF i
    <3>2. r[i] = r[i - 1] \o a[i]
      BY <1>3, <3>1
    <3>3. r[i] = r[n] \o a[i]
      BY <3>1, <3>2
    <3> QED
      BY <3>3 DEF i
  <2> QED
    BY <1>1, <1>2, <2>1, <2>6, <2>7 DEF a
<1> QED
  BY <1>4, <1>5

(* A row is a sequence, and has what is in the sequences it is made of.    *)
Has(q, x) == \E i \in 1 .. Len(q) : q[i] = x
RowHas(q) ==
  IsSeq(Row(q)) /\ \A x : Has(Row(q), x) <=> \E i \in 1 .. Len(q) : Has(q[i], x)

(* A sequence has what its parts have.                                     *)
LEMMA CatHas ==
  ASSUME NEW a, IsSeq(a), NEW b, IsSeq(b), NEW x
  PROVE  Has(a \o b, x) <=> Has(a, x) \/ Has(b, x)
<1> DEFINE c == a \o b
<1>1. /\ Len(c) = Len(a) + Len(b)
      /\ \A i \in 1 .. Len(a) : c[i] = a[i]
      /\ \A i \in 1 .. Len(b) : c[Len(a) + i] = b[i]
  BY CatIs
<1>2. Len(a) \in Nat /\ Len(b) \in Nat
  BY DEF IsSeq
<1> HIDE DEF c
<1>3. ASSUME Has(c, x) PROVE Has(a, x) \/ Has(b, x)
  <2>1. PICK i \in 1 .. Len(c) : c[i] = x
    BY <1>3 DEF Has
  <2>2. CASE i \in 1 .. Len(a)
    BY <1>1, <2>1, <2>2 DEF Has
  <2>3. CASE i \notin 1 .. Len(a)
    <3>1. i - Len(a) \in 1 .. Len(b) /\ Len(a) + (i - Len(a)) = i
      BY <1>1, <1>2, <2>1, <2>3
    <3>2. b[i - Len(a)] = x
      BY <1>1, <2>1, <3>1
    <3> QED
      BY <3>1, <3>2 DEF Has
  <2> QED
    BY <2>2, <2>3
<1>4. ASSUME Has(a, x) PROVE Has(c, x)
  <2>1. PICK i \in 1 .. Len(a) : a[i] = x
    BY <1>4 DEF Has
  <2>2. i \in 1 .. Len(c) /\ c[i] = x
    BY <1>1, <1>2, <2>1
  <2> QED
    BY <2>2 DEF Has
<1>5. ASSUME Has(b, x) PROVE Has(c, x)
  <2>1. PICK i \in 1 .. Len(b) : b[i] = x
    BY <1>5 DEF Has
  <2>2. Len(a) + i \in 1 .. Len(c) /\ c[Len(a) + i] = x
    BY <1>1, <1>2, <2>1
  <2> QED
    BY <2>2 DEF Has
<1> QED
  BY <1>3, <1>4, <1>5 DEF c

LEMMA RowOfSeqs ==
  ASSUME NEW q, Seqs(q)
  PROVE  RowHas(q)
<1> DEFINE S == {n \in Nat : \A p : Seqs(p) /\ Len(p) = n => RowHas(p)}
<1>1. 0 \in S
  <2> SUFFICES ASSUME NEW p, Seqs(p), Len(p) = 0 PROVE RowHas(p)
    OBVIOUS
  <2>1. Row(p) = <<>> /\ IsSeq(<<>>) /\ Len(<<>>) = 0
    BY RowIs, EmptyIsSeq DEF Seqs
  <2> QED
    BY <2>1 DEF RowHas, Has
<1>2. ASSUME NEW n \in Nat, n \in S PROVE n + 1 \in S
  <2> SUFFICES ASSUME NEW p, Seqs(p), Len(p) = n + 1 PROVE RowHas(p)
    OBVIOUS
  <2> DEFINE y == p[n + 1]
  <2>1. PICK f : IsSeq(f) /\ Len(f) = n /\ p = Append(f, y) /\ \A i \in 1 .. n : f[i] = p[i]
    BY LastApart DEF Seqs
  <2>2. \A i \in 1 .. n : IsSeq(p[i])
    BY DEF Seqs
  <2>3. IsSeq(y)
    BY DEF Seqs
  <2>4. Seqs(f)
    BY <2>1, <2>2 DEF Seqs
  <2>5. RowHas(f)
    BY <1>2, <2>1, <2>4
  <2>6. Row(p) = Row(f) \o y
    <3> HIDE DEF y
    <3>1. Row(Append(f, y)) = Row(f) \o y
      BY <2>1, <2>3, RowOneMore
    <3> QED
      BY <2>1, <3>1
  <2>7. IsSeq(Row(f)) /\ \A x : Has(Row(f), x) <=> \E i \in 1 .. n : Has(f[i], x)
    BY <2>1, <2>5 DEF RowHas
  <2> HIDE DEF y
  <2>8. IsSeq(Row(p))
    BY <2>3, <2>6, <2>7, CatIs
  <2>9. ASSUME NEW x PROVE Has(Row(p), x) <=> \E i \in 1 .. n + 1 : Has(p[i], x)
    <3>1. Has(Row(p), x) <=> Has(Row(f), x) \/ Has(y, x)
      BY <2>3, <2>6, <2>7, CatHas
    <3>2. (\E i \in 1 .. n + 1 : Has(p[i], x)) <=> (\E i \in 1 .. n : Has(p[i], x)) \/ Has(p[n + 1], x)
      OBVIOUS
    <3>3. (\E i \in 1 .. n : Has(p[i], x)) <=> (\E i \in 1 .. n : Has(f[i], x))
      BY <2>1
    <3> QED
      BY <2>7, <3>1, <3>2, <3>3 DEF y
  <2> QED
    BY <2>8, <2>9 DEF RowHas
<1>3. Nat \subseteq S
  <2> HIDE DEF S
  <2> QED
    BY <1>1, <1>2, Induction
<1>4. Len(q) \in Nat /\ Len(q) \in S
  BY <1>3 DEF Seqs, IsSeq
<1> QED
  BY <1>4

(* The row of a row of two is one behind the other.                        *)
LEMMA RowOfTwo ==
  ASSUME NEW a, Seqs(a), NEW b, Seqs(b)
  PROVE  Row(a \o b) = Row(a) \o Row(b)
<1> DEFINE S == {n \in Nat : \A p : Seqs(p) /\ Len(p) = n => Row(a \o p) = Row(a) \o Row(p)}
<1>0. IsSeq(a) /\ IsSeq(Row(a))
  BY RowOfSeqs DEF Seqs, RowHas
<1>1. 0 \in S
  <2> SUFFICES ASSUME NEW p, Seqs(p), Len(p) = 0 PROVE Row(a \o p) = Row(a) \o Row(p)
    OBVIOUS
  <2>1. p = <<>> /\ Row(p) = <<>>
    BY RowIs, EmptyIsSeq, SameSeq DEF Seqs
  <2>2. a \o <<>> = a /\ Row(a) \o <<>> = Row(a)
    BY <1>0, CatNothing
  <2> QED
    BY <2>1, <2>2
<1>2. ASSUME NEW n \in Nat, n \in S PROVE n + 1 \in S
  <2> SUFFICES ASSUME NEW p, Seqs(p), Len(p) = n + 1 PROVE Row(a \o p) = Row(a) \o Row(p)
    OBVIOUS
  <2> DEFINE y == p[n + 1]
  <2>1. PICK f : IsSeq(f) /\ Len(f) = n /\ p = Append(f, y) /\ \A i \in 1 .. n : f[i] = p[i]
    BY LastApart DEF Seqs
  <2>2. \A i \in 1 .. n : IsSeq(p[i])
    BY DEF Seqs
  <2>3. IsSeq(y) /\ IsSeq(<<y>>)
    BY OneIsSeq DEF Seqs
  <2>4. Seqs(f) /\ IsSeq(Row(f))
    <3>1. Seqs(f)
      BY <2>1, <2>2 DEF Seqs
    <3> QED
      BY <3>1, RowOfSeqs DEF RowHas
  <2>5. Row(a \o f) = Row(a) \o Row(f)
    BY <1>2, <2>1, <2>4
  <2> HIDE DEF y
  <2>6. p = f \o <<y>> /\ a \o p = (a \o f) \o <<y>> /\ IsSeq(a \o f)
    <3>1. p = f \o <<y>>
      BY <2>1, AppendIsCat
    <3>2. (a \o f) \o <<y>> = a \o (f \o <<y>>)
      BY <1>0, <2>1, <2>3, CatAssociative
    <3>3. IsSeq(a \o f)
      BY <1>0, <2>1, CatIs
    <3> QED
      BY <3>1, <3>2, <3>3
  <2>7. Row(a \o p) = Row(a \o f) \o y
    <3>1. a \o p = Append(a \o f, y)
      BY <2>6, AppendIsCat
    <3> QED
      BY <2>3, <2>6, <3>1, RowOneMore
  <2>8. Row(p) = Row(f) \o y
    BY <2>1, <2>3, RowOneMore
  <2>9. (Row(a) \o Row(f)) \o y = Row(a) \o (Row(f) \o y)
    BY <1>0, <2>3, <2>4, CatAssociative
  <2> QED
    BY <2>5, <2>7, <2>8, <2>9
<1>3. Nat \subseteq S
  <2> HIDE DEF S
  <2> QED
    BY <1>1, <1>2, Induction
<1>4. Len(b) \in Nat /\ Len(b) \in S
  BY <1>3 DEF Seqs, IsSeq
<1> QED
  BY <1>4


----------------------------------------------------------------------------
(* The answer of a model. *)

(* What is made element by element of a sequence with one element more.    *)
Mapped(f, q) == f = [i \in DOMAIN q |-> f[i]]
LEMMA EachOneMore ==
  ASSUME NEW q, IsSeq(q), NEW x, NEW f, NEW g,
         Mapped(f, q), Mapped(g, Append(q, x)),
         \A i \in 1 .. Len(q) : g[i] = f[i]
  PROVE  IsSeq(f) /\ Len(f) = Len(q) /\ g = Append(f, g[Len(q) + 1])
<1> DEFINE n == Len(q)
<1> DEFINE a == Append(q, x)
<1>1. n \in Nat /\ DOMAIN q = 1 .. n
  BY DEF IsSeq
<1>2. IsSeq(a) /\ Len(a) = n + 1
  BY AppendIsSeq
<1>3. DOMAIN a = 1 .. n + 1
  BY <1>2 DEF IsSeq
<1>4. f = [i \in 1 .. n |-> f[i]] /\ g = [i \in 1 .. n + 1 |-> g[i]]
  BY <1>1, <1>3 DEF Mapped
<1> HIDE DEF n, a
<1>5. IsSeq(f) /\ Len(f) = n /\ IsSeq(g) /\ Len(g) = n + 1
  BY <1>1, <1>4 DEF IsSeq
<1> DEFINE y == g[n + 1]
<1>6. /\ IsSeq(Append(f, y)) /\ Len(Append(f, y)) = n + 1 /\ Append(f, y)[n + 1] = y
      /\ \A i \in 1 .. n : Append(f, y)[i] = f[i]
  BY <1>5, AppendIsSeq
<1>7. \A i \in 1 .. n + 1 : g[i] = Append(f, y)[i]
  <2>1. \A i \in 1 .. n : g[i] = f[i]
    BY DEF n
  <2>2. \A i \in 1 .. n + 1 : i \in 1 .. n \/ i = n + 1
    BY <1>1
  <2> QED
    BY <1>6, <2>1, <2>2
<1>8. g = Append(f, y)
  BY <1>5, <1>6, <1>7, SameSeq
<1> QED
  BY <1>5, <1>8 DEF n

(* One element more of a type is one more among those of the type.         *)
LEMMA OfTypeOneMore ==
  ASSUME NEW q, IsSeq(q), NEW x, NEW type
  PROVE  Talk!OfType(Append(q, x), type) =
           IF x.type = type THEN Append(Talk!OfType(q, type), x) ELSE Talk!OfType(q, type)
<1> DEFINE f == [i \in DOMAIN q |-> IF q[i].type = type THEN <<q[i]>> ELSE <<>>]
<1> DEFINE a == Append(q, x)
<1> DEFINE g == [i \in DOMAIN a |-> IF a[i].type = type THEN <<a[i]>> ELSE <<>>]
<1> DEFINE y == IF x.type = type THEN <<x>> ELSE <<>>
<1>1. IsSeq(a) /\ Len(a) = Len(q) + 1 /\ a[Len(q) + 1] = x /\ \A i \in 1 .. Len(q) : a[i] = q[i]
  BY AppendIsSeq
<1>2. Len(q) \in Nat /\ DOMAIN q = 1 .. Len(q) /\ DOMAIN a = 1 .. Len(q) + 1
  BY <1>1 DEF IsSeq
<1>3. Talk!OfType(q, type) = Row(f) /\ Talk!OfType(a, type) = Row(g)
  BY DEF Talk!OfType, Row
<1>4. \A i \in 1 .. Len(q) : g[i] = f[i]
  BY <1>1, <1>2
<1>5. g[Len(q) + 1] = y
  BY <1>1, <1>2
<1>6. Mapped(f, q) /\ Mapped(g, a)
  BY DEF Mapped
<1>7. IsSeq(y)
  BY EmptyIsSeq, OneIsSeq
<1>8. \A i \in 1 .. Len(q) : IsSeq(f[i])
  <2>1. \A i \in 1 .. Len(q) : f[i] = <<q[i]>> \/ f[i] = <<>>
    BY <1>2
  <2> HIDE DEF f
  <2> QED
    BY <2>1, EmptyIsSeq, OneIsSeq
<1> HIDE DEF f, g
<1>9. IsSeq(f) /\ Len(f) = Len(q) /\ g = Append(f, y)
  <2>1. IsSeq(f) /\ Len(f) = Len(q) /\ g = Append(f, g[Len(q) + 1])
    BY <1>4, <1>6, EachOneMore, Zenon
  <2> QED
    BY <1>5, <2>1, Zenon
<1> HIDE DEF y, a
<1>10. Row(g) = Row(f) \o y
  BY <1>7, <1>9, RowOneMore
<1>11. IsSeq(Row(f))
  BY <1>8, <1>9, RowOfSeqs DEF Seqs, RowHas
<1>12. CASE x.type = type
  <2>1. Row(f) \o y = Append(Row(f), x)
    BY <1>11, <1>12, AppendIsCat DEF y
  <2> QED
    BY <1>3, <1>10, <1>12, <2>1 DEF a
<1>13. CASE x.type # type
  <2>1. Row(f) \o y = Row(f)
    BY <1>11, <1>13, CatNothing DEF y
  <2> QED
    BY <1>3, <1>10, <1>13, <2>1 DEF a
<1> QED
  BY <1>12, <1>13

LEMMA OfTypeIsSeq ==
  ASSUME NEW q, IsSeq(q), NEW type
  PROVE  IsSeq(Talk!OfType(q, type))
<1> DEFINE f == [i \in DOMAIN q |-> IF q[i].type = type THEN <<q[i]>> ELSE <<>>]
<1>1. Len(q) \in Nat /\ DOMAIN q = 1 .. Len(q)
  BY DEF IsSeq
<1>2. \A i \in 1 .. Len(q) : f[i] = <<q[i]>> \/ f[i] = <<>>
  BY <1>1
<1>3. f = [i \in 1 .. Len(q) |-> f[i]]
  BY <1>1
<1>4. Talk!OfType(q, type) = Row(f)
  BY DEF Talk!OfType, Row
<1> HIDE DEF f
<1>5. IsSeq(f) /\ Len(f) = Len(q)
  BY <1>1, <1>3 DEF IsSeq
<1>6. Seqs(f)
  BY <1>2, <1>5, EmptyIsSeq, OneIsSeq DEF Seqs
<1> QED
  BY <1>4, <1>6, RowOfSeqs DEF RowHas

LEMMA NoneOfType ==
  ASSUME NEW type
  PROVE  Talk!OfType(<<>>, type) = <<>>
<1> DEFINE f == [i \in DOMAIN <<>> |-> IF <<>>[i].type = type THEN <<<<>>[i]>> ELSE <<>>]
<1>1. DOMAIN <<>> = {}
  OBVIOUS
<1>2. f = <<>>
  <2>1. Len(f) = 0 /\ IsSeq(f)
    BY <1>1 DEF IsSeq
  <2> HIDE DEF f
  <2> QED
    BY <2>1, EmptyIsSeq, SameSeq
<1>3. Row(<<>>) = <<>>
  BY EmptyIsSeq, RowIs
<1> QED
  BY <1>2, <1>3 DEF Talk!OfType, Row

(* Something told is not taken back.                                       *)
LEMMA StillTold ==
  ASSUME NEW q, IsSeq(q), NEW x, NEW type, Talk!OfType(q, type) # <<>> \/ x.type = type
  PROVE  Talk!OfType(Append(q, x), type) # <<>>
<1>1. CASE x.type = type
  <2> DEFINE p == Talk!OfType(q, type)
  <2>1. Talk!OfType(Append(q, x), type) = Append(p, x) /\ IsSeq(p)
    BY <1>1, OfTypeOneMore, OfTypeIsSeq
  <2> HIDE DEF p
  <2>2. Len(Append(p, x)) = Len(p) + 1 /\ Len(p) \in Nat
    BY <2>1, AppendIsSeq DEF IsSeq
  <2>3. Len(<<>>) = 0
    BY EmptyIsSeq
  <2> QED
    BY <2>1, <2>2, <2>3
<1>2. CASE x.type # type
  BY <1>2, OfTypeOneMore
<1> QED
  BY <1>1, <1>2

(* The state of the stream, of the transformation and of the iteration.    *)
StreamShape(t) ==
  /\ t = [blocks |-> t.blocks, usage |-> t.usage, finish |-> t.finish, out |-> t.out, broken |-> t.broken]
  /\ IsSeq(t.out)
Stages == {"begin", "body", "finishing", "end"}
RagShape(d) ==
  /\ d.stage \in Stages
  /\ d = [stage |-> d.stage, open |-> d.open, kinds |-> d.kinds, calls |-> d.calls, sent |-> d.sent,
          tokens |-> d.tokens, reason |-> d.reason, hurt |-> d.hurt, sdk |-> d.sdk, own |-> d.own]
  /\ StreamShape(d.sdk)
  /\ d.own = [yielded |-> d.own.yielded, at |-> d.own.at] /\ IsSeq(d.own.yielded)
  /\ IsSeq(d.sent) /\ IsSeq(d.kinds) /\ IsSeq(d.calls) /\ d.hurt \in BOOLEAN

(* What is told of the messages, whatever was garbled on the way.          *)
Honest(d) ==
  /\ d.hurt => Talk!OfType(d.sdk.out, "error") # <<>> /\ d.own.at # "reading"
  /\ Len(d.own.yielded) <= Len(d.sent)
  /\ \A i \in 1 .. Len(d.own.yielded) : d.own.yielded[i] = d.sent[i]
  /\ d.own.at = "done" => Len(d.own.yielded) # 0 /\ d.own.yielded[Len(d.own.yielded)].type = "message_stop"

(* As long as nothing was, the transformation knows of the open calls what *)
(* the server has sent of them, and has passed on the ended ones.          *)
CallsOf(out) == LET c == Talk!OfType(out, "tool-call") IN [i \in DOMAIN c |-> <<c[i].index, c[i].args>>]
Finished(d) == [type |-> "finish", reason |-> Talk!mapGelStopReason(d.reason), usage |-> d.tokens]
Ended(d) == d.stage = "end" /\ d.sent[Len(d.sent)].type = "message_stop"
Open(kinds, open) == {n \in DOMAIN open : kinds[n] # "text"}
Opened(kinds, open, blocks) ==
  /\ open = [n \in DOMAIN open |-> open[n]] /\ DOMAIN open \subseteq 1 .. Len(kinds)
  /\ blocks = [n \in Open(kinds, open) |-> open[n]]
Intact(d) ==
  /\ ~d.sdk.broken /\ d.own.yielded = d.sent
  /\ d.sdk.usage = d.tokens /\ d.sdk.finish = Talk!mapGelStopReason(d.reason)
  /\ CallsOf(d.sdk.out) = d.calls
  /\ Talk!OfType(d.sdk.out, "finish") = IF Ended(d) THEN <<Finished(d)>> ELSE <<>>
  /\ d.stage # "end" => Opened(d.kinds, d.open, d.sdk.blocks) /\ d.own.at = "reading"
RagInv(d) == RagShape(d) /\ Honest(d) /\ (~d.hurt => Intact(d))

Garbled == [type |-> "garbled"]
EventTypes ==
  {"message_start", "content_block_start", "content_block_stop", "text_delta", "tool_call_delta",
   "message_delta", "message_stop", "error"}

(* An event is sent and may be garbled on the way, once.                   *)
SentAs(x, e, got, y) ==
  y = [stage |-> x.stage, open |-> x.open, kinds |-> x.kinds, calls |-> x.calls, sent |-> Append(x.sent, e),
       tokens |-> x.tokens, reason |-> x.reason, hurt |-> (x.hurt \/ got # e),
       sdk |-> Talk!transform(x.sdk, got), own |-> Talk!extract(x.own, got)]
Conversation(stage, open, kinds, calls, sent, tokens, reason, hurt, sdk, own) ==
  [stage |-> stage, open |-> open, kinds |-> kinds, calls |-> calls, sent |-> sent,
   tokens |-> tokens, reason |-> reason, hurt |-> hurt, sdk |-> sdk, own |-> own]
LEMMA SendIs ==
  ASSUME NEW x, RagShape(x), NEW e, NEW y \in Talk!Send(x, e)
  PROVE  SentAs(x, e, e, y) \/ (~x.hurt /\ SentAs(x, e, Garbled, y))
<1> DEFINE Sending(got) ==
      [x EXCEPT !.sent = Append(@, e), !.sdk = Talk!transform(@, got), !.own = Talk!extract(@, got),
                !.hurt = x.hurt \/ got # e]
<1>1. \A got : SentAs(x, e, got, Sending(got))
  <2> SUFFICES ASSUME NEW got PROVE SentAs(x, e, got, Sending(got))
    OBVIOUS
  <2> DEFINE sdk == Talk!transform(x.sdk, got)
  <2> DEFINE own == Talk!extract(x.own, got)
  <2>1. x = [stage |-> x.stage, open |-> x.open, kinds |-> x.kinds, calls |-> x.calls, sent |-> x.sent,
          tokens |-> x.tokens, reason |-> x.reason, hurt |-> x.hurt, sdk |-> x.sdk, own |-> x.own]
    BY DEF RagShape
  <2> DEFINE sent == Append(x.sent, e)
  <2> DEFINE hurt == x.hurt \/ got # e
  <2>2. Sending(got) = [x EXCEPT !.sent = sent, !.sdk = sdk, !.own = own, !.hurt = hurt]
    BY <2>1
  <2> HIDE DEF sdk, own, sent, hurt, Sending
  <2> DEFINE a == Conversation(x.stage, x.open, x.kinds, x.calls, x.sent, x.tokens, x.reason, x.hurt, x.sdk, x.own)
  <2> DEFINE b == Conversation(x.stage, x.open, x.kinds, x.calls, sent, x.tokens, x.reason, x.hurt, x.sdk, x.own)
  <2> DEFINE c == Conversation(x.stage, x.open, x.kinds, x.calls, sent, x.tokens, x.reason, x.hurt, sdk, x.own)
  <2> DEFINE d == Conversation(x.stage, x.open, x.kinds, x.calls, sent, x.tokens, x.reason, x.hurt, sdk, own)
  <2> DEFINE f == Conversation(x.stage, x.open, x.kinds, x.calls, sent, x.tokens, x.reason, hurt, sdk, own)
  <2>3. x = a
    BY <2>1 DEF Conversation
  <2>4. \A v : [a EXCEPT !.sent = v] = Conversation(x.stage, x.open, x.kinds, x.calls, v, x.tokens, x.reason, x.hurt, x.sdk, x.own)
    BY DEF Conversation
  <2>5. \A v : [b EXCEPT !.sdk = v] = Conversation(x.stage, x.open, x.kinds, x.calls, sent, x.tokens, x.reason, x.hurt, v, x.own)
    BY DEF Conversation
  <2>6. \A v : [c EXCEPT !.own = v] = Conversation(x.stage, x.open, x.kinds, x.calls, sent, x.tokens, x.reason, x.hurt, sdk, v)
    BY DEF Conversation
  <2>7. \A v : [d EXCEPT !.hurt = v] = Conversation(x.stage, x.open, x.kinds, x.calls, sent, x.tokens, x.reason, v, sdk, own)
    BY DEF Conversation
  <2>12. [a EXCEPT !.sent = sent] = b /\ [b EXCEPT !.sdk = sdk] = c /\ [c EXCEPT !.own = own] = d /\ [d EXCEPT !.hurt = hurt] = f
    BY <2>4, <2>5, <2>6, <2>7, Zenon
  <2> HIDE DEF a, b, c, d, f
  <2>8. [[[[a EXCEPT !.sent = sent] EXCEPT !.sdk = sdk] EXCEPT !.own = own] EXCEPT !.hurt = hurt] = f
    BY <2>12, Zenon
  <2>9. [x EXCEPT !.sent = sent, !.sdk = sdk, !.own = own, !.hurt = hurt] = f
    BY <2>3, <2>8
  <2>10. f = [stage |-> x.stage, open |-> x.open, kinds |-> x.kinds, calls |-> x.calls, sent |-> sent,
              tokens |-> x.tokens, reason |-> x.reason, hurt |-> hurt, sdk |-> sdk, own |-> own]
    BY Zenon DEF f, Conversation
  <2> QED
    BY <2>2, <2>9, <2>10 DEF SentAs, sdk, own, sent, hurt
<1>2. CASE x.hurt
  <2>1. y = Sending(e)
    BY <1>2 DEF Talk!Send
  <2> QED
    BY <1>1, <2>1
<1>3. CASE ~x.hurt
  <2>1. y = Sending(e) \/ y = Sending(Garbled)
    BY <1>3 DEF Talk!Send, Garbled
  <2> HIDE DEF Sending
  <2> QED
    BY <1>1, <1>3, <2>1
<1> QED
  BY <1>2, <1>3

(* The transformation only adds to what it has told.                       *)
IsStream(u, blocks, usage, finish, out, broken) ==
  u = [blocks |-> blocks, usage |-> usage, finish |-> finish, out |-> out, broken |-> broken]
Tells(t, u) ==
  /\ StreamShape(u)
  /\ u.out = t.out \/ \E told : u.out = Append(t.out, told)
LEMMA TellsNothing ==
  ASSUME NEW t, StreamShape(t), NEW u, NEW blocks, NEW usage, NEW finish, NEW broken,
         IsStream(u, blocks, usage, finish, t.out, broken)
  PROVE  Tells(t, u)
<1>1. u.out = t.out /\ u = [blocks |-> u.blocks, usage |-> u.usage, finish |-> u.finish, out |-> u.out, broken |-> u.broken]
  BY DEF IsStream
<1> QED
  BY <1>1 DEF Tells, StreamShape
LEMMA TellsMore ==
  ASSUME NEW t, StreamShape(t), NEW u, NEW blocks, NEW usage, NEW finish, NEW broken, NEW told,
         IsStream(u, blocks, usage, finish, Append(t.out, told), broken)
  PROVE  Tells(t, u)
<1> DEFINE out == Append(t.out, told)
<1>1. IsSeq(out)
  BY AppendIsSeq DEF StreamShape
<1> HIDE DEF out
<1>2. u.out = out /\ u = [blocks |-> u.blocks, usage |-> u.usage, finish |-> u.finish, out |-> u.out, broken |-> u.broken]
  BY DEF IsStream, out
<1> QED
  BY <1>1, <1>2 DEF Tells, StreamShape, out

(* What it makes of each event.                                            *)
LEMMA StreamFields ==
  ASSUME NEW t, StreamShape(t)
  PROVE  t = [blocks |-> t.blocks, usage |-> t.usage, finish |-> t.finish, out |-> t.out, broken |-> t.broken]
BY DEF StreamShape
LEMMA StartMakes ==
  ASSUME NEW t, StreamShape(t), NEW e
  PROVE  IsStream(Talk!OnMessageStart(t, e), t.blocks, IF e.usage = NoField THEN t.usage ELSE e.usage, t.finish,
                  Append(t.out, [type |-> "response-metadata"]), t.broken)
<1> DEFINE told == [type |-> "response-metadata"]
<1> DEFINE out == Append(t.out, told)
<1> DEFINE usage == IF e.usage = NoField THEN t.usage ELSE e.usage
<1> DEFINE v == IF e.usage = NoField THEN t ELSE [t EXCEPT !.usage = e.usage]
<1>1. Talk!OnMessageStart(t, e) = [v EXCEPT !.out = Append(@, told)]
  BY DEF Talk!OnMessageStart, Talk!Enqueue
<1>2. v = [blocks |-> t.blocks, usage |-> usage, finish |-> t.finish, out |-> t.out, broken |-> t.broken]
  BY StreamFields
<1> HIDE DEF v, told, usage
<1>3. v.out = t.out /\ [v EXCEPT !.out = Append(@, told)] = [v EXCEPT !.out = out]
  BY <1>2
<1> HIDE DEF out
<1>4. [v EXCEPT !.out = out] = [blocks |-> t.blocks, usage |-> usage, finish |-> t.finish, out |-> out, broken |-> t.broken]
  BY <1>2
<1> QED
  BY <1>1, <1>3, <1>4 DEF IsStream, usage, out, told
LEMMA BeginMakes ==
  ASSUME NEW t, StreamShape(t), NEW blocks
  PROVE  IsStream([t EXCEPT !.blocks = blocks], blocks, t.usage, t.finish, t.out, t.broken)
BY StreamFields DEF IsStream
LEMMA EnqueueMakes ==
  ASSUME NEW t, StreamShape(t), NEW told
  PROVE  IsStream(Talk!Enqueue(t, told), t.blocks, t.usage, t.finish, Append(t.out, told), t.broken)
<1> DEFINE out == Append(t.out, told)
<1>1. Talk!Enqueue(t, told) = [t EXCEPT !.out = out]
  BY DEF Talk!Enqueue
<1> HIDE DEF out
<1>2. [t EXCEPT !.out = out] = [blocks |-> t.blocks, usage |-> t.usage, finish |-> t.finish, out |-> out, broken |-> t.broken]
  BY StreamFields
<1> QED
  BY <1>1, <1>2 DEF IsStream, out
LEMMA BeginEnqueueMakes ==
  ASSUME NEW t, StreamShape(t), NEW blocks, NEW told
  PROVE  IsStream(Talk!Enqueue([t EXCEPT !.blocks = blocks], told), blocks, t.usage, t.finish, Append(t.out, told), t.broken)
<1> DEFINE v == [t EXCEPT !.blocks = blocks]
<1>1. v = [blocks |-> blocks, usage |-> t.usage, finish |-> t.finish, out |-> t.out, broken |-> t.broken]
  BY StreamFields
<1> HIDE DEF v
<1>2. StreamShape(v) /\ v.blocks = blocks /\ v.usage = t.usage /\ v.finish = t.finish /\ v.out = t.out /\ v.broken = t.broken
  BY <1>1 DEF StreamShape
<1>3. IsStream(Talk!Enqueue(v, told), v.blocks, v.usage, v.finish, Append(v.out, told), v.broken)
  BY <1>2, EnqueueMakes
<1> QED
  BY <1>2, <1>3 DEF v
LEMMA FinishingMakes ==
  ASSUME NEW t, StreamShape(t), NEW e
  PROVE  IsStream(Talk!OnMessageDelta(t, e), t.blocks, [t.usage EXCEPT ![2] = IF e.usage = NoField THEN @ ELSE e.usage],
                  Talk!mapGelStopReason(e.reason), t.out, t.broken)
<1> DEFINE usage == [t.usage EXCEPT ![2] = IF e.usage = NoField THEN @ ELSE e.usage]
<1> DEFINE finish == Talk!mapGelStopReason(e.reason)
<1>1. Talk!OnMessageDelta(t, e) = [t EXCEPT !.finish = finish, !.usage = usage]
  BY StreamFields DEF Talk!OnMessageDelta
<1>3. t = [blocks |-> t.blocks, usage |-> t.usage, finish |-> t.finish, out |-> t.out, broken |-> t.broken]
  BY StreamFields
<1> HIDE DEF usage, finish
<1>2. [t EXCEPT !.finish = finish, !.usage = usage] =
      [blocks |-> t.blocks, usage |-> usage, finish |-> finish, out |-> t.out, broken |-> t.broken]
  <2>1. \A v : [t EXCEPT !.finish = v] =
                [blocks |-> t.blocks, usage |-> t.usage, finish |-> v, out |-> t.out, broken |-> t.broken]
    BY <1>3
  <2>2. \A v : [[blocks |-> t.blocks, usage |-> t.usage, finish |-> finish, out |-> t.out, broken |-> t.broken] EXCEPT !.usage = v] =
                [blocks |-> t.blocks, usage |-> v, finish |-> finish, out |-> t.out, broken |-> t.broken]
    OBVIOUS
  <2> QED
    BY <2>1, <2>2, Zenon
<1> QED
  BY <1>1, <1>2 DEF IsStream, usage, finish

LEMMA TransformTells ==
  ASSUME NEW t, StreamShape(t), NEW e, e.type \in EventTypes \cup {"garbled"}
  PROVE  Tells(t, Talk!transform(t, e))
<1> DEFINE u == Talk!transform(t, e)
<1>1. Tells(t, t)
  BY DEF Tells
<1>2. \A blocks : Tells(t, [t EXCEPT !.blocks = blocks])
  BY BeginMakes, TellsNothing
<1>3. \A told : Tells(t, Talk!Enqueue(t, told))
  BY EnqueueMakes, TellsMore
<1>4. \A blocks, told : Tells(t, Talk!Enqueue([t EXCEPT !.blocks = blocks], told))
  BY BeginEnqueueMakes, TellsMore
<1>5. CASE t.broken
  BY <1>1, <1>5 DEF Talk!transform
<1>6. CASE ~t.broken /\ e.type = "message_start"
  <2>1. u = Talk!OnMessageStart(t, e)
    BY <1>6 DEF Talk!transform
  <2> HIDE DEF u
  <2> QED
    BY <2>1, StartMakes, TellsMore DEF u
<1>7. CASE ~t.broken /\ e.type = "content_block_start"
  <2>1. u = t \/ \E blocks : u = [t EXCEPT !.blocks = blocks]
    BY <1>7 DEF Talk!transform, Talk!OnBlockStart
  <2> HIDE DEF u
  <2> QED
    BY <1>1, <1>2, <2>1 DEF u
<1>8. CASE ~t.broken /\ e.type = "content_block_stop"
  <2>1. u = t \/ \E blocks, told : u = Talk!Enqueue([t EXCEPT !.blocks = blocks], told)
    BY <1>8 DEF Talk!transform, Talk!OnBlockStop
  <2> HIDE DEF u
  <2> QED
    BY <1>1, <1>4, <2>1 DEF u
<1>9. CASE ~t.broken /\ e.type = "tool_call_delta"
  <2> DEFINE told == [type |-> "tool-call-delta", index |-> e.index, piece |-> e.piece]
  <2> DEFINE blocks == [t.blocks EXCEPT ![e.index] = Append(@, e.piece)]
  <2>1. u = [t EXCEPT !.broken = TRUE] \/ u = Talk!Enqueue([t EXCEPT !.blocks = blocks], told)
    <3>1. t = [blocks |-> t.blocks, usage |-> t.usage, finish |-> t.finish, out |-> t.out, broken |-> t.broken]
      BY StreamFields
    <3>2. [t EXCEPT !.blocks[e.index] = Append(@, e.piece)] = [t EXCEPT !.blocks = blocks]
      BY <3>1
    <3> HIDE DEF blocks
    <3> QED
      BY <1>9, <3>2 DEF Talk!transform, Talk!OnToolCallDelta
  <2> HIDE DEF u, told, blocks
  <2>2. IsStream([t EXCEPT !.broken = TRUE], t.blocks, t.usage, t.finish, t.out, TRUE)
    <3>1. t = [blocks |-> t.blocks, usage |-> t.usage, finish |-> t.finish, out |-> t.out, broken |-> t.broken]
      BY StreamFields
    <3>2. \A v : [t EXCEPT !.broken = v] =
                  [blocks |-> t.blocks, usage |-> t.usage, finish |-> t.finish, out |-> t.out, broken |-> v]
      BY <3>1
    <3> QED
      BY <3>2, Zenon DEF IsStream
  <2>3. Tells(t, [t EXCEPT !.broken = TRUE])
    BY <2>2, TellsNothing
  <2> QED
    BY <1>4, <2>1, <2>3 DEF u
<1>10. CASE ~t.broken /\ e.type = "message_delta"
  <2>1. u = Talk!OnMessageDelta(t, e)
    BY <1>10 DEF Talk!transform
  <2> HIDE DEF u
  <2> QED
    BY <2>1, FinishingMakes, TellsNothing DEF u
<1>11. CASE ~t.broken /\ e.type \in {"message_stop", "error", "garbled", "text_delta"}
  <2>1. \E told : u = Talk!Enqueue(t, told)
    BY <1>11 DEF Talk!transform, Talk!OnMessageStop, Talk!OnTextDelta
  <2> HIDE DEF u
  <2> QED
    BY <1>3, <2>1 DEF u
<1> QED
  BY <1>5, <1>6, <1>7, <1>8, <1>9, <1>10, <1>11 DEF EventTypes


(* What is open, when a block begins, goes on and ends.                    *)
Opening(f, n, v) == [i \in DOMAIN f \cup {n} |-> IF i = n THEN v ELSE f[i]]
LEMMA TextOpens ==
  ASSUME NEW kinds, IsSeq(kinds), NEW open, NEW blocks, Opened(kinds, open, blocks), NEW args, NEW n, n = Len(kinds) + 1
  PROVE  Opened(Append(kinds, "text"), Opening(open, n, args), blocks)
<1> DEFINE k == Append(kinds, "text")
<1> DEFINE o == [i \in DOMAIN open \cup {n} |-> IF i = n THEN args ELSE open[i]]
<1>1. Len(kinds) \in Nat /\ Len(k) = n /\ k[n] = "text" /\ \A i \in 1 .. Len(kinds) : k[i] = kinds[i]
  BY AppendIsSeq DEF IsSeq
<1> HIDE DEF k
<1>2. DOMAIN open \subseteq 1 .. Len(kinds) /\ blocks = [i \in Open(kinds, open) |-> open[i]]
  BY DEF Opened
<1>3. DOMAIN o = DOMAIN open \cup {n} /\ n \notin DOMAIN open /\ \A i \in DOMAIN open : o[i] = open[i]
  BY <1>1, <1>2
<1>4. o = [i \in DOMAIN o |-> o[i]]
  OBVIOUS
<1> HIDE DEF o
<1>5. Open(k, o) = Open(kinds, open)
  BY <1>1, <1>2, <1>3 DEF Open
<1>6. blocks = [i \in Open(k, o) |-> o[i]]
  BY <1>2, <1>3, <1>5 DEF Open
<1>7. DOMAIN o \subseteq 1 .. Len(k)
  BY <1>1, <1>2, <1>3
<1> QED
  BY <1>4, <1>6, <1>7 DEF Opened, k, o, Opening
LEMMA CallOpens ==
  ASSUME NEW kinds, IsSeq(kinds), NEW open, NEW blocks, Opened(kinds, open, blocks), NEW args, NEW n, n = Len(kinds) + 1
  PROVE  Opened(Append(kinds, "tool_use"), Opening(open, n, args), Opening(blocks, n, args))
<1> DEFINE k == Append(kinds, "tool_use")
<1> DEFINE o == [i \in DOMAIN open \cup {n} |-> IF i = n THEN args ELSE open[i]]
<1> DEFINE b == [i \in DOMAIN blocks \cup {n} |-> IF i = n THEN args ELSE blocks[i]]
<1>1. Len(kinds) \in Nat /\ Len(k) = n /\ k[n] = "tool_use" /\ \A i \in 1 .. Len(kinds) : k[i] = kinds[i]
  BY AppendIsSeq DEF IsSeq
<1> HIDE DEF k
<1>2. DOMAIN open \subseteq 1 .. Len(kinds) /\ blocks = [i \in Open(kinds, open) |-> open[i]]
  BY DEF Opened
<1>3. DOMAIN o = DOMAIN open \cup {n} /\ n \notin DOMAIN open /\ o[n] = args /\ \A i \in DOMAIN open : o[i] = open[i]
  BY <1>1, <1>2
<1>4. o = [i \in DOMAIN o |-> o[i]]
  OBVIOUS
<1>8. DOMAIN blocks = Open(kinds, open) /\ \A i \in Open(kinds, open) : blocks[i] = open[i]
  BY <1>2
<1> HIDE DEF o
<1>5. Open(k, o) = Open(kinds, open) \cup {n}
  BY <1>1, <1>2, <1>3 DEF Open
<1>6. b = [i \in Open(k, o) |-> o[i]]
  <2>1. \A i \in Open(kinds, open) : i \in DOMAIN open /\ i # n
    BY <1>3 DEF Open
  <2> QED
    BY <1>3, <1>5, <1>8, <2>1
<1> HIDE DEF b
<1>7. DOMAIN o \subseteq 1 .. Len(k)
  BY <1>1, <1>2, <1>3
<1> QED
  BY <1>4, <1>6, <1>7 DEF Opened, k, o, b, Opening
LEMMA TextGoesOn ==
  ASSUME NEW kinds, NEW open, NEW blocks, Opened(kinds, open, blocks), NEW n \in DOMAIN open, kinds[n] = "text", NEW v
  PROVE  Opened(kinds, [open EXCEPT ![n] = v], blocks)
<1> DEFINE o == [open EXCEPT ![n] = v]
<1>1. DOMAIN o = DOMAIN open /\ \A i \in DOMAIN open : i # n => o[i] = open[i]
  BY DEF Opened
<1>2. o = [i \in DOMAIN o |-> o[i]]
  OBVIOUS
<1> HIDE DEF o
<1>3. Open(kinds, o) = Open(kinds, open) /\ n \notin Open(kinds, open)
  BY <1>1 DEF Open
<1>4. blocks = [i \in Open(kinds, o) |-> o[i]]
  <2>1. blocks = [i \in Open(kinds, open) |-> open[i]]
    BY DEF Opened
  <2>2. \A i \in Open(kinds, open) : o[i] = open[i]
    BY <1>1, <1>3 DEF Open
  <2> QED
    BY <1>3, <2>1, <2>2
<1> QED
  BY <1>1, <1>2, <1>4 DEF Opened, o
LEMMA CallGoesOn ==
  ASSUME NEW kinds, NEW open, NEW blocks, Opened(kinds, open, blocks), NEW n \in DOMAIN open, kinds[n] # "text", NEW v
  PROVE  Opened(kinds, [open EXCEPT ![n] = v], [blocks EXCEPT ![n] = v]) /\ n \in DOMAIN blocks /\ blocks[n] = open[n]
<1> DEFINE o == [open EXCEPT ![n] = v]
<1> DEFINE b == [blocks EXCEPT ![n] = v]
<1>1. DOMAIN o = DOMAIN open /\ o[n] = v /\ \A i \in DOMAIN open : i # n => o[i] = open[i]
  BY DEF Opened
<1>2. o = [i \in DOMAIN o |-> o[i]]
  OBVIOUS
<1> HIDE DEF o
<1>3. Open(kinds, o) = Open(kinds, open) /\ n \in Open(kinds, open)
  BY <1>1 DEF Open
<1>4. blocks = [i \in Open(kinds, open) |-> open[i]]
  BY DEF Opened
<1>5. DOMAIN blocks = Open(kinds, open) /\ blocks[n] = open[n]
  BY <1>3, <1>4
<1>6. b = [i \in Open(kinds, o) |-> o[i]]
  <2>1. \A i \in Open(kinds, open) : b[i] = o[i]
    BY <1>1, <1>3, <1>4 DEF Open
  <2>2. b = [i \in Open(kinds, open) |-> b[i]]
    BY <1>5
  <2> HIDE DEF b
  <2> QED
    BY <1>3, <2>1, <2>2
<1> QED
  BY <1>1, <1>2, <1>3, <1>5, <1>6 DEF Opened, o, b
LEMMA TextCloses ==
  ASSUME NEW kinds, NEW open, NEW blocks, Opened(kinds, open, blocks), NEW n \in DOMAIN open, kinds[n] = "text"
  PROVE  Opened(kinds, Talk!Without(open, n), blocks) /\ n \notin DOMAIN blocks
<1> DEFINE o == Talk!Without(open, n)
<1>1. DOMAIN o = DOMAIN open \ {n} /\ \A i \in DOMAIN o : o[i] = open[i]
  BY DEF Talk!Without
<1>2. o = [i \in DOMAIN o |-> o[i]]
  BY DEF Talk!Without
<1> HIDE DEF o
<1>3. Open(kinds, o) = Open(kinds, open) /\ n \notin Open(kinds, open)
  BY <1>1 DEF Open
<1>4. blocks = [i \in Open(kinds, open) |-> open[i]]
  BY DEF Opened
<1>5. \A i \in Open(kinds, open) : o[i] = open[i]
  BY <1>1, <1>3 DEF Open
<1>6. blocks = [i \in Open(kinds, o) |-> o[i]]
  BY <1>3, <1>4, <1>5
<1>7. n \notin DOMAIN blocks
  BY <1>3, <1>4
<1>8. DOMAIN o \subseteq 1 .. Len(kinds)
  BY <1>1 DEF Opened
<1> QED
  BY <1>2, <1>6, <1>7, <1>8 DEF Opened, o
LEMMA CallCloses ==
  ASSUME NEW kinds, NEW open, NEW blocks, Opened(kinds, open, blocks), NEW n \in DOMAIN open, kinds[n] # "text"
  PROVE  Opened(kinds, Talk!Without(open, n), Talk!Without(blocks, n)) /\ n \in DOMAIN blocks /\ blocks[n] = open[n]
<1> DEFINE o == Talk!Without(open, n)
<1> DEFINE b == Talk!Without(blocks, n)
<1>1. DOMAIN o = DOMAIN open \ {n} /\ \A i \in DOMAIN o : o[i] = open[i]
  BY DEF Talk!Without
<1>2. o = [i \in DOMAIN o |-> o[i]]
  BY DEF Talk!Without
<1> HIDE DEF o
<1>3. Open(kinds, o) = Open(kinds, open) \ {n} /\ n \in Open(kinds, open)
  BY <1>1 DEF Open
<1>4. blocks = [i \in Open(kinds, open) |-> open[i]]
  BY DEF Opened
<1>5. \A i \in Open(kinds, o) : o[i] = open[i]
  BY <1>1 DEF Open
<1>6. DOMAIN blocks = Open(kinds, open) /\ blocks[n] = open[n] /\ \A i \in Open(kinds, open) : blocks[i] = open[i]
  BY <1>3, <1>4
<1>7. b = [i \in Open(kinds, o) |-> o[i]]
  BY <1>3, <1>5, <1>6 DEF Talk!Without
<1>8. DOMAIN o \subseteq 1 .. Len(kinds)
  BY <1>1 DEF Opened
<1> QED
  BY <1>2, <1>3, <1>6, <1>7, <1>8 DEF Opened, o, b

(* A call told to the SDK is one more.                                     *)
LEMMA CallsOneMore ==
  ASSUME NEW out, IsSeq(out), NEW told
  PROVE  CallsOf(Append(out, told)) =
           IF told.type = "tool-call" THEN Append(CallsOf(out), <<told.index, told.args>>) ELSE CallsOf(out)
<1> DEFINE c == Talk!OfType(out, "tool-call")
<1>1. IsSeq(c)
  BY OfTypeIsSeq
<1>2. CASE told.type = "tool-call"
  <2>1. Talk!OfType(Append(out, told), "tool-call") = Append(c, told)
    BY <1>2, OfTypeOneMore
  <2> HIDE DEF c
  <2> DEFINE a == Append(c, told)
  <2> DEFINE f == [i \in DOMAIN c |-> <<c[i].index, c[i].args>>]
  <2> DEFINE g == [i \in DOMAIN a |-> <<a[i].index, a[i].args>>]
  <2> DEFINE x == <<told.index, told.args>>
  <2>2. f = CallsOf(out) /\ g = CallsOf(Append(out, told))
    BY <2>1 DEF CallsOf, c
  <2>3. IsSeq(a) /\ Len(a) = Len(c) + 1 /\ a[Len(c) + 1] = told /\ \A i \in 1 .. Len(c) : a[i] = c[i]
    BY <1>1, AppendIsSeq
  <2>4. Len(c) \in Nat /\ DOMAIN c = 1 .. Len(c) /\ DOMAIN a = 1 .. Len(c) + 1
    BY <1>1, <2>3 DEF IsSeq
  <2>5. Mapped(f, c) /\ Mapped(g, a)
    BY DEF Mapped
  <2>6. \A i \in 1 .. Len(c) : g[i] = f[i]
    BY <2>3, <2>4
  <2>7. g[Len(c) + 1] = x
    BY <2>3, <2>4
  <2> HIDE DEF f, g, x
  <2>8. g = Append(f, g[Len(c) + 1])
    BY <1>1, <2>5, <2>6, EachOneMore
  <2>9. g = Append(f, x)
    BY <2>7, <2>8
  <2> QED
    BY <1>2, <2>2, <2>9 DEF x
<1>3. CASE told.type # "tool-call"
  BY <1>3, OfTypeOneMore DEF CallsOf
<1> QED
  BY <1>2, <1>3

(* What a conversation is once one of its fields is changed.               *)
IsConversation(x, stage, open, kinds, calls, sent, tokens, reason, hurt, sdk, own) ==
  x = Conversation(stage, open, kinds, calls, sent, tokens, reason, hurt, sdk, own)
Conversing(x) ==
  IsConversation(x, x.stage, x.open, x.kinds, x.calls, x.sent, x.tokens, x.reason, x.hurt, x.sdk, x.own)
HasFields(x, stage, open, kinds, calls, sent, tokens, reason, hurt, sdk, own) ==
  /\ Conversing(x)
  /\ x.stage = stage /\ x.open = open /\ x.kinds = kinds /\ x.calls = calls /\ x.sent = sent
  /\ x.tokens = tokens /\ x.reason = reason /\ x.hurt = hurt /\ x.sdk = sdk /\ x.own = own
LEMMA ConversationHas ==
  ASSUME NEW x, NEW stage, NEW open, NEW kinds, NEW calls, NEW sent, NEW tokens, NEW reason, NEW hurt, NEW sdk, NEW own,
         IsConversation(x, stage, open, kinds, calls, sent, tokens, reason, hurt, sdk, own)
  PROVE  HasFields(x, stage, open, kinds, calls, sent, tokens, reason, hurt, sdk, own)
<1>1. /\ x.stage = stage /\ x.open = open /\ x.kinds = kinds /\ x.calls = calls /\ x.sent = sent
      /\ x.tokens = tokens /\ x.reason = reason /\ x.sdk = sdk /\ x.own = own
  BY DEF IsConversation, Conversation
<1>2. x.hurt = hurt
  BY Zenon DEF IsConversation, Conversation
<1> QED
  BY <1>1, <1>2, Zenon DEF Conversing, IsConversation, HasFields
LEMMA ConversationWith ==
  ASSUME NEW x, Conversing(x), NEW v
  PROVE  /\ HasFields([x EXCEPT !.stage = v], v, x.open, x.kinds, x.calls, x.sent, x.tokens, x.reason, x.hurt, x.sdk, x.own)
         /\ HasFields([x EXCEPT !.open = v], x.stage, v, x.kinds, x.calls, x.sent, x.tokens, x.reason, x.hurt, x.sdk, x.own)
         /\ HasFields([x EXCEPT !.kinds = v], x.stage, x.open, v, x.calls, x.sent, x.tokens, x.reason, x.hurt, x.sdk, x.own)
         /\ HasFields([x EXCEPT !.calls = v], x.stage, x.open, x.kinds, v, x.sent, x.tokens, x.reason, x.hurt, x.sdk, x.own)
         /\ HasFields([x EXCEPT !.tokens = v], x.stage, x.open, x.kinds, x.calls, x.sent, v, x.reason, x.hurt, x.sdk, x.own)
         /\ HasFields([x EXCEPT !.reason = v], x.stage, x.open, x.kinds, x.calls, x.sent, x.tokens, v, x.hurt, x.sdk, x.own)
<1>1. IsConversation([x EXCEPT !.stage = v], v, x.open, x.kinds, x.calls, x.sent, x.tokens, x.reason, x.hurt, x.sdk, x.own)
  BY DEF Conversing, IsConversation, Conversation
<1>2. IsConversation([x EXCEPT !.open = v], x.stage, v, x.kinds, x.calls, x.sent, x.tokens, x.reason, x.hurt, x.sdk, x.own)
  BY DEF Conversing, IsConversation, Conversation
<1>3. IsConversation([x EXCEPT !.kinds = v], x.stage, x.open, v, x.calls, x.sent, x.tokens, x.reason, x.hurt, x.sdk, x.own)
  BY DEF Conversing, IsConversation, Conversation
<1>4. IsConversation([x EXCEPT !.calls = v], x.stage, x.open, x.kinds, v, x.sent, x.tokens, x.reason, x.hurt, x.sdk, x.own)
  BY DEF Conversing, IsConversation, Conversation
<1>5. IsConversation([x EXCEPT !.tokens = v], x.stage, x.open, x.kinds, x.calls, x.sent, v, x.reason, x.hurt, x.sdk, x.own)
  BY DEF Conversing, IsConversation, Conversation
<1>6. IsConversation([x EXCEPT !.reason = v], x.stage, x.open, x.kinds, x.calls, x.sent, x.tokens, v, x.hurt, x.sdk, x.own)
  BY DEF Conversing, IsConversation, Conversation
<1> QED
  BY <1>1, <1>2, <1>3, <1>4, <1>5, <1>6, ConversationHas, Zenon

(* A conversation goes on to an event: what was sent before stays.         *)
Moved(x, z) ==
  /\ Conversing(z) /\ z.sent = x.sent /\ z.sdk = x.sdk /\ z.own = x.own /\ z.hurt = x.hurt
  /\ IsSeq(z.kinds) /\ IsSeq(z.calls) /\ z.stage \in Stages
Carries(z, e, u) ==
  /\ ~u.broken /\ u.usage = z.tokens /\ u.finish = Talk!mapGelStopReason(z.reason)
  /\ CallsOf(u.out) = z.calls
  /\ Talk!OfType(u.out, "finish") = IF z.stage = "end" /\ e.type = "message_stop" THEN <<Finished(z)>> ELSE <<>>
  /\ z.stage # "end" => Opened(z.kinds, z.open, u.blocks) /\ e.type # "message_stop"
LEMMA ConversingIs ==
  ASSUME NEW x, RagShape(x)
  PROVE  Conversing(x)
BY DEF RagShape, Conversing, IsConversation, Conversation
LEMMA SentKeeps ==
  ASSUME NEW x, RagInv(x), x.stage # "end", NEW z, Moved(x, z), NEW e, e.type \in EventTypes,
         NEW y \in Talk!Send(z, e),
         ~x.hurt => Carries(z, e, Talk!transform(z.sdk, e))
  PROVE  RagInv(y)
<1>1. RagShape(x) /\ Honest(x) /\ (~x.hurt => Intact(x))
  BY DEF RagInv
<1>2. RagShape(z)
  <2>1. Conversing(z) => z = [stage |-> z.stage, open |-> z.open, kinds |-> z.kinds, calls |-> z.calls, sent |-> z.sent,
          tokens |-> z.tokens, reason |-> z.reason, hurt |-> z.hurt, sdk |-> z.sdk, own |-> z.own]
    BY Zenon DEF Conversing, IsConversation, Conversation
  <2> QED
    BY <1>1, <2>1 DEF Moved, RagShape
<1>3. PICK got : SentAs(z, e, got, y) /\ (got = e \/ (got = Garbled /\ ~z.hurt))
  BY <1>2, SendIs
<1> DEFINE sent == Append(z.sent, e)
<1> DEFINE hurt == z.hurt \/ got # e
<1> DEFINE sdk == Talk!transform(z.sdk, got)
<1> DEFINE own == Talk!extract(z.own, got)
<1>4. IsConversation(y, z.stage, z.open, z.kinds, z.calls, sent, z.tokens, z.reason, hurt, sdk, own)
  BY <1>3, Zenon DEF SentAs, IsConversation, Conversation
<1>5. /\ IsSeq(sent) /\ Len(sent) = Len(z.sent) + 1 /\ sent[Len(z.sent) + 1] = e
      /\ \A i \in 1 .. Len(z.sent) : sent[i] = z.sent[i]
      /\ Len(z.sent) \in Nat
  BY <1>2, AppendIsSeq DEF RagShape, IsSeq
<1>6. got.type \in EventTypes \cup {"garbled"} /\ (got = Garbled => got.type = "garbled") /\ (got = e <=> got.type # "garbled")
  BY <1>3 DEF Garbled, EventTypes
<1>7. Tells(z.sdk, sdk)
  BY <1>2, <1>6, TransformTells DEF RagShape
<1>8. hurt \in BOOLEAN /\ (hurt <=> z.hurt \/ got # e)
  BY <1>2 DEF RagShape
<1>9. z.own = [yielded |-> z.own.yielded, at |-> z.own.at] /\ IsSeq(z.own.yielded)
  BY <1>2 DEF RagShape
<1>10. z.own.at = "reading" /\ got = e =>
         own = [yielded |-> Append(z.own.yielded, e), at |-> IF e.type = "message_stop" THEN "done" ELSE "reading"]
  BY <1>6 DEF Talk!extract
<1>11. z.own.at = "reading" /\ got # e => own = [yielded |-> z.own.yielded, at |-> "failed"]
  BY <1>6, <1>9 DEF Talk!extract
<1>12. z.own.at # "reading" => own = z.own
  BY DEF Talk!extract
<1>13. ~z.hurt => z.own.at = "reading" /\ z.own.yielded = z.sent
  BY <1>1 DEF Moved, Intact
<1>20. z.hurt => z.own.at # "reading" /\ Talk!OfType(z.sdk.out, "error") # <<>> /\ got = e
  BY <1>1, <1>3 DEF Moved, Honest
<1>14. own = [yielded |-> own.yielded, at |-> own.at] /\ IsSeq(own.yielded)
  <2>1. IsSeq(Append(z.own.yielded, e))
    BY <1>9, AppendIsSeq
  <2> HIDE DEF own
  <2>2. CASE z.own.at = "reading" /\ got = e
    <3>1. own = [yielded |-> Append(z.own.yielded, e), at |-> IF e.type = "message_stop" THEN "done" ELSE "reading"]
      BY <1>10, <2>2
    <3> QED
      BY <2>1, <3>1
  <2>3. CASE z.own.at = "reading" /\ got # e
    BY <1>9, <1>11, <2>3
  <2>4. CASE z.own.at # "reading"
    BY <1>9, <1>12, <2>4
  <2> QED
    BY <2>2, <2>3, <2>4
<1> HIDE DEF sent, hurt, sdk, own
<1>21. HasFields(y, z.stage, z.open, z.kinds, z.calls, sent, z.tokens, z.reason, hurt, sdk, own)
  BY <1>4, ConversationHas, Zenon
<1>15. /\ Conversing(y)
       /\ y.stage = z.stage /\ y.open = z.open /\ y.kinds = z.kinds /\ y.calls = z.calls /\ y.sent = sent
       /\ y.tokens = z.tokens /\ y.reason = z.reason /\ y.hurt = hurt /\ y.sdk = sdk /\ y.own = own
  BY <1>21, Zenon DEF HasFields
<1>16. RagShape(y)
  <2>1. y = [stage |-> y.stage, open |-> y.open, kinds |-> y.kinds, calls |-> y.calls, sent |-> y.sent,
          tokens |-> y.tokens, reason |-> y.reason, hurt |-> y.hurt, sdk |-> y.sdk, own |-> y.own]
    BY <1>15, Zenon DEF Conversing, IsConversation, Conversation
  <2>2. StreamShape(y.sdk) /\ y.own = [yielded |-> y.own.yielded, at |-> y.own.at] /\ IsSeq(y.own.yielded)
    BY <1>7, <1>14, <1>15 DEF Tells
  <2>3. IsSeq(y.sent) /\ IsSeq(y.kinds) /\ IsSeq(y.calls)
    BY <1>2, <1>5, <1>15 DEF RagShape
  <2>4. y.hurt \in BOOLEAN
    BY <1>8, <1>15, Zenon
  <2>5. y.stage \in Stages
    BY <1>15 DEF Moved
  <2> QED
    BY <2>1, <2>2, <2>3, <2>4, <2>5 DEF RagShape
<1>17. Honest(y)
  <2>1. y.hurt => Talk!OfType(y.sdk.out, "error") # <<>> /\ y.own.at # "reading"
    <3>1. CASE z.hurt
      <4>1. IsSeq(z.sdk.out)
        BY <1>2 DEF RagShape, StreamShape
      <4>2. Talk!OfType(sdk.out, "error") # <<>>
        BY <1>7, <1>20, <3>1, <4>1, StillTold DEF Tells
      <4> QED
        BY <1>12, <1>15, <1>20, <3>1, <4>2
    <3>2. CASE ~z.hurt /\ got # e
      <4>1. ~z.sdk.broken
        BY <1>1, <3>2 DEF Moved, Intact
      <4>2. got.type = "garbled"
        BY <1>6, <3>2
      <4>3. sdk = Talk!Enqueue(z.sdk, [type |-> "error"])
        BY <4>1, <4>2 DEF sdk, Talk!transform
      <4>4. sdk.out = Append(z.sdk.out, [type |-> "error"])
        BY <1>2, <4>3, EnqueueMakes DEF IsStream, RagShape
      <4>5. Talk!OfType(sdk.out, "error") # <<>>
        BY <1>2, <4>4, StillTold DEF RagShape, StreamShape
      <4> QED
        BY <1>11, <1>13, <1>15, <3>2, <4>5
    <3>3. CASE ~z.hurt /\ got = e
      BY <1>8, <1>15, <3>3
    <3> QED
      BY <3>1, <3>2, <3>3
  <2>2. /\ Len(own.yielded) <= Len(sent)
        /\ \A i \in 1 .. Len(own.yielded) : own.yielded[i] = sent[i]
        /\ own.at = "done" => Len(own.yielded) # 0 /\ own.yielded[Len(own.yielded)].type = "message_stop"
    <3>1. /\ Len(z.own.yielded) <= Len(z.sent)
          /\ \A i \in 1 .. Len(z.own.yielded) : z.own.yielded[i] = z.sent[i]
          /\ z.own.at = "done" => Len(z.own.yielded) # 0 /\ z.own.yielded[Len(z.own.yielded)].type = "message_stop"
      BY <1>1 DEF Moved, Honest
    <3>2. CASE z.hurt
      BY <1>5, <1>9, <1>12, <1>20, <3>1, <3>2 DEF IsSeq
    <3>3. CASE ~z.hurt /\ got # e
      BY <1>5, <1>9, <1>11, <1>13, <3>1, <3>3 DEF IsSeq
    <3>4. CASE ~z.hurt /\ got = e
      <4>1. own.yielded = sent /\ own.at = IF e.type = "message_stop" THEN "done" ELSE "reading"
        BY <1>10, <1>13, <3>4 DEF sent
      <4> QED
        BY <1>5, <4>1
    <3> QED
      BY <3>2, <3>3, <3>4
  <2> QED
    BY <1>15, <2>1, <2>2 DEF Honest
<1>18. ASSUME ~y.hurt PROVE Intact(y)
  <2>1. ~z.hurt /\ got = e
    BY <1>8, <1>15, <1>18
  <2>2. Carries(z, e, sdk)
    BY <2>1 DEF Moved, sdk
  <2>3. own.yielded = sent /\ own.at = IF e.type = "message_stop" THEN "done" ELSE "reading"
    BY <1>10, <1>13, <2>1 DEF sent
  <2>4. Ended(y) <=> z.stage = "end" /\ e.type = "message_stop"
    BY <1>5, <1>15 DEF Ended
  <2>5. Finished(y) = Finished(z)
    BY <1>15 DEF Finished
  <2>6. ~y.sdk.broken /\ y.own.yielded = y.sent /\ y.sdk.usage = y.tokens /\ y.sdk.finish = Talk!mapGelStopReason(y.reason)
    BY <1>15, <2>2, <2>3 DEF Carries
  <2>7. CallsOf(y.sdk.out) = y.calls
    BY <1>15, <2>2 DEF Carries
  <2>8. Talk!OfType(y.sdk.out, "finish") = IF Ended(y) THEN <<Finished(y)>> ELSE <<>>
    BY <1>15, <2>2, <2>4, <2>5 DEF Carries
  <2>9. y.stage # "end" => Opened(y.kinds, y.open, y.sdk.blocks) /\ y.own.at = "reading"
    BY <1>15, <2>2, <2>3 DEF Carries
  <2> QED
    BY <2>6, <2>7, <2>8, <2>9 DEF Intact
<1> QED
  BY <1>16, <1>17, <1>18 DEF RagInv


(* What is known of a conversation that can go on.                         *)
LEMMA GoingOn ==
  ASSUME NEW x, RagInv(x), x.stage # "end"
  PROVE  /\ Conversing(x) /\ StreamShape(x.sdk) /\ IsSeq(x.sdk.out) /\ IsSeq(x.kinds) /\ IsSeq(x.calls)
         /\ ~x.hurt =>
              /\ ~x.sdk.broken /\ x.sdk.usage = x.tokens /\ x.sdk.finish = Talk!mapGelStopReason(x.reason)
              /\ CallsOf(x.sdk.out) = x.calls
              /\ Talk!OfType(x.sdk.out, "finish") = <<>>
              /\ Opened(x.kinds, x.open, x.sdk.blocks)
BY ConversingIs DEF RagInv, RagShape, StreamShape, Intact, Ended

(* Nothing is told, or something that is neither a call nor the end.       *)
LEMMA TellsOther ==
  ASSUME NEW out, IsSeq(out), NEW told, told.type \notin {"tool-call", "finish"}
  PROVE  CallsOf(Append(out, told)) = CallsOf(out) /\ Talk!OfType(Append(out, told), "finish") = Talk!OfType(out, "finish")
BY CallsOneMore, OfTypeOneMore

(* The beginning of a message.                                             *)
LEMMA StartKeeps ==
  ASSUME NEW x, RagInv(x), x.stage = "begin", NEW y \in Talk!Start(x)
  PROVE  RagInv(y)
<1>1. PICK u : y \in Talk!Send([x EXCEPT !.stage = "body", !.tokens = IF u = NoField THEN @ ELSE u], [type |-> "message_start", usage |-> u])
  BY DEF Talk!Start
<1> DEFINE tokens == IF u = NoField THEN x.tokens ELSE u
<1> DEFINE e == [type |-> "message_start", usage |-> u]
<1> DEFINE z == [[x EXCEPT !.stage = "body"] EXCEPT !.tokens = tokens]
<1>2. y \in Talk!Send(z, e)
  <2>1. [x EXCEPT !.stage = "body", !.tokens = IF u = NoField THEN @ ELSE u] = z
    OBVIOUS
  <2> QED
    BY <1>1, <2>1
<1>3. e.type = "message_start" /\ e.usage = u
  OBVIOUS
<1> HIDE DEF e, tokens
<1>4. HasFields(z, "body", x.open, x.kinds, x.calls, x.sent, tokens, x.reason, x.hurt, x.sdk, x.own)
  <2> DEFINE v == [x EXCEPT !.stage = "body"]
  <2>1. HasFields(v, "body", x.open, x.kinds, x.calls, x.sent, x.tokens, x.reason, x.hurt, x.sdk, x.own)
    BY GoingOn, ConversationWith
  <2> HIDE DEF v
  <2>3. Conversing(v)
    BY <2>1, Zenon DEF HasFields
  <2>2. HasFields([v EXCEPT !.tokens = tokens], v.stage, v.open, v.kinds, v.calls, v.sent, tokens, v.reason, v.hurt, v.sdk, v.own)
    BY <2>3, ConversationWith, Zenon
  <2> QED
    BY <2>1, <2>2, Zenon DEF v, HasFields
<1> HIDE DEF z
<1>5. /\ Conversing(z) /\ z.stage = "body" /\ z.open = x.open /\ z.kinds = x.kinds /\ z.calls = x.calls /\ z.sent = x.sent
      /\ z.tokens = tokens /\ z.reason = x.reason /\ z.hurt = x.hurt /\ z.sdk = x.sdk /\ z.own = x.own
  BY <1>4 DEF HasFields
<1>6. Moved(x, z)
  BY <1>5, GoingOn DEF Moved, Stages
<1>7. ASSUME ~x.hurt PROVE Carries(z, e, Talk!transform(x.sdk, e))
  <2> DEFINE w == Talk!transform(x.sdk, e)
  <2> DEFINE told == [type |-> "response-metadata"]
  <2>1. w = Talk!OnMessageStart(x.sdk, e)
    BY <1>3, <1>7, GoingOn DEF Talk!transform
  <2> HIDE DEF w, told
  <2>2. w.blocks = x.sdk.blocks /\ w.usage = (IF u = NoField THEN x.sdk.usage ELSE u) /\ w.finish = x.sdk.finish /\ w.out = Append(x.sdk.out, told) /\ ~w.broken
    <3>1. IsStream(w, x.sdk.blocks, IF u = NoField THEN x.sdk.usage ELSE u, x.sdk.finish, Append(x.sdk.out, told), x.sdk.broken)
      BY <1>3, <2>1, StartMakes, GoingOn DEF told
    <3>2. ~x.sdk.broken
      BY <1>7, GoingOn
    <3> QED
      BY <3>1, <3>2 DEF IsStream
  <2>3. CallsOf(w.out) = x.calls /\ Talk!OfType(w.out, "finish") = <<>>
    BY <1>7, <2>2, TellsOther, GoingOn DEF told
  <2> QED
    BY <1>3, <1>5, <1>7, <2>2, <2>3, GoingOn DEF Carries, tokens, w
<1> QED
  BY <1>2, <1>3, <1>5, <1>6, <1>7, SentKeeps DEF EventTypes

(* A block begins.                                                         *)
LEMMA BeginKeeps ==
  ASSUME NEW x, RagInv(x), x.stage = "body", NEW kind \in {"text", "tool_use"}, NEW args, NEW y \in Talk!Begin(x, kind, args)
  PROVE  RagInv(y)
<1> DEFINE n == Len(x.kinds) + 1
<1> DEFINE kinds == Append(x.kinds, kind)
<1> DEFINE open == Opening(x.open, n, args)
<1> DEFINE e == [type |-> "content_block_start", index |-> n, block |-> kind, args |-> args]
<1> DEFINE z == [[x EXCEPT !.kinds = kinds] EXCEPT !.open = open]
<1>1. y \in Talk!Send([x EXCEPT !.kinds = kinds, !.open = open], e)
  <2>1. [x EXCEPT !.kinds = Append(@, kind), !.open = [i \in DOMAIN @ \cup {n} |-> IF i = n THEN args ELSE @[i]]] =
        [x EXCEPT !.kinds = kinds, !.open = open]
    BY GoingOn DEF Conversing, IsConversation, Conversation, Opening
  <2> QED
    BY <2>1 DEF Talk!Begin
<1>2. e.type = "content_block_start" /\ e.index = n /\ e.block = kind /\ e.args = args
  OBVIOUS
<1>9. IsSeq(kinds)
  BY GoingOn, AppendIsSeq
<1>10. ~x.hurt => IF kind = "text" THEN Opened(kinds, open, x.sdk.blocks)
                  ELSE Opened(kinds, open, Opening(x.sdk.blocks, n, args))
  <2> SUFFICES ASSUME ~x.hurt PROVE IF kind = "text" THEN Opened(kinds, open, x.sdk.blocks)
                  ELSE Opened(kinds, open, Opening(x.sdk.blocks, n, args))
    OBVIOUS
  <2>1. IsSeq(x.kinds) /\ Opened(x.kinds, x.open, x.sdk.blocks) /\ n = Len(x.kinds) + 1
    BY GoingOn
  <2> HIDE DEF n
  <2>2. CASE kind = "text"
    <3>1. Opened(Append(x.kinds, "text"), open, x.sdk.blocks)
      BY <2>1, TextOpens, Zenon
    <3> QED
      BY <2>2, <3>1
  <2>3. CASE kind = "tool_use"
    <3>1. Opened(Append(x.kinds, "tool_use"), open, Opening(x.sdk.blocks, n, args))
      BY <2>1, CallOpens, Zenon
    <3> QED
      BY <2>3, <3>1
  <2> QED
    BY <2>2, <2>3
<1> HIDE DEF e, kinds, open, n
<1>3. y \in Talk!Send(z, e)
  <2>1. [x EXCEPT !.kinds = kinds, !.open = open] = z
    OBVIOUS
  <2> QED
    BY <1>1, <2>1
<1>4. HasFields(z, "body", open, kinds, x.calls, x.sent, x.tokens, x.reason, x.hurt, x.sdk, x.own)
  <2> DEFINE v == [x EXCEPT !.kinds = kinds]
  <2>1. HasFields(v, x.stage, x.open, kinds, x.calls, x.sent, x.tokens, x.reason, x.hurt, x.sdk, x.own)
    BY GoingOn, ConversationWith
  <2> HIDE DEF v
  <2>3. Conversing(v)
    BY <2>1, Zenon DEF HasFields
  <2>2. HasFields([v EXCEPT !.open = open], v.stage, open, v.kinds, v.calls, v.sent, v.tokens, v.reason, v.hurt, v.sdk, v.own)
    BY <2>3, ConversationWith, Zenon
  <2> QED
    BY <2>1, <2>2, Zenon DEF v, HasFields
<1> HIDE DEF z
<1>6. Moved(x, z)
  BY <1>4, <1>9, GoingOn DEF Moved, HasFields, Stages
<1>7. ASSUME ~x.hurt PROVE Carries(z, e, Talk!transform(x.sdk, e))
  <2> DEFINE w == Talk!transform(x.sdk, e)
  <2> DEFINE blocks == Opening(x.sdk.blocks, n, args)
  <2>1. w = IF kind = "text" THEN x.sdk ELSE [x.sdk EXCEPT !.blocks = blocks]
    <3>1. w = Talk!OnBlockStart(x.sdk, e)
      BY <1>2, <1>7, GoingOn DEF Talk!transform
    <3>2. [x.sdk EXCEPT !.blocks = [i \in DOMAIN @ \cup {n} |-> IF i = n THEN args ELSE @[i]]] = [x.sdk EXCEPT !.blocks = blocks]
      BY GoingOn, StreamFields DEF Opening
    <3> HIDE DEF blocks, w
    <3> QED
      BY <1>2, <3>1, <3>2 DEF Talk!OnBlockStart
  <2> HIDE DEF w
  <2>2. w.usage = x.sdk.usage /\ w.finish = x.sdk.finish /\ w.out = x.sdk.out /\ ~w.broken
    <3> HIDE DEF blocks
    <3>1. IsStream([x.sdk EXCEPT !.blocks = blocks], blocks, x.sdk.usage, x.sdk.finish, x.sdk.out, x.sdk.broken)
      BY GoingOn, BeginMakes
    <3>2. ~x.sdk.broken
      BY <1>7, GoingOn
    <3> QED
      BY <2>1, <3>1, <3>2 DEF IsStream
  <2>3. Opened(kinds, open, w.blocks)
    <3>1. kind # "text" => w.blocks = blocks
      <4> HIDE DEF blocks
      <4>1. IsStream([x.sdk EXCEPT !.blocks = blocks], blocks, x.sdk.usage, x.sdk.finish, x.sdk.out, x.sdk.broken)
        BY GoingOn, BeginMakes
      <4> QED
        BY <2>1, <4>1 DEF IsStream
    <3> QED
      BY <1>7, <1>10, <2>1, <3>1
  <2> QED
    BY <1>2, <1>4, <1>7, <2>2, <2>3, GoingOn DEF Carries, w, HasFields
<1> QED
  BY <1>2, <1>3, <1>4, <1>6, <1>7, SentKeeps DEF EventTypes, HasFields

(* A block goes on.                                                        *)
LEMMA DeltaKeeps ==
  ASSUME NEW x, RagInv(x), x.stage = "body", NEW n \in DOMAIN x.open, NEW y \in Talk!Delta(x, n)
  PROVE  RagInv(y)
<1> DEFINE text == x.kinds[n] = "text"
<1> DEFINE piece == IF text THEN "text" ELSE <<n, Len(x.open[n])>>
<1> DEFINE e == [type |-> IF text THEN "text_delta" ELSE "tool_call_delta", index |-> n, piece |-> piece]
<1> DEFINE more == Append(x.open[n], piece)
<1> DEFINE open == [x.open EXCEPT ![n] = more]
<1> DEFINE z == [x EXCEPT !.open = open]
<1>1. y \in Talk!Send(z, e)
  <2>1. [x EXCEPT !.open[n] = Append(@, piece)] = z
    BY GoingOn DEF Conversing, IsConversation, Conversation
  <2>2. y \in Talk!Send([x EXCEPT !.open[n] = Append(@, piece)], e)
    BY DEF Talk!Delta
  <2> HIDE DEF z
  <2> QED
    BY <2>1, <2>2
<1>2. /\ e.type = (IF text THEN "text_delta" ELSE "tool_call_delta")
      /\ e.index = n /\ e.piece = piece
  OBVIOUS
<1> HIDE DEF e, piece, more
<1>3. ASSUME ~x.hurt
      PROVE  IF text THEN Opened(x.kinds, open, x.sdk.blocks)
             ELSE Opened(x.kinds, open, [x.sdk.blocks EXCEPT ![n] = more]) /\ n \in DOMAIN x.sdk.blocks /\ x.sdk.blocks[n] = x.open[n]
  <2>1. Opened(x.kinds, x.open, x.sdk.blocks)
    BY <1>3, GoingOn
  <2>2. CASE text
    BY <2>1, <2>2, TextGoesOn, Zenon
  <2>3. CASE ~text
    <3>0. x.kinds[n] # "text"
      BY <2>3
    <3>1. Opened(x.kinds, [x.open EXCEPT ![n] = more], [x.sdk.blocks EXCEPT ![n] = more]) /\ n \in DOMAIN x.sdk.blocks /\ x.sdk.blocks[n] = x.open[n]
      BY <2>1, <3>0, CallGoesOn
    <3> QED
      BY <2>3, <3>1
  <2> QED
    BY <2>2, <2>3
<1> HIDE DEF open
<1>4. HasFields(z, x.stage, open, x.kinds, x.calls, x.sent, x.tokens, x.reason, x.hurt, x.sdk, x.own)
  BY GoingOn, ConversationWith
<1> HIDE DEF z
<1>6. Moved(x, z)
  BY <1>4, GoingOn DEF Moved, HasFields, Stages
<1>7. ASSUME ~x.hurt PROVE Carries(z, e, Talk!transform(x.sdk, e))
  <2> DEFINE w == Talk!transform(x.sdk, e)
  <2> DEFINE blocks == [x.sdk.blocks EXCEPT ![n] = more]
  <2>1. CASE text
    <3> DEFINE told == [type |-> "text-delta", piece |-> e.piece]
    <3>1. w = Talk!Enqueue(x.sdk, told)
      BY <1>2, <1>7, <2>1, GoingOn DEF Talk!transform, Talk!OnTextDelta
    <3>2. told.type \notin {"tool-call", "finish"}
      OBVIOUS
    <3> HIDE DEF told, w, text
    <3>3. IsStream(w, x.sdk.blocks, x.sdk.usage, x.sdk.finish, Append(x.sdk.out, told), x.sdk.broken)
      BY <3>1, GoingOn, EnqueueMakes
    <3>4. w.usage = x.sdk.usage /\ w.finish = x.sdk.finish /\ w.out = Append(x.sdk.out, told) /\ ~w.broken /\ w.blocks = x.sdk.blocks
      <4>1. ~x.sdk.broken
        BY <1>7, GoingOn
      <4> QED
        BY <3>3, <4>1 DEF IsStream
    <3>5. CallsOf(w.out) = x.calls /\ Talk!OfType(w.out, "finish") = <<>>
      BY <1>7, <3>2, <3>4, TellsOther, GoingOn
    <3>6. Opened(x.kinds, open, w.blocks) /\ e.type # "message_stop"
      BY <1>2, <1>3, <1>7, <2>1, <3>4
    <3> QED
      BY <1>4, <1>7, <3>4, <3>5, <3>6, GoingOn DEF Carries, w, HasFields
  <2>2. CASE ~text
    <3> DEFINE told == [type |-> "tool-call-delta", index |-> e.index, piece |-> e.piece]
    <3>1. w = Talk!Enqueue([x.sdk EXCEPT !.blocks = blocks], told)
      <4>1. w = Talk!OnToolCallDelta(x.sdk, e)
        BY <1>2, <1>7, <2>2, GoingOn DEF Talk!transform
      <4>2. n \in DOMAIN x.sdk.blocks /\ x.sdk.blocks[n] = x.open[n]
        BY <1>3, <1>7, <2>2
      <4>3. [x.sdk EXCEPT !.blocks[n] = Append(@, piece)] = [x.sdk EXCEPT !.blocks = [x.sdk.blocks EXCEPT ![n] = Append(@, piece)]]
        BY GoingOn, StreamFields
      <4>4. [x.sdk.blocks EXCEPT ![n] = Append(@, piece)] = blocks
        BY <4>2 DEF more
      <4> HIDE DEF w, told, blocks
      <4> QED
        BY <1>2, <4>1, <4>2, <4>3, <4>4 DEF Talk!OnToolCallDelta, told
    <3>2. told.type \notin {"tool-call", "finish"}
      OBVIOUS
    <3> HIDE DEF told, w, text, blocks
    <3>3. IsStream(w, blocks, x.sdk.usage, x.sdk.finish, Append(x.sdk.out, told), x.sdk.broken)
      BY <3>1, GoingOn, BeginEnqueueMakes
    <3>4. w.usage = x.sdk.usage /\ w.finish = x.sdk.finish /\ w.out = Append(x.sdk.out, told) /\ ~w.broken /\ w.blocks = blocks
      <4>1. ~x.sdk.broken
        BY <1>7, GoingOn
      <4> QED
        BY <3>3, <4>1 DEF IsStream
    <3>5. CallsOf(w.out) = x.calls /\ Talk!OfType(w.out, "finish") = <<>>
      BY <1>7, <3>2, <3>4, TellsOther, GoingOn
    <3>6. Opened(x.kinds, open, w.blocks) /\ e.type # "message_stop"
      BY <1>2, <1>3, <1>7, <2>2, <3>4 DEF blocks
    <3> QED
      BY <1>4, <1>7, <3>4, <3>5, <3>6, GoingOn DEF Carries, w, HasFields
  <2> QED
    BY <2>1, <2>2
<1> QED
  BY <1>1, <1>2, <1>4, <1>6, <1>7, SentKeeps DEF EventTypes, HasFields

(* A block ends.                                                           *)
LEMMA BlockStopKeeps ==
  ASSUME NEW x, RagInv(x), x.stage = "body", NEW n \in DOMAIN x.open, NEW y \in Talk!BlockStop(x, n)
  PROVE  RagInv(y)
<1> DEFINE text == x.kinds[n] = "text"
<1> DEFINE e == [type |-> "content_block_stop", index |-> n]
<1> DEFINE open == Talk!Without(x.open, n)
<1> DEFINE call == <<n, x.open[n]>>
<1> DEFINE calls == IF text THEN x.calls ELSE Append(x.calls, call)
<1> DEFINE z == [[x EXCEPT !.open = open] EXCEPT !.calls = calls]
<1>2. e.type = "content_block_stop" /\ e.index = n
  OBVIOUS
<1>3. ASSUME ~x.hurt
      PROVE  IF text THEN Opened(x.kinds, open, x.sdk.blocks) /\ n \notin DOMAIN x.sdk.blocks
             ELSE Opened(x.kinds, open, Talk!Without(x.sdk.blocks, n)) /\ n \in DOMAIN x.sdk.blocks /\ x.sdk.blocks[n] = x.open[n]
  <2>1. Opened(x.kinds, x.open, x.sdk.blocks)
    BY <1>3, GoingOn
  <2>2. CASE text
    BY <2>1, <2>2, TextCloses, Zenon
  <2>3. CASE ~text
    <3>0. x.kinds[n] # "text"
      BY <2>3
    <3>1. Opened(x.kinds, open, Talk!Without(x.sdk.blocks, n)) /\ n \in DOMAIN x.sdk.blocks /\ x.sdk.blocks[n] = x.open[n]
      BY <2>1, <3>0, CallCloses
    <3> QED
      BY <2>3, <3>1
  <2> QED
    BY <2>2, <2>3
<1>8. IsSeq(calls)
  BY GoingOn, AppendIsSeq
<1>9. y \in Talk!Send([x EXCEPT !.open = open, !.calls = calls], e)
  <2>1. [x EXCEPT !.open = Talk!Without(@, n), !.calls = IF x.kinds[n] = "text" THEN @ ELSE Append(@, <<n, x.open[n]>>)] =
        [x EXCEPT !.open = open, !.calls = calls]
    BY GoingOn DEF Conversing, IsConversation, Conversation
  <2> QED
    BY <2>1 DEF Talk!BlockStop
<1> HIDE DEF e, open, calls
<1>1. y \in Talk!Send(z, e)
  <2>1. [x EXCEPT !.open = open, !.calls = calls] = z
    OBVIOUS
  <2> QED
    BY <1>9, <2>1
<1>4. HasFields(z, "body", open, x.kinds, calls, x.sent, x.tokens, x.reason, x.hurt, x.sdk, x.own)
  <2> DEFINE v == [x EXCEPT !.open = open]
  <2>1. HasFields(v, x.stage, open, x.kinds, x.calls, x.sent, x.tokens, x.reason, x.hurt, x.sdk, x.own)
    BY GoingOn, ConversationWith
  <2> HIDE DEF v
  <2>3. Conversing(v)
    BY <2>1, Zenon DEF HasFields
  <2>2. HasFields([v EXCEPT !.calls = calls], v.stage, v.open, v.kinds, calls, v.sent, v.tokens, v.reason, v.hurt, v.sdk, v.own)
    BY <2>3, ConversationWith, Zenon
  <2> QED
    BY <2>1, <2>2, Zenon DEF v, HasFields
<1> HIDE DEF z
<1>6. Moved(x, z)
  BY <1>4, <1>8, GoingOn DEF Moved, HasFields, Stages
<1>7. ASSUME ~x.hurt PROVE Carries(z, e, Talk!transform(x.sdk, e))
  <2> DEFINE w == Talk!transform(x.sdk, e)
  <2> DEFINE blocks == Talk!Without(x.sdk.blocks, n)
  <2>0. w = Talk!OnBlockStop(x.sdk, e)
    BY <1>2, <1>7, GoingOn DEF Talk!transform
  <2>1. CASE text
    <3>1. w = x.sdk
      BY <1>2, <1>3, <1>7, <2>0, <2>1 DEF Talk!OnBlockStop
    <3> HIDE DEF w
    <3>2. Opened(x.kinds, open, w.blocks) /\ calls = x.calls
      BY <1>3, <1>7, <2>1, <3>1 DEF calls
    <3> QED
      BY <1>2, <1>4, <1>7, <3>1, <3>2, GoingOn DEF Carries, w, HasFields
  <2>2. CASE ~text
    <3> DEFINE told == [type |-> "tool-call", index |-> n, args |-> x.open[n]]
    <3>1. w = Talk!Enqueue([x.sdk EXCEPT !.blocks = blocks], told)
      <4>2. n \in DOMAIN x.sdk.blocks /\ x.sdk.blocks[n] = x.open[n]
        BY <1>3, <1>7, <2>2
      <4>3. [x.sdk EXCEPT !.blocks = Talk!Without(@, n)] = [x.sdk EXCEPT !.blocks = blocks]
        BY GoingOn, StreamFields
      <4> HIDE DEF w, blocks
      <4> QED
        BY <1>2, <2>0, <4>2, <4>3 DEF Talk!OnBlockStop
    <3>2. told.type = "tool-call" /\ told.index = n /\ told.args = x.open[n]
      OBVIOUS
    <3> HIDE DEF told, w, text, blocks
    <3>3. IsStream(w, blocks, x.sdk.usage, x.sdk.finish, Append(x.sdk.out, told), x.sdk.broken)
      BY <3>1, GoingOn, BeginEnqueueMakes
    <3>4. w.usage = x.sdk.usage /\ w.finish = x.sdk.finish /\ w.out = Append(x.sdk.out, told) /\ ~w.broken /\ w.blocks = blocks
      <4>1. ~x.sdk.broken
        BY <1>7, GoingOn
      <4> QED
        BY <3>3, <4>1 DEF IsStream
    <3>5. CallsOf(w.out) = calls
      <4>1. IsSeq(x.sdk.out) /\ CallsOf(x.sdk.out) = x.calls
        BY <1>7, GoingOn
      <4>2. CallsOf(Append(x.sdk.out, told)) = Append(x.calls, <<told.index, told.args>>)
        BY <3>2, <4>1, CallsOneMore
      <4> QED
        BY <2>2, <3>2, <3>4, <4>2 DEF calls
    <3>7. Talk!OfType(w.out, "finish") = <<>>
      <4>1. IsSeq(x.sdk.out) /\ Talk!OfType(x.sdk.out, "finish") = <<>>
        BY <1>7, GoingOn
      <4> QED
        BY <3>2, <3>4, <4>1, OfTypeOneMore
    <3>6. Opened(x.kinds, open, w.blocks)
      BY <1>3, <1>7, <2>2, <3>4 DEF blocks
    <3> QED
      BY <1>2, <1>4, <1>7, <3>4, <3>5, <3>6, <3>7, GoingOn DEF Carries, w, HasFields
  <2> QED
    BY <2>1, <2>2
<1> QED
  BY <1>1, <1>2, <1>4, <1>6, <1>7, SentKeeps DEF EventTypes, HasFields

(* The message comes to its end.                                           *)
LEMMA FinishKeeps ==
  ASSUME NEW x, RagInv(x), x.stage = "body", NEW r, NEW u, NEW y \in Talk!Finish(x, r, u)
  PROVE  RagInv(y)
<1> DEFINE e == [type |-> "message_delta", reason |-> r, usage |-> u]
<1> DEFINE tokens == [x.tokens EXCEPT ![2] = IF u = NoField THEN @ ELSE u]
<1> DEFINE z == [[[x EXCEPT !.stage = "finishing"] EXCEPT !.reason = r] EXCEPT !.tokens = tokens]
<1>9. y \in Talk!Send([x EXCEPT !.stage = "finishing", !.reason = r, !.tokens = tokens], e)
  <2>1. [x EXCEPT !.stage = "finishing", !.reason = r, !.tokens[2] = IF u = NoField THEN @ ELSE u] =
        [x EXCEPT !.stage = "finishing", !.reason = r, !.tokens = tokens]
    BY GoingOn DEF Conversing, IsConversation, Conversation
  <2> QED
    BY <2>1 DEF Talk!Finish
<1>2. e.type = "message_delta" /\ e.usage = u /\ e.reason = r
  OBVIOUS
<1> HIDE DEF e, tokens
<1>1. y \in Talk!Send(z, e)
  <2>1. [x EXCEPT !.stage = "finishing", !.reason = r, !.tokens = tokens] = z
    OBVIOUS
  <2> QED
    BY <1>9, <2>1
<1>4. HasFields(z, "finishing", x.open, x.kinds, x.calls, x.sent, tokens, r, x.hurt, x.sdk, x.own)
  <2> DEFINE v == [x EXCEPT !.stage = "finishing"]
  <2> DEFINE q == [v EXCEPT !.reason = r]
  <2>1. HasFields(v, "finishing", x.open, x.kinds, x.calls, x.sent, x.tokens, x.reason, x.hurt, x.sdk, x.own)
    BY GoingOn, ConversationWith
  <2> HIDE DEF v
  <2>3. Conversing(v)
    BY <2>1, Zenon DEF HasFields
  <2>2. HasFields(q, v.stage, v.open, v.kinds, v.calls, v.sent, v.tokens, r, v.hurt, v.sdk, v.own)
    BY <2>3, ConversationWith, Zenon
  <2> HIDE DEF q
  <2>4. HasFields(q, "finishing", x.open, x.kinds, x.calls, x.sent, x.tokens, r, x.hurt, x.sdk, x.own)
    BY <2>1, <2>2, Zenon DEF HasFields
  <2>5. Conversing(q)
    BY <2>4, Zenon DEF HasFields
  <2>6. HasFields([q EXCEPT !.tokens = tokens], q.stage, q.open, q.kinds, q.calls, q.sent, tokens, q.reason, q.hurt, q.sdk, q.own)
    BY <2>5, ConversationWith, Zenon
  <2> QED
    BY <2>4, <2>6, Zenon DEF v, q, HasFields
<1> HIDE DEF z
<1>6. Moved(x, z)
  BY <1>4, GoingOn DEF Moved, HasFields, Stages
<1>7. ASSUME ~x.hurt PROVE Carries(z, e, Talk!transform(x.sdk, e))
  <2> DEFINE w == Talk!transform(x.sdk, e)
  <2>1. w = Talk!OnMessageDelta(x.sdk, e)
    BY <1>2, <1>7, GoingOn DEF Talk!transform
  <2> HIDE DEF w
  <2> DEFINE usage == [x.sdk.usage EXCEPT ![2] = IF e.usage = NoField THEN @ ELSE e.usage]
  <2>2. usage = tokens
    BY <1>2, <1>7, GoingOn DEF tokens
  <2>3. IsStream(w, x.sdk.blocks, usage, Talk!mapGelStopReason(e.reason), x.sdk.out, x.sdk.broken)
    BY <2>1, GoingOn, FinishingMakes
  <2> HIDE DEF usage
  <2>4. /\ w.usage = tokens /\ w.finish = Talk!mapGelStopReason(r) /\ w.out = x.sdk.out /\ ~w.broken /\ w.blocks = x.sdk.blocks
    <3>1. ~x.sdk.broken
      BY <1>7, GoingOn
    <3> QED
      BY <1>2, <2>2, <2>3, <3>1 DEF IsStream
  <2> QED
    BY <1>2, <1>4, <1>7, <2>4, GoingOn DEF Carries, w, HasFields
<1> QED
  BY <1>1, <1>2, <1>4, <1>6, <1>7, SentKeeps DEF EventTypes, HasFields

(* It ends.                                                                *)
LEMMA StopKeeps ==
  ASSUME NEW x, RagInv(x), x.stage = "finishing", NEW y \in Talk!Stop(x)
  PROVE  RagInv(y)
<1> DEFINE e == [type |-> "message_stop"]
<1> DEFINE z == [x EXCEPT !.stage = "end"]
<1>1. y \in Talk!Send(z, e) /\ e.type = "message_stop"
  BY DEF Talk!Stop
<1> HIDE DEF e
<1>4. HasFields(z, "end", x.open, x.kinds, x.calls, x.sent, x.tokens, x.reason, x.hurt, x.sdk, x.own)
  BY GoingOn, ConversationWith
<1> HIDE DEF z
<1>6. Moved(x, z)
  BY <1>4, GoingOn DEF Moved, HasFields, Stages
<1>7. ASSUME ~x.hurt PROVE Carries(z, e, Talk!transform(x.sdk, e))
  <2> DEFINE w == Talk!transform(x.sdk, e)
  <2> DEFINE told == [type |-> "finish", reason |-> x.sdk.finish, usage |-> x.sdk.usage]
  <2>1. w = Talk!Enqueue(x.sdk, told)
    BY <1>1, <1>7, GoingOn DEF Talk!transform, Talk!OnMessageStop
  <2>2. told.type = "finish"
    OBVIOUS
  <2>3. told = Finished(z)
    BY <1>4, <1>7, GoingOn DEF Finished, HasFields
  <2> HIDE DEF told, w
  <2>4. IsStream(w, x.sdk.blocks, x.sdk.usage, x.sdk.finish, Append(x.sdk.out, told), x.sdk.broken)
    BY <2>1, GoingOn, EnqueueMakes
  <2>5. w.usage = x.sdk.usage /\ w.finish = x.sdk.finish /\ w.out = Append(x.sdk.out, told) /\ ~w.broken
    <3>1. ~x.sdk.broken
      BY <1>7, GoingOn
    <3> QED
      BY <2>4, <3>1 DEF IsStream
  <2>6. CallsOf(w.out) = x.calls
    <3>1. IsSeq(x.sdk.out) /\ CallsOf(x.sdk.out) = x.calls
      BY <1>7, GoingOn
    <3> QED
      BY <2>2, <2>5, <3>1, CallsOneMore
  <2>7. Talk!OfType(w.out, "finish") = <<Finished(z)>>
    <3>1. IsSeq(x.sdk.out) /\ Talk!OfType(x.sdk.out, "finish") = <<>>
      BY <1>7, GoingOn
    <3>4. Talk!OfType(Append(x.sdk.out, told), "finish") = Append(Talk!OfType(x.sdk.out, "finish"), told)
      BY <2>2, <3>1, OfTypeOneMore
    <3>2. Talk!OfType(w.out, "finish") = Append(<<>>, told)
      BY <2>5, <3>1, <3>4
    <3>3. Append(<<>>, told) = <<told>>
      OBVIOUS
    <3> QED
      BY <2>3, <3>2, <3>3
  <2> QED
    BY <1>1, <1>4, <1>7, <2>5, <2>6, <2>7, GoingOn DEF Carries, w, HasFields
<1> QED
  BY <1>1, <1>4, <1>6, <1>7, SentKeeps DEF EventTypes, HasFields

(* It ends in an error.                                                    *)
LEMMA FaultKeeps ==
  ASSUME NEW x, RagInv(x), x.stage = "body", NEW y \in Talk!Fault(x)
  PROVE  RagInv(y)
<1> DEFINE e == [type |-> "error"]
<1> DEFINE z == [x EXCEPT !.stage = "end"]
<1>1. y \in Talk!Send(z, e) /\ e.type = "error"
  BY DEF Talk!Fault
<1> HIDE DEF e
<1>4. HasFields(z, "end", x.open, x.kinds, x.calls, x.sent, x.tokens, x.reason, x.hurt, x.sdk, x.own)
  BY GoingOn, ConversationWith
<1> HIDE DEF z
<1>6. Moved(x, z)
  BY <1>4, GoingOn DEF Moved, HasFields, Stages
<1>7. ASSUME ~x.hurt PROVE Carries(z, e, Talk!transform(x.sdk, e))
  <2> DEFINE w == Talk!transform(x.sdk, e)
  <2> DEFINE told == [type |-> "error"]
  <2>1. w = Talk!Enqueue(x.sdk, told)
    BY <1>1, <1>7, GoingOn DEF Talk!transform
  <2>2. told.type = "error"
    OBVIOUS
  <2> HIDE DEF told, w
  <2>4. IsStream(w, x.sdk.blocks, x.sdk.usage, x.sdk.finish, Append(x.sdk.out, told), x.sdk.broken)
    BY <2>1, GoingOn, EnqueueMakes
  <2>5. w.usage = x.sdk.usage /\ w.finish = x.sdk.finish /\ w.out = Append(x.sdk.out, told) /\ ~w.broken
    <3>1. ~x.sdk.broken
      BY <1>7, GoingOn
    <3> QED
      BY <2>4, <3>1 DEF IsStream
  <2>6. CallsOf(w.out) = x.calls /\ Talk!OfType(w.out, "finish") = <<>>
    BY <1>7, <2>2, <2>5, TellsOther, GoingOn
  <2> QED
    BY <1>1, <1>4, <1>7, <2>5, <2>6, GoingOn DEF Carries, w, HasFields
<1> QED
  BY <1>1, <1>4, <1>6, <1>7, SentKeeps DEF EventTypes, HasFields

LEMMA RagStepKeeps ==
  ASSUME NEW x, RagInv(x), NEW y \in Talk!RagStep(x)
  PROVE  RagInv(y)
<1>1. CASE x.stage = "begin"
  BY <1>1, StartKeeps DEF Talk!RagStep
<1>2. CASE x.stage = "body"
  <2>1. \/ y \in Talk!BlockStart(x) \/ y \in Talk!Finishing(x) \/ y \in Talk!Fault(x)
        \/ \E n \in DOMAIN x.open : y \in Talk!BlockStop(x, n) \/ y \in Talk!Delta(x, n)
    <3> DEFINE A == IF Len(x.kinds) < MaxBlocks THEN Talk!BlockStart(x) ELSE {}
    <3> DEFINE B(n) == Talk!BlockStop(x, n) \cup (IF Len(x.open[n]) < MaxPieces[x.kinds[n]] THEN Talk!Delta(x, n) ELSE {})
    <3> DEFINE C == IF DOMAIN x.open = {} THEN Talk!Finishing(x) ELSE {}
    <3>1. Talk!RagStep(x) = A \cup (UNION {B(n) : n \in DOMAIN x.open}) \cup C \cup Talk!Fault(x)
      BY <1>2 DEF Talk!RagStep
    <3>7. y \in A \/ y \in UNION {B(n) : n \in DOMAIN x.open} \/ y \in C \/ y \in Talk!Fault(x)
      <4> HIDE DEF A, B, C
      <4> QED
        BY <3>1, Zenon
    <3>2. y \in A => y \in Talk!BlockStart(x)
      OBVIOUS
    <3>3. y \in C => y \in Talk!Finishing(x)
      OBVIOUS
    <3>4. \A n \in DOMAIN x.open : y \in B(n) => y \in Talk!BlockStop(x, n) \/ y \in Talk!Delta(x, n)
      OBVIOUS
    <3>6. y \in UNION {B(n) : n \in DOMAIN x.open} => \E n \in DOMAIN x.open : y \in B(n)
      <4> HIDE DEF B
      <4> QED
        OBVIOUS
    <3> HIDE DEF A, B, C
    <3>5. y \in A \/ y \in C \/ y \in Talk!Fault(x) \/ \E n \in DOMAIN x.open : y \in B(n)
      BY <3>6, <3>7
    <3> QED
      BY <3>2, <3>3, <3>4, <3>5
  <2>2. y \in Talk!BlockStart(x) => RagInv(y)
    BY <1>2, BeginKeeps DEF Talk!BlockStart
  <2>3. y \in Talk!Finishing(x) => RagInv(y)
    BY <1>2, FinishKeeps DEF Talk!Finishing
  <2>4. y \in Talk!Fault(x) => RagInv(y)
    BY <1>2, FaultKeeps
  <2>5. \A n \in DOMAIN x.open : y \in Talk!BlockStop(x, n) => RagInv(y)
    BY <1>2, BlockStopKeeps
  <2>6. \A n \in DOMAIN x.open : y \in Talk!Delta(x, n) => RagInv(y)
    BY <1>2, DeltaKeeps
  <2> QED
    BY <2>1, <2>2, <2>3, <2>4, <2>5, <2>6
<1>3. CASE x.stage = "finishing"
  BY <1>3, StopKeeps DEF Talk!RagStep
<1>4. CASE x.stage = "end"
  BY <1>4 DEF Talk!RagStep
<1>5. x.stage \in Stages
  BY DEF RagInv, RagShape
<1> QED
  BY <1>1, <1>2, <1>3, <1>4, <1>5 DEF Stages

LEMMA RagBegins == RagInv(Talk!InitRag)
<1> DEFINE x == Talk!InitRag
<1>1. RagShape(x)
  <2>1. StreamShape(Talk!NoStream)
    BY EmptyIsSeq DEF StreamShape, Talk!NoStream
  <2>2. x.sdk = Talk!NoStream /\ x.own = Talk!NoIteration /\ x.sent = <<>> /\ x.kinds = <<>> /\ x.calls = <<>> /\ x.hurt = FALSE
    BY DEF Talk!InitRag
  <2>3. x.own = [yielded |-> x.own.yielded, at |-> x.own.at] /\ x.own.yielded = <<>>
    BY DEF Talk!InitRag, Talk!NoIteration
  <2>4. x = [stage |-> x.stage, open |-> x.open, kinds |-> x.kinds, calls |-> x.calls, sent |-> x.sent,
          tokens |-> x.tokens, reason |-> x.reason, hurt |-> x.hurt, sdk |-> x.sdk, own |-> x.own]
    BY DEF Talk!InitRag
  <2>5. x.stage \in Stages
    BY DEF Talk!InitRag, Stages
  <2> HIDE DEF x
  <2> QED
    BY <2>1, <2>2, <2>3, <2>4, <2>5, EmptyIsSeq DEF RagShape
<1>2. Honest(x)
  BY EmptyIsSeq DEF Honest, Talk!InitRag, Talk!NoIteration
<1>3. Intact(x)
  <2>1. CallsOf(<<>>) = <<>>
    <3>1. Talk!OfType(<<>>, "tool-call") = <<>>
      BY NoneOfType
    <3>2. [i \in DOMAIN <<>> |-> <<<<>>[i].index, <<>>[i].args>>] = <<>>
      OBVIOUS
    <3> QED
      BY <3>1, <3>2 DEF CallsOf
  <2>2. Opened(<<>>, <<>>, <<>>)
    BY DEF Opened, Open
  <2>3. /\ x.sdk.out = <<>> /\ x.sdk.broken = FALSE /\ x.own.yielded = x.sent /\ x.sdk.usage = x.tokens
        /\ x.calls = <<>> /\ x.stage = "begin" /\ x.kinds = <<>> /\ x.open = <<>> /\ x.sdk.blocks = <<>>
        /\ x.own.at = "reading" /\ x.reason = "unknown" /\ x.sdk.finish = "unknown"
    BY DEF Talk!InitRag, Talk!NoStream, Talk!NoIteration
  <2>4. Talk!mapGelStopReason("unknown") = "unknown"
    BY DEF Talk!mapGelStopReason
  <2>5. Talk!OfType(<<>>, "finish") = <<>>
    BY NoneOfType
  <2> HIDE DEF x
  <2> QED
    BY <2>1, <2>2, <2>3, <2>4, <2>5 DEF Intact, Ended
<1> QED
  BY <1>1, <1>2, <1>3 DEF RagInv

(* What is told of an answer is right.                                     *)
LEMMA AnswerFits ==
  ASSUME NEW x, RagInv(x)
  PROVE  Talk!StreamFits(x)
<1>1. RagShape(x) /\ Honest(x) /\ (~x.hurt => Intact(x))
  BY DEF RagInv
<1>2. x.own.yielded = SubSeq(x.sent, 1, Len(x.own.yielded))
  <2> DEFINE n == Len(x.own.yielded)
  <2> DEFINE q == SubSeq(x.sent, 1, n)
  <2>1. n \in Nat /\ n <= Len(x.sent) /\ Len(x.sent) \in Nat /\ IsSeq(x.sent) /\ IsSeq(x.own.yielded)
    BY <1>1 DEF RagShape, Honest, IsSeq
  <2>2. IsSeq(q) /\ Len(q) = n /\ \A i \in 1 .. n : q[i] = x.sent[i]
    <3>1. q = [i \in 1 .. n |-> x.sent[i]]
      BY <2>1 DEF IsSeq
    <3> HIDE DEF n
    <3> QED
      BY <2>1, <3>1 DEF IsSeq
  <2> HIDE DEF q
  <2>3. \A i \in 1 .. n : x.own.yielded[i] = x.sent[i]
    BY <1>1 DEF Honest
  <2>4. x.own.yielded = q
    BY <2>1, <2>2, <2>3, SameSeq
  <2> QED
    BY <2>4 DEF q
<1>3. x.own.at = "done" => Talk!Last(x.own.yielded).type = "message_stop"
  BY <1>1 DEF Honest, Talk!Last
<1>4. ~x.hurt => CallsOf(x.sdk.out) = x.calls /\ ~x.sdk.broken /\ x.own.yielded = x.sent
  BY <1>1 DEF Intact
<1>5. ~x.hurt => Talk!OfType(x.sdk.out, "finish") =
                   IF x.stage = "end" /\ Talk!Last(x.sent).type = "message_stop"
                   THEN <<[type |-> "finish", reason |-> Talk!mapGelStopReason(x.reason), usage |-> x.tokens]>> ELSE <<>>
  BY <1>1 DEF Intact, Ended, Finished, Talk!Last
<1>6. x.hurt => Talk!OfType(x.sdk.out, "error") # <<>> /\ x.own.at # "reading"
  BY <1>1 DEF Honest
<1> QED
  BY <1>2, <1>3, <1>4, <1>5, <1>6 DEF Talk!StreamFits, CallsOf


(* A row of one, and a row of ones.                                        *)
LEMMA RowOfOne ==
  ASSUME NEW x, IsSeq(x)
  PROVE  Row(<<x>>) = x
<1>1. IsSeq(<<>>) /\ Row(<<>>) = <<>>
  BY EmptyIsSeq, RowIs
<1>2. Row(Append(<<>>, x)) = Row(<<>>) \o x
  BY <1>1, RowOneMore
<1>3. Append(<<>>, x) = <<x>>
  OBVIOUS
<1>4. <<>> \o x = x
  BY CatNothing
<1> QED
  BY <1>1, <1>2, <1>3, <1>4

Ones(q) == [i \in DOMAIN q |-> <<q[i]>>]
RowIsSeq(q) == Row(Ones(q)) = q
LEMMA RowOfOnes ==
  ASSUME NEW q, IsSeq(q)
  PROVE  RowIsSeq(q)
<1> DEFINE S == {n \in Nat : \A p : IsSeq(p) /\ Len(p) = n => RowIsSeq(p)}
<1>1. 0 \in S
  <2> SUFFICES ASSUME NEW p, IsSeq(p), Len(p) = 0 PROVE RowIsSeq(p)
    OBVIOUS
  <2>1. p = <<>>
    BY EmptyIsSeq, SameSeq
  <2>2. Ones(<<>>) = <<>>
    BY DEF Ones
  <2>3. Row(<<>>) = <<>>
    BY RowIs, EmptyIsSeq
  <2> QED
    BY <2>1, <2>2, <2>3 DEF RowIsSeq
<1>2. ASSUME NEW n \in Nat, n \in S PROVE n + 1 \in S
  <2> SUFFICES ASSUME NEW p, IsSeq(p), Len(p) = n + 1 PROVE RowIsSeq(p)
    OBVIOUS
  <2> DEFINE y == p[n + 1]
  <2>1. PICK f : IsSeq(f) /\ Len(f) = n /\ p = Append(f, y) /\ \A i \in 1 .. n : f[i] = p[i]
    BY LastApart
  <2>2. RowIsSeq(f)
    BY <1>2, <2>1
  <2>3. Mapped(Ones(f), f) /\ Mapped(Ones(p), p)
    BY DEF Mapped, Ones
  <2>4. DOMAIN f = 1 .. n /\ DOMAIN p = 1 .. n + 1
    BY <2>1 DEF IsSeq
  <2>5. \A i \in 1 .. n : Ones(p)[i] = Ones(f)[i]
    BY <2>1, <2>4 DEF Ones
  <2>6. Ones(p)[n + 1] = <<y>>
    BY <2>4 DEF Ones
  <2> HIDE DEF y
  <2>7. IsSeq(Ones(f)) /\ Ones(p) = Append(Ones(f), <<y>>)
    <3> DEFINE g == Ones(p)
    <3> DEFINE h == Ones(f)
    <3>1. Mapped(h, f) /\ Mapped(g, Append(f, y))
      BY <2>1, <2>3
    <3>4. \A i \in 1 .. Len(f) : g[i] = h[i]
      BY <2>1, <2>5
    <3>5. IsSeq(f)
      BY <2>1
    <3>2. g[Len(f) + 1] = <<y>>
      BY <2>1, <2>6
    <3> HIDE DEF g, h
    <3>3. IsSeq(h) /\ Len(h) = Len(f) /\ g = Append(h, g[Len(f) + 1])
      BY <3>1, <3>4, <3>5, EachOneMore
    <3> QED
      BY <3>2, <3>3 DEF g, h
  <2>8. Row(Ones(p)) = Row(Ones(f)) \o <<y>>
    BY <2>7, OneIsSeq, RowOneMore
  <2> QED
    BY <2>1, <2>2, <2>8, AppendIsCat DEF RowIsSeq
<1>3. Nat \subseteq S
  <2> HIDE DEF S
  <2> QED
    BY <1>1, <1>2, Induction
<1>4. Len(q) \in Nat /\ Len(q) \in S
  BY <1>3 DEF IsSeq
<1> QED
  BY <1>4

(* A sequence that has nothing is empty.                                   *)
LEMMA HasNothing ==
  ASSUME NEW q, IsSeq(q), \A x : ~Has(q, x)
  PROVE  q = <<>>
<1>1. Len(q) = 0
  <2>1. Len(q) \in Nat
    BY DEF IsSeq
  <2>2. ~(1 \in 1 .. Len(q))
    BY DEF Has
  <2> QED
    BY <2>1, <2>2
<1> QED
  BY <1>1, EmptyIsSeq, SameSeq

(* What is made of each element is a sequence; if it is empty of each, so  *)
(* is the row.                                                             *)
LEMMA EachIsSeq ==
  ASSUME NEW q, IsSeq(q), NEW f, Mapped(f, q)
  PROVE  IsSeq(f) /\ Len(f) = Len(q) /\ DOMAIN f = 1 .. Len(q)
<1>1. Len(q) \in Nat /\ DOMAIN q = 1 .. Len(q)
  BY DEF IsSeq
<1>2. f = [i \in 1 .. Len(q) |-> f[i]]
  BY <1>1 DEF Mapped
<1> QED
  BY <1>1, <1>2 DEF IsSeq
LEMMA RowOfNothing ==
  ASSUME NEW f, IsSeq(f), \A i \in 1 .. Len(f) : f[i] = <<>>
  PROVE  Row(f) = <<>>
<1>1. Seqs(f)
  BY EmptyIsSeq DEF Seqs
<1>2. RowHas(f)
  BY <1>1, RowOfSeqs
<1>3. \A x : ~Has(<<>>, x)
  BY EmptyIsSeq DEF Has
<1>4. IsSeq(Row(f)) /\ \A x : ~Has(Row(f), x)
  BY <1>2, <1>3 DEF RowHas
<1> QED
  BY <1>4, HasNothing

(* None or all of a type.                                                  *)
LEMMA NoneIsOfType ==
  ASSUME NEW q, IsSeq(q), NEW type, \A i \in 1 .. Len(q) : q[i].type # type
  PROVE  Talk!OfType(q, type) = <<>>
<1> DEFINE f == [i \in DOMAIN q |-> IF q[i].type = type THEN <<q[i]>> ELSE <<>>]
<1>1. Talk!OfType(q, type) = Row(f) /\ Mapped(f, q)
  BY DEF Talk!OfType, Row, Mapped
<1>2. DOMAIN q = 1 .. Len(q)
  BY DEF IsSeq
<1>3. \A i \in 1 .. Len(q) : f[i] = <<>>
  BY <1>2
<1> HIDE DEF f
<1>4. IsSeq(f) /\ Len(f) = Len(q)
  BY <1>1, EachIsSeq
<1> QED
  BY <1>1, <1>3, <1>4, RowOfNothing
LEMMA AllAreOfType ==
  ASSUME NEW q, IsSeq(q), NEW type, \A i \in 1 .. Len(q) : q[i].type = type
  PROVE  Talk!OfType(q, type) = q
<1> DEFINE f == [i \in DOMAIN q |-> IF q[i].type = type THEN <<q[i]>> ELSE <<>>]
<1>1. Talk!OfType(q, type) = Row(f)
  BY DEF Talk!OfType, Row
<1>2. DOMAIN q = 1 .. Len(q)
  BY DEF IsSeq
<1>3. f = Ones(q)
  BY <1>2 DEF Ones
<1> QED
  BY <1>1, <1>3, RowOfOnes DEF RowIsSeq

(* What is made of each element of two in a row.                           *)
LEMMA CatMapped ==
  ASSUME NEW a, IsSeq(a), NEW b, IsSeq(b), NEW f, Mapped(f, a), NEW g, Mapped(g, b), NEW h, Mapped(h, a \o b),
         \A i \in 1 .. Len(a) : h[i] = f[i],
         \A i \in 1 .. Len(b) : h[Len(a) + i] = g[i]
  PROVE  h = f \o g
<1>1. IsSeq(a \o b) /\ Len(a \o b) = Len(a) + Len(b)
  BY CatIs
<1>2. IsSeq(f) /\ Len(f) = Len(a) /\ IsSeq(g) /\ Len(g) = Len(b)
  BY EachIsSeq
<1>3. IsSeq(h) /\ Len(h) = Len(a) + Len(b)
  BY <1>1, EachIsSeq
<1> DEFINE c == f \o g
<1>4. /\ IsSeq(c) /\ Len(c) = Len(f) + Len(g)
      /\ \A i \in 1 .. Len(f) : c[i] = f[i]
      /\ \A i \in 1 .. Len(g) : c[Len(f) + i] = g[i]
  <2>1. IsSeq(f) /\ IsSeq(g)
    BY <1>2
  <2> QED
    BY <2>1, CatIs
<1>5. Len(a) \in Nat /\ Len(b) \in Nat
  BY DEF IsSeq
<1> HIDE DEF c
<1>6. ASSUME NEW i \in 1 .. Len(h) PROVE h[i] = c[i]
  <2>1. CASE i \in 1 .. Len(a)
    BY <1>2, <1>4, <2>1
  <2>2. CASE i \notin 1 .. Len(a)
    <3> DEFINE j == i - Len(a)
    <3>1. j \in 1 .. Len(b) /\ i = Len(a) + j
      BY <1>3, <1>5, <2>2
    <3> HIDE DEF j
    <3>2. h[Len(a) + j] = g[j] /\ c[Len(a) + j] = g[j]
      BY <1>2, <1>4, <3>1
    <3> QED
      BY <3>1, <3>2
  <2> QED
    BY <2>1, <2>2
<1>7. h = c
  BY <1>2, <1>3, <1>4, <1>6, SameSeq
<1> QED
  BY <1>7 DEF c

(* The columns of messages: of two in a row they are in a row.             *)
CalledBy(m) == [i \in DOMAIN m |-> m[i].calls]
AnsweredBy(m) == [i \in DOMAIN m |-> IF m[i].answers = NoField THEN <<>> ELSE <<m[i].answers>>]
TextOf(m) == [i \in DOMAIN m |-> m[i].text]
IsMessages(m) == IsSeq(m) /\ \A i \in 1 .. Len(m) : IsSeq(m[i].text) /\ IsSeq(m[i].calls)
LEMMA Columns ==
  ASSUME NEW m, IsMessages(m)
  PROVE  Seqs(CalledBy(m)) /\ Seqs(AnsweredBy(m)) /\ Seqs(TextOf(m))
<1>1. IsSeq(m) /\ DOMAIN m = 1 .. Len(m)
  BY DEF IsMessages, IsSeq
<1>2. Mapped(CalledBy(m), m) /\ Mapped(AnsweredBy(m), m) /\ Mapped(TextOf(m), m)
  BY DEF Mapped, CalledBy, AnsweredBy, TextOf
<1>3. IsSeq(CalledBy(m)) /\ Len(CalledBy(m)) = Len(m)
  BY <1>1, <1>2, EachIsSeq
<1>4. IsSeq(AnsweredBy(m)) /\ Len(AnsweredBy(m)) = Len(m)
  BY <1>1, <1>2, EachIsSeq
<1>5. IsSeq(TextOf(m)) /\ Len(TextOf(m)) = Len(m)
  BY <1>1, <1>2, EachIsSeq
<1>6. \A i \in 1 .. Len(m) : CalledBy(m)[i] = m[i].calls /\ TextOf(m)[i] = m[i].text
  BY <1>1 DEF CalledBy, TextOf
<1>7. \A i \in 1 .. Len(m) : AnsweredBy(m)[i] = <<>> \/ AnsweredBy(m)[i] = <<m[i].answers>>
  BY <1>1 DEF AnsweredBy
<1>8. Seqs(CalledBy(m)) /\ Seqs(TextOf(m))
  BY <1>3, <1>5, <1>6 DEF Seqs, IsMessages
<1>9. Seqs(AnsweredBy(m))
  BY <1>4, <1>7, EmptyIsSeq, OneIsSeq DEF Seqs
<1> QED
  BY <1>8, <1>9

LEMMA ColumnsInRow ==
  ASSUME NEW a, IsMessages(a), NEW b, IsMessages(b)
  PROVE  /\ IsMessages(a \o b)
         /\ Talk!Called(a \o b) = Talk!Called(a) \o Talk!Called(b)
         /\ Talk!Answered(a \o b) = Talk!Answered(a) \o Talk!Answered(b)
<1> DEFINE c == a \o b
<1>1. IsSeq(a) /\ IsSeq(b) /\ Len(a) \in Nat /\ Len(b) \in Nat
  BY DEF IsMessages, IsSeq
<1>2. /\ IsSeq(c) /\ Len(c) = Len(a) + Len(b)
      /\ \A i \in 1 .. Len(a) : c[i] = a[i]
      /\ \A i \in 1 .. Len(b) : c[Len(a) + i] = b[i]
  BY <1>1, CatIs
<1>3. DOMAIN a = 1 .. Len(a) /\ DOMAIN b = 1 .. Len(b) /\ DOMAIN c = 1 .. Len(a) + Len(b)
  BY <1>1, <1>2 DEF IsSeq
<1>4. \A i \in 1 .. Len(b) : Len(a) + i \in 1 .. Len(a) + Len(b)
  BY <1>1
<1>5. \A i \in 1 .. Len(a) : i \in 1 .. Len(a) + Len(b)
  BY <1>1
<1> DEFINE f == CalledBy(a)
<1> DEFINE g == CalledBy(b)
<1> DEFINE h == CalledBy(c)
<1> DEFINE u == AnsweredBy(a)
<1> DEFINE v == AnsweredBy(b)
<1> DEFINE w == AnsweredBy(c)
<1>6. Mapped(f, a) /\ Mapped(g, b) /\ Mapped(h, c)
  BY DEF Mapped, CalledBy
<1>7. Mapped(u, a) /\ Mapped(v, b) /\ Mapped(w, c)
  BY DEF Mapped, AnsweredBy
<1> HIDE DEF c
<1>8. \A i \in 1 .. Len(a) : h[i] = f[i] /\ w[i] = u[i]
  BY <1>2, <1>3, <1>5 DEF CalledBy, AnsweredBy
<1>9. \A i \in 1 .. Len(b) : h[Len(a) + i] = g[i] /\ w[Len(a) + i] = v[i]
  BY <1>2, <1>3, <1>4 DEF CalledBy, AnsweredBy
<1> HIDE DEF f, g, h, u, v, w
<1>10. h = f \o g
  BY <1>1, <1>6, <1>8, <1>9, CatMapped DEF c
<1>11. w = u \o v
  BY <1>1, <1>7, <1>8, <1>9, CatMapped DEF c
<1>12. Row(f \o g) = Row(f) \o Row(g)
  BY Columns, RowOfTwo DEF f, g
<1>13. Row(u \o v) = Row(u) \o Row(v)
  BY Columns, RowOfTwo DEF u, v
<1>14. Talk!Called(a) = Row(f) /\ Talk!Called(b) = Row(g) /\ Talk!Called(c) = Row(h)
  BY DEF Talk!Called, Row, CalledBy, f, g, h
<1>15. Talk!Answered(a) = Row(u) /\ Talk!Answered(b) = Row(v) /\ Talk!Answered(c) = Row(w)
  BY DEF Talk!Answered, Row, AnsweredBy, u, v, w
<1>16. IsMessages(c)
  <2>1. ASSUME NEW i \in 1 .. Len(c) PROVE IsSeq(c[i].text) /\ IsSeq(c[i].calls)
    <3>1. CASE i \in 1 .. Len(a)
      BY <1>2, <3>1 DEF IsMessages
    <3>2. CASE i \notin 1 .. Len(a)
      <4> DEFINE j == i - Len(a)
      <4>1. j \in 1 .. Len(b) /\ i = Len(a) + j
        BY <1>1, <1>2, <3>2
      <4> HIDE DEF j
      <4>2. c[i] = b[j]
        BY <1>2, <4>1
      <4> QED
        BY <4>1, <4>2 DEF IsMessages
    <3> QED
      BY <3>1, <3>2
  <2> QED
    BY <1>2, <2>1 DEF IsMessages
<1> QED
  BY <1>10, <1>11, <1>12, <1>13, <1>14, <1>15, <1>16 DEF c

(* One message of the server's.                                            *)
LEMMA OneMessage ==
  ASSUME NEW m, IsSeq(m.text), IsSeq(m.calls), m.answers = NoField
  PROVE  IsMessages(<<m>>) /\ Talk!Called(<<m>>) = m.calls /\ Talk!Answered(<<m>>) = <<>>
<1>1. IsSeq(<<m>>) /\ Len(<<m>>) = 1 /\ <<m>>[1] = m
  BY OneIsSeq
<1>2. IsMessages(<<m>>)
  BY <1>1 DEF IsMessages
<1>3. Talk!Called(<<m>>) = m.calls
  <2>1. Talk!Called(<<m>>) = Row(<<m.calls>>)
    BY DEF Talk!Called, Row
  <2> QED
    BY <2>1, RowOfOne
<1>4. Talk!Answered(<<m>>) = <<>>
  <2> DEFINE x == <<>>
  <2>1. [i \in DOMAIN <<m>> |-> IF <<m>>[i].answers = NoField THEN <<>> ELSE <<<<m>>[i].answers>>] = <<x>>
    BY <1>1
  <2>2. Row(<<x>>) = x
    BY EmptyIsSeq, RowOfOne
  <2> QED
    BY <2>1, <2>2 DEF Talk!Answered, Row
<1> QED
  BY <1>2, <1>3, <1>4

(* What a turn says is kept: its texts, its calls, its results.            *)
IdsOf(m, type) == IF m.role = "system" THEN <<>> ELSE Talk!Of(Talk!Parts(m, type))
TurnKept(m) ==
  /\ IsMessages(Talk!Converted(m))
  /\ Talk!Called(Talk!Converted(m)) = IdsOf(m, "call") /\ Talk!Answered(Talk!Converted(m)) = IdsOf(m, "result")
LEMMA OfIsSeq ==
  ASSUME NEW q, IsSeq(q)
  PROVE  IsSeq(Talk!Of(q)) /\ Len(Talk!Of(q)) = Len(q)
<1>1. Mapped(Talk!Of(q), q)
  BY DEF Mapped, Talk!Of
<1> QED
  BY <1>1, EachIsSeq
LEMMA OfNothing == Talk!Of(<<>>) = <<>>
  BY DEF Talk!Of
LEMMA TurnIsKept ==
  ASSUME NEW m, IsTurn(m)
  PROVE  TurnKept(m)
<1>1. IsSeq(m.content) /\ DOMAIN m.content = 1 .. Len(m.content) /\ m.role \in {"system", "user", "assistant", "tool"}
  BY DEF IsTurn, IsSeq
<1>2. IsSeq(<<>>)
  BY EmptyIsSeq
<1>3. CASE m.role = "system"
  <2> DEFINE x == Talk!Message("system", m.content, <<>>, NoField)
  <2>1. Talk!Converted(m) = <<x>> /\ IdsOf(m, "call") = <<>> /\ IdsOf(m, "result") = <<>>
    BY <1>3 DEF Talk!Converted, IdsOf
  <2>2. x.text = m.content /\ x.calls = <<>> /\ x.answers = NoField
    BY DEF Talk!Message
  <2> HIDE DEF x
  <2>3. IsMessages(<<x>>) /\ Talk!Called(<<x>>) = x.calls /\ Talk!Answered(<<x>>) = <<>>
    BY <1>1, <1>2, <2>2, OneMessage
  <2> QED
    BY <2>1, <2>2, <2>3 DEF TurnKept
<1>4. CASE m.role = "user"
  <2> DEFINE x == Talk!Message("user", Talk!Of(m.content), <<>>, NoField)
  <2>1. Talk!Converted(m) = <<x>>
    BY <1>4 DEF Talk!Converted
  <2>2. x.text = Talk!Of(m.content) /\ x.calls = <<>> /\ x.answers = NoField
    BY DEF Talk!Message
  <2> HIDE DEF x
  <2>3. IsMessages(<<x>>) /\ Talk!Called(<<x>>) = x.calls /\ Talk!Answered(<<x>>) = <<>>
    BY <1>1, <1>2, <2>2, OneMessage, OfIsSeq
  <2>4. \A i \in 1 .. Len(m.content) : m.content[i].type \in {"text", "image"}
    BY <1>1, <1>4 DEF IsTurn
  <2>5. Talk!Parts(m, "call") = <<>> /\ Talk!Parts(m, "result") = <<>>
    BY <1>1, <2>4, NoneIsOfType DEF Talk!Parts
  <2>6. IdsOf(m, "call") = <<>> /\ IdsOf(m, "result") = <<>>
    BY <1>4, <2>5, OfNothing DEF IdsOf
  <2> QED
    BY <2>1, <2>2, <2>3, <2>6 DEF TurnKept
<1>5. CASE m.role = "assistant"
  <2> DEFINE x == Talk!Message("assistant", Talk!Of(Talk!Parts(m, "text")), Talk!Of(Talk!Parts(m, "call")), NoField)
  <2>1. Talk!Converted(m) = <<x>>
    BY <1>5 DEF Talk!Converted
  <2>2. x.text = Talk!Of(Talk!Parts(m, "text")) /\ x.calls = Talk!Of(Talk!Parts(m, "call")) /\ x.answers = NoField
    BY DEF Talk!Message
  <2> HIDE DEF x
  <2>3. IsSeq(x.text) /\ IsSeq(x.calls)
    BY <1>1, <2>2, OfIsSeq, OfTypeIsSeq DEF Talk!Parts
  <2>4. IsMessages(<<x>>) /\ Talk!Called(<<x>>) = x.calls /\ Talk!Answered(<<x>>) = <<>>
    BY <2>2, <2>3, OneMessage
  <2>5. \A i \in 1 .. Len(m.content) : m.content[i].type \in {"text", "call"}
    BY <1>1, <1>5 DEF IsTurn
  <2>6. Talk!Parts(m, "result") = <<>>
    BY <1>1, <2>5, NoneIsOfType DEF Talk!Parts
  <2>7. IdsOf(m, "call") = x.calls /\ IdsOf(m, "result") = <<>>
    BY <1>5, <2>2, <2>6, OfNothing DEF IdsOf
  <2> QED
    BY <2>1, <2>4, <2>7 DEF TurnKept
<1>6. CASE m.role = "tool"
  <2> DEFINE c == [i \in DOMAIN m.content |-> Talk!Message("tool", <<>>, <<>>, m.content[i].of)]
  <2> DEFINE n == Len(m.content)
  <2>1. Talk!Converted(m) = c
    BY <1>6 DEF Talk!Converted
  <2>2. Mapped(c, m.content)
    BY DEF Mapped
  <2>3. \A i \in 1 .. n : c[i].text = <<>> /\ c[i].calls = <<>> /\ c[i].answers = m.content[i].of
    BY <1>1 DEF Talk!Message
  <2>4. IsSeq(c) /\ Len(c) = n /\ DOMAIN c = 1 .. n
    <3> HIDE DEF c
    <3> QED
      BY <1>1, <2>2, EachIsSeq
  <2> HIDE DEF c
  <2>5. \A i \in 1 .. n : m.content[i].type = "result" /\ m.content[i].of # NoField
    BY <1>1, <1>6 DEF IsTurn
  <2>6. IsMessages(c)
    BY <1>2, <2>3, <2>4 DEF IsMessages
  <2>7. Talk!Called(c) = <<>>
    <3>1. Seqs(CalledBy(c)) /\ Mapped(CalledBy(c), c)
      BY <2>6, Columns DEF Mapped, CalledBy
    <3>2. \A i \in 1 .. n : CalledBy(c)[i] = <<>>
      BY <2>3, <2>4 DEF CalledBy
    <3>3. IsSeq(CalledBy(c)) /\ Len(CalledBy(c)) = n
      BY <2>4, <3>1, EachIsSeq
    <3>4. Row(CalledBy(c)) = <<>>
      BY <3>2, <3>3, RowOfNothing
    <3> QED
      BY <3>4 DEF Talk!Called, CalledBy, Row
  <2>8. Talk!Parts(m, "call") = <<>> /\ Talk!Parts(m, "result") = m.content
    <3>1. \A i \in 1 .. Len(m.content) : m.content[i].type # "call" /\ m.content[i].type = "result"
      BY <2>5
    <3>2. Talk!OfType(m.content, "call") = <<>>
      BY <1>1, <3>1, NoneIsOfType
    <3>3. Talk!OfType(m.content, "result") = m.content
      BY <1>1, <3>1, AllAreOfType
    <3> QED
      BY <3>2, <3>3 DEF Talk!Parts
  <2>9. Talk!Answered(c) = Talk!Of(m.content)
    <3> DEFINE o == Talk!Of(m.content)
    <3>1. IsSeq(o) /\ Len(o) = n
      BY <1>1, OfIsSeq
    <3>2. \A i \in 1 .. n : o[i] = m.content[i].of
      BY <1>1 DEF Talk!Of
    <3> HIDE DEF o
    <3>3. DOMAIN o = 1 .. n
      BY <3>1 DEF IsSeq
    <3>4. AnsweredBy(c) = Ones(o)
      BY <2>3, <2>4, <2>5, <3>2, <3>3 DEF AnsweredBy, Ones
    <3>5. Row(Ones(o)) = o
      BY <3>1, RowOfOnes DEF RowIsSeq
    <3> QED
      BY <3>4, <3>5 DEF Talk!Answered, AnsweredBy, Row, o
  <2>10. IdsOf(m, "call") = <<>> /\ IdsOf(m, "result") = Talk!Of(m.content)
    BY <1>6, <2>8, OfNothing DEF IdsOf
  <2> QED
    BY <2>1, <2>6, <2>7, <2>9, <2>10 DEF TurnKept
<1> QED
  BY <1>1, <1>3, <1>4, <1>5, <1>6

(* A whole prompt.                                                         *)
ConvertedOf(prompt) == [i \in DOMAIN prompt |-> Talk!Converted(prompt[i])]
IdsBy(prompt, type) == [i \in DOMAIN prompt |-> IdsOf(prompt[i], type)]
IsPrompt(p) == IsSeq(p) /\ \A i \in 1 .. Len(p) : IsTurn(p[i])
PromptKept(p) ==
  /\ IsMessages(Row(ConvertedOf(p)))
  /\ Talk!Called(Row(ConvertedOf(p))) = Row(IdsBy(p, "call"))
  /\ Talk!Answered(Row(ConvertedOf(p))) = Row(IdsBy(p, "result"))
LEMMA IdsAreSeqs ==
  ASSUME NEW m, IsTurn(m), NEW type
  PROVE  IsSeq(IdsOf(m, type))
BY EmptyIsSeq, OfIsSeq, OfTypeIsSeq DEF IdsOf, IsTurn, Talk!Parts
LEMMA OneTurnMore ==
  ASSUME NEW p, IsPrompt(p), PromptKept(p), NEW m, IsTurn(m)
  PROVE  PromptKept(Append(p, m))
<1> DEFINE q == Append(p, m)
<1> DEFINE n == Len(p)
<1>1. IsSeq(p) /\ n \in Nat /\ DOMAIN p = 1 .. n
  BY DEF IsPrompt, IsSeq
<1>2. IsSeq(q) /\ Len(q) = n + 1 /\ q[n + 1] = m /\ \A i \in 1 .. n : q[i] = p[i]
  BY <1>1, AppendIsSeq
<1>3. DOMAIN q = 1 .. n + 1
  BY <1>2 DEF IsSeq
<1> DEFINE f == ConvertedOf(p)
<1> DEFINE g == ConvertedOf(q)
<1>4. Mapped(f, p) /\ Mapped(g, q)
  BY DEF Mapped, ConvertedOf
<1>5. g[n + 1] = Talk!Converted(m) /\ \A i \in 1 .. n : g[i] = f[i]
  BY <1>1, <1>2, <1>3 DEF ConvertedOf
<1>6. TurnKept(m)
  BY TurnIsKept
<1> DEFINE c == Talk!Converted(m)
<1>7. IsMessages(c) /\ Talk!Called(c) = IdsOf(m, "call") /\ Talk!Answered(c) = IdsOf(m, "result")
  BY <1>6 DEF TurnKept
<1> HIDE DEF f, g
<1>8. IsSeq(f) /\ Len(f) = n /\ g = Append(f, g[n + 1])
  BY <1>1, <1>4, <1>5, EachOneMore
<1> HIDE DEF q, c
<1>9. g = Append(f, c)
  BY <1>5, <1>8 DEF c
<1>10. Row(g) = Row(f) \o c
  BY <1>7, <1>8, <1>9, RowOneMore DEF IsMessages
<1>11. IsMessages(Row(f)) /\ Talk!Called(Row(f)) = Row(IdsBy(p, "call")) /\ Talk!Answered(Row(f)) = Row(IdsBy(p, "result"))
  BY DEF PromptKept, f
<1>12. /\ IsMessages(Row(g))
       /\ Talk!Called(Row(g)) = Row(IdsBy(p, "call")) \o IdsOf(m, "call")
       /\ Talk!Answered(Row(g)) = Row(IdsBy(p, "result")) \o IdsOf(m, "result")
  <2> DEFINE r == Row(f)
  <2> HIDE DEF r
  <2>1. IsMessages(r) /\ IsMessages(c)
    BY <1>7, <1>11 DEF r
  <2>2. /\ IsMessages(r \o c)
        /\ Talk!Called(r \o c) = Talk!Called(r) \o Talk!Called(c)
        /\ Talk!Answered(r \o c) = Talk!Answered(r) \o Talk!Answered(c)
    BY <2>1, ColumnsInRow
  <2> QED
    BY <1>7, <1>10, <1>11, <2>2 DEF r
<1>13. ASSUME NEW type PROVE Row(IdsBy(q, type)) = Row(IdsBy(p, type)) \o IdsOf(m, type)
  <2> DEFINE u == IdsBy(p, type)
  <2> DEFINE v == IdsBy(q, type)
  <2> DEFINE y == IdsOf(m, type)
  <2>1. Mapped(u, p) /\ Mapped(v, q)
    BY DEF Mapped, IdsBy
  <2>2. v[n + 1] = y /\ \A i \in 1 .. n : v[i] = u[i]
    BY <1>1, <1>2, <1>3 DEF IdsBy, q
  <2> HIDE DEF u, v
  <2>3. IsSeq(u) /\ Len(u) = n /\ v = Append(u, v[n + 1])
    BY <1>1, <2>1, <2>2, EachOneMore DEF q
  <2>4. IsSeq(y)
    BY IdsAreSeqs
  <2> HIDE DEF y
  <2>5. v = Append(u, y)
    BY <2>2, <2>3
  <2>6. Row(Append(u, y)) = Row(u) \o y
    BY <2>3, <2>4, RowOneMore
  <2> QED
    BY <2>5, <2>6 DEF u, v, y
<1>14. PromptKept(q)
  BY <1>12, <1>13 DEF PromptKept, g
<1> QED
  BY <1>14 DEF q
LEMMA PromptIsKept ==
  ASSUME NEW p, IsPrompt(p)
  PROVE  PromptKept(p)
<1> DEFINE S == {n \in Nat : \A q : IsPrompt(q) /\ Len(q) = n => PromptKept(q)}
<1>1. 0 \in S
  <2> SUFFICES ASSUME NEW q, IsPrompt(q), Len(q) = 0 PROVE PromptKept(q)
    OBVIOUS
  <2>1. q = <<>>
    BY EmptyIsSeq, SameSeq DEF IsPrompt
  <2>2. ConvertedOf(<<>>) = <<>> /\ IdsBy(<<>>, "call") = <<>> /\ IdsBy(<<>>, "result") = <<>>
    BY DEF ConvertedOf, IdsBy
  <2>3. Row(<<>>) = <<>>
    BY RowIs, EmptyIsSeq
  <2>4. Talk!Called(<<>>) = <<>> /\ Talk!Answered(<<>>) = <<>>
    <3>1. CalledBy(<<>>) = <<>> /\ AnsweredBy(<<>>) = <<>>
      BY DEF CalledBy, AnsweredBy
    <3> QED
      BY <2>3, <3>1 DEF Talk!Called, Talk!Answered, CalledBy, AnsweredBy, Row
  <2>5. IsMessages(<<>>)
    BY EmptyIsSeq DEF IsMessages
  <2> QED
    BY <2>1, <2>2, <2>3, <2>4, <2>5 DEF PromptKept
<1>2. ASSUME NEW n \in Nat, n \in S PROVE n + 1 \in S
  <2> SUFFICES ASSUME NEW q, IsPrompt(q), Len(q) = n + 1 PROVE PromptKept(q)
    OBVIOUS
  <2> DEFINE y == q[n + 1]
  <2>1. PICK f : IsSeq(f) /\ Len(f) = n /\ q = Append(f, y) /\ \A i \in 1 .. n : f[i] = q[i]
    BY LastApart DEF IsPrompt
  <2>2. \A i \in 1 .. n + 1 : IsTurn(q[i])
    BY DEF IsPrompt
  <2>3. IsTurn(y)
    BY <2>2
  <2>4. IsPrompt(f)
    <3>1. \A i \in 1 .. n : IsTurn(f[i])
      BY <2>1, <2>2
    <3> QED
      BY <2>1, <3>1 DEF IsPrompt
  <2>5. PromptKept(f)
    BY <1>2, <2>1, <2>4
  <2> HIDE DEF y
  <2>6. PromptKept(Append(f, y))
    BY <2>3, <2>4, <2>5, OneTurnMore
  <2> QED
    BY <2>1, <2>6
<1>3. Nat \subseteq S
  <2> HIDE DEF S
  <2> QED
    BY <1>1, <1>2, Induction
<1>4. Len(p) \in Nat /\ Len(p) \in S
  BY <1>3 DEF IsPrompt, IsSeq
<1> QED
  BY <1>4

(* What is asked is the first piece of a message.                          *)
LEMMA Greatest ==
  ASSUME NEW n \in Nat, NEW T, T \subseteq 1 .. n, T # {}
  PROVE  Talk!Max(T) \in T
<1> DEFINE Back == {n - i : i \in T}
<1>1. Back \subseteq Nat /\ Back # {}
  OBVIOUS
<1>2. PICK d \in Back : \A e \in Back : d <= e
  BY <1>1, Least
<1>3. PICK m \in T : d = n - m
  BY <1>2
<1>4. \A i \in T : n - m <= n - i
  BY <1>2, <1>3
<1>5. \A i \in T : m >= i
  BY <1>4
<1>6. \E x \in T : \A y \in T : x >= y
  BY <1>5
<1> QED
  BY <1>6 DEF Talk!Max
LEMMA QueryIsText ==
  ASSUME NEW m, IsMessages(m), Talk!buildQuery(m) # Raised
  PROVE  Talk!buildQuery(m) \in Talk!ToSet(Talk!Texts(m))
<1> DEFINE I == {i \in 1 .. Len(m) : m[i].role = "user"}
<1> DEFINE n == Talk!SelectLastInSeq(m, LAMBDA x : x.role = "user")
<1>1. n = IF I # {} THEN Talk!Max(I) ELSE 0
  BY DEF Talk!SelectLastInSeq
<1>2. n # 0 /\ m[n].text # <<>> /\ Talk!buildQuery(m) = m[n].text[1]
  BY DEF Talk!buildQuery
<1> HIDE DEF n
<1>3. n \in I
  <2>1. Len(m) \in Nat
    BY DEF IsMessages, IsSeq
  <2>2. I \subseteq 1 .. Len(m) /\ I # {}
    BY <1>1, <1>2
  <2> HIDE DEF I
  <2>3. Talk!Max(I) \in I
    BY <2>1, <2>2, Greatest
  <2> QED
    BY <1>1, <2>2, <2>3
<1> DEFINE text == m[n].text
<1>4. IsSeq(text) /\ n \in 1 .. Len(m)
  BY <1>3 DEF IsMessages
<1>5. 1 \in 1 .. Len(text)
  <2>1. Len(text) \in Nat
    BY <1>4 DEF IsSeq
  <2>2. Len(text) # 0
    BY <1>2, <1>4, EmptyIsSeq, SameSeq
  <2> HIDE DEF text
  <2> QED
    BY <2>1, <2>2
<1>6. TextOf(m)[n] = text /\ Len(TextOf(m)) = Len(m)
  <2>1. DOMAIN m = 1 .. Len(m) /\ IsSeq(m)
    BY DEF IsMessages, IsSeq
  <2>2. Mapped(TextOf(m), m)
    BY DEF Mapped, TextOf
  <2> QED
    BY <1>4, <2>1, <2>2, EachIsSeq DEF TextOf
<1> DEFINE x == text[1]
<1>7. Has(text, x)
  BY <1>5 DEF Has
<1> DEFINE r == Row(TextOf(m))
<1>8. IsSeq(r) /\ Has(r, x)
  <2>1. RowHas(TextOf(m))
    BY Columns, RowOfSeqs
  <2> HIDE DEF text, x
  <2> QED
    BY <1>4, <1>6, <1>7, <2>1 DEF RowHas
<1>9. Talk!Texts(m) = r
  BY DEF Talk!Texts, TextOf, Row
<1> HIDE DEF r, x, text
<1>10. x \in Talk!ToSet(r)
  BY <1>8 DEF Has, Talk!ToSet, IsSeq
<1> QED
  BY <1>2, <1>9, <1>10 DEF x, text

(* A tool one is named is on offer among those of the name only.           *)
LEMMA NamedAre ==
  ASSUME NEW q, IsSeq(q), NEW name, \E f \in Talk!ToSet(q) : f.name = name
  PROVE  {f.name : f \in Talk!ToSet(Talk!Named(q, name))} = {name}
<1> DEFINE g == [i \in DOMAIN q |-> IF q[i].name = name THEN <<q[i]>> ELSE <<>>]
<1> DEFINE r == Talk!Named(q, name)
<1>1. r = Row(g) /\ Mapped(g, q)
  BY DEF Talk!Named, Row, Mapped
<1>2. DOMAIN q = 1 .. Len(q)
  BY DEF IsSeq
<1>3. \A i \in 1 .. Len(q) : g[i] = IF q[i].name = name THEN <<q[i]>> ELSE <<>>
  BY <1>2
<1> HIDE DEF g
<1>4. IsSeq(g) /\ Len(g) = Len(q)
  BY <1>1, EachIsSeq
<1>5. \A i \in 1 .. Len(q) : IsSeq(g[i])
  BY <1>3, EmptyIsSeq, OneIsSeq
<1>6. RowHas(g)
  BY <1>4, <1>5, RowOfSeqs DEF Seqs
<1> HIDE DEF r
<1>7. IsSeq(r) /\ \A x : Has(r, x) <=> \E i \in 1 .. Len(q) : Has(g[i], x)
  BY <1>1, <1>4, <1>6 DEF RowHas
<1>8. \A x : x \in Talk!ToSet(r) <=> Has(r, x)
  BY <1>7 DEF Talk!ToSet, Has, IsSeq
<1>9. ASSUME NEW x, Has(r, x) PROVE x.name = name
  <2>1. PICK i \in 1 .. Len(q) : Has(g[i], x)
    BY <1>7, <1>9
  <2>2. q[i].name = name /\ Has(<<q[i]>>, x)
    BY <1>3, <2>1, EmptyIsSeq DEF Has
  <2>3. x = q[i]
    BY <2>2, OneIsSeq DEF Has
  <2> QED
    BY <2>2, <2>3
<1>10. \E x : Has(r, x)
  <2>1. PICK i \in 1 .. Len(q) : q[i].name = name
    BY <1>2 DEF Talk!ToSet
  <2>2. g[i] = <<q[i]>>
    BY <1>3, <2>1
  <2>3. Has(<<q[i]>>, q[i])
    BY OneIsSeq DEF Has
  <2> QED
    BY <1>7, <2>1, <2>2, <2>3
<1>11. {f.name : f \in Talk!ToSet(r)} = {name}
  BY <1>8, <1>9, <1>10
<1> QED
  BY <1>11 DEF r

(* What a model is asked fits.                                             *)
OfferFits(r, offer) ==
  LET fs == Talk!Functions(r.tools)
  IN /\ fs # <<>> /\ r.choice # NoField =>
          CASE r.choice.mode = "tool" ->
                 (\E f \in Talk!ToSet(fs) : f.name = r.choice.name) =>
                   \/ offer.choice = r.choice.name /\ fs = offer.tools
                   \/ offer.choice = "any" /\ {f.name : f \in Talk!ToSet(offer.tools)} = {r.choice.name}
            [] r.choice.mode = "none" -> offer.tools = NoField \/ offer.choice = "none"
            [] r.choice.mode = "required" -> offer.tools = fs /\ offer.choice \in {"any", "required"}
            [] r.choice.mode = "auto" -> offer.tools = fs /\ offer.choice \in {"auto", NoField}
     /\ offer.warned = Len(r.tools) - Len(fs)
LEMMA PreparedFits ==
  ASSUME NEW r, IsRequest(r)
  PROVE  OfferFits(r, Talk!prepareTools(r.tools, r.choice, r.maker))
<1> DEFINE fs == Talk!Functions(r.tools)
<1> DEFINE w == Len(r.tools) - Len(fs)
<1> DEFINE Give(some, how) == [tools |-> some, choice |-> how, warned |-> w]
<1> SUFFICES ASSUME NEW o, o = Talk!prepareTools(r.tools, r.choice, r.maker) PROVE OfferFits(r, o)
  OBVIOUS
<1>0. IsSeq(r.tools) /\ IsSeq(fs)
  BY OfTypeIsSeq DEF IsRequest, Talk!Functions
<1>1. CASE r.tools = <<>>
  <2>1. o = [tools |-> NoField, choice |-> NoField, warned |-> 0]
    BY <1>1 DEF Talk!prepareTools
  <2>2. fs = <<>>
    BY <1>1, NoneOfType DEF Talk!Functions
  <2>3. w = 0
    BY <1>1, <2>2, EmptyIsSeq
  <2> QED
    BY <2>1, <2>2, <2>3 DEF OfferFits
<1>2. CASE r.tools # <<>> /\ r.choice = NoField
  <2>1. o = Give(fs, NoField)
    BY <1>2 DEF Talk!prepareTools
  <2>2. o.warned = w
    BY <2>1
  <2>3. ~(fs # <<>> /\ r.choice # NoField)
    BY <1>2
  <2> HIDE DEF fs
  <2> QED
    BY <2>2, <2>3, Zenon DEF OfferFits, fs
<1>3. CASE r.tools # <<>> /\ r.choice # NoField
  <2>0. r.choice.mode \in {"auto", "none", "required", "tool"}
    BY <1>3 DEF IsRequest
  <2>1. CASE r.choice.mode = "auto"
    <3>1. o = Give(fs, "auto")
      BY <1>3, <2>1 DEF Talk!prepareTools
    <3> QED
      BY <2>1, <3>1 DEF OfferFits
  <2>2. CASE r.choice.mode = "none"
    <3>1. o = IF r.maker = "anthropic" THEN Give(NoField, NoField) ELSE Give(fs, "none")
      BY <1>3, <2>2 DEF Talk!prepareTools
    <3> QED
      BY <2>2, <3>1 DEF OfferFits
  <2>3. CASE r.choice.mode = "required"
    <3>1. o = Give(fs, IF r.maker = "openai" THEN "required" ELSE "any")
      BY <1>3, <2>3 DEF Talk!prepareTools
    <3> QED
      BY <2>3, <3>1 DEF OfferFits
  <2>4. CASE r.choice.mode = "tool"
    <3>1. o = IF r.maker = "other" THEN Give(Talk!Named(fs, r.choice.name), "any") ELSE Give(fs, r.choice.name)
      BY <1>3, <2>4 DEF Talk!prepareTools
    <3>2. (\E f \in Talk!ToSet(fs) : f.name = r.choice.name) =>
            {f.name : f \in Talk!ToSet(Talk!Named(fs, r.choice.name))} = {r.choice.name}
      BY <1>0, NamedAre
    <3>3. CASE r.maker = "other"
      <4>1. o.tools = Talk!Named(fs, r.choice.name) /\ o.choice = "any" /\ o.warned = w
        BY <3>1, <3>3
      <4> QED
        BY <2>4, <3>2, <4>1 DEF OfferFits
    <3>4. CASE r.maker # "other"
      <4>1. o.tools = fs /\ o.choice = r.choice.name /\ o.warned = w
        BY <3>1, <3>4
      <4> QED
        BY <2>4, <4>1 DEF OfferFits
    <3> QED
      BY <3>3, <3>4
  <2> QED
    BY <2>0, <2>1, <2>2, <2>3, <2>4
<1> QED
  BY <1>1, <1>2, <1>3
LEMMA AskedFits ==
  ASSUME NEW r, IsRequest(r)
  PROVE  Talk!RequestFits(r)
<1> DEFINE q == Talk!Request(r)
<1> SUFFICES ASSUME q # Raised PROVE Talk!RequestFits(r)
  BY DEF Talk!RequestFits
<1> DEFINE m == Talk!convertToGelMessages(r.prompt)
<1> DEFINE given == Talk!Given(r.setting)
<1>1. m # Raised /\ Talk!buildQuery(m) # Raised
  BY DEF Talk!Request
<1>2. q = [prompt |-> Talk!buildPrompt(r.setting, m), query |-> Talk!buildQuery(m),
           offer |-> Talk!prepareTools(r.tools, r.choice, r.maker)]
  BY <1>1 DEF Talk!Request
<1>3. m = Row(ConvertedOf(r.prompt))
  BY <1>1 DEF Talk!convertToGelMessages, ConvertedOf, Row
<1>4. PromptKept(r.prompt)
  <2>1. IsPrompt(r.prompt)
    BY DEF IsPrompt, IsRequest, IsSeq
  <2> QED
    BY <2>1, PromptIsKept
<1> HIDE DEF m
<1>5. IsMessages(m) /\ Talk!Called(m) = Row(IdsBy(r.prompt, "call")) /\ Talk!Answered(m) = Row(IdsBy(r.prompt, "result"))
  BY <1>3, <1>4 DEF PromptKept
<1>6. \A type : Row(IdsBy(r.prompt, type)) = Talk!Ids(r.prompt, type)
  BY DEF Row, IdsBy, IdsOf, Talk!Ids
<1>7. Talk!buildQuery(m) \in Talk!ToSet(Talk!Texts(m))
  BY <1>1, <1>5, QueryIsText
<1> DEFINE sent == given \o m
<1>8. q.prompt.custom = sent /\ q.query = Talk!buildQuery(m) /\ q.offer = Talk!prepareTools(r.tools, r.choice, r.maker)
  BY <1>2 DEF Talk!buildPrompt
<1> DEFINE own == SubSeq(sent, Len(given) + 1, Len(sent))
<1>9. own = m
  <2>1. IsSeq(given) /\ IsSeq(m) /\ Len(given) \in Nat /\ Len(m) \in Nat
    BY <1>5 DEF IsRequest, IsMessages, IsSeq
  <2> HIDE DEF given
  <2>2. /\ IsSeq(sent) /\ Len(sent) = Len(given) + Len(m)
        /\ \A i \in 1 .. Len(m) : sent[Len(given) + i] = m[i]
    BY <2>1, CatIs
  <2> HIDE DEF sent
  <2> DEFINE k == Len(given)
  <2> DEFINE n == Len(m)
  <2>3. own = [i \in 1 .. n |-> sent[k + i]]
    <3>1. own = [i \in 1 .. (Len(sent) - (k + 1) + 1) |-> sent[i + (k + 1) - 1]]
      BY <2>1, <2>2 DEF IsSeq
    <3>2. Len(sent) - (k + 1) + 1 = n /\ \A i \in 1 .. n : i + (k + 1) - 1 = k + i
      BY <2>1, <2>2
    <3> HIDE DEF k, n, own
    <3> QED
      BY <3>1, <3>2
  <2> HIDE DEF own
  <2>4. IsSeq(own) /\ Len(own) = n /\ \A i \in 1 .. n : own[i] = m[i]
    BY <2>1, <2>2, <2>3 DEF IsSeq
  <2> QED
    BY <2>1, <2>4, SameSeq
<1>10. q.prompt.default \/ r.setting.named \/ r.setting.custom # NoField
  <2>1. q.prompt.default = (r.setting.custom = NoField /\ ~r.setting.named)
    <3>1. q.prompt = Talk!buildPrompt(r.setting, m)
      BY <1>2
    <3>2. \A v, w : [default |-> v, custom |-> w].default = v
      OBVIOUS
    <3> HIDE DEF q
    <3> QED
      BY <3>1, <3>2, Zenon DEF Talk!buildPrompt
  <2> HIDE DEF q
  <2> QED
    BY <2>1, Zenon
<1>11. OfferFits(r, q.offer)
  BY <1>8, PreparedFits
<1> HIDE DEF q, sent, given
<1>12. /\ sent = given \o own
       /\ Talk!Called(own) = Talk!Ids(r.prompt, "call") /\ Talk!Answered(own) = Talk!Ids(r.prompt, "result")
       /\ q.query \in Talk!ToSet(Talk!Texts(own))
  <2> HIDE DEF own
  <2> QED
    BY <1>5, <1>6, <1>7, <1>8, <1>9 DEF sent
<1> QED
  BY <1>8, <1>10, <1>11, <1>12 DEF Talk!RequestFits, OfferFits, q, sent, given

(* A request is one the SDK can make, and stays; the answer is told right  *)
(* as far as it has come.                                                  *)
TalkInv == (part = "request" => IsRequest(s)) /\ (part = "rag" => RagInv(s))

(* Whatever prompt, tools and choice the SDK gives, the request keeps the  *)
(* conversation and lets the model answer as it was told to; and whatever  *)
(* the model answers, however many blocks it interleaves, reaches the      *)
(* caller whole and in order, or as an error (packages/ai).                *)
THEOREM RagAlwaysFits == StructuresSpec => []RagFits
<1>1. InitStructures => TalkInv
  <2>1. InitStructures /\ part = "request" => IsRequest(s)
    BY StructuresAssumption DEF InitStructures, StructuresAssumption
  <2>2. InitStructures /\ part = "rag" => RagInv(s)
    BY RagBegins DEF InitStructures
  <2> QED
    BY <2>1, <2>2 DEF TalkInv
<1>2. TalkInv /\ [NextStructures]_<<part, s>> => TalkInv'
  <2> SUFFICES ASSUME TalkInv, [NextStructures]_<<part, s>> PROVE TalkInv'
    OBVIOUS
  <2>1. CASE UNCHANGED <<part, s>>
    BY <2>1 DEF TalkInv
  <2>2. CASE Answer
    <3>1. RagInv(s) /\ s' \in Talk!RagStep(s) /\ part' = "rag"
      BY <2>2 DEF Answer, TalkInv
    <3>2. RagInv(s')
      BY <3>1, RagStepKeeps
    <3> QED
      BY <3>1, <3>2 DEF TalkInv
  <2>3. CASE LruStep \/ Feed \/ Take \/ Consume \/ OptionsCall \/ Launch
    <3>1. part' \in {"lru", "buffer", "options", "cli"}
      BY <2>3 DEF LruStep, Feed, Take, Consume, OptionsCall, Launch
    <3> QED
      BY <3>1 DEF TalkInv
  <2> QED
    BY <2>1, <2>2, <2>3 DEF NextStructures
<1>3. TalkInv => RagFits
  <2>1. \A r : IsRequest(r) => Talk!RequestFits(r)
    BY AskedFits
  <2>2. \A d : RagInv(d) => Talk!StreamFits(d)
    BY AnswerFits
  <2> QED
    BY <2>1, <2>2, Zenon DEF TalkInv, RagFits
<1> QED
  BY <1>1, <1>2, <1>3, PTL DEF StructuresSpec
===============================================================================
