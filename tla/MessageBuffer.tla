---------------------------- MODULE MessageBuffer ----------------------------
(***************************************************************************)
(* ReadMessageBuffer of packages/gel/src/primitives/buffer.ts: chunks of   *)
(* bytes as the socket delivers them on one side, whole messages on the    *)
(* other.  Also the writing side, WriteMessageBuffer, which makes the      *)
(* bytes that are read.  A byte is a natural number; a length is four      *)
(* bytes, big endian.                                                      *)
(***************************************************************************)
EXTENDS Naturals, Sequences

Int32(bytes) == ((bytes[1] * 256 + bytes[2]) * 256 + bytes[3]) * 256 + bytes[4]
Bytes32(n) == <<n \div 16777216, (n \div 65536) % 256, (n \div 256) % 256, n % 256>>

(* beginMessage(), writes, endMessage(): the length counts itself. *)
Message(mtype, payload) == <<mtype>> \o Bytes32(Len(payload) + 4) \o payload

EmptyBuffer ==
  [bufs |-> <<>>, buf0 |-> <<>>, pos0 |-> 0, len |-> 0, open |-> FALSE,
   curMessageType |-> 0, curMessageLen |-> 0, curMessageLenUnread |-> 0, curMessageReady |-> FALSE]

len0(b) == Len(b.buf0)

feed(b, chunk) ==
  IF ~b.open \/ (b.pos0 = len0(b) /\ b.bufs = <<>>)
  THEN [b EXCEPT !.buf0 = chunk, !.pos0 = 0, !.len = Len(chunk), !.open = TRUE]
  ELSE [b EXCEPT !.bufs = Append(@, chunk), !.len = @ + Len(chunk)]

(* ensureFirstBuf() and __nextBuf(): only called when a byte is left. *)
ensureFirstBuf(b) ==
  IF b.pos0 = len0(b)
  THEN [b EXCEPT !.buf0 = Head(b.bufs), !.bufs = Tail(@), !.pos0 = 0]
  ELSE b

Advance(b, size) == [b EXCEPT !.pos0 = @ + size, !.len = @ - size]
InFirst(b, size) == SubSeq(b.buf0, b.pos0 + 1, b.pos0 + size)

(* _readBuffer(), __readBufferCopy() and, without the bytes,               *)
(* discardBuffer(): size bytes from as many chunks as it takes.            *)
ReadBytes(r, first, size) ==
  [buf |-> Advance(first, size), bytes |-> r.bytes \o InFirst(first, size), left |-> r.left - size]
ReadUpTo(r, first) ==
  LET nread == len0(first) - first.pos0 IN ReadBytes(r, first, IF r.left <= nread THEN r.left ELSE nread)
ReadChunk(r) == IF r.left = 0 THEN r ELSE ReadUpTo(r, ensureFirstBuf(r.buf))
ReadTurns(b, size) ==
  LET r[n \in 0 .. Len(b.bufs) + 1] ==
        IF n = 0 THEN [buf |-> b, bytes |-> <<>>, left |-> size] ELSE ReadChunk(r[n - 1])
  IN r
ReadBuffer(b, size) == ReadTurns(b, size)[Len(b.bufs) + 1]

(* readBuffer() within a message.                                          *)
readBuffer(b, size) ==
  LET r == ReadBuffer(b, size) IN [r EXCEPT !.buf.curMessageLenUnread = @ - size]

(* takeMessage(): type, length and body may each be incomplete; what was   *)
(* read of the header is kept for the next call.                           *)
TakeType(b) ==
  IF b.curMessageType = 0 /\ b.len >= 1
  THEN LET r == ReadBuffer(b, 1) IN [r.buf EXCEPT !.curMessageType = r.bytes[1]]
  ELSE b

(* Mutant: three bytes are taken for a length that is complete. *)
TakeLengthEarly(b) ==
  IF b.curMessageType # 0 /\ b.curMessageLen = 0 /\ b.len >= 3
  THEN LET r == ReadBuffer(b, IF b.len < 4 THEN b.len ELSE 4)
           length == IF Len(r.bytes) < 4 THEN 4 ELSE Int32(r.bytes)
       IN [r.buf EXCEPT !.curMessageLen = length, !.curMessageLenUnread = length - 4]
  ELSE b

TakeLength(b) ==
  IF b.curMessageType # 0 /\ b.curMessageLen = 0 /\ b.len >= 4
  THEN LET r == ReadBuffer(b, 4) IN
       [r.buf EXCEPT !.curMessageLen = Int32(r.bytes), !.curMessageLenUnread = Int32(r.bytes) - 4]
  ELSE b

takeMessage(b) ==
  IF b.curMessageReady THEN b
  ELSE LET t == TakeLength(TakeType(b)) IN
       [t EXCEPT !.curMessageReady = t.curMessageLen # 0 /\ t.len >= t.curMessageLenUnread]

(* takeMessageType() looks at the next byte of the buffer, even if the     *)
(* type of a message that is not complete was taken from it before.        *)
takeMessageType(b, mtype) ==
  IF b.curMessageReady THEN [buf |-> b, taken |-> b.curMessageType = mtype]
  ELSE IF b.len < 1 THEN [buf |-> b, taken |-> FALSE]
  ELSE LET first == ensureFirstBuf(b)
           next == IF first.buf0[first.pos0 + 1] = mtype THEN takeMessage(first) ELSE first
       IN [buf |-> next,
           taken |-> first.buf0[first.pos0 + 1] = mtype /\ next.curMessageReady]

finishMessage(b) ==
  [b EXCEPT !.curMessageLen = 0, !.curMessageLenUnread = 0, !.curMessageReady = FALSE,
            !.curMessageType = 0]

(* consumeMessage() and consumeMessageInto(); discardMessage() is the same *)
(* but for the bytes.                                                      *)
consumeMessage(b) ==
  LET r == ReadBuffer(b, b.curMessageLenUnread) IN [buf |-> finishMessage(r.buf), bytes |-> r.bytes]
=============================================================================
