------------------------------ MODULE Structures ------------------------------
(***************************************************************************)
(* The parts of the driver that stand alone and about which theorems are   *)
(* proved: data structures through sequences of calls (lru, buffer,        *)
(* options), algorithms for every input of a set (config, path, index,     *)
(* request), launches of the CLI (cli) and the answer of an AI model event *)
(* by event (rag).  A behaviour is about one part.                         *)
(***************************************************************************)
EXTENDS LRU, MessageBuffer, Options, Configuration

CONSTANTS
  Capacity,       \* of the LRU,
  Keys, Values,   \* and what is kept in it
  Streams,        \* sequences of messages a server may send
  ConfigInputs,   \* what the sources of a configuration may say
  RagRequests,    \* what an AI model is asked
  \* of Rag: what a call gives that throws, a field that is not there, and bounds
  Raised, NoField, MaxBlocks, MaxPieces,
  \* of the CLI:
  Paths, Indexes, Launches, Size

VARIABLES
  part,    \* which part this behaviour is about
  s        \* its state or input

Shell == INSTANCE Cli
Talk == INSTANCE Rag WITH Thrown <- Raised, Null <- NoField

(* A type is a byte that is not null, and a length, which counts itself,   *)
(* fits into four bytes with a sign: its first byte is below 128.          *)
Byte == 0 .. 255
FitsInt32(n) == n \div 16777216 < 128
IsMessage(m) ==
  /\ m = <<m[1], m[2]>> /\ m[1] \in Byte \ {0}
  /\ m[2] \in Seq(Byte) /\ FitsInt32(Len(m[2]) + 4)

(* A level gives parameters one by one, and may have compound options.     *)
IsLevel(level) ==
  /\ level = [single |-> level.single, caTwice |-> level.caTwice, compound |-> level.compound]
  /\ level.single = [p \in Single |-> level.single[p]]
  /\ \A x \in level.compound : x.kind \in {"dsn", "address", "credentials", "cloud"}

(* A request as the SDK types it: images and texts come from the user,     *)
(* calls from the assistant, results from tools.                           *)
IsSeq(q) == Len(q) \in Nat /\ q = [n \in 1 .. Len(q) |-> q[n]]
IsTurn(m) ==
  /\ m.role \in {"system", "user", "assistant", "tool"} /\ IsSeq(m.content)
  /\ \A i \in DOMAIN m.content :
       /\ m.role = "user" => m.content[i].type \in {"text", "image"}
       /\ m.role = "assistant" => m.content[i].type \in {"text", "call"}
       /\ m.role = "tool" => m.content[i].type = "result" /\ m.content[i].of # NoField
IsRequest(r) ==
  /\ IsSeq(r.prompt) /\ \A i \in DOMAIN r.prompt : IsTurn(r.prompt[i])
  /\ IsSeq(r.tools) /\ IsSeq(Talk!Given(r.setting))
  /\ r.choice # NoField => r.choice.mode \in {"auto", "none", "required", "tool"}

StructuresAssumption ==
  /\ Capacity \in Nat \ {0} /\ NoNode \notin Keys
  /\ \A messages \in Streams : messages \in Seq(Range(messages)) /\ \A n \in DOMAIN messages : IsMessage(messages[n])
  /\ \A input \in ConfigInputs : IsLevel(input.options) /\ IsLevel(input.environment) /\ IsLevel(input.project)
  /\ \A r \in RagRequests : IsRequest(r)
  /\ Shell!CliAssumption
ASSUME StructuresAssumption

(* The buffer part: bytes still to come, the buffer, the messages taken. *)
D == 68
BytesTo(messages) ==
  LET bytes[n \in 0 .. Len(messages)] ==
        IF n = 0 THEN <<>> ELSE bytes[n - 1] \o Message(messages[n][1], messages[n][2])
  IN bytes
Bytes(messages) == BytesTo(messages)[Len(messages)]
InitBuffer(messages) ==
  [sent |-> messages, coming |-> Bytes(messages), buf |-> EmptyBuffer, got |-> <<>>]

InitStructures ==
  \/ part = "lru" /\ s = [cache |-> EmptyLRU, ref |-> <<>>]
  \/ part = "buffer" /\ \E messages \in Streams : s = InitBuffer(messages)
  \/ part = "options" /\ s = InitOptions
  \/ part = "config" /\ s \in ConfigInputs
  \/ part = "path" /\ s \in Paths
  \/ part = "index" /\ s \in Indexes
  \/ part = "cli" /\ s \in Shell!InitCli
  \/ part = "request" /\ s \in RagRequests
  \/ part = "rag" /\ s = Talk!InitRag

----------------------------------------------------------------------------
LruStep ==
  /\ part = "lru" /\ UNCHANGED part
  /\ \E k \in Keys :
       \/ s' = [cache |-> LruGet(s.cache, k), ref |-> RefGet(s.ref, k)]
       \/ \E v \in Values :
            s' = [cache |-> LruSet(s.cache, k, v, Capacity), ref |-> RefSet(s.ref, k, v, Capacity)]

(* _onData(): the next bytes arrive, cut anywhere. *)
Feed ==
  /\ part = "buffer" /\ UNCHANGED part
  /\ \E n \in 1 .. Len(s.coming) :
       s' = [s EXCEPT !.buf = feed(@, SubSeq(s.coming, 1, n)),
                      !.coming = SubSeq(@, n + 1, Len(@))]

(* The loops of baseConn.ts wait for a message, read what they need of it  *)
(* and discard or consume the rest; data messages are taken in a row.      *)
Take ==
  /\ part = "buffer" /\ UNCHANGED part
  /\ ~s.buf.curMessageReady
  /\ s' = [s EXCEPT !.buf = takeMessage(@)]

TakeDataTurn(t) ==
  LET m == takeMessageType(t.buf, D)
      c == consumeMessage(m.buf)
  IN IF ~t.more THEN t
     ELSE IF m.taken THEN [buf |-> c.buf, got |-> Append(t.got, <<D, c.bytes>>), more |-> TRUE]
     ELSE [buf |-> m.buf, got |-> t.got, more |-> FALSE]
TakeDataTurns(buf, got) ==
  LET t[n \in 0 .. buf.len + 1] ==     \* there cannot be as many messages
        IF n = 0 THEN [buf |-> buf, got |-> got, more |-> TRUE] ELSE TakeDataTurn(t[n - 1])
  IN t
TakeData(buf, got) == TakeDataTurns(buf, got)[buf.len + 1]

Consume ==
  /\ part = "buffer" /\ UNCHANGED part
  /\ s.buf.curMessageReady
  /\ IF s.buf.curMessageType = D
     THEN LET t == TakeData(s.buf, s.got) IN s' = [s EXCEPT !.buf = t.buf, !.got = t.got]
     ELSE \E n \in 0 .. s.buf.curMessageLenUnread :
            LET r == readBuffer(s.buf, n)
                c == consumeMessage(r.buf)
            IN s' = [s EXCEPT !.buf = c.buf,
                              !.got = Append(@, <<s.buf.curMessageType, r.bytes \o c.bytes>>)]

OptionsCall ==
  /\ part = "options" /\ UNCHANGED part
  /\ s' \in OptionsStep(s)

Launch ==
  /\ part = "cli" /\ UNCHANGED part
  /\ s' \in Shell!CliStep(s)

(* The server sends the next event of its answer.                          *)
Answer ==
  /\ part = "rag" /\ UNCHANGED part
  /\ s' \in Talk!RagStep(s)

NextStructures == LruStep \/ Feed \/ Take \/ Consume \/ OptionsCall \/ Launch \/ Answer

StructuresSpec == InitStructures /\ [][NextStructures]_<<part, s>>

----------------------------------------------------------------------------
(* The cache keeps the most recently used entries in order: the map, the   *)
(* list in both directions and the counter agree after any calls.          *)
CacheIsLRU == part = "lru" => Agrees(s.cache, s.ref)

(* However the network cuts the bytes, the messages read are those sent:   *)
(* none is split, merged or taken for another type, and none stays in the  *)
(* buffer once all bytes have come.                                        *)
FramingExact ==
  part = "buffer" =>
    /\ s.got = SubSeq(s.sent, 1, Len(s.got))
    /\ s.coming = <<>> /\ ~takeMessage(s.buf).curMessageReady => s.got = s.sent

(* An Options object has the settings its own chain of calls asked for,    *)
(* whatever was made from it or next to it, and codes with its own codecs, *)
(* in a context made since the last schema change.                         *)
OptionsAsAsked == part = "options" => AsAsked(s)

(* Each parameter comes from the first source that offers it, a source     *)
(* behind one that names the server is not asked, and strict client        *)
(* security cannot be lowered by any source.                               *)
FirstSourceWins ==
  part = "config" => LET c == Resolve(s) IN c = Error \/ AsOffered(c, s)

(* The CLI in PATH is found and no wrapper launches another, the newest    *)
(* compatible package is chosen, and no launch runs a CLI whose download   *)
(* was cut off, or fails unless one was cut off.                           *)
CliFits ==
  /\ part = "path" => Shell!PathFits(s)
  /\ part = "index" => Shell!PackageFits(s)
  /\ part = "cli" => Shell!LaunchesFit(s)

(* What a model is asked allows it to answer as it was told to, in the     *)
(* conversation it was given; what it answers reaches the caller whole and *)
(* in order, or as an error.                                               *)
RagFits == (part = "request" => Talk!RequestFits(s)) /\ (part = "rag" => Talk!StreamFits(s))
===============================================================================
