-------------------------------- MODULE Codecs --------------------------------
(***************************************************************************)
(* codecs/: the registry that builds a codec for each type the server      *)
(* describes, and the codecs of containers, arguments and globals.  A      *)
(* message is a sequence of cells: <<"int", n>> for a number of any width, *)
(* a count or a length (lengths count cells), <<"flags", set>> for flags,  *)
(* and <<"data", base, x>> for what a scalar of the type base is sent as.  *)
(***************************************************************************)
EXTENDS LRU, Integers, SequencesExt

CONSTANTS
  Types,           \* the server's types, a type's id being its position
  Roots,           \* the ids of those a query may take or return
  CodecsSize,      \* CODECS_CACHE_SIZE
  BuildSize,       \* CODECS_BUILD_CACHE_SIZE
  Thrown,          \* what a call gives that throws
  Null             \* JavaScript's null

(* A type is numbered behind those it is made of.                          *)
CodecsAssumption ==
  /\ CodecsSize \in Nat \ {0} /\ BuildSize \in Nat \ {0}
  /\ \A n \in DOMAIN Types : Types[n].object < n /\ \A m \in DOMAIN Types[n].subs : Types[n].subs[m] < n

(* A type: its descriptor's tag, its name, the types it is made of (of a   *)
(* scalar, its ancestors, the nearest first; of a shape, those of its      *)
(* fields), the names of fields, those that are link properties, their     *)
(* cardinalities, the object type of a shape, and values it may have.  A   *)
(* value of a container is the sequence of its elements.                   *)
Type(t, name, subs, values) ==
  [t |-> t, name |-> name, subs |-> subs, names |-> <<>>, linkprops |-> {}, cards |-> <<>>, object |-> 0,
   values |-> values]
WithFields(type, names, linkprops, cards, object) ==
  [type EXCEPT !.names = names, !.linkprops = linkprops, !.cards = cards, !.object = object]

----------------------------------------------------------------------------
(* Codecs.  The two that are single objects have ids of their own.         *)
NULL_CODEC_ID == Len(Types) + 1
EMPTY_TUPLE_CODEC_ID == Len(Types) + 2
Codec(kind, tid, name, subs) ==
  [kind |-> kind, tid |-> tid, name |-> name, subs |-> subs, names |-> <<>>, cards |-> <<>>, base |-> "", ancestors |-> <<>>]
NULL_CODEC == Codec("null", NULL_CODEC_ID, "", <<>>)
EMPTY_TUPLE_CODEC == Codec("empty_tuple", EMPTY_TUPLE_CODEC_ID, "", <<>>)
ScalarCodec(d) == [Codec("scalar", d.tid, d.name, <<>>) EXCEPT !.base = d.name]

(* derive(): a codec of the base's class for the type, with its ancestors. *)
derive(base, d, ancestors) ==
  [base EXCEPT !.tid = d.tid, !.name = d.name, !.ancestors = [n \in DOMAIN ancestors |-> ancestors[n].name]]

(* A field that is a link property is named with an "@".                   *)
ObjectCodec(d, subs) ==
  [Codec("object", d.tid, "", subs) EXCEPT
     !.names = [n \in DOMAIN d.names |-> IF n \in d.linkprops THEN "@" \o d.names[n] ELSE d.names[n]],
     !.cards = d.cards]

(* The codec a descriptor asks for: cl has those of the descriptors before *)
(* it in the same message, d.pos its own positions there.                  *)
Make(d, cl) ==
  LET subs == [n \in DOMAIN d.pos |-> cl[d.pos[n]]]
  IN CASE d.t \in {"object", "compound"} -> NULL_CODEC
       [] \E n \in DOMAIN d.pos : d.pos[n] \notin DOMAIN cl -> Thrown
       [] d.t = "base_scalar" -> ScalarCodec(d)
       [] d.t = "scalar" -> IF subs = <<>> THEN ScalarCodec(d)
                            ELSE IF \E n \in DOMAIN subs : subs[n].kind # "scalar" THEN Thrown
                            ELSE derive(Last(subs), d, subs)
       [] d.t = "enum" -> [ScalarCodec(d) EXCEPT !.base = "std::str"]
       [] d.t = "tuple" -> IF subs = <<>> THEN EMPTY_TUPLE_CODEC ELSE Codec("tuple", d.tid, d.name, subs)
       [] d.t = "shape" -> ObjectCodec(d, subs)
       [] d.t = "input_shape" -> [Codec("sparse_object", d.tid, "", subs) EXCEPT !.names = d.names]
       [] OTHER -> [Codec(d.t, d.tid, d.name, subs) EXCEPT !.names = d.names]

----------------------------------------------------------------------------
(* The registry: two caches; here also the type asked for last, what it    *)
(* has built so far of the message about it, and the rest of the message.  *)
EmptyRegistry == [codecs |-> EmptyLRU, build |-> EmptyLRU, of |-> 0, codec |-> NULL_CODEC, list |-> <<>>, left |-> <<>>]

_buildCodec(reg, d) ==
  IF LruHas(reg.codecs, d.tid)
  THEN [reg EXCEPT !.codecs = LruGet(@, d.tid), !.codec = reg.codecs.nodes[d.tid].value]
  ELSE IF LruHas(reg.build, d.tid)
  THEN [reg EXCEPT !.build = LruGet(@, d.tid), !.codec = reg.build.nodes[d.tid].value]
  ELSE LET codec == Make(d, reg.list)
       IN [reg EXCEPT !.build = IF codec = Thrown THEN @ ELSE LruSet(@, d.tid, codec, BuildSize),
                      !.codec = codec]

(* buildCodec(): one descriptor; the list has a codec for each of them.    *)
TakeDescriptor(reg, d) ==
  LET next == _buildCodec(reg, d)
  IN IF next.codec = Thrown THEN [next EXCEPT !.left = <<>>]
     ELSE [next EXCEPT !.codecs = LruSet(@, next.codec.tid, next.codec, CodecsSize),
                       !.list = IF Len(reg.left) = 1 THEN <<>> ELSE Append(@, next.codec),
                       !.left = Tail(@)]

(* What a connection does with the type of a message: getCodec(), and when *)
(* there is none, buildCodec() of the message's descriptors.               *)
CodecFor(reg, tid, spec) ==
  LET found == [reg EXCEPT !.codecs = LruGet(@, tid), !.of = tid, !.list = <<>>]
  IN IF LruHas(reg.codecs, tid)
     THEN [found EXCEPT !.codec = reg.codecs.nodes[tid].value]
     ELSE [found EXCEPT !.codec = NULL_CODEC, !.left = spec]

(* What the server sends of a type: a descriptor of each type it is made   *)
(* of, none of them twice, each behind those it refers to.                 *)
RECURSIVE MadeOf(_)
MadeOf(tid) ==
  LET parts == Range(Types[tid].subs) \cup ({Types[tid].object} \ {0})
  IN {tid} \cup UNION {MadeOf(t) : t \in parts}
Order(tid) == LET made == MadeOf(tid) IN SelectSeq([n \in 1 .. tid |-> n], LAMBDA t : t \in made)

TypeData(tid) ==
  LET order == Order(tid)
      At(t) == CHOOSE n \in DOMAIN order : order[n] = t
  IN [n \in DOMAIN order |->
        LET type == Types[order[n]]
        IN [t |-> type.t, tid |-> order[n], name |-> type.name, pos |-> [m \in DOMAIN type.subs |-> At(type.subs[m])],
            names |-> type.names, linkprops |-> type.linkprops, cards |-> type.cards]]

CodecsStep(reg) ==
  IF reg.left # <<>> THEN {TakeDescriptor(reg, Head(reg.left))}
  ELSE {CodecFor(reg, tid, TypeData(tid)) : tid \in Roots}

----------------------------------------------------------------------------
(* The codec context: the custom codecs, by type name, and how SQL rows    *)
(* are to be made.  A scalar is the pair of the custom codec that made it, *)
(* "" for none, and of what it stands for.                                 *)
Cell(n) == <<<<"int", n>>>>
Sized(cells) == IF cells = Thrown THEN Thrown ELSE Cell(Len(cells)) \o cells

(* initCodec(): the type's own custom codec, or its nearest ancestor's.    *)
(* Mutant: its most distant ancestor's.                                    *)
DistantOverload(codec, ctx) ==
  LET names == <<codec.name>> \o codec.ancestors
      hits == {n \in DOMAIN names : names[n] \in ctx.overloads}
  IN IF hits = {} THEN "" ELSE names[Max(hits)]

Overload(codec, ctx) ==
  LET names == <<codec.name>> \o codec.ancestors
      hits == {n \in DOMAIN names : names[n] \in ctx.overloads}
  IN IF hits = {} THEN "" ELSE names[Min(hits)]

(* n elements, each behind so many other cells and its length, -1 for a    *)
(* null: its first cell, and its own ones cut out of the buffer.           *)
RECURSIVE Elements(_, _, _)
Elements(cells, n, skipped) ==
  LET len == cells[skipped + 1][2]
      from == skipped + 2
      left == IF len = -1 THEN cells ELSE SubSeq(cells, 1, from + len - 1)
      rest == SubSeq(cells, from + (IF len = -1 THEN 0 ELSE len), Len(cells))
      others == Elements(rest, n - 1, skipped)
  IN IF n = 0 THEN IF cells = <<>> THEN <<>> ELSE Thrown
     ELSE IF Len(cells) <= skipped \/ Len(cells) < skipped + 1 + len \/ others = Thrown THEN Thrown
     ELSE <<[head |-> cells[1][2], cells |-> IF len = -1 THEN Null ELSE SubSeq(left, from, Len(left))]>> \o others

(* An array or a set: its dimensions, two cells, its length, a bound.      *)
ArrayElements(cells, skipped) ==
  IF Len(cells) >= 3 /\ cells[1] = <<"int", 0>> THEN IF Len(cells) = 3 THEN <<>> ELSE Thrown
  ELSE IF Len(cells) < 5 \/ cells[1] # <<"int", 1>> THEN Thrown
  ELSE Elements(SubSeq(cells, 6, Len(cells)), cells[4][2], skipped)

(* Fields: their number and, behind a reserved cell, each of them.         *)
FieldElements(cells, n) ==
  IF cells = <<>> \/ cells[1] # <<"int", n>> THEN Thrown ELSE Elements(Tail(cells), n, 1)

ByName(names, values) ==
  [name \in Range(names) |-> values[Max({n \in DOMAIN names : names[n] = name})]]

NewRange(lower, upper, flags) ==
  [lower |-> lower, upper |-> upper, incLower |-> "INC_LOWER" \in flags, incUpper |-> "INC_UPPER" \in flags,
   isEmpty |-> "EMPTY" \in flags]

RECURSIVE decode(_, _, _)
Decoded(codec, element, ctx) == IF element.cells = Null THEN Null ELSE decode(codec, element.cells, ctx)
DecodedAll(codecs, elements, ctx) ==
  LET values == [n \in DOMAIN elements |-> Decoded(codecs[n], elements[n], ctx)]
  IN IF elements = Thrown THEN Thrown
     ELSE IF \E n \in DOMAIN values : values[n] = Thrown THEN Thrown ELSE values
Each(codec, elements) == [n \in DOMAIN elements |-> codec]
NamedBy(names, values) == IF values = Thrown THEN Thrown ELSE ByName(names, values)

decodeScalar(codec, cells, ctx) ==
  LET json == codec.base = "std::json"
      data == IF json THEN Tail(cells) ELSE cells
  IN IF (json /\ cells[1] # <<"int", 1>>) \/ Len(data) # 1 THEN Thrown
     ELSE IF data[1][2] # codec.base THEN Thrown
     ELSE <<Overload(codec, ctx), data[1][3]>>

decodeArray(codec, cells, ctx) ==
  LET elements == ArrayElements(cells, 0) IN DecodedAll(Each(codec.subs[1], elements), elements, ctx)

(* A set of arrays wraps each array in a record of one element, whose size *)
(* is given twice: here the envelope is the element's.                     *)
ArrayOf(cells) == IF Len(cells) < 3 \/ cells[1] # <<"int", 1>> THEN Thrown ELSE SubSeq(cells, 4, Len(cells))
decodeSet(codec, cells, ctx) ==
  LET elements == ArrayElements(cells, 0)
      arrays == [n \in DOMAIN elements |-> [elements[n] EXCEPT !.cells = ArrayOf(@)]]
  IN DecodedAll(Each(codec.subs[1], elements),
                IF codec.subs[1].kind = "array" /\ elements # Thrown THEN arrays ELSE elements, ctx)

decodeEmptyTuple(cells) == FieldElements(cells, 0)
decodeTuple(codec, cells, ctx) == DecodedAll(codec.subs, FieldElements(cells, Len(codec.subs)), ctx)
decodeNamedTuple(codec, cells, ctx) ==
  NamedBy(codec.names, DecodedAll(codec.subs, FieldElements(cells, Len(codec.subs)), ctx))
decodeObject(codec, cells, ctx) ==
  NamedBy(codec.names, DecodedAll(codec.subs, FieldElements(cells, Len(codec.subs)), ctx))
decodeRecord(codec, cells, ctx) ==
  LET values == DecodedAll(codec.subs, FieldElements(cells, Len(codec.subs)), ctx)
  IN CASE ctx.rows = "array" \/ values = Thrown -> values
       [] ctx.rows = "custom" -> <<codec.names, values>>
       [] OTHER -> NamedBy(codec.names, values)

(* Each element is behind its position, and has its codec and its name.    *)
decodeSparse(codec, cells, ctx) ==
  LET elements == IF cells = <<>> THEN Thrown ELSE Elements(Tail(cells), cells[1][2], 1)
      of(seq) == [n \in DOMAIN elements |-> seq[elements[n].head + 1]]
  IN NamedBy(of(codec.names), DecodedAll(of(codec.subs), elements, ctx))

decodeRange(codec, cells, ctx) ==
  LET flags == cells[1][2]
      bounds == (IF "EMPTY_LOWER" \in flags THEN 0 ELSE 1) + (IF "EMPTY_UPPER" \in flags THEN 0 ELSE 1)
      elements == Elements(Tail(cells), bounds, 0)
      values == DecodedAll(Each(codec, elements), elements, ctx)
  IN IF "EMPTY" \in flags THEN NewRange(Null, Null, {"EMPTY"})
     ELSE IF values = Thrown THEN Thrown
     ELSE NewRange(IF "EMPTY_LOWER" \in flags THEN Null ELSE values[1],
                   IF "EMPTY_UPPER" \in flags THEN Null ELSE values[bounds], flags)
decodeMultiRange(codec, cells, ctx) ==
  LET elements == IF cells = <<>> THEN Thrown ELSE Elements(Tail(cells), cells[1][2], 0)
  IN IF elements = Thrown THEN Thrown
     ELSE [n \in DOMAIN elements |-> decodeRange(codec.subs[1], elements[n].cells, ctx)]

decode(codec, cells, ctx) ==
  CASE codec.kind = "scalar" -> decodeScalar(codec, cells, ctx)
    [] codec.kind = "array" -> decodeArray(codec, cells, ctx)
    [] codec.kind = "set" -> decodeSet(codec, cells, ctx)
    [] codec.kind = "empty_tuple" -> decodeEmptyTuple(cells)
    [] codec.kind = "tuple" -> decodeTuple(codec, cells, ctx)
    [] codec.kind = "namedtuple" -> decodeNamedTuple(codec, cells, ctx)
    [] codec.kind = "object" -> decodeObject(codec, cells, ctx)
    [] codec.kind = "record" -> decodeRecord(codec, cells, ctx)
    [] codec.kind = "sparse_object" -> decodeSparse(codec, cells, ctx)
    [] codec.kind = "range" -> decodeRange(codec.subs[1], cells, ctx)
    [] codec.kind = "multirange" -> decodeMultiRange(codec, cells, ctx)
    [] codec.kind = "null" -> Thrown

----------------------------------------------------------------------------
(* Encoding: what is passed to a query.  Everything is behind its length.  *)
Joined(parts) == IF \E n \in DOMAIN parts : parts[n] = Thrown THEN Thrown ELSE FlattenSeq(parts)
Behind(cells, rest) == IF rest = Thrown THEN Thrown ELSE cells \o rest

encodeScalar(codec, v, ctx) ==
  IF v[1] # Overload(codec, ctx) THEN Thrown
  ELSE Sized((IF codec.base = "std::json" THEN Cell(1) ELSE <<>>) \o <<<<"data", codec.base, v[2]>>>>)

RECURSIVE encode(_, _, _)
encodeRange(codec, v, ctx) ==
  LET flags == IF v.isEmpty THEN {"EMPTY"}
               ELSE (IF v.incLower THEN {"INC_LOWER"} ELSE {}) \cup (IF v.incUpper THEN {"INC_UPPER"} ELSE {})
                      \cup (IF v.lower = Null THEN {"EMPTY_LOWER"} ELSE {})
                      \cup (IF v.upper = Null THEN {"EMPTY_UPPER"} ELSE {})
      bound(b) == IF b = Null THEN <<>> ELSE encode(codec, b, ctx)
  IN Sized(Behind(<<<<"flags", flags>>>>, Joined(<<bound(v.lower), bound(v.upper)>>)))

(* A reserved cell, then the field; a null is refused where there may be   *)
(* none.                                                                   *)
Field(codec, v, optional, ctx) ==
  IF v # Null THEN Behind(Cell(0), encode(codec, v, ctx)) ELSE IF optional THEN Cell(0) \o Cell(-1) ELSE Thrown
Fields(codecs, values, optional, ctx) ==
  Sized(Behind(Cell(Len(codecs)),
               Joined([n \in DOMAIN codecs |-> Field(codecs[n], values[n], optional[n], ctx)])))
Never(codecs) == [n \in DOMAIN codecs |-> FALSE]

(* Named values in the order of the names; Null for a name without one.    *)
InOrder(names, v) == [n \in DOMAIN names |-> IF names[n] \in DOMAIN v THEN v[names[n]] ELSE Null]

(* Globals and configuration: each is sent behind its position.            *)
encodeGlobals(codec, v, ctx) ==
  LET given == SelectSeq([n \in DOMAIN codec.names |-> n], LAMBDA n : codec.names[n] \in DOMAIN v)
      One(n) == Behind(Cell(n - 1), IF v[codec.names[n]] = Null THEN Cell(-1)
                                    ELSE encode(codec.subs[n], v[codec.names[n]], ctx))
  IN IF ~(DOMAIN v \subseteq Range(codec.names)) THEN Thrown
     ELSE Sized(Behind(Cell(Len(given)), Joined([n \in DOMAIN given |-> One(given[n])])))

encodeArray(codec, v, ctx) ==
  IF codec.subs[1].kind \notin {"scalar", "tuple", "namedtuple", "range", "multirange"} THEN Thrown
  ELSE Sized(Behind(Cell(1) \o Cell(0) \o Cell(0) \o Cell(Len(v)) \o Cell(1),
                    Joined([n \in DOMAIN v |-> IF v[n] = Null THEN Cell(-1) ELSE encode(codec.subs[1], v[n], ctx)])))
encodeEmptyTuple(v) == IF v = <<>> THEN Sized(Cell(0)) ELSE Thrown
encodeTuple(codec, v, ctx) ==
  IF Len(v) # Len(codec.subs) THEN Thrown ELSE Fields(codec.subs, v, Never(v), ctx)
encodeNamedTuple(codec, v, ctx) ==
  IF Cardinality(DOMAIN v) # Len(codec.subs) THEN Thrown
  ELSE Fields(codec.subs, InOrder(codec.names, v), Never(codec.subs), ctx)
encodeMultiRange(codec, v, ctx) ==
  Sized(Behind(Cell(Len(v)), Joined([n \in DOMAIN v |-> encodeRange(codec.subs[1], v[n], ctx)])))

encode(codec, v, ctx) ==
  CASE codec.kind = "scalar" -> encodeScalar(codec, v, ctx)
    [] codec.kind = "array" -> encodeArray(codec, v, ctx)
    [] codec.kind = "empty_tuple" -> encodeEmptyTuple(v)
    [] codec.kind = "tuple" -> encodeTuple(codec, v, ctx)
    [] codec.kind = "namedtuple" -> encodeNamedTuple(codec, v, ctx)
    [] codec.kind = "range" -> encodeRange(codec.subs[1], v, ctx)
    [] codec.kind = "multirange" -> encodeMultiRange(codec, v, ctx)
    [] codec.kind = "sparse_object" -> encodeGlobals(codec, v, ctx)
    [] OTHER -> Thrown     \* set, object, record, null

(* encodeArgs(): by position when the first parameter is $0 or $1, else by *)
(* name, when there are not more names than parameters.                    *)
encodeArgs(codec, args, ctx) ==
  LET optional == [n \in DOMAIN codec.cards |-> codec.cards[n] \notin {"One", "AtLeastOne"}]
  IN IF codec.names[1] \in {"0", "1"}
     THEN IF Len(args) # Len(codec.subs) THEN Thrown ELSE Fields(codec.subs, args, optional, ctx)
     ELSE IF Cardinality(DOMAIN args) > Len(codec.subs) THEN Thrown
     ELSE Fields(codec.subs, InOrder(codec.names, args), optional, ctx)

----------------------------------------------------------------------------
(* The server's side: how it sends a value of a type, and what it accepts. *)
Names(tid) == <<Types[tid].name>> \o [n \in DOMAIN Types[tid].subs |-> Types[Types[tid].subs[n]].name]
IsScalar(tid) == Types[tid].t \in {"base_scalar", "scalar", "enum"}
BaseOf(tid) == IF Types[tid].t = "enum" THEN "std::str" ELSE Last(Names(tid))

RECURSIVE ServerCells(_, _)
SizedOrNull(tid, v) == IF v = Null THEN Cell(-1) ELSE Sized(ServerCells(tid, v))
ServerRange(tid, v) ==
  LET bounds == SelectSeq(<<v.lower, v.upper>>, LAMBDA b : b # Null)
      flags == {f \in {"EMPTY", "INC_LOWER", "INC_UPPER", "EMPTY_LOWER", "EMPTY_UPPER"} :
                  IF v.isEmpty THEN f = "EMPTY"
                  ELSE CASE f = "INC_LOWER" -> v.incLower [] f = "INC_UPPER" -> v.incUpper
                         [] f = "EMPTY_LOWER" -> v.lower = Null [] f = "EMPTY_UPPER" -> v.upper = Null [] OTHER -> FALSE}
  IN <<<<"flags", flags>>>> \o FlattenSeq([n \in DOMAIN bounds |-> Sized(ServerCells(tid, bounds[n]))])
ServerCells(tid, v) ==
  LET type == Types[tid]
      envelope(cells) == IF type.t = "set" /\ Types[type.subs[1]].t = "array"
                         THEN Sized(Cell(1) \o Cell(0) \o cells) ELSE cells
  IN CASE IsScalar(tid) -> (IF BaseOf(tid) = "std::json" THEN Cell(1) ELSE <<>>) \o <<<<"data", BaseOf(tid), v>>>>
       [] type.t \in {"array", "set"} ->
            IF v = <<>> THEN Cell(0) \o Cell(0) \o Cell(0)
            ELSE Cell(1) \o Cell(0) \o Cell(0) \o Cell(Len(v)) \o Cell(1)
                   \o FlattenSeq([n \in DOMAIN v |-> envelope(SizedOrNull(type.subs[1], v[n]))])
       [] type.t = "range" -> ServerRange(type.subs[1], v)
       [] type.t = "multirange" ->
            Cell(Len(v)) \o FlattenSeq([n \in DOMAIN v |-> Sized(ServerRange(type.subs[1], v[n]))])
       [] OTHER -> Cell(Len(v)) \o FlattenSeq([n \in DOMAIN v |->
                     Cell(IF type.t = "input_shape" THEN n - 1 ELSE 0) \o SizedOrNull(type.subs[n], v[n])])

(* The value as JavaScript should have it: scalars made by the custom      *)
(* codec nearest to their type, fields by name.                            *)
RECURSIVE Seen(_, _, _)
Seen(tid, v, ctx) ==
  LET type == Types[tid]
      Sub(n, x) == IF x = Null THEN Null ELSE Seen(type.subs[n], x, ctx)
      all == [n \in DOMAIN v |-> Sub(IF type.t \in {"array", "set", "multirange"} THEN 1 ELSE n, v[n])]
      range(r) == [r EXCEPT !.lower = Sub(1, @), !.upper = Sub(1, @)]
      written == [n \in DOMAIN type.names |-> (IF n \in type.linkprops THEN "@" ELSE "") \o type.names[n]]
  IN CASE v = Null -> Null
       [] IsScalar(tid) ->
            LET names == IF type.t = "enum" THEN <<type.name>> ELSE Names(tid)
                near == SelectSeq(names, LAMBDA name : name \in ctx.overloads)
            IN <<IF near = <<>> THEN "" ELSE near[1], v>>
       [] type.t = "range" -> range(v)
       [] type.t = "multirange" -> [n \in DOMAIN v |-> range(v[n])]
       [] type.t \in {"namedtuple", "shape", "input_shape"} -> ByName(written, all)
       [] type.t = "record" -> IF ctx.rows = "array" THEN all
                               ELSE IF ctx.rows = "custom" THEN <<written, all>> ELSE ByName(written, all)
       [] OTHER -> all

(* What may be passed to a query at all.                                   *)
RECURSIVE MayPass(_)
MayPass(tid) ==
  LET type == Types[tid]
  IN /\ type.t \notin {"set", "shape", "record", "object", "compound"}
     /\ type.t = "array" =>
          LET sub == type.subs[1] IN IsScalar(sub) \/ (Types[sub].t # "array" /\ Types[sub].subs # <<>>)
     /\ ~IsScalar(tid) => \A n \in DOMAIN type.subs : MayPass(type.subs[n])

ArgsFit(codec, tid, v, ctx) ==
  LET type == Types[tid]
      seen == [n \in DOMAIN v |-> IF v[n] = Null THEN Null ELSE Seen(type.subs[n], v[n], ctx)]
      args == IF type.names[1] = "0" THEN seen ELSE ByName(type.names, seen)
      left == {n \in DOMAIN v : v[n] = Null /\ type.cards[n] \in {"One", "AtLeastOne"}}
  IN encodeArgs(codec, args, ctx) = IF left # {} THEN Thrown ELSE Sized(ServerCells(tid, v))

(* Whatever was described before and dropped from the caches since, the    *)
(* codec a connection has for a type reads every value the server sends of *)
(* it as that value, made by the custom codecs of its options, and sends   *)
(* what the server reads as that value; arguments go to the parameters     *)
(* they were given for, and none that is required is left out.             *)
CodecFits(reg, contexts) ==
  reg.of # 0 /\ reg.left = <<>> =>
    LET type == Types[reg.of]
    IN \A ctx \in contexts, v \in type.values :
         LET seen == Seen(reg.of, v, ctx)
         IN /\ decode(reg.codec, ServerCells(reg.of, v), ctx) = seen
            /\ IF type.t = "shape" /\ type.object = 0
               THEN ArgsFit(reg.codec, reg.of, v, ctx)
               ELSE LET sent == encode(reg.codec, seen, ctx)
                    IN IF MayPass(reg.of)
                       THEN /\ decode(reg.codec, Tail(sent), ctx) = seen
                            /\ (type.t = "array" /\ v = <<>>) \/ sent = Sized(ServerCells(reg.of, v))
                       ELSE sent = Thrown
=============================================================================
