------------------------------- MODULE Options -------------------------------
(***************************************************************************)
(* Options of packages/gel/src/options.ts: the immutable settings a Client *)
(* carries, each made from another by a with...() call, and the CodecContext *)
(* of codecs/context.ts they cache.                                        *)
(*                                                                         *)
(* JavaScript Maps are shared by reference.  For the codecs that matters,  *)
(* since withSQLRowMode("object") deletes from one: `maps' is a heap of    *)
(* codec maps, a context refers to one, and an Options object is a record  *)
(* with references into both heaps.                                        *)
(***************************************************************************)
EXTENDS Integers, Sequences

CONSTANTS
  MergedFields,   \* config, globals, moduleAliases: maps that are merged by key
  PlainFields,    \* module, retryOptions, ..., and the tag: values that are replaced
  EntryKeys,      \* of those maps
  Settings,       \* the values a user may set
  CodecNames,     \* the types a user may have a codec for
  MaxOptions,     \* bound: Options objects made
  MaxSchema       \* bound: schema changes signalled

OptionsAssumption ==
  /\ MaxOptions \in Nat \ {0} /\ MaxSchema \in Nat
  /\ "deleted" \notin Settings
  /\ MergedFields \cap PlainFields = {} /\ "codecs" \notin MergedFields \cup PlainFields
ASSUME OptionsAssumption

SqlRow == "_private_sql_row"
Empty == <<>>           \* a map without entries
NoContext == 0          \* no context cached, or the shared NOOP_CODEC_CONTEXT
Defaults == "default"   \* the value of a plain field nobody has set

(* The state: objects[i] with its fields, its codec map, its cached        *)
(* context and the schema version it was cached at; contexts[c] is the map *)
(* the context was made with.  given[i] is the history of calls that led   *)
(* to objects[i], and used the last request, of which object, with which   *)
(* context and at which schema version; both are kept for the property.    *)
InitOptions ==
  [maps |-> <<Empty>>, contexts |-> <<>>, version |-> 0, used |-> [of |-> 0, ctx |-> NoContext, at |-> 0],
   objects |-> << [merged |-> [f \in MergedFields |-> Empty], plain |-> [f \in PlainFields |-> Defaults],
                   codecs |-> 1, cached |-> NoContext, cachedVer |-> -1] >>,
   given |-> << <<>> >>]

Kept(o) == [cached |-> o.cached, cachedVer |-> o.cachedVer]
Nothing == [cached |-> NoContext, cachedVer |-> -1]
Put(map, k, v) == [x \in DOMAIN map \cup {k} |-> IF x = k THEN v ELSE map[x]]
Without(map, k) == [x \in DOMAIN map \ {k} |-> map[x]]

(* Mutant: the inherited map is not copied before the deletion. *)
DropSharedCodec(s, o) ==
  [codecs |-> o.codecs, cache |-> Nothing,
   maps |-> [s.maps EXCEPT ![o.codecs] = Without(@, SqlRow)]]

(* _cloneWith(), its codecs: a map merged with others is a new one, one    *)
(* that is only inherited is shared, with the context that goes with it,   *)
(* and is copied before the row codec is dropped from it.                  *)
MergeCodecs(s, o, k, codec) ==
  [codecs |-> Len(s.maps) + 1, cache |-> Nothing, maps |-> Append(s.maps, Put(s.maps[o.codecs], k, codec))]
ShareCodecs(s, o) == [codecs |-> o.codecs, cache |-> Kept(o), maps |-> s.maps]
DropCodec(s, o) ==
  IF SqlRow \in DOMAIN s.maps[o.codecs]
  THEN [codecs |-> Len(s.maps) + 1, cache |-> Nothing,
        maps |-> Append(s.maps, Without(s.maps[o.codecs], SqlRow))]
  ELSE ShareCodecs(s, o)

CloneWith(s, i, call, merged, plain, c) ==
  [s EXCEPT !.maps = c.maps,
            !.objects = Append(@, [merged |-> merged, plain |-> plain, codecs |-> c.codecs,
                                   cached |-> c.cache.cached, cachedVer |-> c.cache.cachedVer]),
            !.given = Append(@, Append(s.given[i], call))]

(* withConfig(), withGlobals() and the aliases of withModuleAliases(). *)
WithMerged(s, i, f, k, v) ==
  LET o == s.objects[i] IN
  CloneWith(s, i, [field |-> f, key |-> k, value |-> v],
            [o.merged EXCEPT ![f] = Put(@, k, v)], o.plain, ShareCodecs(s, o))

(* The module of withModuleAliases(), withQueryTag() and the other setters. *)
WithPlain(s, i, f, v) ==
  LET o == s.objects[i] IN
  CloneWith(s, i, [field |-> f, key |-> f, value |-> v],
            o.merged, [o.plain EXCEPT ![f] = v], ShareCodecs(s, o))

(* withCodecs() and withSQLRowMode("array"); withSQLRowMode("object") *)
WithCodecs(s, i, k, v) ==
  LET o == s.objects[i] IN
  CloneWith(s, i, [field |-> "codecs", key |-> k, value |-> v],
            o.merged, o.plain, MergeCodecs(s, o, k, v))
WithoutRowCodec(s, i) ==
  LET o == s.objects[i] IN
  CloneWith(s, i, [field |-> "codecs", key |-> SqlRow, value |-> "deleted"],
            o.merged, o.plain, DropCodec(s, o))

(* makeCodecContext(), called for a request with these options *)
Use(s, i) ==
  LET o == s.objects[i] IN
  IF s.maps[o.codecs] = Empty THEN [s EXCEPT !.used = [of |-> i, ctx |-> NoContext, at |-> s.version]]
  ELSE IF o.cachedVer = s.version THEN [s EXCEPT !.used = [of |-> i, ctx |-> o.cached, at |-> s.version]]
  ELSE LET c == Len(s.contexts) + 1 IN
       [s EXCEPT !.contexts = Append(@, [spec |-> o.codecs, version |-> s.version]),
                 !.objects[i].cached = c, !.objects[i].cachedVer = s.version,
                 !.used = [of |-> i, ctx |-> c, at |-> s.version]]

SignalSchemaChange(s) == [s EXCEPT !.version = @ + 1]

(* One call of a user, a request, or a schema change a connection noticed. *)
OptionsStep(s) ==
  LET here == 1 .. Len(s.objects) IN
  (IF Len(s.objects) = MaxOptions THEN {} ELSE
     {WithMerged(s, i, f, k, v) : i \in here, f \in MergedFields, k \in EntryKeys, v \in Settings}
       \cup {WithPlain(s, i, f, v) : i \in here, f \in PlainFields, v \in Settings \cup {Defaults}}
       \cup {WithCodecs(s, i, k, v) : i \in here, k \in CodecNames \cup {SqlRow}, v \in Settings}
       \cup {WithoutRowCodec(s, i) : i \in here})
    \cup {Use(s, i) : i \in here}
    \cup (IF s.version = MaxSchema THEN {} ELSE {SignalSchemaChange(s)})

(* What the calls asked for: of a field and key, the last call decides.    *)
Asked(calls, f) ==
  LET last(k) == CHOOSE n \in DOMAIN calls : /\ calls[n].field = f /\ calls[n].key = k
                   /\ \A m \in DOMAIN calls : calls[m].field = f /\ calls[m].key = k => m <= n
      keys == {calls[n].key : n \in {m \in DOMAIN calls : calls[m].field = f}}
  IN [k \in {j \in keys : calls[last(j)].value # "deleted"} |-> calls[last(k)].value]

AsAsked(s) ==
  /\ \A i \in DOMAIN s.objects : LET o == s.objects[i] IN
       /\ \A f \in MergedFields : o.merged[f] = Asked(s.given[i], f)
       /\ \A f \in PlainFields : o.plain[f] = LET a == Asked(s.given[i], f) IN IF f \in DOMAIN a THEN a[f] ELSE Defaults
       /\ s.maps[o.codecs] = Asked(s.given[i], "codecs")
  /\ s.used.of # 0 =>
       Asked(s.given[s.used.of], "codecs") =
         IF s.used.ctx = NoContext THEN Empty ELSE s.maps[s.contexts[s.used.ctx].spec]
  /\ s.used.ctx # NoContext => s.contexts[s.used.ctx].version = s.used.at
=============================================================================
