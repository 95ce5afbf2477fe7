------------------------------- MODULE Querying -------------------------------
(***************************************************************************)
(* One holder's query(): retryingFetch() of baseClient.ts, fetch(),        *)
(* _parse() and _executeFlow() of baseConn.ts with the codecs they cache,  *)
(* the codec context and state that Options keep, on connections that are  *)
(* made (Connecting, FetchConnection) and lost, against a server whose     *)
(* schema changes.                                                         *)
(*                                                                         *)
(* A type descriptor, and the codec built from it, is the number of the    *)
(* schema change that made it; 0 is no codec (NULL_CODEC, INVALID_CODEC).  *)
(* All calls are of one query text, which takes parameters or does not,    *)
(* and with the same Options.                                              *)
(***************************************************************************)
EXTENDS FetchConnection, Sequences

CONSTANTS
  Queries,      \* lang: its language; args: it has arguments; state: its Options are
                \* not those of isDefaultSession()
  MaxCalls,     \* bound: calls of query()
  MaxAttempts,  \* the attempts of the RetryOptions
  MaxChanges    \* bound: schema changes

ASSUME QueryingAssumption ==
  /\ Queries \subseteq [lang : {"EdgeQL", "SQL"}, args : BOOLEAN, state : BOOLEAN]
  /\ {MaxCalls, MaxAttempts, MaxChanges} \subseteq Nat

Languages == {"EdgeQL", "SQL"}
Versions == 1..(MaxChanges + 1)
Codec == 0..(MaxChanges + 1)
Entry == [in : Codec, out : Codec, writes : BOOLEAN]
NoEntry == [in |-> 0, out |-> 0]
Nothing == [kind |-> "none"]

VARIABLES
  schema,      \* external: the server's types in, out and state, and whether the query
               \* writes: "always", "never", or "since" a change made it
  changes,     \* external: how many changes there were
  written,     \* external: how often this call has taken effect
  calls, query, iteration,
  pc,          \* "idle", "begin" (_getConnection), "connect", "parse" or "execute"
  again,       \* fetch(): the _executeFlow() after a ParameterTypeMismatchError
  refetched,   \* BaseFetchConnection.fetch(): the second super.fetch()
  outcome,     \* what the last call came to
  inCodec, outCodec,
  stateCodec, stateCache,   \* stateCache: the descriptor its bytes are encoded by
  queryCodecCache,
  codecContext,             \* warm: the types it resolved, 0 before it met any; stale:
                            \* schemaVersion has grown since
  request, inbox, error,
  row          \* the last row read: how it was written, and what it was read with

schemaVars == <<schema, changes>>
callVars == <<calls, query, iteration, pc, again, refetched, outcome>>
codecVars == <<inCodec, outCodec, stateCodec, stateCache, queryCodecCache, codecContext>>
wireVars == <<request, inbox, error>>
queryVars == <<schemaVars, written, callVars, codecVars, wireVars, row>>
vars == <<connectVars, fetchVars, queryVars>>

Init ==
  /\ config \in Configs
  /\ progress = "none" /\ stage = "none" /\ sock = "none" /\ timer = "off"
  /\ version = 3 /\ proof = "none" /\ late = FALSE /\ leftOpen = 0
  /\ token = FALSE /\ speaks \in IF config.http THEN {2, 3} ELSE {3}
  /\ schema \in [in : {1}, out : {1}, state : {1}, writes : {"always", "never"}]
  /\ changes = 0 /\ written = 0
  /\ calls = 0 /\ query \in {q \in Queries : q.lang = "EdgeQL"} /\ iteration = 1 /\ pc = "idle"
  /\ again = FALSE /\ refetched = FALSE /\ outcome = "none"
  /\ inCodec = 0 /\ outCodec = 0 /\ stateCodec = 0 /\ stateCache = 0
  /\ queryCodecCache = [lang \in Languages |-> NoEntry]
  /\ codecContext = [warm |-> 0, stale |-> TRUE]
  /\ request = Nothing /\ inbox = <<>> /\ error = "none"
  /\ row = Nothing

----------------------------------------------------------------------------
(* Options.signalSchemaChange() and makeCodecContext(): a context of an    *)
(* older schemaVersion is replaced by a new one.                           *)
signalSchemaChange(ctx) == [ctx EXCEPT !.stale = TRUE]
makeCodecContext(ctx) == IF ctx.stale THEN [warm |-> 0, stale |-> FALSE] ELSE ctx

(* Mutant: under the other language. *)
StoreKeySQL == "SQL"

(* Where the connection keeps what a description told it: the language is  *)
(* left out of the key.                                                    *)
StoreKey == "EdgeQL"

(* getQueryCapabilities() = 0, of the connection that failed. *)
KnownReadOnly == queryCodecCache[StoreKey] # NoEntry /\ ~queryCodecCache[StoreKey].writes

Finish(result) ==
  /\ pc' = "idle" /\ outcome' = result
  /\ request' = Nothing /\ inbox' = <<>> /\ error' = "none"
  /\ UNCHANGED <<calls, query, iteration, again, refetched, inCodec, outCodec, stateCodec,
                 stateCache, queryCodecCache, codecContext>>

(* Mutant: a network failure is retried whatever the query does. *)
RetryAnyQuery(err) ==
  IF err \in {"conflict", "closed"} /\ iteration < MaxAttempts
  THEN /\ pc' = "begin" /\ iteration' = iteration + 1
       /\ request' = Nothing /\ inbox' = <<>> /\ error' = "none"
       /\ UNCHANGED <<calls, query, again, refetched, outcome, inCodec, outCodec, stateCodec,
                      stateCache, queryCodecCache, codecContext>>
  ELSE Finish(err)

(* The catch of retryingFetch(). *)
Retry(err) ==
  IF (err = "conflict" \/ (err = "closed" /\ KnownReadOnly)) /\ iteration < MaxAttempts
  THEN /\ pc' = "begin" /\ iteration' = iteration + 1
       /\ request' = Nothing /\ inbox' = <<>> /\ error' = "none"
       /\ UNCHANGED <<calls, query, again, refetched, outcome, inCodec, outCodec, stateCodec,
                      stateCache, queryCodecCache, codecContext>>
  ELSE Finish(err)

(* _encodeParseParams() and the rest of a request up to its first await.   *)
(* The session's state goes with it under the id of its codec; the bytes   *)
(* are cached, and there are none to go with INVALID_CODEC.                *)
Send(kind, in, out) ==
  /\ stateCache' = IF query.state /\ stateCache = 0 THEN stateCodec ELSE stateCache
  /\ request' = [kind |-> kind, in |-> in, out |-> out, version |-> version,
                 tid |-> IF query.state THEN stateCodec ELSE 0,
                 bytes |-> IF query.state THEN stateCache' ELSE 0]
  /\ codecContext' = IF kind = "execute" THEN makeCodecContext(codecContext) ELSE codecContext
  /\ inCodec' = in /\ outCodec' = out
  /\ pc' = kind /\ error' = "none" /\ inbox' = <<>>
  /\ UNCHANGED <<calls, query, iteration, outcome, stateCodec, queryCodecCache>>

(* fetch(): the codecs are looked up with the language in the key; without *)
(* them arguments cannot be encoded, so that the query is parsed first.    *)
fetch(second) ==
  LET entry == queryCodecCache[query.lang]
      unknown == (entry = NoEntry /\ query.args) \/ (stateCodec = 0 /\ query.state)
  IN
  IF query.lang = "SQL" /\ version < 3
  THEN Finish("unsupported")
  ELSE /\ Send(IF unknown THEN "parse" ELSE "execute", entry.in, entry.out)
       /\ again' = FALSE /\ refetched' = second

(* A call, and each further iteration: _getConnection(). *)
Call(q) ==
  /\ pc = "idle" /\ calls < MaxCalls
  /\ q.args = query.args /\ q.state = query.state
  /\ calls' = calls + 1 /\ query' = q /\ iteration' = 1 /\ pc' = "begin"
  /\ again' = FALSE /\ refetched' = FALSE /\ outcome' = "none"
  /\ written' = 0 /\ row' = Nothing /\ leftOpen' = 0
  /\ UNCHANGED <<config, progress, stage, sock, timer, version, proof, late, fetchVars,
                 schemaVars, codecVars, wireVars>>

(* What a new connection has not learnt yet; codecContext is not its own.  *)
NewConnection ==
  /\ stateCodec' = 0 /\ stateCache' = 0
  /\ queryCodecCache' = [lang \in Languages |-> NoEntry]
  /\ UNCHANGED <<inCodec, outCodec, codecContext>>

GetConnection ==
  /\ pc = "begin"
  /\ IF progress = "connected"
     THEN /\ fetch(FALSE)
          /\ UNCHANGED <<connectVars, fetchVars>>
     ELSE /\ IF config.http THEN getAuthenticatedFetch ELSE retryingConnect /\ UNCHANGED fetchVars
          /\ NewConnection
          /\ pc' = "connect"
          /\ UNCHANGED <<calls, query, iteration, again, refetched, outcome, wireVars>>
  /\ UNCHANGED <<schemaVars, written, row>>

GotConnection ==
  /\ pc = "connect"
  /\ \/ progress = "connected" /\ fetch(FALSE)
     \/ progress \in Refused /\ Finish(progress)
  /\ UNCHANGED <<connectVars, fetchVars, schemaVars, written, row>>

(* The steps of retryingConnect(); a state description during the          *)
(* handshake is kept without a signalSchemaChange().                       *)
Handshake ==
  /\ pc = "connect"
  /\ \/ /\ \/ Wake \/ OnError \/ OnClose \/ OnTimeout \/ TimePasses \/ OnGarbage
           \/ \E alpn \in BOOLEAN : OnConnect(alpn)
        /\ UNCHANGED <<fetchVars, codecVars>>
     \/ \E message \in ServerMessages :
          /\ OnMessage(message)
          /\ IF message.type = "s" /\ stage = "messages"
             THEN stateCodec' = schema.state /\ stateCache' = 0
             ELSE UNCHANGED <<stateCodec, stateCache>>
          /\ UNCHANGED <<fetchVars, inCodec, outCodec, queryCodecCache, codecContext>>
     \/ /\ \E ok, sid \in BOOLEAN : HTTPSCRAMAuth(ok, sid)
        /\ UNCHANGED codecVars
  /\ UNCHANGED <<schemaVars, written, callVars, wireVars, row>>

----------------------------------------------------------------------------
(* The server: external *)

(* A change makes new types of one kind, or makes the query write.  The    *)
(* schema is looked at when a connection is made and when a request is     *)
(* served, so that a change at another time is like one before these.      *)
SchemaChanges ==
  /\ changes < MaxChanges
  /\ pc = "begin" \/ request # Nothing
  /\ changes' = changes + 1
  /\ \/ \E kind \in {"in", "out", "state"} : schema' = [schema EXCEPT ![kind] = @ + 1]
     \/ schema.writes = "never" /\ schema' = [schema EXCEPT !.writes = "since"]
  /\ UNCHANGED <<connectVars, fetchVars, written, callVars, codecVars, wireVars, row>>

Writes == schema.writes # "never"
Description == [type |-> "T", in |-> IF query.args THEN schema.in ELSE 0, out |-> schema.out,
                writes |-> Writes]
Error(err) == [type |-> "E", err |-> err]
Sync == [type |-> "Z"]

Readable == ~config.http \/ request.version = speaks
StateKnown == request.tid = IF query.state THEN schema.state ELSE 0
ArgsKnown == request.in = Description.in
Runs == request.kind = "execute" /\ Readable /\ StateKnown /\ ArgsKnown

(* What the server sends for a request it accepts or refuses (verdict).    *)
Answer(verdict) ==
  IF ~Readable THEN <<Error("binary"), Sync>>
  ELSE IF ~StateKnown THEN <<[type |-> "s", state |-> schema.state], Error("state"), Sync>>
  ELSE IF request.kind = "parse" THEN <<Description, Sync>>
  ELSE IF ~ArgsKnown THEN <<Description, Error("params"), Sync>>
  ELSE (IF request.out = schema.out THEN <<>> ELSE <<Description>>)
         \o (IF verdict = "ok" THEN <<[type |-> "D", bytes |-> schema.out], [type |-> "C"], Sync>>
                               ELSE <<Error(verdict), Sync>>)

Takes(verdict) == written' = IF Runs /\ verdict = "ok" /\ Writes THEN written + 1 ELSE written

(* Over HTTP the answer also tells the version (its content type).         *)
Serve(verdict) ==
  /\ request # Nothing
  /\ inbox' = Answer(verdict) /\ request' = Nothing
  /\ Takes(verdict)
  /\ version' = IF config.http THEN speaks ELSE version
  /\ UNCHANGED <<config, progress, stage, sock, timer, proof, late, leftOpen, fetchVars,
                 schemaVars, callVars, codecVars, error, row>>

----------------------------------------------------------------------------
(* Answers: the loops of _parse() and _executeFlow() *)

(* Mutant: the rows that follow a description are read with the old codec. *)
DescriptionUnused(message) ==
  /\ queryCodecCache' = [queryCodecCache EXCEPT
       ![StoreKey] = [in |-> message.in, out |-> message.out, writes |-> message.writes]]
  /\ outCodec' = IF pc = "parse" \/ outCodec = 0 THEN message.out ELSE outCodec
  /\ inCodec' = IF pc = "parse" THEN message.in ELSE inCodec
  /\ codecContext' = makeCodecContext(signalSchemaChange(codecContext))
  /\ UNCHANGED <<stateCodec, stateCache, error, row>>

(* "T": the description is cached.  Only _executeFlow() looks whether its  *)
(* codecs were outdated; it reads the rows that follow with the new one.   *)
OnDescription(message) ==
  LET outdated == \/ outCodec # 0 /\ outCodec # message.out
                  \/ inCodec # 0 /\ inCodec # message.in
      ctx == makeCodecContext(codecContext)
  IN
  /\ queryCodecCache' = [queryCodecCache EXCEPT
       ![StoreKey] = [in |-> message.in, out |-> message.out, writes |-> message.writes]]
  /\ outCodec' = message.out
  /\ inCodec' = IF pc = "parse" THEN message.in ELSE inCodec
  /\ codecContext' = IF pc = "parse" THEN codecContext
                     ELSE IF outdated THEN makeCodecContext(signalSchemaChange(ctx)) ELSE ctx
  /\ UNCHANGED <<stateCodec, stateCache, error, row>>

(* Mutant: the bytes of the old codec are kept.                            *)
StateBytesKept(message) ==
  /\ codecContext' = signalSchemaChange(codecContext)
  /\ stateCodec' = message.state
  /\ UNCHANGED <<inCodec, outCodec, stateCache, queryCodecCache, error, row>>

(* "s": _parseDescribeStateMessage() drops the bytes of the old codec. *)
OnState(message) ==
  /\ codecContext' = signalSchemaChange(codecContext)
  /\ stateCodec' = message.state /\ stateCache' = 0
  /\ UNCHANGED <<inCodec, outCodec, queryCodecCache, error, row>>

(* "D": rows are decoded, which warms the codec context, unless an error   *)
(* came before them.                                                       *)
OnData(message) ==
  IF error # "none" THEN UNCHANGED <<codecVars, error, row>>
  ELSE /\ row' = [kind |-> "row", bytes |-> message.bytes, codec |-> outCodec,
                  ctx |-> IF codecContext.warm = 0 THEN outCodec ELSE codecContext.warm]
       /\ codecContext' = [codecContext EXCEPT !.warm = row'.ctx]
       /\ UNCHANGED <<inCodec, outCodec, stateCodec, stateCache, queryCodecCache, error>>

(* "Z": the flow is over.  A StateMismatchError has it run again; after a  *)
(* ParameterTypeMismatchError fetch() executes once more with the codecs   *)
(* it finds cached, and without them throws a TypeError.                   *)
OnSync ==
  LET entry == queryCodecCache[query.lang] IN
  CASE error = "none" /\ pc = "parse" ->
         Send("execute", inCodec, outCodec) /\ UNCHANGED <<again, refetched>>
    [] error = "none" /\ pc = "execute" -> Finish("ok")
    [] error = "state" -> Send(pc, inCodec, outCodec) /\ UNCHANGED <<again, refetched>>
    [] error = "params" /\ ~again ->
         IF entry = NoEntry THEN Finish("TypeError")
         ELSE Send("execute", entry.in, entry.out) /\ again' = TRUE /\ UNCHANGED refetched
    [] error = "binary" /\ ~refetched -> fetch(TRUE)
    [] OTHER -> Retry(error)

Deliver ==
  /\ inbox # <<>>
  /\ LET message == Head(inbox) IN
     \/ message.type = "T" /\ OnDescription(message)
     \/ message.type = "s" /\ OnState(message)
     \/ message.type = "D" /\ OnData(message)
     \/ message.type = "E" /\ error' = message.err /\ UNCHANGED <<codecVars, row>>
     \/ message.type = "C" /\ UNCHANGED <<codecVars, error, row>>
     \/ message.type = "Z" /\ OnSync /\ UNCHANGED row
  /\ \/ Head(inbox).type = "Z"
     \/ Head(inbox).type # "Z" /\ inbox' = Tail(inbox) /\ UNCHANGED <<callVars, request>>
  /\ UNCHANGED <<connectVars, fetchVars, schemaVars, written>>

----------------------------------------------------------------------------
(* Failures *)

(* A connection is lost, with the request or the rest of its answer; no    *)
(* event comes between connect() and the fetch() that awaited it.          *)
Lost ==
  /\ ~config.http /\ progress = "connected" /\ pc # "connect"
  /\ progress' = "none" /\ sock' = "closed"
  /\ IF pc \in {"parse", "execute"} THEN Retry("closed")
                                    ELSE UNCHANGED <<callVars, codecVars, wireVars>>
  /\ UNCHANGED <<config, stage, timer, version, proof, late, leftOpen, fetchVars, schemaVars,
                 written, row>>

(* An HTTP request fails, before the server has run it or after: the error *)
(* is no GelError or a ProtocolError, and the connection stays.            *)
HttpFails ==
  /\ config.http /\ request # Nothing
  /\ Retry("http")
  /\ \/ UNCHANGED written
     \/ Takes("ok")
  /\ UNCHANGED <<connectVars, fetchVars, schemaVars, row>>

Next ==
  \/ \E q \in Queries : Call(q)
  \/ GetConnection \/ GotConnection \/ Handshake
  \/ SchemaChanges
  \/ \E verdict \in {"ok", "conflict", "error"} : Serve(verdict)
  \/ Deliver \/ Lost \/ HttpFails

Spec == Init /\ [][Next]_vars

(* Timers fire and time passes, the event loop runs what is ready, and a   *)
(* connected server answers what it is asked.                              *)
Fairness ==
  /\ WF_vars(GetConnection) /\ WF_vars(GotConnection) /\ WF_vars(Deliver)
  /\ WF_vars(OnTimeout /\ UNCHANGED <<fetchVars, queryVars>>)
  /\ WF_vars(TimePasses /\ UNCHANGED <<fetchVars, queryVars>>)
  /\ WF_vars(Wake /\ UNCHANGED <<fetchVars, queryVars>>)
  /\ WF_vars(\E ok, sid \in BOOLEAN : HTTPSCRAMAuth(ok, sid) /\ UNCHANGED queryVars)
  /\ WF_vars(\E verdict \in {"ok", "conflict", "error"} : Serve(verdict))

FairSpec == Spec /\ Fairness

----------------------------------------------------------------------------
(* A connection that connectWithTimeout() returns is over TLS, if it is not *)
(* made of HTTP requests (whose scheme follows tlsSecurity), and if the    *)
(* server asked for SCRAM it has proven that it knows the password.        *)
ServerProven == progress = "connected" => (config.http \/ config.tls) /\ proof # "begun"

(* Retrying leaves nothing behind: of all the attempts of a call only the  *)
(* last, which it fails with, may leave its socket open.                   *)
RetriesLeaveNoSocket ==
  leftOpen > 0 => leftOpen = 1 /\ progress \in {"failed", "error"} /\ pc \in {"connect", "idle"}

(* Rows are read with the codec they were written by, whatever the caches  *)
(* of the connection held and however often the schema changed.            *)
RowsReadable == row # Nothing => row.codec = row.bytes

(* The bytes of the session's state go under the id of the codec that      *)
(* encoded them, and the state is never left out once the codec is known.  *)
StateWellEncoded == request # Nothing => request.bytes = request.tid

(* A query that always wrote takes effect at most once per call, through   *)
(* lost connections, conflicts, mismatches and second executions.          *)
WritesOnce == schema.writes = "always" => written <= 1

(* The caller sees errors of its query, of the network or of connecting;   *)
(* a mismatch of types or of protocol versions is dealt with inside, and   *)
(* the TypeError of a missing cache entry is met by SQL queries only.      *)
MismatchesHidden ==
  /\ outcome # "binary"
  /\ outcome = "TypeError" => query.lang = "SQL"
  /\ outcome = "params" => changes > 1

(* A call ends, with schema changes bounded and a time limit for attempts, *)
(* but for the handshake whose socket the server closed without an error:  *)
(* _onClose() tells nobody then.                                           *)
Abandoned == stage # "none" /\ sock = "closed"
CallEnds == (pc # "idle" /\ (config.timeout \/ config.http)) ~> (pc = "idle" \/ Abandoned)

(* What reference.rst promises of the timeout option, with no exception.   *)
TimeoutEndsConnecting == (pc = "connect" /\ config.timeout) ~> pc # "connect"

(* What the comments of baseConn.ts promise: the codec context that reads  *)
(* a row has resolved its types in the schema the row was written under.   *)
ContextMatchesSchema == row # Nothing => row.ctx = row.bytes
=============================================================================
