# A TLA+ model of the Gel JavaScript client and its packages

This project specifies and model-checks the driver of the repository and the
packages around it: the client's pool, its transactions and their retries, how
connections are made and queried, the values that travel over them, the query
builder, the authentication packages, the AI packages and the CLI wrapper. The
safety of the queue, the pool, transactions, connecting, querying and the
authentication packages is also proved, and so is that of the LRU cache, the
wire buffer, the options, the configuration, the AI packages and the CLI
wrapper. Paths and line numbers are those of the repository's `packages/`; `PROJECT.json` maps every definition to its lines.

## 1. The system

`gel-js` is a monorepo. Its core is the driver `gel`; around it are a query
builder and code generators (`generate`), authentication (`auth-core` and one
package per web framework), AI helpers (`ai`, `vercel-ai-provider`) and command
line tools.

| component | state it keeps | operations | what makes it correct |
|---|---|---|---|
| `LifoQueue` (`gel/src/primitives/queues.ts`) | three arrays: promises, resolvers, rejecters | `push`, `get`, `cancelAllPending`, `length`, `pending` | the arrays stay in step; last in first out for items, first come first served for consumers; no promise lost |
| client pool (`gel/src/baseClient.ts`) | `_closing`, `_queue`, `_holders`, `_suggestedConcurrency`; per holder `_connection`, `_inUse` | `acquireHolder`, `ensureConnected`, `getNewConnection`, `release`, `close`, `terminate`, and the calls of `Client` | a holder is with one call at a time and never lost; nothing starts after `close`; everybody is answered |
| transactions (`transaction.ts`, `baseClient.ts:129-177`) | `_state`, `_opInProgress`, `_rawConn`; `iteration`, `commitFailed` | `_startTransaction`, `_runOp`, `_commit`, `_rollback`, `_waitForConnAbort`, the retry loop | a block takes effect at most once, in its own transaction; the next call finds a clean connection |
| connection (`baseConn.ts`, `rawConn.ts`) | `connected`, `_abortedWith`, `serverXactStatus`, `messageWaiter`, `buffer`, `connAbortWaiter` | `fetch`, `_waitForMessage`, `_onData`, `_onClose`, `_onError`, `resetState`, `close` | each request gets its own answer; a waiter is rejected however the connection ends |
| connecting (`rawConn.ts`, `retry.ts`, `scram.ts`) | `connWaiter`, timers, handshake state | `retryingConnect`, `connectWithTimeout`, `connectHandshake`, `_authenticateWithSASL` | an attempt ends; a retry leaves no socket; the server has proven itself |
| query retry and caches (`baseClient.ts:179-224`, `baseConn.ts`) | LRU per connection, state codec, codec context | `retryingFetch`, `_parse`, `_executeFlow`, `getQueryCapabilities` | writes are not repeated; a cached codec never reads rows of another type |
| HTTP connection (`fetchConn.ts`, `utils.ts`, `httpScram.ts`) | the cached token | `HTTPSCRAMAuth`, `query`, `execute` | as over TCP |
| wire buffers, LRU (`gel/src/primitives/`) | chunks of bytes; map and linked list | feed, take, read; get, set, delete | framing does not depend on the chunks; map and list agree |
| codecs and registry (`gel/src/codecs/`) | two LRUs of codecs | `buildCodec`, `encode`, `decode` | a codec reads what the server sends, whatever was described before |
| options (`options.ts`, `codecs/context.ts`) | immutable objects that share maps | the `with...` methods, `makeCodecContext` | each object has the settings of its own chain of calls |
| configuration (`conUtils.ts`, `credentials.ts`) | `ResolvedConnectConfig` | options, environment, DSN, credentials, project | first source wins; strict security is never lowered |
| values (`datatypes/`) | none | constructors, texts, binary forms | a value survives the round trip |
| query builder (`generate/src/syntax`, `edgeql-js`) | maps of expressions and scopes | `e.*`, `toEdgeQL`, `cardutil`, `e.op` | names are bound where they are used; types say how many elements come |
| auth packages (`auth-core`, `auth-nextjs`, `-remix`, `-sveltekit`, `-express`) | cookies in the browser, flows in the server | route handlers and actions | a session belongs to the browser that began it |
| AI packages (`ai`, `vercel-ai-provider`) | the stream being read | `doGenerate`, `doStream`, `streamRag` | the answer arrives whole and in order, or as an error |
| CLI wrapper (`gel/src/cli.mts`) | a cache directory | find, download, run | never runs half a download; wrappers do not launch each other |
| reflection and system queries, generators' output, scaffolding | none | fixed queries, text, copies of files | not modelled (section 7) |

How they interact. A `Client` call gets a holder from the pool's queue, the
holder gets its connection (`retryingConnect` makes one if it has none or a
closed one), the call fetches on it, alone (`retryingFetch`) or in a transaction
with retries, resets it and puts the holder back. A fetch looks for its codecs in the
connection's cache, or has them built from what the server describes by the
registry, with the codec context and the state of the call's options. The
server's settings, learnt by connecting, resize the pool. `close()` dismisses
the waiting calls and waits, holder by holder, for the others. Socket events end
connections at any time; their effect reaches a call through the rejected
`messageWaiter` or, in a transaction, through `connAbortWaiter`. The auth, AI and
query builder packages stand on top: they only use the client's public calls, or
HTTP.

The driver is single threaded. What is hard is what can happen between two
turns of the event loop: other calls, socket events, a schema change, a second
`close()`, and blocks of user code that go on running after the driver has given
up on them. In the auth packages it is the order in which a browser's requests
are answered; in the CLI it is two launches and a killed one; in the rest it is
long sequences of legal calls and the edges of numbers and dates.

## 2. Modules

    ItemQueue      what a queue of holders promises          AtMostOnce    what transaction() promises
        ^      \                                                 ^
     implements  operators of                                implements
        |          \                                             |
    LifoQueue    ClientPool                                  Transaction --extends--> RawConnection
        |            |   \                                       |
    MCLifoQueue  MCClientPool  ClientPoolProofs             MCTransaction
    LifoQueueProofs extends LifoQueue, TransactionProofs Transaction, QueryingProofs Querying

    Connecting <-- FetchConnection <-- Querying <-- MCQuerying          (each extends the one before)

    AuthCore <-- AuthRoutes <-- NextAuth, NextAppAuth, RemixAuth, SvelteKitAuth, ExpressAuth
                                   all five composed in AuthSystem <-- MCAuth, AuthProofs

    LRU, MessageBuffer, Options, Configuration, Cli, Rag
                                   composed in Structures <-- StructureProofs <-- InputProofs
    LRU <-- Codecs      Cardinality <-- OperatorTypes <-- Expressions
    Structures, Codecs, Expressions, WithBlocks, Temporal, Numbers, Geometry
                                   all composed in Sequential <-- MCSequential

*One step is the code between two awaits.* The variables have the names of the
fields, the actions those of the methods; where a method awaits in the middle,
the action that resumes it has a name of its own (`CloseDone`, `Committed`).

### The pool and its transactions

**LifoQueue** has a variable per array and `settled`/`taken` for the promises:
a promise is an identity, and `resolvers`/`rejecters` hold the promise each
function settles. **ItemQueue** is the abstract queue: `stack`, `waiters`,
`got`. The refinement mapping reads the item of a kept promise for `stack` and
the consumer of a waiting one for `waiters`.

**ClientPool** uses the operators of ItemQueue as its `_queue`. `pc[p]` says
where a call stands; `holds[p]` is the holder in its local variable, `inUse`,
`conn` and `closeStage` are per holder: `_inUse`, the fate of `_connection`, and
what `_waitUntilReleasedAndClose()` is doing with it. Ops stand for every method
of `Client` that acquires a holder; `Awaits` makes the block of one call await
another. `Release` includes `resetState()`, whose inside is in Transaction.
Whether a call retries is a free choice here; Querying and Transaction have the
decisions. A connection attempt succeeds, fails or hangs (`HandshakeHangs`): the socket
was closed in the handshake, which `_onClose()` tells nobody (`rawConn.ts:133`), or the server
fell silent and the time-out's `destroy()` found nothing left to end. The call then stays where it is,
with its holder. Transaction has the same action.

**RawConnection** is the connection as seen by those who await its `fetch()`,
and the server's session. A request and its answer are one unit each. `waiter`
is who awaits `messageWaiter`; an answer goes to whoever that is *now*, or to the
`buffer`. `answered` records whose answer it was, for the property. The server is
the environment: it answers requests in order and follows the protocol's status
machine (`PossibleReplies`). **Transaction** extends it with `transaction()`, one
`TransactionImpl` per iteration, and the user's block as a process of its own,
which survives when `_waitForConnAbort()` wins the race. **AtMostOnce** states
what the caller is promised: Transaction implements it with `applied` read from
the server's commits and `outcome` from what the call returned.

### Connecting and querying

**Connecting** is `retryingConnect()` around `connectWithTimeout()`: the socket's
events, the time-out's callback, the TLS and ALPN checks, the messages of
the handshake (version, authentication, settings) and the SCRAM exchange.
`progress` is where the attempt stands, `stage` where the handshake does, `proof`
what the server has shown of itself, `leftOpen` counts the sockets of finished
attempts that nobody closed. Cryptography is a verdict: a signature is right or
it is not. **FetchConnection** adds the other transport, where to connect is to
obtain a token over HTTP, and which keeps the token. **Querying** is one holder
that is asked the same query again and again: `retryingFetch()`, `fetch()` with
its cached codecs, `_parse()`, `_executeFlow()`, and the server's schema. A type
descriptor, and the codec built from it, is *the number of the schema change
that made it*: rows carry the number they were written under, so that "read by
the right codec" is an equation. The server's messages are delivered one by one,
and a schema change, a loss or an HTTP failure may come between any two.

### The auth packages

**AuthCore** has the calls of `auth-core` to the auth server as functions on the
server's flows: each returns the outcomes the server and the network may give.
**AuthRoutes** has the shapes the frameworks share: a request, an answer, the
cookies an answer writes. **NextAuth**, **NextAppAuth**, **RemixAuth**,
**SvelteKitAuth** and **ExpressAuth** translate the route handlers and actions of
one package each, with the cookies it writes, their life and attributes, and
what becomes of them when the application's callback throws or redirects.
**AuthSystem** composes them: a request is handled when it is sent, with the cookies the
browser has then; its answer is delivered later and answers overtake each other;
links in mails are opened in any browser, any number of times; time passes and
cookies expire.

### The parts that stand alone

**Sequential** runs each of these from its own initial states. They share a run
because each is deterministic given its calls or events; `part` says which one
a behaviour is about. **Structures** holds the parts about which theorems are
proved (the first four below, Rag and Cli), with a next-state relation of their own;
Sequential extends it with the others, some of which are RECURSIVE operators,
which the prover does not take.

- **LRU**: the map and the doubly linked list of `lru.ts`, a pointer at a time,
  against a sequence of the most recently used.
- **MessageBuffer**: `ReadMessageBuffer`, its ring of chunks and its
  `takeMessage()` loop, against the messages that were sent.
- **Options**: every `with...` method on a heap of shared maps, and the cached
  codec context.
- **Configuration**: `parseConnectDsnAndArgs()` with its compound parameters. A
  value is the name of the source it came from.
- **WithBlocks**: the walk of `toEdgeQL.ts` that counts references and chooses
  the `with` block of each repeated expression, then the rendering, of which the
  scope of names is kept. A query is built one call of the builder at a time.
- **Cardinality**: `cardutil`, once as the functions that run and once as the
  TypeScript types of the same names. **OperatorTypes**: the classes into which
  `generateOperatorTypes.ts` sorts the server's operators, the signatures it
  writes and the overload that is found at run time. **Expressions**: the
  functions of the builder; each expression carries its run-time cardinality,
  its typed one and the numbers of elements the server may return.
- **Temporal**, **Numbers**, **Geometry**: dates and times, durations, memory,
  decimals, 64-bit integers, sparse vectors, geometries: constructors, binary
  forms, texts and their parsers.
- **Codecs**: the registry with its two caches, and every codec of containers,
  arguments and globals, on messages of cells.
- **Rag**: the request to the AI extension and the stream of its answer, event
  by event, to the SDK's model and to `streamRag()`.
- **Cli**: the search in `PATH`, the choice of a package from the index, and the
  download into a cache that overlapping launches share.

## 3. Runs

| run | question | bounds | result |
|---|---|---|---|
| `lifo_queue` | are the arrays in step, is no promise lost, is it an ItemQueue | 3 items, 3 consumers, 6 promises | holds, 488 states |
| `pool_safety` | exclusive holders, none lost, truthful `_inUse`, nobody waits in vain, close stays closed | 3 calls, 1 `ensureConnected`, 1 `close`, 1 `terminate`, growth from 1 to 2 holders, 2 attempts | holds, 554 928 states |
| `pool_liveness` | is every call answered, does `close` resolve | a block that awaits another call, growth from 1 to 2 holders; 2 `close`, 1 `terminate`, 1 attempt | holds, 127 677 states |
| `pool_close_leak` | is every connection closed after `close` | 2 calls, 1 `ensureConnected`, 2 holders | violated |
| `tx_safety` | own answers, clean release, own transaction, at most once | 2 calls, 2 attempts, 1 query per block, 2 connections | holds, 1.97 million states |
| `tx_liveness` | does a call end | 1 call, 3 attempts, 3 connections | holds, 276 872 states |
| `tx_dangling` | may a resolved transaction be uncommitted, after another block left a query in progress | 2 calls | violated |
| `connecting` | is the server proven, are sockets closed, rows readable, state well encoded, writes not repeated, mismatches dealt with; does a call end | 2 calls of one query, 2 attempts, 2 schema changes; TCP with TLS, a Unix socket, HTTP; EdgeQL and SQL | holds, 852 763 states |
| `auth` | whose session is it, does the verifier survive, is a signed-out browser signed out, is `isSignUp` right, is a link spent only where it works | every framework; 2 browsers, 2 flows, 2 answers in flight for one browser and 1 for the other, two times | holds, 1.04 million states |
| `values` | does each part that stands alone do what its reference says | see below | holds, 438 102 states |
| `with_extraction` | is every repeated expression extracted | a literal, two operators, two selects | violated |
| `inferred_type` | does `run()` return the inferred type | sets of leaves | violated |

Why the bounds are enough.

*Queue and pool.* In the queue a promise is needed per item and consumer at
most. In the pool the cases are: a holder kept, handed over, in use, being
connected; a call ahead of and behind another in the line (three calls on one
holder); the pool growing while they wait; closing at each of these points;
`MaxAttempts` 2 gives a first and a last attempt. `MaxHolders` bounds what the
server may suggest. For liveness one attempt is enough in the pool, where a retry is one
more use of the same holder (that retries end is shown by `tx_liveness` and `connecting`), but the
pool must have two holders at times: a connection attempt that hangs keeps one.

*Transactions.* Two calls show what one leaves behind for the next, two attempts
a first and a last, two connections a loss and its recovery, two connections that
are used up the failure to connect; `MaxConnections` makes later connects fail,
`MaxQueries` keeps blocks finite (one query per block is enough for a query in
progress, an error caught by the block, and a late query of an orphaned one).

*Connecting.* A second call finds the caches the first one filled; two schema
changes are what it takes for a codec to be wrong, mended and wrong again; two
attempts give a first and a last. The schema changes as a call begins or while a
request is on its way (`SchemaChanges`): the server looks at it when a connection
is made and when it serves a request, so that a change at any other time is like
one of these.

*Auth.* A second flow is what may overwrite the first one's cookie, a second
browser what may follow its link. The two times are now and four hours later,
between the life of the verifier cookie in three of the packages and in the
fourth. Answers of different browsers do not meet, so it is enough that one
browser waits for two at a time.

*Values.* Numbers are scaled so that their edges are near: a thousand is 10
(`Thousand`), 1024 is 3 (`Kibi`), a group of a decimal has 2 digits instead of 4
(`Group`), a 32-bit word 16 values (`Word`) and 2^21 is 4 (`SafeHigh`). Dates take
every month and day of years around each exception of the calendar. The LRU
holds 3 keys of 4; a query has up to 6 expressions of the builder; an answer of a
model has up to 2 blocks (`MaxBlocks`), of 1 piece of text or 2 of arguments (`MaxPieces`), and a prompt up to
3 messages (`RagRequests`); a download has 2 chunks (`Size`) and 2 launches (`Launches`); a
`PATH` up to 4 places (`Paths`), an index up to 3 packages (`Indexes`). Options are made up
to 3 deep (`MaxOptions`), from two entries of two values (`EntryKeys`, `Settings`). What
the sources of a configuration say (`ConfigInputs`) has each parameter at each level, each
compound option with and without what may conflict in it, and all of a credentials file. The codec registry's caches (`CodecsSize` 5,
`BuildSize` 3) are smaller than the set of types, so that every eviction happens.

Deadlock checking is off where the system really stops (all calls ended, all
bytes read); the queue never stops and is checked.

What the properties leave out, and where. `tx_safety` holds for blocks that await
their queries and keep `tx` to themselves (`Careless = Escaping = {}`), which is
how the documentation uses them; all other hostile behaviour of blocks (throwing
anything, swallowing errors, never awaiting the abort) is in. `CallEnds` exempts
the handshake whose socket the server closed without an error (`Abandoned`), and `CallsEnd` the
connection attempt that hangs. `EveryCallSettles` exempts the call that hangs in one, and the
others once every holder of the pool is kept by such a call (`AllStuck`); `CloseResolves` only the
`close()` that waits for such a holder. So they say what the driver does confine: as long as
one holder is left everybody else is served by it, and an `ensureConnected()` that hangs
delays no `close()`.
`LatestFlowKept` is about two hours, and a flow begun while nothing else of the
browser was in flight. `FlagTellsSignUp` leaves out magic links of three
packages, `QueriesRender` the queries of `with_extraction`, `TypesFit` the
expressions marked `off`, whose signature in the builder is known to say
something else, and `CliFits` overlapping launches and writes that were not on
disk when the wrapper ran the file (`calm`). Each of these exceptions is a
divergence reported in the next section; in the model the behaviour is there.

## 4. Where code and text disagree

The violated runs are the findings of `PROJECT.json`:

- `pool_close_leak`: `ensureConnected()` never acquires its holder, so `close()`
  does not wait for it, and its connection is opened after `close()` resolved.
- `tx_dangling`: a block that returns with a query in progress sends the
  connection back to the pool one answer behind; the next call's transaction
  resolves before the server has processed its commit.
- `with_extraction`: an operand shared by a nested select and an expression that
  is hoisted further out is bound too far in.
- `inferred_type`: `e.set(...list)` is typed `Many` and may run as a single.

Six more can be seen by changing one line of a configuration, or by naming another
property in it; each is violated within seconds:

- `QueriesInOwnTransaction` in `tx_safety.cfg` with `Escaping = {c1}`:
  `TransactionState.FAILED` is never assigned after a failed commit, and a kept
  `tx` queries another transaction.
- `VerifierLastsAWeek` in `auth.cfg`: the verifier cookie of auth-remix, -sveltekit
  and -express lives `1000 * 60 * 24 * 7` ms, 2.8 hours; the comment says "in 7 days".
- `TimeoutEndsConnecting` in `connecting.cfg`: `_onClose()` (`rawConn.ts:133`) tells
  nobody of a close during the handshake, and the time-out aborts a socket that is
  closed already, which has no event left to reject anything.
- `ContextMatchesSchema` in `connecting.cfg`: the codec context keeps types of an
  earlier schema when the connection is replaced (`baseConn.ts:632`).
- `EveryCallSettles` in `pool_liveness.cfg` with `UserConcurrency = 0`: a pool without
  holders is accepted.
- `NetworkFailureRetried` in `tx_liveness.cfg`: `START TRANSACTION`
  (`baseClient.ts:134`) is outside the retry loop's `try`.

Translating the code showed more, which the models contain or leave out as said:

- *Connecting.* The clear-text fallback after `EPROTO` cannot be reached
  (`rawConn.ts:302-312`); the HTTP token is cached without its expiry;
  `waitUntilAvailable` and `connectTimeout` have no effect over HTTP; the memoised
  configuration promise (`baseClient.ts:418`) keeps a transient failure for ever;
  an `AuthenticationError` leaves the rest of the answer in the buffer; the
  capabilities of an SQL query are looked up under another key than they
  are cached under, and a retry ends in a `TypeError`.
- *Configuration.* A `null` parameter still records its source
  (`conUtils.ts:209-225`); `GEL_CLOUD_PROFILE` is not read; `tls_ca_file_env` in a
  DSN is silently ignored; `withGlobals` resolves unqualified names with the
  module at serialisation, the reference says at the call.
- *Query builder.* A repeated expression inside a `for` body is refused; a name
  `_` is captured; `InsertUnlessConflict` never pushes its child expressions; an
  alias of an unbound path throws; `limit: 0` and `offset: 0` are dropped.
- *Values.* Years before 1; the last half microsecond of a day is sent as 24:00;
  `Duration.from("P1D")` is a `TypeError` (`datetime.ts:482`); decimal exponents
  that are no multiple of 4 are encoded wrongly (`numerics.ts:99-111`); unsorted
  sparse vectors; `int16` and `int32` wrap; a named argument that does not exist
  is accepted when the count fits (`object.ts:143`); texts of nested empty
  geometries, and of compound curves with only an M, are not read back
  (`postgis.ts:247-276`); multi geometries with nested SRIDs are not decoded.
- *Auth.* Cookies written without `await` (`shared.ts:613`, `:873`); Remix and
  SvelteKit lose the session's cookie when the application's callback throws,
  after the code is spent; auth-express reports a mailed verification as an error
  (`index.ts:356`, `:433`) and its router leaves a resend request without an
  answer (`index.ts:210`); a reset token is spent before `getToken` may fail.
- *AI.* `queryRag` always throws, for `parseRagResponse` (`ai/src/core.ts:237-253`)
  returns the text of a string only where it is none; two OpenAI models are taken
  for Mistral's; the initial arguments of a tool call are never emitted; a
  truncated stream ends `streamRag` silently.
- *CLI.* The wrapper searches `PATH` for its own script name (`cli.mjs`);
  `downloadFile` does not await the end of its writes; a download cut off leaves
  a file that makes every later launch fail; revisions are compared as strings
  (`cli.mts:237`), "9" above "10".

## 5. Fairness

`pool_liveness` and `tx_liveness` assume weak fairness of the continuations (the
event loop runs what is ready), of the answers and events of the server and the
network, and of the user's block. A connection attempt either ends or hangs, and nothing
forces it to end: the time-out does not (`rawConn.ts:133`, `:275`), and by default there is none.
`Step` has the continuations of an attempt that succeeds or fails; once it hangs there is none. In the pool the block that awaits another call is not assumed to end: the
server's idle-transaction time-out, an external action with weak fairness, ends
its session. `connecting` assumes it of the continuations (`GetConnection`,
`GotConnection`, `Deliver`), of timers and time (`OnTimeout`, `TimePasses`, `Wake`),
of the HTTP exchange and of a connected server's answers; not of the handshake:
a server may fall silent in it, and the time-out is what must help. Nothing
forces a call to be made, a failure to happen, or a failure not to happen. `lifo_queue`,
`pool_safety` and `tx_safety`, which check safety only, use the symmetry of their
promises, calls and closers; no run with a liveness property uses any. `auth` and `values` check safety only.

## 6. Proofs

Every safety property that `lifo_queue`, `pool_safety`, `tx_safety`, `connecting` and
`auth` check is also proved, for every set of calls, consumers, attempts, connections,
queries, schema changes, browsers, flows and times that the assumptions on the constants allow, and so are the two
refinements. Of `values` six are: the cache, for every capacity and set of keys; the wire buffer, for
every stream of messages; the options, for every set of fields, entries and values; the
configuration, for everything its sources may say; the AI packages, for every request and
every number of blocks and pieces of an answer; the CLI, for every `PATH`, index of
packages, size of the download and set of launches. TLC evaluates the assumptions
(`PoolAssumption`, `DistinctValues`, `ConnectionAssumption`, `TransactionAssumption`,
`ConnectingAssumption`, `QueryingAssumption`, `FrameworksAssumption`, `FlowsAssumption`,
`ClocksAssumption`, `OptionsAssumption`, `StructuresAssumption` with `CliAssumption`) on every
run of the module they belong to. They say what kind of thing a constant is: a type is
a byte that is not 0, a length fits into 31 bits, a level of the configuration has its fields, a request
to a model is of the SDK's types: images come from the user, calls from the assistant, results from tools.

| theorem | module | statement |
|---|---|---|
| `TypeCorrect` | `ClientPoolProofs` | `Spec => []TypeOK` |
| `HoldersExclusive` | `ClientPoolProofs` | `Spec => []Exclusive` |
| `HoldersKept` | `ClientPoolProofs` | `Spec => []NoHolderLost` |
| `InUseTrue` | `ClientPoolProofs` | `Spec => []InUseTellsTheTruth` |
| `WaitingIsSound` | `ClientPoolProofs` | `Spec => []NobodyWaitsInVain` |
| `ClosedToNewCalls` | `ClientPoolProofs` | `Spec => NoAdmissionAfterClose` |
| `ClosedForGood` | `ClientPoolProofs` | `Spec => []ReleasedStayClosed` |
| `ArraysAlwaysInStep` | `LifoQueueProofs` | `Spec => []ArraysInStep` |
| `NoPromiseEverLost` | `LifoQueueProofs` | `Spec => []NoPromiseLost` |
| `LifoQueueIsItemQueue` | `LifoQueueProofs` | `Spec => ImplementsItemQueue` |
| `TransactionTypes` | `TransactionProofs` | `Spec => []TypeOK` |
| `AnswersAlwaysMatch` | `TransactionProofs` | if `Orderly`, `Spec => []AnswersMatch` |
| `AlwaysReleasedClean` | `TransactionProofs` | if `Orderly`, `Spec => []ReleasedClean` |
| `QueriesAlwaysInOwnTransaction` | `TransactionProofs` | if `Orderly`, `Spec => []QueriesInOwnTransaction` |
| `ResolvedIsCommitted` | `TransactionProofs` | if `Orderly`, `Spec => []ResolvedMeansCommitted` |
| `PromiseKept` | `TransactionProofs` | if `Orderly`, `Spec => TakesEffectAtMostOnce` |
| `ServerAlwaysProven` | `QueryingProofs` | `Spec => []ServerProven` |
| `NoSocketLeft` | `QueryingProofs` | `Spec => []RetriesLeaveNoSocket` |
| `RowsAlwaysReadable` | `QueryingProofs` | `Spec => []RowsReadable` |
| `StateAlwaysWellEncoded` | `QueryingProofs` | `Spec => []StateWellEncoded` |
| `AlwaysWritesOnce` | `QueryingProofs` | `Spec => []WritesOnce` |
| `MismatchesAlwaysHidden` | `QueryingProofs` | `Spec => []MismatchesHidden` |
| `SessionsAlwaysOwn` | `AuthProofs` | `Spec => []SessionsAreOwn` |
| `SignedOutForGood` | `AuthProofs` | `Spec => []SignedOut` |
| `FlagTells` | `AuthProofs` | `Spec => []FlagTellsSignUp` |
| `LatestFlowAlwaysKept` | `AuthProofs` | `Spec => []LatestFlowKept` |
| `LinksSpared` | `AuthProofs` | `Spec => LinkSparedElsewhere` |
| `CacheMostRecent` | `StructureProofs` | `StructuresSpec => []CacheIsLRU` |
| `OptionsAlwaysAsAsked` | `StructureProofs` | `StructuresSpec => []OptionsAsAsked` |
| `CliAlwaysFits` | `StructureProofs` | `StructuresSpec => []CliFits` |
| `FramingAlwaysExact` | `InputProofs` | `StructuresSpec => []FramingExact` |
| `FirstSourceAlwaysWins` | `InputProofs` | `StructuresSpec => []FirstSourceWins` |
| `RagAlwaysFits` | `InputProofs` | `StructuresSpec => []RagFits` |

Each inductive invariant below was checked by TLC, as an invariant of the run of
its module, before it was proved, except `Framed`, which speaks of positions in the
stream that TLC would have to search for; each proof has one lemma or step per action.

**The pool.** The first four are not inductive alone. `Exclusive` needs to know that a holder pushed
back is one its call really held, hence that `pc`, `holds` and `got` agree
(`PcAgrees`), that a waiting call has nothing (`WaitersAgree`), and that holders
not created yet are nowhere (`Created`), or a resize would duplicate them.
`NoHolderLost` needs `Exclusive` when a holder is handed over, and
`InUseTellsTheTruth` needs both. `IInv` is their conjunction. The lemmas come in
three layers: what one queue operation does to the places of holders
(`PopFacts`, `GetType`, `PushType`, ...), what a step that performs it does to
`Placed` (`GetStep`, `PushStep`, `TakeStep`, `CancelStep`, `ResizeStep`, and
`QuietStep` for steps that move no holder), and one lemma per action with effects
of its own. `NextInv` combines them, one step per action.

The second part of the module adds to `IInv` that a `close()` under way has set `_closing`
(`ClosingAgrees`); `NobodyWaitsInVain` is then inductive, and because a closing
client has nobody in line, a release, a resize or an error path can hand a
holder to nobody (`Admits`), which is the action property. The third adds
what `close()` knows of each holder (`CloseAgrees`): one it waits for is in use,
one that was released since is in nobody's hands. By `Admits` nobody can be
handed it again (`HandedStep`), so no call can open a connection for it once
`close()` has closed the one it has.

**The queue.** That the arrays stay in step is not inductive without what they
hold: `LInv` says that a promise in `promises` has its item and is nobody's, that
one in `resolvers` has none and belongs to exactly one consumer, that an item is in
one place, and that of the two sides one is empty: `push()` would otherwise leave
an item beside a waiting consumer. The counts that `NoPromiseLost` states of
`length` and `pending` follow by bijections between the arrays and the sets they
count (`WaitingCounted`, `KeptCounted`). The refinement has one lemma per action
(`PushToWaiterMaps`, ...), each of which shows that the mapped `stack`, `waiters`
and `got` take the step of the same name of ItemQueue: the order of the
arrays is what it turns on. Together with the pool's theorems, which use
ItemQueue's operators, this joins the pool to the three arrays.

**Transactions.** The properties are about a wire that several parties share.
`Orderly` says that the blocks await their queries and do not use `tx` after
transaction() has ended (`Careless` and `Escaping` are empty). Nothing in the code
enforces it, and it is not a convenience: `tx_dangling` shows that one query left
in progress makes a call resolve that was not committed. `TransactionTypes`
does not need it. Under it, `IInv` says who may be on the wire: at most one request
or answer, of the fetcher that awaits it (`WireAgrees`), which is transaction()
itself at the point of its code where it sent it, or the current attempt's block
(`WaiterAgrees`). A block that goes on after `_waitForConnAbort()` gave its attempt
up has lost its connection (`BlocksAgree`), so what it still sends is refused. Then what the
driver believes of the session is so whenever nothing is on its way, and the
session is that attempt's from START TRANSACTION to COMMIT (`SessionAgrees`);
and what the server committed is what the call was told, is about to hear, or was
lost with a connection whose COMMIT is never retried (`CommitsAgree`). The refinement maps `applied` to the server's commits:
`CallerStep` and `AppliedOnce` say which step each action is of AtMostOnce.

**Connecting and querying.** `ConnectInv` ties the stage of the handshake to what the
server has proven: SCRAM may be left only with the server's signature verified
(`ProofAgrees`), and a socket is open only while an attempt is under way, whichever of
time-out, error and close comes first. It was here that the proof did not go
through as the model stood: `OnError` could fire for a socket that did not exist,
and it now has the guard that the event implies. `QueryInv` describes the answers on their way
(`InboxAgrees`: rows come last, after the description they were made for or under
the codec the connection holds), the request before them (`RequestAgrees`),
the caches (`StateAgrees`, `VersionsAgree`, `ArgsAgree`) and what the server has
written of a call that may yet be retried (`WritesAgree`). `Answers` and
`ServeKept` are about the server's reply, the lemmas ending in `Read` about the
driver's reading of one message.

**Auth.** The argument has two halves. The first is about the packages, and has no
states in it: the lemmas of AuthCore say what each call to the server may do to a
flow (`Starts`, `Ends`), and from them five sets of lemmas, one per package, show
that each of its routes answers in one of four ways: it begins the flow it drew
(`Started`: the cookies it writes name that flow), it ends the flow its code
is of (`Ended`: it writes that flow's session, removes the verifier, and does nothing
at all for a browser without one), it signs out (`Left`) or it does nothing
(`Idle`). `EveryPackage` joins them, so that what follows never asks which package
it is. The second half is `AuthInv`: a cookie in a browser, or in an answer on its way
to it, names a flow that was begun there (`CookiesAgree`, `Sound`); a browser
that was signed out has neither session cookie (`OutAgrees`); the verifier of the
latest flow is in its browser, and nothing on its way removes it, unless the flow is
over for good (`LatestAgrees`), which is where "nothing else in flight" of the
property is needed. `SentKept` shows that any request keeps it, `DeliverKept` that an
answer does in whatever order it arrives, `TickKept` that a verifier outlives
the two hours. One definition changed on the way: the CASE by which `Deliver` kept
track of the latest flow had overlapping guards, which TLC reads in order and
TLA+ does not.

**Recursive functions.** The library's induction takes a predicate as a parameter,
which no installed prover instantiates. `Induction` states it of a set instead: a set that has 0 and,
with each number, the next, has all natural numbers; it follows from `Least`, and
that from the well-foundedness of `<`. A loop of the code is a function of the number
of its turns in the model; that this function is what its recursive equation says
(`ReadTurnsExist`, `TurnsExist`, `BytesExist`, `MapsExist`, `BestExists`, `LastCallExists`, `RowExists`) and what
holds after n turns are then two inductions over sets of numbers.

**The cache.** `Agrees`, which `CacheIsLRU` states, walks the list in both directions and is no use as an
induction hypothesis. `Linked` says the same pointer by pointer: the n-th node of the list has the n-1st
and the n+1st as its neighbours, the ends are `head` and `tail`, and the map has just
those keys. `MoveLinked`, `PushLinked` and `DropLinked` are about what `get` and `set` do to the
pointers (an entry moved to the front from the end or the middle, one put there, the oldest dropped), `LinkedAgrees`
about the two walks.

**The options.** Two objects may share a map of codecs, and a cached context belongs to one
version of one map. `Heap` says which objects, maps and contexts there are and that the context
an object keeps was made from the map it still has, at the version of the schema it is kept with
(`CacheFits`); `AllAsked`, that what each object has is what its own chain of calls asked for.
What a chain asks for is defined by the last call that sets an entry, and `AskedAppend` says what
one call more does to it; `CloneAsked`, `MergeAsked`, `DropAsked`, `SignalAsked` and `UseAsked`
are one per method.

**The wire buffer.** `Framed` says where one is in the stream: `k` messages begin at known
positions (`Laid`), the one being read is the k-th and as much of its header as has been
read is right (`Reading`), the chunks still held are the bytes of the stream between `pos`
and `fed` (`Held`), and what is to come are the bytes behind. `FeedHeld` and `ReadHeld` are
about the chunks, `TakeTypeReads`, `TakeLengthReads`, `TakeMessageReads`, `ConsumeReads` and
`TakeDataReads` about the header, the rest and the row of data messages. That all was
read in the end follows by where the last message ends (`FramedExact`).

**The configuration.** A source takes effect by `Takes`: each parameter that was not there yet is the one it
offers. `SetSourceTakes`, `DsnTakes`, `CredentialsTake`, `AddressTakes`, `CloudTakes` and `ProjectTakes`
show it of each kind of source, whatever order its own code goes in; where the code may take something
that conflicts it stops with an error, and nothing is claimed. `Summary` says that after a
list of sources each parameter is the first that was offered in the list (`IsFirst`), with one
lemma for a source more (`SummaryGrows`); `ResolveSummary` follows the three levels, and
`ResolvedAsOffered` reads the property off it. Here `IsLevel` had to be said of the inputs: that
a level has a value or None for every parameter is not something the code checks.

**The AI packages.** A request is a case distinction on the choice of tools (`PreparedFits`) and an
induction on the prompt: `TurnIsKept` says that a message of the SDK becomes messages with just its
calls and results, `PromptIsKept` that so does the whole prompt. It rests on what a
concatenation of sequences does with one sequence more (`RowOfTwo`), from the recursive function by which
the library defines it. `MaxBlocks` and `MaxPieces` are in no hypothesis. The stream's inductive invariant, `RagInv`, has two
parts. `Intact`, as long as nothing was garbled: for each open call the transformation has the arguments the
server has sent of it so far (`Opened`), the calls it passed on are those the server ended, in
that order, and it has said why the answer stopped only if it did. `Honest`, afterwards: an error was
told, the iteration is over, and what it yielded is how the events began.
`TransformTells` says what each event adds for the SDK, `SentKeeps` what it does whoever sends
it, and one lemma per event (`StartKeeps` to `FaultKeeps`) the rest.

**The CLI.** `PathIsFit` is a case distinction. For packages, the two loops of the code
collect one map each and keep the best entry (`Collected`, `Best`): after n turns the result is right for
the first n. The launches have an inductive invariant: as long as everything is calm, only one
is under way (`Alone`), its descriptor, the bytes it received and those on the disk agree with how far it
is (`LaunchAgrees`), a file that may be executed is whole, and one that may not is being
downloaded unless a launch was hurt (`Fails`). Each action is one lemma
over `After`, which says what a step of one launch leaves of the others.

Model-checked only: liveness (fairness and ENABLED are out of the prover's
reach); and the parts of `values` that stay in Sequential. `QueriesRender`, `ValuesSurvive` and
`CodecsFit` are about RECURSIVE operators (WithBlocks, Numbers, Geometry, Codecs), in whose
modules the prover has no SMT backend. `TypesFit` has no
constant: its run is complete already. Type invariants are proved where a type tells values apart (the pool
and the transactions).

## 7. Not modelled, and what the models leave out

Not modelled:

- Reflection and system queries (`generate/src/genutil`, `gel/src/reflection`):
  fixed queries that introspect a schema, and maps over their results. They keep
  no state and decide nothing.
- The generators' output: the text of the files, element types and casts, the
  rendering of globals, formatting.
- The error classes, which are generated from a table; codes that decide
  something are members of small sets in Querying and Transaction.
- The project templates of `create`, files that are copied and commands that
  are run once, and the `codemod`, which renames imports in source text.
- In the AI packages embeddings, answers in one piece and log probabilities; in
  the configuration the search paths of each platform; browser-side WebAuthn
  helpers, which only begin requests that are modelled.

Left out of what is modelled:

- Messages, in RawConnection: one request is one unit on the wire; Querying has
  Parse, Execute and the messages in between, for one holder and outside
  transactions. `buffer.feed()` does not throw.
- Requests still under way when a connection is lost are dropped; the server
  may have processed any prefix of them before, so a lost answer is covered.
- The refusal of a request on a connection the holder has replaced is modelled
  as "closed", whatever ended that connection.
- `close()`'s error path: nothing in `_waitUntilReleasedAndClose()` throws in the
  modelled driver. The warning after 60 seconds is only text.
- The wait of a back-off is a step that may take any time; its length, log
  messages and warning handlers are left out.
- `terminate()` in Connecting: a call in its back-off that reconnects after
  `terminate()` (`baseClient.ts:538`) and an attempt that completes after it (`:436`)
  are in ClientPool only as what they do to holders.
- Floats: fractions handed to `Duration.from`, the text of `RelativeDuration`'s
  microseconds, coordinates (small integers and NaN). Byte order, indentation and
  truncation of geometries.
- Two reductions of Expressions: an expression keeps one computed pointer, and
  one already marked `off` is not built upon.

## 8. Plan

1. Recursive functions instead of RECURSIVE operators in Numbers and Codecs, then the round
   trips as theorems, with `Induction`.
2. The composition of ClientPool with Connecting's attempts, for the two
   interleavings of `terminate()` of section 7.
