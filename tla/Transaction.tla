---------------------------- MODULE Transaction ----------------------------
(***************************************************************************)
(* transaction() of ClientConnectionHolder (baseClient.ts), the            *)
(* TransactionImpl of each of its iterations (transaction.ts), and the     *)
(* resetState() that returns the connection to the pool clean.  Calls take *)
(* the holder one after the other: ClientPool shows that it belongs to one *)
(* call at a time.  The connection and the server are RawConnection.       *)
(*                                                                         *)
(* The block of a Careless call may end with a query in progress, that of  *)
(* an Escaping call leaves its tx object to code that queries it later.    *)
(* The other blocks await their queries and keep tx to themselves.         *)
(***************************************************************************)
EXTENDS RawConnection, FiniteSets

CONSTANTS
  Calls,
  MaxAttempts,   \* retryOptions attempts
  MaxQueries,    \* bound: queries one block may make
  Careless, Escaping

ASSUME TransactionAssumption ==
  /\ MaxAttempts \in Nat \ {0} /\ MaxQueries \in Nat
  /\ Attempts = Calls \X (0..(MaxAttempts - 1))
  /\ Nobody \notin Calls
  /\ Careless \subseteq Calls /\ Escaping \subseteq Calls

VARIABLES
  using,         \* the call that has the holder
  pc,            \* where its transaction() stands
  iteration,     \* iteration
  error,         \* err, once caught
  commitFailed,  \* commitFailed
  result,        \* what each call came to: "none" yet, "ok", "failed", "unknown"
  state,         \* _state of each attempt's TransactionImpl
  op,            \* _opInProgress, and for whom: "free", "query", "machinery"
  rawConn,       \* _rawConn: the number of its connection
  block,         \* the user's block: "none", "running", "over"
  queries        \* queries it made

callVars == <<using, pc, iteration, error, commitFailed, result>>
txVars == <<state, op, rawConn, block, queries>>
vars == <<connVars, callVars, txVars>>

Attempt == <<using, iteration>>
Answer == answer[Machinery]

Init ==
  /\ ConnInit
  /\ using = Nobody /\ pc = "free" /\ iteration = 0
  /\ error = "none" /\ commitFailed = FALSE
  /\ result = [c \in Calls |-> "none"]
  /\ state = [a \in Attempts |-> "none"]
  /\ op = [a \in Attempts |-> "free"]
  /\ rawConn = [a \in Attempts |-> 0]
  /\ block = [a \in Attempts |-> "none"]
  /\ queries = [a \in Attempts |-> 0]

Goto(where) == pc' = where

(* transaction() ends: its finally releases the holder. *)
Settle(what) == result' = [result EXCEPT ![using] = what] /\ Goto("release")

SetOp(a, what) == op' = [op EXCEPT ![a] = what]

(* The pool hands the holder to a call (ClientPool: Acquire). *)
Acquire(c) ==
  /\ pc = "free" /\ result[c] = "none"
  /\ using' = c /\ Goto("connect")
  /\ UNCHANGED <<connVars, iteration, error, commitFailed, result, txVars>>

(* _startTransaction() up to _getConnection(): a closed connection is      *)
(* replaced, or connecting fails.                                          *)
GetConnection ==
  /\ pc = "connect"
  /\ \/ /\ connected /\ Goto("reset") /\ UNCHANGED <<connVars, result>>
     \/ /\ Connect /\ Goto("reset") /\ UNCHANGED result
     \/ /\ ~connected /\ Settle("failed") /\ UNCHANGED connVars
  /\ UNCHANGED <<using, iteration, error, commitFailed, txVars>>

(* The attempt never ends, as in ClientPool: the server closed the socket  *)
(* in the handshake without an error, or fell silent with no time-out set. *)
HandshakeHangs ==
  /\ pc = "connect" /\ ~connected
  /\ Goto("hanging")
  /\ UNCHANGED <<connVars, using, iteration, error, commitFailed, result, txVars>>

(* resetState(): the rollback is sent when the connection is dirty. *)
ResetStateIf(dirty, awaiting) ==
  /\ pc \in {"reset", "release"}
  /\ IF connected /\ dirty
     THEN /\ Fetch(Machinery, "rollback", Attempt, connection)
          /\ Goto(IF pc = "reset" THEN "resetting" ELSE awaiting)
     ELSE /\ Goto(IF pc = "reset" THEN "start" ELSE "enqueue")
          /\ UNCHANGED connVars
  /\ UNCHANGED <<using, iteration, error, commitFailed, result, txVars>>

(* Mutants: release() does not await it; a transaction in error counts as over. *)
ResetStateUnawaited == ResetStateIf(xactStatus # "idle", "enqueue")
ResetStateOnlyActive == ResetStateIf(xactStatus = "intrans", "releasing")

(* Called by _startTransaction() and by release(). *)
ResetState == ResetStateIf(xactStatus # "idle", "releasing")

(* Its catch gives the connection up. *)
ResetStateDone ==
  /\ pc \in {"resetting", "releasing"}
  /\ IF Answer # "ok" /\ connected
     THEN ResumeAndAbort(Machinery, "closed") ELSE Resume(Machinery)
  /\ Goto(IF pc = "resetting" THEN "start" ELSE "enqueue")
  /\ UNCHANGED <<using, iteration, error, commitFailed, result, txVars>>

StartTransaction ==
  /\ pc = "start"
  /\ Fetch(Machinery, "start", Attempt, connection)
  /\ rawConn' = [rawConn EXCEPT ![Attempt] = connection]
  /\ Goto("starting")
  /\ UNCHANGED <<using, iteration, error, commitFailed, result, state, op, block, queries>>

(* The TransactionImpl exists once START TRANSACTION succeeded; its        *)
(* failure is thrown outside the try, so nothing is retried.               *)
Started ==
  /\ pc = "starting" /\ Resume(Machinery)
  /\ IF Answer = "ok"
     THEN /\ state' = [state EXCEPT ![Attempt] = "active"]
          /\ block' = [block EXCEPT ![Attempt] = "running"]
          /\ Goto("block") /\ UNCHANGED result
     ELSE Settle("failed") /\ UNCHANGED <<state, block>>
  /\ UNCHANGED <<using, iteration, error, commitFailed, op, rawConn, queries>>

----------------------------------------------------------------------------
(* tx.query(): _runFetchOp() past the checks of _runOp(), which refuses a  *)
(* second operation and one after the end.                                 *)
BlockQueriesOn(a, conn) ==
  /\ block[a] = "running" \/ (a[1] \in Escaping /\ block[a] = "over")
  /\ op[a] = "free" /\ state[a] = "active" /\ queries[a] < MaxQueries
  /\ SetOp(a, "query")
  /\ Fetch(a, "query", a, conn)
  /\ queries' = [queries EXCEPT ![a] = @ + 1]
  /\ UNCHANGED <<callVars, state, rawConn, block>>

(* Mutant: a query goes to the connection the holder has now. *)
BlockQueriesHolder(a) == BlockQueriesOn(a, connection)

BlockQueries(a) == BlockQueriesOn(a, rawConn[a])

BlockAnswered(a) ==
  /\ op[a] = "query" /\ Resume(a)
  /\ SetOp(a, "free")
  /\ UNCHANGED <<callVars, state, rawConn, block, queries>>

BlockMayEnd ==
  /\ pc = "block" /\ block[Attempt] = "running"
  /\ using \notin Careless => op[Attempt] = "free"

(* The block returned, perhaps after catching an error of a query. *)
BlockReturns ==
  /\ BlockMayEnd
  /\ block' = [block EXCEPT ![Attempt] = "over"]
  /\ Goto("commit")
  /\ UNCHANGED <<connVars, using, iteration, error, commitFailed, result,
                 state, op, rawConn, queries>>

(* The block threw: an error of a query of its own or of another call of   *)
(* the client, or one that is not the driver's and thus not retried.       *)
BlockThrows ==
  /\ BlockMayEnd
  /\ block' = [block EXCEPT ![Attempt] = "over"]
  /\ error' \in {"conflict", "closed", "fatal"}
  /\ Goto("rollback")
  /\ UNCHANGED <<connVars, using, iteration, commitFailed, result,
                 state, op, rawConn, queries>>

(* _waitForConnAbort() wins the race with the block, which goes on alone.  *)
ConnAbort ==
  /\ pc = "block" /\ ~connected
  /\ error' = IF abortedWith = "timeout" THEN "fatal" ELSE AbortOutcome
  /\ Goto("rollback")
  /\ UNCHANGED <<connVars, using, iteration, commitFailed, result, txVars>>

----------------------------------------------------------------------------
(* _commit() up to its await: a query in progress makes it fail. *)
Commit ==
  /\ pc = "commit"
  /\ IF op[Attempt] # "free"
     THEN /\ error' = "fatal" /\ commitFailed' = TRUE /\ Goto("decide")
          /\ UNCHANGED <<connVars, op>>
     ELSE /\ SetOp(Attempt, "machinery")
          /\ Fetch(Machinery, "commit", Attempt, rawConn[Attempt])
          /\ Goto("committing")
          /\ UNCHANGED <<error, commitFailed>>
  /\ UNCHANGED <<using, iteration, result, state, rawConn, block, queries>>

Committed ==
  /\ pc = "committing" /\ Resume(Machinery)
  /\ SetOp(Attempt, "free")
  /\ IF Answer = "ok"
     THEN /\ state' = [state EXCEPT ![Attempt] = "committed"]
          /\ Settle("ok") /\ UNCHANGED <<error, commitFailed>>
     ELSE /\ error' = Answer /\ commitFailed' = TRUE /\ Goto("decide")
          /\ UNCHANGED <<state, result>>
  /\ UNCHANGED <<using, iteration, rawConn, block, queries>>

(* _rollback() up to its await; that it refuses a query in progress is     *)
(* ignored.                                                                *)
Rollback ==
  /\ pc = "rollback"
  /\ IF op[Attempt] # "free"
     THEN Goto("decide") /\ UNCHANGED <<connVars, op>>
     ELSE /\ SetOp(Attempt, "machinery")
          /\ Fetch(Machinery, "rollback", Attempt, rawConn[Attempt])
          /\ Goto("rollingback")
  /\ UNCHANGED <<using, iteration, error, commitFailed, result, state, rawConn, block, queries>>

RolledBack ==
  /\ pc = "rollingback" /\ Resume(Machinery)
  /\ SetOp(Attempt, "free")
  /\ state' = [state EXCEPT ![Attempt] = IF Answer = "ok" THEN "rolledback" ELSE @]
  /\ Goto("decide")
  /\ UNCHANGED <<using, iteration, error, commitFailed, result,
                 rawConn, block, queries>>

(* The end of the catch: retry after a back-off, or give up. *)
DecideIf(retriable, more) ==
  /\ pc = "decide"
  /\ IF retriable /\ more
     THEN /\ iteration' = iteration + 1 /\ error' = "none" /\ commitFailed' = FALSE
          /\ Goto("connect") /\ UNCHANGED result
     ELSE /\ Settle(IF commitFailed /\ error \in {"closed", "terminated"}
                    THEN "unknown" ELSE "failed")
          /\ UNCHANGED <<iteration, error, commitFailed>>
  /\ UNCHANGED <<connVars, using, txVars>>

(* SHOULD_RETRY, but a commit that failed with the connection may have     *)
(* succeeded: the caller gets the error and is in doubt.                   *)
ShouldRetry == error \in {"conflict", "closed"}
Retriable == ShouldRetry /\ ~(commitFailed /\ error = "closed")

(* Mutants: an unanswered commit is retried; one iteration too many. *)
DecideRetriesCommit == DecideIf(ShouldRetry, iteration + 1 < MaxAttempts)
DecideOnceMore == DecideIf(Retriable, iteration < MaxAttempts)

Decide == DecideIf(Retriable, iteration + 1 < MaxAttempts)

(* release() has reset the connection: the holder is free again. *)
Enqueue ==
  /\ pc = "enqueue"
  /\ using' = Nobody /\ iteration' = 0 /\ error' = "none" /\ commitFailed' = FALSE
  /\ Goto("free")
  /\ UNCHANGED <<connVars, result, txVars>>

----------------------------------------------------------------------------
Call ==
  \/ GetConnection \/ ResetState \/ ResetStateDone \/ StartTransaction \/ Started
  \/ ConnAbort \/ Commit \/ Committed \/ Rollback \/ RolledBack \/ Decide \/ Enqueue

Block == BlockReturns \/ BlockThrows

(* What the connection and the server do by themselves. *)
Receive == OnData /\ UNCHANGED <<callVars, txVars>>
Serve == ServerAnswers /\ UNCHANGED <<callVars, txVars>>
LoseConnection == ConnectionLost /\ UNCHANGED <<callVars, txVars>>
Terminate == ClientTerminates /\ UNCHANGED <<callVars, txVars>>
TimeOut == TransactionTimeout /\ UNCHANGED <<callVars, txVars>>

Next ==
  \/ \E c \in Calls : Acquire(c)
  \/ Call \/ HandshakeHangs \/ Block
  \/ \E a \in Attempts : BlockQueries(a) \/ BlockAnswered(a)
  \/ Receive \/ Serve \/ LoseConnection \/ Terminate \/ TimeOut

Spec == Init /\ [][Next]_vars

(* Continuations run, the server answers, the network delivers, the user's *)
(* block ends.  A connection attempt ends or hangs: nothing in the code    *)
(* makes each of them end.  Nothing has to fail and nobody has to call.    *)
Fairness ==
  /\ WF_vars(Call) /\ WF_vars(Block)
  /\ \A a \in Attempts : WF_vars(BlockAnswered(a))
  /\ WF_vars(Receive) /\ WF_vars(Serve)

LiveSpec == Spec /\ Fairness

----------------------------------------------------------------------------
TypeOK ==
  /\ ConnTypeOK
  /\ using \in Calls \cup {Nobody}
  /\ pc \in {"free", "connect", "hanging", "reset", "resetting", "start", "starting", "block", "commit",
             "committing", "rollback", "rollingback", "decide", "release", "releasing", "enqueue"}
  /\ iteration \in 0..(MaxAttempts - 1)
  /\ error \in {"none"} \cup (Outcomes \ {"ok"})
  /\ commitFailed \in BOOLEAN
  /\ result \in [Calls -> {"none", "ok", "failed", "unknown"}]
  /\ state \in [Attempts -> {"none", "active", "committed", "rolledback"}]
  /\ op \in [Attempts -> {"free", "query", "machinery"}]
  /\ rawConn \in [Attempts -> 0..MaxConnections]
  /\ block \in [Attempts -> {"none", "running", "over"}]
  /\ queries \in [Attempts -> 0..MaxQueries]

(* Nobody ever gets the answer to another's request: requests carry no     *)
(* number, so each must be awaited before the next is sent                 *)
(* (baseConn.ts:676-870).                                                  *)
AnswersMatch ==
  \A f \in Fetchers : answered[f] \in {NoRequest, asked[f]}

(* When the holder goes back to the pool its connection is fit for the     *)
(* next call: no transaction is open on the server, whatever failed, and   *)
(* no answer is still to come (baseClient.ts:95-115).                      *)
ReleasedClean ==
  using = Nobody /\ connected =>
    session = "idle" /\ waiter = Nobody /\ sent = <<>> /\ inbound = <<>> /\ buffer = <<>>

(* A query of a block runs in the transaction that its own attempt started, *)
(* never outside a transaction nor in the next attempt's, although blocks  *)
(* that lost the race go on running.                                       *)
QueriesInOwnTransaction ==
  \A w \in written : w[1] = w[2]

(* transaction() implements its promise. *)
Promise == INSTANCE AtMostOnce WITH
  applied <- [c \in Calls |-> Cardinality({a \in committed : a[1] = c})],
  outcome <- result
TakesEffectAtMostOnce == Promise!Spec

(* What a caller is told is true: a transaction() whose block awaits its   *)
(* queries resolves only when the server has committed, whatever other     *)
(* blocks did before (docs/driver.rst:404-411).                            *)
ResolvedMeansCommitted ==
  \A c \in Calls \ (Careless \cup Escaping) : result[c] = "ok" => \E a \in committed : a[1] = c

(* A call is not told of a lost connection while it has attempts left, unless *)
(* its commit was on the way: docs/driver.rst:407-409 says that a network  *)
(* failure makes the transaction be retried.                               *)
NetworkFailureRetried ==
  [][\A c \in Calls :
       result[c] = "none" /\ result'[c] = "failed" /\ "closed" \in {error, Answer}
         => iteration + 1 = MaxAttempts]_vars

(* Every call ends, and its holder is released, whatever the network does  *)
(* to its connections, unless one of its attempts to connect hangs.        *)
CallsEnd == \A c \in Calls : using = c ~> using # c \/ pc = "hanging"
=============================================================================
