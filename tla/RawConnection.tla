---------------------------- MODULE RawConnection ----------------------------
(***************************************************************************)
(* A connection of packages/gel/src/baseConn.ts and rawConn.ts, seen by    *)
(* those that await its fetch(), and the session the server keeps for it.  *)
(*                                                                         *)
(* Requests carry no number.  fetch() writes its request to the socket and *)
(* waits in _waitForMessage() on the one messageWaiter of the connection;  *)
(* whatever message the socket brings next is taken for the answer.  A     *)
(* request and its answer are one unit each: the Parse round trip a query  *)
(* may need, and the messages that make up an answer, are not told apart.  *)
(*                                                                         *)
(* Attempts are iterations of transaction(); a request says on behalf of   *)
(* which one it was sent, for the properties only.                         *)
(***************************************************************************)
EXTENDS Naturals, Sequences

CONSTANTS
  Attempts,
  MaxConnections,   \* bound: connections the holder may ever have
  Machinery,        \* who fetches for transaction(), resetState() and release()
  Nobody

(* An attempt, as a fetcher, stands for the queries of its block. *)
Fetchers == Attempts \cup {Machinery}

ASSUME ConnectionAssumption ==
  /\ MaxConnections \in Nat
  /\ Machinery \notin Attempts /\ Nobody \notin Fetchers

Commands == {"start", "query", "commit", "rollback"}
Statuses == {"idle", "intrans", "inerror"}

(* What an awaited fetch() ends with.  "ok", or the class of the error:    *)
(* "conflict" is retryable, "closed" is a retryable ClientConnectionError, *)
(* "terminated" (the client closed the connection) and "fatal" are not     *)
(* retryable.                                                              *)
Outcomes == {"ok", "conflict", "closed", "terminated", "fatal"}

Request == [by : Fetchers, cmd : Commands, attempt : Attempts]
Reply == [to : Request, outcome : Outcomes, status : Statuses]

VARIABLES
  connected,    \* connected, of the connection the holder has now
  connection,   \* which connection that is: they are numbered
  abortedWith,  \* _abortedWith: "nothing", "closed", "timeout" (closed, caused by a
                \* TransactionTimeoutError) or "terminated"
  xactStatus,   \* serverXactStatus
  waiter,       \* who awaits messageWaiter
  asked,        \* the last request of each fetcher
  answer,       \* what its fetch() came to: "none", "awaited", or an outcome
  answered,     \* the request that this outcome was the server's answer to
  sent,         \* requests on their way to the server
  inbound,      \* answers on their way to the client
  buffer,       \* answers that came when nobody waited
  session,      \* the server's session: its transaction status ...
  owner,        \* ... the attempt that started the transaction ...
  written,      \* ... the queries that ran in it, with the attempt that owned it
  committed     \* the attempts whose transaction the server committed

clientVars == <<connected, connection, abortedWith, xactStatus, waiter, asked, answer,
                answered, buffer>>
serverVars == <<session, owner, written, committed>>
wireVars == <<sent, inbound>>
connVars == <<clientVars, serverVars, wireVars>>
restVars == <<connected, connection, abortedWith, xactStatus, waiter, buffer, serverVars,
              wireVars>>   \* all but what a fetcher awaits

NoRequest == [by |-> Nobody]

ConnInit ==
  /\ connected = FALSE /\ connection = 0
  /\ abortedWith = "nothing"
  /\ xactStatus = "idle"
  /\ waiter = Nobody
  /\ asked = [f \in Fetchers |-> NoRequest]
  /\ answer = [f \in Fetchers |-> "none"]
  /\ answered = [f \in Fetchers |-> NoRequest]
  /\ sent = <<>> /\ inbound = <<>> /\ buffer = <<>>
  /\ session = "idle" /\ owner = Nobody
  /\ written = {} /\ committed = {}

(* The error a fetch() on a closed connection throws (getConnAbortError).  *)
AbortOutcome == IF abortedWith = "terminated" THEN "terminated" ELSE "closed"

(* A new connection takes the place of a closed one. *)
Connect ==
  /\ ~connected /\ connection < MaxConnections
  /\ connected' = TRUE /\ connection' = connection + 1
  /\ abortedWith' = "nothing" /\ xactStatus' = "idle"
  /\ UNCHANGED <<waiter, asked, answer, answered, buffer, serverVars, wireVars>>

(* fetch() up to its first await, on the connection numbered n.  _checkState() *)
(* refuses a closed one; an answer found in the buffer is taken at once;   *)
(* otherwise messageWaiter is replaced, whoever waited on the old one.     *)
Fetch(f, cmd, attempt, n) ==
  LET request == [by |-> f, cmd |-> cmd, attempt |-> attempt]
      usable == connected /\ connection = n
  IN
  /\ asked' = [asked EXCEPT ![f] = request]
  /\ IF ~usable
     THEN /\ answer' = [answer EXCEPT ![f] = IF connection = n THEN AbortOutcome ELSE "closed"]
          /\ answered' = [answered EXCEPT ![f] = NoRequest]
          /\ UNCHANGED <<waiter, buffer, sent, xactStatus>>
     ELSE IF buffer # <<>>
     THEN /\ answer' = [answer EXCEPT ![f] = Head(buffer).outcome]
          /\ answered' = [answered EXCEPT ![f] = Head(buffer).to]
          /\ xactStatus' = Head(buffer).status
          /\ buffer' = Tail(buffer)
          /\ sent' = Append(sent, request)
          /\ UNCHANGED waiter
     ELSE /\ answer' = [answer EXCEPT ![f] = "awaited"]
          /\ answered' = [answered EXCEPT ![f] = NoRequest]
          /\ waiter' = f
          /\ sent' = Append(sent, request)
          /\ UNCHANGED <<buffer, xactStatus>>
  /\ UNCHANGED <<connected, connection, abortedWith, inbound, serverVars>>

(* _onData(): the answer goes to whoever waits now, and _parseSyncMessage() *)
(* learns the session's status from it; else it stays in the buffer.       *)
OnData ==
  /\ inbound # <<>>
  /\ inbound' = Tail(inbound)
  /\ IF waiter = Nobody
     THEN /\ buffer' = Append(buffer, Head(inbound))
          /\ UNCHANGED <<waiter, answer, answered, xactStatus>>
     ELSE /\ answer' = [answer EXCEPT ![waiter] = Head(inbound).outcome]
          /\ answered' = [answered EXCEPT ![waiter] = Head(inbound).to]
          /\ xactStatus' = Head(inbound).status
          /\ waiter' = Nobody
          /\ UNCHANGED buffer
  /\ UNCHANGED <<connected, connection, abortedWith, asked, sent, serverVars>>

(* Mutant: _abortWaiters() drops messageWaiter without rejecting it. *)
RejectedNobody(why) == answer

(* _abort(): the socket is destroyed, the one waiter rejected.  The server *)
(* notices and rolls the session's transaction back.                       *)
Rejected(why) == [f \in Fetchers |->
  IF f # waiter THEN answer[f] ELSE IF why = "terminated" THEN "terminated" ELSE "closed"]

Disconnect(why) ==
  /\ connected
  /\ connected' = FALSE /\ abortedWith' = why
  /\ waiter' = Nobody
  /\ sent' = <<>> /\ inbound' = <<>> /\ buffer' = <<>>
  /\ session' = "idle" /\ owner' = Nobody
  /\ UNCHANGED <<connection, xactStatus, written, committed>>

Abort(why) == Disconnect(why) /\ answer' = Rejected(why) /\ UNCHANGED <<asked, answered>>

(* The await of a fetch() that has ended returns to the fetcher. *)
Resume(f) ==
  /\ answer[f] \notin {"none", "awaited"}
  /\ asked' = [asked EXCEPT ![f] = NoRequest]
  /\ answer' = [answer EXCEPT ![f] = "none"]
  /\ answered' = [answered EXCEPT ![f] = NoRequest]
  /\ UNCHANGED restVars

(* It returns to a catch that aborts the connection. *)
ResumeAndAbort(f, why) ==
  /\ answer[f] \notin {"none", "awaited"}
  /\ asked' = [asked EXCEPT ![f] = NoRequest]
  /\ answer' = [Rejected(why) EXCEPT ![f] = "none"]
  /\ answered' = [answered EXCEPT ![f] = NoRequest]
  /\ Disconnect(why)

(* _onClose() without a reason of the server's, _onError(), and the client *)
(* closing the connection under its user (terminate()).                    *)
ConnectionLost == Abort("closed")
ClientTerminates == Abort("terminated")

(* The server ends a session that was idle in a transaction too long. *)
TransactionTimeout ==
  /\ session # "idle" /\ sent = <<>> /\ inbound = <<>>
  /\ Abort(IF waiter = Nobody THEN "timeout" ELSE "closed")

----------------------------------------------------------------------------
(* The server takes the next request and answers it with an outcome and    *)
(* the status its session has then.  A session in error refuses all but    *)
(* ROLLBACK, which any session accepts; the rest may fail.                 *)
PossibleReplies(cmd) ==
  CASE cmd = "start" /\ session = "idle"     -> {<<"ok", "intrans">>, <<"conflict", "idle">>}
    [] cmd = "query" /\ session = "idle"     -> {<<"ok", "idle">>}
    [] cmd = "query" /\ session = "intrans"  -> {<<"ok", "intrans">>, <<"conflict", "inerror">>,
                                                <<"fatal", "inerror">>}
    [] cmd = "commit" /\ session = "intrans" -> {<<"ok", "idle">>, <<"conflict", "idle">>}
    [] cmd = "commit" /\ session = "idle"    -> {<<"fatal", "idle">>}
    [] cmd = "rollback"                      -> {<<"ok", "idle">>}
    [] OTHER                                 -> {<<"fatal", "inerror">>}

ServerAnswers ==
  LET request == Head(sent) IN
  /\ sent # <<>>
  /\ sent' = Tail(sent)
  /\ \E r \in PossibleReplies(request.cmd) :
       /\ inbound' = Append(inbound, [to |-> request, outcome |-> r[1], status |-> r[2]])
       /\ session' = r[2]
       /\ owner' = IF r[2] = "idle" THEN Nobody
                   ELSE IF session = "idle" THEN request.attempt ELSE owner
       /\ committed' = IF request.cmd = "commit" /\ r[1] = "ok"
                       THEN committed \cup {owner} ELSE committed
       /\ written' = IF request.cmd = "query" /\ r[1] = "ok"
                     THEN written \cup {<<request.attempt, owner>>} ELSE written
  /\ UNCHANGED clientVars

----------------------------------------------------------------------------
ConnTypeOK ==
  /\ connected \in BOOLEAN
  /\ connection \in 0..MaxConnections
  /\ abortedWith \in {"nothing", "closed", "timeout", "terminated"}
  /\ xactStatus \in Statuses
  /\ waiter \in Fetchers \cup {Nobody}
  /\ asked \in [Fetchers -> Request \cup {NoRequest}]
  /\ answer \in [Fetchers -> Outcomes \cup {"none", "awaited"}]
  /\ answered \in [Fetchers -> Request \cup {NoRequest}]
  /\ sent \in Seq(Request) /\ inbound \in Seq(Reply) /\ buffer \in Seq(Reply)
  /\ session \in Statuses
  /\ owner \in Attempts \cup {Nobody}
  /\ written \subseteq (Attempts \X (Attempts \cup {Nobody}))
  /\ committed \subseteq Attempts
=============================================================================
