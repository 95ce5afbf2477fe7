--------------------------- MODULE TransactionProofs ---------------------------
(***************************************************************************)
(* What Transaction guarantees for any number of calls, attempts, queries  *)
(* and connections.                                                        *)
(***************************************************************************)
EXTENDS Transaction, SequenceTheorems, FiniteSetTheorems, TLAPS

(* Somebody has the holder unless it is free. *)
UsingAgrees == using = Nobody <=> pc = "free"

(* A session in a transaction is some attempt's.                           *)
OwnerAgrees == session = "idle" <=> owner = Nobody

TInv == TypeOK /\ UsingAgrees /\ OwnerAgrees

(* Blocks await their queries and keep tx to themselves. *)
Orderly == Careless = {} /\ Escaping = {}

(* Where transaction() awaits a fetch() of its own, and what it asked for. *)
Awaiting == {"resetting", "starting", "committing", "rollingback", "releasing"}
Command(where) ==
  CASE where = "starting" -> "start" [] where = "committing" -> "commit" [] OTHER -> "rollback"
OwnRequest == [by |-> Machinery, cmd |-> Command(pc), attempt |-> Attempt]
QueryOf(a) == [by |-> a, cmd |-> "query", attempt |-> a]

(* At most one request is on its way, or its answer, and the fetcher that  *)
(* sent it awaits it.                                                      *)
WireAgrees ==
  /\ buffer = <<>>
  /\ \A f \in Fetchers : answer[f] = "awaited" <=> waiter = f
  /\ waiter = Nobody => sent = <<>> /\ inbound = <<>>
  /\ waiter # Nobody =>
       /\ connected
       /\ \/ sent = <<asked[waiter]>> /\ inbound = <<>>
          \/ sent = <<>> /\ \E o \in {"ok", "conflict", "fatal"} :
               inbound = <<[to |-> asked[waiter], outcome |-> o, status |-> session]>>

(* Who that is: transaction() itself, or the block of the attempt it waits *)
(* for.                                                                    *)
WaiterAgrees ==
  /\ waiter = Machinery => pc \in Awaiting /\ asked[Machinery] = OwnRequest
  /\ waiter \in Attempts => /\ pc = "block" /\ waiter = Attempt
                            /\ op[waiter] = "query" /\ asked[waiter] = QueryOf(waiter)

(* A connection that will not be used again. *)
Dead(n) == n < connection \/ ~connected

(* An attempt is begun once, and on the connection of that time; a block   *)
(* that goes on without its attempt has lost its connection.               *)
BlocksAgree ==
  /\ \A a \in Attempts : rawConn[a] <= connection
  /\ pc \in {"starting", "block", "commit", "committing", "rollback", "rollingback"} =>
       rawConn[Attempt] = connection
  /\ \A a \in Attempts : block[a] = "running" =>
       (a = Attempt /\ pc = "block") \/ Dead(rawConn[a])
  /\ \A a \in Attempts : block[a] # "none" =>
       \/ result[a[1]] # "none"
       \/ a[1] = using /\ a[2] < iteration
       \/ a = Attempt /\ pc \in {"block", "commit", "committing", "rollback", "rollingback", "decide"}

(* What transaction() is about to hear of its own request. *)
Reported == IF inbound # <<>> THEN Head(inbound).outcome ELSE Answer

(* The session is known when nothing is on its way, belongs to the attempt *)
(* from its START TRANSACTION to its COMMIT, and is clean when the holder  *)
(* is.                                                                     *)
SessionAgrees ==
  /\ ~connected => session = "idle"
  /\ connected /\ waiter = Nobody => xactStatus = session
  /\ connected =>
       /\ pc \in {"free", "enqueue", "start"} => session = "idle"
       /\ pc \in {"block", "commit"} => session # "idle" /\ owner = Attempt
       /\ pc = "starting" => /\ Reported = "awaited" => session = "idle"
                             /\ Reported = "ok" => session # "idle" /\ owner = Attempt
       /\ pc = "committing" /\ Reported = "awaited" => session # "idle" /\ owner = Attempt
       /\ pc \in {"resetting", "releasing"} /\ Reported = "ok" => session = "idle"

Releasing == {"release", "releasing", "enqueue"}
CommittedOf(c) == {a \in committed : a[1] = c}

(* What the server committed is what the caller was told, or is on its way *)
(* to it, or was lost on the way.                                          *)
CommitsAgree ==
  /\ \A a, b \in committed : a[1] = b[1] => a = b
  /\ \A c \in Calls :
       /\ result[c] = "failed" => CommittedOf(c) = {}
       /\ result[c] = "ok" => CommittedOf(c) # {}
       /\ result[c] = "none" /\ c # using => CommittedOf(c) = {}
  /\ pc # "free" => (result[using] # "none" <=> pc \in Releasing)
  /\ pc \notin {"free", "committing", "decide"} \cup Releasing => CommittedOf(using) = {}
  /\ pc = "committing" =>
       /\ CommittedOf(using) \subseteq {Attempt}
       /\ Reported = "ok" => Attempt \in committed
       /\ Reported \in {"awaited", "conflict", "fatal"} => CommittedOf(using) = {}
  /\ pc = "decide" /\ CommittedOf(using) # {} => commitFailed /\ error \in {"closed", "terminated"}

IInv ==
  /\ TInv /\ WireAgrees /\ WaiterAgrees /\ BlocksAgree /\ SessionAgrees /\ CommitsAgree
  /\ QueriesInOwnTransaction /\ AnswersMatch

----------------------------------------------------------------------------
(* Types. *)

(* While transaction() runs, it runs one of the calls, in one of the attempts. *)
LEMMA AttemptType ==
  ASSUME TInv, pc # "free" PROVE using \in Calls /\ Attempt \in Attempts
BY TransactionAssumption DEF TInv, TypeOK, UsingAgrees, Attempt

(* A step that leaves the connection alone keeps its types and the server. *)
LEMMA SameConnection ==
  ASSUME UNCHANGED connVars PROVE (ConnTypeOK => ConnTypeOK') /\ UNCHANGED serverVars
BY DEF ConnTypeOK, connVars, clientVars, serverVars, wireVars

(* fetch() sends a request, or takes an answer from the buffer. *)
LEMMA FetchTypes ==
  ASSUME ConnTypeOK, NEW f \in Fetchers, NEW cmd \in Commands, NEW a \in Attempts, NEW n,
         Fetch(f, cmd, a, n)
  PROVE  ConnTypeOK'
<1> DEFINE request == [by |-> f, cmd |-> cmd, attempt |-> a]
<1>1. request \in Request
  BY DEF Request
<1>2. Append(sent, request) \in Seq(Request)
  BY <1>1 DEF ConnTypeOK
<1>3. asked' \in [Fetchers -> Request \cup {NoRequest}] /\ sent' \in Seq(Request)
  BY <1>1, <1>2 DEF ConnTypeOK, Fetch
<1>4. buffer # <<>> => Head(buffer) \in Reply /\ Tail(buffer) \in Seq(Reply)
  BY HeadTailProperties DEF ConnTypeOK
<1>5. buffer # <<>> => /\ Head(buffer).to \in Request
                       /\ Head(buffer).outcome \in Outcomes /\ Head(buffer).status \in Statuses
  BY <1>4 DEF Reply
<1>6. answer' \in [Fetchers -> Outcomes \cup {"none", "awaited"}] /\ xactStatus' \in Statuses
  BY <1>5 DEF ConnTypeOK, Fetch, Outcomes, AbortOutcome
<1>7. answered' \in [Fetchers -> Request \cup {NoRequest}] /\ buffer' \in Seq(Reply)
  BY <1>4, <1>5 DEF ConnTypeOK, Fetch
<1> QED
  BY <1>3, <1>6, <1>7 DEF ConnTypeOK, Fetch, serverVars
(* The connection is lost or given up; an awaited fetch() ends.            *)
LEMMA DisconnectTypes ==
  ASSUME ConnTypeOK, NEW why \in {"closed", "timeout", "terminated"}, Disconnect(why),
         answer' \in [Fetchers -> Outcomes \cup {"none", "awaited"}],
         asked' \in [Fetchers -> Request \cup {NoRequest}],
         answered' \in [Fetchers -> Request \cup {NoRequest}]
  PROVE  ConnTypeOK'
<1>1. connected' \in BOOLEAN /\ abortedWith' \in {"nothing", "closed", "timeout", "terminated"}
  BY DEF Disconnect
<1>2. sent' \in Seq(Request) /\ inbound' \in Seq(Reply) /\ buffer' \in Seq(Reply)
  BY DEF Disconnect
<1>3. /\ waiter' \in Fetchers \cup {Nobody} /\ session' \in Statuses
      /\ owner' \in Attempts \cup {Nobody}
  BY DEF Disconnect, Statuses
<1>4. UNCHANGED <<connection, xactStatus, written, committed>>
  BY DEF Disconnect
<1> QED
  BY <1>1, <1>2, <1>3, <1>4 DEF ConnTypeOK

(* To reject an awaited answer settles it with an outcome. *)
LEMMA RejectedType ==
  ASSUME ConnTypeOK, NEW why
  PROVE  Rejected(why) \in [Fetchers -> Outcomes \cup {"none", "awaited"}]
BY DEF ConnTypeOK, Rejected, Outcomes

(* _abort() and the loss of the socket keep the types of the connection. *)
LEMMA AbortTypes ==
  ASSUME ConnTypeOK, NEW why \in {"closed", "timeout", "terminated"}, Abort(why)
  PROVE  ConnTypeOK'
<1>1. answer' \in [Fetchers -> Outcomes \cup {"none", "awaited"}]
  BY RejectedType DEF Abort
<1> QED
  BY <1>1, DisconnectTypes DEF Abort, ConnTypeOK

(* So does an await that returns, and what it returns is an outcome. *)
LEMMA ResumeTypes ==
  ASSUME ConnTypeOK, NEW f \in Fetchers,
         Resume(f) \/ ResumeAndAbort(f, "closed")
  PROVE  ConnTypeOK' /\ answer[f] \in Outcomes
<1>1. answer[f] \in Outcomes
  BY DEF ConnTypeOK, Resume, ResumeAndAbort
<1>2. CASE Resume(f)
  BY <1>1, <1>2 DEF ConnTypeOK, Resume, restVars, serverVars, wireVars
<1>3. CASE ResumeAndAbort(f, "closed")
  <2>1. answer' \in [Fetchers -> Outcomes \cup {"none", "awaited"}]
    BY <1>3, RejectedType DEF ResumeAndAbort
  <2>2. /\ asked' \in [Fetchers -> Request \cup {NoRequest}]
        /\ answered' \in [Fetchers -> Request \cup {NoRequest}]
    <3>1. asked' = [asked EXCEPT ![f] = NoRequest] /\ answered' = [answered EXCEPT ![f] = NoRequest]
      BY <1>3 DEF ResumeAndAbort
    <3> QED
      BY <3>1 DEF ConnTypeOK
  <2>3. Disconnect("closed")
    BY <1>3 DEF ResumeAndAbort
  <2> QED
    BY <1>1, <2>1, <2>2, <2>3, DisconnectTypes
<1> QED
  BY <1>1, <1>2, <1>3

(* So does the arrival of data, whoever it is for. *)
LEMMA OnDataTypes ==
  ASSUME ConnTypeOK, OnData PROVE ConnTypeOK'
<1>1. Head(inbound) \in Reply /\ Tail(inbound) \in Seq(Reply)
  BY HeadTailProperties DEF ConnTypeOK, OnData
<1>2. /\ Head(inbound).to \in Request
      /\ Head(inbound).outcome \in Outcomes /\ Head(inbound).status \in Statuses
  BY <1>1 DEF Reply
<1>3. Append(buffer, Head(inbound)) \in Seq(Reply)
  BY <1>1 DEF ConnTypeOK
<1>4. buffer' \in Seq(Reply) /\ inbound' \in Seq(Reply)
  BY <1>1, <1>3 DEF OnData, ConnTypeOK
<1>5. /\ answer' \in [Fetchers -> Outcomes \cup {"none", "awaited"}]
      /\ answered' \in [Fetchers -> Request \cup {NoRequest}]
      /\ xactStatus' \in Statuses /\ waiter' \in Fetchers \cup {Nobody}
  BY <1>2 DEF OnData, ConnTypeOK
<1> QED
  BY <1>4, <1>5 DEF OnData, ConnTypeOK, serverVars

(* Every reply has an outcome of the server and a status.                  *)
LEMMA ReplyFacts ==
  ASSUME NEW cmd, session \in Statuses, NEW r \in PossibleReplies(cmd)
  PROVE  /\ r = <<r[1], r[2]>>
         /\ r[1] \in {"ok", "conflict", "fatal"} /\ r[2] \in Statuses
         /\ cmd = "start" /\ session = "idle" /\ r[1] = "ok" => r[2] # "idle"
         /\ cmd = "query" /\ session # "idle" => r[2] # "idle"
         /\ cmd \in {"query", "commit"} /\ r[1] = "ok" /\ session # "idle" => session = "intrans"
         /\ cmd = "commit" /\ session = "idle" => r[1] # "ok"
         /\ cmd = "rollback" => r[2] = "idle"
BY DEF PossibleReplies, Statuses

(* So does an answer of the server, whose transaction belongs to an attempt. *)
LEMMA ServerTypes ==
  ASSUME ConnTypeOK, ServerAnswers, owner \in Attempts \/ session = "idle" PROVE ConnTypeOK'
<1> DEFINE request == Head(sent)
<1>1. request \in Request /\ Tail(sent) \in Seq(Request)
  BY HeadTailProperties DEF ConnTypeOK, ServerAnswers
<1>2. PICK r \in PossibleReplies(request.cmd) :
       /\ inbound' = Append(inbound, [to |-> request, outcome |-> r[1], status |-> r[2]])
       /\ session' = r[2]
       /\ owner' = IF r[2] = "idle" THEN Nobody
                   ELSE IF session = "idle" THEN request.attempt ELSE owner
       /\ committed' = IF request.cmd = "commit" /\ r[1] = "ok"
                       THEN committed \cup {owner} ELSE committed
       /\ written' = IF request.cmd = "query" /\ r[1] = "ok"
                     THEN written \cup {<<request.attempt, owner>>} ELSE written
  BY DEF ServerAnswers
<1>3. session \in Statuses
  BY DEF ConnTypeOK
<1>4. r[1] \in {"ok", "conflict", "fatal"} /\ r[2] \in Statuses
  BY <1>3, ReplyFacts
<1>5. request.cmd = "commit" /\ session = "idle" => r[1] # "ok"
  BY <1>3, ReplyFacts
<1>6. request.attempt \in Attempts
  BY <1>1 DEF Request
<1> HIDE DEF request
<1>7. [to |-> request, outcome |-> r[1], status |-> r[2]] \in Reply
  BY <1>1, <1>4 DEF Reply, Outcomes
<1>8. inbound' \in Seq(Reply)
  BY <1>2, <1>7 DEF ConnTypeOK
<1>9. /\ session' \in Statuses /\ owner' \in Attempts \cup {Nobody}
      /\ committed' \subseteq Attempts
      /\ written' \subseteq (Attempts \X (Attempts \cup {Nobody}))
  BY <1>2, <1>4, <1>5, <1>6 DEF ConnTypeOK
<1>10. sent' \in Seq(Request)
  BY <1>1 DEF ServerAnswers, request
<1> QED
  BY <1>8, <1>9, <1>10 DEF ConnTypeOK, ServerAnswers, clientVars

(* Every step keeps the types, and what tells who has the holder and whose *)
(* the session is.                                                         *)
LEMMA NextTypes == TInv /\ [Next]_vars => TInv'
<1> SUFFICES ASSUME TInv, [Next]_vars PROVE TInv'
  OBVIOUS
<1> USE TransactionAssumption, ConnectionAssumption DEF TransactionAssumption, ConnectionAssumption
<1>a. Machinery \in Fetchers /\ \A a \in Attempts : a \in Fetchers /\ a # Nobody
  BY DEF Fetchers
<1>b. pc # "free" => using \in Calls /\ Attempt \in Attempts
  BY AttemptType
<1>1. ASSUME NEW c \in Calls, Acquire(c) PROVE TInv'
  BY <1>1 DEF TInv, TypeOK, UsingAgrees, OwnerAgrees, Acquire, Goto, connVars, txVars, clientVars, serverVars, wireVars, ConnTypeOK
<1>2. CASE GetConnection
  <2>1. ConnTypeOK' /\ OwnerAgrees'
    <3>1. CASE UNCHANGED connVars
      BY <3>1, SameConnection DEF TInv, TypeOK, OwnerAgrees, serverVars
    <3>2. CASE Connect
      BY <3>2 DEF Connect, serverVars, wireVars, TInv, TypeOK, ConnTypeOK, OwnerAgrees, Statuses
    <3> QED
      BY <1>2, <3>1, <3>2 DEF GetConnection
  <2>2. /\ pc' \in {"reset", "release"} /\ result' \in [Calls -> {"none", "ok", "failed", "unknown"}]
        /\ UNCHANGED <<using, iteration, error, commitFailed, txVars>>
    BY <1>2 DEF GetConnection, Goto, Settle, TInv, TypeOK
  <2> QED
    BY <1>2, <2>1, <2>2 DEF TInv, TypeOK, UsingAgrees, txVars, GetConnection
<1>3. CASE ResetState
  <2>1. pc # "free" /\ "rollback" \in Commands /\ connection' = connection
    BY <1>3 DEF ResetState, ResetStateIf, Commands, Fetch, connVars, clientVars
  <2>2. ConnTypeOK' /\ UNCHANGED serverVars
    <3>1. CASE UNCHANGED connVars
      BY <3>1, SameConnection DEF TInv, TypeOK
    <3>2. ASSUME NEW n, Fetch(Machinery, "rollback", Attempt, n) PROVE ConnTypeOK' /\ UNCHANGED serverVars
      <4>1. ConnTypeOK'
        BY <3>2, <1>a, <1>b, <2>1, FetchTypes DEF TInv, TypeOK
      <4> QED
        BY <3>2, <4>1 DEF Fetch
    <3> QED
      BY <1>3, <3>1, <3>2 DEF ResetState, ResetStateIf
  <2> QED
    BY <1>3, <2>1, <2>2 DEF TInv, TypeOK, UsingAgrees, OwnerAgrees, txVars, ResetState, ResetStateIf, Goto, serverVars
<1>4. CASE ResetStateDone
  <2>1. ConnTypeOK'
    BY <1>4, <1>a, ResumeTypes DEF ResetStateDone, TInv, TypeOK
  <2>2. OwnerAgrees'
    BY <1>4 DEF TInv, OwnerAgrees, ResetStateDone, ResumeAndAbort, Disconnect, Resume, restVars, serverVars
  <2> QED
    BY <1>4, <2>1, <2>2 DEF TInv, TypeOK, UsingAgrees, txVars, ResetStateDone, Goto
<1>5. CASE StartTransaction
  <2>1. pc # "free" /\ "start" \in Commands
    BY <1>5 DEF StartTransaction, Commands
  <2>2. ConnTypeOK' /\ UNCHANGED serverVars
    BY <1>5, <1>a, <1>b, <2>1, FetchTypes DEF StartTransaction, TInv, TypeOK, Fetch
  <2> QED
    BY <1>5, <2>2 DEF TInv, TypeOK, ConnTypeOK, UsingAgrees, OwnerAgrees, StartTransaction, Goto, serverVars
<1>6. CASE Started
  <2>1. ConnTypeOK' /\ UNCHANGED serverVars
    BY <1>6, <1>a, ResumeTypes DEF Started, TInv, TypeOK, Resume, restVars
  <2> QED
    BY <1>6, <2>1 DEF TInv, TypeOK, UsingAgrees, OwnerAgrees, Started, Goto, Settle, serverVars
<1>7. ASSUME NEW a \in Attempts, BlockQueries(a) PROVE TInv'
  <2>1. ConnTypeOK' /\ UNCHANGED serverVars
    BY <1>7, <1>a, FetchTypes DEF BlockQueries, BlockQueriesOn, TInv, TypeOK, Fetch, Commands
  <2> QED
    BY <1>7, <2>1 DEF TInv, TypeOK, UsingAgrees, OwnerAgrees, BlockQueries, BlockQueriesOn, SetOp, callVars, serverVars
<1>8. ASSUME NEW a \in Attempts, BlockAnswered(a) PROVE TInv'
  <2>1. ConnTypeOK' /\ UNCHANGED serverVars
    BY <1>8, <1>a, ResumeTypes DEF BlockAnswered, TInv, TypeOK, Resume, restVars
  <2> QED
    BY <1>8, <2>1 DEF TInv, TypeOK, UsingAgrees, OwnerAgrees, BlockAnswered, SetOp, callVars, serverVars
<1>9. CASE Block
  <2>1. ConnTypeOK' /\ UNCHANGED serverVars
    BY <1>9, SameConnection DEF Block, BlockReturns, BlockThrows, TInv, TypeOK
  <2> QED
    BY <2>1, <1>9 DEF Block, BlockReturns, BlockThrows, BlockMayEnd, Goto, TInv, TypeOK, UsingAgrees, OwnerAgrees, serverVars, Outcomes
<1>10. CASE ConnAbort
  BY <1>10 DEF ConnAbort, Goto, AbortOutcome, TInv, TypeOK, ConnTypeOK, UsingAgrees, OwnerAgrees, connVars, clientVars, serverVars, wireVars, txVars, Outcomes
<1>11. CASE Commit
  <2>1. pc # "free" /\ "commit" \in Commands
    BY <1>11 DEF Commit, Commands
  <2>2. ConnTypeOK' /\ UNCHANGED serverVars
    <3>1. CASE UNCHANGED connVars
      BY <3>1, SameConnection DEF TInv, TypeOK
    <3>2. ASSUME NEW n, Fetch(Machinery, "commit", Attempt, n) PROVE ConnTypeOK' /\ UNCHANGED serverVars
      BY <3>2, <1>a, <1>b, <2>1, FetchTypes DEF TInv, TypeOK, Fetch
    <3> QED
      BY <1>11, <3>1, <3>2 DEF Commit
  <2> QED
    BY <1>11, <2>2 DEF TInv, TypeOK, UsingAgrees, OwnerAgrees, Commit, Goto, SetOp, serverVars, Outcomes
<1>12. CASE Committed
  <2>1. ConnTypeOK' /\ UNCHANGED serverVars /\ Answer \in Outcomes
    BY <1>12, <1>a, ResumeTypes DEF Committed, TInv, TypeOK, Resume, restVars, Answer
  <2> QED
    BY <1>12, <2>1 DEF TInv, TypeOK, UsingAgrees, OwnerAgrees, Committed, Goto, Settle, SetOp, serverVars
<1>13. CASE Rollback
  <2>1. pc # "free" /\ "rollback" \in Commands
    BY <1>13 DEF Rollback, Commands
  <2>2. ConnTypeOK' /\ UNCHANGED serverVars
    <3>1. CASE UNCHANGED connVars
      BY <3>1, SameConnection DEF TInv, TypeOK
    <3>2. ASSUME NEW n, Fetch(Machinery, "rollback", Attempt, n) PROVE ConnTypeOK' /\ UNCHANGED serverVars
      BY <3>2, <1>a, <1>b, <2>1, FetchTypes DEF TInv, TypeOK, Fetch
    <3> QED
      BY <1>13, <3>1, <3>2 DEF Rollback
  <2> QED
    BY <1>13, <2>2 DEF TInv, TypeOK, UsingAgrees, OwnerAgrees, Rollback, Goto, SetOp, serverVars
<1>14. CASE RolledBack
  <2>1. ConnTypeOK' /\ UNCHANGED serverVars
    BY <1>14, <1>a, ResumeTypes DEF RolledBack, TInv, TypeOK, Resume, restVars
  <2> QED
    BY <1>14, <2>1 DEF TInv, TypeOK, UsingAgrees, OwnerAgrees, RolledBack, Goto, SetOp, serverVars
<1>15. CASE Decide
  <2>1. ConnTypeOK' /\ UNCHANGED serverVars
    BY <1>15, SameConnection DEF Decide, DecideIf, TInv, TypeOK
  <2> QED
    <3>1. iteration' \in 0..(MaxAttempts - 1) /\ error' \in {"none"} \cup (Outcomes \ {"ok"})
      BY <1>15 DEF Decide, DecideIf, TInv, TypeOK
    <3>2. result' \in [Calls -> {"none", "ok", "failed", "unknown"}]
      BY <1>15 DEF Decide, DecideIf, Settle, TInv, TypeOK
    <3> QED
      BY <2>1, <3>1, <3>2, <1>15 DEF Decide, DecideIf, Goto, Settle, TInv, TypeOK, UsingAgrees,
         OwnerAgrees, serverVars, txVars
<1>16. CASE Enqueue
  <2>1. ConnTypeOK' /\ UNCHANGED serverVars
    BY <1>16, SameConnection DEF Enqueue, TInv, TypeOK
  <2> QED
    <3>1. iteration' \in 0..(MaxAttempts - 1)
      BY <1>16 DEF Enqueue
    <3> QED
      BY <2>1, <3>1, <1>16 DEF Enqueue, Goto, TInv, TypeOK, UsingAgrees, OwnerAgrees, serverVars, txVars
<1>17. CASE Receive
  <2>1. ConnTypeOK'
    BY <1>17, OnDataTypes DEF Receive, TInv, TypeOK
  <2> QED
    BY <1>17, <2>1 DEF Receive, OnData, TInv, TypeOK, UsingAgrees, OwnerAgrees, callVars, txVars, serverVars
<1>18. CASE Serve
  <2>1. ConnTypeOK'
    BY <1>18, ServerTypes DEF Serve, TInv, TypeOK, ConnTypeOK, OwnerAgrees
  <2>2. OwnerAgrees'
    <3>1. Head(sent) \in Request
      BY <1>18, HeadTailProperties DEF TInv, TypeOK, ConnTypeOK, Serve, ServerAnswers
    <3>2. Head(sent).attempt # Nobody
      BY <3>1, <1>a DEF Request
    <3> QED
      BY <1>18, <3>2 DEF Serve, ServerAnswers, TInv, OwnerAgrees
  <2> QED
    BY <1>18, <2>1, <2>2 DEF Serve, TInv, TypeOK, UsingAgrees, callVars, txVars
<1>19. CASE LoseConnection \/ Terminate \/ TimeOut
  <2>1. PICK why \in {"closed", "timeout", "terminated"} : Abort(why) /\ UNCHANGED <<callVars, txVars>>
    BY <1>19 DEF LoseConnection, Terminate, TimeOut, ConnectionLost, ClientTerminates, TransactionTimeout
  <2>2. ConnTypeOK'
    BY <2>1, AbortTypes DEF TInv, TypeOK
  <2> QED
    BY <2>1, <2>2 DEF Abort, Disconnect, TInv, TypeOK, UsingAgrees, OwnerAgrees, callVars, txVars
<1>20. CASE HandshakeHangs
  <2>1. ConnTypeOK' /\ UNCHANGED serverVars
    BY <1>20, SameConnection DEF HandshakeHangs, TInv, TypeOK
  <2> QED
    BY <1>20, <2>1 DEF HandshakeHangs, Goto, TInv, TypeOK, UsingAgrees, OwnerAgrees, serverVars, txVars
<1>21. CASE UNCHANGED vars
  <2>1. ConnTypeOK' /\ UNCHANGED <<serverVars, callVars, txVars>>
    BY <1>21, SameConnection DEF vars, TInv, TypeOK, connVars
  <2> QED
    BY <2>1 DEF TInv, TypeOK, UsingAgrees, OwnerAgrees, serverVars, callVars, txVars
<1> QED
  BY <1>1, <1>2, <1>3, <1>4, <1>5, <1>6, <1>7, <1>8, <1>9, <1>10, <1>11, <1>12, <1>13, <1>14, <1>15,
     <1>16, <1>17, <1>18, <1>19, <1>20, <1>21 DEF Next, Call

----------------------------------------------------------------------------
(* The wire: each request is answered before the next is sent. *)

(* transaction() has nothing on its way when it does not await it, nor its *)
(* block.                                                                  *)
LEMMA Quiet ==
  ASSUME IInv, pc \notin Awaiting \cup {"block"}
  PROVE  waiter = Nobody /\ sent = <<>> /\ inbound = <<>>
BY DEF IInv, TInv, TypeOK, ConnTypeOK, WireAgrees, WaiterAgrees, Fetchers

(* Where it does, nobody else has.                                         *)
LEMMA OnlyOwn ==
  ASSUME IInv, pc \in Awaiting
  PROVE  /\ waiter \in {Machinery, Nobody}
         /\ Answer = "awaited" <=> waiter = Machinery
         /\ waiter = Nobody => sent = <<>> /\ inbound = <<>>
BY DEF IInv, TInv, TypeOK, ConnTypeOK, WireAgrees, WaiterAgrees, Fetchers, Awaiting, Answer

(* What fetch() does when nobody waits on the connection it uses.          *)
LEMMA FetchStep ==
  ASSUME ConnTypeOK, WireAgrees, AnswersMatch,
         NEW f \in Fetchers, NEW cmd \in Commands, NEW a \in Attempts, NEW n,
         Fetch(f, cmd, a, n), waiter # f, connected /\ connection = n => waiter = Nobody
  PROVE  /\ WireAgrees' /\ AnswersMatch'
         /\ UNCHANGED <<connected, connection, abortedWith, xactStatus, inbound, serverVars>>
         /\ asked' = [asked EXCEPT ![f] = [by |-> f, cmd |-> cmd, attempt |-> a]]
         /\ \A g \in Fetchers \ {f} : answer'[g] = answer[g]
         /\ \/ /\ ~(connected /\ connection = n)
               /\ answer'[f] \in {"closed", "terminated"} /\ waiter' = waiter
            \/ /\ connected /\ connection = n /\ waiter = Nobody /\ inbound = <<>>
               /\ answer'[f] = "awaited" /\ waiter' = f
<1> DEFINE request == [by |-> f, cmd |-> cmd, attempt |-> a]
<1> USE ConnectionAssumption DEF ConnectionAssumption
<1>1. /\ asked' = [asked EXCEPT ![f] = request] /\ buffer = <<>>
      /\ UNCHANGED <<connected, connection, abortedWith, inbound, serverVars>>
  BY DEF Fetch, WireAgrees
<1> HIDE DEF request
<1>2. CASE ~(connected /\ connection = n)
  <2>1. PICK o \in {"closed", "terminated"} : answer' = [answer EXCEPT ![f] = o]
    BY <1>2 DEF Fetch, AbortOutcome
  <2>2. answered' = [answered EXCEPT ![f] = NoRequest] /\ UNCHANGED <<waiter, buffer, sent, xactStatus>>
    BY <1>2 DEF Fetch
  <2>3. WireAgrees'
    <3>1. \A g \in Fetchers : answer'[g] = "awaited" <=> waiter' = g
      BY <2>1, <2>2 DEF WireAgrees, ConnTypeOK
    <3>2. session' = session /\ (waiter # Nobody => asked'[waiter'] = asked[waiter])
      BY <1>1, <2>2 DEF ConnTypeOK, serverVars
    <3> QED
      BY <1>1, <2>2, <3>1, <3>2 DEF WireAgrees
  <2>4. AnswersMatch'
    BY <1>1, <2>2 DEF AnswersMatch, ConnTypeOK
  <2> QED
    BY <1>1, <1>2, <2>1, <2>2, <2>3, <2>4 DEF ConnTypeOK, request
<1>3. CASE connected /\ connection = n
  <2>1. /\ waiter = Nobody /\ sent = <<>> /\ inbound = <<>>
    BY <1>3 DEF WireAgrees
  <2>2. /\ answer' = [answer EXCEPT ![f] = "awaited"] /\ answered' = [answered EXCEPT ![f] = NoRequest]
        /\ waiter' = f /\ sent' = Append(sent, request) /\ UNCHANGED <<buffer, xactStatus>>
    BY <1>1, <1>3 DEF Fetch, request
  <2>3. sent' = <<request>>
    BY <2>1, <2>2
  <2>4. asked'[f] = request /\ f # Nobody
    BY <1>1 DEF ConnTypeOK
  <2>5. WireAgrees'
    <3>1. \A g \in Fetchers : answer'[g] = "awaited" <=> waiter' = g
      BY <2>1, <2>2 DEF WireAgrees, ConnTypeOK
    <3>2. sent' = <<asked'[waiter']>> /\ inbound' = <<>> /\ waiter' # Nobody /\ connected'
      BY <1>1, <1>3, <2>1, <2>2, <2>3, <2>4
    <3> QED
      BY <1>1, <2>2, <3>1, <3>2 DEF WireAgrees
  <2>6. AnswersMatch'
    BY <1>1, <2>2 DEF AnswersMatch, ConnTypeOK
  <2> QED
    BY <1>1, <1>3, <2>1, <2>2, <2>5, <2>6 DEF ConnTypeOK, request
<1> QED
  BY <1>2, <1>3

(* An await that returns: its fetcher was not waiting any more.            *)
LEMMA ResumeStep ==
  ASSUME ConnTypeOK, WireAgrees, AnswersMatch, NEW f \in Fetchers, Resume(f)
  PROVE  /\ WireAgrees' /\ AnswersMatch' /\ waiter # f /\ answer[f] \in Outcomes
         /\ UNCHANGED restVars
         /\ answer' = [answer EXCEPT ![f] = "none"] /\ asked' = [asked EXCEPT ![f] = NoRequest]
<1>1. waiter # f /\ answer[f] \in Outcomes
  BY DEF Resume, WireAgrees, ConnTypeOK
<1>2. WireAgrees'
  BY <1>1, ConnectionAssumption DEF ConnectionAssumption, Resume, restVars, serverVars, wireVars, WireAgrees, ConnTypeOK
<1>3. AnswersMatch'
  BY DEF Resume, AnswersMatch, ConnTypeOK
<1> QED
  BY <1>1, <1>2, <1>3 DEF Resume

(* A connection that is lost leaves nothing on its way.                    *)
LEMMA DisconnectStep ==
  ASSUME ConnTypeOK, WireAgrees, AnswersMatch, NEW why,
         \/ Abort(why)
         \/ \E f \in Fetchers : ResumeAndAbort(f, why)
  PROVE  /\ WireAgrees' /\ AnswersMatch'
         /\ connected /\ ~connected' /\ waiter' = Nobody /\ sent' = <<>> /\ inbound' = <<>>
         /\ session' = "idle" /\ UNCHANGED <<connection, written, committed>>
<1>1. /\ connected /\ ~connected' /\ waiter' = Nobody /\ sent' = <<>> /\ inbound' = <<>>
      /\ buffer' = <<>> /\ session' = "idle" /\ UNCHANGED <<connection, written, committed>>
  BY DEF Abort, ResumeAndAbort, Disconnect
<1>2. \A g \in Fetchers : Rejected(why)[g] # "awaited"
  BY DEF Rejected, WireAgrees
<1>3. \A g \in Fetchers : answer'[g] # "awaited" /\ g # Nobody
  BY <1>2, ConnectionAssumption DEF ConnectionAssumption, Abort, ResumeAndAbort, Rejected
<1>4. AnswersMatch'
  BY DEF Abort, ResumeAndAbort, AnswersMatch, ConnTypeOK
<1> QED
  BY <1>1, <1>3, <1>4 DEF WireAgrees

(* What arrives is the answer to what the one who waits asked for.         *)
LEMMA OnDataStep ==
  ASSUME ConnTypeOK, WireAgrees, AnswersMatch, OnData
  PROVE  /\ WireAgrees' /\ AnswersMatch'
         /\ connected /\ waiter \in Fetchers /\ waiter' = Nobody
         /\ Len(inbound) = 1 /\ inbound' = <<>> /\ sent = <<>>
         /\ Head(inbound).outcome \in {"ok", "conflict", "fatal"}
         /\ answer' = [answer EXCEPT ![waiter] = Head(inbound).outcome]
         /\ xactStatus' = session
         /\ UNCHANGED <<connected, connection, asked, sent, serverVars>>
<1> USE ConnectionAssumption DEF ConnectionAssumption
<1>1. waiter # Nobody /\ waiter \in Fetchers /\ inbound # <<>> /\ connected
  BY DEF OnData, WireAgrees, ConnTypeOK
<1>2. PICK o \in {"ok", "conflict", "fatal"} :
        sent = <<>> /\ inbound = <<[to |-> asked[waiter], outcome |-> o, status |-> session]>>
  BY <1>1 DEF WireAgrees
<1>3. /\ Head(inbound) = [to |-> asked[waiter], outcome |-> o, status |-> session]
      /\ Tail(inbound) = <<>> /\ Len(inbound) = 1
  BY <1>2
<1>4. /\ answer' = [answer EXCEPT ![waiter] = o] /\ answered' = [answered EXCEPT ![waiter] = asked[waiter]]
      /\ xactStatus' = session /\ waiter' = Nobody /\ inbound' = <<>>
      /\ UNCHANGED <<buffer, connected, connection, asked, sent, serverVars>>
  BY <1>1, <1>3 DEF OnData
<1>5. AnswersMatch'
  BY <1>1, <1>4 DEF AnswersMatch, ConnTypeOK
<1>6. WireAgrees'
  BY <1>1, <1>2, <1>4 DEF WireAgrees, ConnTypeOK
<1> QED
  <2>1. Head(inbound).outcome = o
    BY <1>3
  <2> HIDE DEF ConnectionAssumption
  <2> QED
    BY <1>1, <1>2, <1>3, <1>4, <1>5, <1>6, <2>1

(* The server answers the request of the one who waits.                    *)
LEMMA ServerStep ==
  ASSUME ConnTypeOK, WireAgrees, AnswersMatch, ServerAnswers
  PROVE  /\ WireAgrees' /\ AnswersMatch'
         /\ connected /\ waiter \in Fetchers /\ UNCHANGED clientVars /\ inbound = <<>>
         /\ \E r \in PossibleReplies(asked[waiter].cmd) :
              /\ inbound' = <<[to |-> asked[waiter], outcome |-> r[1], status |-> r[2]]>>
              /\ session' = r[2]
              /\ owner' = IF r[2] = "idle" THEN Nobody
                          ELSE IF session = "idle" THEN asked[waiter].attempt ELSE owner
              /\ committed' = IF asked[waiter].cmd = "commit" /\ r[1] = "ok"
                              THEN committed \cup {owner} ELSE committed
              /\ written' = IF asked[waiter].cmd = "query" /\ r[1] = "ok"
                            THEN written \cup {<<asked[waiter].attempt, owner>>} ELSE written
<1>1. /\ waiter # Nobody /\ waiter \in Fetchers /\ connected
      /\ sent = <<asked[waiter]>> /\ inbound = <<>>
  BY DEF ServerAnswers, WireAgrees, ConnTypeOK
<1>2. Head(sent) = asked[waiter] /\ Tail(sent) = <<>>
  BY <1>1
<1>3. PICK r \in PossibleReplies(asked[waiter].cmd) :
        /\ inbound' = Append(inbound, [to |-> asked[waiter], outcome |-> r[1], status |-> r[2]])
        /\ session' = r[2]
        /\ owner' = IF r[2] = "idle" THEN Nobody
                    ELSE IF session = "idle" THEN asked[waiter].attempt ELSE owner
        /\ committed' = IF asked[waiter].cmd = "commit" /\ r[1] = "ok"
                        THEN committed \cup {owner} ELSE committed
        /\ written' = IF asked[waiter].cmd = "query" /\ r[1] = "ok"
                      THEN written \cup {<<asked[waiter].attempt, owner>>} ELSE written
  BY <1>2 DEF ServerAnswers
<1>4. inbound' = <<[to |-> asked[waiter], outcome |-> r[1], status |-> r[2]]>>
  BY <1>1, <1>3
<1>5. sent' = <<>> /\ UNCHANGED clientVars
  BY <1>2 DEF ServerAnswers
<1>6. session \in Statuses
  BY DEF ConnTypeOK
<1>7. r[1] \in {"ok", "conflict", "fatal"}
  BY <1>6, ReplyFacts
<1>8. WireAgrees'
  <2>1. /\ waiter' = waiter /\ asked' = asked /\ answer' = answer
        /\ connected' = connected /\ buffer' = buffer
    BY <1>5 DEF clientVars
  <2>2. \E o \in {"ok", "conflict", "fatal"} :
          inbound' = <<[to |-> asked'[waiter'], outcome |-> o, status |-> session']>>
    BY <1>3, <1>4, <1>7, <2>1
  <2> QED
    BY <1>1, <1>5, <2>1, <2>2 DEF WireAgrees
<1>9. AnswersMatch'
  BY <1>5 DEF AnswersMatch, clientVars
<1> QED
  BY <1>1, <1>3, <1>4, <1>5, <1>8, <1>9

(* A block queries on the connection its attempt began on; when that is    *)
(* still in use, transaction() waits for this very block.                  *)
LEMMA BlockFetches ==
  ASSUME IInv, Orderly, NEW a \in Attempts, BlockQueries(a)
  PROVE  /\ waiter # a /\ block[a] = "running" /\ op[a] = "free"
         /\ connected /\ connection = rawConn[a] => waiter = Nobody /\ a = Attempt /\ pc = "block"
<1>1. block[a] = "running" /\ op[a] = "free"
  BY DEF BlockQueries, BlockQueriesOn, Orderly
<1>2. waiter # a
  BY <1>1 DEF IInv, WaiterAgrees
<1>3. ASSUME connected, connection = rawConn[a] PROVE a = Attempt /\ pc = "block"
  BY <1>1, <1>3, ConnectionAssumption DEF ConnectionAssumption, IInv, TInv, TypeOK, ConnTypeOK, BlocksAgree, Dead
<1>4. ASSUME a = Attempt, pc = "block" PROVE waiter = Nobody
  BY <1>1, <1>4 DEF IInv, TInv, TypeOK, ConnTypeOK, WaiterAgrees, Awaiting, Fetchers
<1> QED
  BY <1>1, <1>2, <1>3, <1>4

(* A block that ends has nothing on its way.                               *)
LEMMA BlockEnds ==
  ASSUME IInv, Orderly, BlockMayEnd
  PROVE  /\ pc = "block" /\ op[Attempt] = "free"
         /\ waiter = Nobody /\ sent = <<>> /\ inbound = <<>>
<1>1. pc = "block" /\ op[Attempt] = "free"
  BY DEF BlockMayEnd, Orderly
<1>2. waiter = Nobody
  BY <1>1 DEF IInv, TInv, TypeOK, ConnTypeOK, WaiterAgrees, Awaiting, Fetchers
<1> QED
  BY <1>1, <1>2 DEF IInv, WireAgrees

(* What transaction() fetches for itself.                                  *)
LEMMA OwnFetch ==
  ASSUME IInv, pc \in {"reset", "release", "start", "commit", "rollback"},
         NEW cmd \in Commands, NEW n, Fetch(Machinery, cmd, Attempt, n)
  PROVE  /\ WireAgrees' /\ AnswersMatch' /\ inbound' = <<>>
         /\ UNCHANGED <<connected, connection, abortedWith, xactStatus, serverVars>>
         /\ asked'[Machinery] = [by |-> Machinery, cmd |-> cmd, attempt |-> Attempt]
         /\ \/ /\ ~(connected /\ connection = n) /\ waiter' = Nobody
               /\ answer'[Machinery] \in {"closed", "terminated"}
            \/ /\ connected /\ connection = n /\ waiter' = Machinery
               /\ answer'[Machinery] = "awaited"
<1> USE ConnectionAssumption DEF ConnectionAssumption
<1>1. waiter = Nobody /\ inbound = <<>>
  BY Quiet DEF Awaiting
<1>2. Machinery \in Fetchers /\ Machinery # Nobody
  BY DEF Fetchers
<1>3. Attempt \in Attempts
  BY AttemptType DEF IInv
<1>4. ConnTypeOK /\ WireAgrees /\ AnswersMatch
  BY DEF IInv, TInv, TypeOK
<1>5. asked' = [asked EXCEPT ![Machinery] = [by |-> Machinery, cmd |-> cmd, attempt |-> Attempt]]
  BY DEF Fetch
<1>6. asked'[Machinery] = [by |-> Machinery, cmd |-> cmd, attempt |-> Attempt]
  BY <1>2, <1>4, <1>5 DEF ConnTypeOK
<1>7. waiter # Machinery
  BY <1>1, <1>2
<1> QED
  BY <1>1, <1>2, <1>3, <1>4, <1>6, <1>7, FetchStep

(* And what it hears of it.                                                *)
LEMMA OwnResume ==
  ASSUME IInv, pc # "block", Resume(Machinery)
  PROVE  /\ WireAgrees' /\ AnswersMatch' /\ Answer \in Outcomes
         /\ waiter = Nobody /\ sent = <<>> /\ inbound = <<>> /\ Reported = Answer
         /\ UNCHANGED restVars
<1> USE ConnectionAssumption DEF ConnectionAssumption
<1>1. Machinery \in Fetchers
  BY DEF Fetchers
<1>2. ConnTypeOK /\ WireAgrees /\ AnswersMatch
  BY DEF IInv, TInv, TypeOK
<1>3. /\ WireAgrees' /\ AnswersMatch' /\ waiter # Machinery /\ Answer \in Outcomes
      /\ UNCHANGED restVars
  BY <1>1, <1>2, ResumeStep DEF Answer
<1>4. waiter = Nobody
  BY <1>2, <1>3 DEF IInv, WaiterAgrees, ConnTypeOK, Fetchers
<1> QED
  BY <1>2, <1>3, <1>4 DEF WireAgrees, Reported

(* Every step keeps the wire as it is described.                           *)
LEMMA WireKept == Orderly /\ IInv /\ [Next]_vars => WireAgrees' /\ AnswersMatch'
<1> SUFFICES ASSUME Orderly, IInv, [Next]_vars PROVE WireAgrees' /\ AnswersMatch'
  OBVIOUS
<1> USE ConnectionAssumption DEF ConnectionAssumption
<1>a. ConnTypeOK /\ WireAgrees /\ AnswersMatch /\ Machinery \in Fetchers
  BY DEF IInv, TInv, TypeOK, Fetchers
<1>1. CASE UNCHANGED connVars
  BY <1>a, <1>1 DEF WireAgrees, AnswersMatch, connVars, clientVars, serverVars, wireVars
<1>2. CASE Connect
  BY <1>a, <1>2 DEF Connect, WireAgrees, AnswersMatch, serverVars, wireVars
<1>3. ASSUME pc \in {"reset", "release", "start", "commit", "rollback"},
             NEW cmd \in Commands, NEW n, Fetch(Machinery, cmd, Attempt, n)
      PROVE  WireAgrees' /\ AnswersMatch'
  BY <1>3, OwnFetch
<1>4. ASSUME NEW f \in Fetchers, Resume(f) PROVE WireAgrees' /\ AnswersMatch'
  BY <1>a, <1>4, ResumeStep
<1>5. ASSUME NEW why, Abort(why) \/ ResumeAndAbort(Machinery, why) PROVE WireAgrees' /\ AnswersMatch'
  BY <1>a, <1>5, DisconnectStep
<1>6. ASSUME NEW a \in Attempts, BlockQueries(a) PROVE WireAgrees' /\ AnswersMatch'
  <2>1. /\ waiter # a /\ connected /\ connection = rawConn[a] => waiter = Nobody
        /\ Fetch(a, "query", a, rawConn[a]) /\ a \in Fetchers /\ "query" \in Commands
    BY <1>6, BlockFetches DEF BlockQueries, BlockQueriesOn, Fetchers, Commands
  <2>2. waiter # a
    BY <1>6, BlockFetches
  <2>3. connected /\ connection = rawConn[a] => waiter = Nobody
    BY <1>6, BlockFetches
  <2> QED
    BY <1>a, <2>1, <2>2, <2>3, FetchStep
<1>7. CASE OnData
  BY <1>a, <1>7, OnDataStep
<1>8. CASE ServerAnswers
  BY <1>a, <1>8, ServerStep
<1>9. CASE Call
  <2>1. CASE GetConnection
    BY <1>1, <1>2, <2>1 DEF GetConnection
  <2>2. CASE ResetState \/ StartTransaction \/ Commit \/ Rollback
    BY <1>1, <1>3, <2>2 DEF ResetState, ResetStateIf, StartTransaction, Commit, Rollback, Commands
  <2>3. CASE ResetStateDone \/ Started \/ Committed \/ RolledBack
    BY <1>a, <1>4, <1>5, <2>3 DEF ResetStateDone, Started, Committed, RolledBack
  <2>4. CASE ConnAbort \/ Decide \/ Enqueue
    BY <1>1, <2>4 DEF ConnAbort, Decide, DecideIf, Enqueue
  <2> QED
    BY <1>9, <2>1, <2>2, <2>3, <2>4 DEF Call
<1>10. CASE HandshakeHangs \/ \E c \in Calls : Acquire(c)
  BY <1>1, <1>10 DEF HandshakeHangs, Acquire
<1>11. CASE Block
  BY <1>1, <1>11 DEF Block, BlockReturns, BlockThrows
<1>12. CASE \E a \in Attempts : BlockQueries(a) \/ BlockAnswered(a)
  BY <1>4, <1>6, <1>12 DEF BlockAnswered, Fetchers
<1>13. CASE Receive \/ Serve \/ LoseConnection \/ Terminate \/ TimeOut
  BY <1>5, <1>7, <1>8, <1>13 DEF Receive, Serve, LoseConnection, Terminate, TimeOut,
     ConnectionLost, ClientTerminates, TransactionTimeout
<1>14. CASE UNCHANGED vars
  BY <1>1, <1>14 DEF vars
<1> QED
  BY <1>9, <1>10, <1>11, <1>12, <1>13, <1>14 DEF Next

----------------------------------------------------------------------------
(* Who waits: transaction() itself, or the block it waits for. *)

(* Every step leaves the connection to the one whose turn it is to wait on it. *)
LEMMA WaiterKept == Orderly /\ IInv /\ [Next]_vars => WaiterAgrees'
<1> SUFFICES ASSUME Orderly, IInv, [Next]_vars PROVE WaiterAgrees'
  OBVIOUS
<1> USE ConnectionAssumption DEF ConnectionAssumption
<1>a. ConnTypeOK /\ WireAgrees /\ AnswersMatch /\ Machinery \in Fetchers
  BY DEF IInv, TInv, TypeOK, Fetchers
<1>n. ASSUME waiter' = Nobody PROVE WaiterAgrees'
  BY <1>n DEF WaiterAgrees, Fetchers
(* transaction() moves on while nobody waits. *)
<1>1. CASE \/ \E c \in Calls : Acquire(c)
           \/ GetConnection \/ HandshakeHangs \/ Decide \/ Enqueue \/ ConnAbort \/ Block
  <2>1. waiter = Nobody
    <3>1. CASE ConnAbort
      BY <3>1 DEF ConnAbort, IInv, WireAgrees
    <3>2. CASE Block
      BY <3>2, BlockEnds DEF Block, BlockReturns, BlockThrows
    <3>3. CASE (\E c \in Calls : Acquire(c)) \/ GetConnection \/ HandshakeHangs \/ Decide \/ Enqueue
      BY <3>3, Quiet DEF Acquire, GetConnection, HandshakeHangs, Decide, DecideIf, Enqueue, Awaiting
    <3> QED
      BY <1>1, <3>1, <3>2, <3>3
  <2>2. waiter' = waiter
    BY <1>1 DEF Acquire, GetConnection, HandshakeHangs, Connect, Decide, DecideIf, Enqueue, ConnAbort, Block, BlockReturns, BlockThrows, connVars, clientVars
  <2> QED
    BY <1>n, <2>1, <2>2
<1>2. CASE ResetState
  <2>1. CASE connected /\ xactStatus # "idle"
    <3>1. Fetch(Machinery, "rollback", Attempt, connection) /\ "rollback" \in Commands
      BY <1>2, <2>1 DEF ResetState, ResetStateIf, Commands
    <3>2. pc' \in {"resetting", "releasing"} /\ Attempt' = Attempt
      BY <1>2, <2>1 DEF ResetState, ResetStateIf, Goto, Attempt
    <3>3. /\ waiter' \in {Nobody, Machinery}
          /\ asked'[Machinery] = [by |-> Machinery, cmd |-> "rollback", attempt |-> Attempt]
      BY <1>2, <3>1, OwnFetch DEF ResetState, ResetStateIf
    <3>4. OwnRequest' = [by |-> Machinery, cmd |-> "rollback", attempt |-> Attempt]
      BY <3>2 DEF OwnRequest, Command
    <3> QED
      BY <3>2, <3>3, <3>4 DEF WaiterAgrees, Awaiting, Fetchers
  <2>2. CASE ~(connected /\ xactStatus # "idle")
    BY <1>2, <1>n, <2>2, Quiet DEF ResetState, ResetStateIf, connVars, clientVars, Awaiting
  <2> QED
    BY <2>1, <2>2
<1>3. CASE StartTransaction
  <2>1. Fetch(Machinery, "start", Attempt, connection) /\ "start" \in Commands
    BY <1>3 DEF StartTransaction, Commands
  <2>2. pc' = "starting" /\ Attempt' = Attempt
    BY <1>3 DEF StartTransaction, Goto, Attempt
  <2>3. /\ waiter' \in {Nobody, Machinery}
        /\ asked'[Machinery] = [by |-> Machinery, cmd |-> "start", attempt |-> Attempt]
    BY <1>3, <2>1, OwnFetch DEF StartTransaction
  <2>4. OwnRequest' = [by |-> Machinery, cmd |-> "start", attempt |-> Attempt]
    BY <2>2 DEF OwnRequest, Command
  <2> QED
    BY <2>2, <2>3, <2>4 DEF WaiterAgrees, Awaiting, Fetchers
<1>4. CASE Commit
  <2>1. CASE op[Attempt] = "free"
    <3>1. Fetch(Machinery, "commit", Attempt, rawConn[Attempt]) /\ "commit" \in Commands
      BY <1>4, <2>1 DEF Commit, Commands
    <3>2. pc' = "committing" /\ Attempt' = Attempt
      BY <1>4, <2>1 DEF Commit, Goto, Attempt
    <3>3. /\ waiter' \in {Nobody, Machinery}
          /\ asked'[Machinery] = [by |-> Machinery, cmd |-> "commit", attempt |-> Attempt]
      BY <1>4, <3>1, OwnFetch DEF Commit
    <3>4. OwnRequest' = [by |-> Machinery, cmd |-> "commit", attempt |-> Attempt]
      BY <3>2 DEF OwnRequest, Command
    <3> QED
      BY <3>2, <3>3, <3>4 DEF WaiterAgrees, Awaiting, Fetchers
  <2>2. CASE op[Attempt] # "free"
    BY <1>4, <1>n, <2>2, Quiet DEF Commit, connVars, clientVars, Awaiting
  <2> QED
    BY <2>1, <2>2
<1>5. CASE Rollback
  <2>1. CASE op[Attempt] = "free"
    <3>1. Fetch(Machinery, "rollback", Attempt, rawConn[Attempt]) /\ "rollback" \in Commands
      BY <1>5, <2>1 DEF Rollback, Commands
    <3>2. pc' = "rollingback" /\ Attempt' = Attempt
      BY <1>5, <2>1 DEF Rollback, Goto, Attempt
    <3>3. /\ waiter' \in {Nobody, Machinery}
          /\ asked'[Machinery] = [by |-> Machinery, cmd |-> "rollback", attempt |-> Attempt]
      BY <1>5, <3>1, OwnFetch DEF Rollback
    <3>4. OwnRequest' = [by |-> Machinery, cmd |-> "rollback", attempt |-> Attempt]
      BY <3>2 DEF OwnRequest, Command
    <3> QED
      BY <3>2, <3>3, <3>4 DEF WaiterAgrees, Awaiting, Fetchers
  <2>2. CASE op[Attempt] # "free"
    BY <1>5, <1>n, <2>2, Quiet DEF Rollback, connVars, clientVars, Awaiting
  <2> QED
    BY <2>1, <2>2
(* Its own await ends: nobody waits. *)
<1>6. CASE ResetStateDone \/ Started \/ Committed \/ RolledBack
  <2>1. CASE Resume(Machinery)
    BY <1>6, <1>n, <2>1, OwnResume DEF ResetStateDone, Started, Committed, RolledBack, restVars
  <2>2. CASE ResumeAndAbort(Machinery, "closed")
    BY <1>a, <1>n, <2>2, DisconnectStep
  <2> QED
    BY <1>6, <2>1, <2>2 DEF ResetStateDone, Started, Committed, RolledBack
(* A block waits only while transaction() waits for it. *)
<1>7. ASSUME NEW a \in Attempts, BlockQueries(a) PROVE WaiterAgrees'
  <2>1. /\ waiter # a /\ Fetch(a, "query", a, rawConn[a]) /\ op' = [op EXCEPT ![a] = "query"]
        /\ pc' = pc /\ Attempt' = Attempt /\ OwnRequest' = OwnRequest
    BY <1>7, BlockFetches DEF BlockQueries, BlockQueriesOn, SetOp, callVars, Attempt, OwnRequest
  <2>2. connected /\ connection = rawConn[a] => waiter = Nobody /\ a = Attempt /\ pc = "block"
    BY <1>7, BlockFetches
  <2>3. a \in Fetchers /\ a # Machinery /\ "query" \in Commands
    BY DEF Fetchers, Commands
  <2>4. /\ asked' = [asked EXCEPT ![a] = QueryOf(a)]
        /\ \/ waiter' = waiter
           \/ connected /\ connection = rawConn[a] /\ waiter' = a
    BY <1>a, <2>1, <2>2, <2>3, FetchStep DEF QueryOf
  <2>5. op'[a] = "query" /\ asked'[a] = QueryOf(a) /\ asked'[Machinery] = asked[Machinery]
    BY <1>a, <2>1, <2>3, <2>4 DEF ConnTypeOK, IInv, TInv, TypeOK
  <2>6. CASE waiter' = a /\ connected /\ connection = rawConn[a]
    BY <2>1, <2>2, <2>3, <2>5, <2>6 DEF WaiterAgrees
  <2>7. CASE waiter' = waiter
    BY <2>1, <2>4, <2>5, <2>7 DEF WaiterAgrees, IInv, TInv, TypeOK, ConnTypeOK, QueryOf
  <2> QED
    BY <2>4, <2>6, <2>7
<1>8. ASSUME NEW a \in Attempts, BlockAnswered(a) PROVE WaiterAgrees'
  <2>1. a \in Fetchers /\ a # Machinery
    BY DEF Fetchers
  <2>2. waiter # a /\ waiter' = waiter /\ asked' = [asked EXCEPT ![a] = NoRequest]
    BY <1>8, <1>a, <2>1, ResumeStep DEF BlockAnswered, restVars
  <2>3. /\ op' = [op EXCEPT ![a] = "free"] /\ pc' = pc
        /\ Attempt' = Attempt /\ OwnRequest' = OwnRequest
    BY <1>8 DEF BlockAnswered, SetOp, callVars, Attempt, OwnRequest
  <2> QED
    BY <1>a, <2>1, <2>2, <2>3 DEF WaiterAgrees, IInv, TInv, TypeOK, ConnTypeOK, QueryOf
<1>9. CASE Receive
  BY <1>9, <1>a, <1>n, OnDataStep DEF Receive
<1>10. CASE LoseConnection \/ Terminate \/ TimeOut
  BY <1>10, <1>a, <1>n, DisconnectStep DEF LoseConnection, Terminate, TimeOut,
     ConnectionLost, ClientTerminates, TransactionTimeout
<1>11. CASE Serve \/ UNCHANGED vars
  <2>1. /\ waiter' = waiter /\ asked' = asked /\ pc' = pc /\ op' = op
        /\ Attempt' = Attempt /\ OwnRequest' = OwnRequest
    BY <1>11 DEF Serve, ServerAnswers, vars, connVars, clientVars, callVars, txVars, Attempt, OwnRequest
  <2> QED
    BY <2>1 DEF WaiterAgrees, IInv, QueryOf
<1> QED
  BY <1>1, <1>2, <1>3, <1>4, <1>5, <1>6, <1>7, <1>8, <1>9, <1>10, <1>11 DEF Next, Call

----------------------------------------------------------------------------
(* A block runs in its own attempt, or on a connection that is lost. *)

(* Every step keeps what is known of blocks, by where transaction() is with them. *)
LEMMA BlocksKept == Orderly /\ IInv /\ [Next]_vars => BlocksAgree'
<1> SUFFICES ASSUME Orderly, IInv, [Next]_vars PROVE BlocksAgree'
  OBVIOUS
<1> USE TransactionAssumption DEF TransactionAssumption
<1>a. /\ TypeOK /\ ConnTypeOK /\ BlocksAgree /\ Nobody \notin Calls
      /\ WireAgrees /\ AnswersMatch /\ Machinery \in Fetchers
  BY DEF IInv, TInv, TypeOK, Fetchers
<1>b. pc # "free" => /\ using \in Calls /\ Attempt \in Attempts
                     /\ (result[using] # "none" <=> pc \in Releasing)
  BY AttemptType DEF IInv, CommitsAgree
<1>c. using = Nobody <=> pc = "free"
  BY DEF IInv, TInv, UsingAgrees
<1>d. /\ connection \in Nat /\ rawConn \in [Attempts -> Nat] /\ iteration \in Nat
      /\ \A a \in Attempts : a[1] \in Calls /\ a[2] \in Nat /\ a = <<a[1], a[2]>>
  BY <1>a, ConnectionAssumption DEF TypeOK, ConnTypeOK, ConnectionAssumption
(* A connection that is lost or replaced: no block can use it. *)
<1>1. ASSUME UNCHANGED <<rawConn, block, result, using, iteration>>, pc' = pc,
             UNCHANGED <<connected, connection>> \/ (connection' = connection /\ ~connected')
      PROVE  BlocksAgree'
  BY <1>1, <1>a, <1>d DEF BlocksAgree, Dead, Attempt
<1>2. ASSUME NEW c \in Calls, Acquire(c) PROVE BlocksAgree'
  BY <1>2, <1>a, <1>c, <1>d DEF BlocksAgree, Dead, Attempt, Acquire, Goto, connVars, clientVars, txVars
<1>3. CASE GetConnection
  <2>1. /\ pc = "connect" /\ pc' \in {"reset", "release"}
        /\ UNCHANGED <<using, iteration, rawConn, block>>
        /\ pc' = "reset" => result' = result
        /\ pc' = "release" => result' = [result EXCEPT ![using] = "failed"]
        /\ \/ UNCHANGED <<connected, connection>>
           \/ ~connected /\ connection' = connection + 1
    BY <1>3 DEF GetConnection, Connect, Goto, Settle, connVars, clientVars, txVars
  <2>2. \A a \in Attempts : rawConn[a] <= connection' /\ (block[a] = "running" => Dead(rawConn[a])')
    BY <2>1, <1>a, <1>d DEF BlocksAgree, Dead
  <2>3. \A a \in Attempts : block[a] # "none" => result'[a[1]] # "none" \/ (a[1] = using /\ a[2] < iteration)
    BY <2>1, <1>a, <1>b, <1>d DEF BlocksAgree, TypeOK
  <2> QED
    BY <2>1, <2>2, <2>3 DEF BlocksAgree
<1>4. CASE ResetState
  BY <1>4, <1>a, <1>d DEF BlocksAgree, Dead, Attempt, ResetState, ResetStateIf, Goto, Fetch, connVars, clientVars, txVars
<1>5. CASE ResetStateDone
  <2>1. /\ pc \in {"resetting", "releasing"} /\ pc' \in {"start", "enqueue"}
        /\ UNCHANGED <<using, iteration, result, rawConn, block, connection>>
        /\ connected' = connected \/ ~connected'
    BY <1>5 DEF ResetStateDone, Goto, txVars, Resume, ResumeAndAbort, Disconnect, restVars
  <2> QED
    BY <2>1, <1>a, <1>d DEF BlocksAgree, Dead, Attempt
<1>6. CASE StartTransaction
  <2>1. /\ pc = "start" /\ pc' = "starting" /\ rawConn' = [rawConn EXCEPT ![Attempt] = connection]
        /\ UNCHANGED <<using, iteration, result, block, connection, connected>>
    BY <1>6 DEF StartTransaction, Goto, Fetch
  <2>2. block[Attempt] = "none"
    BY <2>1, <1>a, <1>b, <1>d DEF BlocksAgree, Attempt, Releasing
  <2> QED
    BY <2>1, <2>2, <1>a, <1>b, <1>d DEF BlocksAgree, Dead, Attempt
<1>7. CASE Started
  <2>1. /\ pc = "starting" /\ UNCHANGED <<using, iteration, rawConn, connection, connected>>
        /\ \/ pc' = "block" /\ block' = [block EXCEPT ![Attempt] = "running"] /\ result' = result
           \/ pc' = "release" /\ block' = block /\ result' = [result EXCEPT ![using] = "failed"]
    BY <1>7 DEF Started, Goto, Settle, Resume, restVars
  <2>2. CASE pc' = "block" /\ block' = [block EXCEPT ![Attempt] = "running"] /\ result' = result
    BY <2>1, <2>2, <1>a, <1>b, <1>d DEF BlocksAgree, Dead, Attempt, TypeOK
  <2>3. CASE pc' = "release" /\ block' = block /\ result' = [result EXCEPT ![using] = "failed"]
    BY <2>1, <2>3, <1>a, <1>b, <1>d DEF BlocksAgree, Dead, Attempt, TypeOK
  <2> QED
    BY <2>1, <2>2, <2>3
<1>8. ASSUME NEW a \in Attempts, BlockQueries(a) \/ BlockAnswered(a) PROVE BlocksAgree'
  BY <1>8, <1>1 DEF BlockQueries, BlockQueriesOn, BlockAnswered, Fetch, Resume, restVars, callVars
<1>9. CASE Block
  <2>1. /\ pc = "block" /\ pc' \in {"commit", "rollback"} /\ block' = [block EXCEPT ![Attempt] = "over"]
        /\ UNCHANGED <<using, iteration, result, rawConn, connection, connected>>
    BY <1>9 DEF Block, BlockReturns, BlockThrows, BlockMayEnd, Goto, connVars, clientVars
  <2> QED
    BY <2>1, <1>a, <1>b, <1>d DEF BlocksAgree, Dead, Attempt, TypeOK
<1>10. CASE ConnAbort \/ Commit \/ Rollback \/ RolledBack
  <2>1. /\ pc \in {"block", "commit", "rollback", "rollingback"}
        /\ pc' \in {"commit", "committing", "rollback", "rollingback", "decide"}
        /\ UNCHANGED <<using, iteration, result, rawConn, block, connection, connected>>
        /\ pc = "block" => ~connected
    BY <1>10 DEF ConnAbort, Commit, Rollback, RolledBack, Goto, Fetch, Resume, restVars, connVars, clientVars, txVars
  <2> QED
    BY <2>1, <1>a, <1>b, <1>d DEF BlocksAgree, Dead, Attempt
<1>11. CASE Committed
  <2>1. /\ pc = "committing" /\ UNCHANGED <<using, iteration, rawConn, block, connection, connected>>
        /\ \/ pc' = "release" /\ result' = [result EXCEPT ![using] = "ok"]
           \/ pc' = "decide" /\ result' = result
    BY <1>11 DEF Committed, Goto, Settle, Resume, restVars
  <2> QED
    BY <2>1, <1>a, <1>b, <1>d DEF BlocksAgree, Dead, Attempt, TypeOK
<1>12. CASE Decide
  <2>1. /\ pc = "decide" /\ UNCHANGED <<using, rawConn, block, connection, connected>>
        /\ \/ pc' = "connect" /\ iteration' = iteration + 1 /\ result' = result
           \/ /\ pc' = "release" /\ iteration' = iteration
              /\ \E what \in {"unknown", "failed"} : result' = [result EXCEPT ![using] = what]
    BY <1>12 DEF Decide, DecideIf, Goto, Settle, connVars, clientVars, txVars
  <2> QED
    BY <2>1, <1>a, <1>b, <1>d DEF BlocksAgree, Dead, Attempt, TypeOK
<1>13. CASE Enqueue
  <2>1. /\ pc = "enqueue" /\ pc' = "free" /\ UNCHANGED <<result, rawConn, block, connection, connected>>
    BY <1>13 DEF Enqueue, Goto, connVars, clientVars, txVars
  <2> QED
    BY <2>1, <1>a, <1>b, <1>d DEF BlocksAgree, Dead, Attempt, Releasing
<1>14. CASE Receive \/ Serve \/ UNCHANGED vars
  BY <1>14, <1>1 DEF Receive, Serve, OnData, ServerAnswers, vars, connVars, clientVars, callVars, txVars
<1>15. CASE LoseConnection \/ Terminate \/ TimeOut
  BY <1>15, <1>1 DEF LoseConnection, Terminate, TimeOut, ConnectionLost, ClientTerminates,
     TransactionTimeout, Abort, Disconnect, callVars, txVars
<1>16. CASE HandshakeHangs
  <2>1. /\ pc = "connect" /\ pc' = "hanging"
        /\ UNCHANGED <<using, iteration, rawConn, block, result, connected, connection>>
    BY <1>16 DEF HandshakeHangs, Goto, connVars, clientVars, txVars
  <2> QED
    BY <2>1, <1>a DEF BlocksAgree, Dead, Attempt
<1> QED
  BY <1>2, <1>3, <1>4, <1>5, <1>6, <1>7, <1>8, <1>9, <1>10, <1>11, <1>12, <1>13, <1>14, <1>15, <1>16
     DEF Next, Call

----------------------------------------------------------------------------
(* The session: whose it is, and when it is clean. *)

(* Every step keeps the server's session as transaction() believes it to be. *)
LEMMA SessionKept == Orderly /\ IInv /\ [Next]_vars => SessionAgrees'
<1> SUFFICES ASSUME Orderly, IInv, [Next]_vars PROVE SessionAgrees'
  OBVIOUS
<1> USE ConnectionAssumption DEF ConnectionAssumption
<1>a. /\ TypeOK /\ ConnTypeOK /\ SessionAgrees /\ WaiterAgrees
      /\ WireAgrees /\ AnswersMatch /\ Machinery \in Fetchers /\ session \in Statuses
  BY DEF IInv, TInv, TypeOK, ConnTypeOK, Fetchers
<1>b. pc # "free" => Attempt \in Attempts
  BY AttemptType DEF IInv
(* A connection that is lost took the session with it. *)
<1>1. ASSUME ~connected', session' = "idle" PROVE SessionAgrees'
  BY <1>1 DEF SessionAgrees
<1>2. ASSUME NEW why, Abort(why) \/ ResumeAndAbort(Machinery, why) PROVE SessionAgrees'
  BY <1>2, <1>1, <1>a, DisconnectStep
(* transaction() moves on while nothing is on its way. *)
<1>3. CASE \E c \in Calls : Acquire(c)
  BY <1>3, <1>a DEF SessionAgrees, Acquire, Goto, connVars, clientVars, serverVars
<1>4. CASE GetConnection \/ HandshakeHangs
  <2>1. /\ pc' \in {"reset", "release", "hanging"} /\ session' = session
        /\ \/ UNCHANGED <<connected, waiter, xactStatus>>
           \/ ~connected /\ xactStatus' = "idle"
    BY <1>4 DEF GetConnection, HandshakeHangs, Connect, Goto, Settle, connVars, clientVars, serverVars
  <2> QED
    BY <2>1, <1>a DEF SessionAgrees
<1>5. CASE ResetState
  <2>1. /\ pc \in {"reset", "release"} /\ waiter = Nobody
    BY <1>5, Quiet DEF ResetState, ResetStateIf, Awaiting
  <2>2. CASE connected /\ xactStatus # "idle"
    <3>1. Fetch(Machinery, "rollback", Attempt, connection) /\ "rollback" \in Commands
          /\ pc' \in {"resetting", "releasing"}
      BY <1>5, <2>2 DEF ResetState, ResetStateIf, Goto, Commands
    <3>2. /\ UNCHANGED <<connected, xactStatus, session>> /\ inbound' = <<>>
          /\ waiter' = Machinery /\ Answer' = "awaited"
      BY <2>1, <2>2, <3>1, OwnFetch DEF Answer, serverVars
    <3> QED
      BY <3>1, <3>2, <1>a DEF SessionAgrees, Reported, Fetchers
  <2>3. CASE ~(connected /\ xactStatus # "idle")
    <3>1. /\ pc' \in {"start", "enqueue"} /\ UNCHANGED <<connected, waiter, xactStatus, session>>
      BY <1>5, <2>3 DEF ResetState, ResetStateIf, Goto, connVars, clientVars, serverVars
    <3> QED
      BY <2>1, <2>3, <3>1, <1>a DEF SessionAgrees
  <2> QED
    BY <2>2, <2>3
<1>6. CASE ResetStateDone
  <2>1. CASE Answer # "ok" /\ connected
    BY <1>6, <2>1, <1>2 DEF ResetStateDone
  <2>2. CASE ~(Answer # "ok" /\ connected)
    <3>1. Resume(Machinery) /\ pc \in {"resetting", "releasing"} /\ pc' \in {"start", "enqueue"}
      BY <1>6, <2>2 DEF ResetStateDone, Goto
    <3>2. /\ waiter = Nobody /\ Reported = Answer
          /\ UNCHANGED <<connected, waiter, xactStatus, session>>
      BY <3>1, OwnResume DEF restVars, serverVars
    <3> QED
      BY <2>2, <3>1, <3>2, <1>a DEF SessionAgrees
  <2> QED
    BY <2>1, <2>2
<1>7. CASE StartTransaction
  <2>1. /\ Fetch(Machinery, "start", Attempt, connection) /\ "start" \in Commands
        /\ pc = "start" /\ pc' = "starting"
    BY <1>7 DEF StartTransaction, Goto, Commands
  <2>2. /\ UNCHANGED <<connected, xactStatus, session>> /\ inbound' = <<>>
        /\ \/ waiter' = Nobody /\ ~connected
           \/ waiter' = Machinery /\ Answer' = "awaited"
    BY <2>1, OwnFetch DEF Answer, serverVars
  <2> QED
    BY <2>1, <2>2, <1>a DEF SessionAgrees, Reported, Fetchers
<1>8. CASE Started
  <2>1. /\ Resume(Machinery) /\ pc = "starting"
        /\ \/ pc' = "block" /\ Answer = "ok"
           \/ pc' = "release"
    BY <1>8 DEF Started, Goto, Settle
  <2>2. /\ waiter = Nobody /\ Reported = Answer /\ Attempt' = Attempt
        /\ UNCHANGED <<connected, waiter, xactStatus, session, owner>>
    BY <1>8, <2>1, OwnResume DEF restVars, serverVars, Started, Attempt
  <2> QED
    BY <2>1, <2>2, <1>a DEF SessionAgrees
<1>9. ASSUME NEW a \in Attempts, BlockQueries(a) PROVE SessionAgrees'
  <2>1. /\ waiter # a /\ Fetch(a, "query", a, rawConn[a])
        /\ pc' = pc /\ Attempt' = Attempt
    BY <1>9, BlockFetches DEF BlockQueries, BlockQueriesOn, callVars, Attempt
  <2>2. connected /\ connection = rawConn[a] => waiter = Nobody
    BY <1>9, BlockFetches
  <2>3. a \in Fetchers /\ a # Machinery /\ a # Nobody /\ "query" \in Commands
    BY DEF Fetchers, Commands
  <2>4. /\ UNCHANGED <<connected, xactStatus, session, owner, inbound>> /\ Answer' = Answer
        /\ \/ waiter' = waiter
           \/ waiter' = a
    BY <1>a, <2>1, <2>2, <2>3, FetchStep DEF serverVars, Answer
  <2>5. Reported' = Reported
    BY <2>4 DEF Reported
  <2> QED
    BY <2>1, <2>3, <2>4, <2>5, <1>a DEF SessionAgrees
<1>10. ASSUME NEW a \in Attempts, BlockAnswered(a) PROVE SessionAgrees'
  <2>1. a \in Fetchers /\ a # Machinery
    BY DEF Fetchers
  <2>2. /\ UNCHANGED <<connected, xactStatus, session, owner, inbound, waiter>> /\ Answer' = Answer
    BY <1>10, <1>a, <2>1, ResumeStep DEF BlockAnswered, restVars, serverVars, wireVars, Answer, ConnTypeOK
  <2>3. pc' = pc /\ Attempt' = Attempt /\ Reported' = Reported
    BY <1>10, <2>2 DEF BlockAnswered, callVars, Attempt, Reported
  <2> QED
    BY <2>2, <2>3, <1>a DEF SessionAgrees
<1>11. CASE Block
  <2>1. /\ UNCHANGED <<connected, xactStatus, session, owner, waiter>> /\ Attempt' = Attempt
        /\ pc = "block" /\ pc' \in {"commit", "rollback"}
    BY <1>11 DEF Block, BlockReturns, BlockThrows, BlockMayEnd, Goto, connVars, clientVars, serverVars, Attempt
  <2> QED
    BY <2>1, <1>a DEF SessionAgrees
<1>12. CASE ConnAbort
  BY <1>12, <1>1, <1>a DEF ConnAbort, SessionAgrees, connVars, clientVars, serverVars
<1>13. CASE Commit
  <2>1. pc = "commit" /\ waiter = Nobody /\ inbound = <<>> /\ Attempt' = Attempt
    BY <1>13, Quiet DEF Commit, Awaiting, Attempt
  <2>2. CASE op[Attempt] = "free"
    <3>1. /\ Fetch(Machinery, "commit", Attempt, rawConn[Attempt]) /\ "commit" \in Commands
          /\ pc' = "committing"
      BY <1>13, <2>2 DEF Commit, Goto, Commands
    <3>2. /\ UNCHANGED <<connected, xactStatus, session, owner>> /\ inbound' = <<>>
          /\ waiter' \in {Nobody, Machinery}
      BY <2>1, <3>1, OwnFetch DEF serverVars
    <3> QED
      BY <2>1, <3>1, <3>2, <1>a DEF SessionAgrees, Fetchers
  <2>3. CASE op[Attempt] # "free"
    <3>1. pc' = "decide" /\ UNCHANGED <<connected, waiter, xactStatus, session>>
      BY <1>13, <2>3 DEF Commit, Goto, connVars, clientVars, serverVars
    <3> QED
      BY <2>1, <3>1, <1>a DEF SessionAgrees
  <2> QED
    BY <2>2, <2>3
<1>14. CASE Rollback
  <2>1. pc = "rollback" /\ waiter = Nobody
    BY <1>14, Quiet DEF Rollback, Awaiting
  <2>2. /\ pc' \in {"rollingback", "decide"} /\ UNCHANGED <<connected, xactStatus, session>>
        /\ waiter' \in {Nobody, Machinery}
    <3>1. CASE op[Attempt] = "free"
      <4>1. /\ Fetch(Machinery, "rollback", Attempt, rawConn[Attempt]) /\ "rollback" \in Commands
            /\ pc' = "rollingback"
        BY <1>14, <3>1 DEF Rollback, Goto, Commands
      <4> QED
        BY <2>1, <4>1, OwnFetch DEF serverVars
    <3>2. CASE op[Attempt] # "free"
      BY <1>14, <2>1, <3>2 DEF Rollback, Goto, connVars, clientVars, serverVars
    <3> QED
      BY <3>1, <3>2
  <2> QED
    BY <2>1, <2>2, <1>a DEF SessionAgrees
<1>15. CASE Committed \/ RolledBack
  <2>1. Resume(Machinery) /\ pc \in {"committing", "rollingback"} /\ pc' \in {"release", "decide"}
    BY <1>15 DEF Committed, RolledBack, Goto, Settle
  <2>2. waiter = Nobody /\ UNCHANGED <<connected, waiter, xactStatus, session>>
    BY <2>1, OwnResume DEF restVars, serverVars
  <2> QED
    BY <2>1, <2>2, <1>a DEF SessionAgrees
<1>16. CASE Decide \/ Enqueue
  <2>1. /\ \/ pc = "decide" /\ pc' \in {"connect", "release"}
           \/ pc = "enqueue" /\ pc' = "free"
        /\ UNCHANGED <<connected, waiter, xactStatus, session>>
    BY <1>16 DEF Decide, DecideIf, Enqueue, Goto, Settle, connVars, clientVars, serverVars
  <2> QED
    BY <2>1, <1>a DEF SessionAgrees
(* What the server says is heard as it was said. *)
<1>17. CASE Receive
  <2>1. /\ connected /\ waiter \in Fetchers /\ waiter' = Nobody
        /\ inbound # <<>> /\ inbound' = <<>>
        /\ answer' = [answer EXCEPT ![waiter] = Head(inbound).outcome]
        /\ xactStatus' = session /\ UNCHANGED <<connected, session, owner>>
        /\ pc' = pc /\ Attempt' = Attempt
    BY <1>17, <1>a, OnDataStep DEF Receive, OnData, callVars, Attempt, serverVars
  <2>2. waiter = Machinery => Reported' = Reported
    BY <2>1, <1>a DEF Reported, Answer, ConnTypeOK
  <2>3. waiter # Machinery => pc = "block"
    BY <2>1, <1>a DEF WaiterAgrees, Fetchers
  <2> QED
    BY <2>1, <2>2, <2>3, <1>a DEF SessionAgrees
<1>18. CASE Serve
  <2>1. /\ connected /\ waiter \in Fetchers /\ inbound = <<>>
        /\ UNCHANGED <<connected, waiter, xactStatus, answer>> /\ pc' = pc /\ Attempt' = Attempt
    BY <1>18, <1>a, ServerStep DEF Serve, clientVars, callVars, Attempt
  <2>2. PICK r \in PossibleReplies(asked[waiter].cmd) :
          /\ inbound' = <<[to |-> asked[waiter], outcome |-> r[1], status |-> r[2]]>>
          /\ session' = r[2]
          /\ owner' = IF r[2] = "idle" THEN Nobody
                      ELSE IF session = "idle" THEN asked[waiter].attempt ELSE owner
    BY <1>18, <1>a, ServerStep DEF Serve
  <2>3. waiter # Nobody
    BY <2>1 DEF Fetchers
  <2>4. Reported' = r[1] /\ r[1] \in {"ok", "conflict", "fatal"}
    BY <2>2, <1>a, ReplyFacts DEF Reported
  <2>5. CASE waiter \in Attempts
    <3>1. pc = "block" /\ asked[waiter].cmd = "query"
      BY <2>5, <1>a DEF WaiterAgrees, QueryOf
    <3>2. r[2] # "idle"
      BY <2>1, <3>1, <1>a, ReplyFacts DEF SessionAgrees
    <3> QED
      BY <2>1, <2>2, <2>3, <3>1, <3>2, <1>a DEF SessionAgrees
  <2>6. CASE waiter = Machinery
    <3>1. /\ pc \in Awaiting /\ asked[waiter].cmd = Command(pc) /\ asked[waiter].attempt = Attempt
          /\ Reported = "awaited"
      BY <2>1, <2>6, <1>a DEF WaiterAgrees, OwnRequest, WireAgrees, Reported, Answer
    <3>2. CASE pc = "starting"
      <4>1. asked[waiter].cmd = "start" /\ session = "idle"
        BY <2>1, <3>1, <3>2, <1>a DEF Command, SessionAgrees
      <4>2. r[1] = "ok" => r[2] # "idle"
        BY <4>1, <1>a, ReplyFacts
      <4> QED
        BY <2>1, <2>2, <2>3, <2>4, <3>1, <3>2, <4>1, <4>2, <1>a DEF SessionAgrees
    <3>3. CASE pc = "committing"
      BY <2>1, <2>2, <2>3, <2>4, <3>3, <1>a DEF SessionAgrees
    <3>4. CASE pc \in {"resetting", "rollingback", "releasing"}
      <4>1. asked[waiter].cmd = "rollback"
        BY <3>1, <3>4 DEF Command
      <4>2. r[2] = "idle"
        BY <4>1, <1>a, ReplyFacts
      <4> QED
        BY <2>1, <2>2, <2>3, <3>4, <4>2, <1>a DEF SessionAgrees
    <3> QED
      BY <3>1, <3>2, <3>3, <3>4 DEF Awaiting
  <2> QED
    BY <2>1, <2>5, <2>6 DEF Fetchers
<1>19. CASE LoseConnection \/ Terminate \/ TimeOut
  BY <1>19, <1>2 DEF LoseConnection, Terminate, TimeOut, ConnectionLost, ClientTerminates, TransactionTimeout
<1>20. CASE UNCHANGED vars
  BY <1>20, <1>a DEF SessionAgrees, Reported, Answer, Attempt, vars, connVars, clientVars, serverVars, wireVars, callVars
<1> QED
  BY <1>3, <1>4, <1>5, <1>6, <1>7, <1>8, <1>9, <1>10, <1>11, <1>12, <1>13, <1>14, <1>15, <1>16,
     <1>17, <1>18, <1>19, <1>20 DEF Next, Call

----------------------------------------------------------------------------
(* What the server committed, and what callers are told. *)

(* A query that runs is one of the block transaction() waits for.          *)
LEMMA QueriesKept == Orderly /\ IInv /\ [Next]_vars => QueriesInOwnTransaction'
<1> SUFFICES ASSUME Orderly, IInv, [Next]_vars PROVE QueriesInOwnTransaction'
  OBVIOUS
<1>a. /\ ConnTypeOK /\ SessionAgrees /\ WaiterAgrees /\ WireAgrees /\ AnswersMatch
      /\ QueriesInOwnTransaction /\ session \in Statuses
  BY DEF IInv, TInv, TypeOK, ConnTypeOK
<1>1. CASE written' = written
  BY <1>1, <1>a DEF QueriesInOwnTransaction
<1>2. CASE Serve
  <2>1. /\ connected /\ waiter \in Fetchers
        /\ \/ written' = written
           \/ /\ asked[waiter].cmd = "query"
              /\ written' = written \cup {<<asked[waiter].attempt, owner>>}
    BY <1>2, <1>a, ServerStep DEF Serve
  <2>2. CASE asked[waiter].cmd = "query" /\ written' = written \cup {<<asked[waiter].attempt, owner>>}
    <3>1. waiter \in Attempts
      BY <2>1, <2>2, <1>a DEF WaiterAgrees, OwnRequest, Command, Fetchers
    <3>2. pc = "block" /\ waiter = Attempt /\ asked[waiter].attempt = Attempt
      BY <3>1, <1>a DEF WaiterAgrees, QueryOf
    <3>3. owner = Attempt
      BY <2>1, <3>2, <1>a DEF SessionAgrees
    <3> QED
      BY <2>2, <3>2, <3>3, <1>a DEF QueriesInOwnTransaction
  <2> QED
    BY <2>1, <2>2, <1>1
<1>3. CASE ~Serve
  <2>1. CASE Call
    BY <2>1, <1>1 DEF Call, GetConnection, Connect, ResetState, ResetStateIf, ResetStateDone, StartTransaction,
       Started, ConnAbort, Commit, Committed, Rollback, RolledBack, Decide, DecideIf, Enqueue, Fetch,
       Resume, ResumeAndAbort, Disconnect, restVars, connVars, serverVars
  <2>2. CASE ~Call
    BY <1>3, <2>2, <1>1 DEF Next, Acquire, HandshakeHangs, Block, BlockReturns, BlockThrows, BlockQueries, BlockQueriesOn,
       BlockAnswered, Receive, LoseConnection, Terminate, TimeOut, OnData, ConnectionLost,
       ClientTerminates, TransactionTimeout, Abort, Disconnect, Fetch, Resume, restVars, vars,
       connVars, serverVars
  <2> QED
    BY <2>1, <2>2
<1> QED
  BY <1>2, <1>3

(* The server commits the attempt whose COMMIT transaction() awaits, and   *)
(* none of that call before.                                               *)
LEMMA CommitStep ==
  ASSUME IInv, Serve
  PROVE  \/ /\ committed' = committed
            /\ pc = "committing" => Reported = "awaited" /\ Reported' \in {"conflict", "fatal"}
         \/ /\ pc = "committing" /\ Reported = "awaited" /\ Reported' = "ok"
            /\ CommittedOf(using) = {} /\ committed' = committed \cup {Attempt}
<1>a. /\ ConnTypeOK /\ SessionAgrees /\ WaiterAgrees /\ WireAgrees /\ AnswersMatch /\ CommitsAgree
      /\ session \in Statuses
  BY DEF IInv, TInv, TypeOK, ConnTypeOK
<1>1. /\ connected /\ waiter \in Fetchers /\ inbound = <<>> /\ UNCHANGED clientVars
  BY <1>a, ServerStep DEF Serve
<1>2. PICK r \in PossibleReplies(asked[waiter].cmd) :
        /\ inbound' = <<[to |-> asked[waiter], outcome |-> r[1], status |-> r[2]]>>
        /\ committed' = IF asked[waiter].cmd = "commit" /\ r[1] = "ok"
                        THEN committed \cup {owner} ELSE committed
  BY <1>a, ServerStep DEF Serve
<1>3. CASE asked[waiter].cmd = "commit" /\ r[1] = "ok"
  <2>1. waiter = Machinery
    BY <1>1, <1>3, <1>a DEF WaiterAgrees, QueryOf, Fetchers
  <2>2. pc = "committing"
    BY <1>3, <2>1, <1>a DEF WaiterAgrees, OwnRequest, Command, Awaiting
  <2>3. Reported = "awaited"
    BY <1>1, <2>1, <1>a DEF WireAgrees, Reported, Answer
  <2>4. owner = Attempt /\ CommittedOf(using) = {}
    BY <1>1, <2>2, <2>3, <1>a DEF SessionAgrees, CommitsAgree
  <2>5. Reported' = "ok"
    BY <1>2, <1>3 DEF Reported
  <2> QED
    BY <1>2, <1>3, <2>2, <2>3, <2>4, <2>5
<1>4. CASE ~(asked[waiter].cmd = "commit" /\ r[1] = "ok")
  <2>1. Reported' = r[1] /\ r[1] \in {"ok", "conflict", "fatal"}
    BY <1>2, <1>a, ReplyFacts DEF Reported
  <2>2. ASSUME pc = "committing" PROVE Reported = "awaited" /\ asked[waiter].cmd = "commit"
    <3>1. waiter = Machinery
      BY <2>2, <1>1, <1>a DEF WaiterAgrees, Fetchers
    <3> QED
      BY <2>2, <3>1, <1>1, <1>a DEF WaiterAgrees, OwnRequest, Command, WireAgrees, Reported, Answer
  <2> QED
    BY <1>2, <1>4, <2>1, <2>2
<1> QED
  BY <1>3, <1>4

(* Every step keeps the commits of the server at most one for a call, and told truly. *)
LEMMA CommitsKept == Orderly /\ IInv /\ [Next]_vars => CommitsAgree'
<1> SUFFICES ASSUME Orderly, IInv, [Next]_vars PROVE CommitsAgree'
  OBVIOUS
<1> USE ConnectionAssumption, TransactionAssumption DEF ConnectionAssumption, TransactionAssumption
<1>a. /\ TypeOK /\ ConnTypeOK /\ WaiterAgrees /\ WireAgrees /\ AnswersMatch /\ CommitsAgree
      /\ Machinery \in Fetchers /\ result \in [Calls -> {"none", "ok", "failed", "unknown"}]
  BY DEF IInv, TInv, TypeOK, Fetchers
<1>b. pc # "free" => using \in Calls /\ Attempt \in Attempts
  BY AttemptType DEF IInv
<1>c. using = Nobody <=> pc = "free"
  BY DEF IInv, TInv, UsingAgrees
<1>d. \A c \in Calls : c # Nobody
  OBVIOUS
(* transaction() moves on, having told nobody anything. *)
<1>1. ASSUME committed' = committed, result' = result, using' = using, pc \notin Releasing \cup {"free"},
             pc' \notin Releasing \cup {"free", "committing", "decide"}, CommittedOf(using) = {}
      PROVE  CommitsAgree'
  BY <1>1, <1>a DEF CommitsAgree, CommittedOf
<1>2. ASSUME committed' = committed, result' = result, using' = using, pc' \in Releasing, pc \in Releasing
      PROVE  CommitsAgree'
  BY <1>2, <1>a DEF CommitsAgree, CommittedOf, Releasing
(* transaction() ends with what its caller is told. *)
<1>3. ASSUME committed' = committed, using' = using, pc \notin Releasing \cup {"free"}, pc' = "release",
             NEW what \in {"ok", "failed", "unknown"}, result' = [result EXCEPT ![using] = what],
             what = "ok" => CommittedOf(using) # {}, what = "failed" => CommittedOf(using) = {}
      PROVE  CommitsAgree'
  BY <1>3, <1>a, <1>b DEF CommitsAgree, CommittedOf, Releasing
<1>4. ASSUME NEW c \in Calls, Acquire(c) PROVE CommitsAgree'
  <2>1. /\ pc = "free" /\ pc' = "connect" /\ result[c] = "none" /\ using' = c
        /\ UNCHANGED <<committed, result>>
    BY <1>4 DEF Acquire, Goto, connVars, serverVars
  <2> QED
    BY <2>1, <1>a, <1>c, <1>d DEF CommitsAgree, CommittedOf, Releasing
<1>5. CASE GetConnection \/ HandshakeHangs
  <2>1. /\ pc = "connect" /\ UNCHANGED <<committed, using>>
        /\ \/ pc' \in {"reset", "hanging"} /\ result' = result
           \/ pc' = "release" /\ result' = [result EXCEPT ![using] = "failed"]
    BY <1>5 DEF GetConnection, HandshakeHangs, Connect, Goto, Settle, connVars, serverVars
  <2>2. CommittedOf(using) = {}
    BY <2>1, <1>a DEF CommitsAgree, Releasing
  <2> QED
    BY <1>1, <1>3, <2>1, <2>2 DEF Releasing
<1>6. CASE ResetState \/ ResetStateDone \/ StartTransaction
  <2>1. /\ UNCHANGED <<committed, using, result>>
        /\ \/ pc \in {"reset", "resetting", "start"} /\ pc' \in {"resetting", "start", "starting"}
           \/ pc \in Releasing /\ pc' \in Releasing
    BY <1>6 DEF ResetState, ResetStateIf, ResetStateDone, StartTransaction, Goto, Fetch, Resume,
       ResumeAndAbort, Disconnect, restVars, connVars, serverVars, Releasing
  <2>2. pc \in {"reset", "resetting", "start"} => CommittedOf(using) = {}
    BY <1>a DEF CommitsAgree, Releasing
  <2> QED
    BY <1>1, <1>2, <2>1, <2>2 DEF Releasing
<1>7. CASE Started
  <2>1. /\ pc = "starting" /\ UNCHANGED <<committed, using>>
        /\ \/ pc' = "block" /\ result' = result
           \/ pc' = "release" /\ result' = [result EXCEPT ![using] = "failed"]
    BY <1>7 DEF Started, Goto, Settle, Resume, restVars, serverVars
  <2>2. CommittedOf(using) = {}
    BY <2>1, <1>a DEF CommitsAgree, Releasing
  <2> QED
    BY <1>1, <1>3, <2>1, <2>2 DEF Releasing
<1>8. ASSUME NEW a \in Attempts, BlockQueries(a) PROVE CommitsAgree'
  <2>1. /\ waiter # a /\ Fetch(a, "query", a, rawConn[a]) /\ UNCHANGED callVars
    BY <1>8, BlockFetches DEF BlockQueries, BlockQueriesOn
  <2>2. connected /\ connection = rawConn[a] => waiter = Nobody
    BY <1>8, BlockFetches
  <2>3. a \in Fetchers /\ a # Machinery /\ "query" \in Commands
    BY DEF Fetchers, Commands
  <2>4. UNCHANGED <<committed, inbound>> /\ Answer' = Answer
    BY <1>a, <2>1, <2>2, <2>3, FetchStep DEF serverVars, Answer
  <2> QED
    BY <2>1, <2>4, <1>a DEF CommitsAgree, CommittedOf, Reported, Attempt, callVars
<1>9. ASSUME NEW a \in Attempts, BlockAnswered(a) PROVE CommitsAgree'
  <2>1. a \in Fetchers /\ a # Machinery
    BY DEF Fetchers
  <2>2. UNCHANGED <<committed, inbound>> /\ Answer' = Answer
    BY <1>9, <1>a, <2>1, ResumeStep DEF BlockAnswered, restVars, serverVars, wireVars, Answer, ConnTypeOK
  <2> QED
    BY <1>9, <2>2, <1>a DEF BlockAnswered, CommitsAgree, CommittedOf, Reported, Attempt, callVars
<1>10. CASE Block
  <2>1. /\ pc = "block" /\ pc' \in {"commit", "rollback"} /\ UNCHANGED <<committed, using, result>>
    BY <1>10 DEF Block, BlockReturns, BlockThrows, BlockMayEnd, Goto, connVars, serverVars
  <2>2. CommittedOf(using) = {}
    BY <2>1, <1>a DEF CommitsAgree, Releasing
  <2> QED
    BY <1>1, <2>1, <2>2 DEF Releasing
<1>11. CASE ConnAbort \/ Rollback \/ RolledBack
  <2>1. /\ pc \in {"block", "rollback", "rollingback"} /\ pc' \in {"rollback", "rollingback", "decide"}
        /\ UNCHANGED <<committed, using, result>>
    BY <1>11 DEF ConnAbort, Rollback, RolledBack, Goto, Fetch, Resume, restVars, connVars, serverVars
  <2>2. CommittedOf(using) = {}
    BY <2>1, <1>a DEF CommitsAgree, Releasing
  <2> QED
    BY <2>1, <2>2, <1>a DEF CommitsAgree, CommittedOf, Releasing
<1>12. CASE Commit
  <2>1. pc = "commit" /\ UNCHANGED <<committed, using, result>> /\ Attempt' = Attempt
    BY <1>12 DEF Commit, Fetch, connVars, serverVars, Attempt
  <2>2. CommittedOf(using) = {}
    BY <2>1, <1>a DEF CommitsAgree, Releasing
  <2>3. CASE op[Attempt] = "free"
    <3>1. /\ Fetch(Machinery, "commit", Attempt, rawConn[Attempt]) /\ "commit" \in Commands
          /\ pc' = "committing"
      BY <1>12, <2>3 DEF Commit, Goto, Commands
    <3>2. inbound' = <<>> /\ Answer' \in {"closed", "terminated", "awaited"}
      BY <2>1, <3>1, OwnFetch DEF Answer
    <3> QED
      BY <2>1, <2>2, <3>1, <3>2, <1>a DEF CommitsAgree, CommittedOf, Releasing, Reported
  <2>4. CASE op[Attempt] # "free"
    <3>1. pc' = "decide"
      BY <1>12, <2>4 DEF Commit, Goto
    <3> QED
      BY <2>1, <2>2, <3>1, <1>a DEF CommitsAgree, CommittedOf, Releasing
  <2> QED
    BY <2>3, <2>4
<1>13. CASE Committed
  <2>1. /\ Resume(Machinery) /\ pc = "committing" /\ using' = using
        /\ \/ Answer = "ok" /\ pc' = "release" /\ result' = [result EXCEPT ![using] = "ok"]
           \/ /\ Answer # "ok" /\ pc' = "decide" /\ result' = result
              /\ error' = Answer /\ commitFailed' = TRUE
    BY <1>13 DEF Committed, Goto, Settle
  <2>2. Reported = Answer /\ Answer \in Outcomes /\ committed' = committed
    BY <2>1, OwnResume DEF restVars, serverVars
  <2>3. Answer = "ok" => CommittedOf(using) # {}
    BY <2>1, <2>2, <1>a, <1>b DEF CommitsAgree, CommittedOf, Attempt
  <2>4. Answer \notin {"ok", "closed", "terminated"} => CommittedOf(using) = {}
    BY <2>1, <2>2, <1>a DEF CommitsAgree, Outcomes
  <2>5. CASE Answer = "ok"
    BY <1>3, <2>1, <2>2, <2>3, <2>5 DEF Releasing
  <2>6. CASE Answer # "ok"
    BY <2>1, <2>2, <2>4, <2>6, <1>a DEF CommitsAgree, CommittedOf, Releasing
  <2> QED
    BY <2>5, <2>6
<1>14. CASE Decide
  <2>1. /\ pc = "decide" /\ UNCHANGED <<committed, using>>
        /\ \/ pc' = "connect" /\ result' = result /\ Retriable
           \/ /\ pc' = "release"
              /\ result' = [result EXCEPT ![using] =
                   IF commitFailed /\ error \in {"closed", "terminated"} THEN "unknown" ELSE "failed"]
    BY <1>14 DEF Decide, DecideIf, Goto, Settle, connVars, serverVars
  <2>2. CommittedOf(using) # {} => commitFailed /\ error \in {"closed", "terminated"}
    BY <2>1, <1>a DEF CommitsAgree
  <2>3. Retriable => CommittedOf(using) = {}
    BY <2>2 DEF Retriable, ShouldRetry
  <2> QED
    BY <1>1, <1>3, <2>1, <2>2, <2>3 DEF Releasing
<1>15. CASE Enqueue
  <2>1. pc = "enqueue" /\ pc' = "free" /\ using' = Nobody /\ UNCHANGED <<committed, result>>
    BY <1>15 DEF Enqueue, Goto, connVars, serverVars
  <2> QED
    BY <2>1, <1>a, <1>b DEF CommitsAgree, CommittedOf, Releasing
<1>16. CASE Receive
  <2>1. /\ waiter \in Fetchers /\ inbound # <<>> /\ inbound' = <<>>
        /\ answer' = [answer EXCEPT ![waiter] = Head(inbound).outcome]
        /\ UNCHANGED <<committed, callVars>>
    BY <1>16, <1>a, OnDataStep DEF Receive, OnData, serverVars
  <2>2. pc = "committing" => waiter = Machinery
    BY <2>1, <1>a DEF WaiterAgrees, Fetchers
  <2>3. pc = "committing" => Reported' = Reported
    BY <2>1, <2>2, <1>a DEF Reported, Answer, ConnTypeOK
  <2> QED
    BY <2>1, <2>3, <1>a DEF CommitsAgree, CommittedOf, Attempt, callVars
<1>17. CASE Serve
  <2>1. /\ UNCHANGED <<using, pc, iteration, error, commitFailed, result>> /\ Attempt' = Attempt
    BY <1>17 DEF Serve, callVars, Attempt
  <2>2. CASE /\ committed' = committed
             /\ pc = "committing" => Reported = "awaited" /\ Reported' \in {"conflict", "fatal"}
    BY <2>1, <2>2, <1>a DEF CommitsAgree, CommittedOf
  <2>3. CASE /\ pc = "committing" /\ Reported' = "ok"
             /\ CommittedOf(using) = {} /\ committed' = committed \cup {Attempt}
    BY <2>1, <2>3, <1>a, <1>b DEF CommitsAgree, CommittedOf, Attempt, Releasing
  <2> QED
    BY <1>17, <2>2, <2>3, CommitStep
<1>18. CASE LoseConnection \/ Terminate \/ TimeOut
  <2>1. PICK why \in {"closed", "timeout", "terminated"} : Abort(why) /\ UNCHANGED callVars
    BY <1>18 DEF LoseConnection, Terminate, TimeOut, ConnectionLost, ClientTerminates, TransactionTimeout
  <2>2. committed' = committed /\ inbound' = <<>>
    BY <2>1, <1>a, DisconnectStep
  <2>3. pc = "committing" => (Answer' = Answer /\ inbound = <<>>) \/ Answer' \in {"closed", "terminated"}
    BY <2>1, <1>a, OnlyOwn DEF Abort, Rejected, Answer, Awaiting
  <2>4. pc = "committing" => Reported' = Reported \/ Reported' \in {"closed", "terminated"}
    BY <2>2, <2>3 DEF Reported
  <2> QED
    BY <2>1, <2>2, <2>4, <1>a DEF CommitsAgree, CommittedOf, Attempt, callVars
<1>19. CASE UNCHANGED vars
  BY <1>19, <1>a DEF CommitsAgree, CommittedOf, Reported, Answer, Attempt, vars, connVars, clientVars,
     serverVars, wireVars, callVars
<1> QED
  BY <1>4, <1>5, <1>6, <1>7, <1>8, <1>9, <1>10, <1>11, <1>12, <1>13, <1>14, <1>15, <1>16,
     <1>17, <1>18, <1>19 DEF Next, Call

----------------------------------------------------------------------------
(* The theorems. *)

(* Types and the connection in use agree before the first call. *)
LEMMA InitTypes == Init => TInv
<1> SUFFICES ASSUME Init PROVE TInv
  OBVIOUS
<1> USE ConnectionAssumption, TransactionAssumption DEF ConnectionAssumption, TransactionAssumption
<1>1. ConnTypeOK
  <2>1. /\ asked \in [Fetchers -> Request \cup {NoRequest}]
        /\ answered \in [Fetchers -> Request \cup {NoRequest}]
        /\ answer \in [Fetchers -> Outcomes \cup {"none", "awaited"}]
    BY DEF Init, ConnInit
  <2>2. sent \in Seq(Request) /\ inbound \in Seq(Reply) /\ buffer \in Seq(Reply)
    BY DEF Init, ConnInit
  <2>3. connection \in 0..MaxConnections
    BY DEF Init, ConnInit
  <2> QED
    BY <2>1, <2>2, <2>3 DEF Init, ConnInit, ConnTypeOK, Statuses
<1>2. UsingAgrees /\ OwnerAgrees
  BY DEF Init, ConnInit, UsingAgrees, OwnerAgrees
<1>3. /\ iteration \in 0..(MaxAttempts - 1) /\ rawConn \in [Attempts -> 0..MaxConnections]
      /\ queries \in [Attempts -> 0..MaxQueries]
  BY DEF Init
<1>4. /\ result \in [Calls -> {"none", "ok", "failed", "unknown"}]
      /\ state \in [Attempts -> {"none", "active", "committed", "rolledback"}]
      /\ op \in [Attempts -> {"free", "query", "machinery"}]
      /\ block \in [Attempts -> {"none", "running", "over"}]
  BY DEF Init
<1> QED
  BY <1>1, <1>2, <1>3, <1>4 DEF Init, TInv, TypeOK

(* The inductive invariant holds before the first call. *)
LEMMA InitInvariant == Init => IInv
<1> SUFFICES ASSUME Init PROVE IInv
  OBVIOUS
<1> USE ConnectionAssumption, TransactionAssumption DEF ConnectionAssumption, TransactionAssumption
<1>1. TInv
  BY InitTypes
<1>2. WireAgrees /\ WaiterAgrees /\ AnswersMatch
  BY DEF Init, ConnInit, WireAgrees, WaiterAgrees, AnswersMatch, Fetchers
<1>3. BlocksAgree /\ QueriesInOwnTransaction
  BY DEF Init, ConnInit, BlocksAgree, QueriesInOwnTransaction
<1>4. SessionAgrees /\ CommitsAgree
  BY DEF Init, ConnInit, SessionAgrees, CommitsAgree, CommittedOf
<1> QED
  BY <1>1, <1>2, <1>3, <1>4 DEF IInv

(* Every step preserves the inductive invariant. *)
LEMMA NextInvariant == Orderly /\ IInv /\ [Next]_vars => IInv'
BY NextTypes, WireKept, WaiterKept, BlocksKept, SessionKept, CommitsKept, QueriesKept DEF IInv

(* Every variable of transaction(), its blocks, the connection and the     *)
(* server's session keeps to its values, whatever the blocks do.           *)
THEOREM TransactionTypes == Spec => []TypeOK
<1>1. TInv => TypeOK
  BY DEF TInv
<1> QED
  BY InitTypes, NextTypes, <1>1, PTL DEF Spec

(* The inductive invariant holds at any moment, when blocks are orderly. *)
LEMMA Invariant == ASSUME Orderly PROVE Spec => []IInv
<1>1. IInv /\ [Next]_vars => IInv'
  BY NextInvariant
<1> QED
  BY InitInvariant, <1>1, PTL DEF Spec

(* Nobody gets the answer to another's request, although requests carry no *)
(* number and a lost connection, a time-out or a retry may come at any     *)
(* moment, provided that blocks await their queries and keep tx.           *)
THEOREM AnswersAlwaysMatch == ASSUME Orderly PROVE Spec => []AnswersMatch
<1>1. IInv => AnswersMatch
  BY DEF IInv
<1> QED
  BY Invariant, <1>1, PTL

(* A holder that goes back to the pool has a clean connection, however the *)
(* transaction it served ended.                                            *)
THEOREM AlwaysReleasedClean == ASSUME Orderly PROVE Spec => []ReleasedClean
<1>1. IInv => ReleasedClean
  BY Quiet DEF IInv, TInv, UsingAgrees, WireAgrees, SessionAgrees, ReleasedClean, Awaiting
<1> QED
  BY Invariant, <1>1, PTL

(* The queries of a block run in the transaction of its own attempt, also  *)
(* those of a block that goes on after transaction() gave its attempt up.  *)
THEOREM QueriesAlwaysInOwnTransaction == ASSUME Orderly PROVE Spec => []QueriesInOwnTransaction
<1>1. IInv => QueriesInOwnTransaction
  BY DEF IInv
<1> QED
  BY Invariant, <1>1, PTL

(* How often the server committed the block of a call.                     *)
LEMMA AppliedOnce ==
  ASSUME CommitsAgree, NEW c \in Calls
  PROVE  /\ CommittedOf(c) = {} => Cardinality(CommittedOf(c)) = 0
         /\ CommittedOf(c) # {} => Cardinality(CommittedOf(c)) = 1
<1>1. CommittedOf(c) = {} => Cardinality(CommittedOf(c)) = 0
  BY FS_EmptySet
<1>2. ASSUME CommittedOf(c) # {} PROVE Cardinality(CommittedOf(c)) = 1
  <2>1. PICK a \in CommittedOf(c) : TRUE
    BY <1>2
  <2>2. CommittedOf(c) = {a}
    BY <2>1 DEF CommitsAgree, CommittedOf
  <2> QED
    BY <2>2, FS_Singleton
<1> QED
  BY <1>1, <1>2

(* To a caller, a step commits his block, tells him the end of his call,   *)
(* or does nothing.                                                        *)
LEMMA CallerStep ==
  ASSUME Orderly, IInv, [Next]_vars
  PROVE  \/ UNCHANGED <<committed, result>>
         \/ /\ using \in Calls /\ result[using] = "none" /\ result' = result
            /\ CommittedOf(using) = {} /\ committed' = committed \cup {Attempt}
         \/ /\ using \in Calls /\ result[using] = "none" /\ committed' = committed
            /\ \E what \in {"ok", "failed", "unknown"} : result' = [result EXCEPT ![using] = what]
<1>a. pc # "free" => using \in Calls /\ (result[using] # "none" <=> pc \in Releasing)
  BY AttemptType DEF IInv, CommitsAgree
<1>1. CASE Serve
  <2>1. result' = result
    BY <1>1 DEF Serve, callVars
  <2> QED
    BY <1>1, <1>a, <2>1, CommitStep DEF Releasing
<1>2. CASE GetConnection \/ Started \/ Committed \/ Decide
  <2>1. /\ committed' = committed /\ pc \in {"connect", "starting", "committing", "decide"}
        /\ \/ result' = result
           \/ \E what \in {"ok", "failed", "unknown"} : result' = [result EXCEPT ![using] = what]
    BY <1>2 DEF GetConnection, Connect, Started, Committed, Decide, DecideIf, Settle, Resume, restVars,
       connVars, serverVars
  <2> QED
    BY <1>a, <2>1 DEF Releasing
<1>3. CASE ResetState \/ ResetStateDone \/ StartTransaction \/ ConnAbort \/ Commit \/ Rollback
           \/ RolledBack \/ Enqueue \/ HandshakeHangs
  BY <1>3 DEF ResetState, ResetStateIf, ResetStateDone, StartTransaction, ConnAbort, Commit, Rollback,
     RolledBack, Enqueue, HandshakeHangs, Fetch, Resume, ResumeAndAbort, Disconnect, restVars, connVars, serverVars
<1>4. CASE (\E c \in Calls : Acquire(c)) \/ Block \/ (\E a \in Attempts : BlockQueries(a) \/ BlockAnswered(a))
  BY <1>4 DEF Acquire, Block, BlockReturns, BlockThrows, BlockQueries, BlockQueriesOn, BlockAnswered,
     Fetch, Resume, restVars, connVars, serverVars, callVars
<1>5. CASE Receive \/ LoseConnection \/ Terminate \/ TimeOut \/ UNCHANGED vars
  BY <1>5 DEF Receive, LoseConnection, Terminate, TimeOut, OnData, ConnectionLost, ClientTerminates,
     TransactionTimeout, Abort, Disconnect, vars, connVars, serverVars, callVars
<1> QED
  BY <1>1, <1>2, <1>3, <1>4, <1>5 DEF Next, Call

(* transaction() keeps the promise of AtMostOnce, for any number of calls, *)
(* attempts, queries and connections: a block takes effect at most once, a *)
(* call that resolves took effect and one that failed did not.             *)
THEOREM PromiseKept == ASSUME Orderly PROVE Spec => TakesEffectAtMostOnce
<1> DEFINE applied == [c \in Calls |-> Cardinality({a \in committed : a[1] = c})]
<1>1. Init => Promise!Init
  <2> SUFFICES ASSUME Init PROVE Promise!Init
    OBVIOUS
  <2>1. \A c \in Calls : {a \in committed : a[1] = c} = {}
    BY DEF Init, ConnInit
  <2> QED
    BY <2>1, FS_EmptySet DEF Init, Promise!Init
<1>2. IInv /\ IInv' /\ [Next]_vars => [Promise!Next]_<<applied, result>>
  <2> SUFFICES ASSUME IInv, IInv', [Next]_vars PROVE [Promise!Next]_<<applied, result>>
    OBVIOUS
  <2>a. CommitsAgree /\ CommitsAgree' /\ result \in [Calls -> {"none", "ok", "failed", "unknown"}]
    BY DEF IInv, TInv, TypeOK
  <2>b. \A c \in Calls : /\ CommittedOf(c) = {} => applied[c] = 0
                         /\ CommittedOf(c) # {} => applied[c] = 1
    BY <2>a, AppliedOnce DEF CommittedOf
  <2>1. CASE UNCHANGED <<committed, result>>
    BY <2>1
  <2>2. CASE /\ using \in Calls /\ result[using] = "none" /\ result' = result
             /\ CommittedOf(using) = {} /\ committed' = committed \cup {Attempt}
    <3>1. \A c \in Calls \ {using} : {a \in committed' : a[1] = c} = {a \in committed : a[1] = c}
      BY <2>2 DEF Attempt
    <3>2. Cardinality({a \in committed' : a[1] = using}) = 1
      <4>1. {a \in committed' : a[1] = using} = {Attempt}
        BY <2>2 DEF CommittedOf, Attempt
      <4> QED
        BY <4>1, FS_Singleton
    <3>3. applied' = [applied EXCEPT ![using] = 1]
      BY <2>2, <3>1, <3>2
    <3>4. Promise!Apply(using)
      BY <2>2, <2>b, <3>3 DEF Promise!Apply
    <3> QED
      BY <2>2, <3>4 DEF Promise!Next
  <2>3. CASE /\ using \in Calls /\ result[using] = "none" /\ committed' = committed
             /\ \E what \in {"ok", "failed", "unknown"} : result' = [result EXCEPT ![using] = what]
    <3>1. PICK what \in {"ok", "failed", "unknown"} : result' = [result EXCEPT ![using] = what]
      BY <2>3
    <3>2. result'[using] = what /\ applied' = applied
      BY <2>3, <2>a, <3>1
    <3>3. /\ what = "ok" => applied[using] = 1
          /\ what = "failed" => applied[using] = 0
      BY <2>3, <2>a, <2>b, <3>2 DEF CommitsAgree, CommittedOf
    <3>4. Promise!Report(using)
      BY <2>3, <3>1, <3>2, <3>3 DEF Promise!Report
    <3> QED
      BY <2>3, <3>4 DEF Promise!Next
  <2> QED
    BY <2>1, <2>2, <2>3, CallerStep
<1> QED
  BY <1>1, <1>2, Invariant, PTL DEF Spec, TakesEffectAtMostOnce, Promise!Spec

(* With orderly blocks, a call that resolved has been committed; the run   *)
(* tx_dangling shows that it takes a block of another kind to break this.  *)
THEOREM ResolvedIsCommitted == ASSUME Orderly PROVE Spec => []ResolvedMeansCommitted
<1>1. IInv => ResolvedMeansCommitted
  BY DEF IInv, CommitsAgree, CommittedOf, ResolvedMeansCommitted
<1> QED
  BY Invariant, <1>1, PTL

=============================================================================
