----------------------------- MODULE ClientPool -----------------------------
(***************************************************************************)
(* The client of packages/gel/src/baseClient.ts: a pool of connection      *)
(* holders, the queue that hands them out, and the calls that compete for  *)
(* them.  Ops are calls such as client.query() and client.transaction(),   *)
(* Ensurers are calls of ensureConnected(), Closers of close() and         *)
(* Terminators of terminate().                                             *)
(*                                                                         *)
(* The program is single threaded: a step is the code between two awaits.  *)
(* Whatever may run while a call is awaiting (other calls, the socket's    *)
(* events, the server) interleaves between the steps.                      *)
(***************************************************************************)
EXTENDS Naturals, Sequences, FiniteSets

CONSTANTS
  Ops, Ensurers, Closers, Terminators,
  MaxHolders,        \* bound: holders that may ever be created
  UserConcurrency,   \* options.concurrency, or NoConcurrency
  Suggestions,       \* suggested_pool_concurrency values a server may send, 0 for none
  MaxAttempts,       \* retryOptions attempts
  Awaits,            \* Awaits[p]: a call made inside the transaction block of p, or NoCall
  NoConcurrency, NoHolder, Cancelled, NoCall

Borrowers == Ops \cup Ensurers
Holder == 1..MaxHolders

ASSUME PoolAssumption ==
  /\ MaxHolders \in Nat \ {0}
  /\ UserConcurrency \in 0..MaxHolders \cup {NoConcurrency}
  /\ NoConcurrency \notin 0..MaxHolders
  /\ Suggestions \subseteq 0..MaxHolders
  /\ MaxAttempts \in Nat \ {0}
  /\ NoHolder \notin Holder /\ Cancelled \notin Holder /\ NoHolder # Cancelled
  /\ Ops \cap Ensurers = {}
  /\ (Closers \cup Terminators) \cap Borrowers = {}
  /\ Closers \cap Terminators = {}

VARIABLES
  closing,     \* _closing: "no" (null), "pending" (the event is not done), "done"
  holders,     \* Len(_holders): the holders are 1..holders
  suggested,   \* _suggestedConcurrency, 0 for null
  idle,        \* _queue: holders kept
  waiters,     \* _queue: calls waiting for a holder
  got,         \* _queue: the holder a call's get() resolved with
  holds,       \* the holder a call is working with
  inUse,       \* holder._inUse is set
  conn,        \* holder._connection and what became of it
  closeStage,  \* what close() is doing with a holder
  pc,          \* where a call stands
  tries        \* iteration of retryingFetch() or transaction()

queueVars == <<idle, waiters, got>>
vars == <<closing, holders, suggested, idle, waiters, got, holds, inUse, conn,
          closeStage, pc, tries>>

Q == INSTANCE ItemQueue WITH Items <- Holder, Consumers <- Borrowers,
       Nothing <- NoHolder, stack <- idle

Callers == Borrowers \cup Closers \cup Terminators

Bigger(a, b) == IF a > b THEN a ELSE b

(* _concurrency: userConcurrency ?? suggestedConcurrency ?? 1. *)
Concurrency(s) ==
  IF UserConcurrency # NoConcurrency THEN UserConcurrency
  ELSE IF s # 0 THEN s ELSE 1

(* The constructor's _resizeHolderPool(). *)
Init ==
  /\ closing = "no"
  /\ holders = Concurrency(0)
  /\ suggested = 0
  /\ idle = [i \in 1..Concurrency(0) |-> i]
  /\ waiters = <<>>
  /\ got = [p \in Borrowers |-> NoHolder]
  /\ holds = [p \in Borrowers |-> NoHolder]
  /\ inUse = [h \in Holder |-> FALSE]
  /\ conn = [h \in Holder |-> "none"]
  /\ closeStage = [h \in Holder |-> "none"]
  /\ pc = [p \in Callers |-> "idle"]
  /\ tries = [p \in Ops |-> 0]

Goto(p, where) == pc' = [pc EXCEPT ![p] = where]

(* connectionOpen: a connection that is not closed. *)
Open(h) == conn[h] = "open"
OpenConnections == {h \in 1..holders : Open(h)}

----------------------------------------------------------------------------
(* Mutant: acquireHolder() does not look at _closing. *)
AcquireHolderUnchecked(p) ==
  /\ p \in Ops /\ pc[p] = "idle"
  /\ Goto(p, "getting") /\ Q!Get(p)
  /\ UNCHANGED <<closing, holders, suggested, holds, inUse, conn, closeStage, tries>>

(* acquireHolder() up to its await, as called by every method of Client. *)
AcquireHolder(p) ==
  /\ p \in Ops /\ pc[p] = "idle"
  /\ IF closing # "no"
     THEN Goto(p, "done") /\ UNCHANGED queueVars
     ELSE Goto(p, "getting") /\ Q!Get(p)
  /\ UNCHANGED <<closing, holders, suggested, holds, inUse, conn, closeStage, tries>>

(* acquireHolder() resumed, and ClientConnectionHolder.acquire(): a holder *)
(* already in use would be put back and the call would fail.               *)
Acquire(p) ==
  LET h == got[p] IN
  /\ p \in Ops /\ pc[p] = "getting" /\ h \in Holder
  /\ Q!Collect(p)
  /\ holds' = [holds EXCEPT ![p] = h]
  /\ IF inUse[h]
     THEN Goto(p, "putback") /\ UNCHANGED inUse
     ELSE Goto(p, "held") /\ inUse' = [inUse EXCEPT ![h] = TRUE]
  /\ UNCHANGED <<closing, holders, suggested, conn, closeStage, tries>>

(* The promise of get() was rejected by cancelAllPending(). *)
Dismissed(p) ==
  /\ pc[p] = "getting" /\ got[p] = Cancelled
  /\ Q!Collect(p)
  /\ Goto(p, "done")
  /\ UNCHANGED <<closing, holders, suggested, holds, inUse, conn, closeStage, tries>>

(* ensureConnected() up to its await. *)
EnsureConnected(p) ==
  /\ p \in Ensurers /\ pc[p] = "idle"
  /\ IF closing # "no" \/ OpenConnections # {}
     THEN Goto(p, "done") /\ UNCHANGED queueVars
     ELSE Goto(p, "getting") /\ Q!Get(p)
  /\ UNCHANGED <<closing, holders, suggested, holds, inUse, conn, closeStage, tries>>

(* ensureConnected() resumed with a holder: it is not acquired. *)
EnsureTakes(p) ==
  /\ p \in Ensurers /\ pc[p] = "getting" /\ got[p] \in Holder
  /\ Q!Collect(p)
  /\ holds' = [holds EXCEPT ![p] = got[p]]
  /\ Goto(p, "held")
  /\ UNCHANGED <<closing, holders, suggested, inUse, conn, closeStage, tries>>

(* Where a call goes with a connection, and without one. *)
Proceed(p) == IF p \in Ops THEN "using" ELSE "putback"
GiveUp(p)  == IF p \in Ops THEN "releasing" ELSE "putback"

(* holder._getConnection() and the check at the head of getNewConnection(). *)
GetConnection(p) ==
  /\ p \in Borrowers /\ pc[p] = "held"
  /\ Goto(p, IF Open(holds[p]) THEN Proceed(p)
             ELSE IF closing = "done" THEN GiveUp(p) ELSE "connecting")
  /\ UNCHANGED <<closing, holders, suggested, queueVars, holds, inUse, conn, closeStage, tries>>

(* Mutant: the pool grows by the suggestion instead of growing to it. *)
NewConnectionAddsAll(p) ==
  /\ p \in Borrowers /\ pc[p] = "connecting"
  /\ \E s \in Suggestions :
       /\ suggested' = s
       /\ holders' = holders + s
       /\ Q!PushAll([i \in 1..s |-> holders + i])
  /\ Goto(p, "connected")
  /\ UNCHANGED <<closing, holds, inUse, conn, closeStage, tries>>

(* getNewConnection() resumed with a connection: _resizeHolderPool() adds  *)
(* holders when the server suggests more than there are, and never removes *)
(* any.                                                                    *)
NewConnection(p) ==
  /\ p \in Borrowers /\ pc[p] = "connecting"
  /\ \E s \in Suggestions :
       LET changed == s # 0 /\ s # suggested
           size == IF changed THEN Bigger(holders, Concurrency(s)) ELSE holders
       IN /\ suggested' = IF changed THEN s ELSE suggested
          /\ holders' = size
          /\ Q!PushAll([i \in 1..(size - holders) |-> holders + i])
  /\ Goto(p, "connected")
  /\ UNCHANGED <<closing, holds, inUse, conn, closeStage, tries>>

(* Mutant: ensureConnected() puts the holder back in a catch as well as in *)
(* its finally.                                                            *)
NoConnectionPutsBackTwice(p) ==
  /\ p \in Borrowers /\ pc[p] = "connecting"
  /\ IF p \in Ensurers THEN Q!Push(holds[p]) ELSE UNCHANGED queueVars
  /\ Goto(p, GiveUp(p))
  /\ UNCHANGED <<closing, holders, suggested, holds, inUse, conn, closeStage, tries>>

(* Mutant: an error on the way to a connection skips the finally. *)
NoConnectionKeepsHolder(p) ==
  /\ p \in Borrowers /\ pc[p] = "connecting"
  /\ Goto(p, "done")
  /\ holds' = [holds EXCEPT ![p] = NoHolder]
  /\ UNCHANGED <<closing, holders, suggested, queueVars, inUse, conn, closeStage, tries>>

(* retryingConnect() threw. *)
NoConnection(p) ==
  /\ p \in Borrowers /\ pc[p] = "connecting"
  /\ Goto(p, GiveUp(p))
  /\ UNCHANGED <<closing, holders, suggested, queueVars, holds, inUse, conn, closeStage, tries>>

(* The attempt never ends.  The server closed the socket in the handshake  *)
(* without an error: _onClose() tells nobody of it (rawConn.ts:133), and   *)
(* the time-out destroys a socket that is closed already.  Or the server   *)
(* fell silent and there is no time-out, which is the default.             *)
HandshakeHangs(p) ==
  /\ p \in Borrowers /\ pc[p] = "connecting"
  /\ Goto(p, "hanging")
  /\ UNCHANGED <<closing, holders, suggested, queueVars, holds, inUse, conn, closeStage, tries>>

(* _getConnection() resumed: only now does the holder know the connection. *)
KeepConnection(p) ==
  /\ p \in Borrowers /\ pc[p] = "connected"
  /\ conn' = [conn EXCEPT ![holds[p]] = "open"]
  /\ Goto(p, Proceed(p))
  /\ UNCHANGED <<closing, holders, suggested, queueVars, holds, inUse, closeStage, tries>>

(* The socket's close or error event: the server or the network ended it.  *)
ConnectionLost(h) ==
  /\ Open(h)
  /\ conn' = [conn EXCEPT ![h] = "lost"]
  /\ UNCHANGED <<closing, holders, suggested, queueVars, holds, inUse, closeStage, pc, tries>>

(* retryingFetch() or transaction() decides to retry.  That the client     *)
(* closed the connection is no error to retry, but a transaction may have  *)
(* one in hand when terminate() closes the connection under its rollback.  *)
Retry(p) ==
  /\ p \in Ops /\ pc[p] = "using"
  /\ tries[p] + 1 < MaxAttempts
  /\ tries' = [tries EXCEPT ![p] = @ + 1]
  /\ Goto(p, "sleeping")
  /\ UNCHANGED <<closing, holders, suggested, queueVars, holds, inUse, conn, closeStage>>

(* The back-off is over: the next iteration gets a connection. *)
WakeUp(p) ==
  /\ p \in Ops /\ pc[p] = "sleeping"
  /\ Goto(p, "held")
  /\ UNCHANGED <<closing, holders, suggested, queueVars, holds, inUse, conn, closeStage, tries>>

(* The call has its result or its last error.  A transaction block that    *)
(* awaits another call of the client ends after it, or when its own        *)
(* connection is gone.                                                     *)
Finish(p) ==
  /\ p \in Ops /\ pc[p] = "using"
  /\ \/ Awaits[p] = NoCall
     \/ Awaits[p] # NoCall /\ (pc[Awaits[p]] = "done" \/ ~Open(holds[p]))
  /\ Goto(p, "releasing")
  /\ UNCHANGED <<closing, holders, suggested, queueVars, holds, inUse, conn, closeStage, tries>>

(* The server ends a session that has been idle in a transaction too long. *)
TransactionTimeout(p) ==
  /\ p \in Ops /\ pc[p] = "using" /\ Open(holds[p])
  /\ Awaits[p] # NoCall /\ pc[Awaits[p]] # "done"
  /\ conn' = [conn EXCEPT ![holds[p]] = "lost"]
  /\ UNCHANGED <<closing, holders, suggested, queueVars, holds, inUse, closeStage, pc, tries>>

(* Mutant: release() forgets _inUse = null. *)
ReleaseStaysInUse(p) ==
  LET h == holds[p] IN
  /\ p \in Ops /\ pc[p] = "releasing"
  /\ closeStage' = [closeStage EXCEPT ![h] = IF @ = "waiting" THEN "woken" ELSE @]
  /\ holds' = [holds EXCEPT ![p] = NoHolder]
  /\ Q!Push(h)
  /\ Goto(p, "done")
  /\ UNCHANGED <<closing, holders, suggested, conn, inUse, tries>>

(* Mutant: release() enqueues the holder without setting the event. *)
ReleaseSilently(p) ==
  LET h == holds[p] IN
  /\ p \in Ops /\ pc[p] = "releasing"
  /\ inUse' = [inUse EXCEPT ![h] = FALSE]
  /\ holds' = [holds EXCEPT ![p] = NoHolder]
  /\ Q!Push(h)
  /\ Goto(p, "done")
  /\ UNCHANGED <<closing, holders, suggested, conn, closeStage, tries>>

(* Mutant: release() does not enqueue the holder. *)
ReleaseNowhere(p) ==
  LET h == holds[p] IN
  /\ p \in Ops /\ pc[p] = "releasing"
  /\ inUse' = [inUse EXCEPT ![h] = FALSE]
  /\ closeStage' = [closeStage EXCEPT ![h] = IF @ = "waiting" THEN "woken" ELSE @]
  /\ holds' = [holds EXCEPT ![p] = NoHolder]
  /\ Goto(p, "done")
  /\ UNCHANGED <<closing, holders, suggested, queueVars, conn, tries>>

(* holder.release() after resetState(): whoever waits on _inUse is woken   *)
(* and the holder goes back to the queue.                                  *)
Release(p) ==
  LET h == holds[p] IN
  /\ p \in Ops /\ pc[p] = "releasing"
  /\ inUse' = [inUse EXCEPT ![h] = FALSE]
  /\ closeStage' = [closeStage EXCEPT ![h] = IF @ = "waiting" THEN "woken" ELSE @]
  /\ holds' = [holds EXCEPT ![p] = NoHolder]
  /\ Q!Push(h)
  /\ Goto(p, "done")
  /\ UNCHANGED <<closing, holders, suggested, conn, tries>>

(* ensureConnected()'s finally, and acquireHolder()'s catch. *)
PutBack(p) ==
  /\ p \in Borrowers /\ pc[p] = "putback"
  /\ holds' = [holds EXCEPT ![p] = NoHolder]
  /\ Q!Push(holds[p])
  /\ Goto(p, "done")
  /\ UNCHANGED <<closing, holders, suggested, inUse, conn, closeStage, tries>>

----------------------------------------------------------------------------
(* Mutant: close() does not dismiss the calls that wait for a holder. *)
CloseKeepsWaiters(c) ==
  /\ c \in Closers /\ pc[c] = "idle"
  /\ IF closing # "no"
     THEN Goto(c, "waiting") /\ UNCHANGED <<closing, closeStage, conn>>
     ELSE /\ closing' = "pending"
          /\ closeStage' = [h \in Holder |->
               IF h > holders THEN "none" ELSE IF inUse[h] THEN "waiting" ELSE "closed"]
          /\ conn' = [h \in Holder |->
               IF h <= holders /\ ~inUse[h] /\ Open(h) THEN "closed" ELSE conn[h]]
          /\ Goto(c, "closing")
  /\ UNCHANGED <<holders, suggested, queueVars, holds, inUse, tries>>

(* close(): the second caller waits for the first one's event.  The first  *)
(* dismisses the waiting calls, then runs _waitUntilReleasedAndClose() on  *)
(* every holder there is: it closes a free holder's connection at once and *)
(* waits for the others to be released.                                    *)
Close(c) ==
  /\ c \in Closers /\ pc[c] = "idle"
  /\ IF closing # "no"
     THEN Goto(c, "waiting") /\ UNCHANGED <<closing, queueVars, closeStage, conn>>
     ELSE /\ closing' = "pending"
          /\ Q!CancelAll
          /\ closeStage' = [h \in Holder |->
               IF h > holders THEN "none" ELSE IF inUse[h] THEN "waiting" ELSE "closed"]
          /\ conn' = [h \in Holder |->
               IF h <= holders /\ ~inUse[h] /\ Open(h) THEN "closed" ELSE conn[h]]
          /\ Goto(c, "closing")
  /\ UNCHANGED <<holders, suggested, holds, inUse, tries>>

(* Mutant: the connection to close is read before the release is awaited:  *)
(* one opened meanwhile stays open.                                        *)
CloseReleasedStale(h) ==
  /\ closeStage[h] = "woken"
  /\ closeStage' = [closeStage EXCEPT ![h] = "released"]
  /\ UNCHANGED <<closing, holders, suggested, queueVars, holds, inUse, conn, pc, tries>>

(* _waitUntilReleasedAndClose() resumed. *)
CloseReleased(h) ==
  /\ closeStage[h] = "woken"
  /\ closeStage' = [closeStage EXCEPT ![h] = "released"]
  /\ conn' = [conn EXCEPT ![h] = IF Open(h) THEN "closed" ELSE @]
  /\ UNCHANGED <<closing, holders, suggested, queueVars, holds, inUse, pc, tries>>

(* Promise.all resolved: _closing.set(). *)
CloseDone(c) ==
  /\ c \in Closers /\ pc[c] = "closing"
  /\ \A h \in Holder : closeStage[h] \notin {"waiting", "woken"}
  /\ closing' = "done"
  /\ Goto(c, "done")
  /\ UNCHANGED <<holders, suggested, queueVars, holds, inUse, conn, closeStage, tries>>

(* close() called again: _closing.wait() returns. *)
CloseAwaited(c) ==
  /\ c \in Closers /\ pc[c] = "waiting" /\ closing = "done"
  /\ Goto(c, "done")
  /\ UNCHANGED <<closing, holders, suggested, queueVars, holds, inUse, conn, closeStage, tries>>

(* terminate(): every holder's connection is closed now. *)
Terminate(t) ==
  /\ t \in Terminators /\ pc[t] = "idle"
  /\ IF closing = "done"
     THEN UNCHANGED <<closing, queueVars, conn>>
     ELSE /\ Q!CancelAll
          /\ conn' = [h \in Holder |-> IF h <= holders /\ Open(h) THEN "closed" ELSE conn[h]]
          /\ closing' = IF closing = "no" THEN "done" ELSE closing
  /\ Goto(t, "done")
  /\ UNCHANGED <<holders, suggested, holds, inUse, closeStage, tries>>

----------------------------------------------------------------------------
(* What a call does next by itself, once what it awaits has happened. *)
Step(p) ==
  \/ Acquire(p) \/ Dismissed(p) \/ EnsureTakes(p) \/ GetConnection(p)
  \/ NewConnection(p) \/ NoConnection(p) \/ KeepConnection(p)
  \/ WakeUp(p) \/ Retry(p) \/ Finish(p) \/ Release(p) \/ PutBack(p)

Next ==
  \/ \E p \in Ops : AcquireHolder(p)
  \/ \E p \in Ensurers : EnsureConnected(p)
  \/ \E p \in Borrowers : Step(p) \/ HandshakeHangs(p)
  \/ \E p \in Ops : TransactionTimeout(p)
  \/ \E h \in Holder : ConnectionLost(h) \/ CloseReleased(h)
  \/ \E c \in Closers : Close(c) \/ CloseDone(c) \/ CloseAwaited(c)
  \/ \E t \in Terminators : Terminate(t)

Spec == Init /\ [][Next]_vars

(* Continuations run, the server answers queries and ends sessions idle in *)
(* a transaction, transaction blocks return.  A connection attempt ends or *)
(* hangs: nothing in the code makes each of them end.  Nobody has to call  *)
(* anything, and no connection has to fail.                                *)
Fairness ==
  /\ \A p \in Borrowers : WF_vars(Step(p))
  /\ \A p \in Ops : WF_vars(TransactionTimeout(p))
  /\ \A h \in Holder : WF_vars(CloseReleased(h))
  /\ \A c \in Closers : WF_vars(CloseDone(c)) /\ WF_vars(CloseAwaited(c))

LiveSpec == Spec /\ Fairness

----------------------------------------------------------------------------
TypeOK ==
  /\ closing \in {"no", "pending", "done"}
  /\ holders \in 0..MaxHolders
  /\ suggested \in 0..MaxHolders
  /\ idle \in Seq(Holder)
  /\ waiters \in Seq(Borrowers)
  /\ got \in [Borrowers -> Holder \cup {NoHolder, Cancelled}]
  /\ holds \in [Borrowers -> Holder \cup {NoHolder}]
  /\ inUse \in [Holder -> BOOLEAN]
  /\ conn \in [Holder -> {"none", "open", "lost", "closed"}]
  /\ closeStage \in [Holder -> {"none", "waiting", "woken", "released", "closed"}]
  /\ pc \in [Callers -> {"idle", "getting", "held", "connecting", "hanging", "connected",
                         "using", "sleeping", "releasing", "putback", "closing", "waiting", "done"}]
  /\ tries \in [Ops -> 0..MaxAttempts]

Kept(h) == \E i \in 1..Len(idle) : idle[i] = h
HandedTo(h, p) == got[p] = h \/ holds[p] = h

(* A holder belongs to one call at a time: it is kept once by the queue or *)
(* is with exactly one call, never both.  Two calls on one connection would *)
(* read each other's answers.                                              *)
Exclusive ==
  /\ \A i, j \in 1..Len(idle) : idle[i] = idle[j] => i = j
  /\ \A h \in Holder, p \in Borrowers : HandedTo(h, p) =>
       /\ ~Kept(h)
       /\ \A q \in Borrowers : HandedTo(h, q) => q = p

(* No holder is ever lost: every holder the pool created is kept by the    *)
(* queue or with a call, whatever failed on the way.  A lost holder lowers *)
(* the client's concurrency for good.                                      *)
NoHolderLost ==
  \A h \in 1..holders : Kept(h) \/ \E p \in Borrowers : HandedTo(h, p)

(* _inUse, which close() relies on to find the calls it has to wait for,   *)
(* is set exactly while a call is working with the holder.                 *)
InUseTellsTheTruth ==
  \A h \in Holder : inUse[h] <=> \E p \in Ops : holds[p] = h /\ pc[p] # "putback"

(* No call stands in line while a holder is kept, and none after close()   *)
(* or terminate(): nobody would ever push a holder for it.                 *)
NobodyWaitsInVain ==
  /\ idle # <<>> => waiters = <<>>
  /\ closing # "no" => waiters = <<>>
  /\ \A p \in Borrowers : pc[p] = "getting" =>
       got[p] # NoHolder \/ \E i \in 1..Len(waiters) : waiters[i] = p

(* A holder close() found in use (baseClient.ts:118-123) stays closed once *)
(* close() has dealt with it: its call is over, no other call gets it and  *)
(* no connection is opened for it again.                                   *)
ReleasedStayClosed ==
  \A h \in Holder : closeStage[h] = "released" => ~Open(h) /\ ~inUse[h]

(* Once close() or terminate() was called no further call is handed a      *)
(* holder, not by a release, a resize or an error path that comes later.   *)
NoAdmissionAfterClose ==
  [][\A p \in Borrowers : got'[p] \in Holder /\ got[p] # got'[p] => closing = "no"]_vars

(* The holder is with a call whose connection attempt never ends. *)
Stuck(h) == \E p \in Borrowers : holds[p] = h /\ pc[p] = "hanging"
AllStuck == holders > 0 /\ \A h \in 1..holders : Stuck(h)

(* Every call that asks for a holder is answered in the end: it is served  *)
(* or dismissed, also when it waits for a holder that a transaction block  *)
(* awaiting it occupies (the server ends that session), and when calls     *)
(* fail or the client is closed meanwhile.  A connection attempt that      *)
(* hangs keeps its own call, and others only once every holder of the pool *)
(* is stuck in one.                                                        *)
EveryCallSettles ==
  \A p \in Borrowers : pc[p] = "getting" ~> pc[p] \in {"done", "hanging"} \/ AllStuck

(* Every close() resolves, unless a call it waits for hangs in a connection *)
(* attempt; one of ensureConnected() that hangs does not hold it up.       *)
CloseResolves ==
  \A c \in Closers : pc[c] \in {"closing", "waiting"} ~>
    pc[c] = "done" \/ \E h \in Holder : closeStage[h] = "waiting" /\ Stuck(h)

(* When close() has resolved and every call has ended, the client has no   *)
(* open connection left: docs/reference.rst:528-530 says that all its      *)
(* underlying connections are awaited, then closed.                        *)
NoConnectionOutlivesClose ==
  (closing = "done" /\ \A p \in Borrowers : pc[p] = "done") => OpenConnections = {}
=============================================================================
