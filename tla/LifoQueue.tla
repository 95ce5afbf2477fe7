----------------------------- MODULE LifoQueue -----------------------------
(***************************************************************************)
(* The queue of idle connection holders, packages/gel/src/primitives/      *)
(* queues.ts: three arrays kept in step by hand.  _promises holds the      *)
(* promises of items nobody asked for yet; _resolvers and _rejecters hold  *)
(* the functions that settle the promises consumers are waiting on.        *)
(*                                                                         *)
(* A promise is an identity taken from Promises and given back once its    *)
(* consumer has read it; a resolver or a rejecter is named by the promise  *)
(* it settles.  Each method runs to its end without awaiting, so each is   *)
(* one step.                                                               *)
(***************************************************************************)
EXTENDS Naturals, Integers, Sequences, FiniteSets

CONSTANTS Items, Consumers, Promises,
          Nothing,      \* a promise that is not settled
          Cancelled,    \* a promise that was rejected
          NoPromise     \* a consumer that has not called get()

ASSUME DistinctValues ==
  /\ Nothing \notin Items
  /\ Cancelled \notin Items
  /\ Nothing # Cancelled
  /\ NoPromise \notin Promises

VARIABLES promises, resolvers, rejecters,
          settled,      \* settled[p]: the item, Cancelled, or Nothing while pending
          taken         \* taken[c]: the promise get() returned to consumer c

vars == <<promises, resolvers, rejecters, settled, taken>>

Elems(s) == {s[i] : i \in DOMAIN s}

Init ==
  /\ promises = <<>> /\ resolvers = <<>> /\ rejecters = <<>>
  /\ settled = [p \in Promises |-> Nothing]
  /\ taken = [c \in Consumers |-> NoPromise]

(* new Promise(...): an identity nothing refers to any more. *)
Fresh ==
  {p \in Promises : /\ p \notin Elems(promises) \cup Elems(resolvers) \cup Elems(rejecters)
                    /\ \A c \in Consumers : taken[c] # p}

(* resolve(item) and reject(err) do nothing to a promise already settled. *)
Settle(ps, outcome) ==
  [p \in Promises |-> IF p \in ps /\ settled[p] = Nothing THEN outcome ELSE settled[p]]

(* Mutant: push() leaves the rejecter of the promise it resolved behind. *)
PushIdleKeepsRejecter(item) ==
  /\ resolvers = <<>>
  /\ \E p \in Fresh :
       /\ promises' = Append(promises, p)
       /\ rejecters' = Append(rejecters, p)
       /\ settled' = Settle({p}, item)
  /\ UNCHANGED <<resolvers, taken>>

(* push() with nobody waiting: _add() and the new promise is resolved. *)
PushIdle(item) ==
  /\ resolvers = <<>>
  /\ \E p \in Fresh :
       /\ promises' = Append(promises, p)
       /\ rejecters' = Tail(Append(rejecters, p))
       /\ settled' = Settle({p}, item)
  /\ UNCHANGED <<resolvers, taken>>

(* push() with consumers waiting: the first one gets the item. *)
PushToWaiter(item) ==
  /\ resolvers # <<>>
  /\ settled' = Settle({Head(resolvers)}, item)
  /\ resolvers' = Tail(resolvers)
  /\ rejecters' = Tail(rejecters)
  /\ UNCHANGED <<promises, taken>>

(* get() with no promise kept: _add(), and the new promise is popped. *)
GetWaiting(c) ==
  /\ promises = <<>>
  /\ \E p \in Fresh :
       /\ resolvers' = Append(resolvers, p)
       /\ rejecters' = Append(rejecters, p)
       /\ taken' = [taken EXCEPT ![c] = p]
  /\ UNCHANGED <<promises, settled>>

(* Mutant: get() takes the promise added first. *)
GetOldest(c) ==
  /\ promises # <<>>
  /\ taken' = [taken EXCEPT ![c] = Head(promises)]
  /\ promises' = Tail(promises)
  /\ UNCHANGED <<resolvers, rejecters, settled>>

(* get() otherwise: the promise added last. *)
GetAvailable(c) ==
  /\ promises # <<>>
  /\ taken' = [taken EXCEPT ![c] = promises[Len(promises)]]
  /\ promises' = SubSeq(promises, 1, Len(promises) - 1)
  /\ UNCHANGED <<resolvers, rejecters, settled>>

(* Mutant: the arrays are emptied before the rejecters are saved. *)
CancelNobody ==
  /\ rejecters' = <<>>
  /\ resolvers' = <<>>
  /\ UNCHANGED <<promises, settled, taken>>

(* cancelAllPending(). *)
CancelAllPending ==
  /\ settled' = Settle(Elems(rejecters), Cancelled)
  /\ rejecters' = <<>>
  /\ resolvers' = <<>>
  /\ UNCHANGED <<promises, taken>>

(* The continuation of the consumer's await: it has its item, or the error. *)
Collect(c) ==
  /\ taken[c] # NoPromise
  /\ settled[taken[c]] # Nothing
  /\ settled' = [settled EXCEPT ![taken[c]] = Nothing]
  /\ taken' = [taken EXCEPT ![c] = NoPromise]
  /\ UNCHANGED <<promises, resolvers, rejecters>>

(* The getters length and pending. *)
Length == Len(promises) - Len(resolvers)
Pending == IF Len(resolvers) > Len(promises) THEN Len(resolvers) - Len(promises) ELSE 0

(* A holder is pushed by whoever has it: the pool never pushes one that is *)
(* already kept by the queue or on its way to a consumer.                  *)
Outside(item) == \A p \in Promises : settled[p] # item

Next ==
  \/ \E item \in Items : Outside(item) /\ (PushIdle(item) \/ PushToWaiter(item))
  \/ \E c \in Consumers : taken[c] = NoPromise /\ (GetWaiting(c) \/ GetAvailable(c))
  \/ \E c \in Consumers : Collect(c)
  \/ CancelAllPending

Spec == Init /\ [][Next]_vars

----------------------------------------------------------------------------
Waiting == {c \in Consumers : taken[c] # NoPromise /\ settled[taken[c]] = Nothing}

Distinct(s) == \A i, j \in DOMAIN s : s[i] = s[j] => i = j

(* The arrays stay in step: the resolver and the rejecter at one position  *)
(* belong to one promise, there are never both kept promises and waiting   *)
(* consumers, a kept promise has its item (a consumer that pops it does    *)
(* not wait for ever), and a resolver belongs to a promise nobody settled. *)
ArraysInStep ==
  /\ rejecters = resolvers
  /\ promises = <<>> \/ resolvers = <<>>
  /\ \A i \in DOMAIN promises : settled[promises[i]] \in Items
  /\ \A i \in DOMAIN resolvers : settled[resolvers[i]] = Nothing

(* No promise is lost or given to two consumers: one kept by the queue is  *)
(* in no consumer's hands, no promise is kept twice, and every consumer    *)
(* still waiting has its resolver in the queue, so a later push reaches it *)
(* and cancelAllPending() dismisses it.  The getters tell the number of    *)
(* consumers waiting, and of items available less those.                   *)
NoPromiseLost ==
  /\ Distinct(promises) /\ Distinct(resolvers)
  /\ Elems(promises) \cap {taken[c] : c \in Consumers} = {}
  /\ \A c, d \in Consumers : taken[c] = taken[d] /\ taken[c] # NoPromise => c = d
  /\ {taken[c] : c \in Waiting} = Elems(resolvers)
  /\ Pending = Cardinality(Waiting)
  /\ Length = Cardinality({settled[p] : p \in Elems(promises)}) - Cardinality(Waiting)

(* The queue does what ItemQueue promises: last in first out for items,    *)
(* first come first served for consumers, one item to one consumer.        *)
Abstract ==
  INSTANCE ItemQueue WITH
    stack <- [i \in 1..Len(promises) |-> settled[promises[i]]],
    waiters <- [i \in 1..Len(resolvers) |->
                  CHOOSE c \in Consumers : taken[c] = resolvers[i]],
    got <- [c \in Consumers |->
              IF taken[c] = NoPromise THEN Nothing ELSE settled[taken[c]]]

ImplementsItemQueue == Abstract!QueueSpec
=============================================================================
