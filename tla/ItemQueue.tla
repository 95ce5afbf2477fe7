----------------------------- MODULE ItemQueue -----------------------------
(***************************************************************************)
(* What a LifoQueue promises to its users: items that nobody asked for are *)
(* kept on a stack, consumers that found no item stand in a line, an item  *)
(* goes to the consumer that has waited longest, and cancelling dismisses  *)
(* the whole line.  Promises, resolvers and rejecters do not appear.       *)
(*                                                                         *)
(* LifoQueue implements this specification; ClientPool uses its operators  *)
(* as its queue of connection holders.                                     *)
(***************************************************************************)
EXTENDS Naturals, Sequences

CONSTANTS Items, Consumers,
          Nothing,      \* what a consumer has before it asks
          Cancelled     \* what a dismissed consumer gets

VARIABLES stack,        \* items available, the last one is handed out next
          waiters,      \* consumers waiting for an item, the first is served next
          got           \* got[c]: what consumer c was handed

queueVars == <<stack, waiters, got>>

ToSet(s) == {s[i] : i \in DOMAIN s}

QueueInit == stack = <<>> /\ waiters = <<>> /\ got = [c \in Consumers |-> Nothing]

(* Adding the items of the sequence new, first to last, in one go. *)
PushAll(new) ==
  LET served == IF Len(new) < Len(waiters) THEN Len(new) ELSE Len(waiters) IN
  /\ stack' = stack \o SubSeq(new, served + 1, Len(new))
  /\ waiters' = SubSeq(waiters, served + 1, Len(waiters))
  /\ got' = [c \in Consumers |->
               IF \E i \in 1..served : waiters[i] = c
               THEN new[CHOOSE i \in 1..served : waiters[i] = c]
               ELSE got[c]]

(* Adding one item: to the first waiter if there is one. *)
Push(item) ==
  IF waiters = <<>>
  THEN stack' = Append(stack, item) /\ UNCHANGED <<waiters, got>>
  ELSE /\ got' = [got EXCEPT ![Head(waiters)] = item]
       /\ waiters' = Tail(waiters)
       /\ UNCHANGED stack

(* Consumer c asks for an item. *)
Get(c) ==
  IF stack = <<>>
  THEN waiters' = Append(waiters, c) /\ UNCHANGED <<stack, got>>
  ELSE /\ got' = [got EXCEPT ![c] = stack[Len(stack)]]
       /\ stack' = SubSeq(stack, 1, Len(stack) - 1)
       /\ UNCHANGED waiters

(* Every waiting consumer is dismissed. *)
CancelAll ==
  /\ got' = [c \in Consumers |-> IF c \in ToSet(waiters) THEN Cancelled ELSE got[c]]
  /\ waiters' = <<>>
  /\ UNCHANGED stack

(* Consumer c reads what it was handed and may ask again. *)
Collect(c) ==
  /\ got[c] # Nothing
  /\ got' = [got EXCEPT ![c] = Nothing]
  /\ UNCHANGED <<stack, waiters>>

(* An item is added by whoever has it: it is neither stacked nor handed out. *)
Free(item) == item \notin ToSet(stack) /\ \A c \in Consumers : got[c] # item

(* A consumer asks once at a time. *)
Idle(c) == c \notin ToSet(waiters) /\ got[c] = Nothing

QueueNext ==
  \/ \E item \in Items : Free(item) /\ Push(item)
  \/ \E c \in Consumers : Idle(c) /\ Get(c)
  \/ \E c \in Consumers : Collect(c)
  \/ CancelAll

QueueSpec == QueueInit /\ [][QueueNext]_queueVars
=============================================================================
