--------------------------- MODULE LifoQueueProofs ---------------------------
(***************************************************************************)
(* What LifoQueue guarantees for any items, consumers and promises: its    *)
(* three arrays stay in step, no promise is lost or given away twice, and  *)
(* the queue is an ItemQueue.                                              *)
(***************************************************************************)
EXTENDS LifoQueue, SequenceTheorems, FiniteSetTheorems, TLAPS

----------------------------------------------------------------------------
(* Sequences as sets: what appending, and taking from either end, does to  *)
(* the elements.                                                           *)

(* The elements of a sequence are what its indices show. *)
LEMMA ElemsFacts ==
  ASSUME NEW S, NEW s \in Seq(S)
  PROVE  /\ Elems(s) \subseteq S
         /\ \A x : x \in Elems(s) <=> \E i \in 1..Len(s) : s[i] = x
         /\ DOMAIN s = 1..Len(s) /\ Len(s) \in Nat
         /\ Distinct(s) <=> \A i, j \in 1..Len(s) : s[i] = s[j] => i = j
BY LenProperties, ElementOfSeq DEF Elems, Distinct

(* An empty array holds nothing. *)
LEMMA EmptyElems == Elems(<<>>) = {} /\ Distinct(<<>>)
BY DEF Elems, Distinct

(* What pushing onto an array does to its elements. *)
LEMMA AppendElems ==
  ASSUME NEW S, NEW s \in Seq(S), NEW x \in S
  PROVE  /\ Append(s, x) \in Seq(S)
         /\ Elems(Append(s, x)) = Elems(s) \cup {x}
         /\ Distinct(s) /\ x \notin Elems(s) => Distinct(Append(s, x))
<1> DEFINE t == Append(s, x)
<1>1. /\ t \in Seq(S) /\ Len(t) = Len(s) + 1 /\ t[Len(s) + 1] = x /\ Len(s) \in Nat
      /\ \A i \in 1..Len(s) : t[i] = s[i]
  BY AppendProperties, LenProperties
<1>2. \A i \in 1..Len(t) : i \in 1..Len(s) \/ i = Len(s) + 1
  BY <1>1
<1>3. /\ \A y : y \in Elems(s) <=> \E i \in 1..Len(s) : s[i] = y
      /\ \A y : y \in Elems(t) <=> \E i \in 1..Len(t) : t[i] = y
      /\ Distinct(s) <=> \A i, j \in 1..Len(s) : s[i] = s[j] => i = j
      /\ Distinct(t) <=> \A i, j \in 1..Len(t) : t[i] = t[j] => i = j
  BY <1>1, ElemsFacts
<1> HIDE DEF t
<1>4. \A y : y \in Elems(t) <=> y \in Elems(s) \/ y = x
  BY <1>1, <1>2, <1>3
<1>5. ASSUME Distinct(s), x \notin Elems(s), NEW i \in 1..Len(t), NEW j \in 1..Len(t), t[i] = t[j]
      PROVE  i = j
  BY <1>1, <1>2, <1>3, <1>5
<1> QED
  BY <1>1, <1>3, <1>4, <1>5 DEF t

(* What shifting an array does to its elements. *)
LEMMA TailElems ==
  ASSUME NEW S, NEW s \in Seq(S), s # <<>>
  PROVE  /\ Tail(s) \in Seq(S) /\ Head(s) \in Elems(s)
         /\ Elems(s) = Elems(Tail(s)) \cup {Head(s)}
         /\ Distinct(s) => Distinct(Tail(s)) /\ Head(s) \notin Elems(Tail(s))
<1> DEFINE t == Tail(s)
<1>1. /\ t \in Seq(S) /\ Len(t) = Len(s) - 1 /\ Head(s) = s[1] /\ Len(s) \in Nat \ {0}
      /\ \A i \in 1..Len(t) : t[i] = s[i + 1]
  BY HeadTailProperties, EmptySeq
<1>2. /\ \A i \in 1..Len(s) : i = 1 \/ i - 1 \in 1..Len(t)
      /\ \A i \in 1..Len(t) : i + 1 \in 1..Len(s)
      /\ 1 \in 1..Len(s)
  BY <1>1
<1>3. /\ \A y : y \in Elems(s) <=> \E i \in 1..Len(s) : s[i] = y
      /\ \A y : y \in Elems(t) <=> \E i \in 1..Len(t) : t[i] = y
      /\ Distinct(s) <=> \A i, j \in 1..Len(s) : s[i] = s[j] => i = j
      /\ Distinct(t) <=> \A i, j \in 1..Len(t) : t[i] = t[j] => i = j
  BY <1>1, ElemsFacts
<1> HIDE DEF t
<1>4. \A i \in 1..Len(s) : i = 1 \/ s[i] = t[i - 1]
  BY <1>1, <1>2
<1>5. \A y : y \in Elems(s) <=> y \in Elems(t) \/ y = Head(s)
  BY <1>1, <1>2, <1>3, <1>4
<1>6. ASSUME Distinct(s), NEW i \in 1..Len(t), NEW j \in 1..Len(t), t[i] = t[j] PROVE i = j
  <2>1. s[i + 1] = s[j + 1]
    BY <1>1, <1>6
  <2>2. i + 1 = j + 1
    BY <1>2, <1>3, <1>6, <2>1
  <2> QED
    BY <1>1, <2>2
<1>7. ASSUME Distinct(s), NEW i \in 1..Len(t), t[i] = Head(s) PROVE FALSE
  <2>1. s[i + 1] = s[1] /\ i + 1 \in 1..Len(s) /\ i + 1 # 1
    BY <1>1, <1>2, <1>7
  <2> QED
    BY <1>2, <1>3, <1>7, <2>1
<1> QED
  BY <1>1, <1>3, <1>5, <1>6, <1>7 DEF t

Front(s) == SubSeq(s, 1, Len(s) - 1)

(* What popping an array does to its elements. *)
LEMMA FrontElems ==
  ASSUME NEW S, NEW s \in Seq(S), s # <<>>
  PROVE  /\ Front(s) \in Seq(S) /\ s[Len(s)] \in Elems(s)
         /\ Len(Front(s)) = Len(s) - 1 /\ \A i \in 1..Len(Front(s)) : Front(s)[i] = s[i]
         /\ Elems(s) = Elems(Front(s)) \cup {s[Len(s)]}
         /\ Distinct(s) => Distinct(Front(s)) /\ s[Len(s)] \notin Elems(Front(s))
<1> DEFINE t == Front(s)
<1>1. Len(s) \in Nat \ {0}
  BY EmptySeq
<1>2. \A i \in 1..(Len(s) - 1) : s[i] \in S
  BY <1>1, ElementOfSeq
<1>3. /\ t \in Seq(S) /\ Len(t) = Len(s) - 1 /\ \A i \in 1..Len(t) : t[i] = s[i]
  <2> DEFINE n == Len(s) - 1
  <2>1. n \in Int /\ 1 \in Int /\ n >= 0
    BY <1>1
  <2> HIDE DEF n
  <2>2. /\ SubSeq(s, 1, n) \in Seq(S)
        /\ Len(SubSeq(s, 1, n)) = IF 1 <= n THEN n - 1 + 1 ELSE 0
        /\ \A i \in 1..(n - 1 + 1) : SubSeq(s, 1, n)[i] = s[1 + i - 1]
    BY <1>2, <2>1, SubSeqProperties DEF n
  <2>3. n - 1 + 1 = n /\ \A i \in 1..n : 1 + i - 1 = i
    BY <2>1
  <2>4. Len(SubSeq(s, 1, n)) = n
    BY <2>1, <2>2
  <2> QED
    BY <2>2, <2>3, <2>4 DEF Front, n
<1>4. /\ \A y : y \in Elems(s) <=> \E i \in 1..Len(s) : s[i] = y
      /\ \A y : y \in Elems(t) <=> \E i \in 1..Len(t) : t[i] = y
      /\ Distinct(s) <=> \A i, j \in 1..Len(s) : s[i] = s[j] => i = j
      /\ Distinct(t) <=> \A i, j \in 1..Len(t) : t[i] = t[j] => i = j
  BY <1>3, ElemsFacts
<1> HIDE DEF t
<1>5. /\ \A i \in 1..Len(s) : i = Len(s) \/ i \in 1..Len(t)
      /\ \A i \in 1..Len(t) : i \in 1..Len(s) /\ i # Len(s)
      /\ Len(s) \in 1..Len(s)
  BY <1>1, <1>3
<1>6. \A y : y \in Elems(s) <=> y \in Elems(t) \/ y = s[Len(s)]
  BY <1>3, <1>4, <1>5
<1>7. Distinct(s) => Distinct(t) /\ s[Len(s)] \notin Elems(t)
  BY <1>3, <1>4, <1>5
<1> QED
  BY <1>3, <1>5, <1>6, <1>7 DEF t

----------------------------------------------------------------------------
(* The inductive invariant: who refers to a promise, and what it was       *)
(* settled with.                                                           *)

Outcomes == Items \cup {Nothing, Cancelled}

TypesAgree ==
  /\ promises \in Seq(Promises) /\ resolvers \in Seq(Promises) /\ rejecters = resolvers
  /\ settled \in [Promises -> Outcomes]
  /\ taken \in [Consumers -> Promises \cup {NoPromise}]

(* A kept promise has its item and is nobody's, one that a resolver is for *)
(* has nothing and is somebody's, and no two consumers have the same.      *)
OwnersAgree ==
  /\ \A p \in Elems(promises) : settled[p] \in Items /\ \A c \in Consumers : taken[c] # p
  /\ \A p \in Elems(resolvers) : settled[p] = Nothing /\ \E c \in Consumers : taken[c] = p
  /\ \A c \in Consumers : taken[c] # NoPromise /\ settled[taken[c]] = Nothing => taken[c] \in Elems(resolvers)
  /\ \A c, d \in Consumers : taken[c] = taken[d] /\ taken[c] # NoPromise => c = d

(* An item is in one place, and nobody forgot a promise that is settled.   *)
ItemsAgree ==
  /\ \A p, q \in Promises : settled[p] = settled[q] /\ settled[p] \in Items => p = q
  /\ \A p \in Promises : settled[p] # Nothing => p \in Elems(promises) \/ \E c \in Consumers : taken[c] = p

LInv ==
  /\ TypesAgree /\ OwnersAgree /\ ItemsAgree
  /\ promises = <<>> \/ resolvers = <<>>
  /\ Distinct(promises) /\ Distinct(resolvers)

(* A new promise is not in any array, nobody awaits it and it is pending. *)
LEMMA FreshFacts ==
  ASSUME LInv, NEW p \in Fresh
  PROVE  /\ p \in Promises /\ p # NoPromise /\ p \notin Elems(promises) /\ p \notin Elems(resolvers)
         /\ \A c \in Consumers : taken[c] # p
         /\ settled[p] = Nothing
BY DistinctValues DEF Fresh, DistinctValues, LInv, ItemsAgree

(* Settling promises changes those among them that are pending, and no other. *)
LEMMA SettleFacts ==
  ASSUME LInv, NEW ps, NEW outcome \in Items \cup {Cancelled}, settled' = Settle(ps, outcome)
  PROVE  /\ settled' \in [Promises -> Outcomes]
         /\ \A p \in Promises : settled'[p] = IF p \in ps /\ settled[p] = Nothing THEN outcome ELSE settled[p]
BY DEF Settle, LInv, TypesAgree, Outcomes

(* An empty queue satisfies the invariant. *)
LEMMA InitLifo == Init => LInv
<1> SUFFICES ASSUME Init PROVE LInv
  OBVIOUS
<1>1. <<>> \in Seq(Promises)
  BY EmptySeq
<1> QED
  BY <1>1, EmptyElems, DistinctValues DEF Init, LInv, TypesAgree, OwnersAgree, ItemsAgree, Outcomes, DistinctValues

(* push() keeps the invariant when nobody waits: an item is kept in a new promise. *)
LEMMA PushIdleKept ==
  ASSUME LInv, NEW item \in Items, Outside(item), PushIdle(item)
  PROVE  LInv'
<1>0. Nothing \notin Items /\ Cancelled \notin Items /\ Nothing # Cancelled /\ NoPromise \notin Promises
  BY DistinctValues DEF DistinctValues
<1>1. PICK p \in Fresh : /\ promises' = Append(promises, p) /\ rejecters' = Tail(Append(rejecters, p))
                         /\ settled' = Settle({p}, item)
  BY DEF PushIdle
<1>2. resolvers = <<>> /\ resolvers' = <<>> /\ taken' = taken
  BY DEF PushIdle
<1>3. /\ promises \in Seq(Promises) /\ resolvers \in Seq(Promises) /\ rejecters = resolvers
      /\ settled \in [Promises -> Outcomes] /\ taken \in [Consumers -> Promises \cup {NoPromise}]
  BY DEF LInv, TypesAgree
<1>4. rejecters' = <<>>
  BY <1>1, <1>2, <1>3, HeadTailAppend
<1>5. /\ p \in Promises /\ p # NoPromise /\ p \notin Elems(promises) /\ p \notin Elems(resolvers)
      /\ \A c \in Consumers : taken[c] # p
      /\ settled[p] = Nothing
  BY FreshFacts
<1>6. /\ promises' \in Seq(Promises) /\ Elems(promises') = Elems(promises) \cup {p} /\ Distinct(promises')
      /\ Elems(promises) \subseteq Promises
  BY <1>1, <1>3, <1>5, AppendElems, ElemsFacts DEF LInv
<1>7. /\ settled' \in [Promises -> Outcomes]
      /\ \A q \in Promises : settled'[q] = IF q = p THEN item ELSE settled[q]
  <2>1. \A q \in Promises : settled'[q] = IF q \in {p} /\ settled[q] = Nothing THEN item ELSE settled[q]
    BY <1>1, SettleFacts
  <2> QED
    BY <1>1, <1>5, <2>1, SettleFacts
<1>8. TypesAgree'
  BY <1>2, <1>3, <1>4, <1>6, <1>7 DEF TypesAgree
<1>9. OwnersAgree'
  BY <1>0, <1>2, <1>3, <1>5, <1>6, <1>7, EmptyElems DEF LInv, OwnersAgree
<1>10. ItemsAgree'
  BY <1>0, <1>2, <1>5, <1>6, <1>7 DEF LInv, ItemsAgree, Outside
<1> QED
  BY <1>2, <1>6, <1>8, <1>9, <1>10, EmptyElems DEF LInv

(* push() keeps it when somebody waits: the first in line is resolved. *)
LEMMA PushToWaiterKept ==
  ASSUME LInv, NEW item \in Items, Outside(item), PushToWaiter(item)
  PROVE  LInv'
<1> DEFINE p == Head(resolvers)
<1>0. Nothing \notin Items /\ Cancelled \notin Items /\ Nothing # Cancelled /\ NoPromise \notin Promises
  BY DistinctValues DEF DistinctValues
<1>1. /\ resolvers # <<>> /\ settled' = Settle({p}, item) /\ resolvers' = Tail(resolvers)
      /\ rejecters' = Tail(rejecters) /\ promises' = promises /\ taken' = taken
  BY DEF PushToWaiter
<1>2. promises = <<>>
  BY <1>1 DEF LInv
<1>3. /\ promises \in Seq(Promises) /\ resolvers \in Seq(Promises) /\ rejecters = resolvers
      /\ settled \in [Promises -> Outcomes] /\ taken \in [Consumers -> Promises \cup {NoPromise}]
  BY DEF LInv, TypesAgree
<1>4. /\ resolvers' \in Seq(Promises) /\ p \in Elems(resolvers) /\ p \in Promises
      /\ Elems(resolvers) = Elems(resolvers') \cup {p} /\ p \notin Elems(resolvers') /\ Distinct(resolvers')
  BY <1>1, <1>3, TailElems, ElemsFacts DEF LInv
<1>5. settled[p] = Nothing /\ \E c \in Consumers : taken[c] = p
  BY <1>4 DEF LInv, OwnersAgree
<1>6. /\ settled' \in [Promises -> Outcomes]
      /\ \A q \in Promises : settled'[q] = IF q = p THEN item ELSE settled[q]
  <2>1. \A q \in Promises : settled'[q] = IF q \in {p} /\ settled[q] = Nothing THEN item ELSE settled[q]
    BY <1>1, SettleFacts
  <2> QED
    BY <1>1, <1>5, <2>1, SettleFacts
<1> HIDE DEF p
<1>7. TypesAgree'
  BY <1>1, <1>3, <1>4, <1>6 DEF TypesAgree
<1>8. Elems(promises) = {} /\ Elems(resolvers) \subseteq Promises
  BY <1>2, <1>3, EmptyElems, ElemsFacts
<1>9. OwnersAgree'
  <2>1. \A q \in Elems(resolvers') : settled'[q] = Nothing /\ \E c \in Consumers : taken[c] = q
    BY <1>4, <1>6, <1>8 DEF LInv, OwnersAgree
  <2>2. ASSUME NEW c \in Consumers, taken[c] # NoPromise, settled'[taken[c]] = Nothing
        PROVE  taken[c] \in Elems(resolvers')
    <3>1. taken[c] \in Promises /\ taken[c] # p
      BY <1>0, <1>3, <1>6, <2>2
    <3> QED
      BY <1>4, <1>6, <2>2, <3>1 DEF LInv, OwnersAgree
  <2> QED
    BY <1>1, <1>8, <2>1, <2>2 DEF LInv, OwnersAgree
<1>10. ItemsAgree'
  BY <1>0, <1>1, <1>5, <1>6 DEF LInv, ItemsAgree, Outside
<1> QED
  BY <1>1, <1>2, <1>4, <1>7, <1>9, <1>10 DEF LInv

(* get() keeps it when there is no item: its consumer goes to the end of the line. *)
LEMMA GetWaitingKept ==
  ASSUME LInv, NEW c \in Consumers, taken[c] = NoPromise, GetWaiting(c)
  PROVE  LInv'
<1>0. Nothing \notin Items /\ Cancelled \notin Items /\ Nothing # Cancelled /\ NoPromise \notin Promises
  BY DistinctValues DEF DistinctValues
<1>1. PICK p \in Fresh : /\ resolvers' = Append(resolvers, p) /\ rejecters' = Append(rejecters, p)
                         /\ taken' = [taken EXCEPT ![c] = p]
  BY DEF GetWaiting
<1>2. promises = <<>> /\ promises' = promises /\ settled' = settled
  BY DEF GetWaiting
<1>3. /\ promises \in Seq(Promises) /\ resolvers \in Seq(Promises) /\ rejecters = resolvers
      /\ settled \in [Promises -> Outcomes] /\ taken \in [Consumers -> Promises \cup {NoPromise}]
  BY DEF LInv, TypesAgree
<1>4. /\ p \in Promises /\ p # NoPromise /\ p \notin Elems(promises) /\ p \notin Elems(resolvers)
      /\ \A d \in Consumers : taken[d] # p
      /\ settled[p] = Nothing
  BY FreshFacts
<1>5. /\ resolvers' \in Seq(Promises) /\ Elems(resolvers') = Elems(resolvers) \cup {p} /\ Distinct(resolvers')
  BY <1>1, <1>3, <1>4, AppendElems DEF LInv
<1>6. /\ taken' \in [Consumers -> Promises \cup {NoPromise}]
      /\ \A d \in Consumers : taken'[d] = IF d = c THEN p ELSE taken[d]
  BY <1>1, <1>3, <1>4
<1>7. TypesAgree'
  BY <1>1, <1>2, <1>3, <1>5, <1>6 DEF TypesAgree
<1>8. Elems(promises) = {}
  BY <1>2, EmptyElems
<1>9. OwnersAgree'
  <2>1. \A q \in Elems(resolvers) : \E d \in Consumers : taken'[d] = q
    <3>1. ASSUME NEW q \in Elems(resolvers) PROVE \E d \in Consumers : taken'[d] = q
      <4>1. PICK d \in Consumers : taken[d] = q
        BY DEF LInv, OwnersAgree
      <4>2. d # c
        BY <1>0, <1>3, <4>1, ElemsFacts
      <4> QED
        BY <1>6, <4>1, <4>2
    <3> QED
      BY <3>1
  <2> QED
    BY <1>2, <1>4, <1>5, <1>6, <1>8, <2>1 DEF LInv, OwnersAgree
<1>10. ItemsAgree'
  BY <1>0, <1>2, <1>6, <1>8 DEF LInv, ItemsAgree
<1> QED
  BY <1>2, <1>5, <1>7, <1>9, <1>10, EmptyElems DEF LInv

(* get() keeps it when there is an item: it takes the last that was pushed. *)
LEMMA GetAvailableKept ==
  ASSUME LInv, NEW c \in Consumers, taken[c] = NoPromise, GetAvailable(c)
  PROVE  LInv'
<1> DEFINE p == promises[Len(promises)]
<1>0. Nothing \notin Items /\ Cancelled \notin Items /\ Nothing # Cancelled /\ NoPromise \notin Promises
  BY DistinctValues DEF DistinctValues
<1>1. /\ promises # <<>> /\ taken' = [taken EXCEPT ![c] = p] /\ promises' = Front(promises)
      /\ UNCHANGED <<resolvers, rejecters, settled>>
  BY DEF GetAvailable, Front
<1>2. resolvers = <<>>
  BY <1>1 DEF LInv
<1>3. /\ promises \in Seq(Promises) /\ resolvers \in Seq(Promises) /\ rejecters = resolvers
      /\ settled \in [Promises -> Outcomes] /\ taken \in [Consumers -> Promises \cup {NoPromise}]
  BY DEF LInv, TypesAgree
<1>4. /\ promises' \in Seq(Promises) /\ p \in Elems(promises) /\ p \in Promises
      /\ Elems(promises) = Elems(promises') \cup {p} /\ p \notin Elems(promises') /\ Distinct(promises')
  BY <1>1, <1>3, FrontElems, ElemsFacts DEF LInv
<1> HIDE DEF p
<1>5. settled[p] \in Items /\ \A d \in Consumers : taken[d] # p
  BY <1>4 DEF LInv, OwnersAgree
<1>6. /\ taken' \in [Consumers -> Promises \cup {NoPromise}]
      /\ \A d \in Consumers : taken'[d] = IF d = c THEN p ELSE taken[d]
  BY <1>1, <1>3, <1>4
<1>7. TypesAgree'
  BY <1>1, <1>3, <1>4, <1>6 DEF TypesAgree
<1>8. Elems(resolvers) = {}
  BY <1>2, EmptyElems
<1>9. OwnersAgree'
  BY <1>0, <1>1, <1>4, <1>5, <1>6, <1>8 DEF LInv, OwnersAgree
<1>10. ItemsAgree'
  <2>1. ASSUME NEW q \in Promises, settled[q] # Nothing
        PROVE  q \in Elems(promises') \/ \E d \in Consumers : taken'[d] = q
    <3>1. CASE q = p
      BY <1>6, <3>1
    <3>2. CASE q \in Elems(promises) /\ q # p
      BY <1>4, <3>2
    <3>3. CASE \E d \in Consumers : taken[d] = q
      <4>1. PICK d \in Consumers : taken[d] = q
        BY <3>3
      <4> QED
        BY <1>0, <1>6, <4>1
    <3> QED
      BY <2>1, <3>1, <3>2, <3>3 DEF LInv, ItemsAgree
  <2> QED
    BY <1>1, <2>1 DEF LInv, ItemsAgree
<1> QED
  BY <1>1, <1>2, <1>4, <1>7, <1>9, <1>10 DEF LInv

(* cancelAllPending() keeps it: all who wait are rejected. *)
LEMMA CancelAllPendingKept ==
  ASSUME LInv, CancelAllPending
  PROVE  LInv'
<1>0. Nothing \notin Items /\ Cancelled \notin Items /\ Nothing # Cancelled /\ NoPromise \notin Promises
  BY DistinctValues DEF DistinctValues
<1>1. /\ settled' = Settle(Elems(rejecters), Cancelled) /\ rejecters' = <<>> /\ resolvers' = <<>>
      /\ UNCHANGED <<promises, taken>>
  BY DEF CancelAllPending
<1>2. /\ promises \in Seq(Promises) /\ resolvers \in Seq(Promises) /\ rejecters = resolvers
      /\ settled \in [Promises -> Outcomes] /\ taken \in [Consumers -> Promises \cup {NoPromise}]
  BY DEF LInv, TypesAgree
<1>3. /\ settled' \in [Promises -> Outcomes]
      /\ \A q \in Promises : settled'[q] = IF q \in Elems(resolvers) THEN Cancelled ELSE settled[q]
  <2>1. /\ settled' \in [Promises -> Outcomes]
        /\ \A q \in Promises :
             settled'[q] = IF q \in Elems(resolvers) /\ settled[q] = Nothing THEN Cancelled ELSE settled[q]
    BY <1>1, <1>2, SettleFacts
  <2> QED
    BY <2>1 DEF LInv, OwnersAgree
<1>4. /\ Elems(<<>>) = {} /\ Distinct(<<>>) /\ <<>> \in Seq(Promises)
      /\ Elems(promises) \subseteq Promises /\ Elems(resolvers) \subseteq Promises
  BY <1>2, EmptyElems, EmptySeq, ElemsFacts
<1>5. TypesAgree'
  BY <1>1, <1>2, <1>3, <1>4 DEF TypesAgree
<1>6. OwnersAgree'
  <2>1. ASSUME NEW c \in Consumers, taken[c] # NoPromise PROVE settled'[taken[c]] # Nothing
    BY <1>0, <1>2, <1>3, <2>1 DEF LInv, OwnersAgree
  <2>2. \A p \in Elems(promises) : p \notin Elems(resolvers)
    BY <1>0 DEF LInv, OwnersAgree
  <2>3. \A p \in Elems(promises) : settled'[p] \in Items /\ \A c \in Consumers : taken[c] # p
    BY <1>3, <1>4, <2>2 DEF LInv, OwnersAgree
  <2> QED
    BY <1>1, <1>4, <2>1, <2>3 DEF LInv, OwnersAgree
<1>7. ItemsAgree'
  <2>1. ASSUME NEW p \in Promises, settled'[p] # Nothing
        PROVE  p \in Elems(promises) \/ \E c \in Consumers : taken[c] = p
    BY <1>3, <2>1 DEF LInv, OwnersAgree, ItemsAgree
  <2>2. ASSUME NEW p \in Promises, NEW q \in Promises, settled'[p] = settled'[q], settled'[p] \in Items
        PROVE  p = q
    <3>1. settled'[p] = settled[p] /\ settled'[q] = settled[q]
      BY <1>0, <1>3, <2>2
    <3> QED
      BY <2>2, <3>1 DEF LInv, ItemsAgree
  <2> QED
    BY <1>1, <2>1, <2>2 DEF ItemsAgree
<1> QED
  BY <1>1, <1>4, <1>5, <1>6, <1>7 DEF LInv

(* A consumer that hears of its promise keeps it. *)
LEMMA CollectKept ==
  ASSUME LInv, NEW c \in Consumers, Collect(c)
  PROVE  LInv'
<1> DEFINE p == taken[c]
<1>0. Nothing \notin Items /\ Cancelled \notin Items /\ Nothing # Cancelled /\ NoPromise \notin Promises
  BY DistinctValues DEF DistinctValues
<1>1. /\ p # NoPromise /\ settled[p] # Nothing
      /\ settled' = [settled EXCEPT ![p] = Nothing] /\ taken' = [taken EXCEPT ![c] = NoPromise]
      /\ UNCHANGED <<promises, resolvers, rejecters>>
  BY DEF Collect
<1>2. /\ promises \in Seq(Promises) /\ resolvers \in Seq(Promises) /\ rejecters = resolvers
      /\ settled \in [Promises -> Outcomes] /\ taken \in [Consumers -> Promises \cup {NoPromise}]
  BY DEF LInv, TypesAgree
<1>3. p \in Promises
  BY <1>1, <1>2
<1>4. /\ settled' \in [Promises -> Outcomes]
      /\ \A q \in Promises : settled'[q] = IF q = p THEN Nothing ELSE settled[q]
  BY <1>1, <1>2, <1>3 DEF Outcomes
<1>5. /\ taken' \in [Consumers -> Promises \cup {NoPromise}]
      /\ \A d \in Consumers : taken'[d] = IF d = c THEN NoPromise ELSE taken[d]
  BY <1>1, <1>2
<1>6. \A d \in Consumers : d # c => taken[d] # p
  BY <1>1 DEF LInv, OwnersAgree
<1>7. Elems(promises) \subseteq Promises /\ Elems(resolvers) \subseteq Promises
  BY <1>2, ElemsFacts
<1>8. p \notin Elems(promises) /\ p \notin Elems(resolvers)
  BY <1>1 DEF LInv, OwnersAgree
<1> HIDE DEF p
<1>9. TypesAgree'
  BY <1>1, <1>2, <1>4, <1>5 DEF TypesAgree
<1>10. OwnersAgree'
  <2>1. \A q \in Elems(promises) : settled'[q] \in Items /\ \A d \in Consumers : taken'[d] # q
    BY <1>0, <1>4, <1>5, <1>7, <1>8 DEF LInv, OwnersAgree
  <2>2. ASSUME NEW q \in Elems(resolvers) PROVE settled'[q] = Nothing /\ \E d \in Consumers : taken'[d] = q
    <3>1. PICK d \in Consumers : taken[d] = q
      BY DEF LInv, OwnersAgree
    <3>2. d # c /\ q # p
      BY <1>8, <3>1 DEF p
    <3> QED
      BY <1>4, <1>5, <1>7, <3>1, <3>2 DEF LInv, OwnersAgree
  <2>3. ASSUME NEW d \in Consumers, taken'[d] # NoPromise, settled'[taken'[d]] = Nothing
        PROVE  taken'[d] \in Elems(resolvers)
    <3>1. d # c /\ taken'[d] = taken[d] /\ taken[d] # p /\ taken[d] \in Promises
      BY <1>2, <1>5, <1>6, <2>3
    <3> QED
      BY <1>4, <2>3, <3>1 DEF LInv, OwnersAgree
  <2>4. \A d, e \in Consumers : taken'[d] = taken'[e] /\ taken'[d] # NoPromise => d = e
    BY <1>5 DEF LInv, OwnersAgree
  <2> QED
    BY <1>1, <2>1, <2>2, <2>3, <2>4 DEF OwnersAgree
<1>11. ItemsAgree'
  <2>1. ASSUME NEW q \in Promises, settled'[q] # Nothing
        PROVE  q \in Elems(promises) \/ \E d \in Consumers : taken'[d] = q
    <3>1. q # p /\ settled[q] # Nothing
      BY <1>4, <2>1
    <3>2. CASE \E d \in Consumers : taken[d] = q
      <4>1. PICK d \in Consumers : taken[d] = q
        BY <3>2
      <4>2. d # c
        BY <3>1, <4>1 DEF p
      <4> QED
        BY <1>5, <4>1, <4>2
    <3> QED
      BY <3>1, <3>2 DEF LInv, ItemsAgree
  <2>2. \A q, r \in Promises : settled'[q] = settled'[r] /\ settled'[q] \in Items => q = r
    BY <1>0, <1>4 DEF LInv, ItemsAgree
  <2> QED
    BY <1>1, <2>1, <2>2 DEF ItemsAgree
<1> QED
  BY <1>1, <1>9, <1>10, <1>11 DEF LInv

(* Every step preserves the invariant. *)
LEMMA LifoKept == LInv /\ [Next]_vars => LInv'
<1>1. LInv /\ UNCHANGED vars => LInv'
  BY DEF vars, LInv, TypesAgree, OwnersAgree, ItemsAgree
<1> QED
  BY <1>1, PushIdleKept, PushToWaiterKept, GetWaitingKept, GetAvailableKept, CollectKept, CancelAllPendingKept
     DEF Next

(* The invariant holds at any moment. *)
LEMMA AlwaysLInv == Spec => []LInv
BY InitLifo, LifoKept, PTL DEF Spec

(* The arrays that push(), get() and cancelAllPending() change by hand     *)
(* stay in step.                                                           *)
THEOREM ArraysAlwaysInStep == Spec => []ArraysInStep
<1>1. LInv => ArraysInStep
  <2> SUFFICES ASSUME LInv PROVE ArraysInStep
    OBVIOUS
  <2>1. /\ \A i \in DOMAIN promises : promises[i] \in Elems(promises)
        /\ \A i \in DOMAIN resolvers : resolvers[i] \in Elems(resolvers)
    BY DEF Elems
  <2> QED
    BY <2>1 DEF LInv, TypesAgree, OwnersAgree, ArraysInStep
<1> QED
  BY <1>1, AlwaysLInv, PTL

(* The consumers that wait are as many as there are resolvers.             *)
LEMMA WaitingCounted ==
  ASSUME LInv
  PROVE  {taken[c] : c \in Waiting} = Elems(resolvers) /\ Cardinality(Waiting) = Len(resolvers)
<1>0. NoPromise \notin Promises
  BY DistinctValues DEF DistinctValues
<1>1. /\ resolvers \in Seq(Promises) /\ taken \in [Consumers -> Promises \cup {NoPromise}]
      /\ \A i, j \in 1..Len(resolvers) : resolvers[i] = resolvers[j] => i = j
      /\ \A p : p \in Elems(resolvers) <=> \E i \in 1..Len(resolvers) : resolvers[i] = p
      /\ Elems(resolvers) \subseteq Promises /\ Len(resolvers) \in Nat
  BY ElemsFacts DEF LInv, TypesAgree
<1>2. \A c \in Waiting : c \in Consumers /\ taken[c] \in Elems(resolvers)
  BY DEF Waiting, LInv, OwnersAgree
<1>3. \A p \in Elems(resolvers) : \E c \in Waiting : taken[c] = p
  <2>1. ASSUME NEW p \in Elems(resolvers) PROVE \E c \in Waiting : taken[c] = p
    <3>1. PICK c \in Consumers : taken[c] = p /\ settled[p] = Nothing
      BY DEF LInv, OwnersAgree
    <3>2. c \in Waiting
      BY <1>0, <1>1, <3>1 DEF Waiting
    <3> QED
      BY <3>1, <3>2
  <2> QED
    BY <2>1
<1>4. {taken[c] : c \in Waiting} = Elems(resolvers)
  BY <1>2, <1>3
<1> DEFINE f == [i \in 1..Len(resolvers) |-> CHOOSE c \in Waiting : taken[c] = resolvers[i]]
<1>5. \A i \in 1..Len(resolvers) : f[i] \in Waiting /\ taken[f[i]] = resolvers[i]
  BY <1>1, <1>3
<1>6. f \in [1..Len(resolvers) -> Waiting]
  BY <1>5
<1>7. \A i, j \in 1..Len(resolvers) : f[i] = f[j] => i = j
  <2>1. ASSUME NEW i \in 1..Len(resolvers), NEW j \in 1..Len(resolvers), f[i] = f[j] PROVE i = j
    <3>1. resolvers[i] = resolvers[j]
      BY <1>5, <2>1
    <3> QED
      BY <1>1, <3>1
  <2> QED
    BY <2>1
<1>8. \A c \in Waiting : \E i \in 1..Len(resolvers) : f[i] = c
  <2>1. ASSUME NEW c \in Waiting PROVE \E i \in 1..Len(resolvers) : f[i] = c
    <3>1. PICK i \in 1..Len(resolvers) : resolvers[i] = taken[c]
      BY <1>1, <1>2
    <3>2. taken[f[i]] = taken[c] /\ taken[c] # NoPromise /\ f[i] \in Consumers
      BY <1>2, <1>5, <3>1 DEF Waiting
    <3> QED
      BY <1>2, <3>2 DEF LInv, OwnersAgree
  <2> QED
    BY <2>1
<1> HIDE DEF f
<1>9. ExistsBijection(1..Len(resolvers), Waiting)
  <2>1. f \in Injection(1..Len(resolvers), Waiting)
    BY <1>6, <1>7 DEF Injection, IsInjective
  <2>2. f \in Surjection(1..Len(resolvers), Waiting)
    BY <1>6, <1>8 DEF Surjection
  <2> QED
    BY <2>1, <2>2 DEF ExistsBijection, Bijection
<1> QED
  BY <1>1, <1>4, <1>9, FS_CountingElements

(* The items kept are as many as there are promises.                       *)
LEMMA KeptCounted ==
  ASSUME LInv PROVE Cardinality({settled[p] : p \in Elems(promises)}) = Len(promises)
<1> DEFINE K == {settled[p] : p \in Elems(promises)}
<1> DEFINE f == [i \in 1..Len(promises) |-> settled[promises[i]]]
<1>1. /\ promises \in Seq(Promises) /\ Len(promises) \in Nat
      /\ \A i, j \in 1..Len(promises) : promises[i] = promises[j] => i = j
      /\ \A p : p \in Elems(promises) <=> \E i \in 1..Len(promises) : promises[i] = p
      /\ Elems(promises) \subseteq Promises
  BY ElemsFacts DEF LInv, TypesAgree
<1>2. \A i \in 1..Len(promises) : promises[i] \in Promises /\ settled[promises[i]] \in Items
  BY <1>1 DEF LInv, OwnersAgree
<1>3. f \in [1..Len(promises) -> K]
  BY <1>1
<1>4. \A i, j \in 1..Len(promises) : f[i] = f[j] => i = j
  <2>1. ASSUME NEW i \in 1..Len(promises), NEW j \in 1..Len(promises), settled[promises[i]] = settled[promises[j]]
        PROVE  promises[i] = promises[j]
    BY <1>2, <2>1 DEF LInv, ItemsAgree
  <2> QED
    BY <1>1, <2>1
<1>5. \A k \in K : \E i \in 1..Len(promises) : f[i] = k
  BY <1>1
<1> HIDE DEF f, K
<1>6. ExistsBijection(1..Len(promises), K)
  <2>1. f \in Injection(1..Len(promises), K)
    BY <1>3, <1>4 DEF Injection, IsInjective
  <2>2. f \in Surjection(1..Len(promises), K)
    BY <1>3, <1>5 DEF Surjection
  <2> QED
    BY <2>1, <2>2 DEF ExistsBijection, Bijection
<1>7. Cardinality(K) = Len(promises)
  BY <1>1, <1>6, FS_CountingElements
<1> QED
  BY <1>7 DEF K

(* No promise is lost or given to two consumers, and the getters length    *)
(* and pending tell the truth.                                             *)
THEOREM NoPromiseEverLost == Spec => []NoPromiseLost
<1>1. LInv => NoPromiseLost
  <2> SUFFICES ASSUME LInv PROVE NoPromiseLost
    OBVIOUS
  <2>1. Elems(promises) \cap {taken[c] : c \in Consumers} = {}
    BY DEF LInv, OwnersAgree
  <2>2. \A c, d \in Consumers : taken[c] = taken[d] /\ taken[c] # NoPromise => c = d
    BY DEF LInv, OwnersAgree
  <2>3. Len(promises) \in Nat /\ Len(resolvers) \in Nat
    BY ElemsFacts DEF LInv, TypesAgree
  <2>4. Len(promises) = 0 \/ Len(resolvers) = 0
    BY EmptySeq DEF LInv
  <2>5. Pending = Len(resolvers)
    BY <2>3, <2>4 DEF Pending
  <2>6. Distinct(promises) /\ Distinct(resolvers)
    BY DEF LInv
  <2> QED
    BY <2>1, <2>2, <2>5, <2>6, WaitingCounted, KeptCounted DEF NoPromiseLost, Length
<1> QED
  BY <1>1, AlwaysLInv, PTL

----------------------------------------------------------------------------
(* LifoQueue implements ItemQueue: the mapping, and each step under it.    *)

Stack == [i \in 1..Len(promises) |-> settled[promises[i]]]
Waiters == [i \in 1..Len(resolvers) |-> CHOOSE c \in Consumers : taken[c] = resolvers[i]]
Got == [c \in Consumers |-> IF taken[c] = NoPromise THEN Nothing ELSE settled[taken[c]]]

Mapped ==
  /\ Stack \in Seq(Items) /\ Len(Stack) = Len(promises)
  /\ \A i \in 1..Len(promises) : Stack[i] = settled[promises[i]]
  /\ Waiters \in Seq(Consumers) /\ Len(Waiters) = Len(resolvers)
  /\ \A i \in 1..Len(resolvers) : taken[Waiters[i]] = resolvers[i]
  /\ DOMAIN Got = Consumers
  /\ \A c \in Consumers : Got[c] = IF taken[c] = NoPromise THEN Nothing ELSE settled[taken[c]]
  /\ Len(promises) \in Nat /\ Len(resolvers) \in Nat
  /\ \A i \in 1..Len(promises) : promises[i] \in Promises
  /\ \A i \in 1..Len(resolvers) : resolvers[i] \in Promises

(* What the arrays stand for is well defined: items kept, and consumers in line. *)
LEMMA MappingFacts == LInv => Mapped
<1> SUFFICES ASSUME LInv PROVE Mapped
  OBVIOUS
<1>1. /\ Len(promises) \in Nat /\ Len(resolvers) \in Nat
      /\ \A i \in 1..Len(promises) : promises[i] \in Elems(promises) /\ promises[i] \in Promises
      /\ \A i \in 1..Len(resolvers) : resolvers[i] \in Elems(resolvers) /\ resolvers[i] \in Promises
  BY ElemsFacts DEF LInv, TypesAgree
<1>2. \A i \in 1..Len(promises) : settled[promises[i]] \in Items
  BY <1>1 DEF LInv, OwnersAgree
<1>3. \A i \in 1..Len(resolvers) : \E c \in Consumers : taken[c] = resolvers[i]
  BY <1>1 DEF LInv, OwnersAgree
<1>4. /\ Stack \in [1..Len(promises) -> Items]
      /\ \A i \in 1..Len(promises) : Stack[i] = settled[promises[i]]
  BY <1>2 DEF Stack
<1>5. /\ Waiters \in [1..Len(resolvers) -> Consumers]
      /\ \A i \in 1..Len(resolvers) : taken[Waiters[i]] = resolvers[i]
  BY <1>3 DEF Waiters
<1>6. Stack \in Seq(Items) /\ Len(Stack) = Len(promises)
  BY <1>1, <1>4
<1>7. Waiters \in Seq(Consumers) /\ Len(Waiters) = Len(resolvers)
  BY <1>1, <1>5
<1>8. /\ DOMAIN Got = Consumers
      /\ \A c \in Consumers : Got[c] = IF taken[c] = NoPromise THEN Nothing ELSE settled[taken[c]]
  BY DEF Got
<1> QED
  BY <1>1, <1>4, <1>5, <1>6, <1>7, <1>8 DEF Mapped

(* A consumer is in line exactly when its promise is among the resolvers. *)
LEMMA InLine ==
  ASSUME LInv, NEW c \in Consumers
  PROVE  c \in Abstract!ToSet(Waiters) <=> taken[c] \in Elems(resolvers)
<1>1. Mapped /\ NoPromise \notin Promises
  BY MappingFacts, DistinctValues DEF DistinctValues
<1>2. DOMAIN Waiters = 1..Len(resolvers)
  BY DEF Waiters
<1>3. c \in Abstract!ToSet(Waiters) <=> \E i \in 1..Len(resolvers) : Waiters[i] = c
  BY <1>2 DEF Abstract!ToSet
<1>4. taken[c] \in Elems(resolvers) <=> \E i \in 1..Len(resolvers) : resolvers[i] = taken[c]
  BY ElemsFacts DEF LInv, TypesAgree
<1>5. \A i \in 1..Len(resolvers) : Waiters[i] \in Consumers
  BY <1>1, ElementOfSeq DEF Mapped
<1>6. ASSUME NEW i \in 1..Len(resolvers), resolvers[i] = taken[c] PROVE Waiters[i] = c
  BY <1>1, <1>5, <1>6 DEF Mapped, LInv, OwnersAgree
<1> QED
  BY <1>1, <1>3, <1>4, <1>6 DEF Mapped

(* What a promise is settled with, before and after a step, for the        *)
(* consumers that have it.                                                 *)
LEMMA GotAfter ==
  ASSUME LInv, LInv', taken' = taken, NEW p \in Elems(resolvers),
         \A q \in Promises : q # p => settled'[q] = settled[q],
         NEW c \in Consumers, taken[c] = p
  PROVE  Got' = [Got EXCEPT ![c] = settled'[p]]
<1>0. NoPromise \notin Promises
  BY DistinctValues DEF DistinctValues
<1>1. taken \in [Consumers -> Promises \cup {NoPromise}] /\ p \in Promises
  BY ElemsFacts DEF LInv, TypesAgree
<1>2. \A d \in Consumers : d # c => taken[d] # p
  BY <1>0, <1>1 DEF LInv, OwnersAgree
<1> QED
  BY <1>0, <1>1, <1>2 DEF Got

(* push() with nobody waiting is Push of the item queue. *)
LEMMA PushIdleMaps ==
  ASSUME LInv, LInv', Mapped, Mapped', NEW item \in Items, Outside(item), PushIdle(item)
  PROVE  Abstract!Free(item) /\ Abstract!Push(item)
<1>0. Nothing \notin Items /\ Cancelled \notin Items /\ Nothing # Cancelled /\ NoPromise \notin Promises
  BY DistinctValues DEF DistinctValues
<1>1. PICK p \in Fresh : promises' = Append(promises, p) /\ settled' = Settle({p}, item)
  BY DEF PushIdle
<1>2. resolvers = <<>> /\ resolvers' = <<>> /\ taken' = taken
  BY DEF PushIdle
<1>3. /\ promises \in Seq(Promises) /\ taken \in [Consumers -> Promises \cup {NoPromise}]
      /\ p \in Promises /\ p \notin Elems(promises) /\ settled[p] = Nothing
      /\ \A c \in Consumers : taken[c] # p
  BY FreshFacts DEF LInv, TypesAgree
<1>4. \A q \in Promises : settled'[q] = IF q = p THEN item ELSE settled[q]
  BY <1>1, <1>3, SettleFacts
<1>5. /\ Len(promises') = Len(promises) + 1 /\ promises'[Len(promises) + 1] = p
      /\ \A i \in 1..Len(promises) : promises'[i] = promises[i] /\ promises[i] # p
  BY <1>1, <1>3, AppendProperties, ElemsFacts
<1>6. Stack' = Append(Stack, item)
  <2>1. /\ Append(Stack, item) \in Seq(Items) /\ Len(Append(Stack, item)) = Len(Stack) + 1
        /\ \A i \in 1..Len(Stack) : Append(Stack, item)[i] = Stack[i]
        /\ Append(Stack, item)[Len(Stack) + 1] = item
    BY AppendProperties DEF Mapped
  <2>2. Stack' \in Seq(Items) /\ Len(Stack') = Len(Append(Stack, item))
    BY <1>5, <2>1 DEF Mapped
  <2>3. ASSUME NEW i \in 1..Len(Stack') PROVE Stack'[i] = Append(Stack, item)[i]
    <3>1. CASE i = Len(Stack) + 1
      BY <1>3, <1>4, <1>5, <2>1, <3>1 DEF Mapped
    <3>2. CASE i \in 1..Len(Stack)
      BY <1>3, <1>4, <1>5, <2>1, <3>2 DEF Mapped
    <3> QED
      BY <2>1, <2>2, <2>3, <3>1, <3>2 DEF Mapped
  <2> QED
    BY <2>1, <2>2, <2>3, SeqEqual
<1>7. Waiters = <<>> /\ Waiters' = <<>>
  BY <1>2, EmptySeq DEF Mapped
<1>8. Got' = Got
  BY <1>2, <1>3, <1>4 DEF Got
<1>9. Abstract!Free(item)
  <2>1. /\ \A i \in 1..Len(promises) : Stack[i] # item
        /\ \A c \in Consumers : Got[c] # item
    <3>1. \A q \in Promises : settled[q] # item
      BY DEF Outside
    <3>2. \A i \in 1..Len(promises) : Stack[i] # item
      BY <3>1 DEF Mapped
    <3>3. \A c \in Consumers : Got[c] # item
      <4>1. ASSUME NEW c \in Consumers PROVE Got[c] # item
        <5>1. Got[c] = IF taken[c] = NoPromise THEN Nothing ELSE settled[taken[c]]
          BY DEF Mapped
        <5>2. taken[c] = NoPromise \/ taken[c] \in Promises
          BY <1>3
        <5> QED
          BY <1>0, <3>1, <5>1, <5>2
      <4> QED
        BY <4>1
    <3> QED
      BY <3>2, <3>3
  <2>2. DOMAIN Stack = 1..Len(promises)
    BY DEF Stack
  <2> QED
    BY <2>1, <2>2 DEF Abstract!Free, Abstract!ToSet, Stack, Got
<1>10. Abstract!Push(item) <=>
         IF Waiters = <<>>
         THEN Stack' = Append(Stack, item) /\ Waiters' = Waiters /\ Got' = Got
         ELSE /\ Got' = [Got EXCEPT ![Head(Waiters)] = item]
              /\ Waiters' = Tail(Waiters)
              /\ Stack' = Stack
  BY DEF Abstract!Push, Stack, Waiters, Got
<1> QED
  BY <1>6, <1>7, <1>8, <1>9, <1>10

(* So is push() with somebody waiting: the first in line gets the item. *)
LEMMA PushToWaiterMaps ==
  ASSUME LInv, LInv', Mapped, Mapped', NEW item \in Items, Outside(item), PushToWaiter(item)
  PROVE  Abstract!Free(item) /\ Abstract!Push(item)
<1> DEFINE p == Head(resolvers)
<1>0. Nothing \notin Items /\ Cancelled \notin Items /\ Nothing # Cancelled /\ NoPromise \notin Promises
  BY DistinctValues DEF DistinctValues
<1>1. /\ resolvers # <<>> /\ settled' = Settle({p}, item) /\ resolvers' = Tail(resolvers)
      /\ promises' = promises /\ taken' = taken
  BY DEF PushToWaiter
<1>2. /\ promises = <<>> /\ resolvers \in Seq(Promises)
      /\ taken \in [Consumers -> Promises \cup {NoPromise}]
  BY <1>1 DEF LInv, TypesAgree
<1>3. /\ p = resolvers[1] /\ Len(resolvers') = Len(resolvers) - 1 /\ Len(resolvers) \in Nat \ {0}
      /\ \A i \in 1..Len(resolvers') : resolvers'[i] = resolvers[i + 1]
      /\ p \in Elems(resolvers) /\ p \in Promises
  BY <1>1, <1>2, HeadTailProperties, EmptySeq, TailElems
<1>4. settled[p] = Nothing
  BY <1>3 DEF LInv, OwnersAgree
<1>5. \A q \in Promises : settled'[q] = IF q = p THEN item ELSE settled[q]
  <2>1. \A q \in Promises : settled'[q] = IF q \in {p} /\ settled[q] = Nothing THEN item ELSE settled[q]
    BY <1>1, SettleFacts
  <2> QED
    BY <1>4, <2>1
<1> HIDE DEF p
<1>6. Waiters # <<>> /\ Head(Waiters) = Waiters[1] /\ Head(Waiters) \in Consumers /\ taken[Head(Waiters)] = p
  <2>1. Len(Waiters) # 0 /\ 1 \in 1..Len(resolvers)
    BY <1>3 DEF Mapped
  <2>2. Waiters # <<>>
    BY <2>1, EmptySeq
  <2> QED
    BY <1>3, <2>1, <2>2, HeadTailProperties DEF Mapped
<1>7. Got' = [Got EXCEPT ![Head(Waiters)] = item]
  <2>1. settled'[p] = item
    BY <1>3, <1>5
  <2> QED
    BY <1>1, <1>3, <1>5, <1>6, <2>1, GotAfter
<1>8. Waiters' = Tail(Waiters)
  <2>1. /\ Tail(Waiters) \in Seq(Consumers) /\ Len(Tail(Waiters)) = Len(Waiters) - 1
        /\ \A i \in 1..Len(Tail(Waiters)) : Tail(Waiters)[i] = Waiters[i + 1]
    BY <1>6, HeadTailProperties DEF Mapped
  <2>2. Waiters' \in Seq(Consumers) /\ Len(Waiters') = Len(Tail(Waiters))
    BY <1>3, <2>1 DEF Mapped
  <2>3. ASSUME NEW i \in 1..Len(Waiters') PROVE Waiters'[i] = Tail(Waiters)[i]
    <3>1. i \in 1..Len(resolvers') /\ i + 1 \in 1..Len(resolvers) /\ i \in 1..Len(Tail(Waiters))
      BY <1>3, <2>1, <2>2 DEF Mapped
    <3>2. taken[Waiters'[i]] = resolvers[i + 1] /\ taken[Waiters[i + 1]] = resolvers[i + 1]
      BY <1>1, <1>3, <3>1 DEF Mapped
    <3>3. Waiters'[i] \in Consumers /\ Waiters[i + 1] \in Consumers /\ resolvers[i + 1] # NoPromise
      BY <1>0, <2>2, <3>1, ElementOfSeq DEF Mapped
    <3> QED
      BY <2>1, <3>1, <3>2, <3>3 DEF LInv, OwnersAgree
  <2> QED
    BY <2>1, <2>2, <2>3, SeqEqual
<1>9. Stack = <<>> /\ Stack' = Stack
  BY <1>1, <1>2, EmptySeq DEF Mapped
<1>10. Abstract!Free(item)
  <2>1. \A c \in Consumers : Got[c] # item
    BY <1>0, <1>2 DEF Mapped, Outside
  <2>2. DOMAIN Stack = {}
    BY <1>9
  <2> QED
    BY <2>1, <2>2 DEF Abstract!Free, Abstract!ToSet, Stack, Got
<1>11. Abstract!Push(item) <=>
         IF Waiters = <<>>
         THEN Stack' = Append(Stack, item) /\ Waiters' = Waiters /\ Got' = Got
         ELSE /\ Got' = [Got EXCEPT ![Head(Waiters)] = item]
              /\ Waiters' = Tail(Waiters)
              /\ Stack' = Stack
  BY DEF Abstract!Push, Stack, Waiters, Got
<1> QED
  BY <1>6, <1>7, <1>8, <1>9, <1>10, <1>11

(* get() without an item is Get of the item queue: the consumer joins the line. *)
LEMMA GetWaitingMaps ==
  ASSUME LInv, LInv', Mapped, Mapped', NEW c \in Consumers, taken[c] = NoPromise, GetWaiting(c)
  PROVE  Abstract!Idle(c) /\ Abstract!Get(c)
<1>0. NoPromise \notin Promises
  BY DistinctValues DEF DistinctValues
<1>1. PICK p \in Fresh : resolvers' = Append(resolvers, p) /\ taken' = [taken EXCEPT ![c] = p]
  BY DEF GetWaiting
<1>2. promises = <<>> /\ promises' = promises /\ settled' = settled
  BY DEF GetWaiting
<1>3. /\ resolvers \in Seq(Promises) /\ taken \in [Consumers -> Promises \cup {NoPromise}]
      /\ p \in Promises /\ settled[p] = Nothing /\ p # NoPromise
  BY FreshFacts DEF LInv, TypesAgree
<1>4. /\ Len(resolvers') = Len(resolvers) + 1 /\ resolvers'[Len(resolvers) + 1] = p
      /\ \A i \in 1..Len(resolvers) : resolvers'[i] = resolvers[i]
  BY <1>1, <1>3, AppendProperties
<1>5. \A d \in Consumers : taken'[d] = IF d = c THEN p ELSE taken[d]
  BY <1>1, <1>3
<1>6. Got' = Got
  BY <1>0, <1>2, <1>3, <1>5 DEF Got
<1>7. Waiters' = Append(Waiters, c)
  <2>1. /\ Append(Waiters, c) \in Seq(Consumers) /\ Len(Append(Waiters, c)) = Len(Waiters) + 1
        /\ \A i \in 1..Len(Waiters) : Append(Waiters, c)[i] = Waiters[i]
        /\ Append(Waiters, c)[Len(Waiters) + 1] = c
    BY AppendProperties DEF Mapped
  <2>2. Waiters' \in Seq(Consumers) /\ Len(Waiters') = Len(Append(Waiters, c))
    BY <1>4, <2>1 DEF Mapped
  <2>3. ASSUME NEW i \in 1..Len(Waiters') PROVE Waiters'[i] = Append(Waiters, c)[i]
    <3>1. Waiters'[i] \in Consumers /\ taken'[Waiters'[i]] = resolvers'[i]
      BY <2>2, ElementOfSeq DEF Mapped
    <3>2. CASE i = Len(Waiters) + 1
      <4>1. taken'[Waiters'[i]] = taken'[c] /\ taken'[c] # NoPromise
        BY <1>3, <1>4, <1>5, <3>1, <3>2 DEF Mapped
      <4> QED
        BY <2>1, <3>1, <3>2, <4>1 DEF LInv, OwnersAgree
    <3>3. CASE i \in 1..Len(Waiters)
      <4>1. /\ Waiters[i] \in Consumers /\ taken[Waiters[i]] = resolvers[i]
            /\ resolvers[i] # NoPromise /\ resolvers'[i] = resolvers[i]
        BY <1>0, <1>4, <3>3, ElementOfSeq DEF Mapped
      <4>2. taken'[Waiters[i]] = taken'[Waiters'[i]] /\ taken'[Waiters[i]] # NoPromise
        BY <1>5, <3>1, <4>1
      <4> QED
        BY <2>1, <3>1, <3>3, <4>1, <4>2 DEF LInv, OwnersAgree
    <3> QED
      BY <2>1, <2>2, <3>2, <3>3 DEF Mapped
  <2> QED
    BY <2>1, <2>2, <2>3, SeqEqual
<1>8. Stack = <<>> /\ Stack' = Stack
  BY <1>2, EmptySeq DEF Mapped, Stack
<1>9. Abstract!Idle(c)
  <2>1. taken[c] \notin Elems(resolvers)
    BY <1>0, <1>3, ElemsFacts
  <2>2. c \notin Abstract!ToSet(Waiters) /\ Got[c] = Nothing
    BY <2>1, InLine DEF Mapped
  <2> QED
    BY <2>2 DEF Abstract!Idle, Abstract!ToSet, Waiters, Got
<1>10. Abstract!Get(c) <=>
         IF Stack = <<>>
         THEN Waiters' = Append(Waiters, c) /\ Stack' = Stack /\ Got' = Got
         ELSE /\ Got' = [Got EXCEPT ![c] = Stack[Len(Stack)]]
              /\ Stack' = SubSeq(Stack, 1, Len(Stack) - 1)
              /\ Waiters' = Waiters
  BY DEF Abstract!Get, Stack, Waiters, Got
<1> QED
  BY <1>6, <1>7, <1>8, <1>9, <1>10

(* So is get() with an item: the consumer has the last one pushed. *)
LEMMA GetAvailableMaps ==
  ASSUME LInv, LInv', Mapped, Mapped', NEW c \in Consumers, taken[c] = NoPromise, GetAvailable(c)
  PROVE  Abstract!Idle(c) /\ Abstract!Get(c)
<1>0. NoPromise \notin Promises
  BY DistinctValues DEF DistinctValues
<1> DEFINE p == promises[Len(promises)]
<1>1. /\ promises # <<>> /\ taken' = [taken EXCEPT ![c] = p] /\ promises' = Front(promises)
      /\ UNCHANGED <<resolvers, settled>>
  BY DEF GetAvailable, Front
<1>2. resolvers = <<>> /\ resolvers' = <<>>
  BY <1>1 DEF LInv
<1>3. promises \in Seq(Promises) /\ taken \in [Consumers -> Promises \cup {NoPromise}]
  BY DEF LInv, TypesAgree
<1>4. /\ Len(promises') = Len(promises) - 1 /\ Len(promises) \in Nat \ {0}
      /\ \A i \in 1..Len(promises') : promises'[i] = promises[i]
      /\ p \in Promises
  BY <1>1, <1>3, FrontElems, EmptySeq, ElemsFacts
<1> HIDE DEF p
<1>5. \A d \in Consumers : taken'[d] = IF d = c THEN p ELSE taken[d]
  BY <1>1, <1>3
<1>6. Len(Stack) = Len(promises) /\ Stack # <<>> /\ Stack[Len(Stack)] = settled[p]
  <2>1. Len(Stack) = Len(promises) /\ Len(promises) \in 1..Len(promises) /\ Len(Stack) # 0
    BY <1>4 DEF Mapped
  <2> QED
    BY <2>1, EmptySeq DEF Mapped, p
<1>7. Got' = [Got EXCEPT ![c] = settled[p]]
  BY <1>0, <1>1, <1>3, <1>4, <1>5 DEF Got
<1>8. Stack' = Front(Stack)
  <2>1. /\ Front(Stack) \in Seq(Items) /\ Len(Front(Stack)) = Len(Stack) - 1
        /\ \A i \in 1..Len(Front(Stack)) : Front(Stack)[i] = Stack[i]
    BY <1>6, FrontElems DEF Mapped
  <2>2. Stack' \in Seq(Items) /\ Len(Stack') = Len(Front(Stack))
    BY <1>4, <2>1 DEF Mapped
  <2>3. ASSUME NEW i \in 1..Len(Stack') PROVE Stack'[i] = Front(Stack)[i]
    <3>1. i \in 1..Len(promises') /\ i \in 1..Len(promises) /\ i \in 1..Len(Front(Stack))
      BY <1>4, <2>2 DEF Mapped
    <3>2. Stack'[i] = settled[promises'[i]] /\ Stack[i] = settled[promises[i]]
      BY <1>1, <3>1 DEF Mapped
    <3> QED
      BY <1>4, <2>1, <3>1, <3>2
  <2> QED
    BY <2>1, <2>2, <2>3, SeqEqual
<1>9. Waiters' = Waiters
  <2>1. Waiters = <<>> /\ Waiters' = <<>>
    BY <1>2, EmptySeq DEF Mapped
  <2> QED
    BY <2>1
<1>10. Abstract!Idle(c)
  <2>1. taken[c] \notin Elems(resolvers)
    BY <1>2, EmptyElems
  <2>2. c \notin Abstract!ToSet(Waiters) /\ Got[c] = Nothing
    BY <2>1, InLine DEF Mapped
  <2> QED
    BY <2>2 DEF Abstract!Idle, Abstract!ToSet, Waiters, Got
<1>11. Abstract!Get(c) <=>
         IF Stack = <<>>
         THEN Waiters' = Append(Waiters, c) /\ Stack' = Stack /\ Got' = Got
         ELSE /\ Got' = [Got EXCEPT ![c] = Stack[Len(Stack)]]
              /\ Stack' = SubSeq(Stack, 1, Len(Stack) - 1)
              /\ Waiters' = Waiters
  BY DEF Abstract!Get, Stack, Waiters, Got
<1> QED
  BY <1>6, <1>7, <1>8, <1>9, <1>10, <1>11 DEF Front

(* cancelAllPending() is CancelAll of the item queue. *)
LEMMA CancelMaps ==
  ASSUME LInv, LInv', Mapped, Mapped', CancelAllPending
  PROVE  Abstract!CancelAll
<1>0. Nothing \notin Items /\ NoPromise \notin Promises
  BY DistinctValues DEF DistinctValues
<1>1. /\ settled' = Settle(Elems(rejecters), Cancelled) /\ resolvers' = <<>>
      /\ UNCHANGED <<promises, taken>> /\ rejecters = resolvers
  BY DEF CancelAllPending, LInv, TypesAgree
<1>2. /\ promises \in Seq(Promises) /\ resolvers \in Seq(Promises)
      /\ taken \in [Consumers -> Promises \cup {NoPromise}]
  BY DEF LInv, TypesAgree
<1>3. \A q \in Promises : settled'[q] = IF q \in Elems(resolvers) THEN Cancelled ELSE settled[q]
  <2>1. \A q \in Promises :
          settled'[q] = IF q \in Elems(resolvers) /\ settled[q] = Nothing THEN Cancelled ELSE settled[q]
    BY <1>1, SettleFacts
  <2> QED
    BY <2>1 DEF LInv, OwnersAgree
<1>4. Waiters' = <<>>
  BY <1>1, EmptySeq DEF Mapped
<1>5. Stack' = Stack
  <2>1. Stack \in Seq(Items) /\ Stack' \in Seq(Items) /\ Len(Stack) = Len(Stack')
    BY <1>1 DEF Mapped
  <2>2. ASSUME NEW i \in 1..Len(promises) PROVE Stack'[i] = Stack[i]
    <3>1. promises[i] \in Elems(promises) /\ promises[i] \in Promises
      BY <1>2, ElemsFacts
    <3>2. promises[i] \notin Elems(resolvers)
      BY <1>0, <3>1 DEF LInv, OwnersAgree
    <3> QED
      BY <1>1, <1>3, <3>1, <3>2 DEF Mapped
  <2> QED
    BY <2>1, <2>2, SeqEqual DEF Mapped
<1>6. Got' = [c \in Consumers |-> IF c \in Abstract!ToSet(Waiters) THEN Cancelled ELSE Got[c]]
  <2>1. ASSUME NEW c \in Consumers
        PROVE  Got'[c] = IF c \in Abstract!ToSet(Waiters) THEN Cancelled ELSE Got[c]
    <3>1. c \in Abstract!ToSet(Waiters) <=> taken[c] \in Elems(resolvers)
      BY InLine
    <3>2. NoPromise \notin Elems(resolvers)
      BY <1>0, <1>2, ElemsFacts
    <3>3. /\ Got'[c] = IF taken[c] = NoPromise THEN Nothing ELSE settled'[taken[c]]
          /\ Got[c] = IF taken[c] = NoPromise THEN Nothing ELSE settled[taken[c]]
      BY <1>1 DEF Mapped
    <3>4. taken[c] = NoPromise \/ taken[c] \in Promises
      BY <1>2
    <3> QED
      BY <1>3, <3>1, <3>2, <3>3, <3>4
  <2>2. Got' = [c \in Consumers |-> Got'[c]]
    BY DEF Got
  <2> QED
    BY <2>1, <2>2
<1>7. Abstract!CancelAll <=>
        /\ Got' = [c \in Consumers |-> IF c \in Abstract!ToSet(Waiters) THEN Cancelled ELSE Got[c]]
        /\ Waiters' = <<>>
        /\ Stack' = Stack
  BY DEF Abstract!CancelAll, Abstract!ToSet, Stack, Waiters, Got
<1> QED
  BY <1>4, <1>5, <1>6, <1>7

(* And to hear of a promise is to collect what was got. *)
LEMMA CollectMaps ==
  ASSUME LInv, LInv', Mapped, Mapped', NEW c \in Consumers, Collect(c)
  PROVE  Abstract!Collect(c)
<1> DEFINE p == taken[c]
<1>0. NoPromise \notin Promises
  BY DistinctValues DEF DistinctValues
<1>1. /\ p # NoPromise /\ settled[p] # Nothing
      /\ settled' = [settled EXCEPT ![p] = Nothing] /\ taken' = [taken EXCEPT ![c] = NoPromise]
      /\ UNCHANGED <<promises, resolvers>>
  BY DEF Collect
<1>2. /\ promises \in Seq(Promises) /\ resolvers \in Seq(Promises)
      /\ settled \in [Promises -> Outcomes] /\ taken \in [Consumers -> Promises \cup {NoPromise}]
      /\ \A d \in Consumers : d # c => taken[d] # p
  BY <1>1 DEF LInv, TypesAgree, OwnersAgree
<1>3. /\ \A d \in Consumers : taken'[d] = IF d = c THEN NoPromise ELSE taken[d]
      /\ \A q \in Promises : settled'[q] = IF q = p THEN Nothing ELSE settled[q]
      /\ p \in Promises
  BY <1>1, <1>2
<1>4. p \notin Elems(promises)
  BY DEF LInv, OwnersAgree
<1>5. Got[c] # Nothing
  BY <1>1 DEF Mapped
<1> HIDE DEF p
<1>6. Got' = [Got EXCEPT ![c] = Nothing]
  <2>1. ASSUME NEW d \in Consumers PROVE Got'[d] = IF d = c THEN Nothing ELSE Got[d]
    <3>1. /\ Got'[d] = IF taken'[d] = NoPromise THEN Nothing ELSE settled'[taken'[d]]
          /\ Got[d] = IF taken[d] = NoPromise THEN Nothing ELSE settled[taken[d]]
      BY DEF Mapped
    <3>2. taken[d] = NoPromise \/ taken[d] \in Promises
      BY <1>2
    <3> QED
      BY <1>2, <1>3, <3>1, <3>2
  <2>2. Got' = [d \in Consumers |-> Got'[d]]
    BY DEF Got
  <2>3. [Got EXCEPT ![c] = Nothing] = [d \in Consumers |-> IF d = c THEN Nothing ELSE Got[d]]
    BY DEF Mapped
  <2> QED
    BY <2>1, <2>2, <2>3
<1>7. Stack' = Stack
  <2>1. Stack \in Seq(Items) /\ Stack' \in Seq(Items) /\ Len(Stack) = Len(Stack')
    BY <1>1 DEF Mapped
  <2>2. ASSUME NEW i \in 1..Len(promises) PROVE Stack'[i] = Stack[i]
    <3>1. promises[i] \in Elems(promises) /\ promises[i] \in Promises
      BY <1>2, ElemsFacts
    <3>2. Stack'[i] = settled'[promises[i]] /\ Stack[i] = settled[promises[i]]
      BY <1>1 DEF Mapped
    <3>3. promises[i] # p
      BY <1>4, <3>1
    <3> QED
      BY <1>3, <3>1, <3>2, <3>3
  <2> QED
    BY <2>1, <2>2, SeqEqual DEF Mapped
<1>8. Waiters' = Waiters
  <2>1. /\ Waiters \in Seq(Consumers) /\ Waiters' \in Seq(Consumers)
        /\ Len(Waiters) = Len(Waiters') /\ Len(Waiters) = Len(resolvers)
    BY <1>1 DEF Mapped
  <2>2. ASSUME NEW i \in 1..Len(resolvers) PROVE Waiters'[i] = Waiters[i]
    <3>1. taken[Waiters[i]] = resolvers[i] /\ taken'[Waiters'[i]] = resolvers[i] /\ resolvers[i] \in Promises
      BY <1>1 DEF Mapped
    <3>2. Waiters[i] \in Consumers /\ Waiters'[i] \in Consumers
      BY <2>1, <2>2, ElementOfSeq
    <3>3. taken[Waiters'[i]] = resolvers[i] /\ resolvers[i] # NoPromise
      BY <1>0, <1>3, <3>1, <3>2
    <3> QED
      BY <3>1, <3>2, <3>3 DEF LInv, OwnersAgree
  <2> QED
    BY <2>1, <2>2, SeqEqual
<1>9. Abstract!Collect(c) <=> /\ Got[c] # Nothing
                              /\ Got' = [Got EXCEPT ![c] = Nothing]
                              /\ Stack' = Stack /\ Waiters' = Waiters
  BY DEF Abstract!Collect, Stack, Waiters, Got
<1> QED
  BY <1>5, <1>6, <1>7, <1>8, <1>9

(* The queue hands its items out last in, first out, to the consumer that  *)
(* has waited longest, and dismisses the whole line, as ItemQueue says.    *)
THEOREM LifoQueueIsItemQueue == Spec => ImplementsItemQueue
<1>1. Init => Abstract!QueueInit
  <2> SUFFICES ASSUME Init PROVE Abstract!QueueInit
    OBVIOUS
  <2>1. Mapped
    BY InitLifo, MappingFacts
  <2>2. Stack = <<>> /\ Waiters = <<>>
    BY <2>1, EmptySeq DEF Init, Mapped
  <2>3. Got = [c \in Consumers |-> Nothing]
    BY DEF Got, Init
  <2> QED
    BY <2>2, <2>3 DEF Abstract!QueueInit, Stack, Waiters, Got
<1>2. LInv /\ LInv' /\ Mapped /\ Mapped' /\ [Next]_vars => [Abstract!QueueNext]_(Abstract!queueVars)
  <2> SUFFICES ASSUME LInv, LInv', Mapped, Mapped', [Next]_vars
               PROVE  Abstract!QueueNext \/ UNCHANGED Abstract!queueVars
    OBVIOUS
  <2>1. CASE UNCHANGED vars
    <3>1. Stack' = Stack /\ Waiters' = Waiters /\ Got' = Got
      BY <2>1 DEF vars, Stack, Waiters, Got
    <3> QED
      BY <3>1 DEF Abstract!queueVars, Stack, Waiters, Got
  <2>2. CASE Next
    BY <2>2, PushIdleMaps, PushToWaiterMaps, GetWaitingMaps, GetAvailableMaps, CollectMaps, CancelMaps
       DEF Next, Abstract!QueueNext
  <2> QED
    BY <2>1, <2>2
<1>3. LInv => Mapped
  BY MappingFacts
<1> QED
  BY <1>1, <1>2, <1>3, AlwaysLInv, PTL DEF Spec, ImplementsItemQueue, Abstract!QueueSpec

==============================================================================
