-------------------------- MODULE ClientPoolProofs --------------------------
(***************************************************************************)
(* What ClientPool guarantees for any number of calls, holders, attempts   *)
(* and suggestions: first, that a holder is always in exactly one place,   *)
(* no holder is lost, and _inUse, which close() trusts, says who is        *)
(* working; then what calls that wait for a holder can rely on; then what  *)
(* close() does with the holders it waited for.                            *)
(***************************************************************************)
EXTENDS ClientPool, SequenceTheorems, TLAPS

Working ==
  {"held", "connecting", "hanging", "connected", "using", "sleeping", "releasing", "putback"}

(* Where a call stands determines which of its two hands has a holder. *)
PcAgrees ==
  \A p \in Borrowers :
    /\ got[p] # NoHolder => pc[p] = "getting"
    /\ holds[p] # NoHolder <=> pc[p] \in Working

(* A call stands in line once, and with empty hands. *)
WaitersAgree ==
  /\ \A i, j \in 1..Len(waiters) : waiters[i] = waiters[j] => i = j
  /\ \A i \in 1..Len(waiters) : pc[waiters[i]] = "getting" /\ got[waiters[i]] = NoHolder

(* Holders that do not exist yet are nowhere. *)
Created ==
  /\ \A i \in 1..Len(idle) : idle[i] <= holders
  /\ \A h \in Holder, p \in Borrowers : HandedTo(h, p) => h <= holders

(* Every holder is in exactly one place. *)
Placed == PcAgrees /\ WaitersAgree /\ Created /\ Exclusive /\ NoHolderLost

IInv == TypeOK /\ Placed /\ InUseTellsTheTruth

USE DEF Holder

----------------------------------------------------------------------------
(* The pool never has more holders than the bound on its sizes. *)
LEMMA ConcurrencyBound ==
  ASSUME PoolAssumption, NEW s \in 0..MaxHolders
  PROVE  Concurrency(s) \in 0..MaxHolders
BY DEF PoolAssumption, Concurrency

LEMMA InitInv == Init => IInv
<1> SUFFICES ASSUME Init PROVE IInv
  OBVIOUS
<1> USE PoolAssumption DEF PoolAssumption
<1>0. Concurrency(0) \in 0..MaxHolders
  BY ConcurrencyBound
<1>1. idle \in Seq(Holder) /\ Len(idle) = Concurrency(0) /\ \A i \in 1..Len(idle) : idle[i] = i
  BY <1>0 DEF Init
<1>2. TypeOK
  BY <1>0, <1>1 DEF Init, TypeOK, Callers, Borrowers
<1>3. PcAgrees /\ WaitersAgree /\ Created
  BY <1>0, <1>1 DEF Init, PcAgrees, WaitersAgree, Created, Working, HandedTo, Callers, Borrowers
<1>4. Exclusive /\ NoHolderLost
  BY <1>0, <1>1 DEF Init, Exclusive, NoHolderLost, HandedTo, Kept
<1>5. InUseTellsTheTruth
  BY DEF Init, InUseTellsTheTruth, Borrowers
<1> QED
  BY <1>2, <1>3, <1>4, <1>5 DEF IInv, Placed

----------------------------------------------------------------------------
(* A step that moves no holder: it leaves every call in a place of the same *)
(* kind.                                                                   *)
LEMMA QuietStep ==
  ASSUME IInv, TypeOK', UNCHANGED <<holders, queueVars, holds, inUse>>,
         \A p \in Borrowers : /\ pc[p] \in Working <=> pc'[p] \in Working
                              /\ pc[p] = "getting" => pc'[p] = "getting"
                              /\ p \in Ops => (pc[p] = "putback" <=> pc'[p] = "putback")
  PROVE  IInv'
<1> USE DEF IInv, Placed, queueVars
<1>1. PcAgrees' /\ WaitersAgree'
  BY DEF PcAgrees, WaitersAgree, TypeOK
<1>2. Created' /\ Exclusive' /\ NoHolderLost'
  BY DEF Created, Exclusive, NoHolderLost, HandedTo, Kept
<1>3. InUseTellsTheTruth'
  BY DEF InUseTellsTheTruth, Borrowers
<1> QED
  BY <1>1, <1>2, <1>3

(* Taking the last element off a sequence. *)
LEMMA PopFacts ==
  ASSUME NEW S, NEW s \in Seq(S), s # <<>>
  PROVE  /\ Len(s) \in Nat \ {0}
         /\ s[Len(s)] \in S
         /\ SubSeq(s, 1, Len(s) - 1) \in Seq(S)
         /\ Len(SubSeq(s, 1, Len(s) - 1)) = Len(s) - 1
         /\ \A i \in 1..(Len(s) - 1) : SubSeq(s, 1, Len(s) - 1)[i] = s[i]
<1>1. Len(s) \in Nat \ {0} /\ \A i \in 1..Len(s) : s[i] \in S
  BY EmptySeq, LenProperties, ElementOfSeq
<1>2. \A i \in 1..(Len(s) - 1) : s[i] \in S
  BY <1>1
<1> DEFINE n == Len(s) - 1
<1>3. n \in Int /\ \A i \in 1..n : s[i] \in S
  BY <1>1, <1>2
<1>4. Len(s) = n + 1 /\ n \in Nat
  BY <1>1
<1> HIDE DEF n
<1>5. /\ SubSeq(s, 1, n) \in Seq(S)
      /\ Len(SubSeq(s, 1, n)) = IF 1 <= n THEN n - 1 + 1 ELSE 0
      /\ \A i \in 1..(n - 1 + 1) : SubSeq(s, 1, n)[i] = s[1 + i - 1]
  BY <1>3, SubSeqProperties
<1>6. /\ SubSeq(s, 1, n) \in Seq(S)
      /\ Len(SubSeq(s, 1, n)) = n
      /\ \A i \in 1..n : SubSeq(s, 1, n)[i] = s[i]
  BY <1>4, <1>5
<1> QED
  BY <1>1, <1>6 DEF n

(* Dropping the first m elements of a sequence. *)
LEMMA DropFacts ==
  ASSUME NEW S, NEW s \in Seq(S), NEW m \in Nat, m <= Len(s)
  PROVE  /\ SubSeq(s, m + 1, Len(s)) \in Seq(S)
         /\ Len(SubSeq(s, m + 1, Len(s))) = Len(s) - m
         /\ \A k \in 1..(Len(s) - m) : SubSeq(s, m + 1, Len(s))[k] = s[m + k]
<1> DEFINE n == Len(s)
           a == m + 1
<1>1. n \in Nat /\ \A i \in a..n : i \in 1..n
  BY LenProperties
<1>2. \A i \in 1..n : s[i] \in S
  BY ElementOfSeq
<1>3. a \in Int /\ n \in Int /\ \A i \in a..n : s[i] \in S
  BY <1>1, <1>2
<1>4. n - a + 1 = n - m /\ (a <= n \/ n - m = 0) /\ \A k \in 1..(n - m) : a + k - 1 = m + k
  BY <1>1
<1> HIDE DEF n, a
<1>5. /\ SubSeq(s, a, n) \in Seq(S)
      /\ Len(SubSeq(s, a, n)) = IF a <= n THEN n - a + 1 ELSE 0
      /\ \A k \in 1..(n - a + 1) : SubSeq(s, a, n)[k] = s[a + k - 1]
  BY <1>3, SubSeqProperties
<1>6. /\ SubSeq(s, a, n) \in Seq(S)
      /\ Len(SubSeq(s, a, n)) = n - m
      /\ \A k \in 1..(n - m) : SubSeq(s, a, n)[k] = s[m + k]
  BY <1>4, <1>5
<1> QED
  BY <1>6 DEF n, a

QueueType == /\ idle \in Seq(Holder) /\ waiters \in Seq(Borrowers)
             /\ got \in [Borrowers -> Holder \cup {NoHolder, Cancelled}]

(* Every operation of the queue keeps its type. *)
LEMMA GetType ==
  ASSUME QueueType, NEW p \in Borrowers, Q!Get(p) PROVE QueueType'
<1>1. CASE idle = <<>>
  BY <1>1 DEF QueueType, Q!Get
<1>2. CASE idle # <<>>
  <2>1. idle[Len(idle)] \in Holder /\ SubSeq(idle, 1, Len(idle) - 1) \in Seq(Holder)
    BY <1>2, PopFacts DEF QueueType
  <2> QED
    BY <1>2, <2>1 DEF QueueType, Q!Get
<1> QED
  BY <1>1, <1>2

LEMMA PushType ==
  ASSUME QueueType, NEW h \in Holder, Q!Push(h) PROVE QueueType'
<1>1. CASE waiters = <<>>
  <2>1. idle' = Append(idle, h) /\ UNCHANGED <<waiters, got>> /\ idle \in Seq(Holder)
    BY <1>1 DEF QueueType, Q!Push
  <2>2. idle' \in Seq(Holder)
    BY <2>1, AppendProperties
  <2> QED
    BY <2>1, <2>2 DEF QueueType
<1>2. CASE waiters # <<>>
  <2>1. Head(waiters) \in Borrowers /\ Tail(waiters) \in Seq(Borrowers)
    BY <1>2, HeadTailProperties DEF QueueType
  <2> QED
    BY <1>2, <2>1 DEF QueueType, Q!Push
<1> QED
  BY <1>1, <1>2

LEMMA CollectType ==
  ASSUME QueueType, NEW p \in Borrowers, Q!Collect(p) PROVE QueueType'
BY DEF QueueType, Q!Collect

LEMMA CancelType ==
  ASSUME QueueType, Q!CancelAll PROVE QueueType'
BY DEF QueueType, Q!CancelAll

LEMMA PushAllType ==
  ASSUME QueueType, NEW new \in Seq(Holder), Q!PushAll(new) PROVE QueueType'
<1> DEFINE served == IF Len(new) < Len(waiters) THEN Len(new) ELSE Len(waiters)
<1>1. served \in Nat /\ served <= Len(new) /\ served <= Len(waiters)
  BY LenProperties DEF QueueType
<1>2. /\ idle' = idle \o SubSeq(new, served + 1, Len(new))
      /\ waiters' = SubSeq(waiters, served + 1, Len(waiters))
      /\ got' = [c \in Borrowers |->
                   IF \E i \in 1..served : waiters[i] = c
                   THEN new[CHOOSE i \in 1..served : waiters[i] = c]
                   ELSE got[c]]
  BY DEF Q!PushAll
<1> HIDE DEF served
<1>3. SubSeq(new, served + 1, Len(new)) \in Seq(Holder) /\ waiters' \in Seq(Borrowers)
  BY <1>1, <1>2, DropFacts DEF QueueType
<1>4. idle' \in Seq(Holder)
  <2> DEFINE rest == SubSeq(new, served + 1, Len(new))
  <2>1. idle \in Seq(Holder) /\ rest \in Seq(Holder) /\ idle' = idle \o rest
    BY <1>2, <1>3 DEF QueueType
  <2> HIDE DEF rest
  <2>2. idle \o rest \in Seq(Holder)
    BY <2>1, ConcatProperties
  <2> QED
    BY <2>1, <2>2
<1>5. \A i \in 1..served : new[i] \in Holder
  <2>1. \A i \in 1..served : i \in 1..Len(new)
    BY <1>1, LenProperties
  <2> QED
    BY <2>1, ElementOfSeq
<1>6. got' \in [Borrowers -> Holder \cup {NoHolder, Cancelled}]
  BY <1>2, <1>5 DEF QueueType
<1> QED
  BY <1>3, <1>4, <1>6 DEF QueueType

(* A call asks the queue: it takes the last holder or stands in line. *)
LEMMA GetStep ==
  ASSUME IInv, TypeOK', NEW p \in Borrowers, pc[p] = "idle",
         Q!Get(p), Goto(p, "getting"), UNCHANGED <<holders, holds, inUse>>
  PROVE  IInv'
<1>t. /\ idle \in Seq(Holder) /\ waiters \in Seq(Borrowers)
      /\ got \in [Borrowers -> Holder \cup {NoHolder, Cancelled}]
      /\ holds \in [Borrowers -> Holder \cup {NoHolder}]
      /\ NoHolder \notin Holder /\ Cancelled \notin Holder
      /\ holders \in Nat /\ 1..holders \subseteq Holder
  BY PoolAssumption DEF PoolAssumption, IInv, TypeOK
<1>p. pc' = [pc EXCEPT ![p] = "getting"] /\ p \in DOMAIN pc
  BY DEF Goto, Callers, IInv, TypeOK
<1>i. PcAgrees /\ WaitersAgree /\ Created /\ Exclusive /\ NoHolderLost /\ InUseTellsTheTruth
  BY DEF IInv, Placed
<1>1. got[p] = NoHolder /\ holds[p] = NoHolder /\ \A i \in 1..Len(waiters) : waiters[i] # p
  BY <1>i DEF PcAgrees, WaitersAgree, Working
<1>2. InUseTellsTheTruth'
  BY <1>p, <1>i DEF InUseTellsTheTruth, Borrowers
<1>3. CASE idle = <<>>
  <2>1. waiters' = Append(waiters, p) /\ UNCHANGED <<idle, got>>
    BY <1>3 DEF Q!Get
  <2>2. /\ Len(waiters) \in Nat /\ Len(waiters') = Len(waiters) + 1 /\ waiters'[Len(waiters) + 1] = p
        /\ \A i \in 1..Len(waiters) : waiters'[i] = waiters[i]
    BY <1>t, <2>1
  <2>3. PcAgrees'
    BY <1>p, <1>i, <1>1, <2>1 DEF PcAgrees, Working
  <2>4. WaitersAgree'
    BY <1>p, <1>i, <1>1, <2>1, <2>2 DEF WaitersAgree
  <2>5. Created' /\ Exclusive' /\ NoHolderLost'
    BY <1>i, <2>1 DEF Created, Exclusive, NoHolderLost, HandedTo, Kept
  <2> QED
    BY <1>2, <2>3, <2>4, <2>5 DEF IInv, Placed
<1>4. CASE idle # <<>>
  <2> DEFINE last == idle[Len(idle)]
  <2>1. /\ got' = [got EXCEPT ![p] = last]
        /\ idle' = SubSeq(idle, 1, Len(idle) - 1)
        /\ waiters' = waiters /\ UNCHANGED <<holds, holders>>
    BY <1>4 DEF Q!Get
  <2>2. /\ Len(idle) \in Nat \ {0} /\ last \in Holder
        /\ Len(idle') = Len(idle) - 1
        /\ \A i \in 1..Len(idle') : idle'[i] = idle[i]
    BY <1>t, <1>4, <2>1, PopFacts
  <2>3. \A h : Kept(h)' <=> Kept(h) /\ h # last
    BY <1>i, <2>2 DEF Kept, Exclusive
  <2>4. /\ \A h \in Holder, q \in Borrowers : HandedTo(h, q)' <=> HandedTo(h, q) \/ (q = p /\ h = last)
        /\ got'[p] = last
    BY <1>t, <1>1, <2>1 DEF HandedTo
  <2> HIDE DEF last
  <2>5. PcAgrees'
    BY <1>t, <1>p, <1>i, <1>1, <2>1 DEF PcAgrees, Working
  <2>6. WaitersAgree'
    BY <1>t, <1>p, <1>i, <1>1, <2>1 DEF WaitersAgree
  <2>7. last <= holders
    BY <1>i, <2>2 DEF Created, last
  <2>8. Created'
    BY <1>i, <2>1, <2>2, <2>4, <2>7 DEF Created
  <2>9. Kept(last) /\ \A q \in Borrowers : ~HandedTo(last, q)
    BY <1>i, <2>2 DEF Exclusive, Kept, last
  <2>10. \A i, j \in 1..Len(idle') : idle'[i] = idle'[j] => i = j
    BY <1>i, <2>2 DEF Exclusive
  <2>11. Exclusive'
    <3> SUFFICES ASSUME NEW h \in Holder, NEW q \in Borrowers, HandedTo(h, q)'
                 PROVE  ~Kept(h)' /\ \A r \in Borrowers : HandedTo(h, r)' => r = q
      BY <2>10 DEF Exclusive
    <3> QED
      BY <1>i, <2>3, <2>4, <2>9 DEF Exclusive
  <2>12. NoHolderLost'
    BY <1>t, <1>i, <2>1, <2>3, <2>4 DEF NoHolderLost
  <2> QED
    BY <1>2, <2>5, <2>6, <2>8, <2>11, <2>12 DEF IInv, Placed
<1> QED
  BY <1>3, <1>4

(* A call ends: its holder goes to the first call in line or to the queue. *)
LEMMA PushStep ==
  ASSUME IInv, TypeOK', NEW p \in Borrowers, pc[p] \in Working,
         Q!Push(holds[p]), holds' = [holds EXCEPT ![p] = NoHolder],
         Goto(p, "done"), UNCHANGED holders
  PROVE  Placed'
<1>t. /\ idle \in Seq(Holder) /\ waiters \in Seq(Borrowers)
      /\ got \in [Borrowers -> Holder \cup {NoHolder, Cancelled}]
      /\ holds \in [Borrowers -> Holder \cup {NoHolder}]
      /\ NoHolder \notin Holder /\ Cancelled \notin Holder
      /\ holders \in Nat /\ 1..holders \subseteq Holder
  BY PoolAssumption DEF PoolAssumption, IInv, TypeOK
<1>p. pc' = [pc EXCEPT ![p] = "done"] /\ p \in DOMAIN pc
  BY DEF Goto, Callers, IInv, TypeOK
<1>i. PcAgrees /\ WaitersAgree /\ Created /\ Exclusive /\ NoHolderLost
  BY DEF IInv, Placed
<1> DEFINE h == holds[p]
<1>1. /\ h \in Holder /\ got[p] = NoHolder /\ ~Kept(h) /\ h <= holders
      /\ \A i \in 1..Len(waiters) : waiters[i] # p
      /\ \A q \in Borrowers : HandedTo(h, q) <=> q = p
  BY <1>t, <1>i DEF PcAgrees, WaitersAgree, Created, Exclusive, HandedTo, Working
<1>2. Q!Push(h) /\ holds' = [holds EXCEPT ![p] = NoHolder]
  OBVIOUS
<1>h. \A g \in Holder : holds[p] = g <=> g = h
  OBVIOUS
<1> HIDE DEF h
<1>3. CASE waiters = <<>>
  <2>1. idle' = Append(idle, h) /\ UNCHANGED <<waiters, got>>
    BY <1>2, <1>3 DEF Q!Push
  <2>2. /\ Len(idle) \in Nat /\ Len(idle') = Len(idle) + 1 /\ idle'[Len(idle) + 1] = h
        /\ \A i \in 1..Len(idle) : idle'[i] = idle[i]
    BY <1>t, <1>1, <2>1
  <2>3. \A g : Kept(g)' <=> Kept(g) \/ g = h
    BY <2>2 DEF Kept
  <2>4. \A g \in Holder, q \in Borrowers : HandedTo(g, q)' <=> HandedTo(g, q) /\ q # p
    BY <1>t, <1>1, <1>2, <1>h, <2>1 DEF HandedTo
  <2>5. PcAgrees' /\ WaitersAgree'
    BY <1>t, <1>p, <1>i, <1>1, <1>2, <2>1 DEF PcAgrees, WaitersAgree, Working
  <2>6. Created'
    BY <1>i, <1>1, <2>2, <2>4 DEF Created
  <2>7. \A i, j \in 1..Len(idle') : idle'[i] = idle'[j] => i = j
    BY <1>i, <1>1, <2>2 DEF Exclusive, Kept
  <2>8. Exclusive'
    BY <1>i, <1>1, <2>3, <2>4, <2>7 DEF Exclusive
  <2>9. NoHolderLost'
    <3> SUFFICES ASSUME NEW g \in 1..holders, g # h, ~Kept(g)
                 PROVE  \E q \in Borrowers : HandedTo(g, q)'
      BY <2>3 DEF NoHolderLost
    <3>1. PICK q \in Borrowers : HandedTo(g, q)
      BY <1>i DEF NoHolderLost
    <3>2. g \in Holder /\ q # p
      BY <1>t, <1>1, <3>1 DEF HandedTo
    <3> QED
      BY <2>4, <3>1, <3>2
  <2> QED
    BY <2>5, <2>6, <2>8, <2>9 DEF Placed
<1>4. CASE waiters # <<>>
  <2> DEFINE w == Head(waiters)
  <2>1. got' = [got EXCEPT ![w] = h] /\ waiters' = Tail(waiters) /\ UNCHANGED idle
    BY <1>2, <1>4 DEF Q!Push
  <2>2. /\ Len(waiters) \in Nat \ {0} /\ w = waiters[1] /\ w \in Borrowers
        /\ Len(waiters') = Len(waiters) - 1
        /\ \A i \in 1..Len(waiters') : waiters'[i] = waiters[i + 1]
    BY <1>t, <1>4, <2>1
  <2> HIDE DEF w
  <2>3. w # p /\ got[w] = NoHolder /\ pc[w] = "getting" /\ holds[w] = NoHolder
    <3>1. w # p /\ got[w] = NoHolder /\ pc[w] = "getting"
      BY <1>i, <1>1, <2>2 DEF WaitersAgree
    <3>2. "getting" \notin Working
      BY DEF Working
    <3> QED
      BY <1>i, <2>2, <3>1, <3>2 DEF PcAgrees
  <2>4. \A g \in Holder, q \in Borrowers :
          HandedTo(g, q)' <=> (HandedTo(g, q) /\ q # p) \/ (g = h /\ q = w)
    BY <1>t, <1>1, <1>2, <1>h, <2>1, <2>2, <2>3 DEF HandedTo
  <2>5. PcAgrees'
    <3>1. "getting" \notin Working /\ "done" \notin Working
      BY DEF Working
    <3> QED
      BY <1>t, <1>p, <1>i, <1>1, <1>2, <2>1, <2>2, <2>3, <3>1 DEF PcAgrees
  <2>6. \A i \in 1..Len(waiters') : waiters'[i] # w
    BY <1>i, <2>2 DEF WaitersAgree
  <2>7. WaitersAgree'
    BY <1>t, <1>p, <1>i, <1>1, <2>1, <2>2, <2>6 DEF WaitersAgree
  <2>8. Created'
    BY <1>i, <1>1, <2>1, <2>4 DEF Created
  <2>9. \A g : Kept(g)' <=> Kept(g)
    BY <2>1 DEF Kept
  <2>10. Exclusive'
    BY <1>i, <1>1, <2>1, <2>4, <2>9 DEF Exclusive
  <2>11. NoHolderLost'
    <3> SUFFICES ASSUME NEW g \in 1..holders, ~Kept(g)
                 PROVE  \E q \in Borrowers : HandedTo(g, q)'
      BY <2>9 DEF NoHolderLost
    <3>1. PICK q \in Borrowers : HandedTo(g, q)
      BY <1>i DEF NoHolderLost
    <3>2. g \in Holder /\ (q = p => g = h)
      BY <1>t, <1>1, <3>1 DEF HandedTo
    <3> QED
      BY <2>2, <2>4, <3>1, <3>2
  <2> QED
    BY <2>5, <2>7, <2>8, <2>10, <2>11 DEF Placed
<1> QED
  BY <1>3, <1>4

(* A call takes the holder it was handed into its working hand. *)
LEMMA TakeStep ==
  ASSUME IInv, TypeOK', NEW p \in Borrowers, pc[p] = "getting", got[p] \in Holder,
         Q!Collect(p), holds' = [holds EXCEPT ![p] = got[p]],
         NEW where \in Working, Goto(p, where), UNCHANGED holders
  PROVE  Placed'
<1>t. /\ got \in [Borrowers -> Holder \cup {NoHolder, Cancelled}]
      /\ holds \in [Borrowers -> Holder \cup {NoHolder}]
      /\ NoHolder \notin Holder /\ Cancelled \notin Holder
      /\ holders \in Nat /\ 1..holders \subseteq Holder
  BY PoolAssumption DEF PoolAssumption, IInv, TypeOK
<1>p. pc' = [pc EXCEPT ![p] = where] /\ p \in DOMAIN pc
  BY DEF Goto, Callers, IInv, TypeOK
<1>i. PcAgrees /\ WaitersAgree /\ Created /\ Exclusive /\ NoHolderLost
  BY DEF IInv, Placed
<1>1. got' = [got EXCEPT ![p] = NoHolder] /\ UNCHANGED <<idle, waiters>>
  BY DEF Q!Collect
<1>2. holds[p] = NoHolder /\ \A i \in 1..Len(waiters) : waiters[i] # p
  BY <1>t, <1>i DEF PcAgrees, WaitersAgree, Working
<1>3. \A h \in Holder, q \in Borrowers : HandedTo(h, q)' <=> HandedTo(h, q)
  BY <1>t, <1>1, <1>2 DEF HandedTo
<1>4. PcAgrees'
  BY <1>t, <1>p, <1>i, <1>1, <1>2 DEF PcAgrees, Working
<1>5. WaitersAgree'
  BY <1>t, <1>p, <1>i, <1>1, <1>2 DEF WaitersAgree
<1>6. Created'
  BY <1>i, <1>1, <1>3 DEF Created
<1>7. Exclusive'
  BY <1>i, <1>1, <1>3 DEF Exclusive, Kept
<1>8. NoHolderLost'
  BY <1>t, <1>i, <1>1, <1>3 DEF NoHolderLost, Kept
<1> QED
  BY <1>4, <1>5, <1>6, <1>7, <1>8 DEF Placed

(* close() or terminate() dismisses everyone in line. *)
LEMMA CancelStep ==
  ASSUME IInv, TypeOK', Q!CancelAll, UNCHANGED <<holders, holds>>,
         \A p \in Borrowers : pc'[p] = pc[p]
  PROVE  Placed'
<1>t. /\ got \in [Borrowers -> Holder \cup {NoHolder, Cancelled}]
      /\ waiters \in Seq(Borrowers)
      /\ NoHolder \notin Holder /\ Cancelled \notin Holder
  BY PoolAssumption DEF PoolAssumption, IInv, TypeOK
<1>i. PcAgrees /\ WaitersAgree /\ Created /\ Exclusive /\ NoHolderLost
  BY DEF IInv, Placed
<1>1. /\ got' = [c \in Borrowers |-> IF c \in Q!ToSet(waiters) THEN Cancelled ELSE got[c]]
      /\ waiters' = <<>> /\ UNCHANGED idle
  BY DEF Q!CancelAll
<1>2. \A c \in Q!ToSet(waiters) : pc[c] = "getting" /\ got[c] = NoHolder
  BY <1>t, <1>i DEF WaitersAgree, Q!ToSet
<1>3. \A h \in Holder, q \in Borrowers : HandedTo(h, q)' <=> HandedTo(h, q)
  BY <1>t, <1>1, <1>2 DEF HandedTo
<1>4. PcAgrees'
  BY <1>t, <1>i, <1>1, <1>2 DEF PcAgrees
<1>5. WaitersAgree'
  BY <1>1 DEF WaitersAgree
<1>6. Created'
  BY <1>i, <1>1, <1>3 DEF Created
<1>7. Exclusive'
  BY <1>i, <1>1, <1>3 DEF Exclusive, Kept
<1>8. NoHolderLost'
  <2>1. 1..holders \subseteq Holder
    BY PoolAssumption DEF IInv, TypeOK, PoolAssumption
  <2> QED
    BY <1>i, <1>1, <1>3, <2>1 DEF NoHolderLost, Kept
<1> QED
  BY <1>4, <1>5, <1>6, <1>7, <1>8 DEF Placed

(* The resize after a connection: the new holders go to the calls in line, *)
(* the rest of them to the queue.                                          *)
LEMMA ResizeStep ==
  ASSUME IInv, TypeOK', NEW n \in Nat, holders' = holders + n,
         Q!PushAll([i \in 1..n |-> holders + i]), UNCHANGED holds,
         \A p \in Borrowers : /\ pc[p] \in Working <=> pc'[p] \in Working
                              /\ pc[p] = "getting" => pc'[p] = "getting"
  PROVE  Placed'
<1>t. /\ idle \in Seq(Holder) /\ waiters \in Seq(Borrowers)
      /\ got \in [Borrowers -> Holder \cup {NoHolder, Cancelled}]
      /\ got' \in [Borrowers -> Holder \cup {NoHolder, Cancelled}]
      /\ holds \in [Borrowers -> Holder \cup {NoHolder}]
      /\ NoHolder \notin Holder /\ Cancelled \notin Holder
      /\ holders \in Nat /\ 1..holders \subseteq Holder /\ 1..(holders + n) \subseteq Holder
      /\ Len(idle) \in Nat /\ Len(waiters) \in Nat
  BY PoolAssumption DEF PoolAssumption, IInv, TypeOK
<1>i. PcAgrees /\ WaitersAgree /\ Created /\ Exclusive /\ NoHolderLost
  BY DEF IInv, Placed
<1> DEFINE new == [i \in 1..n |-> holders + i]
           served == IF Len(new) < Len(waiters) THEN Len(new) ELSE Len(waiters)
           rest == SubSeq(new, served + 1, Len(new))
           line == SubSeq(waiters, served + 1, Len(waiters))
<1>1. Len(new) = n /\ \A i \in 1..n : new[i] = holders + i
  OBVIOUS
<1>2. /\ served \in Nat /\ served <= n /\ served <= Len(waiters)
      /\ n - served \in Nat /\ Len(waiters) - served \in Nat
  BY <1>t, <1>1
<1>3. /\ idle' = idle \o rest
      /\ waiters' = line
      /\ got' = [c \in Borrowers |->
                   IF \E i \in 1..served : waiters[i] = c
                   THEN new[CHOOSE i \in 1..served : waiters[i] = c]
                   ELSE got[c]]
  BY DEF Q!PushAll
<1> HIDE DEF new, served
<1>n. new \in Seq(Holder)
  <2>1. \A i \in 1..n : holders + i \in Holder
    BY <1>t
  <2> QED
    BY <2>1 DEF new
<1>4. /\ rest \in Seq(Holder) /\ Len(rest) = n - served
      /\ \A k \in 1..(n - served) : rest[k] = holders + served + k
  <2>1. /\ rest \in Seq(Holder) /\ Len(rest) = n - served
        /\ \A k \in 1..(n - served) : rest[k] = new[served + k]
    BY <1>1, <1>2, <1>n, DropFacts
  <2>2. \A k \in 1..(n - served) : /\ served + k \in 1..n
                                  /\ holders + (served + k) = holders + served + k
    BY <1>t, <1>2
  <2> QED
    BY <1>1, <2>1, <2>2
<1>5. /\ Len(line) = Len(waiters) - served
      /\ \A k \in 1..(Len(waiters) - served) : line[k] = waiters[served + k]
  BY <1>t, <1>2, DropFacts
<1>e. \A i \in 1..Len(idle) : idle[i] \in Holder
  BY <1>t, ElementOfSeq
<1> HIDE DEF rest, line
<1>6. /\ Len(idle') = Len(idle) + (n - served)
      /\ \A i \in 1..Len(idle) : idle'[i] = idle[i]
      /\ \A k \in 1..(n - served) : idle'[Len(idle) + k] = holders + served + k
  <2>1. /\ Len(idle') = Len(idle) + Len(rest)
        /\ \A i \in 1..(Len(idle) + Len(rest)) :
             idle'[i] = IF i <= Len(idle) THEN idle[i] ELSE rest[i - Len(idle)]
    <3>1. idle \in Seq(Holder) /\ rest \in Seq(Holder) /\ idle' = idle \o rest
      BY <1>t, <1>3, <1>4
    <3> QED
      BY <3>1, ConcatProperties
  <2>2. \A i \in 1..Len(idle) : i \in 1..(Len(idle) + Len(rest)) /\ i <= Len(idle)
    BY <1>t, <1>2, <1>4
  <2>3. \A k \in 1..(n - served) : /\ Len(idle) + k \in 1..(Len(idle) + Len(rest))
                                  /\ ~(Len(idle) + k <= Len(idle))
                                  /\ Len(idle) + k - Len(idle) = k
    BY <1>t, <1>2, <1>4
  <2> QED
    BY <1>4, <2>1, <2>2, <2>3
<1>l. Len(waiters) \in Nat
  BY <1>t
<1>w. \A i \in 1..served : i \in 1..Len(waiters) /\ i \in 1..n
  BY <1>l, <1>2
<1>v. \A i \in 1..Len(waiters) : waiters[i] \in Borrowers
  <2>1. waiters \in Seq(Borrowers)
    BY <1>t
  <2> QED
    BY <2>1, ElementOfSeq
<1>7. \A i \in 1..served : got'[waiters[i]] = holders + i
  <2> SUFFICES ASSUME NEW i \in 1..served PROVE got'[waiters[i]] = holders + i
    OBVIOUS
  <2>1. waiters[i] \in Borrowers /\ i \in 1..Len(waiters) /\ i \in 1..n
    BY <1>w, <1>v
  <2>2. \A j \in 1..served : waiters[j] = waiters[i] => j = i
    BY <1>i, <1>2, <2>1 DEF WaitersAgree
  <2>3. (CHOOSE j \in 1..served : waiters[j] = waiters[i]) = i
    BY <2>2
  <2> QED
    BY <1>1, <1>3, <2>1, <2>3
<1>8. \A c \in Borrowers : (\A i \in 1..served : waiters[i] # c) => got'[c] = got[c]
  BY <1>3
<1>9. \A i \in 1..served : got[waiters[i]] = NoHolder /\ pc[waiters[i]] = "getting"
                           /\ waiters[i] \in Borrowers /\ holds[waiters[i]] = NoHolder
  <2>1. \A i \in 1..served : waiters[i] \in Borrowers /\ i \in 1..Len(waiters)
    BY <1>w, <1>v
  <2> QED
    BY <1>i, <2>1 DEF WaitersAgree, PcAgrees, Working
(* Where the holders are after the step: the new ones with the calls that  *)
(* were served and in the queue, the others where they were.               *)
<1>10. \A h : Kept(h)' <=> Kept(h) \/ \E k \in 1..(n - served) : h = holders + served + k
  <2>1. \A i \in 1..(Len(idle) + (n - served)) :
          i \in 1..Len(idle) \/ \E k \in 1..(n - served) : i = Len(idle) + k
    <3> SUFFICES ASSUME NEW i \in 1..(Len(idle) + (n - served)), i \notin 1..Len(idle)
                 PROVE  \E k \in 1..(n - served) : i = Len(idle) + k
      OBVIOUS
    <3>1. i - Len(idle) \in 1..(n - served) /\ i = Len(idle) + (i - Len(idle))
      BY <1>t, <1>2
    <3> QED
      BY <3>1
  <2>2. \A k \in 1..(n - served) : Len(idle) + k \in 1..(Len(idle) + (n - served))
    BY <1>t, <1>2
  <2>3. \A i \in 1..Len(idle) : i \in 1..(Len(idle) + (n - served))
    BY <1>t, <1>2
  <2>4. ASSUME NEW h, Kept(h)'
        PROVE  Kept(h) \/ \E k \in 1..(n - served) : h = holders + served + k
    <3>1. PICK i \in 1..(Len(idle) + (n - served)) : idle'[i] = h
      BY <1>6, <2>4 DEF Kept
    <3>2. CASE i \in 1..Len(idle)
      BY <1>6, <3>1, <3>2 DEF Kept
    <3>3. CASE \E k \in 1..(n - served) : i = Len(idle) + k
      BY <1>6, <3>1, <3>3
    <3> QED
      BY <2>1, <3>2, <3>3
  <2>5. ASSUME NEW h, Kept(h) \/ \E k \in 1..(n - served) : h = holders + served + k
        PROVE  Kept(h)'
    BY <1>6, <2>2, <2>3, <2>5 DEF Kept
  <2> QED
    BY <2>4, <2>5
<1>11. \A h \in Holder, q \in Borrowers :
         HandedTo(h, q)' <=> HandedTo(h, q) \/ \E i \in 1..served : waiters[i] = q /\ h = holders + i
  <2> SUFFICES ASSUME NEW h \in Holder, NEW q \in Borrowers
               PROVE  HandedTo(h, q)' <=>
                        HandedTo(h, q) \/ \E i \in 1..served : waiters[i] = q /\ h = holders + i
    OBVIOUS
  <2>1. CASE \E i \in 1..served : waiters[i] = q
    BY <1>t, <1>i, <1>7, <1>9, <2>1 DEF HandedTo
  <2>2. CASE \A i \in 1..served : waiters[i] # q
    BY <1>8, <2>2 DEF HandedTo
  <2> QED
    BY <2>1, <2>2
<1>12. PcAgrees'
  <2> SUFFICES ASSUME NEW q \in Borrowers
               PROVE  /\ got'[q] # NoHolder => pc'[q] = "getting"
                      /\ holds'[q] # NoHolder <=> pc'[q] \in Working
    BY DEF PcAgrees
  <2>1. CASE \E i \in 1..served : waiters[i] = q
    BY <1>i, <1>9, <2>1 DEF PcAgrees
  <2>2. CASE \A i \in 1..served : waiters[i] # q
    BY <1>i, <1>8, <2>2 DEF PcAgrees
  <2> QED
    BY <2>1, <2>2
<1>13. WaitersAgree'
  <2>1. \A i \in 1..Len(waiters') :
          /\ waiters'[i] = waiters[served + i]
          /\ served + i \in 1..Len(waiters)
          /\ waiters[served + i] \in Borrowers
    BY <1>t, <1>2, <1>3, <1>5
  <2>2. \A i \in 1..Len(waiters'), j \in 1..served : waiters[served + i] # waiters[j]
    <3> SUFFICES ASSUME NEW i \in 1..Len(waiters'), NEW j \in 1..served,
                        waiters[served + i] = waiters[j]
                 PROVE  FALSE
      OBVIOUS
    <3>1. j \in 1..Len(waiters) /\ j # served + i /\ served + i \in 1..Len(waiters)
      BY <1>t, <1>2, <1>3, <1>5
    <3> QED
      BY <1>i, <3>1 DEF WaitersAgree
  <2>3. \A i \in 1..Len(waiters') : got'[waiters'[i]] = NoHolder /\ pc'[waiters'[i]] = "getting"
    <3> SUFFICES ASSUME NEW i \in 1..Len(waiters')
                 PROVE  got'[waiters'[i]] = NoHolder /\ pc'[waiters'[i]] = "getting"
      OBVIOUS
    <3> DEFINE w == waiters[served + i]
    <3>1. waiters'[i] = w /\ w \in Borrowers /\ pc[w] = "getting" /\ got[w] = NoHolder
      BY <1>i, <2>1 DEF WaitersAgree
    <3>2. \A j \in 1..served : waiters[j] # w
      BY <2>2
    <3> HIDE DEF w
    <3> QED
      BY <1>8, <3>1, <3>2
  <2>4. \A i, j \in 1..Len(waiters') : waiters'[i] = waiters'[j] => i = j
    <3> SUFFICES ASSUME NEW i \in 1..Len(waiters'), NEW j \in 1..Len(waiters'),
                        waiters'[i] = waiters'[j]
                 PROVE  i = j
      OBVIOUS
    <3>1. served + i = served + j
      BY <1>i, <2>1 DEF WaitersAgree
    <3>2. i \in Nat /\ j \in Nat
      BY <1>2, <1>3, <1>5
    <3> QED
      BY <1>2, <3>1, <3>2
  <2> QED
    BY <2>3, <2>4 DEF WaitersAgree
<1>14. \A h \in Holder : h > holders =>
         ~Kept(h) /\ \A q \in Borrowers : ~HandedTo(h, q)
  BY <1>t, <1>i DEF Created, Kept
<1>15. Created'
  <2>1. \A i \in 1..Len(idle') : idle'[i] <= holders + n
    <3> SUFFICES ASSUME NEW i \in 1..Len(idle'), NEW h, h = idle'[i] PROVE h <= holders + n
      OBVIOUS
    <3>1. Kept(h)'
      BY DEF Kept
    <3>2. CASE Kept(h)
      <4>1. h \in Holder /\ h <= holders
        BY <1>i, <1>e, <3>2 DEF Created, Kept
      <4> QED
        BY <1>t, <4>1
    <3>3. CASE \E k \in 1..(n - served) : h = holders + served + k
      BY <1>t, <1>2, <3>3
    <3> QED
      BY <1>10, <3>1, <3>2, <3>3
  <2>2. \A h \in Holder, q \in Borrowers : HandedTo(h, q)' => h <= holders + n
    <3> SUFFICES ASSUME NEW h \in Holder, NEW q \in Borrowers, HandedTo(h, q)'
                 PROVE  h <= holders + n
      OBVIOUS
    <3>1. CASE HandedTo(h, q)
      <4>1. h <= holders
        BY <1>i, <3>1 DEF Created
      <4> QED
        BY <1>t, <4>1
    <3>2. CASE \E i \in 1..served : waiters[i] = q /\ h = holders + i
      BY <1>t, <1>2, <3>2
    <3> QED
      BY <1>11, <3>1, <3>2
  <2> QED
    BY <2>1, <2>2 DEF Created
<1>16. Exclusive'
  <2>1. \A i, j \in 1..Len(idle') : idle'[i] = idle'[j] => i = j
    <3>1. \A i \in 1..Len(idle') :
            \/ i \in 1..Len(idle) /\ idle'[i] = idle[i] /\ idle'[i] \in Nat /\ idle'[i] <= holders
            \/ i - Len(idle) \in 1..(n - served) /\ idle'[i] = holders + served + (i - Len(idle))
      <4> SUFFICES ASSUME NEW i \in 1..Len(idle')
                   PROVE  \/ /\ i \in 1..Len(idle) /\ idle'[i] = idle[i]
                             /\ idle'[i] \in Nat /\ idle'[i] <= holders
                          \/ /\ i - Len(idle) \in 1..(n - served)
                             /\ idle'[i] = holders + served + (i - Len(idle))
        OBVIOUS
      <4>1. CASE i \in 1..Len(idle)
        <5>1. idle[i] \in Holder /\ idle[i] <= holders
          BY <1>e, <1>i, <4>1 DEF Created
        <5> QED
          BY <1>6, <4>1, <5>1
      <4>2. CASE i \notin 1..Len(idle)
        <5>1. i - Len(idle) \in 1..(n - served) /\ i = Len(idle) + (i - Len(idle))
          BY <1>t, <1>2, <1>6, <4>2
        <5> QED
          BY <1>6, <5>1
      <4> QED
        BY <4>1, <4>2
    <3> SUFFICES ASSUME NEW i \in 1..Len(idle'), NEW j \in 1..Len(idle'), idle'[i] = idle'[j]
                 PROVE  i = j
      OBVIOUS
    <3>2. CASE i \in 1..Len(idle) /\ j \in 1..Len(idle)
      BY <1>i, <1>6, <3>2 DEF Exclusive
    <3>3. CASE ~(i \in 1..Len(idle) /\ j \in 1..Len(idle))
      <4>1. i \in Int /\ j \in Int /\ Len(idle) \in Int /\ served \in Nat /\ holders \in Nat
        BY <1>t, <1>2, <1>6
      <4> QED
        BY <3>1, <3>3, <4>1
    <3> QED
      BY <3>2, <3>3
  <2>2. ASSUME NEW h \in Holder, NEW q \in Borrowers, HandedTo(h, q)'
        PROVE  ~Kept(h)' /\ \A r \in Borrowers : HandedTo(h, r)' => r = q
    <3>1. CASE HandedTo(h, q)
      <4>1. h \in Nat /\ h <= holders
        BY <1>t, <1>i, <3>1 DEF Created
      <4>2. /\ \A i \in 1..served : h # holders + i
            /\ \A k \in 1..(n - served) : h # holders + served + k
        BY <1>t, <1>2, <4>1
      <4> QED
        BY <1>i, <1>10, <1>11, <3>1, <4>2 DEF Exclusive
    <3>2. CASE \E i \in 1..served : waiters[i] = q /\ h = holders + i
      <4>1. PICK i \in 1..served : waiters[i] = q /\ h = holders + i
        BY <3>2
      <4>2. /\ h > holders
            /\ \A j \in 1..served : h = holders + j => j = i
            /\ \A k \in 1..(n - served) : h # holders + served + k
        BY <1>t, <1>2, <4>1
      <4>3. ~Kept(h) /\ \A r \in Borrowers : ~HandedTo(h, r)
        BY <1>14, <4>2
      <4> QED
        BY <1>10, <1>11, <4>1, <4>2, <4>3
    <3> QED
      BY <1>11, <2>2, <3>1, <3>2
  <2> QED
    BY <2>1, <2>2 DEF Exclusive
<1>17. NoHolderLost'
  <2> SUFFICES ASSUME NEW h \in 1..(holders + n)
               PROVE  Kept(h)' \/ \E q \in Borrowers : HandedTo(h, q)'
    BY DEF NoHolderLost
  <2>0. h \in Holder
    BY <1>t
  <2>1. CASE h <= holders
    <3>1. h \in 1..holders
      BY <1>t, <2>1
    <3> QED
      BY <1>i, <1>10, <1>11, <2>0, <3>1 DEF NoHolderLost
  <2>2. CASE h > holders /\ h <= holders + served
    <3>1. h - holders \in 1..served /\ h = holders + (h - holders)
      BY <1>t, <1>2, <2>2
    <3>2. waiters[h - holders] \in Borrowers
      BY <1>9, <3>1
    <3> QED
      BY <1>11, <2>0, <3>1, <3>2
  <2>3. CASE h > holders + served
    <3>1. h - holders - served \in 1..(n - served) /\ h = holders + served + (h - holders - served)
      BY <1>t, <1>2, <2>3
    <3> QED
      BY <1>10, <3>1
  <2> QED
    BY <1>t, <1>2, <2>1, <2>2, <2>3
<1> QED
  BY <1>12, <1>13, <1>15, <1>16, <1>17 DEF Placed

----------------------------------------------------------------------------
(* What the pool resizes to stays within the bound. *)
LEMMA ResizeBound ==
  ASSUME TypeOK, NEW s \in Suggestions, NEW changed \in BOOLEAN
  PROVE  LET size == IF changed THEN Bigger(holders, Concurrency(s)) ELSE holders
         IN  /\ size \in 0..MaxHolders /\ size - holders \in Nat
             /\ [i \in 1..(size - holders) |-> holders + i] \in Seq(Holder)
<1> DEFINE size == IF changed THEN Bigger(holders, Concurrency(s)) ELSE holders
<1>1. Concurrency(s) \in 0..MaxHolders
  BY PoolAssumption, ConcurrencyBound DEF PoolAssumption
<1>2. size \in 0..MaxHolders /\ size - holders \in Nat
  BY <1>1, PoolAssumption DEF PoolAssumption, TypeOK, Bigger
<1> HIDE DEF size
<1>3. \A i \in 1..(size - holders) : holders + i \in Holder
  <2>1. holders \in Nat /\ size \in Nat /\ MaxHolders \in Nat /\ size <= MaxHolders
    BY <1>2, PoolAssumption DEF PoolAssumption, TypeOK
  <2> QED
    BY <2>1
<1>4. [i \in 1..(size - holders) |-> holders + i] \in Seq(Holder)
  <2> DEFINE n == size - holders
  <2>1. n \in Nat /\ \A i \in 1..n : holders + i \in Holder
    BY <1>2, <1>3
  <2> HIDE DEF n
  <2>2. [i \in 1..n |-> holders + i] \in Seq(Holder)
    BY <2>1
  <2> QED
    BY <2>2 DEF n
<1> QED
  BY <1>2, <1>4 DEF size

(* Every step keeps the types. *)
LEMMA TypeStep == IInv /\ [Next]_vars => TypeOK'
<1> SUFFICES ASSUME IInv, [Next]_vars PROVE TypeOK'
  OBVIOUS
<1> USE DEF Goto
<1>0. TypeOK /\ QueueType /\ PcAgrees
  BY DEF IInv, Placed, TypeOK, QueueType
<1>h. \A p \in Borrowers : pc[p] \in Working => holds[p] \in Holder
  BY <1>0 DEF PcAgrees, TypeOK
<1>1. ASSUME NEW p \in Ops, AcquireHolder(p) PROVE TypeOK'
  <2>1. QueueType'
    BY <1>0, <1>1, GetType DEF AcquireHolder, Borrowers, queueVars, QueueType
  <2> QED
    BY <1>0, <1>1, <2>1 DEF AcquireHolder, TypeOK, QueueType
<1>2. ASSUME NEW p \in Ensurers, EnsureConnected(p) PROVE TypeOK'
  <2>1. QueueType'
    BY <1>0, <1>2, GetType DEF EnsureConnected, Borrowers, queueVars, QueueType
  <2> QED
    BY <1>0, <1>2, <2>1 DEF EnsureConnected, TypeOK, QueueType
<1>3. ASSUME NEW p \in Borrowers, Acquire(p) PROVE TypeOK'
  <2>1. QueueType'
    BY <1>0, <1>3, CollectType DEF Acquire
  <2> QED
    BY <1>0, <1>3, <2>1 DEF Acquire, TypeOK, QueueType
<1>4. ASSUME NEW p \in Borrowers, Dismissed(p) PROVE TypeOK'
  <2>1. QueueType'
    BY <1>0, <1>4, CollectType DEF Dismissed
  <2> QED
    BY <1>0, <1>4, <2>1 DEF Dismissed, TypeOK, QueueType
<1>5. ASSUME NEW p \in Borrowers, EnsureTakes(p) PROVE TypeOK'
  <2>1. QueueType'
    BY <1>0, <1>5, CollectType DEF EnsureTakes
  <2> QED
    BY <1>0, <1>5, <2>1 DEF EnsureTakes, TypeOK, QueueType
<1>6. ASSUME NEW p \in Borrowers, GetConnection(p) \/ NoConnection(p) \/ HandshakeHangs(p)
      PROVE  TypeOK'
  BY <1>0, <1>6 DEF GetConnection, NoConnection, HandshakeHangs, TypeOK, queueVars, GiveUp, Proceed
<1>7. ASSUME NEW p \in Borrowers, NewConnection(p) PROVE TypeOK'
  <2>1. PICK s \in Suggestions :
          LET changed == s # 0 /\ s # suggested
              size == IF changed THEN Bigger(holders, Concurrency(s)) ELSE holders
          IN /\ suggested' = IF changed THEN s ELSE suggested
             /\ holders' = size
             /\ Q!PushAll([i \in 1..(size - holders) |-> holders + i])
    BY <1>7 DEF NewConnection
  <2> DEFINE changed == s # 0 /\ s # suggested
             size == IF changed THEN Bigger(holders, Concurrency(s)) ELSE holders
             new == [i \in 1..(size - holders) |-> holders + i]
  <2>2. size \in 0..MaxHolders /\ new \in Seq(Holder)
    BY <1>0, ResizeBound
  <2>3. QueueType'
    <3> HIDE DEF new
    <3>1. Q!PushAll(new)
      BY <2>1 DEF new
    <3> QED
      BY <1>0, <2>2, <3>1, PushAllType
  <2>4. suggested' \in 0..MaxHolders /\ holders' \in 0..MaxHolders
    BY <1>0, <2>1, <2>2, PoolAssumption DEF TypeOK, PoolAssumption
  <2> QED
    BY <1>0, <1>7, <2>3, <2>4 DEF NewConnection, TypeOK, QueueType
<1>8. ASSUME NEW p \in Borrowers, KeepConnection(p) PROVE TypeOK'
  BY <1>0, <1>8 DEF KeepConnection, TypeOK, queueVars, Proceed
<1>9. ASSUME NEW p \in Borrowers, Retry(p) \/ WakeUp(p) \/ Finish(p) PROVE TypeOK'
  <2>1. CASE Retry(p)
    <3>1. p \in Ops /\ tries[p] \in Nat /\ tries[p] + 1 < MaxAttempts
      BY <1>0, <2>1, PoolAssumption DEF PoolAssumption, Retry, TypeOK
    <3>2. tries[p] + 1 \in 0..MaxAttempts
      BY <3>1, PoolAssumption DEF PoolAssumption
    <3>3. tries' \in [Ops -> 0..MaxAttempts]
      BY <1>0, <2>1, <3>2 DEF Retry, TypeOK
    <3> QED
      BY <1>0, <2>1, <3>3 DEF Retry, TypeOK, queueVars
  <2>2. CASE WakeUp(p)
    BY <1>0, <2>2 DEF WakeUp, TypeOK, queueVars
  <2>3. CASE Finish(p)
    BY <1>0, <2>3 DEF Finish, TypeOK, queueVars
  <2> QED
    BY <1>9, <2>1, <2>2, <2>3
<1>10. ASSUME NEW p \in Borrowers, Release(p) \/ PutBack(p) PROVE TypeOK'
  <2>1. pc[p] \in Working /\ Q!Push(holds[p])
    <3>1. CASE Release(p)
      BY <3>1 DEF Release, Working
    <3>2. CASE PutBack(p)
      BY <3>2 DEF PutBack, Working
    <3> QED
      BY <1>10, <3>1, <3>2
  <2>2. QueueType'
    BY <1>0, <1>h, <2>1, PushType
  <2>3. CASE Release(p)
    BY <1>0, <2>2, <2>3 DEF Release, TypeOK, QueueType
  <2>4. CASE PutBack(p)
    BY <1>0, <2>2, <2>4 DEF PutBack, TypeOK, QueueType
  <2> QED
    BY <1>10, <2>3, <2>4
<1>11. ASSUME NEW p \in Ops, TransactionTimeout(p) PROVE TypeOK'
  BY <1>0, <1>11 DEF TransactionTimeout, TypeOK, queueVars
<1>12. ASSUME NEW h \in Holder, ConnectionLost(h) \/ CloseReleased(h) PROVE TypeOK'
  BY <1>0, <1>12 DEF ConnectionLost, CloseReleased, TypeOK, queueVars
<1>13. ASSUME NEW c \in Closers, Close(c) PROVE TypeOK'
  <2>1. QueueType'
    BY <1>0, <1>13, CancelType DEF Close, queueVars, QueueType
  <2> QED
    BY <1>0, <1>13, <2>1 DEF Close, TypeOK, QueueType
<1>14. ASSUME NEW c \in Closers, CloseDone(c) \/ CloseAwaited(c) PROVE TypeOK'
  BY <1>0, <1>14 DEF CloseDone, CloseAwaited, TypeOK, queueVars
<1>15. ASSUME NEW t \in Terminators, Terminate(t) PROVE TypeOK'
  <2>1. QueueType'
    BY <1>0, <1>15, CancelType DEF Terminate, queueVars, QueueType
  <2> QED
    BY <1>0, <1>15, <2>1 DEF Terminate, TypeOK, QueueType
<1>16. CASE UNCHANGED vars
  BY <1>0, <1>16 DEF vars, TypeOK
<1> QED
  BY <1>1, <1>2, <1>3, <1>4, <1>5, <1>6, <1>7, <1>8, <1>9, <1>10, <1>11, <1>12, <1>13,
     <1>14, <1>15, <1>16 DEF Next, Step

(* A dismissed call ends with empty hands. *)
LEMMA DismissStep ==
  ASSUME IInv, TypeOK', NEW p \in Borrowers, Dismissed(p) PROVE IInv'
<1>t. /\ got \in [Borrowers -> Holder \cup {NoHolder, Cancelled}]
      /\ NoHolder \notin Holder /\ Cancelled \notin Holder /\ NoHolder # Cancelled
      /\ 1..holders \subseteq Holder
  <2>1. TypeOK
    BY DEF IInv
  <2>2. holders \in Nat /\ 1..holders \subseteq Holder
    BY <2>1, PoolAssumption DEF PoolAssumption, TypeOK
  <2> QED
    BY <2>1, <2>2, PoolAssumption DEF PoolAssumption, TypeOK
<1>i. PcAgrees /\ WaitersAgree /\ Created /\ Exclusive /\ NoHolderLost /\ InUseTellsTheTruth
  BY DEF IInv, Placed
<1>1. /\ pc' = [pc EXCEPT ![p] = "done"] /\ p \in DOMAIN pc /\ pc[p] = "getting"
      /\ got[p] = Cancelled /\ got' = [got EXCEPT ![p] = NoHolder]
      /\ UNCHANGED <<idle, waiters, holders, holds, inUse>>
  BY DEF Dismissed, Goto, Callers, IInv, TypeOK, Q!Collect
<1>2. \A i \in 1..Len(waiters) : waiters[i] # p
  BY <1>t, <1>i, <1>1 DEF WaitersAgree
<1>3. \A h \in Holder, q \in Borrowers : HandedTo(h, q)' <=> HandedTo(h, q)
  BY <1>t, <1>1 DEF HandedTo
<1>4. PcAgrees' /\ WaitersAgree'
  BY <1>t, <1>i, <1>1, <1>2 DEF PcAgrees, WaitersAgree, Working
<1>5. Created' /\ Exclusive' /\ NoHolderLost'
  BY <1>t, <1>i, <1>1, <1>3 DEF Created, Exclusive, NoHolderLost, Kept
<1>6. InUseTellsTheTruth'
  BY <1>i, <1>1 DEF InUseTellsTheTruth, Borrowers
<1> QED
  BY <1>4, <1>5, <1>6 DEF IInv, Placed

(* _inUse follows the holder a call acquires. *)
LEMMA AcquireStep ==
  ASSUME IInv, TypeOK', NEW p \in Borrowers, Acquire(p) PROVE IInv'
<1> DEFINE h == got[p]
<1>1. /\ p \in Ops /\ pc[p] = "getting" /\ h \in Holder
      /\ holds' = [holds EXCEPT ![p] = h]
      /\ UNCHANGED holders /\ Q!Collect(p)
      /\ \/ inUse[h] /\ Goto(p, "putback") /\ UNCHANGED inUse
         \/ ~inUse[h] /\ Goto(p, "held") /\ inUse' = [inUse EXCEPT ![h] = TRUE]
  BY DEF Acquire
<1>2. \E where \in {"held", "putback"} : Goto(p, where)
  BY <1>1
<1>3. Placed'
  BY <1>1, <1>2, TakeStep DEF Working
<1>4. /\ holds[p] = NoHolder /\ NoHolder \notin Holder
      /\ holds \in [Borrowers -> Holder \cup {NoHolder}] /\ inUse \in [Holder -> BOOLEAN]
      /\ p \in DOMAIN pc
  BY <1>1, PoolAssumption DEF PoolAssumption, IInv, Placed, PcAgrees, TypeOK, Working, Callers
<1> HIDE DEF h
<1>5. InUseTellsTheTruth'
  <2>i. \A g \in Holder : inUse[g] <=> \E q \in Ops : holds[q] = g /\ pc[q] # "putback"
    BY DEF IInv, InUseTellsTheTruth
  <2>1. CASE inUse[h] /\ Goto(p, "putback") /\ UNCHANGED inUse
    BY <2>i, <1>1, <1>4, <2>1 DEF InUseTellsTheTruth, Goto, Borrowers
  <2>2. CASE ~inUse[h] /\ Goto(p, "held") /\ inUse' = [inUse EXCEPT ![h] = TRUE]
    <3> SUFFICES ASSUME NEW g \in Holder
                 PROVE  inUse'[g] <=> \E q \in Ops : holds'[q] = g /\ pc'[q] # "putback"
      BY DEF InUseTellsTheTruth
    <3>1. CASE g = h
      BY <1>1, <1>4, <2>2, <3>1 DEF Goto, Borrowers
    <3>2. CASE g # h
      BY <2>i, <1>1, <1>4, <2>2, <3>2 DEF Goto, Borrowers
    <3> QED
      BY <3>1, <3>2
  <2> QED
    BY <1>1, <2>1, <2>2
<1> QED
  BY <1>3, <1>5 DEF IInv

(* _inUse is cleared when its only user lets the holder go. *)
LEMMA ReleaseStep ==
  ASSUME IInv, TypeOK', NEW p \in Borrowers, Release(p) PROVE IInv'
<1> DEFINE h == holds[p]
<1>1. /\ p \in Ops /\ pc[p] = "releasing" /\ Goto(p, "done")
      /\ inUse' = [inUse EXCEPT ![h] = FALSE]
      /\ holds' = [holds EXCEPT ![p] = NoHolder]
      /\ Q!Push(holds[p]) /\ UNCHANGED holders
  BY DEF Release
<1>2. Placed'
  BY <1>1, PushStep DEF Working
<1>3. /\ h \in Holder /\ NoHolder \notin Holder /\ p \in DOMAIN pc
      /\ holds \in [Borrowers -> Holder \cup {NoHolder}] /\ inUse \in [Holder -> BOOLEAN]
  BY <1>1, PoolAssumption DEF PoolAssumption, IInv, Placed, PcAgrees, TypeOK, Working, Callers
<1>4. \A q \in Borrowers : holds[q] = h => q = p
  BY <1>3 DEF IInv, Placed, Exclusive, HandedTo
<1>5. InUseTellsTheTruth'
  <2>i. \A g \in Holder : inUse[g] <=> \E q \in Ops : holds[q] = g /\ pc[q] # "putback"
    BY DEF IInv, InUseTellsTheTruth
  <2> SUFFICES ASSUME NEW g \in Holder
               PROVE  inUse'[g] <=> \E q \in Ops : holds'[q] = g /\ pc'[q] # "putback"
    BY DEF InUseTellsTheTruth
  <2>1. CASE g = h
    BY <1>1, <1>3, <1>4, <2>1 DEF Borrowers
  <2>2. CASE g # h
    BY <2>i, <1>1, <1>3, <2>2 DEF Goto, Borrowers
  <2> QED
    BY <2>1, <2>2
<1> QED
  BY <1>2, <1>5 DEF IInv

(* A holder that nobody acquired goes back as it is. *)
LEMMA PutBackStep ==
  ASSUME IInv, TypeOK', NEW p \in Borrowers, PutBack(p) PROVE IInv'
<1>1. /\ pc[p] = "putback" /\ Goto(p, "done")
      /\ holds' = [holds EXCEPT ![p] = NoHolder]
      /\ Q!Push(holds[p]) /\ UNCHANGED <<holders, inUse>>
  BY DEF PutBack
<1>2. Placed'
  BY <1>1, PushStep DEF Working
<1>3. /\ NoHolder \notin Holder /\ p \in DOMAIN pc
      /\ holds \in [Borrowers -> Holder \cup {NoHolder}]
  BY PoolAssumption DEF PoolAssumption, IInv, TypeOK, Callers
<1>4. InUseTellsTheTruth'
  BY <1>1, <1>3 DEF IInv, InUseTellsTheTruth, Goto, Borrowers
<1> QED
  BY <1>2, <1>4 DEF IInv

(* The pool grows: _inUse says nothing about the new holders. *)
LEMMA NewConnectionStep ==
  ASSUME IInv, TypeOK', NEW p \in Borrowers, NewConnection(p) PROVE IInv'
<1>1. PICK s \in Suggestions :
        LET changed == s # 0 /\ s # suggested
            size == IF changed THEN Bigger(holders, Concurrency(s)) ELSE holders
        IN /\ holders' = size
           /\ Q!PushAll([i \in 1..(size - holders) |-> holders + i])
  BY DEF NewConnection
<1> DEFINE changed == s # 0 /\ s # suggested
           size == IF changed THEN Bigger(holders, Concurrency(s)) ELSE holders
           n == size - holders
<1>2. size \in Nat /\ n \in Nat /\ holders \in Nat
  <2>1. TypeOK /\ changed \in BOOLEAN
    BY DEF IInv
  <2>2. size \in 0..MaxHolders /\ n \in Nat
    BY <2>1, ResizeBound
  <2> QED
    BY <2>1, <2>2, PoolAssumption DEF TypeOK, PoolAssumption
<1>3. holders' = holders + n /\ Q!PushAll([i \in 1..n |-> holders + i])
  BY <1>1, <1>2
<1>4. /\ pc[p] = "connecting" /\ pc' = [pc EXCEPT ![p] = "connected"] /\ p \in DOMAIN pc
      /\ UNCHANGED <<holds, inUse>>
  BY DEF NewConnection, Goto, IInv, TypeOK, Callers
<1>5. Placed'
  <2> HIDE DEF n
  <2>1. \A q \in Borrowers : /\ pc[q] \in Working <=> pc'[q] \in Working
                             /\ pc[q] = "getting" => pc'[q] = "getting"
    BY <1>4 DEF Working
  <2> QED
    BY <1>2, <1>3, <1>4, <2>1, ResizeStep
<1>6. InUseTellsTheTruth'
  BY <1>4 DEF IInv, InUseTellsTheTruth
<1> QED
  BY <1>5, <1>6 DEF IInv

(* close() and terminate() are calls of their own: no borrower moves. *)
LEMMA CloserStep ==
  ASSUME IInv, TypeOK', NEW c \in Closers \cup Terminators, NEW where, Goto(c, where),
         UNCHANGED queueVars \/ Q!CancelAll, UNCHANGED <<holders, holds, inUse>>
  PROVE  IInv'
<1>1. \A p \in Borrowers : pc'[p] = pc[p]
  BY PoolAssumption DEF PoolAssumption, Goto, IInv, TypeOK, Callers
<1>2. CASE UNCHANGED queueVars
  BY <1>1, <1>2, QuietStep
<1>3. CASE Q!CancelAll
  <2>1. Placed'
    BY <1>1, <1>3, CancelStep
  <2>2. InUseTellsTheTruth'
    BY <1>1 DEF IInv, InUseTellsTheTruth, Borrowers
  <2> QED
    BY <2>1, <2>2 DEF IInv
<1> QED
  BY <1>2, <1>3

LEMMA NextInv == IInv /\ [Next]_vars => IInv'
<1> SUFFICES ASSUME IInv, [Next]_vars PROVE IInv'
  OBVIOUS
<1>0. TypeOK'
  BY TypeStep
<1>p. ASSUME NEW p \in Borrowers, NEW where, Goto(p, where)
      PROVE  pc'[p] = where /\ \A q \in Borrowers : q # p => pc'[q] = pc[q]
  BY <1>p DEF Goto, IInv, TypeOK, Callers
<1>1. ASSUME NEW p \in Ops, AcquireHolder(p) PROVE IInv'
  <2>1. CASE Goto(p, "done") /\ UNCHANGED queueVars
    BY <1>0, <1>p, <1>1, <2>1, QuietStep DEF AcquireHolder, Borrowers, Working
  <2>2. CASE Goto(p, "getting") /\ Q!Get(p)
    BY <1>0, <1>1, <2>2, GetStep DEF AcquireHolder, Borrowers
  <2> QED
    BY <1>1, <2>1, <2>2 DEF AcquireHolder
<1>2. ASSUME NEW p \in Ensurers, EnsureConnected(p) PROVE IInv'
  <2>1. CASE Goto(p, "done") /\ UNCHANGED queueVars
    BY <1>0, <1>p, <1>2, <2>1, QuietStep, PoolAssumption
       DEF EnsureConnected, Borrowers, Working, PoolAssumption
  <2>2. CASE Goto(p, "getting") /\ Q!Get(p)
    BY <1>0, <1>2, <2>2, GetStep DEF EnsureConnected, Borrowers
  <2> QED
    BY <1>2, <2>1, <2>2 DEF EnsureConnected
<1>3. ASSUME NEW p \in Borrowers, EnsureTakes(p) PROVE IInv'
  <2>1. Placed'
    BY <1>0, <1>3, TakeStep DEF EnsureTakes, Working
  <2>2. p \notin Ops /\ UNCHANGED inUse /\ \A q \in Ops : holds'[q] = holds[q] /\ pc'[q] = pc[q]
    BY <1>p, <1>3, PoolAssumption DEF EnsureTakes, PoolAssumption, Borrowers, IInv, TypeOK
  <2>3. InUseTellsTheTruth'
    BY <2>2 DEF IInv, InUseTellsTheTruth
  <2> QED
    BY <1>0, <2>1, <2>3 DEF IInv
<1>4. ASSUME NEW p \in Borrowers, GetConnection(p) PROVE IInv'
  <2>1. PICK where \in {"using", "putback", "releasing", "connecting"} :
          Goto(p, where) /\ (p \in Ops => where # "putback")
    BY <1>4 DEF GetConnection, Proceed, GiveUp
  <2> QED
    BY <1>0, <1>p, <1>4, <2>1, QuietStep DEF GetConnection, Working
<1>5. ASSUME NEW p \in Borrowers, NoConnection(p) \/ KeepConnection(p) \/ HandshakeHangs(p)
      PROVE  IInv'
  <2>1. PICK where \in {"using", "putback", "releasing", "hanging"} :
          Goto(p, where) /\ (p \in Ops => where # "putback")
    BY <1>5 DEF NoConnection, KeepConnection, HandshakeHangs, Proceed, GiveUp
  <2>2. /\ UNCHANGED <<holders, queueVars, holds, inUse>>
        /\ pc[p] \in {"connecting", "connected"}
    BY <1>5 DEF NoConnection, KeepConnection, HandshakeHangs
  <2> QED
    BY <1>0, <1>p, <2>1, <2>2, QuietStep DEF Working
<1>6. ASSUME NEW p \in Borrowers, Retry(p) \/ WakeUp(p) \/ Finish(p) PROVE IInv'
  <2>1. PICK where \in {"sleeping", "held", "releasing"} : Goto(p, where)
    BY <1>6 DEF Retry, WakeUp, Finish
  <2>2. /\ UNCHANGED <<holders, queueVars, holds, inUse>>
        /\ pc[p] \in {"using", "sleeping"}
    BY <1>6 DEF Retry, WakeUp, Finish
  <2> QED
    BY <1>0, <1>p, <2>1, <2>2, QuietStep DEF Working
<1>7. ASSUME NEW p \in Ops, TransactionTimeout(p) PROVE IInv'
  BY <1>0, <1>7, QuietStep DEF TransactionTimeout
<1>8. ASSUME NEW h \in Holder, ConnectionLost(h) \/ CloseReleased(h) PROVE IInv'
  BY <1>0, <1>8, QuietStep DEF ConnectionLost, CloseReleased
<1>9. ASSUME NEW c \in Closers, Close(c) PROVE IInv'
  BY <1>0, <1>9, CloserStep DEF Close
<1>10. ASSUME NEW c \in Closers, CloseDone(c) \/ CloseAwaited(c) PROVE IInv'
  BY <1>0, <1>10, CloserStep DEF CloseDone, CloseAwaited
<1>11. ASSUME NEW t \in Terminators, Terminate(t) PROVE IInv'
  <2>1. /\ Goto(t, "done") /\ UNCHANGED <<holders, holds, inUse>>
        /\ UNCHANGED queueVars \/ Q!CancelAll
    BY <1>11 DEF Terminate
  <2> QED
    BY <1>0, <2>1, CloserStep
<1>12. CASE UNCHANGED vars
  <2>1. UNCHANGED <<holders, queueVars, holds, inUse, pc>>
    BY <1>12 DEF vars, queueVars
  <2> QED
    BY <1>0, <2>1, QuietStep
<1> QED
  BY <1>0, <1>1, <1>2, <1>3, <1>4, <1>5, <1>6, <1>7, <1>8, <1>9, <1>10, <1>11, <1>12,
     AcquireStep, DismissStep, NewConnectionStep, ReleaseStep, PutBackStep DEF Next, Step

----------------------------------------------------------------------------
(* The inductive invariant holds in every reachable state. *)
THEOREM Invariant == Spec => []IInv
<1>1. Init => IInv
  BY InitInv
<1>2. IInv /\ [Next]_vars => IInv'
  BY NextInv
<1> QED
  BY <1>1, <1>2, PTL DEF Spec

(* The state has the types the model declares, for any constants. *)
THEOREM TypeCorrect == Spec => []TypeOK
<1>1. IInv => TypeOK
  BY DEF IInv
<1> QED
  BY <1>1, Invariant, PTL

(* However many calls compete for the pool and whatever fails, two calls   *)
(* never work with one holder, and none is both kept and handed out.       *)
THEOREM HoldersExclusive == Spec => []Exclusive
<1>1. IInv => Exclusive
  BY DEF IInv, Placed
<1> QED
  BY <1>1, Invariant, PTL

(* Every holder the pool ever created stays available to it. *)
THEOREM HoldersKept == Spec => []NoHolderLost
<1>1. IInv => NoHolderLost
  BY DEF IInv, Placed
<1> QED
  BY <1>1, Invariant, PTL

(* close() finds every holder a call works with in use, and no other. *)
THEOREM InUseTrue == Spec => []InUseTellsTheTruth
<1>1. IInv => InUseTellsTheTruth
  BY DEF IInv
<1> QED
  BY <1>1, Invariant, PTL

----------------------------------------------------------------------------
(***************************************************************************)
(* What ClientPool guarantees to calls that wait for a holder, for any     *)
(* number of calls, holders, attempts and suggestions: a call stands in    *)
(* line only while no holder is kept and the client is open, it is reached *)
(* by whoever pushes or cancels, and nobody is handed a holder once        *)
(* close() or terminate() was called.                                      *)
(***************************************************************************)


(* A step hands out holders only while the client is open. *)
Admits == \A p \in Borrowers : got'[p] \in Holder /\ got[p] # got'[p] => closing = "no"

InLine(p) == \E i \in 1..Len(waiters) : waiters[i] = p

(* A close() under way has set _closing. *)
ClosingAgrees == \A c \in Closers : pc[c] = "closing" => closing # "no"

WInv == IInv /\ ClosingAgrees /\ NobodyWaitsInVain

----------------------------------------------------------------------------
(* No call starts to wait, nobody is served and the client is not opened.  *)
LEMMA QuietWait ==
  ASSUME NobodyWaitsInVain, UNCHANGED queueVars,
         closing' # "no" => closing # "no",
         \A p \in Borrowers : pc'[p] = "getting" => pc[p] = "getting"
  PROVE  NobodyWaitsInVain' /\ Admits
BY DEF NobodyWaitsInVain, Admits, queueVars

(* A call asks for a holder while the client is open. *)
LEMMA GetWait ==
  ASSUME IInv, NobodyWaitsInVain, NEW p \in Borrowers,
         Q!Get(p), Goto(p, "getting"), closing = "no", UNCHANGED closing
  PROVE  NobodyWaitsInVain' /\ Admits
<1>t. /\ idle \in Seq(Holder) /\ waiters \in Seq(Borrowers) /\ NoHolder \notin Holder
      /\ got \in [Borrowers -> Holder \cup {NoHolder, Cancelled}]
  BY PoolAssumption DEF PoolAssumption, IInv, TypeOK
<1>p. \A q \in Borrowers : q # p => pc'[q] = pc[q]
  BY DEF Goto, IInv, TypeOK, Callers
<1>a. Admits
  BY DEF Admits
<1>1. CASE idle = <<>>
  <2>1. waiters' = Append(waiters, p) /\ UNCHANGED <<idle, got>>
    BY <1>1 DEF Q!Get
  <2>2. /\ Len(waiters') = Len(waiters) + 1 /\ Len(waiters) \in Nat
        /\ \A i \in 1..Len(waiters) : waiters'[i] = waiters[i]
        /\ waiters'[Len(waiters) + 1] = p
    BY <1>t, <2>1, AppendProperties, LenProperties
  <2>3. /\ \A i \in 1..Len(waiters) : i \in 1..(Len(waiters) + 1)
        /\ Len(waiters) + 1 \in 1..(Len(waiters) + 1)
    BY <2>2
  <2>4. \A q \in Borrowers : InLine(q) \/ q = p => InLine(q)'
    BY <2>2, <2>3 DEF InLine
  <2>5. \A q \in Borrowers : pc'[q] = "getting" => got'[q] # NoHolder \/ InLine(q)'
    BY <1>p, <2>1, <2>4 DEF NobodyWaitsInVain, InLine
  <2> QED
    BY <1>1, <1>a, <2>1, <2>5 DEF NobodyWaitsInVain, InLine
<1>2. CASE idle # <<>>
  <2>1. /\ got' = [got EXCEPT ![p] = idle[Len(idle)]] /\ UNCHANGED waiters
        /\ waiters = <<>>
    BY <1>2 DEF Q!Get, NobodyWaitsInVain
  <2>2. idle[Len(idle)] \in Holder
    BY <1>t, <1>2, PopFacts
  <2>3. \A q \in Borrowers : pc'[q] = "getting" => got'[q] # NoHolder \/ InLine(q)'
    BY <1>t, <1>p, <2>1, <2>2 DEF NobodyWaitsInVain, InLine
  <2> QED
    BY <1>a, <2>1, <2>3 DEF NobodyWaitsInVain, InLine
<1> QED
  BY <1>1, <1>2

(* A call reads what it was handed, and stops waiting. *)
LEMMA CollectWait ==
  ASSUME IInv, NobodyWaitsInVain, NEW p \in Borrowers,
         Q!Collect(p), NEW where, Goto(p, where), where # "getting", UNCHANGED closing
  PROVE  NobodyWaitsInVain' /\ Admits
<1>1. /\ NoHolder \notin Holder /\ p \in DOMAIN got /\ p \in DOMAIN pc
      /\ got' = [got EXCEPT ![p] = NoHolder] /\ UNCHANGED <<idle, waiters>>
      /\ pc' = [pc EXCEPT ![p] = where]
  BY PoolAssumption DEF PoolAssumption, IInv, TypeOK, Callers, Q!Collect, Goto
<1>2. \A q \in Borrowers : q # p => pc'[q] = pc[q] /\ got'[q] = got[q]
  BY <1>1
<1>3. pc'[p] # "getting" /\ got'[p] \notin Holder
  BY <1>1
<1> QED
  BY <1>1, <1>2, <1>3 DEF NobodyWaitsInVain, Admits

(* A holder comes back: it goes to the head of the line, if there is one.  *)
LEMMA PushWait ==
  ASSUME IInv, NobodyWaitsInVain, NEW h \in Holder, Q!Push(h), UNCHANGED closing,
         \A p \in Borrowers : pc'[p] = "getting" => pc[p] = "getting"
  PROVE  NobodyWaitsInVain' /\ Admits
<1>t. /\ waiters \in Seq(Borrowers) /\ NoHolder \notin Holder
      /\ got \in [Borrowers -> Holder \cup {NoHolder, Cancelled}]
  BY PoolAssumption DEF PoolAssumption, IInv, TypeOK
<1>1. CASE waiters = <<>>
  BY <1>1 DEF Q!Push, NobodyWaitsInVain, Admits
<1>2. CASE waiters # <<>>
  <2>1. /\ got' = [got EXCEPT ![Head(waiters)] = h] /\ waiters' = Tail(waiters)
        /\ UNCHANGED idle
    BY <1>2 DEF Q!Push
  <2>2. idle' = <<>> /\ closing = "no" /\ closing' = "no"
    BY <1>2, <2>1 DEF NobodyWaitsInVain
  <2>3. /\ Len(waiters) \in Nat \ {0} /\ Head(waiters) = waiters[1]
        /\ Len(Tail(waiters)) = Len(waiters) - 1
        /\ \A i \in 1..(Len(waiters) - 1) : Tail(waiters)[i] = waiters[i + 1]
    BY <1>t, <1>2, HeadTailProperties, EmptySeq, LenProperties
  <2>4. \A i \in 1..Len(waiters) : i # 1 => i - 1 \in 1..(Len(waiters) - 1) /\ (i - 1) + 1 = i
    BY <2>3
  <2>5. ASSUME NEW q \in Borrowers, InLine(q), waiters[1] # q PROVE InLine(q)'
    <3>1. PICK i \in 1..Len(waiters) : waiters[i] = q
      BY <2>5 DEF InLine
    <3>2. i - 1 \in 1..(Len(waiters) - 1) /\ Tail(waiters)[i - 1] = q
      BY <2>3, <2>4, <2>5, <3>1
    <3> QED
      BY <2>1, <2>3, <3>2 DEF InLine
  <2>6. \A q \in Borrowers : pc'[q] = "getting" => got'[q] # NoHolder \/ InLine(q)'
    BY <1>t, <2>1, <2>3, <2>5 DEF NobodyWaitsInVain, InLine
  <2> QED
    BY <2>2, <2>6 DEF NobodyWaitsInVain, Admits, InLine
<1> QED
  BY <1>1, <1>2

(* The new holders go to the line first; what is kept of them is kept      *)
(* because the line is empty.                                              *)
LEMMA ResizeWait ==
  ASSUME IInv, NobodyWaitsInVain, NEW new \in Seq(Holder), Q!PushAll(new), UNCHANGED closing,
         \A p \in Borrowers : pc'[p] = "getting" => pc[p] = "getting"
  PROVE  NobodyWaitsInVain' /\ Admits
<1> DEFINE served == IF Len(new) < Len(waiters) THEN Len(new) ELSE Len(waiters)
<1>t. /\ idle \in Seq(Holder) /\ waiters \in Seq(Borrowers) /\ NoHolder \notin Holder
      /\ got \in [Borrowers -> Holder \cup {NoHolder, Cancelled}]
  BY PoolAssumption DEF PoolAssumption, IInv, TypeOK
<1>l. Len(new) \in Nat /\ Len(waiters) \in Nat
  BY <1>t, LenProperties
<1>1. /\ served \in Nat /\ served <= Len(new) /\ served <= Len(waiters)
      /\ served = Len(new) \/ served = Len(waiters)
  BY <1>l
<1>2. /\ idle' = idle \o SubSeq(new, served + 1, Len(new))
      /\ waiters' = SubSeq(waiters, served + 1, Len(waiters))
      /\ got' = [c \in Borrowers |->
                   IF \E i \in 1..served : waiters[i] = c
                   THEN new[CHOOSE i \in 1..served : waiters[i] = c]
                   ELSE got[c]]
  BY DEF Q!PushAll
<1> HIDE DEF served
<1>3. /\ waiters' \in Seq(Borrowers) /\ Len(waiters') = Len(waiters) - served
      /\ \A k \in 1..(Len(waiters) - served) : waiters'[k] = waiters[served + k]
  BY <1>t, <1>1, <1>2, DropFacts
<1>4. \A c \in Borrowers : (\E i \in 1..served : waiters[i] = c) => got'[c] \in Holder
  <2> SUFFICES ASSUME NEW c \in Borrowers, NEW i \in 1..served, waiters[i] = c
               PROVE  got'[c] \in Holder
    OBVIOUS
  <2>1. (CHOOSE j \in 1..served : waiters[j] = c) \in 1..served
    OBVIOUS
  <2>2. \A j \in 1..served : new[j] \in Holder
    <3>1. \A j \in 1..served : j \in 1..Len(new)
      BY <1>l, <1>1
    <3> QED
      BY <3>1, ElementOfSeq
  <2>3. got'[c] = new[CHOOSE j \in 1..served : waiters[j] = c]
    BY <1>2
  <2> QED
    BY <2>1, <2>2, <2>3
<1>5. \A c \in Borrowers : (\A i \in 1..served : waiters[i] # c) => got'[c] = got[c]
  BY <1>2
<1>6. waiters = <<>> => served = 0 /\ waiters' = <<>>
  <2> SUFFICES ASSUME waiters = <<>> PROVE served = 0 /\ waiters' = <<>>
    OBVIOUS
  <2>1. Len(waiters) = 0
    BY <1>t, EmptySeq
  <2>2. served = 0 /\ Len(waiters') = 0
    BY <1>1, <1>3, <2>1
  <2> QED
    BY <1>3, <2>2, EmptySeq
<1>7. idle' # <<>> => waiters' = <<>>
  <2>1. CASE served = Len(waiters)
    <3>1. Len(waiters') = 0
      BY <1>l, <1>3, <2>1
    <3> QED
      BY <1>3, <3>1, EmptySeq
  <2>2. CASE served = Len(new)
    <3>1. /\ SubSeq(new, served + 1, Len(new)) \in Seq(Holder)
          /\ Len(SubSeq(new, served + 1, Len(new))) = Len(new) - served
      BY <1>1, DropFacts
    <3>2. SubSeq(new, served + 1, Len(new)) = <<>>
      <4>1. Len(SubSeq(new, served + 1, Len(new))) = 0
        BY <1>l, <2>2, <3>1
      <4> QED
        BY <3>1, <4>1, EmptySeq
    <3>3. idle' = idle
      BY <1>t, <1>2, <3>2, ConcatEmptySeq
    <3> QED
      BY <1>6, <3>3 DEF NobodyWaitsInVain
  <2> QED
    BY <1>1, <2>1, <2>2
<1>8. closing' # "no" => waiters' = <<>>
  BY <1>6 DEF NobodyWaitsInVain
<1>9. ASSUME NEW q \in Borrowers, pc'[q] = "getting"
      PROVE  got'[q] # NoHolder \/ \E i \in 1..Len(waiters') : waiters'[i] = q
  <2>1. CASE \E i \in 1..served : waiters[i] = q
    BY <1>t, <1>4, <2>1
  <2>2. CASE (\A i \in 1..served : waiters[i] # q) /\ got[q] # NoHolder
    BY <1>5, <2>2
  <2>3. CASE (\A i \in 1..served : waiters[i] # q) /\ got[q] = NoHolder
    <3>1. PICK i \in 1..Len(waiters) : waiters[i] = q
      BY <1>9, <2>3 DEF NobodyWaitsInVain
    <3>2. i \notin 1..served
      BY <2>3, <3>1
    <3>3. i - served \in 1..(Len(waiters) - served) /\ served + (i - served) = i
      BY <1>l, <1>1, <3>2
    <3> QED
      BY <1>3, <3>1, <3>3
  <2> QED
    BY <2>1, <2>2, <2>3
<1>10. Admits
  <2> SUFFICES ASSUME closing # "no" PROVE \A c \in Borrowers : got'[c] = got[c]
    BY DEF Admits
  <2>1. served = 0
    BY <1>6 DEF NobodyWaitsInVain
  <2>2. \A i \in 1..served : FALSE
    BY <2>1
  <2> QED
    BY <1>5, <2>2
<1> QED
  BY <1>7, <1>8, <1>9, <1>10 DEF NobodyWaitsInVain

(* The whole line is dismissed. *)
LEMMA CancelWait ==
  ASSUME IInv, NobodyWaitsInVain, Q!CancelAll, \A p \in Borrowers : pc'[p] = pc[p]
  PROVE  NobodyWaitsInVain' /\ Admits
<1>1. /\ waiters' = <<>> /\ UNCHANGED idle
      /\ got' = [c \in Borrowers |-> IF c \in Q!ToSet(waiters) THEN Cancelled ELSE got[c]]
  BY DEF Q!CancelAll
<1>2. Cancelled # NoHolder /\ Cancelled \notin Holder
  BY PoolAssumption DEF PoolAssumption
<1>3. \A c \in Borrowers : InLine(c) => got'[c] = Cancelled
  <2>1. DOMAIN waiters = 1..Len(waiters)
    BY DEF IInv, TypeOK
  <2> QED
    BY <1>1, <2>1 DEF InLine, Q!ToSet
<1>4. \A c \in Borrowers : got'[c] = Cancelled \/ got'[c] = got[c]
  BY <1>1
<1>5. \A c \in Borrowers : pc'[c] = "getting" => got'[c] # NoHolder
  BY <1>2, <1>3, <1>4 DEF NobodyWaitsInVain, InLine
<1> QED
  BY <1>1, <1>2, <1>4, <1>5 DEF NobodyWaitsInVain, Admits

----------------------------------------------------------------------------
LEMMA NextWait == WInv /\ [Next]_vars => NobodyWaitsInVain' /\ Admits
<1> SUFFICES ASSUME IInv, ClosingAgrees, NobodyWaitsInVain, [Next]_vars
             PROVE  NobodyWaitsInVain' /\ Admits
  BY DEF WInv
<1>p. ASSUME NEW p \in Borrowers, NEW where, where # "getting", Goto(p, where)
      PROVE  \A q \in Borrowers : pc'[q] = "getting" => pc[q] = "getting"
  BY <1>p DEF Goto, IInv, TypeOK, Callers
<1>c. ASSUME NEW c \in Closers \cup Terminators, NEW where, Goto(c, where)
      PROVE  \A q \in Borrowers : pc'[q] = pc[q]
  BY <1>c, PoolAssumption DEF PoolAssumption, Goto, IInv, TypeOK, Callers
<1>h. \A p \in Borrowers : pc[p] \in Working => holds[p] \in Holder
  BY DEF IInv, Placed, PcAgrees, TypeOK
<1>1. ASSUME NEW p \in Borrowers, AcquireHolder(p) \/ EnsureConnected(p)
      PROVE  NobodyWaitsInVain' /\ Admits
  <2>0. /\ UNCHANGED closing
        /\ \/ Goto(p, "done") /\ UNCHANGED queueVars
           \/ closing = "no" /\ Goto(p, "getting") /\ Q!Get(p)
    BY <1>1 DEF AcquireHolder, EnsureConnected
  <2>1. CASE Goto(p, "done") /\ UNCHANGED queueVars
    BY <1>p, <2>0, <2>1, QuietWait
  <2>2. CASE closing = "no" /\ Goto(p, "getting") /\ Q!Get(p)
    BY <2>0, <2>2, GetWait
  <2> QED
    BY <2>0, <2>1, <2>2
<1>2. ASSUME NEW p \in Borrowers, Acquire(p) \/ Dismissed(p) \/ EnsureTakes(p)
      PROVE  NobodyWaitsInVain' /\ Admits
  <2>1. PICK where \in {"putback", "held", "done"} :
          Goto(p, where) /\ Q!Collect(p) /\ UNCHANGED closing
    BY <1>2 DEF Acquire, Dismissed, EnsureTakes
  <2> QED
    BY <2>1, CollectWait
<1>3. ASSUME NEW p \in Borrowers,
             \/ GetConnection(p) \/ NoConnection(p) \/ KeepConnection(p)
             \/ HandshakeHangs(p) \/ WakeUp(p) \/ Retry(p) \/ Finish(p)
      PROVE  NobodyWaitsInVain' /\ Admits
  <2>1. PICK where \in {"using", "putback", "releasing", "connecting", "hanging", "sleeping",
                         "held"} :
          Goto(p, where) /\ UNCHANGED <<closing, queueVars>>
    BY <1>3 DEF GetConnection, NoConnection, KeepConnection, HandshakeHangs, WakeUp, Retry,
                Finish, Proceed, GiveUp
  <2> QED
    BY <1>p, <2>1, QuietWait
<1>4. ASSUME NEW p \in Borrowers, NewConnection(p) PROVE NobodyWaitsInVain' /\ Admits
  <2>1. PICK s \in Suggestions :
          LET changed == s # 0 /\ s # suggested
              size == IF changed THEN Bigger(holders, Concurrency(s)) ELSE holders
          IN Q!PushAll([i \in 1..(size - holders) |-> holders + i])
    BY <1>4 DEF NewConnection
  <2> DEFINE changed == s # 0 /\ s # suggested
             size == IF changed THEN Bigger(holders, Concurrency(s)) ELSE holders
             new == [i \in 1..(size - holders) |-> holders + i]
  <2>2. new \in Seq(Holder)
    <3>1. TypeOK /\ changed \in BOOLEAN
      BY DEF IInv
    <3> QED
      BY <3>1, ResizeBound
  <2>3. Q!PushAll(new) /\ Goto(p, "connected") /\ UNCHANGED closing
    BY <1>4, <2>1 DEF NewConnection
  <2> HIDE DEF new
  <2> QED
    BY <1>p, <2>2, <2>3, ResizeWait
<1>5. ASSUME NEW p \in Borrowers, Release(p) \/ PutBack(p) PROVE NobodyWaitsInVain' /\ Admits
  <2>1. pc[p] \in Working /\ Q!Push(holds[p]) /\ Goto(p, "done") /\ UNCHANGED closing
    BY <1>5 DEF Release, PutBack, Working
  <2> QED
    BY <1>h, <1>p, <2>1, PushWait
<1>6. ASSUME NEW p \in Ops, TransactionTimeout(p) PROVE NobodyWaitsInVain' /\ Admits
  BY <1>6, QuietWait DEF TransactionTimeout
<1>7. ASSUME NEW h \in Holder, ConnectionLost(h) \/ CloseReleased(h)
      PROVE  NobodyWaitsInVain' /\ Admits
  BY <1>7, QuietWait DEF ConnectionLost, CloseReleased
<1>8. ASSUME NEW c \in Closers \cup Terminators,
             Close(c) \/ CloseDone(c) \/ CloseAwaited(c) \/ Terminate(c)
      PROVE  NobodyWaitsInVain' /\ Admits
  <2>1. /\ \A q \in Borrowers : pc'[q] = pc[q]
        /\ \/ Q!CancelAll
           \/ UNCHANGED queueVars /\ (closing' # "no" => closing # "no")
    <3>1. CASE Close(c)
      BY <1>c, <3>1 DEF Close
    <3>2. CASE CloseDone(c)
      <4>1. closing # "no"
        BY <3>2 DEF CloseDone, ClosingAgrees
      <4> QED
        BY <1>c, <3>2, <4>1 DEF CloseDone
    <3>3. CASE CloseAwaited(c)
      BY <1>c, <3>3 DEF CloseAwaited
    <3>4. CASE Terminate(c)
      BY <1>c, <3>4 DEF Terminate
    <3> QED
      BY <1>8, <3>1, <3>2, <3>3, <3>4
  <2> QED
    BY <2>1, QuietWait, CancelWait
<1>9. CASE UNCHANGED vars
  <2>1. UNCHANGED <<closing, queueVars, pc>>
    BY <1>9 DEF vars, queueVars
  <2> QED
    BY <2>1, QuietWait
<1> QED
  BY <1>1, <1>2, <1>3, <1>4, <1>5, <1>6, <1>7, <1>8, <1>9 DEF Next, Step, Borrowers

(* No step opens a closing client again, and only close() starts a close.  *)
LEMMA NextClosing == WInv /\ [Next]_vars => ClosingAgrees'
<1> SUFFICES ASSUME IInv, ClosingAgrees, [Next]_vars PROVE ClosingAgrees'
  BY DEF WInv
<1>g. ASSUME NEW p \in Callers, NEW where, Goto(p, where)
      PROVE  pc'[p] = where /\ \A c \in Closers : c # p => pc'[c] = pc[c]
  BY <1>g DEF Goto, IInv, TypeOK, Callers
<1>q. ASSUME UNCHANGED closing, \A c \in Closers : pc'[c] = "closing" => pc[c] = "closing"
      PROVE  ClosingAgrees'
  BY <1>q DEF ClosingAgrees
<1>1. ASSUME NEW p \in Borrowers, \/ AcquireHolder(p) \/ EnsureConnected(p)
                                \/ Step(p) \/ HandshakeHangs(p)
      PROVE  ClosingAgrees'
  <2>1. UNCHANGED closing /\ \E where : Goto(p, where)
    BY <1>1 DEF AcquireHolder, EnsureConnected, Step, Acquire, Dismissed, EnsureTakes,
                GetConnection, NewConnection, NoConnection, KeepConnection, HandshakeHangs,
                WakeUp, Retry, Finish, Release, PutBack
  <2>2. \A c \in Closers : pc'[c] = pc[c]
    BY <1>g, <2>1, PoolAssumption DEF PoolAssumption, Callers
  <2> QED
    BY <1>q, <2>1, <2>2
<1>2. ASSUME NEW p \in Ops, TransactionTimeout(p) PROVE ClosingAgrees'
  BY <1>2, <1>q DEF TransactionTimeout
<1>3. ASSUME NEW h \in Holder, ConnectionLost(h) \/ CloseReleased(h) PROVE ClosingAgrees'
  BY <1>3, <1>q DEF ConnectionLost, CloseReleased
<1>4. ASSUME NEW c \in Closers, Close(c) PROVE ClosingAgrees'
  <2>1. CASE Goto(c, "waiting") /\ UNCHANGED closing
    BY <1>g, <1>q, <2>1 DEF Callers
  <2>2. CASE closing' = "pending"
    BY <2>2 DEF ClosingAgrees
  <2> QED
    BY <1>4, <2>1, <2>2 DEF Close
<1>5. ASSUME NEW c \in Closers, CloseDone(c) \/ CloseAwaited(c) PROVE ClosingAgrees'
  BY <1>5 DEF CloseDone, CloseAwaited, ClosingAgrees
<1>6. ASSUME NEW t \in Terminators, Terminate(t) PROVE ClosingAgrees'
  <2>1. Goto(t, "done") /\ (closing # "no" => closing' # "no")
    BY <1>6 DEF Terminate
  <2>2. \A c \in Closers : pc'[c] = pc[c]
    BY <1>g, <2>1, PoolAssumption DEF PoolAssumption, Callers
  <2> QED
    BY <2>1, <2>2 DEF ClosingAgrees
<1>7. CASE UNCHANGED vars
  BY <1>7, <1>q DEF vars
<1> QED
  BY <1>1, <1>2, <1>3, <1>4, <1>5, <1>6, <1>7 DEF Next, Borrowers

LEMMA InitWait == Init => ClosingAgrees /\ NobodyWaitsInVain
<1> SUFFICES ASSUME Init PROVE ClosingAgrees /\ NobodyWaitsInVain
  OBVIOUS
<1>1. /\ closing = "no" /\ waiters = <<>>
      /\ \A p \in Callers : pc[p] = "idle"
  BY DEF Init
<1> QED
  BY <1>1 DEF ClosingAgrees, NobodyWaitsInVain, Callers

----------------------------------------------------------------------------
(* A call that waits for a holder is in the line that the next release,    *)
(* resize, close() or terminate() serves, and never waits beside a holder  *)
(* that is free or after the client was closed.                            *)
THEOREM WaitingIsSound == Spec => []NobodyWaitsInVain
<1>1. Init => WInv
  BY InitInv, InitWait DEF WInv
<1>2. WInv /\ [Next]_vars => WInv'
  BY NextInv, NextWait, NextClosing DEF WInv
<1>3. WInv => NobodyWaitsInVain
  BY DEF WInv
<1> QED
  BY <1>1, <1>2, <1>3, PTL DEF Spec

(* After close() or terminate() no call is handed a holder any more, by    *)
(* whatever path a holder comes back.                                      *)
THEOREM ClosedToNewCalls == Spec => NoAdmissionAfterClose
<1>1. Init => WInv
  BY InitInv, InitWait DEF WInv
<1>2. WInv /\ [Next]_vars => WInv'
  BY NextInv, NextWait, NextClosing DEF WInv
<1>3. WInv /\ [Next]_vars =>
        [\A p \in Borrowers : got'[p] \in Holder /\ got[p] # got'[p] => closing = "no"]_vars
  BY NextWait DEF Admits
<1> QED
  BY <1>1, <1>2, <1>3, PTL DEF Spec, NoAdmissionAfterClose

----------------------------------------------------------------------------
(***************************************************************************)
(* What ClientPool's close() guarantees about the holders it waited for,   *)
(* for any number of calls, holders, attempts and suggestions: once the    *)
(* call that worked with such a holder has released it, the holder is with *)
(* nobody, and the connection it has by then is closed for good.           *)
(***************************************************************************)


(* close() waits for holders in use, and nobody has one that was released. *)
CloseAgrees ==
  \A h \in Holder :
    /\ closeStage[h] # "none" => closing # "no"
    /\ closeStage[h] = "waiting" => inUse[h]
    /\ closeStage[h] \in {"woken", "released"} => \A p \in Borrowers : ~HandedTo(h, p)
    /\ closeStage[h] = "released" => ~Open(h)

CInv == WInv /\ CloseAgrees

----------------------------------------------------------------------------
(* A call works with nothing but the holder it was handed. *)
LEMMA HoldsStep ==
  IInv /\ [Next]_vars =>
    \A p \in Borrowers : holds'[p] \in {holds[p], got[p], NoHolder}
<1> SUFFICES ASSUME IInv, [Next]_vars, NEW q \in Borrowers
             PROVE  holds'[q] \in {holds[q], got[q], NoHolder}
  OBVIOUS
<1>t. holds \in [Borrowers -> Holder \cup {NoHolder}]
  BY DEF IInv, TypeOK
<1>1. ASSUME NEW p \in Borrowers,
             \/ UNCHANGED holds
             \/ holds' = [holds EXCEPT ![p] = got[p]]
             \/ holds' = [holds EXCEPT ![p] = NoHolder]
      PROVE  holds'[q] \in {holds[q], got[q], NoHolder}
  BY <1>t, <1>1
<1>2. ASSUME NEW p \in Borrowers, \/ AcquireHolder(p) \/ EnsureConnected(p)
                                \/ Step(p) \/ HandshakeHangs(p)
      PROVE  holds'[q] \in {holds[q], got[q], NoHolder}
  <2>1. \/ UNCHANGED holds
        \/ holds' = [holds EXCEPT ![p] = got[p]]
        \/ holds' = [holds EXCEPT ![p] = NoHolder]
    BY <1>2 DEF AcquireHolder, EnsureConnected, Step, Acquire, Dismissed, EnsureTakes,
                GetConnection, NewConnection, NoConnection, KeepConnection, HandshakeHangs,
                WakeUp, Retry, Finish, Release, PutBack
  <2> QED
    BY <1>1, <2>1
<1>3. ASSUME NEW p \in Ops, TransactionTimeout(p) PROVE UNCHANGED holds
  BY <1>3 DEF TransactionTimeout
<1>4. ASSUME NEW h \in Holder, ConnectionLost(h) \/ CloseReleased(h) PROVE UNCHANGED holds
  BY <1>4 DEF ConnectionLost, CloseReleased
<1>5. ASSUME NEW c, Close(c) \/ CloseDone(c) \/ CloseAwaited(c) \/ Terminate(c)
      PROVE  UNCHANGED holds
  BY <1>5 DEF Close, CloseDone, CloseAwaited, Terminate
<1>6. CASE UNCHANGED vars
  BY <1>6 DEF vars
<1> QED
  BY <1>2, <1>3, <1>4, <1>5, <1>6 DEF Next, Borrowers

(* Once the client is closing, a holder is with a call only if it was. *)
LEMMA HandedStep ==
  WInv /\ [Next]_vars /\ closing # "no" =>
    \A h \in Holder, p \in Borrowers : HandedTo(h, p)' => HandedTo(h, p)
<1> SUFFICES ASSUME WInv, [Next]_vars, closing # "no", NEW h \in Holder, NEW p \in Borrowers,
                    HandedTo(h, p)'
             PROVE  HandedTo(h, p)
  OBVIOUS
<1>1. IInv /\ Admits /\ NoHolder \notin Holder
  BY NextWait, PoolAssumption DEF WInv, PoolAssumption
<1>2. CASE got'[p] = h
  BY <1>1, <1>2 DEF Admits, HandedTo
<1>3. CASE holds'[p] = h
  BY <1>1, <1>3, HoldsStep DEF HandedTo
<1> QED
  BY <1>2, <1>3 DEF HandedTo

----------------------------------------------------------------------------
(* A step that does not concern close(): it releases no holder, and opens  *)
(* a connection at most for a call that has the holder.                    *)
LEMMA QuietClose ==
  ASSUME CInv, [Next]_vars, UNCHANGED closeStage, closing # "no" => closing' # "no",
         \A h \in Holder : inUse[h] => inUse'[h],
         \A h \in Holder : conn'[h] = "open" =>
           conn[h] = "open" \/ \E p \in Borrowers : HandedTo(h, p)
  PROVE  CloseAgrees'
BY HandedStep DEF CInv, CloseAgrees, Open

(* A call lets its holder go: close() is woken, nobody else gets it. *)
LEMMA ReleaseClose ==
  ASSUME CInv, [Next]_vars, NEW p \in Borrowers, Release(p), NEW h \in Holder, holds[p] = h
  PROVE  CloseAgrees'
<1>1. /\ pc[p] = "releasing" /\ UNCHANGED <<closing, conn>> /\ Q!Push(h)
      /\ inUse' = [inUse EXCEPT ![h] = FALSE]
      /\ closeStage' = [closeStage EXCEPT ![h] = IF @ = "waiting" THEN "woken" ELSE @]
      /\ holds' = [holds EXCEPT ![p] = NoHolder]
  BY DEF Release
<1>t. /\ NoHolder \notin Holder
      /\ holds \in [Borrowers -> Holder \cup {NoHolder}]
      /\ inUse \in [Holder -> BOOLEAN]
      /\ closeStage \in [Holder -> {"none", "waiting", "woken", "released", "closed"}]
  BY PoolAssumption DEF PoolAssumption, CInv, WInv, IInv, TypeOK
<1>2. got[p] = NoHolder /\ CloseAgrees /\ NobodyWaitsInVain
  BY <1>1 DEF CInv, WInv, IInv, Placed, PcAgrees
<1>3. HandedTo(h, p) /\ \A q \in Borrowers : HandedTo(h, q) => q = p
  BY DEF HandedTo, CInv, WInv, IInv, Placed, Exclusive
<1>4. closing # "no" => \A q \in Borrowers : ~HandedTo(h, q)'
  <2> SUFFICES ASSUME closing # "no", NEW q \in Borrowers PROVE ~HandedTo(h, q)'
    OBVIOUS
  <2>1. UNCHANGED got
    BY <1>1, <1>2 DEF NobodyWaitsInVain, Q!Push
  <2>2. CASE q = p
    BY <1>1, <1>t, <1>2, <2>1, <2>2 DEF HandedTo
  <2>3. CASE q # p
    BY <1>3, <2>3, HandedStep DEF CInv
  <2> QED
    BY <2>2, <2>3
<1> SUFFICES ASSUME NEW g \in Holder
             PROVE  /\ closeStage'[g] # "none" => closing' # "no"
                    /\ closeStage'[g] = "waiting" => inUse'[g]
                    /\ closeStage'[g] \in {"woken", "released"} =>
                         \A q \in Borrowers : ~HandedTo(g, q)'
                    /\ closeStage'[g] = "released" => ~(conn'[g] = "open")
  BY DEF CloseAgrees, Open
<1>5. CASE g = h
  <2>1. closeStage[g] \notin {"woken", "released"}
    BY <1>2, <1>3, <1>5 DEF CloseAgrees
  <2>2. closeStage'[g] = IF closeStage[g] = "waiting" THEN "woken" ELSE closeStage[g]
    BY <1>1, <1>t, <1>5
  <2> QED
    BY <1>1, <1>2, <1>4, <1>5, <2>1, <2>2 DEF CloseAgrees
<1>6. CASE g # h
  <2>1. closeStage'[g] = closeStage[g] /\ inUse'[g] = inUse[g]
    BY <1>1, <1>t, <1>6
  <2>2. closing # "no" => \A q \in Borrowers : HandedTo(g, q)' => HandedTo(g, q)
    BY HandedStep DEF CInv
  <2> QED
    BY <1>1, <1>2, <2>1, <2>2 DEF CloseAgrees, Open
<1> QED
  BY <1>5, <1>6

LEMMA NextClose == CInv /\ [Next]_vars => CloseAgrees'
<1> SUFFICES ASSUME CInv, [Next]_vars PROVE CloseAgrees'
  OBVIOUS
<1>t. /\ inUse \in [Holder -> BOOLEAN] /\ NoHolder \notin Holder
      /\ conn \in [Holder -> {"none", "open", "lost", "closed"}]
      /\ closeStage \in [Holder -> {"none", "waiting", "woken", "released", "closed"}]
      /\ PcAgrees /\ CloseAgrees
  BY PoolAssumption DEF PoolAssumption, CInv, WInv, IInv, Placed, TypeOK
<1>1. ASSUME NEW p \in Borrowers,
             \/ AcquireHolder(p) \/ EnsureConnected(p) \/ Dismissed(p) \/ EnsureTakes(p)
             \/ GetConnection(p) \/ NewConnection(p) \/ NoConnection(p)
             \/ HandshakeHangs(p) \/ WakeUp(p) \/ Retry(p) \/ Finish(p) \/ PutBack(p)
      PROVE  CloseAgrees'
  <2>1. UNCHANGED <<closing, closeStage, inUse, conn>>
    BY <1>1 DEF AcquireHolder, EnsureConnected, Dismissed, EnsureTakes, GetConnection,
                NewConnection, NoConnection, HandshakeHangs, WakeUp, Retry, Finish, PutBack
  <2> QED
    BY <2>1, QuietClose
<1>2. ASSUME NEW p \in Borrowers, Acquire(p) PROVE CloseAgrees'
  <2>1. UNCHANGED <<closing, closeStage, conn>> /\ \A h \in Holder : inUse[h] => inUse'[h]
    BY <1>t, <1>2 DEF Acquire
  <2> QED
    BY <2>1, QuietClose
<1>3. ASSUME NEW p \in Borrowers, KeepConnection(p) PROVE CloseAgrees'
  <2>1. /\ UNCHANGED <<closing, closeStage, inUse>>
        /\ conn' = [conn EXCEPT ![holds[p]] = "open"]
    BY <1>3 DEF KeepConnection
  <2>2. \A h \in Holder : conn'[h] = "open" => conn[h] = "open" \/ holds[p] = h
    BY <1>t, <2>1
  <2> QED
    BY <2>1, <2>2, QuietClose DEF HandedTo
<1>4. ASSUME NEW p \in Ops, TransactionTimeout(p) PROVE CloseAgrees'
  <2>1. /\ UNCHANGED <<closing, closeStage, inUse>>
        /\ conn' = [conn EXCEPT ![holds[p]] = "lost"]
    BY <1>4 DEF TransactionTimeout
  <2>2. \A h \in Holder : conn'[h] = "open" => conn[h] = "open"
    BY <1>t, <2>1
  <2> QED
    BY <2>1, <2>2, QuietClose
<1>5. ASSUME NEW h \in Holder, ConnectionLost(h) PROVE CloseAgrees'
  <2>1. /\ UNCHANGED <<closing, closeStage, inUse>>
        /\ conn' = [conn EXCEPT ![h] = "lost"]
    BY <1>5 DEF ConnectionLost
  <2>2. \A g \in Holder : conn'[g] = "open" => conn[g] = "open"
    BY <1>t, <2>1
  <2> QED
    BY <2>1, <2>2, QuietClose
<1>6. ASSUME NEW h \in Holder, CloseReleased(h) PROVE CloseAgrees'
  <2>1. /\ UNCHANGED <<closing, inUse>> /\ closeStage[h] = "woken"
        /\ closeStage' = [closeStage EXCEPT ![h] = "released"]
        /\ conn' = [conn EXCEPT ![h] = IF conn[h] = "open" THEN "closed" ELSE @]
    BY <1>6 DEF CloseReleased, Open
  <2>2. closing # "no"
    BY <1>t, <2>1 DEF CloseAgrees
  <2>3. \A g \in Holder, q \in Borrowers : HandedTo(g, q)' => HandedTo(g, q)
    BY <2>2, HandedStep DEF CInv
  <2> SUFFICES ASSUME NEW g \in Holder
               PROVE  /\ closeStage'[g] # "none" => closing' # "no"
                      /\ closeStage'[g] = "waiting" => inUse'[g]
                      /\ closeStage'[g] \in {"woken", "released"} =>
                           \A q \in Borrowers : ~HandedTo(g, q)'
                      /\ closeStage'[g] = "released" => ~(conn'[g] = "open")
    BY DEF CloseAgrees, Open
  <2>4. CASE g = h
    <3>1. closeStage'[g] = "released" /\ conn'[g] # "open"
      BY <1>t, <2>1, <2>4
    <3>2. \A q \in Borrowers : ~HandedTo(g, q)
      BY <1>t, <2>1, <2>4 DEF CloseAgrees
    <3> QED
      BY <2>1, <2>2, <2>3, <3>1, <3>2
  <2>5. CASE g # h
    <3>1. closeStage'[g] = closeStage[g] /\ conn'[g] = conn[g]
      BY <1>t, <2>1, <2>5
    <3> QED
      BY <1>t, <2>1, <2>2, <2>3, <3>1 DEF CloseAgrees, Open
  <2> QED
    BY <2>4, <2>5
<1>7. ASSUME NEW c \in Closers, Close(c) PROVE CloseAgrees'
  <2>1. CASE closing # "no"
    <3>1. UNCHANGED <<closing, closeStage, inUse, conn>>
      BY <1>7, <2>1 DEF Close
    <3> QED
      BY <3>1, QuietClose
  <2>2. CASE closing = "no"
    <3>1. /\ closing' = "pending" /\ UNCHANGED inUse
          /\ \A h \in Holder : closeStage'[h] =
               IF h > holders THEN "none" ELSE IF inUse[h] THEN "waiting" ELSE "closed"
      BY <1>7, <2>2 DEF Close
    <3> QED
      BY <3>1 DEF CloseAgrees
  <2> QED
    BY <2>1, <2>2
<1>8. ASSUME NEW c, CloseDone(c) \/ CloseAwaited(c) PROVE CloseAgrees'
  <2>1. UNCHANGED <<closeStage, inUse, conn>> /\ (closing # "no" => closing' # "no")
    BY <1>8 DEF CloseDone, CloseAwaited
  <2> QED
    BY <2>1, QuietClose
<1>9. ASSUME NEW t \in Terminators, Terminate(t) PROVE CloseAgrees'
  <2>1. /\ UNCHANGED <<closeStage, inUse>> /\ (closing # "no" => closing' # "no")
        /\ \A h \in Holder : conn'[h] = "open" => conn[h] = "open"
    BY <1>9 DEF Terminate, Open
  <2> QED
    BY <2>1, QuietClose
<1>10. ASSUME NEW p \in Borrowers, Release(p) PROVE CloseAgrees'
  <2>1. pc[p] \in Working
    BY <1>10 DEF Release, Working
  <2>2. holds[p] \in Holder
    BY <2>1 DEF CInv, WInv, IInv, Placed, PcAgrees, TypeOK
  <2> QED
    BY <1>10, <2>2, ReleaseClose
<1>11. CASE UNCHANGED vars
  <2>1. UNCHANGED <<closing, closeStage, inUse, conn>>
    BY <1>11 DEF vars
  <2> QED
    BY <2>1, QuietClose
<1> QED
  BY <1>1, <1>2, <1>3, <1>4, <1>5, <1>6, <1>7, <1>8, <1>9, <1>10, <1>11
     DEF Next, Step, Borrowers

----------------------------------------------------------------------------
(* What close() has waited for and closed stays closed: the holder is in   *)
(* nobody's hands and no call opens a connection for it again, also when   *)
(* its last call retries, reconnects or fails while close() waits.         *)
THEOREM ClosedForGood == Spec => []ReleasedStayClosed
<1>1. Init => CInv
  <2> SUFFICES ASSUME Init PROVE CInv
    OBVIOUS
  <2>1. \A h \in Holder : closeStage[h] = "none"
    BY DEF Init
  <2> QED
    BY <2>1, InitInv, InitWait DEF CInv, WInv, CloseAgrees
<1>2. CInv /\ [Next]_vars => CInv'
  BY NextInv, NextWait, NextClosing, NextClose DEF CInv, WInv
<1>3. CInv => ReleasedStayClosed
  <2> SUFFICES ASSUME CInv, NEW h \in Holder, closeStage[h] = "released"
               PROVE  ~Open(h) /\ ~inUse[h]
    BY DEF ReleasedStayClosed
  <2>1. ~Open(h) /\ \A p \in Borrowers : ~HandedTo(h, p)
    BY DEF CInv, CloseAgrees
  <2> QED
    BY <2>1 DEF CInv, WInv, IInv, InUseTellsTheTruth, HandedTo, Borrowers
<1> QED
  BY <1>1, <1>2, <1>3, PTL DEF Spec
=============================================================================
