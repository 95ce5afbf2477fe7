---------------------------- MODULE StructureProofs ----------------------------
(***************************************************************************)
(* What Structures promises of the cache, whatever its capacity, of the    *)
(* options, whatever is called, and of the CLI, whatever is in PATH, the   *)
(* server offers, and however many launches there are.                     *)
(***************************************************************************)
EXTENDS Structures, FiniteSetTheorems, SequenceTheorems, WellFoundedInduction, TLAPS

(* Every set of natural numbers has a least element: the order of the      *)
(* natural numbers is well founded.                                        *)
LEMMA Least ==
  ASSUME NEW T, T \subseteq Nat, T # {}
  PROVE  \E x \in T : \A y \in T : x <= y
<1>1. IsWellFoundedOn(OpToRel(<, Nat), Nat)
  BY NatLessThanWellFounded, Zenon
<1>2. PICK x \in T : \A y \in T : ~ (<<y, x>> \in OpToRel(<, Nat))
  BY <1>1, WFMin, Zenon
<1>3. \A y \in T : ~ (y < x)
  BY <1>2 DEF OpToRel
<1> QED
  BY <1>3, SMT

(* Induction, for a property that is given as a set.                       *)
LEMMA Induction ==
  ASSUME NEW S, 0 \in S, \A n \in Nat : n \in S => n + 1 \in S
  PROVE  Nat \subseteq S
<1> SUFFICES ASSUME Nat \ S # {} PROVE FALSE
  OBVIOUS
<1>1. PICK x \in Nat \ S : \A y \in Nat \ S : x <= y
  BY Least
<1>2. x # 0 /\ x - 1 \in Nat
  BY <1>1
<1>3. x - 1 \in S
  BY <1>1, <1>2
<1> QED
  BY <1>1, <1>2, <1>3

----------------------------------------------------------------------------
(* The cache. *)

(* Link by link, the list is the sequence, and the map has its keys.       *)
At(ref, n) == IF n \in 1 .. Len(ref) THEN ref[n][1] ELSE NoNode
Node(ref, n) == [value |-> ref[n][2], prev |-> At(ref, n - 1), next |-> At(ref, n + 1)]
Linked(c, ref) ==
  /\ ref \in Seq(Keys \X Values)
  /\ \A m, n \in 1 .. Len(ref) : ref[m][1] = ref[n][1] => m = n
  /\ c = [nodes |-> c.nodes, head |-> c.head, tail |-> c.tail, len |-> c.len]
  /\ DOMAIN c.nodes = {ref[n][1] : n \in 1 .. Len(ref)}
  /\ \A n \in 1 .. Len(ref) : c.nodes[ref[n][1]] = Node(ref, n)
  /\ c.head = At(ref, 1) /\ c.tail = At(ref, Len(ref)) /\ c.len = Len(ref)

(* There is one path from each node: a function that follows the links is it. *)
Follows(path, c, from, link) ==
  path = [n \in 1 .. c.len + 1 |-> IF n = 1 THEN from
                                   ELSE IF path[n - 1] = NoNode THEN NoNode
                                   ELSE c.nodes[path[n - 1]][link]]
LEMMA PathIs ==
  ASSUME NEW c, c.len \in Nat, NEW from, NEW link, NEW path, Follows(path, c, from, link)
  PROVE  Path(c, from, link) = path
<1> DEFINE node == Path(c, from, link)
<1>8. path = [n \in 1 .. c.len + 1 |-> IF n = 1 THEN from
                                ELSE IF path[n - 1] = NoNode THEN NoNode
                                ELSE c.nodes[path[n - 1]][link]]
  BY DEF Follows
<1>1. node = [n \in 1 .. c.len + 1 |-> IF n = 1 THEN from
                                ELSE IF node[n - 1] = NoNode THEN NoNode
                                ELSE c.nodes[node[n - 1]][link]]
  BY <1>8 DEF Path
<1> HIDE DEF node
<1> DEFINE S == {m \in Nat : m < c.len + 1 => node[m + 1] = path[m + 1]}
<1>2. 0 \in S
  <2>1. 1 \in 1 .. c.len + 1
    OBVIOUS
  <2> QED
    BY <1>1, <1>8, <2>1
<1>3. ASSUME NEW m \in Nat, m \in S PROVE m + 1 \in S
  <2> SUFFICES ASSUME m + 1 < c.len + 1 PROVE node[m + 2] = path[m + 2]
    OBVIOUS
  <2>1. node[m + 1] = path[m + 1] /\ m + 2 \in 1 .. c.len + 1 /\ m + 2 # 1 /\ (m + 2) - 1 = m + 1
    BY <1>3
  <2> HIDE DEF S
  <2> QED
    BY <1>1, <1>8, <2>1
<1>4. Nat \subseteq S
  <2> HIDE DEF S
  <2> QED
    BY <1>2, <1>3, Induction
<1>5. ASSUME NEW m \in 1 .. c.len + 1 PROVE node[m] = path[m]
  <2>1. m - 1 \in Nat /\ m - 1 < c.len + 1 /\ (m - 1) + 1 = m
    OBVIOUS
  <2> QED
    BY <1>4, <2>1
<1>6. node = [m \in 1 .. c.len + 1 |-> node[m]] /\ path = [m \in 1 .. c.len + 1 |-> path[m]]
  BY <1>1, <1>8
<1>7. node = path
  BY <1>5, <1>6, Zenon
<1> QED
  BY <1>7 DEF node

(* Followed from either end, the links lead through the whole sequence.    *)
LEMMA LinkedAgrees ==
  ASSUME NEW c, NEW ref, Linked(c, ref)
  PROVE  Agrees(c, ref)
<1> DEFINE n == Len(ref)
<1> DEFINE down == [m \in 1 .. n + 1 |-> At(ref, m)]
<1> DEFINE up == [m \in 1 .. n + 1 |-> At(ref, n + 1 - m)]
<1>1. n \in Nat /\ c.len = n /\ NoNode \notin Keys /\ ref \in [1 .. n -> Keys \X Values]
  BY StructuresAssumption, LenProperties DEF Linked, StructuresAssumption
<1>2. \A m \in 1 .. n : ref[m][1] \in Keys /\ ref[m][1] # NoNode /\ At(ref, m) = ref[m][1]
  BY <1>1 DEF At
<1>9. \A m \in 1 .. n : c.nodes[ref[m][1]] = Node(ref, m)
  BY Zenon DEF Linked
<1>10. \A m : /\ Node(ref, m).value = ref[m][2]
             /\ Node(ref, m).prev = At(ref, m - 1) /\ Node(ref, m).next = At(ref, m + 1)
  BY DEF Node
<1>3. c.head = At(ref, 1) /\ c.tail = At(ref, n)
  BY DEF Linked
<1>11. c.len \in Nat
  BY <1>1
<1>4. Path(c, c.head, "next") = down
  <2>1. ASSUME NEW m \in 1 .. n + 1, m # 1
        PROVE  At(ref, m) = IF down[m - 1] = NoNode THEN NoNode ELSE c.nodes[down[m - 1]].next
    <3>1. m - 1 \in 1 .. n /\ m - 1 \in 1 .. n + 1 /\ (m - 1) + 1 = m
      BY <1>1, <2>1
    <3>2. c.nodes[ref[m - 1][1]].next = At(ref, m)
      BY <3>1, <1>9, <1>10
    <3> QED
      BY <1>2, <3>1, <3>2
  <2>2. Follows(down, c, c.head, "next")
    BY <1>1, <1>3, <2>1 DEF Follows
  <2> HIDE DEF down
  <2> QED
    BY <1>11, <2>2, PathIs, Zenon
<1>5. Path(c, c.tail, "prev") = up
  <2>1. ASSUME NEW m \in 1 .. n + 1, m # 1
        PROVE  At(ref, n + 1 - m) = IF up[m - 1] = NoNode THEN NoNode ELSE c.nodes[up[m - 1]].prev
    <3>1. /\ n + 1 - (m - 1) \in 1 .. n /\ m - 1 \in 1 .. n + 1
          /\ (n + 1 - (m - 1)) - 1 = n + 1 - m
      BY <1>1, <2>1
    <3>2. c.nodes[ref[n + 1 - (m - 1)][1]].prev = At(ref, n + 1 - m)
      BY <3>1, <1>9, <1>10
    <3> QED
      BY <1>2, <3>1, <3>2
  <2>2. up[1] = c.tail /\ 1 \in 1 .. n + 1
    BY <1>1, <1>3
  <2>3. Follows(up, c, c.tail, "prev")
    BY <1>1, <2>1, <2>2 DEF Follows
  <2> HIDE DEF up
  <2> QED
    BY <1>11, <2>3, PathIs, Zenon
<1>6. Cardinality(DOMAIN c.nodes) = n
  <2> DEFINE f == [m \in 1 .. n |-> ref[m][1]]
  <2>1. f \in Bijection(1 .. n, DOMAIN c.nodes)
    BY <1>1 DEF Linked, Bijection, Injection, Surjection, IsInjective
  <2> QED
    BY <1>1, <2>1, FS_CountingElements DEF ExistsBijection
<1>7. /\ down[n + 1] = NoNode /\ up[n + 1] = NoNode
      /\ \A m \in 1 .. n : down[m] = ref[m][1] /\ up[m] = ref[n + 1 - m][1]
  <2>1. \A m \in 1 .. n : m \in 1 .. n + 1 /\ n + 1 - m \in 1 .. n
    BY <1>1
  <2>2. n + 1 \in 1 .. n + 1 /\ n + 1 \notin 1 .. n /\ n + 1 - (n + 1) \notin 1 .. n
    BY <1>1
  <2> QED
    BY <1>2, <2>1, <2>2 DEF At
<1>8. Entries(c) = ref
  <2> HIDE DEF down, up
  <2>1. Entries(c) = [m \in 1 .. c.len |-> <<down[m], c.nodes[down[m]].value>>]
    BY <1>4, Zenon DEF Entries
  <2>2. ASSUME NEW m \in 1 .. n PROVE <<down[m], c.nodes[down[m]].value>> = ref[m]
    <3>1. c.nodes[ref[m][1]].value = ref[m][2] /\ down[m] = ref[m][1] /\ ref[m] \in Keys \X Values
      BY <1>1, <1>7, <1>9, <1>10
    <3> QED
      BY <3>1
  <2> QED
    BY <1>1, <2>1, <2>2
<1> HIDE DEF down, up
<1> QED
  BY <1>1, <1>4, <1>5, <1>6, <1>7, <1>8, Zenon DEF Agrees

(* The assignments to a field of a node, seen from any node.               *)
LEMMA SetNextAt ==
  ASSUME NEW nodes, NEW x \in DOMAIN nodes, NEW k, NEW m, NEW v, NEW p, NEW n,
         nodes[x] = [value |-> v, prev |-> p, next |-> n]
  PROVE  /\ DOMAIN SetNext(nodes, k, m) = DOMAIN nodes
         /\ SetNext(nodes, k, m)[x] = [value |-> v, prev |-> p, next |-> IF x = k THEN m ELSE n]
<1>1. [[value |-> v, prev |-> p, next |-> n] EXCEPT !.next = m] = [value |-> v, prev |-> p, next |-> m]
  OBVIOUS
<1>2. SetNext(nodes, k, m)[x] = IF x = k THEN [nodes[x] EXCEPT !.next = m] ELSE nodes[x]
  BY Zenon DEF SetNext
<1>3. DOMAIN SetNext(nodes, k, m) = DOMAIN nodes
  BY Zenon DEF SetNext
<1> QED
  BY <1>1, <1>2, <1>3

LEMMA SetPrevAt ==
  ASSUME NEW nodes, NEW x \in DOMAIN nodes, NEW k, NEW m, NEW v, NEW p, NEW n,
         nodes[x] = [value |-> v, prev |-> p, next |-> n]
  PROVE  /\ DOMAIN SetPrev(nodes, k, m) = DOMAIN nodes
         /\ SetPrev(nodes, k, m)[x] = [value |-> v, prev |-> IF x = k THEN m ELSE p, next |-> n]
<1>1. [[value |-> v, prev |-> p, next |-> n] EXCEPT !.prev = m] = [value |-> v, prev |-> m, next |-> n]
  OBVIOUS
<1>2. SetPrev(nodes, k, m)[x] = IF x = k THEN [nodes[x] EXCEPT !.prev = m] ELSE nodes[x]
  BY Zenon DEF SetPrev
<1>3. DOMAIN SetPrev(nodes, k, m) = DOMAIN nodes
  BY Zenon DEF SetPrev
<1> QED
  BY <1>1, <1>2, <1>3

LEMMA MoveAt ==
  ASSUME NEW nodes, NEW x \in DOMAIN nodes, NEW k, NEW prev, NEW next, NEW head,
         NEW v, NEW p, NEW n, nodes[x] = [value |-> v, prev |-> p, next |-> n]
  PROVE  LET new == SetNext(SetPrev(SetPrev(SetPrev(SetNext(nodes, prev, next), next, prev), head, k),
                                    k, NoNode), k, head)
         IN /\ DOMAIN new = DOMAIN nodes
            /\ new[x] = [value |-> v,
                         prev |-> IF x = k THEN NoNode ELSE IF x = head THEN k
                                  ELSE IF x = next THEN prev ELSE p,
                         next |-> IF x = k THEN head ELSE IF x = prev THEN next ELSE n]
<1> DEFINE S1 == SetNext(nodes, prev, next)
<1> DEFINE S2 == SetPrev(S1, next, prev)
<1> DEFINE S3 == SetPrev(S2, head, k)
<1> DEFINE S4 == SetPrev(S3, k, NoNode)
<1> DEFINE S5 == SetNext(S4, k, head)
<1>1. PICK n1 : n1 = IF x = prev THEN next ELSE n
  OBVIOUS
<1>2. PICK p1 : p1 = IF x = next THEN prev ELSE p
  OBVIOUS
<1>3. PICK p2 : p2 = IF x = head THEN k ELSE p1
  OBVIOUS
<1>4. PICK p3 : p3 = IF x = k THEN NoNode ELSE p2
  OBVIOUS
<1>5. PICK n2 : n2 = IF x = k THEN head ELSE n1
  OBVIOUS
<1>6. x \in DOMAIN S1 /\ DOMAIN S1 = DOMAIN nodes /\ S1[x] = [value |-> v, prev |-> p, next |-> n1]
  BY <1>1, SetNextAt
<1> HIDE DEF S1
<1>7. x \in DOMAIN S2 /\ DOMAIN S2 = DOMAIN nodes /\ S2[x] = [value |-> v, prev |-> p1, next |-> n1]
  BY <1>2, <1>6, SetPrevAt
<1> HIDE DEF S2
<1>8. x \in DOMAIN S3 /\ DOMAIN S3 = DOMAIN nodes /\ S3[x] = [value |-> v, prev |-> p2, next |-> n1]
  BY <1>3, <1>7, SetPrevAt
<1> HIDE DEF S3
<1>9. x \in DOMAIN S4 /\ DOMAIN S4 = DOMAIN nodes /\ S4[x] = [value |-> v, prev |-> p3, next |-> n1]
  BY <1>4, <1>8, SetPrevAt
<1> HIDE DEF S4
<1>10. DOMAIN S5 = DOMAIN nodes /\ S5[x] = [value |-> v, prev |-> p3, next |-> n2]
  BY <1>5, <1>9, SetNextAt
<1>11. p3 = (IF x = k THEN NoNode ELSE IF x = head THEN k ELSE IF x = next THEN prev ELSE p)
  BY <1>2, <1>3, <1>4
<1>12. n2 = (IF x = k THEN head ELSE IF x = prev THEN next ELSE n)
  BY <1>1, <1>5
<1> HIDE DEF S5
<1> QED
  BY <1>10, <1>11, <1>12 DEF S1, S2, S3, S4, S5

(* What Linked says of one entry.                                          *)
LEMMA LinkedEntry ==
  ASSUME NEW c, NEW ref, Linked(c, ref)
  PROVE  /\ Len(ref) \in Nat /\ ref \in [1 .. Len(ref) -> Keys \X Values] /\ DOMAIN ref = 1 .. Len(ref)
         /\ \A m \in 1 .. Len(ref) :
              /\ ref[m] \in Keys \X Values /\ ref[m] = <<ref[m][1], ref[m][2]>>
              /\ ref[m][1] \in Keys /\ ref[m][2] \in Values
              /\ ref[m][1] # NoNode /\ At(ref, m) = ref[m][1]
              /\ ref[m][1] \in DOMAIN c.nodes /\ c.nodes[ref[m][1]] = Node(ref, m)
         /\ \A m, n \in 1 .. Len(ref) : ref[m][1] = ref[n][1] <=> m = n
<1>1. Len(ref) \in Nat /\ ref \in [1 .. Len(ref) -> Keys \X Values] /\ DOMAIN ref = 1 .. Len(ref)
  BY LenProperties DEF Linked
<1>2. \A m \in 1 .. Len(ref) : ref[m] \in Keys \X Values /\ ref[m] = <<ref[m][1], ref[m][2]>>
                              /\ ref[m][1] \in Keys /\ ref[m][2] \in Values
  BY <1>1
<1>3. \A m \in 1 .. Len(ref) : ref[m][1] # NoNode
  BY <1>2, StructuresAssumption DEF StructuresAssumption
<1>4. \A m \in 1 .. Len(ref) : At(ref, m) = ref[m][1]
  BY DEF At
<1>5. \A m \in 1 .. Len(ref) : ref[m][1] \in DOMAIN c.nodes /\ c.nodes[ref[m][1]] = Node(ref, m)
  BY Zenon DEF Linked
<1>6. \A m, n \in 1 .. Len(ref) : ref[m][1] = ref[n][1] <=> m = n
  BY Zenon DEF Linked
<1> QED
  BY <1>1, <1>2, <1>3, <1>4, <1>5, <1>6

(* A node that is used moves to the top.                                   *)
LEMMA MoveLinked ==
  ASSUME NEW c, NEW ref, Linked(c, ref), NEW p \in 1 .. Len(ref)
  PROVE  Linked(MoveToTop(c, ref[p][1]), ToFront(ref, p, ref[p]))
<1> DEFINE k == ref[p][1]
<1> DEFINE N == Len(ref)
<1> DEFINE new == ToFront(ref, p, ref[p])
<1> DEFINE prev == At(ref, p - 1)
<1> DEFINE next == At(ref, p + 1)
<1>1. /\ N \in Nat /\ ref \in [1 .. N -> Keys \X Values] /\ DOMAIN ref = 1 .. N
      /\ \A m \in 1 .. N :
              /\ ref[m] \in Keys \X Values /\ ref[m][1] # NoNode /\ At(ref, m) = ref[m][1]
              /\ ref[m][1] \in DOMAIN c.nodes /\ c.nodes[ref[m][1]] = Node(ref, m)
      /\ \A m, n \in 1 .. N : ref[m][1] = ref[n][1] <=> m = n
  BY LinkedEntry
<1>8. N \in Nat /\ p \in Nat
  BY <1>1
<1>2. /\ c.head = At(ref, 1) /\ c.tail = At(ref, N) /\ c.len = N
      /\ DOMAIN c.nodes = {ref[n][1] : n \in 1 .. N}
      /\ c = [nodes |-> c.nodes, head |-> c.head, tail |-> c.tail, len |-> c.len]
  BY Zenon DEF Linked
<1>3. c.nodes[k].prev = prev /\ c.nodes[k].next = next
  <2>1. c.nodes[k] = [value |-> ref[p][2], prev |-> prev, next |-> next]
    BY <1>1, Zenon DEF Node
  <2> QED
    BY <2>1
<1>4. new \in [1 .. N -> Keys \X Values] /\ DOMAIN new = 1 .. N /\ new \in Seq(Keys \X Values) /\ Len(new) = N
  <2>1. \A m \in 1 .. N : (m # 1 /\ m <= p) => m - 1 \in 1 .. N
    BY <1>1
  <2>2. new \in [1 .. N -> Keys \X Values] /\ DOMAIN new = 1 .. N
    BY <1>1, <2>1 DEF ToFront
  <2> QED
    BY <1>1, <2>2, SeqDef, LenProperties
<1>5. \A m \in 1 .. N : new[m] = IF m = 1 THEN ref[p] ELSE IF m <= p THEN ref[m - 1] ELSE ref[m]
  BY <1>1 DEF ToFront
<1>6. CASE p = 1
  <2>1. new = ref
    BY <1>1, <1>4, <1>5, <1>6
  <2>2. prev = NoNode
    BY <1>6 DEF At
  <2>3. MoveToTop(c, k) = c
    BY <1>3, <2>2 DEF MoveToTop
  <2> QED
    BY <2>1, <2>3
<1>7. CASE p # 1
  <2> DEFINE S == SetNext(SetPrev(SetPrev(SetPrev(SetNext(c.nodes, prev, next), next, prev), c.head, k),
                                  k, NoNode), k, c.head)
  <2> DEFINE d == [nodes |-> S, head |-> k, tail |-> IF c.tail = k THEN prev ELSE c.tail, len |-> c.len]
  <2>1. p - 1 \in 1 .. N /\ prev # NoNode /\ prev = ref[p - 1][1]
    BY <1>1, <1>7
  <2>2. MoveToTop(c, k) = d
    BY <1>2, <1>3, <2>1 DEF MoveToTop
  <2>3. ASSUME NEW m \in 1 .. N
        PROVE  /\ ref[m][1] \in DOMAIN S /\ DOMAIN S = DOMAIN c.nodes
               /\ S[ref[m][1]] = [value |-> ref[m][2],
                                  prev |-> IF m = p THEN NoNode ELSE IF m = 1 THEN k
                                           ELSE IF m = p + 1 THEN prev ELSE At(ref, m - 1),
                                  next |-> IF m = p THEN At(ref, 1) ELSE IF m = p - 1 THEN next
                                           ELSE At(ref, m + 1)]
    <3> DEFINE x == ref[m][1]
    <3> DEFINE v == ref[m][2]
    <3> DEFINE p3 == IF x = k THEN NoNode ELSE IF x = c.head THEN k
                     ELSE IF x = next THEN prev ELSE At(ref, m - 1)
    <3> DEFINE n2 == IF x = k THEN c.head ELSE IF x = prev THEN next ELSE At(ref, m + 1)
    <3>1. x \in DOMAIN c.nodes /\ c.nodes[x] = [value |-> v, prev |-> At(ref, m - 1), next |-> At(ref, m + 1)]
      BY <1>1, Zenon DEF Node
    <3>6. DOMAIN S = DOMAIN c.nodes /\ S[x] = [value |-> v, prev |-> p3, next |-> n2]
      BY <3>1, MoveAt
    <3>7. (x = k <=> m = p) /\ (x = prev <=> m = p - 1) /\ (x = c.head <=> m = 1) /\ c.head = At(ref, 1)
      <4>1. 1 \in 1 .. N /\ At(ref, 1) = ref[1][1]
        BY <1>1, <2>1
      <4>2. (x = k <=> m = p) /\ (x = ref[p - 1][1] <=> m = p - 1) /\ (x = ref[1][1] <=> m = 1)
        BY <1>1, <2>1, <4>1, Zenon
      <4> QED
        BY <1>2, <2>1, <4>1, <4>2
    <3>8. x = next <=> m = p + 1
      BY <1>1 DEF At
    <3>9. p3 = (IF m = p THEN NoNode ELSE IF m = 1 THEN k
                ELSE IF m = p + 1 THEN prev ELSE At(ref, m - 1))
      BY <3>7, <3>8
    <3>10. n2 = (IF m = p THEN At(ref, 1) ELSE IF m = p - 1 THEN next ELSE At(ref, m + 1))
      BY <3>7, <2>1
    <3> HIDE DEF S, p3, n2
    <3> QED
      BY <3>1, <3>6, <3>9, <3>10
  <2>4. ASSUME NEW m \in 1 .. N PROVE new[m][1] \in DOMAIN S /\ S[new[m][1]] = Node(new, m)
    <3> HIDE DEF S
    <3>1. At(new, m) = new[m][1]
      BY <1>4 DEF At
    <3>2. \A i \in 1 .. N : At(new, i) = IF i = 1 THEN k ELSE At(ref, IF i <= p THEN i - 1 ELSE i)
      BY <1>1, <1>4, <1>5 DEF At
    <3>3. At(new, 0) = NoNode /\ At(new, N + 1) = NoNode /\ At(ref, 0) = NoNode /\ At(ref, N + 1) = NoNode
      BY <1>1, <1>4 DEF At
    <3>4. CASE m = 1
      <4>1. new[m] = ref[p] /\ m - 1 = 0
        BY <1>5, <3>4
      <4>2. 2 \in 1 .. N /\ 2 <= p
        BY <1>1, <1>7, <2>1
      <4>3. At(new, m + 1) = At(ref, 1) /\ At(new, m - 1) = NoNode
        BY <3>2, <3>3, <3>4, <4>1, <4>2
      <4> QED
        BY <1>1, <2>3, <4>1, <4>3 DEF Node
    <3>5. CASE m # 1 /\ m <= p
      <4>1. new[m] = ref[m - 1] /\ m - 1 \in 1 .. N /\ (m - 1) - 1 = m - 2 /\ (m - 1) + 1 = m
        BY <1>5, <3>5
      <4>2. At(new, m - 1) = IF m = 2 THEN k ELSE At(ref, m - 2)
        BY <3>2, <3>5, <4>1
      <4>3. At(new, m + 1) = IF m = p THEN At(ref, p + 1) ELSE At(ref, m)
        BY <1>1, <3>2, <3>3, <3>5
      <4>4. m - 1 # p /\ (m - 1 = 1 <=> m = 2) /\ (m - 1 = p - 1 <=> m = p) /\ m - 1 # p + 1
        BY <3>5
      <4> QED
        BY <1>1, <2>3, <4>1, <4>2, <4>3, <4>4 DEF Node
    <3>6. CASE m > p
      <4>1. new[m] = ref[m] /\ m # 1 /\ m # p /\ m # p - 1 /\ m - 1 \in 1 .. N
        BY <1>5, <2>1, <3>6
      <4>2. At(new, m - 1) = IF m = p + 1 THEN prev ELSE At(ref, m - 1)
        <5>1. At(new, m - 1) = At(ref, IF m - 1 <= p THEN (m - 1) - 1 ELSE m - 1)
          BY <1>7, <3>2, <3>6, <4>1
        <5>2. m - 1 <= p <=> m = p + 1
          BY <3>6
        <5> QED
          BY <5>1, <5>2
      <4>3. At(new, m + 1) = At(ref, m + 1)
        <5>1. CASE m = N
          BY <1>1, <3>3, <5>1
        <5>2. CASE m # N
          <6>1. m + 1 \in 1 .. N /\ m + 1 # 1 /\ ~ (m + 1 <= p)
            BY <1>8, <3>6, <5>2
          <6> QED
            BY <3>2, <6>1
        <5> QED
          BY <5>1, <5>2
      <4> QED
        BY <1>1, <1>7, <2>3, <4>1, <4>2, <4>3 DEF Node
    <3> QED
      BY <3>4, <3>5, <3>6
  <2>5. DOMAIN S = {new[n][1] : n \in 1 .. N}
    <3> HIDE DEF S
    <3>1. DOMAIN S = {ref[n][1] : n \in 1 .. N}
      BY <1>2, <2>3
    <3>2. ASSUME NEW n \in 1 .. N PROVE \E m \in 1 .. N : new[m][1] = ref[n][1]
      <4>1. CASE n = p
        BY <1>1, <1>5, <4>1
      <4>2. CASE n < p
        <5>1. n + 1 \in 1 .. N /\ n + 1 # 1 /\ n + 1 <= p
          BY <4>2
        <5> QED
          BY <1>5, <5>1
      <4>3. CASE n > p
        BY <1>5, <4>3
      <4> QED
        BY <4>1, <4>2, <4>3
    <3> DEFINE T == {new[n][1] : n \in 1 .. N}
    <3>3. ASSUME NEW x \in DOMAIN S PROVE x \in T
      <4>1. PICK n \in 1 .. N : x = ref[n][1]
        BY <3>1
      <4>2. PICK m \in 1 .. N : new[m][1] = ref[n][1]
        BY <3>2
      <4> QED
        BY <4>1, <4>2
    <3>4. ASSUME NEW x \in T PROVE x \in DOMAIN S
      BY <2>4
    <3> HIDE DEF T
    <3>5. DOMAIN S = T
      BY <3>3, <3>4
    <3> QED
      BY <3>5 DEF T
  <2>6. \A m, n \in 1 .. N : new[m][1] = new[n][1] => m = n
    <3> DEFINE from(m) == IF m = 1 THEN p ELSE IF m <= p THEN m - 1 ELSE m
    <3>1. \A m \in 1 .. N : from(m) \in 1 .. N /\ new[m] = ref[from(m)]
      BY <1>5, <1>8
    <3>2. \A m, n \in 1 .. N : from(m) = from(n) => m = n
      BY <1>8
    <3> HIDE DEF from
    <3>3. ASSUME NEW m \in 1 .. N, NEW n \in 1 .. N, new[m][1] = new[n][1] PROVE m = n
      <4>1. from(m) \in 1 .. N /\ from(n) \in 1 .. N /\ ref[from(m)][1] = ref[from(n)][1]
        BY <3>1, <3>3
      <4>2. from(m) = from(n)
        BY <1>1, <4>1, Zenon
      <4> QED
        BY <3>2, <4>2
    <3> QED
      BY <3>3
  <2>7. k = At(new, 1) /\ (IF c.tail = k THEN prev ELSE c.tail) = At(new, N)
    <3>1. 1 \in 1 .. N /\ N \in 1 .. N
      BY <1>1
    <3>2. new[1] = ref[p] /\ At(new, 1) = k
      BY <1>4, <1>5, <3>1 DEF At
    <3>3. c.tail = k <=> p = N
      BY <1>1, <1>2, <3>1
    <3>4. new[N] = IF p = N THEN ref[N - 1] ELSE ref[N]
      BY <1>5, <1>7, <2>1, <3>1
    <3> QED
      BY <1>1, <1>2, <1>4, <2>1, <3>1, <3>2, <3>3, <3>4 DEF At
  <2> HIDE DEF S
  <2>8. Linked(d, new)
    BY <1>1, <1>2, <1>4, <2>4, <2>5, <2>6, <2>7 DEF Linked
  <2> QED
    BY <2>2, <2>8
<1> QED
  BY <1>6, <1>7

(* What a sequence of entries is made of decides whether it is one.        *)
LEMMA EntriesAre ==
  ASSUME NEW n \in Nat, NEW new, DOMAIN new = 1 .. n, new = [m \in 1 .. n |-> new[m]],
         \A m \in 1 .. n : new[m] \in Keys \X Values
  PROVE  new \in Seq(Keys \X Values) /\ Len(new) = n
<1>1. new \in [1 .. n -> Keys \X Values]
  BY Zenon
<1>2. new \in Seq(Keys \X Values)
  BY <1>1, SeqDef
<1> QED
  BY <1>2, LenProperties

(* A new node goes on top.                                                 *)
LEMMA PushLinked ==
  ASSUME NEW c, NEW ref, Linked(c, ref), NEW k \in Keys, NEW v \in Values, ~ Holds(ref, k)
  PROVE  Linked(PushNode(c, k, v), [m \in 1 .. Len(ref) + 1 |-> IF m = 1 THEN <<k, v>> ELSE ref[m - 1]])
<1> DEFINE N == Len(ref)
<1> DEFINE new == [m \in 1 .. N + 1 |-> IF m = 1 THEN <<k, v>> ELSE ref[m - 1]]
<1> DEFINE d == PushNode(c, k, v)
<1>1. /\ N \in Nat /\ DOMAIN ref = 1 .. N
      /\ \A m \in 1 .. N :
              /\ ref[m] \in Keys \X Values /\ ref[m][1] # NoNode /\ At(ref, m) = ref[m][1]
              /\ ref[m][1] \in DOMAIN c.nodes /\ c.nodes[ref[m][1]] = Node(ref, m)
      /\ \A m, n \in 1 .. N : ref[m][1] = ref[n][1] <=> m = n
  BY LinkedEntry
<1>0. N \in Nat
  BY <1>1
<1>2. /\ c.head = At(ref, 1) /\ c.tail = At(ref, N) /\ c.len = N
      /\ DOMAIN c.nodes = {ref[n][1] : n \in 1 .. N}
  BY Zenon DEF Linked
<1>3. \A m \in 1 .. N : ref[m][1] # k
  BY <1>1 DEF Holds
<1>4. new[1] = <<k, v>> /\ (\A m \in 1 .. N : new[m + 1] = ref[m]) /\ DOMAIN new = 1 .. N + 1
  BY <1>0
<1>5. \A m \in 1 .. N + 1 : m = 1 \/ (m - 1 \in 1 .. N /\ (m - 1) + 1 = m)
  BY <1>0
<1> HIDE DEF new
<1>15. \A m \in 1 .. N + 1 : \/ m = 1 /\ new[m] = <<k, v>>
                            \/ \E i \in 1 .. N : m = i + 1 /\ new[m] = ref[i]
  BY <1>4, <1>5
<1>6. new \in Seq(Keys \X Values) /\ Len(new) = N + 1
  <2>1. ASSUME NEW m \in 1 .. N + 1 PROVE new[m] \in Keys \X Values
    <3>1. CASE new[m] = <<k, v>>
      BY <3>1
    <3>2. CASE \E i \in 1 .. N : new[m] = ref[i]
      BY <1>1, <3>2
    <3> QED
      BY <1>15, <3>1, <3>2
  <2>2. new = [m \in 1 .. N + 1 |-> new[m]]
    BY DEF new
  <2> QED
    BY <1>0, <1>4, <2>1, <2>2, EntriesAre
<1>7. /\ d.nodes = [x \in DOMAIN c.nodes \cup {k} |->
                      IF x = k THEN [value |-> v, prev |-> NoNode, next |-> c.head]
                      ELSE SetPrev(c.nodes, c.head, k)[x]]
      /\ d.head = k /\ d.tail = (IF c.head = NoNode THEN k ELSE c.tail) /\ d.len = N + 1
      /\ d = [nodes |-> d.nodes, head |-> d.head, tail |-> d.tail, len |-> d.len]
  BY <1>2 DEF PushNode
<1> HIDE DEF d
<1>8. DOMAIN d.nodes = DOMAIN c.nodes \cup {k}
  BY <1>7
<1>9. /\ At(new, 1) = k /\ At(new, 0) = NoNode
      /\ \A m \in 1 .. N : At(new, m + 1) = ref[m][1] /\ new[m + 1][1] = ref[m][1] /\ new[m + 1][2] = ref[m][2]
      /\ At(new, N + 2) = NoNode /\ At(ref, N + 1) = NoNode /\ new[1][1] = k /\ new[1][2] = v
      /\ At(ref, 1) = At(new, 2)
  BY <1>0, <1>4, <1>6 DEF At
<1>10. ASSUME NEW m \in 1 .. N + 1, NEW n \in 1 .. N + 1, new[m][1] = new[n][1] PROVE m = n
  <2>1. CASE m = 1
    BY <1>3, <1>15, <1>10, <2>1
  <2>2. CASE n = 1
    BY <1>3, <1>15, <1>10, <2>2
  <2>3. CASE m # 1 /\ n # 1
    <3>1. PICK i \in 1 .. N : m = i + 1 /\ new[m] = ref[i]
      BY <1>15, <2>3
    <3>2. PICK j \in 1 .. N : n = j + 1 /\ new[n] = ref[j]
      BY <1>15, <2>3
    <3>3. i = j
      BY <1>1, <1>10, <3>1, <3>2
    <3> QED
      BY <3>1, <3>2, <3>3
  <2> QED
    BY <2>1, <2>2, <2>3
<1>11. DOMAIN d.nodes = {new[n][1] : n \in 1 .. N + 1}
  <2> DEFINE T == {new[n][1] : n \in 1 .. N + 1}
  <2>1. ASSUME NEW x \in DOMAIN d.nodes PROVE x \in T
    <3>1. CASE x = k
      BY <1>0, <1>9, <3>1
    <3>2. CASE x # k
      <4>1. PICK n \in 1 .. N : x = ref[n][1]
        BY <1>2, <1>8, <3>2
      <4> QED
        BY <1>0, <1>9, <4>1
    <3> QED
      BY <3>1, <3>2
  <2>2. ASSUME NEW n \in 1 .. N + 1 PROVE new[n][1] \in DOMAIN d.nodes
    <3>1. CASE n = 1
      BY <1>8, <1>9, <3>1
    <3>2. CASE n # 1
      BY <1>1, <1>8, <1>15, <3>2
    <3> QED
      BY <3>1, <3>2
  <2>3. ASSUME NEW x \in T PROVE x \in DOMAIN d.nodes
    BY <2>2
  <2> HIDE DEF T
  <2>4. DOMAIN d.nodes = T
    BY <2>1, <2>3
  <2> QED
    BY <2>4 DEF T
<1>12. ASSUME NEW m \in 1 .. N + 1 PROVE d.nodes[new[m][1]] = Node(new, m)
  <2>1. CASE m = 1
    BY <1>2, <1>7, <1>9, <2>1 DEF Node
  <2>2. CASE m # 1
    <3> DEFINE i == m - 1
    <3>1. i \in 1 .. N /\ i + 1 = m /\ new[m][1] = ref[i][1]
      BY <1>5, <1>9, <2>2
    <3> HIDE DEF i
    <3>2. c.nodes[ref[i][1]] = [value |-> ref[i][2], prev |-> At(ref, i - 1), next |-> At(ref, i + 1)]
      BY <1>1, <3>1, Zenon DEF Node
    <3>3. ref[i][1] \in DOMAIN c.nodes
      BY <1>1, <3>1
    <3>4. d.nodes[ref[i][1]] = SetPrev(c.nodes, c.head, k)[ref[i][1]]
      BY <1>3, <1>7, <3>1, <3>3
    <3>5. SetPrev(c.nodes, c.head, k)[ref[i][1]] =
            [value |-> ref[i][2], prev |-> IF ref[i][1] = c.head THEN k ELSE At(ref, i - 1),
             next |-> At(ref, i + 1)]
      BY <3>2, <3>3, SetPrevAt
    <3>6. ref[i][1] = c.head <=> i = 1
      <4>1. 1 \in 1 .. N
        BY <3>1
      <4>2. At(ref, 1) = ref[1][1]
        BY <1>1, <4>1
      <4>3. ref[i][1] = ref[1][1] <=> i = 1
        BY <1>1, <3>1, <4>1, Zenon
      <4> QED
        BY <1>2, <4>2, <4>3
    <3>7. At(new, m - 1) = IF i = 1 THEN k ELSE At(ref, i - 1)
      <4>1. CASE i = 1
        BY <1>9, <3>1, <4>1
      <4>2. CASE i # 1
        <5>1. i - 1 \in 1 .. N /\ (i - 1) + 1 = m - 1
          BY <3>1, <4>2
        <5>2. At(new, (i - 1) + 1) = ref[i - 1][1] /\ At(ref, i - 1) = ref[i - 1][1]
          BY <1>1, <1>9, <5>1
        <5> QED
          BY <4>2, <5>1, <5>2
      <4> QED
        BY <4>1, <4>2
    <3>8. At(new, m + 1) = At(ref, i + 1)
      <4>1. CASE i = N
        BY <1>9, <3>1, <4>1
      <4>2. CASE i # N
        <5>1. i + 1 \in 1 .. N
          BY <1>0, <3>1, <4>2
        <5> QED
          BY <1>1, <1>9, <3>1, <5>1
      <4> QED
        BY <4>1, <4>2
    <3> QED
      BY <1>9, <3>1, <3>4, <3>5, <3>6, <3>7, <3>8 DEF Node
  <2> QED
    BY <2>1, <2>2
<1>13. d.head = At(new, 1) /\ d.tail = At(new, N + 1)
  <2>1. CASE N = 0
    <3>1. c.head = NoNode
      BY <1>2, <2>1 DEF At
    <3> QED
      BY <1>7, <1>9, <2>1, <3>1
  <2>2. CASE N # 0
    <3>1. 1 \in 1 .. N /\ N \in 1 .. N
      BY <1>0, <2>2
    <3> QED
      BY <1>1, <1>2, <1>7, <1>9, <3>1
  <2> QED
    BY <2>1, <2>2
<1>14. Linked(d, new)
  BY <1>6, <1>7, <1>10, <1>11, <1>12, <1>13 DEF Linked
<1> QED
  BY <1>14 DEF d, new

(* The bottom node, with its key, goes out of the list and the map.        *)
LEMMA DropLinked ==
  ASSUME NEW c, NEW ref, Linked(c, ref), Len(ref) >= 2
  PROVE  Linked(DeleteBottom(c), [m \in 1 .. Len(ref) - 1 |-> ref[m]])
<1> DEFINE N == Len(ref)
<1> DEFINE new == [m \in 1 .. N - 1 |-> ref[m]]
<1> DEFINE d == DeleteBottom(c)
<1>1. /\ N \in Nat /\ DOMAIN ref = 1 .. N
      /\ \A m \in 1 .. N :
              /\ ref[m] \in Keys \X Values /\ ref[m][1] # NoNode /\ At(ref, m) = ref[m][1]
              /\ ref[m][1] \in DOMAIN c.nodes /\ c.nodes[ref[m][1]] = Node(ref, m)
      /\ \A m, n \in 1 .. N : ref[m][1] = ref[n][1] <=> m = n
  BY LinkedEntry
<1>0. N \in Nat /\ N - 1 \in Nat /\ N \in 1 .. N /\ N - 1 \in 1 .. N - 1 /\ N - 1 \in 1 .. N
      /\ (\A m \in 1 .. N - 1 : m \in 1 .. N /\ m # N) /\ 1 \in 1 .. N - 1 /\ 1 \in 1 .. N
      /\ (\A m \in 1 .. N : m = N \/ m \in 1 .. N - 1) /\ 0 \notin 1 .. N
  <2>1. N \in Nat /\ N >= 2
    BY <1>1
  <2> HIDE DEF N
  <2> QED
    BY <2>1
<1>2. /\ c.head = At(ref, 1) /\ c.tail = At(ref, N) /\ c.len = N
      /\ DOMAIN c.nodes = {ref[n][1] : n \in 1 .. N}
  BY Zenon DEF Linked
<1>3. c.head = ref[1][1] /\ c.tail = ref[N][1] /\ c.tail # c.head
  <2>1. At(ref, 1) = ref[1][1] /\ At(ref, N) = ref[N][1]
    BY <1>0, <1>1
  <2>2. ref[1][1] # ref[N][1]
    <3>1. 1 \in 1 .. N /\ N \in 1 .. N /\ 1 # N
      BY <1>0
    <3>2. ref[1][1] = ref[N][1] <=> 1 = N
      BY <1>1, <3>1, Zenon
    <3> QED
      BY <3>1, <3>2
  <2> QED
    BY <1>2, <2>1, <2>2
<1>4. c.nodes[c.tail].prev = ref[N - 1][1]
  <2>1. c.nodes[c.tail] = Node(ref, N)
    BY <1>0, <1>1, <1>3
  <2>2. At(ref, N - 1) = ref[N - 1][1]
    BY <1>0, <1>1
  <2> QED
    BY <2>1, <2>2 DEF Node
<1>5. /\ d.nodes = [x \in DOMAIN c.nodes \ {ref[N][1]} |-> SetNext(c.nodes, ref[N - 1][1], NoNode)[x]]
      /\ d.head = ref[1][1] /\ d.tail = ref[N - 1][1] /\ d.len = N - 1
      /\ d = [nodes |-> d.nodes, head |-> d.head, tail |-> d.tail, len |-> d.len]
  BY <1>2, <1>3, <1>4 DEF DeleteBottom, Restrict
<1> HIDE DEF d
<1>6. DOMAIN new = 1 .. N - 1 /\ \A m \in 1 .. N - 1 : new[m] = ref[m]
  OBVIOUS
<1> HIDE DEF new
<1>7. new \in Seq(Keys \X Values) /\ Len(new) = N - 1
  <2>1. \A m \in 1 .. N - 1 : new[m] \in Keys \X Values
    BY <1>0, <1>1, <1>6
  <2>2. new = [m \in 1 .. N - 1 |-> new[m]]
    BY DEF new
  <2> QED
    BY <1>0, <1>6, <2>1, <2>2, EntriesAre
<1>8. ASSUME NEW m \in 1 .. N - 1, NEW n \in 1 .. N - 1, new[m][1] = new[n][1] PROVE m = n
  <2>1. m \in 1 .. N /\ n \in 1 .. N /\ new[m] = ref[m] /\ new[n] = ref[n]
    BY <1>0, <1>6
  <2> QED
    BY <1>1, <1>8, <2>1
<1>9. DOMAIN d.nodes = {new[n][1] : n \in 1 .. N - 1}
  <2> DEFINE T == {new[n][1] : n \in 1 .. N - 1}
  <2>0. DOMAIN d.nodes = DOMAIN c.nodes \ {ref[N][1]}
    BY <1>5
  <2>1. ASSUME NEW x \in DOMAIN d.nodes PROVE x \in T
    <3>1. PICK n \in 1 .. N : x = ref[n][1] /\ n # N
      BY <1>2, <2>0
    <3> QED
      BY <1>0, <1>6, <3>1
  <2>2. ASSUME NEW n \in 1 .. N - 1 PROVE new[n][1] \in DOMAIN d.nodes
    <3>1. n \in 1 .. N /\ N \in 1 .. N /\ n # N /\ new[n] = ref[n]
      BY <1>0, <1>6
    <3>2. ref[n][1] # ref[N][1] /\ ref[n][1] \in DOMAIN c.nodes
      BY <1>1, <3>1
    <3> QED
      BY <2>0, <3>1, <3>2
  <2>3. ASSUME NEW x \in T PROVE x \in DOMAIN d.nodes
    BY <2>2
  <2> HIDE DEF T
  <2>4. DOMAIN d.nodes = T
    BY <2>1, <2>3
  <2> QED
    BY <2>4 DEF T
<1>10. ASSUME NEW m \in 1 .. N - 1 PROVE d.nodes[new[m][1]] = Node(new, m)
  <2>1. m \in 1 .. N /\ m # N /\ new[m] = ref[m] /\ m \in Nat
    BY <1>0, <1>6
  <2>2. c.nodes[ref[m][1]] = [value |-> ref[m][2], prev |-> At(ref, m - 1), next |-> At(ref, m + 1)]
    BY <1>1, <2>1, Zenon DEF Node
  <2>3. ref[m][1] \in DOMAIN c.nodes /\ ref[m][1] # ref[N][1]
    BY <1>0, <1>1, <2>1
  <2>4. d.nodes[ref[m][1]] = SetNext(c.nodes, ref[N - 1][1], NoNode)[ref[m][1]]
    BY <1>5, <2>3
  <2>5. SetNext(c.nodes, ref[N - 1][1], NoNode)[ref[m][1]] =
          [value |-> ref[m][2], prev |-> At(ref, m - 1),
           next |-> IF ref[m][1] = ref[N - 1][1] THEN NoNode ELSE At(ref, m + 1)]
    BY <2>2, <2>3, SetNextAt
  <2>6. ref[m][1] = ref[N - 1][1] <=> m = N - 1
    BY <1>0, <1>1, <2>1
  <2>7. At(new, m - 1) = At(ref, m - 1)
    BY <1>0, <1>6, <1>7, <2>1 DEF At
  <2>8. At(new, m + 1) = IF m = N - 1 THEN NoNode ELSE At(ref, m + 1)
    BY <1>0, <1>6, <1>7, <2>1 DEF At
  <2> QED
    BY <2>1, <2>4, <2>5, <2>6, <2>7, <2>8 DEF Node
<1>11. d.head = At(new, 1) /\ d.tail = At(new, N - 1)
  BY <1>0, <1>5, <1>6, <1>7 DEF At
<1>12. Linked(d, new)
  BY <1>5, <1>7, <1>8, <1>9, <1>10, <1>11 DEF Linked
<1> QED
  BY <1>12 DEF d, new

(* A value that is set again changes in its node.                          *)
LEMMA ValueLinked ==
  ASSUME NEW c, NEW ref, Linked(c, ref), NEW p \in 1 .. Len(ref), NEW v \in Values
  PROVE  Linked([c EXCEPT !.nodes[ref[p][1]].value = v], [ref EXCEPT ![p] = <<ref[p][1], v>>])
<1> DEFINE N == Len(ref)
<1> DEFINE k == ref[p][1]
<1> DEFINE new == [ref EXCEPT ![p] = <<k, v>>]
<1> DEFINE d == [c EXCEPT !.nodes[k].value = v]
<1>1. /\ N \in Nat /\ DOMAIN ref = 1 .. N /\ ref \in [1 .. N -> Keys \X Values]
      /\ \A m \in 1 .. N :
              /\ ref[m] \in Keys \X Values /\ ref[m][1] \in Keys /\ At(ref, m) = ref[m][1]
              /\ ref[m][1] \in DOMAIN c.nodes /\ c.nodes[ref[m][1]] = Node(ref, m)
      /\ \A m, n \in 1 .. N : ref[m][1] = ref[n][1] <=> m = n
  BY LinkedEntry
<1>2. /\ c.head = At(ref, 1) /\ c.tail = At(ref, N) /\ c.len = N
      /\ c = [nodes |-> c.nodes, head |-> c.head, tail |-> c.tail, len |-> c.len]
      /\ DOMAIN c.nodes = {ref[n][1] : n \in 1 .. N}
  BY Zenon DEF Linked
<1>13. [[nodes |-> c.nodes, head |-> c.head, tail |-> c.tail, len |-> c.len] EXCEPT !.nodes[k].value = v]
         = [nodes |-> [c.nodes EXCEPT ![k].value = v], head |-> c.head, tail |-> c.tail, len |-> c.len]
  OBVIOUS
<1>3. d = [nodes |-> [c.nodes EXCEPT ![k].value = v], head |-> c.head, tail |-> c.tail, len |-> c.len]
  BY <1>2, <1>13, Zenon
<1>4. /\ d.nodes = [c.nodes EXCEPT ![k].value = v] /\ d.head = c.head /\ d.tail = c.tail /\ d.len = c.len
      /\ d = [nodes |-> d.nodes, head |-> d.head, tail |-> d.tail, len |-> d.len]
  BY <1>3
<1>5. /\ \A m \in 1 .. N : new[m] = IF m = p THEN <<k, v>> ELSE ref[m]
      /\ DOMAIN new = 1 .. N /\ new = [m \in 1 .. N |-> new[m]]
  BY <1>1
<1> HIDE DEF d, new
<1>6. \A m \in 1 .. N : new[m][1] = ref[m][1] /\ new[m][2] = IF m = p THEN v ELSE ref[m][2]
  BY <1>5
<1>7. new \in Seq(Keys \X Values) /\ Len(new) = N
  <2>1. \A m \in 1 .. N : new[m] \in Keys \X Values
    BY <1>1, <1>5
  <2> QED
    BY <1>1, <1>5, <2>1, EntriesAre
<1>8. \A n : At(new, n) = At(ref, n)
  BY <1>6, <1>7 DEF At
<1>9. DOMAIN d.nodes = {new[n][1] : n \in 1 .. N}
  <2>1. {new[n][1] : n \in 1 .. N} = {ref[n][1] : n \in 1 .. N}
    BY <1>6
  <2> QED
    BY <1>2, <1>4, <2>1
<1>10. ASSUME NEW m \in 1 .. N PROVE d.nodes[new[m][1]] = Node(new, m)
  <2>1. c.nodes[ref[m][1]] = [value |-> ref[m][2], prev |-> At(ref, m - 1), next |-> At(ref, m + 1)]
    BY <1>1, Zenon DEF Node
  <2>2. ref[m][1] = k <=> m = p
    BY <1>1
  <2>3. ref[m][1] \in DOMAIN c.nodes
    BY <1>1
  <2>4. d.nodes[ref[m][1]] = IF m = p THEN [c.nodes[ref[m][1]] EXCEPT !.value = v] ELSE c.nodes[ref[m][1]]
    BY <1>4, <2>2, <2>3
  <2> QED
    BY <1>6, <1>8, <2>1, <2>4 DEF Node
<1>11. \A m, n \in 1 .. N : new[m][1] = new[n][1] => m = n
  BY <1>1, <1>6
<1>12. Linked(d, new)
  BY <1>2, <1>4, <1>7, <1>8, <1>9, <1>10, <1>11 DEF Linked
<1> QED
  BY <1>12 DEF d, new

(* The map has a key exactly if the sequence has it, at its place.         *)
LEMMA HasHolds ==
  ASSUME NEW c, NEW ref, Linked(c, ref), NEW k
  PROVE  /\ LruHas(c, k) <=> Holds(ref, k)
         /\ Holds(ref, k) => Place(ref, k) \in 1 .. Len(ref) /\ ref[Place(ref, k)][1] = k
<1>1. DOMAIN ref = 1 .. Len(ref) /\ DOMAIN c.nodes = {ref[n][1] : n \in 1 .. Len(ref)}
  BY LinkedEntry DEF Linked
<1>2. LruHas(c, k) <=> Holds(ref, k)
  BY <1>1 DEF LruHas, Holds
<1>3. ASSUME Holds(ref, k) PROVE Place(ref, k) \in 1 .. Len(ref) /\ ref[Place(ref, k)][1] = k
  <2>1. \E n \in DOMAIN ref : ref[n][1] = k
    BY <1>3 DEF Holds
  <2> QED
    BY <1>1, <2>1, Zenon DEF Place
<1> QED
  BY <1>2, <1>3

(* get() and set() do to the cache what they do to the sequence.           *)
LEMMA GetLinked ==
  ASSUME NEW c, NEW ref, Linked(c, ref), NEW k
  PROVE  Linked(LruGet(c, k), RefGet(ref, k)) /\ Len(RefGet(ref, k)) = Len(ref)
<1>1. CASE Holds(ref, k)
  <2> DEFINE p == Place(ref, k)
  <2>1. p \in 1 .. Len(ref) /\ ref[p][1] = k /\ LruHas(c, k)
    BY <1>1, HasHolds
  <2>2. LruGet(c, k) = MoveToTop(c, ref[p][1]) /\ RefGet(ref, k) = ToFront(ref, p, ref[p])
    BY <1>1, <2>1 DEF LruGet, RefGet
  <2> HIDE DEF p
  <2>3. Linked(LruGet(c, k), RefGet(ref, k))
    BY <2>1, <2>2, MoveLinked
  <2>4. DOMAIN RefGet(ref, k) = DOMAIN ref
    BY <2>2 DEF ToFront
  <2> QED
    BY <2>3, <2>4, LenProperties DEF Linked
<1>2. CASE ~ Holds(ref, k)
  BY <1>2, HasHolds DEF LruGet, RefGet
<1> QED
  BY <1>1, <1>2

LEMMA SetLinked ==
  ASSUME NEW c, NEW ref, Linked(c, ref), Len(ref) <= Capacity, NEW k \in Keys, NEW v \in Values
  PROVE  Linked(LruSet(c, k, v, Capacity), RefSet(ref, k, v, Capacity))
         /\ Len(RefSet(ref, k, v, Capacity)) <= Capacity
<1>0. Capacity \in Nat /\ Capacity >= 1 /\ Len(ref) \in Nat /\ DOMAIN ref = 1 .. Len(ref)
      /\ Len(ref) <= Capacity
  BY StructuresAssumption, LinkedEntry DEF StructuresAssumption
<1>1. CASE Holds(ref, k)
  <2> DEFINE p == Place(ref, k)
  <2> DEFINE ref2 == [ref EXCEPT ![p] = <<ref[p][1], v>>]
  <2> DEFINE c2 == [c EXCEPT !.nodes[ref[p][1]].value = v]
  <2>1. p \in 1 .. Len(ref) /\ ref[p][1] = k /\ LruHas(c, k)
    BY <1>1, HasHolds
  <2>2. LruSet(c, k, v, Capacity) = MoveToTop(c2, k)
    BY <2>1 DEF LruSet
  <2>3. RefSet(ref, k, v, Capacity) = ToFront(ref, p, <<k, v>>)
    BY <1>1 DEF RefSet
  <2> HIDE DEF p
  <2>4. Linked(c2, ref2)
    BY <2>1, ValueLinked
  <2>5. DOMAIN ref2 = 1 .. Len(ref) /\ ref2[p] = <<k, v>> /\ ref2[p][1] = k
        /\ \A m \in 1 .. Len(ref) : m # p => ref2[m] = ref[m]
    BY <1>0, <2>1
  <2>6. Len(ref2) = Len(ref)
    BY <2>4, <2>5, LinkedEntry
  <2>7. ToFront(ref2, p, ref2[p]) = ToFront(ref, p, <<k, v>>)
    <3>1. \A m \in 1 .. Len(ref) : m # 1 /\ m <= p => m - 1 \in 1 .. Len(ref) /\ m - 1 # p
      BY <1>0, <2>1
    <3>2. ASSUME NEW m \in 1 .. Len(ref)
          PROVE  (IF m = 1 THEN <<k, v>> ELSE IF m <= p THEN ref2[m - 1] ELSE ref2[m])
                 = (IF m = 1 THEN <<k, v>> ELSE IF m <= p THEN ref[m - 1] ELSE ref[m])
      <4>1. CASE m > p
        BY <2>5, <4>1
      <4>2. CASE m # 1 /\ m <= p
        BY <2>5, <3>1, <4>2
      <4> QED
        BY <2>1, <4>1, <4>2
    <3> HIDE DEF ref2
    <3> QED
      BY <1>0, <2>5, <3>2 DEF ToFront
  <2> HIDE DEF ref2, c2
  <2>8. Linked(MoveToTop(c2, k), ToFront(ref, p, <<k, v>>))
    BY <2>1, <2>4, <2>5, <2>6, <2>7, MoveLinked
  <2>9. DOMAIN ToFront(ref, p, <<k, v>>) = DOMAIN ref
    BY DEF ToFront
  <2>10. Len(ToFront(ref, p, <<k, v>>)) = Len(ref)
    BY <1>0, <2>8, <2>9, LinkedEntry
  <2> QED
    BY <2>2, <2>3, <2>8, <2>10
<1>2. CASE ~ Holds(ref, k)
  <2> DEFINE N == Len(ref)
  <2> DEFINE top == [m \in 1 .. Len(ref) + 1 |-> IF m = 1 THEN <<k, v>> ELSE ref[m - 1]]
  <2> DEFINE pushed == PushNode(c, k, v)
  <2>1. Linked(pushed, top)
    BY <1>2, PushLinked
  <2>2. DOMAIN top = 1 .. N + 1
    OBVIOUS
  <2>3. Len(top) = N + 1 /\ pushed.len = N + 1
    <3> HIDE DEF top, pushed
    <3>1. DOMAIN top = 1 .. Len(top) /\ Len(top) \in Nat
      BY <2>1, LinkedEntry
    <3>2. Len(top) = N + 1
      BY <1>0, <2>2, <3>1
    <3> QED
      BY <2>1, <3>2 DEF Linked
  <2>4. ~ LruHas(c, k)
    BY <1>2, HasHolds
  <2>5. CASE N < Capacity
    <3>1. LruSet(c, k, v, Capacity) = pushed
      <4> HIDE DEF pushed
      <4>1. ~ (pushed.len > Capacity)
        BY <1>0, <2>3, <2>5
      <4> QED
        BY <2>4, <4>1 DEF LruSet, pushed
    <3>2. RefSet(ref, k, v, Capacity) = top
      BY <1>2, <2>5 DEF RefSet
    <3> HIDE DEF pushed, top
    <3> QED
      BY <1>0, <2>1, <2>3, <2>5, <3>1, <3>2
  <2>6. CASE N = Capacity
    <3>1. LruSet(c, k, v, Capacity) = DeleteBottom(pushed)
      <4> HIDE DEF pushed
      <4>1. pushed.len > Capacity
        BY <1>0, <2>3, <2>6
      <4> QED
        BY <2>4, <4>1 DEF LruSet, pushed
    <3>2. RefSet(ref, k, v, Capacity) = [m \in 1 .. Capacity |-> IF m = 1 THEN <<k, v>> ELSE ref[m - 1]]
      BY <1>2, <2>6 DEF RefSet
    <3>3. [m \in 1 .. Len(top) - 1 |-> top[m]] = [m \in 1 .. Capacity |-> IF m = 1 THEN <<k, v>> ELSE ref[m - 1]]
      <4>1. Len(top) - 1 = Capacity
        <5> HIDE DEF top
        <5> QED
          BY <1>0, <2>3, <2>6
      <4>2. \A m \in 1 .. Capacity : m \in 1 .. Len(ref) + 1
        BY <1>0, <2>6
      <4>3. \A m \in 1 .. Capacity : top[m] = IF m = 1 THEN <<k, v>> ELSE ref[m - 1]
        BY <4>2
      <4> HIDE DEF top
      <4> QED
        BY <4>1, <4>3
    <3> HIDE DEF pushed, top
    <3>4. Len(top) >= 2
      BY <1>0, <2>3, <2>6
    <3>5. Linked(DeleteBottom(pushed), [m \in 1 .. Len(top) - 1 |-> top[m]])
      BY <2>1, <3>4, DropLinked
    <3>6. Linked(LruSet(c, k, v, Capacity), RefSet(ref, k, v, Capacity))
      BY <3>1, <3>2, <3>3, <3>5
    <3>7. DOMAIN RefSet(ref, k, v, Capacity) = 1 .. Capacity
      BY <3>2
    <3>8. Len(RefSet(ref, k, v, Capacity)) = Capacity
      BY <1>0, <3>6, <3>7, LinkedEntry
    <3> QED
      BY <1>0, <3>6, <3>8
  <2>7. N \in Nat /\ Capacity \in Nat /\ N <= Capacity
    BY <1>0
  <2>8. N < Capacity \/ N = Capacity
    <3> HIDE DEF N
    <3> QED
      BY <2>7
  <2> QED
    BY <2>5, <2>6, <2>8
<1> QED
  BY <1>1, <1>2

(* An empty cache is the empty sequence.                                   *)
LEMMA EmptyLinked == Linked(EmptyLRU, <<>>) /\ Len(<<>>) <= Capacity
<1>1. Len(<<>>) = 0 /\ <<>> \in Seq(Keys \X Values) /\ 1 .. 0 = {} /\ DOMAIN <<>> = {}
  OBVIOUS
<1>2. DOMAIN <<>> = {<<>>[n][1] : n \in 1 .. 0}
  BY <1>1
<1>3. EmptyLRU = [nodes |-> EmptyLRU.nodes, head |-> EmptyLRU.head, tail |-> EmptyLRU.tail,
                  len |-> EmptyLRU.len]
      /\ EmptyLRU.nodes = <<>> /\ EmptyLRU.head = NoNode /\ EmptyLRU.tail = NoNode /\ EmptyLRU.len = 0
  BY DEF EmptyLRU
<1>4. At(<<>>, 1) = NoNode /\ At(<<>>, 0) = NoNode
  BY <1>1 DEF At
<1>5. 0 <= Capacity
  BY StructuresAssumption DEF StructuresAssumption
<1> QED
  BY <1>1, <1>2, <1>3, <1>4, <1>5 DEF Linked

(* The inductive invariant of the cache.                                   *)
CacheInv == part = "lru" => Linked(s.cache, s.ref) /\ Len(s.ref) <= Capacity

LEMMA CacheInit == InitStructures => CacheInv
<1>1. InitStructures /\ part = "lru" => s.cache = EmptyLRU /\ s.ref = <<>>
  BY DEF InitStructures
<1> QED
  BY <1>1, EmptyLinked DEF CacheInv

LEMMA CacheStep == CacheInv /\ [NextStructures]_<<part, s>> => CacheInv'
<1> SUFFICES ASSUME CacheInv, [NextStructures]_<<part, s>>, part' = "lru"
             PROVE  (Linked(s.cache, s.ref) /\ Len(s.ref) <= Capacity)'
  BY DEF CacheInv
<1>1. CASE LruStep
  <2>1. Linked(s.cache, s.ref) /\ Len(s.ref) <= Capacity
    BY <1>1 DEF LruStep, CacheInv
  <2>2. PICK k \in Keys :
          \/ s' = [cache |-> LruGet(s.cache, k), ref |-> RefGet(s.ref, k)]
          \/ \E v \in Values :
               s' = [cache |-> LruSet(s.cache, k, v, Capacity), ref |-> RefSet(s.ref, k, v, Capacity)]
    BY <1>1 DEF LruStep
  <2>3. CASE s' = [cache |-> LruGet(s.cache, k), ref |-> RefGet(s.ref, k)]
    <3>1. s'.cache = LruGet(s.cache, k) /\ s'.ref = RefGet(s.ref, k)
      BY <2>3
    <3>2. Linked(s'.cache, s'.ref) /\ Len(s'.ref) <= Capacity
      BY <2>1, <3>1, GetLinked
    <3> QED
      BY <3>2
  <2>4. ASSUME NEW v \in Values,
               s' = [cache |-> LruSet(s.cache, k, v, Capacity), ref |-> RefSet(s.ref, k, v, Capacity)]
        PROVE  (Linked(s.cache, s.ref) /\ Len(s.ref) <= Capacity)'
    <3>1. s'.cache = LruSet(s.cache, k, v, Capacity) /\ s'.ref = RefSet(s.ref, k, v, Capacity)
      BY <2>4
    <3>2. Linked(s'.cache, s'.ref) /\ Len(s'.ref) <= Capacity
      BY <2>1, <3>1, SetLinked
    <3> QED
      BY <3>2
  <2> QED
    BY <2>2, <2>3, <2>4
<1>2. CASE UNCHANGED <<part, s>>
  BY <1>2 DEF CacheInv
<1>3. ASSUME Feed \/ Take \/ Consume \/ OptionsCall \/ Launch \/ Answer PROVE FALSE
  BY <1>3 DEF Feed, Take, Consume, OptionsCall, Launch, Answer
<1> QED
  BY <1>1, <1>2, <1>3 DEF NextStructures

(* The cache keeps the Capacity most recently used entries in order, for   *)
(* every capacity and after any calls of get() and set() (lru.ts).         *)
THEOREM CacheMostRecent == StructuresSpec => []CacheIsLRU
<1>1. CacheInv => CacheIsLRU
  BY LinkedAgrees DEF CacheInv, CacheIsLRU
<1> QED
  BY <1>1, CacheInit, CacheStep, PTL DEF StructuresSpec

----------------------------------------------------------------------------
(* The options. *)

(* Sequences, whatever their elements are.                                 *)
LEMMA EmptyIsSeq == IsSeq(<<>>) /\ Len(<<>>) = 0
  BY SMT DEF IsSeq

LEMMA OneIsSeq ==
  ASSUME NEW x
  PROVE  IsSeq(<<x>>) /\ Len(<<x>>) = 1 /\ <<x>>[1] = x
<1>1. <<x>> \in Seq({x}) /\ Len(<<x>>) = 1 /\ <<x>>[1] = x
  OBVIOUS
<1>2. <<x>> \in [1 .. 1 -> {x}]
  BY <1>1, LenProperties
<1> QED
  BY <1>1, <1>2 DEF IsSeq

LEMMA AppendIsSeq ==
  ASSUME NEW q, IsSeq(q), NEW x
  PROVE  /\ IsSeq(Append(q, x)) /\ Len(Append(q, x)) = Len(q) + 1
         /\ Append(q, x)[Len(q) + 1] = x
         /\ \A n \in 1 .. Len(q) : Append(q, x)[n] = q[n]
<1> DEFINE T == {q[n] : n \in 1 .. Len(q)} \cup {x}
<1>1. Len(q) \in Nat /\ q \in [1 .. Len(q) -> T] /\ x \in T
  BY DEF IsSeq
<1>2. q \in Seq(T)
  BY <1>1, SeqDef
<1> HIDE DEF T
<1>3. /\ Append(q, x) \in Seq(T) /\ Len(Append(q, x)) = Len(q) + 1
      /\ Append(q, x)[Len(q) + 1] = x /\ \A n \in 1 .. Len(q) : Append(q, x)[n] = q[n]
  BY <1>1, <1>2, AppendProperties
<1> DEFINE r == Append(q, x)
<1> HIDE DEF r
<1>4. r \in [1 .. Len(r) -> T] /\ Len(r) = Len(q) + 1
  BY <1>3, LenProperties DEF r
<1>5. IsSeq(r)
  BY <1>1, <1>4 DEF IsSeq
<1> QED
  BY <1>3, <1>5 DEF r

LEMMA ExceptIsSeq ==
  ASSUME NEW q, IsSeq(q), NEW i \in 1 .. Len(q), NEW x
  PROVE  /\ IsSeq([q EXCEPT ![i] = x]) /\ Len([q EXCEPT ![i] = x]) = Len(q)
         /\ [q EXCEPT ![i] = x][i] = x
         /\ \A n \in 1 .. Len(q) : n # i => [q EXCEPT ![i] = x][n] = q[n]
<1> DEFINE T == {q[n] : n \in 1 .. Len(q)} \cup {x}
<1> DEFINE r == [q EXCEPT ![i] = x]
<1>1. Len(q) \in Nat /\ q \in [1 .. Len(q) -> T] /\ x \in T
  BY DEF IsSeq
<1>2. r \in [1 .. Len(q) -> T] /\ r[i] = x /\ \A n \in 1 .. Len(q) : n # i => r[n] = q[n]
  BY <1>1
<1> HIDE DEF T, r
<1>3. r \in Seq(T)
  BY <1>1, <1>2, SeqDef
<1>4. Len(r) = Len(q)
  BY <1>1, <1>2, <1>3, LenProperties
<1>5. IsSeq(r)
  BY <1>1, <1>2, <1>4 DEF IsSeq
<1> QED
  BY <1>2, <1>4, <1>5 DEF r

(* The last call about a key of a field.                                   *)
LastCall(calls, n, f, k) ==
  /\ n \in 1 .. Len(calls) /\ calls[n].field = f /\ calls[n].key = k
  /\ \A m \in 1 .. Len(calls) : calls[m].field = f /\ calls[m].key = k => m <= n

LEMMA LastCallExists ==
  ASSUME NEW calls, IsSeq(calls), NEW f, NEW k,
         NEW m \in 1 .. Len(calls), calls[m].field = f, calls[m].key = k
  PROVE  \E n \in 1 .. Len(calls) : LastCall(calls, n, f, k)
<1> DEFINE N == Len(calls)
<1> DEFINE about(n) == calls[n].field = f /\ calls[n].key = k
<1> DEFINE T == {x \in 0 .. N : N - x \in 1 .. N /\ about(N - x)}
<1>1. N \in Nat /\ m \in 1 .. N
  BY DEF IsSeq
<1>5. about(m)
  OBVIOUS
<1> HIDE DEF N, about
<1>2. N - m \in T
  <2>1. N - (N - m) = m /\ N - m \in 0 .. N
    BY <1>1
  <2> QED
    BY <1>1, <1>5, <2>1
<1>3. PICK x \in T : \A y \in T : x <= y
  <2>1. T \subseteq Nat
    BY <1>1
  <2>2. T # {}
    BY <1>2
  <2> HIDE DEF T
  <2> QED
    BY <2>1, <2>2, Least
<1>4. \A y \in 1 .. N : about(y) => y <= N - x
  <2> SUFFICES ASSUME NEW y \in 1 .. N, about(y) PROVE y <= N - x
    OBVIOUS
  <2>1. N - (N - y) = y /\ N - y \in 0 .. N
    BY <1>1
  <2>2. N - y \in T
    BY <2>1
  <2>3. x <= N - y /\ x \in 0 .. N
    BY <1>3, <2>2
  <2> QED
    BY <1>1, <2>3
<1>6. N - x \in 1 .. N /\ about(N - x)
  BY <1>3
<1> QED
  BY <1>4, <1>6 DEF LastCall, N, about

(* What is asked for, told by the last calls alone.                        *)
Asks(map, calls, f) ==
  /\ map = [k \in DOMAIN map |-> map[k]]
  /\ \A k \in DOMAIN map : \E n \in 1 .. Len(calls) : LastCall(calls, n, f, k)
  /\ \A k, n : LastCall(calls, n, f, k) =>
       /\ k \in DOMAIN map <=> calls[n].value # "deleted"
       /\ k \in DOMAIN map => map[k] = calls[n].value

LEMMA AskedAsks ==
  ASSUME NEW calls, IsSeq(calls), NEW f
  PROVE  Asks(Asked(calls, f), calls, f)
<1> DEFINE last(k) == CHOOSE n \in DOMAIN calls : /\ calls[n].field = f /\ calls[n].key = k
                   /\ \A m \in DOMAIN calls : calls[m].field = f /\ calls[m].key = k => m <= n
<1> DEFINE keys == {calls[n].key : n \in {m \in DOMAIN calls : calls[m].field = f}}
<1> DEFINE dom == {j \in keys : calls[last(j)].value # "deleted"}
<1> DEFINE map == Asked(calls, f)
<1>1. map = [k \in dom |-> calls[last(k)].value]
  BY DEF Asked
<1>2. DOMAIN calls = 1 .. Len(calls) /\ Len(calls) \in Nat
  BY DEF IsSeq
<1>3. ASSUME NEW k, NEW n, LastCall(calls, n, f, k) PROVE last(k) = n
  <2>1. \A m \in DOMAIN calls :
          /\ calls[m].field = f /\ calls[m].key = k
          /\ \A l \in DOMAIN calls : calls[l].field = f /\ calls[l].key = k => l <= m
          => m = n
    BY <1>2, <1>3 DEF LastCall
  <2>2. /\ n \in DOMAIN calls /\ calls[n].field = f /\ calls[n].key = k
        /\ \A l \in DOMAIN calls : calls[l].field = f /\ calls[l].key = k => l <= n
    BY <1>2, <1>3 DEF LastCall
  <2> QED
    BY <2>1, <2>2
<1> HIDE DEF last
<1>4. ASSUME NEW k \in keys PROVE \E n \in 1 .. Len(calls) : LastCall(calls, n, f, k)
  <2>1. PICK m \in 1 .. Len(calls) : calls[m].field = f /\ calls[m].key = k
    BY <1>2, <1>4
  <2> QED
    BY <2>1, LastCallExists
<1>5. ASSUME NEW k, NEW n, LastCall(calls, n, f, k) PROVE k \in keys
  BY <1>2, <1>5 DEF LastCall
<1> HIDE DEF keys
<1>6. DOMAIN map = dom /\ \A k \in dom : map[k] = calls[last(k)].value
  BY <1>1
<1>7. map = [k \in DOMAIN map |-> map[k]]
  BY <1>1, <1>6
<1> HIDE DEF map
<1>8. \A k \in dom : k \in keys
  OBVIOUS
<1>9. ASSUME NEW k, NEW n, LastCall(calls, n, f, k)
      PROVE  /\ k \in DOMAIN map <=> calls[n].value # "deleted"
             /\ k \in DOMAIN map => map[k] = calls[n].value
  BY <1>3, <1>5, <1>6, <1>9
<1> HIDE DEF dom
<1> QED
  BY <1>4, <1>6, <1>7, <1>8, <1>9 DEF Asks, map

(* There is one such map.                                                  *)
LEMMA AskedIs ==
  ASSUME NEW calls, IsSeq(calls), NEW f, NEW map, Asks(map, calls, f)
  PROVE  map = Asked(calls, f)
<1> DEFINE asked == Asked(calls, f)
<1>1. Asks(asked, calls, f)
  BY AskedAsks
<1> HIDE DEF asked
<1>2. \A k : k \in DOMAIN map <=> k \in DOMAIN asked
  BY <1>1, Zenon DEF Asks
<1>3. DOMAIN map = DOMAIN asked
  BY <1>2
<1>4. ASSUME NEW k \in DOMAIN map PROVE map[k] = asked[k]
  <2>1. PICK n \in 1 .. Len(calls) : LastCall(calls, n, f, k)
    BY Zenon DEF Asks
  <2>2. map[k] = calls[n].value
    BY <2>1, Zenon DEF Asks
  <2>3. asked[k] = calls[n].value
    BY <1>1, <1>3, <2>1, Zenon DEF Asks
  <2> QED
    BY <2>2, <2>3
<1>5. map = [k \in DOMAIN map |-> map[k]] /\ asked = [k \in DOMAIN asked |-> asked[k]]
  BY <1>1 DEF Asks
<1>6. map = asked
  BY <1>3, <1>4, <1>5
<1> QED
  BY <1>6 DEF asked

(* One more call changes one entry of one field.                           *)
LEMMA AskedAppend ==
  ASSUME NEW calls, IsSeq(calls), NEW call, NEW f
  PROVE  Asked(Append(calls, call), f) =
           IF call.field # f THEN Asked(calls, f)
           ELSE IF call.value = "deleted" THEN Without(Asked(calls, f), call.key)
           ELSE Put(Asked(calls, f), call.key, call.value)
<1> DEFINE N == Len(calls)
<1> DEFINE more == Append(calls, call)
<1> DEFINE old == Asked(calls, f)
<1>1. /\ N \in Nat /\ IsSeq(more) /\ Len(more) = N + 1 /\ more[N + 1] = call
      /\ \A n \in 1 .. N : more[n] = calls[n]
  BY AppendIsSeq DEF IsSeq
<1>2. Asks(old, calls, f)
  BY AskedAsks
<1> HIDE DEF N, more, old
<1>3. ASSUME NEW k, NEW n, LastCall(calls, n, f, k), call.field # f \/ call.key # k
      PROVE  LastCall(more, n, f, k) /\ n \in 1 .. N /\ more[n] = calls[n]
  <2>1. n \in 1 .. N /\ n \in 1 .. N + 1 /\ more[n] = calls[n]
    BY <1>1, <1>3 DEF LastCall, N
  <2>2. \A m \in 1 .. N + 1 : more[m].field = f /\ more[m].key = k => m \in 1 .. N
    BY <1>1, <1>3
  <2>3. \A m \in 1 .. N + 1 : more[m].field = f /\ more[m].key = k => m <= n
    BY <1>1, <1>3, <2>2 DEF LastCall, N
  <2> QED
    BY <1>1, <1>3, <2>1, <2>3 DEF LastCall
<1>4. ASSUME NEW k, NEW n, LastCall(more, n, f, k), call.field # f \/ call.key # k
      PROVE  LastCall(calls, n, f, k) /\ n \in 1 .. N /\ more[n] = calls[n]
  <2>1. n \in 1 .. N + 1 /\ more[n].field = f /\ more[n].key = k
    BY <1>1, <1>4 DEF LastCall
  <2>2. n \in 1 .. N /\ more[n] = calls[n]
    BY <1>1, <1>4, <2>1
  <2>3. \A m \in 1 .. N : m \in 1 .. N + 1
    BY <1>1
  <2>4. \A m \in 1 .. N : calls[m].field = f /\ calls[m].key = k => m <= n
    BY <1>1, <1>4, <2>3 DEF LastCall
  <2> QED
    BY <2>1, <2>2, <2>4 DEF LastCall, N
<1>5. CASE call.field # f
  <2>1. Asks(old, more, f)
    <3>1. ASSUME NEW k \in DOMAIN old PROVE \E n \in 1 .. Len(more) : LastCall(more, n, f, k)
      <4>1. PICK n \in 1 .. Len(calls) : LastCall(calls, n, f, k)
        BY <1>2, Zenon DEF Asks
      <4>2. LastCall(more, n, f, k)
        BY <1>3, <1>5, <4>1, Zenon
      <4> QED
        BY <4>2, Zenon DEF LastCall
    <3>2. ASSUME NEW k, NEW n, LastCall(more, n, f, k)
          PROVE  /\ k \in DOMAIN old <=> more[n].value # "deleted"
                 /\ k \in DOMAIN old => old[k] = more[n].value
      <4>1. LastCall(calls, n, f, k) /\ more[n] = calls[n]
        BY <1>4, <1>5, <3>2, Zenon
      <4> QED
        BY <1>2, <4>1, Zenon DEF Asks
    <3> QED
      BY <1>2, <3>1, <3>2, Zenon DEF Asks
  <2>2. old = Asked(more, f)
    BY <1>1, <2>1, AskedIs, Zenon
  <2> QED
    BY <1>5, <2>2 DEF old, more
<1>6. ASSUME call.field = f PROVE LastCall(more, N + 1, f, call.key)
  BY <1>1, <1>6 DEF LastCall
<1>7. ASSUME NEW n, call.field = f, LastCall(more, n, f, call.key) PROVE n = N + 1
  <2>1. N + 1 \in 1 .. N + 1 /\ more[N + 1].field = f /\ more[N + 1].key = call.key
    BY <1>1, <1>7
  <2>2. n \in 1 .. N + 1 /\ N + 1 <= n
    BY <1>1, <1>7, <2>1 DEF LastCall
  <2> QED
    BY <1>1, <2>2
<1>8. ASSUME NEW new, call.field = f,
             DOMAIN new = IF call.value = "deleted" THEN DOMAIN old \ {call.key} ELSE DOMAIN old \cup {call.key},
             \A k \in DOMAIN new : new[k] = IF k = call.key THEN call.value ELSE old[k],
             new = [k \in DOMAIN new |-> new[k]]
      PROVE  new = Asked(more, f)
  <2>1. ASSUME NEW k \in DOMAIN new PROVE \E n \in 1 .. Len(more) : LastCall(more, n, f, k)
    <3>1. CASE k = call.key
      BY <1>6, <1>8, <3>1, Zenon DEF LastCall
    <3>2. CASE k # call.key
      <4>1. k \in DOMAIN old
        BY <1>8, <3>2
      <4>2. PICK n \in 1 .. Len(calls) : LastCall(calls, n, f, k)
        BY <1>2, <4>1, Zenon DEF Asks
      <4>3. LastCall(more, n, f, k)
        BY <1>3, <3>2, <4>2, Zenon
      <4> QED
        BY <4>3, Zenon DEF LastCall
    <3> QED
      BY <3>1, <3>2
  <2>2. ASSUME NEW k, NEW n, LastCall(more, n, f, k)
        PROVE  /\ k \in DOMAIN new <=> more[n].value # "deleted"
               /\ k \in DOMAIN new => new[k] = more[n].value
    <3>1. CASE k = call.key
      <4>1. n = N + 1 /\ more[n] = call
        BY <1>1, <1>7, <1>8, <2>2, <3>1
      <4>2. k \in DOMAIN new <=> call.value # "deleted"
        BY <1>8, <3>1
      <4> QED
        BY <1>8, <3>1, <4>1, <4>2
    <3>2. CASE k # call.key
      <4>1. LastCall(calls, n, f, k) /\ more[n] = calls[n]
        BY <1>4, <2>2, <3>2, Zenon
      <4>2. k \in DOMAIN new <=> k \in DOMAIN old
        BY <1>8, <3>2
      <4>3. k \in DOMAIN new => new[k] = old[k]
        BY <1>8, <3>2
      <4> QED
        BY <1>2, <4>1, <4>2, <4>3, Zenon DEF Asks
    <3> QED
      BY <3>1, <3>2
  <2>3. Asks(new, more, f)
    BY <1>8, <2>1, <2>2, Zenon DEF Asks
  <2> QED
    BY <1>1, <2>3, AskedIs, Zenon
<1>9. CASE call.field = f /\ call.value = "deleted"
  <2> DEFINE new == Without(old, call.key)
  <2>1. new = [x \in DOMAIN old \ {call.key} |-> old[x]]
    BY DEF Without
  <2> HIDE DEF new
  <2>2. /\ DOMAIN new = DOMAIN old \ {call.key} /\ \A k \in DOMAIN new : new[k] = old[k] /\ k # call.key
        /\ new = [k \in DOMAIN new |-> new[k]]
    BY <2>1
  <2>3. new = Asked(more, f)
    BY <1>8, <1>9, <2>2
  <2> QED
    BY <1>9, <2>3 DEF new, old, more
<1>10. CASE call.field = f /\ call.value # "deleted"
  <2> DEFINE new == Put(old, call.key, call.value)
  <2>1. new = [x \in DOMAIN old \cup {call.key} |-> IF x = call.key THEN call.value ELSE old[x]]
    BY DEF Put
  <2> HIDE DEF new
  <2>2. /\ DOMAIN new = DOMAIN old \cup {call.key}
        /\ \A k \in DOMAIN new : new[k] = IF k = call.key THEN call.value ELSE old[k]
        /\ new = [k \in DOMAIN new |-> new[k]]
    BY <2>1
  <2>3. new = Asked(more, f)
    BY <1>8, <1>10, <2>2
  <2> QED
    BY <1>10, <2>3 DEF new, old, more
<1> QED
  BY <1>5, <1>9, <1>10

(* The heaps: an object refers to a codec map, and once it has cached a    *)
(* context, to one that was made with this map; both heaps only grow.      *)
CacheFits(s0, o) ==
  /\ o.cachedVer = -1 \/ o.cachedVer \in Nat
  /\ o.cachedVer # -1 => /\ o.cached \in 1 .. Len(s0.contexts)
                         /\ s0.contexts[o.cached].spec = o.codecs
                         /\ s0.contexts[o.cached].version = o.cachedVer
Object(s0, o) ==
  /\ o = [merged |-> o.merged, plain |-> o.plain, codecs |-> o.codecs,
          cached |-> o.cached, cachedVer |-> o.cachedVer]
  /\ o.merged = [f \in MergedFields |-> o.merged[f]] /\ o.plain = [f \in PlainFields |-> o.plain[f]]
  /\ o.codecs \in 1 .. Len(s0.maps)
  /\ CacheFits(s0, o)
Heap(s0) ==
  /\ s0 = [maps |-> s0.maps, contexts |-> s0.contexts, version |-> s0.version, used |-> s0.used,
           objects |-> s0.objects, given |-> s0.given]
  /\ IsSeq(s0.maps) /\ IsSeq(s0.contexts) /\ IsSeq(s0.objects) /\ IsSeq(s0.given)
  /\ Len(s0.given) = Len(s0.objects) /\ s0.version \in Nat
  /\ \A c \in 1 .. Len(s0.contexts) : s0.contexts[c].spec \in 1 .. Len(s0.maps)
  /\ s0.used.of \in 0 .. Len(s0.objects) /\ s0.used.ctx \in 0 .. Len(s0.contexts)
  /\ \A i \in 1 .. Len(s0.objects) : IsSeq(s0.given[i]) /\ Object(s0, s0.objects[i])

(* What an object has is what its calls asked for.                         *)
HasAsked(maps, o, calls) ==
  /\ \A f \in MergedFields : o.merged[f] = Asked(calls, f)
  /\ \A f \in PlainFields : o.plain[f] = IF f \in DOMAIN Asked(calls, f) THEN Asked(calls, f)[f] ELSE Defaults
  /\ maps[o.codecs] = Asked(calls, "codecs")
UsedAsked(s0) ==
  /\ s0.used.of # 0 =>
       Asked(s0.given[s0.used.of], "codecs") =
         IF s0.used.ctx = NoContext THEN Empty ELSE s0.maps[s0.contexts[s0.used.ctx].spec]
  /\ s0.used.ctx # NoContext => s0.contexts[s0.used.ctx].version = s0.used.at
AllAsked(s0) ==
  /\ \A i \in 1 .. Len(s0.objects) : HasAsked(s0.maps, s0.objects[i], s0.given[i])
  /\ UsedAsked(s0)

LEMMA AllAskedIs ==
  ASSUME NEW s0, Heap(s0), AllAsked(s0)
  PROVE  AsAsked(s0)
<1>1. DOMAIN s0.objects = 1 .. Len(s0.objects)
  BY DEF Heap, IsSeq
<1> QED
  BY <1>1, Zenon DEF AllAsked, HasAsked, UsedAsked, AsAsked

(* A clone: its codecs are in a map that is there or was added for it.     *)
ClonedCodecs(s0, c) ==
  /\ IsSeq(c.maps) /\ Len(s0.maps) <= Len(c.maps)
  /\ \A m \in 1 .. Len(s0.maps) : c.maps[m] = s0.maps[m]
  /\ c.codecs \in 1 .. Len(c.maps)
  /\ c.cache.cachedVer = -1 \/ c.cache.cachedVer \in Nat
  /\ c.cache.cachedVer # -1 => /\ c.cache.cached \in 1 .. Len(s0.contexts)
                               /\ s0.contexts[c.cache.cached].spec = c.codecs
                               /\ s0.contexts[c.cache.cached].version = c.cache.cachedVer

LEMMA CloneAsked ==
  ASSUME NEW s0, Heap(s0), AllAsked(s0), NEW i \in 1 .. Len(s0.objects), NEW call,
         NEW merged, merged = [f \in MergedFields |-> merged[f]],
         NEW plain, plain = [f \in PlainFields |-> plain[f]],
         NEW c, ClonedCodecs(s0, c),
         \A f \in MergedFields : merged[f] = Asked(Append(s0.given[i], call), f),
         \A f \in PlainFields : plain[f] = IF f \in DOMAIN Asked(Append(s0.given[i], call), f)
                                           THEN Asked(Append(s0.given[i], call), f)[f] ELSE Defaults,
         c.maps[c.codecs] = Asked(Append(s0.given[i], call), "codecs")
  PROVE  Heap(CloneWith(s0, i, call, merged, plain, c)) /\ AllAsked(CloneWith(s0, i, call, merged, plain, c))
<1> DEFINE t == CloneWith(s0, i, call, merged, plain, c)
<1> DEFINE o == [merged |-> merged, plain |-> plain, codecs |-> c.codecs,
                 cached |-> c.cache.cached, cachedVer |-> c.cache.cachedVer]
<1> DEFINE calls == Append(s0.given[i], call)
<1> DEFINE N == Len(s0.objects)
<1>1. t = [maps |-> c.maps, contexts |-> s0.contexts, version |-> s0.version, used |-> s0.used,
           objects |-> Append(s0.objects, o), given |-> Append(s0.given, calls)]
  <2>1. s0 = [maps |-> s0.maps, contexts |-> s0.contexts, version |-> s0.version, used |-> s0.used,
              objects |-> s0.objects, given |-> s0.given]
    BY DEF Heap
  <2>2. t = [s0 EXCEPT !.maps = c.maps, !.objects = Append(@, o), !.given = Append(@, calls)]
    BY Zenon DEF CloneWith
  <2> HIDE DEF t, o, calls
  <2> QED
    BY <2>1, <2>2
<1>2. /\ t = [maps |-> t.maps, contexts |-> t.contexts, version |-> t.version, used |-> t.used,
              objects |-> t.objects, given |-> t.given]
      /\ t.maps = c.maps /\ t.contexts = s0.contexts /\ t.version = s0.version /\ t.used = s0.used
      /\ t.objects = Append(s0.objects, o) /\ t.given = Append(s0.given, calls)
  <2> HIDE DEF t, o, calls
  <2> QED
    BY <1>1
<1>3. /\ o = [merged |-> o.merged, plain |-> o.plain, codecs |-> o.codecs,
              cached |-> o.cached, cachedVer |-> o.cachedVer]
      /\ o.merged = merged /\ o.plain = plain /\ o.codecs = c.codecs
      /\ o.cached = c.cache.cached /\ o.cachedVer = c.cache.cachedVer
  OBVIOUS
<1>4. N \in Nat /\ Len(s0.given) = N /\ IsSeq(s0.objects) /\ IsSeq(s0.given) /\ i \in 1 .. N
  BY DEF Heap, IsSeq
<1>5. IsSeq(calls)
  BY <1>4, AppendIsSeq DEF Heap
<1> HIDE DEF t, o, calls, N
<1>6. /\ IsSeq(t.objects) /\ Len(t.objects) = N + 1 /\ t.objects[N + 1] = o
      /\ \A n \in 1 .. N : t.objects[n] = s0.objects[n]
  BY <1>2, <1>4, AppendIsSeq DEF N
<1>7. /\ IsSeq(t.given) /\ Len(t.given) = N + 1 /\ t.given[N + 1] = calls
      /\ \A n \in 1 .. N : t.given[n] = s0.given[n]
  BY <1>2, <1>4, AppendIsSeq
<1>8. \A n \in 1 .. N + 1 : n \in 1 .. N \/ n = N + 1
  BY <1>4
<1>9. \A m \in 1 .. Len(s0.maps) : m \in 1 .. Len(t.maps) /\ t.maps[m] = s0.maps[m]
  BY <1>2 DEF ClonedCodecs, Heap, IsSeq
<1>10. Object(t, o)
  BY <1>2, <1>3 DEF Object, CacheFits, ClonedCodecs
<1>11. ASSUME NEW n \in 1 .. N PROVE IsSeq(t.given[n]) /\ Object(t, t.objects[n]) /\ HasAsked(t.maps, t.objects[n], t.given[n])
  <2>1. /\ IsSeq(s0.given[n]) /\ Object(s0, s0.objects[n]) /\ HasAsked(s0.maps, s0.objects[n], s0.given[n])
        /\ t.given[n] = s0.given[n] /\ t.objects[n] = s0.objects[n]
    BY <1>6, <1>7 DEF Heap, AllAsked, N
  <2>2. s0.objects[n].codecs \in 1 .. Len(s0.maps)
    BY <2>1 DEF Object
  <2>3. CacheFits(t, s0.objects[n])
    BY <1>2, <2>1, Zenon DEF Object, CacheFits
  <2>4. Object(t, s0.objects[n])
    BY <1>9, <2>1, <2>2, <2>3, Zenon DEF Object
  <2>5. HasAsked(t.maps, s0.objects[n], s0.given[n])
    BY <1>9, <2>1, <2>2, Zenon DEF HasAsked
  <2> QED
    BY <2>1, <2>4, <2>5, Zenon
<1>12. HasAsked(t.maps, o, calls)
  BY <1>2, <1>3, Zenon DEF HasAsked, calls
<1>13. \A n \in 1 .. N + 1 : IsSeq(t.given[n]) /\ Object(t, t.objects[n]) /\ HasAsked(t.maps, t.objects[n], t.given[n])
  BY <1>5, <1>6, <1>7, <1>8, <1>10, <1>11, <1>12, Zenon
<1>14. UsedAsked(t)
  <2>1. UsedAsked(s0) /\ s0.used.of \in 0 .. N /\ s0.used.ctx \in 0 .. Len(s0.contexts)
    BY DEF AllAsked, Heap, N
  <2>2. s0.used.of # 0 => t.given[s0.used.of] = s0.given[s0.used.of]
    <3>1. s0.used.of # 0 => s0.used.of \in 1 .. N
      BY <1>4, <2>1
    <3> QED
      BY <1>7, <3>1, Zenon
  <2>3. s0.used.ctx # NoContext => s0.contexts[s0.used.ctx].spec \in 1 .. Len(s0.maps)
    <3>1. Len(s0.contexts) \in Nat
      BY DEF Heap, IsSeq
    <3>2. s0.used.ctx # NoContext => s0.used.ctx \in 1 .. Len(s0.contexts)
      BY <2>1, <3>1 DEF NoContext
    <3> QED
      BY <3>2, Zenon DEF Heap
  <2> QED
    BY <1>2, <1>9, <2>1, <2>2, <2>3, Zenon DEF UsedAsked
<1>15. Heap(t)
  <2>1. t.used.of \in 0 .. N + 1
    BY <1>2, <1>4 DEF Heap, N
  <2>2. \A n \in 1 .. Len(t.contexts) : t.contexts[n].spec \in 1 .. Len(t.maps)
    BY <1>2, <1>9, Zenon DEF Heap
  <2>3. IsSeq(t.maps) /\ IsSeq(t.contexts) /\ t.version \in Nat /\ t.used.ctx \in 0 .. Len(t.contexts)
    BY <1>2, Zenon DEF Heap, ClonedCodecs
  <2> QED
    BY <1>2, <1>6, <1>7, <1>13, <2>1, <2>2, <2>3, Zenon DEF Heap
<1> QED
  BY <1>6, <1>13, <1>14, <1>15, Zenon DEF AllAsked, t

(* The codecs of a clone that inherits them, or drops the row codec.       *)
LEMMA ShareFits ==
  ASSUME NEW s0, Heap(s0), NEW o, Object(s0, o)
  PROVE  /\ ClonedCodecs(s0, ShareCodecs(s0, o))
         /\ ShareCodecs(s0, o).maps = s0.maps /\ ShareCodecs(s0, o).codecs = o.codecs
<1> DEFINE c == ShareCodecs(s0, o)
<1>1. /\ c.maps = s0.maps /\ c.codecs = o.codecs
      /\ c.cache.cached = o.cached /\ c.cache.cachedVer = o.cachedVer
  BY DEF ShareCodecs, Kept
<1> HIDE DEF c
<1>2. Len(s0.maps) \in Nat /\ IsSeq(s0.maps)
  BY DEF Heap, IsSeq
<1>3. ClonedCodecs(s0, c)
  BY <1>1, <1>2 DEF ClonedCodecs, Object, CacheFits
<1> QED
  BY <1>1, <1>3 DEF c

LEMMA NewMapFits ==
  ASSUME NEW s0, Heap(s0), NEW map, NEW c,
         c = [codecs |-> Len(s0.maps) + 1, cache |-> Nothing, maps |-> Append(s0.maps, map)]
  PROVE  ClonedCodecs(s0, c) /\ c.maps[c.codecs] = map
<1>1. /\ c.codecs = Len(s0.maps) + 1 /\ c.maps = Append(s0.maps, map)
      /\ c.cache.cachedVer = -1
  BY DEF Nothing
<1>2. Len(s0.maps) \in Nat /\ IsSeq(s0.maps)
  BY DEF Heap, IsSeq
<1>3. /\ IsSeq(c.maps) /\ Len(c.maps) = Len(s0.maps) + 1 /\ c.maps[Len(s0.maps) + 1] = map
      /\ \A n \in 1 .. Len(s0.maps) : c.maps[n] = s0.maps[n]
  BY <1>1, <1>2, AppendIsSeq
<1> QED
  BY <1>1, <1>2, <1>3 DEF ClonedCodecs

(* The calls, one after the other.                                         *)
LEMMA MergedAsked ==
  ASSUME NEW s0, Heap(s0), AllAsked(s0), NEW i \in 1 .. Len(s0.objects),
         NEW f \in MergedFields, NEW k, NEW v, v # "deleted"
  PROVE  Heap(WithMerged(s0, i, f, k, v)) /\ AllAsked(WithMerged(s0, i, f, k, v))
<1> DEFINE o == s0.objects[i]
<1> DEFINE call == [field |-> f, key |-> k, value |-> v]
<1> DEFINE merged == [o.merged EXCEPT ![f] = Put(@, k, v)]
<1> DEFINE c == ShareCodecs(s0, o)
<1> DEFINE calls == Append(s0.given[i], call)
<1>1. IsSeq(s0.given[i]) /\ Object(s0, o) /\ HasAsked(s0.maps, o, s0.given[i])
  BY DEF Heap, AllAsked
<1>2. WithMerged(s0, i, f, k, v) = CloneWith(s0, i, call, merged, o.plain, c)
  BY Zenon DEF WithMerged
<1>3. call.field = f /\ call.key = k /\ call.value = v
  OBVIOUS
<1>4. ClonedCodecs(s0, c) /\ c.maps = s0.maps /\ c.codecs = o.codecs
  BY <1>1, ShareFits
<1>5. o.merged = [g \in MergedFields |-> o.merged[g]] /\ o.plain = [g \in PlainFields |-> o.plain[g]]
  BY <1>1 DEF Object
<1>6. /\ merged = [g \in MergedFields |-> merged[g]]
      /\ merged[f] = Put(o.merged[f], k, v) /\ \A g \in MergedFields : g # f => merged[g] = o.merged[g]
  BY <1>5
<1> HIDE DEF call, merged, c, o
<1>7. \A g : Asked(calls, g) = IF f # g THEN Asked(s0.given[i], g) ELSE Put(Asked(s0.given[i], g), k, v)
  BY <1>1, <1>3, AskedAppend
<1>8. f \notin PlainFields /\ f # "codecs"
  BY OptionsAssumption DEF OptionsAssumption
<1> HIDE DEF calls
<1>9. ASSUME NEW g \in MergedFields PROVE merged[g] = Asked(calls, g)
  <2>1. o.merged[g] = Asked(s0.given[i], g)
    BY <1>1 DEF HasAsked
  <2>2. CASE g = f
    <3>1. Asked(calls, f) = Put(Asked(s0.given[i], f), k, v)
      BY <1>7
    <3> QED
      BY <1>6, <2>1, <2>2, <3>1, Zenon
  <2>3. CASE g # f
    BY <1>6, <1>7, <2>1, <2>3
  <2> QED
    BY <2>2, <2>3
<1>10. ASSUME NEW g \in PlainFields
       PROVE  o.plain[g] = IF g \in DOMAIN Asked(calls, g) THEN Asked(calls, g)[g] ELSE Defaults
  <2>1. Asked(calls, g) = Asked(s0.given[i], g)
    BY <1>7, <1>8
  <2>2. o.plain[g] = IF g \in DOMAIN Asked(s0.given[i], g) THEN Asked(s0.given[i], g)[g] ELSE Defaults
    BY <1>1 DEF HasAsked
  <2> QED
    BY <2>1, <2>2, Zenon
<1>11. c.maps[c.codecs] = Asked(calls, "codecs")
  BY <1>1, <1>4, <1>7, <1>8, Zenon DEF HasAsked
<1> QED
  BY <1>2, <1>4, <1>5, <1>6, <1>9, <1>10, <1>11, CloneAsked DEF calls

LEMMA PlainAsked ==
  ASSUME NEW s0, Heap(s0), AllAsked(s0), NEW i \in 1 .. Len(s0.objects),
         NEW f \in PlainFields, NEW v, v # "deleted"
  PROVE  Heap(WithPlain(s0, i, f, v)) /\ AllAsked(WithPlain(s0, i, f, v))
<1> DEFINE o == s0.objects[i]
<1> DEFINE call == [field |-> f, key |-> f, value |-> v]
<1> DEFINE plain == [o.plain EXCEPT ![f] = v]
<1> DEFINE c == ShareCodecs(s0, o)
<1> DEFINE calls == Append(s0.given[i], call)
<1>1. IsSeq(s0.given[i]) /\ Object(s0, o) /\ HasAsked(s0.maps, o, s0.given[i])
  BY DEF Heap, AllAsked
<1>2. WithPlain(s0, i, f, v) = CloneWith(s0, i, call, o.merged, plain, c)
  BY Zenon DEF WithPlain
<1>3. call.field = f /\ call.key = f /\ call.value = v
  OBVIOUS
<1>4. ClonedCodecs(s0, c) /\ c.maps = s0.maps /\ c.codecs = o.codecs
  BY <1>1, ShareFits
<1>5. o.merged = [g \in MergedFields |-> o.merged[g]] /\ o.plain = [g \in PlainFields |-> o.plain[g]]
  BY <1>1 DEF Object
<1>6. /\ plain = [g \in PlainFields |-> plain[g]]
      /\ plain[f] = v /\ \A g \in PlainFields : g # f => plain[g] = o.plain[g]
  BY <1>5
<1> HIDE DEF call, plain, c, o
<1>7. \A g : Asked(calls, g) = IF f # g THEN Asked(s0.given[i], g) ELSE Put(Asked(s0.given[i], g), f, v)
  BY <1>1, <1>3, AskedAppend
<1>8. f \notin MergedFields /\ f # "codecs"
  BY OptionsAssumption DEF OptionsAssumption
<1> HIDE DEF calls
<1>9. \A g \in MergedFields : o.merged[g] = Asked(calls, g)
  BY <1>1, <1>7, <1>8, Zenon DEF HasAsked
<1>10. ASSUME NEW g \in PlainFields
       PROVE  plain[g] = IF g \in DOMAIN Asked(calls, g) THEN Asked(calls, g)[g] ELSE Defaults
  <2>1. CASE g = f
    <3> DEFINE before == Asked(s0.given[i], f)
    <3>1. Asked(calls, f) = [x \in DOMAIN before \cup {f} |-> IF x = f THEN v ELSE before[x]]
      BY <1>7 DEF Put
    <3> HIDE DEF before
    <3>2. f \in DOMAIN Asked(calls, f) /\ Asked(calls, f)[f] = v
      BY <3>1
    <3> QED
      BY <1>6, <2>1, <3>2
  <2>2. CASE g # f
    BY <1>1, <1>6, <1>7, <2>2, Zenon DEF HasAsked
  <2> QED
    BY <2>1, <2>2
<1>11. c.maps[c.codecs] = Asked(calls, "codecs")
  BY <1>1, <1>4, <1>7, <1>8, Zenon DEF HasAsked
<1> QED
  BY <1>2, <1>4, <1>5, <1>6, <1>9, <1>10, <1>11, CloneAsked DEF calls

(* withCodecs(), withSQLRowMode(): all fields but the codecs are inherited. *)
LEMMA CodecCallAsked ==
  ASSUME NEW s0, Heap(s0), AllAsked(s0), NEW i \in 1 .. Len(s0.objects), NEW k, NEW v, NEW c,
         ClonedCodecs(s0, c),
         c.maps[c.codecs] = IF v = "deleted" THEN Without(s0.maps[s0.objects[i].codecs], k)
                            ELSE Put(s0.maps[s0.objects[i].codecs], k, v),
         NEW t, t = CloneWith(s0, i, [field |-> "codecs", key |-> k, value |-> v],
                              s0.objects[i].merged, s0.objects[i].plain, c)
  PROVE  Heap(t) /\ AllAsked(t)
<1> DEFINE o == s0.objects[i]
<1> DEFINE call == [field |-> "codecs", key |-> k, value |-> v]
<1> DEFINE calls == Append(s0.given[i], call)
<1>1. IsSeq(s0.given[i]) /\ Object(s0, o) /\ HasAsked(s0.maps, o, s0.given[i])
  BY DEF Heap, AllAsked
<1>2. t = CloneWith(s0, i, call, o.merged, o.plain, c)
  BY Zenon
<1>3. call.field = "codecs" /\ call.key = k /\ call.value = v
  OBVIOUS
<1>5. o.merged = [g \in MergedFields |-> o.merged[g]] /\ o.plain = [g \in PlainFields |-> o.plain[g]]
  BY <1>1 DEF Object
<1> HIDE DEF call
<1>7. \A g : Asked(calls, g) = IF "codecs" # g THEN Asked(s0.given[i], g)
                               ELSE IF v = "deleted" THEN Without(Asked(s0.given[i], g), k)
                               ELSE Put(Asked(s0.given[i], g), k, v)
  BY <1>1, <1>3, AskedAppend
<1>8. \A g \in MergedFields \cup PlainFields : "codecs" # g
  BY OptionsAssumption DEF OptionsAssumption
<1> HIDE DEF calls, o
<1>9. \A g \in MergedFields : o.merged[g] = Asked(calls, g)
  BY <1>1, <1>7, <1>8 DEF HasAsked
<1>10. \A g \in PlainFields : o.plain[g] = IF g \in DOMAIN Asked(calls, g) THEN Asked(calls, g)[g] ELSE Defaults
  BY <1>1, <1>7, <1>8 DEF HasAsked
<1>11. c.maps[c.codecs] = Asked(calls, "codecs")
  <2>1. s0.maps[o.codecs] = Asked(s0.given[i], "codecs")
    BY <1>1 DEF HasAsked
  <2> QED
    BY <1>7, <2>1, Zenon DEF o
<1> QED
  BY <1>2, <1>5, <1>9, <1>10, <1>11, CloneAsked DEF calls

LEMMA MergeAsked ==
  ASSUME NEW s0, Heap(s0), AllAsked(s0), NEW i \in 1 .. Len(s0.objects), NEW k, NEW v, v # "deleted"
  PROVE  Heap(WithCodecs(s0, i, k, v)) /\ AllAsked(WithCodecs(s0, i, k, v))
<1> DEFINE o == s0.objects[i]
<1> DEFINE c == MergeCodecs(s0, o, k, v)
<1> DEFINE t == WithCodecs(s0, i, k, v)
<1>1. c = [codecs |-> Len(s0.maps) + 1, cache |-> Nothing, maps |-> Append(s0.maps, Put(s0.maps[o.codecs], k, v))]
  BY DEF MergeCodecs
<1> DEFINE map == Put(s0.maps[o.codecs], k, v)
<1>2. t = CloneWith(s0, i, [field |-> "codecs", key |-> k, value |-> v], o.merged, o.plain, c)
  BY Zenon DEF WithCodecs
<1> HIDE DEF c, t
<1>3. ClonedCodecs(s0, c) /\ c.maps[c.codecs] = map
  <2> HIDE DEF map
  <2> QED
    BY <1>1, NewMapFits DEF map
<1>4. Heap(t) /\ AllAsked(t)
  BY <1>2, <1>3, CodecCallAsked
<1> QED
  BY <1>4 DEF t

LEMMA DropAsked ==
  ASSUME NEW s0, Heap(s0), AllAsked(s0), NEW i \in 1 .. Len(s0.objects)
  PROVE  Heap(WithoutRowCodec(s0, i)) /\ AllAsked(WithoutRowCodec(s0, i))
<1> DEFINE o == s0.objects[i]
<1> DEFINE map == s0.maps[o.codecs]
<1> DEFINE c == DropCodec(s0, o)
<1> DEFINE t == WithoutRowCodec(s0, i)
<1> DEFINE deleted == "deleted"
<1>1. t = CloneWith(s0, i, [field |-> "codecs", key |-> SqlRow, value |-> deleted], o.merged, o.plain, c)
  BY Zenon DEF WithoutRowCodec
<1>2. Object(s0, o) /\ HasAsked(s0.maps, o, s0.given[i]) /\ IsSeq(s0.given[i])
  BY DEF Heap, AllAsked
<1> HIDE DEF t, c
<1>3. ClonedCodecs(s0, c) /\ c.maps[c.codecs] = Without(map, SqlRow)
  <2>1. CASE SqlRow \in DOMAIN map
    <3>1. c = [codecs |-> Len(s0.maps) + 1, cache |-> Nothing, maps |-> Append(s0.maps, Without(map, SqlRow))]
      BY <2>1 DEF c, DropCodec
    <3> DEFINE new == Without(map, SqlRow)
    <3>2. c = [codecs |-> Len(s0.maps) + 1, cache |-> Nothing, maps |-> Append(s0.maps, new)]
      BY <3>1
    <3> HIDE DEF new
    <3>3. ClonedCodecs(s0, c) /\ c.maps[c.codecs] = new
      BY <3>2, NewMapFits
    <3> QED
      BY <3>3 DEF new
  <2>2. CASE SqlRow \notin DOMAIN map
    <3>1. c = ShareCodecs(s0, o)
      BY <2>2 DEF c, DropCodec
    <3>2. ClonedCodecs(s0, c) /\ c.maps[c.codecs] = map
      BY <1>2, <3>1, ShareFits
    <3>3. map = [k \in DOMAIN map |-> map[k]]
      BY <1>2, AskedAsks DEF HasAsked, Asks
    <3>4. map = Without(map, SqlRow)
      <4> HIDE DEF map
      <4> QED
        BY <2>2, <3>3 DEF Without
    <3> QED
      BY <3>2, <3>4, Zenon
  <2> QED
    BY <2>1, <2>2
<1>4. deleted = "deleted"
  OBVIOUS
<1> HIDE DEF deleted
<1>5. Heap(t) /\ AllAsked(t)
  BY <1>1, <1>3, <1>4, CodecCallAsked
<1> QED
  BY <1>5 DEF t

LEMMA CachedIs ==
  ASSUME NEW o, o = [merged |-> o.merged, plain |-> o.plain, codecs |-> o.codecs,
                     cached |-> o.cached, cachedVer |-> o.cachedVer],
         NEW x, NEW v, NEW o2, o2 = [o EXCEPT !.cached = x, !.cachedVer = v]
  PROVE  /\ o2 = [merged |-> o2.merged, plain |-> o2.plain, codecs |-> o2.codecs,
                  cached |-> o2.cached, cachedVer |-> o2.cachedVer]
         /\ o2.merged = o.merged /\ o2.plain = o.plain /\ o2.codecs = o.codecs
         /\ o2.cached = x /\ o2.cachedVer = v
  OBVIOUS

(* makeCodecContext(): the context that is cached, or a new one, was made  *)
(* with the codecs of the object.                                          *)
LEMMA UseAsked ==
  ASSUME NEW s0, Heap(s0), AllAsked(s0), NEW i \in 1 .. Len(s0.objects)
  PROVE  Heap(Use(s0, i)) /\ AllAsked(Use(s0, i))
<1> DEFINE o == s0.objects[i]
<1> DEFINE map == s0.maps[o.codecs]
<1> DEFINE t == Use(s0, i)
<1> DEFINE N == Len(s0.objects)
<1> DEFINE C == Len(s0.contexts)
<1>1. /\ s0 = [maps |-> s0.maps, contexts |-> s0.contexts, version |-> s0.version, used |-> s0.used,
               objects |-> s0.objects, given |-> s0.given]
      /\ Object(s0, o) /\ HasAsked(s0.maps, o, s0.given[i]) /\ s0.version \in Nat
      /\ IsSeq(s0.objects) /\ IsSeq(s0.contexts) /\ N \in Nat /\ C \in Nat /\ i \in 1 .. N
  BY DEF Heap, AllAsked, IsSeq
<1>2. map = Asked(s0.given[i], "codecs")
  BY <1>1 DEF HasAsked
<1>3. ASSUME NEW x \in 0 .. C, t = [s0 EXCEPT !.used = [of |-> i, ctx |-> x, at |-> s0.version]],
             map = IF x = NoContext THEN Empty ELSE s0.maps[s0.contexts[x].spec],
             x # NoContext => s0.contexts[x].version = s0.version
      PROVE  Heap(t) /\ AllAsked(t)
  <2> HIDE DEF t, map, o, N, C
  <2>1. /\ t = [maps |-> t.maps, contexts |-> t.contexts, version |-> t.version, used |-> t.used,
                objects |-> t.objects, given |-> t.given]
        /\ t.maps = s0.maps /\ t.contexts = s0.contexts /\ t.version = s0.version
        /\ t.objects = s0.objects /\ t.given = s0.given /\ t.used.of = i /\ t.used.ctx = x
        /\ t.used.at = s0.version
    BY <1>1, <1>3
  <2>2. t.used.of \in 0 .. N
    BY <1>1, <2>1
  <2>3. \A n \in 1 .. N : Object(t, s0.objects[n])
    BY <2>1, Zenon DEF Heap, Object, CacheFits, N
  <2>4. Heap(t)
    BY <2>1, <2>2, <2>3, Zenon DEF Heap, C, N
  <2>5. UsedAsked(t)
    BY <1>2, <1>3, <2>1, Zenon DEF UsedAsked, map
  <2> QED
    BY <2>1, <2>4, <2>5, Zenon DEF AllAsked
<1>4. CASE map = Empty
  <2>1. t = [s0 EXCEPT !.used = [of |-> i, ctx |-> NoContext, at |-> s0.version]]
    BY <1>4 DEF Use
  <2>2. NoContext \in 0 .. C
    BY <1>1 DEF NoContext
  <2> QED
    BY <1>3, <1>4, <2>1, <2>2
<1>5. CASE map # Empty /\ o.cachedVer = s0.version
  <2>1. t = [s0 EXCEPT !.used = [of |-> i, ctx |-> o.cached, at |-> s0.version]]
    BY <1>5 DEF Use
  <2>2. o.cachedVer # -1
    BY <1>1, <1>5
  <2>3. /\ o.cached \in 1 .. C /\ s0.contexts[o.cached].spec = o.codecs
        /\ s0.contexts[o.cached].version = s0.version
    BY <1>1, <1>5, <2>2 DEF Object, CacheFits
  <2>4. o.cached \in 0 .. C /\ o.cached # NoContext
    BY <1>1, <2>3 DEF NoContext
  <2> QED
    BY <1>3, <2>1, <2>3, <2>4
<1>6. CASE map # Empty /\ o.cachedVer # s0.version
  <2> DEFINE made == [spec |-> o.codecs, version |-> s0.version]
  <2> DEFINE new == C + 1
  <2> DEFINE o2 == [o EXCEPT !.cached = new, !.cachedVer = s0.version]
  <2> DEFINE used == [of |-> i, ctx |-> C + 1, at |-> s0.version]
  <2>1. t = [s0 EXCEPT !.contexts = Append(@, made), !.objects[i].cached = C + 1,
                       !.objects[i].cachedVer = s0.version, !.used = used]
    BY <1>6 DEF Use
  <2>2. made.spec = o.codecs /\ made.version = s0.version
    OBVIOUS
  <2>3. /\ o2 = [merged |-> o2.merged, plain |-> o2.plain, codecs |-> o2.codecs,
                 cached |-> o2.cached, cachedVer |-> o2.cachedVer]
        /\ o2.merged = o.merged /\ o2.plain = o.plain /\ o2.codecs = o.codecs
        /\ o2.cached = new /\ o2.cachedVer = s0.version
    <3>1. o = [merged |-> o.merged, plain |-> o.plain, codecs |-> o.codecs,
               cached |-> o.cached, cachedVer |-> o.cachedVer]
      BY <1>1 DEF Object
    <3> DEFINE x == o
    <3> DEFINE v == s0.version
    <3> DEFINE y == [x EXCEPT !.cached = new, !.cachedVer = v]
    <3> HIDE DEF x, v, new, y
    <3>2. x = [merged |-> x.merged, plain |-> x.plain, codecs |-> x.codecs,
               cached |-> x.cached, cachedVer |-> x.cachedVer]
      BY <3>1 DEF x
    <3>3. y = [x EXCEPT !.cached = new, !.cachedVer = v]
      BY DEF y
    <3>4. /\ y = [merged |-> y.merged, plain |-> y.plain, codecs |-> y.codecs,
                  cached |-> y.cached, cachedVer |-> y.cachedVer]
          /\ y.merged = x.merged /\ y.plain = x.plain /\ y.codecs = x.codecs
          /\ y.cached = new /\ y.cachedVer = v
      BY <3>2, <3>3, CachedIs
    <3> QED
      BY <3>4, Zenon DEF x, v, y
  <2>4. used.of = i /\ used.ctx = C + 1 /\ used.at = s0.version
    OBVIOUS
  <2>5. [s0.objects EXCEPT ![i] = o2] = [s0.objects EXCEPT ![i].cached = C + 1, ![i].cachedVer = s0.version]
    BY <1>1 DEF IsSeq
  <2> HIDE DEF made, used, t, C, N
  <2>6. /\ t = [maps |-> t.maps, contexts |-> t.contexts, version |-> t.version, used |-> t.used,
                objects |-> t.objects, given |-> t.given]
        /\ t.maps = s0.maps /\ t.contexts = Append(s0.contexts, made) /\ t.version = s0.version
        /\ t.objects = [s0.objects EXCEPT ![i].cached = C + 1, ![i].cachedVer = s0.version]
        /\ t.given = s0.given /\ t.used = used
    BY <1>1, <2>1
  <2>7. t.objects = [s0.objects EXCEPT ![i] = o2]
    BY <2>5, <2>6
  <2> HIDE DEF o2
  <2>8. /\ IsSeq(t.objects) /\ Len(t.objects) = N /\ t.objects[i] = o2
        /\ \A n \in 1 .. N : n # i => t.objects[n] = s0.objects[n]
    BY <1>1, <2>7, ExceptIsSeq DEF N
  <2>9. /\ IsSeq(t.contexts) /\ Len(t.contexts) = C + 1 /\ t.contexts[C + 1] = made
        /\ \A n \in 1 .. C : t.contexts[n] = s0.contexts[n]
    BY <1>1, <2>6, AppendIsSeq DEF C
  <2>10. \A n \in 1 .. C + 1 : n \in 1 .. C \/ n = C + 1
    BY <1>1
  <2>11. o.codecs \in 1 .. Len(s0.maps) /\ C + 1 \in 1 .. C + 1
    BY <1>1 DEF Object
  <2>12. \A n \in 1 .. C + 1 : t.contexts[n].spec \in 1 .. Len(t.maps)
    BY <2>2, <2>6, <2>9, <2>10, <2>11 DEF Heap, C
  <2>13. Object(t, o2) /\ HasAsked(t.maps, o2, t.given[i])
    <3>1. CacheFits(t, o2)
      BY <1>1, <2>2, <2>3, <2>9, <2>11 DEF CacheFits
    <3> QED
      BY <1>1, <2>3, <2>6, <3>1 DEF Object, HasAsked
  <2>14. ASSUME NEW n \in 1 .. N PROVE IsSeq(t.given[n]) /\ Object(t, t.objects[n]) /\ HasAsked(t.maps, t.objects[n], t.given[n])
    <3>1. IsSeq(s0.given[n]) /\ Object(s0, s0.objects[n]) /\ HasAsked(s0.maps, s0.objects[n], s0.given[n])
      BY DEF Heap, AllAsked, N
    <3>2. CASE n = i
      BY <2>6, <2>8, <2>13, <3>1, <3>2
    <3>3. CASE n # i
      <4>1. \A x \in 1 .. C : x \in 1 .. C + 1
        BY <1>1
      <4>2. CacheFits(t, s0.objects[n])
        BY <2>9, <3>1, <4>1 DEF CacheFits, Object, C
      <4>3. Object(t, s0.objects[n])
        BY <2>6, <3>1, <4>2, Zenon DEF Object
      <4> QED
        BY <2>6, <2>8, <3>1, <3>3, <4>3
    <3> QED
      BY <3>2, <3>3
  <2>15. Heap(t)
    <3>1. t.used.of \in 0 .. N /\ t.used.ctx \in 0 .. C + 1
      BY <1>1, <2>4, <2>6
    <3>2. IsSeq(t.maps) /\ IsSeq(t.given) /\ Len(t.given) = N /\ t.version \in Nat
      BY <2>6 DEF Heap, N
    <3> QED
      BY <2>6, <2>8, <2>9, <2>12, <2>14, <3>1, <3>2, Zenon DEF Heap
  <2>16. UsedAsked(t)
    <3>1. t.used.ctx # NoContext
      BY <1>1, <2>4, <2>6 DEF NoContext
    <3> QED
      BY <1>2, <2>2, <2>4, <2>6, <2>9, <3>1, Zenon DEF UsedAsked
  <2> QED
    BY <2>8, <2>14, <2>15, <2>16, Zenon DEF AllAsked, t
<1> QED
  BY <1>4, <1>5, <1>6

(* A schema change makes the cached contexts old.                          *)
LEMMA SignalAsked ==
  ASSUME NEW s0, Heap(s0), AllAsked(s0)
  PROVE  Heap(SignalSchemaChange(s0)) /\ AllAsked(SignalSchemaChange(s0))
<1> DEFINE t == SignalSchemaChange(s0)
<1>1. s0.version \in Nat
  BY DEF Heap
<1>2. /\ t = [maps |-> t.maps, contexts |-> t.contexts, version |-> t.version, used |-> t.used,
              objects |-> t.objects, given |-> t.given]
      /\ t.maps = s0.maps /\ t.contexts = s0.contexts /\ t.version = s0.version + 1
      /\ t.objects = s0.objects /\ t.given = s0.given /\ t.used = s0.used
  BY DEF SignalSchemaChange, Heap
<1>3. t.version \in Nat
  BY <1>1, <1>2
<1> HIDE DEF t
<1>4. \A o : Object(s0, o) => Object(t, o)
  BY <1>2, Zenon DEF Object, CacheFits
<1>5. Heap(t)
  BY <1>2, <1>3, <1>4, Zenon DEF Heap
<1>6. AllAsked(t)
  BY <1>2, Zenon DEF AllAsked, UsedAsked
<1> QED
  BY <1>5, <1>6 DEF t

(* An application starts with one Options object nobody has asked anything of. *)
LEMMA InitAsked == Heap(InitOptions) /\ AllAsked(InitOptions)
<1> DEFINE o == [merged |-> [f \in MergedFields |-> Empty], plain |-> [f \in PlainFields |-> Defaults],
                 codecs |-> 1, cached |-> NoContext, cachedVer |-> -1]
<1> DEFINE t == InitOptions
<1>1. /\ t = [maps |-> t.maps, contexts |-> t.contexts, version |-> t.version, used |-> t.used,
              objects |-> t.objects, given |-> t.given]
      /\ t.maps = <<Empty>> /\ t.contexts = <<>> /\ t.version = 0
      /\ t.objects = <<o>> /\ t.given = << <<>> >>
      /\ t.used.of = 0 /\ t.used.ctx = NoContext
  BY DEF InitOptions
<1>2. /\ o = [merged |-> o.merged, plain |-> o.plain, codecs |-> o.codecs,
              cached |-> o.cached, cachedVer |-> o.cachedVer]
      /\ o.merged = [f \in MergedFields |-> Empty] /\ o.plain = [f \in PlainFields |-> Defaults]
      /\ o.codecs = 1 /\ o.cachedVer = -1
  OBVIOUS
<1> HIDE DEF t, o
<1>3. /\ IsSeq(t.maps) /\ Len(t.maps) = 1 /\ t.maps[1] = Empty
      /\ IsSeq(t.contexts) /\ Len(t.contexts) = 0
      /\ IsSeq(t.objects) /\ Len(t.objects) = 1 /\ t.objects[1] = o
      /\ IsSeq(t.given) /\ Len(t.given) = 1 /\ t.given[1] = <<>>
  BY <1>1, OneIsSeq, EmptyIsSeq
<1>4. IsSeq(t.given[1]) /\ Object(t, o)
  BY <1>2, <1>3, EmptyIsSeq DEF Object, CacheFits
<1>5. \A f : Asked(<<>>, f) = Empty
  <2> SUFFICES ASSUME NEW f PROVE Asked(<<>>, f) = Empty
    OBVIOUS
  <2>1. \A k, n : ~LastCall(<<>>, n, f, k)
    BY EmptyIsSeq DEF LastCall
  <2>2. DOMAIN Empty = {} /\ Empty = [k \in DOMAIN Empty |-> Empty[k]]
    BY EmptyIsSeq DEF IsSeq, Empty
  <2>3. Asks(Empty, <<>>, f)
    BY <2>1, <2>2 DEF Asks
  <2> QED
    BY <2>3, AskedIs, EmptyIsSeq
<1>6. HasAsked(t.maps, o, t.given[1])
  <2>1. DOMAIN Empty = {}
    BY EmptyIsSeq DEF IsSeq, Empty
  <2> QED
    BY <1>2, <1>3, <1>5, <2>1 DEF HasAsked
<1>7. \A n \in 1 .. 1 : n = 1
  OBVIOUS
<1>8. Heap(t)
  BY <1>1, <1>3, <1>4, <1>7 DEF Heap, NoContext
<1>9. AllAsked(t)
  BY <1>1, <1>3, <1>6, <1>7 DEF AllAsked, UsedAsked
<1> QED
  BY <1>8, <1>9 DEF t

LEMMA OptionsStepAsked ==
  ASSUME NEW s0, Heap(s0), AllAsked(s0), NEW t \in OptionsStep(s0)
  PROVE  Heap(t) /\ AllAsked(t)
<1> DEFINE here == 1 .. Len(s0.objects)
<1>1. \A v \in Settings \cup {Defaults} : v # "deleted"
  BY OptionsAssumption DEF OptionsAssumption, Defaults
<1>2. \/ \E i \in here : \E f \in MergedFields : \E k \in EntryKeys : \E v \in Settings : t = WithMerged(s0, i, f, k, v)
      \/ \E i \in here : \E f \in PlainFields : \E v \in Settings \cup {Defaults} : t = WithPlain(s0, i, f, v)
      \/ \E i \in here : \E k \in CodecNames \cup {SqlRow} : \E v \in Settings : t = WithCodecs(s0, i, k, v)
      \/ \E i \in here : t = WithoutRowCodec(s0, i)
      \/ \E i \in here : t = Use(s0, i)
      \/ t = SignalSchemaChange(s0)
  <2> DEFINE Merged == {WithMerged(s0, i, f, k, v) : i \in here, f \in MergedFields, k \in EntryKeys, v \in Settings}
  <2> DEFINE Plain == {WithPlain(s0, i, f, v) : i \in here, f \in PlainFields, v \in Settings \cup {Defaults}}
  <2> DEFINE Coded == {WithCodecs(s0, i, k, v) : i \in here, k \in CodecNames \cup {SqlRow}, v \in Settings}
  <2> DEFINE Dropped == {WithoutRowCodec(s0, i) : i \in here}
  <2> DEFINE Used == {Use(s0, i) : i \in here}
  <2>1. OptionsStep(s0) =
          (IF Len(s0.objects) = MaxOptions THEN {} ELSE Merged \cup Plain \cup Coded \cup Dropped)
             \cup Used \cup (IF s0.version = MaxSchema THEN {} ELSE {SignalSchemaChange(s0)})
    BY DEF OptionsStep
  <2>2. t \in Merged => \E i \in here : \E f \in MergedFields : \E k \in EntryKeys : \E v \in Settings :
                            t = WithMerged(s0, i, f, k, v)
    OBVIOUS
  <2>3. t \in Plain => \E i \in here : \E f \in PlainFields : \E v \in Settings \cup {Defaults} :
                           t = WithPlain(s0, i, f, v)
    OBVIOUS
  <2>4. t \in Coded => \E i \in here : \E k \in CodecNames \cup {SqlRow} : \E v \in Settings :
                           t = WithCodecs(s0, i, k, v)
    OBVIOUS
  <2>5. t \in Dropped => \E i \in here : t = WithoutRowCodec(s0, i)
    OBVIOUS
  <2>6. t \in Used => \E i \in here : t = Use(s0, i)
    OBVIOUS
  <2> HIDE DEF Merged, Plain, Coded, Dropped, Used
  <2>7. t \in Merged \/ t \in Plain \/ t \in Coded \/ t \in Dropped \/ t \in Used \/ t = SignalSchemaChange(s0)
    BY <2>1
  <2> QED
    BY <2>2, <2>3, <2>4, <2>5, <2>6, <2>7, Zenon
<1> QED
  BY <1>1, <1>2, MergedAsked, PlainAsked, MergeAsked, DropAsked, UseAsked, SignalAsked

(* The inductive invariant of the options.                                 *)
OptionsInv == part = "options" => Heap(s) /\ AllAsked(s)

LEMMA OptionsInitInv == InitStructures => OptionsInv
<1>1. InitStructures /\ part = "options" => s = InitOptions
  BY DEF InitStructures
<1> QED
  BY <1>1, InitAsked DEF OptionsInv

LEMMA OptionsStepInv == OptionsInv /\ [NextStructures]_<<part, s>> => OptionsInv'
<1> SUFFICES ASSUME OptionsInv, [NextStructures]_<<part, s>>, part' = "options"
             PROVE  (Heap(s) /\ AllAsked(s))'
  BY DEF OptionsInv
<1>1. CASE OptionsCall
  <2>1. Heap(s) /\ AllAsked(s) /\ s' \in OptionsStep(s)
    BY <1>1 DEF OptionsCall, OptionsInv
  <2>2. Heap(s') /\ AllAsked(s')
    BY <2>1, OptionsStepAsked
  <2> QED
    BY <2>2
<1>2. CASE UNCHANGED <<part, s>>
  BY <1>2 DEF OptionsInv
<1>3. ASSUME LruStep \/ Feed \/ Take \/ Consume \/ Launch \/ Answer PROVE FALSE
  BY <1>3 DEF LruStep, Feed, Take, Consume, Launch, Answer
<1> QED
  BY <1>1, <1>2, <1>3 DEF NextStructures

(* An Options object has what its own chain of with...() calls asked for,  *)
(* and a request is encoded with its own codecs, however objects are made  *)
(* from each other, used and outdated (options.ts).                        *)
THEOREM OptionsAlwaysAsAsked == StructuresSpec => []OptionsAsAsked
<1>1. OptionsInv => OptionsAsAsked
  BY AllAskedIs DEF OptionsInv, OptionsAsAsked
<1> QED
  BY <1>1, OptionsInitInv, OptionsStepInv, PTL DEF StructuresSpec

----------------------------------------------------------------------------
(* PATH and the packages. *)

(* The first file that is no wrapper can only be the CLI.                  *)
LEMMA PathIsFit ==
  ASSUME NEW path \in Paths
  PROVE  Shell!PathFits(path)
<1>1. path \in Seq(Shell!InPath)
  BY StructuresAssumption DEF StructuresAssumption, Shell!CliAssumption
<1> DEFINE real == {n \in DOMAIN path : path[n] \notin Shell!Wrappers}
<1>2. real \subseteq Nat /\ \A n \in DOMAIN path : n # 0 /\ path[n] \in Shell!InPath
  BY <1>1, ElementOfSeq, LenProperties
<1>3. \A n \in real : path[n] = "cli" /\ n # 0
  BY <1>2 DEF Shell!InPath
<1>4. "cli" \in Shell!ToSet(path) <=> real # {}
  <2>1. Shell!ToSet(path) = {path[n] : n \in DOMAIN path}
    BY DEF Shell!ToSet
  <2>2. "cli" \notin Shell!Wrappers
    BY DEF Shell!Wrappers
  <2> QED
    BY <1>3, <2>1, <2>2
<1>5. real # {} => Shell!Min(real) \in real
  <2> SUFFICES ASSUME real # {} PROVE Shell!Min(real) \in real
    OBVIOUS
  <2> HIDE DEF real
  <2>1. PICK x \in real : \A y \in real : x <= y
    BY <1>2, Least
  <2> QED
    BY <2>1 DEF Shell!Min
<1>6. Shell!whichGelCli(path) = IF real = {} THEN 0 ELSE Shell!Min(real)
  BY DEF Shell!whichGelCli
<1> HIDE DEF real
<1> QED
  BY <1>3, <1>4, <1>5, <1>6 DEF Shell!PathFits

(* The map of the first n packages: a package for every version there is,  *)
(* of the latest revision.                                                 *)
Collected(map, index, n) ==
  /\ map \in Seq(Shell!Package)
  /\ \A k \in 1 .. Len(map) : map[k].cli /\ \E i \in 1 .. n : map[k] = index[i]
  /\ \A j, k \in 1 .. Len(map) : map[j].version = map[k].version => j = k
  /\ \A i \in 1 .. n : index[i].cli =>
       \E k \in 1 .. Len(map) : map[k].version = index[i].version /\ index[i].revision <= map[k].revision

(* SetVersion() in its two cases. *)
LEMMA VersionAdded ==
  ASSUME NEW map \in Seq(Shell!Package), NEW pkg \in Shell!Package,
         \A n \in 1 .. Len(map) : map[n].version # pkg.version
  PROVE  /\ Shell!SetVersion(map, pkg) = Append(map, pkg)
         /\ Append(map, pkg) \in Seq(Shell!Package) /\ Len(Append(map, pkg)) = Len(map) + 1
         /\ Append(map, pkg)[Len(map) + 1] = pkg
         /\ \A k \in 1 .. Len(map) : Append(map, pkg)[k] = map[k]
<1>1. DOMAIN map = 1 .. Len(map)
  BY LenProperties
<1>2. Shell!SetVersion(map, pkg) = Append(map, pkg)
  BY <1>1 DEF Shell!SetVersion
<1> QED
  BY <1>2, AppendProperties

LEMMA VersionSet ==
  ASSUME NEW map \in Seq(Shell!Package), NEW pkg \in Shell!Package, NEW m \in 1 .. Len(map),
         map[m].version = pkg.version,
         \A j, k \in 1 .. Len(map) : map[j].version = map[k].version => j = k
  PROVE  /\ Shell!SetVersion(map, pkg) \in Seq(Shell!Package)
         /\ Len(Shell!SetVersion(map, pkg)) = Len(map)
         /\ Shell!SetVersion(map, pkg)[m] = IF map[m].revision < pkg.revision THEN pkg ELSE map[m]
         /\ \A k \in 1 .. Len(map) : k # m => Shell!SetVersion(map, pkg)[k] = map[k]
<1> DEFINE new == [n \in 1 .. Len(map) |->
                     IF map[n].version = pkg.version /\ map[n].revision < pkg.revision THEN pkg ELSE map[n]]
<1>1. DOMAIN map = 1 .. Len(map) /\ Len(map) \in Nat /\ \A k \in 1 .. Len(map) : map[k] \in Shell!Package
  BY LenProperties, ElementOfSeq
<1>2. Shell!SetVersion(map, pkg) = new
  BY <1>1 DEF Shell!SetVersion
<1>3. new \in [1 .. Len(map) -> Shell!Package]
  BY <1>1
<1>4. new \in Seq(Shell!Package) /\ Len(new) = Len(map)
  <2> HIDE DEF new
  <2> QED
    BY <1>1, <1>3, SeqDef, LenProperties
<1>5. \A k \in 1 .. Len(map) : k # m => new[k] = map[k]
  OBVIOUS
<1>6. new[m] = IF map[m].revision < pkg.revision THEN pkg ELSE map[m]
  OBVIOUS
<1> QED
  BY <1>2, <1>4, <1>5, <1>6, Zenon

(* A package more: its version is new to the map, or had a revision. *)
LEMMA CollectedOneMore ==
  ASSUME NEW index \in Seq(Shell!Package), NEW n \in Nat, n + 1 \in 1 .. Len(index), NEW map, Collected(map, index, n),
         index[n + 1].cli
  PROVE  Collected(Shell!SetVersion(map, index[n + 1]), index, n + 1)
<1> DEFINE pkg == index[n + 1]
<1> DEFINE new == Shell!SetVersion(map, pkg)
<1>0. pkg \in Shell!Package /\ \A i \in 1 .. n : index[i] \in Shell!Package
  BY ElementOfSeq, LenProperties
<1>1. map \in Seq(Shell!Package) /\ Len(map) \in Nat /\ \A k \in 1 .. Len(map) : map[k] \in Shell!Package
  BY LenProperties, ElementOfSeq DEF Collected
<1>2. /\ \A k \in 1 .. Len(map) : map[k].cli /\ \E i \in 1 .. n : map[k] = index[i]
      /\ \A j, k \in 1 .. Len(map) : map[j].version = map[k].version => j = k
      /\ \A i \in 1 .. n : index[i].cli =>
           \E k \in 1 .. Len(map) : map[k].version = index[i].version /\ index[i].revision <= map[k].revision
  BY DEF Collected
<1>3. CASE \A k \in 1 .. Len(map) : map[k].version # pkg.version
  <2>1. /\ new \in Seq(Shell!Package) /\ Len(new) = Len(map) + 1 /\ new[Len(map) + 1] = pkg
        /\ \A k \in 1 .. Len(map) : new[k] = map[k]
    <3> HIDE DEF pkg
    <3> DEFINE more == Append(map, pkg)
    <3>1. /\ new = more
          /\ more \in Seq(Shell!Package) /\ Len(more) = Len(map) + 1 /\ more[Len(map) + 1] = pkg
          /\ \A k \in 1 .. Len(map) : more[k] = map[k]
      BY <1>0, <1>1, <1>3, VersionAdded, Zenon
    <3> HIDE DEF more, new
    <3> QED
      BY <3>1
  <2> HIDE DEF new
  <2>9. /\ 1 .. Len(new) = 1 .. Len(map) \cup {Len(map) + 1} /\ Len(map) + 1 \notin 1 .. Len(map)
        /\ 1 .. n \subseteq 1 .. n + 1 /\ n + 1 \in 1 .. n + 1
    BY <1>1, <2>1
  <2>2. \A k \in 1 .. Len(new) : new[k].cli /\ \E i \in 1 .. n + 1 : new[k] = index[i]
    <3>1. ASSUME NEW k \in 1 .. Len(map) PROVE new[k].cli /\ \E i \in 1 .. n + 1 : new[k] = index[i]
      <4>1. new[k] = map[k] /\ map[k].cli
        BY <1>2, <2>1
      <4>2. PICK i \in 1 .. n : map[k] = index[i]
        BY <1>2
      <4>3. new[k] = index[i] /\ i \in 1 .. n + 1
        BY <2>9, <4>1, <4>2, Zenon
      <4> QED
        BY <4>1, <4>3, Zenon
    <3>2. new[Len(map) + 1].cli /\ \E i \in 1 .. n + 1 : new[Len(map) + 1] = index[i]
      BY <2>1, <2>9, Zenon
    <3> QED
      BY <2>9, <3>1, <3>2, Zenon
  <2>3. \A j, k \in 1 .. Len(new) : new[j].version = new[k].version => j = k
    <3> TAKE j, k \in 1 .. Len(new)
    <3>1. ASSUME NEW i \in 1 .. Len(map) PROVE new[i].version = map[i].version /\ new[i].version # pkg.version
      BY <1>3, <2>1, Zenon
    <3>2. new[Len(map) + 1].version = pkg.version
      BY <2>1, Zenon
    <3>3. CASE j \in 1 .. Len(map) /\ k \in 1 .. Len(map)
      <4>1. new[j].version = map[j].version /\ new[k].version = map[k].version
        BY <3>1, <3>3, Zenon
      <4> QED
        BY <1>2, <3>3, <4>1, Zenon
    <3>4. CASE j = Len(map) + 1 /\ k \in 1 .. Len(map)
      BY <3>1, <3>2, <3>4, Zenon
    <3>5. CASE j \in 1 .. Len(map) /\ k = Len(map) + 1
      BY <3>1, <3>2, <3>5, Zenon
    <3>6. CASE j = Len(map) + 1 /\ k = Len(map) + 1
      BY <3>6, Zenon
    <3> QED
      BY <2>9, <3>3, <3>4, <3>5, <3>6, Zenon
  <2>4. \A i \in 1 .. n + 1 : index[i].cli =>
          \E k \in 1 .. Len(new) : new[k].version = index[i].version /\ index[i].revision <= new[k].revision
    <3>1. ASSUME NEW i \in 1 .. n, index[i].cli
          PROVE  \E k \in 1 .. Len(new) : new[k].version = index[i].version /\ index[i].revision <= new[k].revision
      <4>1. PICK k \in 1 .. Len(map) : map[k].version = index[i].version /\ index[i].revision <= map[k].revision
        BY <1>2, <3>1
      <4>2. new[k] = map[k] /\ k \in 1 .. Len(new)
        BY <2>1, <2>9, Zenon
      <4> QED
        BY <4>1, <4>2, Zenon
    <3>2. pkg.revision \in Nat
      BY <1>0 DEF Shell!Package
    <3>3. \E k \in 1 .. Len(new) : new[k].version = pkg.version /\ pkg.revision <= new[k].revision
      <4> HIDE DEF pkg
      <4> QED
        BY <1>1, <2>1, <3>2
    <3> QED
      BY <3>1, <3>3
  <2> QED
    BY <2>1, <2>2, <2>3, <2>4, Zenon DEF Collected, new, pkg
<1>4. CASE \E k \in 1 .. Len(map) : map[k].version = pkg.version
  <2>1. PICK m \in 1 .. Len(map) : map[m].version = pkg.version
    BY <1>4
  <2>2. /\ new \in Seq(Shell!Package) /\ Len(new) = Len(map)
        /\ new[m] = IF map[m].revision < pkg.revision THEN pkg ELSE map[m]
        /\ \A k \in 1 .. Len(map) : k # m => new[k] = map[k]
    <3>1. \A j, k \in 1 .. Len(map) : map[j].version = map[k].version => j = k
      BY <1>2, Zenon
    <3>2. pkg \in Shell!Package /\ map \in Seq(Shell!Package)
      BY <1>0, <1>1, Zenon
    <3> HIDE DEF pkg
    <3> QED
      BY <2>1, <3>1, <3>2, VersionSet, Zenon
  <2>3. /\ pkg.revision \in Nat /\ map[m].revision \in Nat
        /\ \A i \in 1 .. n : index[i].revision \in Nat
        /\ \A k \in 1 .. Len(map) : map[k].revision \in Nat
    BY <1>0, <1>1 DEF Shell!Package
  <2> HIDE DEF new
  <2>4. new[m].version = pkg.version /\ map[m].revision <= new[m].revision /\ pkg.revision <= new[m].revision
    <3> HIDE DEF pkg
    <3> QED
      BY <2>1, <2>2, <2>3
  <2>5. \A k \in 1 .. Len(new) : new[k].cli /\ \E i \in 1 .. n + 1 : new[k] = index[i]
    <3> TAKE k \in 1 .. Len(new)
    <3>1. CASE new[k] = map[k]
      BY <1>2, <2>2, <3>1
    <3>2. CASE new[k] = pkg
      BY <3>2
    <3> QED
      BY <2>2, <3>1, <3>2
  <2>6. \A k \in 1 .. Len(map) : new[k].version = map[k].version /\ map[k].revision <= new[k].revision
    <3> TAKE k \in 1 .. Len(map)
    <3>1. CASE k = m
      BY <2>1, <2>4, <3>1, Zenon
    <3>2. CASE k # m
      BY <2>2, <2>3, <3>2
    <3> QED
      BY <3>1, <3>2
  <2>7. \A j, k \in 1 .. Len(new) : new[j].version = new[k].version => j = k
    <3> HIDE DEF pkg
    <3> QED
      BY <1>2, <2>2, <2>6
  <2>8. \A i \in 1 .. n + 1 : index[i].cli =>
          \E k \in 1 .. Len(new) : new[k].version = index[i].version /\ index[i].revision <= new[k].revision
    <3>1. ASSUME NEW i \in 1 .. n, index[i].cli
          PROVE  \E k \in 1 .. Len(new) : new[k].version = index[i].version /\ index[i].revision <= new[k].revision
      <4>1. PICK k \in 1 .. Len(map) : map[k].version = index[i].version /\ index[i].revision <= map[k].revision
        BY <1>2, <3>1
      <4>2. new[k].revision \in Nat
        <5>1. new[k] \in Shell!Package
          <6>1. k \in 1 .. Len(new)
            BY <2>2
          <6> QED
            BY <2>2, <6>1, ElementOfSeq
        <5> QED
          BY <5>1 DEF Shell!Package
      <4>3. index[i].revision <= new[k].revision
        <5> DEFINE a == index[i].revision
        <5> DEFINE b == map[k].revision
        <5> DEFINE c == new[k].revision
        <5>1. a \in Nat /\ b \in Nat /\ c \in Nat /\ a <= b /\ b <= c
          BY <2>3, <2>6, <4>1, <4>2
        <5> HIDE DEF a, b, c
        <5>2. a <= c
          BY <5>1
        <5> QED
          BY <5>2 DEF a, c
      <4> QED
        BY <2>2, <2>6, <4>1, <4>3
    <3>2. \E k \in 1 .. Len(new) : new[k].version = pkg.version /\ pkg.revision <= new[k].revision
      <4>1. m \in 1 .. Len(new)
        BY <2>2
      <4> HIDE DEF pkg
      <4> QED
        BY <2>4, <4>1, Zenon
    <3>3. 1 .. n + 1 = 1 .. n \cup {n + 1}
      OBVIOUS
    <3> QED
      BY <3>1, <3>2, <3>3, Zenon
  <2> QED
    BY <2>2, <2>5, <2>7, <2>8, Zenon DEF Collected, new, pkg
<1> QED
  BY <1>3, <1>4

(* A recursive function over the packages exists, so the one that is       *)
(* chosen follows its equation.                                            *)
MapsGoOn(maps, index, k) ==
  maps = [n \in 0 .. k |-> IF n = 0 THEN <<>>
                           ELSE IF index[n].cli THEN Shell!SetVersion(maps[n - 1], index[n]) ELSE maps[n - 1]]
LEMMA MapsExist ==
  ASSUME NEW index, NEW k \in Nat
  PROVE  \E maps : MapsGoOn(maps, index, k)
<1> DEFINE S == {n \in Nat : \E maps : MapsGoOn(maps, index, n)}
<1>1. 0 \in S
  <2> DEFINE maps == [n \in 0 .. 0 |-> <<>>]
  <2>1. MapsGoOn(maps, index, 0)
    BY DEF MapsGoOn
  <2> QED
    BY <2>1
<1>2. ASSUME NEW n \in Nat, n \in S PROVE n + 1 \in S
  <2>1. PICK r : MapsGoOn(r, index, n)
    BY <1>2
  <2> DEFINE next == IF index[n + 1].cli THEN Shell!SetVersion(r[n], index[n + 1]) ELSE r[n]
  <2> DEFINE q == [m \in 0 .. n + 1 |-> IF m <= n THEN r[m] ELSE next]
  <2>2. \A m \in 0 .. n :
          r[m] = IF m = 0 THEN <<>> ELSE IF index[m].cli THEN Shell!SetVersion(r[m - 1], index[m]) ELSE r[m - 1]
    BY <2>1 DEF MapsGoOn
  <2>3. ASSUME NEW m \in 0 .. n + 1
        PROVE  q[m] = IF m = 0 THEN <<>> ELSE IF index[m].cli THEN Shell!SetVersion(q[m - 1], index[m]) ELSE q[m - 1]
    <3>1. CASE m = n + 1
      <4>1. q[m] = next /\ m # 0 /\ m - 1 = n /\ q[n] = r[n]
        <5> HIDE DEF next
        <5> QED
          BY <3>1
      <4> HIDE DEF q
      <4> QED
        BY <3>1, <4>1
    <3>2. CASE m # n + 1
      <4> HIDE DEF next
      <4>1. m \in 0 .. n /\ q[m] = r[m]
        BY <3>2
      <4>2. m # 0 => q[m - 1] = r[m - 1]
        BY <3>2
      <4> HIDE DEF q
      <4> QED
        BY <2>2, <4>1, <4>2
    <3> QED
      BY <3>1, <3>2
  <2>4. q = [m \in 0 .. n + 1 |-> q[m]]
    <3> HIDE DEF next
    <3> QED
      OBVIOUS
  <2> HIDE DEF q
  <2>5. MapsGoOn(q, index, n + 1)
    BY <2>3, <2>4, Zenon DEF MapsGoOn
  <2> QED
    BY <2>5
<1>3. Nat \subseteq S
  <2> HIDE DEF S
  <2> QED
    BY <1>1, <1>2, Induction
<1> QED
  BY <1>3

BestGoesOn(best, map, k) ==
  best = [n \in 0 .. k |-> IF n = 0 THEN Shell!NoPackage ELSE Shell!Newer(map[n], best[n - 1])]
LEMMA BestExists ==
  ASSUME NEW map, NEW k \in Nat
  PROVE  \E best : BestGoesOn(best, map, k)
<1> DEFINE S == {n \in Nat : \E best : BestGoesOn(best, map, n)}
<1>1. 0 \in S
  <2> DEFINE best == [n \in 0 .. 0 |-> Shell!NoPackage]
  <2>1. BestGoesOn(best, map, 0)
    BY DEF BestGoesOn
  <2> QED
    BY <2>1
<1>2. ASSUME NEW n \in Nat, n \in S PROVE n + 1 \in S
  <2>1. PICK r : BestGoesOn(r, map, n)
    BY <1>2
  <2> DEFINE next == Shell!Newer(map[n + 1], r[n])
  <2> DEFINE q == [m \in 0 .. n + 1 |-> IF m <= n THEN r[m] ELSE next]
  <2>2. \A m \in 0 .. n : r[m] = IF m = 0 THEN Shell!NoPackage ELSE Shell!Newer(map[m], r[m - 1])
    BY <2>1 DEF BestGoesOn
  <2>3. ASSUME NEW m \in 0 .. n + 1
        PROVE  q[m] = IF m = 0 THEN Shell!NoPackage ELSE Shell!Newer(map[m], q[m - 1])
    <3>1. CASE m = n + 1
      <4>1. q[m] = next /\ m # 0 /\ m - 1 = n /\ q[n] = r[n]
        <5> HIDE DEF next
        <5> QED
          BY <3>1
      <4> HIDE DEF q
      <4> QED
        BY <3>1, <4>1
    <3>2. CASE m # n + 1
      <4> HIDE DEF next
      <4>1. m \in 0 .. n /\ q[m] = r[m]
        BY <3>2
      <4>2. m # 0 => q[m - 1] = r[m - 1]
        BY <3>2
      <4> HIDE DEF q
      <4> QED
        BY <2>2, <4>1, <4>2
    <3> QED
      BY <3>1, <3>2
  <2>4. q = [m \in 0 .. n + 1 |-> q[m]]
    <3> HIDE DEF next
    <3> QED
      OBVIOUS
  <2> HIDE DEF q
  <2>5. BestGoesOn(q, map, n + 1)
    BY <2>3, <2>4, Zenon DEF BestGoesOn
  <2> QED
    BY <2>5
<1>3. Nat \subseteq S
  <2> HIDE DEF S
  <2> QED
    BY <1>1, <1>2, Induction
<1> QED
  BY <1>3

(* getVersionMap(): the latest revision of each version there is. *)
LEMMA VersionMapIs ==
  ASSUME NEW index \in Seq(Shell!Package)
  PROVE  Collected(Shell!getVersionMap(index), index, Len(index))
<1> DEFINE N == Len(index)
<1> DEFINE M == Shell!VersionMaps(index)
<1>1. N \in Nat /\ DOMAIN index = 1 .. N
  BY LenProperties
<1>2. PICK r : MapsGoOn(r, index, N)
  BY <1>1, MapsExist
<1>3. r = [n \in 0 .. N |-> IF n = 0 THEN <<>>
                           ELSE IF index[n].cli THEN Shell!SetVersion(r[n - 1], index[n]) ELSE r[n - 1]]
  BY <1>2 DEF MapsGoOn
<1>4. MapsGoOn(M, index, N)
  BY <1>3 DEF Shell!VersionMaps, MapsGoOn
<1>5. Shell!getVersionMap(index) = M[N]
  BY DEF Shell!getVersionMap
<1> HIDE DEF M, N
<1>6. /\ M[0] = <<>>
      /\ \A n \in 0 .. N : n # 0 =>
           M[n] = IF index[n].cli THEN Shell!SetVersion(M[n - 1], index[n]) ELSE M[n - 1]
  <2>1. M = [n \in 0 .. N |-> IF n = 0 THEN <<>>
                             ELSE IF index[n].cli THEN Shell!SetVersion(M[n - 1], index[n]) ELSE M[n - 1]]
    BY <1>4 DEF MapsGoOn
  <2>2. 0 \in 0 .. N
    BY <1>1
  <2>3. M[0] = <<>>
    BY <2>1, <2>2, Zenon
  <2>4. ASSUME NEW n \in 0 .. N, n # 0
        PROVE  M[n] = IF index[n].cli THEN Shell!SetVersion(M[n - 1], index[n]) ELSE M[n - 1]
    BY <2>1, <2>4, Zenon
  <2> QED
    BY <2>3, <2>4
<1> DEFINE S == {n \in Nat : n <= N => Collected(M[n], index, n)}
<1>7. 0 \in S
  <2>1. <<>> \in Seq(Shell!Package) /\ Len(<<>>) = 0 /\ 1 .. 0 = {}
    BY EmptySeq
  <2>2. Collected(M[0], index, 0)
    BY <1>6, <2>1 DEF Collected
  <2> QED
    BY <2>2
<1>8. ASSUME NEW n \in Nat, n \in S PROVE n + 1 \in S
  <2> SUFFICES ASSUME n + 1 <= N PROVE Collected(M[n + 1], index, n + 1)
    OBVIOUS
  <2>1. Collected(M[n], index, n) /\ n + 1 \in 0 .. N /\ n + 1 # 0 /\ (n + 1) - 1 = n /\ n + 1 \in 1 .. N
    BY <1>1, <1>8
  <2> HIDE DEF S
  <2>2. M[n + 1] = IF index[n + 1].cli THEN Shell!SetVersion(M[n], index[n + 1]) ELSE M[n]
    <3>1. M[n + 1] = IF index[n + 1].cli THEN Shell!SetVersion(M[(n + 1) - 1], index[n + 1]) ELSE M[(n + 1) - 1]
      BY <1>6, <2>1, Zenon
    <3> QED
      BY <2>1, <3>1
  <2>3. CASE index[n + 1].cli
    <3>1. Collected(Shell!SetVersion(M[n], index[n + 1]), index, n + 1)
      BY <2>1, <2>3, CollectedOneMore DEF N
    <3> QED
      BY <2>2, <2>3, <3>1
  <2>4. CASE ~index[n + 1].cli
    <3>1. M[n + 1] = M[n] /\ 1 .. n + 1 = 1 .. n \cup {n + 1}
      BY <2>2, <2>4
    <3>2. Collected(M[n], index, n + 1)
      BY <2>1, <2>4, <3>1, Zenon DEF Collected
    <3> QED
      BY <3>1, <3>2, Zenon
  <2> QED
    BY <2>3, <2>4
<1>9. Nat \subseteq S
  <2> HIDE DEF S
  <2> QED
    BY <1>7, <1>8, Induction
<1>10. Collected(M[N], index, N)
  BY <1>1, <1>9
<1> QED
  BY <1>5, <1>10 DEF N

(* The best of the first n packages of a map. *)
Best(best, map, n) ==
  \/ best = Shell!NoPackage /\ \A k \in 1 .. n : map[k].version < 1
  \/ /\ best.version >= 1 /\ \E k \in 1 .. n : best = map[k]
     /\ \A k \in 1 .. n : map[k].version <= best.version

(* The better of two is the best. *)
LEMMA BestOneMore ==
  ASSUME NEW map \in Seq(Shell!Package), NEW n \in Nat, n + 1 \in 1 .. Len(map), NEW best, Best(best, map, n)
  PROVE  Best(Shell!Newer(map[n + 1], best), map, n + 1)
<1> DEFINE pkg == map[n + 1]
<1>1. \A k \in 1 .. n + 1 : map[k].version \in Nat
  <2> TAKE k \in 1 .. n + 1
  <2>1. k \in 1 .. Len(map)
    BY LenProperties
  <2>2. map[k] \in Shell!Package
    BY <2>1, ElementOfSeq
  <2> QED
    BY <2>2 DEF Shell!Package
<1>2. 1 .. n + 1 = 1 .. n \cup {n + 1} /\ n + 1 \in 1 .. n + 1 /\ pkg.version \in Nat
  BY <1>1
<1>3. Shell!NoPackage.version = 0
  BY DEF Shell!NoPackage
<1>4. CASE best = Shell!NoPackage /\ \A k \in 1 .. n : map[k].version < 1
  <2>1. CASE pkg.version >= 1
    <3>1. Shell!Newer(pkg, best) = pkg
      BY <1>4, <2>1 DEF Shell!Newer
    <3>2. \A k \in 1 .. n + 1 : map[k].version <= pkg.version
      <4>1. ASSUME NEW k \in 1 .. n PROVE map[k].version <= pkg.version
        BY <1>1, <1>2, <1>4, <2>1
      <4>2. map[n + 1].version <= pkg.version
        BY <1>2
      <4> QED
        BY <1>2, <4>1, <4>2, Zenon
    <3> QED
      BY <1>2, <2>1, <3>1, <3>2, Zenon DEF Best
  <2>2. CASE ~(pkg.version >= 1)
    <3>1. Shell!Newer(pkg, best) = best
      BY <2>2 DEF Shell!Newer
    <3>2. map[n + 1].version < 1
      BY <1>2, <2>2
    <3> QED
      BY <1>2, <1>4, <3>1, <3>2, Zenon DEF Best
  <2> QED
    BY <2>1, <2>2
<1>5. CASE /\ best.version >= 1 /\ \E k \in 1 .. n : best = map[k]
           /\ \A k \in 1 .. n : map[k].version <= best.version
  <2>1. best.version \in Nat /\ best # Shell!NoPackage
    BY <1>1, <1>2, <1>3, <1>5
  <2>2. CASE pkg.version > best.version
    <3>1. pkg.version >= 1
      <4> DEFINE a == pkg.version
      <4> DEFINE b == best.version
      <4>1. a \in Nat /\ b \in Nat /\ a > b /\ b >= 1
        BY <1>2, <1>5, <2>1, <2>2
      <4> HIDE DEF a, b
      <4>2. a >= 1
        BY <4>1
      <4> QED
        BY <4>2 DEF a
    <3>2. Shell!Newer(pkg, best) = pkg
      BY <2>2, <3>1, Zenon DEF Shell!Newer
    <3>3. \A k \in 1 .. n + 1 : map[k].version <= pkg.version
      <4>1. ASSUME NEW k \in 1 .. n PROVE map[k].version <= pkg.version
        <5> DEFINE a == pkg.version
        <5> DEFINE b == best.version
        <5> DEFINE c == map[k].version
        <5>1. a \in Nat /\ b \in Nat /\ c \in Nat /\ a > b /\ c <= b
          BY <1>1, <1>2, <1>5, <2>1, <2>2
        <5> HIDE DEF a, b, c
        <5>2. c <= a
          BY <5>1
        <5> QED
          BY <5>2 DEF a, c
      <4>2. map[n + 1].version <= pkg.version
        BY <1>2
      <4> QED
        BY <1>2, <4>1, <4>2, Zenon
    <3> QED
      BY <1>2, <3>1, <3>2, <3>3, Zenon DEF Best
  <2>3. CASE ~(pkg.version > best.version)
    <3>1. Shell!Newer(pkg, best) = best
      BY <2>1, <2>3, Zenon DEF Shell!Newer
    <3>2. map[n + 1].version <= best.version
      <4> DEFINE a == pkg.version
      <4> DEFINE b == best.version
      <4>1. a \in Nat /\ b \in Nat /\ ~(a > b)
        BY <1>2, <2>1, <2>3
      <4> HIDE DEF a, b
      <4>2. a <= b
        BY <4>1
      <4> QED
        BY <4>2 DEF a, b
    <3> QED
      BY <1>2, <1>5, <3>1, <3>2, Zenon DEF Best
  <2> QED
    BY <2>2, <2>3
<1> QED
  BY <1>4, <1>5, Zenon DEF Best

(* getMatchingPkg(): the newest package of the range. *)
LEMMA MatchingIs ==
  ASSUME NEW map \in Seq(Shell!Package)
  PROVE  Best(Shell!getMatchingPkg(map), map, Len(map))
<1> DEFINE N == Len(map)
<1> DEFINE M == Shell!MatchingPkgs(map)
<1>1. N \in Nat
  BY LenProperties
<1>2. PICK r : BestGoesOn(r, map, N)
  BY <1>1, BestExists
<1>3. r = [n \in 0 .. N |-> IF n = 0 THEN Shell!NoPackage ELSE Shell!Newer(map[n], r[n - 1])]
  BY <1>2 DEF BestGoesOn
<1>4. BestGoesOn(M, map, N)
  BY <1>3 DEF Shell!MatchingPkgs, BestGoesOn
<1>5. Shell!getMatchingPkg(map) = M[N]
  BY DEF Shell!getMatchingPkg
<1> HIDE DEF M, N
<1>6. M[0] = Shell!NoPackage /\ \A n \in 0 .. N : n # 0 => M[n] = Shell!Newer(map[n], M[n - 1])
  <2>1. M = [n \in 0 .. N |-> IF n = 0 THEN Shell!NoPackage ELSE Shell!Newer(map[n], M[n - 1])]
    BY <1>4 DEF BestGoesOn
  <2>2. 0 \in 0 .. N
    BY <1>1
  <2>3. M[0] = Shell!NoPackage
    BY <2>1, <2>2, Zenon
  <2>4. ASSUME NEW n \in 0 .. N, n # 0 PROVE M[n] = Shell!Newer(map[n], M[n - 1])
    BY <2>1, <2>4, Zenon
  <2> QED
    BY <2>3, <2>4
<1> DEFINE S == {n \in Nat : n <= N => Best(M[n], map, n)}
<1>7. 0 \in S
  <2>1. Best(M[0], map, 0)
    BY <1>6 DEF Best
  <2> QED
    BY <2>1
<1>8. ASSUME NEW n \in Nat, n \in S PROVE n + 1 \in S
  <2> SUFFICES ASSUME n + 1 <= N PROVE Best(M[n + 1], map, n + 1)
    OBVIOUS
  <2>1. Best(M[n], map, n) /\ n + 1 \in 0 .. N /\ n + 1 # 0 /\ (n + 1) - 1 = n /\ n + 1 \in 1 .. N
    BY <1>1, <1>8
  <2> HIDE DEF S
  <2>2. M[n + 1] = Shell!Newer(map[n + 1], M[n])
    <3>1. M[n + 1] = Shell!Newer(map[n + 1], M[(n + 1) - 1])
      BY <1>6, <2>1, Zenon
    <3> QED
      BY <2>1, <3>1
  <2>3. Best(Shell!Newer(map[n + 1], M[n]), map, n + 1)
    BY <2>1, BestOneMore DEF N
  <2> QED
    BY <2>2, <2>3
<1>9. Nat \subseteq S
  <2> HIDE DEF S
  <2> QED
    BY <1>7, <1>8, Induction
<1>10. Best(M[N], map, N)
  BY <1>1, <1>9
<1> QED
  BY <1>5, <1>10 DEF N

(* The two together choose the newest package and its latest revision. *)
LEMMA PackageIsFit ==
  ASSUME NEW index \in Indexes
  PROVE  Shell!PackageFits(index)
<1> DEFINE map == Shell!getVersionMap(index)
<1> DEFINE best == Shell!getMatchingPkg(map)
<1> DEFINE fit == {p \in Shell!ToSet(index) : p.cli /\ p.version >= 1}
<1>1. index \in Seq(Shell!Package)
  BY StructuresAssumption DEF StructuresAssumption, Shell!CliAssumption
<1>2. Collected(map, index, Len(index))
  BY <1>1, VersionMapIs
<1>3. map \in Seq(Shell!Package)
  BY <1>2 DEF Collected
<1>4. Best(best, map, Len(map))
  BY <1>3, MatchingIs
<1>5. Shell!ToSet(index) = {index[i] : i \in 1 .. Len(index)}
  BY <1>1, LenProperties DEF Shell!ToSet
<1>6. SUFFICES IF fit = {} THEN best = Shell!NoPackage
               ELSE best \in fit /\ \A p \in fit :
                      p.version < best.version \/ (p.version = best.version /\ p.revision <= best.revision)
  BY DEF Shell!PackageFits
<1>7. \A k \in 1 .. Len(map) : map[k].version \in Nat
  <2> TAKE k \in 1 .. Len(map)
  <2>1. map[k] \in Shell!Package
    BY <1>3, ElementOfSeq
  <2> QED
    BY <2>1 DEF Shell!Package
<1> HIDE DEF map, best
<1>8. ASSUME NEW k \in 1 .. Len(map), map[k].version >= 1 PROVE map[k] \in fit
  <2>1. map[k].cli /\ \E i \in 1 .. Len(index) : map[k] = index[i]
    BY <1>2 DEF Collected
  <2> QED
    BY <1>5, <1>8, <2>1
<1>9. ASSUME NEW p \in fit
      PROVE  \E k \in 1 .. Len(map) : map[k].version = p.version /\ p.revision <= map[k].revision
  <2>1. PICK i \in 1 .. Len(index) : p = index[i]
    BY <1>5
  <2>2. index[i].cli
    BY <2>1
  <2> QED
    BY <1>2, <2>1, <2>2, Zenon DEF Collected
<1>10. \A p \in fit : p.version >= 1
  OBVIOUS
<1> HIDE DEF fit
<1>11. CASE best = Shell!NoPackage /\ \A k \in 1 .. Len(map) : map[k].version < 1
  <2>1. ASSUME NEW p \in fit PROVE FALSE
    <3>1. PICK k \in 1 .. Len(map) : map[k].version = p.version
      BY <1>9
    <3> QED
      BY <1>7, <1>10, <1>11, <3>1
  <2> QED
    BY <1>11, <2>1
<1>12. CASE /\ best.version >= 1 /\ \E k \in 1 .. Len(map) : best = map[k]
            /\ \A k \in 1 .. Len(map) : map[k].version <= best.version
  <2>1. PICK b \in 1 .. Len(map) : best = map[b]
    BY <1>12
  <2>2. best \in fit
    BY <1>8, <1>12, <2>1
  <2>3. ASSUME NEW p \in fit
        PROVE  p.version < best.version \/ (p.version = best.version /\ p.revision <= best.revision)
    <3>1. PICK k \in 1 .. Len(map) : map[k].version = p.version /\ p.revision <= map[k].revision
      BY <1>9
    <3>2. map[k].version <= best.version /\ best.version \in Nat /\ p.version \in Nat
      BY <1>7, <1>12, <2>1, <3>1
    <3>3. CASE map[k].version = best.version
      <4>1. k = b
        BY <1>2, <2>1, <3>3, Zenon DEF Collected
      <4> QED
        BY <2>1, <3>1, <4>1
    <3>4. CASE map[k].version # best.version
      <4> DEFINE a == p.version
      <4> DEFINE c == best.version
      <4>1. a \in Nat /\ c \in Nat /\ a <= c /\ a # c
        BY <3>1, <3>2, <3>4
      <4> HIDE DEF a, c
      <4>2. a < c
        BY <4>1
      <4> QED
        BY <4>2 DEF a, c
    <3> QED
      BY <3>3, <3>4
  <2> QED
    BY <2>2, <2>3
<1> QED
  BY <1>4, <1>11, <1>12, Zenon DEF Best

----------------------------------------------------------------------------
(* Launches. *)

Downloading == {"receive", "chmod"}
LaunchStates ==
  [at : {"idle", "stat", "fetch", "receive", "chmod", "access", "info"} \cup Shell!Ended, second : BOOLEAN,
   opened : BOOLEAN, got : 0 .. Size, flushed : 0 .. Size, ran : {"nothing", "cached", "installed", "partial"},
   hurt : BOOLEAN]
CliStates ==
  [there : BOOLEAN, chunks : SUBSET (1 .. Size), exec : BOOLEAN, installed : BOOLEAN, calm : BOOLEAN,
   launch : [Launches -> LaunchStates]]

(* What a launch knows of the file: one that got past the search has found *)
(* or made it, one that downloads has it to itself and has written what it *)
(* flushed, and one that is past the download has written everything.      *)
LaunchAgrees(d, l) ==
  LET t == d.launch[l] IN
  /\ t.flushed <= t.got /\ (~t.opened => t.flushed = 0)
  /\ t.at = "idle" => t = Shell!Idle
  /\ Shell!Alive(d, l) /\ t.opened => d.there
  /\ t.at \in {"stat", "fetch", "access", "info"} => IF t.opened THEN t.flushed = Size ELSE t.got = 0
  /\ t.at = "fetch" => ~d.there
  /\ t.at \in Downloading => ~d.exec /\ (IF t.opened THEN d.chunks = 1 .. t.flushed ELSE ~d.there)
  /\ t.at = "chmod" => t.got = Size
  /\ t.at \in {"access", "info"} => d.there
  /\ t.ran # "partial"

(* As long as it is calm one launch is under way at a time, a file that    *)
(* can be run is whole, and unless a launch was hurt none has failed and   *)
(* only the one that downloads has left a file that cannot be run.         *)
Alone(d, l) == \A o \in Launches \ {l} : ~Shell!Alive(d, o)
Fails(d, l) ==
  /\ d.launch[l].at # "failed"
  /\ d.there => d.exec \/ d.launch[l].at \in Downloading
LaunchInv(d) ==
  /\ d \in CliStates
  /\ d.calm =>
       /\ d.exec => d.there /\ Shell!Whole(d)
       /\ \A l \in Launches : LaunchAgrees(d, l) /\ (Shell!Alive(d, l) => Alone(d, l))
       /\ (\A l \in Launches : ~d.launch[l].hurt) =>
            /\ \A l \in Launches : d.launch[l].at # "failed"
            /\ d.there => d.exec \/ \E l \in Launches : d.launch[l].at \in Downloading

(* A CLI has at least one chunk. *)
LEMMA SizeIs == Size \in Nat \ {0}
  BY StructuresAssumption DEF StructuresAssumption, Shell!CliAssumption

(* A launch that has not started or has ended knows nothing of the file. *)
LEMMA RestAgrees ==
  ASSUME NEW d, NEW e, NEW o, LaunchAgrees(d, o), e.launch[o] = d.launch[o], ~Shell!Alive(d, o)
  PROVE  LaunchAgrees(e, o) /\ ~Shell!Alive(e, o)
  BY DEF LaunchAgrees, Shell!Alive, Shell!Ended, Downloading

(* What the step of a launch that is alone must keep. *)
LEMMA LaunchKept ==
  ASSUME NEW d, LaunchInv(d), NEW l \in Launches, NEW e \in CliStates,
         \A o \in Launches \ {l} : e.launch[o] = d.launch[o],
         d.launch[l].hurt => e.launch[l].hurt,
         e.calm => d.calm /\ Alone(d, l),
         e.calm =>
           /\ e.exec => e.there /\ Shell!Whole(e)
           /\ LaunchAgrees(e, l)
           /\ ~e.launch[l].hurt /\ Fails(d, l) => Fails(e, l)
  PROVE  LaunchInv(e)
<1> SUFFICES ASSUME e.calm
             PROVE  /\ e.exec => e.there /\ Shell!Whole(e)
                    /\ \A o \in Launches : LaunchAgrees(e, o) /\ (Shell!Alive(e, o) => Alone(e, o))
                    /\ (\A o \in Launches : ~e.launch[o].hurt) =>
                         /\ \A o \in Launches : e.launch[o].at # "failed"
                         /\ e.there => e.exec \/ \E o \in Launches : e.launch[o].at \in Downloading
  BY Zenon DEF LaunchInv
<1>1. \A o \in Launches \ {l} : LaunchAgrees(e, o) /\ ~Shell!Alive(e, o)
  <2> TAKE o \in Launches \ {l}
  <2>1. LaunchAgrees(d, o) /\ ~Shell!Alive(d, o)
    BY Zenon DEF LaunchInv, Alone
  <2> QED
    BY <2>1, RestAgrees, Zenon
<1>2. \A o \in Launches : LaunchAgrees(e, o) /\ (Shell!Alive(e, o) => Alone(e, o))
  BY <1>1, Zenon DEF Alone
<1>3. ASSUME \A o \in Launches : ~e.launch[o].hurt
      PROVE  /\ \A o \in Launches : e.launch[o].at # "failed"
             /\ e.there => e.exec \/ \E o \in Launches : e.launch[o].at \in Downloading
  <2>1. \A o \in Launches : ~d.launch[o].hurt
    BY <1>3, Zenon
  <2>2. /\ \A o \in Launches : d.launch[o].at # "failed"
        /\ d.there => d.exec \/ \E o \in Launches : d.launch[o].at \in Downloading
    BY <2>1, Zenon DEF LaunchInv
  <2>3. \A o \in Launches \ {l} : d.launch[o].at \notin Downloading
    BY Zenon DEF Alone, Shell!Alive, Shell!Ended, Downloading
  <2>4. Fails(d, l)
    BY <2>2, <2>3, Zenon DEF Fails
  <2>5. Fails(e, l)
    BY <2>4, <1>3, Zenon
  <2> QED
    BY <2>5, <2>2, Zenon DEF Fails
<1> QED
  BY <1>2, <1>3, Zenon

(* A state with the fields it is made of, and the next one of a launch. *)
State(there, chunks, exec, installed, calm, launch) ==
  [there |-> there, chunks |-> chunks, exec |-> exec, installed |-> installed, calm |-> calm, launch |-> launch]
Record(at, second, opened, got, flushed, ran, hurt) ==
  [at |-> at, second |-> second, opened |-> opened, got |-> got, flushed |-> flushed, ran |-> ran, hurt |-> hurt]

(* A launch that goes on, field by field. *)
LEMMA GoIs ==
  ASSUME NEW d \in CliStates, NEW l \in Launches, NEW at
  PROVE  Shell!Go(d, l, at) =
           State(d.there, d.chunks, d.exec, d.installed, d.calm,
                 [d.launch EXCEPT ![l] = Record(at, d.launch[l].second, d.launch[l].opened, d.launch[l].got,
                                                d.launch[l].flushed, d.launch[l].ran, d.launch[l].hurt)])
<1>1. d.launch[l] \in LaunchStates
  BY DEF CliStates
<1>2. [d.launch[l] EXCEPT !.at = at] =
        Record(at, d.launch[l].second, d.launch[l].opened, d.launch[l].got,
                                                d.launch[l].flushed, d.launch[l].ran, d.launch[l].hurt)
  BY <1>1 DEF LaunchStates, Record
<1>3. Shell!Go(d, l, at) = [d EXCEPT !.launch = [d.launch EXCEPT ![l] = [d.launch[l] EXCEPT !.at = at]]]
  BY Zenon DEF Shell!Go
<1>4. \A x : [d EXCEPT !.launch = x] = State(d.there, d.chunks, d.exec, d.installed, d.calm, x)
  BY DEF CliStates, State
<1> QED
  BY <1>2, <1>3, <1>4, Zenon

(* One launch has gone on, from d to e. *)
After(e, d, l, there, chunks, exec, calm, t) ==
  /\ e \in CliStates
  /\ e.there = there /\ e.chunks = chunks /\ e.exec = exec /\ e.calm = calm /\ e.launch[l] = t
  /\ \A o \in Launches \ {l} : e.launch[o] = d.launch[o]

(* A state made of what a launch leaves is the one after it. *)
LEMMA AfterIs ==
  ASSUME NEW d \in CliStates, NEW l \in Launches, NEW there, NEW chunks, NEW exec, NEW calm, NEW t \in LaunchStates,
         there \in BOOLEAN, chunks \in SUBSET (1 .. Size), exec \in BOOLEAN, calm \in BOOLEAN,
         NEW e, e = State(there, chunks, exec, d.installed, calm, [d.launch EXCEPT ![l] = t])
  PROVE  After(e, d, l, there, chunks, exec, calm, t)
<1> DEFINE launch == [d.launch EXCEPT ![l] = t]
<1>1. launch \in [Launches -> LaunchStates] /\ d.installed \in BOOLEAN
  BY DEF CliStates
<1>2. launch[l] = t /\ \A o \in Launches \ {l} : launch[o] = d.launch[o]
  BY DEF CliStates
<1> HIDE DEF launch
<1>3. e \in CliStates
  BY <1>1 DEF State, launch, CliStates
<1> QED
  BY <1>2, <1>3 DEF State, launch, After

(* The fields of a launch. *)
LEMMA RecordIs ==
  ASSUME NEW at, NEW second, NEW opened, NEW got, NEW flushed, NEW ran, NEW hurt, NEW t, t = Record(at, second, opened, got, flushed, ran, hurt)
  PROVE  /\ t.at = at /\ t.second = second /\ t.opened = opened /\ t.got = got /\ t.flushed = flushed /\ t.ran = ran /\ t.hurt = hurt
  BY DEF Record

(* A launch begins: it is calm only if the others have ended. *)
LEMMA MainKept ==
  ASSUME NEW d, LaunchInv(d), NEW l \in Launches, d.launch[l].at = "idle", NEW e \in Shell!main(d, l)
  PROVE  LaunchInv(e)
<1> DEFINE t == d.launch[l]
           u == Record("stat", t.second, t.opened, t.got, t.flushed, t.ran, t.hurt)
           alone == d.calm /\ Alone(d, l)
<1>1. d \in CliStates /\ t \in LaunchStates
  BY DEF LaunchInv, CliStates
<1>3. e = [Shell!Go(d, l, "stat") EXCEPT !.calm = @ /\ Alone(d, l)]
  BY Zenon DEF Shell!main, Alone
<1>4. \A launch : [State(d.there, d.chunks, d.exec, d.installed, d.calm, launch) EXCEPT !.calm = @ /\ Alone(d, l)] =
        State(d.there, d.chunks, d.exec, d.installed, alone, launch)
  BY DEF State
<1>2. Shell!Go(d, l, "stat") = State(d.there, d.chunks, d.exec, d.installed, d.calm, [d.launch EXCEPT ![l] = u])
  <2> DEFINE stat == "stat"
  <2> HIDE DEF stat
  <2>1. Shell!Go(d, l, stat) = State(d.there, d.chunks, d.exec, d.installed, d.calm, 
                 [d.launch EXCEPT ![l] = Record(stat, d.launch[l].second, d.launch[l].opened, d.launch[l].got,
                                                d.launch[l].flushed, d.launch[l].ran, d.launch[l].hurt)])
    BY <1>1, GoIs, Zenon
  <2> QED
    BY <2>1, Zenon DEF stat
<1>5. e = State(d.there, d.chunks, d.exec, d.installed, alone, [d.launch EXCEPT ![l] = u])
  BY <1>2, <1>3, <1>4, Zenon
<1>6. u \in LaunchStates
  BY <1>1 DEF LaunchStates, Record
<1>7. d.there \in BOOLEAN /\ d.chunks \in SUBSET (1 .. Size) /\ d.exec \in BOOLEAN /\ alone \in BOOLEAN
  BY <1>1 DEF CliStates, Alone
<1> HIDE DEF alone, u
<1>8. After(e, d, l, d.there, d.chunks, d.exec, alone, u)
  BY <1>1, <1>5, <1>6, <1>7, AfterIs, Zenon
<1>9. /\ u.at = "stat" /\ u.second = t.second /\ u.opened = t.opened /\ u.got = t.got /\ u.flushed = t.flushed /\ u.ran = t.ran /\ u.hurt = t.hurt
  BY RecordIs DEF u
<1>10. ASSUME alone
       PROVE  /\ e.exec => e.there /\ Shell!Whole(e)
              /\ LaunchAgrees(e, l)
              /\ ~e.launch[l].hurt /\ Fails(d, l) => Fails(e, l)
  <2>1. d.calm /\ LaunchAgrees(d, l)
    BY <1>10, Zenon DEF alone, LaunchInv
  <2>2. t = Shell!Idle
    BY <2>1, Zenon DEF LaunchAgrees
  <2>3. ~t.opened /\ t.got = 0 /\ t.flushed = 0 /\ t.ran = "nothing" /\ ~t.hurt
    BY <2>2 DEF Shell!Idle
  <2>4. LaunchAgrees(e, l)
    BY <1>8, <1>9, <2>3 DEF LaunchAgrees, Shell!Alive, Downloading, After
  <2>5. Fails(d, l) => Fails(e, l)
    BY <1>8, <1>9, Zenon DEF Fails, Downloading, After
  <2>6. e.exec => e.there /\ Shell!Whole(e)
    BY <1>8, <2>1, Zenon DEF LaunchInv, Shell!Whole, After
  <2> QED
    BY <2>4, <2>5, <2>6
<1>11. e.calm => d.calm /\ Alone(d, l)
  BY <1>8 DEF alone, After
<1> QED
  BY <1>8, <1>9, <1>10, <1>11, LaunchKept, SMT DEF After

(* The steps of one launch, one field after the other. *)
LEMMA AfterAfter ==
  ASSUME NEW d, NEW c, NEW e, NEW l, NEW there0, NEW chunks0, NEW exec0, NEW calm0, NEW t0,
         After(c, d, l, there0, chunks0, exec0, calm0, t0),
         NEW there, NEW chunks, NEW exec, NEW calm, NEW t, After(e, c, l, there, chunks, exec, calm, t)
  PROVE  After(e, d, l, there, chunks, exec, calm, t)
  BY Zenon DEF After

(* One field of a launch after the other: what it awaits, ... *)
LEMMA AtAfter ==
  ASSUME NEW d \in CliStates, NEW l \in Launches, NEW t, t = d.launch[l],
         NEW at \in {"stat", "fetch", "receive", "chmod", "access", "info", "done", "failed"}
  PROVE  After(Shell!Go(d, l, at), d, l, d.there, d.chunks, d.exec, d.calm,
               Record(at, t.second, t.opened, t.got, t.flushed, t.ran, t.hurt))
<1> DEFINE u == Record(at, t.second, t.opened, t.got, t.flushed, t.ran, t.hurt)
<1>1. t \in LaunchStates
  BY DEF CliStates
<1>2. u \in LaunchStates
  BY <1>1 DEF LaunchStates, Record, Shell!Ended
<1>3. d.there \in BOOLEAN /\ d.chunks \in SUBSET (1 .. Size) /\ d.exec \in BOOLEAN /\ d.calm \in BOOLEAN
  BY DEF CliStates
<1>4. Shell!Go(d, l, at) = State(d.there, d.chunks, d.exec, d.installed, d.calm, [d.launch EXCEPT ![l] = u])
  BY GoIs, Zenon
<1> HIDE DEF u
<1>5. After(Shell!Go(d, l, at), d, l, d.there, d.chunks, d.exec, d.calm, u)
  BY <1>2, <1>3, <1>4, AfterIs, Zenon
<1> QED
  BY <1>5 DEF u

(* ... any that the file does not see, ... *)
LEMMA PutAfter ==
  ASSUME NEW d \in CliStates, NEW l \in Launches, NEW u \in LaunchStates,
         NEW e, e = [d EXCEPT !.launch = [d.launch EXCEPT ![l] = u]]
  PROVE  After(e, d, l, d.there, d.chunks, d.exec, d.calm, u)
<1>1. d.there \in BOOLEAN /\ d.chunks \in SUBSET (1 .. Size) /\ d.exec \in BOOLEAN /\ d.calm \in BOOLEAN
  BY DEF CliStates
<1>2. \A x : [d EXCEPT !.launch = x] = State(d.there, d.chunks, d.exec, d.installed, d.calm, x)
  BY DEF CliStates, State
<1>3. e = State(d.there, d.chunks, d.exec, d.installed, d.calm, [d.launch EXCEPT ![l] = u])
  BY <1>2, Zenon
<1> QED
  BY <1>1, <1>3, AfterIs, Zenon

(* ... that it was hurt, ... *)
LEMMA HurtAfter ==
  ASSUME NEW d \in CliStates, NEW l \in Launches, NEW t, t = d.launch[l], NEW e, e = [d EXCEPT !.launch[l].hurt = TRUE]
  PROVE  After(e, d, l, d.there, d.chunks, d.exec, d.calm,
               Record(t.at, t.second, t.opened, t.got, t.flushed, t.ran, TRUE))
<1> DEFINE u == Record(t.at, t.second, t.opened, t.got, t.flushed, t.ran, TRUE)
<1>1. t \in LaunchStates
  BY DEF CliStates
<1>2. u \in LaunchStates
  BY <1>1 DEF LaunchStates, Record
<1>3. \A v : [t EXCEPT !.hurt = v] = Record(t.at, t.second, t.opened, t.got, t.flushed, t.ran, v)
  BY <1>1 DEF LaunchStates, Record
<1>4. e = [d EXCEPT !.launch = [d.launch EXCEPT ![l] = u]]
  BY <1>3, Zenon
<1> HIDE DEF u
<1>5. After(e, d, l, d.there, d.chunks, d.exec, d.calm, u)
  BY <1>2, <1>4, PutAfter, Zenon
<1> QED
  BY <1>5 DEF u

(* ... that it searches again, ... *)
LEMMA SecondAfter ==
  ASSUME NEW d \in CliStates, NEW l \in Launches, NEW t, t = d.launch[l], NEW e, e = [d EXCEPT !.launch[l].second = TRUE]
  PROVE  After(e, d, l, d.there, d.chunks, d.exec, d.calm,
               Record(t.at, TRUE, t.opened, t.got, t.flushed, t.ran, t.hurt))
<1> DEFINE u == Record(t.at, TRUE, t.opened, t.got, t.flushed, t.ran, t.hurt)
<1>1. t \in LaunchStates
  BY DEF CliStates
<1>2. u \in LaunchStates
  BY <1>1 DEF LaunchStates, Record
<1>3. \A v : [t EXCEPT !.second = v] = Record(t.at, v, t.opened, t.got, t.flushed, t.ran, t.hurt)
  BY <1>1 DEF LaunchStates, Record
<1>4. e = [d EXCEPT !.launch = [d.launch EXCEPT ![l] = u]]
  BY <1>3, Zenon
<1> HIDE DEF u
<1>5. After(e, d, l, d.there, d.chunks, d.exec, d.calm, u)
  BY <1>2, <1>4, PutAfter, Zenon
<1> QED
  BY <1>5 DEF u

(* ... what it ran, ... *)
LEMMA RanAfter ==
  ASSUME NEW d \in CliStates, NEW l \in Launches, NEW t, t = d.launch[l], NEW ran \in {"cached", "installed", "partial"},
         NEW e, e = [d EXCEPT !.launch[l].ran = ran]
  PROVE  After(e, d, l, d.there, d.chunks, d.exec, d.calm,
               Record(t.at, t.second, t.opened, t.got, t.flushed, ran, t.hurt))
<1> DEFINE u == Record(t.at, t.second, t.opened, t.got, t.flushed, ran, t.hurt)
<1>1. t \in LaunchStates
  BY DEF CliStates
<1>2. u \in LaunchStates
  BY <1>1 DEF LaunchStates, Record
<1>3. \A v : [t EXCEPT !.ran = v] = Record(t.at, t.second, t.opened, t.got, t.flushed, v, t.hurt)
  BY <1>1 DEF LaunchStates, Record
<1>4. e = [d EXCEPT !.launch = [d.launch EXCEPT ![l] = u]]
  BY <1>3, Zenon
<1> HIDE DEF u
<1>5. After(e, d, l, d.there, d.chunks, d.exec, d.calm, u)
  BY <1>2, <1>4, PutAfter, Zenon
<1> QED
  BY <1>5 DEF u

(* ... and a chunk more. *)
LEMMA GotAfter ==
  ASSUME NEW d \in CliStates, NEW l \in Launches, NEW t, t = d.launch[l], t.got < Size,
         NEW e, e = [d EXCEPT !.launch[l].got = @ + 1]
  PROVE  After(e, d, l, d.there, d.chunks, d.exec, d.calm,
               Record(t.at, t.second, t.opened, t.got + 1, t.flushed, t.ran, t.hurt))
<1> DEFINE got == t.got + 1
           u == Record(t.at, t.second, t.opened, got, t.flushed, t.ran, t.hurt)
<1>1. t \in LaunchStates
  BY DEF CliStates
<1>0. got \in 0 .. Size
  BY <1>1, SizeIs DEF LaunchStates
<1>4. e = [d EXCEPT !.launch = [d.launch EXCEPT ![l] = [t EXCEPT !.got = got]]]
  BY Zenon
<1> HIDE DEF got
<1>2. u \in LaunchStates
  BY <1>0, <1>1 DEF LaunchStates, Record
<1>3. \A v : [t EXCEPT !.got = v] = Record(t.at, t.second, t.opened, v, t.flushed, t.ran, t.hurt)
  BY <1>1 DEF LaunchStates, Record
<1>6. e = [d EXCEPT !.launch = [d.launch EXCEPT ![l] = u]]
  BY <1>3, <1>4, Zenon
<1> HIDE DEF u
<1>5. After(e, d, l, d.there, d.chunks, d.exec, d.calm, u)
  BY <1>2, <1>6, PutAfter, Zenon
<1> QED
  BY <1>5 DEF u, got

(* The fields of a state, one after the other. *)
LEMMA CliExcept ==
  ASSUME NEW d \in CliStates
  PROVE  /\ \A v : [d EXCEPT !.there = v] = State(v, d.chunks, d.exec, d.installed, d.calm, d.launch)
         /\ \A v : [d EXCEPT !.chunks = v] = State(d.there, v, d.exec, d.installed, d.calm, d.launch)
         /\ \A v : [d EXCEPT !.exec = v] = State(d.there, d.chunks, v, d.installed, d.calm, d.launch)
         /\ \A v : [d EXCEPT !.calm = v] = State(d.there, d.chunks, d.exec, d.installed, v, d.launch)
         /\ \A v : [d EXCEPT !.launch = v] = State(d.there, d.chunks, d.exec, d.installed, d.calm, v)
  BY DEF CliStates, State

(* The stream opens the file, ... *)
LEMMA OpenedAfter ==
  ASSUME NEW d \in CliStates, NEW l \in Launches, NEW t, t = d.launch[l],
         NEW e, e = [d EXCEPT !.there = TRUE, !.chunks = {}, !.launch[l].opened = TRUE]
  PROVE  After(e, d, l, TRUE, {}, d.exec, d.calm,
               Record(t.at, t.second, TRUE, t.got, t.flushed, t.ran, t.hurt))
<1> DEFINE u == Record(t.at, t.second, TRUE, t.got, t.flushed, t.ran, t.hurt)
<1>1. t \in LaunchStates
  BY DEF CliStates
<1>2. u \in LaunchStates
  BY <1>1 DEF LaunchStates, Record
<1>3. \A v : [t EXCEPT !.opened = v] = Record(t.at, t.second, v, t.got, t.flushed, t.ran, t.hurt)
  BY <1>1 DEF LaunchStates, Record
<1>5. d.exec \in BOOLEAN /\ d.calm \in BOOLEAN
  BY DEF CliStates
<1> DEFINE chunks == {}  there == TRUE
<1>8. chunks \in SUBSET (1 .. Size) /\ there \in BOOLEAN
  OBVIOUS
<1>13. e = [d EXCEPT !.there = there, !.chunks = chunks, !.launch[l].opened = there]
  BY Zenon
<1>14. u = Record(t.at, t.second, there, t.got, t.flushed, t.ran, t.hurt)
  BY Zenon
<1> HIDE DEF u, chunks, there
<1>6. [d EXCEPT !.there = there] = State(there, d.chunks, d.exec, d.installed, d.calm, d.launch)
  BY CliExcept, Zenon
<1>4. [State(there, d.chunks, d.exec, d.installed, d.calm, d.launch) EXCEPT !.chunks = chunks] =
        State(there, chunks, d.exec, d.installed, d.calm, d.launch)
  BY DEF State
<1>11. State(there, chunks, d.exec, d.installed, d.calm, d.launch).launch = d.launch
  BY DEF State
<1>12. \A v : [State(there, chunks, d.exec, d.installed, d.calm, d.launch) EXCEPT !.launch = v] =
                State(there, chunks, d.exec, d.installed, d.calm, v)
  BY DEF State
<1>9. e = State(there, chunks, d.exec, d.installed, d.calm, [d.launch EXCEPT ![l] = u])
  <2> DEFINE b == State(there, chunks, d.exec, d.installed, d.calm, d.launch)
  <2>1. [d EXCEPT !.there = there, !.chunks = chunks] = b
    BY <1>4, <1>6, Zenon
  <2> HIDE DEF b
  <2>2. e = [b EXCEPT !.launch = [b.launch EXCEPT ![l] = [b.launch[l] EXCEPT !.opened = there]]]
    BY <2>1, <1>13, Zenon
  <2>3. b.launch = d.launch
    BY <1>11 DEF b
  <2>4. e = [b EXCEPT !.launch = [d.launch EXCEPT ![l] = [t EXCEPT !.opened = there]]]
    BY <2>2, <2>3, Zenon
  <2>5. [t EXCEPT !.opened = there] = u
    BY <1>3, <1>14, Zenon
  <2>6. e = [b EXCEPT !.launch = [d.launch EXCEPT ![l] = u]]
    BY <2>4, <2>5, Zenon
  <2> QED
    BY <2>6, <1>12, Zenon DEF b
<1>10. After(e, d, l, there, chunks, d.exec, d.calm, u)
  BY <1>2, <1>5, <1>8, <1>9, AfterIs, Zenon
<1> QED
  BY <1>10 DEF u, chunks, there

(* ... and a chunk is on disk. *)
LEMMA FlushedAfter ==
  ASSUME NEW d \in CliStates, NEW l \in Launches, NEW t, t = d.launch[l], t.flushed < Size,
         NEW e, e = [d EXCEPT !.chunks = @ \cup {t.flushed + 1}, !.launch[l].flushed = @ + 1]
  PROVE  After(e, d, l, d.there, d.chunks \cup {t.flushed + 1}, d.exec, d.calm,
               Record(t.at, t.second, t.opened, t.got, t.flushed + 1, t.ran, t.hurt))
<1> DEFINE flushed == t.flushed + 1
           chunks == d.chunks \cup {flushed}
           u == Record(t.at, t.second, t.opened, t.got, flushed, t.ran, t.hurt)
<1>1. t \in LaunchStates
  BY DEF CliStates
<1>0. flushed \in 0 .. Size /\ chunks \in SUBSET (1 .. Size)
  BY <1>1, SizeIs DEF LaunchStates, CliStates
<1>9. [d EXCEPT !.chunks = chunks] = State(d.there, chunks, d.exec, d.installed, d.calm, d.launch)
  BY CliExcept, Zenon
<1>11. State(d.there, chunks, d.exec, d.installed, d.calm, d.launch).launch = d.launch
  BY DEF State
<1>12. \A v : [State(d.there, chunks, d.exec, d.installed, d.calm, d.launch) EXCEPT !.launch = v] =
                State(d.there, chunks, d.exec, d.installed, d.calm, v)
  BY DEF State
<1>4. e = State(d.there, chunks, d.exec, d.installed, d.calm, [d.launch EXCEPT ![l] = [t EXCEPT !.flushed = flushed]])
  BY <1>9, <1>11, <1>12, ZenonT(40)
<1> HIDE DEF flushed, chunks
<1>2. u \in LaunchStates
  BY <1>0, <1>1 DEF LaunchStates, Record
<1>3. \A v : [t EXCEPT !.flushed = v] = Record(t.at, t.second, t.opened, t.got, v, t.ran, t.hurt)
  BY <1>1 DEF LaunchStates, Record
<1>5. d.there \in BOOLEAN /\ d.exec \in BOOLEAN /\ d.calm \in BOOLEAN
  BY DEF CliStates
<1>7. e = State(d.there, chunks, d.exec, d.installed, d.calm, [d.launch EXCEPT ![l] = u])
  BY <1>3, <1>4, Zenon
<1> HIDE DEF u
<1>8. After(e, d, l, d.there, chunks, d.exec, d.calm, u)
  BY <1>0, <1>2, <1>5, <1>7, AfterIs, Zenon
<1> QED
  BY <1>8 DEF u, flushed, chunks

(* What the step of a launch under way must keep: it is alone. *)
LEMMA AliveKept ==
  ASSUME NEW d, LaunchInv(d), NEW l \in Launches, Shell!Alive(d, l),
         NEW there, NEW chunks, NEW exec, NEW calm, NEW u, NEW e, After(e, d, l, there, chunks, exec, calm, u),
         d.launch[l].hurt => e.launch[l].hurt, e.calm => d.calm,
         e.calm /\ d.calm /\ LaunchAgrees(d, l) /\ (d.exec => d.there /\ Shell!Whole(d)) =>
           /\ e.exec => e.there /\ Shell!Whole(e)
           /\ LaunchAgrees(e, l)
           /\ ~e.launch[l].hurt /\ Fails(d, l) => Fails(e, l)
  PROVE  LaunchInv(e)
<1>1. e \in CliStates /\ \A o \in Launches \ {l} : e.launch[o] = d.launch[o]
  BY Zenon DEF After
<1>2. d.calm => Alone(d, l) /\ LaunchAgrees(d, l) /\ (d.exec => d.there /\ Shell!Whole(d))
  BY Zenon DEF LaunchInv
<1> QED
  BY <1>1, <1>2, LaunchKept, SMT

(* getCachedCliLocation(): the file that is there is whole. *)
LEMMA StatKept ==
  ASSUME NEW d, LaunchInv(d), NEW l \in Launches, d.launch[l].at = "stat", NEW e \in Shell!Stat(d, l)
  PROVE  LaunchInv(e)
<1> DEFINE t == d.launch[l]
           at == IF d.there THEN "access" ELSE "fetch"
           u == Record(at, t.second, t.opened, t.got, t.flushed, t.ran, t.hurt)
<1>1. d \in CliStates /\ at \in {"stat", "fetch", "receive", "chmod", "access", "info", "done", "failed"} /\ Shell!Alive(d, l)
  BY DEF LaunchInv, Shell!Alive, Shell!Ended
<1>2. e = Shell!Go(d, l, at)
  BY Zenon DEF Shell!Stat
<1>3. (at = "access" /\ d.there) \/ (at = "fetch" /\ ~d.there)
  OBVIOUS
<1> HIDE DEF at
<1>4. After(e, d, l, d.there, d.chunks, d.exec, d.calm, u)
  BY <1>1, <1>2, AtAfter, Zenon
<1>5. u.at = at /\ u.second = t.second /\ u.opened = t.opened /\ u.got = t.got /\ u.flushed = t.flushed /\ u.ran = t.ran /\ u.hurt = t.hurt
  BY RecordIs
<1> HIDE DEF u
<1>6. e.there = d.there /\ e.chunks = d.chunks /\ e.exec = d.exec /\ e.calm = d.calm /\ e.launch[l] = u
  BY <1>4 DEF After
<1>7. ASSUME LaunchAgrees(d, l), d.exec => d.there /\ Shell!Whole(d)
      PROVE  /\ e.exec => e.there /\ Shell!Whole(e)
             /\ LaunchAgrees(e, l)
             /\ ~e.launch[l].hurt /\ Fails(d, l) => Fails(e, l)
  <2>1. LaunchAgrees(e, l)
    BY <1>1, <1>3, <1>5, <1>6, <1>7 DEF LaunchAgrees, Shell!Alive, Shell!Ended, Downloading
  <2>2. Fails(d, l) => Fails(e, l)
    BY <1>3, <1>5, <1>6 DEF Fails, Downloading
  <2> QED
    BY <2>1, <2>2, <1>6, <1>7, Zenon DEF Shell!Whole
<1> QED
  BY <1>1, <1>4, <1>5, <1>6, <1>7, AliveKept, SMT

(* A launch that was killed, or failed by the network, explains failures. *)
LEMMA HurtKept ==
  ASSUME NEW d, LaunchInv(d), NEW l \in Launches, Shell!Alive(d, l),
         NEW e, e = [Shell!Go(d, l, "failed") EXCEPT !.launch[l].hurt = TRUE]
  PROVE  LaunchInv(e)
<1> DEFINE t == d.launch[l]
           at == "failed"
           g == Shell!Go(d, l, at)
           v == Record(at, t.second, t.opened, t.got, t.flushed, t.ran, t.hurt)
           w == g.launch[l]
           u == Record(w.at, w.second, w.opened, w.got, w.flushed, w.ran, TRUE)
<1>1. d \in CliStates /\ at \in {"stat", "fetch", "receive", "chmod", "access", "info", "done", "failed"}
  BY DEF LaunchInv
<1> HIDE DEF at
<1>2. After(g, d, l, d.there, d.chunks, d.exec, d.calm, v)
  BY <1>1, AtAfter, Zenon
<1>3. v.at = at /\ v.second = t.second /\ v.opened = t.opened /\ v.got = t.got /\ v.flushed = t.flushed /\ v.ran = t.ran /\ v.hurt = t.hurt
  BY RecordIs
<1> HIDE DEF v
<1>4. /\ g \in CliStates /\ g.there = d.there /\ g.chunks = d.chunks /\ g.exec = d.exec /\ g.calm = d.calm /\ w = v
  BY <1>2, Zenon DEF After
<1>5. e = [g EXCEPT !.launch[l].hurt = TRUE]
  BY Zenon DEF at
<1> HIDE DEF g
<1>6. After(e, g, l, g.there, g.chunks, g.exec, g.calm, u)
  BY <1>4, <1>5, HurtAfter, Zenon
<1>8. u.at = w.at /\ u.second = w.second /\ u.opened = w.opened /\ u.got = w.got /\ u.flushed = w.flushed /\ u.ran = w.ran /\ u.hurt
  BY DEF Record
<1> HIDE DEF u
<1>7. After(e, d, l, g.there, g.chunks, g.exec, g.calm, u)
  BY <1>2, <1>6, AfterAfter, Zenon
<1>9. e.there = d.there /\ e.chunks = d.chunks /\ e.exec = d.exec /\ e.calm = d.calm /\ e.launch[l] = u
  BY <1>7, <1>4 DEF After
<1>10. u.at = "failed" /\ u.opened = t.opened /\ u.got = t.got /\ u.flushed = t.flushed /\ u.ran = t.ran
  BY <1>3, <1>4, <1>8 DEF at
<1>11. ASSUME LaunchAgrees(d, l), d.exec => d.there /\ Shell!Whole(d)
      PROVE  /\ e.exec => e.there /\ Shell!Whole(e)
             /\ LaunchAgrees(e, l)
             /\ ~e.launch[l].hurt /\ Fails(d, l) => Fails(e, l)
  <2>1. LaunchAgrees(e, l)
    BY <1>9, <1>10, <1>11 DEF LaunchAgrees, Shell!Alive, Shell!Ended, Downloading
  <2> QED
    BY <2>1, <1>8, <1>9, <1>11, Zenon DEF Shell!Whole
<1>12. e.launch[l].hurt /\ (e.calm => d.calm)
  BY <1>8, <1>9, Zenon
<1> QED
  BY <1>7, <1>11, <1>12, AliveKept, Zenon

(* A launch goes on and nothing else changes. *)
LEMMA GoKept ==
  ASSUME NEW d, LaunchInv(d), NEW l \in Launches, Shell!Alive(d, l),
         NEW at \in {"stat", "fetch", "receive", "chmod", "access", "info", "done", "failed"},
         NEW e, e = Shell!Go(d, l, at),
         d.calm /\ LaunchAgrees(d, l) /\ (d.exec => d.there /\ Shell!Whole(d)) =>
           /\ at \in {"stat", "fetch", "access", "info"} =>
                IF d.launch[l].opened THEN d.launch[l].flushed = Size ELSE d.launch[l].got = 0
           /\ at = "fetch" => ~d.there
           /\ at \in Downloading =>
                ~d.exec /\ (IF d.launch[l].opened THEN d.chunks = 1 .. d.launch[l].flushed ELSE ~d.there)
           /\ at = "chmod" => d.launch[l].got = Size
           /\ at \in {"access", "info"} => d.there
           /\ ~d.launch[l].hurt /\ Fails(d, l) => at # "failed" /\ (d.there => d.exec \/ at \in Downloading)
  PROVE  LaunchInv(e)
<1> DEFINE t == d.launch[l]
           u == Record(at, t.second, t.opened, t.got, t.flushed, t.ran, t.hurt)
<1>1. d \in CliStates
  BY DEF LaunchInv
<1>4. After(e, d, l, d.there, d.chunks, d.exec, d.calm, u)
  BY <1>1, AtAfter, Zenon
<1>5. u.at = at /\ u.second = t.second /\ u.opened = t.opened /\ u.got = t.got /\ u.flushed = t.flushed /\ u.ran = t.ran /\ u.hurt = t.hurt
  BY RecordIs
<1> HIDE DEF u
<1>6. e.there = d.there /\ e.chunks = d.chunks /\ e.exec = d.exec /\ e.calm = d.calm /\ e.launch[l] = u
  BY <1>4 DEF After
<1>7. ASSUME d.calm, LaunchAgrees(d, l), d.exec => d.there /\ Shell!Whole(d)
      PROVE  /\ e.exec => e.there /\ Shell!Whole(e)
             /\ LaunchAgrees(e, l)
             /\ ~e.launch[l].hurt /\ Fails(d, l) => Fails(e, l)
  <2>1. LaunchAgrees(e, l)
    BY <1>1, <1>5, <1>6, <1>7 DEF LaunchAgrees, Shell!Alive, Shell!Ended, Downloading
  <2>2. ~e.launch[l].hurt /\ Fails(d, l) => Fails(e, l)
    BY <1>5, <1>6, <1>7 DEF Fails
  <2> QED
    BY <2>1, <2>2, <1>6, <1>7, Zenon DEF Shell!Whole
<1> QED
  BY <1>1, <1>4, <1>5, <1>6, <1>7, AliveKept, SMT

(* The network answers, or fails. *)
LEMMA FetchKept ==
  ASSUME NEW d, LaunchInv(d), NEW l \in Launches, d.launch[l].at = "fetch", NEW e \in Shell!Fetch(d, l)
  PROVE  LaunchInv(e)
<1>1. Shell!Alive(d, l)
  BY DEF Shell!Alive, Shell!Ended
<1>2. CASE e = [Shell!Go(d, l, "failed") EXCEPT !.launch[l].hurt = TRUE]
  BY <1>1, <1>2, HurtKept, Zenon
<1>3. CASE e = Shell!Go(d, l, "receive")
  <2> DEFINE at == "receive"
  <2>1. d.calm /\ LaunchAgrees(d, l) /\ (d.exec => d.there /\ Shell!Whole(d)) =>
           /\ at \in {"stat", "fetch", "access", "info"} =>
                IF d.launch[l].opened THEN d.launch[l].flushed = Size ELSE d.launch[l].got = 0
           /\ at = "fetch" => ~d.there
           /\ at \in Downloading =>
                ~d.exec /\ (IF d.launch[l].opened THEN d.chunks = 1 .. d.launch[l].flushed ELSE ~d.there)
           /\ at = "chmod" => d.launch[l].got = Size
           /\ at \in {"access", "info"} => d.there
           /\ ~d.launch[l].hurt /\ Fails(d, l) => at # "failed" /\ (d.there => d.exec \/ at \in Downloading)
    BY <1>1 DEF LaunchAgrees, Downloading
  <2>2. at \in {"stat", "fetch", "receive", "chmod", "access", "info", "done", "failed"} /\ e = Shell!Go(d, l, at)
    BY <1>3
  <2> HIDE DEF at
  <2> QED
    BY <1>1, <2>1, <2>2, GoKept, Zenon
<1> QED
  BY <1>2, <1>3, Zenon DEF Shell!Fetch

(* The download goes on, fails, or has everything. *)
LEMMA ReceiveKept ==
  ASSUME NEW d, LaunchInv(d), NEW l \in Launches, d.launch[l].at = "receive", NEW e \in Shell!Receive(d, l)
  PROVE  LaunchInv(e)
<1> DEFINE t == d.launch[l]
<1>1. Shell!Alive(d, l) /\ d \in CliStates
  BY DEF Shell!Alive, Shell!Ended, LaunchInv
<1>2. t \in LaunchStates
  BY <1>1 DEF CliStates
<1>3. CASE e = [Shell!Go(d, l, "failed") EXCEPT !.launch[l].hurt = TRUE]
  BY <1>1, <1>3, HurtKept, Zenon
<1>4. CASE t.got >= Size /\ e = Shell!Go(d, l, "chmod")
  <2> DEFINE at == "chmod"
  <2>1. d.calm /\ LaunchAgrees(d, l) /\ (d.exec => d.there /\ Shell!Whole(d)) =>
           /\ at \in {"stat", "fetch", "access", "info"} =>
                IF d.launch[l].opened THEN d.launch[l].flushed = Size ELSE d.launch[l].got = 0
           /\ at = "fetch" => ~d.there
           /\ at \in Downloading =>
                ~d.exec /\ (IF d.launch[l].opened THEN d.chunks = 1 .. d.launch[l].flushed ELSE ~d.there)
           /\ at = "chmod" => d.launch[l].got = Size
           /\ at \in {"access", "info"} => d.there
           /\ ~d.launch[l].hurt /\ Fails(d, l) => at # "failed" /\ (d.there => d.exec \/ at \in Downloading)
    <3>1. t.got = Size
      BY <1>2, <1>4, SizeIs DEF LaunchStates
    <3>2. LaunchAgrees(d, l) => ~d.exec /\ (IF t.opened THEN d.chunks = 1 .. t.flushed ELSE ~d.there)
      BY DEF LaunchAgrees, Downloading
    <3> QED
      BY <3>1, <3>2 DEF Downloading
  <2>2. at \in {"stat", "fetch", "receive", "chmod", "access", "info", "done", "failed"} /\ e = Shell!Go(d, l, at)
    BY <1>4
  <2> HIDE DEF at
  <2> QED
    BY <1>1, <2>1, <2>2, GoKept, Zenon
<1>5. CASE t.got < Size /\ e = [d EXCEPT !.launch[l].got = @ + 1]
  <2> DEFINE got == t.got + 1
             u == Record(t.at, t.second, t.opened, got, t.flushed, t.ran, t.hurt)
  <2>1. After(e, d, l, d.there, d.chunks, d.exec, d.calm, u)
    BY <1>1, <1>5, GotAfter, Zenon
  <2>2. got \in 0 .. Size /\ t.got \in 0 .. Size /\ t.flushed \in 0 .. Size /\ t.got < got
    BY <1>2, <1>5, SizeIs DEF LaunchStates
  <2> HIDE DEF got
  <2>5. u.at = t.at /\ u.second = t.second /\ u.opened = t.opened /\ u.got = got /\ u.flushed = t.flushed /\ u.ran = t.ran /\ u.hurt = t.hurt
    BY DEF Record
  <2> HIDE DEF u
  <2>6. e.there = d.there /\ e.chunks = d.chunks /\ e.exec = d.exec /\ e.calm = d.calm /\ e.launch[l] = u
    BY <2>1 DEF After
  <2>7. ASSUME d.calm, LaunchAgrees(d, l), d.exec => d.there /\ Shell!Whole(d)
        PROVE  /\ e.exec => e.there /\ Shell!Whole(e)
               /\ LaunchAgrees(e, l)
               /\ ~e.launch[l].hurt /\ Fails(d, l) => Fails(e, l)
    <3>1. LaunchAgrees(e, l)
      <4>1. t.flushed <= got
        BY <2>2, <2>7, SizeIs DEF LaunchAgrees
      <4> QED
        BY <4>1, <1>1, <2>5, <2>6, <2>7, Zenon DEF LaunchAgrees, Shell!Alive, Downloading
    <3>2. ~e.launch[l].hurt /\ Fails(d, l) => Fails(e, l)
      BY <2>5, <2>6, <2>7 DEF Fails
    <3> QED
      BY <3>1, <3>2, <2>6, <2>7, Zenon DEF Shell!Whole
  <2> QED
    BY <1>1, <2>1, <2>5, <2>6, <2>7, AliveKept, SMT
<1>6. (t.got < Size) \/ (t.got >= Size)
  BY <1>2, SizeIs DEF LaunchStates
<1> QED
  BY <1>3, <1>4, <1>5, <1>6, Zenon DEF Shell!Receive

(* A stream that opens its file empties it: nobody else has it open. *)
LEMMA OpensKept ==
  ASSUME NEW d, LaunchInv(d), NEW l \in Launches, NEW e \in Shell!Opens(d, l)
  PROVE  LaunchInv(e)
<1> DEFINE t == d.launch[l]
           u == Record(t.at, t.second, TRUE, t.got, t.flushed, t.ran, t.hurt)
<1>1. d \in CliStates /\ t \in LaunchStates
  BY DEF LaunchInv, CliStates
<1>2. /\ t.at \in {"receive", "chmod", "access", "info"} /\ ~t.opened /\ t.got > 0
      /\ e = [d EXCEPT !.there = TRUE, !.chunks = {}, !.launch[l].opened = TRUE]
  BY Zenon DEF Shell!Opens
<1>3. Shell!Alive(d, l)
  BY <1>2 DEF Shell!Alive, Shell!Ended
<1>4. After(e, d, l, TRUE, {}, d.exec, d.calm, u)
  BY <1>1, <1>2, OpenedAfter, Zenon
<1>5. u.at = t.at /\ u.opened /\ u.got = t.got /\ u.flushed = t.flushed /\ u.ran = t.ran /\ u.hurt = t.hurt
  BY DEF Record
<1> HIDE DEF u
<1>6. e.there /\ e.chunks = {} /\ e.exec = d.exec /\ e.calm = d.calm /\ e.launch[l] = u
  BY <1>4 DEF After
<1>7. ASSUME d.calm, LaunchAgrees(d, l), d.exec => d.there /\ Shell!Whole(d)
      PROVE  /\ e.exec => e.there /\ Shell!Whole(e)
             /\ LaunchAgrees(e, l)
             /\ ~e.launch[l].hurt /\ Fails(d, l) => Fails(e, l)
  <2>1. t.at \in Downloading /\ t.at \notin {"access", "info"}
    BY <1>2, <1>7 DEF LaunchAgrees, Downloading
  <2>2. ~d.exec /\ t.flushed = 0
    BY <2>1, <1>2, <1>7, Zenon DEF LaunchAgrees
  <2>3. LaunchAgrees(e, l)
    <3>1. t.flushed <= t.got /\ t.ran # "partial" /\ (t.at = "chmod" => t.got = Size) /\ t.at # "idle"
      BY <1>2, <1>7, Zenon DEF LaunchAgrees
    <3>2. t.at \notin {"stat", "fetch", "access", "info", "idle"}
      BY <2>1 DEF Downloading
    <3>3. e.chunks = 1 .. 0
      BY <1>6
    <3> QED
      BY <3>1, <3>2, <3>3, <2>2, <1>5, <1>6, Zenon DEF LaunchAgrees, Downloading
  <2> QED
    BY <2>1, <2>2, <2>3, <1>5, <1>6, Zenon DEF Fails
<1>8. (d.launch[l].hurt => e.launch[l].hurt) /\ (e.calm => d.calm)
  BY <1>5, <1>6, Zenon
<1> QED
  BY <1>3, <1>4, <1>7, <1>8, AliveKept, Zenon

(* The chunks on disk are those flushed, in order. *)
LEMMA FlushKept ==
  ASSUME NEW d, LaunchInv(d), NEW l \in Launches, NEW e \in Shell!Flush(d, l)
  PROVE  LaunchInv(e)
<1> DEFINE t == d.launch[l]
           flushed == t.flushed + 1
           u == Record(t.at, t.second, t.opened, t.got, flushed, t.ran, t.hurt)
<1>1. d \in CliStates /\ t \in LaunchStates
  BY DEF LaunchInv, CliStates
<1>2. /\ Shell!Alive(d, l) /\ t.opened /\ t.flushed < t.got
      /\ e = [d EXCEPT !.chunks = @ \cup {t.flushed + 1}, !.launch[l].flushed = @ + 1]
  BY Zenon DEF Shell!Flush
<1>3. t.flushed < Size /\ t.flushed \in 0 .. Size /\ t.got \in 0 .. Size
  BY <1>1, <1>2, SizeIs DEF LaunchStates
<1>4. After(e, d, l, d.there, d.chunks \cup {flushed}, d.exec, d.calm, u)
  BY <1>1, <1>2, <1>3, FlushedAfter, Zenon
<1>0. flushed <= t.got /\ flushed <= Size /\ 1 .. flushed = (1 .. t.flushed) \cup {flushed}
  BY <1>2, <1>3, SizeIs
<1> HIDE DEF flushed
<1>5. u.at = t.at /\ u.opened = t.opened /\ u.got = t.got /\ u.flushed = flushed /\ u.ran = t.ran /\ u.hurt = t.hurt
  BY DEF Record
<1> HIDE DEF u
<1>6. e.there = d.there /\ e.chunks = d.chunks \cup {flushed} /\ e.exec = d.exec /\ e.calm = d.calm /\ e.launch[l] = u
  BY <1>4 DEF After
<1>7. ASSUME d.calm, LaunchAgrees(d, l), d.exec => d.there /\ Shell!Whole(d)
      PROVE  /\ e.exec => e.there /\ Shell!Whole(e)
             /\ LaunchAgrees(e, l)
             /\ ~e.launch[l].hurt /\ Fails(d, l) => Fails(e, l)
  <2>1. t.at \in Downloading
    <3>0. t.flushed # Size
      BY <1>3
    <3>1. t.at \notin {"stat", "fetch", "access", "info"}
      BY <1>2, <3>0, <1>7, Zenon DEF LaunchAgrees
    <3> QED
      BY <1>1, <1>2, <3>1 DEF LaunchStates, Shell!Alive, Downloading
  <2>2. ~d.exec /\ d.chunks = 1 .. t.flushed /\ d.there
    BY <2>1, <1>2, <1>7, Zenon DEF LaunchAgrees
  <2>3. LaunchAgrees(e, l)
    <3>1. t.ran # "partial" /\ (t.at = "chmod" => t.got = Size)
      BY <1>7, Zenon DEF LaunchAgrees
    <3>2. t.at \notin {"stat", "fetch", "access", "info", "idle"}
      BY <2>1 DEF Downloading
    <3>3. e.chunks = 1 .. flushed
      BY <1>0, <1>6, <2>2, Zenon
    <3> QED
      BY <3>1, <3>2, <3>3, <2>2, <1>0, <1>2, <1>5, <1>6, Zenon DEF LaunchAgrees, Downloading
  <2> QED
    BY <2>1, <2>2, <2>3, <1>5, <1>6, Zenon DEF Fails
<1>8. (d.launch[l].hurt => e.launch[l].hurt) /\ (e.calm => d.calm)
  BY <1>5, <1>6, Zenon
<1> QED
  BY <1>2, <1>4, <1>7, <1>8, AliveKept, Zenon

(* chmod() with the file there, ... *)
LEMMA ChmodAfter ==
  ASSUME NEW d \in CliStates, NEW l \in Launches, NEW t, t = d.launch[l],
         NEW e, e = [Shell!Go(d, l, "access") EXCEPT !.exec = TRUE, !.calm = @ /\ t.flushed = Size]
  PROVE  After(e, d, l, d.there, d.chunks, TRUE, d.calm /\ t.flushed = Size,
               Record("access", t.second, t.opened, t.got, t.flushed, t.ran, t.hurt))
<1> DEFINE at == "access"
           exec == TRUE
           flushed == t.flushed = Size
           calm == d.calm /\ flushed
           u == Record(at, t.second, t.opened, t.got, t.flushed, t.ran, t.hurt)
           launch == [d.launch EXCEPT ![l] = u]
<1>1. t \in LaunchStates /\ at \in {"stat", "fetch", "receive", "chmod", "access", "info", "done", "failed"}
  BY DEF CliStates
<1>2. u \in LaunchStates
  BY <1>1 DEF LaunchStates, Record
<1>3. d.there \in BOOLEAN /\ d.chunks \in SUBSET (1 .. Size) /\ exec \in BOOLEAN /\ calm \in BOOLEAN
  BY DEF CliStates
<1>4. e = [Shell!Go(d, l, at) EXCEPT !.exec = exec, !.calm = @ /\ flushed]
  BY Zenon
<1> HIDE DEF at, exec, flushed
<1>5. Shell!Go(d, l, at) = State(d.there, d.chunks, d.exec, d.installed, d.calm, launch)
  BY <1>1, GoIs, Zenon
<1> HIDE DEF u, launch
<1>6. [State(d.there, d.chunks, d.exec, d.installed, d.calm, launch) EXCEPT !.exec = exec] =
        State(d.there, d.chunks, exec, d.installed, d.calm, launch)
  BY DEF State
<1>7. State(d.there, d.chunks, exec, d.installed, d.calm, launch).calm = d.calm
  BY DEF State
<1>8. \A v : [State(d.there, d.chunks, exec, d.installed, d.calm, launch) EXCEPT !.calm = v] =
               State(d.there, d.chunks, exec, d.installed, v, launch)
  BY DEF State
<1>9. e = State(d.there, d.chunks, exec, d.installed, calm, launch)
  <2> DEFINE b == State(d.there, d.chunks, exec, d.installed, d.calm, launch)
  <2>1. [Shell!Go(d, l, at) EXCEPT !.exec = exec] = b
    BY <1>5, <1>6, Zenon
  <2> HIDE DEF b
  <2>2. e = [b EXCEPT !.calm = b.calm /\ flushed]
    BY <1>4, <2>1, Zenon
  <2>3. e = [b EXCEPT !.calm = d.calm /\ flushed]
    BY <2>2, <1>7, Zenon DEF b
  <2> QED
    BY <2>3, <1>8, Zenon DEF b
<1> HIDE DEF calm
<1>10. After(e, d, l, d.there, d.chunks, exec, calm, u)
  BY <1>2, <1>3, <1>9, AfterIs, Zenon DEF launch
<1> QED
  BY <1>10 DEF u, exec, calm, flushed, at

(* ... and without it: not calm any more. *)
LEMMA ChmodFailed ==
  ASSUME NEW d \in CliStates, NEW l \in Launches,
         NEW e, e = [Shell!Go(d, l, "failed") EXCEPT !.calm = FALSE]
  PROVE  e \in CliStates /\ ~e.calm
<1> DEFINE g == Shell!Go(d, l, "failed")
<1>1. g \in CliStates
  <2> DEFINE at == "failed"
             u == Record(at, d.launch[l].second, d.launch[l].opened, d.launch[l].got, d.launch[l].flushed,
                         d.launch[l].ran, d.launch[l].hurt)
  <2>1. at \in {"stat", "fetch", "receive", "chmod", "access", "info", "done", "failed"}
    OBVIOUS
  <2> HIDE DEF at
  <2>2. After(Shell!Go(d, l, at), d, l, d.there, d.chunks, d.exec, d.calm, u)
    BY <2>1, AtAfter, Zenon
  <2> QED
    BY <2>2 DEF After, at
<1>2. e = [g EXCEPT !.calm = FALSE]
  OBVIOUS
<1> HIDE DEF g
<1> QED
  BY <1>1, <1>2 DEF CliStates

(* A file that can be run is whole, if all was on disk before. *)
LEMMA ChmodKept ==
  ASSUME NEW d, LaunchInv(d), NEW l \in Launches, d.launch[l].at = "chmod", NEW e \in Shell!Chmod(d, l)
  PROVE  LaunchInv(e)
<1> DEFINE t == d.launch[l]
           u == Record("access", t.second, t.opened, t.got, t.flushed, t.ran, t.hurt)
<1>1. d \in CliStates /\ Shell!Alive(d, l) /\ t \in LaunchStates
  BY DEF LaunchInv, Shell!Alive, Shell!Ended, CliStates
<1>2. \/ d.there /\ e = [Shell!Go(d, l, "access") EXCEPT !.exec = TRUE, !.calm = @ /\ t.flushed = Size]
      \/ ~d.there /\ e = [Shell!Go(d, l, "failed") EXCEPT !.calm = FALSE]
  BY Zenon DEF Shell!Chmod
<1>3. CASE e = [Shell!Go(d, l, "failed") EXCEPT !.calm = FALSE]
  BY <1>1, <1>3, ChmodFailed, Zenon DEF LaunchInv
<1>4. CASE d.there /\ e = [Shell!Go(d, l, "access") EXCEPT !.exec = TRUE, !.calm = @ /\ t.flushed = Size]
  <2>1. After(e, d, l, d.there, d.chunks, TRUE, d.calm /\ t.flushed = Size, u)
    BY <1>1, <1>4, ChmodAfter, Zenon
  <2>2. /\ u.at = "access" /\ u.second = t.second /\ u.opened = t.opened /\ u.got = t.got /\ u.flushed = t.flushed
        /\ u.ran = t.ran /\ u.hurt = t.hurt
    BY DEF Record
  <2> HIDE DEF u
  <2>3. /\ e.there = d.there /\ e.chunks = d.chunks /\ e.exec /\ e.calm = (d.calm /\ t.flushed = Size) /\ e.launch[l] = u
    BY <2>1 DEF After
  <2>4. ASSUME e.calm, d.calm, LaunchAgrees(d, l)
        PROVE  /\ e.exec => e.there /\ Shell!Whole(e)
               /\ LaunchAgrees(e, l)
               /\ ~e.launch[l].hurt /\ Fails(d, l) => Fails(e, l)
    <3>1. t.opened /\ d.chunks = 1 .. t.flushed /\ t.flushed = Size
      BY <1>4, <2>3, <2>4, Zenon DEF LaunchAgrees, Downloading
    <3>2. LaunchAgrees(e, l)
      BY <1>4, <2>2, <2>3, <2>4, <3>1 DEF LaunchAgrees, Downloading
    <3>3. Fails(e, l)
      BY <2>2, <2>3 DEF Fails
    <3> QED
      BY <1>4, <2>3, <3>1, <3>2, <3>3, Zenon DEF Shell!Whole
  <2>5. (d.launch[l].hurt => e.launch[l].hurt) /\ (e.calm => d.calm)
    BY <2>2, <2>3, Zenon
  <2> QED
    BY <1>1, <2>1, <2>4, <2>5, AliveKept, Zenon
<1> QED
  BY <1>2, <1>3, <1>4

(* What is run is whole, unless it is not calm. *)
LEMMA RanKept ==
  ASSUME NEW d, LaunchInv(d), NEW l \in Launches, Shell!Alive(d, l), d.exec,
         NEW at, NEW ran, \/ at = "done" /\ ran \in {"cached", "installed"}
                          \/ at = "failed" /\ ran = "partial" /\ ~Shell!Whole(d),
         NEW e, e = [Shell!Go(d, l, at) EXCEPT !.launch[l].ran = ran]
  PROVE  LaunchInv(e)
<1> DEFINE t == d.launch[l]
           g == Shell!Go(d, l, at)
           v == Record(at, t.second, t.opened, t.got, t.flushed, t.ran, t.hurt)
           w == g.launch[l]
           u == Record(w.at, w.second, w.opened, w.got, w.flushed, ran, w.hurt)
<1>1. /\ d \in CliStates /\ at \in {"stat", "fetch", "receive", "chmod", "access", "info", "done", "failed"}
      /\ ran \in {"cached", "installed", "partial"}
  BY DEF LaunchInv
<1>2. After(g, d, l, d.there, d.chunks, d.exec, d.calm, v)
  BY <1>1, AtAfter, Zenon
<1>3. v.at = at /\ v.second = t.second /\ v.opened = t.opened /\ v.got = t.got /\ v.flushed = t.flushed /\ v.ran = t.ran /\ v.hurt = t.hurt
  BY RecordIs
<1> HIDE DEF v
<1>4. /\ g \in CliStates /\ g.there = d.there /\ g.chunks = d.chunks /\ g.exec = d.exec /\ g.calm = d.calm /\ w = v
  BY <1>2, Zenon DEF After
<1>5. e = [g EXCEPT !.launch[l].ran = ran]
  BY Zenon
<1> HIDE DEF g
<1>6. After(e, g, l, g.there, g.chunks, g.exec, g.calm, u)
  BY <1>1, <1>4, <1>5, RanAfter, Zenon
<1>8. u.at = w.at /\ u.second = w.second /\ u.opened = w.opened /\ u.got = w.got /\ u.flushed = w.flushed /\ u.ran = ran /\ u.hurt = w.hurt
  BY DEF Record
<1> HIDE DEF u
<1>7. After(e, d, l, g.there, g.chunks, g.exec, g.calm, u)
  BY <1>2, <1>6, AfterAfter, Zenon
<1>9. e.there = d.there /\ e.chunks = d.chunks /\ e.exec = d.exec /\ e.calm = d.calm /\ e.launch[l] = u
  BY <1>7, <1>4 DEF After
<1>10. u.at = at /\ u.opened = t.opened /\ u.got = t.got /\ u.flushed = t.flushed /\ u.ran = ran /\ u.hurt = t.hurt
  BY <1>3, <1>4, <1>8
<1>11. ASSUME LaunchAgrees(d, l), d.exec => d.there /\ Shell!Whole(d)
      PROVE  /\ e.exec => e.there /\ Shell!Whole(e)
             /\ LaunchAgrees(e, l)
             /\ ~e.launch[l].hurt /\ Fails(d, l) => Fails(e, l)
  <2>1. at = "done" /\ ran \in {"cached", "installed"}
    BY <1>11
  <2>2. at \notin {"idle", "stat", "fetch", "receive", "chmod", "access", "info", "failed"} /\ ran # "partial"
    BY <2>1
  <2>3. at \in Shell!Ended
    BY <2>1 DEF Shell!Ended
  <2>4. LaunchAgrees(e, l)
    BY <1>9, <1>10, <1>11, <2>2, <2>3, Zenon DEF LaunchAgrees, Shell!Alive, Downloading
  <2>5. Fails(e, l)
    BY <1>9, <1>10, <2>2, Zenon DEF Fails
  <2> QED
    BY <2>4, <2>5, <1>9, <1>11, Zenon DEF Shell!Whole
<1>12. (d.launch[l].hurt => e.launch[l].hurt) /\ (e.calm => d.calm)
  BY <1>9, <1>10, Zenon
<1> QED
  BY <1>7, <1>11, <1>12, AliveKept, Zenon

(* The cached file cannot be run: not if nobody was hurt. *)
LEMMA FailedKept ==
  ASSUME NEW d, LaunchInv(d), NEW l \in Launches, d.launch[l].at \in {"access", "info"},
         \/ ~d.there \/ ~d.exec \/ Shell!Busy(d), NEW e, e = Shell!Go(d, l, "failed")
  PROVE  LaunchInv(e)
<1> DEFINE at == "failed"
<1>1. Shell!Alive(d, l)
  BY DEF Shell!Alive, Shell!Ended
<1>2. d.calm /\ LaunchAgrees(d, l) /\ (d.exec => d.there /\ Shell!Whole(d)) =>
         /\ at \in {"stat", "fetch", "access", "info"} =>
              IF d.launch[l].opened THEN d.launch[l].flushed = Size ELSE d.launch[l].got = 0
         /\ at = "fetch" => ~d.there
         /\ at \in Downloading =>
              ~d.exec /\ (IF d.launch[l].opened THEN d.chunks = 1 .. d.launch[l].flushed ELSE ~d.there)
         /\ at = "chmod" => d.launch[l].got = Size
         /\ at \in {"access", "info"} => d.there
         /\ ~d.launch[l].hurt /\ Fails(d, l) => at # "failed" /\ (d.there => d.exec \/ at \in Downloading)
  <2> SUFFICES ASSUME d.calm, LaunchAgrees(d, l), d.exec => d.there /\ Shell!Whole(d)
               PROVE  /\ at \in {"stat", "fetch", "access", "info"} => FALSE
                      /\ at = "fetch" => FALSE
                      /\ at \in Downloading => FALSE
                      /\ at = "chmod" => FALSE
                      /\ at \in {"access", "info"} => FALSE
                      /\ ~Fails(d, l)
    BY Zenon
  <2>1. d.there /\ d.launch[l].at \notin Downloading
    BY DEF LaunchAgrees, Downloading
  <2>2. ~Shell!Busy(d)
    <3> SUFFICES ASSUME NEW o \in Launches, Shell!Alive(d, o), d.launch[o].opened, d.launch[o].flushed < Size
                 PROVE  FALSE
      BY Zenon DEF Shell!Busy
    <3>1. o = l
      BY <1>1, Zenon DEF LaunchInv, Alone
    <3>2. d.launch[o].flushed = Size
      BY <3>1 DEF LaunchAgrees
    <3> QED
      BY <3>2, SizeIs
  <2>3. ~Fails(d, l)
    BY <2>1, <2>2, Zenon DEF Fails
  <2> QED
    BY <2>3 DEF Downloading
<1>3. at \in {"stat", "fetch", "receive", "chmod", "access", "info", "done", "failed"} /\ e = Shell!Go(d, l, at)
  OBVIOUS
<1> HIDE DEF at
<1> QED
  BY <1>1, <1>2, <1>3, GoKept, Zenon

(* The second search finds the file that the first one did. *)
LEMMA SecondKept ==
  ASSUME NEW d, LaunchInv(d), NEW l \in Launches, d.launch[l].at = "info", d.exec,
         NEW e, e = [Shell!Go(d, l, "stat") EXCEPT !.launch[l].second = TRUE]
  PROVE  LaunchInv(e)
<1> DEFINE t == d.launch[l]
           at == "stat"
           g == Shell!Go(d, l, at)
           v == Record(at, t.second, t.opened, t.got, t.flushed, t.ran, t.hurt)
           w == g.launch[l]
           u == Record(w.at, TRUE, w.opened, w.got, w.flushed, w.ran, w.hurt)
<1>1. /\ d \in CliStates /\ at \in {"stat", "fetch", "receive", "chmod", "access", "info", "done", "failed"}
      /\ Shell!Alive(d, l)
  BY DEF LaunchInv, Shell!Alive, Shell!Ended
<1> HIDE DEF at
<1>2. After(g, d, l, d.there, d.chunks, d.exec, d.calm, v)
  BY <1>1, AtAfter, Zenon
<1>3. v.at = at /\ v.second = t.second /\ v.opened = t.opened /\ v.got = t.got /\ v.flushed = t.flushed /\ v.ran = t.ran /\ v.hurt = t.hurt
  BY RecordIs
<1> HIDE DEF v
<1>4. /\ g \in CliStates /\ g.there = d.there /\ g.chunks = d.chunks /\ g.exec = d.exec /\ g.calm = d.calm /\ w = v
  BY <1>2, Zenon DEF After
<1>5. e = [g EXCEPT !.launch[l].second = TRUE]
  BY Zenon DEF at
<1> HIDE DEF g
<1>6. After(e, g, l, g.there, g.chunks, g.exec, g.calm, u)
  BY <1>4, <1>5, SecondAfter, Zenon
<1>8. u.at = w.at /\ u.opened = w.opened /\ u.got = w.got /\ u.flushed = w.flushed /\ u.ran = w.ran /\ u.hurt = w.hurt
  BY DEF Record
<1> HIDE DEF u
<1>7. After(e, d, l, g.there, g.chunks, g.exec, g.calm, u)
  BY <1>2, <1>6, AfterAfter, Zenon
<1>9. e.there = d.there /\ e.chunks = d.chunks /\ e.exec = d.exec /\ e.calm = d.calm /\ e.launch[l] = u
  BY <1>7, <1>4 DEF After
<1>10. u.at = "stat" /\ u.opened = t.opened /\ u.got = t.got /\ u.flushed = t.flushed /\ u.ran = t.ran /\ u.hurt = t.hurt
  BY <1>3, <1>4, <1>8 DEF at
<1>11. ASSUME LaunchAgrees(d, l), d.exec => d.there /\ Shell!Whole(d)
      PROVE  /\ e.exec => e.there /\ Shell!Whole(e)
             /\ LaunchAgrees(e, l)
             /\ ~e.launch[l].hurt /\ Fails(d, l) => Fails(e, l)
  <2>1. LaunchAgrees(e, l)
    BY <1>1, <1>9, <1>10, <1>11 DEF LaunchAgrees, Shell!Alive, Shell!Ended, Downloading
  <2>2. Fails(e, l)
    BY <1>9, <1>10 DEF Fails
  <2> QED
    BY <2>1, <2>2, <1>9, <1>11, Zenon DEF Shell!Whole
<1>12. (d.launch[l].hurt => e.launch[l].hurt) /\ (e.calm => d.calm)
  BY <1>9, <1>10, Zenon
<1> QED
  BY <1>1, <1>7, <1>11, <1>12, AliveKept, Zenon

(* Run() in its three outcomes. *)
LEMMA RunsOut ==
  ASSUME NEW d, LaunchInv(d), NEW l \in Launches, d.launch[l].at \in {"access", "info"},
         NEW then, NEW e \in Shell!Run(d, l, then), d.exec => e # then
  PROVE  LaunchInv(e)
<1>1. Shell!Alive(d, l)
  BY DEF Shell!Alive, Shell!Ended
<1>2. CASE ~d.exec \/ Shell!Busy(d)
  <2>1. e = Shell!Go(d, l, "failed")
    BY <1>2, Zenon DEF Shell!Run
  <2> QED
    BY <1>2, <2>1, FailedKept, Zenon
<1>3. CASE d.exec /\ ~Shell!Busy(d)
  <2> DEFINE at == "failed"  ran == "partial"
  <2>1. ~Shell!Whole(d) /\ e = [Shell!Go(d, l, at) EXCEPT !.launch[l].ran = ran]
    BY <1>3, Zenon DEF Shell!Run
  <2>2. \/ at = "done" /\ ran \in {"cached", "installed"}
        \/ at = "failed" /\ ran = "partial" /\ ~Shell!Whole(d)
    BY <2>1, Zenon
  <2> HIDE DEF at, ran
  <2> QED
    BY <1>1, <1>3, <2>1, <2>2, RanKept, Zenon
<1> QED
  BY <1>2, <1>3

(* The file is run, or asked for its info. *)
LEMMA AccessKept ==
  ASSUME NEW d, LaunchInv(d), NEW l \in Launches, d.launch[l].at = "access", NEW e \in Shell!Access(d, l)
  PROVE  LaunchInv(e)
<1>1. Shell!Alive(d, l)
  BY DEF Shell!Alive, Shell!Ended
<1>2. CASE ~d.there
  <2>1. e = Shell!Go(d, l, "failed")
    BY <1>2, Zenon DEF Shell!Access
  <2> QED
    BY <1>2, <2>1, FailedKept, Zenon
<1>3. CASE d.there /\ d.launch[l].second
  <2> DEFINE then == [Shell!Go(d, l, "done") EXCEPT !.launch[l].ran = "cached"]
  <2>1. e \in Shell!Run(d, l, then)
    BY <1>3, Zenon DEF Shell!Access
  <2>2. CASE d.exec /\ e = then
    <3> DEFINE at == "done"  ran == "cached"
    <3>1. e = [Shell!Go(d, l, at) EXCEPT !.launch[l].ran = ran]
      BY <2>2, Zenon
    <3>2. \/ at = "done" /\ ran \in {"cached", "installed"}
          \/ at = "failed" /\ ran = "partial" /\ ~Shell!Whole(d)
      BY Zenon
    <3>3. d.exec
      BY <2>2
    <3> HIDE DEF at, ran, then
    <3> QED
      BY <1>1, <3>1, <3>2, <3>3, RanKept, Zenon
  <2> HIDE DEF then
  <2>3. CASE d.exec => e # then
    BY <2>1, <2>3, RunsOut, Zenon
  <2> QED
    BY <2>2, <2>3
<1>4. CASE d.there /\ ~d.launch[l].second
  <2> DEFINE at == "info"
  <2>1. at \in {"stat", "fetch", "receive", "chmod", "access", "info", "done", "failed"} /\ e = Shell!Go(d, l, at)
    BY <1>4, Zenon DEF Shell!Access
  <2>2. d.calm /\ LaunchAgrees(d, l) /\ (d.exec => d.there /\ Shell!Whole(d)) =>
           /\ at \in {"stat", "fetch", "access", "info"} =>
                IF d.launch[l].opened THEN d.launch[l].flushed = Size ELSE d.launch[l].got = 0
           /\ at = "fetch" => ~d.there
           /\ at \in Downloading =>
                ~d.exec /\ (IF d.launch[l].opened THEN d.chunks = 1 .. d.launch[l].flushed ELSE ~d.there)
           /\ at = "chmod" => d.launch[l].got = Size
           /\ at \in {"access", "info"} => d.there
           /\ ~d.launch[l].hurt /\ Fails(d, l) => at # "failed" /\ (d.there => d.exec \/ at \in Downloading)
    BY <1>4 DEF LaunchAgrees, Downloading, Fails
  <2> HIDE DEF at
  <2> QED
    BY <1>1, <2>1, <2>2, GoKept, Zenon
<1> QED
  BY <1>2, <1>3, <1>4

(* The CLI that was installed is run, or the cached one again. *)
LEMMA InfoKept ==
  ASSUME NEW d, LaunchInv(d), NEW l \in Launches, d.launch[l].at = "info", NEW e \in Shell!getInstallDir(d, l)
  PROVE  LaunchInv(e)
<1>1. Shell!Alive(d, l)
  BY DEF Shell!Alive, Shell!Ended
<1> DEFINE then == IF d.installed THEN [Shell!Go(d, l, "done") EXCEPT !.launch[l].ran = "installed"]
                   ELSE [Shell!Go(d, l, "stat") EXCEPT !.launch[l].second = TRUE]
<1>2. e \in Shell!Run(d, l, then)
  BY Zenon DEF Shell!getInstallDir
<1>3. CASE d.exec /\ e = then /\ d.installed
  <2> DEFINE at == "done"  ran == "installed"
  <2>1. e = [Shell!Go(d, l, at) EXCEPT !.launch[l].ran = ran]
    BY <1>3, Zenon
  <2>2. \/ at = "done" /\ ran \in {"cached", "installed"}
        \/ at = "failed" /\ ran = "partial" /\ ~Shell!Whole(d)
    BY Zenon
  <2>3. d.exec
    BY <1>3
  <2> HIDE DEF at, ran, then
  <2> QED
    BY <1>1, <2>1, <2>2, <2>3, RanKept, Zenon
<1>4. CASE d.exec /\ e = then /\ ~d.installed
  <2>1. e = [Shell!Go(d, l, "stat") EXCEPT !.launch[l].second = TRUE]
    BY <1>4, Zenon
  <2> QED
    BY <1>4, <2>1, SecondKept, Zenon
<1> HIDE DEF then
<1>5. CASE d.exec => e # then
  BY <1>2, <1>5, RunsOut, Zenon
<1> QED
  BY <1>3, <1>4, <1>5

(* A launch may be killed anywhere. *)
LEMMA KilledKept ==
  ASSUME NEW d, LaunchInv(d), NEW l \in Launches, NEW e \in Shell!Killed(d, l)
  PROVE  LaunchInv(e)
<1>1. Shell!Alive(d, l) /\ e = [Shell!Go(d, l, "failed") EXCEPT !.launch[l].hurt = TRUE]
  BY Zenon DEF Shell!Killed
<1> QED
  BY <1>1, HurtKept, Zenon

(* Every step of every launch keeps the invariant, ... *)
LEMMA CliStepKept ==
  ASSUME NEW d, LaunchInv(d), NEW e \in Shell!CliStep(d)
  PROVE  LaunchInv(e)
<1>1. PICK l \in Launches :
        \/ e \in Shell!Opens(d, l) \/ e \in Shell!Flush(d, l) \/ e \in Shell!Killed(d, l)
        \/ e \in CASE d.launch[l].at = "idle" -> Shell!main(d, l)
                   [] d.launch[l].at = "stat" -> Shell!Stat(d, l)
                   [] d.launch[l].at = "fetch" -> Shell!Fetch(d, l)
                   [] d.launch[l].at = "receive" -> Shell!Receive(d, l)
                   [] d.launch[l].at = "chmod" -> Shell!Chmod(d, l)
                   [] d.launch[l].at = "access" -> Shell!Access(d, l)
                   [] d.launch[l].at = "info" -> Shell!getInstallDir(d, l)
                   [] OTHER -> {}
  BY Zenon DEF Shell!CliStep
<1>2. CASE e \in Shell!Opens(d, l) \/ e \in Shell!Flush(d, l) \/ e \in Shell!Killed(d, l)
  BY <1>2, OpensKept, FlushKept, KilledKept, Zenon
<1>3. CASE e \in CASE d.launch[l].at = "idle" -> Shell!main(d, l)
                   [] d.launch[l].at = "stat" -> Shell!Stat(d, l)
                   [] d.launch[l].at = "fetch" -> Shell!Fetch(d, l)
                   [] d.launch[l].at = "receive" -> Shell!Receive(d, l)
                   [] d.launch[l].at = "chmod" -> Shell!Chmod(d, l)
                   [] d.launch[l].at = "access" -> Shell!Access(d, l)
                   [] d.launch[l].at = "info" -> Shell!getInstallDir(d, l)
                   [] OTHER -> {}
  <2> DEFINE at == d.launch[l].at
  <2>1. CASE at = "idle"
    <3>1. e \in Shell!main(d, l)
      BY <1>3, <2>1
    <3> QED
      BY <2>1, <3>1, MainKept, Zenon
  <2>2. CASE at = "stat"
    <3>1. e \in Shell!Stat(d, l)
      BY <1>3, <2>2
    <3> QED
      BY <2>2, <3>1, StatKept, Zenon
  <2>3. CASE at = "fetch"
    <3>1. e \in Shell!Fetch(d, l)
      BY <1>3, <2>3
    <3> QED
      BY <2>3, <3>1, FetchKept, Zenon
  <2>4. CASE at = "receive"
    <3>1. e \in Shell!Receive(d, l)
      BY <1>3, <2>4
    <3> QED
      BY <2>4, <3>1, ReceiveKept, Zenon
  <2>5. CASE at = "chmod"
    <3>1. e \in Shell!Chmod(d, l)
      BY <1>3, <2>5
    <3> QED
      BY <2>5, <3>1, ChmodKept, Zenon
  <2>6. CASE at = "access"
    <3>1. e \in Shell!Access(d, l)
      BY <1>3, <2>6
    <3> QED
      BY <2>6, <3>1, AccessKept, Zenon
  <2>7. CASE at = "info"
    <3>1. e \in Shell!getInstallDir(d, l)
      BY <1>3, <2>7
    <3> QED
      BY <2>7, <3>1, InfoKept, Zenon
  <2>8. at \in {"idle", "stat", "fetch", "receive", "chmod", "access", "info"}
    BY <1>3
  <2> QED
    BY <2>1, <2>2, <2>3, <2>4, <2>5, <2>6, <2>7, <2>8
<1> QED
  BY <1>1, <1>2, <1>3

(* ... and before the first launch it holds. *)
LEMMA CliInit ==
  ASSUME NEW d \in Shell!InitCli
  PROVE  LaunchInv(d)
<1>1. PICK i \in BOOLEAN : d = [there |-> FALSE, chunks |-> {}, exec |-> FALSE, installed |-> i, calm |-> TRUE,
                                launch |-> [l \in Launches |-> Shell!Idle]]
  BY Zenon DEF Shell!InitCli
<1>2. Shell!Idle \in LaunchStates
  BY SizeIs DEF LaunchStates, Shell!Idle, Shell!Ended
<1>3. /\ Shell!Idle.at = "idle" /\ ~Shell!Idle.opened /\ Shell!Idle.got = 0 /\ Shell!Idle.flushed = 0
      /\ Shell!Idle.ran = "nothing"
  BY DEF Shell!Idle
<1>4. /\ d.launch \in [Launches -> LaunchStates] /\ ~d.there /\ ~d.exec
      /\ \A l \in Launches : d.launch[l] = Shell!Idle
  BY <1>1, <1>2
<1>5. d \in CliStates
  BY <1>1, <1>4 DEF CliStates
<1>6. ASSUME NEW l \in Launches
      PROVE  LaunchAgrees(d, l) /\ ~Shell!Alive(d, l) /\ d.launch[l].at # "failed"
  BY <1>3, <1>4 DEF LaunchAgrees, Shell!Alive, Downloading
<1> QED
  BY <1>4, <1>5, <1>6, Zenon DEF LaunchInv

----------------------------------------------------------------------------
(* The inductive invariant of the CLI's parts.                             *)
CliInv ==
  /\ part = "path" => s \in Paths
  /\ part = "index" => s \in Indexes
  /\ part = "cli" => LaunchInv(s)

LEMMA CliInitInv == InitStructures => CliInv
<1>1. InitStructures /\ part = "path" => s \in Paths
  BY DEF InitStructures
<1>2. InitStructures /\ part = "index" => s \in Indexes
  BY DEF InitStructures
<1>3. InitStructures /\ part = "cli" => s \in Shell!InitCli
  BY DEF InitStructures
<1> QED
  BY <1>1, <1>2, <1>3, CliInit DEF CliInv

LEMMA CliStepInv == CliInv /\ [NextStructures]_<<part, s>> => CliInv'
<1> SUFFICES ASSUME CliInv, [NextStructures]_<<part, s>> PROVE CliInv'
  OBVIOUS
<1>1. CASE Launch
  <2>1. LaunchInv(s) /\ s' \in Shell!CliStep(s) /\ part' = "cli"
    BY <1>1 DEF Launch, CliInv
  <2>2. LaunchInv(s')
    BY <2>1, CliStepKept
  <2> QED
    BY <2>1, <2>2 DEF CliInv
<1>2. CASE UNCHANGED <<part, s>>
  BY <1>2 DEF CliInv
<1>3. CASE LruStep \/ Feed \/ Take \/ Consume \/ OptionsCall \/ Answer
  <2>1. part' \in {"lru", "buffer", "options", "rag"}
    BY <1>3 DEF LruStep, Feed, Take, Consume, OptionsCall, Answer
  <2> QED
    BY <2>1 DEF CliInv
<1> QED
  BY <1>1, <1>2, <1>3 DEF NextStructures

(* The CLI in PATH is found and no wrapper launches another, the newest    *)
(* compatible package is chosen, and launches one after the other run no   *)
(* CLI that was cut off, and fail only after one that was (cli.mts).       *)
THEOREM CliAlwaysFits == StructuresSpec => []CliFits
<1>1. ASSUME NEW d, LaunchInv(d) PROVE Shell!LaunchesFit(d)
  BY <1>1, Zenon DEF LaunchInv, LaunchAgrees, Shell!LaunchesFit
<1>2. CliInv => CliFits
  BY <1>1, PathIsFit, PackageIsFit, Zenon DEF CliInv, CliFits
<1> QED
  BY <1>2, CliInitInv, CliStepInv, PTL DEF StructuresSpec
===============================================================================
