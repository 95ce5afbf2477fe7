--------------------------------- MODULE LRU ---------------------------------
(***************************************************************************)
(* The cache of packages/gel/src/primitives/lru.ts: a map from keys to the *)
(* nodes of a doubly linked list that has the most recently used on top.   *)
(* An object is a record; a node is known by its key, for the map has one  *)
(* node per key and a node that leaves the list leaves the map.            *)
(***************************************************************************)
EXTENDS Naturals, Sequences, FiniteSets, Functions

NoNode == 0   \* null; keys are positive
EmptyLRU == [nodes |-> <<>>, head |-> NoNode, tail |-> NoNode, len |-> 0]

(* Assignments to a field of the node k, if there is one. *)
SetNext(nodes, k, n) == [x \in DOMAIN nodes |-> IF x = k THEN [nodes[x] EXCEPT !.next = n] ELSE nodes[x]]
SetPrev(nodes, k, p) == [x \in DOMAIN nodes |-> IF x = k THEN [nodes[x] EXCEPT !.prev = p] ELSE nodes[x]]

PushNode(c, k, v) ==
  [nodes |-> [x \in DOMAIN c.nodes \cup {k} |->
                IF x = k THEN [value |-> v, prev |-> NoNode, next |-> c.head]
                ELSE SetPrev(c.nodes, c.head, k)[x]],
   head |-> k, tail |-> IF c.head = NoNode THEN k ELSE c.tail, len |-> c.len + 1]

(* Mutant: the tail is not looked at when the bottom node moves up. *)
MoveKeepsTail(c, k) ==
  LET prev == c.nodes[k].prev  next == c.nodes[k].next
      unlinked == SetPrev(SetNext(c.nodes, prev, next), next, prev)
  IN IF prev = NoNode THEN c
     ELSE [c EXCEPT !.nodes = SetNext(SetPrev(SetPrev(unlinked, c.head, k), k, NoNode), k, c.head),
                    !.head = k]

MoveToTop(c, k) ==
  LET prev == c.nodes[k].prev  next == c.nodes[k].next
      unlinked == SetPrev(SetNext(c.nodes, prev, next), next, prev)
  IN IF prev = NoNode THEN c
     ELSE [c EXCEPT !.nodes = SetNext(SetPrev(SetPrev(unlinked, c.head, k), k, NoNode), k, c.head),
                    !.tail = IF @ = k THEN prev ELSE @,
                    !.head = k]

(* deleteBottom(), and the deletion of its key from the map *)
DeleteBottom(c) ==
  IF c.tail = c.head THEN EmptyLRU
  ELSE [nodes |-> Restrict(SetNext(c.nodes, c.nodes[c.tail].prev, NoNode), DOMAIN c.nodes \ {c.tail}),
        head |-> c.head, tail |-> c.nodes[c.tail].prev, len |-> c.len - 1]

LruHas(c, k) == k \in DOMAIN c.nodes
LruGet(c, k) == IF LruHas(c, k) THEN MoveToTop(c, k) ELSE c

(* set(): at most one node too many, so that the loop runs at most once *)
LruSet(c, k, v, capacity) ==
  IF LruHas(c, k) THEN MoveToTop([c EXCEPT !.nodes[k].value = v], k)
  ELSE LET pushed == PushNode(c, k, v) IN
       IF pushed.len > capacity THEN DeleteBottom(pushed) ELSE pushed

(* keys() and entries() follow the links; "prev" reads the list upwards.   *)
Path(c, from, link) ==
  LET node[n \in 1 .. c.len + 1] == IF n = 1 THEN from
                                ELSE IF node[n - 1] = NoNode THEN NoNode
                                ELSE c.nodes[node[n - 1]][link]
  IN node

Entries(c) == LET keys == Path(c, c.head, "next") IN
  [n \in 1 .. c.len |-> <<keys[n], c.nodes[keys[n]].value>>]

(* What the cache promises: the capacity most recently used entries in     *)
(* order, as a sequence; the one that is used moves to the front.          *)
Holds(ref, k) == \E n \in DOMAIN ref : ref[n][1] = k
Place(ref, k) == CHOOSE n \in DOMAIN ref : ref[n][1] = k
ToFront(ref, n, e) ==
  [m \in DOMAIN ref |-> IF m = 1 THEN e ELSE IF m <= n THEN ref[m - 1] ELSE ref[m]]
RefGet(ref, k) == IF Holds(ref, k) THEN ToFront(ref, Place(ref, k), ref[Place(ref, k)]) ELSE ref
RefSet(ref, k, v, capacity) ==
  IF Holds(ref, k) THEN ToFront(ref, Place(ref, k), <<k, v>>)
  ELSE LET n == IF Len(ref) < capacity THEN Len(ref) + 1 ELSE capacity IN
       [m \in 1 .. n |-> IF m = 1 THEN <<k, v>> ELSE ref[m - 1]]

(* Map, list in both directions and counter agree with it. *)
Agrees(c, ref) ==
  LET down == Path(c, c.head, "next")  up == Path(c, c.tail, "prev")  n == Len(ref) IN
  /\ c.len = n /\ Cardinality(DOMAIN c.nodes) = n
  /\ down[n + 1] = NoNode /\ up[n + 1] = NoNode
  /\ \A m \in 1 .. n : down[m] = ref[m][1] /\ up[m] = ref[n + 1 - m][1]
  /\ Entries(c) = ref
=============================================================================
