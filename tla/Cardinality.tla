------------------------------ MODULE Cardinality ------------------------------
(***************************************************************************)
(* How many elements an expression of the query builder stands for: the    *)
(* arithmetic of cardutil (cardinality.ts), once as the functions that run *)
(* and once as the TypeScript types of the same names, the cardinalities   *)
(* operators and functions get from either, and the numbers of elements    *)
(* the server may return.                                                  *)
(***************************************************************************)
EXTENDS Naturals, Sequences

Cards == {"Empty", "AtMostOne", "One", "Many", "AtLeastOne"}
LOCAL Plural == {"Many", "AtLeastOne"}

(* Numbers of elements, 2 standing for several.                            *)
Sizes(card) ==
  CASE card = "Empty" -> {0} [] card = "AtMostOne" -> {0, 1} [] card = "One" -> {1}
    [] card = "Many" -> 0 .. 2 [] card = "AtLeastOne" -> 1 .. 2
LOCAL Cap(n) == IF n > 2 THEN 2 ELSE n
Sum(A, B) == {Cap(a + b) : a \in A, b \in B}
Product(A, B) == {Cap(a * b) : a \in A, b \in B}
Each(A, B) == UNION {CASE a = 0 -> {0} [] a = 1 -> B [] OTHER -> Sum(B, B) : a \in A}
UpTo(A) == UNION {0 .. a : a \in A}

LOCAL Fold(op(_, _), cards) ==
  LET f[n \in 1 .. Len(cards)] == IF n = 1 THEN cards[1] ELSE op(f[n - 1], cards[n])
  IN f[Len(cards)]

----------------------------------------------------------------------------
(* The functions.                                                          *)
multiplyCardinalities(c1, c2) ==
  CASE c1 = "Empty" -> "Empty"
    [] c1 = "One" -> c2
    [] c1 = "AtMostOne" -> IF c2 = "One" THEN "AtMostOne" ELSE IF c2 = "AtLeastOne" THEN "Many" ELSE c2
    [] c1 = "Many" -> IF c2 = "Empty" THEN "Empty" ELSE "Many"
    [] c1 = "AtLeastOne" -> IF c2 = "AtMostOne" THEN "Many" ELSE IF c2 = "One" THEN "AtLeastOne" ELSE c2

multiplyCardinalitiesVariadic(cards) ==
  IF Len(cards) = 1 THEN cards[1] ELSE Fold(multiplyCardinalities, <<"One">> \o cards)

(* Mutant: two sets of the same cardinality keep it. *)
MergeEqual(a, b) ==
  IF a = b \/ b = "Empty" THEN a ELSE IF a = "Empty" THEN b
  ELSE IF {a, b} \cap {"AtLeastOne", "One"} # {} THEN "AtLeastOne" ELSE "Many"

mergeCardinalities(a, b) ==
  CASE a = "Empty" -> b
    [] b = "Empty" -> a
    [] OTHER -> IF {a, b} \cap {"AtLeastOne", "One"} # {} THEN "AtLeastOne" ELSE "Many"

mergeCardinalitiesVariadic(cards) == Fold(mergeCardinalities, cards)

orCardinalities(c1, c2) ==
  CASE c1 = c2 \/ c1 = "Many" -> c1
    [] c1 = "AtLeastOne" /\ c2 # c1 -> IF c2 = "One" THEN "AtLeastOne" ELSE "Many"
    [] c1 = "AtMostOne" /\ c2 # c1 -> IF c2 \in Plural THEN "Many" ELSE c1
    [] c1 = "Empty" /\ c2 # c1 -> IF c2 \in {"AtMostOne", "One"} THEN "AtMostOne" ELSE "Many"
    [] c1 = "One" /\ c2 # c1 -> IF c2 = "Empty" THEN "AtMostOne" ELSE c2

overrideLowerBound(card, override) ==
  IF override = "One" THEN IF card \in Plural THEN "AtLeastOne" ELSE "One"
  ELSE CASE card \in Plural -> "Many" [] card = "Empty" -> "Empty" [] OTHER -> "AtMostOne"

overrideUpperBound(card, override) ==
  LET required == card \in {"One", "AtLeastOne"}
  IN IF override = "One" THEN IF required THEN "One" ELSE "AtMostOne"
     ELSE IF required THEN "AtLeastOne" ELSE "Many"

coalesceCardinalities(c1, c2) ==
  CASE c1 \in {"One", "AtLeastOne"} -> c1
    [] c1 \notin {"One", "AtLeastOne"} /\ c2 = "One" -> overrideLowerBound(c1, "One")
    [] c1 \notin {"One", "AtLeastOne"} /\ c2 = "AtLeastOne" -> "AtLeastOne"
    [] OTHER -> orCardinalities(c1, c2)

----------------------------------------------------------------------------
(* The types.  A conditional type tries its conditions in the order written. *)
MultiplyType(C1, C2) ==
  IF C1 = "Empty" THEN "Empty"
  ELSE IF C1 = "One" THEN C2
  ELSE IF C1 = "AtMostOne" THEN CASE C2 = "One" -> "AtMostOne" [] C2 = "AtLeastOne" -> "Many" [] OTHER -> C2
  ELSE IF C1 = "Many" THEN IF C2 = "Empty" THEN "Empty" ELSE "Many"
  ELSE CASE C2 = "AtMostOne" -> "Many" [] C2 = "One" -> "AtLeastOne" [] OTHER -> C2

MultiplyVariadicType(Types) == Fold(MultiplyType, Types)

MergeType(A, B) ==
  IF A = "Empty" THEN B ELSE IF B = "Empty" THEN A
  ELSE IF "AtLeastOne" \in {A, B} THEN "AtLeastOne"
  ELSE IF "One" \in {A, B} THEN "AtLeastOne" ELSE "Many"

MergeVariadicType(Types) == Fold(MergeType, Types)

OrType(C1, C2) ==
  IF C1 = C2 \/ C1 = "Many" THEN C1
  ELSE IF C1 = "AtMostOne" THEN IF C2 \in Plural THEN "Many" ELSE C1
  ELSE IF C1 = "AtLeastOne" THEN IF C2 = "One" THEN "AtLeastOne" ELSE "Many"
  ELSE IF C1 = "Empty" THEN IF C2 \in {"AtMostOne", "One"} THEN "AtMostOne" ELSE "Many"
  ELSE IF C2 = "Empty" THEN "AtMostOne" ELSE C2

LowerType(C, O) ==
  IF O = "One" THEN IF C \in {"Many", "AtLeastOne"} THEN "AtLeastOne" ELSE "One"
  ELSE IF C = "Empty" THEN "Empty" ELSE IF C \in Plural THEN "Many" ELSE "AtMostOne"

UpperType(C, O) ==
  IF O = "One"
  THEN CASE C = "Many" -> "AtMostOne" [] C = "AtLeastOne" -> "One" [] C = "Empty" -> "AtMostOne" [] OTHER -> C
  ELSE CASE C = "One" -> "AtLeastOne" [] C = "AtMostOne" -> "Many" [] C = "Empty" -> "Many" [] OTHER -> C

CoalesceType(C1, C2) ==
  IF C1 \in {"One", "AtLeastOne"} THEN C1
  ELSE IF C2 = "One" THEN LowerType(C1, "One")
  ELSE IF C2 = "AtLeastOne" THEN "AtLeastOne" ELSE OrType(C1, C2)

(* A parameter left out is typed with any cardinality and counts as one.   *)
paramCardinality(P) == IF P = "any" THEN "One" ELSE P
optionalParamCardinality(P) == LowerType(paramCardinality(P), "One")
paramArrayCardinality(T) == MultiplyVariadicType(T)

(* computeTsTypeCard: what the type of a result looks like, and whether    *)
(* `run' asks the server for a single one (query.ts).                      *)
ResultType(C) ==
  CASE C = "Empty" -> "null" [] C = "One" -> "T" [] C = "AtMostOne" -> "T | null"
    [] C = "AtLeastOne" -> "[T, ...T[]]" [] C = "Many" -> "T[]"
Declares(C, isArray, n) ==
  CASE ResultType(C) = "null" -> ~isArray /\ n = 0 [] ResultType(C) = "T" -> ~isArray /\ n = 1
    [] ResultType(C) = "T | null" -> ~isArray [] ResultType(C) = "[T, ...T[]]" -> isArray /\ n > 0
    [] ResultType(C) = "T[]" -> isArray
querySingle(card) == card \in {"One", "AtMostOne", "Empty"}

----------------------------------------------------------------------------
(* Operators and functions.  A definition of the server: the modifiers of  *)
(* its parameters, of its result, and whether it is empty when an argument *)
(* is; the arguments give a sequence of cardinalities for each parameter,  *)
(* longer than one for a variadic parameter.                               *)
ParamKind(mod, preserves) ==
  CASE mod = "SetOf" -> IF preserves THEN "OVERRIDE_UPPER" ELSE "ONE"
    [] mod = "Optional" -> "OPTIONAL"
    [] mod = "Variadic" -> "VARIADIC"
    [] OTHER -> "PARAM"

getReturnCardinality(def) ==
  LET kind ==
        CASE def.name = "union" -> "MERGE"
          [] def.name = "??" -> "COALESCE"
          [] def.name = "distinct" -> "SAME"
          [] def.name = "if_else" -> "IF_ELSE"
          [] def.name = "assert_exists" -> "EXISTS"
          [] def.ret = "SetOf" /\ def.name \notin {"union", "??", "distinct", "if_else", "assert_exists"} -> "MANY"
          [] OTHER -> IF Len(def.mods) > 1 THEN "MULTIPLY" ELSE "IDENTITY"
  IN [kind |-> kind, params |-> [n \in DOMAIN def.mods |-> ParamKind(def.mods[n], def.preserves)],
      optional |-> def.ret = "Optional" /\ ~def.preserves]

renderParamCardinality(kind, types) ==
  CASE kind = "ONE" -> "One"
    [] kind = "OVERRIDE_UPPER" -> UpperType(paramCardinality(types[1]), "One")
    [] kind = "OPTIONAL" -> optionalParamCardinality(types[1])
    [] kind = "VARIADIC" -> paramArrayCardinality(types)
    [] kind = "PARAM" -> paramCardinality(types[1])

renderCardinality(card, types) ==
  LET Param(n) == paramCardinality(types[n][1])
      all == MultiplyVariadicType([n \in DOMAIN card.params |-> renderParamCardinality(card.params[n], types[n])])
  IN CASE card.kind = "MANY" -> "Many"
       [] card.kind = "MERGE" -> MergeType(Param(1), Param(2))
       [] card.kind = "COALESCE" -> CoalesceType(Param(1), Param(2))
       [] card.kind = "SAME" -> Param(1)
       [] card.kind = "IF_ELSE" -> MultiplyType(OrType(Param(1), Param(3)), Param(2))
       [] card.kind = "EXISTS" -> LowerType(Param(1), "One")
       [] OTHER -> IF card.optional THEN LowerType(all, "Zero") ELSE all

(* $resolveOverload, _tryOverload: the cardinality at run time.            *)
_tryOverload(def, cards) ==
  LET Of(n) ==
        LET card == multiplyCardinalitiesVariadic(cards[n])
        IN CASE def.mods[n] = "SetOf" -> IF def.preserves THEN overrideUpperBound(cards[n][1], "One") ELSE "One"
             [] def.mods[n] = "Optional" -> overrideLowerBound(card, "One")
             [] OTHER -> card
      all == multiplyCardinalitiesVariadic(<<"One">> \o [n \in DOMAIN def.mods |-> Of(n)])
  IN CASE def.name = "if_else" -> multiplyCardinalities(orCardinalities(cards[1][1], cards[3][1]), cards[2][1])
       [] def.name = "assert_exists" -> overrideLowerBound(cards[1][1], "One")
       [] def.name = "union" -> mergeCardinalities(cards[1][1], cards[2][1])
       [] def.name = "??" -> coalesceCardinalities(cards[1][1], cards[2][1])
       [] def.name = "distinct" -> cards[1][1]
       [] OTHER ->
            LET card == IF def.ret = "SetOf" THEN "Many" ELSE all
            IN IF def.ret = "Optional" /\ ~def.preserves THEN overrideLowerBound(card, "Zero") ELSE card

(* What the server returns for arguments of these numbers of elements.     *)
ReturnedSizes(def, sizes) ==
  LET Of(n) ==
        CASE def.mods[n] = "SetOf" -> IF def.preserves THEN {IF k = 0 THEN 0 ELSE 1 : k \in sizes[n]} ELSE {1}
          [] def.mods[n] = "Optional" -> {IF k = 0 THEN 1 ELSE k : k \in sizes[n]}
          [] OTHER -> sizes[n]
      all == Fold(Product, [n \in DOMAIN def.mods |-> Of(n)])
  IN CASE def.name = "union" -> Sum(sizes[1], sizes[2])
       [] def.name \in {"except", "intersect"} -> UpTo(sizes[1])
       [] def.name = "distinct" -> {d \in UpTo(sizes[1]) : \E k \in sizes[1] : (d = 0) <=> (k = 0)}
       [] def.name = "??" -> (sizes[1] \ {0}) \cup (IF 0 \in sizes[1] THEN sizes[2] ELSE {})
       [] def.name = "if_else" -> Each(sizes[2], sizes[1] \cup sizes[3])
       [] def.name = "assert_exists" -> sizes[1] \ {0}
       [] def.ret = "SetOf" /\ def.name \in {"array_unpack", "enumerate"} -> 0 .. 2
       [] OTHER -> IF def.ret = "Optional" /\ ~def.preserves THEN UpTo(all) ELSE all
=============================================================================
