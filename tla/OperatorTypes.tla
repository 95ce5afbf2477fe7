----------------------------- MODULE OperatorTypes -----------------------------
(***************************************************************************)
(* e.op(): the operators of the server are sorted into classes, each class *)
(* becomes one signature of the TypeScript function `op', and TypeScript   *)
(* takes the first signature that accepts the operands                     *)
(* (generateOperatorTypes.ts, funcoputil.ts).  At run time the overload is *)
(* resolved from the definitions themselves (Cardinality!_tryOverload).    *)
(***************************************************************************)
EXTENDS Cardinality, SequencesExt

(* Elements: scalars that no type casts to implicitly, numbers, arrays of  *)
(* either, tuples, objects.                                                *)
Scalars == {"bool", "str", "num", "json"}
Arrays == {"strs", "nums"}
Tuples == {"tuple", "named"}
Objects == {"object", "free"}
Elements == Scalars \cup Arrays \cup Tuples \cup Objects

(* Operators of the server, over one type or over any; what they return.   *)
LOCAL Op(name, kind, over, mods, ret, result) ==
  [name |-> name, kind |-> kind, over |-> over, mods |-> mods, ret |-> ret, result |-> result, preserves |-> FALSE]
Operators ==
  {Op("not", "Prefix", "bool", <<"Single">>, "Single", "bool"), Op("-", "Prefix", "num", <<"Single">>, "Single", "same"),
   Op("exists", "Prefix", "anytype", <<"SetOf">>, "Single", "bool"),
   Op("distinct", "Prefix", "anytype", <<"SetOf">>, "SetOf", "same"),
   Op("and", "Infix", "bool", <<"Single", "Single">>, "Single", "bool"),
   Op("+", "Infix", "num", <<"Single", "Single">>, "Single", "same"),
   Op("++", "Infix", "str", <<"Single", "Single">>, "Single", "same"),
   Op("++", "Infix", "array<anytype>", <<"Single", "Single">>, "Single", "same")}
    \cup {Op("=", "Infix", over, <<"Single", "Single">>, "Single", "bool") : over \in Scalars \cup {"anytype"}}
    \cup {Op("?=", "Infix", over, <<"Optional", "Optional">>, "Single", "bool") : over \in Scalars \cup {"anytype"}}
    \cup {Op("in", "Infix", "anytype", <<"Single", "SetOf">>, "Single", "bool"),
          Op("union", "Infix", "anytype", <<"SetOf", "SetOf">>, "SetOf", "same"),
          Op("except", "Infix", "anytype", <<"SetOf", "SetOf">>, "SetOf", "same"),
          Op("intersect", "Infix", "anytype", <<"SetOf", "SetOf">>, "SetOf", "same"),
          Op("??", "Infix", "anytype", <<"Optional", "SetOf">>, "SetOf", "same"),
          Op("if_else", "Ternary", "anytype", <<"SetOf", "Single", "SetOf">>, "SetOf", "same")}

(* expandFuncopAnytypeOverloads: an operator over any type becomes one     *)
(* overload for the numbers, one for arrays of them unless it is about     *)
(* arrays, one for objects, one for tuples and a last one for any type;    *)
(* just the last when a single operand has the type.                       *)
AnytypeOperands(def) == IF def.kind = "Prefix" THEN 1 ELSE 2
Overloads(def) ==
  CASE def.over \notin {"anytype", "array<anytype>"} -> {"none"}
    [] def.over = "anytype" -> IF AnytypeOperands(def) = 1 THEN {"any"} ELSE {"root", "roots", "object", "tuple", "any"}
    [] def.over = "array<anytype>" -> {"root", "object", "tuple", "any"}
Accepts(def, overload, el) ==
  CASE overload = "none" -> el = def.over
    [] def.over = "array<anytype>" -> (overload = "root" /\ el = "nums") \/ (overload = "any" /\ el \in Arrays)
    [] overload = "root" -> el = "num"
    [] overload = "roots" -> el = "nums"
    [] overload = "object" -> el \in Objects
    [] overload = "tuple" -> el \in Tuples
    [] OTHER -> TRUE

----------------------------------------------------------------------------
(* operatorFromOpDef: the class of an overload, by what it returns.        *)
CoalesceClass(overload) ==
  <<CASE overload = "any" -> "BASE_TYPE" [] overload = "object" -> "MERGE" [] OTHER -> "CONTAINER", "COALESCE">>

PrefixClass(def) ==
  LET card == getReturnCardinality(def)
  IN CASE def.result # "bool" -> <<"HOMOGENEOUS", "PARAM">>
       [] def.result = "bool" /\ card.kind = "IDENTITY" /\ card.params[1] = "ONE" -> <<"BOOLEAN", "ONE">>
       [] OTHER -> <<"BOOLEAN", "PARAM">>

BooleanClass(def) ==
  LET card == getReturnCardinality(def)
  IN <<"BOOLEAN",
       CASE card.kind = "MULTIPLY" /\ \A n \in DOMAIN card.params : card.params[n] = "OPTIONAL" -> "MULTIPLY_OPTIONAL"
         [] card.kind = "MULTIPLY" /\ card.params[2] = "ONE" -> "MULTIPLY_ONE"
         [] OTHER -> "MULTIPLY">>

HomogeneousClass(def, overload) ==
  LET kind == getReturnCardinality(def).kind
  IN CASE def.over \in Scalars -> <<"SCALAR", "MULTIPLY">>
       [] def.over = "array<anytype>" -> <<IF overload = "object" THEN "OBJECT_ARRAY_TYPE" ELSE "ARRAY_TYPE", "MULTIPLY">>
       [] def.over = "anytype" /\ overload = "any" -> <<"BASE_TYPE", IF kind = "MERGE" THEN "MERGE" ELSE "MULTIPLY_ONE">>
       [] def.over = "anytype" /\ overload = "object" -> <<"MERGE", IF kind = "MANY" THEN "MANY" ELSE "MERGE">>
       [] OTHER -> <<"CONTAINER", "MULTIPLY">>

TernaryClass(overload) ==
  <<CASE overload = "any" -> "BASE_TYPE" [] overload = "object" -> "MERGE" [] OTHER -> "CONTAINER", "IF_ELSE">>

operatorFromOpDef(def, overload) ==
  CASE def.name = "??" -> CoalesceClass(overload)
    [] def.kind = "Prefix" -> PrefixClass(def)
    [] def.kind = "Infix" /\ def.name # "??" -> IF def.result = "bool" THEN BooleanClass(def) ELSE HomogeneousClass(def, overload)
    [] def.kind = "Ternary" -> TernaryClass(overload)

(* mapFromOperator: the classes an operator symbol has operands in.        *)
Classes(symbol, el) ==
  UNION {{operatorFromOpDef(def, o) : o \in {v \in Overloads(def) : Accepts(def, v, el)}}
           : def \in {d \in Operators : d.name = symbol}}

----------------------------------------------------------------------------
(* The signatures of `op' in the order they are written, and the           *)
(* cardinality each declares for operands of these cardinalities.          *)
BooleanMultiply(c) == MultiplyType(paramCardinality(c[1]), paramCardinality(c[2]))
BooleanMultiplyOptional(c) == MultiplyType(optionalParamCardinality(c[1]), optionalParamCardinality(c[2]))
BooleanMultiplyOne(c) == MultiplyType(paramCardinality(c[1]), "One")
PrefixBoolean(c) == paramCardinality(c[1])
PrefixBooleanOne == "One"
PrefixHomogeneous(c) == paramCardinality(c[1])
ScalarMultiply(c) == MultiplyType(paramCardinality(c[1]), paramCardinality(c[2]))
CoalesceBaseType(c) == CoalesceType(paramCardinality(c[1]), paramCardinality(c[2]))
CoalesceContainer(c) == CoalesceType(paramCardinality(c[1]), paramCardinality(c[2]))
CoalesceObject(c) == CoalesceType(paramCardinality(c[1]), paramCardinality(c[2]))
ContainerMultiply(c) == MultiplyType(paramCardinality(c[1]), paramCardinality(c[2]))
ArrayTypeMultiply(c) == MultiplyType(paramCardinality(c[1]), paramCardinality(c[2]))
ObjectArrayMultiply(c) == MultiplyType(paramCardinality(c[1]), paramCardinality(c[2]))
BaseTypeMultiplyOne(c) == MultiplyType(paramCardinality(c[1]), "One")
BaseTypeMerge(c) == MergeType(paramCardinality(c[1]), paramCardinality(c[2]))
ObjectMerge(c) == MergeType(paramCardinality(c[1]), paramCardinality(c[2]))
ObjectMergeMany == "Many"
TernaryContainer(c) == MultiplyType(OrType(paramCardinality(c[1]), paramCardinality(c[3])), paramCardinality(c[2]))
TernaryBaseType(c) == MultiplyType(OrType(paramCardinality(c[1]), paramCardinality(c[3])), paramCardinality(c[2]))
TernaryMerge(c) == MultiplyType(OrType(paramCardinality(c[1]), paramCardinality(c[3])), paramCardinality(c[2]))

Signatures(c) ==
  <<[class |-> <<"BOOLEAN", "MULTIPLY">>, card |-> BooleanMultiply(c)],
    [class |-> <<"BOOLEAN", "MULTIPLY_OPTIONAL">>, card |-> BooleanMultiplyOptional(c)],
    [class |-> <<"BOOLEAN", "MULTIPLY_ONE">>, card |-> BooleanMultiplyOne(c)],
    [class |-> <<"SCALAR", "MULTIPLY">>, card |-> ScalarMultiply(c)],
    [class |-> <<"BASE_TYPE", "COALESCE">>, card |-> CoalesceBaseType(c)],
    [class |-> <<"CONTAINER", "COALESCE">>, card |-> CoalesceContainer(c)],
    [class |-> <<"MERGE", "COALESCE">>, card |-> CoalesceObject(c)],
    [class |-> <<"CONTAINER", "MULTIPLY">>, card |-> ContainerMultiply(c)],
    [class |-> <<"ARRAY_TYPE", "MULTIPLY">>, card |-> ArrayTypeMultiply(c)],
    [class |-> <<"OBJECT_ARRAY_TYPE", "MULTIPLY">>, card |-> ObjectArrayMultiply(c)],
    [class |-> <<"BASE_TYPE", "MULTIPLY_ONE">>, card |-> BaseTypeMultiplyOne(c)],
    [class |-> <<"BASE_TYPE", "MERGE">>, card |-> BaseTypeMerge(c)],
    [class |-> <<"MERGE", "MERGE">>, card |-> ObjectMerge(c)],
    [class |-> <<"MERGE", "MANY">>, card |-> ObjectMergeMany]>>
PrefixSignatures(c) ==
  <<[class |-> <<"BOOLEAN", "PARAM">>, card |-> PrefixBoolean(c)],
    [class |-> <<"BOOLEAN", "ONE">>, card |-> PrefixBooleanOne],
    [class |-> <<"HOMOGENEOUS", "PARAM">>, card |-> PrefixHomogeneous(c)]>>
TernarySignatures(c) ==
  <<[class |-> <<"CONTAINER", "IF_ELSE">>, card |-> TernaryContainer(c)],
    [class |-> <<"BASE_TYPE", "IF_ELSE">>, card |-> TernaryBaseType(c)],
    [class |-> <<"MERGE", "IF_ELSE">>, card |-> TernaryMerge(c)]>>

(* The cardinality TypeScript infers for an operator over an element.      *)
ClassesOf == [symbol \in {d.name : d \in Operators}, el \in Elements |-> Classes(symbol, el)]
DeclaredOp(symbol, el, c) ==
  LET signatures == CASE Len(c) = 1 -> PrefixSignatures(c) [] Len(c) = 2 -> Signatures(c) [] OTHER -> TernarySignatures(c)
      n == SelectInSeq(signatures, LAMBDA signature : signature.class \in ClassesOf[symbol, el])
  IN signatures[n].card

(* What the signatures get wrong: `except' and `intersect' of anything and *)
(* `union' of numbers, of arrays of them and of tuples are declared with   *)
(* the cardinality of an operator that works element by element.           *)
DeclaredElementwise(symbol, el) ==
  \/ symbol \in {"except", "intersect"}
  \/ symbol = "union" /\ el \in {"num", "nums"} \cup Tuples
=============================================================================
