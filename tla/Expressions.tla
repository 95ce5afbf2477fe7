------------------------------ MODULE Expressions ------------------------------
(***************************************************************************)
(* The expressions of the query builder by what decides how run() asks for *)
(* them and how TypeScript types the answer: the cardinality an expression *)
(* object carries (rt), the one its static type carries (ts), and the      *)
(* numbers of elements the server may return for it (sizes, 2 standing for *)
(* several).  Each operator below is one function of the builder, with its *)
(* run-time body and its declared type.                                    *)
(*                                                                         *)
(* lo: the cardinalities, of rt and ts, that no longer promise a first     *)
(* element although they say so; off: whether one of them is known wrong.  *)
(* The expression comes with at most one computed pointer (ptr).           *)
(***************************************************************************)
EXTENDS OperatorTypes

Made(el, rt, ts, sizes, args) ==
  [el |-> el, rt |-> rt, ts |-> ts, sizes |-> sizes, ptr |-> <<>>,
   lo |-> UNION {a.lo : a \in args}, off |-> \E a \in args : a.off]
Plain(el, c) == Made(el, c, c, Sizes(c), {})
Alike(el) == {Plain(el, c) : c \in Cards}
(* Called with the expression in either place.                             *)
InEitherPlace(e, others) == UNION {{<<e, o>>, <<o, e>>} : o \in others}
Strings(args, f) == [n \in DOMAIN args |-> args[n][f]]
Product2(args) == Product(args[1].sizes, args[2].sizes)
Both == {"rt", "ts"}

----------------------------------------------------------------------------
(* Where expressions start: literals, object types, parameters, a null     *)
(* cast to a type, an insert.                                              *)
literal == {Plain(el, "One") : el \in Scalars}
params == {Plain(el, c) : el \in Scalars, c \in {"One", "AtMostOne"}}
castNull == {Plain(el, "Empty") : el \in Scalars \cup {"object"}}
insert == Plain("object", "One")
Leaves == literal \cup params \cup castNull \cup {insert, Plain("object", "Many")}

----------------------------------------------------------------------------
(* Paths and methods.                                                      *)
LOCAL Follow(e, el, rt, ts, sizes, p) ==
  Made(el, multiplyCardinalities(e.rt, rt), MultiplyType(e.ts, ts), Product(e.sizes, sizes), {e} \cup p)
PathLeaf(e) == {Follow(e, "str", c, c, Sizes(c), {}) : c \in Cards \ {"Empty"}}
(* The objects of a link are distinct, however many lead to them.          *)
PathNode(e) ==
  {LET link == Follow(e, "object", c, c, Sizes(c), {})
   IN [link EXCEPT !.sizes = IF 2 \in @ THEN @ \cup {1} ELSE @] : c \in Cards \ {"Empty"}}
pathify(e) ==
  IF e.el \notin Objects THEN {}
  ELSE (IF e.el = "object" THEN PathLeaf(e) \cup PathNode(e) ELSE {})
         \cup {Follow(e, p.el, p.rt, p.ts, p.sizes, {p}) : p \in {e.ptr[n] : n \in DOMAIN e.ptr}}

isFunc(e) ==
  IF e.el = "object"
  THEN {[e EXCEPT !.ts = LowerType(@, "Zero"), !.sizes = UpTo(@), !.lo = @ \cup {"rt"}, !.ptr = <<>>]}
  ELSE {}
assert_single(e) ==
  [e EXCEPT !.rt = overrideUpperBound(@, "One"), !.ts = "AtMostOne", !.sizes = @ \cap {0, 1}]

(* The variable of a closure is one element; a single free object is not   *)
(* given a variable.                                                       *)
getScopedExpr(e) ==
  IF e.rt = "One" /\ e.el = "free" THEN e
  ELSE [e EXCEPT !.rt = "One", !.ts = "One", !.sizes = {1}, !.lo = {}, !.off = FALSE]

----------------------------------------------------------------------------
(* Arrays and tuples.                                                      *)
LOCAL ElementOf(el) == IF el = "nums" THEN "num" ELSE "str"
arrayLikeIndex(e) == IF e.el \in Arrays THEN {[e EXCEPT !.el = ElementOf(@)]} ELSE {}
arrayLikeSlice(e) == IF e.el \in Arrays \cup {"str"} THEN {e} ELSE {}
jsonDestructure(e) ==
  IF e.el = "json" THEN {[e EXCEPT !.rt = multiplyCardinalities(@, "One"), !.ts = MultiplyType(@, "One")]} ELSE {}
tuplePath(e) == IF e.el \in Tuples THEN {[e EXCEPT !.el = "str"]} ELSE {}

array(e) ==
  IF e.el \notin {"str", "num"} THEN {}
  ELSE {Made(IF e.el = "num" THEN "nums" ELSE "strs", multiplyCardinalitiesVariadic(Strings(a, "rt")),
             MultiplyVariadicType(Strings(a, "ts")), IF Len(a) = 1 THEN e.sizes ELSE Product2(a), {a[n] : n \in DOMAIN a})
          : a \in {<<e>>} \cup InEitherPlace(e, Alike(e.el))}

tuple(e) ==
  {Made("tuple", multiplyCardinalitiesVariadic(Strings(a, "rt")), MultiplyVariadicType(Strings(a, "ts")),
        Product2(a), {a[1], a[2]}) : a \in InEitherPlace(e, Alike("str"))}

(* A named tuple multiplies at run time, its type looks at the set of its  *)
(* fields' cardinalities.                                                  *)
inferNamedTupleCardinality(cards) ==
  IF "Many" \in cards THEN "Many"
  ELSE IF "Empty" \in cards THEN "Empty"
  ELSE IF cards \subseteq {"AtMostOne"} THEN "AtMostOne"
  ELSE IF cards \subseteq {"AtMostOne", "One"} THEN "One" ELSE "Many"
NamedTupleMistyped(cards) == cards = {"One", "AtMostOne"} \/ {"Many", "Empty"} \subseteq cards
namedTuple(e) ==
  {LET cards == {a[1].ts, a[2].ts}
       made == Made("named", multiplyCardinalitiesVariadic(Strings(a, "rt")), inferNamedTupleCardinality(cards),
                    Product2(a), {a[1], a[2]})
   IN [made EXCEPT !.off = @ \/ NamedTupleMistyped(cards)] : a \in InEitherPlace(e, Alike("str"))}

(* e.set(): the overload for a list of unknown length is typed with many.  *)
LOCAL Merged(a) ==
  Made(a[1].el, mergeCardinalitiesVariadic(Strings(a, "rt")), MergeVariadicType(Strings(a, "ts")),
       Sum(a[1].sizes, a[2].sizes), {a[1], a[2]})
set(e) ==
  {Made(e.el, e.rt, e.ts, e.sizes, {e}), [Made(e.el, e.rt, "Many", e.sizes, {e}) EXCEPT !.off = @ \/ querySingle(e.rt)]}
    \cup {Merged(a) : a \in InEitherPlace(e, Alike(e.el))}

cast(e) == IF e.el \in Scalars THEN {Made(el, e.rt, e.ts, e.sizes, {e}) : el \in Scalars} ELSE {}

----------------------------------------------------------------------------
(* Statements.  The modifiers: a filter, filter_single with an expression  *)
(* or with properties that identify the object, an offset or a limit.      *)
handleModifiers(e) ==
  {e, [e EXCEPT !.sizes = UpTo(@), !.lo = Both],
   [e EXCEPT !.rt = LowerType(@, "Zero"), !.ts = LowerType(@, "Zero"), !.sizes = UpTo(@)]}
    \cup IF e.el \notin Objects THEN {}
         ELSE LET one == [e EXCEPT !.rt = "AtMostOne", !.ts = UpperType(@, "One"), !.sizes = {0, 1}, !.lo = Both]
              IN {one, [one EXCEPT !.rt = overrideUpperBound(@, "One")]}

(* Shapes: a computed element is rendered as single or as multi, as the    *)
(* expression says, and the server refuses an expression that is not; a    *)
(* required multi link is rendered with assert_exists().                   *)
shapeToEdgeQL(element) == [element EXCEPT !.sizes = IF querySingle(element.rt) THEN @ \cap {0, 1} ELSE @]
Pointer(x) == <<[el |-> x.el, rt |-> x.rt, ts |-> x.ts, sizes |-> x.sizes, lo |-> x.lo, off |-> x.off]>>
Nested(c) ==
  [Plain("object", c) EXCEPT !.sizes = IF c = "AtLeastOne" THEN UpTo(@) \ {0} ELSE UpTo(@),
                             !.lo = IF c = "One" THEN Both ELSE {}]
resolveShapeElement(e) ==
  {shapeToEdgeQL(x) : x \in Alike("str") \cup pathify(getScopedExpr(e))}
    \cup IF e.el = "object" THEN {Nested(c) : c \in Cards \ {"Empty"}} ELSE {}
select(e) ==
  handleModifiers(e)
    \cup IF e.el \in Objects /\ e.ptr = <<>> THEN {[e EXCEPT !.ptr = Pointer(x)] : x \in resolveShapeElement(e)} ELSE {}
(* The expression in the shape of an object type or of a free object.      *)
InShape(e) ==
  IF e.ptr # <<>> THEN {}
  ELSE {[o EXCEPT !.ptr = Pointer(shapeToEdgeQL(e))] : o \in {Plain("object", c) : c \in Cards} \cup {Plain("free", "One")}}

deleteExpr(e) == IF e.el = "object" THEN {[x EXCEPT !.ptr = <<>>] : x \in handleModifiers(e)} ELSE {}
update(e) == IF e.el = "object" THEN {[x EXCEPT !.ptr = <<>>] : x \in handleModifiers(e)} ELSE {}

(* An insert may find a conflict; what it returns then is the expression   *)
(* of its else, whose cardinality is taken for the whole.                  *)
unlessConflict(e) ==
  IF e # insert THEN {}
  ELSE {Plain("object", "AtMostOne")}
         \cup {[Plain("object", c) EXCEPT !.sizes = @ \cup {1}, !.off = (c = "Empty")] : c \in Cards}

for(e) ==
  {LET made == Made(e.el, multiplyCardinalities(c, e.rt), MultiplyType(c, e.ts), Each(Sizes(c), e.sizes), {e})
   IN [made EXCEPT !.ptr = e.ptr] : c \in Cards}
    \cup {Made("str", multiplyCardinalities(e.rt, c), MultiplyType(e.ts, c), Each(e.sizes, Sizes(c)), {e}) : c \in Cards}

(* One group for each value of the key, with its elements, its key and the *)
(* names of the expressions grouped by.                                    *)
group(e) ==
  IF e.el # "object" THEN {}
  ELSE {[Made("free", "Many", "Many", UpTo(e.sizes), {}) EXCEPT !.ptr = Pointer(x)]
          : x \in {[Plain("object", "Many") EXCEPT !.sizes = {1, 2}], Plain("free", "One"), Plain("str", "Many")}}

----------------------------------------------------------------------------
(* Operators and functions.  Whether the second operand of ?? counts is    *)
(* told from the first's lower bound, of rt and of ts.                     *)
Required(c) == c \in {"One", "AtLeastOne"}
CoalesceMistyped(x) == x.lo # {} \/ (Required(x.rt) # Required(x.ts))
OperatorsOn ==
  [el \in Elements |->
     LET fit == {d \in Operators : \E o \in Overloads(d) : Accepts(d, o, el)}
     IN {CHOOSE d \in fit : d.name = symbol : symbol \in {d.name : d \in fit}}]
Operands(e, kind) ==
  CASE kind = "Prefix" -> {<<e>>}
    [] kind = "Infix" -> InEitherPlace(e, Alike(e.el))
    [] kind = "Ternary" -> {<<p[1], b, p[2]>> : p \in InEitherPlace(e, Alike(e.el)), b \in Alike("bool")}
op(e) ==
  UNION {{LET made == Made(IF def.result = "same" THEN e.el ELSE def.result,
                           _tryOverload(def, [n \in DOMAIN a |-> <<a[n].rt>>]),
                           DeclaredOp(def.name, e.el, Strings(a, "ts")),
                           ReturnedSizes(def, Strings(a, "sizes")), {a[n] : n \in DOMAIN a})
          IN [made EXCEPT !.off = @ \/ DeclaredElementwise(def.name, e.el) \/ (def.name = "??" /\ CoalesceMistyped(a[1]))]
           : a \in Operands(e, def.kind)} : def \in OperatorsOn[e.el]}

LOCAL Function(name, over, mods, ret, preserves, result) ==
  [name |-> name, over |-> over, mods |-> mods, ret |-> ret, preserves |-> preserves, result |-> result]
Functions ==
  {Function("count", Elements, <<"SetOf">>, "Single", FALSE, "num"),
   Function("max", {"num", "str"}, <<"SetOf">>, "Optional", TRUE, "same"),
   Function("assert_exists", Elements, <<"SetOf">>, "SetOf", FALSE, "same"),
   Function("assert_single", Elements, <<"SetOf">>, "Optional", TRUE, "same"),
   Function("array_agg", {"num", "str"}, <<"SetOf">>, "Single", FALSE, "array"),
   Function("array_unpack", Arrays, <<"Single">>, "SetOf", FALSE, "item"),
   Function("str_upper", {"str"}, <<"Single">>, "Single", FALSE, "same"),
   Function("json_get", {"json"}, <<"Single", "Variadic">>, "Optional", FALSE, "same"),
   Function("sequence_reset", {"str"}, <<"Single", "Optional">>, "Single", FALSE, "num")}
ResultOf(f, el) ==
  CASE f.result = "same" -> el [] f.result = "array" -> IF el = "num" THEN "nums" ELSE "strs"
    [] f.result = "item" -> ElementOf(el) [] OTHER -> f.result
(* The arguments of the second parameter, none for one that is left out.   *)
LOCAL Second(f) ==
  CASE Len(f.mods) = 1 -> {<<>>}
    [] f.mods[Len(f.mods)] = "Variadic" -> {<<<<"One">>>>, <<<<"One", "AtMostOne">>>>}
    [] f.mods[Len(f.mods)] = "Optional" -> {<<<<c>>>> : c \in Cards}
call(e) ==
  UNION {{Made(ResultOf(f, e.el), _tryOverload(f, <<<<e.rt>>>> \o more),
               renderCardinality(getReturnCardinality(f), <<<<e.ts>>>> \o more),
               ReturnedSizes(f, <<e.sizes>> \o [n \in DOMAIN more |-> Sizes(multiplyCardinalitiesVariadic(more[n]))]), {e})
            : more \in Second(f)} : f \in {g \in Functions : e.el \in g.over}}

----------------------------------------------------------------------------
(* One more call of the builder, on an expression not known to be wrong,   *)
(* one with a pointer only for what keeps it or follows it.  A query whose *)
(* assertion always fails returns nothing.                                 *)
KeepsPointer(e) == pathify(e) \cup {assert_single(e)} \cup select(e) \cup for(e)
ExpressionStep(e) ==
  {x \in IF e.ptr # <<>> THEN KeepsPointer(e)
         ELSE KeepsPointer(e) \cup isFunc(e) \cup arrayLikeIndex(e) \cup arrayLikeSlice(e) \cup jsonDestructure(e)
                \cup tuplePath(e) \cup array(e) \cup tuple(e) \cup namedTuple(e) \cup set(e) \cup cast(e)
                \cup InShape(e) \cup deleteExpr(e) \cup update(e) \cup unlessConflict(e) \cup group(e)
                \cup op(e) \cup call(e)
     : ~e.off /\ x.sizes # {}}

(* run() asks for a single result or for a list, by the cardinality the    *)
(* expression carries; a single result of several elements is refused.     *)
Runs(x) == querySingle(x.rt) => 2 \notin x.sizes
AsDeclared(x) == Runs(x) /\ \A n \in x.sizes : Declares(x.ts, ~querySingle(x.rt), n)
Results(e) == {e} \cup {e.ptr[n] : n \in DOMAIN e.ptr}
=============================================================================
