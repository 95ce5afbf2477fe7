------------------------------ MODULE Sequential ------------------------------
(***************************************************************************)
(* The parts of the driver and its packages that stand alone, each run     *)
(* from its own initial states: data structures through sequences of calls *)
(* (lru, buffer, options, codec), algorithms for every input of a small    *)
(* set (config, value, request, path, index), queries and expressions one  *)
(* call of the builder at a time (query, expr), the answer of an AI model  *)
(* event by event (rag), launches of the CLI (cli).  A behaviour is about  *)
(* one part.                                                               *)
(***************************************************************************)
EXTENDS Structures, WithBlocks, Geometry, SequencesExt

CONSTANTS
  QueryNodes,     \* for each position, the expressions a query may have there
  Contexts,       \* the custom codecs and row formats of a client
  ValueInputs,    \* values and texts, each with its kind in front
  \* of Temporal, Numbers, Geometry and Codecs:
  Thousand, Kibi, Group, Word, SafeHigh, Types, Roots, CodecsSize, BuildSize

E == INSTANCE Expressions
Times == INSTANCE Temporal
Nums == INSTANCE Numbers
Wire == INSTANCE Codecs

SequentialAssumption ==
  /\ Times!TemporalAssumption /\ Nums!NumbersAssumption /\ Wire!CodecsAssumption
ASSUME SequentialAssumption

Init ==
  \/ InitStructures
  \/ part = "query" /\ s = <<>>
  \/ part = "expr" /\ s \in E!Leaves
  \/ part = "value" /\ s \in ValueInputs
  \/ part = "codec" /\ s = Wire!EmptyRegistry

----------------------------------------------------------------------------
(* One more call of the query builder.                                     *)
Build ==
  /\ part = "query" /\ UNCHANGED part
  /\ Len(s) < Len(QueryNodes)
  /\ \E n \in QueryNodes[Len(s) + 1] : s' = Append(s, n)

Express ==
  /\ part = "expr" /\ UNCHANGED part
  /\ s' \in E!ExpressionStep(s)

(* The server describes the type of the next query, or its next part.      *)
Describe ==
  /\ part = "codec" /\ UNCHANGED part
  /\ s' \in Wire!CodecsStep(s)

Next ==
  \/ NextStructures
  \/ Build \/ Express \/ Describe

Spec == Init /\ [][Next]_<<part, s>>

----------------------------------------------------------------------------
(* A query is rendered in finitely many rounds, and every name it uses is  *)
(* declared around its use and means its expression, as long as what is    *)
(* shared between statements contains nothing that is extracted itself.    *)
(* Without e.with(), aliases, loops and conflict clauses it is not refused *)
(* either.                                                                 *)
QueriesRender ==
  part = "query" /\ s # <<>> =>
    (IsQuery(s) =>
       LET wrong == toEdgeQL(s)
       IN /\ "endless" \notin wrong
          /\ SharedInOnePlace(s) /\ ScalarsApart(s) =>
               /\ wrong \subseteq {"error"}
               /\ NoneOf(s, {"with", "alias", "for", "conflict"}) => wrong = {})

(* The cardinality an expression carries and the one its type carries      *)
(* choose the same call, which the server does not refuse, and the answer  *)
(* has the type, also through a computed pointer: except where a signature *)
(* of the builder says otherwise, and a filter drops the last element.     *)
TypesFit ==
  part = "expr" =>
    \A x \in E!Results(s) :
      ~x.off => /\ E!Runs(x) /\ (E!querySingle(x.rt) <=> E!querySingle(x.ts))
                /\ "rt" \notin x.lo => x.sizes \subseteq E!Sizes(x.rt)
                /\ "ts" \notin x.lo => E!AsDeclared(x)

(* A value that goes to the server and comes back, or is written as text   *)
(* and read again, is the value it was, to the precision the server has.   *)
ValuesSurvive ==
  part = "value" =>
    CASE s[1] = "date" -> Times!DateSurvives(s[2], s[3], s[4])
      [] s[1] = "time" -> Times!TimeSurvives(s[2])
      [] s[1] = "moment" -> Times!MomentSurvives(s[2])
      [] s[1] = "duration" -> Times!DurationSurvives(s[2], s[3])
      [] s[1] = "duration text" -> Times!TextMeans(s[2])
      [] s[1] = "relative" -> Times!RelativeSurvives(s[2])
      [] s[1] = "memory" -> Times!MemorySurvives(s[2])
      [] s[1] = "decimal" -> Nums!DecimalSurvives(s[2])
      [] s[1] = "bigint" -> Nums!BigIntSurvives(s[2])
      [] s[1] = "int64" -> Nums!IntegerSurvives(s[2])
      [] s[1] = "sparse vector" -> Nums!SparseSurvives(s[2], s[3])
      [] s[1] = "geometry" -> GeometrySurvives(s[2])
      [] s[1] = "geometry text" -> TextUnderstood(s[2])
      [] s[1] = "box" -> BoxSurvives(s[2], s[3])

(* Whatever was described before and dropped from the caches since, the    *)
(* codec of a type reads what the server sends and sends what it reads.    *)
CodecsFit == part = "codec" => Wire!CodecFits(s, Contexts)

(* What docs/querybuilder.rst says: run() returns the inferred type,       *)
(* whatever the expression.                                                *)
RunReturnsItsType == part = "expr" => E!AsDeclared(s)

(* What docs/with.rst says: a repeated expression is extracted, whatever   *)
(* the expressions.                                                        *)
RepeatedAreExtracted ==
  part = "query" /\ s # <<>> =>
    (IsQuery(s) /\ ScalarsApart(s) /\ NoneOf(s, {"with", "alias", "for", "conflict"}) => toEdgeQL(s) = {})
=============================================================================
