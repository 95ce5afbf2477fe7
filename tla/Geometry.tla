------------------------------- MODULE Geometry -------------------------------
(***************************************************************************)
(* The geometries of ext::postgis: their constructors and texts            *)
(* (datatypes/postgis.ts), their binary form (codecs/postgis.ts) and the   *)
(* parser of texts (datatypes/wkt.ts).  A text is a sequence of tokens, a  *)
(* binary form one of words; the order of bytes, indentation and           *)
(* truncation are left out.                                                *)
(***************************************************************************)
EXTENDS Integers, Sequences, SequencesExt

CONSTANTS Null, NaN, Thrown

Lines == {"LINESTRING", "CIRCULARSTRING"}
Polygons == {"POLYGON", "TRIANGLE"}
Kinds == {"POINT", "MULTIPOINT", "MULTILINESTRING", "MULTIPOLYGON", "GEOMETRYCOLLECTION", "POLYHEDRALSURFACE", "TIN",
          "COMPOUNDCURVE", "CURVEPOLYGON", "MULTICURVE", "MULTISURFACE"} \cup Lines \cup Polygons

----------------------------------------------------------------------------
(* Constructors.  A point has its coordinates, z and m perhaps Null; any   *)
(* other geometry its parts.  What points[0].equals(...) does to a list    *)
(* without points is thrown as well.                                       *)
Point(x, y, z, m, srid) == [kind |-> "POINT", z |-> z # Null, m |-> m # Null, srid |-> srid, of |-> <<x, y, z, m>>]
equals(p, q) ==
  /\ p.srid = q.srid
  /\ IF p.of[1] = NaN THEN p.z = q.z /\ p.m = q.m ELSE p.of = q.of
Closed(points) == points # <<>> /\ equals(points[1], Last(points))

ValidLineString(points) == Len(points) # 1
ValidCircularString(points) == points = <<>> \/ (Len(points) > 1 /\ Len(points) % 2 = 1)
ValidPolygon(rings) == \A n \in DOMAIN rings : Len(rings[n].of) >= 4 /\ Closed(rings[n].of)
ValidTriangle(rings) == Len(rings) <= 1 /\ \A n \in DOMAIN rings : Len(rings[n].of) = 4 /\ Closed(rings[n].of)
ValidCompoundCurve(segments) ==
  \A n \in 2 .. Len(segments) :
    segments[n - 1].of # <<>> =>
      segments[n].of # <<>> /\ equals(segments[n].of[1], Last(segments[n - 1].of))
ValidCurvePolygon(rings) ==
  \A n \in DOMAIN rings :
    IF rings[n].kind \in Lines THEN Len(rings[n].of) >= 4 /\ Closed(rings[n].of)
    ELSE /\ rings[n].of # <<>>
         /\ LET last == Last(rings[n].of).of
            IN rings[n].of[1].of # <<>> /\ last # <<>> /\ equals(rings[n].of[1].of[1], Last(last))

Valid(kind, of) ==
  CASE kind = "LINESTRING" -> ValidLineString(of)
    [] kind = "CIRCULARSTRING" -> ValidCircularString(of)
    [] kind = "POLYGON" -> ValidPolygon(of)
    [] kind = "TRIANGLE" -> ValidTriangle(of)
    [] kind = "COMPOUNDCURVE" -> ValidCompoundCurve(of)
    [] kind = "CURVEPOLYGON" -> ValidCurvePolygon(of)
    [] OTHER -> TRUE
New(kind, of, z, m, srid) ==
  IF (\E n \in DOMAIN of : of[n] = Thrown) \/ ~Valid(kind, of) THEN Thrown
  ELSE [kind |-> kind, z |-> z, m |-> m, srid |-> srid, of |-> of]

----------------------------------------------------------------------------
(* Texts.                                                                  *)
Tok(t) == <<[t |-> t, v |-> Null]>>
Commas(texts) ==
  FlattenSeq([n \in DOMAIN texts |-> IF n = Len(texts) THEN texts[n] ELSE texts[n] \o Tok(",")])
Brackets(texts) == Tok("(") \o Commas(texts) \o Tok(")")

_flagsToWKT(z, m) == IF z /\ m THEN Tok("ZM") ELSE IF z THEN Tok("Z") ELSE IF m THEN Tok("M") ELSE <<>>
_sridWKTPrefix(srid) == IF srid = Null THEN <<>> ELSE <<[t |-> "SRID", v |-> srid]>>
_pointToWKT(p) == <<[t |-> "at", v |-> SelectSeq(p.of, LAMBDA c : c # Null)]>>
NamedText(g, body) == Tok(g.kind) \o _flagsToWKT(g.z, g.m) \o (IF g.of = <<>> THEN Tok("EMPTY") ELSE body)

PointText(p) ==
  Tok("POINT") \o _flagsToWKT(p.z, p.m)
    \o (IF p.of[1] = NaN THEN Tok("EMPTY") ELSE Brackets(<<_pointToWKT(p)>>))
_linestringToWKT(points) == Brackets([n \in DOMAIN points |-> _pointToWKT(points[n])])
_multilinestringToWKT(lines) == Brackets([n \in DOMAIN lines |-> _linestringToWKT(lines[n].of)])
MultiPointText(g) == NamedText(g, Brackets([n \in DOMAIN g.of |-> Brackets(<<_pointToWKT(g.of[n])>>)]))
LineStringText(g) == NamedText(g, _linestringToWKT(g.of))
MultiLineStringText(g) == NamedText(g, _multilinestringToWKT(g.of))
CompoundCurveText(g) ==
  NamedText(g, Brackets([n \in DOMAIN g.of |-> Tok(g.of[n].kind) \o _linestringToWKT(g.of[n].of)]))
PolygonText(g) == NamedText(g, _multilinestringToWKT(g.of))
MultiPolygonText(g) == NamedText(g, Brackets([n \in DOMAIN g.of |-> _multilinestringToWKT(g.of[n].of)]))

RECURSIVE Text(_)
Each(g) == Brackets([n \in DOMAIN g.of |-> Text(g.of[n])])
MultiCurveText(g) == NamedText(g, Each(g))
CurvePolygonText(g) == NamedText(g, Each(g))
MultiSurfaceText(g) == NamedText(g, Each(g))
GeometryCollectionText(g) == NamedText(g, Each(g))
Text(g) ==
  CASE g.kind = "POINT" -> PointText(g)
    [] g.kind \in Lines -> LineStringText(g)
    [] g.kind \in Polygons -> PolygonText(g)
    [] g.kind = "MULTIPOINT" -> MultiPointText(g)
    [] g.kind = "MULTILINESTRING" -> MultiLineStringText(g)
    [] g.kind = "COMPOUNDCURVE" -> CompoundCurveText(g)
    [] g.kind = "MULTICURVE" -> MultiCurveText(g)
    [] g.kind = "CURVEPOLYGON" -> CurvePolygonText(g)
    [] g.kind = "MULTISURFACE" -> MultiSurfaceText(g)
    [] g.kind = "GEOMETRYCOLLECTION" -> GeometryCollectionText(g)
    [] OTHER -> MultiPolygonText(g)
toWKT(g) == _sridWKTPrefix(g.srid) \o Text(g)

----------------------------------------------------------------------------
(* parseWKT().  p: the tokens left, the dimensions known so far (Null: not *)
(* yet), and what has been parsed last, or Thrown.                         *)
Sees(p, t) == p.got # Thrown /\ p.rest # <<>> /\ Head(p.rest).t = t
Behind(p) == [p EXCEPT !.rest = Tail(@)]
Failed(p) == [p EXCEPT !.got = Thrown]
Expect(p, t) == IF Sees(p, t) THEN Behind(p) ELSE Failed(p)
Dim(x) == x = TRUE
Constructed(p, kind) ==
  IF p.got = Thrown THEN p ELSE [p EXCEPT !.got = New(kind, @, Dim(p.z), Dim(p.m), p.srid)]

(* A point has as many coordinates as the dimensions known, which the      *)
(* first point of a geometry without flags decides.                        *)
_parsePoint(p) ==
  LET at == Head(p.rest).v
      z == Len(at) > 2
      m == Len(at) > 3
      q == IF p.z = Null THEN [p EXCEPT !.z = z, !.m = m] ELSE p
      c(n) == IF n <= Len(at) THEN at[n] ELSE Null
  IN IF ~Sees(p, "at") \/ (\E n \in DOMAIN at : at[n] = NaN) \/ z # (q.z \/ q.m) \/ m # (q.z /\ q.m) THEN Failed(p)
     ELSE [Behind(q) EXCEPT !.got = Point(c(1), c(2), IF q.z THEN c(3) ELSE Null, IF q.z THEN c(4) ELSE c(3), p.srid)]
EmptyPoint(p) ==
  [p EXCEPT !.got = Point(NaN, NaN, IF Dim(p.z) THEN NaN ELSE Null, IF Dim(p.m) THEN NaN ELSE Null, p.srid)]

(* One item of a list: a point, a bracketed point, line or polygon, or a   *)
(* geometry of the types allowed, the first of which may go without name.  *)
RECURSIVE _parseCommaSep(_, _), _parseGeom(_, _, _)
NoName(item) == CASE item = "any" -> Null [] item = "surface" -> "POLYGON" [] OTHER -> "LINESTRING"
Allowed(item) ==
  CASE item = "any" -> Kinds
    [] item = "segment" -> Lines
    [] item = "curve" -> Lines \cup {"COMPOUNDCURVE"}
    [] item = "surface" -> {"POLYGON", "CURVEPOLYGON"}
Bracketed(open, item) ==
  IF open.got = Thrown THEN open
  ELSE Expect(CASE item = "(point)" -> _parsePoint(open)
                [] item = "(line)" -> Constructed(_parseCommaSep(open, "point"), "LINESTRING")
                [] item = "(polygon)" -> Constructed(_parseCommaSep(open, "(line)"), "POLYGON")
                [] item = "(triangle)" -> Constructed(_parseCommaSep(open, "(line)"), "TRIANGLE"), ")")
_parseBracketedGeom(p, item) == Bracketed(Expect(p, "("), item)
Item(p, item) ==
  CASE item = "point" -> _parsePoint(p)
    [] item \in {"(point)", "(line)", "(polygon)", "(triangle)"} -> _parseBracketedGeom(p, item)
    [] OTHER -> _parseGeom(p, NoName(item), Allowed(item))

(* The list that begins with the item `one', which is parsed. *)
Listed(one, item) ==
  IF one.got = Thrown THEN one
  ELSE IF ~Sees(one, ",") THEN [one EXCEPT !.got = <<@>>]
  ELSE [_parseCommaSep(Behind(one), item) EXCEPT !.got = IF @ = Thrown THEN @ ELSE <<one.got>> \o @]
_parseCommaSep(p, item) == Listed(Item(p, item), item)

(* _checkDimensions(): children agree with the flags in front of them, or  *)
(* with the first of them.  q: behind them.                                *)
SameDimensions(p, q) ==
  LET z == IF p.z = Null THEN q.got[1].z ELSE p.z
      m == IF p.m = Null THEN q.got[1].m ELSE p.m
  IN IF q.got = Thrown \/ \E n \in DOMAIN q.got : q.got[n].z # z \/ q.got[n].m # m THEN Failed(q)
     ELSE [q EXCEPT !.z = z, !.m = m]
_checkDimensions(p, item) == SameDimensions(p, _parseCommaSep(p, item))

ItemsOf(type) ==
  CASE type \in Lines -> "point"
    [] type \in Polygons \cup {"MULTILINESTRING"} -> "(line)"
    [] type = "MULTIPOINT" -> "(point)"
    [] type \in {"MULTIPOLYGON", "POLYHEDRALSURFACE"} -> "(polygon)"
    [] type = "TIN" -> "(triangle)"
    [] type = "GEOMETRYCOLLECTION" -> "any"
    [] type = "COMPOUNDCURVE" -> "segment"
    [] type \in {"CURVEPOLYGON", "MULTICURVE"} -> "curve"
    [] type = "MULTISURFACE" -> "surface"

(* The body of a geometry, behind its opening bracket.                     *)
_parseBody(p, type) ==
  IF type = "POINT" THEN _parsePoint(p)
  ELSE Constructed(IF ItemsOf(type) \in {"any", "segment", "curve", "surface"} THEN _checkDimensions(p, ItemsOf(type))
                   ELSE _parseCommaSep(p, ItemsOf(type)), type)

(* Name and flags; without flags the dimensions are forgotten, without a   *)
(* name they are kept.                                                     *)
_parseFlags(p) ==
  IF p.rest = <<>> \/ Head(p.rest).t \notin {"Z", "M", "ZM"} THEN [p EXCEPT !.z = Null, !.m = Null]
  ELSE LET t == Head(p.rest).t IN [Behind(p) EXCEPT !.z = t # "M", !.m = t # "Z"]
_parseGeom(p, unnamed, allowed) ==
  LET named == p.rest # <<>> /\ Head(p.rest).t \in Kinds
      type == IF named THEN Head(p.rest).t ELSE unnamed
      q == IF named THEN _parseFlags(Behind(p)) ELSE p
      open == Expect(q, "(")
  IN IF type \notin allowed THEN Failed(p)
     ELSE IF named /\ Sees(q, "EMPTY")
     THEN IF type = "POINT" THEN EmptyPoint(Behind(q)) ELSE Constructed([Behind(q) EXCEPT !.got = <<>>], type)
     ELSE IF open.got = Thrown THEN open ELSE Expect(_parseBody(open, type), ")")

parseWKT(text) ==
  LET srid == text # <<>> /\ text[1].t = "SRID"
      p == _parseGeom([rest |-> IF srid THEN Tail(text) ELSE text, z |-> Null, m |-> Null,
                       srid |-> IF srid THEN text[1].v ELSE Null, got |-> Null], Null, Kinds)
  IN IF p.rest # <<>> THEN Thrown ELSE p.got

----------------------------------------------------------------------------
(* The binary form: byte order, type with flags, srid, then the data.      *)
ByteOrder == 0
_encodePoint(p) == SelectSeq(p.of, LAMBDA c : c # Null)
_encodeLineString(line) == <<Len(line.of)>> \o FlattenSeq([n \in DOMAIN line.of |-> _encodePoint(line.of[n])])
Header(g) ==
  <<ByteOrder, [type |-> g.kind, z |-> g.z, m |-> g.m, srid |-> g.srid # Null]>>
    \o (IF g.srid = Null THEN <<>> ELSE <<g.srid>>)
RECURSIVE _encodeGeometry(_)
_encodeGeometry(g) ==
  Header(g) \o
    CASE g.kind = "POINT" -> _encodePoint(g)
      [] g.kind \in Lines -> _encodeLineString(g)
      [] g.kind \in Polygons -> <<Len(g.of)>> \o FlattenSeq([n \in DOMAIN g.of |-> _encodeLineString(g.of[n])])
      [] OTHER -> <<Len(g.of)>> \o FlattenSeq([n \in DOMAIN g.of |-> _encodeGeometry(g.of[n])])

(* Reading: b is what is left of the buffer.  discard(5) drops the byte    *)
(* order and the type of a part.                                           *)
Drop(b, n) == SubSeq(b, n + 1, Len(b))
Items(b, Read(_)) ==
  FoldLeft(LAMBDA r, k : LET one == Read(r.rest) IN [got |-> Append(r.got, one.got), rest |-> one.rest],
           [got |-> <<>>, rest |-> Tail(b)], [k \in 1 .. b[1] |-> k])
Construct(r, kind, f) == [r EXCEPT !.got = New(kind, @, f.z, f.m, f.srid)]

_readPoint(b, f) ==
  LET n == 2 + (IF f.z THEN 1 ELSE 0)
      all == n + (IF f.m THEN 1 ELSE 0)
  IN [got |-> Point(b[1], b[2], IF f.z THEN b[3] ELSE Null, IF f.m THEN b[all] ELSE Null, f.srid), rest |-> Drop(b, all)]
_readLineString(b, kind, f) == Construct(Items(b, LAMBDA x : _readPoint(x, f)), kind, f)
_readPolygon(b, kind, f) == Construct(Items(b, LAMBDA x : _readLineString(x, "LINESTRING", f)), kind, f)
_readMultiPoint(b, f) == Construct(Items(b, LAMBDA x : _readPoint(Drop(x, 2), f)), "MULTIPOINT", f)
_readMultiLineString(b, f) ==
  Construct(Items(b, LAMBDA x : _readLineString(Drop(x, 2), "LINESTRING", f)), "MULTILINESTRING", f)
_readMultiPolygon(b, kind, f) ==
  Construct(Items(b, LAMBDA x : _readPolygon(Drop(x, 2), IF kind = "TIN" THEN "TRIANGLE" ELSE "POLYGON", f)), kind, f)
Unexpected(x) == [got |-> Thrown, rest |-> x]
_readCompoundCurve(b, f) ==
  Construct(Items(b, LAMBDA x :
              IF x[2].type \in Lines THEN _readLineString(Drop(x, 2), x[2].type, f) ELSE Unexpected(x)), "COMPOUNDCURVE", f)
_readMultiCurve(b, kind, f) ==
  Construct(Items(b, LAMBDA x :
              IF x[2].type \in Lines THEN _readLineString(Drop(x, 2), x[2].type, f)
              ELSE IF x[2].type = "COMPOUNDCURVE" THEN _readCompoundCurve(Drop(x, 2), f) ELSE Unexpected(x)), kind, f)
_readMultiSurface(b, f) ==
  Construct(Items(b, LAMBDA x :
              IF x[2].type = "POLYGON" THEN _readPolygon(Drop(x, 2), "POLYGON", f)
              ELSE IF x[2].type = "CURVEPOLYGON" THEN _readMultiCurve(Drop(x, 2), "CURVEPOLYGON", f)
              ELSE Unexpected(x)), "MULTISURFACE", f)

RECURSIVE _readGeometry(_, _)
_readGeometryCollection(b, f) == Construct(Items(b, LAMBDA x : _readGeometry(x, f.srid)), "GEOMETRYCOLLECTION", f)
_readGeometry(b, srid) ==
  LET t == b[2]
      f == [z |-> t.z, m |-> t.m, srid |-> IF t.srid THEN b[3] ELSE srid]
      data == Drop(b, IF t.srid THEN 3 ELSE 2)
  IN CASE t.type = "POINT" -> _readPoint(data, f)
       [] t.type \in Lines -> _readLineString(data, t.type, f)
       [] t.type \in Polygons -> _readPolygon(data, t.type, f)
       [] t.type = "MULTIPOINT" -> _readMultiPoint(data, f)
       [] t.type = "MULTILINESTRING" -> _readMultiLineString(data, f)
       [] t.type \in {"MULTIPOLYGON", "POLYHEDRALSURFACE", "TIN"} -> _readMultiPolygon(data, t.type, f)
       [] t.type = "GEOMETRYCOLLECTION" -> _readGeometryCollection(data, f)
       [] t.type = "COMPOUNDCURVE" -> _readCompoundCurve(data, f)
       [] t.type \in {"CURVEPOLYGON", "MULTICURVE"} -> _readMultiCurve(data, t.type, f)
       [] t.type = "MULTISURFACE" -> _readMultiSurface(data, f)

----------------------------------------------------------------------------
(* Boxes travel as polygons.                                               *)
Corner(c) == Point(c[1], c[2], IF Len(c) = 3 THEN c[3] ELSE Null, Null, Null)
Ring(corners, z) ==
  New("LINESTRING", [n \in DOMAIN corners |-> Corner(corners[n])], z, FALSE, Null)
EncodeBox2d(min, max) ==
  _encodeGeometry(New("POLYGON", <<Ring(<<min, <<min[1], max[2]>>, max, min>>, FALSE)>>, FALSE, FALSE, Null))
EncodeBox3d(min, max) ==
  _encodeGeometry(New("POLYGON", <<Ring(<<min, <<min[1], max[2], max[3]>>, max, min>>, TRUE)>>, TRUE, FALSE, Null))

OneRing(g) == Len(g.of) = 1 /\ Len(g.of[1].of) = 5
Box2dOf(g) ==
  IF g.kind = "POLYGON" /\ ~g.z /\ OneRing(g)
  THEN <<SubSeq(g.of[1].of[1].of, 1, 2), SubSeq(g.of[1].of[3].of, 1, 2)>> ELSE Thrown
DecodeBox2d(b) == Box2dOf(_readGeometry(b, Null).got)
Spatial(p) == <<p.of[1], p.of[2], IF p.of[3] = Null THEN 0 ELSE p.of[3]>>
Box3dOf(g) ==
  IF g.kind = "POLYGON" /\ OneRing(g) THEN <<Spatial(g.of[1].of[1]), Spatial(g.of[1].of[3])>>
  ELSE IF g.kind = "POLYHEDRALSURFACE" /\ Len(g.of) = 6 /\ OneRing(g.of[1])
  THEN <<Spatial(g.of[1].of[1].of[1]), Spatial(g.of[6].of[1].of[3])>>
  ELSE Thrown
DecodeBox3d(b) == Box3dOf(_readGeometry(b, Null).got)

----------------------------------------------------------------------------
(* The server reads every header, and sends the srid once.                 *)
RECURSIVE ServerReads(_, _)
ServerReads(b, srid) ==
  LET t == b[2]
      f == [z |-> t.z, m |-> t.m, srid |-> IF t.srid THEN b[3] ELSE srid]
      data == Drop(b, IF t.srid THEN 3 ELSE 2)
  IN CASE t.type = "POINT" -> _readPoint(data, f)
       [] t.type \in Lines -> _readLineString(data, t.type, f)
       [] t.type \in Polygons -> _readPolygon(data, t.type, f)
       [] OTHER -> Construct(Items(data, LAMBDA x : ServerReads(x, f.srid)), t.type, f)
RECURSIVE Inner(_)
Inner(g) == [g EXCEPT !.srid = Null, !.of = IF g.kind = "POINT" THEN @ ELSE [n \in DOMAIN @ |-> Inner(@[n])]]
ServerSends(g) == _encodeGeometry([Inner(g) EXCEPT !.srid = g.srid])

(* A box, as the server turns it into a geometry: a rectangle, or six      *)
(* faces from the one at the least corner to the one at the greatest.      *)
ServerBox2d(min, max) ==
  _encodeGeometry(New("POLYGON", <<Ring(<<min, <<min[1], max[2]>>, max, <<max[1], min[2]>>, min>>, FALSE)>>, FALSE, FALSE, Null))
Face(f) == New("POLYGON", <<Ring(<<f[1], f[2], f[3], f[4], f[1]>>, TRUE)>>, TRUE, FALSE, Null)
ServerBox3d(i, a) ==
  LET c(x, y, z) == <<IF x = 1 THEN a[1] ELSE i[1], IF y = 1 THEN a[2] ELSE i[2], IF z = 1 THEN a[3] ELSE i[3]>>
      corners == <<<<c(0,0,0), c(0,1,0), c(1,1,0), c(1,0,0)>>, <<c(0,0,0), c(0,0,1), c(0,1,1), c(0,1,0)>>,
                   <<c(1,0,0), c(1,1,0), c(1,1,1), c(1,0,1)>>, <<c(0,0,0), c(1,0,0), c(1,0,1), c(0,0,1)>>,
                   <<c(0,1,0), c(0,1,1), c(1,1,1), c(1,1,0)>>, <<c(0,0,1), c(1,0,1), c(1,1,1), c(0,1,1)>>>>
  IN _encodeGeometry(IF i[3] = a[3] THEN Face(corners[1])
                     ELSE New("POLYHEDRALSURFACE", [n \in 1 .. 6 |-> Face(corners[n])], TRUE, FALSE, Null))
Bounds(g) ==
  LET p == g.of[1].of
      n == Len(SelectSeq(p[1].of, LAMBDA c : c # Null))
      side(k, Cmp(_, _)) == CHOOSE x \in {p[j].of[k] : j \in DOMAIN p} : \A j \in DOMAIN p : Cmp(x, p[j].of[k])
  IN <<[k \in 1 .. n |-> side(k, LAMBDA x, y : x <= y)], [k \in 1 .. n |-> side(k, LAMBDA x, y : x >= y)]>>

BoxSurvives(min, max) ==
  IF Len(min) = 2
  THEN /\ Bounds(ServerReads(EncodeBox2d(min, max), Null).got) = <<min, max>>
       /\ DecodeBox2d(ServerBox2d(min, max)) = <<min, max>>
  ELSE /\ Bounds(ServerReads(EncodeBox3d(min, max), Null).got) = <<min, max>>
       /\ DecodeBox3d(ServerBox3d(min, max)) = <<min, max>>

----------------------------------------------------------------------------
(* What has no text that can be read back: an empty part of a geometry     *)
(* printed without the names of its parts, and a curve of segments with m  *)
(* alone, whose segments are printed without flags.                        *)
Unnamed == Lines \cup Polygons \cup {"MULTIPOINT", "MULTILINESTRING", "MULTIPOLYGON", "POLYHEDRALSURFACE", "TIN", "COMPOUNDCURVE"}
IsEmpty(g) == g.of = <<>> \/ (g.kind = "POINT" /\ g.of[1] = NaN)
RECURSIVE Readable(_)
Readable(g) ==
  g.kind # "POINT" =>
    /\ \A n \in DOMAIN g.of : Readable(g.of[n]) /\ (g.kind \in Unnamed => ~IsEmpty(g.of[n]))
    /\ g.kind = "COMPOUNDCURVE" /\ g.of # <<>> => g.z \/ ~g.m

RECURSIVE Uniform(_, _, _)
Uniform(g, z, m) ==
  /\ g.z = z /\ g.m = m
  /\ g.kind # "POINT" => \A n \in DOMAIN g.of : Uniform(g.of[n], z, m)

(* A geometry is the same after its way to the server and back, and after  *)
(* its way through text.  (Parts with a srid of their own are read by the  *)
(* server, but it never sends them.)                                       *)
GeometrySurvives(g) ==
  /\ ServerReads(_encodeGeometry(g), Null) = [got |-> g, rest |-> <<>>]
  /\ _readGeometry(ServerSends(g), Null) = [got |-> g, rest |-> <<>>]
  /\ Readable(g) => parseWKT(toWKT(g)) = g

(* A text that is accepted stands for a geometry whose parts have the same *)
(* dimensions, and for the same one when printed again.                    *)
Understood(g) == g # Thrown => Uniform(g, g.z, g.m) /\ (Readable(g) => parseWKT(toWKT(g)) = g)
TextUnderstood(text) == Understood(parseWKT(text))
=============================================================================
