----------------------------- MODULE MCSequential -----------------------------
(***************************************************************************)
(* The inputs of the parts of Sequential: streams, configurations, queries,*)
(* schemas, requests, launches, and the values, texts and types of the     *)
(* value and codec parts.                                                  *)
(***************************************************************************)
EXTENDS Sequential

TwoMessages == {<<<<68, <<1>>>>, <<67, <<68>>>>>>, <<<<68, <<>>>>, <<68, <<68>>>>>>, <<<<67, <<68>>>>, <<68, <<>>>>>>}

Nobody == [p \in Single |-> None]
Singles(src) ==
  {Nobody, [Nobody EXCEPT !["database"] = src], [Nobody EXCEPT !["branch"] = src],
   [Nobody EXCEPT !["tlsSecurity"] = "insecure", !["user"] = src],
   [Nobody EXCEPT !["secretKey"] = src, !["tlsSecurity"] = "default"],
   [Nobody EXCEPT !["user"] = "invalid"], [Nobody EXCEPT !["branch"] = "invalid"]}
Bare == [kind |-> "dsn", wellFormed |-> TRUE, parts |-> [p \in DsnParams |-> {}], path |-> {},
         branch |-> {}, database |-> {}, security |-> "strict"]
Dsns ==
  {[Bare EXCEPT !.path = {"url"}, !.parts["user"] = {"query"}], [Bare EXCEPT !.branch = {"query"}, !.path = {"url"}],
   [Bare EXCEPT !.branch = {"env"}, !.parts["tlsSecurity"] = {"query"}],
   [Bare EXCEPT !.database = {"file"}, !.parts["user"] = {"env_missing"}],
   [Bare EXCEPT !.database = {"query"}, !.branch = {"query"}]}
File == [port |-> None, host |-> "creds", user |-> "creds", database |-> None, branch |-> None, ca |-> None,
         certData |-> None, verifyHostname |-> None, security |-> None]
Files ==
  {File, [File EXCEPT !.database = "creds", !.branch = "creds"], [File EXCEPT !.branch = "creds", !.certData = "creds"],
   [File EXCEPT !.verifyHostname = "false", !.security = "insecure"]}
CredentialsOf(files) == [kind : {"credentials"}, data : files]
Address == [kind |-> "address", host |-> "host", port |-> None]
Cloud == [kind : {"cloud"}, profile : {None, "profile"}, keyValid : {TRUE}]
Compounds == {{}} \cup {{x} : x \in Dsns \cup CredentialsOf(Files) \cup {Address} \cup Cloud} \cup {{Address, Bare}}
Levels(src) == [single : Singles(src), caTwice : {FALSE}, compound : Compounds]
Linked == [single |-> [Nobody EXCEPT !["database"] = "project"], caTwice |-> FALSE,
           compound |-> {[kind |-> "credentials", data |-> File]}]
NoProject == [Linked EXCEPT !.compound = {}]
Projects == {NoProject, Linked, [Linked EXCEPT !.single["branch"] = "project"], [Linked EXCEPT !.single["branch"] = "other"]}
SomeInputs ==
  [options : Levels("option"), environment : Levels("env"), project : {NoProject, Linked}, clientSecurity : {None, "strict"}]
    \cup [options : [single : Singles("option"), caTwice : BOOLEAN, compound : {{}}],
          environment : [single : Singles("env"), caTwice : {FALSE}, compound : {{}}],
          project : Projects, clientSecurity : {None, "default", "insecure_dev_mode", "strict", "wrong"}]
    \cup [options : [single : {Nobody}, caTwice : {FALSE},
                     compound : {{x} : x \in CredentialsOf(
                       [port : {None, "creds", "invalid"}, host : {"creds"}, user : {None, "creds"},
                        database : {None, "x", "y"}, branch : {None, "x", "y"}, ca : {None, "x", "y"},
                        certData : {None, "x", "y"}, verifyHostname : {None, "true", "false"},
                        security : Securities \cup {None}])}],
          environment : {[single |-> Nobody, caTwice |-> FALSE, compound |-> {}]}, project : {NoProject},
          clientSecurity : {None}]

(* Queries of up to six expressions: shared leaves, operators over them and *)
(* over scope variables of later statements, nested statements.             *)
N(k, i, o) == [kind |-> k, scoped |-> FALSE, inner |-> i, of |-> o]
Sel(i, o) == [kind |-> "select", scoped |-> TRUE, inner |-> i, of |-> o]
Op(o) == N("op", <<>>, o)
Insert(i, o) == N("insert", i, o)
Value == N("value", <<>>, <<>>)
Type == N("path", <<>>, <<>>)
SomeQueryNodes ==
  <<{Type, Value},
    {Op(<<1>>), Op(<<1, -4>>), Op(<<1, -5>>), N("alias", <<>>, <<1>>), N("path", <<>>, <<-4>>), Type},
    {Op(<<2>>), Op(<<2, 2>>), Op(<<1, 2>>), Op(<<2, -5>>), N("detached", <<>>, <<2>>), N("select", <<2>>, <<1>>)},
    {Sel(<<-4, i>>, <<o>>) : i \in 1 .. 3, o \in 1 .. 2} \cup {Sel(<<i, 3>>, <<1>>) : i \in 2 .. 3}
      \cup {Insert(<<2, 3>>, <<1>>), Insert(<<3>>, <<1>>), Insert(<<3>>, <<2>>), N("select", <<3>>, <<2>>)}
      \cup {N("for", <<1, b>>, <<>>) : b \in 2 .. 3},
    {Sel(<<-5, i>>, <<o>>) : i \in 1 .. 4, o \in {1, 4}} \cup {Sel(<<i, 4>>, <<1>>) : i \in 2 .. 3} \cup {Sel(<<4, -5>>, <<1>>)}
      \cup {Insert(<<4, i>>, <<1>>) : i \in 2 .. 3} \cup {N("with", <<i>>, <<4>>) : i \in 1 .. 3}
      \cup {N("conflict", <<i>>, <<4>>) : i \in 2 .. 3},
    {Sel(<<-6, 5>>, <<o>>) : o \in {1, 3}} \cup {Insert(<<5, i>>, <<1>>) : i \in 3 .. 4}
      \cup {N("for", <<i, 5>>, <<>>) : i \in 1 .. 2} \cup {N("with", <<i>>, <<5>>) : i \in 2 .. 3}
      \cup {N("select", <<5, i>>, <<3>>) : i \in 2 .. 3}>>

----------------------------------------------------------------------------
(* PATHs of up to four files, indexes of up to three packages. *)
SomePaths == UNION {[1 .. n -> {"self", "script", "bin", "wrapper", "cli"}] : n \in 0 .. 4}
SomeIndexes == UNION {[1 .. n -> [cli : BOOLEAN, version : 0 .. 2, revision : 0 .. 1]] : n \in 0 .. 3}

----------------------------------------------------------------------------
(* Dates around every exception of the calendar; times, moments and        *)
(* durations around the half of a microsecond and around midnight.         *)
Years == {1, 2, 4, 5, 100, 101, 400, 401, 1900, 1999, 2000, 2024, 9999}
Dates == {"date"} \X Years \X (1 .. 12) \X (1 .. 31)
Daytimes ==
  {<<"time", Times!NewLocalTime(h, m, s60, milli, micro, nano)>> :
     h \in {0, 23}, m \in {0, 59}, s60 \in {0, 59}, milli \in {0, 5, 9}, micro \in {0, 1, 5, 8, 9}, nano \in {0, 4, 5, 6, 9}}
Moments == {"moment"} \X {x + y : x \in {-60 * 8640000, 0, 8640000 * 59, 31 * 8640000}, y \in -260 .. 260}
Durations ==
  ({"duration"} \X [1 .. 4 -> {0, -1}] \X
     {<<a, b, c, d, e, f>> : a \in {0, -1, 30}, b \in {0, -61}, c \in {0, -3}, d \in {0, -12}, e \in {0, -1, -2, 3}, f \in {0, 4, -5, -6}})
  \cup ({"duration"} \X {<<0, 0, 0, 0>>, <<0, 0, 0, 2>>} \X
     {<<a, b, c, d, e, f>> : a \in {0, 30}, b \in {0, 61}, c \in {0, 3}, d \in {0, 1, 12}, e \in {0, 1, 2}, f \in {0, 4, 5, 6, 9}})
Fractions ==
  {<<<<a>>, <<>>, <<>>>> : a \in 0 .. 9} \cup {<<<<>>, <<a, b>>, <<>>>> : a \in 0 .. 9, b \in 0 .. 9}
    \cup {<<<<>>, <<>>, <<a, b>>>> : a \in 0 .. 9, b \in {0, 2}} \cup {<<<<1>>, <<>>, <<2>>>>, <<<<>>, <<>>, <<>>>>}
DurationTexts ==
  {"duration text"} \X
    [sign : {1, -1}, date : {<<-1, -1, -1, -1>>}, t : BOOLEAN, whole : [1 .. 3 -> {-1, 0, 7}], frac : Fractions]
Relatives ==
  {"relative"} \X [date : [1 .. 4 -> {-13, 0, 8}],
                   time : {<<a, b, c, d, e>> : a \in {0, -1, 30}, b \in {0, -61}, c \in {0, 3}, d \in {0, -1, 12}, e \in {0, 1}}]
Temporals == Dates \cup Daytimes \cup Moments \cup Durations \cup DurationTexts \cup Relatives \cup ({"memory"} \X (0 .. 600))

Digits019(lo, hi) == UNION {[1 .. n -> {0, 1, 9}] : n \in lo .. hi}
Numerics ==
  ({"decimal"} \X ([neg : {FALSE}, int : Digits019(1, 4), frac : Digits019(0, 2), exp : {0, -4, 2}]
                   \cup [neg : {TRUE}, int : Digits019(1, 2), frac : Digits019(0, 5), exp : {0}]))
  \cup ({"bigint"} \X ((-10100 .. -9990) \cup (-102 .. 102) \cup (990 .. 1010) \cup {9999, 1000000, 1000100, 99999999}))
  \cup ({"int64"} \X (-128 .. 127))
  \cup ({"sparse vector"} \X (0 .. 3) \X UNION {[S -> {0, 5, 7}] : S \in SUBSET (0 .. 3)})

----------------------------------------------------------------------------
(* Geometries of at most two parts, of every kind and dimension; texts     *)
(* that are theirs but for one token.                                      *)
At(x, y, f) ==
  LET more == IF x = NaN THEN NaN ELSE x + y
  IN Point(x, y, IF f.z THEN more ELSE Null, IF f.m THEN more ELSE Null, f.srid)
Made(kind, f, parts) == {New(kind, of, f.z, f.m, f.srid) : of \in parts} \ {Thrown}
UpTo2(S) == {<<>>} \cup {<<x>> : x \in S} \cup {<<x, y>> : x, y \in S}
Small(S) == {g \in S : Len(g.of) < 2}
Points(f) == {At(0, 0, f), At(NaN, NaN, f)}
Strings(f) == Made("LINESTRING", f, {<<>>, <<At(0, 0, f), At(1, 0, f)>>, <<At(1, 0, f), At(1, 1, f), At(0, 0, f)>>})
Arcs(f) == Made("CIRCULARSTRING", f, {<<>>, <<At(0, 0, f), At(1, 0, f), At(1, 1, f)>>})
Loops(f) ==
  {<<At(0, 0, f), At(1, 0, f), At(1, 1, f), At(0, 0, f)>>, <<At(0, 0, f), At(1, 0, f), At(1, 1, f), At(-1, 1, f), At(0, 0, f)>>}
Rings(f) == Made("LINESTRING", f, Loops(f))
Polys(f) == Made("POLYGON", f, UpTo2(Rings(f)))
Triangles(f) == Made("TRIANGLE", f, UpTo2(Rings(f)))
CompoundCurves(f) == Made("COMPOUNDCURVE", f, UpTo2(Strings(f) \cup Arcs(f)))
CurvePolys(f) == Made("CURVEPOLYGON", f, UpTo2(Rings(f) \cup Made("CIRCULARSTRING", f, Loops(f)) \cup CompoundCurves(f)))
Shapes(f) ==
  Points(f) \cup Strings(f) \cup Arcs(f) \cup Polys(f) \cup Triangles(f) \cup CompoundCurves(f) \cup CurvePolys(f)
Multis(f) ==
  Made("MULTIPOINT", f, UpTo2(Points(f))) \cup Made("MULTILINESTRING", f, UpTo2(Strings(f)))
    \cup Made("MULTIPOLYGON", f, UpTo2(Small(Polys(f)))) \cup Made("POLYHEDRALSURFACE", f, UpTo2(Small(Polys(f))))
    \cup Made("TIN", f, UpTo2(Triangles(f)))
    \cup Made("MULTICURVE", f, UpTo2(Strings(f) \cup Arcs(f) \cup Small(CompoundCurves(f))))
    \cup Made("MULTISURFACE", f, UpTo2(Small(Polys(f)) \cup Small(CurvePolys(f))))
Collections(f) ==
  Made("GEOMETRYCOLLECTION", f,
       UpTo2(Points(f) \cup Small(CompoundCurves(f)) \cup Made("GEOMETRYCOLLECTION", f, UpTo2(Points(f)))))

Plane == [z |-> FALSE, m |-> FALSE, srid |-> Null]
WithZ == [Plane EXCEPT !.z = TRUE]
WithM == [Plane EXCEPT !.m = TRUE]
WithBoth == [WithZ EXCEPT !.m = TRUE]
Every(f) == Shapes(f) \cup Multis(f) \cup Collections(f)
Simple(f) == Collections(f) \cup Small(Multis(f)) \cup Shapes(f)
Edit(text, i, t) ==
  IF i > Len(text) THEN text ELSE IF t = "" THEN RemoveAt(text, i)
  ELSE IF text[i].t \in Kinds THEN InsertAt(text, i + 1, Tok(t)[1]) ELSE text
Geometries ==
  ({"geometry"} \X (Every(Plane) \cup Every(WithZ) \cup Every(WithM) \cup Every(WithBoth) \cup Every([Plane EXCEPT !.srid = 7])))
  \cup {<<"geometry text", Edit(text, i, t)>> :
          text \in {toWKT(g) : g \in Simple(Plane) \cup Shapes(WithZ) \cup Small(Multis(WithZ)) \cup Shapes(WithM) \cup Points(WithBoth)},
          i \in 1 .. 22, t \in {"", "Z", "M", "EMPTY"}}
  \cup ({"box"} \X {<<0, 0>>, <<-1, 1>>} \X {<<2, 3>>, <<2, 2>>})
  \cup ({"box"} \X {<<0, 0, 0>>, <<-1, 1, 1>>} \X {<<2, 3, 1>>, <<2, 2, 5>>})

SomeValues == Temporals \cup Numerics \cup Geometries

----------------------------------------------------------------------------
(* A schema with every kind of type: scalars of scalars, containers of     *)
(* containers, objects, the types of arguments, globals and SQL rows.      *)
Ty(t, name, subs, values) == Wire!Type(t, name, subs, values)
Interval(lower, upper, i, j) == [lower |-> lower, upper |-> upper, incLower |-> i, incUpper |-> j, isEmpty |-> FALSE]
NoInterval == [Interval(Null, Null, FALSE, FALSE) EXCEPT !.isEmpty = TRUE]
Intervals ==
  {Interval("1", "2", TRUE, FALSE), Interval(Null, "2", FALSE, TRUE), Interval("1", Null, FALSE, FALSE),
   Interval(Null, Null, FALSE, FALSE), NoInterval}
SomeTypes ==
  LET pair == <<"a", "1">>
      Fields(type, names, cards) == Wire!WithFields(type, names, {}, cards, 0)
  IN
  <<Ty("base_scalar", "std::str", <<>>, {"a"}),
    Ty("base_scalar", "std::int64", <<>>, {"1"}),
    Ty("scalar", "A", <<1>>, {"a"}),
    Ty("scalar", "B", <<3, 1>>, {"a"}),
    Ty("array", "", <<4>>, {<<>>, <<"a">>, <<"a", "b">>}),
    Ty("tuple", "", <<2, 5>>, {<<"1", <<"a", "b">>>>}),
    Fields(Ty("namedtuple", "", <<3, 2>>, {pair}), <<"x", "y">>, <<>>),
    Ty("set", "", <<5>>, {<<>>, <<<<"a", "b">>, <<>>>>}),
    Ty("object", "", <<>>, {}),
    Ty("set", "", <<7>>, {<<pair>>, <<>>}),
    Wire!WithFields(Ty("shape", "", <<4, 2, 8, 10>>, {<<"a", Null, <<>>, <<pair>>>>, <<"a", "1", <<<<"b">>>>, Null>>}),
                    <<"name", "p", "tags", "k">>, {2}, <<"One", "AtMostOne", "Many", "Many">>, 9),
    Ty("enum", "E", <<>>, {"a"}),
    Ty("array", "", <<7>>, {<<pair>>}),
    Ty("range", "", <<2>>, Intervals),
    Ty("multirange", "", <<2>>, {<<>>, <<Interval("1", "2", TRUE, FALSE), Interval("3", Null, FALSE, FALSE)>>}),
    Ty("tuple", "empty", <<>>, {<<>>}),
    Fields(Ty("record", "", <<1, 2, 16>>, {<<"a", "1", <<>>>>, <<"a", Null, <<>>>>}), <<"a", "a", "c">>, <<>>),
    Fields(Ty("input_shape", "", <<1, 12>>, {<<"a", "b">>, <<Null, "a">>}), <<"g", "h">>, <<>>),
    Fields(Ty("shape", "", <<4, 13, 14, 6, 15>>,
              {<<"a", <<pair>>, Null, <<"1", <<"a">>>>, Null>>, <<Null, Null, NoInterval, Null, <<>>>>,
               <<"a", Null, Interval("1", "2", TRUE, TRUE), Null, <<Interval(Null, "2", FALSE, TRUE)>>>>}),
           <<"q", "x", "y", "z", "r">>, <<"One", "AtMostOne", "AtMostOne", "AtMostOne", "AtMostOne">>),
    Fields(Ty("shape", "", <<4, 2>>, {pair, <<"a", Null>>, <<Null, "1">>}), <<"0", "1">>, <<"One", "AtMostOne">>),
    Ty("array", "", <<16>>, {<<<<>>>>, <<>>}),
    Ty("base_scalar", "std::json", <<>>, {"j"}),
    Ty("tuple", "", <<22, 12>>, {<<"j", "a">>})>>
SomeRoots == {11, 17, 18, 19, 20, 21, 23}
SomeContexts ==
  {[overloads |-> {}, rows |-> "object"], [overloads |-> {"std::str"}, rows |-> "array"],
   [overloads |-> {"std::str", "A", "E"}, rows |-> "custom"]}

----------------------------------------------------------------------------
(* Prompts of up to three messages, tools of both types.                   *)
Content(type, of) == [type |-> type, of |-> of]
From(role, content) == [role |-> role, content |-> content]
Question == From("user", <<Content("text", "a"), Content("text", "b")>>)
Talks ==
  {From("system", <<"be">>), Question, From("user", <<>>), From("user", <<Content("image", "x")>>),
   From("assistant", <<Content("text", "c"), Content("call", 1), Content("call", 2), Content("text", "d")>>),
   From("tool", <<Content("result", 2), Content("result", 1)>>)}
Function(n) == [type |-> "function", name |-> n]
Provided == [type |-> "provider-defined", name |-> "g"]
Own == <<Talk!Message("user", <<"own">>, <<>>, NoField), Talk!Message("assistant", <<>>, <<3>>, NoField)>>
SomePieces == [text |-> 1, tool_use |-> 2]
SomeRequests ==
  [prompt : {<<Question>>}, setting : {[named |-> FALSE, custom |-> NoField]},
   tools : {<<>>, <<Function("f")>>, <<Function("f"), Function("g")>>, <<Provided>>, <<Provided, Function("f")>>},
   choice : {NoField} \cup [mode : {"auto", "none", "required"}, name : {"f"}] \cup [mode : {"tool"}, name : {"f", "g"}],
   maker : {"anthropic", "openai", "other"}]
    \cup [prompt : UNION {[1 .. n -> Talks] : n \in 1 .. 3}, setting : [named : BOOLEAN, custom : {NoField, <<>>, Own}],
          tools : {<<>>}, choice : {NoField}, maker : {"openai"}]
===============================================================================
