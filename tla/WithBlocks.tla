----------------------------- MODULE WithBlocks ------------------------------
(***************************************************************************)
(* How the query builder extracts expressions into WITH blocks             *)
(* (syntax/toEdgeQL.ts): the walk that counts the uses of every expression *)
(* and records in which statements they are, the loop that chooses a block *)
(* for each that is repeated, aliased or bound with e.with(), and the      *)
(* rendering, of which only the scope of names is kept.                    *)
(*                                                                         *)
(* A query q is a sequence of expressions, each built from earlier ones:   *)
(*   value     a literal, global or other leaf that may be extracted       *)
(*   op        whatever is rendered around its operands `of` (operator,    *)
(*             function, set, tuple, array, cast, delete)                  *)
(*   path      a path from `of`, or from a type if `of` is empty, or a     *)
(*             type intersection: extracted only if bound                  *)
(*   alias, detached   of one expression                                   *)
(*   select    of `of`, with modifiers and a shape `inner`; it stands for  *)
(*             update and group too; `scoped` if it selects objects        *)
(*   insert    with a shape `inner` into the path `of`; it stands for the  *)
(*             select of a free object too                                 *)
(*   conflict  `unless conflict` with clauses `inner` on the insert `of`   *)
(*   for       `inner` is the set iterated over and the body               *)
(*   with      e.with(inner, of)                                           *)
(* The scope variable of a select, and the variable of a for, n is -n.     *)
(***************************************************************************)
EXTENDS Integers, Sequences, FiniteSets, SequencesExt, Functions

Statements == {"select", "insert", "for"}
HasScope(q, e) == q[e].kind = "select" /\ q[e].scoped

(* The scope and loop variables used in e outside their statement.         *)
RECURSIVE FreeVars(_, _)
FreeVars(q, e) ==
  IF e < 0 THEN {e}
  ELSE LET In(s) == UNION {FreeVars(q, s[n]) : n \in DOMAIN s}
       IN CASE q[e].kind = "for" -> FreeVars(q, q[e].inner[1]) \cup (FreeVars(q, q[e].inner[2]) \ {-e})
            [] OTHER -> (In(q[e].inner) \ (IF HasScope(q, e) THEN {-e} ELSE {})) \cup In(q[e].of)

----------------------------------------------------------------------------
(* walkExprTree(): `seen` in the order of the first visits, and for each   *)
(* expression its uses, the statements around them (0 for none), all its   *)
(* descendants, the e.with() it is bound to and its aliases.               *)
Join(a, b) == FoldLeft(LAMBDA s, x : IF Contains(s, x) THEN s ELSE Append(s, x), a, b)
Descendants(w, e) == IF e \in DOMAIN w.data THEN w.data[e].children ELSE <<>>

(* The expressions below e with the statement each is walked under; those  *)
(* that do not count are left out of the descendants of e.                 *)
Below(q, e, scope) ==
  LET n == q[e]
      Under(s, u, counts) == [k \in DOMAIN s |-> [node |-> s[k], under |-> u, counts |-> counts]]
  IN CASE n.kind \in Statements -> Under(n.inner \o n.of, e, TRUE)
       [] n.kind = "with" -> Under(n.of, scope, TRUE) \o Under(n.inner, n.of[1], FALSE)
       [] n.kind = "conflict" -> Under(n.inner, n.of[1], FALSE) \o Under(n.of, scope, FALSE)
       [] OTHER -> Under(n.of, scope, TRUE)

(* e.with() binds its references, which must not contain the statement.    *)
Bind(q, e, ref, w) ==
  IF ref \notin DOMAIN w.data \/ Contains(Descendants(w, ref), q[e].of[1]) THEN [w EXCEPT !.failed = TRUE]
  ELSE IF w.data[ref].boundScope # 0 THEN [w EXCEPT !.failed = TRUE]
  ELSE [w EXCEPT !.data[ref].boundScope = e]

Closing(q, e, w) ==
  LET n == q[e]
  IN CASE n.kind = "alias" -> IF n.of[1] < 0 THEN [w EXCEPT !.failed = TRUE]
                              ELSE [w EXCEPT !.data[n.of[1]].aliases = Append(@, e)]
       [] n.kind = "conflict" ->
            [w EXCEPT !.data[n.of[1]].children =
               FoldLeft(LAMBDA s, c : Join(s, <<c>> \o Descendants(w, c)), @, n.inner)]
       [] OTHER -> w

RECURSIVE walkExprTree(_, _, _, _)
walkExprTree(q, e, scope, w0) ==
  LET w == IF e > 0 /\ w0.rootScope = 0 THEN [w0 EXCEPT !.rootScope = scope] ELSE w0
      new == [refCount |-> 1, parentScopes |-> <<scope>>, children |-> <<>>, boundScope |-> 0, aliases |-> <<>>]
      Visit(v, b) ==
        LET walked == walkExprTree(q, b.node, b.under, v)
        IN IF b.counts
           THEN [walked EXCEPT !.data[e].children = Join(@, <<b.node>> \o Descendants(walked, b.node))]
           ELSE IF q[e].kind = "with" THEN Bind(q, e, b.node, walked) ELSE walked
  IN IF e < 0 \/ w.failed THEN w
     ELSE IF e \in DOMAIN w.data
     THEN [w EXCEPT !.data[e].refCount = @ + 1, !.data[e].parentScopes = Join(@, <<scope>>)]
     ELSE Closing(q, e, FoldLeft(Visit, [w EXCEPT !.seen = Append(@, e), !.data = (e :> new) @@ @], Below(q, e, scope)))

Walked(q) ==
  walkExprTree(q, Len(q), 0, [seen |-> <<>>, data |-> <<>>, rootScope |-> 0, failed |-> FALSE])

----------------------------------------------------------------------------
(* The statements around a scope, nearest first.                           *)
RECURSIVE ScopeChain(_, _, _)
ScopeChain(w, pending, scopes) ==
  IF pending = <<>> THEN scopes
  ELSE ScopeChain(w, Tail(pending) \o SelectSeq(w.data[Head(pending)].parentScopes, LAMBDA p : p # 0),
                  Join(scopes, <<Head(pending)>>))

CommonScope(w, parents) ==
  LET first == ScopeChain(w, <<parents[1]>>, <<>>)
      common == SelectSeq(first, LAMBDA s : \A n \in DOMAIN parents : Contains(ScopeChain(w, <<parents[n]>>, <<>>), s))
  IN IF common = <<>> THEN w.rootScope ELSE common[1]

NotHoisted(q, w, e) == w.data[e].boundScope = 0 /\ q[e].kind = "path"
Extracted(d) == d.refCount > 1 \/ d.boundScope # 0 \/ d.aliases # <<>>

(* An expression must be used only in the block it is extracted to, or in  *)
(* what that block already declares.                                       *)
ValidScopes(w, r, block) ==
  UNION {{x} \cup Range(Descendants(w, x)) : x \in {block} \cup Range(r.withBlocks[block])}

RefersTo(w, r, e) ==
  \E ref \in Range(w.refs[w.data[e].boundScope]) :
    ref # e /\ Contains(r.queue, ref) /\ Contains(Descendants(w, ref), e)

Declare(w, r, e, block) ==
  LET d == w.data[e]
      mine == SelectSeq(<<e>> \o d.aliases, LAMBDA v : w.data[v].boundScope \in {0, d.boundScope})
      used == UNION {Range(w.data[v].parentScopes) : v \in {e} \cup Range(d.aliases)}
  IN IF block = 0 \/ ~(used \subseteq ValidScopes(w, r, block) \ {0}) THEN [r EXCEPT !.failed = TRUE]
     ELSE [r EXCEPT !.withBlocks[block] = Join(@, mine), !.withVars = @ \cup Range(mine)]

(* One round of the loop over `seen`: an expression may be put back until  *)
(* the statements around it, or what refers to it, are resolved.           *)
ResolveNext(q, w, r0) ==
  LET e == Head(r0.queue)
      d == w.data[e]
      rest == [r0 EXCEPT !.queue = Tail(@)]
      r == IF HasScope(q, e) THEN [rest EXCEPT !.withVars = @ \cup {-e}] ELSE rest
      again == [r EXCEPT !.queue = Append(@, e)]
  IN IF e \in r0.withVars \/ NotHoisted(q, w, e) THEN rest
     ELSE IF ~Extracted(d) THEN r
     ELSE IF d.boundScope # 0
     THEN IF RefersTo(w, r, e) THEN again ELSE Declare(w, r, e, q[d.boundScope].of[1])
     ELSE IF \E p \in Range(d.parentScopes) : Contains(r.queue, p) THEN again
     ELSE IF Contains(d.parentScopes, 0) THEN [r EXCEPT !.failed = TRUE]
     ELSE Declare(w, r, e, CommonScope(w, d.parentScopes))

RECURSIVE ResolveAll(_, _, _, _)
ResolveAll(q, w, r, rounds) ==
  IF r.queue = <<>> \/ r.failed THEN r
  ELSE IF rounds = 0 THEN [r EXCEPT !.endless = TRUE]
  ELSE ResolveAll(q, w, ResolveNext(q, w, r), rounds - 1)

Resolved(q, w) ==
  ResolveAll(q, w, [queue |-> w.seen, withVars |-> {}, withBlocks |-> [e \in 1 .. Len(q) |-> <<>>],
                 failed |-> w.failed, endless |-> FALSE], (Len(q) + 1) * (Len(q) + 1))

----------------------------------------------------------------------------
(* Mutant: the variables of a block in the order they were extracted.      *)
topoSortNothing(w, vars) == vars

(* topoSortWithVars(): each variable after those among its descendants.    *)
RECURSIVE TopoVisit(_, _, _, _)
TopoVisit(w, vars, v, sorted) ==
  IF Contains(sorted, v) THEN sorted
  ELSE Append(FoldLeft(LAMBDA s, c : TopoVisit(w, vars, c, s), sorted,
                       SelectSeq(Descendants(w, v), LAMBDA c : Contains(vars, c))), v)
topoSortWithVars(w, vars) == FoldLeft(LAMBDA s, v : TopoVisit(w, vars, v, s), <<>>, vars)

(* renderEdgeQL(), as the set of what goes wrong with names: "error" when  *)
(* it throws, "unbound" when a name is used where the query does not       *)
(* declare it, "captured" when `_` stands for another select's elements.   *)
(* env: names in scope, the expressions rendered as `_` and the innermost  *)
(* of them.                                                                *)
NameOf(names, v) == IF v \in names THEN {} ELSE {"unbound"}
RECURSIVE renderEdgeQL(_, _, _, _, _)

(* The block of a statement: variables that depend on its scope variable   *)
(* are declared in a FOR over it, the others before it.                    *)
RenderBlock(q, x, e, env) ==
  LET sorted == topoSortWithVars(x.w, x.r.withBlocks[e])
      scoped == SelectSeq(sorted, LAMBDA v : HasScope(q, e) /\ Contains(Descendants(x.w, v), -e))
      unscoped == SelectSeq(sorted, LAMBDA v : ~Contains(scoped, v))
      Add(acc, v) ==
        [names |-> acc.names \cup {v},
         wrong |-> acc.wrong \cup
           renderEdgeQL(q, x, IF v < 0 THEN q[-v].of[1] ELSE v, v, [env EXCEPT !.names = acc.names])]
  IN FoldLeft(Add, [names |-> env.names, wrong |-> {}],
              unscoped \o (IF HasScope(q, e) THEN <<-e>> ELSE <<>>) \o scoped)

(* A select of scalars with modifiers names its elements `_`.              *)
NeedsScalarVar(q, x, e, env) ==
  /\ q[e].kind = "select" /\ ~q[e].scoped /\ q[e].inner # <<>>
  /\ q[e].of[1] \notin x.r.withVars \cup env.underscored

RenderAll(q, x, s, self, env) == UNION {renderEdgeQL(q, x, s[n], self, env) : n \in DOMAIN s}

RenderStatement(q, x, e, self, env) ==
  LET block == RenderBlock(q, x, e, env)
      inside == [env EXCEPT !.names = block.names]
      n == q[e]
  IN block.wrong \cup
     CASE n.kind = "for" ->
            renderEdgeQL(q, x, n.inner[1], self, inside)
              \cup renderEdgeQL(q, x, n.inner[2], self, [inside EXCEPT !.names = @ \cup {-e}])
       [] HasScope(q, e) -> RenderAll(q, x, n.inner, self, inside)
       [] NeedsScalarVar(q, x, e, env) ->
            renderEdgeQL(q, x, n.of[1], self, inside)
              \cup RenderAll(q, x, n.inner, self,
                             [inside EXCEPT !.underscored = @ \cup {n.of[1]}, !.under = n.of[1]])
       [] OTHER -> RenderAll(q, x, n.of \o n.inner, self, inside)

renderEdgeQL(q, x, e, self, env) ==
  IF e \in x.r.withVars /\ e # self THEN NameOf(env.names, e)
  ELSE IF e \in env.underscored THEN (IF env.under = e THEN {} ELSE {"captured"})
  ELSE IF e < 0 THEN (IF e \in env.names THEN {} ELSE {"error"})
  ELSE LET n == q[e]
       IN CASE n.kind \in Statements -> RenderStatement(q, x, e, self, env)
            [] n.kind = "conflict" ->
                 renderEdgeQL(q, x, n.of[1], self, env)
                   \cup RenderAll(q, x, n.inner, self, [env EXCEPT !.names = RenderBlock(q, x, n.of[1], env).names])
            [] n.kind = "alias" -> IF n.of[1] \in x.r.withVars THEN NameOf(env.names, n.of[1]) ELSE {"error"}
            [] n.kind = "detached" -> renderEdgeQL(q, x, n.of[1], n.of[1], env)
            [] OTHER -> RenderAll(q, x, n.of, self, env)

toEdgeQL(q) ==
  LET w == Walked(q) @@ [refs |-> [e \in 1 .. Len(q) |-> q[e].inner]]
      r == Resolved(q, w)
  IN IF r.endless THEN {"endless"}
     ELSE IF r.failed THEN {"error"}
     ELSE renderEdgeQL(q, [w |-> w, r |-> r], Len(q), 0, [names |-> {}, underscored |-> {}, under |-> 0])

----------------------------------------------------------------------------
(* What the builder's functions can make: closed terms whose parts are all *)
(* used, with statements where statements are asked for.                   *)
IsQuery(q) ==
  LET Parts(e) == Range(q[e].of) \cup Range(q[e].inner)
  IN /\ q[Len(q)].kind \in Statements \cup {"with", "conflict"}
     /\ FreeVars(q, Len(q)) = {}
     /\ \A e \in 1 .. Len(q) - 1 : \E f \in e + 1 .. Len(q) : e \in Parts(f)
     /\ \A e \in DOMAIN q :
          /\ q[e].kind = "with" => q[q[e].of[1]].kind \in Statements
          /\ q[e].kind \in {"with", "alias"} => \A f \in Parts(e) : f > 0
          /\ q[e].kind = "insert" => q[q[e].of[1]].kind = "path"
          /\ q[e].kind = "conflict" =>
               /\ q[q[e].of[1]].kind = "insert"
               /\ \A f \in DOMAIN q \ {e} : q[e].of[1] \notin Parts(f)

(* No expression used in several statements contains an extracted one.     *)
SharedInOnePlace(q) ==
  LET w == Walked(q)
  IN \A e \in DOMAIN w.data : Len(w.data[e].parentScopes) > 1 =>
       \A f \in Range(w.data[e].children) \cap DOMAIN w.data :
         NotHoisted(q, w, f) \/ ~Extracted(w.data[f])

(* No select of scalars with modifiers inside the modifiers of another.    *)
RECURSIVE Inside(_, _)
Inside(q, s) == UNION {IF s[n] < 0 THEN {} ELSE {s[n]} \cup Inside(q, q[s[n]].of \o q[s[n]].inner) : n \in DOMAIN s}
ScalarSelects(q, es) == {e \in es : q[e].kind = "select" /\ ~q[e].scoped /\ q[e].inner # <<>>}
ScalarsApart(q) == \A e \in ScalarSelects(q, DOMAIN q) : ScalarSelects(q, Inside(q, q[e].inner)) = {}
NoneOf(q, kinds) == \A e \in DOMAIN q : q[e].kind \notin kinds
=============================================================================
