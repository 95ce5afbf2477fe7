----------------------------- MODULE AuthRoutes -----------------------------
(***************************************************************************)
(* What the route handlers of the four framework packages share: the shape *)
(* of a request, of an answer and of the cookies an answer writes, and the *)
(* two shapes of a handler, one that begins a flow and one that ends it.   *)
(*                                                                         *)
(* A request r has: route; flow, the one its code or token is of; params,  *)
(* "code" (the code or the token is there), "error" (the server sent the   *)
(* browser back with an error), "empty" (neither) or "mailed" (builtin UI: *)
(* a verification mail was sent); flag, isSignUp in its address; new, the  *)
(* user has no identity yet; app, what the application's callback returns; *)
(* cookies, the four the browser attached.                                 *)
(***************************************************************************)
EXTENDS AuthCore

CookieNames == {"verifier", "oldVerifier", "session", "oldSession"}

\* Milliseconds, as Date.now().  Forever: no expiry in the time modelled.
Hour == 60 * 60 * 1000
Day == 24 * Hour
Forever == 12 * Day

Cookie(flow, life, strict) == [flow |-> flow, life |-> life, strict |-> strict]
Gone == Cookie(Nobody, 0, FALSE)
NoWrites == [n \in {} |-> Gone]

\* What both write; where the two write the same cookie, the first counts.
Both(w, x) == [n \in DOMAIN w \cup DOMAIN x |-> IF n \in DOMAIN w THEN w[n] ELSE x[n]]

Answer(s, told, flag, writes) ==
  [srv |-> s, reply |-> "done", told |-> told, flag |-> flag, writes |-> writes]

\* The error is reported (thrown, passed to the callback or to next()); no cookie is written.
Refused(s) == [srv |-> s, reply |-> "error", told |-> Nobody, flag |-> FALSE, writes |-> NoWrites]

\* The application's callback fails after the answer was made: an error is thrown, and the
\* cookies are not sent.
Thrown(a) ==
  [srv |-> a.srv, reply |-> "error", told |-> a.told, flag |-> a.flag, writes |-> NoWrites]

\* The cookie under its present name, or else under the name of earlier releases.
Either(cookies, name, oldName) ==
  IF cookies[name] # Nobody THEN cookies[name] ELSE cookies[oldName]

Served(calls, flag, Writes(_)) ==
  {IF c.ok THEN Answer(c.srv, c.token, flag, Writes(c.token)) ELSE Refused(c.srv) : c \in calls}

\* A handler that ends a flow: without the code (or token) or without a verifier
\* it reports an error and calls nobody.
Redeem(r, s, verifier, calls, Writes(_)) ==
  IF r.params # "code" \/ verifier = Nobody THEN {Refused(s)}
  ELSE Served(calls, r.flag, Writes)

\* A sign up writes the verifier in any case, the session when it is complete.
SignUpWrites(f, token, Verifier(_), Session(_)) ==
  Both(Verifier(f), IF token = Nobody THEN NoWrites ELSE Session(token))
=============================================================================
