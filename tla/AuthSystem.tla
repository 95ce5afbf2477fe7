----------------------------- MODULE AuthSystem -----------------------------
(***************************************************************************)
(* Browsers, an application that uses one of the framework packages, and   *)
(* the auth server.  A request is handled when it is sent, with the        *)
(* cookies the browser has then; its answer is delivered later, and        *)
(* answers overtake each other.  A link in a mail may be opened in any     *)
(* browser, any number of times.                                           *)
(***************************************************************************)
EXTENDS Integers, FiniteSets

CONSTANTS
  Frameworks,   \* those the model starts with, of "next", "nextapp", "remix", "sveltekit", "express"
  Browsers,     \* a set of positive integers; each is a user's
  Flows,        \* the PKCE sessions that may begin, 1 .. n
  FirstKinds,   \* the routes that may begin flow 1
  LaterKinds,   \* and those that may begin the others
  Clocks,       \* the times at which something happens, in milliseconds
  MaxInFlight   \* MaxInFlight[b] bounds the answers on their way to browser b.  Those of different
                \* browsers do not meet: it is enough that one browser waits at a time.

ASSUME FrameworksAssumption == Frameworks \subseteq {"next", "nextapp", "remix", "sveltekit", "express"}
ASSUME FlowsAssumption == Flows = 1 .. Cardinality(Flows) /\ 1 \in Flows
ASSUME ClocksAssumption == Clocks \subseteq Nat /\ 0 \in Clocks

Next_ == INSTANCE NextAuth
App == INSTANCE NextAppAuth
Remix == INSTANCE RemixAuth
Svelte == INSTANCE SvelteKitAuth
Express == INSTANCE ExpressAuth
Core == INSTANCE AuthRoutes

VARIABLES
  framework,  \* the package the application uses
  app,        \* its callbacks "redirect", or return a "page"; with auth-express "page" also says
              \* that it mounts the middlewares itself
  srv,        \* the auth server's flows
  jar,        \* jar[b]: the cookies of browser b, [flow, until, strict] by name
  answers,    \* answers not delivered
  hung,       \* a request was left without an answer
  clock,
  latest,     \* latest[b]: the flow whose start was the last to be answered in b, with nothing
              \* else of b in flight and a cookie that comes with links, and when; or no flow
  origin,     \* origin[f]: the browser whose request began flow f
  overlap,    \* overlap[b]: b waits, or last waited, for two answers at a time
  out         \* out[b]: b was told it is signed out and got no session since

vars == <<framework, app, srv, jar, answers, hung, clock, latest, origin, overlap, out>>

Nobody == Core!Nobody
Absent == [flow |-> Nobody, until |-> 0, strict |-> FALSE]
NoLatest == [flow |-> Nobody, at |-> 0]

StartRoutes == {"oauth", "builtin/start", "email/signup", "email/send-reset", "email/resend",
                "webauthn/signup", "magiclink/signup", "magiclink/send",
                "email/signin", "webauthn/signin"}
FollowRoutes == {"oauth/callback", "builtin/callback", "magiclink/callback",
                 "email/verify", "webauthn/verify", "email/reset"}

----------------------------------------------------------------------------
\* What the browser attaches: a strict cookie not to a request from another site.
Attached(b, crossSite) ==
  [n \in Core!CookieNames |-> IF crossSite /\ jar[b][n].strict THEN Nobody ELSE jar[b][n].flow]

InFlight(b) == {a \in answers : a.browser = b}
Unused == {f \in Flows : srv[f].status = "none"}

\* The signed-in user of a browser, as the packages read it.
Session(b) ==
  LET cookies == Attached(b, FALSE)
  IN CASE framework \in {"next", "nextapp"} -> Next_!getSession(cookies)
       [] framework = "remix" -> Remix!getSession(cookies)
       [] framework = "sveltekit" -> Svelte!session(cookies)
       [] framework = "express" -> Express!getSession(cookies)

\* The routes of the package, for a request and a flow not begun yet.
Handler(q, s, f) ==
  CASE framework = "next" ->
         IF q.route \in {"email/signin", "email/signup", "email/send-reset", "email/reset",
                         "email/resend", "webauthn/signup", "webauthn/signin",
                         "magiclink/signup", "magiclink/send"}
           THEN Next_!POST(q, s, f) ELSE Next_!GET(q, s, f)
    [] framework = "nextapp" -> App!Action(q, s, f)
    [] framework = "remix" -> Remix!Handle(q, s, f)
    [] framework = "sveltekit" -> Svelte!Method(q, s, f)
    [] framework = "express" -> Express!Handle(q, s, f)

----------------------------------------------------------------------------
(* Requests.  One that no handler answers with a cookie is sent alone only: *)
(* it cannot affect another.                                                *)

\* Browser b sends q to the application, which handles it; the auth server is in state s, and the
\* verifier drawn is f.
Request(b, route, flow, params, new, crossSite, f, s) ==
  LET q == [route |-> route, flow |-> flow, params |-> params, new |-> new, app |-> app,
            flag |-> flow # Nobody /\ s[flow].flag, cookies |-> Attached(b, crossSite)]
  IN /\ Cardinality(InFlight(b)) < MaxInFlight[b]
     /\ \A other \in Browsers \ {b} : InFlight(other) = {}
     /\ overlap' = [overlap EXCEPT ![b] = InFlight(b) # {}]
     /\ \E a \in Handler(q, s, f) :
          /\ srv' = a.srv
          /\ origin' = IF f = Nobody THEN origin ELSE [origin EXCEPT ![f] = b]
          /\ hung' = (hung \/ a.reply = "none")
          /\ answers' = IF a.writes = Core!NoWrites THEN answers  \* it changes nothing in the browser
               ELSE answers \cup {[browser |-> b, route |-> route, reply |-> a.reply, told |-> a.told,
                                   flag |-> a.flag, writes |-> a.writes]}
     /\ UNCHANGED <<framework, app, jar, clock, latest, out>>

\* The user begins to sign in or up, or asks for a mail.  By symmetry flow 1 is browser 1's.
Begin(b, route, new) ==
  \E f \in Unused :
    /\ \A g \in Unused : f <= g
    /\ route \in IF f = 1 THEN FirstKinds ELSE LaterKinds
    /\ f = 1 => b = 1
    /\ new => route \in {"oauth", "builtin/start"}
    /\ Request(b, route, Nobody, "code", new, FALSE, f, srv)

\* The user asks for the verification mail again, by the token of the first.
ResendByToken(b, f) ==
  /\ InFlight(b) = {}
  /\ srv[f].kind = "email"
  /\ Request(b, "email/resend", f, "code", FALSE, FALSE, Nobody, srv)

SignOut(b) == Request(b, "signout", Nobody, "code", FALSE, FALSE, Nobody, srv)

CallbackOf(kind) ==
  CASE kind = "oauth" -> "oauth/callback"
    [] kind = "builtin" -> "builtin/callback"
    [] kind = "magic" -> "magiclink/callback"

\* The user comes back from the provider or follows a magic link: the server issues a code
\* and redirects.  The hosted UI issues another one after its verification mail.
Redirected(b, f) ==
  LET again == srv[f].kind = "builtin" /\ srv[f].new /\ srv[f].status = "used"
  IN /\ srv[f].kind \in {"oauth", "builtin", "magic"}
     /\ srv[f].kind = "oauth" => b = origin[f]
     /\ Request(b, CallbackOf(srv[f].kind), f, "code", FALSE, TRUE, Nobody,
                IF again \/ srv[f].status = "open" THEN [srv EXCEPT ![f].status = "code"] ELSE srv)

\* The server redirects with an error, or the hosted UI says it sent a mail.
RedirectedWithout(b, f, params) ==
  /\ InFlight(b) = {}
  /\ srv[f].kind \in {"oauth", "builtin", "magic"}
  /\ params = "mailed" => srv[f].kind = "builtin" /\ srv[f].new
  /\ Request(b, CallbackOf(srv[f].kind), f, params, FALSE, TRUE, Nobody, srv)

\* The user follows the link of a verification mail, or submits the form of a reset link.
Followed(b, f, params) ==
  /\ params = "empty" => InFlight(b) = {}
  /\ srv[f].kind \in {"email", "webauthn", "reset"}
  /\ Request(b, CASE srv[f].kind = "email" -> "email/verify"
                  [] srv[f].kind = "webauthn" -> "webauthn/verify"
                  [] srv[f].kind = "reset" -> "email/reset",
             f, params, FALSE, srv[f].kind # "reset", Nobody, srv)

----------------------------------------------------------------------------
(* Answers and time.                                                        *)

\* The browser stores the cookies of an answer: the last one to arrive wins.
Stored(c) == IF c.flow = Nobody THEN Absent
             ELSE [flow |-> c.flow, strict |-> c.strict,
                   until |-> IF c.life = Core!Forever THEN Core!Forever ELSE clock + c.life]

Deliver(a) ==
  LET b == a.browser
      writes(n) == n \in DOMAIN a.writes
  IN /\ answers' = answers \ {a}
     /\ jar' = [jar EXCEPT ![b] = [n \in Core!CookieNames |->
                                     IF writes(n) THEN Stored(a.writes[n]) ELSE jar[b][n]]]
     /\ latest' = IF writes("verifier") /\ (overlap[b] \/ a.writes["verifier"].strict)
                    THEN [latest EXCEPT ![b] = NoLatest]
                  ELSE IF writes("verifier") /\ a.writes["verifier"].flow # Nobody
                    THEN [latest EXCEPT ![b] = [flow |-> a.writes["verifier"].flow, at |-> clock]]
                  ELSE latest
     /\ out' = CASE a.route = "signout" /\ a.reply = "done" -> [out EXCEPT ![b] = TRUE]
                 [] writes("session") /\ a.route # "signout" -> [out EXCEPT ![b] = FALSE]
                 [] OTHER -> out
     /\ UNCHANGED <<framework, app, srv, hung, clock, origin, overlap>>

\* Time passes while nobody waits, and cookies expire.
Tick ==
  /\ answers = {}
  /\ \E t \in Clocks :
       /\ t > clock
       /\ clock' = t
       /\ jar' = [b \in Browsers |-> [n \in Core!CookieNames |->
                    IF jar[b][n].until > t THEN jar[b][n] ELSE Absent]]
  /\ UNCHANGED <<framework, app, srv, answers, hung, latest, origin, overlap, out>>

Init ==
  /\ framework \in Frameworks
  /\ app \in IF framework \in {"next", "nextapp"} THEN {"redirect"} ELSE {"redirect", "page"}
  /\ answers = {}
  /\ hung = FALSE
  /\ clock = 0
  /\ latest = [b \in Browsers |-> NoLatest]
  /\ overlap = [b \in Browsers |-> FALSE]
  /\ out = [b \in Browsers |-> FALSE]
  /\ \E legacy \in {"none", "verifier", "session"} :  \* cookies of an earlier release in browser 1
       LET kept == [flow |-> 1, until |-> Core!Forever, strict |-> FALSE]
           name == IF legacy = "verifier" THEN "oldVerifier" ELSE "oldSession"
       IN IF legacy = "none"
            THEN /\ srv = [f \in Flows |-> Core!NoFlow]
                 /\ origin = [f \in Flows |-> Nobody]
                 /\ jar = [b \in Browsers |-> [n \in Core!CookieNames |-> Absent]]
            ELSE /\ srv = [f \in Flows |->
                       CASE f # 1 -> Core!NoFlow
                         [] f = 1 /\ legacy = "verifier" ->
                              [kind |-> "email", status |-> "open", new |-> TRUE, flag |-> FALSE]
                         [] f = 1 /\ legacy = "session" ->
                              [kind |-> "direct", status |-> "used", new |-> FALSE, flag |-> FALSE]]
                 /\ origin = [f \in Flows |-> IF f = 1 THEN 1 ELSE Nobody]
                 /\ jar = [b \in Browsers |-> [n \in Core!CookieNames |->
                              IF b = 1 /\ n = name THEN kept ELSE Absent]]

Next ==
  \/ \E b \in Browsers :
       \/ \E route \in StartRoutes, new \in BOOLEAN : Begin(b, route, new)
       \/ SignOut(b)
       \/ \E f \in Flows :
            \/ ResendByToken(b, f)
            \/ Redirected(b, f)
            \/ \E params \in {"error", "mailed"} : RedirectedWithout(b, f, params)
            \/ \E params \in {"code", "empty"} : Followed(b, f, params)
  \/ \E a \in answers : Deliver(a)
  \/ Tick

Spec == Init /\ [][Next]_vars

----------------------------------------------------------------------------
(* Safety.                                                                  *)

\* A browser is signed in only with a flow that was begun in it: the code of a flow is no use
\* without the verifier, which only the browser that began it holds.
SessionsAreOwn == \A b \in Browsers : Session(b) # Nobody => origin[Session(b)] = b

\* The verifier of the last flow begun in a browser is there for as long as the flow may end,
\* within `life` of its beginning, when nothing else was in flight then: no answer to an earlier
\* flow, to a failed attempt or to the hosted UI's first code removes it.
KeptFor(life) ==
  \A b \in Browsers :
    LET f == latest[b].flow
    IN f # Nobody /\ srv[f].status \in {"open", "code"} /\ clock < latest[b].at + life
         => jar[b]["verifier"].flow = f

LatestFlowKept == KeptFor(2 * Core!Hour)

\* The packages' own comment: "in 7 days" (the cookie of auth-remix, -sveltekit and -express).
VerifierLastsAWeek == KeptFor(7 * Core!Day)

\* Once a browser was told that it is signed out it has no session, not even an earlier one that a
\* cookie of a former release's name still held, until a new one is written.
SignedOut == \A b \in Browsers : out[b] => Session(b) = Nobody

\* isSignUp of a completed flow tells whether its identity was new.  A magic link tells it in
\* auth-nextjs alone: the other packages send both mails with the same callback address.
FlagTellsSignUp ==
  \A a \in answers :
    a.told # Nobody /\ a.route \in {"oauth/callback", "builtin/callback", "magiclink/callback"}
      /\ (a.route = "magiclink/callback" => framework \in {"next", "nextapp"})
      => a.flag = srv[a.told].new

\* A link opened in a browser that has no verifier spends nothing: it still works in the browser
\* that has it.
LinkSparedElsewhere ==
  [][\A f \in Flows :
       srv[f].kind \in {"email", "webauthn", "reset"} /\ srv[f].status = "open" /\ srv'[f].status # "open"
         => \A b \in Browsers :
              jar[b]["verifier"].flow = Nobody /\ jar[b]["oldVerifier"].flow = Nobody
                => ~Followed(b, f, "code")]_vars
=============================================================================
