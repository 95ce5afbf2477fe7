----------------------------- MODULE AuthProofs -----------------------------
(***************************************************************************)
(* What AuthSystem guarantees for any browsers, flows and times, whichever *)
(* package the application uses.                                           *)
(***************************************************************************)
EXTENDS AuthSystem, TLAPS

FlowState == Core!FlowState
MaybeFlow == Flows \cup {Nobody}
TwoHours == 2 * Core!Hour

----------------------------------------------------------------------------
(* What an answer may be, by what was asked. *)

(* What isSignUp says of a flow is right, where it is said at all. *)
SaysSignUp(kind) == kind \in {"oauth", "builtin"} \/ (kind = "magic" /\ framework \in {"next", "nextapp"})
FlagRight(x) == SaysSignUp(x.kind) => x.flag = x.new

(* The cookies of an answer that begins flow f: a verifier that comes with *)
(* links lives for two hours at least.                                     *)
Lasting(c) == c.strict \/ (c.life \in Nat /\ c.life >= TwoHours /\ c.life # Core!Forever)
StartWrites(f, w) ==
  \A n \in DOMAIN w :
    /\ n \in {"verifier", "session"}
    /\ w[n].flow \in {Nobody, f}
    /\ n = "verifier" => /\ w[n].flow = f
                         /\ Lasting(w[n])

(* And of one that ends it: its session, and no verifier any more.         *)
EndWrites(f, w) ==
  \A n \in DOMAIN w :
    /\ n \in {"verifier", "oldVerifier", "session"}
    /\ w[n].flow = IF n = "session" THEN f ELSE Nobody

(* The answer to a request that begins flow f. *)
Started(s, f, a) ==
  /\ a.srv \in [Flows -> FlowState]
  /\ \A g \in Flows \ {f} : a.srv[g] = s[g]
  /\ a.srv = s \/ (a.srv[f].status # "none" /\ FlagRight(a.srv[f]))
  /\ StartWrites(f, a.writes)
  /\ a.srv[f].status # "none" \/ DOMAIN a.writes = {}

VerifierOf(q) == Core!Either(q.cookies, "verifier", "oldVerifier")

(* The answer to one that ends the flow its code or token is of.           *)
Ended(q, s, a) ==
  /\ a.srv \in [Flows -> FlowState]
  /\ \A g \in Flows \ {q.flow} : a.srv[g] = s[g]
  /\ a.srv[q.flow].kind = s[q.flow].kind
  /\ a.srv[q.flow].new = s[q.flow].new /\ a.srv[q.flow].flag = s[q.flow].flag
  /\ s[q.flow].status = "none" <=> a.srv[q.flow].status = "none"
  /\ s[q.flow].status = "used" => a.srv[q.flow].status = "used"
  /\ VerifierOf(q) = Nobody => a.srv = s
  /\ a.told # Nobody => a.told = q.flow /\ a.flag = q.flag /\ a.srv[q.flow].status = "used"
  /\ EndWrites(q.flow, a.writes)
  /\ q.route = "builtin/callback" => "verifier" \notin DOMAIN a.writes
  /\ DOMAIN a.writes = {} \/ (VerifierOf(q) = q.flow /\ a.srv[q.flow].status = "used")

(* The answer to one that only signs out, and to one that does nothing.    *)
Left(s, a) ==
  /\ a.srv = s
  /\ \A n \in DOMAIN a.writes : n \in {"session", "oldSession"} /\ a.writes[n].flow = Nobody
  /\ a.reply = "done" => {"session", "oldSession"} \subseteq DOMAIN a.writes

Idle(s, a) == a.srv = s /\ DOMAIN a.writes = {}

----------------------------------------------------------------------------
(* Handlers: the answer to each outcome of the call they make. *)

Reply(c, flag, w) == IF c.ok THEN Core!Answer(c.srv, c.token, flag, w) ELSE Core!Refused(c.srv)

(* An answer has the fields it is made with. *)
LEMMA ReplyFacts ==
  ASSUME NEW c, NEW flag, NEW w
  PROVE  /\ Reply(c, flag, w).srv = c.srv
         /\ c.ok => /\ Reply(c, flag, w).told = c.token /\ Reply(c, flag, w).flag = flag
                    /\ Reply(c, flag, w).writes = w
         /\ ~c.ok => /\ Reply(c, flag, w).told = Nobody /\ DOMAIN Reply(c, flag, w).writes = {}
BY DEF Reply, Core!Answer, Core!Refused, Core!NoWrites, Nobody

(* The outcome of a call that begins flow f, and of one that ends it. *)
Begins(s, f, c) ==
  \E kind, new, says : Core!Starts(Flows, s, f, c, kind, new, says) /\ (SaysSignUp(kind) => says = new)
Finishes(q, s, c) == Core!Ends(Flows, s, q.flow, VerifierOf(q), c)

(* A handler whose call begins a flow answers as it should. *)
LEMMA StartReply ==
  ASSUME NEW s, NEW f \in Flows, NEW c, NEW flag, NEW w, Begins(s, f, c), StartWrites(f, w)
  PROVE  Started(s, f, Reply(c, flag, w))
<1>0. PICK kind, new, says : Core!Starts(Flows, s, f, c, kind, new, says) /\ (SaysSignUp(kind) => says = new)
  BY DEF Begins
<1> DEFINE a == Reply(c, flag, w)
<1>1. /\ a.srv = c.srv
      /\ c.ok => a.writes = w
      /\ ~c.ok => DOMAIN a.writes = {}
  BY ReplyFacts
<1> HIDE DEF a
<1>2. /\ c.srv \in [Flows -> FlowState] /\ \A g \in Flows \ {f} : c.srv[g] = s[g]
      /\ \/ c.srv = s /\ ~c.ok
         \/ /\ c.srv[f].status # "none" /\ c.srv[f].kind = kind
            /\ c.srv[f].new = new /\ c.srv[f].flag = says
  BY <1>0 DEF Core!Starts, FlowState
<1>3. a.srv = s \/ (a.srv[f].status # "none" /\ FlagRight(a.srv[f]))
  BY <1>0, <1>1, <1>2 DEF FlagRight
<1>4. StartWrites(f, a.writes)
  BY <1>1 DEF StartWrites
<1>5. a.srv[f].status # "none" \/ DOMAIN a.writes = {}
  BY <1>1, <1>2
<1>6. Started(s, f, a)
  BY <1>1, <1>2, <1>3, <1>4, <1>5 DEF Started
<1> QED
  BY <1>6 DEF a

(* And so does one whose call ends it. *)
LEMMA EndReply ==
  ASSUME NEW s, NEW q, NEW c, NEW w, q.flow \in Flows,
         Finishes(q, s, c), VerifierOf(q) # Nobody,
         EndWrites(c.token, w), q.route = "builtin/callback" => "verifier" \notin DOMAIN w
  PROVE  Ended(q, s, Reply(c, q.flag, w))
<1> DEFINE a == Reply(c, q.flag, w)
<1>1. /\ a.srv = c.srv
      /\ c.ok => a.told = c.token /\ a.flag = q.flag /\ a.writes = w
      /\ ~c.ok => a.told = Nobody /\ DOMAIN a.writes = {}
  BY ReplyFacts
<1> HIDE DEF a
<1>2. /\ c.srv \in [Flows -> FlowState] /\ \A g \in Flows \ {q.flow} : c.srv[g] = s[g]
      /\ c.srv[q.flow].kind = s[q.flow].kind
      /\ c.srv[q.flow].new = s[q.flow].new /\ c.srv[q.flow].flag = s[q.flow].flag
      /\ s[q.flow].status = "none" <=> c.srv[q.flow].status = "none"
      /\ s[q.flow].status = "used" => c.srv[q.flow].status = "used"
      /\ c.ok => VerifierOf(q) = q.flow /\ c.token = q.flow /\ c.srv[q.flow].status = "used"
  BY DEF Finishes, Core!Ends, FlowState
<1>3. EndWrites(q.flow, a.writes)
  BY <1>1, <1>2 DEF EndWrites
<1>4. a.told # Nobody => a.told = q.flow /\ a.flag = q.flag /\ a.srv[q.flow].status = "used"
  BY <1>1, <1>2
<1>5. q.route = "builtin/callback" => "verifier" \notin DOMAIN a.writes
  BY <1>1
<1>6. DOMAIN a.writes = {} \/ (VerifierOf(q) = q.flow /\ a.srv[q.flow].status = "used")
  BY <1>1, <1>2
<1>7. Ended(q, s, a)
  BY <1>1, <1>2, <1>3, <1>4, <1>5, <1>6 DEF Ended
<1> QED
  BY <1>7 DEF a

(* A request that is refused changes nothing, nor does an error that is    *)
(* thrown afterwards undo what was done.                                   *)
LEMMA RefusedFacts ==
  ASSUME NEW s \in [Flows -> FlowState], NEW q, q.flow \in Flows
  PROVE  Ended(q, s, Core!Refused(s))
BY DEF Ended, EndWrites, Core!Refused, Core!NoWrites, Nobody

(* A hook that throws out of a callback that ended a flow still ended it.   *)
LEMMA ThrownFacts ==
  ASSUME NEW s, NEW q, NEW a, Ended(q, s, a)
  PROVE  Ended(q, s, Core!Thrown(a))
<1> DEFINE t == Core!Thrown(a)
<1>1. t.srv = a.srv /\ t.told = a.told /\ t.flag = a.flag /\ DOMAIN t.writes = {}
  BY DEF Core!Thrown, Core!NoWrites
<1> HIDE DEF t
<1>2. Ended(q, s, t)
  BY <1>1 DEF Ended, EndWrites
<1> QED
  BY <1>2 DEF t

(* Hearing that a mail was sent changes nothing either. *)
LEMMA MailedFacts ==
  ASSUME NEW s \in [Flows -> FlowState], NEW q, q.flow \in Flows
  PROVE  Ended(q, s, Core!Answer(s, Core!Nobody, TRUE, Core!NoWrites))
BY DEF Ended, EndWrites, Core!Answer, Core!NoWrites, Nobody

----------------------------------------------------------------------------
(* auth-nextjs: the route handlers. *)

(* The cookies it writes. *)
LEMMA NextWrites ==
  ASSUME NEW f \in Flows
  PROVE  /\ StartWrites(f, Next_!setVerifierCookie(f))
         /\ StartWrites(f, [verifier |-> Next_!Cookie(f, Next_!Forever, TRUE)])
         /\ \A t \in {Nobody, f} : /\ StartWrites(f, Next_!setAuthCookie(t))
                                   /\ StartWrites(f, Next_!SignUpWrites(f, t, Next_!setVerifierCookie, Next_!setAuthCookie))
         /\ \A t : /\ EndWrites(t, Next_!SignedIn(t)) /\ EndWrites(t, Next_!setAuthCookie(t))
                   /\ "verifier" \notin DOMAIN Next_!setAuthCookie(t)
<1>1. Next_!VerifierLife = 604800000 /\ TwoHours = 7200000 /\ Core!Forever = 1036800000
  BY DEF Next_!VerifierLife, TwoHours, Core!Hour, Core!Forever, Core!Day
<1>2. StartWrites(f, Next_!setVerifierCookie(f))
  BY <1>1 DEF StartWrites, Lasting, Next_!setVerifierCookie, Next_!Cookie
<1>3. StartWrites(f, [verifier |-> Next_!Cookie(f, Next_!Forever, TRUE)])
  BY DEF StartWrites, Lasting, Next_!Cookie
<1>4. ASSUME NEW t \in {Nobody, f} PROVE StartWrites(f, Next_!setAuthCookie(t))
  BY DEF StartWrites, Next_!setAuthCookie, Next_!Cookie
<1>5. ASSUME NEW t \in {Nobody, f} PROVE StartWrites(f, Next_!SignUpWrites(f, t, Next_!setVerifierCookie, Next_!setAuthCookie))
  BY <1>2, <1>4 DEF StartWrites, Lasting, Next_!SignUpWrites, Next_!Both, Next_!NoWrites
     , Next_!setVerifierCookie, Next_!setAuthCookie
<1>6. ASSUME NEW t PROVE EndWrites(t, Next_!SignedIn(t)) /\ EndWrites(t, Next_!setAuthCookie(t)) /\ "verifier" \notin DOMAIN Next_!setAuthCookie(t)
  BY DEF EndWrites, Next_!SignedIn, Next_!Both, Next_!deleteVerifierCookie, Next_!setAuthCookie
     , Next_!Gone, Next_!Cookie, Next_!Nobody, Nobody, Core!Nobody
<1> QED
  BY <1>2, <1>3, <1>4, <1>5, <1>6

(* What its calls to the auth server do. *)
LEMMA NextCalls ==
  ASSUME NEW s \in [Flows -> FlowState], NEW f \in Flows, NEW new \in BOOLEAN
  PROVE  /\ \A c \in Next_!createPKCESession(s, f, "oauth", new, FALSE, TRUE)
                      \cup Next_!createPKCESession(s, f, "builtin", new, FALSE, TRUE) : Begins(s, f, c)
         /\ \A c \in Next_!signupWithEmailPassword(s, f)
                      \cup Next_!signupWithWebAuthn(s, f) : Begins(s, f, c)
         /\ \A c \in Next_!signinWithEmailPassword(s, f)
                      \cup Next_!signinWithWebAuthn(s, f) : Begins(s, f, c)
         /\ \A c \in Next_!signupWithMagicLink(s, f, TRUE)
                      \cup Next_!signinWithMagicLink(s, f, FALSE) : Begins(s, f, c)
         /\ \A c \in Next_!sendPasswordResetEmail(s, f)
                      \cup Next_!resendVerificationEmailForEmail(s, f) : Begins(s, f, c)
<1>1. ASSUME NEW c, NEW kind, NEW n, NEW says, Next_!Starts(Flows, s, f, c, kind, n, says),
             SaysSignUp(kind) => says = n
      PROVE  Begins(s, f, c)
  <2>1. Core!Starts(Flows, s, f, c, kind, n, says)
    BY <1>1, Zenon DEF Core!Starts, Next_!Starts, Core!FlowState, Next_!FlowState, Core!Nobody
       , Next_!Nobody
  <2> QED
    BY <1>1, <2>1, Zenon DEF Begins
<1>2. s \in [Flows -> Next_!FlowState]
  BY Zenon DEF FlowState, Core!FlowState, Next_!FlowState
<1>3. /\ \A c \in Next_!createPKCESession(s, f, "oauth", new, FALSE, TRUE) :
           Next_!Starts(Flows, s, f, c, "oauth", new, new)
      /\ \A c \in Next_!createPKCESession(s, f, "builtin", new, FALSE, TRUE) :
           Next_!Starts(Flows, s, f, c, "builtin", new, new)
  BY <1>2, Next_!StartFacts, Zenon
<1>4. \A c \in Next_!createPKCESession(s, f, "oauth", new, FALSE, TRUE)
          \cup Next_!createPKCESession(s, f, "builtin", new, FALSE, TRUE) : Begins(s, f, c)
  BY <1>1, <1>3, Zenon
<1>5. /\ \A c \in Next_!signupWithEmailPassword(s, f) : Next_!Starts(Flows, s, f, c, "email", TRUE, FALSE)
      /\ \A c \in Next_!signupWithWebAuthn(s, f) : Next_!Starts(Flows, s, f, c, "webauthn", TRUE, FALSE)
      /\ \A c \in Next_!sendPasswordResetEmail(s, f) : Next_!Starts(Flows, s, f, c, "reset", FALSE, FALSE)
      /\ \A c \in Next_!resendVerificationEmailForEmail(s, f) : Next_!Starts(Flows, s, f, c, "email", TRUE, FALSE)
      /\ \A c \in Next_!signinWithEmailPassword(s, f) \cup Next_!signinWithWebAuthn(s, f) :
           Next_!Starts(Flows, s, f, c, "direct", FALSE, FALSE)
  BY <1>2, Next_!StartFacts, Zenon
<1>6. /\ \A c \in Next_!signupWithMagicLink(s, f, TRUE) : Next_!Starts(Flows, s, f, c, "magic", TRUE, TRUE)
      /\ \A c \in Next_!signinWithMagicLink(s, f, FALSE) : Next_!Starts(Flows, s, f, c, "magic", FALSE, FALSE)
  BY <1>2, Next_!StartFacts
<1>7. ~SaysSignUp("email") /\ ~SaysSignUp("webauthn") /\ ~SaysSignUp("direct") /\ ~SaysSignUp("reset")
  BY DEF SaysSignUp
<1>8. \A c \in Next_!signupWithEmailPassword(s, f)
          \cup Next_!signupWithWebAuthn(s, f) : Begins(s, f, c)
  BY <1>1, <1>5, <1>7, Zenon
<1>9. \A c \in Next_!signinWithEmailPassword(s, f)
          \cup Next_!signinWithWebAuthn(s, f) : Begins(s, f, c)
  BY <1>1, <1>5, <1>7, Zenon
<1>10. \A c \in Next_!sendPasswordResetEmail(s, f)
          \cup Next_!resendVerificationEmailForEmail(s, f) : Begins(s, f, c)
  BY <1>1, <1>5, <1>7, Zenon
<1>11. \A c \in Next_!signupWithMagicLink(s, f, TRUE)
          \cup Next_!signinWithMagicLink(s, f, FALSE) : Begins(s, f, c)
  BY <1>1, <1>6, Zenon
<1> QED
  BY <1>4, <1>8, <1>9, <1>10, <1>11, Zenon

(* Its answers are the replies to those calls. *)
LEMMA NextReply ==
  /\ \A c, flag, w : (IF c.ok THEN Next_!Answer(c.srv, c.token, flag, w) ELSE Next_!Refused(c.srv)) = Reply(c, flag, w)
  /\ \A s : Next_!Refused(s) = Core!Refused(s)
  /\ \A s : Next_!Answer(s, Next_!Nobody, TRUE, Next_!NoWrites) = Core!Answer(s, Core!Nobody, TRUE, Core!NoWrites)
BY Zenon DEF Reply, Next_!Answer, Core!Answer, Next_!Refused, Core!Refused, Next_!Nobody, Core!Nobody
   , Next_!NoWrites, Core!NoWrites, Next_!Gone, Core!Gone, Next_!Cookie, Core!Cookie

(* The routes that begin a flow, *)
LEMMA NextStarts ==
  ASSUME NEW s \in [Flows -> FlowState], NEW f \in Flows, NEW q, q.new \in BOOLEAN, q.flow = Nobody,
         q.route \in StartRoutes, framework = "next", NEW a \in Handler(q, s, f)
  PROVE  Started(s, f, a)
<1>1. ASSUME NEW c, Begins(s, f, c)
      PROVE  /\ Started(s, f, Reply(c, FALSE, Next_!setVerifierCookie(f)))
             /\ Started(s, f, Reply(c, FALSE, [verifier |-> Next_!Cookie(f, Next_!Forever, TRUE)]))
             /\ Started(s, f, Reply(c, FALSE, Next_!setAuthCookie(c.token)))
             /\ Started(s, f, Reply(c, FALSE, Next_!SignUpWrites(f, c.token, Next_!setVerifierCookie, Next_!setAuthCookie)))
  <2>1. c.token \in {Nobody, f}
    BY <1>1 DEF Begins, Core!Starts, Nobody
  <2> QED
    BY <1>1, <2>1, StartReply, NextWrites
<1>2. /\ \A x \in Next_!handleOAuth(q, s, f) : Started(s, f, x)
      /\ \A x \in Next_!builtinStart(q, s, f) : Started(s, f, x)
  BY <1>1, NextCalls, NextReply, Zenon DEF Next_!handleOAuth, Next_!builtinStart, Next_!Served
<1>3. /\ \A x \in Next_!sendResetEmail(s, f) : Started(s, f, x)
      /\ \A x \in Next_!magicLinkSignup(s, f) : Started(s, f, x)
      /\ \A x \in Next_!magicLinkSend(s, f) : Started(s, f, x)
  BY <1>1, NextCalls, NextReply, Zenon DEF Next_!sendResetEmail, Next_!magicLinkSignup
     , Next_!magicLinkSend, Next_!Served
<1>4. /\ \A x \in Next_!emailSignin(s, f) : Started(s, f, x)
      /\ \A x \in Next_!webauthnSignin(s, f) : Started(s, f, x)
  BY <1>1, NextCalls, NextReply, Zenon DEF Next_!emailSignin, Next_!webauthnSignin, Next_!Served
<1>5. /\ \A x \in Next_!emailSignup(s, f) : Started(s, f, x)
      /\ \A x \in Next_!webauthnSignup(s, f) : Started(s, f, x)
  BY <1>1, NextCalls, NextReply, Zenon DEF Next_!emailSignup, Next_!webauthnSignup, Next_!Served
<1>6. \A x \in Next_!resendVerification(q, s, f) : Started(s, f, x)
  <2>1. q.flow = Next_!Nobody
    BY Zenon DEF Nobody, Core!Nobody, Next_!Nobody
  <2> QED
    BY <1>1, <2>1, NextCalls, NextReply, Zenon DEF Next_!resendVerification, Next_!Served
<1>7. a \in Next_!handleOAuth(q, s, f) \cup Next_!builtinStart(q, s, f) \cup Next_!sendResetEmail(s, f)
        \cup Next_!magicLinkSignup(s, f) \cup Next_!magicLinkSend(s, f) \cup Next_!emailSignin(s, f)
        \cup Next_!webauthnSignin(s, f) \cup Next_!emailSignup(s, f) \cup Next_!webauthnSignup(s, f)
        \cup Next_!resendVerification(q, s, f)
  BY DEF Handler, StartRoutes, Next_!GET, Next_!POST
<1> QED
  BY <1>2, <1>3, <1>4, <1>5, <1>6, <1>7, Zenon

(* those that end one, *)
LEMMA NextEnds ==
  ASSUME NEW s \in [Flows -> FlowState], NEW f, NEW q, q.flow \in Flows,
         q.route \in FollowRoutes, framework = "next", NEW a \in Handler(q, s, f)
  PROVE  Ended(q, s, a)
<1> DEFINE v == VerifierOf(q)
<1>1. Next_!Verifier(q) = v /\ Next_!Nobody = Nobody
  BY Zenon DEF VerifierOf, Next_!Verifier, Next_!Either, Core!Either, Nobody, Next_!Nobody, Core!Nobody
<1>2. ASSUME NEW c \in Next_!getToken(s, q.flow, v) \cup Next_!verifyEmailPasswordSignup(s, q.flow, v)
                    \cup Next_!verifyWebAuthnSignup(s, q.flow, v)
                    \cup Next_!resetPasswordWithResetToken(s, q.flow, v)
      PROVE  Finishes(q, s, c)
  <2>1. s \in [Flows -> Next_!FlowState]
    BY Zenon DEF FlowState, Core!FlowState, Next_!FlowState
  <2>2. Next_!Ends(Flows, s, q.flow, v, c)
    BY <1>2, <2>1, Next_!EndFacts
  <2> QED
    BY <2>2, Zenon DEF Finishes, Next_!Ends, Core!Ends, Core!FlowState, Next_!FlowState
<1>3. ASSUME NEW c, Finishes(q, s, c), v # Nobody
      PROVE  /\ Ended(q, s, Reply(c, q.flag, Next_!setAuthCookie(c.token)))
             /\ q.route # "builtin/callback" => Ended(q, s, Reply(c, q.flag, Next_!SignedIn(c.token)))
  BY <1>3, EndReply, NextWrites
<1>4. Ended(q, s, Core!Refused(s))
  BY RefusedFacts
<1> HIDE DEF v
<1>5. /\ \A x \in Next_!oauthCallback(q, s) : q.route # "builtin/callback" => Ended(q, s, x)
      /\ \A x \in Next_!emailVerify(q, s) : q.route # "builtin/callback" => Ended(q, s, x)
  BY <1>1, <1>2, <1>3, <1>4, NextReply, Zenon DEF Next_!oauthCallback, Next_!emailVerify, Next_!Redeem
     , Next_!Served
<1>6. /\ \A x \in Next_!webauthnVerify(q, s) : q.route # "builtin/callback" => Ended(q, s, x)
      /\ \A x \in Next_!magicLinkCallback(q, s) : q.route # "builtin/callback" => Ended(q, s, x)
      /\ \A x \in Next_!resetPassword(q, s) : q.route # "builtin/callback" => Ended(q, s, x)
  BY <1>1, <1>2, <1>3, <1>4, NextReply, Zenon DEF Next_!webauthnVerify, Next_!magicLinkCallback
     , Next_!resetPassword, Next_!Redeem, Next_!Served
<1>7. \A x \in Next_!builtinCallback(q, s) : Ended(q, s, x)
  <2>1. Ended(q, s, Next_!Answer(s, Next_!Nobody, TRUE, Next_!NoWrites))
    BY MailedFacts, NextReply, Zenon
  <2>2. ASSUME q.params # "mailed" PROVE \A x \in Next_!builtinCallback(q, s) : Ended(q, s, x)
    BY <1>1, <1>2, <1>3, <1>4, <2>2, NextReply, Zenon DEF Next_!builtinCallback, Next_!Redeem
       , Next_!Served
  <2>3. ASSUME q.params = "mailed" PROVE \A x \in Next_!builtinCallback(q, s) : Ended(q, s, x)
    BY <2>1, <2>3, NextReply, Zenon DEF Next_!builtinCallback
  <2> QED
    BY <2>2, <2>3
<1>8. ASSUME q.route # "builtin/callback"
      PROVE  a \in Next_!oauthCallback(q, s)
        \cup Next_!emailVerify(q, s) \cup Next_!webauthnVerify(q, s) \cup Next_!magicLinkCallback(q, s)
        \cup Next_!resetPassword(q, s)
  BY <1>8 DEF Handler, FollowRoutes, Next_!GET, Next_!POST
<1>9. ASSUME q.route = "builtin/callback" PROVE a \in Next_!builtinCallback(q, s)
  BY <1>9 DEF Handler, Next_!GET, Next_!POST
<1> QED
  BY <1>5, <1>6, <1>7, <1>8, <1>9, Zenon

(* signing out, and asking for a mail again. *)
LEMMA NextOthers ==
  ASSUME NEW s, NEW f, NEW q, framework = "next", NEW a \in Handler(q, s, f)
  PROVE  /\ q.route = "signout" => Left(s, a)
         /\ q.route = "email/resend" /\ q.flow # Nobody => Idle(s, a)
<1>1. Left(s, Next_!Answer(s, Next_!Nobody, FALSE, Next_!deleteAuthCookie))
  BY DEF Left, Next_!Answer, Next_!deleteAuthCookie, Next_!Gone, Next_!Cookie, Next_!Nobody, Nobody
     , Core!Nobody
<1>2. ASSUME q.route = "signout" PROVE Left(s, a)
  <2>1. a \in Next_!signout(s)
    BY <1>2 DEF Handler, Next_!GET, Next_!POST
  <2> QED
    BY <1>1, <2>1, Zenon DEF Next_!signout
<1>3. ASSUME q.route = "email/resend", q.flow # Nobody PROVE Idle(s, a)
  <2>1. q.flow # Next_!Nobody /\ (a \in Next_!resendVerification(q, s, f))
    BY <1>3 DEF Handler, Next_!GET, Next_!POST, Nobody, Core!Nobody, Next_!Nobody
  <2>2. \A c \in Next_!resendVerificationEmail(s) : Idle(s, Reply(c, FALSE, Next_!NoWrites))
    BY DEF Next_!resendVerificationEmail, Next_!Outcome, Next_!Failure, Idle, Reply, Core!Answer
       , Core!Refused, Core!NoWrites, Next_!NoWrites
  <2> QED
    BY <2>1, <2>2, NextReply, Zenon DEF Next_!resendVerification, Next_!Served
<1> QED
  BY <1>2, <1>3

----------------------------------------------------------------------------
(* auth-nextjs with the app router: its actions, and the routes of the other. *)

(* The cookies it writes. *)
LEMMA AppWrites ==
  ASSUME NEW f \in Flows
  PROVE  /\ StartWrites(f, App!setVerifierCookie(f))
         /\ StartWrites(f, [verifier |-> App!Cookie(f, App!Forever, TRUE)])
         /\ \A t \in {Nobody, f} : /\ StartWrites(f, App!setAuthCookie(t))
                                   /\ StartWrites(f, App!SignUpWrites(f, t, App!setVerifierCookie, App!setAuthCookie))
         /\ \A t : /\ EndWrites(t, App!SignedIn(t)) /\ EndWrites(t, App!setAuthCookie(t))
                   /\ "verifier" \notin DOMAIN App!setAuthCookie(t)
<1>1. App!VerifierLife = 604800000 /\ TwoHours = 7200000 /\ Core!Forever = 1036800000
  BY DEF App!VerifierLife, TwoHours, Core!Hour, Core!Forever, Core!Day
<1>2. StartWrites(f, App!setVerifierCookie(f))
  BY <1>1 DEF StartWrites, Lasting, App!setVerifierCookie, App!Cookie
<1>3. StartWrites(f, [verifier |-> App!Cookie(f, App!Forever, TRUE)])
  BY DEF StartWrites, Lasting, App!Cookie
<1>4. ASSUME NEW t \in {Nobody, f} PROVE StartWrites(f, App!setAuthCookie(t))
  BY DEF StartWrites, App!setAuthCookie, App!Cookie
<1>5. ASSUME NEW t \in {Nobody, f} PROVE StartWrites(f, App!SignUpWrites(f, t, App!setVerifierCookie, App!setAuthCookie))
  BY <1>2, <1>4 DEF StartWrites, Lasting, App!SignUpWrites, App!Both, App!NoWrites
     , App!setVerifierCookie, App!setAuthCookie
<1>6. ASSUME NEW t PROVE EndWrites(t, App!SignedIn(t)) /\ EndWrites(t, App!setAuthCookie(t)) /\ "verifier" \notin DOMAIN App!setAuthCookie(t)
  BY DEF EndWrites, App!SignedIn, App!Both, App!deleteVerifierCookie, App!setAuthCookie, App!Gone
     , App!Cookie, App!Nobody, Nobody, Core!Nobody
<1> QED
  BY <1>2, <1>3, <1>4, <1>5, <1>6

(* What its calls to the auth server do. *)
LEMMA AppCalls ==
  ASSUME NEW s \in [Flows -> FlowState], NEW f \in Flows, NEW new \in BOOLEAN
  PROVE  /\ \A c \in App!createPKCESession(s, f, "oauth", new, FALSE, TRUE)
                      \cup App!createPKCESession(s, f, "builtin", new, FALSE, TRUE) : Begins(s, f, c)
         /\ \A c \in App!signupWithEmailPassword(s, f)
                      \cup App!signupWithWebAuthn(s, f) : Begins(s, f, c)
         /\ \A c \in App!signinWithEmailPassword(s, f)
                      \cup App!signinWithWebAuthn(s, f) : Begins(s, f, c)
         /\ \A c \in App!signupWithMagicLink(s, f, TRUE)
                      \cup App!signinWithMagicLink(s, f, FALSE) : Begins(s, f, c)
         /\ \A c \in App!sendPasswordResetEmail(s, f)
                      \cup App!resendVerificationEmailForEmail(s, f) : Begins(s, f, c)
<1>1. ASSUME NEW c, NEW kind, NEW n, NEW says, App!Starts(Flows, s, f, c, kind, n, says),
             SaysSignUp(kind) => says = n
      PROVE  Begins(s, f, c)
  <2>1. Core!Starts(Flows, s, f, c, kind, n, says)
    BY <1>1, Zenon DEF Core!Starts, App!Starts, Core!FlowState, App!FlowState, Core!Nobody, App!Nobody
  <2> QED
    BY <1>1, <2>1, Zenon DEF Begins
<1>2. s \in [Flows -> App!FlowState]
  BY Zenon DEF FlowState, Core!FlowState, App!FlowState
<1>3. /\ \A c \in App!createPKCESession(s, f, "oauth", new, FALSE, TRUE) :
           App!Starts(Flows, s, f, c, "oauth", new, new)
      /\ \A c \in App!createPKCESession(s, f, "builtin", new, FALSE, TRUE) :
           App!Starts(Flows, s, f, c, "builtin", new, new)
  BY <1>2, App!StartFacts, Zenon
<1>4. \A c \in App!createPKCESession(s, f, "oauth", new, FALSE, TRUE)
          \cup App!createPKCESession(s, f, "builtin", new, FALSE, TRUE) : Begins(s, f, c)
  BY <1>1, <1>3, Zenon
<1>5. /\ \A c \in App!signupWithEmailPassword(s, f) : App!Starts(Flows, s, f, c, "email", TRUE, FALSE)
      /\ \A c \in App!signupWithWebAuthn(s, f) : App!Starts(Flows, s, f, c, "webauthn", TRUE, FALSE)
      /\ \A c \in App!sendPasswordResetEmail(s, f) : App!Starts(Flows, s, f, c, "reset", FALSE, FALSE)
      /\ \A c \in App!resendVerificationEmailForEmail(s, f) : App!Starts(Flows, s, f, c, "email", TRUE, FALSE)
      /\ \A c \in App!signinWithEmailPassword(s, f) \cup App!signinWithWebAuthn(s, f) :
           App!Starts(Flows, s, f, c, "direct", FALSE, FALSE)
  BY <1>2, App!StartFacts, Zenon
<1>6. /\ \A c \in App!signupWithMagicLink(s, f, TRUE) : App!Starts(Flows, s, f, c, "magic", TRUE, TRUE)
      /\ \A c \in App!signinWithMagicLink(s, f, FALSE) : App!Starts(Flows, s, f, c, "magic", FALSE, FALSE)
  BY <1>2, App!StartFacts
<1>7. ~SaysSignUp("email") /\ ~SaysSignUp("webauthn") /\ ~SaysSignUp("direct") /\ ~SaysSignUp("reset")
  BY DEF SaysSignUp
<1>8. \A c \in App!signupWithEmailPassword(s, f)
          \cup App!signupWithWebAuthn(s, f) : Begins(s, f, c)
  BY <1>1, <1>5, <1>7, Zenon
<1>9. \A c \in App!signinWithEmailPassword(s, f)
          \cup App!signinWithWebAuthn(s, f) : Begins(s, f, c)
  BY <1>1, <1>5, <1>7, Zenon
<1>10. \A c \in App!sendPasswordResetEmail(s, f)
          \cup App!resendVerificationEmailForEmail(s, f) : Begins(s, f, c)
  BY <1>1, <1>5, <1>7, Zenon
<1>11. \A c \in App!signupWithMagicLink(s, f, TRUE)
          \cup App!signinWithMagicLink(s, f, FALSE) : Begins(s, f, c)
  BY <1>1, <1>6, Zenon
<1> QED
  BY <1>4, <1>8, <1>9, <1>10, <1>11, Zenon

(* Its answers are the replies to those calls. *)
LEMMA AppReply ==
  /\ \A c, flag, w : (IF c.ok THEN App!Answer(c.srv, c.token, flag, w) ELSE App!Refused(c.srv)) = Reply(c, flag, w)
  /\ \A s : App!Refused(s) = Core!Refused(s)
  /\ \A s : App!Answer(s, App!Nobody, TRUE, App!NoWrites) = Core!Answer(s, Core!Nobody, TRUE, Core!NoWrites)
BY Zenon DEF Reply, App!Answer, Core!Answer, App!Refused, Core!Refused, App!Nobody, Core!Nobody
   , App!NoWrites, Core!NoWrites, App!Gone, Core!Gone, App!Cookie, Core!Cookie

(* The routes that begin a flow, *)
LEMMA AppStarts ==
  ASSUME NEW s \in [Flows -> FlowState], NEW f \in Flows, NEW q, q.new \in BOOLEAN, q.flow = Nobody,
         q.route \in StartRoutes, framework = "nextapp", NEW a \in Handler(q, s, f)
  PROVE  Started(s, f, a)
<1>1. ASSUME NEW c, Begins(s, f, c)
      PROVE  /\ Started(s, f, Reply(c, FALSE, App!setVerifierCookie(f)))
             /\ Started(s, f, Reply(c, FALSE, [verifier |-> App!Cookie(f, App!Forever, TRUE)]))
             /\ Started(s, f, Reply(c, FALSE, App!setAuthCookie(c.token)))
             /\ Started(s, f, Reply(c, FALSE, App!SignUpWrites(f, c.token, App!setVerifierCookie, App!setAuthCookie)))
  <2>1. c.token \in {Nobody, f}
    BY <1>1 DEF Begins, Core!Starts, Nobody
  <2> QED
    BY <1>1, <2>1, StartReply, AppWrites
<1>2. /\ \A x \in App!handleOAuth(q, s, f) : Started(s, f, x)
      /\ \A x \in App!builtinStart(q, s, f) : Started(s, f, x)
  BY <1>1, AppCalls, AppReply, Zenon DEF App!handleOAuth, App!builtinStart, App!Served
<1>3. /\ \A x \in App!emailPasswordSendPasswordResetEmail(s, f) : Started(s, f, x)
      /\ \A x \in App!magicLinkSignUp(s, f) : Started(s, f, x)
      /\ \A x \in App!magicLinkSignIn(s, f) : Started(s, f, x)
  BY <1>1, AppCalls, AppReply, Zenon DEF App!emailPasswordSendPasswordResetEmail, App!magicLinkSignUp
     , App!magicLinkSignIn, App!Served
<1>4. /\ \A x \in App!emailPasswordSignIn(s, f) : Started(s, f, x)
      /\ \A x \in App!webauthnSignin(s, f) : Started(s, f, x)
  BY <1>1, AppCalls, AppReply, Zenon DEF App!emailPasswordSignIn, App!webauthnSignin, App!Served
<1>5. /\ \A x \in App!emailPasswordSignUp(s, f) : Started(s, f, x)
      /\ \A x \in App!webauthnSignup(s, f) : Started(s, f, x)
  BY <1>1, AppCalls, AppReply, Zenon DEF App!emailPasswordSignUp, App!webauthnSignup, App!Served
<1>6. \A x \in App!emailPasswordResendVerificationEmail(q, s, f) : Started(s, f, x)
  <2>1. q.flow = App!Nobody
    BY Zenon DEF Nobody, Core!Nobody, App!Nobody
  <2> QED
    BY <1>1, <2>1, AppCalls, AppReply, Zenon DEF App!emailPasswordResendVerificationEmail, App!Served
<1>7. a \in App!handleOAuth(q, s, f) \cup App!builtinStart(q, s, f)
        \cup App!emailPasswordSendPasswordResetEmail(s, f) \cup App!magicLinkSignUp(s, f)
        \cup App!magicLinkSignIn(s, f) \cup App!emailPasswordSignIn(s, f) \cup App!webauthnSignin(s, f)
        \cup App!emailPasswordSignUp(s, f) \cup App!webauthnSignup(s, f)
        \cup App!emailPasswordResendVerificationEmail(q, s, f)
  BY DEF Handler, StartRoutes, App!Action, App!GET, App!POST
<1> QED
  BY <1>2, <1>3, <1>4, <1>5, <1>6, <1>7, Zenon

(* those that end one, *)
LEMMA AppEnds ==
  ASSUME NEW s \in [Flows -> FlowState], NEW f, NEW q, q.flow \in Flows,
         q.route \in FollowRoutes, framework = "nextapp", NEW a \in Handler(q, s, f)
  PROVE  Ended(q, s, a)
<1> DEFINE v == VerifierOf(q)
<1>1. App!Verifier(q) = v /\ App!Nobody = Nobody
  BY Zenon DEF VerifierOf, App!Verifier, App!Either, Core!Either, Nobody, App!Nobody, Core!Nobody
<1>2. ASSUME NEW c \in App!getToken(s, q.flow, v) \cup App!verifyEmailPasswordSignup(s, q.flow, v)
                    \cup App!verifyWebAuthnSignup(s, q.flow, v)
                    \cup App!resetPasswordWithResetToken(s, q.flow, v)
      PROVE  Finishes(q, s, c)
  <2>1. s \in [Flows -> App!FlowState]
    BY Zenon DEF FlowState, Core!FlowState, App!FlowState
  <2>2. App!Ends(Flows, s, q.flow, v, c)
    BY <1>2, <2>1, App!EndFacts
  <2> QED
    BY <2>2, Zenon DEF Finishes, App!Ends, Core!Ends, Core!FlowState, App!FlowState
<1>3. ASSUME NEW c, Finishes(q, s, c), v # Nobody
      PROVE  /\ Ended(q, s, Reply(c, q.flag, App!setAuthCookie(c.token)))
             /\ q.route # "builtin/callback" => Ended(q, s, Reply(c, q.flag, App!SignedIn(c.token)))
  BY <1>3, EndReply, AppWrites
<1>4. Ended(q, s, Core!Refused(s))
  BY RefusedFacts
<1> HIDE DEF v
<1>5. /\ \A x \in App!oauthCallback(q, s) : q.route # "builtin/callback" => Ended(q, s, x)
      /\ \A x \in App!emailVerify(q, s) : q.route # "builtin/callback" => Ended(q, s, x)
  BY <1>1, <1>2, <1>3, <1>4, AppReply, Zenon DEF App!oauthCallback, App!emailVerify, App!Redeem
     , App!Served
<1>6. /\ \A x \in App!webauthnVerify(q, s) : q.route # "builtin/callback" => Ended(q, s, x)
      /\ \A x \in App!magicLinkCallback(q, s) : q.route # "builtin/callback" => Ended(q, s, x)
      /\ \A x \in App!emailPasswordResetPassword(q, s) : q.route # "builtin/callback" => Ended(q, s, x)
  BY <1>1, <1>2, <1>3, <1>4, AppReply, Zenon DEF App!webauthnVerify, App!magicLinkCallback
     , App!emailPasswordResetPassword, App!Redeem, App!Served
<1>7. \A x \in App!builtinCallback(q, s) : Ended(q, s, x)
  <2>1. Ended(q, s, App!Answer(s, App!Nobody, TRUE, App!NoWrites))
    BY MailedFacts, AppReply, Zenon
  <2>2. ASSUME q.params # "mailed" PROVE \A x \in App!builtinCallback(q, s) : Ended(q, s, x)
    BY <1>1, <1>2, <1>3, <1>4, <2>2, AppReply, Zenon DEF App!builtinCallback, App!Redeem, App!Served
  <2>3. ASSUME q.params = "mailed" PROVE \A x \in App!builtinCallback(q, s) : Ended(q, s, x)
    BY <2>1, <2>3, AppReply, Zenon DEF App!builtinCallback
  <2> QED
    BY <2>2, <2>3
<1>8. ASSUME q.route # "builtin/callback"
      PROVE  a \in App!oauthCallback(q, s)
        \cup App!emailVerify(q, s) \cup App!webauthnVerify(q, s) \cup App!magicLinkCallback(q, s)
        \cup App!emailPasswordResetPassword(q, s)
  BY <1>8 DEF Handler, FollowRoutes, App!Action, App!GET, App!POST
<1>9. ASSUME q.route = "builtin/callback" PROVE a \in App!builtinCallback(q, s)
  BY <1>9 DEF Handler, App!Action, App!GET, App!POST
<1> QED
  BY <1>5, <1>6, <1>7, <1>8, <1>9, Zenon

(* signing out, and asking for a mail again. *)
LEMMA AppOthers ==
  ASSUME NEW s, NEW f, NEW q, framework = "nextapp", NEW a \in Handler(q, s, f)
  PROVE  /\ q.route = "signout" => Left(s, a)
         /\ q.route = "email/resend" /\ q.flow # Nobody => Idle(s, a)
<1>1. Left(s, App!Answer(s, App!Nobody, FALSE, App!deleteAuthCookie))
  BY DEF Left, App!Answer, App!deleteAuthCookie, App!Gone, App!Cookie, App!Nobody, Nobody, Core!Nobody
<1>2. ASSUME q.route = "signout" PROVE Left(s, a)
  <2>1. a \in App!signoutAction(s)
    BY <1>2 DEF Handler, App!Action, App!GET, App!POST
  <2> QED
    BY <1>1, <2>1, Zenon DEF App!signoutAction
<1>3. ASSUME q.route = "email/resend", q.flow # Nobody PROVE Idle(s, a)
  <2>1. q.flow # App!Nobody /\ (a \in App!emailPasswordResendVerificationEmail(q, s, f))
    BY <1>3 DEF Handler, App!Action, App!GET, App!POST, Nobody, Core!Nobody, App!Nobody
  <2>2. \A c \in App!resendVerificationEmail(s) : Idle(s, Reply(c, FALSE, App!NoWrites))
    BY DEF App!resendVerificationEmail, App!Outcome, App!Failure, Idle, Reply, Core!Answer, Core!Refused
       , Core!NoWrites, App!NoWrites
  <2> QED
    BY <2>1, <2>2, AppReply, Zenon DEF App!emailPasswordResendVerificationEmail, App!Served
<1> QED
  BY <1>2, <1>3

----------------------------------------------------------------------------
(* auth-remix. *)

(* The cookies it writes. *)
LEMMA RemixWrites ==
  ASSUME NEW f \in Flows
  PROVE  /\ StartWrites(f, Remix!createVerifierCookie(f))
         /\ \A t \in {Nobody, f} : /\ StartWrites(f, Remix!createAuthCookie(t))
                                   /\ StartWrites(f, Remix!SignUpWrites(f, t, Remix!createVerifierCookie, Remix!createAuthCookie))
         /\ \A t : /\ EndWrites(t, Remix!SignedIn(t)) /\ EndWrites(t, Remix!createAuthCookie(t))
                   /\ "verifier" \notin DOMAIN Remix!createAuthCookie(t)
<1>1. Remix!VerifierLife = 10080000 /\ TwoHours = 7200000 /\ Core!Forever = 1036800000
  BY DEF Remix!VerifierLife, TwoHours, Core!Hour, Core!Forever, Core!Day
<1>2. StartWrites(f, Remix!createVerifierCookie(f))
  BY <1>1 DEF StartWrites, Lasting, Remix!createVerifierCookie, Remix!Cookie
<1>3. ASSUME NEW t \in {Nobody, f} PROVE StartWrites(f, Remix!createAuthCookie(t))
  BY DEF StartWrites, Remix!createAuthCookie, Remix!Cookie
<1>4. ASSUME NEW t \in {Nobody, f} PROVE StartWrites(f, Remix!SignUpWrites(f, t, Remix!createVerifierCookie, Remix!createAuthCookie))
  BY <1>2, <1>3 DEF StartWrites, Lasting, Remix!SignUpWrites, Remix!Both, Remix!NoWrites
     , Remix!createVerifierCookie, Remix!createAuthCookie
<1>5. ASSUME NEW t PROVE EndWrites(t, Remix!SignedIn(t)) /\ EndWrites(t, Remix!createAuthCookie(t)) /\ "verifier" \notin DOMAIN Remix!createAuthCookie(t)
  BY DEF EndWrites, Remix!SignedIn, Remix!Both, Remix!deleteVerifierCookie, Remix!createAuthCookie
     , Remix!Gone, Remix!Cookie, Remix!Nobody, Nobody, Core!Nobody
<1> QED
  BY <1>2, <1>3, <1>4, <1>5

(* What its calls to the auth server do. *)
LEMMA RemixCalls ==
  ASSUME NEW s \in [Flows -> FlowState], NEW f \in Flows, NEW new \in BOOLEAN,
         framework = "remix"
  PROVE  /\ \A c \in Remix!createPKCESession(s, f, "oauth", new, FALSE, TRUE)
                      \cup Remix!createPKCESession(s, f, "builtin", new, FALSE, TRUE) : Begins(s, f, c)
         /\ \A c \in Remix!signupWithEmailPassword(s, f)
                      \cup Remix!signupWithWebAuthn(s, f) : Begins(s, f, c)
         /\ \A c \in Remix!signinWithEmailPassword(s, f)
                      \cup Remix!signinWithWebAuthn(s, f) : Begins(s, f, c)
         /\ \A c \in Remix!signupWithMagicLink(s, f, TRUE)
                      \cup Remix!signinWithMagicLink(s, f, TRUE) : Begins(s, f, c)
         /\ \A c \in Remix!sendPasswordResetEmail(s, f)
                      \cup Remix!resendVerificationEmailForEmail(s, f) : Begins(s, f, c)
<1>1. ASSUME NEW c, NEW kind, NEW n, NEW says, Remix!Starts(Flows, s, f, c, kind, n, says),
             SaysSignUp(kind) => says = n
      PROVE  Begins(s, f, c)
  <2>1. Core!Starts(Flows, s, f, c, kind, n, says)
    BY <1>1, Zenon DEF Core!Starts, Remix!Starts, Core!FlowState, Remix!FlowState, Core!Nobody
       , Remix!Nobody
  <2> QED
    BY <1>1, <2>1, Zenon DEF Begins
<1>2. s \in [Flows -> Remix!FlowState]
  BY Zenon DEF FlowState, Core!FlowState, Remix!FlowState
<1>3. /\ \A c \in Remix!createPKCESession(s, f, "oauth", new, FALSE, TRUE) :
           Remix!Starts(Flows, s, f, c, "oauth", new, new)
      /\ \A c \in Remix!createPKCESession(s, f, "builtin", new, FALSE, TRUE) :
           Remix!Starts(Flows, s, f, c, "builtin", new, new)
  BY <1>2, Remix!StartFacts, Zenon
<1>4. \A c \in Remix!createPKCESession(s, f, "oauth", new, FALSE, TRUE)
          \cup Remix!createPKCESession(s, f, "builtin", new, FALSE, TRUE) : Begins(s, f, c)
  BY <1>1, <1>3, Zenon
<1>5. /\ \A c \in Remix!signupWithEmailPassword(s, f) : Remix!Starts(Flows, s, f, c, "email", TRUE, FALSE)
      /\ \A c \in Remix!signupWithWebAuthn(s, f) : Remix!Starts(Flows, s, f, c, "webauthn", TRUE, FALSE)
      /\ \A c \in Remix!sendPasswordResetEmail(s, f) : Remix!Starts(Flows, s, f, c, "reset", FALSE, FALSE)
      /\ \A c \in Remix!resendVerificationEmailForEmail(s, f) : Remix!Starts(Flows, s, f, c, "email", TRUE, FALSE)
      /\ \A c \in Remix!signinWithEmailPassword(s, f) \cup Remix!signinWithWebAuthn(s, f) :
           Remix!Starts(Flows, s, f, c, "direct", FALSE, FALSE)
  BY <1>2, Remix!StartFacts, Zenon
<1>6. /\ \A c \in Remix!signupWithMagicLink(s, f, TRUE) : Remix!Starts(Flows, s, f, c, "magic", TRUE, TRUE)
      /\ \A c \in Remix!signinWithMagicLink(s, f, TRUE) : Remix!Starts(Flows, s, f, c, "magic", FALSE, TRUE)
  BY <1>2, Remix!StartFacts
<1>7. ~SaysSignUp("email") /\ ~SaysSignUp("webauthn") /\ ~SaysSignUp("direct") /\ ~SaysSignUp("reset") /\ ~SaysSignUp("magic")
  BY DEF SaysSignUp
<1>8. \A c \in Remix!signupWithEmailPassword(s, f)
          \cup Remix!signupWithWebAuthn(s, f) : Begins(s, f, c)
  BY <1>1, <1>5, <1>7, Zenon
<1>9. \A c \in Remix!signinWithEmailPassword(s, f)
          \cup Remix!signinWithWebAuthn(s, f) : Begins(s, f, c)
  BY <1>1, <1>5, <1>7, Zenon
<1>10. \A c \in Remix!sendPasswordResetEmail(s, f)
          \cup Remix!resendVerificationEmailForEmail(s, f) : Begins(s, f, c)
  BY <1>1, <1>5, <1>7, Zenon
<1>11. \A c \in Remix!signupWithMagicLink(s, f, TRUE)
          \cup Remix!signinWithMagicLink(s, f, TRUE) : Begins(s, f, c)
  BY <1>1, <1>6, <1>7, Zenon
<1> QED
  BY <1>4, <1>8, <1>9, <1>10, <1>11, Zenon

(* Its answers are the replies to those calls. *)
LEMMA RemixReply ==
  /\ \A c, flag, w : (IF c.ok THEN Remix!Answer(c.srv, c.token, flag, w) ELSE Remix!Refused(c.srv)) = Reply(c, flag, w)
  /\ \A s : Remix!Refused(s) = Core!Refused(s)
  /\ \A s : Remix!Answer(s, Remix!Nobody, TRUE, Remix!NoWrites) = Core!Answer(s, Core!Nobody, TRUE, Core!NoWrites)
  /\ \A x : Remix!Thrown(x) = Core!Thrown(x)
BY Zenon DEF Reply, Remix!Answer, Core!Answer, Remix!Refused, Core!Refused, Remix!Thrown, Core!Thrown
   , Remix!Nobody, Core!Nobody, Remix!NoWrites, Core!NoWrites, Remix!Gone, Core!Gone, Remix!Cookie
   , Core!Cookie

(* The routes that begin a flow, *)
LEMMA RemixStarts ==
  ASSUME NEW s \in [Flows -> FlowState], NEW f \in Flows, NEW q, q.new \in BOOLEAN, q.flow = Nobody,
         q.route \in StartRoutes, framework = "remix", NEW a \in Handler(q, s, f)
  PROVE  Started(s, f, a)
<1>1. ASSUME NEW c, Begins(s, f, c)
      PROVE  /\ Started(s, f, Reply(c, FALSE, Remix!createVerifierCookie(f)))
             /\ Started(s, f, Reply(c, FALSE, Remix!createAuthCookie(c.token)))
             /\ Started(s, f, Reply(c, FALSE, Remix!SignUpWrites(f, c.token, Remix!createVerifierCookie, Remix!createAuthCookie)))
  <2>1. c.token \in {Nobody, f}
    BY <1>1 DEF Begins, Core!Starts, Nobody
  <2> QED
    BY <1>1, <2>1, StartReply, RemixWrites
<1>2. /\ \A x \in Remix!oauth(q, s, f) : Started(s, f, x)
      /\ \A x \in Remix!builtinStart(q, s, f) : Started(s, f, x)
  BY <1>1, RemixCalls, RemixReply, Zenon DEF Remix!oauth, Remix!builtinStart, Remix!Served
     , Remix!handleAction
<1>3. /\ \A x \in Remix!emailPasswordSendPasswordResetEmail(s, f) : Started(s, f, x)
      /\ \A x \in Remix!magicLinkSignUp(s, f) : Started(s, f, x)
      /\ \A x \in Remix!magicLinkSend(s, f) : Started(s, f, x)
  BY <1>1, RemixCalls, RemixReply, Zenon DEF Remix!emailPasswordSendPasswordResetEmail
     , Remix!magicLinkSignUp, Remix!magicLinkSend, Remix!Served, Remix!handleAction
<1>4. /\ \A x \in Remix!emailPasswordSignIn(s, f) : Started(s, f, x)
      /\ \A x \in Remix!webAuthnSignIn(s, f) : Started(s, f, x)
  BY <1>1, RemixCalls, RemixReply, Zenon DEF Remix!emailPasswordSignIn, Remix!webAuthnSignIn
     , Remix!Served, Remix!handleAction
<1>5. /\ \A x \in Remix!emailPasswordSignUp(s, f) : Started(s, f, x)
      /\ \A x \in Remix!webAuthnSignUp(s, f) : Started(s, f, x)
  BY <1>1, RemixCalls, RemixReply, Zenon DEF Remix!emailPasswordSignUp, Remix!webAuthnSignUp
     , Remix!Served, Remix!handleAction
<1>6. \A x \in Remix!emailPasswordResendVerificationEmail(q, s, f) : Started(s, f, x)
  <2>1. q.flow = Remix!Nobody
    BY Zenon DEF Nobody, Core!Nobody, Remix!Nobody
  <2> QED
    BY <1>1, <2>1, RemixCalls, RemixReply, Zenon DEF Remix!emailPasswordResendVerificationEmail
       , Remix!Served, Remix!handleAction
<1>7. a \in Remix!oauth(q, s, f) \cup Remix!builtinStart(q, s, f)
        \cup Remix!emailPasswordSendPasswordResetEmail(s, f) \cup Remix!magicLinkSignUp(s, f)
        \cup Remix!magicLinkSend(s, f) \cup Remix!emailPasswordSignIn(s, f)
        \cup Remix!webAuthnSignIn(s, f) \cup Remix!emailPasswordSignUp(s, f)
        \cup Remix!webAuthnSignUp(s, f) \cup Remix!emailPasswordResendVerificationEmail(q, s, f)
  BY DEF Handler, StartRoutes, Remix!Handle
<1> QED
  BY <1>2, <1>3, <1>4, <1>5, <1>6, <1>7, Zenon

(* those that end one, *)
LEMMA RemixEnds ==
  ASSUME NEW s \in [Flows -> FlowState], NEW f, NEW q, q.flow \in Flows,
         q.route \in FollowRoutes, framework = "remix", NEW a \in Handler(q, s, f)
  PROVE  Ended(q, s, a)
<1> DEFINE v == VerifierOf(q)
<1>1. Remix!Verifier(q) = v /\ Remix!Nobody = Nobody
  BY DEF VerifierOf, Remix!Verifier, Remix!parseCookies, Remix!Either, Core!Either, Nobody, Remix!Nobody
     , Core!Nobody
<1>2. ASSUME NEW c \in Remix!getToken(s, q.flow, v) \cup Remix!verifyEmailPasswordSignup(s, q.flow, v)
                    \cup Remix!verifyWebAuthnSignup(s, q.flow, v)
                    \cup Remix!resetPasswordWithResetToken(s, q.flow, v)
      PROVE  Finishes(q, s, c)
  <2>1. s \in [Flows -> Remix!FlowState]
    BY Zenon DEF FlowState, Core!FlowState, Remix!FlowState
  <2>2. Remix!Ends(Flows, s, q.flow, v, c)
    BY <1>2, <2>1, Remix!EndFacts
  <2> QED
    BY <2>2, Zenon DEF Finishes, Remix!Ends, Core!Ends, Core!FlowState, Remix!FlowState
<1>3. ASSUME NEW c, Finishes(q, s, c), v # Nobody
      PROVE  /\ Ended(q, s, Reply(c, q.flag, Remix!createAuthCookie(c.token)))
             /\ q.route # "builtin/callback" => Ended(q, s, Reply(c, q.flag, Remix!SignedIn(c.token)))
  BY <1>3, EndReply, RemixWrites
<1>4. Ended(q, s, Core!Refused(s))
  BY RefusedFacts
<1> HIDE DEF v
<1>5. \A x \in Remix!Redeem(q, s, Remix!Verifier(q), Remix!getToken(s, q.flow, Remix!Verifier(q)), Remix!SignedIn) :
        q.route # "builtin/callback" => Ended(q, s, x)
  BY <1>1, <1>2, <1>3, <1>4, RemixReply, Zenon DEF Remix!Redeem, Remix!Served
<1>6. \A x \in Remix!Redeem(q, s, Remix!Verifier(q), Remix!verifyEmailPasswordSignup(s, q.flow, Remix!Verifier(q)), Remix!SignedIn) :
        q.route # "builtin/callback" => Ended(q, s, x)
  BY <1>1, <1>2, <1>3, <1>4, RemixReply, Zenon DEF Remix!Redeem, Remix!Served
<1>7. \A x \in Remix!Redeem(q, s, Remix!Verifier(q), Remix!verifyWebAuthnSignup(s, q.flow, Remix!Verifier(q)), Remix!SignedIn) :
        q.route # "builtin/callback" => Ended(q, s, x)
  BY <1>1, <1>2, <1>3, <1>4, RemixReply, Zenon DEF Remix!Redeem, Remix!Served
<1>8. \A x \in Remix!Redeem(q, s, Remix!Verifier(q), Remix!resetPasswordWithResetToken(s, q.flow, Remix!Verifier(q)), Remix!SignedIn) :
        q.route # "builtin/callback" => Ended(q, s, x)
  BY <1>1, <1>2, <1>3, <1>4, RemixReply, Zenon DEF Remix!Redeem, Remix!Served
<1>9. \A x \in Remix!Redeem(q, s, Remix!Verifier(q), Remix!getToken(s, q.flow, Remix!Verifier(q)), Remix!createAuthCookie) : Ended(q, s, x)
  BY <1>1, <1>2, <1>3, <1>4, RemixReply, Zenon DEF Remix!Redeem, Remix!Served
<1>10. ASSUME NEW S, \A x \in S : Ended(q, s, x) PROVE \A x \in Remix!cbCall(q, S) : Ended(q, s, x)
  <2>1. \A x \in S : Ended(q, s, Remix!Thrown(x))
    BY <1>10, RemixReply, ThrownFacts, Zenon
  <2>2. \A x \in Remix!cbCall(q, S) : x \in S \/ \E y \in S : x = Remix!Thrown(y)
    BY DEF Remix!cbCall
  <2> QED
    BY <1>10, <2>1, <2>2, Zenon
<1>11. /\ \A x \in Remix!oauthCallback(q, s) : q.route # "builtin/callback" => Ended(q, s, x)
       /\ \A x \in Remix!magiclinkCallback(q, s) : q.route # "builtin/callback" => Ended(q, s, x)
  BY <1>5, <1>10, Zenon DEF Remix!oauthCallback, Remix!magiclinkCallback
<1>12. /\ \A x \in Remix!emailVerify(q, s) : q.route # "builtin/callback" => Ended(q, s, x)
       /\ \A x \in Remix!webauthnVerify(q, s) : q.route # "builtin/callback" => Ended(q, s, x)
  BY <1>6, <1>7, <1>10, Zenon DEF Remix!emailVerify, Remix!webauthnVerify
<1>13. \A x \in Remix!emailPasswordResetPassword(q, s) : q.route # "builtin/callback" => Ended(q, s, x)
  BY <1>8, Zenon DEF Remix!emailPasswordResetPassword, Remix!handleAction
<1>14. \A x \in Remix!builtinCallback(q, s) : Ended(q, s, x)
  <2>1. \A x \in {Remix!Answer(s, Remix!Nobody, TRUE, Remix!NoWrites)} : Ended(q, s, x)
    BY MailedFacts, RemixReply, Zenon
  <2> QED
    BY <1>9, <1>10, <2>1, Zenon DEF Remix!builtinCallback
<1>15. ASSUME q.route # "builtin/callback"
      PROVE  a \in Remix!oauthCallback(q, s)
        \cup Remix!magiclinkCallback(q, s) \cup Remix!emailVerify(q, s) \cup Remix!webauthnVerify(q, s)
        \cup Remix!emailPasswordResetPassword(q, s)
  BY <1>15 DEF Handler, FollowRoutes, Remix!Handle
<1>16. ASSUME q.route = "builtin/callback" PROVE a \in Remix!builtinCallback(q, s)
  BY <1>16 DEF Handler, Remix!Handle
<1> QED
  BY <1>11, <1>12, <1>13, <1>14, <1>15, <1>16, Zenon

(* signing out, and asking for a mail again. *)
LEMMA RemixOthers ==
  ASSUME NEW s, NEW f, NEW q, framework = "remix", NEW a \in Handler(q, s, f)
  PROVE  /\ q.route = "signout" => Left(s, a)
         /\ q.route = "email/resend" /\ q.flow # Nobody => Idle(s, a)
<1>1. Left(s, Remix!Answer(s, Remix!Nobody, FALSE, Remix!deleteAuthCookie))
  BY DEF Left, Remix!Answer, Remix!deleteAuthCookie, Remix!Gone, Remix!Cookie, Remix!Nobody, Nobody
     , Core!Nobody
<1>2. Left(s, Remix!Thrown(Remix!Answer(s, Remix!Nobody, FALSE, Remix!deleteAuthCookie)))
  BY DEF Left, Remix!Answer, Remix!Thrown, Remix!NoWrites
<1>3. ASSUME q.route = "signout" PROVE Left(s, a)
  <2>1. a \in Remix!signout(q, s)
    BY <1>3 DEF Handler, Remix!Handle
  <2> QED
    BY <1>1, <1>2, <2>1, Zenon DEF Remix!signout, Remix!cbCall
<1>4. ASSUME q.route = "email/resend", q.flow # Nobody PROVE Idle(s, a)
  <2>1. q.flow # Remix!Nobody /\ (a \in Remix!emailPasswordResendVerificationEmail(q, s, f))
    BY <1>4 DEF Handler, Remix!Handle, Nobody, Core!Nobody, Remix!Nobody
  <2>2. \A c \in Remix!resendVerificationEmail(s) : Idle(s, Reply(c, FALSE, Remix!NoWrites))
    BY DEF Remix!resendVerificationEmail, Remix!Outcome, Remix!Failure, Idle, Reply, Core!Answer
       , Core!Refused, Core!NoWrites, Remix!NoWrites
  <2> QED
    BY <2>1, <2>2, RemixReply, Zenon DEF Remix!emailPasswordResendVerificationEmail, Remix!Served
       , Remix!handleAction
<1> QED
  BY <1>3, <1>4

----------------------------------------------------------------------------
(* auth-sveltekit. *)

(* The cookies it writes. *)
LEMMA SvelteWrites ==
  ASSUME NEW f \in Flows
  PROVE  /\ StartWrites(f, Svelte!setVerifierCookie(f))
         /\ \A t \in {Nobody, f} : /\ StartWrites(f, Svelte!setAuthCookie(t))
                                   /\ StartWrites(f, Svelte!SignUpWrites(f, t, Svelte!setVerifierCookie, Svelte!setAuthCookie))
         /\ \A t : /\ EndWrites(t, Svelte!SignedIn(t)) /\ EndWrites(t, Svelte!setAuthCookie(t))
                   /\ "verifier" \notin DOMAIN Svelte!setAuthCookie(t)
<1>1. Svelte!VerifierLife = 10080000 /\ TwoHours = 7200000 /\ Core!Forever = 1036800000
  BY DEF Svelte!VerifierLife, TwoHours, Core!Hour, Core!Forever, Core!Day
<1>2. StartWrites(f, Svelte!setVerifierCookie(f))
  BY <1>1 DEF StartWrites, Lasting, Svelte!setVerifierCookie, Svelte!Cookie
<1>3. ASSUME NEW t \in {Nobody, f} PROVE StartWrites(f, Svelte!setAuthCookie(t))
  BY DEF StartWrites, Svelte!setAuthCookie, Svelte!Cookie
<1>4. ASSUME NEW t \in {Nobody, f} PROVE StartWrites(f, Svelte!SignUpWrites(f, t, Svelte!setVerifierCookie, Svelte!setAuthCookie))
  BY <1>2, <1>3 DEF StartWrites, Lasting, Svelte!SignUpWrites, Svelte!Both, Svelte!NoWrites
     , Svelte!setVerifierCookie, Svelte!setAuthCookie
<1>5. ASSUME NEW t PROVE EndWrites(t, Svelte!SignedIn(t)) /\ EndWrites(t, Svelte!setAuthCookie(t)) /\ "verifier" \notin DOMAIN Svelte!setAuthCookie(t)
  BY DEF EndWrites, Svelte!SignedIn, Svelte!Both, Svelte!deleteVerifierCookie, Svelte!deleteCookie
     , Svelte!setAuthCookie, Svelte!Gone, Svelte!Cookie, Svelte!Nobody, Nobody, Core!Nobody
<1> QED
  BY <1>2, <1>3, <1>4, <1>5

(* What its calls to the auth server do. *)
LEMMA SvelteCalls ==
  ASSUME NEW s \in [Flows -> FlowState], NEW f \in Flows, NEW new \in BOOLEAN,
         framework = "sveltekit"
  PROVE  /\ \A c \in Svelte!createPKCESession(s, f, "oauth", new, FALSE, TRUE)
                      \cup Svelte!createPKCESession(s, f, "builtin", new, FALSE, TRUE) : Begins(s, f, c)
         /\ \A c \in Svelte!signupWithEmailPassword(s, f)
                      \cup Svelte!signupWithWebAuthn(s, f) : Begins(s, f, c)
         /\ \A c \in Svelte!signinWithEmailPassword(s, f)
                      \cup Svelte!signinWithWebAuthn(s, f) : Begins(s, f, c)
         /\ \A c \in Svelte!signupWithMagicLink(s, f, TRUE)
                      \cup Svelte!signinWithMagicLink(s, f, TRUE) : Begins(s, f, c)
         /\ \A c \in Svelte!sendPasswordResetEmail(s, f)
                      \cup Svelte!resendVerificationEmailForEmail(s, f) : Begins(s, f, c)
<1>1. ASSUME NEW c, NEW kind, NEW n, NEW says, Svelte!Starts(Flows, s, f, c, kind, n, says),
             SaysSignUp(kind) => says = n
      PROVE  Begins(s, f, c)
  <2>1. Core!Starts(Flows, s, f, c, kind, n, says)
    BY <1>1, Zenon DEF Core!Starts, Svelte!Starts, Core!FlowState, Svelte!FlowState, Core!Nobody
       , Svelte!Nobody
  <2> QED
    BY <1>1, <2>1, Zenon DEF Begins
<1>2. s \in [Flows -> Svelte!FlowState]
  BY Zenon DEF FlowState, Core!FlowState, Svelte!FlowState
<1>3. /\ \A c \in Svelte!createPKCESession(s, f, "oauth", new, FALSE, TRUE) :
           Svelte!Starts(Flows, s, f, c, "oauth", new, new)
      /\ \A c \in Svelte!createPKCESession(s, f, "builtin", new, FALSE, TRUE) :
           Svelte!Starts(Flows, s, f, c, "builtin", new, new)
  BY <1>2, Svelte!StartFacts, Zenon
<1>4. \A c \in Svelte!createPKCESession(s, f, "oauth", new, FALSE, TRUE)
          \cup Svelte!createPKCESession(s, f, "builtin", new, FALSE, TRUE) : Begins(s, f, c)
  BY <1>1, <1>3, Zenon
<1>5. /\ \A c \in Svelte!signupWithEmailPassword(s, f) : Svelte!Starts(Flows, s, f, c, "email", TRUE, FALSE)
      /\ \A c \in Svelte!signupWithWebAuthn(s, f) : Svelte!Starts(Flows, s, f, c, "webauthn", TRUE, FALSE)
      /\ \A c \in Svelte!sendPasswordResetEmail(s, f) : Svelte!Starts(Flows, s, f, c, "reset", FALSE, FALSE)
      /\ \A c \in Svelte!resendVerificationEmailForEmail(s, f) : Svelte!Starts(Flows, s, f, c, "email", TRUE, FALSE)
      /\ \A c \in Svelte!signinWithEmailPassword(s, f) \cup Svelte!signinWithWebAuthn(s, f) :
           Svelte!Starts(Flows, s, f, c, "direct", FALSE, FALSE)
  BY <1>2, Svelte!StartFacts, Zenon
<1>6. /\ \A c \in Svelte!signupWithMagicLink(s, f, TRUE) : Svelte!Starts(Flows, s, f, c, "magic", TRUE, TRUE)
      /\ \A c \in Svelte!signinWithMagicLink(s, f, TRUE) : Svelte!Starts(Flows, s, f, c, "magic", FALSE, TRUE)
  BY <1>2, Svelte!StartFacts
<1>7. ~SaysSignUp("email") /\ ~SaysSignUp("webauthn") /\ ~SaysSignUp("direct") /\ ~SaysSignUp("reset") /\ ~SaysSignUp("magic")
  BY DEF SaysSignUp
<1>8. \A c \in Svelte!signupWithEmailPassword(s, f)
          \cup Svelte!signupWithWebAuthn(s, f) : Begins(s, f, c)
  BY <1>1, <1>5, <1>7, Zenon
<1>9. \A c \in Svelte!signinWithEmailPassword(s, f)
          \cup Svelte!signinWithWebAuthn(s, f) : Begins(s, f, c)
  BY <1>1, <1>5, <1>7, Zenon
<1>10. \A c \in Svelte!sendPasswordResetEmail(s, f)
          \cup Svelte!resendVerificationEmailForEmail(s, f) : Begins(s, f, c)
  BY <1>1, <1>5, <1>7, Zenon
<1>11. \A c \in Svelte!signupWithMagicLink(s, f, TRUE)
          \cup Svelte!signinWithMagicLink(s, f, TRUE) : Begins(s, f, c)
  BY <1>1, <1>6, <1>7, Zenon
<1> QED
  BY <1>4, <1>8, <1>9, <1>10, <1>11, Zenon

(* Its answers are the replies to those calls. *)
LEMMA SvelteReply ==
  /\ \A c, flag, w : (IF c.ok THEN Svelte!Answer(c.srv, c.token, flag, w) ELSE Svelte!Refused(c.srv)) = Reply(c, flag, w)
  /\ \A s : Svelte!Refused(s) = Core!Refused(s)
  /\ \A s : Svelte!Answer(s, Svelte!Nobody, TRUE, Svelte!NoWrites) = Core!Answer(s, Core!Nobody, TRUE, Core!NoWrites)
  /\ \A x : Svelte!Thrown(x) = Core!Thrown(x)
BY Zenon DEF Reply, Svelte!Answer, Core!Answer, Svelte!Refused, Core!Refused, Svelte!Thrown, Core!Thrown
   , Svelte!Nobody, Core!Nobody, Svelte!NoWrites, Core!NoWrites, Svelte!Gone, Core!Gone, Svelte!Cookie
   , Core!Cookie

(* The routes that begin a flow, *)
LEMMA SvelteStarts ==
  ASSUME NEW s \in [Flows -> FlowState], NEW f \in Flows, NEW q, q.new \in BOOLEAN, q.flow = Nobody,
         q.route \in StartRoutes, framework = "sveltekit", NEW a \in Handler(q, s, f)
  PROVE  Started(s, f, a)
<1>1. ASSUME NEW c, Begins(s, f, c)
      PROVE  /\ Started(s, f, Reply(c, FALSE, Svelte!setVerifierCookie(f)))
             /\ Started(s, f, Reply(c, FALSE, Svelte!setAuthCookie(c.token)))
             /\ Started(s, f, Reply(c, FALSE, Svelte!SignUpWrites(f, c.token, Svelte!setVerifierCookie, Svelte!setAuthCookie)))
  <2>1. c.token \in {Nobody, f}
    BY <1>1 DEF Begins, Core!Starts, Nobody
  <2> QED
    BY <1>1, <2>1, StartReply, SvelteWrites
<1>2. /\ \A x \in Svelte!oauth(q, s, f) : Started(s, f, x)
      /\ \A x \in Svelte!builtinStart(q, s, f) : Started(s, f, x)
  BY <1>1, SvelteCalls, SvelteReply, Zenon DEF Svelte!oauth, Svelte!builtinStart, Svelte!Served
<1>3. /\ \A x \in Svelte!emailPasswordSendPasswordResetEmail(s, f) : Started(s, f, x)
      /\ \A x \in Svelte!magicLinkSignUp(s, f) : Started(s, f, x)
      /\ \A x \in Svelte!magicLinkSend(s, f) : Started(s, f, x)
  BY <1>1, SvelteCalls, SvelteReply, Zenon DEF Svelte!emailPasswordSendPasswordResetEmail
     , Svelte!magicLinkSignUp, Svelte!magicLinkSend, Svelte!Served
<1>4. /\ \A x \in Svelte!emailPasswordSignIn(s, f) : Started(s, f, x)
      /\ \A x \in Svelte!webAuthnSignIn(s, f) : Started(s, f, x)
  BY <1>1, SvelteCalls, SvelteReply, Zenon DEF Svelte!emailPasswordSignIn, Svelte!webAuthnSignIn
     , Svelte!Served
<1>5. /\ \A x \in Svelte!emailPasswordSignUp(s, f) : Started(s, f, x)
      /\ \A x \in Svelte!webAuthnSignUp(s, f) : Started(s, f, x)
  BY <1>1, SvelteCalls, SvelteReply, Zenon DEF Svelte!emailPasswordSignUp, Svelte!webAuthnSignUp
     , Svelte!Served
<1>6. \A x \in Svelte!emailPasswordResendVerificationEmail(q, s, f) : Started(s, f, x)
  <2>1. q.flow = Svelte!Nobody
    BY Zenon DEF Nobody, Core!Nobody, Svelte!Nobody
  <2> QED
    BY <1>1, <2>1, SvelteCalls, SvelteReply, Zenon DEF Svelte!emailPasswordResendVerificationEmail
       , Svelte!Served
<1>7. a \in Svelte!oauth(q, s, f) \cup Svelte!builtinStart(q, s, f)
        \cup Svelte!emailPasswordSendPasswordResetEmail(s, f) \cup Svelte!magicLinkSignUp(s, f)
        \cup Svelte!magicLinkSend(s, f) \cup Svelte!emailPasswordSignIn(s, f)
        \cup Svelte!webAuthnSignIn(s, f) \cup Svelte!emailPasswordSignUp(s, f)
        \cup Svelte!webAuthnSignUp(s, f) \cup Svelte!emailPasswordResendVerificationEmail(q, s, f)
  BY DEF Handler, StartRoutes, Svelte!Method, Svelte!handleAuthRoutes
<1> QED
  BY <1>2, <1>3, <1>4, <1>5, <1>6, <1>7, Zenon

(* those that end one, *)
LEMMA SvelteEnds ==
  ASSUME NEW s \in [Flows -> FlowState], NEW f, NEW q, q.flow \in Flows,
         q.route \in FollowRoutes, framework = "sveltekit", NEW a \in Handler(q, s, f)
  PROVE  Ended(q, s, a)
<1> DEFINE v == VerifierOf(q)
<1>1. Svelte!getVerifierCookie(q) = v /\ Svelte!Nobody = Nobody
  BY Zenon DEF VerifierOf, Svelte!getVerifierCookie, Svelte!Either, Core!Either, Nobody, Svelte!Nobody
     , Core!Nobody
<1>2. ASSUME NEW c \in Svelte!getToken(s, q.flow, v) \cup Svelte!verifyEmailPasswordSignup(s, q.flow, v)
                    \cup Svelte!verifyWebAuthnSignup(s, q.flow, v)
                    \cup Svelte!resetPasswordWithResetToken(s, q.flow, v)
      PROVE  Finishes(q, s, c)
  <2>1. s \in [Flows -> Svelte!FlowState]
    BY Zenon DEF FlowState, Core!FlowState, Svelte!FlowState
  <2>2. Svelte!Ends(Flows, s, q.flow, v, c)
    BY <1>2, <2>1, Svelte!EndFacts
  <2> QED
    BY <2>2, Zenon DEF Finishes, Svelte!Ends, Core!Ends, Core!FlowState, Svelte!FlowState
<1>3. ASSUME NEW c, Finishes(q, s, c), v # Nobody
      PROVE  /\ Ended(q, s, Reply(c, q.flag, Svelte!setAuthCookie(c.token)))
             /\ q.route # "builtin/callback" => Ended(q, s, Reply(c, q.flag, Svelte!SignedIn(c.token)))
  BY <1>3, EndReply, SvelteWrites
<1>4. Ended(q, s, Core!Refused(s))
  BY RefusedFacts
<1> HIDE DEF v
<1>5. /\ \A x \in Svelte!oauthCallback(q, s) : q.route # "builtin/callback" => Ended(q, s, x)
      /\ \A x \in Svelte!magiclinkCallback(q, s) : q.route # "builtin/callback" => Ended(q, s, x)
  BY <1>1, <1>2, <1>3, <1>4, SvelteReply, Zenon DEF Svelte!oauthCallback, Svelte!magiclinkCallback
     , Svelte!Redeem, Svelte!Served
<1>6. /\ \A x \in Svelte!emailVerify(q, s) : q.route # "builtin/callback" => Ended(q, s, x)
      /\ \A x \in Svelte!webauthnVerify(q, s) : q.route # "builtin/callback" => Ended(q, s, x)
      /\ \A x \in Svelte!emailPasswordResetPassword(q, s) : q.route # "builtin/callback" => Ended(q, s, x)
  BY <1>1, <1>2, <1>3, <1>4, SvelteReply, Zenon DEF Svelte!emailVerify, Svelte!webauthnVerify
     , Svelte!emailPasswordResetPassword, Svelte!Redeem, Svelte!Served
<1>7. \A x \in Svelte!builtinCallback(q, s) : Ended(q, s, x)
  <2>1. Ended(q, s, Svelte!Answer(s, Svelte!Nobody, TRUE, Svelte!NoWrites))
    BY MailedFacts, SvelteReply, Zenon
  <2>2. ASSUME q.params # "mailed" PROVE \A x \in Svelte!builtinCallback(q, s) : Ended(q, s, x)
    BY <1>1, <1>2, <1>3, <1>4, <2>2, SvelteReply, Zenon DEF Svelte!builtinCallback, Svelte!Redeem
       , Svelte!Served
  <2>3. ASSUME q.params = "mailed" PROVE \A x \in Svelte!builtinCallback(q, s) : Ended(q, s, x)
    BY <2>1, <2>3, SvelteReply, Zenon DEF Svelte!builtinCallback
  <2> QED
    BY <2>2, <2>3
<1>8. ASSUME NEW S, \A x \in S : Ended(q, s, x) PROVE \A x \in Svelte!createAuthRouteHook(q, S) : Ended(q, s, x)
  <2>1. \A x \in S : Ended(q, s, Svelte!Thrown(x))
    BY <1>8, SvelteReply, ThrownFacts, Zenon
  <2>2. \A x \in Svelte!createAuthRouteHook(q, S) : x \in S \/ \E y \in S : x = Svelte!Thrown(y)
    BY DEF Svelte!createAuthRouteHook
  <2> QED
    BY <1>8, <2>1, <2>2, Zenon
<1>9. ASSUME q.route # "builtin/callback"
      PROVE  \E S : (a \in S \/ a \in Svelte!createAuthRouteHook(q, S)) /\ S \in {Svelte!oauthCallback(q, s)
        , Svelte!magiclinkCallback(q, s), Svelte!emailVerify(q, s), Svelte!webauthnVerify(q, s)
        , Svelte!emailPasswordResetPassword(q, s)}
  BY <1>9 DEF Handler, FollowRoutes, Svelte!Method, Svelte!handleAuthRoutes
<1>10. ASSUME q.route = "builtin/callback" PROVE a \in Svelte!createAuthRouteHook(q, Svelte!builtinCallback(q, s))
  BY <1>10 DEF Handler, Svelte!Method, Svelte!handleAuthRoutes
<1> QED
  BY <1>5, <1>6, <1>7, <1>8, <1>9, <1>10, Zenon

(* signing out, and asking for a mail again. *)
LEMMA SvelteOthers ==
  ASSUME NEW s, NEW f, NEW q, framework = "sveltekit", NEW a \in Handler(q, s, f)
  PROVE  /\ q.route = "signout" => Left(s, a)
         /\ q.route = "email/resend" /\ q.flow # Nobody => Idle(s, a)
<1>1. Left(s, Svelte!Answer(s, Svelte!Nobody, FALSE, Svelte!deleteAuthCookie))
  BY DEF Left, Svelte!Answer, Svelte!deleteAuthCookie, Svelte!Both, Svelte!deleteCookie, Svelte!Gone
     , Svelte!Cookie, Svelte!Nobody, Nobody, Core!Nobody
<1>2. Left(s, Svelte!Thrown(Svelte!Answer(s, Svelte!Nobody, FALSE, Svelte!deleteAuthCookie)))
  BY DEF Left, Svelte!Answer, Svelte!Thrown, Svelte!NoWrites
<1>3. ASSUME q.route = "signout" PROVE Left(s, a)
  <2>1. a \in Svelte!createAuthRouteHook(q, Svelte!signoutRoute(s)) \cup Svelte!signout(s)
    BY <1>3 DEF Handler, Svelte!Method, Svelte!handleAuthRoutes
  <2> QED
    BY <1>1, <1>2, <2>1, Zenon DEF Svelte!signout, Svelte!signoutRoute, Svelte!createAuthRouteHook
<1>4. ASSUME q.route = "email/resend", q.flow # Nobody PROVE Idle(s, a)
  <2>1. q.flow # Svelte!Nobody /\ (a \in Svelte!emailPasswordResendVerificationEmail(q, s, f))
    BY <1>4 DEF Handler, Svelte!Method, Svelte!handleAuthRoutes, Nobody, Core!Nobody, Svelte!Nobody
  <2>2. \A c \in Svelte!resendVerificationEmail(s) : Idle(s, Reply(c, FALSE, Svelte!NoWrites))
    BY DEF Svelte!resendVerificationEmail, Svelte!Outcome, Svelte!Failure, Idle, Reply, Core!Answer
       , Core!Refused, Core!NoWrites, Svelte!NoWrites
  <2> QED
    BY <2>1, <2>2, SvelteReply, Zenon DEF Svelte!emailPasswordResendVerificationEmail, Svelte!Served
<1> QED
  BY <1>3, <1>4

----------------------------------------------------------------------------
(* auth-express. *)

(* The cookies it writes. *)
LEMMA ExpressWrites ==
  ASSUME NEW f \in Flows
  PROVE  /\ StartWrites(f, Express!createVerifierCookie(f))
         /\ \A t \in {Nobody, f} : /\ StartWrites(f, Express!createAuthCookie(t))
                                   /\ StartWrites(f, Express!SignUpWrites(f, t, Express!createVerifierCookie, Express!createAuthCookie))
         /\ \A t : /\ EndWrites(t, Express!SignedIn(t)) /\ EndWrites(t, Express!createAuthCookie(t))
                   /\ "verifier" \notin DOMAIN Express!createAuthCookie(t)
<1>1. Express!VerifierLife = 10080000 /\ TwoHours = 7200000 /\ Core!Forever = 1036800000
  BY DEF Express!VerifierLife, TwoHours, Core!Hour, Core!Forever, Core!Day
<1>2. StartWrites(f, Express!createVerifierCookie(f))
  BY <1>1 DEF StartWrites, Lasting, Express!createVerifierCookie, Express!Cookie
<1>3. ASSUME NEW t \in {Nobody, f} PROVE StartWrites(f, Express!createAuthCookie(t))
  BY DEF StartWrites, Express!createAuthCookie, Express!Cookie
<1>4. ASSUME NEW t \in {Nobody, f} PROVE StartWrites(f, Express!SignUpWrites(f, t, Express!createVerifierCookie, Express!createAuthCookie))
  BY <1>2, <1>3 DEF StartWrites, Lasting, Express!SignUpWrites, Express!Both, Express!NoWrites
     , Express!createVerifierCookie, Express!createAuthCookie
<1>5. ASSUME NEW t PROVE EndWrites(t, Express!SignedIn(t)) /\ EndWrites(t, Express!createAuthCookie(t)) /\ "verifier" \notin DOMAIN Express!createAuthCookie(t)
  BY DEF EndWrites, Express!SignedIn, Express!Both, Express!clearVerifierCookie
     , Express!createAuthCookie, Express!Gone, Express!Cookie, Express!Nobody, Nobody, Core!Nobody
<1> QED
  BY <1>2, <1>3, <1>4, <1>5

(* What its calls to the auth server do. *)
LEMMA ExpressCalls ==
  ASSUME NEW s \in [Flows -> FlowState], NEW f \in Flows, NEW new \in BOOLEAN,
         framework = "express"
  PROVE  /\ \A c \in Express!createPKCESession(s, f, "oauth", new, FALSE, TRUE)
                      \cup Express!createPKCESession(s, f, "builtin", new, FALSE, TRUE) : Begins(s, f, c)
         /\ \A c \in Express!signupWithEmailPassword(s, f)
                      \cup Express!signupWithWebAuthn(s, f) : Begins(s, f, c)
         /\ \A c \in Express!signinWithEmailPassword(s, f)
                      \cup Express!signinWithWebAuthn(s, f) : Begins(s, f, c)
         /\ \A c \in Express!signupWithMagicLink(s, f, FALSE)
                      \cup Express!signinWithMagicLink(s, f, FALSE) : Begins(s, f, c)
         /\ \A c \in Express!sendPasswordResetEmail(s, f)
                      \cup Express!resendVerificationEmailForEmail(s, f) : Begins(s, f, c)
<1>1. ASSUME NEW c, NEW kind, NEW n, NEW says, Express!Starts(Flows, s, f, c, kind, n, says),
             SaysSignUp(kind) => says = n
      PROVE  Begins(s, f, c)
  <2>1. Core!Starts(Flows, s, f, c, kind, n, says)
    BY <1>1, Zenon DEF Core!Starts, Express!Starts, Core!FlowState, Express!FlowState, Core!Nobody
       , Express!Nobody
  <2> QED
    BY <1>1, <2>1, Zenon DEF Begins
<1>2. s \in [Flows -> Express!FlowState]
  BY Zenon DEF FlowState, Core!FlowState, Express!FlowState
<1>3. /\ \A c \in Express!createPKCESession(s, f, "oauth", new, FALSE, TRUE) :
           Express!Starts(Flows, s, f, c, "oauth", new, new)
      /\ \A c \in Express!createPKCESession(s, f, "builtin", new, FALSE, TRUE) :
           Express!Starts(Flows, s, f, c, "builtin", new, new)
  BY <1>2, Express!StartFacts, Zenon
<1>4. \A c \in Express!createPKCESession(s, f, "oauth", new, FALSE, TRUE)
          \cup Express!createPKCESession(s, f, "builtin", new, FALSE, TRUE) : Begins(s, f, c)
  BY <1>1, <1>3, Zenon
<1>5. /\ \A c \in Express!signupWithEmailPassword(s, f) : Express!Starts(Flows, s, f, c, "email", TRUE, FALSE)
      /\ \A c \in Express!signupWithWebAuthn(s, f) : Express!Starts(Flows, s, f, c, "webauthn", TRUE, FALSE)
      /\ \A c \in Express!sendPasswordResetEmail(s, f) : Express!Starts(Flows, s, f, c, "reset", FALSE, FALSE)
      /\ \A c \in Express!resendVerificationEmailForEmail(s, f) : Express!Starts(Flows, s, f, c, "email", TRUE, FALSE)
      /\ \A c \in Express!signinWithEmailPassword(s, f) \cup Express!signinWithWebAuthn(s, f) :
           Express!Starts(Flows, s, f, c, "direct", FALSE, FALSE)
  BY <1>2, Express!StartFacts, Zenon
<1>6. /\ \A c \in Express!signupWithMagicLink(s, f, FALSE) : Express!Starts(Flows, s, f, c, "magic", TRUE, FALSE)
      /\ \A c \in Express!signinWithMagicLink(s, f, FALSE) : Express!Starts(Flows, s, f, c, "magic", FALSE, FALSE)
  BY <1>2, Express!StartFacts
<1>7. ~SaysSignUp("email") /\ ~SaysSignUp("webauthn") /\ ~SaysSignUp("direct") /\ ~SaysSignUp("reset") /\ ~SaysSignUp("magic")
  BY DEF SaysSignUp
<1>8. \A c \in Express!signupWithEmailPassword(s, f)
          \cup Express!signupWithWebAuthn(s, f) : Begins(s, f, c)
  BY <1>1, <1>5, <1>7, Zenon
<1>9. \A c \in Express!signinWithEmailPassword(s, f)
          \cup Express!signinWithWebAuthn(s, f) : Begins(s, f, c)
  BY <1>1, <1>5, <1>7, Zenon
<1>10. \A c \in Express!sendPasswordResetEmail(s, f)
          \cup Express!resendVerificationEmailForEmail(s, f) : Begins(s, f, c)
  BY <1>1, <1>5, <1>7, Zenon
<1>11. \A c \in Express!signupWithMagicLink(s, f, FALSE)
          \cup Express!signinWithMagicLink(s, f, FALSE) : Begins(s, f, c)
  BY <1>1, <1>6, <1>7, Zenon
<1> QED
  BY <1>4, <1>8, <1>9, <1>10, <1>11, Zenon

(* Its answers are the replies to those calls. *)
LEMMA ExpressReply ==
  /\ \A c, flag, w : (IF c.ok THEN Express!Answer(c.srv, c.token, flag, w) ELSE Express!Refused(c.srv)) = Reply(c, flag, w)
  /\ \A s : Express!Refused(s) = Core!Refused(s)
BY Zenon DEF Reply, Express!Answer, Core!Answer, Express!Refused, Core!Refused, Express!Nobody
   , Core!Nobody, Express!NoWrites, Core!NoWrites, Express!Gone, Core!Gone, Express!Cookie, Core!Cookie

(* The routes that begin a flow, *)
LEMMA ExpressStarts ==
  ASSUME NEW s \in [Flows -> FlowState], NEW f \in Flows, NEW q, q.new \in BOOLEAN, q.flow = Nobody,
         q.route \in StartRoutes, framework = "express", NEW a \in Handler(q, s, f)
  PROVE  Started(s, f, a)
<1>1. ASSUME NEW c, Begins(s, f, c)
      PROVE  /\ Started(s, f, Reply(c, FALSE, Express!createVerifierCookie(f)))
             /\ Started(s, f, Reply(c, FALSE, Express!createAuthCookie(c.token)))
             /\ Started(s, f, Reply(c, FALSE, Express!SignUpWrites(f, c.token, Express!createVerifierCookie, Express!createAuthCookie)))
  <2>1. c.token \in {Nobody, f}
    BY <1>1 DEF Begins, Core!Starts, Nobody
  <2> QED
    BY <1>1, <2>1, StartReply, ExpressWrites
<1>2. /\ \A x \in Express!oAuthRedirect(q, s, f) : Started(s, f, x)
      /\ \A x \in Express!builtinSignIn(s, f) : Started(s, f, x)
      /\ \A x \in Express!builtinSignUp(s, f) : Started(s, f, x)
  BY <1>1, ExpressCalls, ExpressReply, Zenon DEF Express!oAuthRedirect, Express!builtinSignIn
     , Express!builtinSignUp, Express!Served
<1>3. /\ \A x \in Express!sendPasswordResetEmail_(s, f) : Started(s, f, x)
      /\ \A x \in Express!magicLinkSignUp(s, f) : Started(s, f, x)
      /\ \A x \in Express!magicLinkSend(s, f) : Started(s, f, x)
  BY <1>1, ExpressCalls, ExpressReply, Zenon DEF Express!sendPasswordResetEmail_
     , Express!magicLinkSignUp, Express!magicLinkSend, Express!Served
<1>4. /\ \A x \in Express!emailSignIn(s, f) : Started(s, f, x)
      /\ \A x \in Express!webAuthnSignIn(s, f) : Started(s, f, x)
  BY <1>1, ExpressCalls, ExpressReply, Zenon DEF Express!emailSignIn, Express!webAuthnSignIn
     , Express!Served
<1>5. /\ \A x \in Express!emailSignUp(s, f) : Started(s, f, x)
      /\ \A x \in Express!webAuthnSignUp(s, f) : Started(s, f, x)
  BY <1>1, ExpressCalls, ExpressReply, Zenon DEF Express!emailSignUp, Express!webAuthnSignUp
     , Express!Served
<1>6. \A x \in Express!resendVerificationEmail_(q, s, f) : Started(s, f, x)
  <2>1. q.flow = Express!Nobody
    BY Zenon DEF Nobody, Core!Nobody, Express!Nobody
  <2> QED
    BY <1>1, <2>1, ExpressCalls, ExpressReply, Zenon DEF Express!resendVerificationEmail_
       , Express!Served
<1>7. \A x \in {Express!Unanswered(s)} : Started(s, f, x)
  BY <1>1 DEF Started, StartWrites, Express!Unanswered, Express!NoWrites
<1>8. a \in Express!oAuthRedirect(q, s, f) \cup Express!builtinSignIn(s, f)
        \cup Express!builtinSignUp(s, f) \cup Express!sendPasswordResetEmail_(s, f)
        \cup Express!magicLinkSignUp(s, f) \cup Express!magicLinkSend(s, f)
        \cup Express!emailSignIn(s, f) \cup Express!webAuthnSignIn(s, f) \cup Express!emailSignUp(s, f)
        \cup Express!webAuthnSignUp(s, f) \cup Express!resendVerificationEmail_(q, s, f)
        \cup {Express!Unanswered(s)}
  BY DEF Handler, StartRoutes, Express!Handle, Express!createOAuthRouter, Express!createBuiltinRouter
     , Express!createWebAuthnRouter, Express!createMagicLinkRouter, Express!createEmailPasswordRouter
<1> QED
  BY <1>2, <1>3, <1>4, <1>5, <1>6, <1>7, <1>8, Zenon

(* those that end one, *)
LEMMA ExpressEnds ==
  ASSUME NEW s \in [Flows -> FlowState], NEW f, NEW q, q.flow \in Flows,
         q.route \in FollowRoutes, framework = "express", NEW a \in Handler(q, s, f)
  PROVE  Ended(q, s, a)
<1> DEFINE v == VerifierOf(q)
<1>1. Express!getVerifier(q) = v /\ Express!Nobody = Nobody
  BY Zenon DEF VerifierOf, Express!getVerifier, Express!Either, Core!Either, Nobody, Express!Nobody
     , Core!Nobody
<1>2. ASSUME NEW c \in Express!getToken(s, q.flow, v) \cup Express!verifyEmailPasswordSignup(s, q.flow, v)
                    \cup Express!verifyWebAuthnSignup(s, q.flow, v)
                    \cup Express!resetPasswordWithResetToken(s, q.flow, v)
      PROVE  Finishes(q, s, c)
  <2>1. s \in [Flows -> Express!FlowState]
    BY Zenon DEF FlowState, Core!FlowState, Express!FlowState
  <2>2. Express!Ends(Flows, s, q.flow, v, c)
    BY <1>2, <2>1, Express!EndFacts
  <2> QED
    BY <2>2, Zenon DEF Finishes, Express!Ends, Core!Ends, Core!FlowState, Express!FlowState
<1>3. ASSUME NEW c, Finishes(q, s, c), v # Nobody
      PROVE  /\ Ended(q, s, Reply(c, q.flag, Express!createAuthCookie(c.token)))
             /\ q.route # "builtin/callback" => Ended(q, s, Reply(c, q.flag, Express!SignedIn(c.token)))
  BY <1>3, EndReply, ExpressWrites
<1>4. Ended(q, s, Core!Refused(s))
  BY RefusedFacts
<1> HIDE DEF v
<1>5. /\ \A x \in Express!oAuthCallback(q, s) : q.route # "builtin/callback" => Ended(q, s, x)
      /\ \A x \in Express!magicLinkCallback(q, s) : q.route # "builtin/callback" => Ended(q, s, x)
  BY <1>1, <1>2, <1>3, <1>4, ExpressReply, Zenon DEF Express!oAuthCallback, Express!magicLinkCallback
     , Express!Redeem, Express!Served
<1>6. /\ \A x \in Express!emailVerify(q, s) : q.route # "builtin/callback" => Ended(q, s, x)
      /\ \A x \in Express!webAuthnVerify(q, s) : q.route # "builtin/callback" => Ended(q, s, x)
      /\ \A x \in Express!resetPassword(q, s) : q.route # "builtin/callback" => Ended(q, s, x)
  BY <1>1, <1>2, <1>3, <1>4, ExpressReply, Zenon DEF Express!emailVerify, Express!webAuthnVerify
     , Express!resetPassword, Express!Redeem, Express!Served
<1>7. \A x \in Express!builtinCallback(q, s) : Ended(q, s, x)
  BY <1>1, <1>2, <1>3, <1>4, ExpressReply, Zenon DEF Express!builtinCallback, Express!Redeem
     , Express!Served
<1>8. ASSUME q.route # "builtin/callback"
      PROVE  a \in Express!oAuthCallback(q, s)
        \cup Express!magicLinkCallback(q, s) \cup Express!emailVerify(q, s)
        \cup Express!webAuthnVerify(q, s) \cup Express!resetPassword(q, s)
  BY <1>8 DEF Handler, FollowRoutes, Express!Handle, Express!createOAuthRouter
     , Express!createBuiltinRouter, Express!createWebAuthnRouter, Express!createMagicLinkRouter
     , Express!createEmailPasswordRouter
<1>9. ASSUME q.route = "builtin/callback" PROVE a \in Express!builtinCallback(q, s)
  BY <1>9 DEF Handler, Express!Handle, Express!createOAuthRouter, Express!createBuiltinRouter
     , Express!createWebAuthnRouter, Express!createMagicLinkRouter, Express!createEmailPasswordRouter
<1> QED
  BY <1>5, <1>6, <1>7, <1>8, <1>9, Zenon

(* signing out, and asking for a mail again. *)
LEMMA ExpressOthers ==
  ASSUME NEW s, NEW f, NEW q, framework = "express", NEW a \in Handler(q, s, f)
  PROVE  /\ q.route = "signout" => Left(s, a)
         /\ q.route = "email/resend" /\ q.flow # Nobody => Idle(s, a)
<1>1. Left(s, Express!Answer(s, Express!Nobody, FALSE, Express!clearAuthCookie))
  BY DEF Left, Express!Answer, Express!clearAuthCookie, Express!Gone, Express!Cookie, Express!Nobody
     , Nobody, Core!Nobody
<1>2. ASSUME q.route = "signout" PROVE Left(s, a)
  <2>1. a \in Express!signout(s)
    BY <1>2 DEF Handler, Express!Handle, Express!createOAuthRouter, Express!createBuiltinRouter
       , Express!createWebAuthnRouter, Express!createMagicLinkRouter, Express!createEmailPasswordRouter
  <2> QED
    BY <1>1, <2>1, Zenon DEF Express!signout
<1>3. ASSUME q.route = "email/resend", q.flow # Nobody PROVE Idle(s, a)
  <2>1. q.flow # Express!Nobody /\ (a \in Express!resendVerificationEmail_(q, s, f) \/ a = Express!Unanswered(s))
    BY <1>3 DEF Handler, Express!Handle, Express!createOAuthRouter, Express!createBuiltinRouter
       , Express!createWebAuthnRouter, Express!createMagicLinkRouter, Express!createEmailPasswordRouter
       , Nobody, Core!Nobody, Express!Nobody
  <2>2. \A c \in Express!resendVerificationEmail(s) : Idle(s, Reply(c, FALSE, Express!NoWrites))
    BY DEF Express!resendVerificationEmail, Express!Outcome, Express!Failure, Idle, Reply, Core!Answer
       , Core!Refused, Core!NoWrites, Express!NoWrites
  <2>3. Idle(s, Express!Unanswered(s))
    BY DEF Idle, Express!Unanswered, Express!NoWrites
  <2> QED
    BY <2>1, <2>2, <2>3, ExpressReply, Zenon DEF Express!resendVerificationEmail_, Express!Served
<1> QED
  BY <1>2, <1>3

----------------------------------------------------------------------------
(* Any package's answer to any request.  Asked says which requests there    *)
(* are.                                                                    *)

Asked(q, s, f) ==
  /\ s \in [Flows -> FlowState] /\ q.new \in BOOLEAN
  /\ \/ q.route \in StartRoutes /\ q.flow = Nobody /\ f \in Flows
     \/ q.route = "email/resend" /\ q.flow # Nobody
     \/ q.route = "signout"
     \/ q.route \in FollowRoutes /\ q.flow \in Flows

Answered(q, s, f, a) ==
  /\ q.route \in StartRoutes /\ q.flow = Nobody => Started(s, f, a)
  /\ q.route = "email/resend" /\ q.flow # Nobody => Idle(s, a)
  /\ q.route = "signout" => Left(s, a)
  /\ q.route \in FollowRoutes => Ended(q, s, a)

(* Whatever the package, its handlers answer as they should. *)
LEMMA EveryPackage ==
  ASSUME NEW s, NEW f, NEW q, Asked(q, s, f), NEW a \in Handler(q, s, f),
         framework \in {"next", "nextapp", "remix", "sveltekit", "express"}
  PROVE  Answered(q, s, f, a)
<1>1. /\ s \in [Flows -> FlowState] /\ q.new \in BOOLEAN
      /\ q.route \in StartRoutes /\ q.flow = Nobody => f \in Flows
      /\ q.route \in FollowRoutes => q.flow \in Flows
  BY DEF Asked, StartRoutes, FollowRoutes
<1>2. ASSUME q.route \in StartRoutes, q.flow = Nobody PROVE Started(s, f, a)
  BY <1>1, <1>2, NextStarts, AppStarts, RemixStarts, SvelteStarts, ExpressStarts
<1>3. ASSUME q.route \in FollowRoutes PROVE Ended(q, s, a)
  BY <1>1, <1>3, NextEnds, AppEnds, RemixEnds, SvelteEnds, ExpressEnds
<1>4. /\ q.route = "signout" => Left(s, a)
      /\ q.route = "email/resend" /\ q.flow # Nobody => Idle(s, a)
  BY NextOthers, AppOthers, RemixOthers, SvelteOthers, ExpressOthers
<1> QED
  BY <1>2, <1>3, <1>4 DEF Answered

----------------------------------------------------------------------------
(* The invariant. *)

(* A cookie of browser b names nothing, or a flow that was begun in b.     *)
Known(b, f) == f # Nobody => f \in Flows /\ srv[f].status # "none" /\ origin[f] = b

FlowsAgree ==
  /\ framework \in {"next", "nextapp", "remix", "sveltekit", "express"} /\ clock \in Nat
  /\ srv \in [Flows -> FlowState] /\ DOMAIN origin = Flows
  /\ \A f \in Flows : FlagRight(srv[f])

CookiesAgree ==
  /\ DOMAIN jar = Browsers
  /\ \A b \in Browsers, n \in Core!CookieNames : Known(b, jar[b][n].flow)

(* So does one on its way; isSignUp is right in the answers that tell it.  *)
Tells(a) ==
  /\ a.told # Nobody /\ a.route \in {"oauth/callback", "builtin/callback", "magiclink/callback"}
  /\ a.route = "magiclink/callback" => framework \in {"next", "nextapp"}

Sound(a) ==
  /\ a.browser \in Browsers
  /\ \A n \in DOMAIN a.writes :
       /\ Known(a.browser, a.writes[n].flow)
       /\ n = "oldSession" \/ a.route = "signout" => a.writes[n].flow = Nobody
       /\ n = "verifier" /\ a.writes[n].flow # Nobody => Lasting(a.writes[n])
  /\ a.route = "signout" /\ a.reply = "done" => {"session", "oldSession"} \subseteq DOMAIN a.writes
  /\ Tells(a) => a.told \in Flows /\ srv[a.told].status # "none" /\ a.flag = srv[a.told].new

AnswersAgree == \A a \in answers : Sound(a)

OneAtATime ==
  /\ DOMAIN overlap = Browsers
  /\ \A a, c \in answers : a.browser = c.browser /\ ~overlap[a.browser] => a = c

OutAgrees ==
  /\ DOMAIN out = Browsers
  /\ \A b \in Browsers : out[b] => jar[b]["session"].flow = Nobody /\ jar[b]["oldSession"].flow = Nobody

(* The verifier of the latest flow is there, unless that flow is over for  *)
(* good; nothing on its way removes it before.                             *)
Held(b) ==
  LET c == jar[b]["verifier"]
  IN c.flow = latest[b].flow /\ ~c.strict /\ c.until \in Nat /\ c.until >= latest[b].at + TwoHours
Over(f) == srv[f].status = "used" /\ srv[f].kind # "builtin"
Removes(b, a) == a.browser = b /\ "verifier" \in DOMAIN a.writes /\ a.writes["verifier"].flow = Nobody

LatestAgrees ==
  /\ DOMAIN latest = Browsers
  /\ \A b \in Browsers : latest[b].flow # Nobody =>
       /\ latest[b].flow \in Flows /\ srv[latest[b].flow].status # "none" /\ latest[b].at \in Nat
       /\ clock < latest[b].at + TwoHours =>
            /\ Held(b) \/ Over(latest[b].flow)
            /\ ~overlap[b] => \A a \in answers : Removes(b, a) => Over(latest[b].flow)

AuthInv ==
  /\ FlowsAgree /\ CookiesAgree /\ AnswersAgree /\ OneAtATime /\ OutAgrees /\ LatestAgrees

----------------------------------------------------------------------------
(* Requests: the answer is made at once, and is on its way then. *)

Asking(b, route, flow, params, new, crossSite, s) ==
  [route |-> route, flow |-> flow, params |-> params, new |-> new, app |-> app,
   flag |-> flow # Nobody /\ s[flow].flag, cookies |-> Attached(b, crossSite)]
Message(b, route, a) ==
  [browser |-> b, route |-> route, reply |-> a.reply, told |-> a.told, flag |-> a.flag, writes |-> a.writes]
Sent(b, route, f, a) ==
  /\ overlap' = [overlap EXCEPT ![b] = InFlight(b) # {}]
  /\ srv' = a.srv
  /\ origin' = IF f = Nobody THEN origin ELSE [origin EXCEPT ![f] = b]
  /\ answers' = answers \/ answers' = answers \cup {Message(b, route, a)}
  /\ UNCHANGED <<framework, jar, clock, latest, out>>

(* What a request does. *)
LEMMA RequestFacts ==
  ASSUME NEW b, NEW route, NEW flow, NEW params, NEW new, NEW crossSite, NEW f, NEW s,
         Request(b, route, flow, params, new, crossSite, f, s)
  PROVE  \E a \in Handler(Asking(b, route, flow, params, new, crossSite, s), s, f) : Sent(b, route, f, a)
BY Zenon DEF Request, Asking, Sent, Message

(* No flow that was begun is begun again, and what is over stays over.     *)
Persist ==
  \A g \in Flows : srv[g].status # "none" =>
    /\ srv'[g].status # "none" /\ srv'[g].kind = srv[g].kind /\ srv'[g].new = srv[g].new
    /\ origin'[g] = origin[g]
    /\ Over(g) => srv'[g].status = "used"

(* A request preserves the invariant if its answer is sound, and removes   *)
(* no verifier that is still needed.                                       *)
LEMMA SentKept ==
  ASSUME AuthInv, NEW b \in Browsers, NEW route, NEW f, NEW a, Sent(b, route, f, a), Persist,
         FlowsAgree', Sound(Message(b, route, a))',
         Removes(b, Message(b, route, a)) /\ InFlight(b) = {} /\ latest[b].flow # Nobody
           /\ clock < latest[b].at + TwoHours => Over(latest[b].flow)'
  PROVE  AuthInv'
<1> DEFINE m == Message(b, route, a)
<1>0. m.browser = b
  BY DEF Message
<1>1. /\ \A x \in answers' : x \in answers \/ x = m
      /\ overlap' = [overlap EXCEPT ![b] = InFlight(b) # {}]
      /\ UNCHANGED <<framework, jar, clock, latest, out>>
  BY DEF Sent
<1> HIDE DEF m
<1>2. ASSUME NEW c, NEW g, Known(c, g) PROVE Known(c, g)'
  BY <1>2 DEF Persist, Known
<1>3. ASSUME NEW g \in Flows, srv[g].status # "none", Over(g) PROVE Over(g)'
  BY <1>3 DEF Persist, Over
<1>4. CookiesAgree'
  BY <1>1, <1>2 DEF CookiesAgree, AuthInv
<1>5. ASSUME NEW x \in answers, Sound(x) PROVE Sound(x)'
  <2>1. Tells(x)' => Tells(x)
    BY <1>1 DEF Tells
  <2>2. Tells(x) => x.told \in Flows /\ srv'[x.told].status # "none" /\ x.flag = srv'[x.told].new
    BY <1>5 DEF Sound, Persist
  <2> QED
    BY <1>2, <1>5, <2>1, <2>2 DEF Sound
<1>6. AnswersAgree'
  BY <1>1, <1>5 DEF AnswersAgree, AuthInv, m
<1>7. OneAtATime'
  <2>1. DOMAIN overlap' = Browsers /\ (\A c \in Browsers \ {b} : overlap'[c] = overlap[c])
        /\ overlap'[b] = (InFlight(b) # {})
    BY <1>1 DEF AuthInv, OneAtATime
  <2>2. ASSUME NEW x \in answers', NEW y \in answers', x.browser = y.browser, ~overlap'[x.browser]
        PROVE  x = y
    <3>1. x.browser \in Browsers /\ y.browser \in Browsers
      BY <1>6 DEF AnswersAgree, Sound
    <3>2. CASE x.browser = b
      <4>1. \A z \in answers : z.browser # b
        BY <2>1, <2>2, <3>2 DEF InFlight
      <4> QED
        BY <1>1, <2>2, <3>2, <4>1
    <3>3. CASE x.browser # b
      BY <1>0, <1>1, <2>1, <2>2, <3>1, <3>3 DEF AuthInv, OneAtATime
    <3> QED
      BY <3>2, <3>3
  <2> QED
    BY <2>1, <2>2 DEF OneAtATime
<1>8. OutAgrees'
  BY <1>1 DEF AuthInv, OutAgrees
<1>9. LatestAgrees'
  <2>1. ASSUME NEW c \in Browsers, NEW g, g = latest[c].flow, g # Nobody
        PROVE  /\ g \in Flows /\ srv'[g].status # "none" /\ latest[c].at \in Nat
               /\ clock < latest[c].at + TwoHours =>
                    /\ Held(c)' \/ Over(g)'
                    /\ ~overlap'[c] => \A x \in answers' : Removes(c, x) => Over(g)'
    <3>1. /\ g \in Flows /\ srv[g].status # "none" /\ latest[c].at \in Nat
          /\ clock < latest[c].at + TwoHours =>
               /\ Held(c) \/ Over(g)
               /\ ~overlap[c] => \A x \in answers : Removes(c, x) => Over(g)
      BY <2>1 DEF AuthInv, LatestAgrees
    <3>2. srv'[g].status # "none" /\ (Over(g) => Over(g)')
      BY <1>3, <3>1 DEF Persist
    <3>3. Held(c) => Held(c)'
      BY <1>1 DEF Held
    <3>4. ASSUME clock < latest[c].at + TwoHours, ~overlap'[c], NEW x \in answers', Removes(c, x)
          PROVE  Over(g)'
      <4>1. CASE c = b
        <5>1. InFlight(b) = {} /\ (\A z \in answers : z.browser # b)
          BY <1>1, <3>4, <4>1 DEF AuthInv, OneAtATime, InFlight
        <5>2. x = m
          BY <1>1, <3>4, <4>1, <5>1 DEF Removes
        <5>3. Over(latest[b].flow)'
          BY <2>1, <3>4, <4>1, <5>1, <5>2 DEF m
        <5> QED
          BY <1>1, <2>1, <4>1, <5>3
      <4>2. CASE c # b
        BY <1>0, <1>1, <3>1, <3>2, <3>4, <4>2 DEF AuthInv, OneAtATime, Removes
      <4> QED
        BY <4>1, <4>2
    <3> QED
      BY <3>1, <3>2, <3>3, <3>4
  <2>2. latest' = latest /\ clock' = clock
    BY <1>1
  <2>3. ASSUME NEW c \in Browsers, latest'[c].flow # Nobody
        PROVE  /\ latest'[c].flow \in Flows /\ srv'[latest'[c].flow].status # "none" /\ latest'[c].at \in Nat
               /\ clock' < latest'[c].at + TwoHours =>
                    /\ Held(c)' \/ Over(latest[c].flow)'
                    /\ ~overlap'[c] => \A x \in answers' : Removes(c, x) => Over(latest[c].flow)'
    BY <2>1, <2>2, <2>3
  <2>4. DOMAIN latest' = Browsers
    BY <2>2 DEF AuthInv, LatestAgrees
  <2> QED
    BY <2>3, <2>4, Zenon DEF LatestAgrees, Removes
<1> QED
  BY <1>4, <1>6, <1>7, <1>8, <1>9 DEF AuthInv

(* A flow is not the one that stands for none. *)
LEMMA NobodyIsNoFlow == Nobody \notin Flows
<1>1. PICK n : Flows = 1 .. n
  BY FlowsAssumption
<1>2. 0 \notin 1 .. n
  OBVIOUS
<1> QED
  BY <1>1, <1>2 DEF Nobody, Core!Nobody

(* A message has what the answer had. *)
LEMMA MessageFacts ==
  ASSUME NEW b, NEW route, NEW a
  PROVE  LET m == Message(b, route, a)
         IN /\ m.browser = b /\ m.route = route /\ m.reply = a.reply
            /\ m.told = a.told /\ m.flag = a.flag /\ m.writes = a.writes
BY DEF Message

(* Beginning a flow. *)
LEMMA BeginKept ==
  ASSUME AuthInv, NEW b \in Browsers, NEW route \in StartRoutes, NEW new \in BOOLEAN, Begin(b, route, new)
  PROVE  AuthInv'
<1>1. PICK f \in Unused : Request(b, route, Nobody, "code", new, FALSE, f, srv)
  BY DEF Begin
<1>2. f \in Flows /\ srv[f].status = "none" /\ f # Nobody
  BY NobodyIsNoFlow DEF Unused
<1> DEFINE q == Asking(b, route, Nobody, "code", new, FALSE, srv)
<1>3. PICK a \in Handler(q, srv, f) : Sent(b, route, f, a)
  BY <1>1, RequestFacts
<1>4. q.route = route /\ q.flow = Nobody /\ q.new = new
  BY DEF Asking
<1> HIDE DEF q
<1>5. Started(srv, f, a)
  <2>1. Asked(q, srv, f)
    BY <1>2, <1>4 DEF Asked, AuthInv, FlowsAgree
  <2> QED
    BY <1>4, <2>1, EveryPackage DEF Answered, AuthInv, FlowsAgree
<1>6. /\ srv' = a.srv /\ a.srv \in [Flows -> FlowState]
      /\ \A g \in Flows \ {f} : a.srv[g] = srv[g]
      /\ a.srv = srv \/ (a.srv[f].status # "none" /\ FlagRight(a.srv[f]))
      /\ origin' = [origin EXCEPT ![f] = b]
      /\ DOMAIN origin = Flows
      /\ framework' = framework /\ clock' = clock
  BY <1>2, <1>3, <1>5 DEF Started, Sent, AuthInv, FlowsAgree
<1>7. Persist
  BY <1>2, <1>6 DEF Persist, Over
<1>8. FlowsAgree'
  <2>1. ASSUME NEW g \in Flows PROVE FlagRight(srv'[g])
    BY <1>6 DEF AuthInv, FlowsAgree
  <2>2. ASSUME NEW x, FlagRight(x) PROVE FlagRight(x)'
    BY <1>6, <2>2 DEF FlagRight, SaysSignUp
  <2>3. \A g \in Flows : FlagRight(srv[g])'
    BY <1>6, <2>1 DEF FlagRight, SaysSignUp
  <2> QED
    BY <1>6, <2>3 DEF AuthInv, FlowsAgree
<1> DEFINE m == Message(b, route, a)
<1>9. m.browser = b /\ m.route = route /\ m.writes = a.writes
  BY MessageFacts
<1> HIDE DEF m
<1>10. \A n \in DOMAIN m.writes : /\ n \in {"verifier", "session"} /\ srv'[f].status # "none"
                                  /\ m.writes[n].flow \in {Nobody, f}
                                  /\ n = "verifier" => m.writes[n].flow = f /\ Lasting(m.writes[n])
  BY <1>5, <1>6, <1>9 DEF Started, StartWrites
<1>11. \A n \in DOMAIN m.writes : Known(b, m.writes[n].flow)'
  BY <1>2, <1>6, <1>10 DEF Known
<1>12. ~Tells(m)' /\ route # "signout"
  BY <1>9 DEF Tells, StartRoutes
<1>13. Sound(m)'
  BY <1>9, <1>10, <1>11, <1>12 DEF Sound
<1>14. ~Removes(b, m)
  BY <1>2, <1>10 DEF Removes
<1> QED
  BY <1>3, <1>7, <1>8, <1>13, <1>14, SentKept DEF m

(* Signing out, and asking again for a mail. *)
LEMMA QuietKept ==
  ASSUME AuthInv, NEW b \in Browsers, NEW route \in {"signout", "email/resend"}, NEW a,
         Sent(b, route, Nobody, a), a.srv = srv,
         \A n \in DOMAIN a.writes : n \in {"session", "oldSession"} /\ a.writes[n].flow = Nobody,
         route = "signout" /\ a.reply = "done" => {"session", "oldSession"} \subseteq DOMAIN a.writes
  PROVE  AuthInv'
<1>1. srv' = srv /\ origin' = origin /\ framework' = framework /\ clock' = clock
  BY DEF Sent
<1>2. Persist
  BY <1>1 DEF Persist, Over
<1>3. FlowsAgree'
  BY <1>1 DEF AuthInv, FlowsAgree, FlagRight, SaysSignUp
<1> DEFINE m == Message(b, route, a)
<1>4. m.browser = b /\ m.route = route /\ m.writes = a.writes /\ m.reply = a.reply
  BY MessageFacts
<1> HIDE DEF m
<1>5. ~Tells(m)'
  BY <1>4 DEF Tells
<1>6. Sound(m)'
  BY <1>4, <1>5 DEF Sound, Known
<1>7. ~Removes(b, m)
  BY <1>4 DEF Removes
<1> QED
  BY <1>2, <1>3, <1>6, <1>7, SentKept DEF m

(* Asking for the verification mail once more changes neither a flow nor a  *)
(* cookie.                                                                  *)
LEMMA ResendKept ==
  ASSUME AuthInv, NEW b \in Browsers, NEW f \in Flows, ResendByToken(b, f)
  PROVE  AuthInv'
<1> DEFINE q == Asking(b, "email/resend", f, "code", FALSE, FALSE, srv)
<1>1. PICK a \in Handler(q, srv, Nobody) : Sent(b, "email/resend", Nobody, a)
  BY RequestFacts DEF ResendByToken
<1>2. q.route = "email/resend" /\ q.flow = f /\ q.new = FALSE /\ f # Nobody
  BY NobodyIsNoFlow DEF Asking
<1> HIDE DEF q
<1>3. Asked(q, srv, Nobody)
  BY <1>2 DEF Asked, AuthInv, FlowsAgree
<1>4. Idle(srv, a)
  BY <1>2, <1>3, EveryPackage DEF Answered, AuthInv, FlowsAgree
<1> QED
  BY <1>1, <1>4, QuietKept DEF Idle

(* The answer to a sign out has both session cookies removed, once it      *)
(* tells that it is done.                                                   *)
LEMMA SignOutKept ==
  ASSUME AuthInv, NEW b \in Browsers, SignOut(b)
  PROVE  AuthInv'
<1> DEFINE q == Asking(b, "signout", Nobody, "code", FALSE, FALSE, srv)
<1>1. PICK a \in Handler(q, srv, Nobody) : Sent(b, "signout", Nobody, a)
  BY RequestFacts DEF SignOut
<1>2. q.route = "signout" /\ q.new = FALSE
  BY DEF Asking
<1> HIDE DEF q
<1>3. Asked(q, srv, Nobody)
  BY <1>2 DEF Asked, AuthInv, FlowsAgree
<1>4. Left(srv, a)
  BY <1>2, <1>3, EveryPackage DEF Answered, AuthInv, FlowsAgree
<1> QED
  BY <1>1, <1>4, QuietKept DEF Left

(* The verifier that goes with a request is of a flow begun in its browser,*)
(* and is the latest flow's as long as that is kept.                       *)
LEMMA VerifierFacts ==
  ASSUME AuthInv, NEW b \in Browsers, NEW q, NEW crossSite, q.cookies = Attached(b, crossSite)
  PROVE  /\ Known(b, VerifierOf(q))
         /\ Held(b) /\ latest[b].flow # Nobody => VerifierOf(q) = latest[b].flow
         /\ jar[b]["verifier"].flow = Nobody /\ jar[b]["oldVerifier"].flow = Nobody => VerifierOf(q) = Nobody
<1>1. {"verifier", "oldVerifier"} \subseteq Core!CookieNames
  BY DEF Core!CookieNames
<1>2. \A n \in {"verifier", "oldVerifier"} :
        /\ q.cookies[n] = IF crossSite /\ jar[b][n].strict THEN Nobody ELSE jar[b][n].flow
        /\ Known(b, jar[b][n].flow)
  BY <1>1 DEF Attached, AuthInv, CookiesAgree
<1>3. VerifierOf(q) = IF q.cookies["verifier"] # Nobody THEN q.cookies["verifier"] ELSE q.cookies["oldVerifier"]
  BY DEF VerifierOf, Core!Either, Nobody
<1>4. Known(b, Nobody)
  BY DEF Known
<1> QED
  BY <1>2, <1>3, <1>4 DEF Held

(* Coming back with a code or a token of flow f: the server may have issued *)
(* the code just before, in state s.                                       *)
LEMMA FollowKept ==
  ASSUME AuthInv, NEW b \in Browsers, NEW f \in Flows, NEW route \in FollowRoutes, NEW params, NEW crossSite,
         NEW s \in [Flows -> FlowState], \A g \in Flows \ {f} : s[g] = srv[g],
         s[f].kind = srv[f].kind, s[f].new = srv[f].new, s[f].flag = srv[f].flag,
         s[f].status = "none" <=> srv[f].status = "none", Over(f) => s[f].status = "used",
         route = "oauth/callback" => srv[f].kind = "oauth",
         route = "magiclink/callback" => srv[f].kind = "magic",
         route = "builtin/callback" <=> srv[f].kind = "builtin",
         Request(b, route, f, params, FALSE, crossSite, Nobody, s)
  PROVE  AuthInv'
<1> DEFINE q == Asking(b, route, f, params, FALSE, crossSite, s)
<1>1. PICK a \in Handler(q, s, Nobody) : Sent(b, route, Nobody, a)
  BY RequestFacts
<1>2. /\ q.route = route /\ q.flow = f /\ q.new = FALSE /\ q.cookies = Attached(b, crossSite)
      /\ f # Nobody
  BY NobodyIsNoFlow DEF Asking
<1>3. q.flag = s[f].flag
  <2>1. q.flag = (f # Nobody /\ s[f].flag)
    BY DEF Asking
  <2>2. s[f].flag \in BOOLEAN
    BY DEF FlowState, Core!FlowState
  <2> QED
    BY <1>2, <2>1, <2>2
<1> HIDE DEF q
<1>4. Ended(q, s, a)
  <2>1. Asked(q, s, Nobody)
    BY <1>2 DEF Asked
  <2> QED
    BY <1>2, <2>1, EveryPackage DEF Answered, AuthInv, FlowsAgree
<1>5. /\ srv' = a.srv /\ a.srv \in [Flows -> FlowState] /\ origin' = origin
      /\ \A g \in Flows \ {f} : srv'[g] = srv[g]
      /\ srv'[f].kind = srv[f].kind /\ srv'[f].new = srv[f].new /\ srv'[f].flag = srv[f].flag
      /\ srv'[f].status = "none" <=> srv[f].status = "none"
      /\ Over(f) => srv'[f].status = "used"
      /\ framework' = framework /\ clock' = clock /\ latest' = latest
  BY <1>1, <1>2, <1>4 DEF Ended, Sent
<1>6. Persist
  BY <1>5 DEF Persist, Over
<1>7. FlowsAgree'
  <2>1. ASSUME NEW g \in Flows PROVE FlagRight(srv'[g])
    BY <1>5 DEF AuthInv, FlowsAgree, FlagRight
  <2>2. \A g \in Flows : FlagRight(srv[g])'
    BY <1>5, <2>1 DEF FlagRight, SaysSignUp
  <2> QED
    BY <1>5, <2>2 DEF AuthInv, FlowsAgree
<1> DEFINE m == Message(b, route, a)
<1>8. /\ m.browser = b /\ m.route = route /\ m.writes = a.writes
      /\ m.told = a.told /\ m.flag = a.flag
  BY MessageFacts
<1> HIDE DEF m
<1>9. /\ EndWrites(f, m.writes)
      /\ route = "builtin/callback" => "verifier" \notin DOMAIN m.writes
      /\ DOMAIN m.writes = {} \/ (VerifierOf(q) = f /\ srv'[f].status = "used")
      /\ m.told # Nobody => m.told = f /\ m.flag = s[f].flag /\ srv'[f].status = "used"
  BY <1>2, <1>3, <1>4, <1>5, <1>8 DEF Ended
<1>10. ASSUME NEW n \in DOMAIN m.writes
       PROVE  /\ Known(b, m.writes[n].flow)'
              /\ n # "session" => m.writes[n].flow = Nobody
  <2>1. VerifierOf(q) = f /\ Known(b, VerifierOf(q))
    BY <1>2, <1>9, VerifierFacts
  <2>2. Known(b, f)'
    BY <1>2, <1>5, <1>6, <2>1 DEF Known, Persist
  <2>3. Known(b, Nobody)'
    BY DEF Known
  <2> QED
    BY <1>9, <2>2, <2>3 DEF EndWrites
<1>11. Tells(m)' => m.told \in Flows /\ srv'[m.told].status # "none" /\ m.flag = srv'[m.told].new
  <2>1. ASSUME Tells(m)' PROVE m.told = f /\ m.flag = s[f].flag /\ srv'[f].status = "used" /\ SaysSignUp(srv[f].kind)
    BY <1>5, <1>8, <1>9, <2>1 DEF Tells, SaysSignUp
  <2>2. SaysSignUp(srv[f].kind) => srv[f].flag = srv[f].new
    BY DEF AuthInv, FlowsAgree, FlagRight
  <2> QED
    BY <1>5, <2>1, <2>2
<1>12. Sound(m)'
  <2>1. route # "signout"
    BY DEF FollowRoutes
  <2>2. \A n \in DOMAIN m.writes :
          /\ Known(b, m.writes[n].flow)'
          /\ n = "oldSession" \/ m.route = "signout" => m.writes[n].flow = Nobody
          /\ n = "verifier" /\ m.writes[n].flow # Nobody => Lasting(m.writes[n])
    BY <1>8, <1>10, <2>1
  <2> QED
    BY <1>8, <1>11, <2>1, <2>2 DEF Sound
<1>13. ASSUME Removes(b, m), latest[b].flow # Nobody, clock < latest[b].at + TwoHours
       PROVE  Over(latest[b].flow)'
  <2>1. VerifierOf(q) = f /\ srv'[f].status = "used" /\ srv'[f].kind # "builtin"
    BY <1>5, <1>9, <1>13 DEF Removes
  <2>2. /\ latest[b].flow \in Flows /\ srv[latest[b].flow].status # "none"
        /\ Held(b) \/ Over(latest[b].flow)
    BY <1>13 DEF AuthInv, LatestAgrees
  <2>3. CASE Held(b)
    <3>1. latest[b].flow = f
      BY <1>2, <1>13, <2>1, <2>3, VerifierFacts
    <3> QED
      BY <1>5, <2>1, <3>1 DEF Over
  <2>4. CASE Over(latest[b].flow)
    BY <1>5, <1>6, <2>2, <2>4 DEF Persist, Over
  <2> QED
    BY <2>2, <2>3, <2>4
<1> QED
  BY <1>1, <1>6, <1>7, <1>12, <1>13, SentKept DEF m

(* The server issues a code, or sends the browser back without one.        *)
LEMMA RedirectedKept ==
  ASSUME AuthInv, NEW b \in Browsers, NEW f \in Flows,
         Redirected(b, f) \/ \E params \in {"error", "mailed"} : RedirectedWithout(b, f, params)
  PROVE  AuthInv'
<1>1. /\ srv \in [Flows -> FlowState]
      /\ srv[f].kind \in {"oauth", "builtin", "magic"}
  BY DEF Redirected, RedirectedWithout, AuthInv, FlowsAgree
<1> DEFINE route == CallbackOf(srv[f].kind)
<1>2. /\ route \in FollowRoutes
      /\ route = "oauth/callback" => srv[f].kind = "oauth"
      /\ route = "magiclink/callback" => srv[f].kind = "magic"
      /\ route = "builtin/callback" <=> srv[f].kind = "builtin"
  BY <1>1 DEF CallbackOf, FollowRoutes
<1> DEFINE coded == [srv EXCEPT ![f].status = "code"]
<1>3. /\ coded \in [Flows -> FlowState] /\ \A g \in Flows \ {f} : coded[g] = srv[g]
      /\ coded[f].kind = srv[f].kind /\ coded[f].new = srv[f].new /\ coded[f].flag = srv[f].flag
      /\ coded[f].status = "code"
  BY <1>1 DEF FlowState, Core!FlowState
<1>4. CASE Redirected(b, f)
  <2>1. PICK s : /\ \/ s = coded /\ (srv[f].status = "open" \/ (srv[f].kind = "builtin" /\ srv[f].status = "used"))
                    \/ s = srv
                 /\ Request(b, route, f, "code", FALSE, TRUE, Nobody, s)
    BY <1>4, Zenon DEF Redirected
  <2> HIDE DEF route, coded
  <2>2. CASE s = srv
    BY <1>1, <1>2, <2>1, <2>2, FollowKept DEF Over
  <2>3. CASE s = coded /\ (srv[f].status = "open" \/ (srv[f].kind = "builtin" /\ srv[f].status = "used"))
    <3>1. ~Over(f) /\ srv[f].status # "none" /\ s[f].status # "none"
      BY <1>3, <2>3 DEF Over
    <3> QED
      BY <1>1, <1>2, <1>3, <2>1, <2>3, <3>1, FollowKept
  <2> QED
    BY <2>1, <2>2, <2>3
<1>5. CASE \E params \in {"error", "mailed"} : RedirectedWithout(b, f, params)
  <2>1. PICK params : Request(b, route, f, params, FALSE, TRUE, Nobody, srv)
    BY <1>5, Zenon DEF RedirectedWithout
  <2> HIDE DEF route
  <2> QED
    BY <1>1, <1>2, <2>1, FollowKept DEF Over
<1> QED
  BY <1>4, <1>5

LinkOf(kind) ==
  CASE kind = "email" -> "email/verify" [] kind = "webauthn" -> "webauthn/verify" [] kind = "reset" -> "email/reset"

(* The user follows the link of a mail. *)
LEMMA FollowedKept ==
  ASSUME AuthInv, NEW b \in Browsers, NEW f \in Flows, NEW params, Followed(b, f, params)
  PROVE  AuthInv'
<1>1. /\ srv \in [Flows -> FlowState]
      /\ srv[f].kind \in {"email", "webauthn", "reset"}
  BY DEF Followed, AuthInv, FlowsAgree
<1> DEFINE route == LinkOf(srv[f].kind)
<1>2. route \in {"email/verify", "webauthn/verify", "email/reset"}
  BY <1>1 DEF LinkOf
<1>3. Request(b, route, f, params, FALSE, srv[f].kind # "reset", Nobody, srv)
  BY Zenon DEF Followed, LinkOf
<1> HIDE DEF route
<1>4. route \in FollowRoutes /\ route \notin {"oauth/callback", "magiclink/callback", "builtin/callback"}
  BY <1>2 DEF FollowRoutes
<1> QED
  BY <1>1, <1>3, <1>4, FollowKept DEF Over

----------------------------------------------------------------------------
(* Answers arrive, and time passes. *)

(* An answer that arrives, in any order, writes only cookies of flows      *)
(* begun in its browser, and removes the latest verifier only if its flow   *)
(* is over.                                                                 *)
LEMMA DeliverKept ==
  ASSUME AuthInv, NEW a \in answers, Deliver(a)
  PROVE  AuthInv'
<1> DEFINE b == a.browser
<1>1. /\ answers' = answers \ {a}
      /\ framework' = framework /\ srv' = srv /\ clock' = clock /\ origin' = origin /\ overlap' = overlap
  BY DEF Deliver
<1>2. b \in Browsers /\ Sound(a)
  BY DEF AuthInv, AnswersAgree, Sound
<1>3. /\ DOMAIN jar' = Browsers /\ \A c \in Browsers \ {b} : jar'[c] = jar[c]
      /\ \A n \in Core!CookieNames :
           jar'[b][n] = IF n \in DOMAIN a.writes THEN Stored(a.writes[n]) ELSE jar[b][n]
  BY <1>2 DEF Deliver, AuthInv, CookiesAgree
<1>4. \A c : Stored(c).flow = c.flow
  BY DEF Stored, Absent
<1>5. {"verifier", "session", "oldSession"} \subseteq Core!CookieNames
  BY DEF Core!CookieNames
<1>6. \A c, f : Known(c, f)' <=> Known(c, f)
  BY <1>1 DEF Known
<1>7. FlowsAgree'
  BY <1>1 DEF AuthInv, FlowsAgree, FlagRight, SaysSignUp
<1>8. CookiesAgree'
  <2>1. ASSUME NEW c \in Browsers, NEW n \in Core!CookieNames PROVE Known(c, jar'[c][n].flow)
    BY <1>2, <1>3, <1>4 DEF Sound, AuthInv, CookiesAgree
  <2> QED
    BY <1>3, <1>6, <2>1 DEF CookiesAgree
<1>9. AnswersAgree'
  <2>1. ASSUME NEW x, Sound(x) PROVE Sound(x)'
    BY <1>1, <1>6, <2>1 DEF Sound, Tells
  <2> QED
    BY <1>1, <2>1 DEF AuthInv, AnswersAgree
<1>10. OneAtATime'
  BY <1>1 DEF AuthInv, OneAtATime
<1>11. OutAgrees'
  <2>1. /\ DOMAIN out' = Browsers /\ \A c \in Browsers \ {b} : out'[c] = out[c]
        /\ out'[b] => \/ a.route = "signout" /\ a.reply = "done"
                      \/ out[b] /\ ("session" \in DOMAIN a.writes => a.route = "signout")
    BY <1>2 DEF Deliver, AuthInv, OutAgrees
  <2>2. ASSUME out'[b] PROVE jar'[b]["session"].flow = Nobody /\ jar'[b]["oldSession"].flow = Nobody
    <3>1. /\ a.route = "signout" => \A n \in DOMAIN a.writes : a.writes[n].flow = Nobody
          /\ "oldSession" \in DOMAIN a.writes => a.writes["oldSession"].flow = Nobody
          /\ a.route = "signout" /\ a.reply = "done" => {"session", "oldSession"} \subseteq DOMAIN a.writes
      BY <1>2 DEF Sound
    <3>2. CASE a.route = "signout" /\ a.reply = "done"
      BY <1>3, <1>4, <1>5, <3>1, <3>2
    <3>3. CASE out[b] /\ ("session" \in DOMAIN a.writes => a.route = "signout")
      <4>1. jar[b]["session"].flow = Nobody /\ jar[b]["oldSession"].flow = Nobody
        BY <1>2, <3>3 DEF AuthInv, OutAgrees
      <4> QED
        BY <1>3, <1>4, <1>5, <3>1, <3>3, <4>1
    <3> QED
      BY <2>1, <2>2, <3>2, <3>3
  <2> QED
    BY <1>3, <2>1, <2>2 DEF AuthInv, OutAgrees
<1>12. LatestAgrees'
  <2> DEFINE w == a.writes["verifier"]
  <2> DEFINE writes == "verifier" \in DOMAIN a.writes
  <2>1. /\ DOMAIN latest' = Browsers /\ \A c \in Browsers \ {b} : latest'[c] = latest[c]
        /\ \/ latest'[b] = NoLatest
           \/ /\ writes /\ ~overlap[b] /\ ~w.strict /\ w.flow # Nobody
              /\ latest'[b] = [flow |-> w.flow, at |-> clock]
           \/ /\ writes => ~overlap[b] /\ w.flow = Nobody
              /\ latest'[b] = latest[b]
    <3>1. DOMAIN latest = Browsers
      BY DEF AuthInv, LatestAgrees
    <3>2. /\ writes /\ (overlap[b] \/ w.strict) => latest' = [latest EXCEPT ![b] = NoLatest]
          /\ ~(writes /\ (overlap[b] \/ w.strict)) /\ writes /\ w.flow # Nobody =>
               latest' = [latest EXCEPT ![b] = [flow |-> w.flow, at |-> clock]]
          /\ ~(writes /\ (overlap[b] \/ w.strict)) /\ ~(writes /\ w.flow # Nobody) => latest' = latest
      BY DEF Deliver
    <3> HIDE DEF w, writes
    <3>3. CASE writes /\ (overlap[b] \/ w.strict)
      BY <1>2, <3>1, <3>2, <3>3
    <3>4. CASE ~(writes /\ (overlap[b] \/ w.strict)) /\ writes /\ w.flow # Nobody
      BY <1>2, <3>1, <3>2, <3>4
    <3>5. CASE ~(writes /\ (overlap[b] \/ w.strict)) /\ ~(writes /\ w.flow # Nobody)
      BY <3>1, <3>2, <3>5
    <3> QED
      BY <3>3, <3>4, <3>5
  <2>2. \A f : Over(f)' <=> Over(f)
    BY <1>1 DEF Over
  <2>3. ASSUME NEW c \in Browsers, latest'[c].flow # Nobody
        PROVE  /\ latest'[c].flow \in Flows /\ srv'[latest'[c].flow].status # "none" /\ latest'[c].at \in Nat
               /\ clock' < latest'[c].at + TwoHours =>
                    /\ Held(c)' \/ Over(latest'[c].flow)
                    /\ ~overlap'[c] => \A x \in answers' : Removes(c, x) => Over(latest'[c].flow)
    <3>1. CASE c # b
      BY <1>1, <1>3, <2>1, <2>3, <3>1 DEF AuthInv, LatestAgrees, Held
    <3>2. CASE c = b /\ latest'[b] = NoLatest
      BY <2>3, <3>2 DEF NoLatest
    <3>3. CASE c = b /\ writes /\ ~overlap[b] /\ ~w.strict /\ w.flow # Nobody /\ latest'[b] = [flow |-> w.flow, at |-> clock]
      <4>1. Known(b, w.flow) /\ (w.life \in Nat /\ w.life >= TwoHours /\ w.life # Core!Forever)
        BY <1>2, <3>3 DEF Sound, Lasting
      <4>2. latest'[b].flow = w.flow /\ latest'[b].at = clock /\ clock \in Nat
        BY <3>3 DEF AuthInv, FlowsAgree
      <4>3. jar'[b]["verifier"] = [flow |-> w.flow, strict |-> w.strict, until |-> clock + w.life]
        BY <1>3, <1>5, <3>3, <4>1 DEF Stored
      <4>4. Held(b)'
        <5>1. TwoHours \in Nat
          BY DEF TwoHours, Core!Hour
        <5>2. clock + w.life \in Nat /\ clock + w.life >= clock + TwoHours
          BY <4>1, <4>2, <5>1
        <5> QED
          BY <3>3, <4>2, <4>3, <5>2 DEF Held
      <4>5. ~overlap'[b] => \A x \in answers' : x.browser # b
        BY <1>1 DEF AuthInv, OneAtATime
      <4> QED
        BY <1>1, <3>3, <4>1, <4>2, <4>4, <4>5 DEF Known, Removes
    <3>4. CASE c = b /\ (writes => ~overlap[b] /\ w.flow = Nobody) /\ latest'[b] = latest[b]
      <4>1. /\ latest[b].flow \in Flows /\ srv[latest[b].flow].status # "none" /\ latest[b].at \in Nat
            /\ clock < latest[b].at + TwoHours =>
                 /\ Held(b) \/ Over(latest[b].flow)
                 /\ ~overlap[b] => \A x \in answers : Removes(b, x) => Over(latest[b].flow)
        BY <1>2, <2>3, <3>4 DEF AuthInv, LatestAgrees
      <4>2. ASSUME clock < latest[b].at + TwoHours PROVE Held(b)' \/ Over(latest[b].flow)
        <5>1. CASE writes
          BY <3>4, <4>1, <4>2, <5>1 DEF Removes
        <5>2. CASE ~writes
          <6>1. jar'[b]["verifier"] = jar[b]["verifier"]
            BY <1>3, <1>5, <5>2
          <6> QED
            BY <3>4, <4>1, <4>2, <6>1 DEF Held
        <5> QED
          BY <5>1, <5>2
      <4> QED
        BY <1>1, <3>4, <4>1, <4>2
    <3> QED
      BY <2>1, <3>1, <3>2, <3>3, <3>4
  <2>4. \A c \in Browsers : Over(latest[c].flow)' <=> Over(latest'[c].flow)
    BY <1>1 DEF Over
  <2> QED
    BY <2>1, <2>3, <2>4, Zenon DEF LatestAgrees, Removes
<1> QED
  BY <1>7, <1>8, <1>9, <1>10, <1>11, <1>12 DEF AuthInv

(* Cookies that expire: a verifier lasts for two hours at least.            *)
LEMMA TickKept ==
  ASSUME AuthInv, Tick
  PROVE  AuthInv'
<1>1. PICK t \in Clocks : /\ t > clock /\ clock' = t
                          /\ jar' = [b \in Browsers |-> [n \in Core!CookieNames |->
                                       IF jar[b][n].until > t THEN jar[b][n] ELSE Absent]]
  BY DEF Tick
<1>2. /\ answers = {} /\ answers' = {}
      /\ framework' = framework /\ srv' = srv /\ origin' = origin /\ overlap' = overlap
      /\ latest' = latest /\ out' = out /\ t \in Nat
  BY ClocksAssumption DEF Tick
<1>3. Absent.flow = Nobody
  BY DEF Absent
<1>4. \A b \in Browsers, n \in Core!CookieNames : jar'[b][n] = jar[b][n] \/ jar'[b][n].flow = Nobody
  BY <1>1, <1>3
<1>5. FlowsAgree'
  BY <1>1, <1>2 DEF AuthInv, FlowsAgree, FlagRight, SaysSignUp
<1>6. CookiesAgree'
  BY <1>1, <1>2, <1>4 DEF AuthInv, CookiesAgree, Known
<1>7. AnswersAgree' /\ OneAtATime'
  BY <1>2 DEF AuthInv, AnswersAgree, OneAtATime
<1>8. OutAgrees'
  BY <1>2, <1>4 DEF AuthInv, OutAgrees, Core!CookieNames
<1>9. LatestAgrees'
  <2>1. ASSUME NEW b \in Browsers, latest[b].flow # Nobody
        PROVE  /\ latest[b].flow \in Flows /\ srv[latest[b].flow].status # "none" /\ latest[b].at \in Nat
               /\ t < latest[b].at + TwoHours => Held(b)' \/ Over(latest[b].flow)
    <3>1. /\ latest[b].flow \in Flows /\ srv[latest[b].flow].status # "none" /\ latest[b].at \in Nat
          /\ clock < latest[b].at + TwoHours => Held(b) \/ Over(latest[b].flow)
      BY <2>1 DEF AuthInv, LatestAgrees
    <3>2. clock \in Nat /\ TwoHours \in Nat
      BY DEF AuthInv, FlowsAgree, TwoHours, Core!Hour
    <3>3. ASSUME t < latest[b].at + TwoHours, Held(b) PROVE Held(b)'
      <4>1. jar[b]["verifier"].until > t
        BY <1>2, <3>1, <3>2, <3>3 DEF Held
      <4>2. jar'[b]["verifier"] = jar[b]["verifier"]
        BY <1>1, <4>1 DEF Core!CookieNames
      <4> QED
        BY <1>2, <3>3, <4>2 DEF Held
    <3>4. t < latest[b].at + TwoHours => clock < latest[b].at + TwoHours
      BY <1>1, <1>2, <3>1, <3>2
    <3> QED
      BY <3>1, <3>3, <3>4
  <2> QED
    BY <1>1, <1>2, <2>1 DEF AuthInv, LatestAgrees, Over
<1> QED
  BY <1>5, <1>6, <1>7, <1>8, <1>9 DEF AuthInv

----------------------------------------------------------------------------
(* The invariant holds, and with it the properties. *)

(* The cookies of an earlier release agree with the flow they name.         *)
LEMMA InitAuth == Init => AuthInv
<1> SUFFICES ASSUME Init PROVE AuthInv
  OBVIOUS
<1>1. /\ answers = {} /\ clock = 0 /\ framework \in {"next", "nextapp", "remix", "sveltekit", "express"}
      /\ latest = [b \in Browsers |-> NoLatest]
      /\ overlap = [b \in Browsers |-> FALSE] /\ out = [b \in Browsers |-> FALSE]
  BY FrameworksAssumption DEF Init
<1>2. AnswersAgree /\ OneAtATime /\ OutAgrees
  BY <1>1 DEF AnswersAgree, OneAtATime, OutAgrees
<1>3. LatestAgrees
  BY <1>1 DEF LatestAgrees, NoLatest
<1> DEFINE noflow == Core!NoFlow
<1>4. /\ noflow \in FlowState /\ FlagRight(noflow)
  BY DEF Core!NoFlow, FlowState, Core!FlowState, FlagRight, SaysSignUp
<1> DEFINE mailed == [kind |-> "email", status |-> "open", new |-> TRUE, flag |-> FALSE]
<1> DEFINE signed == [kind |-> "direct", status |-> "used", new |-> FALSE, flag |-> FALSE]
<1>5. \A x \in {mailed, signed} : x \in FlowState /\ FlagRight(x) /\ x.status # "none"
  <2>1. ASSUME NEW kind \in {"email", "direct"}, NEW status \in {"open", "used"}, NEW new \in BOOLEAN, NEW flag \in BOOLEAN
        PROVE  LET x == [kind |-> kind, status |-> status, new |-> new, flag |-> flag]
               IN x \in FlowState /\ FlagRight(x) /\ x.status # "none"
    BY DEF FlowState, Core!FlowState, FlagRight, SaysSignUp
  <2> QED
    BY <2>1
<1> HIDE DEF noflow, mailed, signed
<1>6. CASE /\ srv = [f \in Flows |-> noflow]
           /\ origin = [f \in Flows |-> Nobody]
           /\ jar = [b \in Browsers |-> [n \in Core!CookieNames |-> Absent]]
  <2>1. FlowsAgree
    BY <1>1, <1>4, <1>6 DEF FlowsAgree
  <2>2. CookiesAgree
    BY <1>6 DEF CookiesAgree, Known, Absent
  <2> QED
    BY <1>2, <1>3, <2>1, <2>2 DEF AuthInv
<1>7. ASSUME NEW first \in {mailed, signed}, NEW name, NEW kept, kept.flow = 1,
             srv = [f \in Flows |-> IF f = 1 THEN first ELSE noflow],
             origin = [f \in Flows |-> IF f = 1 THEN 1 ELSE Nobody],
             jar = [b \in Browsers |-> [n \in Core!CookieNames |-> IF b = 1 /\ n = name THEN kept ELSE Absent]]
      PROVE  AuthInv
  <2>1. FlowsAgree
    BY <1>1, <1>4, <1>5, <1>7 DEF FlowsAgree
  <2>2. 1 \in Flows
    BY FlowsAssumption
  <2>3. Absent.flow = Nobody
    BY DEF Absent
  <2>4. CookiesAgree
    BY <1>5, <1>7, <2>2, <2>3 DEF CookiesAgree, Known
  <2> QED
    BY <1>2, <1>3, <2>1, <2>4 DEF AuthInv
<1>8. PICK legacy \in {"none", "verifier", "session"} :
        LET kept == [flow |-> 1, until |-> Core!Forever, strict |-> FALSE]
            name == IF legacy = "verifier" THEN "oldVerifier" ELSE "oldSession"
        IN IF legacy = "none"
             THEN /\ srv = [f \in Flows |-> noflow]
                  /\ origin = [f \in Flows |-> Nobody]
                  /\ jar = [b \in Browsers |-> [n \in Core!CookieNames |-> Absent]]
             ELSE /\ srv = [f \in Flows |-> CASE f # 1 -> noflow
                                             [] f = 1 /\ legacy = "verifier" -> mailed
                                             [] f = 1 /\ legacy = "session" -> signed]
                  /\ origin = [f \in Flows |-> IF f = 1 THEN 1 ELSE Nobody]
                  /\ jar = [b \in Browsers |-> [n \in Core!CookieNames |->
                               IF b = 1 /\ n = name THEN kept ELSE Absent]]
  BY Zenon DEF Init, noflow, mailed, signed
<1> DEFINE kept == [flow |-> 1, until |-> Core!Forever, strict |-> FALSE]
<1>9. kept.flow = 1
  OBVIOUS
<1> HIDE DEF kept
<1>10. CASE legacy = "none"
  BY <1>6, <1>8, <1>10
<1>11. CASE legacy = "verifier"
  <2>1. /\ srv = [f \in Flows |-> IF f = 1 THEN mailed ELSE noflow]
        /\ origin = [f \in Flows |-> IF f = 1 THEN 1 ELSE Nobody]
        /\ jar = [b \in Browsers |-> [n \in Core!CookieNames |->
                    IF b = 1 /\ n = "oldVerifier" THEN kept ELSE Absent]]
    BY <1>8, <1>11 DEF kept
  <2> QED
    BY <1>7, <1>9, <2>1
<1>12. CASE legacy = "session"
  <2>1. /\ srv = [f \in Flows |-> IF f = 1 THEN signed ELSE noflow]
        /\ origin = [f \in Flows |-> IF f = 1 THEN 1 ELSE Nobody]
        /\ jar = [b \in Browsers |-> [n \in Core!CookieNames |->
                    IF b = 1 /\ n = "oldSession" THEN kept ELSE Absent]]
    BY <1>8, <1>12 DEF kept
  <2> QED
    BY <1>7, <1>9, <2>1
<1> QED
  BY <1>10, <1>11, <1>12

(* The invariant is inductive,                                              *)
LEMMA AuthKept == AuthInv /\ [Next]_vars => AuthInv'
<1> SUFFICES ASSUME AuthInv, [Next]_vars PROVE AuthInv'
  OBVIOUS
<1>1. CASE UNCHANGED vars
  <2>1. /\ framework' = framework /\ srv' = srv /\ answers' = answers /\ jar' = jar /\ clock' = clock
        /\ latest' = latest /\ origin' = origin /\ overlap' = overlap /\ out' = out
    BY <1>1 DEF vars
  <2>2. FlowsAgree' /\ OneAtATime'
    BY <2>1 DEF AuthInv, FlowsAgree, FlagRight, SaysSignUp, OneAtATime
  <2>3. CookiesAgree'
    BY <2>1 DEF AuthInv, CookiesAgree, Known
  <2>4. ASSUME NEW x, Sound(x) PROVE Sound(x)'
    BY <2>1, <2>4 DEF Sound, Tells, Known
  <2>5. AnswersAgree'
    BY <2>1, <2>4 DEF AuthInv, AnswersAgree
  <2>6. OutAgrees'
    BY <2>1 DEF AuthInv, OutAgrees
  <2>7. LatestAgrees'
    BY <2>1 DEF AuthInv, LatestAgrees, Held, Over, Removes
  <2> QED
    BY <2>2, <2>3, <2>5, <2>6, <2>7 DEF AuthInv
<1>2. CASE Next
  <2>1. CASE \E b \in Browsers, route \in StartRoutes, new \in BOOLEAN : Begin(b, route, new)
    BY <2>1, BeginKept
  <2>2. CASE \E b \in Browsers : SignOut(b)
    BY <2>2, SignOutKept
  <2>3. CASE \E b \in Browsers, f \in Flows : ResendByToken(b, f)
    BY <2>3, ResendKept
  <2>4. CASE \E b \in Browsers, f \in Flows :
               Redirected(b, f) \/ \E params \in {"error", "mailed"} : RedirectedWithout(b, f, params)
    BY <2>4, RedirectedKept
  <2>5. CASE \E b \in Browsers, f \in Flows, params \in {"code", "empty"} : Followed(b, f, params)
    BY <2>5, FollowedKept
  <2>6. CASE \E a \in answers : Deliver(a)
    BY <2>6, DeliverKept
  <2>7. CASE Tick
    BY <2>7, TickKept
  <2> QED
    BY <1>2, <2>1, <2>2, <2>3, <2>4, <2>5, <2>6, <2>7, Zenon DEF Next
<1> QED
  BY <1>1, <1>2

(* and so it always holds.                                                  *)
LEMMA AlwaysAuthInv == Spec => []AuthInv
BY InitAuth, AuthKept, PTL DEF Spec

(* The session cookies of a browser, whichever package reads them.         *)
LEMMA SessionIs ==
  ASSUME AuthInv, NEW b \in Browsers
  PROVE  Session(b) = IF jar[b]["session"].flow # Nobody THEN jar[b]["session"].flow ELSE jar[b]["oldSession"].flow
<1> DEFINE cookies == Attached(b, FALSE)
<1>1. cookies["session"] = jar[b]["session"].flow /\ cookies["oldSession"] = jar[b]["oldSession"].flow
  BY DEF Attached, Core!CookieNames
<1> HIDE DEF cookies
<1>2. Session(b) = CASE framework \in {"next", "nextapp"} -> Next_!getSession(cookies)
                     [] framework = "remix" -> Remix!getSession(cookies)
                     [] framework = "sveltekit" -> Svelte!session(cookies)
                     [] framework = "express" -> Express!getSession(cookies)
  BY Zenon DEF Session, cookies
<1>3. LET own == IF cookies["session"] # Nobody THEN cookies["session"] ELSE cookies["oldSession"]
      IN /\ Next_!getSession(cookies) = own /\ Remix!getSession(cookies) = own
         /\ Svelte!session(cookies) = own /\ Express!getSession(cookies) = own
  BY DEF Next_!getSession, Next_!Either, Next_!Nobody, Remix!getSession, Remix!parseCookies, Remix!Either,
     Remix!Nobody,
     Svelte!session, Svelte!Either, Svelte!Nobody, Express!getSession, Express!Either, Express!Nobody,
     Nobody, Core!Nobody
<1>4. framework \in {"next", "nextapp", "remix", "sveltekit", "express"}
  BY DEF AuthInv, FlowsAgree
<1> QED
  BY <1>1, <1>2, <1>3, <1>4

(* A browser is signed in only with a flow that was begun in it, for any    *)
(* number of browsers and flows: the code of the others is no use to it,   *)
(* whichever links are opened in it and however answers overtake each      *)
(* other.                                                                  *)
THEOREM SessionsAlwaysOwn == Spec => []SessionsAreOwn
<1>1. AuthInv => SessionsAreOwn
  <2> SUFFICES ASSUME AuthInv, NEW b \in Browsers, Session(b) # Nobody PROVE origin[Session(b)] = b
    BY DEF SessionsAreOwn
  <2>1. Known(b, jar[b]["session"].flow) /\ Known(b, jar[b]["oldSession"].flow)
    BY DEF AuthInv, CookiesAgree, Core!CookieNames
  <2> QED
    BY <2>1, SessionIs DEF Known
<1> QED
  BY <1>1, AlwaysAuthInv, PTL

(* Once a browser was told that it is signed out, no package finds a        *)
(* session in its cookies, under the present name or an earlier one, until *)
(* one is written.                                                         *)
THEOREM SignedOutForGood == Spec => []SignedOut
<1>1. AuthInv => SignedOut
  <2> SUFFICES ASSUME AuthInv, NEW b \in Browsers, out[b] PROVE Session(b) = Nobody
    BY DEF SignedOut
  <2>1. jar[b]["session"].flow = Nobody /\ jar[b]["oldSession"].flow = Nobody
    BY DEF AuthInv, OutAgrees
  <2> QED
    BY <2>1, SessionIs
<1> QED
  BY <1>1, AlwaysAuthInv, PTL

(* isSignUp of a completed flow tells whether its identity was new, except  *)
(* for the magic links of three packages.                                  *)
THEOREM FlagTells == Spec => []FlagTellsSignUp
<1>1. AuthInv => FlagTellsSignUp
  BY DEF AuthInv, AnswersAgree, Sound, Tells, FlagTellsSignUp
<1> QED
  BY <1>1, AlwaysAuthInv, PTL

(* The verifier of the last flow begun in a browser is there for two hours, *)
(* unless the flow is over: no answer to an earlier flow, to a failed      *)
(* attempt or to the hosted UI's first code removes it.                    *)
THEOREM LatestFlowAlwaysKept == Spec => []LatestFlowKept
<1>1. AuthInv => LatestFlowKept
  <2> SUFFICES ASSUME AuthInv, NEW b \in Browsers, latest[b].flow # Nobody,
                      srv[latest[b].flow].status \in {"open", "code"}, clock < latest[b].at + TwoHours
               PROVE  jar[b]["verifier"].flow = latest[b].flow
    BY DEF LatestFlowKept, KeptFor, TwoHours
  <2>1. Held(b) \/ Over(latest[b].flow)
    BY DEF AuthInv, LatestAgrees
  <2> QED
    BY <2>1 DEF Held, Over
<1> QED
  BY <1>1, AlwaysAuthInv, PTL

(* A link opened in a browser that has no verifier spends nothing: the      *)
(* packages look for the verifier before they send the token to the        *)
(* server.                                                                 *)
THEOREM LinksSpared == Spec => LinkSparedElsewhere
<1>1. ASSUME AuthInv, NEW f \in Flows, srv[f].status = "open", srv'[f].status # "open", NEW b \in Browsers,
             jar[b]["verifier"].flow = Nobody, jar[b]["oldVerifier"].flow = Nobody, Followed(b, f, "code")
      PROVE  FALSE
  <2> DEFINE route == LinkOf(srv[f].kind)
  <2> DEFINE q == Asking(b, route, f, "code", FALSE, srv[f].kind # "reset", srv)
  <2>1. route \in FollowRoutes
    BY <1>1 DEF LinkOf, FollowRoutes, Followed
  <2>2. Request(b, route, f, "code", FALSE, srv[f].kind # "reset", Nobody, srv)
    BY <1>1, Zenon DEF Followed, LinkOf
  <2> HIDE DEF route
  <2>3. PICK a \in Handler(q, srv, Nobody) : Sent(b, route, Nobody, a)
    BY <2>2, RequestFacts
  <2>4. q.route = route /\ q.flow = f /\ q.new = FALSE /\ q.cookies = Attached(b, srv[f].kind # "reset")
    BY DEF Asking
  <2> HIDE DEF q
  <2>5. Asked(q, srv, Nobody)
    BY <1>1, <2>1, <2>4 DEF Asked, AuthInv, FlowsAgree
  <2>6. Ended(q, srv, a)
    BY <1>1, <2>1, <2>4, <2>5, EveryPackage DEF Answered, AuthInv, FlowsAgree
  <2>7. VerifierOf(q) = Nobody
    BY <1>1, <2>4, VerifierFacts
  <2> QED
    BY <1>1, <2>3, <2>6, <2>7 DEF Ended, Sent
<1>2. AuthInv /\ [Next]_vars =>
        [\A f \in Flows :
           srv[f].kind \in {"email", "webauthn", "reset"} /\ srv[f].status = "open" /\ srv'[f].status # "open"
             => \A b \in Browsers :
                  jar[b]["verifier"].flow = Nobody /\ jar[b]["oldVerifier"].flow = Nobody
                    => ~Followed(b, f, "code")]_vars
  BY <1>1
<1> QED
  BY <1>2, AlwaysAuthInv, PTL DEF Spec, LinkSparedElsewhere
=============================================================================
