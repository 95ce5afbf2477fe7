------------------------------ MODULE AuthCore ------------------------------
(***************************************************************************)
(* The calls of auth-core (packages/auth-core/src/core.ts) to the auth     *)
(* server.  A PKCE session is named by its verifier, a flow; the challenge *)
(* is the flow again.  `s[f]` is what the server knows of flow f:          *)
(*   kind    what the flow was begun for                                   *)
(*   status  "none"; "open" (the user holds a link or is at a provider);   *)
(*           "code" (a code is issued); "used" (a code was exchanged)      *)
(*   new     the identity signs up with this flow                          *)
(*   flag    isSignUp in the address the server sends the browser back to  *)
(* A call returns a set of [srv, ok, token]: the outcomes the server and   *)
(* the network may give it, `token` being the flow whose token it returns. *)
(***************************************************************************)
EXTENDS Integers, TLAPS

Nobody == 0      \* no flow, no verifier, no token

FlowState == [kind   : {"none", "oauth", "builtin", "email", "webauthn", "reset", "magic", "direct"},
              status : {"none", "open", "code", "used"},
              new    : BOOLEAN,
              flag   : BOOLEAN]

NoFlow == [kind |-> "none", status |-> "none", new |-> FALSE, flag |-> FALSE]

Outcome(s, token) == [srv |-> s, ok |-> TRUE, token |-> token]
Failure(s) == [srv |-> s, ok |-> FALSE, token |-> Nobody]

\* The state of a flow whose challenge reached the server.
Begun(s, f, kind, new, flag) ==
  [s EXCEPT ![f] = [kind |-> kind, status |-> "open", new |-> new, flag |-> flag]]

WithStatus(s, f, status) == [s EXCEPT ![f].status = status]

----------------------------------------------------------------------------
(* The server: a code is exchanged once, for the verifier of its own flow; *)
(* a verification or reset token is spent by the first call that uses it.  *)
(* The answer to a call that took effect may be lost.                      *)

Effect(s, token) == {Outcome(s, token), Failure(s)}

SpendToken(s, f) ==
  {Failure(s)} \cup (IF s[f].status = "open" THEN Effect(WithStatus(s, f, "code"), Nobody) ELSE {})

\* A mutant: the code is redeemed without the verifier.
GetTokenUnverified(s, code, verifier) ==
  {Failure(s)} \cup (IF s[code].status = "code" THEN Effect(WithStatus(s, code, "used"), code) ELSE {})

getToken(s, code, verifier) ==
  {Failure(s)} \cup
    (IF s[code].status = "code" /\ verifier = code THEN Effect(WithStatus(s, code, "used"), code)
                                                  ELSE {})

\* `return this.getToken(code, verifier)` after a call that yields a code: when
\* the exchange fails the first call has taken effect all the same.
ThenToken(calls, code, verifier) ==
  UNION {IF c.ok THEN getToken(c.srv, code, verifier) ELSE {c} : c \in calls}

----------------------------------------------------------------------------
(* PKCE sessions that begin with a redirect: the server is not called yet.  *)

\* A mutant: the address for a sign up is not distinguished.
CreateSessionOneAddress(s, f, kind, new, flagOnSignin, flagOnSignup) ==
  {Outcome(Begun(s, f, kind, new, flagOnSignin), Nobody)}

createPKCESession(s, f, kind, new, flagOnSignin, flagOnSignup) ==
  {Outcome(Begun(s, f, kind, new, IF new THEN flagOnSignup ELSE flagOnSignin), Nobody)}

(* Sign up: "complete" with a code at once, or "verificationRequired".      *)
SignUp(s, f, kind) ==
  LET begun == Begun(s, f, kind, TRUE, FALSE)
  IN {Failure(s)} \cup Effect(begun, Nobody)
       \cup ThenToken(Effect(WithStatus(begun, f, "code"), Nobody), f, f)

signupWithEmailPassword(s, f) == SignUp(s, f, "email")
signupWithWebAuthn(s, f) == SignUp(s, f, "webauthn")

(* Sign in: the credentials are refused, or a code is exchanged at once.    *)
SignIn(s, f) ==
  {Failure(s)}
    \cup ThenToken(Effect(WithStatus(Begun(s, f, "direct", FALSE, FALSE), f, "code"), Nobody), f, f)

signinWithEmailPassword(s, f) == SignIn(s, f)
signinWithWebAuthn(s, f) == SignIn(s, f)

verifyEmailPasswordSignup(s, token, verifier) == ThenToken(SpendToken(s, token), token, verifier)
verifyWebAuthnSignup(s, token, verifier) == ThenToken(SpendToken(s, token), token, verifier)
resetPasswordWithResetToken(s, token, verifier) == ThenToken(SpendToken(s, token), token, verifier)

(* Mails that begin a flow, or repeat one.                                  *)
Mail(s, f, kind, new, flag) == {Failure(s)} \cup Effect(Begun(s, f, kind, new, flag), Nobody)

signupWithMagicLink(s, f, flag) == Mail(s, f, "magic", TRUE, flag)
signinWithMagicLink(s, f, flag) == Mail(s, f, "magic", FALSE, flag)
sendPasswordResetEmail(s, f) == Mail(s, f, "reset", FALSE, FALSE)
resendVerificationEmailForEmail(s, f) == Mail(s, f, "email", TRUE, FALSE)
resendVerificationEmail(s) == {Failure(s), Outcome(s, Nobody)}

----------------------------------------------------------------------------
(* What the calls do, whatever the server and the network make of them.     *)

\* Outcome c of a call that begins flow f leaves the other flows alone, and what the server knows of
\* f, if the call took effect, is what it was begun with.
Starts(F, s, f, c, kind, new, flag) ==
  /\ c.srv \in [F -> FlowState]
  /\ \A g \in F \ {f} : c.srv[g] = s[g]
  /\ c.token \in {Nobody, f}
  /\ \/ c.srv = s /\ ~c.ok
     \/ /\ c.srv[f].status # "none"
        /\ c.srv[f].kind = kind /\ c.srv[f].new = new /\ c.srv[f].flag = flag

\* Outcome c of a call that ends flow f with verifier v: it succeeds with the flow's own verifier
\* alone, which nobody can use again; a spent flow stays spent.
Ends(F, s, f, v, c) ==
  /\ c.srv \in [F -> FlowState]
  /\ \A g \in F \ {f} : c.srv[g] = s[g]
  /\ c.srv[f].kind = s[f].kind /\ c.srv[f].new = s[f].new /\ c.srv[f].flag = s[f].flag
  /\ s[f].status = "none" <=> c.srv[f].status = "none"
  /\ s[f].status = "used" => c.srv[f].status = "used"
  /\ c.ok => v = f /\ c.token = f /\ c.srv[f].status = "used"

\* What a server state is after Begun.
LEMMA BegunFacts ==
  ASSUME NEW F, NEW s \in [F -> FlowState], NEW f \in F, NEW kind, NEW new, NEW flag
  PROVE  /\ \A g \in F \ {f} : Begun(s, f, kind, new, flag)[g] = s[g]
         /\ Begun(s, f, kind, new, flag)[f] = [kind |-> kind, status |-> "open", new |-> new, flag |-> flag]
         /\ [kind |-> kind, status |-> "open", new |-> new, flag |-> flag] \in FlowState
              => Begun(s, f, kind, new, flag) \in [F -> FlowState]
BY DEF Begun, FlowState

\* And after WithStatus.
LEMMA StatusFacts ==
  ASSUME NEW F, NEW s \in [F -> FlowState], NEW f \in F,
         NEW status \in {"none", "open", "code", "used"}
  PROVE  /\ WithStatus(s, f, status) \in [F -> FlowState]
         /\ \A g \in F \ {f} : WithStatus(s, f, status)[g] = s[g]
         /\ WithStatus(s, f, status)[f].status = status
         /\ WithStatus(s, f, status)[f].kind = s[f].kind
         /\ WithStatus(s, f, status)[f].new = s[f].new /\ WithStatus(s, f, status)[f].flag = s[f].flag
BY DEF WithStatus, FlowState

\* Mails begin a flow or fail, with or without an effect.
LEMMA MailFacts ==
  ASSUME NEW F, NEW s \in [F -> FlowState], NEW f \in F,
         NEW kind \in {"email", "reset", "magic"}, NEW new \in BOOLEAN, NEW flag \in BOOLEAN,
         NEW c \in Mail(s, f, kind, new, flag)
  PROVE  Starts(F, s, f, c, kind, new, flag)
<1> DEFINE t == Begun(s, f, kind, new, flag)
<1>1. /\ t \in [F -> FlowState] /\ \A g \in F \ {f} : t[g] = s[g]
      /\ t[f] = [kind |-> kind, status |-> "open", new |-> new, flag |-> flag]
  BY BegunFacts DEF FlowState
<1>2. \/ c = [srv |-> s, ok |-> FALSE, token |-> Nobody]
      \/ c = [srv |-> t, ok |-> FALSE, token |-> Nobody]
      \/ c = [srv |-> t, ok |-> TRUE, token |-> Nobody]
  BY Zenon DEF Mail, Effect, Outcome, Failure
<1> HIDE DEF t
<1>3. c.token = Nobody
  BY <1>2
<1>4. c.srv \in [F -> FlowState]
  BY <1>1, <1>2
<1>5. \A g \in F \ {f} : c.srv[g] = s[g]
  BY <1>1, <1>2
<1>6. (c.srv = s /\ ~c.ok) \/ c.srv = t
  BY <1>2
<1> QED
  BY <1>1, <1>3, <1>4, <1>5, <1>6 DEF Starts

\* So does a PKCE session that begins with a redirect.
LEMMA SessionFacts ==
  ASSUME NEW F, NEW s \in [F -> FlowState], NEW f \in F,
         NEW kind \in {"oauth", "builtin"}, NEW new \in BOOLEAN,
         NEW c \in createPKCESession(s, f, kind, new, FALSE, TRUE)
  PROVE  Starts(F, s, f, c, kind, new, new)
<1> DEFINE t == Begun(s, f, kind, new, new)
<1>1. /\ t \in [F -> FlowState] /\ \A g \in F \ {f} : t[g] = s[g]
      /\ t[f] = [kind |-> kind, status |-> "open", new |-> new, flag |-> new]
  BY BegunFacts DEF FlowState
<1>2. (IF new THEN TRUE ELSE FALSE) = new
  OBVIOUS
<1>3. c = [srv |-> t, ok |-> TRUE, token |-> Nobody]
  BY <1>2, Zenon DEF createPKCESession, Outcome
<1> HIDE DEF t
<1> QED
  BY <1>1, <1>3 DEF Starts

\* A code is exchanged for the verifier of its own flow.
LEMMA TokenFacts ==
  ASSUME NEW F, NEW s \in [F -> FlowState], NEW f \in F, NEW v, NEW c \in getToken(s, f, v)
  PROVE  Ends(F, s, f, v, c)
<1> DEFINE t == WithStatus(s, f, "used")
<1>1. /\ t \in [F -> FlowState] /\ \A g \in F \ {f} : t[g] = s[g]
      /\ t[f].status = "used" /\ t[f].kind = s[f].kind /\ t[f].new = s[f].new /\ t[f].flag = s[f].flag
  BY StatusFacts
<1>2. \/ c = [srv |-> s, ok |-> FALSE, token |-> Nobody]
      \/ /\ s[f].status = "code" /\ v = f
         /\ \/ c = [srv |-> t, ok |-> FALSE, token |-> Nobody]
            \/ c = [srv |-> t, ok |-> TRUE, token |-> f]
  BY DEF getToken, Effect, Outcome, Failure
<1>3. s[f] \in FlowState
  OBVIOUS
<1> HIDE DEF t
<1> QED
  BY <1>1, <1>2, <1>3 DEF Ends, FlowState

\* Where a call yields a code, the token is asked for next; where it fails, nothing is.
LEMMA ThenFacts ==
  ASSUME NEW s, NEW code, NEW v
  PROVE  ThenToken(Effect(s, Nobody), code, v) = {Failure(s)} \cup getToken(s, code, v)
<1>1. /\ Outcome(s, Nobody).ok /\ Outcome(s, Nobody).srv = s /\ ~Failure(s).ok
  BY DEF Outcome, Failure
<1> QED
  BY <1>1, Zenon DEF ThenToken, Effect

\* The calls that failed already fail here too.
LEMMA OrThenFacts ==
  ASSUME NEW s, NEW calls, NEW code, NEW v
  PROVE  ThenToken({Failure(s)} \cup calls, code, v) = {Failure(s)} \cup ThenToken(calls, code, v)
<1>1. ~Failure(s).ok
  BY DEF Failure
<1> QED
  BY <1>1, Zenon DEF ThenToken

\* A call that begins a flow and has its code at once exchanges it with the verifier it drew.
LEMMA DirectFacts ==
  ASSUME NEW F, NEW s \in [F -> FlowState], NEW f \in F, NEW kind, NEW new, NEW flag,
         NEW t \in [F -> FlowState], \A g \in F \ {f} : t[g] = s[g],
         t[f].kind = kind, t[f].new = new, t[f].flag = flag,
         NEW c \in ThenToken(Effect(WithStatus(t, f, "code"), Nobody), f, f)
  PROVE  Starts(F, s, f, c, kind, new, flag)
<1> DEFINE u == WithStatus(t, f, "code")
<1>2. /\ u \in [F -> FlowState] /\ \A g \in F \ {f} : u[g] = t[g]
      /\ u[f].status = "code" /\ u[f].kind = t[f].kind /\ u[f].new = t[f].new /\ u[f].flag = t[f].flag
  BY StatusFacts
<1>3. c \in ThenToken(Effect(u, Nobody), f, f)
  OBVIOUS
<1> HIDE DEF u
<1>4. c = [srv |-> u, ok |-> FALSE, token |-> Nobody] \/ c \in getToken(u, f, f)
  <2>1. ThenToken(Effect(u, Nobody), f, f) = {Failure(u)} \cup getToken(u, f, f)
    BY ThenFacts, Zenon
  <2> QED
    BY <1>3, <2>1 DEF Failure
<1>5. CASE c = [srv |-> u, ok |-> FALSE, token |-> Nobody]
  BY <1>2, <1>5 DEF Starts
<1>6. CASE c \in getToken(u, f, f)
  <2>1. Ends(F, u, f, f, c)
    BY <1>2, <1>6, TokenFacts
  <2>2. c.token \in {Nobody, f}
    BY <1>6 DEF getToken, Effect, Outcome, Failure
  <2> QED
    BY <1>2, <2>1, <2>2 DEF Starts, Ends
<1> QED
  BY <1>4, <1>5, <1>6

\* So do the two kinds of sign up, when no verification is asked for.
LEMMA SignUpFacts ==
  ASSUME NEW F, NEW s \in [F -> FlowState], NEW f \in F,
         NEW kind \in {"email", "webauthn"}, NEW c \in SignUp(s, f, kind)
  PROVE  Starts(F, s, f, c, kind, TRUE, FALSE)
<1> DEFINE new == TRUE
<1> DEFINE flag == FALSE
<1> DEFINE t == Begun(s, f, kind, new, flag)
<1>0. new \in BOOLEAN /\ flag \in BOOLEAN
  OBVIOUS
<1>1. \/ c = [srv |-> s, ok |-> FALSE, token |-> Nobody]
      \/ c = [srv |-> t, ok |-> FALSE, token |-> Nobody]
      \/ c = [srv |-> t, ok |-> TRUE, token |-> Nobody]
      \/ c \in ThenToken(Effect(WithStatus(t, f, "code"), Nobody), f, f)
  BY Zenon DEF SignUp, Effect, Outcome, Failure
<1> HIDE DEF new, flag
<1>2. /\ t \in [F -> FlowState] /\ \A g \in F \ {f} : t[g] = s[g]
      /\ t[f] = [kind |-> kind, status |-> "open", new |-> new, flag |-> flag]
  BY <1>0, BegunFacts DEF FlowState
<1> HIDE DEF t
<1>3. t[f].kind = kind /\ t[f].new = new /\ t[f].flag = flag /\ t[f].status = "open"
  BY <1>2
<1>4. ASSUME c \in ThenToken(Effect(WithStatus(t, f, "code"), Nobody), f, f)
      PROVE  Starts(F, s, f, c, kind, new, flag)
  BY <1>2, <1>3, <1>4, DirectFacts
<1>5. ASSUME c.srv = t, c.token = Nobody PROVE Starts(F, s, f, c, kind, new, flag)
  BY <1>2, <1>3, <1>5 DEF Starts
<1>6. ASSUME c = [srv |-> s, ok |-> FALSE, token |-> Nobody] PROVE Starts(F, s, f, c, kind, new, flag)
  BY <1>6 DEF Starts
<1>7. Starts(F, s, f, c, kind, new, flag)
  BY <1>1, <1>4, <1>5, <1>6
<1> QED
  BY <1>7 DEF new, flag

\* And signing in.
LEMMA SignInFacts ==
  ASSUME NEW F, NEW s \in [F -> FlowState], NEW f \in F, NEW c \in SignIn(s, f)
  PROVE  Starts(F, s, f, c, "direct", FALSE, FALSE)
<1> DEFINE new == FALSE
<1> DEFINE t == Begun(s, f, "direct", new, new)
<1>0. new \in BOOLEAN
  OBVIOUS
<1>1. \/ c = [srv |-> s, ok |-> FALSE, token |-> Nobody]
      \/ c \in ThenToken(Effect(WithStatus(t, f, "code"), Nobody), f, f)
  BY Zenon DEF SignIn, Failure
<1> HIDE DEF new
<1>2. /\ t \in [F -> FlowState] /\ \A g \in F \ {f} : t[g] = s[g]
      /\ t[f] = [kind |-> "direct", status |-> "open", new |-> new, flag |-> new]
  BY <1>0, BegunFacts DEF FlowState
<1> HIDE DEF t
<1>3. t[f].kind = "direct" /\ t[f].new = new /\ t[f].flag = new
  BY <1>2
<1>4. ASSUME c \in ThenToken(Effect(WithStatus(t, f, "code"), Nobody), f, f)
      PROVE  Starts(F, s, f, c, "direct", new, new)
  BY <1>2, <1>3, <1>4, DirectFacts
<1>5. ASSUME c = [srv |-> s, ok |-> FALSE, token |-> Nobody] PROVE Starts(F, s, f, c, "direct", new, new)
  BY <1>5 DEF Starts
<1>6. Starts(F, s, f, c, "direct", new, new)
  BY <1>1, <1>4, <1>5
<1> QED
  BY <1>6 DEF new

\* A mailed token is spent once; the code that it yields is exchanged as any other.
LEMMA SpentFacts ==
  ASSUME NEW F, NEW s \in [F -> FlowState], NEW f \in F, NEW v,
         NEW c \in ThenToken(SpendToken(s, f), f, v)
  PROVE  Ends(F, s, f, v, c)
<1> DEFINE t == WithStatus(s, f, "code")
<1>1. /\ t \in [F -> FlowState] /\ \A g \in F \ {f} : t[g] = s[g]
      /\ t[f].status = "code" /\ t[f].kind = s[f].kind /\ t[f].new = s[f].new /\ t[f].flag = s[f].flag
  BY StatusFacts
<1>2. \/ c = [srv |-> s, ok |-> FALSE, token |-> Nobody]
      \/ s[f].status = "open" /\ c = [srv |-> t, ok |-> FALSE, token |-> Nobody]
      \/ s[f].status = "open" /\ c \in getToken(t, f, v)
  <2>1. CASE s[f].status = "open"
    <3>1. SpendToken(s, f) = {Failure(s)} \cup Effect(t, Nobody)
      BY <2>1 DEF SpendToken
    <3>2. ThenToken(SpendToken(s, f), f, v) = {Failure(s)} \cup ThenToken(Effect(t, Nobody), f, v)
      BY <3>1, OrThenFacts
    <3>3. ThenToken(Effect(t, Nobody), f, v) = {Failure(t)} \cup getToken(t, f, v)
      BY ThenFacts
    <3> QED
      BY <2>1, <3>2, <3>3 DEF Failure
  <2>2. CASE s[f].status # "open"
    BY <2>2 DEF SpendToken, ThenToken, Failure
  <2> QED
    BY <2>1, <2>2
<1> HIDE DEF t
<1>3. CASE c = [srv |-> s, ok |-> FALSE, token |-> Nobody]
  BY <1>3 DEF Ends
<1>4. CASE s[f].status = "open" /\ c = [srv |-> t, ok |-> FALSE, token |-> Nobody]
  BY <1>1, <1>4 DEF Ends
<1>5. CASE s[f].status = "open" /\ c \in getToken(t, f, v)
  <2>1. Ends(F, t, f, v, c)
    BY <1>1, <1>5, TokenFacts
  <2> QED
    BY <1>1, <1>5, <2>1 DEF Ends
<1> QED
  BY <1>2, <1>3, <1>4, <1>5

\* What the calls that begin a flow do,
LEMMA StartFacts ==
  ASSUME NEW F, NEW s \in [F -> FlowState], NEW f \in F, NEW new \in BOOLEAN, NEW flag \in BOOLEAN
  PROVE  /\ \A c \in createPKCESession(s, f, "oauth", new, FALSE, TRUE) : Starts(F, s, f, c, "oauth", new, new)
         /\ \A c \in createPKCESession(s, f, "builtin", new, FALSE, TRUE) : Starts(F, s, f, c, "builtin", new, new)
         /\ \A c \in signupWithEmailPassword(s, f) : Starts(F, s, f, c, "email", TRUE, FALSE)
         /\ \A c \in signupWithWebAuthn(s, f) : Starts(F, s, f, c, "webauthn", TRUE, FALSE)
         /\ \A c \in signinWithEmailPassword(s, f) \cup signinWithWebAuthn(s, f) :
              Starts(F, s, f, c, "direct", FALSE, FALSE)
         /\ \A c \in signupWithMagicLink(s, f, flag) : Starts(F, s, f, c, "magic", TRUE, flag)
         /\ \A c \in signinWithMagicLink(s, f, flag) : Starts(F, s, f, c, "magic", FALSE, flag)
         /\ \A c \in sendPasswordResetEmail(s, f) : Starts(F, s, f, c, "reset", FALSE, FALSE)
         /\ \A c \in resendVerificationEmailForEmail(s, f) : Starts(F, s, f, c, "email", TRUE, FALSE)
<1>1. /\ \A c \in createPKCESession(s, f, "oauth", new, FALSE, TRUE) : Starts(F, s, f, c, "oauth", new, new)
      /\ \A c \in createPKCESession(s, f, "builtin", new, FALSE, TRUE) : Starts(F, s, f, c, "builtin", new, new)
  BY SessionFacts
<1>2. \A c \in signupWithEmailPassword(s, f) : Starts(F, s, f, c, "email", TRUE, FALSE)
  BY SignUpFacts DEF signupWithEmailPassword
<1>3. \A c \in signupWithWebAuthn(s, f) : Starts(F, s, f, c, "webauthn", TRUE, FALSE)
  BY SignUpFacts DEF signupWithWebAuthn
<1>4. \A c \in signinWithEmailPassword(s, f) \cup signinWithWebAuthn(s, f) :
        Starts(F, s, f, c, "direct", FALSE, FALSE)
  BY SignInFacts DEF signinWithEmailPassword, signinWithWebAuthn
<1>5. \A c \in signupWithMagicLink(s, f, flag) : Starts(F, s, f, c, "magic", TRUE, flag)
  BY MailFacts DEF signupWithMagicLink
<1>6. \A c \in signinWithMagicLink(s, f, flag) : Starts(F, s, f, c, "magic", FALSE, flag)
  BY MailFacts DEF signinWithMagicLink
<1>7. \A c \in sendPasswordResetEmail(s, f) : Starts(F, s, f, c, "reset", FALSE, FALSE)
  BY MailFacts DEF sendPasswordResetEmail
<1>8. \A c \in resendVerificationEmailForEmail(s, f) : Starts(F, s, f, c, "email", TRUE, FALSE)
  BY MailFacts DEF resendVerificationEmailForEmail
<1> QED
  BY <1>1, <1>2, <1>3, <1>4, <1>5, <1>6, <1>7, <1>8

\* and those that end one.
LEMMA EndFacts ==
  ASSUME NEW F, NEW s \in [F -> FlowState], NEW f \in F, NEW v
  PROVE  \A c \in getToken(s, f, v) \cup verifyEmailPasswordSignup(s, f, v)
                    \cup verifyWebAuthnSignup(s, f, v) \cup resetPasswordWithResetToken(s, f, v) :
           Ends(F, s, f, v, c)
BY TokenFacts, SpentFacts DEF verifyEmailPasswordSignup, verifyWebAuthnSignup, resetPasswordWithResetToken
=============================================================================
