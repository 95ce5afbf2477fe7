---------------------------- MODULE ExpressAuth -----------------------------
(***************************************************************************)
(* The middlewares of auth-express (packages/auth-express/src/index.ts).   *)
(* A middleware writes cookies, then calls next(): `told` is the token     *)
(* that req.session and req.tokenData hold for the middlewares after it.   *)
(* One that calls neither next() nor the response leaves the request       *)
(* without an answer: reply "none".                                        *)
(***************************************************************************)
EXTENDS AuthRoutes

VerifierLife == 1000 * 60 * 24 * 7

createVerifierCookie(v) == [verifier |-> Cookie(v, VerifierLife, FALSE)]
createAuthCookie(t) == [session |-> Cookie(t, Forever, FALSE)]
clearVerifierCookie == [verifier |-> Gone, oldVerifier |-> Gone]
clearAuthCookie == [session |-> Gone, oldSession |-> Gone]

getSession(cookies) == Either(cookies, "session", "oldSession")
getVerifier(r) == Either(r.cookies, "verifier", "oldVerifier")

SignedIn(t) == Both(createAuthCookie(t), clearVerifierCookie)

----------------------------------------------------------------------------
signout(s) == {Answer(s, Nobody, FALSE, clearAuthCookie)}

oAuthRedirect(r, s, f) ==
  Served(createPKCESession(s, f, "oauth", r.new, FALSE, TRUE), FALSE,
         LAMBDA t : createVerifierCookie(f))

oAuthCallback(r, s) ==
  Redeem(r, s, getVerifier(r), getToken(s, r.flow, getVerifier(r)), SignedIn)

builtinSignIn(s, f) ==
  Served(createPKCESession(s, f, "builtin", FALSE, FALSE, TRUE), FALSE,
         LAMBDA t : createVerifierCookie(f))

builtinSignUp(s, f) ==
  Served(createPKCESession(s, f, "builtin", TRUE, FALSE, TRUE), FALSE,
         LAMBDA t : createVerifierCookie(f))

\* "mailed" is an error here: the session is set on the request and the error thrown all the same.
builtinCallback(r, s) ==
  Redeem(r, s, getVerifier(r), getToken(s, r.flow, getVerifier(r)), createAuthCookie)

----------------------------------------------------------------------------
emailSignIn(s, f) == Served(signinWithEmailPassword(s, f), FALSE, createAuthCookie)

emailSignUp(s, f) ==
  Served(signupWithEmailPassword(s, f), FALSE,
         LAMBDA t : SignUpWrites(f, t, createVerifierCookie, createAuthCookie))

emailVerify(r, s) ==
  Redeem(r, s, getVerifier(r), verifyEmailPasswordSignup(s, r.flow, getVerifier(r)), SignedIn)

sendPasswordResetEmail_(s, f) ==
  Served(sendPasswordResetEmail(s, f), FALSE, LAMBDA t : createVerifierCookie(f))

resetPassword(r, s) ==
  Redeem(r, s, getVerifier(r), resetPasswordWithResetToken(s, r.flow, getVerifier(r)), SignedIn)

\* The middleware that resendVerificationEmail(verifyUrl) returns.
resendVerificationEmail_(r, s, f) ==
  IF r.flow # Nobody THEN Served(resendVerificationEmail(s), FALSE, LAMBDA t : NoWrites)
  ELSE Served(resendVerificationEmailForEmail(s, f), FALSE, LAMBDA t : createVerifierCookie(f))

----------------------------------------------------------------------------
\* The callback address is the router's, without isSignUp, for both mails.
magicLinkSignUp(s, f) ==
  Served(signupWithMagicLink(s, f, FALSE), FALSE, LAMBDA t : createVerifierCookie(f))

magicLinkSend(s, f) ==
  Served(signinWithMagicLink(s, f, FALSE), FALSE, LAMBDA t : createVerifierCookie(f))

magicLinkCallback(r, s) ==
  Redeem(r, s, getVerifier(r), getToken(s, r.flow, getVerifier(r)), SignedIn)

webAuthnVerify(r, s) ==
  Redeem(r, s, getVerifier(r), verifyWebAuthnSignup(s, r.flow, getVerifier(r)), SignedIn)

webAuthnSignIn(s, f) == Served(signinWithWebAuthn(s, f), FALSE, createAuthCookie)

webAuthnSignUp(s, f) ==
  Served(signupWithWebAuthn(s, f), FALSE,
         LAMBDA t : SignUpWrites(f, t, createVerifierCookie, createAuthCookie))

----------------------------------------------------------------------------
(* The routers.  createEmailPasswordRouter mounts resendVerificationEmail   *)
(* itself, a factory: it returns a middleware nobody calls.                 *)
Unanswered(s) == [srv |-> s, reply |-> "none", told |-> Nobody, flag |-> FALSE, writes |-> NoWrites]

createEmailPasswordRouter(r, s, f) ==
  CASE r.route = "email/signin" -> emailSignIn(s, f)
    [] r.route = "email/signup" -> emailSignUp(s, f)
    [] r.route = "email/verify" -> emailVerify(r, s)
    [] r.route = "email/send-reset" -> sendPasswordResetEmail_(s, f)
    [] r.route = "email/reset" -> resetPassword(r, s)
    [] r.route = "email/resend" -> {Unanswered(s)}

createMagicLinkRouter(r, s, f) ==
  CASE r.route = "magiclink/send" -> magicLinkSend(s, f)
    [] r.route = "magiclink/signup" -> magicLinkSignUp(s, f)
    [] r.route = "magiclink/callback" -> magicLinkCallback(r, s)

createWebAuthnRouter(r, s, f) ==
  CASE r.route = "webauthn/signin" -> webAuthnSignIn(s, f)
    [] r.route = "webauthn/signup" -> webAuthnSignUp(s, f)
    [] r.route = "webauthn/verify" -> webAuthnVerify(r, s)

createBuiltinRouter(r, s, f) ==
  CASE r.route = "builtin/start" -> IF r.new THEN builtinSignUp(s, f) ELSE builtinSignIn(s, f)
    [] r.route = "builtin/callback" -> builtinCallback(r, s)

createOAuthRouter(r, s, f) ==
  CASE r.route = "oauth" -> oAuthRedirect(r, s, f)
    [] r.route = "oauth/callback" -> oAuthCallback(r, s)

\* An application uses the routers, or mounts the middlewares itself (r.app = "page").
Handle(r, s, f) ==
  CASE r.route = "signout" -> signout(s)
    [] r.route = "email/resend" /\ r.app = "page" -> resendVerificationEmail_(r, s, f)
    [] r.route \in {"oauth", "oauth/callback"} -> createOAuthRouter(r, s, f)
    [] r.route \in {"builtin/start", "builtin/callback"} -> createBuiltinRouter(r, s, f)
    [] r.route \in {"webauthn/signin", "webauthn/signup", "webauthn/verify"} ->
         createWebAuthnRouter(r, s, f)
    [] r.route \in {"magiclink/send", "magiclink/signup", "magiclink/callback"} ->
         createMagicLinkRouter(r, s, f)
    [] OTHER -> createEmailPasswordRouter(r, s, f)
=============================================================================
