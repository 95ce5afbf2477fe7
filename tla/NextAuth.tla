------------------------------ MODULE NextAuth ------------------------------
(***************************************************************************)
(* The route handlers of auth-nextjs (packages/auth-nextjs/src/shared.ts). *)
(* Each is a set of answers to request r when the server's state is s and  *)
(* the verifier drawn is f.                                                *)
(***************************************************************************)
EXTENDS AuthRoutes

VerifierLife == 1000 * 60 * 60 * 24 * 7

setVerifierCookie(v) == [verifier |-> Cookie(v, VerifierLife, FALSE)]
setAuthCookie(t) == [session |-> Cookie(t, Forever, FALSE)]
deleteVerifierCookie == [verifier |-> Gone, oldVerifier |-> Gone]

\* A mutant: the session of an earlier release is left.
DeleteNewOnly == [session |-> Gone]
deleteAuthCookie == [session |-> Gone, oldSession |-> Gone]

getSession(cookies) == Either(cookies, "session", "oldSession")
Verifier(r) == Either(r.cookies, "verifier", "oldVerifier")

SignedIn(t) == Both(deleteVerifierCookie, setAuthCookie(t))

----------------------------------------------------------------------------
handleOAuth(r, s, f) ==
  Served(createPKCESession(s, f, "oauth", r.new, FALSE, TRUE), FALSE,
         LAMBDA t : setVerifierCookie(f))

oauthCallback(r, s) == Redeem(r, s, Verifier(r), getToken(s, r.flow, Verifier(r)), SignedIn)

\* A mutant: the verifier is looked for after the token was sent to the server.
VerifyFirst(r, s) ==
  IF r.params # "code" THEN {Refused(s)}
  ELSE Served(verifyEmailPasswordSignup(s, r.flow, Verifier(r)), FALSE, SignedIn)

emailVerify(r, s) ==
  Redeem(r, s, Verifier(r), verifyEmailPasswordSignup(s, r.flow, Verifier(r)), SignedIn)

webauthnVerify(r, s) ==
  Redeem(r, s, Verifier(r), verifyWebAuthnSignup(s, r.flow, Verifier(r)), SignedIn)

magicLinkCallback(r, s) == Redeem(r, s, Verifier(r), getToken(s, r.flow, Verifier(r)), SignedIn)

\* A mutant: the verifier is deleted although the verification mail needs it.
BuiltinForgets(r, s) == Redeem(r, s, Verifier(r), getToken(s, r.flow, Verifier(r)), SignedIn)

\* The verifier is kept for the verification mail, which is of the same PKCE session.
builtinCallback(r, s) ==
  IF r.params = "mailed" THEN {Answer(s, Nobody, TRUE, NoWrites)}
  ELSE Redeem(r, s, Verifier(r), getToken(s, r.flow, Verifier(r)), setAuthCookie)

builtinStart(r, s, f) ==
  Served(createPKCESession(s, f, "builtin", r.new, FALSE, TRUE), FALSE,
         LAMBDA t : setVerifierCookie(f))

signout(s) == {Answer(s, Nobody, FALSE, deleteAuthCookie)}

----------------------------------------------------------------------------
emailSignin(s, f) == Served(signinWithEmailPassword(s, f), FALSE, setAuthCookie)

emailSignup(s, f) ==
  Served(signupWithEmailPassword(s, f), FALSE,
         LAMBDA t : SignUpWrites(f, t, setVerifierCookie, setAuthCookie))

sendResetEmail(s, f) ==
  Served(sendPasswordResetEmail(s, f), FALSE, LAMBDA t : setVerifierCookie(f))

resetPassword(r, s) ==
  Redeem(r, s, Verifier(r), resetPasswordWithResetToken(s, r.flow, Verifier(r)), SignedIn)

\* By token nothing is written; by address a new flow's verifier, in a session cookie of the
\* handler's own that is not attached to a request coming from another site.
resendVerification(r, s, f) ==
  IF r.flow # Nobody THEN Served(resendVerificationEmail(s), FALSE, LAMBDA t : NoWrites)
  ELSE Served(resendVerificationEmailForEmail(s, f), FALSE,
              LAMBDA t : [verifier |-> Cookie(f, Forever, TRUE)])

webauthnSignup(s, f) ==
  Served(signupWithWebAuthn(s, f), FALSE,
         LAMBDA t : SignUpWrites(f, t, setVerifierCookie, setAuthCookie))

webauthnSignin(s, f) == Served(signinWithWebAuthn(s, f), FALSE, setAuthCookie)

magicLinkSignup(s, f) ==
  Served(signupWithMagicLink(s, f, TRUE), FALSE, LAMBDA t : setVerifierCookie(f))

magicLinkSend(s, f) ==
  Served(signinWithMagicLink(s, f, FALSE), FALSE, LAMBDA t : setVerifierCookie(f))

----------------------------------------------------------------------------
GET(r, s, f) ==
  CASE r.route = "oauth" -> handleOAuth(r, s, f)
    [] r.route = "oauth/callback" -> oauthCallback(r, s)
    [] r.route = "email/verify" -> emailVerify(r, s)
    [] r.route = "webauthn/verify" -> webauthnVerify(r, s)
    [] r.route = "magiclink/callback" -> magicLinkCallback(r, s)
    [] r.route = "builtin/callback" -> builtinCallback(r, s)
    [] r.route = "builtin/start" -> builtinStart(r, s, f)
    [] r.route = "signout" -> signout(s)

POST(r, s, f) ==
  CASE r.route = "email/signin" -> emailSignin(s, f)
    [] r.route = "email/signup" -> emailSignup(s, f)
    [] r.route = "email/send-reset" -> sendResetEmail(s, f)
    [] r.route = "email/reset" -> resetPassword(r, s)
    [] r.route = "email/resend" -> resendVerification(r, s, f)
    [] r.route = "webauthn/signup" -> webauthnSignup(s, f)
    [] r.route = "webauthn/signin" -> webauthnSignin(s, f)
    [] r.route = "magiclink/signup" -> magicLinkSignup(s, f)
    [] r.route = "magiclink/send" -> magicLinkSend(s, f)
=============================================================================
