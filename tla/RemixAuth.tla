----------------------------- MODULE RemixAuth ------------------------------
(***************************************************************************)
(* The loader and the actions of auth-remix                                *)
(* (packages/auth-remix/src/server.ts).  Cookies are headers of the answer *)
(* that cbCall or actionCbCall builds around what the application's        *)
(* callback returned.                                                      *)
(***************************************************************************)
EXTENDS AuthRoutes

VerifierLife == 1000 * 60 * 24 * 7

createVerifierCookie(v) == [verifier |-> Cookie(v, VerifierLife, FALSE)]
createAuthCookie(t) == [session |-> Cookie(t, Forever, FALSE)]
deleteVerifierCookie == [verifier |-> Gone, oldVerifier |-> Gone]
deleteAuthCookie == [session |-> Gone, oldSession |-> Gone]

parseCookies(cookies) ==
  [authCookie |-> Either(cookies, "session", "oldSession"),
   pkceVerifierCookie |-> Either(cookies, "verifier", "oldVerifier")]

getSession(cookies) == parseCookies(cookies).authCookie
Verifier(r) == parseCookies(r.cookies).pkceVerifierCookie

\* A loader's callback has to redirect: otherwise the answer is an error, without the cookies.
cbCall(r, answers) ==
  IF r.app = "redirect" THEN answers
  ELSE {Thrown(a) : a \in answers}

\* An action collects its cookies while it runs and answers with those it has, error or not.
\* None of them is set before the last call of the action succeeded.
handleAction(answers) == answers

SignedIn(t) == Both(createAuthCookie(t), deleteVerifierCookie)

----------------------------------------------------------------------------
(* loader                                                                   *)
oauth(r, s, f) ==
  Served(createPKCESession(s, f, "oauth", r.new, FALSE, TRUE), FALSE,
         LAMBDA t : createVerifierCookie(f))

oauthCallback(r, s) ==
  cbCall(r, Redeem(r, s, Verifier(r), getToken(s, r.flow, Verifier(r)), SignedIn))

magiclinkCallback(r, s) ==
  cbCall(r, Redeem(r, s, Verifier(r), getToken(s, r.flow, Verifier(r)), SignedIn))

builtinCallback(r, s) ==
  cbCall(r, IF r.params = "mailed" THEN {Answer(s, Nobody, TRUE, NoWrites)}
            ELSE Redeem(r, s, Verifier(r), getToken(s, r.flow, Verifier(r)), createAuthCookie))

builtinStart(r, s, f) ==
  Served(createPKCESession(s, f, "builtin", r.new, FALSE, TRUE), FALSE,
         LAMBDA t : createVerifierCookie(f))

emailVerify(r, s) ==
  cbCall(r, Redeem(r, s, Verifier(r), verifyEmailPasswordSignup(s, r.flow, Verifier(r)), SignedIn))

webauthnVerify(r, s) ==
  cbCall(r, Redeem(r, s, Verifier(r), verifyWebAuthnSignup(s, r.flow, Verifier(r)), SignedIn))

\* The loader's route; the action `signout()` answers the same.
signout(r, s) == cbCall(r, {Answer(s, Nobody, FALSE, deleteAuthCookie)})

----------------------------------------------------------------------------
(* actions                                                                  *)
emailPasswordSignUp(s, f) ==
  handleAction(Served(signupWithEmailPassword(s, f), FALSE,
                      LAMBDA t : SignUpWrites(f, t, createVerifierCookie, createAuthCookie)))

emailPasswordResendVerificationEmail(r, s, f) ==
  handleAction(IF r.flow # Nobody
                 THEN Served(resendVerificationEmail(s), FALSE, LAMBDA t : NoWrites)
                 ELSE Served(resendVerificationEmailForEmail(s, f), FALSE,
                             LAMBDA t : createVerifierCookie(f)))

emailPasswordSignIn(s, f) ==
  handleAction(Served(signinWithEmailPassword(s, f), FALSE, createAuthCookie))

webAuthnSignIn(s, f) == handleAction(Served(signinWithWebAuthn(s, f), FALSE, createAuthCookie))

webAuthnSignUp(s, f) ==
  handleAction(Served(signupWithWebAuthn(s, f), FALSE,
                      LAMBDA t : SignUpWrites(f, t, createVerifierCookie, createAuthCookie)))

emailPasswordSendPasswordResetEmail(s, f) ==
  handleAction(Served(sendPasswordResetEmail(s, f), FALSE, LAMBDA t : createVerifierCookie(f)))

emailPasswordResetPassword(r, s) ==
  handleAction(Redeem(r, s, Verifier(r),
                      resetPasswordWithResetToken(s, r.flow, Verifier(r)), SignedIn))

magicLinkSignUp(s, f) ==
  handleAction(Served(signupWithMagicLink(s, f, TRUE), FALSE, LAMBDA t : createVerifierCookie(f)))

\* The callback address says isSignUp, as in magicLinkSignUp.
magicLinkSend(s, f) ==
  handleAction(Served(signinWithMagicLink(s, f, TRUE), FALSE, LAMBDA t : createVerifierCookie(f)))

----------------------------------------------------------------------------
Handle(r, s, f) ==
  CASE r.route = "oauth" -> oauth(r, s, f)
    [] r.route = "oauth/callback" -> oauthCallback(r, s)
    [] r.route = "magiclink/callback" -> magiclinkCallback(r, s)
    [] r.route = "builtin/callback" -> builtinCallback(r, s)
    [] r.route = "builtin/start" -> builtinStart(r, s, f)
    [] r.route = "email/verify" -> emailVerify(r, s)
    [] r.route = "webauthn/verify" -> webauthnVerify(r, s)
    [] r.route = "signout" -> signout(r, s)
    [] r.route = "email/signup" -> emailPasswordSignUp(s, f)
    [] r.route = "email/resend" -> emailPasswordResendVerificationEmail(r, s, f)
    [] r.route = "email/signin" -> emailPasswordSignIn(s, f)
    [] r.route = "webauthn/signin" -> webAuthnSignIn(s, f)
    [] r.route = "webauthn/signup" -> webAuthnSignUp(s, f)
    [] r.route = "email/send-reset" -> emailPasswordSendPasswordResetEmail(s, f)
    [] r.route = "email/reset" -> emailPasswordResetPassword(r, s)
    [] r.route = "magiclink/signup" -> magicLinkSignUp(s, f)
    [] r.route = "magiclink/send" -> magicLinkSend(s, f)
=============================================================================
