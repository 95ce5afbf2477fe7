--------------------------- MODULE SvelteKitAuth ----------------------------
(***************************************************************************)
(* The route hook and the form actions of auth-sveltekit                   *)
(* (packages/auth-sveltekit/src/server.ts).  Cookies are set on the event; *)
(* the framework sends them with a redirect or a resolved page and drops   *)
(* them when the hook throws an error.                                     *)
(***************************************************************************)
EXTENDS AuthRoutes

VerifierLife == 1000 * 60 * 24 * 7

setVerifierCookie(v) == [verifier |-> Cookie(v, VerifierLife, FALSE)]
setAuthCookie(t) == [session |-> Cookie(t, Forever, FALSE)]

\* The cookie stays, with an empty value that every reader takes for an absent one.
deleteCookie(name) == [n \in {name} |-> Gone]
deleteVerifierCookie == Both(deleteCookie("verifier"), deleteCookie("oldVerifier"))
deleteAuthCookie == Both(deleteCookie("session"), deleteCookie("oldSession"))

session(cookies) == Either(cookies, "session", "oldSession")
getVerifierCookie(r) == Either(r.cookies, "verifier", "oldVerifier")

SignedIn(t) == Both(setAuthCookie(t), deleteVerifierCookie)

----------------------------------------------------------------------------
(* Routes.  A handler of the application has to redirect: the hook throws   *)
(* when it returns.                                                         *)
createAuthRouteHook(r, answers) ==
  IF r.app = "redirect" THEN answers
  ELSE {Thrown(a) : a \in answers}

oauth(r, s, f) ==
  Served(createPKCESession(s, f, "oauth", r.new, FALSE, TRUE), FALSE,
         LAMBDA t : setVerifierCookie(f))

oauthCallback(r, s) ==
  Redeem(r, s, getVerifierCookie(r), getToken(s, r.flow, getVerifierCookie(r)), SignedIn)

builtinCallback(r, s) ==
  IF r.params = "mailed" THEN {Answer(s, Nobody, TRUE, NoWrites)}
  ELSE Redeem(r, s, getVerifierCookie(r), getToken(s, r.flow, getVerifierCookie(r)), setAuthCookie)

builtinStart(r, s, f) ==
  Served(createPKCESession(s, f, "builtin", r.new, FALSE, TRUE), FALSE,
         LAMBDA t : setVerifierCookie(f))

emailVerify(r, s) ==
  Redeem(r, s, getVerifierCookie(r),
         verifyEmailPasswordSignup(s, r.flow, getVerifierCookie(r)), SignedIn)

magiclinkCallback(r, s) ==
  Redeem(r, s, getVerifierCookie(r), getToken(s, r.flow, getVerifierCookie(r)), SignedIn)

webauthnVerify(r, s) ==
  Redeem(r, s, getVerifierCookie(r),
         verifyWebAuthnSignup(s, r.flow, getVerifierCookie(r)), SignedIn)

signoutRoute(s) == {Answer(s, Nobody, FALSE, deleteAuthCookie)}

----------------------------------------------------------------------------
(* Methods of ServerRequestAuth, called by form actions.                    *)
emailPasswordSignUp(s, f) ==
  Served(signupWithEmailPassword(s, f), FALSE,
         LAMBDA t : SignUpWrites(f, t, setVerifierCookie, setAuthCookie))

emailPasswordResendVerificationEmail(r, s, f) ==
  IF r.flow # Nobody THEN Served(resendVerificationEmail(s), FALSE, LAMBDA t : NoWrites)
  ELSE Served(resendVerificationEmailForEmail(s, f), FALSE, LAMBDA t : setVerifierCookie(f))

emailPasswordSignIn(s, f) == Served(signinWithEmailPassword(s, f), FALSE, setAuthCookie)

emailPasswordSendPasswordResetEmail(s, f) ==
  Served(sendPasswordResetEmail(s, f), FALSE, LAMBDA t : setVerifierCookie(f))

emailPasswordResetPassword(r, s) ==
  Redeem(r, s, getVerifierCookie(r),
         resetPasswordWithResetToken(s, r.flow, getVerifierCookie(r)), SignedIn)

magicLinkSignUp(s, f) ==
  Served(signupWithMagicLink(s, f, TRUE), FALSE, LAMBDA t : setVerifierCookie(f))

\* The callback address says isSignUp, as in magicLinkSignUp.
magicLinkSend(s, f) ==
  Served(signinWithMagicLink(s, f, TRUE), FALSE, LAMBDA t : setVerifierCookie(f))

webAuthnSignIn(s, f) == Served(signinWithWebAuthn(s, f), FALSE, setAuthCookie)

webAuthnSignUp(s, f) ==
  Served(signupWithWebAuthn(s, f), FALSE,
         LAMBDA t : SignUpWrites(f, t, setVerifierCookie, setAuthCookie))

signout(s) == {Answer(s, Nobody, FALSE, deleteAuthCookie)}

----------------------------------------------------------------------------
\* Signing out is a route and a method; the two write the same.
handleAuthRoutes(r, s, f) ==
  CASE r.route = "oauth" -> oauth(r, s, f)
    [] r.route = "oauth/callback" -> createAuthRouteHook(r, oauthCallback(r, s))
    [] r.route = "builtin/callback" -> createAuthRouteHook(r, builtinCallback(r, s))
    [] r.route = "builtin/start" -> builtinStart(r, s, f)
    [] r.route = "email/verify" -> createAuthRouteHook(r, emailVerify(r, s))
    [] r.route = "magiclink/callback" -> createAuthRouteHook(r, magiclinkCallback(r, s))
    [] r.route = "webauthn/verify" -> createAuthRouteHook(r, webauthnVerify(r, s))
    [] r.route = "signout" -> createAuthRouteHook(r, signoutRoute(s)) \cup signout(s)

Method(r, s, f) ==
  CASE r.route = "email/signup" -> emailPasswordSignUp(s, f)
    [] r.route = "email/resend" -> emailPasswordResendVerificationEmail(r, s, f)
    [] r.route = "email/signin" -> emailPasswordSignIn(s, f)
    [] r.route = "email/send-reset" -> emailPasswordSendPasswordResetEmail(s, f)
    [] r.route = "email/reset" -> emailPasswordResetPassword(r, s)
    [] r.route = "magiclink/signup" -> magicLinkSignUp(s, f)
    [] r.route = "magiclink/send" -> magicLinkSend(s, f)
    [] r.route = "webauthn/signin" -> webAuthnSignIn(s, f)
    [] r.route = "webauthn/signup" -> webAuthnSignUp(s, f)
    [] OTHER -> handleAuthRoutes(r, s, f)
=============================================================================
