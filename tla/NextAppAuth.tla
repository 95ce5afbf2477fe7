---------------------------- MODULE NextAppAuth -----------------------------
(***************************************************************************)
(* The server actions of auth-nextjs for the app router                    *)
(* (packages/auth-nextjs/src/app/index.ts).  Callbacks and redirects are   *)
(* the GET routes of NextAuth; what a form would POST is called here.      *)
(***************************************************************************)
EXTENDS NextAuth

signoutAction(s) == {Answer(s, Nobody, FALSE, deleteAuthCookie)}

emailPasswordSignIn(s, f) == Served(signinWithEmailPassword(s, f), FALSE, setAuthCookie)

emailPasswordSignUp(s, f) ==
  Served(signupWithEmailPassword(s, f), FALSE,
         LAMBDA t : SignUpWrites(f, t, setVerifierCookie, setAuthCookie))

emailPasswordSendPasswordResetEmail(s, f) ==
  Served(sendPasswordResetEmail(s, f), FALSE, LAMBDA t : setVerifierCookie(f))

emailPasswordResetPassword(r, s) ==
  Redeem(r, s, Verifier(r), resetPasswordWithResetToken(s, r.flow, Verifier(r)), SignedIn)

emailPasswordResendVerificationEmail(r, s, f) ==
  IF r.flow # Nobody THEN Served(resendVerificationEmail(s), FALSE, LAMBDA t : NoWrites)
  ELSE Served(resendVerificationEmailForEmail(s, f), FALSE,
              LAMBDA t : [verifier |-> Cookie(f, Forever, TRUE)])

magicLinkSignUp(s, f) ==
  Served(signupWithMagicLink(s, f, TRUE), FALSE, LAMBDA t : setVerifierCookie(f))

magicLinkSignIn(s, f) ==
  Served(signinWithMagicLink(s, f, FALSE), FALSE, LAMBDA t : setVerifierCookie(f))

Action(r, s, f) ==
  CASE r.route = "signout" -> signoutAction(s)
    [] r.route = "email/signin" -> emailPasswordSignIn(s, f)
    [] r.route = "email/signup" -> emailPasswordSignUp(s, f)
    [] r.route = "email/send-reset" -> emailPasswordSendPasswordResetEmail(s, f)
    [] r.route = "email/reset" -> emailPasswordResetPassword(r, s)
    [] r.route = "email/resend" -> emailPasswordResendVerificationEmail(r, s, f)
    [] r.route = "magiclink/signup" -> magicLinkSignUp(s, f)
    [] r.route = "magiclink/send" -> magicLinkSignIn(s, f)
    [] OTHER -> IF r.route \in {"webauthn/signup", "webauthn/signin"} THEN POST(r, s, f) ELSE GET(r, s, f)
=============================================================================
