------------------------------- MODULE MCAuth -------------------------------
(* A small instance of AuthSystem for TLC. *)
EXTENDS AuthSystem

AllFrameworks == {"next", "nextapp", "remix", "sveltekit", "express"}

\* Now, and when the verifier cookies of three packages have expired.
AFewTimes == {0, 4 * 60 * 60 * 1000}
\* Two messages of the first browser, one of the second.
OneBusyBrowser == <<2, 1>>
=============================================================================
