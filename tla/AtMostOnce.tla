----------------------------- MODULE AtMostOnce -----------------------------
(***************************************************************************)
(* What client.transaction() promises its callers (docs/driver.rst:404-411): *)
(* a call's block takes effect at most once, a call that resolves took     *)
(* effect, a call that is known to have failed did not and never will.     *)
(* Only a connection that breaks while the commit is on its way leaves the *)
(* caller in doubt.                                                        *)
(***************************************************************************)
EXTENDS Naturals

CONSTANTS Calls

VARIABLES
  applied,   \* how often the server committed the block of a call
  outcome    \* what the caller was told: "none" (nothing yet), "ok", "failed", "unknown"

Init ==
  /\ applied = [c \in Calls |-> 0]
  /\ outcome = [c \in Calls |-> "none"]

Apply(c) ==
  /\ outcome[c] = "none" /\ applied[c] = 0
  /\ applied' = [applied EXCEPT ![c] = 1]
  /\ UNCHANGED outcome

Report(c) ==
  /\ outcome[c] = "none"
  /\ \E what \in {"ok", "failed", "unknown"} :
       /\ what = "ok" => applied[c] = 1
       /\ what = "failed" => applied[c] = 0
       /\ outcome' = [outcome EXCEPT ![c] = what]
  /\ UNCHANGED applied

Next == \E c \in Calls : Apply(c) \/ Report(c)

Spec == Init /\ [][Next]_<<applied, outcome>>
=============================================================================
