---------------------------- MODULE FetchConnection ----------------------------
(***************************************************************************)
(* Connections over HTTP: fetchConn.ts, the token of utils.ts and the      *)
(* SCRAM exchange of httpScram.ts.  Nothing stays open between requests:   *)
(* to connect is to have a token, and no socket or timer is involved.      *)
(***************************************************************************)
EXTENDS Connecting

VARIABLES
  token,   \* _tokens has a token for the configuration
  speaks   \* external: the protocol version of the server

fetchVars == <<token, speaks>>

(* create(): the connection counts as connected at once, and supposes that *)
(* the server has the newest protocol.                                     *)
create ==
  /\ progress' = "connected" /\ stage' = "none" /\ version' = 3
  /\ UNCHANGED <<config, sock, timer, late, leftOpen>>

(* createConnectWithTimeout(): getAuthenticatedFetch() signs in if there   *)
(* is no token for this configuration.  It sets no timer.                  *)
getAuthenticatedFetch ==
  IF token
  THEN create /\ UNCHANGED <<proof, fetchVars>>
  ELSE /\ progress' = "trying" /\ stage' = "401" /\ proof' = "begun"
       /\ late' = ~config.wait
       /\ UNCHANGED <<config, sock, timer, version, leftOpen, fetchVars>>

(* The first answer must be a 401 with a SCRAM challenge in its headers    *)
(* (ok), the second a 200 with the server's signature; sid: its session is *)
(* the one of the challenge.  Anything else is a ProtocolError, and a      *)
(* fetch() that fails a TypeError: neither is a ClientConnectionError, so  *)
(* that waitUntilAvailable does not apply.                                 *)
HTTPSCRAMAuth(ok, sid) ==
  /\ stage \in {"401", "200"}
  /\ IF ~ok \/ (stage = "200" /\ ~sid)
     THEN /\ progress' = "error" /\ stage' = "none"
          /\ UNCHANGED <<config, sock, timer, version, proof, late, leftOpen, fetchVars>>
     ELSE IF stage = "401"
     THEN /\ stage' = "200"
          /\ UNCHANGED <<config, progress, sock, timer, version, proof, late, leftOpen, fetchVars>>
     ELSE create /\ proof' = "given" /\ token' = TRUE /\ UNCHANGED speaks
=============================================================================
