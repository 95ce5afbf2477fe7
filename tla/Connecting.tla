------------------------------ MODULE Connecting ------------------------------
(***************************************************************************)
(* Making a connection: retryingConnect() of packages/gel/src/retry.ts,    *)
(* the attempts of rawConn.ts it makes through connectWithTimeout(), the   *)
(* handshake in connect() and the SCRAM exchange in _authSasl().           *)
(*                                                                         *)
(* A socket event and the promise continuations it wakes run before the    *)
(* next event, so that a message and what connect() does with it up to its *)
(* next await is one step.  The server, the network and time are external. *)
(***************************************************************************)
EXTENDS Naturals

CONSTANTS
  Configs   \* the configurations a client may be given

(* http: the client of index.browser.ts, whose connections are HTTP        *)
(* requests (FetchConnection); tls: the address is a host, not a Unix      *)
(* socket; timeout: connectTimeout is set; wait: waitUntilAvailable is not *)
(* 0.                                                                      *)
ConfigType == [http : BOOLEAN, tls : BOOLEAN, timeout : BOOLEAN, wait : BOOLEAN]

ASSUME ConnectingAssumption == Configs \subseteq ConfigType

VARIABLES
  config,
  progress,     \* retryingConnect(): "trying", "sleeping", "connected", or what it threw
  stage,        \* what connect() awaits: "none" (nothing), "socket" (connWaiter),
                \* "messages", "SASLContinue", "SASLFinal"; over HTTP "401" or "200"
  sock,         \* "none", "opening", "open" or "closed"
  timer,        \* the timer of connectTimeout: "off", "armed" or "fired"
  version,      \* protocolVersion: 3 (PROTO_VER), or 2 when the server proposed that
  proof,        \* SCRAM: "none", "begun" or "given" (the server knows the password)
  late,         \* Date.now() is past the maxTime of the retryingConnect() under way
  leftOpen      \* sockets of failed attempts that nothing has closed: 0, 1, 2 (or more)

connectVars == <<config, progress, stage, sock, timer, version, proof, late, leftOpen>>

(* ClientConnectionClosedError ("closed") and ClientConnectionTimeoutError *)
(* are tagged SHOULD_RECONNECT, ClientConnectionFailedError ("failed") is  *)
(* not, and "error" stands for the GelErrors that are not about a          *)
(* connection: of the protocol, of authentication, from the server.        *)
Reconnectable == {"closed", "timeout"}
Refused == Reconnectable \cup {"failed", "error"}

(* connectWithTimeout() up to its await: a socket, and a timer if there is *)
(* a time limit.                                                           *)
connectWithTimeout(late2) ==
  /\ progress' = "trying" /\ stage' = "socket" /\ sock' = "opening"
  /\ timer' = IF config.timeout THEN "armed" ELSE "off"
  /\ version' = 3 /\ proof' = "none"
  /\ late' = late2
  /\ UNCHANGED <<config, leftOpen>>

(* With waitUntilAvailable 0 maxTime is 0, and every failure comes too late *)
(* to be retried.                                                          *)
retryingConnect == connectWithTimeout(~config.wait)

(* connect() throws: the catch of connectWithTimeout() aborts a connection *)
(* that is not connected, which leaves its socket alone; what a destroyed  *)
(* socket ends with is a time-out if the timer did it.  An error that is   *)
(* no GelError becomes a ClientConnectionFailedError.  retryingConnect()   *)
(* then sleeps or throws.                                                  *)
Throw(err, socket, timedOut) ==
  LET e == IF timedOut /\ err = "closed" THEN "timeout" ELSE err IN
  /\ progress' = IF e \in Reconnectable /\ ~late THEN "sleeping" ELSE e
  /\ stage' = "none" /\ timer' = "off" /\ sock' = socket
  /\ leftOpen' = IF socket # "closed" /\ leftOpen < 2 THEN leftOpen + 1 ELSE leftOpen
  /\ UNCHANGED <<config, version, proof, late>>

Fail(err) == Throw(err, sock, FALSE)

(* The sleep of 10 to 210 ms is over. *)
Wake == progress = "sleeping" /\ connectWithTimeout(late)

(* "connect" or "secureConnect": connWaiter is set, connect() goes on with *)
(* the ALPN check and sends its handshake.                                 *)
OnConnect(alpn) ==
  /\ stage = "socket" /\ sock = "opening"
  /\ IF config.tls /\ ~alpn
     THEN Throw("failed", "open", FALSE)
     ELSE sock' = "open" /\ stage' = "messages"
          /\ UNCHANGED <<config, progress, timer, version, proof, late, leftOpen>>

(* "error", with "close" right behind it: the waiters are given a          *)
(* ClientConnectionClosedError whatever the reason: refused, reset, a      *)
(* certificate that does not match, EPROTO.  The switch on e.code in       *)
(* connectWithTimeout(), and its second attempt in clear text, therefore   *)
(* never see a socket's error.                                             *)
OnError ==
  /\ stage # "none" /\ sock \in {"opening", "open"}
  /\ Throw("closed", "closed", FALSE)

(* "close" without an error, as the server ended the connection: nothing   *)
(* is done for a connection that is not connected yet.                     *)
OnClose ==
  /\ stage # "none" /\ sock = "open"
  /\ sock' = "closed"
  /\ UNCHANGED <<config, progress, stage, timer, version, proof, late, leftOpen>>

(* Mutant: the attempt is rejected, and its socket left to itself. *)
TimeoutRejects ==
  /\ timer = "armed" /\ stage # "none"
  /\ Throw("closed", sock, TRUE)

(* Mutant: the socket is destroyed without an error. *)
TimeoutCloses ==
  /\ timer = "armed" /\ stage # "none"
  /\ timer' = "fired" /\ sock' = "none"
  /\ UNCHANGED <<config, progress, stage, version, proof, late, leftOpen>>

(* The timer: destroy() of a socket that is closed already does nothing.   *)
OnTimeout ==
  /\ timer = "armed" /\ stage # "none"
  /\ IF sock = "closed"
     THEN timer' = "fired"
          /\ UNCHANGED <<config, progress, stage, sock, version, proof, late, leftOpen>>
     ELSE Throw("closed", "closed", TRUE)

(* retryingConnect()'s maxTime is reached. *)
TimePasses ==
  /\ progress \in {"trying", "sleeping"} /\ ~late
  /\ late' = TRUE
  /\ UNCHANGED <<config, progress, stage, sock, timer, version, proof, leftOpen>>

(* What the server may say.  "vOther" proposes a version the client has    *)
(* not; ok: a method, salt or signature that is what it should be.         *)
ServerMessages ==
  [type : {"SASL", "SASLContinue", "SASLFinal"}, ok : BOOLEAN]
    \cup [type : {"v2", "v3", "vOther", "AuthOK", "K", "s", "Z", "E", "other"}, ok : {TRUE}]

Proceed(stage2) ==
  /\ stage' = stage2
  /\ UNCHANGED <<config, progress, sock, timer, late, leftOpen>>

(* Mutant: the signature of the server is not compared. *)
AuthSaslTrusting(message) ==
  IF message.type # stage \/ (~message.ok /\ stage = "SASLContinue")
  THEN Fail("error")
  ELSE IF stage = "SASLContinue"
  THEN Proceed("SASLFinal") /\ UNCHANGED <<version, proof>>
  ELSE Proceed("messages") /\ UNCHANGED version
       /\ proof' = IF message.ok THEN "given" ELSE proof

(* parseServerFirstMessage() and the answer to it, parseServerFinalMessage() *)
(* and the comparison of the server's signature with the expected one.     *)
authSasl(message) ==
  IF message.type # stage \/ ~message.ok
  THEN Fail("error")
  ELSE IF stage = "SASLContinue"
  THEN Proceed("SASLFinal") /\ UNCHANGED <<version, proof>>
  ELSE Proceed("messages") /\ proof' = "given" /\ UNCHANGED version

(* The loop of connect(). "s" and "K" are kept, "other" stands for server  *)
(* settings and log messages, which _fallthrough() accepts.                *)
handshake(message) ==
  CASE message.type \in {"v2", "v3"} ->
         Proceed(stage) /\ version' = (IF message.type = "v2" THEN 2 ELSE 3) /\ UNCHANGED proof
    [] message.type = "SASL" ->
         IF message.ok THEN Proceed("SASLContinue") /\ proof' = "begun" /\ UNCHANGED version
                       ELSE Fail("error")
    [] message.type \in {"AuthOK", "K", "s", "other"} ->
         Proceed(stage) /\ UNCHANGED <<version, proof>>
    [] message.type = "Z" /\ config.tls ->
         progress' = "connected" /\ stage' = "none" /\ timer' = "off" /\ late' = FALSE
         /\ UNCHANGED <<config, sock, version, proof, leftOpen>>
    [] OTHER -> Fail("error")

OnMessage(message) ==
  /\ sock = "open" /\ stage \notin {"none", "socket"}
  /\ IF stage = "messages" THEN handshake(message) ELSE authSasl(message)

(* Bytes that are no message: feed() or a read throws a BufferError.       *)
OnGarbage ==
  /\ sock = "open" /\ stage \notin {"none", "socket"}
  /\ Fail("failed")
=============================================================================
