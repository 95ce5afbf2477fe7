---------------------------- MODULE QueryingProofs ----------------------------
(***************************************************************************)
(* What Querying guarantees for any configurations and queries, and any    *)
(* number of calls, attempts and schema changes.                           *)
(***************************************************************************)
EXTENDS Querying, SequenceTheorems, TLAPS

----------------------------------------------------------------------------
(* Connecting: what is awaited, on which socket, and what the server has   *)
(* proven by then.                                                         *)

HttpStages == {"401", "200"}
TcpStages == {"socket", "messages", "SASLContinue", "SASLFinal"}

ProgressAgrees ==
  /\ config \in ConfigType
  /\ progress \in {"none", "trying", "sleeping", "connected"} \cup Refused
  /\ stage \in {"none"} \cup (IF config.http THEN HttpStages ELSE TcpStages)
  /\ pc \in {"idle", "begin", "connect", "parse", "execute"}
  /\ stage # "none" <=> progress = "trying"
  /\ progress \in {"trying", "sleeping"} => pc = "connect"
  /\ pc \in {"parse", "execute"} => progress = "connected"
  /\ config.http => sock = "none" /\ timer = "off" /\ progress # "sleeping"

ProofAgrees ==
  /\ config.http /\ token => proof = "given"
  /\ stage \in {"socket", "messages"} => proof # "begun"

ConnectInv == ProgressAgrees /\ ProofAgrees /\ ServerProven /\ leftOpen \in Nat /\ RetriesLeaveNoSocket

----------------------------------------------------------------------------
(* Querying: what is on its way, and what the caches hold. *)

TypesAgree ==
  /\ query \in Queries /\ changes \in 0..MaxChanges /\ written \in Nat
  /\ version \in {2, 3} /\ speaks \in {2, 3}
  /\ schema \in [in : Versions, out : Versions, state : Versions, writes : {"always", "never", "since"}]
  /\ schema.in <= changes + 1 /\ schema.out <= changes + 1 /\ schema.state <= changes + 1
  /\ inCodec \in Codec /\ outCodec \in Codec /\ stateCodec \in Codec /\ stateCache \in Codec
  /\ queryCodecCache \in [Languages -> Entry \cup {NoEntry}]

(* The bytes kept of the session's state are of the codec that is known.   *)
StateAgrees == stateCache \in {0, stateCodec} /\ StateWellEncoded

(* A request takes along what the connection knows.                        *)
RequestAgrees == request # Nothing =>
  /\ pc \in {"parse", "execute"} /\ inbox = <<>> /\ error = "none"
  /\ request = [kind |-> pc, in |-> inCodec, out |-> outCodec, version |-> version,
                tid |-> IF query.state THEN stateCodec ELSE 0,
                bytes |-> IF query.state THEN stateCache ELSE 0]

Descriptions == [type : {"T"}, in : Codec, out : Codec, writes : BOOLEAN]
States == [type : {"s"}, state : Codec]
Rows == [type : {"D"}, bytes : Codec]
Errors == [type : {"E"}, err : {"binary", "state", "params", "conflict", "error"}]
Complete == [type |-> "C"]

(* What is left of an answer: rows come last, and are those that the codec *)
(* at hand or the description before them is for.                          *)
InboxAgrees ==
  \/ inbox = <<>> /\ error = "none"
  \/ /\ pc \in {"parse", "execute"} /\ request = Nothing
     /\ \/ inbox = <<Sync>> /\ error \in {"none", "binary", "state", "params", "conflict", "error"}
        \/ /\ error = "none"
           /\ \/ \E e \in Errors : inbox = <<e, Sync>>
              \/ \E s \in States : inbox = <<s, Error("state"), Sync>>
              \/ \E d \in Descriptions : pc = "parse" /\ inbox = <<d, Sync>>
              \/ \E d \in Descriptions, e \in Errors : pc = "execute" /\ inbox = <<d, e, Sync>>
              \/ \E d \in Rows : pc = "execute" /\ d.bytes = outCodec /\ inbox = <<d, Complete, Sync>>
              \/ \E t \in Descriptions, d \in Rows :
                   pc = "execute" /\ d.bytes = t.out /\ inbox = <<t, d, Complete, Sync>>
              \/ pc = "execute" /\ inbox = <<Complete, Sync>>

Pending(err) == error = err \/ \E i \in 1..Len(inbox) : inbox[i] = Error(err)
(* The next message, if there is one. *)
Incoming == IF inbox = <<>> THEN [type |-> "none"] ELSE Head(inbox)
Known == queryCodecCache["EdgeQL"]

(* A query that always writes is known as one that does, and is not asked  *)
(* for again once the server has run it: nothing is left but success.      *)
WritesAgree ==
  /\ schema.writes = "always" /\ Known # NoEntry => Known.writes
  /\ schema.writes = "always" /\ Incoming.type = "T" => Incoming.writes
  /\ schema.writes = "always" /\ written # 0 =>
       /\ written = 1
       /\ \/ pc = "idle"
          \/ /\ pc = "execute" /\ request = Nothing /\ error = "none"
             /\ \A i \in 1..Len(inbox) : inbox[i].type # "E"

(* The version is right once the server was heard. *)
VersionsAgree ==
  /\ Pending("binary") => config.http /\ ~refetched /\ version = speaks
  /\ config.http /\ refetched /\ pc \in {"parse", "execute"} => version = speaks

(* The types of the arguments: every description makes those known newer.  *)
ArgsAgree ==
  /\ queryCodecCache["SQL"] = NoEntry
  /\ Known # NoEntry => IF query.args THEN Known.in \in 1..schema.in ELSE Known.in = 0
  /\ Incoming.type = "T" => IF query.args THEN Incoming.in \in 1..schema.in ELSE Incoming.in = 0
  /\ pc = "execute" => IF query.args THEN inCodec \in 1..schema.in ELSE inCodec = 0
  /\ pc = "parse" /\ inbox = <<Sync>> /\ error = "none" =>
       IF query.args THEN inCodec \in 1..schema.in ELSE inCodec = 0
  /\ Pending("params") =>
       /\ pc = "execute" /\ query.args
       /\ IF Incoming.type = "T" THEN Incoming.in > 1 ELSE Known # NoEntry /\ Known.in > 1
       /\ again => changes > 1
  /\ again /\ pc \in {"parse", "execute"} => pc = "execute" /\ inCodec > 1

QueryInv ==
  /\ TypesAgree /\ StateAgrees /\ RequestAgrees /\ InboxAgrees
  /\ WritesAgree /\ VersionsAgree /\ ArgsAgree
  /\ RowsReadable /\ MismatchesHidden

----------------------------------------------------------------------------
(* Connecting. *)

(* Before the first attempt nothing is open and nothing is proven. *)
LEMMA InitConnect == Init => ConnectInv
BY ConnectingAssumption DEF Init, ConnectInv, ProgressAgrees, ProofAgrees, ServerProven,
   RetriesLeaveNoSocket, ConnectingAssumption, HttpStages, TcpStages

(* An attempt fails: only an error that ends retryingConnect() leaves its  *)
(* socket open.                                                            *)
LEMMA ThrowStep ==
  ASSUME ConnectInv, stage # "none", NEW err \in Refused, NEW socket, NEW timedOut \in BOOLEAN,
         Throw(err, socket, timedOut), ~config.http,
         socket # "closed" => err \in {"failed", "error"},
         UNCHANGED <<fetchVars, pc>>
  PROVE  ConnectInv'
<1>1. pc = "connect" /\ leftOpen = 0 /\ progress = "trying"
  BY DEF ConnectInv, ProgressAgrees, RetriesLeaveNoSocket
<1>2. /\ config' = config /\ stage' = "none" /\ token' = token /\ proof' = proof
      /\ progress' \in {"sleeping", "closed", "timeout", "failed", "error"}
      /\ progress' = "sleeping" \/ progress' \in Reconnectable => err \in Reconnectable
  BY DEF Throw, Refused, Reconnectable, fetchVars
<1>3. leftOpen' = 0 \/ (leftOpen' = 1 /\ progress' \in {"failed", "error"})
  BY <1>1 DEF Throw, Reconnectable
<1> QED
  BY <1>1, <1>2, <1>3 DEF ConnectInv, ProgressAgrees, ProofAgrees, ServerProven, RetriesLeaveNoSocket,
     Refused, Reconnectable

(* Every step of connecting keeps what is known of socket, timer and proof. *)
LEMMA ConnectKept == ConnectInv /\ RequestAgrees /\ InboxAgrees /\ [Next]_vars => ConnectInv'
<1> SUFFICES ASSUME ConnectInv, RequestAgrees, InboxAgrees, [Next]_vars PROVE ConnectInv'
  OBVIOUS
<1> USE DEF Refused, Reconnectable, HttpStages, TcpStages
<1>1. ASSUME UNCHANGED <<config, progress, stage, sock, timer, proof, leftOpen, fetchVars>>,
             pc' = pc \/ (pc' # "connect" /\ pc' \in {"idle", "begin", "parse", "execute"}
                         /\ progress \notin {"trying", "sleeping"}
                         /\ (pc' \in {"parse", "execute"} => progress = "connected")
                         /\ (pc' # "idle" => leftOpen = 0))
      PROVE  ConnectInv'
  BY <1>1 DEF ConnectInv, ProgressAgrees, ProofAgrees, ServerProven, RetriesLeaveNoSocket, fetchVars
<1>2. ASSUME NEW q \in Queries, Call(q) PROVE ConnectInv'
  <2>1. /\ UNCHANGED <<config, progress, stage, sock, timer, proof, fetchVars>>
        /\ pc = "idle" /\ pc' = "begin" /\ leftOpen' = 0
    BY <1>2 DEF Call
  <2> QED
    BY <2>1 DEF ConnectInv, ProgressAgrees, ProofAgrees, ServerProven, RetriesLeaveNoSocket, fetchVars
<1>3. CASE GetConnection
  <2>0. pc = "begin" /\ leftOpen = 0 /\ progress \notin {"trying", "sleeping"} /\ stage = "none"
    BY <1>3 DEF GetConnection, ConnectInv, ProgressAgrees, RetriesLeaveNoSocket
  <2>1. CASE progress = "connected"
    <3>1. fetch(FALSE) /\ UNCHANGED <<connectVars, fetchVars>>
      BY <1>3, <2>1 DEF GetConnection
    <3>2. pc' \in {"idle", "parse", "execute"}
      BY <3>1 DEF fetch, Finish, Send
    <3> QED
      BY <1>1, <2>0, <2>1, <3>1, <3>2 DEF connectVars
  <2>2. CASE progress # "connected" /\ ~config.http
    <3>1. retryingConnect /\ UNCHANGED fetchVars /\ pc' = "connect"
      BY <1>3, <2>2 DEF GetConnection
    <3> QED
      BY <2>0, <2>2, <3>1 DEF retryingConnect, connectWithTimeout, ConnectInv, ProgressAgrees, ProofAgrees,
         ServerProven, RetriesLeaveNoSocket
  <2>3. CASE progress # "connected" /\ config.http
    <3>1. getAuthenticatedFetch /\ pc' = "connect"
      BY <1>3, <2>3 DEF GetConnection
    <3> QED
      BY <2>0, <2>3, <3>1 DEF getAuthenticatedFetch, create, fetchVars, ConnectInv, ProgressAgrees, ProofAgrees,
         ServerProven, RetriesLeaveNoSocket
  <2> QED
    BY <2>1, <2>2, <2>3
<1>4. CASE GotConnection
  <2>1. /\ pc = "connect" /\ UNCHANGED <<connectVars, fetchVars>>
        /\ \/ progress = "connected" /\ fetch(FALSE)
           \/ progress \in Refused /\ pc' = "idle"
    BY <1>4 DEF GotConnection, Finish
  <2>2. CASE progress = "connected" /\ fetch(FALSE)
    <3>1. pc' \in {"idle", "parse", "execute"}
      BY <2>2 DEF fetch, Finish, Send
    <3>2. leftOpen = 0
      BY <2>2 DEF ConnectInv, RetriesLeaveNoSocket
    <3> QED
      BY <1>1, <2>1, <2>2, <3>1, <3>2 DEF connectVars
  <2> QED
    BY <1>1, <2>1, <2>2 DEF connectVars
<1>5. CASE Handshake
  <2>0. pc = "connect" /\ pc' = pc
    BY <1>5 DEF Handshake, callVars
  <2>1. CASE Wake /\ UNCHANGED fetchVars
    BY <2>0, <2>1 DEF Wake, connectWithTimeout, ConnectInv, ProgressAgrees, ProofAgrees, ServerProven,
       RetriesLeaveNoSocket, fetchVars
  <2>2. CASE (OnError \/ OnTimeout) /\ UNCHANGED fetchVars
    <3>1. stage # "none" /\ ~config.http
      BY <2>2 DEF OnError, OnTimeout, ConnectInv, ProgressAgrees
    <3>2. ASSUME NEW timedOut \in BOOLEAN, Throw("closed", "closed", timedOut) PROVE ConnectInv'
      BY <2>0, <2>2, <3>1, <3>2, ThrowStep
    <3>3. CASE OnTimeout /\ sock = "closed"
      BY <2>0, <2>2, <3>1, <3>3 DEF OnTimeout, ConnectInv, ProgressAgrees, ProofAgrees, ServerProven,
         RetriesLeaveNoSocket, fetchVars
    <3> QED
      BY <2>2, <3>2, <3>3 DEF OnError, OnTimeout
  <2>3. CASE (OnClose \/ TimePasses) /\ UNCHANGED fetchVars
    BY <2>0, <2>3 DEF OnClose, TimePasses, ConnectInv, ProgressAgrees, ProofAgrees, ServerProven,
       RetriesLeaveNoSocket, fetchVars
  <2>4. CASE OnGarbage /\ UNCHANGED fetchVars
    <3>1. stage # "none" /\ ~config.http
      BY <2>4 DEF OnGarbage, ConnectInv, ProgressAgrees
    <3>2. Throw("failed", sock, FALSE)
      BY <2>4 DEF OnGarbage, Fail
    <3> QED
      BY <2>0, <2>4, <3>1, <3>2, ThrowStep
  <2>5. ASSUME NEW alpn \in BOOLEAN, OnConnect(alpn), UNCHANGED fetchVars PROVE ConnectInv'
    <3>1. stage = "socket" /\ ~config.http
      BY <2>5 DEF OnConnect, ConnectInv, ProgressAgrees
    <3>2. CASE Throw("failed", "open", FALSE)
      BY <2>0, <2>5, <3>1, <3>2, ThrowStep
    <3>3. CASE ~(config.tls /\ ~alpn)
      BY <2>0, <2>5, <3>1, <3>3 DEF OnConnect, ConnectInv, ProgressAgrees, ProofAgrees, ServerProven,
         RetriesLeaveNoSocket, fetchVars
    <3> QED
      BY <2>5, <3>2, <3>3 DEF OnConnect
  <2>6. ASSUME NEW message \in ServerMessages, OnMessage(message), UNCHANGED fetchVars PROVE ConnectInv'
    <3>1. stage \notin {"none", "socket"} /\ ~config.http /\ progress = "trying"
      BY <2>6 DEF OnMessage, ConnectInv, ProgressAgrees
    <3>2. ASSUME Fail("error") PROVE ConnectInv'
      BY <2>0, <2>6, <3>1, <3>2, ThrowStep DEF Fail
    <3>3. ASSUME NEW stage2 \in {"messages", "SASLContinue", "SASLFinal"}, Proceed(stage2),
                 stage2 = "messages" => proof' # "begun"
          PROVE  ConnectInv'
      BY <2>0, <2>6, <3>1, <3>3 DEF Proceed, ConnectInv, ProgressAgrees, ProofAgrees, ServerProven,
         RetriesLeaveNoSocket, fetchVars
    <3>4. CASE stage = "messages"
      <4>1. handshake(message) /\ proof # "begun"
        BY <2>6, <3>4 DEF OnMessage, ConnectInv, ProofAgrees
      <4>2. \/ Fail("error")
            \/ Proceed("messages") /\ proof' = proof
            \/ Proceed("SASLContinue")
            \/ /\ progress' = "connected" /\ stage' = "none" /\ config.tls
               /\ UNCHANGED <<config, sock, proof, leftOpen>> /\ timer' = "off"
        BY <3>4, <4>1 DEF handshake
      <4>3. CASE /\ progress' = "connected" /\ stage' = "none" /\ config.tls
                 /\ UNCHANGED <<config, sock, proof, leftOpen>> /\ timer' = "off"
        BY <2>0, <2>6, <3>1, <4>1, <4>3 DEF ConnectInv, ProgressAgrees, ProofAgrees, ServerProven,
           RetriesLeaveNoSocket, fetchVars
      <4> QED
        BY <3>2, <3>3, <4>1, <4>2, <4>3
    <3>5. CASE stage # "messages"
      <4>1. authSasl(message)
        BY <2>6, <3>5 DEF OnMessage
      <4>2. Fail("error") \/ Proceed("SASLFinal") \/ (Proceed("messages") /\ proof' = "given")
        BY <4>1 DEF authSasl
      <4> QED
        BY <3>2, <3>3, <4>2
    <3> QED
      BY <3>4, <3>5
  <2>7. ASSUME NEW ok \in BOOLEAN, NEW sid \in BOOLEAN, HTTPSCRAMAuth(ok, sid) PROVE ConnectInv'
    <3>1. config.http /\ progress = "trying" /\ leftOpen = 0
      BY <2>7 DEF HTTPSCRAMAuth, ConnectInv, ProgressAgrees, RetriesLeaveNoSocket
    <3> QED
      BY <2>0, <2>7, <3>1 DEF HTTPSCRAMAuth, create, fetchVars, ConnectInv, ProgressAgrees, ProofAgrees,
         ServerProven, RetriesLeaveNoSocket
  <2> QED
    BY <1>5, <2>1, <2>2, <2>3, <2>4, <2>5, <2>6, <2>7 DEF Handshake
<1>6. CASE SchemaChanges
  BY <1>1, <1>6 DEF SchemaChanges, connectVars, callVars
<1>7. ASSUME NEW verdict, Serve(verdict) PROVE ConnectInv'
  BY <1>1, <1>7 DEF Serve, callVars
<1>8. CASE Deliver
  <2>1. UNCHANGED <<connectVars, fetchVars>>
    BY <1>8 DEF Deliver
  <2>2. pc' = pc \/ OnSync
    BY <1>8 DEF Deliver, callVars
  <2>3. CASE OnSync
    <3>1. pc \in {"parse", "execute"}
      BY <1>8 DEF Deliver, InboxAgrees
    <3>2. pc' \in {pc, "execute", "idle", "begin", "parse"}
      BY <2>3 DEF OnSync, Send, Finish, Retry, fetch
    <3>3. progress = "connected" /\ leftOpen = 0
      BY <3>1 DEF ConnectInv, ProgressAgrees, RetriesLeaveNoSocket
    <3> QED
      BY <1>1, <2>1, <3>1, <3>2, <3>3 DEF connectVars
  <2> QED
    BY <1>1, <2>1, <2>2, <2>3 DEF connectVars
<1>9. CASE Lost
  <2>1. /\ ~config.http /\ progress = "connected" /\ pc # "connect"
        /\ progress' = "none" /\ UNCHANGED <<config, stage, timer, proof, leftOpen, fetchVars>>
        /\ pc' = pc \/ pc' \in {"begin", "idle"}
        /\ pc' = pc => pc \notin {"parse", "execute"}
    BY <1>9 DEF Lost, Retry, Finish, callVars
  <2> QED
    BY <2>1 DEF ConnectInv, ProgressAgrees, ProofAgrees, ServerProven, RetriesLeaveNoSocket, fetchVars
<1>10. CASE HttpFails
  <2>1. /\ UNCHANGED <<connectVars, fetchVars>> /\ pc' \in {"begin", "idle"}
        /\ pc \in {"parse", "execute"}
    BY <1>10 DEF HttpFails, Retry, Finish, RequestAgrees
  <2>2. progress = "connected" /\ leftOpen = 0
    BY <2>1 DEF ConnectInv, ProgressAgrees, RetriesLeaveNoSocket
  <2> QED
    BY <1>1, <2>1, <2>2 DEF connectVars
<1>11. CASE UNCHANGED vars
  BY <1>1, <1>11 DEF vars, connectVars, queryVars, callVars
<1> QED
  BY <1>2, <1>3, <1>4, <1>5, <1>6, <1>7, <1>8, <1>9, <1>10, <1>11 DEF Next

----------------------------------------------------------------------------
(* What a query's steps are made of. *)

(* Short sequences, of which the provers know little.                      *)
LEMMA Heads ==
  /\ \A a : <<a>> # <<>> /\ Head(<<a>>) = a
  /\ \A a, b : <<a, b>> # <<>> /\ Head(<<a, b>>) = a /\ <<a, b>> # <<b>>
  /\ \A a, b, c : <<a, b, c>> # <<>> /\ Head(<<a, b, c>>) = a
<1>1. ASSUME NEW a PROVE <<a>> # <<>> /\ Head(<<a>>) = a
  OBVIOUS
<1>2. ASSUME NEW a, NEW b PROVE <<a, b>> # <<>> /\ Head(<<a, b>>) = a /\ <<a, b>> # <<b>>
  <2>1. Len(<<a, b>>) = 2 /\ Len(<<b>>) = 1 /\ Len(<<>>) = 0
    OBVIOUS
  <2> QED
    BY <2>1
<1>3. ASSUME NEW a, NEW b, NEW c PROVE <<a, b, c>> # <<>> /\ Head(<<a, b, c>>) = a
  OBVIOUS
<1> QED
  BY <1>1, <1>2, <1>3

(* What comes next of an answer, and what is left then.                    *)
LEMMA NextMessage ==
  ASSUME InboxAgrees, inbox # <<>>
  PROVE  /\ pc \in {"parse", "execute"} /\ request = Nothing
         /\ \/ inbox = <<Sync>> /\ Head(inbox) = Sync /\ Len(inbox) = 1
               /\ error \in {"none", "binary", "state", "params", "conflict", "error"}
            \/ /\ error = "none"
               /\ \/ \E e \in Errors : Head(inbox) = e /\ Tail(inbox) = <<Sync>>
                  \/ \E s \in States : Head(inbox) = s /\ Tail(inbox) = <<Error("state"), Sync>>
                  \/ \E d \in Descriptions :
                       /\ Head(inbox) = d
                       /\ \/ pc = "parse" /\ Tail(inbox) = <<Sync>>
                          \/ \E e \in Errors : pc = "execute" /\ Tail(inbox) = <<e, Sync>>
                          \/ \E r \in Rows :
                               pc = "execute" /\ r.bytes = d.out /\ Tail(inbox) = <<r, Complete, Sync>>
                  \/ \E r \in Rows : /\ pc = "execute" /\ r.bytes = outCodec
                                     /\ Head(inbox) = r /\ Tail(inbox) = <<Complete, Sync>>
                  \/ pc = "execute" /\ Head(inbox) = Complete /\ Tail(inbox) = <<Sync>>
<1>1. pc \in {"parse", "execute"} /\ request = Nothing
  BY DEF InboxAgrees
<1>2. CASE inbox = <<Sync>>
  BY <1>1, <1>2 DEF InboxAgrees
<1>3. CASE \E e \in Errors : inbox = <<e, Sync>>
  BY <1>1, <1>3 DEF InboxAgrees
<1>4. CASE \E s \in States : inbox = <<s, Error("state"), Sync>>
  BY <1>1, <1>4 DEF InboxAgrees
<1>5. CASE \E d \in Descriptions : pc = "parse" /\ inbox = <<d, Sync>>
  BY <1>1, <1>5 DEF InboxAgrees
<1>6. CASE \E d \in Descriptions, e \in Errors : pc = "execute" /\ inbox = <<d, e, Sync>>
  BY <1>1, <1>6 DEF InboxAgrees
<1>7. CASE \E d \in Rows : pc = "execute" /\ d.bytes = outCodec /\ inbox = <<d, Complete, Sync>>
  BY <1>1, <1>7 DEF InboxAgrees
<1>8. CASE \E t \in Descriptions, d \in Rows :
             pc = "execute" /\ d.bytes = t.out /\ inbox = <<t, d, Complete, Sync>>
  BY <1>1, <1>8 DEF InboxAgrees
<1>9. CASE pc = "execute" /\ inbox = <<Complete, Sync>>
  BY <1>1, <1>9 DEF InboxAgrees
<1> QED
  BY <1>2, <1>3, <1>4, <1>5, <1>6, <1>7, <1>8, <1>9 DEF InboxAgrees

(* Between calls, and while connecting, nothing is on its way.             *)
LEMMA NothingPending ==
  ASSUME RequestAgrees, InboxAgrees, pc \notin {"parse", "execute"}
  PROVE  request = Nothing /\ inbox = <<>> /\ error = "none"
BY DEF RequestAgrees, InboxAgrees

(* A flow ends, with its call or for another iteration.                    *)
LEMMA Ended ==
  ASSUME QueryInv,
         UNCHANGED <<schemaVars, row, codecVars, query, again, refetched, speaks, config>>,
         version' \in {2, 3}, request' = Nothing, inbox' = <<>>, error' = "none",
         pc' \in {"idle", "begin"}, written' \in Nat,
         schema.writes = "always" /\ written' # 0 => written' = 1 /\ pc' = "idle",
         outcome' # "binary",
         outcome' = "TypeError" => query.lang = "SQL",
         outcome' = "params" => changes > 1
  PROVE  QueryInv'
<1>1. TypesAgree' /\ StateAgrees' /\ RequestAgrees' /\ InboxAgrees'
  BY DEF QueryInv, TypesAgree, StateAgrees, StateWellEncoded, RequestAgrees, InboxAgrees, schemaVars, codecVars
<1>2. \A err : err # "none" => ~Pending(err)'
  BY DEF Pending
<1>3. WritesAgree'
  BY DEF QueryInv, WritesAgree, Incoming, Known, schemaVars, codecVars
<1>4. VersionsAgree' /\ ArgsAgree'
  BY <1>2 DEF QueryInv, VersionsAgree, ArgsAgree, Incoming, Known, schemaVars, codecVars
<1>5. RowsReadable' /\ MismatchesHidden'
  BY DEF QueryInv, RowsReadable, MismatchesHidden, schemaVars
<1> QED
  BY <1>1, <1>3, <1>4, <1>5 DEF QueryInv

(* A request is sent.                                                      *)
LEMMA Sent ==
  ASSUME QueryInv, NEW kind \in {"parse", "execute"}, NEW in \in Codec, NEW out \in Codec,
         Send(kind, in, out),
         UNCHANGED <<schemaVars, written, row, version, speaks, config>>,
         schema.writes = "always" => written = 0,
         config.http /\ refetched' => version = speaks,
         kind = "execute" => IF query.args THEN in \in 1..schema.in ELSE in = 0,
         again' => kind = "execute" /\ in > 1
  PROVE  QueryInv'
<1>1. /\ stateCache' \in {stateCache, stateCodec}
      /\ UNCHANGED <<query, outcome, stateCodec, queryCodecCache>>
      /\ inCodec' = in /\ outCodec' = out /\ pc' = kind /\ error' = "none" /\ inbox' = <<>>
  BY DEF Send, QueryInv, StateAgrees, StateWellEncoded
<1>2. request' = [kind |-> pc', in |-> inCodec', out |-> outCodec', version |-> version',
                  tid |-> IF query'.state THEN stateCodec' ELSE 0,
                  bytes |-> IF query'.state THEN stateCache' ELSE 0]
  BY <1>1 DEF Send
<1>3. TypesAgree' /\ StateAgrees'
  <2>1. request'.bytes = request'.tid
    BY <1>1, <1>2 DEF Send, QueryInv, StateAgrees
  <2> QED
    BY <1>1, <2>1 DEF QueryInv, TypesAgree, StateAgrees, StateWellEncoded, schemaVars
<1>4. RequestAgrees' /\ InboxAgrees'
  BY <1>1, <1>2 DEF RequestAgrees, InboxAgrees
<1>5. \A err : err # "none" => ~Pending(err)'
  BY <1>1 DEF Pending
<1>6. WritesAgree'
  BY <1>1 DEF QueryInv, WritesAgree, Incoming, Known, schemaVars
<1>7. VersionsAgree' /\ ArgsAgree'
  BY <1>1, <1>5 DEF QueryInv, VersionsAgree, ArgsAgree, Incoming, Known, schemaVars
<1>8. RowsReadable' /\ MismatchesHidden'
  BY <1>1 DEF QueryInv, RowsReadable, MismatchesHidden, schemaVars
<1> QED
  BY <1>3, <1>4, <1>6, <1>7, <1>8 DEF QueryInv

(* fetch() finds what it needs, or parses first, or refuses SQL.           *)
LEMMA Fetched ==
  ASSUME QueryInv, NEW second \in BOOLEAN, fetch(second),
         UNCHANGED <<schemaVars, written, row, version, speaks, config>>,
         schema.writes = "always" => written = 0,
         config.http /\ second => version = speaks
  PROVE  QueryInv'
<1> DEFINE entry == queryCodecCache[query.lang]
<1>1. query.lang \in Languages
  BY QueryingAssumption DEF QueryInv, TypesAgree, QueryingAssumption, Languages
<1>2. /\ entry \in Entry \cup {NoEntry} /\ entry.in \in Codec /\ entry.out \in Codec
  BY <1>1, QueryingAssumption DEF QueryInv, TypesAgree, QueryingAssumption, Entry, NoEntry, Codec
<1>3. CASE query.lang = "SQL" /\ version < 3
  <2>1. /\ pc' = "idle" /\ outcome' = "unsupported" /\ request' = Nothing /\ inbox' = <<>> /\ error' = "none"
        /\ UNCHANGED <<codecVars, query, again, refetched>>
    BY <1>3 DEF fetch, Finish, codecVars
  <2>2. version' \in {2, 3} /\ written' \in Nat
    BY DEF QueryInv, TypesAgree
  <2> QED
    BY <2>1, <2>2, Ended
<1>4. CASE ~(query.lang = "SQL" /\ version < 3)
  <2>1. PICK kind \in {"parse", "execute"} :
          /\ Send(kind, entry.in, entry.out) /\ again' = FALSE /\ refetched' = second
          /\ kind = "execute" => ~(entry = NoEntry /\ query.args)
    BY <1>4 DEF fetch
  <2>2. ASSUME kind = "execute" PROVE IF query.args THEN entry.in \in 1..schema.in ELSE entry.in = 0
    <3>1. CASE entry = NoEntry
      BY <2>1, <2>2, <3>1 DEF NoEntry
    <3>2. CASE entry # NoEntry
      <4>1. query.lang = "EdgeQL"
        BY <1>1, <3>2 DEF QueryInv, ArgsAgree, Languages
      <4> QED
        BY <3>2, <4>1 DEF QueryInv, ArgsAgree, Known
    <3> QED
      BY <3>1, <3>2
  <2> HIDE DEF entry
  <2> QED
    BY <1>2, <2>1, <2>2, Sent
<1> QED
  BY <1>3, <1>4

(* The catch of retryingFetch(): a query that always writes is retried     *)
(* after a conflict only.                                                  *)
LEMMA Retried ==
  ASSUME QueryInv, NEW err, Retry(err),
         UNCHANGED <<schemaVars, row, speaks, config>>, version' \in {2, 3}, written' \in Nat,
         schema.writes = "always" /\ written' # 0 => written' = 1 /\ err # "conflict",
         err \notin {"binary", "TypeError"},
         err = "params" => changes > 1
  PROVE  QueryInv'
<1>1. /\ request' = Nothing /\ inbox' = <<>> /\ error' = "none"
      /\ UNCHANGED <<codecVars, query, again, refetched>>
      /\ \/ pc' = "begin" /\ outcome' = outcome /\ (err = "conflict" \/ KnownReadOnly)
         \/ pc' = "idle" /\ outcome' = err
  BY DEF Retry, Finish, codecVars
<1>2. schema.writes = "always" => ~KnownReadOnly
  BY DEF QueryInv, WritesAgree, Known, KnownReadOnly, StoreKey
<1>3. /\ outcome # "binary" /\ (outcome = "TypeError" => query.lang = "SQL")
      /\ (outcome = "params" => changes > 1)
  BY DEF QueryInv, MismatchesHidden
<1> QED
  BY <1>1, <1>2, <1>3, Ended

----------------------------------------------------------------------------
(* The server answers. *)

(* Concatenation of short sequences, of which the provers know little.    *)
LEMMA PrependTwo ==
  ASSUME NEW a, NEW b, NEW c PROVE <<a>> \o <<b, c>> = <<a, b, c>>
<1> DEFINE S == {a, b, c}
<1>0. a \in S /\ b \in S /\ c \in S
  OBVIOUS
<1> HIDE DEF S
<1>1. <<a>> \in Seq(S) /\ <<b, c>> \in Seq(S)
  BY <1>0
<1>2. /\ <<a>> \o <<b, c>> \in Seq(S) /\ Len(<<a>> \o <<b, c>>) = 3
      /\ \A i \in 1..3 : (<<a>> \o <<b, c>>)[i] = IF i <= 1 THEN <<a>>[i] ELSE <<b, c>>[i - 1]
  BY <1>1, ConcatProperties
<1>3. \A i \in 1..3 : (<<a>> \o <<b, c>>)[i] = <<a, b, c>>[i]
  BY <1>2
<1>4. <<a, b, c>> \in Seq(S) /\ Len(<<a, b, c>>) = 3
  BY <1>0
<1> QED
  BY <1>2, <1>3, <1>4, SeqEqual

(* A message before three others. *)
LEMMA PrependThree ==
  ASSUME NEW a, NEW b, NEW c, NEW d PROVE <<a>> \o <<b, c, d>> = <<a, b, c, d>>
<1> DEFINE S == {a, b, c, d}
<1>0. a \in S /\ b \in S /\ c \in S /\ d \in S
  OBVIOUS
<1> HIDE DEF S
<1>1. <<a>> \in Seq(S) /\ <<b, c, d>> \in Seq(S)
  BY <1>0
<1>2. /\ <<a>> \o <<b, c, d>> \in Seq(S) /\ Len(<<a>> \o <<b, c, d>>) = 4
      /\ \A i \in 1..4 : (<<a>> \o <<b, c, d>>)[i] = IF i <= 1 THEN <<a>>[i] ELSE <<b, c, d>>[i - 1]
  BY <1>1, ConcatProperties
<1>3. \A i \in 1..4 : (<<a>> \o <<b, c, d>>)[i] = <<a, b, c, d>>[i]
  BY <1>2
<1>4. <<a, b, c, d>> \in Seq(S) /\ Len(<<a, b, c, d>>) = 4
  BY <1>0
<1> QED
  BY <1>2, <1>3, <1>4, SeqEqual

(* What it may say, and when.                                              *)
LEMMA Answers ==
  ASSUME QueryInv, request # Nothing, NEW verdict \in {"ok", "conflict", "error"}
  PROVE  \/ ~Readable /\ Answer(verdict) = <<Error("binary"), Sync>>
         \/ \E s \in States : Answer(verdict) = <<s, Error("state"), Sync>> /\ Readable /\ ~StateKnown
         \/ request.kind = "parse" /\ Answer(verdict) = <<Description, Sync>>
         \/ /\ request.kind = "execute" /\ ~ArgsKnown
            /\ Answer(verdict) = <<Description, Error("params"), Sync>>
         \/ /\ request.kind = "execute" /\ verdict = "ok"
            /\ \E r \in Rows :
                 /\ r.bytes = schema.out
                 /\ \/ request.out = schema.out /\ Answer(verdict) = <<r, Complete, Sync>>
                    \/ Answer(verdict) = <<Description, r, Complete, Sync>>
         \/ /\ request.kind = "execute" /\ verdict # "ok"
            /\ \/ Answer(verdict) = <<Error(verdict), Sync>>
               \/ Answer(verdict) = <<Description, Error(verdict), Sync>>
<1> DEFINE r == [type |-> "D", bytes |-> schema.out]
<1>1. request.kind \in {"parse", "execute"}
  BY DEF QueryInv, RequestAgrees
<1>2. schema.out \in Codec /\ schema.state \in Codec
  BY QueryingAssumption DEF QueryInv, TypesAgree, QueryingAssumption, Versions, Codec
<1>3. r \in Rows /\ [type |-> "s", state |-> schema.state] \in States
  BY <1>2 DEF Rows, States
<1>4. CASE ~Readable
  BY <1>4 DEF Answer
<1>5. CASE Readable /\ ~StateKnown
  BY <1>3, <1>5 DEF Answer
<1>6. CASE Readable /\ StateKnown /\ request.kind = "parse"
  BY <1>6 DEF Answer
<1>7. CASE Readable /\ StateKnown /\ request.kind = "execute" /\ ~ArgsKnown
  BY <1>7 DEF Answer
<1>8. CASE Readable /\ StateKnown /\ request.kind = "execute" /\ ArgsKnown
  <2>1. Answer(verdict) = (IF request.out = schema.out THEN <<>> ELSE <<Description>>)
                            \o (IF verdict = "ok" THEN <<r, Complete, Sync>> ELSE <<Error(verdict), Sync>>)
    BY <1>8 DEF Answer, Complete
  <2>2. CASE verdict = "ok"
    <3> HIDE DEF r
    <3>1. <<Description>> \o <<r, Complete, Sync>> = <<Description, r, Complete, Sync>>
      BY PrependThree
    <3>2. <<>> \o <<r, Complete, Sync>> = <<r, Complete, Sync>>
      OBVIOUS
    <3>3. r.bytes = schema.out
      BY DEF r
    <3>4. IF request.out = schema.out THEN Answer(verdict) = <<r, Complete, Sync>>
                                      ELSE Answer(verdict) = <<Description, r, Complete, Sync>>
      BY <2>1, <2>2, <3>1, <3>2
    <3> QED
      BY <1>3, <1>8, <2>2, <3>3, <3>4
  <2>3. CASE verdict # "ok"
    <3>1. <<Description>> \o <<Error(verdict), Sync>> = <<Description, Error(verdict), Sync>>
      BY PrependTwo
    <3>2. <<>> \o <<Error(verdict), Sync>> = <<Error(verdict), Sync>>
      OBVIOUS
    <3> QED
      BY <1>8, <2>1, <2>3, <3>1, <3>2
  <2> QED
    BY <2>2, <2>3
<1> QED
  BY <1>1, <1>4, <1>5, <1>6, <1>7, <1>8

(* The server answers a request: nothing it says is at odds with what was asked. *)
LEMMA ServeKept ==
  ASSUME QueryInv, NEW verdict \in {"ok", "conflict", "error"}, Serve(verdict)
  PROVE  QueryInv'
<1>1. /\ request # Nothing /\ request' = Nothing /\ inbox' = Answer(verdict)
      /\ version' = IF config.http THEN speaks ELSE version
      /\ written' = IF Runs /\ verdict = "ok" /\ Writes THEN written + 1 ELSE written
      /\ UNCHANGED <<config, speaks, schemaVars, callVars, codecVars, error, row>>
  BY DEF Serve, Takes, fetchVars
<1>2. /\ pc \in {"parse", "execute"} /\ error = "none"
      /\ request = [kind |-> pc, in |-> inCodec, out |-> outCodec, version |-> version,
                    tid |-> IF query.state THEN stateCodec ELSE 0,
                    bytes |-> IF query.state THEN stateCache ELSE 0]
  BY <1>1 DEF QueryInv, RequestAgrees
<1>3. request.kind = pc /\ request.in = inCodec /\ request.out = outCodec /\ request.version = version
  BY <1>2
<1>4. /\ Description \in Descriptions /\ Description.writes = Writes /\ Description.out = schema.out
      /\ Description.in = IF query.args THEN schema.in ELSE 0
      /\ Description.type = "T"
  BY QueryingAssumption DEF QueryInv, TypesAgree, QueryingAssumption, Description, Descriptions, Versions,
     Codec, Writes
<1>5. \A err : Error(err).type = "E" /\ Error(err).err = err
  BY DEF Error
<1>6. TypesAgree' /\ StateAgrees' /\ RequestAgrees'
  BY <1>1 DEF QueryInv, TypesAgree, StateAgrees, StateWellEncoded, RequestAgrees, schemaVars, codecVars, callVars
<1>7. RowsReadable' /\ MismatchesHidden'
  BY <1>1 DEF QueryInv, RowsReadable, MismatchesHidden, schemaVars, callVars
<1>8. schema.writes = "always" => written = 0
  BY <1>1, <1>2 DEF QueryInv, WritesAgree
<1>9. /\ InboxAgrees' /\ inbox' # <<>> /\ Head(inbox').type # "Z"
      /\ Head(inbox').type = "T" => Head(inbox') = Description
      /\ Runs /\ verdict = "ok" => \A i \in 1..Len(inbox') : inbox'[i].type # "E"
      /\ \A i \in 1..Len(inbox') :
           /\ inbox'[i] = Error("binary") => ~Readable
           /\ inbox'[i] = Error("params") =>
                request.kind = "execute" /\ ~ArgsKnown /\ Head(inbox') = Description
  <2> DEFINE Told(ans) ==
        /\ ans # <<>> /\ Head(ans).type # "Z" /\ (Head(ans).type = "T" => Head(ans) = Description)
        /\ Runs /\ verdict = "ok" => \A i \in 1..Len(ans) : ans[i].type # "E"
        /\ \A i \in 1..Len(ans) :
             /\ ans[i] = Error("binary") => ~Readable
             /\ ans[i] = Error("params") =>
                  request.kind = "execute" /\ ~ArgsKnown /\ Head(ans) = Description
  <2>1. \A err : Error(err) = Error("binary") => err = "binary"
    BY <1>5
  <2>2. \A err : Error(err) = Error("params") => err = "params"
    BY <1>5
  <2>3. /\ \A err : Error(err).type = "E"
        /\ Sync.type = "Z" /\ Complete.type = "C" /\ Description.type = "T"
        /\ \A s \in States : s.type = "s"
        /\ \A r \in Rows : r.type = "D"
    BY <1>4, <1>5 DEF Sync, Complete, States, Rows
  <2>4. \A err \in {"binary", "state", "params", "conflict", "error"} : Error(err) \in Errors
    BY DEF Error, Errors
  <2>5. request' = Nothing /\ pc' = pc /\ error' = "none" /\ outCodec' = outCodec
    BY <1>1, <1>2 DEF callVars, codecVars
  <2>6. CASE ~Readable /\ inbox' = <<Error("binary"), Sync>>
    <3>1. Told(inbox')
      BY <2>2, <2>3, <2>6 DEF Runs
    <3>2. InboxAgrees'
      BY <1>2, <2>4, <2>5, <2>6 DEF InboxAgrees
    <3> QED
      BY <3>1, <3>2
  <2>7. CASE \E s \in States : inbox' = <<s, Error("state"), Sync>> /\ ~StateKnown
    <3>1. Told(inbox')
      BY <2>1, <2>2, <2>3, <2>7 DEF Runs
    <3>2. InboxAgrees'
      BY <1>2, <2>5, <2>7 DEF InboxAgrees
    <3> QED
      BY <3>1, <3>2
  <2>8. CASE request.kind = "parse" /\ inbox' = <<Description, Sync>>
    <3>1. Told(inbox')
      BY <2>3, <2>8
    <3>2. InboxAgrees'
      BY <1>2, <1>3, <1>4, <2>5, <2>8 DEF InboxAgrees
    <3> QED
      BY <3>1, <3>2
  <2>9. CASE /\ request.kind = "execute" /\ ~ArgsKnown
             /\ inbox' = <<Description, Error("params"), Sync>>
    <3>1. Told(inbox')
      BY <2>1, <2>3, <2>9 DEF Runs
    <3>2. InboxAgrees'
      BY <1>2, <1>3, <1>4, <2>4, <2>5, <2>9 DEF InboxAgrees
    <3> QED
      BY <3>1, <3>2
  <2>10. ASSUME NEW r \in Rows, request.kind = "execute", verdict = "ok", r.bytes = schema.out,
                (request.out = schema.out /\ inbox' = <<r, Complete, Sync>>)
                  \/ inbox' = <<Description, r, Complete, Sync>>
         PROVE  Told(inbox') /\ InboxAgrees'
    <3>1. Told(inbox')
      BY <2>3, <2>10
    <3>2. InboxAgrees'
      BY <1>2, <1>3, <1>4, <2>5, <2>10 DEF InboxAgrees
    <3> QED
      BY <3>1, <3>2
  <2>11. CASE /\ request.kind = "execute" /\ verdict # "ok"
              /\ \/ inbox' = <<Error(verdict), Sync>>
                 \/ inbox' = <<Description, Error(verdict), Sync>>
    <3>1. Told(inbox')
      BY <2>1, <2>2, <2>3, <2>11
    <3>2. InboxAgrees'
      BY <1>2, <1>3, <1>4, <2>4, <2>5, <2>11 DEF InboxAgrees
    <3> QED
      BY <3>1, <3>2
  <2> HIDE DEF Told
  <2>12. Told(inbox') /\ InboxAgrees'
    <3>1. CASE \E r \in Rows :
                 /\ r.bytes = schema.out /\ request.kind = "execute" /\ verdict = "ok"
                 /\ \/ request.out = schema.out /\ inbox' = <<r, Complete, Sync>>
                    \/ inbox' = <<Description, r, Complete, Sync>>
      BY <2>10, <3>1
    <3> QED
      BY <1>1, <2>6, <2>7, <2>8, <2>9, <2>11, <3>1, Answers DEF Told
  <2> QED
    BY <2>12 DEF Told
<1>10. WritesAgree'
  <2>1. Incoming' = Head(inbox')
    BY <1>9 DEF Incoming
  <2>2. Writes <=> schema.writes # "never"
    BY DEF Writes
  <2>3. Incoming'.type = "T" => Incoming'.writes = Writes
    BY <1>4, <1>9, <2>1
  <2>4. UNCHANGED <<schema, queryCodecCache, pc, error>> /\ Known' = Known
    BY <1>1 DEF schemaVars, codecVars, callVars, Known
  <2>5. schema.writes = "always" /\ Known # NoEntry => Known.writes
    BY DEF QueryInv, WritesAgree
  <2>6. schema.writes = "always" /\ written' # 0 => written' = 1 /\ Runs /\ verdict = "ok"
    BY <1>1, <1>8
  <2>7. Runs => pc = "execute"
    BY <1>3 DEF Runs
  <2> QED
    BY <1>1, <1>2, <1>9, <2>2, <2>3, <2>4, <2>5, <2>6, <2>7 DEF WritesAgree
<1>11. VersionsAgree'
  <2>1. ASSUME Pending("binary")' PROVE config.http /\ ~refetched
    <3>1. ~Readable
      BY <1>1, <1>2, <1>9, <2>1 DEF Pending
    <3>2. config.http /\ version # speaks
      BY <1>3, <3>1 DEF Readable
    <3> QED
      BY <1>2, <3>2 DEF QueryInv, VersionsAgree
  <2> QED
    BY <1>1, <2>1 DEF VersionsAgree, callVars
<1>12. ArgsAgree'
  <2>1. Incoming' = Head(inbox') /\ inbox' # <<Sync>>
    BY <1>9 DEF Incoming, Sync
  <2>2. UNCHANGED <<schema, changes, queryCodecCache, pc, error, query, inCodec, again>> /\ Known' = Known
    BY <1>1 DEF schemaVars, codecVars, callVars, Known
  <2>3. schema.in \in Versions /\ schema.in <= changes + 1 /\ changes \in Nat
    BY QueryingAssumption DEF QueryInv, TypesAgree, QueryingAssumption
  <2>4. schema.in \in Nat /\ schema.in >= 1
    BY <2>3, QueryingAssumption DEF Versions, QueryingAssumption
  <2>5. Incoming'.type = "T" => IF query.args THEN Incoming'.in \in 1..schema.in ELSE Incoming'.in = 0
    BY <1>4, <1>9, <2>1, <2>4
  <2>6. ASSUME Pending("params")'
        PROVE  /\ pc = "execute" /\ query.args /\ Incoming'.type = "T" /\ Incoming'.in > 1
               /\ again => changes > 1
    <3>1. request.kind = "execute" /\ ~ArgsKnown /\ Incoming' = Description
      BY <1>1, <1>2, <1>9, <2>1, <2>6 DEF Pending
    <3>2. pc = "execute" /\ inCodec # Description.in
      BY <1>3, <3>1 DEF ArgsKnown
    <3>3. /\ IF query.args THEN inCodec \in 1..schema.in ELSE inCodec = 0
          /\ again => inCodec > 1
      BY <3>2 DEF QueryInv, ArgsAgree
    <3>4. query.args /\ Description.in = schema.in
      BY <1>4, <3>2, <3>3
    <3> QED
      BY <1>4, <2>3, <2>4, <3>1, <3>2, <3>3, <3>4
  <2>7. /\ queryCodecCache["SQL"] = NoEntry
        /\ Known # NoEntry => IF query.args THEN Known.in \in 1..schema.in ELSE Known.in = 0
        /\ pc = "execute" => IF query.args THEN inCodec \in 1..schema.in ELSE inCodec = 0
        /\ again /\ pc \in {"parse", "execute"} => pc = "execute" /\ inCodec > 1
    BY DEF QueryInv, ArgsAgree
  <2> QED
    BY <2>1, <2>2, <2>5, <2>6, <2>7 DEF ArgsAgree
<1> QED
  BY <1>6, <1>7, <1>9, <1>10, <1>11, <1>12 DEF QueryInv

----------------------------------------------------------------------------
(* The connection reads. *)

(* The rest of an answer has no message that the whole has not.            *)
LEMMA RestOfAnswer ==
  ASSUME InboxAgrees, inbox # <<>>
  PROVE  /\ 1 \in 1..Len(inbox) /\ inbox[1] = Head(inbox)
         /\ \A i \in 1..Len(Tail(inbox)) : i + 1 \in 1..Len(inbox) /\ Tail(inbox)[i] = inbox[i + 1]
<1>1. ASSUME NEW a, inbox = <<a>> PROVE Len(inbox) = 1 /\ inbox[1] = Head(inbox) /\ Len(Tail(inbox)) = 0
  BY <1>1
<1>2. ASSUME NEW a, NEW b, inbox = <<a, b>>
      PROVE  /\ Len(inbox) = 2 /\ inbox[1] = Head(inbox)
             /\ Len(Tail(inbox)) = 1 /\ Tail(inbox)[1] = inbox[2]
  BY <1>2
<1>3. ASSUME NEW a, NEW b, NEW c, inbox = <<a, b, c>>
      PROVE  /\ Len(inbox) = 3 /\ inbox[1] = Head(inbox)
             /\ Len(Tail(inbox)) = 2 /\ Tail(inbox)[1] = inbox[2] /\ Tail(inbox)[2] = inbox[3]
  BY <1>3
<1>4. ASSUME NEW a, NEW b, NEW c, NEW d, inbox = <<a, b, c, d>>
      PROVE  /\ Len(inbox) = 4 /\ inbox[1] = Head(inbox)
             /\ Len(Tail(inbox)) = 3 /\ Tail(inbox)[1] = inbox[2] /\ Tail(inbox)[2] = inbox[3]
             /\ Tail(inbox)[3] = inbox[4]
  BY <1>4
<1>5. \/ \E a : inbox = <<a>>
      \/ \E a, b : inbox = <<a, b>>
      \/ \E a, b, c : inbox = <<a, b, c>>
      \/ \E a, b, c, d : inbox = <<a, b, c, d>>
  BY DEF InboxAgrees
<1>6. CASE \E a : inbox = <<a>>
  BY <1>1, <1>6
<1>7. CASE \E a, b : inbox = <<a, b>>
  <2>1. \A i \in 1..1 : i = 1
    OBVIOUS
  <2> QED
    BY <1>2, <1>7, <2>1
<1>8. CASE \E a, b, c : inbox = <<a, b, c>>
  <2>1. \A i \in 1..2 : i = 1 \/ i = 2
    OBVIOUS
  <2> QED
    BY <1>3, <1>8, <2>1
<1>9. CASE \E a, b, c, d : inbox = <<a, b, c, d>>
  <2>1. \A i \in 1..3 : i = 1 \/ i = 2 \/ i = 3
    OBVIOUS
  <2> QED
    BY <1>4, <1>9, <2>1
<1> QED
  BY <1>5, <1>6, <1>7, <1>8, <1>9

(* What is pending after a message was read had been pending before.       *)
LEMMA PendingStays ==
  ASSUME InboxAgrees, inbox # <<>>, inbox' = Tail(inbox), NEW err,
         error' = error \/ (Head(inbox) = Error(error')),
         Pending(err)'
  PROVE  Pending(err)
<1>1. CASE error' = err
  <2>1. error = err \/ inbox[1] = Error(err)
    BY <1>1, RestOfAnswer
  <2> QED
    BY <2>1, RestOfAnswer DEF Pending
<1>2. CASE error' # err
  <2>1. PICK i \in 1..Len(Tail(inbox)) : Tail(inbox)[i] = Error(err)
    BY <1>2 DEF Pending, Error
  <2> QED
    BY <2>1, RestOfAnswer DEF Pending
<1> QED
  BY <1>1, <1>2

(* "T": what the description tells is cached, and the rows that follow it  *)
(* are of its type.                                                        *)
LEMMA DescriptionRead ==
  ASSUME QueryInv, inbox # <<>>, NEW d \in Descriptions, Head(inbox) = d, OnDescription(d),
         inbox' = Tail(inbox),
         UNCHANGED <<callVars, request, config, version, speaks, schemaVars, written>>
  PROVE  QueryInv'
<1>1. /\ error' = error /\ row' = row /\ UNCHANGED <<stateCodec, stateCache>>
      /\ outCodec' = d.out /\ inCodec' = (IF pc = "parse" THEN d.in ELSE inCodec)
      /\ queryCodecCache' = [queryCodecCache EXCEPT
           !["EdgeQL"] = [in |-> d.in, out |-> d.out, writes |-> d.writes]]
  BY DEF OnDescription, StoreKey
<1>2. /\ UNCHANGED <<query, pc, again, refetched, outcome, request, config, version, speaks, schema,
                    changes, written>>
  BY DEF callVars, schemaVars
<1>3. d.type = "T" /\ d.in \in Codec /\ d.out \in Codec /\ d.writes \in BOOLEAN
  BY DEF Descriptions
<1>4. /\ queryCodecCache' \in [Languages -> Entry \cup {NoEntry}]
      /\ queryCodecCache'["SQL"] = queryCodecCache["SQL"]
      /\ Known' = [in |-> d.in, out |-> d.out, writes |-> d.writes]
  BY <1>1, <1>3 DEF QueryInv, TypesAgree, Languages, Entry, Known
<1>5. Known'.in = d.in /\ Known'.writes = d.writes /\ Known' # NoEntry
  <2>1. DOMAIN Known' = {"in", "out", "writes"} /\ DOMAIN NoEntry = {"in", "out"}
    BY <1>4 DEF NoEntry
  <2>2. {"in", "out", "writes"} # {"in", "out"}
    OBVIOUS
  <2> QED
    BY <1>4, <2>1, <2>2
<1>6. /\ pc \in {"parse", "execute"} /\ request = Nothing /\ error = "none"
      /\ \/ pc = "parse" /\ inbox' = <<Sync>>
         \/ \E e \in Errors : pc = "execute" /\ inbox' = <<e, Sync>>
         \/ \E r \in Rows : pc = "execute" /\ r.bytes = d.out /\ inbox' = <<r, Complete, Sync>>
  BY <1>3, NextMessage DEF QueryInv, Sync, Errors, States, Rows, Complete
<1>7. Incoming = d
  BY DEF Incoming
<1>8. Incoming'.type # "T" /\ inbox' # <<>>
  <2>1. /\ Sync.type = "Z"
        /\ \A e \in Errors : e.type = "E"
        /\ \A r \in Rows : r.type = "D"
    BY DEF Sync, Errors, Rows
  <2>2. inbox' # <<>> /\ Head(inbox').type \in {"Z", "E", "D"}
    <3>1. CASE inbox' = <<Sync>>
      BY <2>1, <3>1, Heads
    <3>2. CASE \E e \in Errors : inbox' = <<e, Sync>>
      BY <2>1, <3>2, Heads
    <3>3. CASE \E r \in Rows : inbox' = <<r, Complete, Sync>>
      BY <2>1, <3>3, Heads
    <3> QED
      BY <1>6, <3>1, <3>2, <3>3
  <2> QED
    BY <2>2 DEF Incoming
<1>9. \A err : err # "none" /\ Pending(err)' => Pending(err)
  BY <1>1, PendingStays DEF QueryInv
<1>10. TypesAgree' /\ StateAgrees' /\ RequestAgrees'
  BY <1>1, <1>2, <1>3, <1>4, <1>6 DEF QueryInv, TypesAgree, StateAgrees, StateWellEncoded, RequestAgrees
<1>11. InboxAgrees'
  BY <1>1, <1>2, <1>6 DEF InboxAgrees
<1>12. WritesAgree'
  <2>1. schema.writes = "always" => d.writes
    BY <1>3, <1>7 DEF QueryInv, WritesAgree
  <2>2. \A i \in 1..Len(inbox') : i + 1 \in 1..Len(inbox) /\ inbox'[i] = inbox[i + 1]
    BY RestOfAnswer DEF QueryInv
  <2>3. schema.writes = "always" /\ written # 0 =>
          written = 1 /\ pc = "execute" /\ \A i \in 1..Len(inbox') : inbox'[i].type # "E"
    BY <1>6, <2>2 DEF QueryInv, WritesAgree
  <2> QED
    BY <1>1, <1>2, <1>5, <1>6, <1>8, <2>1, <2>3 DEF WritesAgree
<1>13. VersionsAgree'
  BY <1>2, <1>9 DEF QueryInv, VersionsAgree
<1>14. ArgsAgree'
  <2>1. IF query.args THEN d.in \in 1..schema.in ELSE d.in = 0
    BY <1>3, <1>7 DEF QueryInv, ArgsAgree
  <2>2. Pending("params")' => pc = "execute" /\ query.args /\ d.in > 1 /\ (again => changes > 1)
    BY <1>3, <1>7, <1>9 DEF QueryInv, ArgsAgree
  <2>3. /\ queryCodecCache["SQL"] = NoEntry
        /\ pc = "execute" => IF query.args THEN inCodec \in 1..schema.in ELSE inCodec = 0
        /\ again /\ pc \in {"parse", "execute"} => pc = "execute" /\ inCodec > 1
    BY DEF QueryInv, ArgsAgree
  <2> QED
    BY <1>1, <1>2, <1>4, <1>5, <1>8, <2>1, <2>2, <2>3 DEF ArgsAgree
<1>15. RowsReadable' /\ MismatchesHidden'
  BY <1>1, <1>2 DEF QueryInv, RowsReadable, MismatchesHidden
<1> QED
  BY <1>10, <1>11, <1>12, <1>13, <1>14, <1>15 DEF QueryInv

(* Any other message that is not the end of an answer.                     *)
LEMMA OtherRead ==
  ASSUME QueryInv, inbox # <<>>, inbox' = Tail(inbox), Head(inbox) \notin Descriptions, Head(inbox) # Sync,
         UNCHANGED <<callVars, request, config, version, speaks, schemaVars, written, inCodec, outCodec,
                     queryCodecCache>>,
         stateCodec' \in Codec, stateCache' \in {0, stateCodec'},
         IF Head(inbox) \in Errors THEN error' = Head(inbox).err ELSE error' = error,
         RowsReadable'
  PROVE  QueryInv'
<1>1. /\ UNCHANGED <<query, pc, again, refetched, outcome, request, config, version, speaks, schema,
                    changes, written>>
      /\ Known' = Known
  BY DEF callVars, schemaVars, Known
<1>2. /\ pc \in {"parse", "execute"} /\ request = Nothing /\ error = "none"
      /\ \/ Head(inbox) \in Errors /\ inbox' = <<Sync>>
         \/ Head(inbox) \in States /\ inbox' = <<Error("state"), Sync>>
         \/ pc = "execute" /\ inbox' = <<Complete, Sync>> /\ Head(inbox) \in Rows
         \/ pc = "execute" /\ inbox' = <<Sync>> /\ Head(inbox) = Complete
  BY NextMessage DEF QueryInv
<1>3. Error("state") \in Errors
  BY DEF Error, Errors
<1>4. ASSUME Head(inbox) \in Errors PROVE /\ Head(inbox) = Error(Head(inbox).err)
                                          /\ Head(inbox).err \in {"binary", "state", "params", "conflict", "error"}
                                          /\ Head(inbox).type = "E"
  BY <1>4 DEF Errors, Error
<1>5. \A err : err # "none" /\ Pending(err)' => Pending(err)
  BY <1>4, PendingStays DEF QueryInv
<1>6. Incoming'.type # "T" /\ Incoming.type # "T"
  <2>1. /\ Sync.type = "Z" /\ Complete.type = "C" /\ Error("state").type = "E"
        /\ \A e \in Errors : e.type = "E"
        /\ \A s \in States : s.type = "s"
        /\ \A r \in Rows : r.type = "D"
    BY DEF Sync, Errors, Rows, States, Complete, Error
  <2>2. inbox' # <<>> /\ Head(inbox').type \in {"Z", "E", "C"} /\ Head(inbox).type \in {"E", "s", "D", "C"}
    <3>1. CASE inbox' = <<Sync>>
      BY <1>2, <2>1, <3>1, Heads
    <3>2. CASE inbox' = <<Error("state"), Sync>>
      BY <1>2, <2>1, <3>2, Heads
    <3>3. CASE inbox' = <<Complete, Sync>>
      BY <1>2, <2>1, <3>3, Heads
    <3> QED
      BY <1>2, <3>1, <3>2, <3>3
  <2> QED
    BY <2>2 DEF Incoming
<1>7. TypesAgree' /\ StateAgrees' /\ RequestAgrees'
  <2>1. stateCache' \in Codec
    BY QueryingAssumption DEF QueryingAssumption, Codec
  <2> QED
    BY <1>1, <1>2, <2>1 DEF QueryInv, TypesAgree, StateAgrees, StateWellEncoded, RequestAgrees
<1>8. InboxAgrees'
  <2>1. CASE inbox' = <<Sync>>
    <3>1. error' \in {"none", "binary", "state", "params", "conflict", "error"}
      BY <1>2, <1>4
    <3> QED
      BY <1>1, <1>2, <2>1, <3>1 DEF InboxAgrees
  <2>2. CASE Head(inbox) \in States /\ inbox' = <<Error("state"), Sync>>
    <3>1. Head(inbox) \notin Errors
      BY <2>2 DEF States, Errors
    <3> QED
      BY <1>1, <1>2, <1>3, <2>2, <3>1 DEF InboxAgrees
  <2>3. CASE pc = "execute" /\ inbox' = <<Complete, Sync>> /\ Head(inbox) \in Rows
    <3>1. Head(inbox) \notin Errors
      BY <2>3 DEF Rows, Errors
    <3> QED
      BY <1>1, <1>2, <2>3, <3>1 DEF InboxAgrees
  <2> QED
    BY <1>2, <2>1, <2>2, <2>3
<1>9. WritesAgree'
  <2>1. /\ \A i \in 1..Len(inbox') : i + 1 \in 1..Len(inbox) /\ inbox'[i] = inbox[i + 1]
        /\ 1 \in 1..Len(inbox) /\ inbox[1] = Head(inbox)
    BY RestOfAnswer DEF QueryInv
  <2>2. schema.writes = "always" /\ written # 0 =>
          /\ written = 1 /\ pc = "execute" /\ Head(inbox) \notin Errors
          /\ \A i \in 1..Len(inbox') : inbox'[i].type # "E"
    BY <1>2, <1>4, <2>1 DEF QueryInv, WritesAgree
  <2>3. schema.writes = "always" /\ Known # NoEntry => Known.writes
    BY DEF QueryInv, WritesAgree
  <2> QED
    BY <1>1, <1>2, <1>6, <2>2, <2>3 DEF WritesAgree
<1>10. VersionsAgree'
  BY <1>1, <1>5 DEF QueryInv, VersionsAgree
<1>11. ArgsAgree'
  <2>1. Pending("params")' => /\ pc = "execute" /\ query.args /\ (again => changes > 1)
                              /\ Known # NoEntry /\ Known.in > 1
    BY <1>5, <1>6 DEF QueryInv, ArgsAgree
  <2>2. /\ queryCodecCache["SQL"] = NoEntry
        /\ Known # NoEntry => IF query.args THEN Known.in \in 1..schema.in ELSE Known.in = 0
        /\ pc = "execute" => IF query.args THEN inCodec \in 1..schema.in ELSE inCodec = 0
        /\ again /\ pc \in {"parse", "execute"} => pc = "execute" /\ inCodec > 1
    BY DEF QueryInv, ArgsAgree
  <2>3. pc = "parse" /\ inbox' = <<Sync>> => error' # "none"
    <3>1. <<Error("state"), Sync>> # <<Sync>>
      BY Heads
    <3> QED
      BY <1>2, <1>4, <3>1
  <2> QED
    BY <1>1, <1>6, <2>1, <2>2, <2>3 DEF ArgsAgree
<1>12. MismatchesHidden'
  BY <1>1 DEF QueryInv, MismatchesHidden
<1> QED
  BY <1>7, <1>8, <1>9, <1>10, <1>11, <1>12 DEF QueryInv

(* "Z": the call ends, or goes on with another request or iteration.       *)
LEMMA SyncRead ==
  ASSUME QueryInv, inbox # <<>>, Head(inbox) = Sync, OnSync,
         UNCHANGED <<row, config, version, speaks, schemaVars, written>>
  PROVE  QueryInv'
<1> DEFINE entry == queryCodecCache[query.lang]
<1>1. /\ pc \in {"parse", "execute"} /\ request = Nothing /\ inbox = <<Sync>>
      /\ error \in {"none", "binary", "state", "params", "conflict", "error"}
  <2>1. /\ \A e \in Errors : e.type = "E"
        /\ \A r \in Rows : r.type = "D"
        /\ \A d \in Descriptions : d.type = "T"
        /\ \A s \in States : s.type = "s"
        /\ Sync.type = "Z" /\ Complete.type = "C"
    BY DEF Sync, Errors, Rows, Descriptions, States, Complete
  <2> QED
    BY <2>1, NextMessage DEF QueryInv
<1>2. Incoming.type = "Z"
  BY DEF Incoming, Sync
<1>3. /\ schema.writes = "always" /\ (error # "none" \/ pc = "parse") => written = 0
      /\ schema.writes = "always" /\ written # 0 => written = 1
  BY <1>1 DEF QueryInv, WritesAgree
<1>4. /\ inCodec \in Codec /\ outCodec \in Codec /\ version \in {2, 3} /\ written \in Nat
      /\ query.lang \in Languages
  BY QueryingAssumption DEF QueryInv, TypesAgree, QueryingAssumption, Languages
<1>5. /\ error = "binary" => config.http /\ ~refetched /\ version = speaks
      /\ config.http /\ refetched => version = speaks
  BY <1>1 DEF QueryInv, VersionsAgree, Pending
<1>6. /\ pc = "execute" => IF query.args THEN inCodec \in 1..schema.in ELSE inCodec = 0
      /\ pc = "parse" /\ error = "none" => IF query.args THEN inCodec \in 1..schema.in ELSE inCodec = 0
      /\ again => pc = "execute" /\ inCodec > 1
  BY <1>1 DEF QueryInv, ArgsAgree
<1>7. error = "params" =>
        /\ pc = "execute" /\ query.args /\ Known # NoEntry /\ Known.in > 1 /\ Known.in \in 1..schema.in
        /\ again => changes > 1
  BY <1>2 DEF QueryInv, ArgsAgree, Pending
<1>8. CASE error = "none" /\ pc = "parse"
  <2>1. Send("execute", inCodec, outCodec) /\ UNCHANGED <<again, refetched>>
    BY <1>8 DEF OnSync
  <2> QED
    BY <1>3, <1>4, <1>5, <1>6, <1>8, <2>1, Sent
<1>9. CASE error = "none" /\ pc = "execute"
  <2>1. Finish("ok")
    BY <1>9 DEF OnSync
  <2> QED
    BY <1>3, <1>4, <1>9, <2>1, Ended DEF Finish, codecVars
<1>10. CASE error = "state"
  <2>1. Send(pc, inCodec, outCodec) /\ UNCHANGED <<again, refetched>>
    BY <1>10 DEF OnSync
  <2> QED
    BY <1>1, <1>3, <1>4, <1>5, <1>6, <1>10, <2>1, Sent
<1>11. CASE error = "params" /\ ~again
  <2>1. CASE entry = NoEntry
    <3>1. Finish("TypeError")
      BY <1>11, <2>1 DEF OnSync
    <3>2. query.lang = "SQL"
      BY <1>4, <1>7, <1>11, <2>1 DEF Known, Languages
    <3> QED
      BY <1>3, <1>4, <1>11, <3>1, <3>2, Ended DEF Finish, codecVars
  <2>2. CASE entry # NoEntry
    <3>1. Send("execute", entry.in, entry.out) /\ again' = TRUE /\ UNCHANGED refetched
      BY <1>11, <2>2 DEF OnSync
    <3>2. entry = Known
      BY <1>4, <2>2 DEF QueryInv, ArgsAgree, Known, Languages
    <3>3. entry \in Entry \cup {NoEntry}
      BY <1>4 DEF QueryInv, TypesAgree
    <3>4. entry.in \in Codec /\ entry.out \in Codec
      BY <2>2, <3>3 DEF Entry
    <3> HIDE DEF entry
    <3> QED
      BY <1>3, <1>5, <1>7, <1>11, <3>1, <3>2, <3>4, Sent
  <2> QED
    BY <2>1, <2>2
<1>12. CASE error = "binary" /\ ~refetched
  <2>1. fetch(TRUE)
    BY <1>12 DEF OnSync
  <2> QED
    BY <1>3, <1>5, <1>12, <2>1, Fetched
<1>13. CASE (error = "params" /\ again) \/ error \in {"conflict", "error"}
  <2>1. Retry(error)
    BY <1>13 DEF OnSync
  <2> QED
    BY <1>3, <1>4, <1>7, <1>13, <2>1, Retried
<1> QED
  BY <1>1, <1>5, <1>8, <1>9, <1>10, <1>11, <1>12, <1>13

(* Every message that the client reads keeps the invariant. *)
LEMMA DeliverKept == QueryInv /\ Deliver => QueryInv'
<1> SUFFICES ASSUME QueryInv, Deliver PROVE QueryInv'
  OBVIOUS
<1> DEFINE m == Head(inbox)
<1>1. /\ inbox # <<>> /\ UNCHANGED <<config, version, speaks, schemaVars, written>>
      /\ m.type # "Z" => inbox' = Tail(inbox) /\ UNCHANGED <<callVars, request>>
  BY DEF Deliver, connectVars, fetchVars
<1>2. \/ m.type = "T" /\ OnDescription(m)
      \/ m.type = "s" /\ OnState(m)
      \/ m.type = "D" /\ OnData(m)
      \/ m.type = "E" /\ error' = m.err /\ UNCHANGED <<codecVars, row>>
      \/ m.type = "C" /\ UNCHANGED <<codecVars, error, row>>
      \/ m.type = "Z" /\ OnSync /\ UNCHANGED row
  BY DEF Deliver
<1>3. /\ \/ m \in Errors \/ m \in States \/ m \in Descriptions
         \/ m \in Rows /\ m.bytes = outCodec
         \/ m = Complete \/ m = Sync
      /\ m # Sync => error = "none"
  BY <1>1, NextMessage DEF QueryInv
<1> HIDE DEF m
<1>4. /\ \A e \in Errors : e.type = "E"
      /\ \A r \in Rows : r.type = "D"
      /\ \A d \in Descriptions : d.type = "T"
      /\ \A s \in States : s.type = "s" /\ s.state \in Codec
      /\ Sync.type = "Z" /\ Complete.type = "C"
  BY DEF Sync, Errors, Rows, Descriptions, States, Complete
<1>5. /\ stateCodec \in Codec /\ stateCache \in {0, stateCodec} /\ RowsReadable
  BY DEF QueryInv, TypesAgree, StateAgrees, StateWellEncoded
<1>6. CASE m \in Descriptions
  BY <1>1, <1>2, <1>4, <1>6, DescriptionRead DEF m
<1>7. CASE m \in States
  <2>1. OnState(m)
    BY <1>2, <1>4, <1>7
  <2> QED
    BY <1>1, <1>4, <1>5, <1>7, <2>1, OtherRead DEF OnState, m, RowsReadable
<1>8. CASE m \in Rows /\ m.bytes = outCodec
  <2>1. OnData(m) /\ error = "none"
    BY <1>2, <1>3, <1>4, <1>8
  <2>2. row' = [kind |-> "row", bytes |-> m.bytes, codec |-> outCodec,
                ctx |-> IF codecContext.warm = 0 THEN outCodec ELSE codecContext.warm]
    BY <2>1 DEF OnData
  <2>3. RowsReadable'
    BY <1>8, <2>2 DEF RowsReadable
  <2>4. UNCHANGED <<inCodec, outCodec, stateCodec, stateCache, queryCodecCache, error>>
    BY <2>1 DEF OnData
  <2> QED
    BY <1>1, <1>4, <1>5, <1>8, <2>3, <2>4, OtherRead DEF m
<1>9. CASE m \in Errors
  <2>1. error' = m.err /\ UNCHANGED <<codecVars, row>>
    BY <1>2, <1>4, <1>9
  <2> QED
    BY <1>1, <1>4, <1>5, <1>9, <2>1, OtherRead DEF codecVars, m, RowsReadable
<1>10. CASE m = Complete
  <2>1. UNCHANGED <<codecVars, error, row>>
    BY <1>2, <1>4, <1>10
  <2> QED
    BY <1>1, <1>4, <1>5, <1>10, <2>1, OtherRead DEF codecVars, m, RowsReadable
<1>11. CASE m = Sync
  <2>1. OnSync /\ UNCHANGED row
    BY <1>2, <1>4, <1>11
  <2> QED
    BY <1>1, <1>11, <2>1, SyncRead DEF m
<1> QED
  BY <1>3, <1>6, <1>7, <1>8, <1>9, <1>10, <1>11

----------------------------------------------------------------------------
(* Connections are made and lost, the schema changes. *)

(* Outside of a flow nothing is on its way, and whatever connecting does   *)
(* to the version, the state's codec and the cache does no harm.           *)
LEMMA Connects ==
  ASSUME QueryInv, pc \notin {"idle", "parse", "execute"}, pc' = "connect", version' \in {2, 3},
         UNCHANGED <<query, again, refetched, outcome, schemaVars, written, row, wireVars, config, speaks,
                     inCodec, outCodec>>,
         stateCodec' \in Codec, stateCache' \in {0, stateCodec'},
         queryCodecCache' \in {queryCodecCache, [lang \in Languages |-> NoEntry]}
  PROVE  QueryInv'
<1>1. request = Nothing /\ inbox = <<>> /\ error = "none"
  BY NothingPending DEF QueryInv
<1>2. stateCache' \in Codec
  BY QueryingAssumption DEF QueryingAssumption, Codec
<1>3. UNCHANGED <<request, inbox, error, schema, changes>>
  BY DEF wireVars, schemaVars
<1>4. /\ queryCodecCache' \in [Languages -> Entry \cup {NoEntry}]
      /\ queryCodecCache'["SQL"] = NoEntry /\ Known' \in {Known, NoEntry}
  BY DEF QueryInv, TypesAgree, ArgsAgree, Languages, Known
<1>5. TypesAgree' /\ StateAgrees' /\ RequestAgrees' /\ InboxAgrees'
  BY <1>1, <1>2, <1>3, <1>4 DEF QueryInv, TypesAgree, StateAgrees, StateWellEncoded, RequestAgrees, InboxAgrees
<1>6. \A err : err # "none" => ~Pending(err)'
  BY <1>1, <1>3 DEF Pending
<1>7. Incoming'.type = "none"
  BY <1>1, <1>3 DEF Incoming
<1>8. WritesAgree'
  BY <1>3, <1>4, <1>7 DEF QueryInv, WritesAgree
<1>9. VersionsAgree' /\ ArgsAgree'
  BY <1>3, <1>4, <1>6, <1>7 DEF QueryInv, VersionsAgree, ArgsAgree
<1>10. RowsReadable' /\ MismatchesHidden'
  BY <1>3 DEF QueryInv, RowsReadable, MismatchesHidden
<1> QED
  BY <1>5, <1>8, <1>9, <1>10 DEF QueryInv

(* So does a call of a query method, whatever was cached before it. *)
LEMMA CallKept == QueryInv /\ (\E q \in Queries : Call(q)) => QueryInv'
<1> SUFFICES ASSUME QueryInv, NEW q \in Queries, Call(q) PROVE QueryInv'
  OBVIOUS
<1>1. /\ pc = "idle" /\ pc' = "begin" /\ q.args = query.args /\ q.state = query.state
      /\ query' = q /\ again' = FALSE /\ refetched' = FALSE /\ outcome' = "none"
      /\ written' = 0 /\ row' = Nothing
      /\ UNCHANGED <<config, version, speaks, schema, changes, codecVars, request, inbox, error>>
  BY DEF Call, fetchVars, schemaVars, wireVars
<1>2. request = Nothing /\ inbox = <<>> /\ error = "none"
  BY <1>1, NothingPending DEF QueryInv
<1>3. TypesAgree' /\ StateAgrees' /\ RequestAgrees' /\ InboxAgrees'
  BY <1>1, <1>2 DEF QueryInv, TypesAgree, StateAgrees, StateWellEncoded, RequestAgrees, InboxAgrees, codecVars
<1>4. \A err : err # "none" => ~Pending(err)'
  BY <1>1, <1>2 DEF Pending
<1>5. Incoming'.type = "none"
  BY <1>1, <1>2 DEF Incoming
<1>6. WritesAgree'
  BY <1>1, <1>5 DEF QueryInv, WritesAgree, Known, codecVars
<1>7. VersionsAgree' /\ ArgsAgree'
  BY <1>1, <1>4, <1>5 DEF QueryInv, VersionsAgree, ArgsAgree, Known, codecVars
<1>8. RowsReadable' /\ MismatchesHidden'
  BY <1>1 DEF QueryInv, RowsReadable, MismatchesHidden
<1> QED
  BY <1>3, <1>6, <1>7, <1>8 DEF QueryInv

(* So does acquiring a connection, live or about to be made. *)
LEMMA GetConnectionKept == QueryInv /\ (GetConnection \/ GotConnection) => QueryInv'
<1> SUFFICES ASSUME QueryInv, GetConnection \/ GotConnection PROVE QueryInv'
  OBVIOUS
<1>1. /\ pc \in {"begin", "connect"} /\ UNCHANGED <<schemaVars, written, row>>
  BY DEF GetConnection, GotConnection
<1>2. schema.writes = "always" => written = 0
  BY <1>1 DEF QueryInv, WritesAgree
<1>3. /\ version \in {2, 3} /\ written \in Nat /\ inCodec \in Codec /\ outCodec \in Codec
      /\ changes \in 0..MaxChanges
  BY DEF QueryInv, TypesAgree
<1>4. CASE fetch(FALSE) /\ UNCHANGED <<connectVars, fetchVars>>
  BY <1>1, <1>2, <1>4, Fetched DEF connectVars, fetchVars
<1>5. CASE /\ progress \in Refused /\ Finish(progress) /\ UNCHANGED <<connectVars, fetchVars>>
  <2>1. /\ outcome' # "binary" /\ outcome' # "TypeError" /\ outcome' # "params"
        /\ UNCHANGED <<codecVars, query, again, refetched, version, speaks, config>>
        /\ request' = Nothing /\ inbox' = <<>> /\ error' = "none" /\ pc' = "idle"
    BY <1>5 DEF Finish, Refused, Reconnectable, codecVars, connectVars, fetchVars
  <2> QED
    BY <1>1, <1>2, <1>3, <2>1, Ended
<1>6. CASE GetConnection /\ progress # "connected"
  <2>1. /\ (retryingConnect /\ UNCHANGED fetchVars) \/ getAuthenticatedFetch
        /\ NewConnection /\ pc = "begin" /\ pc' = "connect"
        /\ UNCHANGED <<calls, query, iteration, again, refetched, outcome, wireVars>>
    BY <1>6 DEF GetConnection
  <2>2. version' \in {2, 3} /\ UNCHANGED <<config, speaks>>
    BY <1>3, <2>1 DEF retryingConnect, connectWithTimeout, getAuthenticatedFetch, create, fetchVars
  <2>3. 0 \in Codec
    BY QueryingAssumption DEF QueryingAssumption, Codec
  <2> QED
    BY <1>1, <2>1, <2>2, <2>3, Connects DEF NewConnection
<1> QED
  BY <1>4, <1>5, <1>6 DEF GetConnection, GotConnection

(* So does a handshake, which sets the version and makes the codecs stale. *)
LEMMA HandshakeKept == QueryInv /\ Handshake => QueryInv'
<1> SUFFICES ASSUME QueryInv, Handshake PROVE QueryInv'
  OBVIOUS
<1>1. /\ pc = "connect"
      /\ UNCHANGED <<pc, query, again, refetched, outcome, schemaVars, written, wireVars, row>>
  BY DEF Handshake, callVars
<1>2. /\ version \in {2, 3} /\ stateCodec \in Codec /\ stateCache \in {0, stateCodec}
      /\ schema.state \in Codec
  BY QueryingAssumption DEF QueryInv, TypesAgree, StateAgrees, StateWellEncoded, QueryingAssumption, Versions, Codec
<1>3. CASE /\ \/ Wake \/ OnError \/ OnClose \/ OnTimeout \/ TimePasses \/ OnGarbage
              \/ \E alpn \in BOOLEAN : OnConnect(alpn)
           /\ UNCHANGED <<fetchVars, codecVars>>
  <2>1. version' \in {2, 3} /\ config' = config
    BY <1>2, <1>3 DEF Wake, OnError, OnClose, OnTimeout, TimePasses, OnGarbage, OnConnect, connectWithTimeout,
       Throw, Fail
  <2> QED
    BY <1>1, <1>2, <1>3, <2>1, Connects DEF fetchVars, codecVars
<1>4. ASSUME NEW message \in ServerMessages, OnMessage(message),
             IF message.type = "s" /\ stage = "messages"
             THEN stateCodec' = schema.state /\ stateCache' = 0
             ELSE UNCHANGED <<stateCodec, stateCache>>,
             UNCHANGED <<fetchVars, inCodec, outCodec, queryCodecCache, codecContext>>
      PROVE  QueryInv'
  <2>1. version' \in {2, 3} /\ config' = config
    <3>1. CASE handshake(message)
      BY <1>2, <3>1 DEF handshake, Proceed, Fail, Throw
    <3>2. CASE authSasl(message)
      BY <1>2, <3>2 DEF authSasl, Proceed, Fail, Throw
    <3> QED
      BY <1>4, <3>1, <3>2 DEF OnMessage
  <2> QED
    BY <1>1, <1>2, <1>4, <2>1, Connects DEF fetchVars
<1>5. ASSUME NEW ok \in BOOLEAN, NEW sid \in BOOLEAN, HTTPSCRAMAuth(ok, sid), UNCHANGED codecVars
      PROVE  QueryInv'
  <2>1. version' \in {2, 3} /\ UNCHANGED <<config, speaks>>
    BY <1>2, <1>5 DEF HTTPSCRAMAuth, create, fetchVars
  <2> QED
    BY <1>1, <1>2, <1>5, <2>1, Connects DEF codecVars
<1> QED
  BY <1>3, <1>4, <1>5 DEF Handshake

(* The server's types only become newer, and a query that always wrote     *)
(* does so for ever; a change is seen where the server is asked.           *)
LEMMA SchemaKept == QueryInv /\ SchemaChanges => QueryInv'
<1> SUFFICES ASSUME QueryInv, SchemaChanges PROVE QueryInv'
  OBVIOUS
<1>1. /\ changes < MaxChanges /\ changes' = changes + 1
      /\ pc = "begin" \/ request # Nothing
      /\ UNCHANGED <<config, version, speaks, written, callVars, codecVars, wireVars, row>>
  BY DEF SchemaChanges, connectVars, fetchVars
<1>2. UNCHANGED <<query, pc, again, refetched, outcome, inCodec, outCodec, stateCodec, stateCache,
                  queryCodecCache, request, inbox, error, Known>>
  BY <1>1 DEF callVars, codecVars, wireVars, Known
<1>3. inbox = <<>> /\ error = "none"
  BY <1>1, NothingPending DEF QueryInv, RequestAgrees
<1>4. /\ schema \in [in : Versions, out : Versions, state : Versions, writes : {"always", "never", "since"}]
      /\ schema.in <= changes + 1 /\ schema.out <= changes + 1 /\ schema.state <= changes + 1
      /\ changes \in 0..MaxChanges /\ MaxChanges \in Nat
  BY QueryingAssumption DEF QueryInv, TypesAgree, QueryingAssumption
<1>5. /\ schema' \in [in : Versions, out : Versions, state : Versions, writes : {"always", "never", "since"}]
      /\ schema'.in <= changes' + 1 /\ schema'.out <= changes' + 1 /\ schema'.state <= changes' + 1
      /\ schema'.in >= schema.in /\ schema'.in \in Nat /\ schema.in \in Nat
      /\ schema'.writes = "always" <=> schema.writes = "always"
  <2>1. CASE schema' = [schema EXCEPT !["in"] = @ + 1]
    BY <1>1, <1>4, <2>1 DEF Versions
  <2>2. CASE schema' = [schema EXCEPT !["out"] = @ + 1]
    BY <1>1, <1>4, <2>2 DEF Versions
  <2>3. CASE schema' = [schema EXCEPT !["state"] = @ + 1]
    BY <1>1, <1>4, <2>3 DEF Versions
  <2>4. CASE schema.writes = "never" /\ schema' = [schema EXCEPT !.writes = "since"]
    BY <1>1, <1>4, <2>4 DEF Versions
  <2> QED
    BY <2>1, <2>2, <2>3, <2>4 DEF SchemaChanges
<1>6. TypesAgree'
  BY <1>1, <1>2, <1>4, <1>5 DEF QueryInv, TypesAgree
<1>7. StateAgrees' /\ RequestAgrees' /\ InboxAgrees'
  BY <1>1, <1>2, <1>3 DEF QueryInv, StateAgrees, StateWellEncoded, RequestAgrees, InboxAgrees
<1>8. \A err : err # "none" => ~Pending(err)'
  BY <1>2, <1>3 DEF Pending
<1>9. Incoming'.type = "none"
  BY <1>2, <1>3 DEF Incoming
<1>10. WritesAgree'
  <2>1. /\ schema.writes = "always" /\ Known # NoEntry => Known.writes
        /\ schema.writes = "always" /\ written # 0 => FALSE
    BY <1>1 DEF QueryInv, WritesAgree, RequestAgrees
  <2> QED
    BY <1>1, <1>2, <1>5, <1>9, <2>1 DEF WritesAgree
<1>11. VersionsAgree'
  BY <1>1, <1>2, <1>8 DEF QueryInv, VersionsAgree
<1>12. ArgsAgree'
  <2>1. \A n \in 1..schema.in : n \in 1..schema'.in
    BY <1>5
  <2>2. /\ queryCodecCache["SQL"] = NoEntry
        /\ Known # NoEntry => IF query.args THEN Known.in \in 1..schema.in ELSE Known.in = 0
        /\ pc = "execute" => IF query.args THEN inCodec \in 1..schema.in ELSE inCodec = 0
        /\ again /\ pc \in {"parse", "execute"} => pc = "execute" /\ inCodec > 1
    BY DEF QueryInv, ArgsAgree
  <2>3. inbox # <<Sync>>
    BY <1>3, Heads
  <2> QED
    BY <1>2, <1>8, <1>9, <2>1, <2>2, <2>3 DEF ArgsAgree
<1>13. RowsReadable' /\ MismatchesHidden'
  BY <1>1, <1>2, <1>4 DEF QueryInv, RowsReadable, MismatchesHidden
<1> QED
  BY <1>6, <1>7, <1>10, <1>11, <1>12, <1>13 DEF QueryInv

(* So does a step that concerns the attempt to connect alone. *)
LEMMA Unchanged ==
  ASSUME QueryInv,
         UNCHANGED <<config, version, speaks, schemaVars, written, row, callVars, codecVars, wireVars>>
  PROVE  QueryInv'
<1>1. UNCHANGED <<config, version, speaks, schema, changes, written, row, query, pc, again, refetched, outcome,
                  inCodec, outCodec, stateCodec, stateCache, queryCodecCache, request, inbox, error>>
  BY DEF schemaVars, callVars, codecVars, wireVars
<1>2. TypesAgree' /\ StateAgrees' /\ RequestAgrees' /\ InboxAgrees'
  BY <1>1 DEF QueryInv, TypesAgree, StateAgrees, StateWellEncoded, RequestAgrees, InboxAgrees
<1>3. WritesAgree' /\ VersionsAgree' /\ ArgsAgree'
  BY <1>1 DEF QueryInv, WritesAgree, VersionsAgree, ArgsAgree, Incoming, Known, Pending
<1>4. RowsReadable' /\ MismatchesHidden'
  BY <1>1 DEF QueryInv, RowsReadable, MismatchesHidden
<1> QED
  BY <1>2, <1>3, <1>4 DEF QueryInv

(* A connection that is lost, or an HTTP request that fails after the      *)
(* server ran it or before, is retried for a query known not to write.     *)
LEMMA FailureKept == QueryInv /\ (Lost \/ HttpFails) => QueryInv'
<1> SUFFICES ASSUME QueryInv, Lost \/ HttpFails PROVE QueryInv'
  OBVIOUS
<1>1. version \in {2, 3} /\ written \in Nat
  BY DEF QueryInv, TypesAgree
<1>2. schema.writes = "always" /\ written # 0 => written = 1
  BY DEF QueryInv, WritesAgree
<1>3. CASE Lost
  <2>1. /\ UNCHANGED <<config, version, speaks, schemaVars, written, row>>
        /\ Retry("closed") \/ UNCHANGED <<callVars, codecVars, wireVars>>
    BY <1>3 DEF Lost, fetchVars
  <2> QED
    BY <1>1, <1>2, <2>1, Retried, Unchanged
<1>4. CASE HttpFails
  <2>1. /\ UNCHANGED <<config, version, speaks, schemaVars, row>>
        /\ request # Nothing /\ Retry("http") /\ written' \in {written, written + 1}
    BY <1>4 DEF HttpFails, Takes, connectVars, fetchVars
  <2>2. schema.writes = "always" => written = 0
    BY <2>1 DEF QueryInv, WritesAgree, RequestAgrees
  <2> QED
    BY <1>1, <2>1, <2>2, Retried
<1> QED
  BY <1>3, <1>4

----------------------------------------------------------------------------
(* The theorems. *)

(* Before the first call there is nothing to be at odds with. *)
LEMMA InitQuery == Init => QueryInv
<1> SUFFICES ASSUME Init PROVE QueryInv
  OBVIOUS
<1>1. TypesAgree
  BY QueryingAssumption DEF Init, TypesAgree, QueryingAssumption, Versions, Codec, Languages
<1>2. StateAgrees /\ RequestAgrees /\ InboxAgrees /\ RowsReadable /\ MismatchesHidden
  BY DEF Init, StateAgrees, StateWellEncoded, RequestAgrees, InboxAgrees, RowsReadable, MismatchesHidden
<1>3. Known = NoEntry /\ queryCodecCache["SQL"] = NoEntry /\ Incoming.type = "none" /\ inbox # <<Sync>>
  BY Heads DEF Init, Known, Languages, Incoming
<1>4. \A err : err # "none" => ~Pending(err)
  BY DEF Init, Pending
<1>5. WritesAgree /\ VersionsAgree /\ ArgsAgree
  BY <1>3, <1>4 DEF Init, WritesAgree, VersionsAgree, ArgsAgree
<1> QED
  BY <1>1, <1>2, <1>5 DEF QueryInv

(* Every step preserves the invariant of the queries. *)
LEMMA QueryKept == QueryInv /\ [Next]_vars => QueryInv'
<1>1. QueryInv /\ UNCHANGED vars => QueryInv'
  BY Unchanged DEF vars, connectVars, fetchVars, queryVars
<1> QED
  BY <1>1, CallKept, GetConnectionKept, HandshakeKept, SchemaKept, ServeKept, DeliverKept, FailureKept DEF Next

(* Both invariants hold at any moment. *)
LEMMA AlwaysInv == Spec => [](ConnectInv /\ QueryInv)
<1>1. Init => ConnectInv /\ QueryInv
  BY InitConnect, InitQuery
<1>2. ConnectInv /\ QueryInv /\ [Next]_vars => (ConnectInv /\ QueryInv)'
  BY ConnectKept, QueryKept DEF QueryInv
<1> QED
  BY <1>1, <1>2, PTL DEF Spec

(* Whatever the server says, and however often an attempt is retried, a    *)
(* connection that is handed out is over TLS or HTTP's scheme, and no      *)
(* SCRAM exchange is left half way (connect(), _authSasl()).               *)
THEOREM ServerAlwaysProven == Spec => []ServerProven
<1>1. ConnectInv => ServerProven
  BY DEF ConnectInv
<1> QED
  BY <1>1, AlwaysInv, PTL

(* retryingConnect() leaves no socket open but that of the attempt it      *)
(* fails with.                                                             *)
THEOREM NoSocketLeft == Spec => []RetriesLeaveNoSocket
<1>1. ConnectInv => RetriesLeaveNoSocket
  BY DEF ConnectInv
<1> QED
  BY <1>1, AlwaysInv, PTL

(* Rows are decoded by the codec of the type they were written as, for any *)
(* number of schema changes and whatever was cached (_executeFlow()).      *)
THEOREM RowsAlwaysReadable == Spec => []RowsReadable
<1>1. QueryInv => RowsReadable
  BY DEF QueryInv
<1> QED
  BY <1>1, AlwaysInv, PTL

(* The session's state is sent under the id of the codec that encoded it   *)
(* (_encodeParseParams(), stateCacheRef of baseConn.ts).                   *)
THEOREM StateAlwaysWellEncoded == Spec => []StateWellEncoded
<1>1. QueryInv => StateWellEncoded
  BY DEF QueryInv, StateAgrees, StateWellEncoded
<1> QED
  BY <1>1, AlwaysInv, PTL

(* A query that always wrote takes effect at most once a call, however     *)
(* many attempts retryingFetch() may make.                                 *)
THEOREM AlwaysWritesOnce == Spec => []WritesOnce
<1>1. QueryInv => WritesOnce
  BY DEF QueryInv, WritesAgree, WritesOnce
<1> QED
  BY <1>1, AlwaysInv, PTL

(* A mismatch of types or of versions does not reach the caller, but for   *)
(* SQL queries and for two changes of the schema during one call.          *)
THEOREM MismatchesAlwaysHidden == Spec => []MismatchesHidden
<1>1. QueryInv => MismatchesHidden
  BY DEF QueryInv
<1> QED
  BY <1>1, AlwaysInv, PTL

==============================================================================
