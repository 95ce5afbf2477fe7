---------------------------------- MODULE Rag ----------------------------------
(***************************************************************************)
(* Conversations with the server's AI extension: packages/ai, and the      *)
(* model that packages/vercel-ai-provider gives to the Vercel SDK.  The    *)
(* text of a message is a sequence of pieces, arguments of a tool are one. *)
(***************************************************************************)
EXTENDS Integers, Sequences, SequencesExt

CONSTANTS
  Thrown, Null,
  MaxBlocks, MaxPieces     \* bounds: blocks of an answer, pieces of a block by its kind

----------------------------------------------------------------------------
(* Requests.  A message of the SDK's prompt has a role and a content: of a *)
(* system message the text; of the others parts [type, of], where type is  *)
(* "text" (of: a piece), "image", "call" (of: the id of a tool call) or    *)
(* "result" (of: the id it answers).  A message of the server's has the    *)
(* text, the ids of the calls it makes and the id of the one it answers.   *)
Message(role, text, calls, answers) == [role |-> role, text |-> text, calls |-> calls, answers |-> answers]
OfType(seq, type) == FlattenSeq([i \in DOMAIN seq |-> IF seq[i].type = type THEN <<seq[i]>> ELSE <<>>])
Parts(m, type) == OfType(m.content, type)
Of(parts) == [i \in DOMAIN parts |-> parts[i].of]

Converted(m) ==
  CASE m.role = "system" -> <<Message("system", m.content, <<>>, Null)>>
    [] m.role = "user" -> <<Message("user", Of(m.content), <<>>, Null)>>
    [] m.role = "assistant" -> <<Message("assistant", Of(Parts(m, "text")), Of(Parts(m, "call")), Null)>>
    [] m.role = "tool" -> [i \in DOMAIN m.content |-> Message("tool", <<>>, <<>>, m.content[i].of)]

convertToGelMessages(prompt) ==
  IF \E i \in DOMAIN prompt : prompt[i].role = "user" /\ Parts(prompt[i], "image") # <<>>
  THEN Thrown
  ELSE FlattenSeq([i \in DOMAIN prompt |-> Converted(prompt[i])])

(* The settings' prompt: whether it has an id or a name, and its custom    *)
(* messages, Null if there are none.  Also in fetchRag().                  *)
Given(setting) == IF setting.custom = Null THEN <<>> ELSE setting.custom
buildPrompt(setting, messages) ==
  [default |-> setting.custom = Null /\ ~setting.named, custom |-> Given(setting) \o messages]

(* The first piece of the last message of the user. *)
buildQuery(messages) ==
  LET n == SelectLastInSeq(messages, LAMBDA m : m.role = "user")
  IN IF n = 0 \/ messages[n].text = <<>> THEN Thrown ELSE messages[n].text[1]

(* The maker of the model decides on the form of tools and of the choice   *)
(* among them: "anthropic", "openai" or "other".  A tool is a "function"   *)
(* or "provider-defined"; choice is Null, a mode, or [tool |-> its name].  *)
Functions(tools) == OfType(tools, "function")
Named(tools, name) == FlattenSeq([i \in DOMAIN tools |-> IF tools[i].name = name THEN <<tools[i]>> ELSE <<>>])
prepareTools(tools, choice, maker) ==
  LET fs == Functions(tools)
      Give(some, how) == [tools |-> some, choice |-> how, warned |-> Len(tools) - Len(fs)]
  IN CASE tools = <<>> -> [tools |-> Null, choice |-> Null, warned |-> 0]
       [] tools # <<>> /\ choice = Null -> Give(fs, Null)
       [] tools # <<>> /\ choice # Null ->
            CASE choice.mode = "auto" -> Give(fs, "auto")
              [] choice.mode = "none" -> IF maker = "anthropic" THEN Give(Null, Null) ELSE Give(fs, "none")
              [] choice.mode = "required" -> Give(fs, IF maker = "openai" THEN "required" ELSE "any")
              [] choice.mode = "tool" ->
                   IF maker = "other" THEN Give(Named(fs, choice.name), "any")
                   ELSE Give(fs, choice.name)

(* getArgs() and the body of a request of doGenerate() and doStream(). *)
Request(r) ==
  LET messages == convertToGelMessages(r.prompt) IN
  IF messages = Thrown \/ (messages # Thrown /\ buildQuery(messages) = Thrown) THEN Thrown
  ELSE [prompt |-> buildPrompt(r.setting, messages), query |-> buildQuery(messages),
        offer |-> prepareTools(r.tools, r.choice, r.maker)]

(* The model may always answer as it was told to: a function it must call  *)
(* is the only one it can choose, or is on offer; what is dropped is       *)
(* warned of.  The conversation follows the custom messages and is kept,   *)
(* every call and every result; there is a prompt to begin it.             *)
Texts(messages) == FlattenSeq([i \in DOMAIN messages |-> messages[i].text])
Called(messages) == FlattenSeq([i \in DOMAIN messages |-> messages[i].calls])
Answered(messages) ==
  FlattenSeq([i \in DOMAIN messages |-> IF messages[i].answers = Null THEN <<>> ELSE <<messages[i].answers>>])
Ids(prompt, type) ==
  FlattenSeq([i \in DOMAIN prompt |-> IF prompt[i].role = "system" THEN <<>> ELSE Of(Parts(prompt[i], type))])
RequestFits(r) ==
  LET q == Request(r)
      fs == Functions(r.tools)
      sent == q.prompt.custom
      own == SubSeq(sent, Len(Given(r.setting)) + 1, Len(sent))
  IN q # Thrown =>
       /\ fs # <<>> /\ r.choice # Null =>
            CASE r.choice.mode = "tool" ->
                   (\E f \in ToSet(fs) : f.name = r.choice.name) =>
                     \/ q.offer.choice = r.choice.name /\ fs = q.offer.tools
                     \/ q.offer.choice = "any" /\ {f.name : f \in ToSet(q.offer.tools)} = {r.choice.name}
              [] r.choice.mode = "none" -> q.offer.tools = Null \/ q.offer.choice = "none"
              [] r.choice.mode = "required" -> q.offer.tools = fs /\ q.offer.choice \in {"any", "required"}
              [] r.choice.mode = "auto" -> q.offer.tools = fs /\ q.offer.choice \in {"auto", Null}
       /\ q.offer.warned = Len(r.tools) - Len(fs)
       /\ sent = Given(r.setting) \o own
       /\ Called(own) = Ids(r.prompt, "call") /\ Answered(own) = Ids(r.prompt, "result")
       /\ q.prompt.default \/ r.setting.named \/ r.setting.custom # Null
       /\ q.query \in ToSet(Texts(own))

----------------------------------------------------------------------------
(* The stream of an answer.  doStream() turns the events of the server     *)
(* into parts for the SDK; t is its state:                                 *)
(*   blocks   toolCallContentBlocks: arguments so far of each open call    *)
(*   usage    tokens of the prompt and of the completion, Null for NaN     *)
(*   finish   the reason to stop, as the SDK calls it                      *)
(*   out      what was enqueued; broken: transform() threw                 *)
NoStream == [blocks |-> <<>>, usage |-> <<Null, Null>>, finish |-> "unknown", out |-> <<>>, broken |-> FALSE]
Enqueue(t, part) == [t EXCEPT !.out = Append(@, part)]
Without(f, i) == [j \in DOMAIN f \ {i} |-> f[j]]

mapGelStopReason(reason) ==
  CASE reason \in {"stop", "end_turn", "stop_sequence"} -> "stop"
    [] reason \in {"length", "model_length", "max_tokens"} -> "length"
    [] reason \in {"tool_calls", "tool_use", "function_call"} -> "tool-calls"
    [] OTHER -> "unknown"

OnMessageStart(t, e) == Enqueue(IF e.usage = Null THEN t ELSE [t EXCEPT !.usage = e.usage], [type |-> "response-metadata"])
OnBlockStart(t, e) ==
  IF e.block = "text" THEN t
  ELSE [t EXCEPT !.blocks = [i \in DOMAIN @ \cup {e.index} |-> IF i = e.index THEN e.args ELSE @[i]]]
OnBlockStop(t, e) ==
  IF e.index \notin DOMAIN t.blocks THEN t
  ELSE Enqueue([t EXCEPT !.blocks = Without(@, e.index)], [type |-> "tool-call", index |-> e.index, args |-> t.blocks[e.index]])
OnTextDelta(t, e) == Enqueue(t, [type |-> "text-delta", piece |-> e.piece])
(* Mutant: the last piece replaces those before it. *)
OnlyLastDelta(t, e) ==
  IF e.index \notin DOMAIN t.blocks THEN [t EXCEPT !.broken = TRUE]
  ELSE Enqueue([t EXCEPT !.blocks[e.index] = <<e.piece>>], [type |-> "tool-call-delta", index |-> e.index, piece |-> e.piece])
OnToolCallDelta(t, e) ==
  IF e.index \notin DOMAIN t.blocks THEN [t EXCEPT !.broken = TRUE]
  ELSE Enqueue([t EXCEPT !.blocks[e.index] = Append(@, e.piece)], [type |-> "tool-call-delta", index |-> e.index, piece |-> e.piece])
OnMessageDelta(t, e) ==
  [t EXCEPT !.finish = mapGelStopReason(e.reason), !.usage[2] = IF e.usage = Null THEN @ ELSE e.usage]
OnMessageStop(t) == Enqueue(t, [type |-> "finish", reason |-> t.finish, usage |-> t.usage])

(* "garbled" is an event that is not of the schema. *)
transform(t, e) ==
  IF t.broken THEN t
  ELSE CASE e.type = "message_start" -> OnMessageStart(t, e)
         [] e.type = "content_block_start" -> OnBlockStart(t, e)
         [] e.type = "content_block_stop" -> OnBlockStop(t, e)
         [] e.type = "text_delta" -> OnTextDelta(t, e)
         [] e.type = "tool_call_delta" -> OnToolCallDelta(t, e)
         [] e.type = "message_delta" -> OnMessageDelta(t, e)
         [] e.type = "message_stop" -> OnMessageStop(t)
         [] e.type \in {"error", "garbled"} -> Enqueue(t, [type |-> "error"])

(* streamRag(): the messages yielded so far, and how the loop stands.      *)
NoIteration == [yielded |-> <<>>, at |-> "reading"]
extract(i, e) ==
  CASE i.at # "reading" -> i
    [] i.at = "reading" /\ e.type = "garbled" -> [i EXCEPT !.at = "failed"]
    [] i.at = "reading" /\ e.type # "garbled" ->
         [yielded |-> Append(i.yielded, e), at |-> IF e.type = "message_stop" THEN "done" ELSE "reading"]

----------------------------------------------------------------------------
(* The server: blocks in order, their pieces interleaved, one event        *)
(* garbled on the way, an error instead of the end; the stream may break   *)
(* off at any time.                                                        *)
(*   open    the blocks it has begun and not ended: arguments sent so far  *)
(*           of a call, <<>> of a text                                     *)
(*   calls   the calls it has ended; sent, all its events                  *)
InitRag == [stage |-> "begin", open |-> <<>>, kinds |-> <<>>, calls |-> <<>>, sent |-> <<>>,
            tokens |-> <<Null, Null>>, reason |-> "unknown", hurt |-> FALSE, sdk |-> NoStream, own |-> NoIteration]

Send(s, e) ==
  LET garbled == [type |-> "garbled"]
      Sent(got) == [s EXCEPT !.sent = Append(@, e), !.sdk = transform(@, got), !.own = extract(@, got), !.hurt = s.hurt \/ got # e]
  IN IF s.hurt THEN {Sent(e)} ELSE {Sent(e), Sent(garbled)}

Start(s) ==
  UNION {Send([s EXCEPT !.stage = "body", !.tokens = IF u = Null THEN @ ELSE u], [type |-> "message_start", usage |-> u]) :
           u \in {Null, <<9, 0>>}}
Begin(s, kind, args) ==
  LET n == Len(s.kinds) + 1 IN
  Send([s EXCEPT !.kinds = Append(@, kind), !.open = [i \in DOMAIN @ \cup {n} |-> IF i = n THEN args ELSE @[i]]],
       [type |-> "content_block_start", index |-> n, block |-> kind, args |-> args])
BlockStart(s) == Begin(s, "text", <<>>) \cup Begin(s, "tool_use", <<>>) \cup Begin(s, "tool_use", <<"first">>)
Delta(s, n) ==
  LET piece == Len(s.open[n]) IN
  IF s.kinds[n] = "text" THEN Send([s EXCEPT !.open[n] = Append(@, "text")], [type |-> "text_delta", index |-> n, piece |-> "text"])
  ELSE Send([s EXCEPT !.open[n] = Append(@, <<n, piece>>)],
            [type |-> "tool_call_delta", index |-> n, piece |-> <<n, piece>>])
BlockStop(s, n) ==
  Send([s EXCEPT !.open = Without(@, n), !.calls = IF s.kinds[n] = "text" THEN @ ELSE Append(@, <<n, s.open[n]>>)],
       [type |-> "content_block_stop", index |-> n])
Finish(s, r, u) ==
  Send([s EXCEPT !.stage = "finishing", !.reason = r, !.tokens[2] = IF u = Null THEN @ ELSE u],
       [type |-> "message_delta", reason |-> r, usage |-> u])
Finishing(s) == Finish(s, "tool_use", 4) \cup Finish(s, "max_tokens", Null)
Stop(s) == Send([s EXCEPT !.stage = "end"], [type |-> "message_stop"])
Fault(s) == {x \in Send([s EXCEPT !.stage = "end"], [type |-> "error"]) : ~x.hurt}

RagStep(s) ==
  CASE s.stage = "begin" -> Start(s)
    [] s.stage = "body" ->
         (IF Len(s.kinds) < MaxBlocks THEN BlockStart(s) ELSE {})
         \cup (UNION {BlockStop(s, n) \cup (IF Len(s.open[n]) < MaxPieces[s.kinds[n]] THEN Delta(s, n) ELSE {}) : n \in DOMAIN s.open})
         \cup (IF DOMAIN s.open = {} THEN Finishing(s) ELSE {})
         \cup Fault(s)
    [] s.stage = "finishing" -> Stop(s)
    [] s.stage = "end" -> {}

(* What the SDK is given, as long as nothing was garbled: every call the   *)
(* server has ended, once, with all its arguments, in that order; and at   *)
(* the end, and only then, why and at what cost.  A garbled event is never *)
(* passed over in silence, and an iteration ends where the message ends.   *)
StreamFits(s) ==
  LET told(type) == OfType(s.sdk.out, type)
      calls == told("tool-call")
      finish == told("finish")
  IN /\ ~s.hurt => /\ [i \in DOMAIN calls |-> <<calls[i].index, calls[i].args>>] = s.calls
                   /\ ~s.sdk.broken
                   /\ s.own.yielded = s.sent
                   /\ finish = IF s.stage = "end" /\ Last(s.sent).type = "message_stop"
                               THEN <<[type |-> "finish", reason |-> mapGelStopReason(s.reason), usage |-> s.tokens]>>
                               ELSE <<>>
     /\ s.hurt => told("error") # <<>> /\ s.own.at # "reading"
     /\ s.own.yielded = SubSeq(s.sent, 1, Len(s.own.yielded))
     /\ s.own.at = "done" => Last(s.own.yielded).type = "message_stop"
================================================================================
