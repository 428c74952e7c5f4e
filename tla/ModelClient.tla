----------------------------- MODULE ModelClient -----------------------------
(***************************************************************************)
(* OpenAICompatibleAdvisor and OpenAIResponsesAdvisor: one request to the  *)
(* model, from the first attempt to an answer or a classified failure.     *)
(* The provider sends its output in pieces, and compatible gateways differ *)
(* in which of the events of the protocol they send; the client puts the   *)
(* answer together and tells the reasoning to the trace as it comes in.    *)
(*                                                                         *)
(* Texts are sequences of pieces <<item, n>>.  An invalid answer to react  *)
(* or final is sent back for repair without limit; the deadline of the     *)
(* analysis (RunLifecycle) is what ends that.                              *)
(***************************************************************************)
EXTENDS Absence, Naturals, Sequences, FiniteSets, SequencesExt, FiniteSetsExt

CONSTANTS
  Protocols,     \* of {"chat", "responses"}
  MaxItems,      \* bound: items of one output
  MaxRepairs     \* bound: repairs of one request

VARIABLES
  request,       \* operation, place and counters of the request
  reply,         \* external: the provider's output and how it streams it
  heard,         \* _StreamedChatResult and the local variables of the loop
  outcome        \* the answer, or the ModelFailure

clientVars == <<request, reply, heard, outcome>>

Operations == {"react", "final", "mcp", "probe"}
AI_PROVIDER_MAX_ATTEMPTS == 3

-----------------------------------------------------------------------------
(* External: the provider.                                                 *)

Kinds == {"reasoning", "message", "call"}
Outputs == UNION {[1 .. n -> Kinds] : n \in 0 .. MaxItems}
Pieces(i) == <<<<i, 1>>, <<i, 2>>>>

\* What a stream shows before it ends: deltas of text, arguments and reasoning,
\* arguments with the first event of a call, an event for a finished item, and
\* the whole output in the last event.
Styles == [text : BOOLEAN, arguments : BOOLEAN, reasoning : SUBSET (1 .. MaxItems),
           early : BOOLEAN, finished : BOOLEAN, whole : BOOLEAN]

OfKind(items, kind) == {i \in DOMAIN items : items[i] = kind}

\* Everything is said at least once, and no part of the reasoning only at the
\* end when another part was streamed.  The chat protocol has deltas only.
Tells(protocol, items, style) ==
  LET spoken == OfKind(items, "reasoning") IN
  /\ style.reasoning \subseteq spoken
  /\ IF protocol = "chat"
     THEN style.text /\ style.arguments /\ style.reasoning = spoken
          /\ ~style.early /\ ~style.finished /\ ~style.whole
     ELSE /\ style.whole \/ (style.text /\ style.finished)
          /\ style.finished \/ style.reasoning \in {{}, spoken}

Event(type, i, text) == [type |-> type, item |-> i, text |-> text]
Deltas(type, i) == [n \in 1 .. 2 |-> Event(type, i, <<<<i, n>>>>)]
When(condition, events) == IF condition THEN events ELSE <<>>

EventsOf(i, kind, style) ==
  CASE kind = "message" -> When(style.text, Deltas("text", i))
    [] kind = "reasoning" ->
         When(i \in style.reasoning, Deltas("reasoning", i))
         \o When(style.finished, <<Event("reasoning done", i, Pieces(i))>>)
    [] kind = "call" ->
         <<Event("call added", i, IF style.early THEN Pieces(i) ELSE <<>>)>>
         \o When(style.arguments, Deltas("arguments", i))
         \o When(style.finished, <<Event("call done", i, Pieces(i))>>)

Events(items, style) ==
  FlattenSeq([i \in DOMAIN items |-> EventsOf(i, items[i], style)])

TextOf(items, kind) ==
  FlattenSeq([i \in DOMAIN items |-> IF items[i] = kind THEN Pieces(i) ELSE <<>>])
CallsOf(items) == [i \in OfKind(items, "call") |-> Pieces(i)]

\* What it refuses a request with, or tells in the middle of a stream.
Error(status, code) == [status |-> status, code |-> code, network |-> FALSE]
NoError == Error("none", "none")
Errors ==
  {Error(status, "none") : status \in {"none", "400", "401", "403", "408", "429", "500"}}
  \cup {Error("401", "authentication"), Error("403", "quota"), Error("429", "quota"),
        Error("none", "quota"), Error("400", "configuration"), Error("none", "configuration")}
  \cup {[NoError EXCEPT !.network = TRUE]}

\* "Confirmed" authentication, permission, quota or configuration errors.
Confirmed(e) == e.code # "none" \/ e.status \in {"401", "403"}

-----------------------------------------------------------------------------
(* Classification.                                                         *)

\* _model_failure_from_provider_error: the first rule that applies.
Rules(e) ==
  <<<<e.code = "authentication", "AUTHENTICATION">>,
    <<e.code = "quota", "QUOTA_EXHAUSTED">>,
    <<e.status = "401", "AUTHENTICATION">>,
    <<e.status = "403", "AUTHORIZATION">>,
    <<e.code = "configuration", "CONFIGURATION">>,
    <<e.status = "408", "TIMEOUT">>,
    <<e.status = "429", "RATE_LIMITED_OR_QUOTA_UNKNOWN">>,
    <<e.status = "500", "PROVIDER_UNAVAILABLE">>,
    <<e.network, "CONNECTION">>,
    <<TRUE, "INVALID_RESPONSE">>>>
Category(e) == Rules(e)[Min({k \in DOMAIN Rules(e) : Rules(e)[k][1]})][2]

Pausing == {"AUTHENTICATION", "AUTHORIZATION", "QUOTA_EXHAUSTED", "CONFIGURATION"}
Retryable == {"TIMEOUT", "RATE_LIMITED_OR_QUOTA_UNKNOWN", "PROVIDER_UNAVAILABLE", "CONNECTION"}

ModelFailure(category) == [category |-> category, pauses |-> category \in Pausing]

-----------------------------------------------------------------------------
(* Requests.                                                               *)

Silence == [content |-> <<>>, told |-> <<>>, spoken |-> {}, calls |-> <<>>, any |-> FALSE]
NoReply == [items |-> <<>>, style |-> None, next |-> 1]

ClientInit ==
  /\ \E op \in Operations, protocol \in Protocols :
       request = [op |-> op, protocol |-> protocol, at |-> "start", attempts |-> 0,
                  repairs |-> 0, error |-> NoError]
  /\ reply = NoReply /\ heard = Silence /\ outcome = None

MoveTo(place) == request' = [request EXCEPT !.at = place]

\* The operation for the embedded tool loop drops the classification.
FailWith(failure, error) ==
  /\ request' = [request EXCEPT !.at = "failed", !.error = error]
  /\ outcome' = IF request.op = "mcp" THEN None ELSE failure
  /\ reply' = NoReply /\ heard' = Silence

\* probe, advise and decide_investigation look for the key and the model first.
Configured(yes) ==
  /\ request.at = "start"
  /\ IF yes THEN MoveTo("send") /\ UNCHANGED <<reply, heard, outcome>>
     ELSE FailWith(ModelFailure("CONFIGURATION"), NoError)

\* _request_provider: only the attempt to open the stream is repeated.
MaxAttempts == IF request.op = "probe" THEN 1 ELSE AI_PROVIDER_MAX_ATTEMPTS

Refuse(error) ==
  /\ request.at = "send"
  /\ IF Category(error) \in Retryable /\ request.attempts + 1 < MaxAttempts
     THEN /\ request' = [request EXCEPT !.attempts = @ + 1]
          /\ UNCHANGED <<reply, heard, outcome>>
     ELSE FailWith(ModelFailure(Category(error)), error)

Open(items, style) ==
  /\ request.at = "send" /\ Tells(request.protocol, items, style)
  /\ reply' = [items |-> items, style |-> style, next |-> 1]
  /\ heard' = Silence
  /\ MoveTo("stream")
  /\ UNCHANGED outcome

-----------------------------------------------------------------------------
(* _stream_chat_completion of the two protocols.                           *)

Tell(h, text) == [h EXCEPT !.told = Append(@, text)]
CallOf(h, i) == IF i \in DOMAIN h.calls THEN h.calls[i] ELSE <<>>
PutCall(h, i, arguments) ==
  [h EXCEPT !.calls = [k \in DOMAIN @ \cup {i} |-> IF k = i THEN arguments ELSE @[k]]]

\* Mutant: a finished item is told whether or not it was streamed.
HearDoneAgain(h, e) == Tell(h, e.text)
\* The finished item tells reasoning that had no deltas.
HearDone(h, e) == IF e.item \in h.spoken THEN h ELSE Tell(h, e.text)

\* The finished call replaces what its events had added up to.
Hear(h, e) ==
  CASE e.type = "text" -> [h EXCEPT !.content = @ \o e.text]
    [] e.type = "reasoning" -> [Tell(h, e.text) EXCEPT !.spoken = @ \cup {e.item}]
    [] e.type = "reasoning done" -> HearDone(h, e)
    [] e.type = "call added" ->
         IF CallOf(h, e.item) = <<>> THEN PutCall(h, e.item, e.text) ELSE h
    [] e.type = "arguments" -> PutCall(h, e.item, CallOf(h, e.item) \o e.text)
    [] e.type = "call done" -> PutCall(h, e.item, e.text)

Sent == Events(reply.items, reply.style)

Receive ==
  /\ request.at = "stream" /\ reply.next <= Len(Sent)
  /\ heard' = [Hear(heard, Sent[reply.next]) EXCEPT !.any = TRUE]
  /\ reply' = [reply EXCEPT !.next = @ + 1]
  /\ UNCHANGED <<request, outcome>>

\* The stream breaks or tells an error.  The client of the Responses protocol
\* raises an error of its own for that, without the provider's code.
Break(error) ==
  /\ request.at = "stream"
  /\ FailWith(IF request.protocol = "responses" /\ ~error.network
              THEN ModelFailure("INVALID_RESPONSE") ELSE ModelFailure(Category(error)), error)

\* The last event completes what was not streamed.
Merged(h) ==
  LET items == reply.items
      reasoning == TextOf(items, "reasoning")
      told == IF h.told = <<>> /\ reasoning # <<>> THEN Tell(h, reasoning) ELSE h
  IN [told EXCEPT
       !.content = IF @ = <<>> THEN TextOf(items, "message") ELSE @,
       !.calls = IF CallsOf(items) # <<>> THEN CallsOf(items) ELSE @,
       !.any = @ \/ items # <<>>]

End ==
  /\ request.at = "stream" /\ reply.next > Len(Sent)
  /\ heard' = IF reply.style.whole THEN Merged(heard) ELSE heard
  /\ MoveTo("check")
  /\ UNCHANGED <<reply, outcome>>

-----------------------------------------------------------------------------
(* _complete, advise, decide_investigation, request_mcp_tool_call, probe.  *)

Collected == [content |-> heard.content, calls |-> heard.calls,
              reasoning |-> FlattenSeq(heard.told)]

Usable ==
  CASE request.op = "probe" -> heard.any
    [] request.op = "mcp" ->
         heard.any /\ (IF heard.calls = <<>> THEN heard.content # <<>>
                       ELSE Cardinality(DOMAIN heard.calls) = 1)
    [] OTHER -> heard.any /\ heard.content # <<>>

Accept ==
  /\ request.at = "check" /\ Usable
  /\ outcome' = Collected
  /\ MoveTo("answered")
  /\ UNCHANGED <<reply, heard>>

\* Nothing usable, or, for the tool loop, not one valid call.
Reject ==
  /\ request.at = "check" /\ (~Usable \/ request.op = "mcp")
  /\ FailWith(ModelFailure("INVALID_RESPONSE"), NoError)

\* A text that is not the JSON asked for goes back to the model.
Repair ==
  /\ request.at = "check" /\ Usable /\ request.op \in {"react", "final"}
  /\ request.repairs < MaxRepairs
  /\ request' = [request EXCEPT !.at = "send", !.attempts = 0, !.repairs = @ + 1]
  /\ heard' = Silence /\ reply' = NoReply
  /\ UNCHANGED outcome

ClientNext ==
  \/ \E yes \in BOOLEAN : Configured(yes)
  \/ \E error \in Errors : Refuse(error) \/ Break(error)
  \/ \E items \in Outputs, style \in Styles : Open(items, style)
  \/ Receive \/ End \/ Accept \/ Reject \/ Repair

ClientSpec == ClientInit /\ [][ClientNext]_clientVars

-----------------------------------------------------------------------------
(* Properties.                                                             *)

ClientTypeOK ==
  /\ request.op \in Operations /\ request.protocol \in Protocols
  /\ request.at \in {"start", "send", "stream", "check", "answered", "failed"}
  /\ request.attempts < AI_PROVIDER_MAX_ATTEMPTS /\ request.repairs \in 0 .. MaxRepairs
  /\ reply.items \in Outputs

\* No passing trouble pauses the dispatch: a failure that does is a confirmed
\* refusal, or the model was not configured when the request was made.
PausesAreExplained ==
  request.at = "failed" /\ outcome # None /\ outcome.pauses =>
    \/ Confirmed(request.error)
    \/ request.error = NoError /\ outcome.category = "CONFIGURATION"

\* Whichever of its events a provider sends, the answer is its output: all of
\* the text and the calls, and the trace was told each part of the reasoning
\* once and in order.  (_stream_chat_completion, _aggregate_responses_response)
AnswerIsTheOutput ==
  request.at = "answered" =>
    /\ outcome.content = TextOf(reply.items, "message")
    /\ outcome.calls = CallsOf(reply.items)
    /\ outcome.reasoning = TextOf(reply.items, "reasoning")

\* README.md:34: confirmed authentication, permission, quota and configuration
\* errors pause the dispatch, in the requests of the main agent.
ConfirmedRefusalsPause ==
  request.at = "failed" /\ request.op # "mcp" /\ Confirmed(request.error) =>
    outcome.pauses
=============================================================================
