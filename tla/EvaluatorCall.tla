---------------------------- MODULE EvaluatorCall ----------------------------
(***************************************************************************)
(* One judgment: exactly one physical call to a provider, what is recorded *)
(* before it, and how everything that can come back is classified.         *)
(*                                                                         *)
(* Source: apps/audit/src/execution/execute.ts (executeVerdict, execute-   *)
(* TypedQuestion, callProviderOnce), failure.ts, anthropic-messages.ts,    *)
(* openai-chat.ts, protocols/verdict-protocols.ts, typed-question.ts, and  *)
(* beforeDispatch of apps/api/src/binary-calibration/provider.ts.          *)
(*                                                                         *)
(* A response is known by what the classification looks at: its status,    *)
(* whether its body is whole and JSON, how the model stopped, the text and *)
(* the tool calls it carried, and whether the fields are a verdict.        *)
(***************************************************************************)
EXTENDS Naturals, FiniteSets

CONSTANTS Protocols, MaxFaults           \* protocols in use; a bound

Structured == {"anthropic.structured-output/v1", "openai.structured-output/v1"}
Forced == {"anthropic.forced-tool/v1", "openai.forced-function/v1"}
Prompted == {"prompted-json/v1 (anthropic)", "prompted-json/v1 (openai)"}
Typed == {"typed-question/v1"}
Anthropic == {"anthropic.structured-output/v1", "anthropic.forced-tool/v1", "prompted-json/v1 (anthropic)"}

ProtocolsAssumption == Protocols \subseteq Structured \cup Forced \cup Prompted \cup Typed
BoundsAssumption == MaxFaults \in Nat

None == "none"
Statuses == {200, 307, 400, 401, 402, 403, 408, 429, 500, 504}
Bodies == {"over the limit", "not json", "json"}
Stops == {"normal", "max_tokens", "refusal"}
Texts == {"none", "one object", "something else"}
Fields == {"valid", "other casing", "invalid"}

(* The tool calls of a message: each to the verdict tool or to another, with *)
(* arguments that are one object or not.                                     *)
ToolCalls == {<<>>, <<"verdict">>, <<"verdict, not an object">>, <<"other">>, <<"verdict", "verdict">>}

Kinds == {"provider_rejected_request", "provider_unavailable", "provider_authentication", "provider_rate_limit",
          "provider_timeout", "provider_transport", "provider_protocol", "invalid_evaluator_output", "internal"}

VARIABLES
  protocol, pc,
  started,   \* the call-start record is durable
  left,      \* the request has left
  aborted,   \* the timer has fired
  response,  \* what has arrived of the response
  outcome,   \* what the executor reports
  faults

vars == <<protocol, pc, started, left, aborted, response, outcome, faults>>

Blank == [stop |-> "normal", text |-> "none", calls |-> <<>>, fields |-> "invalid"]
Nothing == [status |-> 0, body |-> None, read |-> None, message |-> Blank, usage |-> FALSE]
Unknown == [state |-> None, kind |-> None, physical |-> FALSE, usage |-> FALSE]

Init ==
  /\ protocol \in Protocols /\ pc = "prepare" /\ started = FALSE /\ left = FALSE /\ aborted = FALSE
  /\ response = Nothing /\ outcome = Unknown /\ faults = 0

-----------------------------------------------------------------------------
Fail(kind, physical, usage) ==
  /\ pc' = "done"
  /\ outcome' = [state |-> "failure", kind |-> kind, physical |-> physical, usage |-> usage]

(* Everything that can be refused is refused before the dispatch hook:     *)
(* the binding, the endpoint, the question, the trace, the credential.     *)
StraightAway == "send"                   \* Faulty variant: the hook does not run
Prepared == "hook"
Prepare ==
  /\ pc = "prepare"
  /\ \/ pc' = Prepared /\ UNCHANGED outcome
     \/ \E kind \in {"internal", "provider_unavailable"} : Fail(kind, FALSE, FALSE)
  /\ UNCHANGED <<protocol, started, left, aborted, response, faults>>

(* beforeDispatch writes the record; if it throws nothing is sent and its  *)
(* error is passed on, although the record may have been committed.        *)
Hook ==
  /\ pc = "hook"
  /\ \/ started' = TRUE /\ pc' = "send" /\ UNCHANGED <<outcome, faults>>
     \/ /\ faults < MaxFaults /\ faults' = faults + 1
        /\ started' \in BOOLEAN /\ pc' = "done"
        /\ outcome' = [Unknown EXCEPT !.state = "hook failed"]
  /\ UNCHANGED <<protocol, left, aborted, response>>

(* fetch: the request leaves, or the runtime refuses it. *)
Send ==
  /\ pc = "send" /\ left' \in BOOLEAN /\ pc' = "awaiting"
  /\ UNCHANGED <<protocol, started, aborted, response, outcome, faults>>

Timed == pc \in {"awaiting", "reading"}
Abort ==
  /\ Timed /\ ~aborted /\ aborted' = TRUE
  /\ UNCHANGED <<protocol, pc, started, left, response, outcome, faults>>

InTransit == IF aborted THEN "provider_timeout" ELSE "provider_transport"
FailInTransit ==
  /\ pc \in {"awaiting", "reading"}
  /\ Fail(InTransit, TRUE, FALSE)
  /\ UNCHANGED <<protocol, started, left, aborted, response, faults>>

Headers ==
  /\ pc = "awaiting" /\ left /\ ~aborted
  /\ \E s \in Statuses : response' = [response EXCEPT !.status = s]
  /\ pc' = "reading"
  /\ UNCHANGED <<protocol, started, left, aborted, outcome, faults>>

Body ==
  /\ pc = "reading" /\ ~aborted
  /\ \E b \in Bodies : response' = [response EXCEPT !.body = b]
  /\ pc' = "classify"
  /\ UNCHANGED <<protocol, started, left, aborted, outcome, faults>>

-----------------------------------------------------------------------------
(* failureKindForStatus. *)
FailureKindForStatus(status) ==
  CASE status \in {401, 402, 403} -> "provider_authentication"
    [] status = 429 -> "provider_rate_limit"
    [] status \in {408, 504} -> "provider_timeout"
    [] status \in (400..499) \ {401, 402, 403, 408, 429} -> "provider_rejected_request"
    [] status \in (500..599) \ {504} -> "provider_unavailable"
    [] OTHER -> "provider_protocol"

Classify ==
  /\ pc = "classify"
  /\ IF response.body = "over the limit" THEN Fail("provider_protocol", TRUE, FALSE)
     ELSE IF response.status # 200 THEN Fail(FailureKindForStatus(response.status), TRUE, FALSE)
     ELSE IF response.body = "not json" THEN Fail("provider_protocol", TRUE, FALSE)
     ELSE pc' = (IF protocol \in Typed THEN "answer" ELSE "message") /\ UNCHANGED outcome
  /\ UNCHANGED <<protocol, started, left, aborted, response, faults>>

(* readAnthropicMessagesResponse and readOpenAIChatResponse: the message,  *)
(* or an error inside a successful response, by the status it names.       *)
Messages == [stop : Stops, text : Texts, calls : ToolCalls, fields : Fields]
Read ==
  /\ pc = "message"
  /\ \E usage \in BOOLEAN :
       \/ /\ Fail("provider_protocol", TRUE, usage)
          /\ response' = [response EXCEPT !.read = "no message", !.usage = usage]
       \/ /\ protocol \notin Anthropic
          /\ \E status \in ({0} \cup Statuses) \ {200} :
               Fail(IF status = 0 THEN "provider_unavailable" ELSE FailureKindForStatus(status), TRUE, usage)
          /\ response' = [response EXCEPT !.read = "embedded error", !.usage = usage]
       \/ /\ \E m \in Messages : response' = [response EXCEPT !.read = "message", !.message = m, !.usage = usage]
          /\ pc' = "parse" /\ UNCHANGED outcome
  /\ UNCHANGED <<protocol, started, left, aborted, faults>>

(* parseVerdictProtocolResponse: what the message is as a verdict.         *)
Broken == "provider_protocol"
Invalid == "invalid_evaluator_output"
FirstCall(m) ==                          \* Faulty variant: the first call is taken, however many there are
  IF m.calls = <<>> \/ m.calls[1] = "other" THEN Broken
  ELSE IF m.calls[1] = "verdict, not an object" THEN Invalid ELSE None
OnlyCall(m) ==
  IF m.calls \notin {<<"verdict">>, <<"verdict, not an object">>} THEN Broken
  ELSE IF m.calls # <<"verdict">> THEN Invalid ELSE None

OnlyText(m) ==
  IF m.calls # <<>> \/ m.text = "none" THEN Broken
  ELSE IF m.text # "one object" THEN IF protocol \in Structured THEN Broken ELSE Invalid
  ELSE None

ParseRule(m) ==
  IF m.stop # "normal" THEN Invalid
  ELSE LET shape == IF protocol \in Forced THEN OnlyCall(m) ELSE OnlyText(m) IN
    IF shape # None THEN shape
    ELSE IF m.fields = "valid" \/ (m.fields = "other casing" /\ protocol \in Structured) THEN None
    ELSE Invalid

KeepUsage == response.usage
Conclude(kind) ==
  IF kind # None THEN Fail(kind, TRUE, KeepUsage)
  ELSE pc' = "done" /\ outcome' = [state |-> "verdict", kind |-> None, physical |-> TRUE, usage |-> KeepUsage]

Parse ==
  /\ pc = "parse" /\ Conclude(ParseRule(response.message))
  /\ UNCHANGED <<protocol, started, left, aborted, response, faults>>

(* readTypesafeResponse and parseTypedQuestionResponse. *)
Answer ==
  /\ pc = "answer"
  /\ \E usage \in BOOLEAN, answer \in {"no answer", "not a probability", "probability"} :
       /\ response' = [response EXCEPT !.read = answer, !.usage = usage]
       /\ pc' = "done"
       /\ outcome' = [state |-> IF answer = "probability" THEN "verdict" ELSE "failure",
                      kind |-> CASE answer = "no answer" -> Broken [] answer = "not a probability" -> Invalid [] OTHER -> None,
                      physical |-> TRUE, usage |-> usage]
  /\ UNCHANGED <<protocol, started, left, aborted, faults>>

Next == Prepare \/ Hook \/ Send \/ Abort \/ FailInTransit \/ Headers \/ Body \/ Classify \/ Read \/ Parse \/ Answer

Spec == Init /\ [][Next]_vars

(* The event loop runs what is ready; the timer fires unless it is cleared *)
(* and an aborted request fails.  Nothing says that a provider answers.    *)
Local == Prepare \/ Hook \/ Send \/ Abort \/ (aborted /\ FailInTransit) \/ Classify \/ Read \/ Parse \/ Answer
FairSpec == Spec /\ WF_vars(Local)

-----------------------------------------------------------------------------
TypeOK ==
  /\ pc \in {"prepare", "hook", "send", "awaiting", "reading", "classify", "message", "parse", "answer", "done"}
  /\ outcome.state \in {None, "hook failed", "failure", "verdict"} /\ outcome.kind \in Kinds \cup {None}
  /\ ((pc = "done") <=> (outcome.state # None))
  /\ ((outcome.kind # None) <=> (outcome.state = "failure"))

(* callProviderOnce: the durable record is written before the request can  *)
(* leave and never for a call that is refused, and a failure says that a   *)
(* call was made exactly when the record was written.                      *)
EvidenceErrsTowardTheCall ==
  /\ left => started
  /\ outcome.state \in {"failure", "verdict"} => (outcome.physical <=> started)
  /\ outcome.state = "hook failed" => ~left

(* The kind decides who is at fault.  The evaluator is blamed for an answer *)
(* only when a whole successful response carried one; a rejection of the   *)
(* request is never an exhausted or refused credential; and a timeout is   *)
(* one the provider named or the timer measured.                           *)
BlameIsDeserved ==
  /\ outcome.kind = Invalid =>
       /\ response.status = 200 /\ response.body = "json" /\ ~aborted
       /\ response.read \in {"message", "not a probability"}
  /\ outcome.kind = "provider_rejected_request" /\ response.status # 200 => response.status = 400
  /\ outcome.kind = "provider_timeout" /\ ~aborted => response.status \in {200, 408, 504}

(* parseVerdictProtocolResponse: a verdict is never taken out of a cut-off *)
(* or refused answer, of several answers, or of the wrong channel.         *)
VerdictIsTheWholeAnswer ==
  outcome.state = "verdict" /\ protocol \notin Typed =>
    LET m == response.message IN
    /\ m.stop = "normal" /\ m.fields # "invalid"
    /\ IF protocol \in Forced THEN m.calls = <<"verdict">> ELSE m.calls = <<>> /\ m.text = "one object"
    /\ m.fields = "other casing" => protocol \in Structured

(* A failed call that was billed says what it used. *)
BilledIsRecorded == outcome.state \in {"failure", "verdict"} => outcome.usage = response.usage

(* A call ends: the timer ends it if nothing else does. *)
CallsEnd == <>(pc = "done")
=============================================================================
