------------------------- MODULE MCEvaluatorsProofs -------------------------
(* What the evaluators of a project guarantee, for every set of actors,    *)
(* every set of subjects and every bound.                                  *)
EXTENDS MCEvaluators, Naturals, Sequences, SequenceTheorems, TLAPS

-----------------------------------------------------------------------------
(* One provider call.                                                      *)

Responses ==
    [status : {0} \cup Call!Statuses, body : Call!Bodies \cup {Call!None},
     read : {Call!None, "no message", "embedded error", "message", "no answer",
             "not a probability", "probability"},
     message : Call!Messages, usage : BOOLEAN]

Outcomes ==
    [state : {Call!None, "hook failed", "failure", "verdict"},
     kind : Call!Kinds \cup {Call!None}, physical : BOOLEAN, usage : BOOLEAN]

CallTyped ==
    /\ protocol \in AllProtocols
    /\ pc \in {"prepare", "hook", "send", "awaiting", "reading", "classify",
               "message", "parse", "answer", "done"}
    /\ started \in BOOLEAN /\ left \in BOOLEAN /\ aborted \in BOOLEAN
    /\ response \in Responses /\ outcome \in Outcomes

\* What is known of the response, and of what has left, at every step.
CallProgress ==
    /\ pc \in {"prepare", "hook"} => ~started /\ ~left
    /\ pc \in {"prepare", "hook", "send"} => ~aborted
    /\ pc = "send" => started /\ ~left
    /\ pc \notin {"prepare", "hook", "send", "done"} => started
    /\ pc \in {"prepare", "hook", "send", "awaiting"} => response = Call!Nothing
    /\ pc \in {"reading", "classify"} => response.read = Call!None /\ ~response.usage
    /\ pc = "classify" => response.body \in Call!Bodies
    /\ pc \in {"classify", "message", "parse", "answer"} => ~aborted
    /\ pc \in {"message", "parse", "answer"} => response.status = 200 /\ response.body = "json"
    /\ pc \in {"message", "answer"} => ~response.usage
    /\ pc = "answer" => protocol \in Call!Typed
    /\ pc \in {"message", "parse"} => protocol \notin Call!Typed
    /\ pc = "parse" => response.read = "message"
    /\ pc # "done" => outcome = Call!Unknown

CallInvariant ==
    /\ CallTyped /\ CallProgress
    /\ Call!TypeOK /\ Call!EvidenceErrsTowardTheCall /\ Call!BlameIsDeserved
    /\ Call!VerdictIsTheWholeAnswer /\ Call!BilledIsRecorded

\* A response before it arrives and an outcome before there is one.
LEMMA CallBlank ==
    /\ Call!Nothing \in Responses /\ Call!Unknown \in Outcomes
    /\ Call!Nothing.read = Call!None /\ ~Call!Nothing.usage
    /\ Call!Unknown.state = Call!None /\ Call!Unknown.kind = Call!None
<1>1. Call!Blank \in Call!Messages
  BY DEF Call!Blank, Call!Messages, Call!Stops, Call!Texts, Call!ToolCalls, Call!Fields
<1> QED BY <1>1 DEF Call!Nothing, Call!Unknown, Call!None, Responses, Outcomes

\* Until the call ends nothing is reported, and what was known of it is
\* all that the properties ask.
LEMMA CallGoesOn ==
    ASSUME CallTyped', CallProgress', pc' # "done"
    PROVE  CallInvariant'
<1>1. outcome'.state = Call!None /\ outcome'.kind = Call!None
  BY CallBlank DEF CallProgress
<1>2. left' => started'
  BY DEF CallTyped, CallProgress
<1>3. Call!TypeOK'
  BY <1>1 DEF Call!TypeOK, CallTyped, Call!None
<1>4. Call!EvidenceErrsTowardTheCall'
  BY <1>1, <1>2 DEF Call!EvidenceErrsTowardTheCall, Call!None
<1>5. Call!BlameIsDeserved'
  BY <1>1 DEF Call!BlameIsDeserved, Call!None, Call!Invalid
<1>6. Call!VerdictIsTheWholeAnswer' /\ Call!BilledIsRecorded'
  BY <1>1 DEF Call!VerdictIsTheWholeAnswer, Call!BilledIsRecorded, Call!None
<1> QED BY <1>3, <1>4, <1>5, <1>6 DEF CallInvariant

\* A failure that is reported as it was leaves the invariant.
LEMMA CallFails ==
    ASSUME CallTyped', pc' = "done", outcome'.state = "failure", outcome'.kind \in Call!Kinds,
           left' => started', outcome'.physical <=> started', outcome'.usage = response'.usage,
           Call!BlameIsDeserved'
    PROVE  CallInvariant'
<1>1. CallProgress'
  BY DEF CallProgress
<1>2. outcome'.kind # Call!None
  BY DEF Call!Kinds, Call!None
<1>3. Call!TypeOK'
  BY <1>2 DEF Call!TypeOK, CallTyped, Call!None
<1>4. Call!EvidenceErrsTowardTheCall'
  BY DEF Call!EvidenceErrsTowardTheCall
<1>5. Call!VerdictIsTheWholeAnswer' /\ Call!BilledIsRecorded'
  BY DEF Call!VerdictIsTheWholeAnswer, Call!BilledIsRecorded
<1> QED BY <1>1, <1>3, <1>4, <1>5 DEF CallInvariant

\* A verdict of one whole object leaves the invariant.
LEMMA CallJudges ==
    ASSUME CallTyped', pc' = "done", outcome'.state = "verdict", outcome'.kind = Call!None,
           outcome'.physical, started', outcome'.usage = response'.usage,
           Call!VerdictIsTheWholeAnswer'
    PROVE  CallInvariant'
<1>1. CallProgress'
  BY DEF CallProgress
<1>2. Call!TypeOK'
  BY DEF Call!TypeOK, CallTyped, Call!None
<1>3. Call!EvidenceErrsTowardTheCall'
  BY DEF Call!EvidenceErrsTowardTheCall
<1>4. Call!BlameIsDeserved'
  BY DEF Call!BlameIsDeserved, Call!None, Call!Invalid
<1>5. Call!BilledIsRecorded'
  BY DEF Call!BilledIsRecorded
<1> QED BY <1>1, <1>2, <1>3, <1>4, <1>5 DEF CallInvariant

\* A call that is about to be made satisfies the invariant.
LEMMA CallInitially ==
    Call!Init => CallInvariant
<1> SUFFICES ASSUME Call!Init PROVE CallInvariant
  OBVIOUS
<1>1. CallTyped
  BY CallBlank DEF Call!Init, CallTyped
<1>2. CallProgress
  BY DEF Call!Init, CallProgress
<1>3. outcome.state = Call!None /\ outcome.kind = Call!None /\ ~left
  BY CallBlank DEF Call!Init
<1>4. Call!TypeOK
  BY <1>3 DEF Call!TypeOK, Call!None, Call!Init
<1>5. Call!EvidenceErrsTowardTheCall /\ Call!BlameIsDeserved
  BY <1>3 DEF Call!EvidenceErrsTowardTheCall, Call!BlameIsDeserved, Call!None, Call!Invalid
<1>6. Call!VerdictIsTheWholeAnswer /\ Call!BilledIsRecorded
  BY <1>3 DEF Call!VerdictIsTheWholeAnswer, Call!BilledIsRecorded, Call!None
<1> QED BY <1>1, <1>2, <1>4, <1>5, <1>6 DEF CallInvariant

\* A refusal before the hook is reported as no call at all.
LEMMA CallPrepareKeeps ==
    ASSUME CallTyped, CallProgress, Call!Prepare PROVE CallInvariant'
<1>1. /\ ~started /\ ~left /\ ~aborted /\ response = Call!Nothing /\ outcome = Call!Unknown
      /\ UNCHANGED <<protocol, started, left, aborted, response>>
  BY DEF Call!Prepare, CallProgress
<1>2. CASE pc' = "hook" /\ UNCHANGED outcome
  <2>1. CallTyped'
    BY <1>1, <1>2 DEF CallTyped
  <2>2. CallProgress'
    BY <1>1, <1>2 DEF CallProgress
  <2> QED BY <1>2, <2>1, <2>2, CallGoesOn
<1>3. ASSUME NEW kind \in {"internal", "provider_unavailable"}, Call!Fail(kind, FALSE, FALSE)
      PROVE  CallInvariant'
  <2>1. kind \in Call!Kinds /\ kind \notin {Call!Invalid, "provider_rejected_request", "provider_timeout"}
    BY DEF Call!Kinds, Call!Invalid
  <2>2. /\ pc' = "done" /\ outcome' \in Outcomes /\ outcome'.state = "failure"
        /\ outcome'.kind = kind /\ ~outcome'.physical /\ ~outcome'.usage
    BY <1>3 DEF Call!Fail, Outcomes, Call!Kinds
  <2>3. CallTyped' /\ ~response'.usage
    BY <1>1, <2>2, CallBlank DEF CallTyped
  <2>4. response'.usage = FALSE /\ outcome'.usage = FALSE
    BY <2>2, <2>3, CallBlank, <1>1 DEF Responses, Outcomes
  <2>5. Call!BlameIsDeserved'
    BY <2>1, <2>2 DEF Call!BlameIsDeserved
  <2> QED BY <1>1, <2>1, <2>2, <2>3, <2>4, <2>5, CallFails
<1> QED BY <1>2, <1>3 DEF Call!Prepare, Call!Prepared

\* A hook that fails sends nothing, whether or not its record was written.
LEMMA CallHookKeeps ==
    ASSUME CallTyped, CallProgress, Call!Hook PROVE CallInvariant'
<1>1. /\ ~left /\ ~aborted /\ response = Call!Nothing /\ outcome = Call!Unknown
      /\ UNCHANGED <<protocol, left, aborted, response>>
  BY DEF Call!Hook, CallProgress
<1>2. CASE started' = TRUE /\ pc' = "send" /\ UNCHANGED outcome
  <2>1. CallTyped'
    BY <1>1, <1>2 DEF CallTyped
  <2>2. CallProgress'
    BY <1>1, <1>2 DEF CallProgress
  <2> QED BY <1>2, <2>1, <2>2, CallGoesOn
<1>3. CASE /\ started' \in BOOLEAN /\ pc' = "done"
           /\ outcome' = [Call!Unknown EXCEPT !.state = "hook failed"]
  <2>1. outcome'.state = "hook failed" /\ outcome'.kind = Call!None
    BY <1>3 DEF Call!Unknown
  <2>2. outcome' \in Outcomes
    BY <1>3 DEF Outcomes, Call!Unknown, Call!None
  <2>3. CallTyped'
    BY <1>1, <1>3, <2>2 DEF CallTyped
  <2>4. CallProgress'
    BY <1>3 DEF CallProgress
  <2>5. Call!TypeOK'
    BY <1>3, <2>1 DEF Call!TypeOK, Call!None
  <2>6. Call!EvidenceErrsTowardTheCall' /\ Call!BlameIsDeserved'
    BY <1>1, <2>1 DEF Call!EvidenceErrsTowardTheCall, Call!BlameIsDeserved, Call!None, Call!Invalid
  <2>7. Call!VerdictIsTheWholeAnswer' /\ Call!BilledIsRecorded'
    BY <2>1 DEF Call!VerdictIsTheWholeAnswer, Call!BilledIsRecorded
  <2> QED BY <2>3, <2>4, <2>5, <2>6, <2>7 DEF CallInvariant
<1> QED BY <1>2, <1>3 DEF Call!Hook

\* Sending, and waiting: the record was written before.
LEMMA CallSendKeeps ==
    ASSUME CallTyped, CallProgress, Call!Send PROVE CallInvariant'
<1>1. CallTyped'
  BY DEF CallTyped, Call!Send
<1>2. CallProgress'
  BY DEF CallProgress, Call!Send
<1> QED BY <1>1, <1>2, CallGoesOn DEF Call!Send

\* A call that is aborted is reported as what had left.
LEMMA CallAbortKeeps ==
    ASSUME CallTyped, CallProgress, Call!Abort PROVE CallInvariant'
<1>1. CallTyped'
  BY DEF CallTyped, Call!Abort
<1>2. CallProgress'
  BY DEF CallProgress, Call!Abort, Call!Timed
<1> QED BY <1>1, <1>2, CallGoesOn DEF Call!Abort, Call!Timed

\* A failure in transit is the timer's when the timer fired.
LEMMA CallTransitKeeps ==
    ASSUME CallTyped, CallProgress, Call!FailInTransit PROVE CallInvariant'
<1>1. /\ started /\ ~response.usage
      /\ UNCHANGED <<protocol, started, left, aborted, response>>
  BY CallBlank DEF Call!FailInTransit, CallProgress
<1>2. /\ Call!InTransit \in Call!Kinds /\ Call!InTransit # Call!Invalid
      /\ Call!InTransit # "provider_rejected_request"
      /\ Call!InTransit = "provider_timeout" => aborted
  BY DEF Call!InTransit, Call!Kinds, Call!Invalid
<1>3. /\ pc' = "done" /\ outcome' \in Outcomes /\ outcome'.state = "failure"
      /\ outcome'.kind = Call!InTransit /\ outcome'.physical = TRUE /\ outcome'.usage = FALSE
  BY <1>2 DEF Call!FailInTransit, Call!Fail, Outcomes
<1>4. CallTyped' /\ response'.usage = FALSE
  BY <1>1, <1>3 DEF CallTyped, Responses
<1>5. Call!BlameIsDeserved'
  BY <1>1, <1>2, <1>3 DEF Call!BlameIsDeserved
<1> QED BY <1>1, <1>2, <1>3, <1>4, <1>5, CallFails

\* The response arrives piece by piece.
LEMMA CallHeadersKeeps ==
    ASSUME CallTyped, CallProgress, Call!Headers PROVE CallInvariant'
<1>1. PICK s \in Call!Statuses : response' = [response EXCEPT !.status = s]
  BY DEF Call!Headers
<1>2. response' \in Responses /\ response'.read = response.read /\ response'.usage = response.usage
  BY <1>1 DEF CallTyped, Responses
<1>3. CallTyped'
  BY <1>2 DEF CallTyped, Call!Headers
<1>4. CallProgress'
  BY <1>2, CallBlank DEF CallProgress, Call!Headers
<1> QED BY <1>3, <1>4, CallGoesOn DEF Call!Headers

\* The body of the response arrives, or does not.
LEMMA CallBodyKeeps ==
    ASSUME CallTyped, CallProgress, Call!Body PROVE CallInvariant'
<1>1. PICK b \in Call!Bodies : response' = [response EXCEPT !.body = b]
  BY DEF Call!Body
<1>2. response' \in Responses /\ response'.read = response.read /\ response'.usage = response.usage
  BY <1>1 DEF CallTyped, Responses
<1>3. CallTyped'
  BY <1>2 DEF CallTyped, Call!Body
<1>4. CallProgress'
  BY <1>2 DEF CallProgress, Call!Body
<1> QED BY <1>3, <1>4, CallGoesOn DEF Call!Body

\* The kind that a status other than 200 is given.
LEMMA CallStatusKinds ==
    ASSUME NEW code \in {0} \cup Call!Statuses
    PROVE  /\ Call!FailureKindForStatus(code) \in Call!Kinds
           /\ Call!FailureKindForStatus(code) # Call!Invalid
           /\ Call!FailureKindForStatus(code) = "provider_rejected_request" => code = 400
           /\ Call!FailureKindForStatus(code) = "provider_timeout" => code \in {408, 504}
<1>1. CASE code \in {401, 402, 403}
  BY <1>1 DEF Call!FailureKindForStatus, Call!Kinds, Call!Invalid
<1>2. CASE code = 429
  BY <1>2 DEF Call!FailureKindForStatus, Call!Kinds, Call!Invalid
<1>3. CASE code \in {408, 504}
  BY <1>3 DEF Call!FailureKindForStatus, Call!Kinds, Call!Invalid
<1>4. CASE code = 400
  BY <1>4 DEF Call!FailureKindForStatus, Call!Kinds, Call!Invalid
<1>5. CASE code = 500
  BY <1>5 DEF Call!FailureKindForStatus, Call!Kinds, Call!Invalid
<1>6. CASE code \in {0, 200, 307}
  BY <1>6 DEF Call!FailureKindForStatus, Call!Kinds, Call!Invalid
<1> QED BY <1>1, <1>2, <1>3, <1>4, <1>5, <1>6 DEF Call!Statuses

\* What is refused by its size, its status or its shape is not the
\* evaluator's fault.
LEMMA CallClassifyKeeps ==
    ASSUME CallTyped, CallProgress, Call!Classify PROVE CallInvariant'
<1>1. /\ started /\ response.usage = FALSE /\ ~aborted /\ response.read = Call!None /\ response.body \in Call!Bodies \cup {Call!None}
      /\ response.status \in {0} \cup Call!Statuses /\ outcome = Call!Unknown
      /\ UNCHANGED <<protocol, started, left, aborted, response>>
  BY DEF Call!Classify, CallProgress, CallTyped, Responses
<1>2. CASE Call!Fail("provider_protocol", TRUE, FALSE)
  <2>1. "provider_protocol" \in Call!Kinds /\ "provider_protocol" # Call!Invalid
    BY DEF Call!Kinds, Call!Invalid
  <2>2. /\ pc' = "done" /\ outcome' \in Outcomes /\ outcome'.state = "failure"
        /\ outcome'.kind = "provider_protocol" /\ outcome'.physical = TRUE /\ outcome'.usage = FALSE
    BY <1>2 DEF Call!Fail, Outcomes, Call!Kinds
  <2>3. CallTyped' /\ Call!BlameIsDeserved'
    BY <1>1, <2>1, <2>2 DEF CallTyped, Call!BlameIsDeserved
  <2> QED BY <1>1, <2>1, <2>2, <2>3, CallFails
<1>3. CASE Call!Fail(Call!FailureKindForStatus(response.status), TRUE, FALSE)
  <2> DEFINE kind == Call!FailureKindForStatus(response.status)
  <2>1. /\ kind \in Call!Kinds /\ kind # Call!Invalid
        /\ kind = "provider_rejected_request" => response.status = 400
        /\ kind = "provider_timeout" => response.status \in {408, 504}
    BY <1>1, CallStatusKinds
  <2>2. Call!Fail(kind, TRUE, FALSE)
    BY <1>3
  <2>3. response' = response /\ response \in Responses /\ started' /\ left' \in BOOLEAN /\ aborted' \in BOOLEAN
        /\ protocol' \in AllProtocols
    BY <1>1 DEF CallTyped
  <2> HIDE DEF kind
  <2>4. /\ pc' = "done" /\ outcome' \in Outcomes /\ outcome'.state = "failure"
        /\ outcome'.kind = kind /\ outcome'.physical = TRUE /\ outcome'.usage = FALSE
    BY <2>1, <2>2 DEF Call!Fail, Outcomes
  <2>5. CallTyped'
    BY <2>3, <2>4 DEF CallTyped
  <2>6. Call!BlameIsDeserved'
    BY ZenonT(40), <2>1, <2>3, <2>4 DEF Call!BlameIsDeserved
  <2> QED BY ZenonT(40), <1>1, <2>1, <2>3, <2>4, <2>5, <2>6, CallFails
<1>4. CASE /\ response.body \notin {"over the limit", "not json"} /\ response.status = 200
           /\ pc' = (IF protocol \in Call!Typed THEN "answer" ELSE "message") /\ UNCHANGED outcome
  <2>1. pc' \in {"answer", "message"} /\ (pc' = "answer" <=> protocol \in Call!Typed)
    BY <1>4
  <2>2. CallTyped'
    BY <1>1, <1>4, <2>1 DEF CallTyped
  <2>3. response.body = "json"
    BY <1>4 DEF Call!Classify, CallProgress, Call!Bodies
  <2>4. CallProgress'
    BY <1>1, <1>4, <2>1, <2>3 DEF CallProgress
  <2> QED BY <2>1, <2>2, <2>4, CallGoesOn
<1> QED BY <1>2, <1>3, <1>4 DEF Call!Classify

\* What reading the message finds: no message, an error inside a
\* successful response, or a message.
LEMMA CallReadKeeps ==
    ASSUME CallTyped, CallProgress, Call!Read PROVE CallInvariant'
<1>1. /\ started /\ ~aborted /\ response.status = 200 /\ response.body = "json"
      /\ protocol \notin Call!Typed /\ outcome = Call!Unknown /\ response \in Responses
      /\ protocol \in AllProtocols /\ left \in BOOLEAN
      /\ UNCHANGED <<protocol, started, left, aborted>>
  BY DEF Call!Read, CallProgress, CallTyped
<1>2. PICK usage \in BOOLEAN :
        \/ /\ Call!Fail("provider_protocol", TRUE, usage)
           /\ response' = [response EXCEPT !.read = "no message", !.usage = usage]
        \/ /\ \E code \in ({0} \cup Call!Statuses) \ {200} :
                Call!Fail(IF code = 0 THEN "provider_unavailable" ELSE Call!FailureKindForStatus(code), TRUE, usage)
           /\ response' = [response EXCEPT !.read = "embedded error", !.usage = usage]
        \/ /\ \E m \in Call!Messages : response' = [response EXCEPT !.read = "message", !.message = m, !.usage = usage]
           /\ pc' = "parse" /\ UNCHANGED outcome
  BY DEF Call!Read
<1>3. CASE /\ Call!Fail("provider_protocol", TRUE, usage)
           /\ response' = [response EXCEPT !.read = "no message", !.usage = usage]
  <2>1. "provider_protocol" \in Call!Kinds /\ "provider_protocol" # Call!Invalid
    BY DEF Call!Kinds, Call!Invalid
  <2>2. response' \in Responses /\ response'.usage = usage
    BY <1>1, <1>3 DEF Responses
  <2>3. /\ pc' = "done" /\ outcome' \in Outcomes /\ outcome'.state = "failure"
        /\ outcome'.kind = "provider_protocol" /\ outcome'.physical = TRUE /\ outcome'.usage = usage
    BY <1>3 DEF Call!Fail, Outcomes, Call!Kinds
  <2>4. CallTyped' /\ Call!BlameIsDeserved'
    BY <1>1, <2>1, <2>2, <2>3 DEF CallTyped, Call!BlameIsDeserved
  <2> QED BY <1>1, <2>1, <2>2, <2>3, <2>4, CallFails
<1>4. ASSUME NEW code \in ({0} \cup Call!Statuses) \ {200},
             Call!Fail(IF code = 0 THEN "provider_unavailable" ELSE Call!FailureKindForStatus(code), TRUE, usage),
             response' = [response EXCEPT !.read = "embedded error", !.usage = usage]
      PROVE  CallInvariant'
  <2> DEFINE kind == IF code = 0 THEN "provider_unavailable" ELSE Call!FailureKindForStatus(code)
  <2>1. kind \in Call!Kinds /\ kind # Call!Invalid
    BY CallStatusKinds DEF Call!Kinds, Call!Invalid
  <2>2. response' \in Responses /\ response'.usage = usage /\ response'.status = 200
    BY <1>1, <1>4 DEF Responses
  <2>3. Call!Fail(kind, TRUE, usage)
    BY <1>4
  <2> HIDE DEF kind
  <2>4. /\ pc' = "done" /\ outcome' \in Outcomes /\ outcome'.state = "failure"
        /\ outcome'.kind = kind /\ outcome'.physical = TRUE /\ outcome'.usage = usage
    BY <2>1, <2>3 DEF Call!Fail, Outcomes
  <2>5. CallTyped' /\ Call!BlameIsDeserved'
    BY <1>1, <2>1, <2>2, <2>4 DEF CallTyped, Call!BlameIsDeserved
  <2> QED BY <1>1, <2>1, <2>2, <2>4, <2>5, CallFails
<1>5. ASSUME NEW m \in Call!Messages, pc' = "parse", UNCHANGED outcome,
             response' = [response EXCEPT !.read = "message", !.message = m, !.usage = usage]
      PROVE  CallInvariant'
  <2>1. /\ response' \in Responses /\ response'.read = "message"
        /\ response'.status = 200 /\ response'.body = "json"
    BY <1>1, <1>5 DEF Responses
  <2>2. CallTyped'
    BY <1>1, <1>5, <2>1 DEF CallTyped
  <2>3. CallProgress'
    BY <1>1, <1>5, <2>1 DEF CallProgress
  <2> QED BY <1>5, <2>2, <2>3, CallGoesOn
<1> QED BY <1>2, <1>3, <1>4, <1>5

\* A message is a verdict only when the rule of its protocol finds nothing
\* against it, and its faults are the evaluator's or the protocol's.
LEMMA CallParseKeeps ==
    ASSUME CallTyped, CallProgress, Call!Parse PROVE CallInvariant'
<1> DEFINE m == response.message
           kind == Call!ParseRule(m)
<1>1. /\ started /\ ~aborted /\ response.status = 200 /\ response.body = "json"
      /\ protocol \notin Call!Typed /\ response \in Responses /\ response.read = "message"
      /\ protocol \in AllProtocols /\ left \in BOOLEAN /\ response.usage \in BOOLEAN /\ m \in Call!Messages
      /\ UNCHANGED <<protocol, started, left, aborted, response>>
  BY DEF Call!Parse, CallProgress, CallTyped, Responses
<1>2. Call!OnlyCall(m) \in {Call!None, Call!Broken, Call!Invalid} /\ Call!OnlyText(m) \in {Call!None, Call!Broken, Call!Invalid}
  BY DEF Call!OnlyCall, Call!OnlyText
<1>3. kind \in {Call!None, Call!Broken, Call!Invalid}
  BY <1>2 DEF Call!ParseRule
<1>4. Call!Conclude(kind) /\ Call!KeepUsage = response.usage
  BY DEF Call!Parse, Call!KeepUsage
<1>5. CASE kind # Call!None
  <2>1. kind \in Call!Kinds /\ kind \notin {"provider_rejected_request", "provider_timeout"}
    BY <1>3, <1>5 DEF Call!Kinds, Call!Invalid, Call!Broken
  <2>2. Call!Fail(kind, TRUE, response.usage)
    BY <1>4, <1>5 DEF Call!Conclude
  <2> HIDE DEF kind, m
  <2>3. /\ pc' = "done" /\ outcome' \in Outcomes /\ outcome'.state = "failure"
        /\ outcome'.kind = kind /\ outcome'.physical = TRUE /\ outcome'.usage = response.usage
    BY <1>1, <2>1, <2>2 DEF Call!Fail, Outcomes
  <2>4. CallTyped' /\ Call!BlameIsDeserved'
    BY <1>1, <2>1, <2>3 DEF CallTyped, Call!BlameIsDeserved
  <2> QED BY <1>1, <2>1, <2>3, <2>4, CallFails
<1>6. CASE kind = Call!None
  <2>1. /\ m.stop = "normal" /\ (m.fields = "valid" \/ (m.fields = "other casing" /\ protocol \in Call!Structured))
        /\ (IF protocol \in Call!Forced THEN Call!OnlyCall(m) ELSE Call!OnlyText(m)) = Call!None
    BY <1>6 DEF Call!ParseRule, Call!None, Call!Invalid
  <2>2. IF protocol \in Call!Forced THEN m.calls = <<"verdict">> ELSE m.calls = <<>> /\ m.text = "one object"
    BY <2>1 DEF Call!OnlyCall, Call!OnlyText, Call!None, Call!Invalid, Call!Broken
  <2>3. Call!VerdictIsTheWholeAnswer'
    BY <1>1, <2>1, <2>2 DEF Call!VerdictIsTheWholeAnswer
  <2>4. /\ pc' = "done"
        /\ outcome' = [state |-> "verdict", kind |-> Call!None, physical |-> TRUE, usage |-> response.usage]
    BY <1>4, <1>6 DEF Call!Conclude
  <2> HIDE DEF kind, m
  <2>5. /\ outcome' \in Outcomes /\ outcome'.state = "verdict" /\ outcome'.kind = Call!None
        /\ outcome'.physical = TRUE /\ outcome'.usage = response.usage
    BY <1>1, <2>4 DEF Outcomes
  <2>6. CallTyped'
    BY <1>1, <2>4, <2>5 DEF CallTyped
  <2> QED BY <1>1, <2>3, <2>4, <2>5, <2>6, CallJudges
<1> QED BY <1>5, <1>6

\* The answer to a typed question is a probability or a failure.
LEMMA CallAnswerKeeps ==
    ASSUME CallTyped, CallProgress, Call!Answer PROVE CallInvariant'
<1>1. /\ started /\ ~aborted /\ response.status = 200 /\ response.body = "json"
      /\ protocol \in Call!Typed /\ response \in Responses
      /\ protocol \in AllProtocols /\ left \in BOOLEAN
      /\ UNCHANGED <<protocol, started, left, aborted>>
  BY DEF Call!Answer, CallProgress, CallTyped
<1>2. PICK usage \in BOOLEAN, answer \in {"no answer", "not a probability", "probability"} :
        /\ response' = [response EXCEPT !.read = answer, !.usage = usage]
        /\ pc' = "done"
        /\ outcome' = [state |-> IF answer = "probability" THEN "verdict" ELSE "failure",
                       kind |-> CASE answer = "no answer" -> Call!Broken [] answer = "not a probability" -> Call!Invalid [] OTHER -> Call!None,
                       physical |-> TRUE, usage |-> usage]
  BY DEF Call!Answer
<1>3. /\ response' \in Responses /\ response'.usage = usage /\ response'.read = answer
      /\ response'.status = 200 /\ response'.body = "json"
  BY <1>1, <1>2 DEF Responses
<1>4. CASE answer = "no answer"
  <2>1. Call!Fail(Call!Broken, TRUE, usage)
    BY <1>2, <1>4 DEF Call!Fail
  <2>2. Call!Broken \in Call!Kinds /\ Call!Broken \notin {Call!Invalid, "provider_rejected_request", "provider_timeout"}
    BY DEF Call!Kinds, Call!Invalid, Call!Broken
  <2>3. /\ pc' = "done" /\ outcome' \in Outcomes /\ outcome'.state = "failure"
        /\ outcome'.kind = Call!Broken /\ outcome'.physical = TRUE /\ outcome'.usage = usage
    BY <2>1, <2>2 DEF Call!Fail, Outcomes
  <2>4. CallTyped' /\ Call!BlameIsDeserved'
    BY <1>1, <1>3, <2>2, <2>3 DEF CallTyped, Call!BlameIsDeserved
  <2> QED BY <1>1, <1>3, <2>2, <2>3, <2>4, CallFails
<1>5. CASE answer = "not a probability"
  <2>1. Call!Fail(Call!Invalid, TRUE, usage)
    BY <1>2, <1>5 DEF Call!Fail
  <2>2. Call!Invalid \in Call!Kinds /\ Call!Invalid \notin {"provider_rejected_request", "provider_timeout"}
    BY DEF Call!Kinds, Call!Invalid
  <2>3. /\ pc' = "done" /\ outcome' \in Outcomes /\ outcome'.state = "failure"
        /\ outcome'.kind = Call!Invalid /\ outcome'.physical = TRUE /\ outcome'.usage = usage
    BY <2>1, <2>2 DEF Call!Fail, Outcomes
  <2>4. CallTyped'
    BY <1>1, <1>3, <2>3 DEF CallTyped
  <2>5. Call!BlameIsDeserved'
    BY <1>1, <1>3, <1>5, <2>2, <2>3 DEF Call!BlameIsDeserved
  <2> QED BY <1>1, <1>3, <2>2, <2>3, <2>4, <2>5, CallFails
<1>6. CASE answer = "probability"
  <2>1. outcome' = [state |-> "verdict", kind |-> Call!None, physical |-> TRUE, usage |-> usage]
    BY <1>2, <1>6
  <2>2. Call!VerdictIsTheWholeAnswer'
    BY <1>1 DEF Call!VerdictIsTheWholeAnswer
  <2>3. /\ outcome' \in Outcomes /\ outcome'.state = "verdict" /\ outcome'.kind = Call!None
        /\ outcome'.physical = TRUE /\ outcome'.usage = usage
    BY <2>1 DEF Outcomes
  <2>4. CallTyped'
    BY <1>1, <1>2, <1>3, <2>3 DEF CallTyped
  <2> QED BY <1>1, <1>2, <1>3, <2>2, <2>3, <2>4, CallJudges
<1> QED BY <1>2, <1>4, <1>5, <1>6

\* Every step of a call, and of anything else.
LEMMA CallStep ==
    ASSUME CallInvariant, Call!Next \/ UNCHANGED callVars
    PROVE  CallInvariant'
<1>1. CallTyped /\ CallProgress
  BY DEF CallInvariant
<1>2. CASE UNCHANGED callVars
  <2>1. CallTyped' /\ CallProgress'
    BY <1>1, <1>2 DEF callVars, CallTyped, CallProgress
  <2>2. Call!TypeOK' /\ Call!EvidenceErrsTowardTheCall'
    BY <1>2 DEF callVars, CallInvariant, Call!TypeOK, Call!EvidenceErrsTowardTheCall
  <2>3. UNCHANGED <<outcome, response, aborted>>
    BY <1>2 DEF callVars
  <2>5. Call!BlameIsDeserved'
    BY ZenonT(40), <2>3 DEF CallInvariant, Call!BlameIsDeserved
  <2>6. Call!BilledIsRecorded'
    BY <2>3 DEF CallInvariant, Call!BilledIsRecorded
  <2>4. Call!VerdictIsTheWholeAnswer'
    BY <1>2 DEF callVars, CallInvariant, Call!VerdictIsTheWholeAnswer
  <2> QED BY <2>1, <2>2, <2>4, <2>5, <2>6 DEF CallInvariant
<1>3. CASE Call!Next
  BY <1>1, <1>3, CallPrepareKeeps, CallHookKeeps, CallSendKeeps, CallAbortKeeps,
     CallTransitKeeps, CallHeadersKeeps, CallBodyKeeps, CallClassifyKeeps,
     CallReadKeeps, CallParseKeeps, CallAnswerKeeps DEF Call!Next
<1> QED BY <1>2, <1>3

\* No request leaves before its durable call-start, a failure is blamed on
\* what caused it, a verdict is one whole valid object and reported usage
\* is kept, for every protocol, every answer and any number of failing
\* hooks (lib/evaluator, execution/execute.ts).
THEOREM CallReported ==
    Spec => []CallIsReportedAsItWas
<1>1. Init => CallInvariant
  BY CallInitially DEF Init
<1>2. CallInvariant /\ [Next]_vars => CallInvariant'
  <2> SUFFICES ASSUME CallInvariant, [Next]_vars PROVE CallInvariant'
    OBVIOUS
  <2>1. Call!Next \/ UNCHANGED callVars
    BY DEF Next, Step, Others, vars, callVars
  <2> QED BY <2>1, CallStep
<1>3. CallInvariant => CallIsReportedAsItWas
  BY DEF CallInvariant, CallIsReportedAsItWas
<1> QED BY <1>1, <1>2, <1>3, PTL DEF Spec


-----------------------------------------------------------------------------
(* The regression gate.                                                    *)

Places == {"none", "lock", "load", "judge", "save", "unlock", "undo", "decide",
           "error", "final", "end"}
Entries == [state : {"none", "queued", "active", "completed", "failed"},
            tries : 0 .. GateRetries]
Deliveries == [pc : Places, out : Gate!Judged \cup {"error", "none"}, at : Nat]

GateTyped ==
    /\ status \in {"none", "calibrating", "approved", "regressing", "failed"}
    /\ rows \in Seq(Gate!Judged \cup {"error"})
    /\ backfill \in BOOLEAN
    /\ gateQ \in [Actors -> Entries]
    /\ gateW \in [Gate!Executions -> Deliveries]
    /\ gateLock \in Gate!Executions \cup {Nobody}
    /\ losses \in Nat

\* A row is written with the first outcome, and an outcome is dated before
\* it is saved.
GateRecords ==
    /\ (rows = <<>>) = (status \in {"none", "calibrating"})
    /\ \A x \in Gate!Executions :
          gateW[x].pc = "save" => gateW[x].out \in Gate!Judged /\ gateW[x].at <= Len(rows)

\* The lock is held from taking it to giving it back.
GateLocking ==
    losses = 0 =>
      \A x \in Gate!Executions :
          gateW[x].pc \in {"load", "judge", "save", "unlock", "undo"} => gateLock = x

GateInvariant == GateTyped /\ GateRecords /\ GateLocking

\* Every bound is a number, and nobody is no execution.
LEMMA GateBounds ==
    GateRetries \in Nat /\ Nobody \notin Gate!Executions
  BY ConstantsAssumption DEF Gate!BoundsAssumption, Gate!NobodyAssumption

\* An execution is a delivery of one of the jobs.
LEMMA GateExecution ==
    ASSUME NEW x \in Gate!Executions
    PROVE  x[1] \in Actors /\ x[2] \in 0 .. GateRetries /\ x = <<x[1], x[2]>>
  BY DEF Gate!Executions

\* Going to a place changes nothing else.
LEMMA GateGoes ==
    ASSUME NEW x \in Gate!Executions, NEW place \in Places, Gate!Goto(x, place), GateTyped
    PROVE  /\ gateW' \in [Gate!Executions -> Deliveries]
           /\ gateW'[x].pc = place /\ gateW'[x].out = gateW[x].out /\ gateW'[x].at = gateW[x].at
           /\ \A y \in Gate!Executions : y # x => gateW'[y] = gateW[y]
<1>1. [gateW[x] EXCEPT !.pc = place] \in Deliveries
  BY DEF GateTyped, Deliveries, Places
<1>2. gateW' = [gateW EXCEPT ![x] = [gateW[x] EXCEPT !.pc = place]]
  BY DEF Gate!Goto
<1> QED BY <1>1, <1>2 DEF GateTyped, Deliveries

\* What the queue makes of a failure, and of a report.
LEMMA GateRetry ==
    ASSUME NEW e \in Entries
    PROVE  Gate!Retried(e) \in Entries
  BY GateBounds DEF Gate!Retried, Entries

\* A report to the queue has its type.
LEMMA GateReports ==
    ASSUME NEW x \in Gate!Executions, NEW e \in Entries, Gate!Report(x, e), GateTyped
    PROVE  gateQ' \in [Actors -> Entries]
  BY GateExecution DEF Gate!Report, GateTyped, Entries

\* No job of the gate has run.
LEMMA GateStartsFresh ==
    Gate!Fresh \in Deliveries /\ Gate!Fresh.pc = "none"
  BY DEF Gate!Fresh, Deliveries, Places

\* A version that was not saved yet satisfies the invariant.
LEMMA GateInitially ==
    Gate!Init => GateInvariant
<1> SUFFICES ASSUME Gate!Init PROVE GateInvariant
  OBVIOUS
<1>1. gateQ \in [Actors -> Entries]
  <2>1. [state |-> "none", tries |-> 0] \in Entries
    BY GateBounds DEF Entries
  <2> QED BY <2>1 DEF Gate!Init
<1>2. gateW \in [Gate!Executions -> Deliveries]
  BY GateStartsFresh DEF Gate!Init
<1>3. GateTyped
  <2>1. rows \in Seq(Gate!Judged \cup {"error"})
    BY DEF Gate!Init
  <2>2. status = "none" /\ backfill = FALSE /\ losses = 0 /\ gateLock = Nobody
    BY DEF Gate!Init
  <2> QED BY <1>1, <1>2, <2>1, <2>2 DEF GateTyped
<1>4. GateRecords /\ GateLocking
  BY GateStartsFresh DEF Gate!Init, GateRecords, GateLocking
<1> QED BY <1>3, <1>4 DEF GateInvariant

\* What an action leaves alone needs no second look.
LEMMA GateKept ==
    ASSUME GateInvariant, UNCHANGED <<status, rows, backfill>>,
           gateQ' \in [Actors -> Entries], gateW' \in [Gate!Executions -> Deliveries],
           gateLock' \in Gate!Executions \cup {Nobody}, losses' \in Nat,
           \A x \in Gate!Executions : gateW'[x].pc = "save" => gateW'[x] = gateW[x],
           GateLocking'
    PROVE  GateInvariant'
<1>1. GateTyped'
  BY DEF GateInvariant, GateTyped, Entries
<1>2. GateRecords'
  BY DEF GateInvariant, GateRecords
<1> QED BY <1>1, <1>2 DEF GateInvariant

\* Saving the version, and the queue.
LEMMA GateSubmitKeeps ==
    ASSUME GateInvariant, Gate!Submit PROVE GateInvariant'
<1>1. GateTyped' /\ GateRecords'
  BY DEF GateInvariant, GateTyped, GateRecords, Gate!Submit, Gate!bounds
<1>2. GateLocking'
  BY DEF GateInvariant, GateLocking, Gate!Submit, Gate!bounds
<1> QED BY <1>1, <1>2 DEF GateInvariant

\* A job is sent.
LEMMA GateSendKeeps ==
    ASSUME NEW j \in Actors, GateInvariant, Gate!Send(j) PROVE GateInvariant'
<1>1. gateQ' \in [Actors -> Entries]
  BY DEF GateInvariant, GateTyped, Entries, Gate!Send
<1>2. UNCHANGED <<status, rows, backfill, gateW, gateLock, losses>>
  BY DEF Gate!Send, Gate!bounds
<1>3. GateLocking'
  BY <1>2 DEF GateInvariant, GateLocking
<1> QED BY <1>1, <1>2, <1>3, GateKept DEF GateInvariant, GateTyped

\* A job is delivered.
LEMMA GateDeliverKeeps ==
    ASSUME NEW j \in Actors, GateInvariant, Gate!Deliver(j) PROVE GateInvariant'
<1> DEFINE x == <<j, gateQ[j].tries>>
<1>1. gateQ' \in [Actors -> Entries]
  BY DEF GateInvariant, GateTyped, Entries, Gate!Deliver
<1>2. UNCHANGED <<status, rows, backfill, gateLock, losses>>
  BY DEF Gate!Deliver, Gate!bounds
<1>3. x \in Gate!Executions
  BY DEF GateInvariant, GateTyped, Gate!Executions, Entries
<1>4. Gate!Goto(x, "lock") /\ "lock" \in Places
  BY DEF Gate!Deliver, Places
<1> HIDE DEF x
<1>5. /\ gateW' \in [Gate!Executions -> Deliveries] /\ gateW'[x].pc = "lock"
      /\ \A y \in Gate!Executions : y # x => gateW'[y] = gateW[y]
  BY <1>3, <1>4, GateGoes DEF GateInvariant
<1>6. GateLocking'
  BY <1>2, <1>3, <1>5 DEF GateInvariant, GateLocking
<1>7. \A y \in Gate!Executions : gateW'[y].pc = "save" => gateW'[y] = gateW[y]
  BY <1>3, <1>5
<1>8. gateLock' \in Gate!Executions \cup {Nobody} /\ losses' \in Nat
  BY <1>2 DEF GateInvariant, GateTyped
<1> QED BY <1>1, <1>2, <1>5, <1>6, <1>7, <1>8, GateKept

\* A delivery expires while its handler may still run.
LEMMA GateExpireKeeps ==
    ASSUME NEW j \in Actors, GateInvariant, Gate!Expire(j) PROVE GateInvariant'
<1>1. Gate!Retried(gateQ[j]) \in Entries
  BY GateRetry DEF GateInvariant, GateTyped, Entries
<1>2. gateQ' = [gateQ EXCEPT ![j] = Gate!Retried(gateQ[j])] /\ gateQ \in [Actors -> Entries]
  BY DEF Gate!Expire, GateInvariant, GateTyped, Entries
<1>3. gateQ' \in [Actors -> Entries]
  BY <1>1, <1>2
<1>4. UNCHANGED <<status, rows, backfill, gateW, gateLock, losses>>
  BY DEF Gate!Expire
<1>5. GateLocking'
  BY <1>4 DEF GateInvariant, GateLocking
<1> QED BY <1>3, <1>4, <1>5, GateKept DEF GateInvariant, GateTyped

\* The lock, taken when it is free.
LEMMA GateTakeLockKeeps ==
    ASSUME NEW x \in Gate!Executions, GateInvariant, Gate!TakeLock(x) PROVE GateInvariant'
<1>1. /\ UNCHANGED <<status, rows, backfill, gateQ, losses>> /\ gateLock = Nobody /\ gateLock' = x
      /\ Gate!Goto(x, "load") /\ "load" \in Places
  BY DEF Gate!TakeLock, Gate!bounds, Places
<1>2. /\ gateW' \in [Gate!Executions -> Deliveries] /\ gateW'[x].pc = "load"
      /\ \A y \in Gate!Executions : y # x => gateW'[y] = gateW[y]
  BY <1>1, GateGoes DEF GateInvariant
<1>3. GateLocking'
  BY <1>1, <1>2, GateBounds DEF GateInvariant, GateLocking
<1>4. \A y \in Gate!Executions : gateW'[y].pc = "save" => gateW'[y] = gateW[y]
  BY <1>2
<1>5. gateQ' \in [Actors -> Entries] /\ losses' \in Nat
  BY <1>1 DEF GateInvariant, GateTyped, Entries
<1> QED BY <1>1, <1>2, <1>3, <1>4, <1>5, GateKept

\* The newest row is replayed, or the version is judged.
LEMMA GateLoadKeeps ==
    ASSUME NEW x \in Gate!Executions, GateInvariant, Gate!Load(x) PROVE GateInvariant'
<1>1. /\ UNCHANGED <<status, rows, backfill, gateQ, gateLock, losses>> /\ gateW[x].pc = "load"
      /\ gateW \in [Gate!Executions -> Deliveries]
  BY DEF Gate!Load, Gate!At, Gate!bounds, GateInvariant, GateTyped
<1>2. /\ gateW' \in [Gate!Executions -> Deliveries] /\ gateW'[x].pc \in {"unlock", "judge"}
      /\ \A y \in Gate!Executions : y # x => gateW'[y] = gateW[y]
  <2>1. CASE rows # <<>>
    <3>1. rows[Len(rows)] \in Gate!Judged \cup {"error"}
      BY <2>1 DEF GateInvariant, GateTyped
    <3>2. gateW' = [gateW EXCEPT ![x].pc = "unlock", ![x].out = rows[Len(rows)]]
      BY <2>1 DEF Gate!Load, Gate!Last
    <3>3. gateW[x] \in Deliveries
      BY <1>1
    <3>4. [[gateW[x] EXCEPT !.pc = "unlock"] EXCEPT !.out = rows[Len(rows)]] \in Deliveries
      BY <3>1, <3>3 DEF Deliveries, Places, Gate!Judged
    <3> QED BY <1>1, <3>2, <3>4 DEF Deliveries
  <2>2. CASE rows = <<>>
    BY <2>2, GateGoes DEF Gate!Load, Places, GateInvariant
  <2> QED BY <2>1, <2>2
<1>3. GateLocking'
  BY <1>1, <1>2 DEF GateInvariant, GateLocking
<1>4. \A y \in Gate!Executions : gateW'[y].pc = "save" => gateW'[y] = gateW[y]
  BY <1>2
<1>5. gateQ' \in [Actors -> Entries] /\ losses' \in Nat /\ gateLock' \in Gate!Executions \cup {Nobody}
  BY <1>1 DEF GateInvariant, GateTyped, Entries
<1> QED BY <1>1, <1>2, <1>3, <1>4, <1>5, GateKept

\* The holder of the lock judges.
LEMMA GateJudgeKeeps ==
    ASSUME NEW x \in Gate!Executions, GateInvariant, Gate!Judge(x) PROVE GateInvariant'
<1>0. PICK out \in Gate!Judged : gateW' = [gateW EXCEPT ![x] = [pc |-> "save", out |-> out, at |-> Len(rows)]]
  BY DEF Gate!Judge
<1>4. [pc |-> "save", out |-> out, at |-> Len(rows)] \in Deliveries
  BY DEF Deliveries, Places, GateInvariant, GateTyped
<1>5. /\ UNCHANGED <<status, rows, backfill, gateQ, gateLock, losses>> /\ gateW[x].pc = "judge"
      /\ gateW \in [Gate!Executions -> Deliveries] /\ Len(rows) \in Nat
  BY DEF Gate!Judge, Gate!At, Gate!bounds, GateInvariant, GateTyped
<1>6. /\ gateW' \in [Gate!Executions -> Deliveries]
      /\ gateW'[x].pc = "save" /\ gateW'[x].out = out /\ gateW'[x].at = Len(rows)
      /\ \A y \in Gate!Executions : y # x => gateW'[y] = gateW[y]
  BY <1>0, <1>4, <1>5
<1>1. GateTyped'
  BY <1>5, <1>6 DEF GateInvariant, GateTyped
<1>2. GateRecords'
  BY <1>5, <1>6 DEF GateInvariant, GateRecords
<1>3. GateLocking'
  BY <1>5, <1>6 DEF GateInvariant, GateLocking
<1> QED BY <1>1, <1>2, <1>3 DEF GateInvariant

\* A row that is inserted lengthens the rows.
LEMMA GateInserts ==
    ASSUME NEW n \in Nat, NEW out \in Gate!Judged, rows \in Seq(Gate!Judged \cup {"error"}), n <= Len(rows)
    PROVE  /\ Gate!InsertAt(rows, n + 1, out) \in Seq(Gate!Judged \cup {"error"})
           /\ Len(Gate!InsertAt(rows, n + 1, out)) = Len(rows) + 1
<1> DEFINE Rows == Gate!Judged \cup {"error"}
           before == SubSeq(rows, 1, n)
           after == SubSeq(rows, n + 1, Len(rows))
<1>1. before \in Seq(Rows) /\ Len(before) = n
  OBVIOUS
<1>2. after \in Seq(Rows) /\ Len(after) = Len(rows) - n
  OBVIOUS
<1>3. <<out>> \in Seq(Rows) /\ Len(<<out>>) = 1
  OBVIOUS
<1>4. Gate!InsertAt(rows, n + 1, out) = before \o <<out>> \o after
  <2>1. (n + 1) - 1 = n
    OBVIOUS
  <2>2. Gate!InsertAt(rows, n + 1, out) = SubSeq(rows, 1, (n + 1) - 1) \o <<out>> \o after
    BY Zenon DEF Gate!InsertAt
  <2> QED BY <2>1, <2>2, Zenon
<1> HIDE DEF before, after, Rows
<1>5. before \o <<out>> \in Seq(Rows) /\ Len(before \o <<out>>) = n + 1
  BY <1>1, <1>3
<1>6. (before \o <<out>>) \o after \in Seq(Rows) /\ Len((before \o <<out>>) \o after) = n + 1 + (Len(rows) - n)
  BY <1>2, <1>5
<1>7. Len(rows) \in Nat
  OBVIOUS
<1>8. n + 1 + (Len(rows) - n) = Len(rows) + 1
  BY <1>7
<1> QED BY <1>4, <1>6, <1>8, Zenon DEF Rows

\* The outcome, its row and the status are one transaction.
LEMMA GateSaveKeeps ==
    ASSUME NEW x \in Gate!Executions, GateInvariant, Gate!Save(x) PROVE GateInvariant'
<1>1. /\ UNCHANGED <<backfill, gateQ, gateLock, losses>> /\ gateW[x].pc = "save"
      /\ gateW[x].out \in Gate!Judged /\ gateW[x].at \in Nat /\ gateW[x].at <= Len(rows)
      /\ rows' = Gate!InsertAt(rows, gateW[x].at + 1, gateW[x].out)
      /\ status' \in {"regressing", "approved"}
      /\ Gate!Goto(x, "unlock") /\ "unlock" \in Places
  BY DEF Gate!Save, Gate!At, Gate!bounds, GateInvariant, GateTyped, GateRecords, Deliveries, Places
<1>2. /\ gateW' \in [Gate!Executions -> Deliveries] /\ gateW'[x].pc = "unlock"
      /\ \A y \in Gate!Executions : y # x => gateW'[y] = gateW[y]
  BY <1>1, GateGoes DEF GateInvariant
<1>3. rows' \in Seq(Gate!Judged \cup {"error"}) /\ Len(rows') = Len(rows) + 1
  BY <1>1, GateInserts DEF GateInvariant, GateTyped
<1>4. rows' # <<>> /\ Len(rows) \in Nat
  BY <1>3 DEF GateInvariant, GateTyped
<1>5. GateTyped'
  BY <1>1, <1>2, <1>3 DEF GateInvariant, GateTyped
<1>6. GateRecords'
  BY SMTT(90), <1>1, <1>2, <1>3, <1>4 DEF GateInvariant, GateTyped, GateRecords, Deliveries
<1>7. GateLocking'
  BY <1>1, <1>2 DEF GateInvariant, GateLocking
<1> QED BY <1>5, <1>6, <1>7 DEF GateInvariant

\* The lock is released.
LEMMA GateUnlockKeeps ==
    ASSUME NEW x \in Gate!Executions, GateInvariant, Gate!Unlock(x) PROVE GateInvariant'
<1>1. /\ UNCHANGED <<status, rows, backfill, gateQ, losses>> /\ gateW[x].pc \in {"unlock", "undo"}
      /\ gateLock' = IF gateLock = x THEN Nobody ELSE gateLock
  BY DEF Gate!Unlock, Gate!bounds
<1>2. PICK place \in {"decide", "error"} : Gate!Goto(x, place)
  BY DEF Gate!Unlock
<1>3. /\ gateW' \in [Gate!Executions -> Deliveries] /\ gateW'[x].pc = place
      /\ \A y \in Gate!Executions : y # x => gateW'[y] = gateW[y]
  BY <1>2, GateGoes DEF GateInvariant, Places
<1>4. GateLocking'
  BY <1>1, <1>3 DEF GateInvariant, GateLocking
<1>5. \A y \in Gate!Executions : gateW'[y].pc = "save" => gateW'[y] = gateW[y]
  BY <1>3
<1>6. gateQ' \in [Actors -> Entries] /\ losses' \in Nat /\ gateLock' \in Gate!Executions \cup {Nobody}
  BY <1>1 DEF GateInvariant, GateTyped, Entries
<1> QED BY <1>1, <1>3, <1>4, <1>5, <1>6, GateKept

\* An execution that goes where it neither judges nor holds the lock.
LEMMA GateLeaves ==
    ASSUME NEW x \in Gate!Executions, NEW place \in Places \ {"load", "judge", "save", "unlock"},
           GateInvariant, Gate!Goto(x, place), UNCHANGED <<status, rows, gateLock, losses>>,
           backfill' \in BOOLEAN, gateQ' \in [Actors -> Entries],
           place = "undo" => gateW[x].pc \in {"load", "judge", "save"}
    PROVE  GateInvariant'
<1>1. /\ gateW' \in [Gate!Executions -> Deliveries] /\ gateW'[x].pc = place
      /\ \A y \in Gate!Executions : y # x => gateW'[y] = gateW[y]
  BY GateGoes DEF GateInvariant
<1>2. GateTyped'
  BY <1>1 DEF GateInvariant, GateTyped, Entries
<1>3. GateRecords'
  BY <1>1 DEF GateInvariant, GateRecords
<1>4. GateLocking'
  BY <1>1 DEF GateInvariant, GateLocking
<1> QED BY <1>2, <1>3, <1>4 DEF GateInvariant

\* A version that was not blocked judges the existing cases.
LEMMA GateDecideKeeps ==
    ASSUME NEW x \in Gate!Executions, GateInvariant, Gate!Decide(x) PROVE GateInvariant'
<1>1. /\ Gate!Goto(x, "end") /\ UNCHANGED <<status, rows, gateLock, losses>> /\ backfill' \in BOOLEAN
      /\ Gate!Report(x, [state |-> "completed", tries |-> x[2]])
  BY DEF Gate!Decide, Gate!bounds, GateInvariant, GateTyped
<1>2. [state |-> "completed", tries |-> x[2]] \in Entries
  BY GateExecution DEF Entries
<1>3. gateQ' \in [Actors -> Entries]
  BY <1>1, <1>2, GateReports DEF GateInvariant
<1> QED BY <1>1, <1>3, GateLeaves DEF Places

\* A statement or a provider call fails.
LEMMA GateFaultKeeps ==
    ASSUME NEW x \in Gate!Executions, GateInvariant, Gate!Fault(x) PROVE GateInvariant'
<1>1. /\ UNCHANGED <<status, rows, backfill, gateQ, gateLock, losses>>
      /\ gateW[x].pc \in {"lock", "load", "judge", "save", "decide"}
  BY DEF Gate!Fault
<1>2. PICK place \in {"error", "undo"} :
        Gate!Goto(x, place) /\ (place = "undo" => gateW[x].pc \in {"load", "judge", "save"})
  BY DEF Gate!Fault
<1>3. backfill' \in BOOLEAN /\ gateQ' \in [Actors -> Entries]
  BY <1>1 DEF GateInvariant, GateTyped, Entries
<1> QED BY <1>1, <1>2, <1>3, GateLeaves DEF Places

\* The handler of an error.
LEMMA GateOnErrorKeeps ==
    ASSUME NEW x \in Gate!Executions, GateInvariant, Gate!OnError(x) PROVE GateInvariant'
<1>1. UNCHANGED <<status, rows, backfill, gateLock, losses>> /\ backfill' \in BOOLEAN
  BY DEF Gate!OnError, Gate!bounds, GateInvariant, GateTyped
<1>2. gateQ \in [Actors -> Entries] /\ gateQ[x[1]] \in Entries
  BY GateExecution DEF GateInvariant, GateTyped, Entries
<1>3. CASE Gate!Goto(x, "final") /\ UNCHANGED gateQ
  BY <1>1, <1>2, <1>3, GateLeaves DEF Places
<1>4. CASE Gate!Goto(x, "end") /\ Gate!Report(x, Gate!Retried(gateQ[x[1]]))
  <2>1. gateQ' \in [Actors -> Entries]
    BY <1>2, <1>4, GateRetry, GateReports DEF GateInvariant
  <2> QED BY <1>1, <1>4, <2>1, GateLeaves DEF Places
<1> QED BY <1>3, <1>4 DEF Gate!OnError

\* The finalizer fails a version that nobody decided.
LEMMA GateFinalizeKeeps ==
    ASSUME NEW x \in Gate!Executions, GateInvariant, Gate!Finalize(x) PROVE GateInvariant'
<1>1. /\ Gate!Goto(x, "end") /\ UNCHANGED <<backfill, gateLock, losses>>
      /\ Gate!Report(x, [state |-> "completed", tries |-> x[2]])
  BY DEF Gate!Finalize, Gate!bounds
<1>2. [state |-> "completed", tries |-> x[2]] \in Entries
  BY GateExecution DEF Entries
<1>3. gateQ' \in [Actors -> Entries]
  BY <1>1, <1>2, GateReports DEF GateInvariant
<1>4. CASE UNCHANGED <<status, rows>>
  <2>1. backfill' \in BOOLEAN
    BY <1>1 DEF GateInvariant, GateTyped
  <2> QED BY <1>1, <1>3, <1>4, <2>1, GateLeaves DEF Places
<1>5. CASE status' = "failed" /\ rows' = Append(rows, "error")
  <2>1. /\ gateW' \in [Gate!Executions -> Deliveries] /\ gateW'[x].pc = "end"
        /\ \A y \in Gate!Executions : y # x => gateW'[y] = gateW[y]
    BY <1>1, GateGoes DEF GateInvariant, Places
  <2>2. /\ rows' \in Seq(Gate!Judged \cup {"error"}) /\ Len(rows') = Len(rows) + 1
        /\ rows' # <<>> /\ Len(rows) \in Nat
    BY <1>5 DEF GateInvariant, GateTyped
  <2>3. GateTyped'
    BY <1>1, <1>3, <1>5, <2>1, <2>2 DEF GateInvariant, GateTyped, Entries
  <2>4. GateRecords'
    <3>1. (rows' = <<>>) = (status' \in {"none", "calibrating"})
      BY <1>5, <2>2
    <3>2. ASSUME NEW y \in Gate!Executions, gateW'[y].pc = "save"
          PROVE  gateW'[y].out \in Gate!Judged /\ gateW'[y].at <= Len(rows')
      <4>1. gateW'[y] = gateW[y] /\ gateW[y].at \in Nat
        BY <2>1, <3>2 DEF GateInvariant, GateTyped, Deliveries
      <4> QED BY <2>2, <3>2, <4>1 DEF GateInvariant, GateRecords
    <3> QED BY <3>1, <3>2 DEF GateRecords
  <2>5. GateLocking'
    BY <1>1, <2>1 DEF GateInvariant, GateLocking
  <2> QED BY <2>3, <2>4, <2>5 DEF GateInvariant
<1> QED BY <1>4, <1>5 DEF Gate!Finalize

\* The finalizer of the last delivery fails.
LEMMA GateFinalizeFailsKeeps ==
    ASSUME NEW x \in Gate!Executions, GateInvariant, Gate!FinalizeFails(x) PROVE GateInvariant'
<1>1. /\ Gate!Goto(x, "end") /\ UNCHANGED <<status, rows, backfill, gateLock, losses>>
      /\ Gate!Report(x, Gate!Retried(gateQ[x[1]])) /\ backfill' \in BOOLEAN
  BY DEF Gate!FinalizeFails, GateInvariant, GateTyped
<1>2. gateQ[x[1]] \in Entries
  BY GateExecution DEF GateInvariant, GateTyped, Entries
<1>3. gateQ' \in [Actors -> Entries]
  BY <1>1, <1>2, GateRetry, GateReports DEF GateInvariant
<1> QED BY <1>1, <1>3, GateLeaves DEF Places

\* A process dies with its sessions.
LEMMA GateCrashKeeps ==
    ASSUME NEW x \in Gate!Executions, GateInvariant, Gate!Crash(x) PROVE GateInvariant'
<1>1. /\ Gate!Goto(x, "end") /\ UNCHANGED <<status, rows, backfill, gateQ, losses>>
      /\ gateLock' = IF gateLock = x THEN Nobody ELSE gateLock
  BY DEF Gate!Crash
<1>2. /\ gateW' \in [Gate!Executions -> Deliveries] /\ gateW'[x].pc = "end"
      /\ \A y \in Gate!Executions : y # x => gateW'[y] = gateW[y]
  BY <1>1, GateGoes DEF GateInvariant, Places
<1>3. GateLocking'
  BY <1>1, <1>2 DEF GateInvariant, GateLocking
<1>4. \A y \in Gate!Executions : gateW'[y].pc = "save" => gateW'[y] = gateW[y]
  BY <1>2
<1>5. gateQ' \in [Actors -> Entries] /\ losses' \in Nat /\ gateLock' \in Gate!Executions \cup {Nobody}
  BY <1>1 DEF GateInvariant, GateTyped, Entries
<1> QED BY <1>1, <1>2, <1>3, <1>4, <1>5, GateKept

\* The connection of the lock drops, and is counted.
LEMMA GateLoseLockKeeps ==
    ASSUME GateInvariant, Gate!LoseLock PROVE GateInvariant'
<1>1. /\ UNCHANGED <<status, rows, backfill, gateQ, gateW>> /\ gateLock' = Nobody
      /\ losses' = losses + 1 /\ losses \in Nat
  BY DEF Gate!LoseLock, GateInvariant, GateTyped
<1>2. GateLocking'
  BY <1>1 DEF GateLocking
<1> QED BY <1>1, <1>2, GateKept DEF GateInvariant, GateTyped, Entries

\* Every step of the gate, and of anything else.
LEMMA GateStep ==
    ASSUME GateInvariant, Gate!Next \/ UNCHANGED gateVars
    PROVE  GateInvariant'
<1>1. CASE UNCHANGED gateVars
  BY <1>1 DEF gateVars, GateInvariant, GateTyped, GateRecords, GateLocking
<1>2. CASE Gate!Queue
  BY <1>2, GateSendKeeps, GateDeliverKeeps, GateExpireKeeps, GateLoseLockKeeps DEF Gate!Queue
<1>3. ASSUME NEW x \in Gate!Executions, Gate!Advance(x) \/ Gate!Fault(x) \/ Gate!FinalizeFails(x) \/ Gate!Crash(x)
      PROVE  GateInvariant'
  BY <1>3, GateTakeLockKeeps, GateLoadKeeps, GateJudgeKeeps, GateSaveKeeps, GateUnlockKeeps,
     GateDecideKeeps, GateFaultKeeps, GateOnErrorKeeps, GateFinalizeKeeps, GateFinalizeFailsKeeps,
     GateCrashKeeps DEF Gate!Advance
<1> QED BY <1>1, <1>2, <1>3, GateSubmitKeeps DEF Gate!Next

\* The invariant gives the types, and one delivery that judges at a time.
LEMMA GateHolds ==
    GateInvariant => Gate!TypeOK /\ (losses = 0 => Gate!JudgingIsExclusive)
<1> SUFFICES ASSUME GateInvariant PROVE Gate!TypeOK /\ (losses = 0 => Gate!JudgingIsExclusive)
  OBVIOUS
<1>1. Gate!TypeOK
  BY DEF GateInvariant, GateTyped, GateRecords, Deliveries, Entries, Gate!TypeOK
<1>2. losses = 0 => Gate!JudgingIsExclusive
  BY DEF GateInvariant, GateLocking, Gate!JudgingIsExclusive
<1> QED BY <1>1, <1>2

\* The finalizer replaces no outcome.
LEMMA GateReplacesNothing ==
    ASSUME Gate!Next \/ UNCHANGED gateVars, status' = "failed"
    PROVE  status \in {"calibrating", "failed"}
  BY DEF Gate!Next, Gate!Submit, Gate!Queue, Gate!Send, Gate!Deliver, Gate!Expire, Gate!LoseLock,
     Gate!Advance, Gate!TakeLock, Gate!Load, Gate!Judge, Gate!Save, Gate!Unlock, Gate!Decide, Gate!OnError,
     Gate!Finalize, Gate!FinalizeFails, Gate!Fault, Gate!Crash, gateVars

-----------------------------------------------------------------------------
(* The evaluator lifecycle, in both of its scenarios.                      *)

LifecycleInvariant ==
    /\ focus = "activations" => Activations!Inductive
    /\ focus = "revocations" => Revocations!Inductive

\* What the constants are assumed to be is what the component assumes.
LEMMA LifecycleAssumptions ==
    Activations!Assumptions /\ Revocations!Assumptions
  BY ConstantsAssumption DEF Activations!Assumptions, Revocations!Assumptions

\* Both scenarios of the lifecycle start as their invariants say.
LEMMA LifecycleInitially ==
    Init => LifecycleInvariant
  BY LifecycleAssumptions, Activations!InitInductive, Revocations!InitInductive
  DEF Init, LifecycleInvariant

\* A step of the suite is a step of the lineage or leaves it alone.
LEMMA LifecycleSteps ==
    ASSUME [Next]_vars
    PROVE  /\ focus' = focus
           /\ focus = "activations" => [Activations!Next]_(Activations!vars)
           /\ focus = "revocations" => [Revocations!Next]_(Revocations!vars)
  BY DEF Next, Step, Others, vars, lifecycleVars, Activations!vars, Activations!rows,
     Revocations!vars, Revocations!rows

\* A step of the suite keeps the invariant of its scenario.
LEMMA LifecycleStep ==
    ASSUME LifecycleInvariant, [Next]_vars
    PROVE  LifecycleInvariant'
<1>1. ASSUME focus = "activations" PROVE Activations!Inductive'
  BY <1>1, LifecycleAssumptions, LifecycleSteps, Activations!StepInductive DEF LifecycleInvariant
<1>2. ASSUME focus = "revocations" PROVE Revocations!Inductive'
  BY <1>2, LifecycleAssumptions, LifecycleSteps, Revocations!StepInductive DEF LifecycleInvariant
<1> QED BY <1>1, <1>2, LifecycleSteps DEF LifecycleInvariant

\* What no step of a lineage may do, in either scenario.
LifecycleActions ==
    /\ focus = "activations" => Activations!FollowsWhatWasShown /\ Activations!ToldOfTheFirst
    /\ focus = "revocations" => Revocations!FollowsWhatWasShown /\ Revocations!ToldOfTheFirst
                                /\ Revocations!GrantBindsTheHead

\* No step of the suite does what the action properties forbid.
LEMMA LifecycleMoves ==
    ASSUME LifecycleInvariant, [Next]_vars
    PROVE  LifecycleActions
<1>1. ASSUME focus = "activations"
      PROVE  Activations!FollowsWhatWasShown /\ Activations!ToldOfTheFirst
  BY <1>1, LifecycleAssumptions, LifecycleSteps, Activations!StepFollows, Activations!StepReplays
  DEF LifecycleInvariant
<1>2. ASSUME focus = "revocations"
      PROVE  Revocations!FollowsWhatWasShown /\ Revocations!ToldOfTheFirst /\ Revocations!GrantBindsTheHead
  BY <1>2, LifecycleAssumptions, LifecycleSteps, Revocations!StepFollows, Revocations!StepReplays,
     Revocations!StepBinds
  DEF LifecycleInvariant
<1> QED BY <1>1, <1>2 DEF LifecycleActions

\* What holds of every state of the lineage and of the gate.
Governed ==
    /\ focus = "activations" => Activations!TypeOK /\ Activations!AtMostOneActive /\ Activations!RevokedIsNotActive
    /\ focus = "revocations" => Revocations!TypeOK /\ Revocations!AtMostOneActive /\ Revocations!RevokedIsNotActive
    /\ Gate!TypeOK /\ (losses = 0 => Gate!JudgingIsExclusive)

\* The invariants say what the property asks.
LEMMA InvariantsGovern ==
    LifecycleInvariant /\ GateInvariant => Governed
<1> SUFFICES ASSUME LifecycleInvariant, GateInvariant PROVE Governed
  OBVIOUS
<1>1. ASSUME focus = "activations"
      PROVE  Activations!TypeOK /\ Activations!AtMostOneActive /\ Activations!RevokedIsNotActive
  BY <1>1, Activations!InductiveIsTyped DEF LifecycleInvariant, Activations!Inductive
<1>2. ASSUME focus = "revocations"
      PROVE  Revocations!TypeOK /\ Revocations!AtMostOneActive /\ Revocations!RevokedIsNotActive
  BY <1>2, Revocations!InductiveIsTyped DEF LifecycleInvariant, Revocations!Inductive
<1> QED BY <1>1, <1>2, GateHolds DEF Governed

\* ADR-0010: at most one version of a criterion is active and none on a
\* revoked artifact, owners follow what they were shown, repeats are
\* replayed and executions bind the head; and of the regression gate, one
\* delivery judges a version at a time while the connection of the lock
\* lives and the failure finalizer replaces no outcome; for any number of
\* owners, keys, commands, failures, retries, crashes and expiries.
THEOREM VersionsGoverned ==
    Spec => VersionsAreGoverned
<1>1. Init => LifecycleInvariant /\ GateInvariant
  BY LifecycleInitially, GateInitially DEF Init
<1>2. LifecycleInvariant /\ GateInvariant /\ [Next]_vars => (LifecycleInvariant /\ GateInvariant)'
  <2> SUFFICES ASSUME LifecycleInvariant, GateInvariant, [Next]_vars
               PROVE  LifecycleInvariant' /\ GateInvariant'
    OBVIOUS
  <2>1. Gate!Next \/ UNCHANGED gateVars
    BY DEF Next, Step, Others, vars, gateVars
  <2> QED BY <2>1, GateStep, LifecycleStep
<1>3. LifecycleInvariant /\ [Next]_vars => [LifecycleActions]_vars
  BY LifecycleMoves
<1>4. [Next]_vars => [status' = "failed" => status \in {"calibrating", "failed"}]_(Gate!vars)
  <2> SUFFICES ASSUME [Next]_vars, status' = "failed" PROVE status \in {"calibrating", "failed"}
    OBVIOUS
  <2>1. Gate!Next \/ UNCHANGED gateVars
    BY DEF Next, Step, Others, vars, gateVars
  <2> QED BY <2>1, GateReplacesNothing
<1> QED BY <1>1, <1>2, <1>3, <1>4, InvariantsGovern, PTL
        DEF Spec, VersionsAreGoverned, Governed, LifecycleActions, Gate!FinalizerNeverReplaces

-----------------------------------------------------------------------------
(* The outbox, in both of its scenarios.                                   *)

DispatchInvariant ==
    /\ focus = "dispatch" => Dispatch!Inductive
    /\ focus = "convergence" => Convergence!Inductive

\* What the outbox assumes of its constants is what the suite assumes.
LEMMA DispatchAssumptions ==
    Dispatch!Assumptions /\ Convergence!Assumptions
  BY ConstantsAssumption DEF Dispatch!Assumptions, Convergence!Assumptions

\* Both scenarios of the outbox start as their invariants say.
LEMMA DispatchInitially ==
    Init => DispatchInvariant
  BY DispatchAssumptions, Dispatch!InitInductive, Convergence!InitInductive
  DEF Init, DispatchInvariant

\* A step of the suite is a step of the outbox or leaves it alone.
LEMMA DispatchSteps ==
    ASSUME [Next]_vars
    PROVE  /\ focus' = focus
           /\ focus = "dispatch" => [Dispatch!Next]_(Dispatch!vars)
           /\ focus = "convergence" => [Convergence!Next]_(Convergence!vars)
  BY DEF Next, Step, Others, vars, dispatchVars, Dispatch!vars, Convergence!vars

\* A step of the suite keeps the invariant of its scenario.
LEMMA DispatchStep ==
    ASSUME DispatchInvariant, [Next]_vars
    PROVE  DispatchInvariant'
<1>1. ASSUME focus = "dispatch" PROVE Dispatch!Inductive'
  BY <1>1, DispatchAssumptions, DispatchSteps, Dispatch!StepInductive DEF DispatchInvariant
<1>2. ASSUME focus = "convergence" PROVE Convergence!Inductive'
  BY <1>2, DispatchAssumptions, DispatchSteps, Convergence!StepInductive DEF DispatchInvariant
<1> QED BY <1>1, <1>2, DispatchSteps DEF DispatchInvariant

\* What holds of every state of the outbox, and what no step of it may do.
Exact ==
    /\ focus = "dispatch" => Dispatch!TypeOK /\ Dispatch!LiveJobIsTheRecordedOne /\ Dispatch!ReadyMeansAccepted
    /\ focus = "convergence" => Convergence!TypeOK /\ Convergence!LiveJobIsTheRecordedOne /\ Convergence!ReadyMeansAccepted

DispatchActions ==
    /\ focus = "dispatch" => Dispatch!QueuesNothingOnceDispatched
    /\ focus = "convergence" => Convergence!QueuesNothingOnceDispatched

\* The invariants say what the property asks.
LEMMA DispatchHolds ==
    DispatchInvariant => Exact
  BY Dispatch!InductiveDelivers, Convergence!InductiveDelivers DEF DispatchInvariant, Exact

\* No step of the suite queues a job for a dispatched run.
LEMMA DispatchMoves ==
    ASSUME DispatchInvariant, [Next]_vars
    PROVE  DispatchActions
<1>1. ASSUME focus = "dispatch" PROVE Dispatch!QueuesNothingOnceDispatched
  BY <1>1, DispatchAssumptions, DispatchSteps, Dispatch!StepQueuesNothing DEF DispatchInvariant
<1>2. ASSUME focus = "convergence" PROVE Convergence!QueuesNothingOnceDispatched
  BY <1>2, DispatchAssumptions, DispatchSteps, Convergence!StepQueuesNothing DEF DispatchInvariant
<1> QED BY <1>1, <1>2 DEF DispatchActions

\* The outbox of an evaluation run, of the gate worker and of the
\* convergence route: a job that can still run is the one the row names,
\* "ready" speaks of an accepted job, and nothing is queued once the run
\* was marked dispatched; for any number of dispatchers, faults and deaths.
THEOREM DispatchExact ==
    Spec => DispatchIsExact
<1>1. Init => DispatchInvariant
  BY DispatchInitially
<1>2. DispatchInvariant /\ [Next]_vars => DispatchInvariant'
  BY DispatchStep
<1>3. DispatchInvariant /\ [Next]_vars => [DispatchActions]_vars
  BY DispatchMoves
<1> QED BY <1>1, <1>2, <1>3, DispatchHolds, PTL
        DEF Spec, DispatchIsExact, Exact, DispatchActions

=============================================================================
