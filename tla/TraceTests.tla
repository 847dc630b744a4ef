----------------------------- MODULE TraceTests -----------------------------
(***************************************************************************)
(* A test derived from a trace: its append-only revisions, the validations *)
(* of its drafts against a response that should fail and one that should   *)
(* pass, and the enabling of a validated draft.                            *)
(*                                                                         *)
(* Source: repository.pg/trace-test-repository.ts, the routes of           *)
(* routes/trace-test-administration.ts that call it, evaluateExample of    *)
(* lib/trace-test-validator.ts and the rules of repository/helpers.ts.     *)
(*                                                                         *)
(* One test.  A transaction takes the lock of the test's row in its first  *)
(* statement.  The statement of a validation and of an enabling joins the  *)
(* current revision: PostgreSQL finds the rows first (Query), waits for    *)
(* the lock, and looks again at the locked row alone (AcquireLock), so a   *)
(* row of the joined table that is no longer current is dropped.           *)
(***************************************************************************)
EXTENDS Naturals, Sequences

CONSTANTS
  Contents,       \* what a draft says
  Labels,         \* verdicts in use
  Handlers,       \* requests in progress
  MaxAttempts,    \* TRACE_TEST_VALIDATION_MAX_ATTEMPTS
  MaxRequests, MaxFaults   \* bounds

BoundsAssumption == MaxAttempts \in Nat \ {0} /\ {MaxRequests, MaxFaults} \subseteq Nat

None == "none"
NoneAssumption == None \notin Contents \cup Handlers

LabelsAssumption == Labels \subseteq {"pass", "fail", "ambiguous"}
Results == {"pass", "fail", "ambiguous", "evaluator_error", "unavailable"}
Examples == {"bad", "good"}

VARIABLES
  current, enabled,  \* trace_tests.current_revision and enabled_revision (0: null)
  revisions,         \* trace_test_revisions
  validations,       \* trace_test_validations
  lock,              \* the row of the test
  h,                 \* handlers
  notFound,          \* the test has been reported missing
  requests, faults

test == <<current, enabled, revisions, validations>>
vars == <<test, lock, h, notFound, requests, faults>>

Draft(content, base) == [lifecycle |-> "draft", content |-> content, base |-> base, validation |-> 0]

Idle == [pc |-> "idle", kind |-> None, revision |-> 0, content |-> None, validation |-> 0, seen |-> 0,
         method |-> None, attempts |-> [e \in Examples |-> 0], result |-> [e \in Examples |-> None]]

(* createTraceTest has committed. *)
Init ==
  /\ current = 1 /\ enabled = 0 /\ validations = <<>>
  /\ \E c \in Contents : revisions = <<Draft(c, 0)>>
  /\ lock = None /\ h = [k \in Handlers |-> Idle] /\ notFound = FALSE
  /\ requests = 0 /\ faults = 0

-----------------------------------------------------------------------------
(* traceTestValidationStatus: the two results, in order of what hides what. *)
Discriminates(bad, good) ==
  IF bad = "fail" /\ good = "pass" THEN "passed" ELSE IF bad = good THEN "non_discriminating" ELSE "failed"
Status(bad, good) ==
  LET hiding == {r \in Results \ {"pass", "fail"} : r \in {bad, good}} IN
  IF "unavailable" \in hiding THEN "unavailable"
  ELSE IF "evaluator_error" \in hiding THEN "evaluator_error"
  ELSE IF hiding # {} THEN "ambiguous"
  ELSE Discriminates(bad, good)

Start(k, request) ==
  /\ h[k].pc = "idle" /\ requests < MaxRequests /\ requests' = requests + 1
  /\ h' = [h EXCEPT ![k] = request]
  /\ UNCHANGED <<test, lock, notFound, faults>>

(* Clients name the revision they looked at, which may be superseded.      *)
Ask(k) == \E r \in 1..current :
  \/ \E c \in Contents : Start(k, [Idle EXCEPT !.pc = "query", !.kind = "revise", !.revision = r, !.content = c])
  \/ Start(k, [Idle EXCEPT !.pc = "read", !.kind = "record", !.revision = r, !.method = "automated"])
  \/ \E bad, good \in Labels :
       Start(k, [Idle EXCEPT !.pc = "read", !.kind = "record", !.revision = r, !.method = "manual_override",
                             !.result = [e \in Examples |-> IF e = "bad" THEN bad ELSE good]])
  \/ \E v \in DOMAIN validations :
       Start(k, [Idle EXCEPT !.pc = "query", !.kind = "enable", !.revision = r, !.validation = v])

Answer(k) == h' = [h EXCEPT ![k] = Idle]

(* A check or a manual validation reads the test outside a transaction.  A *)
(* check may be unavailable (no examples, no provider, no key), refused    *)
(* (not authorized, over the rate limit), or sent to the evaluator.        *)
Read(k) ==
  /\ h[k].pc = "read"
  /\ IF current # h[k].revision THEN Answer(k)
     ELSE LET read == [h[k] EXCEPT !.content = revisions[h[k].revision].content] IN
       IF h[k].method = "manual_override" THEN h' = [h EXCEPT ![k] = [read EXCEPT !.pc = "query"]]
       ELSE \/ Answer(k)
            \/ h' = [h EXCEPT ![k] = [read EXCEPT !.pc = "query", !.method = "no evaluator",
                                                 !.result = [e \in Examples |-> "unavailable"]]]
            \/ h' = [h EXCEPT ![k] = [read EXCEPT !.pc = "evaluate"]]
  /\ UNCHANGED <<test, lock, notFound, requests, faults>>

(* evaluateExample, of both examples at once: an attempt answers, or fails *)
(* or times out and is made again.                                         *)
Attempt(k, e) == h[k].attempts[e] + 1
Evaluate(k, e) ==
  /\ h[k].pc = "evaluate" /\ h[k].result[e] = None
  /\ \E label \in Labels \cup {None} :
       LET n == Attempt(k, e)
           result == IF label = None /\ n = MaxAttempts THEN "evaluator_error" ELSE label IN
       h' = [h EXCEPT ![k].attempts[e] = n, ![k].result[e] = result]
  /\ UNCHANGED <<test, lock, notFound, requests, faults>>

Evaluated(k) ==
  /\ h[k].pc = "evaluate" /\ \A e \in Examples : h[k].result[e] # None
  /\ h' = [h EXCEPT ![k].pc = "query"]
  /\ UNCHANGED <<test, lock, notFound, requests, faults>>

-----------------------------------------------------------------------------
(* The first statement of a transaction finds the current rows. *)
Query(k) ==
  /\ h[k].pc = "query"
  /\ h' = [h EXCEPT ![k].pc = "waiting", ![k].seen = current]
  /\ UNCHANGED <<test, lock, notFound, requests, faults>>

(* The statement of a revision joins nothing and sees the locked row. *)
Dropped(k) == h[k].kind # "revise" /\ current # h[k].seen

NeverStale(k) == FALSE                   \* Faulty variant: the expected revision is not compared
Stale(k) == current # h[k].revision

OfAnyRevision(k) == validations[h[k].validation].status = "passed"     \* Faulty variant
Eligible(k) ==
  LET v == validations[h[k].validation] IN
  v.revision = h[k].revision /\ v.status = "passed" /\ v.method # "no evaluator"

Refused(k) ==
  \/ Stale(k)
  \/ h[k].kind = "enable" /\ (revisions[current].lifecycle # "draft" \/ ~Eligible(k))

AcquireLock(k) ==
  /\ h[k].pc = "waiting" /\ lock = None
  /\ IF Dropped(k) THEN Answer(k) /\ notFound' = TRUE /\ lock' = lock
     ELSE IF Refused(k) THEN Answer(k) /\ UNCHANGED <<notFound, lock>>
     ELSE h' = [h EXCEPT ![k].pc = "commit"] /\ lock' = k /\ notFound' = notFound
  /\ UNCHANGED <<test, requests, faults>>

EnabledRevision(k) == current + 1

Revise(k) ==
  /\ revisions' = Append(revisions, Draft(h[k].content, h[k].revision))
  /\ current' = current + 1 /\ UNCHANGED <<enabled, validations>>

RecordValidation(k) ==
  /\ validations' = Append(validations,
       [revision |-> h[k].revision, content |-> h[k].content, method |-> h[k].method,
        bad |-> h[k].result["bad"], good |-> h[k].result["good"],
        status |-> Status(h[k].result["bad"], h[k].result["good"])])
  /\ UNCHANGED <<current, enabled, revisions>>

Enable(k) ==
  /\ revisions' = Append(revisions, [revisions[h[k].revision] EXCEPT
       !.lifecycle = "enabled", !.base = h[k].revision, !.validation = h[k].validation])
  /\ current' = current + 1 /\ enabled' = EnabledRevision(k) /\ UNCHANGED validations

Commit(k) ==
  /\ h[k].pc = "commit" /\ lock = k
  /\ \/ h[k].kind = "revise" /\ Revise(k)
     \/ h[k].kind = "record" /\ RecordValidation(k)
     \/ h[k].kind = "enable" /\ Enable(k)
  /\ lock' = None /\ Answer(k)
  /\ UNCHANGED <<notFound, requests, faults>>

(* A process or its connection dies; its lock is released. *)
Fault(k) ==
  /\ h[k].pc # "idle" /\ faults < MaxFaults /\ faults' = faults + 1
  /\ lock' = IF lock = k THEN None ELSE lock
  /\ Answer(k) /\ UNCHANGED <<test, notFound, requests>>

Step(k) == Read(k) \/ (\E e \in Examples : Evaluate(k, e)) \/ Evaluated(k) \/ Query(k) \/ Commit(k)

Next == \E k \in Handlers : Ask(k) \/ Step(k) \/ AcquireLock(k) \/ Fault(k)

Spec == Init /\ [][Next]_vars

(* Handlers run on; a queue for the row lets everybody who waits through.  *)
FairSpec == Spec /\ \A k \in Handlers : WF_vars(Step(k)) /\ SF_vars(AcquireLock(k))

-----------------------------------------------------------------------------
(* Pointers point at revisions of their kind; attempts are bounded. *)
TypeOK ==
  /\ current = Len(revisions)
  /\ enabled \in 0..current /\ (enabled # 0 => revisions[enabled].lifecycle = "enabled")
  /\ \A r \in DOMAIN revisions :
       /\ revisions[r].lifecycle \in {"draft", "enabled"} /\ revisions[r].content \in Contents
       /\ revisions[r].validation \in 0..Len(validations)
  /\ \A v \in DOMAIN validations :
       /\ validations[v].revision \in DOMAIN revisions
       /\ validations[v].bad \in Results /\ validations[v].good \in Results
  /\ lock \in Handlers \cup {None} /\ notFound \in BOOLEAN
  /\ \A k \in Handlers, e \in Examples : h[k].attempts[e] \in 0..MaxAttempts /\ h[k].result[e] \in Results \cup {None}

(* enableTraceTest and recordTraceTestValidation: what is enabled says what *)
(* a validation examined, and that validation told the response that must  *)
(* fail from the one that must pass, although both were read, sent to the  *)
(* evaluator and recorded in different transactions, with revisions made   *)
(* in between.                                                             *)
EnabledIsWhatWasValidated ==
  \A r \in DOMAIN revisions : revisions[r].lifecycle = "enabled" =>
    LET v == validations[revisions[r].validation] IN
    v.content = revisions[r].content /\ v.bad = "fail" /\ v.good = "pass"

(* reviseTraceTest and enableTraceTest: nobody overwrites a revision they  *)
(* have not seen; every revision was made by somebody who had the one      *)
(* before it in front of them.                                             *)
NobodyIsOverwritten == \A r \in DOMAIN revisions : revisions[r].base = r - 1

(* evaluateExample retries a bounded number of times, and the row is held  *)
(* by transactions that end: every request is answered.                    *)
RequestsAreAnswered == \A k \in Handlers : (h[k].pc # "idle") ~> (h[k].pc = "idle")

(* TraceTestNotFoundError says "Test not found in this project": it is     *)
(* never said of a test that is there.                                     *)
NotFoundMeansNotFound == ~notFound
=============================================================================
