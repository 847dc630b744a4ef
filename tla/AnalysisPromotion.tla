------------------------- MODULE AnalysisPromotion -------------------------
(***************************************************************************)
(* The promotion of a failure code to a criterion: a client pages through  *)
(* the observations coded with it and asks that what it saw be promoted,   *)
(* while studies are coded and closed and the taxonomy is revised.         *)
(*                                                                         *)
(* Source: createPromotion and listCandidates of analysis-promotion/       *)
(* repository.pg.ts, lib/analysis-promotion.ts and the guards              *)
(* guard_analysis_criterion_promotion* of the baseline migration.          *)
(*                                                                         *)
(* A revision of the project's one taxonomy is its position in the chain,  *)
(* and a promotion with its criterion, version, supports and exposure      *)
(* events one record: the deferred guard lets them commit only together.   *)
(***************************************************************************)
EXTENDS Naturals, Sequences, FiniteSets

CONSTANTS
  Codes,          \* analysis_failure_codes
  Studies,
  Observations,   \* a range of naturals: the order of (position, id)
  StudyOf,        \* the study each observation was made in
  Keys,           \* idempotency keys
  Requests,       \* promotions that are asked for
  Executions,     \* of requests: one may be executed again, and at a time
  PageSize,       \* the limit of a page of candidates
  MaxRevisions,   \* bound: revisions of the taxonomy
  MaxFaults       \* bound: connections that die inside a command

BoundsAssumption ==
  /\ Observations \subseteq Nat /\ StudyOf \in [Observations -> Studies]
  /\ PageSize \in Nat \ {0} /\ MaxRevisions \in Nat /\ MaxFaults \in Nat

None == "none"
NoneAssumption == None \notin Codes \cup Studies \cup Requests \cup Executions

VARIABLES
  revs,        \* the status of each code, by revision
  assign,      \* the assignments of each observation, in order
  active,      \* observations that were not withdrawn
  closure,     \* of each closed study: its active observations, each with the version of its assignment
  promotions,  \* analysis_criterion_promotions
  req,         \* what each request reads and then asks for
  answers,     \* the last answer to each request
  studyLock, taxonomyLock,
  x,           \* executions
  faults

evidence == <<revs, assign, active, closure>>
locks == <<studyLock, taxonomyLock>>
vars == <<evidence, promotions, req, answers, locks, x, faults>>

Idle == [pc |-> "idle", r |-> None]

(* The studies have been coded under the first revision. *)
Init ==
  /\ revs = <<[c \in Codes |-> "active"]>>
  /\ assign \in [Observations -> {<<>>} \cup {<<[code |-> c, rev |-> 1]>> : c \in Codes}]
  /\ active = Observations
  /\ closure = [s \in {} |-> {}]
  /\ promotions = {}
  /\ req = [r \in Requests |-> [pc |-> "new"]]
  /\ answers = [r \in Requests |-> None]
  /\ studyLock = [s \in Studies |-> None] /\ taxonomyLock = None
  /\ x = [e \in Executions |-> Idle]
  /\ faults = 0

-----------------------------------------------------------------------------
TaxonomyHead == Len(revs)
Closed(s) == s \in DOMAIN closure

(* analysis_observation_assignment_head_v1, restricted to assignments of a *)
(* code: the version of the last one up to a revision, or 0.               *)
AssignedAt(o, r, c) ==
  LET upTo == {n \in DOMAIN assign[o] : assign[o][n].rev <= r}
      n == IF upTo = {} THEN 0 ELSE CHOOSE n \in upTo : \A m \in upTo : m <= n
  IN IF n > 0 /\ assign[o][n].code = c THEN n ELSE 0

(* What listCandidates selects and what a promotion may rest on: the       *)
(* observations of the closure whose assignment there is still the head,   *)
(* and of the code.                                                        *)
EvidenceOfAnyCode(s, r, c) ==   \* Faulty variant: the head may be of another code
  IF Closed(s) THEN {o \in DOMAIN closure[s] : closure[s][o] > 0} ELSE {}
EvidenceOfOpen(s, r, c) ==      \* Faulty variant: an open study has evidence too
  {o \in active : StudyOf[o] = s /\ AssignedAt(o, r, c) > 0}
Evidence(s, r, c) ==
  IF Closed(s) THEN {o \in DOMAIN closure[s] : closure[s][o] > 0 /\ closure[s][o] = AssignedAt(o, r, c)} ELSE {}

Candidates(s, r, c) ==
  IF r = TaxonomyHead /\ revs[r][c] = "active" THEN Evidence(s, r, c) ELSE {}

(* A page after a cursor, and the cursor of the next one. *)
PageAfter(all, cursor) ==
  {o \in all : o > cursor /\ Cardinality({q \in all : q > cursor /\ q <= o}) <= PageSize}
NextCursor(all, cursor) ==
  LET page == PageAfter(all, cursor)
      more == {o \in all : o > cursor} # page
  IN IF more THEN CHOOSE o \in page : \A q \in page : q <= o ELSE 0

-----------------------------------------------------------------------------
(* Coding goes on under its locks: assignments, withdrawals, the closing   *)
(* of a study and revisions of the taxonomy that retire a code.            *)
Assign(o, c) ==
  LET s == StudyOf[o] IN
  /\ ~Closed(s) /\ studyLock[s] = None /\ taxonomyLock = None
  /\ o \in active /\ revs[TaxonomyHead][c] = "active"
  /\ Len(assign[o]) < 2 /\ (assign[o] # <<>> => assign[o][Len(assign[o])].code # c)
  /\ assign' = [assign EXCEPT ![o] = Append(@, [code |-> c, rev |-> TaxonomyHead])]
  /\ UNCHANGED <<revs, active, closure, promotions, req, answers, locks, x, faults>>

WithdrawFailure(o) ==
  /\ ~Closed(StudyOf[o]) /\ studyLock[StudyOf[o]] = None /\ o \in active
  /\ active' = active \ {o}
  /\ UNCHANGED <<revs, assign, closure, promotions, req, answers, locks, x, faults>>

CloseStudy(s) ==
  /\ ~Closed(s) /\ studyLock[s] = None
  /\ closure' = [t \in DOMAIN closure \cup {s} |->
       IF t = s THEN [o \in {p \in active : StudyOf[p] = s} |-> Len(assign[o])] ELSE closure[t]]
  /\ UNCHANGED <<revs, assign, active, promotions, req, answers, locks, x, faults>>

Revise(codes) ==
  /\ taxonomyLock = None /\ TaxonomyHead < MaxRevisions
  /\ \A c \in Codes : revs[TaxonomyHead][c] = "retired" => codes[c] = "retired"
  /\ revs' = Append(revs, codes)
  /\ UNCHANGED <<assign, active, closure, promotions, req, answers, locks, x, faults>>

-----------------------------------------------------------------------------
(* A client reads every page of candidates and asks with all that it saw.  *)
Read(r, s, c) ==
  /\ req[r].pc = "new" /\ revs[TaxonomyHead][c] = "active"
  /\ req' = [req EXCEPT ![r] = [pc |-> "reading", study |-> s, code |-> c, rev |-> TaxonomyHead, cursor |-> 0, seen |-> {}]]
  /\ UNCHANGED <<evidence, promotions, answers, locks, x, faults>>

ListCandidates(r) ==
  LET q == req[r]
      all == Candidates(q.study, q.rev, q.code)
      seen == q.seen \cup PageAfter(all, q.cursor)
      next == NextCursor(all, q.cursor)
  IN /\ q.pc = "reading"
     /\ \/ /\ next # 0
           /\ req' = [req EXCEPT ![r].cursor = next, ![r].seen = seen]
        \/ /\ next = 0 /\ seen = {}
           /\ req' = [req EXCEPT ![r] = [pc |-> "new"]]
        \/ /\ next = 0 /\ seen # {}
           /\ \E k \in Keys :
                req' = [req EXCEPT ![r] = [pc |-> "asked", study |-> q.study, code |-> q.code, rev |-> q.rev,
                                           seen |-> seen, key |-> k]]
     /\ UNCHANGED <<evidence, promotions, answers, locks, x, faults>>

(* Two requests with one key are one command when they ask for the same.   *)
Digest(r) == [study |-> req[r].study, code |-> req[r].code, rev |-> req[r].rev, seen |-> req[r].seen]

(* findExistingCommand and decideAnalysisCriterionPromotionCommand *)
DecisionByKey(r) ==     \* Faulty variant: the digest of the request is not compared
  CASE \E p \in promotions : p.key = req[r].key -> "replay"
    [] \E p \in promotions : p.code = req[r].code -> "code_already_promoted"
    [] OTHER -> "create"
Decision(r) ==
  CASE \E p \in promotions : p.key = req[r].key /\ p.digest = Digest(r) -> "replay"
    [] \E p \in promotions : p.key = req[r].key /\ p.digest # Digest(r) -> "idempotency_conflict"
    [] \E p \in promotions : p.code = req[r].code /\ p.key # req[r].key -> "code_already_promoted"
    [] OTHER -> "create"

Release(e) ==
  /\ studyLock' = [s \in Studies |-> IF studyLock[s] = e THEN None ELSE studyLock[s]]
  /\ taxonomyLock' = IF taxonomyLock = e THEN None ELSE taxonomyLock
Goto(e, pc) == x' = [x EXCEPT ![e].pc = pc] /\ UNCHANGED <<answers, locks>>
Answer(e, a) ==
  /\ x' = [x EXCEPT ![e] = Idle]
  /\ answers' = [answers EXCEPT ![x[e].r] = a]
  /\ Release(e)

(* ensureOwnerSubject and the first look at what exists *)
Execute(e, r) ==
  /\ x[e].pc = "idle" /\ req[r].pc = "asked"
  /\ LET d == Decision(r) IN
     \/ /\ d = "create" /\ x' = [x EXCEPT ![e] = [pc |-> "study", r |-> r]] /\ UNCHANGED answers
     \/ /\ d # "create" /\ answers' = [answers EXCEPT ![r] = d] /\ UNCHANGED x
  /\ UNCHANGED <<evidence, promotions, req, locks, faults>>

LockStudy(e) ==
  /\ x[e].pc = "study" /\ studyLock[req[x[e].r].study] = None
  /\ studyLock' = [studyLock EXCEPT ![req[x[e].r].study] = e]
  /\ x' = [x EXCEPT ![e].pc = "taxonomy"]
  /\ UNCHANGED <<evidence, promotions, req, answers, taxonomyLock, faults>>

LockTaxonomy(e) ==
  /\ x[e].pc = "taxonomy" /\ taxonomyLock = None
  /\ taxonomyLock' = e
  /\ x' = [x EXCEPT ![e].pc = "decide"]
  /\ UNCHANGED <<evidence, promotions, req, answers, studyLock, faults>>

(* Both locks are held: the decision is taken again. *)
OnlyTheFirstLook(e) ==    \* Faulty variant: what exists is not looked at again
  /\ x[e].pc = "decide" /\ Goto(e, "context")
  /\ UNCHANGED <<evidence, promotions, req, faults>>
Decide(e) ==
  LET d == Decision(x[e].r) IN
  /\ x[e].pc = "decide"
  /\ IF d = "create" THEN Goto(e, "context") ELSE Answer(e, d)
  /\ UNCHANGED <<evidence, promotions, req, faults>>

(* loadPromotionContext with assertPromotionContext, which the guard of    *)
(* the row repeats under the same locks: the closed study, the exact head  *)
(* of the taxonomy and an active code.                                     *)
ContextOfAnyRevision(r) ==      \* Faulty variant: the revision need not be the head
  CASE ~Closed(req[r].study) -> "state_conflict"
    [] revs[req[r].rev][req[r].code] # "active" -> "code_conflict"
    [] OTHER -> "exact"
Context(r) ==
  CASE ~Closed(req[r].study) -> "state_conflict"
    [] req[r].rev # TaxonomyHead -> "taxonomy_conflict"
    [] revs[req[r].rev][req[r].code] # "active" -> "code_conflict"
    [] OTHER -> "exact"

LoadContext(e) ==
  LET c == Context(x[e].r) IN
  /\ x[e].pc = "context"
  /\ IF c = "exact" THEN Goto(e, "insert") ELSE Answer(e, c)
  /\ UNCHANGED <<evidence, promotions, req, faults>>

(* loadCandidateEvidence, the inserts, their guards and the commit.  The   *)
(* answer is read after the commit.                                        *)
Insert(e) ==
  LET r == x[e].r
      q == req[r]
      p == [code |-> q.code, key |-> q.key, digest |-> Digest(r), study |-> q.study, rev |-> q.rev,
            supports |-> [o \in q.seen |-> AssignedAt(o, q.rev, q.code)]]
      exact == Context(r) = "exact" /\ q.seen \subseteq Evidence(q.study, q.rev, q.code)
      unique == \A old \in promotions : old.code # q.code /\ old.key # q.key
  IN /\ x[e].pc = "insert"
     /\ \/ /\ exact /\ unique
           /\ promotions' = promotions \cup {p}
           /\ x' = [x EXCEPT ![e].pc = "answer"] /\ Release(e) /\ UNCHANGED answers
        \/ /\ exact /\ ~unique
           /\ Answer(e, "idempotency_conflict") /\ UNCHANGED promotions
        \/ /\ ~exact
           /\ Answer(e, "support_conflict") /\ UNCHANGED promotions
     /\ UNCHANGED <<evidence, req, faults>>

LoadCreateResult(e) ==
  /\ x[e].pc = "answer" /\ Answer(e, "created")
  /\ UNCHANGED <<evidence, promotions, req, faults>>

Fault(e) ==
  /\ faults < MaxFaults /\ faults' = faults + 1
  /\ x[e].pc # "idle"
  /\ x' = [x EXCEPT ![e] = Idle] /\ Release(e)
  /\ UNCHANGED <<evidence, promotions, req, answers>>

Coding ==
  \/ \E o \in Observations : WithdrawFailure(o) \/ \E c \in Codes : Assign(o, c)
  \/ \E s \in Studies : CloseStudy(s)
  \/ \E codes \in [Codes -> {"active", "retired"}] : Revise(codes)

Next ==
  \/ Coding
  \/ \E r \in Requests : ListCandidates(r) \/ \E s \in Studies, c \in Codes : Read(r, s, c)
  \/ \E e \in Executions :
       \/ \E r \in Requests : Execute(e, r)
       \/ LockStudy(e) \/ LockTaxonomy(e) \/ Decide(e) \/ LoadContext(e) \/ Insert(e) \/ LoadCreateResult(e)
       \/ Fault(e)

Spec == Init /\ [][Next]_vars

(* The client comes back to a request without an answer; an advisory lock  *)
(* is granted in turn.                                                     *)
Fairness ==
  /\ \A r \in Requests : SF_vars(answers[r] = None /\ \E e \in Executions : Execute(e, r))
  /\ \A e \in Executions :
       /\ SF_vars(LockStudy(e)) /\ SF_vars(LockTaxonomy(e))
       /\ WF_vars(Decide(e) \/ LoadContext(e) \/ Insert(e) \/ LoadCreateResult(e))
FairSpec == Spec /\ Fairness

-----------------------------------------------------------------------------
(* Every variable keeps its type; a lock is held by an execution that has  *)
(* taken the locks that come before it.                                    *)
TypeOK ==
  /\ \A r \in Requests : req[r].pc \in {"new", "reading", "asked"}
  /\ taxonomyLock # None => x[taxonomyLock].pc \in {"decide", "context", "insert"}
  /\ \A s \in Studies : studyLock[s] # None =>
       x[studyLock[s]].pc \in {"taxonomy", "decide", "context", "insert"} /\ req[x[studyLock[s]].r].study = s

(* createPromotion binds the code at the head of the taxonomy: when it     *)
(* commits, the study is closed, the revision it names has no successor    *)
(* and the code is in use there, however long ago the client looked.       *)
HeadStep ==
  \A p \in promotions' \ promotions :
    Closed(p.study) /\ p.rev = TaxonomyHead /\ revs[TaxonomyHead][p.code] = "active"
PromotedAtTheHead == [][HeadStep]_vars

(* The supports are what the coders left in the closure of the study, and  *)
(* the closure's own assignments: nothing withdrawn, reassigned or coded   *)
(* otherwise stands behind a criterion.                                    *)
SupportsAreTheClosure ==
  \A p \in promotions :
    /\ DOMAIN p.supports # {} /\ DOMAIN p.supports \subseteq DOMAIN closure[p.study]
    /\ \A o \in DOMAIN p.supports :
         /\ p.supports[o] = closure[p.study][o]
         /\ assign[o][Len(assign[o])].code = p.code

(* A client that read all pages and promotes what it saw promotes every    *)
(* observation of the code: a list cut short by a revision in between is   *)
(* refused.                                                                *)
NothingSeenIsMissing ==
  \A p \in promotions : DOMAIN p.supports = {o \in DOMAIN closure[p.study] : assign[o] # <<>> /\ assign[o][Len(assign[o])].code = p.code}

(* A request whose promotion has been committed is answered with it, when  *)
(* executions overlap and when the head has moved on.                      *)
ReplayStep ==
  \A r \in Requests : req[r].pc = "asked" /\ answers'[r] # answers[r] /\ (\E p \in promotions : p.key = req[r].key /\ p.digest = Digest(r)) =>
    answers'[r] \in {"replay", "created"}
RepeatIsReplayed == [][ReplayStep]_vars

(* A request is told of success only of its own promotion, and of a        *)
(* conflict only when another one holds its key or its code.               *)
AnswersAreTrue ==
  \A r \in Requests :
    CASE answers[r] \in {"replay", "created"} -> \E p \in promotions : p.key = req[r].key /\ p.digest = Digest(r)
      [] answers[r] = "code_already_promoted" -> \E p \in promotions : p.code = req[r].code
      [] answers[r] = "idempotency_conflict" -> \E p \in promotions : p.key = req[r].key /\ p.digest # Digest(r)
      [] OTHER -> TRUE

(* Whoever asks is answered: the locks are taken in one order and do not   *)
(* outlive their transaction.                                              *)
RequestsAreAnswered ==
  \A r \in Requests : req[r].pc = "asked" ~> answers[r] # None
=============================================================================
