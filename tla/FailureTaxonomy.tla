-------------------------- MODULE FailureTaxonomy --------------------------
(***************************************************************************)
(* The failure taxonomy of a project, revised while coders assign its codes*)
(* to the failures they observed in an open study.                         *)
(*                                                                         *)
(* Source: createTaxonomy, createTaxonomyRevision, appendObservation-      *)
(* Assignment and getTaxonomyCoverage of analysis-study/repository.pg.ts,  *)
(* lib/analysis-study.ts and their guards in the baseline migration.       *)
(*                                                                         *)
(* A revision is written under the lock of the taxonomy; an assignment     *)
(* under the lock of its study and then that of the taxonomy.  A revision  *)
(* is its position in the chain, a code its stable id.                     *)
(***************************************************************************)
EXTENDS Naturals, Sequences, SequencesExt

CONSTANTS
  Codes,         \* analysis_failure_codes, fresh ids included
  Labels,        \* label and definition of a code
  Observations,  \* failure_observed events of the study
  Requests,      \* idempotency keys: one command each
  Executions,    \* a request may be executed more than once, and at a time
  MaxRevisions,  \* bound: revisions
  MaxFaults      \* bound: connections that die inside a command

BoundsAssumption == MaxRevisions \in Nat /\ MaxFaults \in Nat

None == "none"
NoneAssumption == None \notin Codes \cup Requests \cup Executions

VARIABLES
  revs,      \* analysis_failure_taxonomy_revisions with their codes
  assign,    \* analysis_observation_assignment_events of each observation
  active,    \* observations that were not withdrawn
  study,     \* "open", "due" once its deadline passed, or "closed"
  closure,   \* the assignment heads the closure snapshot
  req,       \* the command each key was sent with
  studyLock, taxonomyLock,
  x,         \* executions
  faults

vars == <<revs, assign, active, study, closure, req, studyLock, taxonomyLock, x, faults>>
evidence == <<revs, assign, active, study, closure>>

Idle == [pc |-> "idle", key |-> None]

Init ==
  /\ revs = <<>>
  /\ assign = [o \in Observations |-> <<>>] /\ active = Observations
  /\ study = "open" /\ closure = [o \in {} |-> <<>>]
  /\ req = [k \in Requests |-> [kind |-> None]]
  /\ studyLock = None /\ taxonomyLock = None
  /\ x = [e \in Executions |-> Idle]
  /\ faults = 0

-----------------------------------------------------------------------------
(* The head of an observation's assignments as of a revision. *)
AssignmentHead(o, r) ==
  LET upTo == {n \in DOMAIN assign[o] : assign[o][n].rev <= r}
  IN IF upTo = {} THEN [type |-> "withdrawn"]
     ELSE assign[o][CHOOSE n \in upTo : \A m \in upTo : m <= n]

(* The bucket analysis_taxonomy_coverage_v1 counts an observation in. *)
Coverage(o, r) ==
  LET h == AssignmentHead(o, r) IN
  CASE h.type = "withdrawn" -> "uncategorized"
    [] h.type = "assigned" /\ h.code \in DOMAIN revs[r].codes ->
         IF revs[r].codes[h.code].status = "active" THEN "categorized" ELSE "assigned_to_retired_code"
    [] OTHER -> "uncategorized"

(* computeAnalysisTaxonomyCoverage, which takes the events in their order  *)
(* and throws for a code that the target revision does not have.           *)
Computed(o, r) ==
  LET h == FoldLeft(LAMBDA prior, event : IF event.rev > r THEN prior ELSE event, [type |-> "withdrawn"], assign[o]) IN
  IF h.type = "withdrawn" THEN "uncategorized"
  ELSE IF h.code \notin DOMAIN revs[r].codes THEN "throws"
  ELSE IF revs[r].codes[h.code].status = "active" THEN "categorized" ELSE "assigned_to_retired_code"

-----------------------------------------------------------------------------
Known(codes) == {c \in DOMAIN codes : codes[c].status = "active"}

WellFormed(codes) ==
  /\ DOMAIN codes # {}
  /\ \A c, d \in Known(codes) : codes[c].label = codes[d].label => c = d

(* assertAnalysisTaxonomyRevision, and the deferred guard of the revision. *)
SuccessorRevived(prior, codes) ==        \* Faulty variant: a retired code may be taken up again
  /\ DOMAIN prior \subseteq DOMAIN codes
  /\ \A c \in DOMAIN codes \ DOMAIN prior : codes[c].status = "active"
SuccessorWithoutDropped(prior, codes) ==    \* Faulty variant: a code may be left out
  /\ \A c \in DOMAIN prior \cap DOMAIN codes :
       prior[c].status = "retired" \/ codes[c].status = "retired" => codes[c] = [prior[c] EXCEPT !.status = "retired"]
  /\ \A c \in DOMAIN codes \ DOMAIN prior : codes[c].status = "active"
Successor(prior, codes) ==
  /\ DOMAIN prior \subseteq DOMAIN codes
  /\ \A c \in DOMAIN prior :
       prior[c].status = "retired" \/ codes[c].status = "retired" => codes[c] = [prior[c] EXCEPT !.status = "retired"]
  /\ \A c \in DOMAIN codes \ DOMAIN prior : codes[c].status = "active"

CodeSets == UNION {[C -> [status : {"active", "retired"}, label : Labels]] : C \in SUBSET Codes \ {{}}}

(* A client sends what it saw: the head of the taxonomy it revises, or the *)
(* revision and the version of the assignments it goes on from.            *)
Ask(k) ==
  /\ req[k].kind = None
  /\ \/ \E codes \in CodeSets :
          /\ WellFormed(codes)
          /\ revs = <<>> => Known(codes) = DOMAIN codes
          /\ req' = [req EXCEPT ![k] =
               [kind |-> IF revs = <<>> THEN "create" ELSE "revise", on |-> Len(revs), codes |-> codes]]
     \/ \E o \in Observations, type \in {"assigned", "withdrawn"} :
          /\ revs # <<>> /\ (type = "withdrawn" => assign[o] # <<>>)
          /\ \E c \in Known(revs[Len(revs)].codes) :
               req' = [req EXCEPT ![k] = [kind |-> "assign", type |-> type, on |-> Len(assign[o]),
                         observation |-> o, rev |-> Len(revs),
                         code |-> IF type = "assigned" THEN c ELSE assign[o][Len(assign[o])].code]]
  /\ UNCHANGED <<evidence, studyLock, taxonomyLock, x, faults>>

IsStored(k) ==
  \/ \E r \in DOMAIN revs : revs[r].key = k
  \/ \E o \in Observations : \E n \in DOMAIN assign[o] : assign[o][n].key = k

Goto(e, pc) == x' = [x EXCEPT ![e].pc = pc]
End(e) == x' = [x EXCEPT ![e] = Idle]
Release(e) ==
  /\ studyLock' = IF studyLock = e THEN None ELSE studyLock
  /\ taxonomyLock' = IF taxonomyLock = e THEN None ELSE taxonomyLock
Hold == UNCHANGED <<studyLock, taxonomyLock>>

(* The heads an active failure has when coding closes. *)
Close ==
  /\ study' = "closed"
  /\ closure' = [o \in active |-> assign[o]]
  /\ UNCHANGED <<revs, assign, active>>

Execute(e, k) ==
  /\ x[e].pc = "idle" /\ req[k].kind # None
  /\ x' = [x EXCEPT ![e] = [pc |-> IF IsStored(k) THEN "idle" ELSE IF req[k].kind = "assign" THEN "ensure" ELSE "taxonomy",
                            key |-> IF IsStored(k) THEN None ELSE k]]
  /\ Hold /\ UNCHANGED <<evidence, req, faults>>

EnsureDueClosure(e) ==
  /\ x[e].pc \in {"ensure", "after"} /\ studyLock = None
  /\ IF study = "due" THEN Close ELSE UNCHANGED evidence
  /\ IF x[e].pc = "ensure" THEN Goto(e, "study") ELSE End(e)
  /\ Hold /\ UNCHANGED <<req, faults>>

LockStudy(e) ==
  /\ x[e].pc = "study" /\ studyLock = None
  /\ studyLock' = e /\ Goto(e, "taxonomy")
  /\ UNCHANGED <<evidence, req, taxonomyLock, faults>>

(* The reads under the lock: the replay, the deadline and, for a revision, *)
(* the head it names.                                                      *)
LockTaxonomyOfRevisions(e) ==    \* Faulty variant: an assignment does not hold the taxonomy
  LET r == req[x[e].key] IN
  /\ x[e].pc = "taxonomy" /\ taxonomyLock = None
  /\ \/ /\ IsStored(x[e].key) \/ (r.kind # "assign" /\ Len(revs) # r.on)
        /\ End(e) /\ Release(e) /\ UNCHANGED evidence
     \/ /\ ~IsStored(x[e].key) /\ r.kind = "assign" /\ study = "due"
        /\ Close /\ End(e) /\ Release(e)
     \/ /\ ~IsStored(x[e].key) /\ ~(r.kind = "assign" /\ study = "due") /\ (r.kind # "assign" => Len(revs) = r.on)
        /\ taxonomyLock' = (IF r.kind = "assign" THEN taxonomyLock ELSE e) /\ Goto(e, "insert")
        /\ UNCHANGED <<studyLock, evidence>>
  /\ UNCHANGED <<req, faults>>
LockTaxonomy(e) ==
  LET r == req[x[e].key] IN
  /\ x[e].pc = "taxonomy" /\ taxonomyLock = None
  /\ \/ /\ IsStored(x[e].key) \/ (r.kind # "assign" /\ Len(revs) # r.on)
        /\ End(e) /\ Release(e) /\ UNCHANGED evidence
     \/ /\ ~IsStored(x[e].key) /\ r.kind = "assign" /\ study = "due"
        /\ Close /\ End(e) /\ Release(e)
     \/ /\ ~IsStored(x[e].key) /\ ~(r.kind = "assign" /\ study = "due") /\ (r.kind # "assign" => Len(revs) = r.on)
        /\ taxonomyLock' = e /\ Goto(e, "insert")
        /\ UNCHANGED <<studyLock, evidence>>
  /\ UNCHANGED <<req, faults>>

(* createTaxonomy and createTaxonomyRevision *)
InsertRevision(e) ==
  LET r == req[x[e].key] IN
  /\ x[e].pc = "insert" /\ r.kind # "assign"
  /\ Len(revs) < MaxRevisions
  /\ IF WellFormed(r.codes) /\ (revs # <<>> => Successor(revs[Len(revs)].codes, r.codes))
     THEN revs' = Append(revs, [codes |-> r.codes, key |-> x[e].key]) ELSE UNCHANGED revs
  /\ End(e) /\ Release(e)
  /\ UNCHANGED <<assign, active, study, closure, req, faults>>

(* guard_analysis_observation_assignment_event *)
AssignableByVersion(r) ==            \* Faulty variant: only the version and the head are compared
  /\ r.rev = Len(revs)
  /\ r.on = Len(assign[r.observation])
  /\ r.type = "assigned" => r.code \in Known(revs[r.rev].codes)
Assignable(r) ==
  /\ study = "open" /\ r.observation \in active
  /\ r.rev = Len(revs)
  /\ r.on = Len(assign[r.observation])
  /\ r.on = 0 => r.type = "assigned"
  /\ r.on > 0 => assign[r.observation][r.on].rev <= r.rev
  /\ r.type = "assigned" => r.code \in Known(revs[r.rev].codes)

AppendObservationAssignment(e) ==
  LET r == req[x[e].key] IN
  /\ x[e].pc = "insert" /\ r.kind = "assign"
  /\ IF Assignable(r)
     THEN Goto(e, "commit") /\ Hold
     ELSE Goto(e, "after") /\ Release(e)
  /\ UNCHANGED <<evidence, req, faults>>

(* What the guard compared holds until the commit because of both locks.   *)
Commit(e) ==
  LET r == req[x[e].key] IN
  /\ x[e].pc = "commit"
  /\ assign' = [assign EXCEPT ![r.observation] =
                  Append(@, [type |-> r.type, code |-> r.code, rev |-> r.rev, key |-> x[e].key])]
  /\ End(e) /\ Release(e)
  /\ UNCHANGED <<revs, active, study, closure, req, faults>>

-----------------------------------------------------------------------------
(* The study goes on under its own lock: a failure is withdrawn, the       *)
(* deadline passes, coding is closed.                                      *)
WithdrawFailure(o) ==
  /\ study = "open" /\ studyLock = None /\ o \in active
  /\ active' = active \ {o}
  /\ Hold /\ UNCHANGED <<revs, assign, study, closure, req, x, faults>>

Deadline ==
  /\ study = "open" /\ study' = "due"
  /\ Hold /\ UNCHANGED <<revs, assign, active, closure, req, x, faults>>

CloseStudy ==
  /\ study \in {"open", "due"} /\ studyLock = None
  /\ Close
  /\ Hold /\ UNCHANGED <<req, x, faults>>

Fault(e) ==
  /\ faults < MaxFaults /\ faults' = faults + 1
  /\ x[e].pc # "idle"
  /\ End(e) /\ Release(e)
  /\ UNCHANGED <<evidence, req>>

Next ==
  \/ Deadline \/ CloseStudy \/ \E o \in Observations : WithdrawFailure(o)
  \/ \E k \in Requests : Ask(k) \/ \E e \in Executions : Execute(e, k)
  \/ \E e \in Executions :
       \/ EnsureDueClosure(e) \/ LockStudy(e) \/ LockTaxonomy(e)
       \/ InsertRevision(e) \/ AppendObservationAssignment(e) \/ Commit(e) \/ Fault(e)

Spec == Init /\ [][Next]_vars

-----------------------------------------------------------------------------
(* Every variable keeps its type, and a lock is held by an execution that  *)
(* has the other locks it must take first.                                 *)
TypeOK ==
  /\ \A r \in DOMAIN revs : WellFormed(revs[r].codes)
  /\ \A o \in Observations, n \in 1 .. 1 : n \in DOMAIN assign[o] => assign[o][n].type = "assigned"
  /\ taxonomyLock # None => x[taxonomyLock].pc \in {"insert", "commit"}
  /\ studyLock # None => x[studyLock].pc \in {"taxonomy", "insert", "commit"}

(* A code is never lost: the coverage the database computes of any         *)
(* revision is the one lib/analysis-study.ts computes, which refuses an    *)
(* assignment to a code that the revision does not have.                   *)
CoverageAgrees ==
  \A o \in Observations, r \in DOMAIN revs : Coverage(o, r) = Computed(o, r)

(* Once a revision has a successor, no assignment is counted under it that *)
(* was not there, and none changes: its coverage moves only by failures    *)
(* that are withdrawn.                                                     *)
PastCoverageStep ==
  \A r \in DOMAIN revs : r < Len(revs) => \A o \in Observations : AssignmentHead(o, r)' = AssignmentHead(o, r)
PastCoverageStands == [][PastCoverageStep]_vars

(* The closure holds the assignments of the failures that were active, and *)
(* they stay what they were.                                               *)
ClosureHoldsTheAssignments ==
  study = "closed" => active = DOMAIN closure /\ \A o \in active : closure[o] = assign[o]

(* A retired code keeps its text, and its assignments stay its own.        *)
RetiredStaysRetired ==
  \A r \in DOMAIN revs, s \in DOMAIN revs : r < s =>
    \A c \in DOMAIN revs[r].codes \ Known(revs[r].codes) :
      c \in DOMAIN revs[s].codes /\ revs[s].codes[c] = revs[r].codes[c]
=============================================================================
