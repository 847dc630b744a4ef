------------------------- MODULE EvaluatorLifecycle -------------------------
(***************************************************************************)
(* The governed evaluator versions of one criterion: handlers of           *)
(* PgEvaluatorLifecycleRepository (createCandidate, appendOwnerTransition, *)
(* authorizeExecution) and of a calibration revocation, each a READ        *)
(* COMMITTED transaction that sees what was committed at each statement,   *)
(* over the append-only event chains and the authorizations they grant.    *)
(* The criteria row is the lock of the lineage; an exposure of calibration *)
(* evidence takes another lock and commits whenever it likes.              *)
(*                                                                         *)
(* A version's events are named by their place in its chain: the unique    *)
(* (lifecycle, sequence) and the append-only guard make that a digest.     *)
(***************************************************************************)
EXTENDS Naturals, Sequences, FiniteSets

CONSTANTS
    Handlers,      \* requests served at the same time
    Versions,      \* skill versions that may become candidates
    Artifacts,     \* complete calibration artifacts
    CalibrationOf, \* the version each artifact calibrates
    Keys,          \* idempotency keys
    Nobody, None,
    Candidates,    \* versions that are candidates from the start
    Kinds,         \* the kinds of command this instance asks
    MaxCommands,   \* bound: requests made
    MaxFaults      \* bound: failed statements and lost answers

NamesAssumption == Nobody \notin Handlers /\ None \notin Versions \cup Artifacts \cup Keys
EvidenceAssumption ==
    /\ CalibrationOf \in [Artifacts -> Versions] /\ Candidates \subseteq Versions
    /\ IsFiniteSet(Versions)
BoundsAssumption == MaxCommands \in Nat /\ MaxFaults \in Nat

VARIABLES
    chain,    \* evaluator_lifecycle_events, committed, by version
    revoked,  \* artifacts with a committed revocation event
    exposed,  \* artifacts whose revision was exposed after completion
    grants,   \* evaluator_execution_authorizations by idempotency key
    lock,     \* who holds the criteria row
    h,        \* the handlers
    asked, faults

vars == <<chain, revoked, exposed, grants, lock, h, asked, faults>>
rows == <<chain, revoked, exposed, grants>>

Owner == {"create", "activate", "retire"}
StateAfter == [candidate_created |-> "candidate", activated |-> "active",
               retired |-> "retired", calibration_revoked |-> "needs_review"]

(* A command is its request digest: what it names and what it was shown.   *)
NoCommand == [kind |-> "none", key |-> None, v |-> None, head |-> 0,
              prior |-> <<None, 0>>, a |-> None]
SeedOf(k)  == [NoCommand EXCEPT !.kind = "create", !.key = k]
Event(t, c, a) == [transition |-> t, cmd |-> c, a |-> a]

Idle == [pc |-> "idle", cmd |-> NoCommand, writes |-> [v \in Versions |-> <<>>],
         base |-> [v \in Versions |-> 0], revokes |-> None, grant |-> None, answer |-> "none"]

Init ==
    /\ chain = [v \in Versions |->
                  IF v \in Candidates THEN <<Event("candidate_created", SeedOf(None), None)>> ELSE <<>>]
    /\ revoked = {} /\ exposed = {}
    /\ grants = [k \in Keys |-> None]
    /\ lock = Nobody
    /\ h = [x \in Handlers |-> Idle]
    /\ asked = 0 /\ faults = 0

-----------------------------------------------------------------------------
(* What the rows say.                                                      *)

Exists(v)    == chain[v] # <<>>
HeadOf(v)    == chain[v][Len(chain[v])]
State(v)     == IF Exists(v) THEN StateAfter[HeadOf(v).transition] ELSE "none"
Active       == {v \in Versions : State(v) = "active"}
Shown(v)     == <<v, Len(chain[v])>>

(* evaluator_skill_version_context_allowed_v1 for a production context.    *)
Admissible(v) == State(v) = "active" /\ HeadOf(v).a \notin revoked \cup exposed
Allowed(v)    == Exists(v) /\ State(v) # "retired" /\ Admissible(v)

(* The events an idempotency key already has; a replaced version's         *)
(* retirement carries a key of its own.                                    *)
EventsOf(c) ==
    UNION {{v} \X {i \in 1 .. Len(chain[v]) :
                     /\ chain[v][i].cmd.key = c.key
                     /\ IF c.kind = "create" THEN i = 1
                        ELSE i > 1 /\ chain[v][i].cmd.v = v} : v \in Versions}
Done(c) == \E e \in EventsOf(c) : chain[e[1]][e[2]].cmd = c

(* guard_evaluator_lifecycle_event_v1.                                     *)
Follows(s, t) == \/ s \in {"candidate", "needs_review"} /\ t \in {"activated", "retired"}
                 \/ s = "active" /\ t \in {"calibration_revoked", "retired"}

(* Faulty variant: any complete artifact activates.                        *)
EvidenceUnchecked(v, a) == CalibrationOf[a] = v
Evidence(v, a) == CalibrationOf[a] = v /\ a \notin revoked \cup exposed

-----------------------------------------------------------------------------
(* The handlers.                                                           *)

At(x, pc)     == h[x].pc = pc
Goto(x, pc)   == h' = [h EXCEPT ![x].pc = pc]
NoFault       == faults' = faults
Fault         == faults < MaxFaults /\ faults' = faults + 1

(* Commit or rollback, the lock released.                                  *)
End(x, answer) ==
    /\ h' = [h EXCEPT ![x] = [Idle EXCEPT !.pc = "end", !.cmd = h[x].cmd, !.answer = answer]]
    /\ lock' = IF lock = x THEN Nobody ELSE lock

(* Faulty variant: the locked row is not the criterion's.                  *)
LockFreeAlways(x) == lock = lock
LockFree(x) == lock = Nobody

(* A caller reads a projection and asks; or asks again, same key and all.  *)
Commands ==
    {[NoCommand EXCEPT !.kind = "create", !.key = k] : k \in Keys}
    \cup {[NoCommand EXCEPT !.kind = "retire", !.key = k, !.v = v, !.head = Len(chain[v])] :
            k \in Keys, v \in {w \in Versions : Exists(w)}}
    \cup {[kind |-> "activate", key |-> k, v |-> CalibrationOf[a],
           head |-> Len(chain[CalibrationOf[a]]),
           prior |-> IF Active \ {CalibrationOf[a]} = {} THEN <<None, 0>>
                     ELSE Shown(CHOOSE w \in Active \ {CalibrationOf[a]} : TRUE), a |-> a] :
            k \in Keys, a \in {b \in Artifacts : Exists(CalibrationOf[b])}}
    \cup {[NoCommand EXCEPT !.kind = "authorize", !.key = k, !.v = v] :
            k \in Keys, v \in {w \in Versions : Exists(w)}}
    \cup {[NoCommand EXCEPT !.kind = "revoke", !.a = a] : a \in Artifacts \ revoked}

Ask(x) ==
    /\ h[x].pc \in {"idle", "end"} /\ asked < MaxCommands
    /\ \E c \in {d \in Commands : d.kind \in Kinds} \cup {h[y].cmd : y \in Handlers} :
         /\ c # NoCommand
         /\ h' = [h EXCEPT ![x] = [Idle EXCEPT !.cmd = c, !.pc =
                    IF c.kind \in Owner THEN "look"
                    ELSE IF c.kind = "authorize" THEN "read" ELSE "lock"]]
    /\ asked' = asked + 1
    /\ UNCHANGED <<rows, lock, faults>>

Replay(x) ==
    /\ EventsOf(h[x].cmd) # {}
    /\ End(x, IF Done(h[x].cmd) THEN "replayed" ELSE "conflict")

(* The first lookup of the key, before any lock.                           *)
Look(x) ==
    /\ At(x, "look")
    /\ \/ Replay(x)
       \/ EventsOf(h[x].cmd) = {} /\ Goto(x, "lock") /\ UNCHANGED lock
    /\ UNCHANGED <<rows, asked, faults>>

(* select ... from criteria ... for update, by the command or by the       *)
(* triggers of a revocation and of an authorization.                       *)
Lock(x) ==
    /\ At(x, "lock") /\ LockFree(x)
    /\ lock' = x
    /\ Goto(x, IF h[x].cmd.kind \in Owner THEN "recheck" ELSE h[x].cmd.kind)
    /\ UNCHANGED <<rows, asked, faults>>

Recheck(x) ==
    /\ At(x, "recheck")
    /\ \/ Replay(x)
       \/ EventsOf(h[x].cmd) = {} /\ Goto(x, h[x].cmd.kind) /\ UNCHANGED lock
    /\ UNCHANGED <<rows, asked, faults>>

Write(x, w, revokes, grant) ==
    h' = [h EXCEPT ![x].pc = "check", ![x].writes = w, ![x].revokes = revokes,
                   ![x].grant = grant, ![x].base = [v \in Versions |-> Len(chain[v])]]

Nothing == [v \in Versions |-> <<>>]
Refuse(x) == End(x, "refused")

(* The candidate's lifecycle, its regression revision, its version and the *)
(* seed event, one transaction under a fresh version id.                   *)
Create(x) ==
    /\ At(x, "create")
    /\ \/ \E v \in Versions :
            /\ ~Exists(v)
            /\ Write(x, [Nothing EXCEPT ![v] = <<Event("candidate_created", h[x].cmd, None)>>], None, None)
            /\ UNCHANGED lock
       \/ Refuse(x)      \* evidence or identity that does not match
    /\ UNCHANGED <<rows, asked, faults>>

(* Faulty variant: the head is read under the lock and not compared with   *)
(* the one the owner was shown.                                            *)
ExpectedAnyHead(c) == Exists(c.v)
Expected(c) == Exists(c.v) /\ c.head = Len(chain[c.v])

PriorMatches(c) ==
    LET others == Active \ {c.v} IN
    IF others = {} THEN c.prior = <<None, 0>> ELSE \E w \in others : c.prior = Shown(w)

Activate(x) ==
    LET c == h[x].cmd
        new == Event("activated", c, c.a)
        out == Event("retired", c, None) IN
    /\ At(x, "activate")
    /\ IF Expected(c) /\ PriorMatches(c) /\ Follows(State(c.v), "activated") /\ Evidence(c.v, c.a)
       THEN /\ Write(x, [v \in Versions |-> IF v = c.v THEN <<new>>
                                            ELSE IF v = c.prior[1] THEN <<out>> ELSE <<>>], None, None)
            /\ UNCHANGED lock
       ELSE Refuse(x)
    /\ UNCHANGED <<rows, asked, faults>>

Retire(x) ==
    LET c == h[x].cmd IN
    /\ At(x, "retire")
    /\ IF Expected(c) /\ Follows(State(c.v), "retired")
       THEN /\ Write(x, [Nothing EXCEPT ![c.v] = <<Event("retired", c, None)>>], None, None)
            /\ UNCHANGED lock
       ELSE Refuse(x)
    /\ UNCHANGED <<rows, asked, faults>>

(* The AFTER trigger moves the active version that cites the artifact to   *)
(* needs_review in the transaction of the revocation.                      *)
Revoke(x) ==
    LET c == h[x].cmd
        citing == {v \in Active : HeadOf(v).a = c.a} IN
    /\ At(x, "revoke")
    /\ IF c.a \in revoked THEN Refuse(x)
       ELSE /\ Write(x, [v \in Versions |-> IF v \in citing
                           THEN <<Event("calibration_revoked", c, None)>> ELSE <<>>], c.a, None)
            /\ UNCHANGED lock
    /\ UNCHANGED <<rows, asked, faults>>

-----------------------------------------------------------------------------
(* authorizeExecution for a production context: the head is read without   *)
(* the lock, the trigger takes the lock and reads it again.                *)

ReadHead(x) ==
    /\ At(x, "read")
    /\ IF Exists(h[x].cmd.v)
       THEN h' = [h EXCEPT ![x].pc = "lock", ![x].grant = Shown(h[x].cmd.v)] /\ UNCHANGED lock
       ELSE Refuse(x)
    /\ UNCHANGED <<rows, asked, faults>>

(* The insert does nothing when the key is taken, the digests are then     *)
(* compared; a digest covers the version, the event and the artifact.      *)
Authorize(x) ==
    LET c == h[x].cmd IN
    /\ At(x, "authorize")
    /\ IF ~Allowed(c.v) \/ h[x].grant # Shown(c.v) \/ grants[c.key] \notin {None, h[x].grant}
       THEN Refuse(x)
       ELSE Write(x, Nothing, None, h[x].grant) /\ UNCHANGED lock
    /\ UNCHANGED <<rows, asked, faults>>

-----------------------------------------------------------------------------
(* The end of a transaction.                                               *)

After(x) == [v \in Versions |-> chain[v] \o h[x].writes[v]]

(* guard_evaluator_lineage_state_v1, deferred: it sees what is committed   *)
(* by now and its own writes.                                              *)
Check(x) ==
    LET a == After(x) IN
    /\ At(x, "check")
    /\ IF Cardinality({v \in Versions : a[v] # <<>> /\ a[v][Len(a[v])].transition = "activated"}) > 1
       THEN Refuse(x)
       ELSE Goto(x, "commit") /\ UNCHANGED lock
    /\ UNCHANGED <<rows, asked, faults>>

(* The unique (lifecycle_id, sequence) refuses a place that was taken.     *)
Commit(x) ==
    /\ At(x, "commit")
    /\ IF \E v \in Versions : h[x].writes[v] # <<>> /\ Len(chain[v]) # h[x].base[v]
       THEN NoFault /\ Refuse(x) /\ UNCHANGED rows
       ELSE /\ chain' = After(x)
            /\ revoked' = revoked \cup ({h[x].revokes} \ {None})
            /\ grants' = IF h[x].grant = None THEN grants
                         ELSE [grants EXCEPT ![h[x].cmd.key] = IF @ = None THEN h[x].grant ELSE @]
            /\ \/ NoFault /\ End(x, "done")
               \/ Fault /\ End(x, "lost")     \* committed, the answer is lost
            /\ UNCHANGED exposed
    /\ UNCHANGED asked

(* A failed statement or connection rolls the transaction back.            *)
Fail(x) ==
    /\ h[x].pc \notin {"idle", "end"}
    /\ Fault /\ End(x, "lost")
    /\ UNCHANGED <<rows, asked>>

(* A development exposure of the revision an artifact was made on.         *)
Expose ==
    /\ \E a \in Artifacts \ exposed : exposed' = exposed \cup {a}
    /\ "expose" \in Kinds
    /\ UNCHANGED <<chain, revoked, grants, lock, h, asked, faults>>

Advance(x) ==
    \/ Look(x) \/ Lock(x) \/ Recheck(x) \/ Create(x) \/ Activate(x) \/ Retire(x)
    \/ Revoke(x) \/ ReadHead(x) \/ Authorize(x) \/ Check(x) \/ Commit(x)

Next == Expose \/ \E x \in Handlers : Ask(x) \/ Advance(x) \/ Fail(x)

Spec == Init /\ [][Next]_vars
Fairness == \A x \in Handlers :
    /\ WF_vars(Look(x) \/ Recheck(x) \/ Create(x) \/ Activate(x) \/ Retire(x) \/ Revoke(x)
               \/ ReadHead(x) \/ Authorize(x) \/ Check(x) \/ Commit(x))
    /\ SF_vars(Lock(x))
FairSpec == Spec /\ Fairness

-----------------------------------------------------------------------------
(* Properties.                                                             *)

(* The variables keep their types.                                         *)
TypeOK ==
    /\ \A v \in Versions : \A i \in 1 .. Len(chain[v]) :
         chain[v][i].transition \in DOMAIN StateAfter /\ (chain[v][i].transition = "candidate_created") = (i = 1)
    /\ revoked \subseteq Artifacts /\ exposed \subseteq Artifacts
    /\ \A k \in Keys : grants[k] = None \/ grants[k] \in Versions \X Nat
    /\ lock \in Handlers \cup {Nobody}
    /\ asked \in 0 .. MaxCommands /\ faults \in 0 .. MaxFaults

(* ADR-0010: at most one evaluator version of a criterion is active, even  *)
(* when two owners activate different versions at the same time.           *)
AtMostOneActive == Cardinality(Active) <= 1

(* A committed revocation leaves no version active on the artifact, also   *)
(* when the activation that cites it was under way.                        *)
RevokedIsNotActive == \A v \in Active : HeadOf(v).a \notin revoked

(* What an owner's command adds to a chain follows the event the owner was *)
(* shown: of the version it names, and of the active one it replaces.      *)
FollowsWhatWasShown ==
    \A v \in Versions : chain'[v] # chain[v] /\ chain[v] # <<>> =>
      LET c == chain'[v][Len(chain'[v])].cmd IN
      c.kind \in Owner => \/ c.v = v /\ c.head = Len(chain[v])
                          \/ c.prior = <<v, Len(chain[v])>>
OwnerSawWhatItFollows == [][FollowsWhatWasShown]_vars

(* A command that already took effect is never refused: whoever repeats it *)
(* after a lost answer, or sends it twice, is told of the first event.     *)
ToldOfTheFirst ==
    \A x \in Handlers :
      h'[x].answer \in {"refused", "conflict"} /\ h[x].pc \notin {"idle", "end"}
      /\ h[x].cmd.kind \in Owner => ~Done(h[x].cmd)
RepeatIsReplayed == [][ToldOfTheFirst]_vars

(* An execution is told it may run only when the authorization stored      *)
(* under its key binds the head its version has at that moment, active on  *)
(* an artifact nobody revoked.                                             *)
GrantBindsTheHead ==
    \A x \in Handlers :
      h[x].cmd.kind = "authorize" /\ h[x].pc = "commit" /\ h'[x].answer = "done" =>
        /\ grants'[h[x].cmd.key] = Shown(h[x].cmd.v)
        /\ State(h[x].cmd.v) = "active" /\ HeadOf(h[x].cmd.v).a \notin revoked
GrantsBindTheHead == [][GrantBindsTheHead]_vars

(* No command waits for the lineage forever: every transaction that takes  *)
(* the criteria row gives it back, refused or failed ones too.             *)
CommandsAreAnswered == \A x \in Handlers : h[x].pc \notin {"idle", "end"} ~> h[x].pc \in {"idle", "end"}
=============================================================================
