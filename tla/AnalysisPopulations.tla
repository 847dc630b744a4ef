------------------------- MODULE AnalysisPopulations -------------------------
(***************************************************************************)
(* Freezing an analysis population: every eligible case whose ingestion    *)
(* time falls in a window, in order, and one random draw from them.        *)
(*   analysis-population/repository.pg.ts          createPopulation        *)
(*   analysis-population/repository.pg-support.ts  scans and inserts       *)
(*   lib/analysis-population.ts                    order, bounds, draw     *)
(*                                                                         *)
(* A creation holds a session lock of the project, reads one repeatable    *)
(* snapshot, and writes everything in one transaction.  The time of a case *)
(* is the time its transaction began, and it is seen when that commits.    *)
(* The payloads of cases are left out: they do not change.  Time is counted *)
(* in minutes, the lag of the window being one.                            *)
(***************************************************************************)
EXTENDS Naturals, Sequences, FiniteSets, SequencesExt

CONSTANTS
    Owners,       \* requests of project owners
    Keys,         \* their idempotency keys
    Windows,      \* [start, end]: ingestion times start .. end - 1
    Budgets,      \* numbers of cases to draw
    MaxTime,      \* bound: minutes
    MaxCases,     \* bound: cases
    MaxDuration,  \* an import's transaction commits within so many minutes
    MaxRequests,  \* bound: requests in all
    MaxPrunes,    \* bound: retention prunings
    MaxFaults     \* bound: connections that die

WindowsAssumption == \A w \in Windows : w.start < w.end
BudgetsAssumption == Budgets \subseteq Nat \ {0}

VARIABLES
    now,
    cases,        \* sequence of [at, eligible, state]: the order of their ids
    populations,  \* sequence of [window, members, excluded, draw]
    requests,     \* analysis_population_requests: key -> [window, budget, population]
    lock,         \* analysis-population-create/v1
    owner,        \* owner -> [pc, key, window, budget, snapshot]
    answers,      \* history: [key, window, budget, population]
    used          \* [requests, prunes, faults]

vars == <<now, cases, populations, requests, lock, owner, answers, used>>

Nobody == "nobody"
NoSnapshot == [at |-> 0, cases |-> {}, populations |-> {}, requests |-> {}]
Idle == [pc |-> "idle", key |-> "", window |-> [start |-> 0, end |-> 0], budget |-> 0, snapshot |-> NoSnapshot]

Init ==
    /\ now = 0
    /\ cases = <<>>
    /\ populations = <<>>
    /\ requests = {}
    /\ lock = Nobody
    /\ owner = [o \in Owners |-> Idle]
    /\ answers = {}
    /\ used = [requests |-> 0, prunes |-> 0, faults |-> 0]

Ids == 1 .. Len(cases)
Kept == {i \in Ids : cases[i].state = "kept"}
In(i, w) == w.start <= cases[i].at /\ cases[i].at < w.end

-----------------------------------------------------------------------------
(* Cases come, and retention takes those that no revision holds. *)

BeginImport(eligible) ==
    /\ Len(cases) < MaxCases
    /\ cases' = Append(cases, [at |-> now, eligible |-> eligible, state |-> "open"])
    /\ UNCHANGED <<now, populations, requests, lock, owner, answers, used>>

CommitImport(i) ==
    /\ i \in Ids /\ cases[i].state = "open"
    /\ cases' = [cases EXCEPT ![i].state = "kept"]
    /\ UNCHANGED <<now, populations, requests, lock, owner, answers, used>>

\* pruneExpiredTraces holds the project's row for update, which a creation
\* shares from its first insert on.
Held == UNION {Range(populations[p].members) : p \in 1 .. Len(populations)}
Prune(before) ==
    /\ used.prunes < MaxPrunes
    /\ ~ \E o \in Owners : owner[o].pc = "inserted"
    /\ \E i \in Kept \ Held : cases[i].at < before
    /\ cases' = [i \in Ids |-> IF i \in Kept \ Held /\ cases[i].at < before
                               THEN [cases[i] EXCEPT !.state = "pruned"] ELSE cases[i]]
    /\ used' = [used EXCEPT !.prunes = @ + 1]
    /\ UNCHANGED <<now, populations, requests, lock, owner, answers>>

Tick ==
    /\ now < MaxTime
    /\ \A i \in Ids : cases[i].state = "open" => now < cases[i].at + MaxDuration
    /\ now' = now + 1
    /\ UNCHANGED <<cases, populations, requests, lock, owner, answers, used>>

-----------------------------------------------------------------------------
(* The frame and the draw. *)

\* orderAnalysisPopulationCandidates: by time, then by id.
Before(i, j) == cases[i].at < cases[j].at \/ (cases[i].at = cases[j].at /\ i < j)
InOrder(S) == SetToSortSeq(S, Before)
\* isEligiblePair, in the snapshot and the window.
Eligible(snapshot, w) == {i \in snapshot : cases[i].eligible /\ In(i, w)}
Excluded(snapshot, w) == {i \in snapshot : ~cases[i].eligible /\ In(i, w)}

\* The digest of a frame binds the window and the ordered members.
Frame(o) == InOrder(Eligible(owner[o].snapshot.cases, owner[o].window))
\* decideAnalysisPopulationFrameReuse looks for it in the snapshot.
SameFrame(o) ==
    {p \in owner[o].snapshot.populations :
        populations[p].window = owner[o].window /\ populations[p].members = Frame(o)}
Replay(o) == {r \in owner[o].snapshot.requests : r.key = owner[o].key}

-----------------------------------------------------------------------------
(* createPopulation. *)

Goto(o, pc) == owner' = [owner EXCEPT ![o].pc = pc]

Ask(o, k, w, b) ==
    /\ owner[o].pc = "idle"
    /\ used.requests < MaxRequests
    /\ owner' = [owner EXCEPT ![o] = [pc |-> "asked", key |-> k, window |-> w, budget |-> b,
                                      snapshot |-> NoSnapshot]]
    /\ used' = [used EXCEPT !.requests = @ + 1]
    /\ UNCHANGED <<now, cases, populations, requests, lock, answers>>

\* What a snapshot shows.
Snapshot == [at |-> now, cases |-> Kept, populations |-> 1 .. Len(populations), requests |-> requests]

\* The lock is taken before the transaction begins: a creation sees every
\* population that was made before its own.
Free(o) == lock = Nobody
LockProject(o) ==
    /\ owner[o].pc = "asked"
    /\ Free(o)
    /\ lock' = o
    /\ Goto(o, "locked")
    /\ UNCHANGED <<now, cases, populations, requests, answers, used>>

\* Faulty variant: the snapshot dates from the time of the request.
Early(o) == [Snapshot EXCEPT !.requests = {}, !.populations = {}]
Seen(o) == Snapshot

Begin(o) ==
    /\ owner[o].pc = "locked"
    /\ owner' = [owner EXCEPT ![o].snapshot = Seen(o), ![o].pc = "begun"]
    /\ UNCHANGED <<now, cases, populations, requests, lock, answers, used>>

\* The transaction ends, and the session lock is given back.
Unlock(o) == lock' = IF lock = o THEN Nobody ELSE lock
Released(o) == Unlock(o)

Answer(o, p) ==
    /\ answers' = answers \cup {[key |-> owner[o].key, window |-> owner[o].window,
                                 budget |-> owner[o].budget, population |-> p]}
    /\ owner' = [owner EXCEPT ![o] = Idle]
    /\ Unlock(o)
    /\ UNCHANGED <<now, cases, used>>

Refuse(o) ==
    /\ owner' = [owner EXCEPT ![o] = Idle]
    /\ Unlock(o)
    /\ UNCHANGED <<now, cases, populations, requests, answers, used>>

\* The key comes first, so that a frame that changed since cannot alter a replay.
SameRequest(o, r) == r.window = owner[o].window /\ r.budget = owner[o].budget
\* Faulty variant: the frame comes first.
FrameFirst(o) == {r \in Replay(o) : populations[r.population].members = Frame(o)}
Replayed(o) == Replay(o)

ReplayKey(o) ==
    /\ owner[o].pc = "begun"
    /\ \E r \in Replayed(o) :
        IF SameRequest(o, r)
            THEN Answer(o, r.population) /\ UNCHANGED <<populations, requests>>
            ELSE Refuse(o)

\* Faulty variant: the window may end now.
NoLag(o) == owner[o].window.end <= owner[o].snapshot.at
Lags(o) == owner[o].window.end + 1 <= owner[o].snapshot.at
\* assertAnalysisPopulationWindow and assertAnalysisPopulationDrawBounds.
Allowed(o) == Lags(o) /\ owner[o].budget <= Len(Frame(o))

RefuseWindow(o) ==
    /\ owner[o].pc = "begun"
    /\ Replayed(o) = {}
    /\ ~Allowed(o)
    /\ Refuse(o)

Alias(o, p) == requests \cup {[key |-> owner[o].key, window |-> owner[o].window,
                               budget |-> owner[o].budget, population |-> p]}

ReuseFrame(o) ==
    /\ owner[o].pc = "begun"
    /\ Replayed(o) = {} /\ Allowed(o)
    /\ \E p \in SameFrame(o) :
        IF Cardinality(populations[p].draw) = owner[o].budget
            THEN /\ requests' = Alias(o, p)
                 /\ Answer(o, p)
                 /\ UNCHANGED populations
            ELSE Refuse(o)

\* From the insert of the population on, the row of the project is shared.
Insert(o) ==
    /\ owner[o].pc = "begun"
    /\ Replayed(o) = {} /\ Allowed(o)
    /\ SameFrame(o) = {}
    /\ Goto(o, "inserted")
    /\ UNCHANGED <<now, cases, populations, requests, lock, answers, used>>

\* Members, exclusions, draw and alias become visible at once, unless a unique
\* index of the frames or of the keys refuses them.
Taken(o) ==
    \/ \E p \in 1 .. Len(populations) : populations[p].window = owner[o].window /\ populations[p].members = Frame(o)
    \/ \E r \in requests : r.key = owner[o].key

Commit(o) ==
    /\ owner[o].pc = "inserted"
    /\ ~Taken(o)
    /\ \E draw \in SUBSET Range(Frame(o)) :
        /\ Cardinality(draw) = owner[o].budget
        /\ populations' = Append(populations,
              [window |-> owner[o].window, members |-> Frame(o),
               excluded |-> Excluded(owner[o].snapshot.cases, owner[o].window), draw |-> draw])
    /\ requests' = Alias(o, Len(populations) + 1)
    /\ Answer(o, Len(populations) + 1)

\* A connection dies; its session lock dies with it.
Crash(o) ==
    /\ owner[o].pc \notin {"idle", "asked"}
    /\ used.faults < MaxFaults
    /\ used' = [used EXCEPT !.faults = @ + 1]
    /\ owner' = [owner EXCEPT ![o] = Idle]
    /\ Released(o)
    /\ UNCHANGED <<now, cases, populations, requests, answers>>

Create(o) ==
    \/ LockProject(o) \/ Begin(o) \/ ReplayKey(o) \/ RefuseWindow(o)
    \/ ReuseFrame(o) \/ Insert(o) \/ Commit(o)

Next ==
    \/ \E e \in BOOLEAN : BeginImport(e)
    \/ \E i \in 1 .. MaxCases : CommitImport(i)
    \/ \E t \in 1 .. MaxTime : Prune(t)
    \/ Tick
    \/ \E o \in Owners : \/ \E k \in Keys, w \in Windows, b \in Budgets : Ask(o, k, w, b)
                         \/ Create(o) \/ Crash(o)

Spec == Init /\ [][Next]_vars
\* Requests go on; the database serves those who wait for the lock in turn.
FairSpec == Spec /\ \A o \in Owners : WF_vars(Create(o)) /\ SF_vars(LockProject(o))

-----------------------------------------------------------------------------
(* Properties. *)

\* Every variable has its type.
TypeOK ==
    /\ now \in 0 .. MaxTime
    /\ cases \in Seq([at : 0 .. MaxTime, eligible : BOOLEAN, state : {"open", "kept", "pruned"}])
    /\ \A p \in 1 .. Len(populations) :
        /\ populations[p].window \in Windows
        /\ Range(populations[p].members) \subseteq Ids
        /\ populations[p].draw \subseteq Range(populations[p].members)
        /\ Cardinality(populations[p].draw) \in Budgets
    /\ requests \subseteq [key : Keys, window : Windows, budget : Budgets, population : 1 .. Len(populations)]
    /\ lock \in {Nobody} \cup Owners
    /\ \A o \in Owners : owner[o].pc \in {"idle", "asked", "locked", "begun", "inserted"}
    /\ \A o \in Owners : owner[o].pc \in {"locked", "begun", "inserted"} => lock = o

\* Nobody gets a second draw by asking again: creations of the same frame that
\* overlap end with one draw, and no creation that is under way runs into a unique
\* index: it is answered, not refused by the database (ADR "one frame permits exactly one draw").
AskingAgainIsAnswered == \A o \in Owners : owner[o].pc = "inserted" => ~Taken(o)

\* A key is answered with the same population for ever, although late cases
\* have changed the frame since (docs/batch6b-analyze-runtime.md:152).
KeysAreStable ==
    \A a, b \in answers : a.key = b.key => a = b

\* The members are all in order, once each, and a population and what it
\* excludes are every case of the window that its snapshot showed: with a lag
\* longer than any import the frame stays what a recomputation gives, except
\* for what retention takes (analysis_recomputed_population_frame_digest_v1).
Recomputed(p) == InOrder(Eligible(Kept, populations[p].window))
FrameIsReproducible == \A p \in 1 .. Len(populations) : Recomputed(p) = populations[p].members

\* The case of an item of an immutable revision is retained
\* (project-repository.ts:182: what retention leaves alone).
MembersAreKept == \A p \in 1 .. Len(populations) : Range(populations[p].members) \subseteq Kept

\* A request is answered or refused in the end.
RequestsAreAnswered == \A o \in Owners : owner[o].pc = "asked" ~> owner[o].pc = "idle"
=============================================================================
