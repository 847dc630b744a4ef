------------------------------ MODULE AgentSetup ------------------------------
(***************************************************************************)
(* The first configuration of a project by an external agent.  The owner   *)
(* generates a connection (a pairing) and hands its token to an agent;     *)
(* the agent's request claims it, creates the first evaluator version,     *)
(* runs its gate and mints a key.  Meanwhile the owner generates another   *)
(* connection, revokes it, configures the project by hand, or imports.     *)
(*   lib/auth.ts                      the pairing and its predicates       *)
(*   v1-agent-administration.ts       POST /api/v1/bootstrap (paired)      *)
(*   skill-lifecycle-repository.ts    createSkillVersionPending            *)
(*   project-administration.ts        /api/agent-setup/pairings            *)
(* A claim counts as running for ten minutes, which an agent may outlive:  *)
(* Lapse says only that the time is over.                                  *)
(***************************************************************************)
EXTENDS Naturals, Sequences, FiniteSets

CONSTANTS
    Agents,        \* requests of agents
    Clicks,        \* requests of the owner for a connection
    None, Human,
    MaxPairings,   \* bound: connections
    MaxRequests,   \* bound: requests of agents in all
    MaxImports,    \* bound: imports
    MaxEdits,      \* bound: versions by hand
    MaxFaults      \* bound: processes that die, commits whose answer is lost

NamesAssumption  == None \notin Agents \cup Clicks /\ Agents \cap Clicks = {}
BoundsAssumption == MaxPairings \in Nat /\ MaxImports \in Nat

VARIABLES
    pairings,   \* sequence of [expired, claim, consumed, revoked]
    starter,    \* skills.is_starter
    imported,   \* projects.imported_trace_count
    lock,       \* who holds the project's row FOR UPDATE
    versions,   \* sequence of [by, imported]: who made it, and over how many cases
    keys,       \* the pairings whose agent got its key
    agent,      \* agent -> [pc, pairing]
    click,      \* click -> [pc, closes]
    used,       \* [requests, edits, faults]
    everClaimed \* pairings whose running claim an owner's request closed

vars == <<pairings, starter, imported, lock, versions, keys, agent, click, used, everClaimed>>

Pairings == 1 .. Len(pairings)
Open(p) == ~pairings[p].consumed /\ ~pairings[p].revoked

\* PAIRING_CLAIM_RUNNING_SQL: claimed, and not longer than the grace ago.
Running(p) == pairings[p].claim = "running"

IdleAgent == [pc |-> "idle", pairing |-> 0]
IdleClick == [pc |-> "idle", closes |-> {}]

Init ==
    /\ pairings = <<>>
    /\ starter = TRUE
    /\ imported = 0
    /\ lock = None
    /\ versions = <<>>
    /\ keys = {}
    /\ agent = [a \in Agents |-> IdleAgent]
    /\ click = [k \in Clicks |-> IdleClick]
    /\ used = [requests |-> 0, edits |-> 0, faults |-> 0]
    /\ everClaimed = {}

\* Faulty variant: the row is read without FOR UPDATE.
NotLocked(x) == x \in Agents \cup Clicks \cup {Human}
ProjectIsFree(x) == lock = None

\* A row that a click has revoked, or an agent read FOR UPDATE, and not committed
\* makes other updates wait.
Waits(p) ==
    \/ \E k \in Clicks : p \in click[k].closes
    \/ \E a \in Agents : agent[a] = [pc |-> "eligible", pairing |-> p]

Unlock(x) == IF lock = x THEN None ELSE lock
Revoke(S) == [p \in Pairings |->
                IF p \in S /\ Open(p) THEN [pairings[p] EXCEPT !.revoked = TRUE, !.claim = "none"]
                ELSE pairings[p]]

-----------------------------------------------------------------------------
(* createAgentSetupPairing. *)

Click(k) ==
    /\ click[k].pc = "idle"
    /\ Len(pairings) < MaxPairings
    /\ click' = [click EXCEPT ![k].pc = "asked"]
    /\ UNCHANGED <<pairings, starter, imported, lock, versions, keys, agent, used, everClaimed>>

\* The project's row serializes generations.  A project that is configured or
\* not empty needs no connection; a running claim refuses the click, and the
\* owner clicks again.
CheckRunning(k) ==
    /\ click[k].pc = "asked"
    /\ ProjectIsFree(k)
    /\ IF ~starter \/ imported > 0
          THEN click' = [click EXCEPT ![k].pc = "served"] /\ UNCHANGED lock
          ELSE /\ ~ \E p \in Pairings : Open(p) /\ Running(p)
               /\ click' = [click EXCEPT ![k].pc = "checked"]
               /\ lock' = k
    /\ UNCHANGED <<pairings, starter, imported, versions, keys, agent, used, everClaimed>>

\* The statement that revokes reads which pairings are open, claimed or not.
CloseOthers(k) ==
    LET open == {p \in Pairings : Open(p)} IN
    /\ click[k].pc = "checked"
    /\ ~ \E p \in open : Waits(p)
    /\ click' = [click EXCEPT ![k] = [pc |-> "closed", closes |-> open]]
    /\ UNCHANGED <<pairings, starter, imported, lock, versions, keys, agent, used, everClaimed>>

CommitPairing(k) ==
    LET gone == click[k].closes IN
    /\ click[k].pc = "closed"
    /\ Len(pairings) < MaxPairings
    /\ pairings' = Append(Revoke(gone), [expired |-> FALSE, claim |-> "none",
                                         consumed |-> FALSE, revoked |-> FALSE])
    /\ everClaimed' = everClaimed \cup {p \in gone : Running(p)}
    /\ click' = [click EXCEPT ![k] = [pc |-> "served", closes |-> {}]]
    /\ lock' = Unlock(k)
    /\ UNCHANGED <<starter, imported, versions, keys, agent, used>>

Dismiss(k) ==
    /\ click[k].pc = "served"
    /\ click' = [click EXCEPT ![k] = IdleClick]
    /\ UNCHANGED <<pairings, starter, imported, lock, versions, keys, agent, used, everClaimed>>

\* revokeAgentSetupPairing: anything open but a running claim.
OwnerRevokes(p) ==
    /\ p \in Pairings /\ Open(p) /\ ~Running(p) /\ ~Waits(p)
    /\ pairings' = Revoke({p})
    /\ UNCHANGED <<starter, imported, lock, versions, keys, agent, click, used, everClaimed>>

-----------------------------------------------------------------------------
(* POST /api/v1/bootstrap. *)

Goto(a, pc) == agent' = [agent EXCEPT ![a].pc = pc]

\* The middleware resolves the token.
Resolve(a, p) ==
    /\ agent[a].pc = "idle"
    /\ used.requests < MaxRequests
    /\ p \in Pairings /\ Open(p) /\ ~pairings[p].expired
    /\ agent' = [agent EXCEPT ![a] = [pc |-> "resolved", pairing |-> p]]
    /\ used' = [used EXCEPT !.requests = @ + 1]
    /\ UNCHANGED <<pairings, starter, imported, lock, versions, keys, click, everClaimed>>

\* The gates are validated again at use time: a changed project closes the pairing.
Precheck(a) ==
    LET p == agent[a].pairing IN
    /\ agent[a].pc = "resolved"
    /\ IF imported > 0 \/ ~starter
          THEN /\ ~Waits(p)
               /\ pairings' = Revoke({p})
               /\ agent' = [agent EXCEPT ![a] = IdleAgent]
          ELSE Goto(a, "prechecked") /\ UNCHANGED pairings
    /\ UNCHANGED <<starter, imported, lock, versions, keys, click, used, everClaimed>>

Claim(a) ==
    LET p == agent[a].pairing IN
    /\ agent[a].pc = "prechecked"
    /\ ~Waits(p)
    /\ IF Open(p) /\ ~pairings[p].expired /\ pairings[p].claim = "none"
          THEN pairings' = [pairings EXCEPT ![p].claim = "running"] /\ Goto(a, "claimed")
          ELSE agent' = [agent EXCEPT ![a] = IdleAgent] /\ UNCHANGED pairings
    /\ UNCHANGED <<starter, imported, lock, versions, keys, click, used, everClaimed>>

\* createSkillVersionPending: under the locks of skill and project, the
\* pairing must be open and claimed, the skill the starter, the project empty.
\* Faulty variant: the checks of the route are trusted.
Trusted(p) == Open(p)
Eligible(p) == Open(p) /\ pairings[p].claim /= "none" /\ starter /\ imported = 0

LockProject(a) ==
    LET p == agent[a].pairing IN
    /\ agent[a].pc = "claimed"
    /\ ProjectIsFree(a)
    /\ ~Waits(p)
    /\ IF Eligible(p)
          THEN lock' = a /\ Goto(a, "eligible")
          ELSE UNCHANGED lock /\ Goto(a, "ineligible")
    /\ UNCHANGED <<pairings, starter, imported, versions, keys, click, used, everClaimed>>

\* The version, the end of the starter and the end of the pairing are one
\* transaction.  Its commit may succeed although the answer is lost.
CommitVersion(a, answered) ==
    LET p == agent[a].pairing IN
    /\ agent[a].pc = "eligible"
    /\ answered \/ used.faults < MaxFaults
    /\ versions' = Append(versions, [by |-> p, imported |-> imported])
    /\ starter' = FALSE
    /\ pairings' = [pairings EXCEPT ![p].consumed = TRUE, ![p].claim = "none"]
    /\ lock' = Unlock(a)
    /\ Goto(a, IF answered THEN "committed" ELSE "releasing")
    /\ used' = [used EXCEPT !.faults = IF answered THEN @ ELSE @ + 1]
    /\ UNCHANGED <<imported, keys, click, everClaimed>>

\* The gate of the version, which may refuse it, and the key.
MintKey(a) ==
    /\ agent[a].pc = "committed"
    /\ keys' = keys \cup {agent[a].pairing}
    /\ agent' = [agent EXCEPT ![a] = IdleAgent]
    /\ UNCHANGED <<pairings, starter, imported, lock, versions, click, used, everClaimed>>

GateFails(a) ==
    /\ agent[a].pc = "committed"
    /\ Goto(a, "completing")
    /\ UNCHANGED <<pairings, starter, imported, lock, versions, keys, click, used, everClaimed>>

\* An error before the commit: the transaction rolls back.
FailsBefore(a) ==
    /\ agent[a].pc \in {"claimed", "eligible"}
    /\ Goto(a, "releasing")
    /\ lock' = Unlock(a)
    /\ UNCHANGED <<pairings, starter, imported, versions, keys, click, used, everClaimed>>

\* What the handler of the error does with the pairing: closed if the project
\* changed, open again before the point of no return, consumed after it.
Released(p) == [pairings EXCEPT ![p] = IF Open(p) THEN [@ EXCEPT !.claim = "none"] ELSE @]
Completed(p) == [pairings EXCEPT ![p] =
                   IF Open(p) THEN [@ EXCEPT !.consumed = TRUE, !.claim = "none"] ELSE @]
\* Faulty variant: every error consumes the pairing.
AlwaysConsumed(pc, p) == Completed(p)
AfterError(pc, p) == CASE pc = "ineligible" -> Revoke({p})
                       [] pc = "releasing"  -> Released(p)
                       [] pc = "completing" -> Completed(p)

HandleError(a) ==
    LET p == agent[a].pairing IN
    /\ agent[a].pc \in {"ineligible", "releasing", "completing"}
    /\ ~Waits(p)
    /\ pairings' = AfterError(agent[a].pc, p)
    /\ agent' = [agent EXCEPT ![a] = IdleAgent]
    /\ UNCHANGED <<starter, imported, lock, versions, keys, click, used, everClaimed>>

-----------------------------------------------------------------------------
(* Everybody else. *)

\* The owner creates a version by hand, in the same transaction.
HumanEdit ==
    /\ used.edits < MaxEdits
    /\ lock = None
    /\ versions' = Append(versions, [by |-> Human, imported |-> imported])
    /\ starter' = FALSE
    /\ used' = [used EXCEPT !.edits = @ + 1]
    /\ UNCHANGED <<pairings, imported, lock, keys, agent, click, everClaimed>>

Import ==
    /\ imported < MaxImports
    /\ lock = None
    /\ imported' = imported + 1
    /\ UNCHANGED <<pairings, starter, lock, versions, keys, agent, click, used, everClaimed>>

Expire(p) ==
    /\ p \in Pairings /\ ~pairings[p].expired
    /\ pairings' = [pairings EXCEPT ![p].expired = TRUE]
    /\ UNCHANGED <<starter, imported, lock, versions, keys, agent, click, used, everClaimed>>

Lapse(p) ==
    /\ p \in Pairings /\ Running(p)
    /\ pairings' = [pairings EXCEPT ![p].claim = "lapsed"]
    /\ UNCHANGED <<starter, imported, lock, versions, keys, agent, click, used, everClaimed>>

\* The process of an agent's request dies; the database rolls back.
Crash(a) ==
    /\ agent[a].pc /= "idle"
    /\ used.faults < MaxFaults
    /\ agent' = [agent EXCEPT ![a] = IdleAgent]
    /\ lock' = Unlock(a)
    /\ used' = [used EXCEPT !.faults = @ + 1]
    /\ UNCHANGED <<pairings, starter, imported, versions, keys, click, everClaimed>>

Bootstrap(a) ==
    \/ Precheck(a) \/ Claim(a) \/ LockProject(a) \/ CommitVersion(a, TRUE)
    \/ MintKey(a) \/ GateFails(a) \/ FailsBefore(a) \/ HandleError(a)
Generate(k) == CheckRunning(k) \/ CloseOthers(k) \/ CommitPairing(k)

Next ==
    \/ \E k \in Clicks : Click(k) \/ Generate(k) \/ Dismiss(k)
    \/ \E a \in Agents : \/ \E p \in 1 .. MaxPairings : Resolve(a, p)
                         \/ Bootstrap(a) \/ CommitVersion(a, FALSE) \/ Crash(a)
    \/ \E p \in 1 .. MaxPairings : OwnerRevokes(p) \/ Expire(p) \/ Lapse(p)
    \/ HumanEdit \/ Import

Spec == Init /\ [][Next]_vars
\* Requests go on, time passes, and the owner whom a running claim refuses
\* clicks until the click is served.
FairSpec ==
    /\ Spec
    /\ \A a \in Agents : WF_vars(Bootstrap(a))
    /\ \A k \in Clicks : SF_vars(Generate(k))
    /\ \A p \in 1 .. MaxPairings : WF_vars(Lapse(p))

-----------------------------------------------------------------------------
(* Properties. *)

\* Every variable has its type.
TypeOK ==
    /\ pairings \in Seq([expired : BOOLEAN, claim : {"none", "running", "lapsed"},
                         consumed : BOOLEAN, revoked : BOOLEAN])
    /\ \A p \in Pairings : ~(pairings[p].consumed /\ pairings[p].revoked)
    /\ starter \in BOOLEAN
    /\ imported \in 0 .. MaxImports
    /\ lock \in {None} \cup Agents \cup Clicks
    /\ versions \in Seq([by : 1 .. MaxPairings \cup {Human}, imported : 0 .. MaxImports])
    /\ keys \subseteq Pairings
    /\ agent \in [Agents -> [pc : {"idle", "resolved", "prechecked", "claimed", "eligible", "ineligible",
                                   "committed", "releasing", "completing"},
                             pairing : 0 .. MaxPairings]]
    /\ click \in [Clicks -> [pc : {"idle", "asked", "checked", "closed", "served"},
                             closes : SUBSET (1 .. MaxPairings)]]
    /\ everClaimed \subseteq Pairings

\* The project has at most one live connection (auth.ts:169: exactly one live
\* secret), although clicks, claims and errors overlap.
OneLiveConnection == \A p, q \in Pairings : Open(p) /\ Open(q) => p = q

\* An agent configures the untouched project only: its version is the first,
\* over no case, and so no two agents configure it and no agent overwrites
\* what the owner did since the connection was made
\* (v1-agent-administration.ts:248, createSkillVersionPending).
AgentConfiguresTheStarter ==
    \A v \in 1 .. Len(versions) : versions[v].by /= Human => v = 1 /\ versions[v].imported = 0

\* A connection that the owner sees as completed has configured the project,
\* and no key was minted for one that did not (agentSetupPairingStatus;
\* failures before the point of no return leave the token usable).
CompletedIsConfigured ==
    \A p \in Pairings :
        /\ pairings[p].consumed => \E v \in 1 .. Len(versions) : versions[v].by = p
        /\ p \in keys => pairings[p].consumed

\* The owner is never stuck behind an agent that died in the middle of a setup
\* (auth.ts:278): a click is served in the end.
ClicksAreServed == \A k \in Clicks : click[k].pc = "asked" ~> click[k].pc = "served"

\* auth.ts:132: a claimed bootstrap is not regenerated or revoked under by its
\* owner while its claim is running.
RunningClaimResists == everClaimed = {}
=============================================================================
