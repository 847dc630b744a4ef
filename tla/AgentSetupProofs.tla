------------------------- MODULE AgentSetupProofs -------------------------
(***************************************************************************)
(* What holds of the connections of a project for every number of agents,  *)
(* clicks, connections and faults.  The row of the project is a lock that  *)
(* both sides take before they decide: an agent that stands at its commit  *)
(* holds it over a starter that nobody changed, a click that closed the    *)
(* open connections holds it until the new one is there.                   *)
(***************************************************************************)
EXTENDS AgentSetup, SequenceTheorems, TLAPS

Assumptions == NamesAssumption /\ BoundsAssumption

Rows == [expired : BOOLEAN, claim : {"none", "running", "lapsed"},
         consumed : BOOLEAN, revoked : BOOLEAN]
Places == {"idle", "resolved", "prechecked", "claimed", "eligible", "ineligible",
           "committed", "releasing", "completing"}
Requests == [pc : Places, pairing : 0 .. MaxPairings]
Stages == {"idle", "asked", "checked", "closed", "served"}
Generations == [pc : Stages, closes : SUBSET (1 .. MaxPairings)]

\* How far an agent's request got, and what the lock of the project keeps
\* for it.
Progress(a) ==
    /\ agent[a].pc # "idle" => agent[a].pairing \in Pairings
    /\ agent[a].pc = "eligible" => lock = a /\ starter /\ imported = 0 /\ Open(agent[a].pairing)
    /\ agent[a].pc \in {"committed", "completing"} => pairings[agent[a].pairing].consumed

\* A click that holds the project's row, and what it is about to close.
Closing(k) ==
    /\ click[k].closes \subseteq Pairings
    /\ click[k].pc \in {"checked", "closed"} => lock = k
    /\ click[k].pc = "closed" => \A p \in Pairings : Open(p) => p \in click[k].closes

Inductive ==
    /\ TypeOK /\ Len(pairings) <= MaxPairings
    /\ \A a \in Agents : Progress(a)
    /\ \A k \in Clicks : Closing(k)
    /\ OneLiveConnection
    /\ starter => versions = <<>>
    /\ AgentConfiguresTheStarter /\ CompletedIsConfigured

\* The types, spelled out for the steps that follow.
LEMMA Typed ==
    ASSUME Inductive
    PROVE  /\ pairings \in Seq(Rows) /\ Len(pairings) \in Nat /\ Len(pairings) <= MaxPairings
           /\ Pairings = 1 .. Len(pairings)
           /\ \A p \in Pairings : pairings[p] \in Rows /\ ~(pairings[p].consumed /\ pairings[p].revoked)
           /\ starter \in BOOLEAN /\ imported \in 0 .. MaxImports
           /\ lock \in {None} \cup Agents \cup Clicks
           /\ versions \in Seq([by : 1 .. MaxPairings \cup {Human}, imported : 0 .. MaxImports])
           /\ keys \subseteq Pairings /\ everClaimed \subseteq Pairings
           /\ agent \in [Agents -> Requests] /\ click \in [Clicks -> Generations]
           /\ \A a \in Agents : agent[a] \in Requests /\ Progress(a)
           /\ \A k \in Clicks : click[k] \in Generations /\ Closing(k)
<1>1. pairings \in Seq(Rows)
  BY DEF Inductive, TypeOK, Rows
<1> QED BY <1>1 DEF Inductive, TypeOK, Places, Requests, Stages, Generations, Pairings

\* The same connections, none of which opened or was completed.
Aged ==
    /\ pairings' \in Seq(Rows) /\ Len(pairings') = Len(pairings)
    /\ \A p \in Pairings : /\ pairings'[p].consumed = pairings[p].consumed
                           /\ pairings[p].revoked => pairings'[p].revoked
                           /\ ~(pairings'[p].consumed /\ pairings'[p].revoked)

\* A step that opens and completes no connection, by a request that keeps its place.
LEMMA AgingKeeps ==
    ASSUME Assumptions, Inductive, Aged, lock' = lock \/ (lock \in Agents /\ lock' = None),
           UNCHANGED <<starter, imported, versions, keys, click, everClaimed>>,
           agent' \in [Agents -> Requests], \A a \in Agents : Progress(a)'
    PROVE  Inductive'
<1>1. Pairings' = Pairings /\ \A p \in Pairings : Open(p)' => Open(p)
  BY DEF Aged, Pairings, Open
<1>2. TypeOK'
  <2>1. pairings' \in Seq(Rows) /\ \A p \in Pairings' : ~(pairings'[p].consumed /\ pairings'[p].revoked)
    BY <1>1 DEF Aged
  <2> QED BY <1>1, <2>1, Typed DEF TypeOK, Rows, Places, Requests, Stages, Generations
<1>3. ASSUME NEW k \in Clicks PROVE Closing(k)'
  <2>1. lock = k => lock' = lock
    BY DEF Assumptions, NamesAssumption
  <2>2. click'[k] = click[k] /\ Closing(k)
    BY Typed
  <2> QED BY <1>1, <2>1, <2>2 DEF Closing
<1>4. OneLiveConnection'
  BY <1>1 DEF Inductive, OneLiveConnection
<1>5. CompletedIsConfigured'
  BY <1>1 DEF Inductive, CompletedIsConfigured, Aged
<1>6. Len(pairings') <= MaxPairings /\ (starter' => versions' = <<>>) /\ AgentConfiguresTheStarter'
  BY Typed DEF Aged, Inductive, AgentConfiguresTheStarter
<1> QED BY <1>2, <1>3, <1>4, <1>5, <1>6 DEF Inductive

\* What revoking some connections leaves of them.
LEMMA RevokedRows ==
    ASSUME Inductive, NEW S
    PROVE  /\ Revoke(S) \in Seq(Rows) /\ Len(Revoke(S)) = Len(pairings)
           /\ \A p \in Pairings :
                 /\ Revoke(S)[p].consumed = pairings[p].consumed
                 /\ pairings[p].revoked => Revoke(S)[p].revoked
                 /\ ~(Revoke(S)[p].consumed /\ Revoke(S)[p].revoked)
                 /\ p \in S => Revoke(S)[p].consumed \/ Revoke(S)[p].revoked
                 /\ p \notin S => Revoke(S)[p] = pairings[p]
<1>1. \A p \in Pairings : [[pairings[p] EXCEPT !.revoked = TRUE] EXCEPT !.claim = "none"] \in Rows
  BY Typed DEF Rows
<1>2. \A p \in Pairings : [pairings[p] EXCEPT !.revoked = TRUE, !.claim = "none"]
                            = [[pairings[p] EXCEPT !.revoked = TRUE] EXCEPT !.claim = "none"]
  OBVIOUS
<1>3. Revoke(S) \in [1 .. Len(pairings) -> Rows]
  BY <1>1, <1>2, Typed DEF Revoke
<1>4. Revoke(S) \in Seq(Rows) /\ Len(Revoke(S)) = Len(pairings)
  BY SMTT(90), <1>3, Typed, SeqDef, LenProperties
<1>5. ASSUME NEW p \in Pairings
      PROVE  /\ Revoke(S)[p].consumed = pairings[p].consumed
             /\ pairings[p].revoked => Revoke(S)[p].revoked
             /\ ~(Revoke(S)[p].consumed /\ Revoke(S)[p].revoked)
             /\ p \in S => Revoke(S)[p].consumed \/ Revoke(S)[p].revoked
             /\ p \notin S => Revoke(S)[p] = pairings[p]
  <2>1. pairings[p] \in Rows /\ ~(pairings[p].consumed /\ pairings[p].revoked)
    BY Typed
  <2>2. CASE p \in S /\ Open(p)
    <3>1. Revoke(S)[p] = [[pairings[p] EXCEPT !.revoked = TRUE] EXCEPT !.claim = "none"]
      BY <1>2, <2>2 DEF Revoke
    <3> QED BY <2>1, <2>2, <3>1 DEF Rows, Open
  <2>3. CASE ~(p \in S /\ Open(p))
    <3>1. Revoke(S)[p] = pairings[p]
      BY <2>3 DEF Revoke
    <3> QED BY <2>1, <2>3, <3>1 DEF Open
  <2> QED BY <2>2, <2>3
<1> QED BY <1>4, <1>5

\* To revoke a connection is to age it.
LEMMA RevokingAges ==
    ASSUME Inductive, NEW S, pairings' = Revoke(S)
    PROVE  Aged /\ \A p \in Pairings : p \notin S => pairings'[p] = pairings[p]
  BY RevokedRows DEF Aged

\* A row of which only the claim or the age changes.
LEMMA ClaimingAges ==
    ASSUME Inductive, NEW p \in Pairings, NEW r \in Rows,
           pairings' = [pairings EXCEPT ![p] = r],
           r.consumed = pairings[p].consumed, r.revoked = pairings[p].revoked
    PROVE  Aged /\ \A q \in Pairings : Open(q) => Open(q)'
<1>1. pairings' \in Seq(Rows) /\ Len(pairings') = Len(pairings)
  BY Typed
<1>2. pairings'[p] = r /\ \A q \in Pairings : q # p => pairings'[q] = pairings[q]
  BY Typed
<1> QED BY <1>1, <1>2, Typed DEF Aged, Open

\* Connections that stay as they are.
LEMMA UnchangedAges ==
    ASSUME Inductive, pairings' = pairings PROVE Aged
  BY Typed DEF Aged

\* Whoever is in the middle of a transaction on a connection makes the
\* others wait.
LEMMA EligibleWaits ==
    ASSUME Inductive, NEW a \in Agents, agent[a].pc = "eligible"
    PROVE  Waits(agent[a].pairing)
<1>1. agent[a] = [pc |-> "eligible", pairing |-> agent[a].pairing]
  BY Typed DEF Requests
<1> QED BY <1>1 DEF Waits

\* An agent that neither moved nor was moved under.
LEMMA StaysInProgress ==
    ASSUME Inductive, NEW a \in Agents, agent'[a] = agent[a], Aged,
           agent[a].pc = "eligible" => lock' = lock /\ (Open(agent[a].pairing) => Open(agent[a].pairing)'),
           UNCHANGED <<starter, imported>>
    PROVE  Progress(a)'
<1>1. Pairings' = Pairings /\ Progress(a)
  BY Typed DEF Aged, Pairings
<1>2. agent[a].pc # "idle" => pairings'[agent[a].pairing].consumed = pairings[agent[a].pairing].consumed
  BY <1>1 DEF Aged, Progress
<1> QED BY <1>1, <1>2 DEF Progress

\* A request that goes on has its type, and the other requests stay.
LEMMA AgentGoes ==
    ASSUME Inductive, NEW a \in Agents, NEW pc \in Places, Goto(a, pc)
    PROVE  /\ agent' \in [Agents -> Requests]
           /\ agent'[a].pc = pc /\ agent'[a].pairing = agent[a].pairing
           /\ \A b \in Agents : b # a => agent'[b] = agent[b]
<1>1. [agent[a] EXCEPT !.pc = pc] \in Requests
  BY Typed DEF Requests
<1>2. agent' = [agent EXCEPT ![a] = [agent[a] EXCEPT !.pc = pc]]
  BY Typed DEF Goto
<1> QED BY <1>1, <1>2, Typed DEF Requests

\* A request that ends promises nothing any more.
LEMMA AgentRests ==
    ASSUME Assumptions, Inductive, NEW a \in Agents, agent' = [agent EXCEPT ![a] = IdleAgent]
    PROVE  /\ agent' \in [Agents -> Requests] /\ agent'[a].pc = "idle" /\ Progress(a)'
           /\ \A b \in Agents : b # a => agent'[b] = agent[b]
<1>1. IdleAgent \in Requests /\ IdleAgent.pc = "idle"
  BY DEF IdleAgent, Requests, Places, Assumptions, BoundsAssumption
<1>2. agent' \in [Agents -> Requests] /\ agent'[a] = IdleAgent
  BY <1>1, Typed
<1> QED BY <1>1, <1>2 DEF Progress

-----------------------------------------------------------------------------
(* Connections. *)

\* The owner closes a connection that no claim runs on.
LEMMA OwnerRevokesKeeps ==
    ASSUME Assumptions, Inductive, NEW p, OwnerRevokes(p) PROVE Inductive'
<1>1. /\ ~Waits(p) /\ pairings' = Revoke({p})
      /\ UNCHANGED <<starter, imported, lock, versions, keys, agent, click, used, everClaimed>>
  BY DEF OwnerRevokes
<1>2. Aged /\ \A q \in Pairings : q \notin {p} => pairings'[q] = pairings[q]
  BY <1>1, RevokingAges
<1>3. ASSUME NEW b \in Agents PROVE Progress(b)'
  <2>1. agent[b].pc = "eligible" => agent[b].pairing # p /\ agent[b].pairing \in Pairings
    BY <1>1, EligibleWaits, Typed DEF Progress
  <2> QED BY <1>1, <1>2, <2>1, StaysInProgress DEF Open
<1>4. agent' \in [Agents -> Requests]
  BY <1>1, Typed
<1> QED BY <1>1, <1>2, <1>3, <1>4, AgingKeeps

\* Time passes over a connection, or over its claim.
LEMMA TimeKeeps ==
    ASSUME Assumptions, Inductive, NEW p, Expire(p) \/ Lapse(p) PROVE Inductive'
<1>1. /\ p \in Pairings /\ UNCHANGED <<starter, imported, lock, versions, keys, agent, click, used, everClaimed>>
  BY DEF Expire, Lapse
<1>2. PICK r \in Rows : /\ pairings' = [pairings EXCEPT ![p] = r]
                        /\ r.consumed = pairings[p].consumed /\ r.revoked = pairings[p].revoked
  <2>1. pairings[p] \in Rows /\ pairings \in Seq(Rows)
    BY <1>1, Typed
  <2>2. CASE Expire(p)
    <3>1. pairings' = [pairings EXCEPT ![p] = [pairings[p] EXCEPT !.expired = TRUE]]
      BY <2>2 DEF Expire
    <3>2. /\ [pairings[p] EXCEPT !.expired = TRUE] \in Rows
          /\ [pairings[p] EXCEPT !.expired = TRUE].consumed = pairings[p].consumed
          /\ [pairings[p] EXCEPT !.expired = TRUE].revoked = pairings[p].revoked
      BY <2>1 DEF Rows
    <3> QED BY <3>1, <3>2
  <2>3. CASE Lapse(p)
    <3>1. pairings' = [pairings EXCEPT ![p] = [pairings[p] EXCEPT !.claim = "lapsed"]]
      BY <2>3 DEF Lapse
    <3>2. /\ [pairings[p] EXCEPT !.claim = "lapsed"] \in Rows
          /\ [pairings[p] EXCEPT !.claim = "lapsed"].consumed = pairings[p].consumed
          /\ [pairings[p] EXCEPT !.claim = "lapsed"].revoked = pairings[p].revoked
      BY <2>1 DEF Rows
    <3> QED BY <3>1, <3>2
  <2> QED BY <2>2, <2>3
<1>3. Aged /\ \A q \in Pairings : Open(q) => Open(q)'
  BY <1>1, <1>2, ClaimingAges
<1>4. ASSUME NEW b \in Agents PROVE Progress(b)'
  <2>1. agent[b].pc # "idle" => agent[b].pairing \in Pairings
    BY Typed DEF Progress
  <2> QED BY <1>1, <1>3, <2>1, StaysInProgress
<1>5. agent' \in [Agents -> Requests]
  BY <1>1, Typed
<1> QED BY <1>1, <1>3, <1>4, <1>5, AgingKeeps

-----------------------------------------------------------------------------
(* Clicks of the owner. *)

\* A click that moves on, taking the project's row at most.
LEMMA ClickMoves ==
    ASSUME Assumptions, Inductive, NEW k \in Clicks,
           UNCHANGED <<pairings, starter, imported, versions, keys, agent, everClaimed>>,
           click' \in [Clicks -> Generations], \A l \in Clicks : l # k => click'[l] = click[l],
           lock' = lock \/ (lock = None /\ lock' = k),
           Closing(k)'
    PROVE  Inductive'
<1>1. TypeOK'
  BY Typed DEF TypeOK, Inductive, Places, Requests, Stages, Generations, Pairings
<1>2. ASSUME NEW l \in Clicks PROVE Closing(l)'
  <2>1. CASE l = k
    BY <2>1
  <2>2. CASE l # k
    <3>1. lock = l => lock' = lock
      BY DEF Assumptions, NamesAssumption
    <3> QED BY <2>2, <3>1, Typed DEF Closing, Pairings, Open
  <2> QED BY <2>1, <2>2
<1>3. ASSUME NEW b \in Agents PROVE Progress(b)'
  <2>1. lock = b => lock' = lock
    BY DEF Assumptions, NamesAssumption
  <2> QED BY <2>1, Typed DEF Progress, Pairings, Open
<1>4. OneLiveConnection' /\ AgentConfiguresTheStarter' /\ CompletedIsConfigured'
  BY DEF Inductive, OneLiveConnection, AgentConfiguresTheStarter, CompletedIsConfigured, Pairings, Open
<1>5. Len(pairings') <= MaxPairings /\ (starter' => versions' = <<>>)
  BY DEF Inductive
<1> QED BY <1>1, <1>2, <1>3, <1>4, <1>5 DEF Inductive

\* A click that goes on has its type, and the other clicks stay.
LEMMA ClickGoes ==
    ASSUME Inductive, NEW k \in Clicks, NEW pc \in Stages, click' = [click EXCEPT ![k].pc = pc]
    PROVE  /\ click' \in [Clicks -> Generations] /\ click'[k].pc = pc /\ click'[k].closes = click[k].closes
           /\ \A l \in Clicks : l # k => click'[l] = click[l]
<1>1. [click[k] EXCEPT !.pc = pc] \in Generations
  BY Typed DEF Generations
<1>2. click' = [click EXCEPT ![k] = [click[k] EXCEPT !.pc = pc]]
  BY Typed
<1> QED BY <1>1, <1>2, Typed DEF Generations

\* A click arrives.
LEMMA ClickKeeps ==
    ASSUME Assumptions, Inductive, NEW k \in Clicks, Click(k) PROVE Inductive'
<1>1. /\ click' = [click EXCEPT ![k].pc = "asked"]
      /\ UNCHANGED <<pairings, starter, imported, lock, versions, keys, agent, used, everClaimed>>
  BY DEF Click
<1>2. /\ click' \in [Clicks -> Generations] /\ click'[k].pc = "asked" /\ click'[k].closes = click[k].closes
      /\ \A l \in Clicks : l # k => click'[l] = click[l]
  BY <1>1, ClickGoes DEF Stages
<1>3. Closing(k)'
  BY <1>1, <1>2, Typed DEF Closing, Pairings
<1> QED BY <1>1, <1>2, <1>3, ClickMoves

\* Under the lock of the project, a click is served or finds no running claim.
LEMMA CheckRunningKeeps ==
    ASSUME Assumptions, Inductive, NEW k \in Clicks, CheckRunning(k) PROVE Inductive'
<1>1. UNCHANGED <<pairings, starter, imported, versions, keys, agent, used, everClaimed>> /\ lock = None
  BY DEF CheckRunning, ProjectIsFree
<1>2. PICK pc \in {"served", "checked"} :
         /\ click' = [click EXCEPT ![k].pc = pc]
         /\ IF pc = "served" THEN lock' = lock ELSE lock' = k
  BY DEF CheckRunning
<1>3. /\ click' \in [Clicks -> Generations] /\ click'[k].pc = pc /\ click'[k].closes = click[k].closes
      /\ \A l \in Clicks : l # k => click'[l] = click[l]
  BY <1>2, ClickGoes DEF Stages
<1>4. Closing(k)'
  BY <1>1, <1>2, <1>3, Typed DEF Closing, Pairings
<1>5. lock' = lock \/ (lock = None /\ lock' = k)
  BY <1>1, <1>2
<1> QED BY <1>1, <1>3, <1>4, <1>5, ClickMoves

\* The click takes every open connection, and no other click can add one.
LEMMA CloseOthersKeeps ==
    ASSUME Assumptions, Inductive, NEW k \in Clicks, CloseOthers(k) PROVE Inductive'
<1> DEFINE open == {p \in Pairings : Open(p)}
<1>1. /\ click[k].pc = "checked" /\ click' = [click EXCEPT ![k] = [pc |-> "closed", closes |-> open]]
      /\ UNCHANGED <<pairings, starter, imported, lock, versions, keys, agent, used, everClaimed>>
  BY DEF CloseOthers
<1>2. open \in SUBSET (1 .. MaxPairings) /\ open \subseteq Pairings
  BY Typed DEF Assumptions, BoundsAssumption
<1>3. \A p \in Pairings : Open(p) => p \in open
  OBVIOUS
<1> HIDE DEF open
<1>4. [pc |-> "closed", closes |-> open] \in Generations
  BY <1>2 DEF Generations, Stages
<1>5. /\ click' \in [Clicks -> Generations] /\ click'[k].pc = "closed" /\ click'[k].closes = open
      /\ \A l \in Clicks : l # k => click'[l] = click[l]
  BY <1>1, <1>4, Typed
<1>6. Closing(k)'
  BY <1>1, <1>2, <1>3, <1>5, Typed DEF Closing, Pairings, Open
<1> QED BY <1>1, <1>5, <1>6, ClickMoves

\* The owner has seen the answer.
LEMMA DismissKeeps ==
    ASSUME Assumptions, Inductive, NEW k \in Clicks, Dismiss(k) PROVE Inductive'
<1>1. /\ click' = [click EXCEPT ![k] = IdleClick]
      /\ UNCHANGED <<pairings, starter, imported, lock, versions, keys, agent, used, everClaimed>>
  BY DEF Dismiss
<1>2. IdleClick \in Generations /\ IdleClick.pc = "idle" /\ IdleClick.closes = {}
  BY DEF IdleClick, Generations, Stages
<1>3. /\ click' \in [Clicks -> Generations] /\ click'[k] = IdleClick
      /\ \A l \in Clicks : l # k => click'[l] = click[l]
  BY <1>1, <1>2, Typed
<1>4. Closing(k)'
  BY <1>2, <1>3 DEF Closing
<1> QED BY <1>1, <1>3, <1>4, ClickMoves

\* The new connection is the only open one: all that were open are closed,
\* and none was made while the click held the project's row.
LEMMA CommitPairingKeeps ==
    ASSUME Assumptions, Inductive, NEW k \in Clicks, CommitPairing(k) PROVE Inductive'
<1> DEFINE gone == click[k].closes
           fresh == [expired |-> FALSE, claim |-> "none", consumed |-> FALSE, revoked |-> FALSE]
           n == Len(pairings)
<1>1. /\ click[k].pc = "closed" /\ n < MaxPairings /\ pairings' = Append(Revoke(gone), fresh)
      /\ everClaimed' = everClaimed \cup {p \in gone : Running(p)}
      /\ click' = [click EXCEPT ![k] = [pc |-> "served", closes |-> {}]]
      /\ lock' = Unlock(k)
      /\ UNCHANGED <<starter, imported, versions, keys, agent, used>>
  BY DEF CommitPairing
<1>2. /\ gone \subseteq Pairings /\ lock = k /\ \A p \in Pairings : Open(p) => p \in gone
      /\ MaxPairings \in Nat
  BY <1>1, Typed DEF Closing, Assumptions, BoundsAssumption
<1>3. fresh \in Rows /\ fresh.consumed = FALSE /\ fresh.revoked = FALSE
  BY DEF Rows
<1> HIDE DEF gone, fresh
<1>4. /\ Revoke(gone) \in Seq(Rows) /\ Len(Revoke(gone)) = n /\ n \in Nat
  BY RevokedRows, Typed
<1>5. /\ pairings' \in Seq(Rows) /\ Len(pairings') = n + 1 /\ pairings'[n + 1] = fresh
      /\ \A p \in 1 .. n : pairings'[p] = Revoke(gone)[p]
  BY <1>1, <1>3, <1>4
<1>6. Pairings = 1 .. n /\ Pairings' = 1 .. n + 1
  BY <1>5 DEF Pairings
<1>7. \A p \in Pairings' : p \in Pairings \/ p = n + 1
  BY <1>4, <1>6
<1>8. ASSUME NEW p \in Pairings
      PROVE  /\ pairings'[p].consumed = pairings[p].consumed
             /\ ~(pairings'[p].consumed /\ pairings'[p].revoked)
             /\ ~Open(p)'
  <2>1. /\ pairings'[p] = Revoke(gone)[p] /\ Revoke(gone)[p].consumed = pairings[p].consumed
        /\ ~(Revoke(gone)[p].consumed /\ Revoke(gone)[p].revoked)
        /\ p \in gone => Revoke(gone)[p].consumed \/ Revoke(gone)[p].revoked
        /\ p \notin gone => Revoke(gone)[p] = pairings[p]
    BY <1>5, <1>6, RevokedRows
  <2> QED BY <1>2, <2>1 DEF Open
<1>9. lock' = None
  BY <1>1, <1>2 DEF Unlock
<1>10. [pc |-> "served", closes |-> {}] \in Generations
  BY DEF Generations, Stages
<1>11. click' \in [Clicks -> Generations] /\ click'[k] = [pc |-> "served", closes |-> {}]
       /\ \A l \in Clicks : l # k => click'[l] = click[l]
  BY <1>1, <1>10, Typed
<1>12. TypeOK'
  <2>1. \A p \in Pairings' : ~(pairings'[p].consumed /\ pairings'[p].revoked)
    BY <1>3, <1>5, <1>7, <1>8
  <2>2. keys' \subseteq Pairings' /\ everClaimed' \subseteq Pairings'
    <3>1. Pairings \subseteq Pairings'
      BY <1>4, <1>6
    <3>2. everClaimed' \subseteq everClaimed \cup gone
      BY <1>1
    <3> QED BY <1>1, <1>2, <3>1, <3>2, Typed
  <2> QED BY <1>1, <1>5, <1>9, <1>11, <2>1, <2>2, Typed DEF TypeOK, Rows, Places, Requests, Stages, Generations
<1>13. ASSUME NEW l \in Clicks PROVE Closing(l)'
  <2>1. CASE l = k
    BY <1>11, <2>1 DEF Closing
  <2>2. CASE l # k
    BY <1>2, <1>4, <1>6, <1>11, <2>2, Typed DEF Closing
  <2> QED BY <2>1, <2>2
<1>14. ASSUME NEW b \in Agents PROVE Progress(b)'
  <2>1. lock # b
    BY <1>2 DEF Assumptions, NamesAssumption
  <2>2. agent'[b] = agent[b] /\ Progress(b)
    BY <1>1, Typed
  <2> QED BY <1>4, <1>6, <1>8, <2>1, <2>2 DEF Progress
<1>15. OneLiveConnection'
  BY <1>7, <1>8 DEF OneLiveConnection
<1>16. CompletedIsConfigured'
  <2>1. n + 1 \notin keys
    BY <1>4, <1>6, Typed
  <2>2. CompletedIsConfigured
    BY DEF Inductive
  <2> QED BY <1>1, <1>3, <1>5, <1>7, <1>8, <2>1, <2>2 DEF CompletedIsConfigured
<1>17. AgentConfiguresTheStarter' /\ (starter' => versions' = <<>>) /\ Len(pairings') <= MaxPairings
  BY <1>1, <1>2, <1>4, <1>5 DEF Inductive, AgentConfiguresTheStarter
<1> QED BY <1>12, <1>13, <1>14, <1>15, <1>16, <1>17 DEF Inductive

-----------------------------------------------------------------------------
(* Requests of agents. *)

\* A request that only moves.
LEMMA RequestMoves ==
    ASSUME Assumptions, Inductive, NEW a \in Agents,
           UNCHANGED <<pairings, starter, imported, versions, keys, click, everClaimed>>,
           agent' \in [Agents -> Requests], \A b \in Agents : b # a => agent'[b] = agent[b],
           lock' = lock \/ (lock = a /\ lock' = None),
           Progress(a)'
    PROVE  Inductive'
<1>1. Aged
  BY UnchangedAges
<1>2. ASSUME NEW b \in Agents PROVE Progress(b)'
  <2>1. CASE b = a
    BY <2>1
  <2>2. CASE b # a
    <3>1. agent[b].pc = "eligible" => lock' = lock
      BY <2>2, Typed DEF Progress
    <3> QED BY <1>1, <2>2, <3>1, StaysInProgress DEF Open
  <2> QED BY <2>1, <2>2
<1> QED BY <1>1, <1>2, AgingKeeps

\* An agent presents the token of an open connection.
LEMMA ResolveKeeps ==
    ASSUME Assumptions, Inductive, NEW a \in Agents, NEW p, Resolve(a, p) PROVE Inductive'
<1>1. /\ p \in Pairings /\ agent' = [agent EXCEPT ![a] = [pc |-> "resolved", pairing |-> p]]
      /\ UNCHANGED <<pairings, starter, imported, lock, versions, keys, click, everClaimed>>
  BY DEF Resolve
<1>2. [pc |-> "resolved", pairing |-> p] \in Requests
  BY <1>1, Typed DEF Requests, Places, Assumptions, BoundsAssumption
<1>3. /\ agent' \in [Agents -> Requests] /\ agent'[a] = [pc |-> "resolved", pairing |-> p]
      /\ \A b \in Agents : b # a => agent'[b] = agent[b]
  BY <1>1, <1>2, Typed
<1>4. Progress(a)'
  BY <1>1, <1>3 DEF Progress, Pairings
<1> QED BY <1>1, <1>3, <1>4, RequestMoves

\* A request whose connection changes with it.
LEMMA RequestAges ==
    ASSUME Assumptions, Inductive, NEW a \in Agents, Aged, ~Waits(agent[a].pairing),
           \A q \in Pairings : q # agent[a].pairing => pairings'[q] = pairings[q],
           UNCHANGED <<starter, imported, lock, versions, keys, click, everClaimed>>,
           agent' \in [Agents -> Requests], \A b \in Agents : b # a => agent'[b] = agent[b],
           Progress(a)'
    PROVE  Inductive'
<1>1. ASSUME NEW b \in Agents, b # a PROVE Progress(b)'
  <2>1. agent[b].pc = "eligible" => agent[b].pairing # agent[a].pairing /\ agent[b].pairing \in Pairings
    BY EligibleWaits, Typed DEF Progress
  <2> QED BY <1>1, <2>1, StaysInProgress DEF Open
<1> QED BY <1>1, AgingKeeps

\* A changed project closes the connection.
LEMMA PrecheckKeeps ==
    ASSUME Assumptions, Inductive, NEW a \in Agents, Precheck(a) PROVE Inductive'
<1> DEFINE p == agent[a].pairing
<1>1. /\ agent[a].pc = "resolved" /\ p \in Pairings
      /\ UNCHANGED <<starter, imported, lock, versions, keys, click, used, everClaimed>>
  BY Typed DEF Precheck, Progress
<1>2. CASE ~Waits(p) /\ pairings' = Revoke({p}) /\ agent' = [agent EXCEPT ![a] = IdleAgent]
  <2>1. Aged /\ \A q \in Pairings : q # p => pairings'[q] = pairings[q]
    BY <1>2, RevokingAges
  <2>2. /\ agent' \in [Agents -> Requests] /\ Progress(a)'
        /\ \A b \in Agents : b # a => agent'[b] = agent[b]
    BY <1>2, AgentRests
  <2> QED BY <1>1, <1>2, <2>1, <2>2, RequestAges
<1>3. CASE Goto(a, "prechecked") /\ UNCHANGED pairings
  <2>1. /\ agent' \in [Agents -> Requests]
        /\ agent'[a].pc = "prechecked" /\ agent'[a].pairing = agent[a].pairing
        /\ \A b \in Agents : b # a => agent'[b] = agent[b]
    BY <1>3, AgentGoes DEF Places
  <2>2. Progress(a)'
    BY <1>1, <1>3, <2>1 DEF Progress, Pairings
  <2> QED BY <1>1, <1>3, <2>1, <2>2, RequestMoves
<1> QED BY <1>2, <1>3 DEF Precheck

\* A claim neither opens nor completes a connection.
LEMMA ClaimKeeps ==
    ASSUME Assumptions, Inductive, NEW a \in Agents, Claim(a) PROVE Inductive'
<1> DEFINE p == agent[a].pairing
<1>1. /\ agent[a].pc = "prechecked" /\ p \in Pairings /\ ~Waits(p)
      /\ UNCHANGED <<starter, imported, lock, versions, keys, click, used, everClaimed>>
  BY Typed DEF Claim, Progress
<1>2. CASE pairings' = [pairings EXCEPT ![p].claim = "running"] /\ Goto(a, "claimed")
  <2>1. pairings[p] \in Rows /\ pairings \in Seq(Rows)
    BY <1>1, Typed
  <2>2. pairings' = [pairings EXCEPT ![p] = [pairings[p] EXCEPT !.claim = "running"]]
    BY <1>2
  <2>3. /\ [pairings[p] EXCEPT !.claim = "running"] \in Rows
        /\ [pairings[p] EXCEPT !.claim = "running"].consumed = pairings[p].consumed
        /\ [pairings[p] EXCEPT !.claim = "running"].revoked = pairings[p].revoked
    BY <2>1 DEF Rows
  <2>4. Aged
    BY <1>1, <2>2, <2>3, ClaimingAges
  <2>5. \A q \in Pairings : q # p => pairings'[q] = pairings[q]
    BY <2>1, <2>2, Typed
  <2>6. /\ agent' \in [Agents -> Requests]
        /\ agent'[a].pc = "claimed" /\ agent'[a].pairing = agent[a].pairing
        /\ \A b \in Agents : b # a => agent'[b] = agent[b]
    BY <1>2, AgentGoes DEF Places
  <2>7. Progress(a)'
    BY <1>1, <2>4, <2>6 DEF Progress, Pairings, Aged
  <2> QED BY <1>1, <2>4, <2>5, <2>6, <2>7, RequestAges
<1>3. CASE agent' = [agent EXCEPT ![a] = IdleAgent] /\ UNCHANGED pairings
  BY <1>1, <1>3, AgentRests, RequestMoves
<1> QED BY <1>2, <1>3 DEF Claim

\* The lock of the project is taken for a request that is still welcome.
LEMMA LockProjectKeeps ==
    ASSUME Assumptions, Inductive, NEW a \in Agents, LockProject(a) PROVE Inductive'
<1> DEFINE p == agent[a].pairing
<1>1. /\ agent[a].pc = "claimed" /\ p \in Pairings /\ lock = None
      /\ UNCHANGED <<pairings, starter, imported, versions, keys, click, used, everClaimed>>
  BY Typed DEF LockProject, Progress, ProjectIsFree
<1>2. CASE UNCHANGED lock /\ Goto(a, "ineligible")
  <2>1. /\ agent' \in [Agents -> Requests]
        /\ agent'[a].pc = "ineligible" /\ agent'[a].pairing = agent[a].pairing
        /\ \A b \in Agents : b # a => agent'[b] = agent[b]
    BY <1>2, AgentGoes DEF Places
  <2>2. Progress(a)'
    BY <1>1, <2>1 DEF Progress, Pairings
  <2> QED BY <1>1, <1>2, <2>1, <2>2, RequestMoves
<1>3. CASE Eligible(p) /\ lock' = a /\ Goto(a, "eligible")
  <2>1. /\ agent' \in [Agents -> Requests]
        /\ agent'[a].pc = "eligible" /\ agent'[a].pairing = agent[a].pairing
        /\ \A b \in Agents : b # a => agent'[b] = agent[b]
    BY <1>3, AgentGoes DEF Places
  <2>2. starter /\ imported = 0 /\ Open(p)
    BY <1>3 DEF Eligible
  <2>3. Progress(a)'
    BY <1>1, <1>3, <2>1, <2>2 DEF Progress, Pairings, Open
  <2>4. ASSUME NEW b \in Agents PROVE Progress(b)'
    <3>1. CASE b = a
      BY <2>3, <3>1
    <3>2. CASE b # a
      <4>1. agent[b].pc # "eligible" /\ Progress(b)
        BY <1>1, Typed DEF Progress, Assumptions, NamesAssumption
      <4> QED BY <1>1, <2>1, <3>2, <4>1 DEF Progress, Pairings
    <3> QED BY <3>1, <3>2
  <2>5. ASSUME NEW k \in Clicks PROVE Closing(k)'
    <3>1. click[k].pc \notin {"checked", "closed"} /\ Closing(k)
      BY <1>1, Typed DEF Closing, Assumptions, NamesAssumption
    <3> QED BY <1>1, <3>1 DEF Closing, Pairings
  <2>6. TypeOK'
    BY <1>1, <1>3, <2>1, Typed DEF TypeOK, Inductive, Places, Requests, Stages, Generations, Pairings
  <2>7. /\ OneLiveConnection' /\ AgentConfiguresTheStarter' /\ CompletedIsConfigured'
        /\ Len(pairings') <= MaxPairings /\ (starter' => versions' = <<>>)
    BY <1>1 DEF Inductive, OneLiveConnection, AgentConfiguresTheStarter, CompletedIsConfigured, Pairings, Open
  <2> QED BY <2>4, <2>5, <2>6, <2>7 DEF Inductive
<1> QED BY <1>2, <1>3 DEF LockProject

\* The version of an agent is the first: its project was still the starter,
\* without a case, when the row was locked.
LEMMA CommitVersionKeeps ==
    ASSUME Assumptions, Inductive, NEW a \in Agents, NEW answered \in BOOLEAN, CommitVersion(a, answered)
    PROVE  Inductive'
<1> DEFINE p == agent[a].pairing
           v == [by |-> p, imported |-> imported]
           r == [[pairings[p] EXCEPT !.consumed = TRUE] EXCEPT !.claim = "none"]
<1>1. /\ agent[a].pc = "eligible" /\ versions' = Append(versions, v) /\ starter' = FALSE
      /\ pairings' = [pairings EXCEPT ![p].consumed = TRUE, ![p].claim = "none"]
      /\ lock' = Unlock(a) /\ Goto(a, IF answered THEN "committed" ELSE "releasing")
      /\ UNCHANGED <<imported, keys, click, everClaimed>>
  BY DEF CommitVersion
<1>2. p \in Pairings /\ lock = a /\ starter /\ imported = 0 /\ Open(p)
  BY <1>1, Typed DEF Progress
<1>3. pairings[p] \in Rows /\ pairings \in Seq(Rows) /\ Pairings = 1 .. Len(pairings)
  BY <1>2, Typed
<1>4. r \in Rows /\ r.consumed = TRUE /\ r.revoked = FALSE
  BY <1>2, <1>3 DEF Rows, Open
<1>5. pairings' = [pairings EXCEPT ![p] = r]
  BY <1>1, <1>3
<1> HIDE DEF r
<1>6. /\ pairings' \in Seq(Rows) /\ Len(pairings') = Len(pairings) /\ pairings'[p] = r
      /\ \A q \in Pairings : q # p => pairings'[q] = pairings[q]
  BY <1>2, <1>3, <1>4, <1>5
<1>7. Pairings' = Pairings
  BY <1>6 DEF Pairings
<1>8. versions = <<>> /\ versions' = <<v>>
  BY <1>1, <1>2 DEF Inductive
<1>9. v \in [by : 1 .. MaxPairings \cup {Human}, imported : 0 .. MaxImports]
  BY <1>2, <1>3, Typed DEF Assumptions, BoundsAssumption
<1>10. Len(versions') = 1 /\ versions'[1] = v /\ v.by = p /\ v.imported = 0
  BY <1>2, <1>8
<1>11. versions' \in Seq([by : 1 .. MaxPairings \cup {Human}, imported : 0 .. MaxImports])
  BY <1>8, <1>9
<1> HIDE DEF v
<1>12. PICK pc \in {"committed", "releasing"} : Goto(a, pc)
  BY <1>1
<1>13. /\ agent' \in [Agents -> Requests]
       /\ agent'[a].pc = pc /\ agent'[a].pairing = p
       /\ \A b \in Agents : b # a => agent'[b] = agent[b]
  BY <1>12, AgentGoes DEF Places
<1>14. lock' = None
  BY <1>1, <1>2 DEF Unlock
<1>15. TypeOK'
  <2>1. \A q \in Pairings' : ~(pairings'[q].consumed /\ pairings'[q].revoked)
    BY <1>4, <1>6, <1>7, Typed
  <2> QED BY <1>1, <1>6, <1>7, <1>11, <1>13, <1>14, <2>1, Typed DEF TypeOK, Rows, Places, Requests, Stages, Generations
<1>16. ASSUME NEW b \in Agents PROVE Progress(b)'
  <2>1. CASE b = a
    BY <1>2, <1>4, <1>6, <1>7, <1>13, <2>1 DEF Progress
  <2>2. CASE b # a
    <3>1. agent[b].pc # "eligible" /\ Progress(b) /\ agent'[b] = agent[b]
      BY <1>2, <1>13, <2>2, Typed DEF Progress
    <3>2. \A q \in Pairings : pairings[q].consumed => pairings'[q].consumed
      BY <1>4, <1>6
    <3> QED BY <1>7, <3>1, <3>2 DEF Progress
  <2> QED BY <2>1, <2>2
<1>17. ASSUME NEW k \in Clicks PROVE Closing(k)'
  <2>1. click[k].pc \notin {"checked", "closed"} /\ Closing(k)
    BY <1>2, Typed DEF Closing, Assumptions, NamesAssumption
  <2> QED BY <1>1, <1>7, <2>1 DEF Closing
<1>18. OneLiveConnection'
  <2>1. \A q \in Pairings : Open(q)' => Open(q)
    BY <1>2, <1>6 DEF Open
  <2> QED BY <1>7, <2>1 DEF Inductive, OneLiveConnection
<1>19. CompletedIsConfigured'
  <2>1. ASSUME NEW q \in Pairings, pairings[q].consumed PROVE FALSE
    BY <1>8, <2>1 DEF Inductive, CompletedIsConfigured
  <2>2. \A q \in Pairings : q # p => ~pairings'[q].consumed /\ q \notin keys'
    BY <1>1, <1>6, <2>1 DEF Inductive, CompletedIsConfigured
  <2> QED BY <1>4, <1>6, <1>7, <1>10, <2>2 DEF CompletedIsConfigured
<1>20. AgentConfiguresTheStarter' /\ (starter' => versions' = <<>>) /\ Len(pairings') <= MaxPairings
  BY <1>1, <1>6, <1>10, Typed DEF AgentConfiguresTheStarter
<1> QED BY <1>15, <1>16, <1>17, <1>18, <1>19, <1>20 DEF Inductive

\* A key is minted for a connection that was completed.
LEMMA MintKeyKeeps ==
    ASSUME Assumptions, Inductive, NEW a \in Agents, MintKey(a) PROVE Inductive'
<1> DEFINE p == agent[a].pairing
<1>1. /\ agent[a].pc = "committed" /\ keys' = keys \cup {p} /\ agent' = [agent EXCEPT ![a] = IdleAgent]
      /\ UNCHANGED <<pairings, starter, imported, lock, versions, click, used, everClaimed>>
  BY DEF MintKey
<1>2. p \in Pairings /\ pairings[p].consumed
  BY <1>1, Typed DEF Progress
<1>3. /\ agent' \in [Agents -> Requests] /\ Progress(a)'
      /\ \A b \in Agents : b # a => agent'[b] = agent[b]
  BY <1>1, AgentRests
<1>4. ASSUME NEW b \in Agents PROVE Progress(b)'
  BY <1>1, <1>3, Typed DEF Progress, Pairings, Open
<1>5. ASSUME NEW k \in Clicks PROVE Closing(k)'
  BY <1>1, Typed DEF Closing, Pairings, Open
<1>6. keys' \subseteq Pairings'
  BY <1>1, <1>2, Typed DEF Pairings
<1>7. TypeOK'
  BY <1>1, <1>3, <1>6, Typed DEF TypeOK, Inductive, Places, Requests, Stages, Generations, Pairings
<1>8. CompletedIsConfigured'
  BY <1>1, <1>2 DEF Inductive, CompletedIsConfigured, Pairings
<1>9. /\ OneLiveConnection' /\ AgentConfiguresTheStarter'
      /\ Len(pairings') <= MaxPairings /\ (starter' => versions' = <<>>)
  BY <1>1 DEF Inductive, OneLiveConnection, AgentConfiguresTheStarter, Pairings, Open
<1> QED BY <1>4, <1>5, <1>7, <1>8, <1>9 DEF Inductive

\* The gate refuses the version of a completed connection.
LEMMA GateFailsKeeps ==
    ASSUME Assumptions, Inductive, NEW a \in Agents, GateFails(a) PROVE Inductive'
<1>1. /\ agent[a].pc = "committed" /\ Goto(a, "completing")
      /\ UNCHANGED <<pairings, starter, imported, lock, versions, keys, click, used, everClaimed>>
  BY DEF GateFails
<1>2. /\ agent' \in [Agents -> Requests]
      /\ agent'[a].pc = "completing" /\ agent'[a].pairing = agent[a].pairing
      /\ \A b \in Agents : b # a => agent'[b] = agent[b]
  BY <1>1, AgentGoes DEF Places
<1>3. Progress(a)'
  BY <1>1, <1>2, Typed DEF Progress, Pairings
<1> QED BY <1>1, <1>2, <1>3, RequestMoves

\* An error, or the death of the process, rolls the transaction back.
LEMMA FailsKeeps ==
    ASSUME Assumptions, Inductive, NEW a \in Agents, FailsBefore(a) \/ Crash(a) PROVE Inductive'
<1>1. /\ lock' = lock \/ (lock = a /\ lock' = None)
      /\ UNCHANGED <<pairings, starter, imported, versions, keys, click, everClaimed>>
  BY DEF FailsBefore, Crash, Unlock
<1>2. CASE FailsBefore(a)
  <2>1. agent[a].pc # "idle" /\ Goto(a, "releasing")
    BY <1>2 DEF FailsBefore
  <2>2. /\ agent' \in [Agents -> Requests]
        /\ agent'[a].pc = "releasing" /\ agent'[a].pairing = agent[a].pairing
        /\ \A b \in Agents : b # a => agent'[b] = agent[b]
    BY <2>1, AgentGoes DEF Places
  <2>3. Progress(a)'
    BY <1>1, <2>1, <2>2, Typed DEF Progress, Pairings
  <2> QED BY <1>1, <2>2, <2>3, RequestMoves
<1>3. CASE Crash(a)
  <2>1. agent' = [agent EXCEPT ![a] = IdleAgent]
    BY <1>3 DEF Crash
  <2> QED BY <1>1, <2>1, AgentRests, RequestMoves
<1> QED BY <1>2, <1>3

\* What the handler of an error does with the connection: it completes none
\* that is not completed already.
LEMMA HandleErrorKeeps ==
    ASSUME Assumptions, Inductive, NEW a \in Agents, HandleError(a) PROVE Inductive'
<1> DEFINE p == agent[a].pairing
<1>1. /\ agent[a].pc \in {"ineligible", "releasing", "completing"} /\ p \in Pairings /\ ~Waits(p)
      /\ pairings' = AfterError(agent[a].pc, p) /\ agent' = [agent EXCEPT ![a] = IdleAgent]
      /\ UNCHANGED <<starter, imported, lock, versions, keys, click, used, everClaimed>>
  BY Typed DEF HandleError, Progress
<1>2. Aged /\ \A q \in Pairings : q # p => pairings'[q] = pairings[q]
  <2>1. CASE agent[a].pc = "ineligible"
    <3>1. pairings' = Revoke({p})
      BY <1>1, <2>1 DEF AfterError
    <3> QED BY <3>1, RevokingAges
  <2>2. CASE agent[a].pc = "releasing"
    <3> DEFINE r == IF Open(p) THEN [pairings[p] EXCEPT !.claim = "none"] ELSE pairings[p]
    <3>1. pairings' = [pairings EXCEPT ![p] = r]
      BY <1>1, <2>2 DEF AfterError, Released
    <3>2. pairings[p] \in Rows /\ pairings \in Seq(Rows) /\ Pairings = 1 .. Len(pairings)
      BY <1>1, Typed
    <3>3. r \in Rows /\ r.consumed = pairings[p].consumed /\ r.revoked = pairings[p].revoked
      BY <3>2 DEF Rows
    <3> HIDE DEF r
    <3>4. Aged
      BY <1>1, <3>1, <3>3, ClaimingAges
    <3>5. \A q \in Pairings : q # p => pairings'[q] = pairings[q]
      BY <1>1, <3>1, <3>2
    <3> QED BY <3>4, <3>5
  <2>3. CASE agent[a].pc = "completing"
    <3>1. ~Open(p)
      BY <2>3, Typed DEF Progress, Open
    <3>2. pairings' = [pairings EXCEPT ![p] = IF Open(p) THEN [@ EXCEPT !.consumed = TRUE, !.claim = "none"] ELSE @]
      BY <1>1, <2>3 DEF AfterError, Completed
    <3>3. pairings' = [pairings EXCEPT ![p] = pairings[p]]
      BY <3>1, <3>2
    <3>4. pairings' = pairings
      BY <1>1, <3>3, Typed
    <3> QED BY <3>4, UnchangedAges
  <2> QED BY <1>1, <2>1, <2>2, <2>3
<1>3. /\ agent' \in [Agents -> Requests] /\ Progress(a)'
      /\ \A b \in Agents : b # a => agent'[b] = agent[b]
  BY <1>1, AgentRests
<1> QED BY <1>1, <1>2, <1>3, RequestAges

-----------------------------------------------------------------------------
(* Everybody else waits for the lock of the project. *)

\* The owner edits or imports while nobody holds the project.
LEMMA OthersKeep ==
    ASSUME Assumptions, Inductive, HumanEdit \/ Import PROVE Inductive'
<1>1. lock = None /\ UNCHANGED <<pairings, lock, keys, agent, click, everClaimed>>
  BY DEF HumanEdit, Import
<1>2. ASSUME NEW a \in Agents PROVE Progress(a)'
  <2>1. agent[a].pc # "eligible" /\ Progress(a)
    BY <1>1, Typed DEF Progress, Assumptions, NamesAssumption
  <2> QED BY <1>1, <2>1 DEF Progress, Pairings
<1>3. ASSUME NEW k \in Clicks PROVE Closing(k)'
  BY <1>1, Typed DEF Closing, Pairings, Open
<1>4. Len(pairings') <= MaxPairings /\ OneLiveConnection'
  BY <1>1 DEF Inductive, OneLiveConnection, Pairings, Open
<1>5. CASE HumanEdit
  <2> DEFINE v == [by |-> Human, imported |-> imported]
  <2>1. /\ versions' = Append(versions, v) /\ starter' = FALSE /\ imported' = imported
    BY <1>5 DEF HumanEdit
  <2>2. v \in [by : 1 .. MaxPairings \cup {Human}, imported : 0 .. MaxImports] /\ v.by = Human
    BY Typed
  <2> HIDE DEF v
  <2>3. /\ versions' \in Seq([by : 1 .. MaxPairings \cup {Human}, imported : 0 .. MaxImports])
        /\ Len(versions') = Len(versions) + 1 /\ versions'[Len(versions) + 1] = v
        /\ \A i \in 1 .. Len(versions) : versions'[i] = versions[i] /\ i \in 1 .. Len(versions')
        /\ \A i \in 1 .. Len(versions') : i \in 1 .. Len(versions) \/ i = Len(versions) + 1
    BY <2>1, <2>2, Typed
  <2>4. TypeOK'
    BY <1>1, <2>1, <2>3, Typed DEF TypeOK, Inductive, Places, Requests, Stages, Generations, Pairings
  <2>5. AgentConfiguresTheStarter'
    BY <2>2, <2>3 DEF Inductive, AgentConfiguresTheStarter
  <2>6. CompletedIsConfigured'
    BY SMTT(90), <1>1, <2>3 DEF Inductive, CompletedIsConfigured, Pairings
  <2> QED BY <1>2, <1>3, <1>4, <2>1, <2>4, <2>5, <2>6 DEF Inductive
<1>6. CASE Import
  <2>1. imported < MaxImports /\ imported' = imported + 1 /\ UNCHANGED <<versions, starter>>
    BY <1>6 DEF Import
  <2>2. imported' \in 0 .. MaxImports
    BY <2>1, Typed DEF Assumptions, BoundsAssumption
  <2>3. TypeOK'
    BY <1>1, <2>1, <2>2, Typed DEF TypeOK, Inductive, Places, Requests, Stages, Generations, Pairings
  <2>4. AgentConfiguresTheStarter' /\ CompletedIsConfigured' /\ (starter' => versions' = <<>>)
    BY <1>1, <2>1 DEF Inductive, AgentConfiguresTheStarter, CompletedIsConfigured, Pairings
  <2> QED BY <1>2, <1>3, <1>4, <2>3, <2>4 DEF Inductive
<1> QED BY <1>5, <1>6

\* Nothing happened yet.
LEMMA InitInductive ==
    ASSUME Assumptions, Init PROVE Inductive
<1>1. Len(pairings) = 0 /\ Len(versions) = 0 /\ Pairings = {}
  BY DEF Init, Pairings
<1>2. IdleAgent \in Requests /\ IdleClick \in Generations
  BY DEF IdleAgent, IdleClick, Requests, Places, Generations, Stages, Assumptions, BoundsAssumption
<1>3. TypeOK
  BY <1>1, <1>2 DEF Init, TypeOK, Requests, Places, Generations, Stages, Assumptions, BoundsAssumption
<1>4. \A a \in Agents : Progress(a)
  BY DEF Init, Progress, IdleAgent
<1>5. \A k \in Clicks : Closing(k)
  BY DEF Init, Closing, IdleClick
<1> QED BY <1>1, <1>3, <1>4, <1>5 DEF Init, Inductive, OneLiveConnection, AgentConfiguresTheStarter,
           CompletedIsConfigured, Assumptions, BoundsAssumption

\* Every step keeps what the lock of the project promises.
LEMMA StepInductive ==
    ASSUME Assumptions, Inductive, [Next]_vars PROVE Inductive'
<1>1. CASE \E k \in Clicks : Click(k) \/ Generate(k) \/ Dismiss(k)
  BY <1>1, ClickKeeps, CheckRunningKeeps, CloseOthersKeeps, CommitPairingKeeps, DismissKeeps DEF Generate
<1>2. CASE \E a \in Agents : \E p \in 1 .. MaxPairings : Resolve(a, p)
  BY <1>2, ResolveKeeps
<1>3. CASE \E a \in Agents : Bootstrap(a) \/ CommitVersion(a, FALSE) \/ Crash(a)
  BY <1>3, PrecheckKeeps, ClaimKeeps, LockProjectKeeps, CommitVersionKeeps, MintKeyKeeps, GateFailsKeeps,
     FailsKeeps, HandleErrorKeeps DEF Bootstrap
<1>4. CASE \E p \in 1 .. MaxPairings : OwnerRevokes(p) \/ Expire(p) \/ Lapse(p)
  BY <1>4, OwnerRevokesKeeps, TimeKeeps
<1>5. CASE UNCHANGED vars
  <2>1. \A a \in Agents : Progress(a)'
    BY <1>5, Typed DEF vars, Progress, Pairings, Open
  <2>2. agent' \in [Agents -> Requests] /\ Aged
    BY <1>5, Typed, UnchangedAges DEF vars
  <2> QED BY <1>5, <2>1, <2>2, AgingKeeps DEF vars
<1> QED BY <1>1, <1>2, <1>3, <1>4, <1>5, OthersKeep DEF Next
-----------------------------------------------------------------------------
\* What the lock of the project keeps for every request, at every moment.
THEOREM SetupInvariant == ASSUME Assumptions PROVE Spec => []Inductive
<1>1. Init => Inductive
  BY InitInductive
<1>2. Inductive /\ [Next]_vars => Inductive'
  BY StepInductive
<1> QED BY <1>1, <1>2, PTL DEF Spec

\* Every variable has its type.
THEOREM SetupTyped == ASSUME Assumptions PROVE Spec => []TypeOK
<1>1. Inductive => TypeOK
  BY DEF Inductive
<1> QED BY <1>1, SetupInvariant, PTL

\* The project has at most one live connection, however many clicks, claims
\* and errors overlap.
THEOREM OneConnection == ASSUME Assumptions PROVE Spec => []OneLiveConnection
<1>1. Inductive => OneLiveConnection
  BY DEF Inductive
<1> QED BY <1>1, SetupInvariant, PTL

\* An agent configures the untouched project only.
THEOREM StarterOnly == ASSUME Assumptions PROVE Spec => []AgentConfiguresTheStarter
<1>1. Inductive => AgentConfiguresTheStarter
  BY DEF Inductive
<1> QED BY <1>1, SetupInvariant, PTL

\* A connection that is completed has configured the project, and a key was
\* minted for no other.
THEOREM CompletionConfigures == ASSUME Assumptions PROVE Spec => []CompletedIsConfigured
<1>1. Inductive => CompletedIsConfigured
  BY DEF Inductive
<1> QED BY <1>1, SetupInvariant, PTL
=============================================================================
