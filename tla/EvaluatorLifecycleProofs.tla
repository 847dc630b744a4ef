---------------------- MODULE EvaluatorLifecycleProofs ----------------------
(***************************************************************************)
(* What holds of the evaluator versions of a criterion for every number of *)
(* requests, versions, artifacts and keys.  The criteria row is a lock     *)
(* that is kept to the commit, so what a transaction read under it is      *)
(* still true when its writes appear; the deferred trigger, which counts   *)
(* active versions, is the only one that looks at the whole lineage.       *)
(***************************************************************************)
EXTENDS EvaluatorLifecycle, FiniteSetTheorems, TLAPS

Assumptions == NamesAssumption /\ EvidenceAssumption /\ BoundsAssumption

-----------------------------------------------------------------------------
(* The inductive invariant.                                                *)

Command == [kind : {"none", "create", "activate", "retire", "revoke", "authorize"},
            key : Keys \cup {None}, v : Versions \cup {None}, head : Nat,
            prior : (Versions \cup {None}) \X Nat, a : Artifacts \cup {None}]

\* A command names what its kind needs.
WellFormed(c) ==
    /\ c.kind \in {"create", "activate", "retire", "authorize"} => c.key \in Keys
    /\ c.kind \in {"activate", "retire", "authorize"} => c.v \in Versions
    /\ c.kind \in {"activate", "revoke"} => c.a \in Artifacts
    /\ c.kind = "none" => c = NoCommand

Events == [transition : DOMAIN StateAfter, cmd : Command, a : Artifacts \cup {None}]

UnderLock == {"recheck", "create", "activate", "retire", "revoke", "authorize",
              "check", "commit"}

Answers == {"none", "replayed", "conflict", "refused", "done", "lost"}

Handler == [pc : UnderLock \cup {"idle", "end", "look", "lock", "read"},
            cmd : {c \in Command : WellFormed(c)},
            writes : [Versions -> Seq(Events)],
            base : [Versions -> Nat],
            revokes : Artifacts \cup {None},
            grant : (Versions \X Nat) \cup {None},
            answer : Answers]

Types ==
    /\ chain \in [Versions -> Seq(Events)]
    /\ revoked \subseteq Artifacts /\ exposed \subseteq Artifacts
    /\ grants \in [Keys -> (Versions \X Nat) \cup {None}]
    /\ lock \in Handlers \cup {Nobody}
    /\ h \in [Handlers -> Handler]
    /\ asked \in 0 .. MaxCommands /\ faults \in 0 .. MaxFaults

\* The lock of the lineage is whoever is between taking it and the end.
Locking == \A x \in Handlers : h[x].pc \in UnderLock <=> lock = x

\* A chain begins with the candidate and has no other.
Seeded ==
    \A v \in Versions : \A i \in 1 .. Len(chain[v]) :
        (chain[v][i].transition = "candidate_created") = (i = 1)

\* Where a handler is says what it was asked.
OnCourse(x) ==
    LET c == h[x].cmd IN
    /\ h[x].pc \in {"look", "recheck"} => c.kind \in Owner
    /\ h[x].pc \in {"create", "activate", "retire", "revoke", "authorize"} => c.kind = h[x].pc
    /\ h[x].pc = "read" => c.kind = "authorize"
    /\ h[x].pc = "lock" => c.kind \in Owner \cup {"revoke", "authorize"}
    /\ h[x].pc \in {"check", "commit"} => c.kind # "none"
    /\ h[x].pc \notin {"idle", "end"} => h[x].answer = "none"
    /\ h[x].grant # None => c.kind = "authorize"

\* Past the second lookup the key of an owner's command has no event.
KeyIsFresh(x) ==
    h[x].pc \in {"create", "activate", "retire", "check", "commit"} /\ h[x].cmd.kind \in Owner
      => EventsOf(h[x].cmd) = {}

LastOf(s) == s[Len(s)]

\* What is about to be committed was computed from the chains as they are.
WritesFollow(x) ==
    LET c == h[x].cmd IN
    h[x].pc \in {"check", "commit"} =>
      \A v \in Versions :
        /\ h[x].base[v] = Len(chain[v])
        /\ h[x].writes[v] # <<>> =>
             LET e == h[x].writes[v][1] IN
             /\ h[x].writes[v] = <<e>> /\ e.cmd = c
             /\ (e.transition = "candidate_created") = (chain[v] = <<>>)
             /\ chain[v] # <<>> /\ c.kind \in Owner =>
                  (c.v = v /\ c.head = Len(chain[v])) \/ c.prior = <<v, Len(chain[v])>>

\* It leaves no version active on an artifact that is revoked then.
WritesAreClean(x) ==
    h[x].pc \in {"check", "commit"} =>
      \A v \in Versions :
        After(x)[v] # <<>> /\ LastOf(After(x)[v]).transition = "activated"
          => LastOf(After(x)[v]).a \notin revoked \cup ({h[x].revokes} \ {None})

ActiveAfter(x) == {v \in Versions : After(x)[v] # <<>> /\ LastOf(After(x)[v]).transition = "activated"}

\* The trigger has let it pass.
Passed(x) == h[x].pc = "commit" => Cardinality(ActiveAfter(x)) <= 1

\* An authorization about to be committed binds an admissible head.
GrantHolds(x) ==
    LET c == h[x].cmd IN
    h[x].pc \in {"check", "commit"} /\ c.kind = "authorize" =>
      /\ h[x].grant = Shown(c.v) /\ grants[c.key] \in {None, h[x].grant}
      /\ State(c.v) = "active" /\ HeadOf(c.v).a \notin revoked
      /\ \A v \in Versions : h[x].writes[v] = <<>>

Prepared(x) ==
    OnCourse(x) /\ KeyIsFresh(x) /\ WritesFollow(x) /\ WritesAreClean(x) /\ Passed(x) /\ GrantHolds(x)

Inductive ==
    /\ Types /\ Locking /\ Seeded
    /\ \A x \in Handlers : Prepared(x)
    /\ AtMostOneActive /\ RevokedIsNotActive

-----------------------------------------------------------------------------
(* Commands and chains.                                                    *)

\* A request that does not repeat another names what its kind needs.
LEMMA CommandsAreWellFormed ==
    ASSUME Assumptions, Types
    PROVE  \A c \in Commands : c \in Command /\ WellFormed(c)
<1> DEFINE Prior(a) == IF Active \ {CalibrationOf[a]} = {} THEN <<None, 0>>
                       ELSE Shown(CHOOSE w \in Active \ {CalibrationOf[a]} : TRUE)
           CreateOf(k) == [NoCommand EXCEPT !.kind = "create", !.key = k]
           RetireOf(k, v) == [NoCommand EXCEPT !.kind = "retire", !.key = k, !.v = v, !.head = Len(chain[v])]
           ActivateOf(k, a) == [kind |-> "activate", key |-> k, v |-> CalibrationOf[a],
                                head |-> Len(chain[CalibrationOf[a]]), prior |-> Prior(a), a |-> a]
           AuthorizeOf(k, v) == [NoCommand EXCEPT !.kind = "authorize", !.key = k, !.v = v]
           RevokeOf(a) == [NoCommand EXCEPT !.kind = "revoke", !.a = a]
           Fits(c) == c \in Command /\ WellFormed(c)
<1>1. \A v \in Versions : Len(chain[v]) \in Nat /\ Shown(v) \in (Versions \cup {None}) \X Nat
  BY DEF Types, Shown
<1>2. <<None, 0>> \in (Versions \cup {None}) \X Nat
  OBVIOUS
<1>3. \A a \in Artifacts : CalibrationOf[a] \in Versions
  BY DEF Assumptions, EvidenceAssumption
<1>4. ASSUME NEW a \in Artifacts
      PROVE  Prior(a) \in (Versions \cup {None}) \X Nat
  <2>1. CASE Active \ {CalibrationOf[a]} = {}
    BY <2>1, <1>2
  <2>2. CASE Active \ {CalibrationOf[a]} # {}
    <3>1. (CHOOSE w \in Active \ {CalibrationOf[a]} : TRUE) \in Versions
      BY <2>2 DEF Active
    <3>2. QED
      BY <2>2, <3>1, <1>1
  <2>3. QED
    BY <2>1, <2>2
<1>5. Commands = {CreateOf(k) : k \in Keys}
                 \cup {RetireOf(k, v) : k \in Keys, v \in {w \in Versions : Exists(w)}}
                 \cup {ActivateOf(k, a) : k \in Keys, a \in {b \in Artifacts : Exists(CalibrationOf[b])}}
                 \cup {AuthorizeOf(k, v) : k \in Keys, v \in {w \in Versions : Exists(w)}}
                 \cup {RevokeOf(a) : a \in Artifacts \ revoked}
  BY DEF Commands
<1> HIDE DEF Prior
<1>6. \A k \in Keys : Fits(CreateOf(k))
  BY <1>2 DEF NoCommand, Command, WellFormed
<1>7. \A k \in Keys, v \in Versions : Fits(RetireOf(k, v)) /\ Fits(AuthorizeOf(k, v))
  <2>1. TAKE k \in Keys, v \in Versions
  <2>2. Fits(RetireOf(k, v))
    BY <1>1, <1>2 DEF NoCommand, Command, WellFormed
  <2>3. Fits(AuthorizeOf(k, v))
    BY <1>2 DEF NoCommand, Command, WellFormed
  <2>4. QED
    BY <2>2, <2>3
<1>8. \A k \in Keys, a \in Artifacts : Fits(ActivateOf(k, a))
  <2>1. TAKE k \in Keys, a \in Artifacts
  <2>2. CalibrationOf[a] \in Versions /\ Len(chain[CalibrationOf[a]]) \in Nat
        /\ Prior(a) \in (Versions \cup {None}) \X Nat
    BY <1>1, <1>3, <1>4
  <2>3. QED
    BY <2>2 DEF Command, WellFormed
<1>9. \A a \in Artifacts : Fits(RevokeOf(a))
  BY <1>2 DEF NoCommand, Command, WellFormed
<1> HIDE DEF CreateOf, RetireOf, ActivateOf, AuthorizeOf, RevokeOf
<1>10. \A c \in Commands : Fits(c)
  BY <1>5, <1>6, <1>7, <1>8, <1>9
<1>11. QED
  BY <1>10

\* What a chain ends with, with an event appended or with none.
LEMMA Appended ==
    ASSUME NEW S, NEW s \in Seq(S), NEW e \in S
    PROVE  /\ s \o <<e>> \in Seq(S) /\ Len(s \o <<e>>) = Len(s) + 1
           /\ LastOf(s \o <<e>>) = e /\ s \o <<e>> # <<>>
           /\ \A i \in 1 .. Len(s) : (s \o <<e>>)[i] = s[i]
           /\ s \o <<>> = s
  BY DEF LastOf

-----------------------------------------------------------------------------
(* Steps that leave the rows alone.                                        *)

\* What one request prepared stays so through the steps of another.
LEMMA OthersStayPrepared ==
    ASSUME Inductive, NEW x \in Handlers, UNCHANGED <<chain, revoked, grants>>,
           \A y \in Handlers \ {x} : h'[y] = h[y],
           Types', Locking', Prepared(x)'
    PROVE  Inductive'
<1>1. ASSUME NEW y \in Handlers, y # x
      PROVE  Prepared(y)'
  <2>1. Prepared(y) /\ h'[y] = h[y]
    BY <1>1 DEF Inductive
  <2>2. After(y)' = After(y) /\ ActiveAfter(y)' = ActiveAfter(y)
    BY <2>1 DEF After, ActiveAfter
  <2>3. OnCourse(y)' /\ WritesFollow(y)'
    BY <2>1 DEF Prepared, OnCourse, WritesFollow
  <2>4. KeyIsFresh(y)'
    BY <2>1 DEF Prepared, KeyIsFresh, EventsOf
  <2>5. WritesAreClean(y)' /\ Passed(y)'
    BY <2>1, <2>2 DEF Prepared, WritesAreClean, Passed
  <2>6. GrantHolds(y)'
    BY <2>1 DEF Prepared, GrantHolds, Shown, State, Exists, HeadOf
  <2>7. QED
    BY <2>3, <2>4, <2>5, <2>6 DEF Prepared
<1>2. Seeded' /\ AtMostOneActive' /\ RevokedIsNotActive'
  BY DEF Inductive, Seeded, AtMostOneActive, RevokedIsNotActive, Active, State, Exists, HeadOf
<1>3. QED
  BY <1>1, <1>2 DEF Inductive

\* A handler that ends gives the lock back and has nothing prepared.
LEMMA EndsClean ==
    ASSUME Assumptions, Types, NEW x \in Handlers,
           NEW answer \in Answers,
           End(x, answer), Locking
    PROVE  /\ h' \in [Handlers -> Handler] /\ lock' \in Handlers \cup {Nobody}
           /\ \A y \in Handlers \ {x} : h'[y] = h[y]
           /\ Locking' /\ Prepared(x)'
<1>1. h'[x] = [Idle EXCEPT !.pc = "end", !.cmd = h[x].cmd, !.answer = answer]
  BY DEF End, Types
<1>2. h'[x] \in Handler
  <2>1. /\ h[x].cmd \in {c \in Command : WellFormed(c)}
        /\ [v \in Versions |-> <<>>] \in [Versions -> Seq(Events)]
        /\ [v \in Versions |-> 0] \in [Versions -> Nat]
    BY DEF Types, Handler
  <2>2. QED
    BY <1>1, <2>1 DEF Handler, Idle, Answers
<1>3. \A y \in Handlers \ {x} : h'[y] = h[y]
  BY DEF End, Types
<1>4. h' \in [Handlers -> Handler]
  BY <1>2 DEF End, Types
<1>5. h'[x].pc = "end" /\ h'[x].grant = None
  BY <1>1 DEF Idle
<1>6. Locking'
  BY <1>3, <1>5 DEF End, Locking, UnderLock, Types, Assumptions, NamesAssumption
<1>7. Prepared(x)'
  BY <1>5 DEF Prepared, OnCourse, KeyIsFresh, WritesFollow, WritesAreClean, Passed, GrantHolds
<1>8. QED
  BY <1>3, <1>4, <1>6, <1>7 DEF End, Types

\* A request that ends leaves the lineage alone.
LEMMA EndKeeps ==
    ASSUME Assumptions, Inductive, NEW x \in Handlers,
           NEW answer \in Answers,
           End(x, answer), UNCHANGED <<rows, asked>>, faults' \in 0 .. MaxFaults
    PROVE  Inductive'
<1>1. Types'
  BY EndsClean DEF Inductive, Types, rows
<1>2. QED
  BY <1>1, EndsClean, OthersStayPrepared DEF Inductive, rows

\* A handler that moves on without writing.
LEMMA GotoKeeps ==
    ASSUME Assumptions, Inductive, NEW x \in Handlers,
           NEW pc \in UnderLock \cup {"idle", "end", "look", "lock", "read"}, Goto(x, pc),
           lock' \in Handlers \cup {Nobody}, UNCHANGED <<rows, asked, faults>>,
           Locking', Prepared(x)'
    PROVE  Inductive'
<1>1. h'[x] = [h[x] EXCEPT !.pc = pc] /\ \A y \in Handlers \ {x} : h'[y] = h[y]
  BY DEF Goto, Inductive, Types
<1>2. h'[x] \in Handler
  BY ZenonT(40), <1>1 DEF Inductive, Types, Handler
<1>3. h' \in [Handlers -> Handler]
  BY <1>2 DEF Goto, Inductive, Types
<1>4. Types'
  BY <1>3 DEF Inductive, Types, rows
<1>5. QED
  BY <1>1, <1>4, OthersStayPrepared DEF rows

\* Under the lock nothing but the place of the handler that holds it moves.
LEMMA LockKept ==
    ASSUME Types, Locking, NEW x \in Handlers, h[x].pc \in UnderLock, h'[x].pc \in UnderLock,
           \A y \in Handlers \ {x} : h'[y] = h[y], UNCHANGED lock
    PROVE  Locking'
  BY DEF Locking

\* What the rows say for an event e of command c on version v, when r is revoked with it.
Justified(c, v, e, r) ==
    /\ e.cmd = c /\ (e.transition = "candidate_created") = (chain[v] = <<>>)
    /\ chain[v] # <<>> /\ c.kind \in Owner => (c.v = v /\ c.head = Len(chain[v])) \/ c.prior = Shown(v)
    /\ e.transition = "activated" => e.a \notin revoked /\ r = None

\* What a handler prepares holds when it was computed from the rows it reads.
LEMMA WriteKeeps ==
    ASSUME Assumptions, Inductive, NEW x \in Handlers,
           h[x].pc \in {"create", "activate", "retire", "revoke", "authorize"},
           NEW w \in [Versions -> Seq(Events)], NEW r \in Artifacts \cup {None},
           NEW g \in (Versions \X Nat) \cup {None},
           Write(x, w, r, g), UNCHANGED <<rows, lock, asked, faults>>,
           \A v \in Versions : w[v] = <<>> \/ \E e \in Events : w[v] = <<e>> /\ Justified(h[x].cmd, v, e, r),
           \A v \in Active : w[v] = <<>> => HeadOf(v).a # r \/ r = None,
           g # None => h[x].cmd.kind = "authorize",
           h[x].cmd.kind = "authorize" =>
               /\ g = Shown(h[x].cmd.v) /\ grants[h[x].cmd.key] \in {None, g}
               /\ State(h[x].cmd.v) = "active" /\ HeadOf(h[x].cmd.v).a \notin revoked
               /\ \A v \in Versions : w[v] = <<>>
    PROVE  Inductive'
<1> DEFINE b == [v \in Versions |-> Len(chain[v])]
<1>1. /\ h'[x] = [h[x] EXCEPT !.pc = "check", !.writes = w, !.revokes = r, !.grant = g, !.base = b]
      /\ \A y \in Handlers \ {x} : h'[y] = h[y]
  BY DEF Write, Inductive, Types
<1>2. b \in [Versions -> Nat]
  BY DEF Inductive, Types
<1> HIDE DEF b
<1>3. h[x] \in Handler
  BY DEF Inductive, Types
<1>4. h'[x] \in Handler
  <2>1. h'[x] = [pc |-> "check", cmd |-> h[x].cmd, writes |-> w, base |-> b, revokes |-> r,
                 grant |-> g, answer |-> h[x].answer]
    BY <1>1, <1>3 DEF Handler
  <2>2. h[x].cmd \in {c \in Command : WellFormed(c)} /\ h[x].answer \in Answers
    BY <1>3 DEF Handler
  <2>3. QED
    BY <2>1, <2>2, <1>2 DEF Handler, UnderLock
<1>5. /\ h'[x].pc = "check" /\ h'[x].writes = w /\ h'[x].revokes = r /\ h'[x].grant = g
      /\ h'[x].base = b /\ h'[x].cmd = h[x].cmd /\ h'[x].answer = h[x].answer
  BY <1>1, <1>3 DEF Handler
<1>6. h' \in [Handlers -> Handler]
  BY <1>4 DEF Write, Inductive, Types
<1>7. Types'
  BY <1>6 DEF Inductive, Types, rows
<1>8. Locking'
  BY <1>1, <1>5, LockKept DEF Inductive, UnderLock
<1>9. UNCHANGED <<chain, revoked, grants>>
  BY DEF rows
<1>10. OnCourse(x)'
  BY <1>5 DEF OnCourse, Inductive, Prepared
<1>11. KeyIsFresh(x)'
  <2>1. EventsOf(h[x].cmd)' = EventsOf(h[x].cmd)
    BY <1>5, <1>9 DEF EventsOf
  <2>2. h[x].cmd.kind \in Owner => EventsOf(h[x].cmd) = {}
    BY DEF KeyIsFresh, Inductive, Prepared, OnCourse, Owner
  <2>3. QED
    BY <1>5, <1>9, <2>1, <2>2 DEF KeyIsFresh, EventsOf
<1>12. WritesFollow(x)'
  <2>1. ASSUME NEW v \in Versions, w[v] # <<>>
        PROVE  /\ w[v] = <<w[v][1]>> /\ w[v][1].cmd = h[x].cmd
               /\ (w[v][1].transition = "candidate_created") = (chain[v] = <<>>)
               /\ chain[v] # <<>> /\ h[x].cmd.kind \in Owner =>
                    (h[x].cmd.v = v /\ h[x].cmd.head = Len(chain[v])) \/ h[x].cmd.prior = <<v, Len(chain[v])>>
    <3>1. PICK e \in Events : w[v] = <<e>> /\ Justified(h[x].cmd, v, e, r)
      BY <2>1
    <3>2. w[v][1] = e
      BY <3>1
    <3>3. QED
      BY <3>1, <3>2 DEF Justified, Shown
  <2>2. QED
    BY <1>5, <1>9, <2>1 DEF WritesFollow, b
<1>13. WritesAreClean(x)'
  <2>1. SUFFICES ASSUME NEW v \in Versions, After(x)'[v] # <<>>, LastOf(After(x)'[v]).transition = "activated"
                 PROVE  LastOf(After(x)'[v]).a \notin revoked \cup ({r} \ {None})
    BY <1>5, <1>9 DEF WritesAreClean
  <2>2. After(x)'[v] = chain[v] \o w[v] /\ chain[v] \in Seq(Events) /\ w[v] \in Seq(Events)
    BY <1>5, <1>9 DEF After, Inductive, Types
  <2>3. CASE w[v] = <<>>
    <3>1. After(x)'[v] = chain[v]
      BY <2>2, <2>3
    <3>2. Exists(v) /\ HeadOf(v).transition = "activated"
      BY <2>1, <3>1 DEF Exists, HeadOf, LastOf
    <3>3. v \in Active
      BY <3>2 DEF Active, State, StateAfter
    <3>4. HeadOf(v).a \notin revoked
      BY <3>3 DEF Inductive, RevokedIsNotActive
    <3>5. QED
      BY <2>3, <3>1, <3>3, <3>4 DEF HeadOf, LastOf
  <2>4. CASE w[v] # <<>>
    <3>1. PICK e \in Events : w[v] = <<e>> /\ Justified(h[x].cmd, v, e, r)
      BY <2>4
    <3>2. LastOf(After(x)'[v]) = e
      BY <2>2, <3>1, Appended
    <3>3. QED
      BY <2>1, <3>1, <3>2 DEF Justified
  <2>5. QED
    BY <2>3, <2>4
<1>14. Passed(x)'
  BY <1>5 DEF Passed
<1>15. GrantHolds(x)'
  BY <1>5, <1>9 DEF GrantHolds, Shown, State, Exists, HeadOf
<1>16. QED
  BY <1>1, <1>7, <1>8, <1>9, <1>10, <1>11, <1>12, <1>13, <1>14, <1>15, OthersStayPrepared DEF Prepared

-----------------------------------------------------------------------------
(* Every action keeps the invariant.                                       *)

\* No version has an event.
LEMMA InitInductive == ASSUME Assumptions, Init PROVE Inductive
<1>1. \A v \in Versions : chain[v] = <<>> \/ chain[v] = <<Event("candidate_created", SeedOf(None), None)>>
  BY DEF Init
<1>2. NoCommand \in Command /\ WellFormed(NoCommand) /\ SeedOf(None) \in Command
  BY DEF NoCommand, Command, WellFormed, SeedOf
<1>3. Event("candidate_created", SeedOf(None), None) \in Events
  BY <1>2 DEF Event, Events, StateAfter
<1>4. chain \in [Versions -> Seq(Events)]
  BY <1>3 DEF Init
<1>5. Idle \in Handler
  BY <1>2 DEF Idle, Handler, Answers
<1>6. Types
  BY <1>4, <1>5 DEF Init, Types, Assumptions, BoundsAssumption
<1>7. Locking
  BY DEF Init, Idle, Locking, UnderLock, Assumptions, NamesAssumption
<1>8. Seeded
  BY <1>1 DEF Seeded, Event
<1>9. Active = {}
  BY <1>1 DEF Active, State, Exists, HeadOf, Event, StateAfter
<1>10. AtMostOneActive /\ RevokedIsNotActive
  BY <1>9, FS_EmptySet DEF AtMostOneActive, RevokedIsNotActive
<1>11. \A x \in Handlers : Prepared(x)
  BY DEF Init, Idle, Prepared, OnCourse, KeyIsFresh, WritesFollow, WritesAreClean, Passed, GrantHolds
<1>12. QED
  BY <1>6, <1>7, <1>8, <1>10, <1>11 DEF Inductive

\* An owner asks.
LEMMA AskKeeps == ASSUME Assumptions, Inductive, NEW x \in Handlers, Ask(x) PROVE Inductive'
<1>1. PICK c \in Commands \cup {h[y].cmd : y \in Handlers} :
        /\ c # NoCommand
        /\ h' = [h EXCEPT ![x] = [Idle EXCEPT !.cmd = c, !.pc =
                    IF c.kind \in Owner THEN "look"
                    ELSE IF c.kind = "authorize" THEN "read" ELSE "lock"]]
  BY DEF Ask
<1>2. c \in Command /\ WellFormed(c)
  <2>1. \A y \in Handlers : h[y].cmd \in {d \in Command : WellFormed(d)}
    BY DEF Inductive, Types, Handler
  <2>2. QED
    BY <2>1, CommandsAreWellFormed DEF Inductive
<1>3. \A y \in Handlers \ {x} : h'[y] = h[y]
  BY <1>1 DEF Inductive, Types
<1> DEFINE p == IF c.kind \in Owner THEN "look" ELSE IF c.kind = "authorize" THEN "read" ELSE "lock"
<1>4. /\ h'[x].pc = p /\ h'[x].cmd = c /\ h'[x].answer = "none" /\ h'[x].grant = None
      /\ h'[x] = [Idle EXCEPT !.cmd = c, !.pc = p]
  BY <1>1 DEF Idle, Inductive, Types
<1>5. h'[x] \in Handler
  <2>1. /\ [v \in Versions |-> <<>>] \in [Versions -> Seq(Events)]
        /\ [v \in Versions |-> 0] \in [Versions -> Nat]
    OBVIOUS
  <2>2. QED
    BY <1>2, <1>4, <2>1 DEF Handler, Idle, Answers
<1>6. h' \in [Handlers -> Handler]
  BY <1>1, <1>5 DEF Inductive, Types
<1>7. Types'
  BY <1>6 DEF Ask, Inductive, Types, rows, Assumptions, BoundsAssumption
<1>8. Locking'
  BY <1>3, <1>4 DEF Ask, Inductive, Locking, UnderLock
<1>9. c.kind \in {"none", "create", "activate", "retire", "revoke", "authorize"} /\ c.kind # "none"
  BY <1>1, <1>2 DEF Command, WellFormed
<1>10. OnCourse(x)'
  BY <1>4, <1>9 DEF OnCourse, Owner
<1>11. Prepared(x)'
  BY <1>4, <1>10 DEF Prepared, KeyIsFresh, WritesFollow, WritesAreClean, Passed, GrantHolds
<1>12. QED
  BY <1>3, <1>7, <1>8, <1>11, OthersStayPrepared DEF Ask, rows

\* A handler that finds an event of its key ends.
LEMMA ReplayKeeps ==
    ASSUME Assumptions, Inductive, NEW x \in Handlers, Replay(x), UNCHANGED <<rows, asked, faults>>
    PROVE  Inductive'
<1>1. faults' \in 0 .. MaxFaults
  BY DEF Inductive, Types
<1>2. PICK answer \in Answers : End(x, answer)
  BY DEF Replay, Answers
<1>3. QED
  BY <1>1, <1>2, EndKeeps

\* A refused request releases the lineage as it found it.
LEMMA RefuseKeeps ==
    ASSUME Assumptions, Inductive, NEW x \in Handlers, Refuse(x), UNCHANGED <<rows, asked, faults>>
    PROVE  Inductive'
<1>1. faults' \in 0 .. MaxFaults
  BY DEF Inductive, Types
<1>2. "refused" \in Answers /\ End(x, "refused")
  BY DEF Refuse, Answers
<1>3. QED
  BY <1>1, <1>2, EndKeeps

\* Where a handler goes and what it still is.
LEMMA GoneTo ==
    ASSUME Types, NEW x \in Handlers, NEW pc, Goto(x, pc)
    PROVE  /\ h'[x].pc = pc /\ h'[x].cmd = h[x].cmd /\ h'[x].writes = h[x].writes
           /\ h'[x].base = h[x].base /\ h'[x].revokes = h[x].revokes
           /\ h'[x].grant = h[x].grant /\ h'[x].answer = h[x].answer
           /\ \A y \in Handlers \ {x} : h'[y] = h[y]
<1>1. h'[x] = [h[x] EXCEPT !.pc = pc] /\ h[x] \in Handler
  BY DEF Goto, Types
<1>2. QED
  BY <1>1 DEF Goto, Types, Handler

\* A look without the lock promises nothing.
LEMMA LookKeeps == ASSUME Assumptions, Inductive, NEW x \in Handlers, Look(x) PROVE Inductive'
<1>1. CASE Replay(x)
  BY <1>1, ReplayKeeps DEF Look
<1>2. CASE EventsOf(h[x].cmd) = {} /\ Goto(x, "lock") /\ UNCHANGED lock
  <2>1. Types /\ h'[x].pc = "lock"
    BY <1>2, GoneTo DEF Inductive
  <2>2. Locking'
    BY <2>1, <1>2, GoneTo DEF Look, At, Inductive, Locking, UnderLock
  <2>3. OnCourse(x)'
    BY <2>1, <1>2, GoneTo DEF Look, At, Inductive, Prepared, OnCourse, Owner
  <2>4. Prepared(x)'
    BY <2>1, <2>3 DEF Prepared, KeyIsFresh, WritesFollow, WritesAreClean, Passed, GrantHolds
  <2>5. lock' \in Handlers \cup {Nobody}
    BY <1>2 DEF Inductive, Types
  <2>6. QED
    BY <1>2, <2>2, <2>4, <2>5, GotoKeeps DEF Look
<1>3. QED
  BY <1>1, <1>2 DEF Look

\* One request at a time holds the lineage.
LEMMA LockKeeps == ASSUME Assumptions, Inductive, NEW x \in Handlers, Lock(x) PROVE Inductive'
<1> DEFINE p == IF h[x].cmd.kind \in Owner THEN "recheck" ELSE h[x].cmd.kind
<1>1. Types /\ Goto(x, p) /\ h[x].pc = "lock" /\ lock = Nobody /\ lock' = x
  BY DEF Lock, LockFree, At, Inductive
<1>2. h'[x].pc = p
  BY <1>1, GoneTo
<1>3. h[x].cmd.kind \in {"create", "activate", "retire", "revoke", "authorize"}
  BY <1>1 DEF Inductive, Prepared, OnCourse, Owner
<1>4. p \in UnderLock
  BY <1>3 DEF UnderLock, Owner
<1>5. Locking'
  BY <1>1, <1>2, <1>4, GoneTo DEF Inductive, Locking, Assumptions, NamesAssumption
<1>6. OnCourse(x)'
  BY <1>1, <1>2, <1>3, GoneTo DEF Inductive, Prepared, OnCourse, Owner
<1>7. Prepared(x)'
  BY <1>2, <1>3, <1>6, GoneTo, <1>1 DEF Prepared, KeyIsFresh, WritesFollow, WritesAreClean, Passed, GrantHolds, Owner
<1>8. QED
  BY <1>1, <1>4, <1>5, <1>7, GotoKeeps DEF Lock

\* What is read under the lock stays true until the commit.
LEMMA RecheckKeeps == ASSUME Assumptions, Inductive, NEW x \in Handlers, Recheck(x) PROVE Inductive'
<1>1. CASE Replay(x)
  BY <1>1, ReplayKeeps DEF Recheck
<1>2. CASE EventsOf(h[x].cmd) = {} /\ Goto(x, h[x].cmd.kind) /\ UNCHANGED lock
  <2>1. Types /\ h[x].pc = "recheck" /\ h'[x].pc = h[x].cmd.kind /\ h'[x].cmd = h[x].cmd
        /\ UNCHANGED chain
    BY <1>2, GoneTo DEF Inductive, Recheck, At, rows
  <2>2. h[x].cmd.kind \in {"create", "activate", "retire"}
    BY <2>1 DEF Inductive, Prepared, OnCourse, Owner
  <2>3. Locking'
    BY <1>2, <2>1, <2>2, GoneTo, LockKept DEF Inductive, UnderLock
  <2>4. OnCourse(x)'
    BY <1>2, <2>1, <2>2, GoneTo DEF Inductive, Prepared, OnCourse, Owner
  <2>5. KeyIsFresh(x)'
    BY <1>2, <2>1 DEF KeyIsFresh, EventsOf
  <2>6. Prepared(x)'
    BY <2>1, <2>2, <2>4, <2>5 DEF Prepared, WritesFollow, WritesAreClean, Passed, GrantHolds
  <2>7. lock' \in Handlers \cup {Nobody} /\ h[x].cmd.kind \in UnderLock
    BY <1>2, <2>2 DEF Inductive, Types, UnderLock
  <2>8. QED
    BY <1>2, <2>3, <2>6, <2>7, GotoKeeps DEF Recheck
<1>3. QED
  BY <1>1, <1>2 DEF Recheck

\* The deferred trigger looks at the lineage as it will be.
LEMMA CheckKeeps == ASSUME Assumptions, Inductive, NEW x \in Handlers, Check(x) PROVE Inductive'
<1>1. CASE Refuse(x)
  BY <1>1, RefuseKeeps DEF Check
<1>2. CASE ~ (Cardinality(ActiveAfter(x)) > 1) /\ Goto(x, "commit") /\ UNCHANGED lock
  <2>1. Types /\ h[x].pc = "check" /\ h'[x].pc = "commit" /\ UNCHANGED <<chain, revoked, grants>>
    BY <1>2, GoneTo DEF Inductive, Check, At, rows
  <2>2. Locking'
    BY <1>2, <2>1, GoneTo, LockKept DEF Inductive, UnderLock
  <2>3. Prepared(x)
    BY DEF Inductive
  <2>4. OnCourse(x)' /\ KeyIsFresh(x)' /\ WritesFollow(x)'
    BY <1>2, <2>1, <2>3, GoneTo DEF Prepared, OnCourse, KeyIsFresh, WritesFollow, EventsOf
  <2>5. After(x)' = After(x)
    BY <1>2, <2>1, GoneTo DEF After
  <2>6. WritesAreClean(x)'
    BY <1>2, <2>1, <2>3, <2>5, GoneTo DEF Prepared, WritesAreClean
  <2>7. Passed(x)'
    <3>1. IsFiniteSet(ActiveAfter(x))
      BY FS_Subset DEF ActiveAfter, Assumptions, EvidenceAssumption
    <3>2. Cardinality(ActiveAfter(x)) \in Nat
      BY <3>1, FS_CardinalityType
    <3>3. ActiveAfter(x)' = ActiveAfter(x)
      BY <2>5 DEF ActiveAfter
    <3>4. QED
      BY <1>2, <3>2, <3>3 DEF Passed
  <2>8. GrantHolds(x)'
    BY <1>2, <2>1, <2>3, GoneTo DEF Prepared, GrantHolds, Shown, State, Exists, HeadOf
  <2>9. lock' \in Handlers \cup {Nobody} /\ "commit" \in UnderLock
    BY <1>2 DEF Inductive, Types, UnderLock
  <2>10. QED
    BY <1>2, <2>2, <2>4, <2>6, <2>7, <2>8, <2>9, GotoKeeps DEF Check, Prepared
<1>3. QED
  BY <1>1, <1>2 DEF Check, ActiveAfter, LastOf

\* A lost connection rolls back.
LEMMA FailKeeps == ASSUME Assumptions, Inductive, NEW x \in Handlers, Fail(x) PROVE Inductive'
<1>1. faults' \in 0 .. MaxFaults
  BY DEF Fail, Fault, Inductive, Types, Assumptions, BoundsAssumption
<1>2. "lost" \in Answers
  BY DEF Answers
<1>3. QED
  BY <1>1, <1>2, EndKeeps DEF Fail

\* An exposure of evidence activates nothing.
LEMMA ExposeKeeps == ASSUME Assumptions, Inductive, Expose PROVE Inductive'
<1>1. Types'
  BY DEF Expose, Inductive, Types
<1>2. Locking' /\ Seeded' /\ AtMostOneActive' /\ RevokedIsNotActive'
  BY DEF Expose, Inductive, Locking, Seeded, AtMostOneActive, RevokedIsNotActive, Active, State, Exists, HeadOf
<1>3. ASSUME NEW x \in Handlers PROVE Prepared(x)'
  <2>1. Prepared(x) /\ UNCHANGED <<chain, revoked, grants, h>>
    BY DEF Inductive, Expose
  <2>2. After(x)' = After(x) /\ ActiveAfter(x)' = ActiveAfter(x)
    BY <2>1 DEF After, ActiveAfter
  <2>3. \A v : State(v)' = State(v) /\ HeadOf(v)' = HeadOf(v) /\ Shown(v)' = Shown(v)
    BY <2>1 DEF Shown, State, Exists, HeadOf
  <2>4. OnCourse(x)'
    BY <2>1 DEF Prepared, OnCourse
  <2>5. KeyIsFresh(x)'
    BY <2>1 DEF Prepared, KeyIsFresh, EventsOf
  <2>6. WritesFollow(x)'
    BY <2>1, <2>3 DEF Prepared, WritesFollow
  <2>7. WritesAreClean(x)'
    BY <2>1, <2>2 DEF Prepared, WritesAreClean
  <2>8. Passed(x)'
    BY <2>1, <2>2 DEF Prepared, Passed
  <2>9. GrantHolds(x)'
    BY <2>1, <2>3 DEF Prepared, GrantHolds
  <2>10. QED
    BY <2>4, <2>5, <2>6, <2>7, <2>8, <2>9 DEF Prepared
<1>4. QED
  BY <1>1, <1>2, <1>3 DEF Inductive

\* The commands of a handler that computes its writes.
LEMMA Computing ==
    ASSUME Inductive, NEW x \in Handlers, h[x].pc \in {"create", "activate", "retire", "revoke", "authorize"}
    PROVE  /\ h[x].cmd \in Command /\ WellFormed(h[x].cmd) /\ h[x].cmd.kind = h[x].pc
           /\ h[x].grant \in (Versions \X Nat) \cup {None}
<1>1. h[x] \in Handler /\ OnCourse(x)
  BY DEF Inductive, Types, Prepared
<1>2. QED
  BY <1>1 DEF Handler, OnCourse

\* An event that a request writes has its type.
LEMMA EventTyped ==
    ASSUME NEW c \in Command, NEW t \in DOMAIN StateAfter, NEW a \in Artifacts \cup {None}
    PROVE  /\ Event(t, c, a) \in Events /\ Event(t, c, a).transition = t
           /\ Event(t, c, a).cmd = c /\ Event(t, c, a).a = a
  BY DEF Event, Events

\* One version written, the others left alone.
LEMMA OneWrite ==
    ASSUME NEW v \in Versions, NEW e \in Events
    PROVE  /\ [Nothing EXCEPT ![v] = <<e>>] \in [Versions -> Seq(Events)]
           /\ [Nothing EXCEPT ![v] = <<e>>][v] = <<e>>
           /\ \A u \in Versions \ {v} : [Nothing EXCEPT ![v] = <<e>>][u] = <<>>
<1>1. <<e>> \in Seq(Events) /\ <<>> \in Seq(Events)
  OBVIOUS
<1>2. QED
  BY <1>1 DEF Nothing

\* A candidate is the first event of its version.
LEMMA CreateKeeps == ASSUME Assumptions, Inductive, NEW x \in Handlers, Create(x) PROVE Inductive'
<1>1. CASE Refuse(x)
  BY <1>1, RefuseKeeps DEF Create
<1>2. ASSUME NEW v \in Versions, ~Exists(v), UNCHANGED lock,
             Write(x, [Nothing EXCEPT ![v] = <<Event("candidate_created", h[x].cmd, None)>>], None, None)
      PROVE  Inductive'
  <2> DEFINE e == Event("candidate_created", h[x].cmd, None)
             w == [Nothing EXCEPT ![v] = <<e>>]
  <2>1. h[x].pc = "create" /\ h[x].cmd \in Command /\ h[x].cmd.kind = "create" /\ UNCHANGED <<rows, lock, asked, faults>>
    BY <1>2, Computing DEF Create, At
  <2>2. e \in Events /\ e.transition = "candidate_created" /\ e.cmd = h[x].cmd
    BY <2>1, EventTyped DEF StateAfter
  <2>3. Write(x, w, None, None)
    BY <1>2
  <2> HIDE DEF e
  <2>4. w \in [Versions -> Seq(Events)] /\ w[v] = <<e>> /\ \A u \in Versions \ {v} : w[u] = <<>>
    BY <2>2, OneWrite
  <2> HIDE DEF w
  <2>5. Justified(h[x].cmd, v, e, None)
    BY <1>2, <2>2 DEF Justified, Exists
  <2>6. QED
    BY ZenonT(40), <2>1, <2>2, <2>3, <2>4, <2>5, WriteKeeps
<1>3. QED
  BY <1>1, <1>2 DEF Create

\* A retirement follows the head that was read under the lock.
LEMMA RetireKeeps == ASSUME Assumptions, Inductive, NEW x \in Handlers, Retire(x) PROVE Inductive'
<1> DEFINE c == h[x].cmd
           e == Event("retired", c, None)
           w == [Nothing EXCEPT ![c.v] = <<e>>]
<1>1. CASE Refuse(x)
  BY <1>1, RefuseKeeps DEF Retire
<1>2. CASE Expected(c) /\ Write(x, w, None, None) /\ UNCHANGED lock
  <2>1. /\ h[x].pc = "retire" /\ c \in Command /\ c.kind = "retire" /\ c.v \in Versions
        /\ UNCHANGED <<rows, lock, asked, faults>>
    BY <1>2, Computing DEF Retire, At, WellFormed
  <2>2. e \in Events /\ e.transition = "retired" /\ e.cmd = c
    BY <2>1, EventTyped DEF StateAfter
  <2>3. Write(x, w, None, None)
    BY <1>2
  <2> HIDE DEF e
  <2>4. w \in [Versions -> Seq(Events)] /\ w[c.v] = <<e>> /\ \A u \in Versions \ {c.v} : w[u] = <<>>
    BY <2>1, <2>2, OneWrite
  <2> HIDE DEF w
  <2>5. Justified(c, c.v, e, None)
    BY <1>2, <2>2 DEF Justified, Expected, Exists
  <2>6. QED
    BY ZenonT(40), <2>1, <2>2, <2>3, <2>4, <2>5, WriteKeeps
<1>3. QED
  BY <1>1, <1>2 DEF Retire

\* An activation retires the prior version in the same commit.
LEMMA ActivateKeeps == ASSUME Assumptions, Inductive, NEW x \in Handlers, Activate(x) PROVE Inductive'
<1> DEFINE c == h[x].cmd
           new == Event("activated", c, c.a)
           out == Event("retired", c, None)
           w == [v \in Versions |-> IF v = c.v THEN <<new>> ELSE IF v = c.prior[1] THEN <<out>> ELSE <<>>]
<1>1. CASE Refuse(x)
  BY <1>1, RefuseKeeps DEF Activate
<1>2. CASE Expected(c) /\ PriorMatches(c) /\ Evidence(c.v, c.a) /\ Write(x, w, None, None) /\ UNCHANGED lock
  <2>1. /\ h[x].pc = "activate" /\ c \in Command /\ c.kind = "activate" /\ c.v \in Versions /\ c.a \in Artifacts
        /\ UNCHANGED <<rows, lock, asked, faults>>
    BY <1>2, Computing DEF Activate, At, WellFormed
  <2>2. /\ new \in Events /\ new.transition = "activated" /\ new.cmd = c /\ new.a = c.a
        /\ out \in Events /\ out.transition = "retired" /\ out.cmd = c
    BY <2>1, EventTyped DEF StateAfter
  <2>3. \A v \in Versions : v = c.prior[1] /\ v # c.v => chain[v] # <<>> /\ c.prior = Shown(v)
    <3>1. CASE Active \ {c.v} = {}
      BY <1>2, <3>1 DEF PriorMatches, Assumptions, NamesAssumption
    <3>2. CASE Active \ {c.v} # {}
      <4>1. PICK u \in Active \ {c.v} : c.prior = Shown(u)
        BY <1>2, <3>2 DEF PriorMatches
      <4>2. u \in Versions /\ chain[u] # <<>> /\ c.prior[1] = u
        BY <4>1 DEF Shown, Active, State, Exists
      <4>3. QED
        BY <4>1, <4>2
    <3>3. QED
      BY <3>1, <3>2
  <2>4. chain[c.v] # <<>> /\ c.head = Len(chain[c.v]) /\ c.a \notin revoked
    BY <1>2 DEF Expected, Exists, Evidence
  <2>5. Write(x, w, None, None)
    BY <1>2
  <2> HIDE DEF new, out
  <2>6. w \in [Versions -> Seq(Events)]
    <3>1. <<new>> \in Seq(Events) /\ <<out>> \in Seq(Events) /\ <<>> \in Seq(Events)
      BY <2>2
    <3>2. QED
      BY <3>1
  <2>7. \A v \in Versions : w[v] = <<>> \/ \E e \in Events : w[v] = <<e>> /\ Justified(c, v, e, None)
    <3>1. TAKE v \in Versions
    <3>2. CASE v = c.v
      <4>1. Justified(c, v, new, None)
        BY <2>2, <2>4, <3>2 DEF Justified
      <4>2. w[v] = <<new>>
        BY <3>2
      <4>3. QED
        BY <2>2, <4>1, <4>2
    <3>3. CASE v # c.v /\ v = c.prior[1]
      <4>1. Justified(c, v, out, None)
        BY <2>2, <2>3, <3>3 DEF Justified
      <4>2. w[v] = <<out>>
        BY <3>3
      <4>3. QED
        BY <2>2, <4>1, <4>2
    <3>4. QED
      BY <3>2, <3>3
  <2> HIDE DEF w
  <2>8. QED
    BY <2>1, <2>5, <2>6, <2>7, WriteKeeps
<1>3. QED
  BY <1>1, <1>2 DEF Activate

\* A revocation leaves no active version on the artifact.
LEMMA RevokeKeeps == ASSUME Assumptions, Inductive, NEW x \in Handlers, Revoke(x) PROVE Inductive'
<1> DEFINE c == h[x].cmd
           e == Event("calibration_revoked", c, None)
           citing == {v \in Active : HeadOf(v).a = c.a}
           w == [v \in Versions |-> IF v \in citing THEN <<e>> ELSE <<>>]
<1>1. CASE Refuse(x)
  BY <1>1, RefuseKeeps DEF Revoke
<1>2. CASE Write(x, w, c.a, None) /\ UNCHANGED lock
  <2>1. /\ h[x].pc = "revoke" /\ c \in Command /\ c.kind = "revoke" /\ c.a \in Artifacts
        /\ UNCHANGED <<rows, lock, asked, faults>>
    BY <1>2, Computing DEF Revoke, At, WellFormed
  <2>2. e \in Events /\ e.transition = "calibration_revoked" /\ e.cmd = c
    BY <2>1, EventTyped DEF StateAfter
  <2>3. Write(x, w, c.a, None)
    BY <1>2
  <2> HIDE DEF e
  <2>4. \A v \in citing : chain[v] # <<>>
    BY DEF Active, State, Exists
  <2>5. w \in [Versions -> Seq(Events)]
    <3>1. <<e>> \in Seq(Events) /\ <<>> \in Seq(Events)
      BY <2>2
    <3>2. QED
      BY <3>1
  <2>6. \A v \in Versions : w[v] = IF v \in citing THEN <<e>> ELSE <<>>
    <3> HIDE DEF citing
    <3>1. QED
      OBVIOUS
  <2>7. \A v \in citing : w[v] = <<e>> /\ Justified(c, v, e, c.a)
    BY <2>1, <2>2, <2>4 DEF Justified, Owner, Active
  <2>8. \A v \in Active : w[v] = <<>> => HeadOf(v).a # c.a
    BY <2>7
  <2> HIDE DEF w, citing
  <2>9. QED
    BY <2>1, <2>2, <2>3, <2>5, <2>6, <2>7, <2>8, WriteKeeps
<1>3. QED
  BY <1>1, <1>2 DEF Revoke

\* An execution reads the head without the lock.
LEMMA ReadHeadKeeps == ASSUME Assumptions, Inductive, NEW x \in Handlers, ReadHead(x) PROVE Inductive'
<1>1. CASE Refuse(x)
  BY <1>1, RefuseKeeps DEF ReadHead
<1>2. CASE h' = [h EXCEPT ![x].pc = "lock", ![x].grant = Shown(h[x].cmd.v)] /\ UNCHANGED lock
  <2>1. /\ h'[x] = [h[x] EXCEPT !.pc = "lock", !.grant = Shown(h[x].cmd.v)]
        /\ \A y \in Handlers \ {x} : h'[y] = h[y]
    BY <1>2 DEF Inductive, Types
  <2>2. h[x] \in Handler /\ h[x].pc = "read" /\ OnCourse(x)
    BY DEF ReadHead, At, Inductive, Types, Prepared
  <2>3. h[x].cmd.kind = "authorize" /\ h[x].answer = "none" /\ h[x].cmd.v \in Versions
    BY <2>2 DEF OnCourse, Handler, WellFormed
  <2>4. Shown(h[x].cmd.v) \in Versions \X Nat
    BY <2>3 DEF Shown, Inductive, Types
  <2>5. h'[x] = [pc |-> "lock", cmd |-> h[x].cmd, writes |-> h[x].writes, base |-> h[x].base,
                 revokes |-> h[x].revokes, grant |-> Shown(h[x].cmd.v), answer |-> h[x].answer]
    BY <2>1, <2>2 DEF Handler
  <2>6. h'[x] \in Handler
    BY <2>2, <2>4, <2>5 DEF Handler
  <2>7. h' \in [Handlers -> Handler]
    BY <1>2, <2>6 DEF Inductive, Types
  <2>8. Types'
    BY <1>2, <2>7 DEF ReadHead, Inductive, Types, rows
  <2>9. Locking'
    <3>1. h'[x].pc = "lock"
      BY <2>5
    <3>2. QED
      BY <1>2, <2>1, <2>2, <3>1 DEF Inductive, Locking, UnderLock
  <2>10. Prepared(x)'
    BY <2>3, <2>5 DEF Prepared, OnCourse, KeyIsFresh, WritesFollow, WritesAreClean, Passed, GrantHolds
  <2>11. QED
    BY <2>1, <2>8, <2>9, <2>10, OthersStayPrepared DEF ReadHead, rows
<1>3. QED
  BY <1>1, <1>2 DEF ReadHead

\* Under the lock the head is compared with the one that was read.
LEMMA AuthorizeKeeps == ASSUME Assumptions, Inductive, NEW x \in Handlers, Authorize(x) PROVE Inductive'
<1> DEFINE c == h[x].cmd
           g == h[x].grant
<1>1. CASE Refuse(x)
  BY <1>1, RefuseKeeps DEF Authorize
<1>2. CASE /\ Allowed(c.v) /\ g = Shown(c.v) /\ grants[c.key] \in {None, g}
           /\ Write(x, Nothing, None, g) /\ UNCHANGED lock
  <2>1. /\ h[x].pc = "authorize" /\ c.kind = "authorize" /\ g \in (Versions \X Nat) \cup {None}
        /\ UNCHANGED <<rows, lock, asked, faults>>
    BY <1>2, Computing DEF Authorize, At
  <2>2. Nothing \in [Versions -> Seq(Events)] /\ \A v \in Versions : Nothing[v] = <<>>
    BY DEF Nothing
  <2>3. State(c.v) = "active" /\ HeadOf(c.v).a \notin revoked
    BY <1>2 DEF Allowed, Admissible
  <2> HIDE DEF c, g
  <2>4. QED
    BY <1>2, <2>1, <2>2, <2>3, WriteKeeps DEF c, g
<1>3. QED
  BY <1>1, <1>2 DEF Authorize

\* The commit of what a handler prepared: the rows after it.
LEMMA CommitRows ==
    ASSUME Assumptions, Inductive, NEW x \in Handlers, h[x].pc = "commit"
    PROVE  \A v \in Versions :
             /\ After(x)[v] \in Seq(Events)
             /\ \A i \in 1 .. Len(After(x)[v]) : (After(x)[v][i].transition = "candidate_created") = (i = 1)
             /\ \/ h[x].writes[v] = <<>> /\ After(x)[v] = chain[v]
                \/ h[x].writes[v] # <<>> /\ After(x)[v] # <<>> /\ LastOf(After(x)[v]).cmd = h[x].cmd
<1>1. TAKE v \in Versions
<1>2. /\ chain[v] \in Seq(Events) /\ h[x].writes[v] \in Seq(Events) /\ After(x)[v] = chain[v] \o h[x].writes[v]
      /\ WritesFollow(x)
  <2>1. h[x] \in Handler
    BY DEF Inductive, Types
  <2>2. QED
    BY <2>1 DEF Handler, Inductive, Types, Prepared, After
<1>3. \A i \in 1 .. Len(chain[v]) : (chain[v][i].transition = "candidate_created") = (i = 1)
  BY DEF Inductive, Seeded
<1>4. CASE h[x].writes[v] = <<>>
  <2>1. After(x)[v] = chain[v]
    BY <1>2, <1>4, Appended
  <2>2. QED
    BY <1>2, <1>3, <1>4, <2>1
<1>5. CASE h[x].writes[v] # <<>>
  <2>1. PICK e \in Events : h[x].writes[v] = <<e>> /\ e = h[x].writes[v][1]
    BY <1>2, <1>5 DEF WritesFollow
  <2>2. e.cmd = h[x].cmd /\ (e.transition = "candidate_created") = (chain[v] = <<>>)
    BY <1>2, <1>5, <2>1 DEF WritesFollow
  <2>3. /\ After(x)[v] \in Seq(Events) /\ Len(After(x)[v]) = Len(chain[v]) + 1
        /\ LastOf(After(x)[v]) = e /\ After(x)[v] # <<>>
        /\ \A i \in 1 .. Len(chain[v]) : After(x)[v][i] = chain[v][i]
    BY <1>2, <2>1, Appended
  <2>4. Len(chain[v]) \in Nat /\ (chain[v] = <<>>) = (Len(chain[v]) = 0)
    BY <1>2
  <2>5. ASSUME NEW i \in 1 .. Len(After(x)[v])
        PROVE  (After(x)[v][i].transition = "candidate_created") = (i = 1)
    <3>1. CASE i \in 1 .. Len(chain[v])
      BY <1>3, <2>3, <3>1
    <3>2. CASE i = Len(chain[v]) + 1
      <4>1. After(x)[v][i] = e
        BY <2>3, <3>2 DEF LastOf
      <4>2. QED
        BY <2>2, <2>4, <3>2, <4>1
    <3>3. QED
      BY <2>3, <2>4, <3>1, <3>2
  <2>6. QED
    BY <1>5, <2>2, <2>3, <2>5
<1>6. QED
  BY <1>4, <1>5

\* What was prepared under the lock becomes visible at once.
LEMMA CommitKeeps == ASSUME Assumptions, Inductive, NEW x \in Handlers, Commit(x) PROVE Inductive'
<1>1. h[x].pc = "commit" /\ lock = x /\ Prepared(x) /\ h[x] \in Handler
  BY DEF Commit, At, Inductive, Types, Locking, UnderLock
<1>2. ~ \E v \in Versions : h[x].writes[v] # <<>> /\ Len(chain[v]) # h[x].base[v]
  BY <1>1 DEF Prepared, WritesFollow
<1>3. /\ chain' = After(x) /\ revoked' = revoked \cup ({h[x].revokes} \ {None})
      /\ grants' = IF h[x].grant = None THEN grants
                   ELSE [grants EXCEPT ![h[x].cmd.key] = IF @ = None THEN h[x].grant ELSE @]
      /\ exposed' = exposed /\ asked' = asked
  BY <1>2 DEF Commit
<1>4. PICK answer \in Answers : End(x, answer)
  BY <1>2 DEF Commit, Answers
<1>5. faults' \in 0 .. MaxFaults
  BY <1>2 DEF Commit, NoFault, Fault, Inductive, Types, Assumptions, BoundsAssumption
<1>6. /\ h' \in [Handlers -> Handler] /\ lock' \in Handlers \cup {Nobody}
      /\ \A y \in Handlers \ {x} : h'[y] = h[y]
      /\ Locking' /\ Prepared(x)'
  BY <1>4, EndsClean DEF Inductive
<1>7. chain' \in [Versions -> Seq(Events)] /\ Seeded'
  BY <1>1, <1>3, CommitRows DEF After, Seeded
<1>8. grants' \in [Keys -> (Versions \X Nat) \cup {None}]
  BY <1>1, <1>3 DEF Inductive, Types, Handler
<1>9. Types'
  BY <1>1, <1>3, <1>5, <1>6, <1>7, <1>8 DEF Inductive, Types, Handler
<1>10. ASSUME NEW y \in Handlers, y # x
       PROVE  Prepared(y)'
  <2>1. h'[y] = h[y] /\ h[y].pc \notin UnderLock /\ OnCourse(y)
    BY <1>1, <1>6, <1>10 DEF Inductive, Locking, Prepared
  <2>2. QED
    BY <2>1 DEF Prepared, OnCourse, KeyIsFresh, WritesFollow, WritesAreClean, Passed, GrantHolds, UnderLock
<1>11. Active' = ActiveAfter(x)
  <2>1. \A v \in Versions : (State(v)' = "active") = (chain'[v] # <<>> /\ LastOf(chain'[v]).transition = "activated")
    <3>1. TAKE v \in Versions
    <3>2. CASE chain'[v] = <<>>
      BY <3>2 DEF State, Exists
    <3>3. CASE chain'[v] # <<>>
      <4>1. chain'[v][Len(chain'[v])] \in Events
        BY <1>7, <3>3
      <4>2. QED
        BY <3>3, <4>1 DEF State, Exists, HeadOf, LastOf, StateAfter, Events
    <3>4. QED
      BY <3>2, <3>3
  <2>2. QED
    BY <1>3, <2>1 DEF Active, ActiveAfter
<1>12. AtMostOneActive'
  BY <1>1, <1>11 DEF AtMostOneActive, Prepared, Passed
<1>13. RevokedIsNotActive'
  <2>1. \A v \in ActiveAfter(x) : LastOf(After(x)[v]).a \notin revoked'
    BY <1>1, <1>3 DEF Prepared, WritesAreClean, ActiveAfter
  <2>2. QED
    BY <1>3, <1>11, <2>1 DEF RevokedIsNotActive, HeadOf, LastOf
<1>14. QED
  BY <1>6, <1>7, <1>9, <1>10, <1>12, <1>13 DEF Inductive

-----------------------------------------------------------------------------
(* The invariants of the lineage.                                          *)

\* Every step keeps the lineage and what was prepared for it.
LEMMA StepInductive == ASSUME Assumptions, Inductive, [Next]_vars PROVE Inductive'
<1>1. CASE UNCHANGED vars
  <2>1. UNCHANGED <<chain, revoked, grants, lock, h>>
    BY <1>1 DEF vars
  <2>2. Types' /\ Locking' /\ Seeded' /\ AtMostOneActive' /\ RevokedIsNotActive'
    BY <1>1 DEF vars, Inductive, Types, Locking, Seeded, AtMostOneActive, RevokedIsNotActive, Active, State,
                Exists, HeadOf
  <2>3. ASSUME NEW x \in Handlers PROVE Prepared(x)'
    <3>1. Prepared(x)
      BY DEF Inductive
    <3>2. OnCourse(x)' /\ KeyIsFresh(x)' /\ WritesFollow(x)'
      BY <2>1, <3>1 DEF Prepared, OnCourse, KeyIsFresh, EventsOf, WritesFollow
    <3>3. After(x)' = After(x)
      BY <2>1 DEF After
    <3>4. WritesAreClean(x)' /\ Passed(x)'
      BY <2>1, <3>1, <3>3 DEF Prepared, WritesAreClean, Passed, ActiveAfter
    <3>5. GrantHolds(x)'
      BY <2>1, <3>1 DEF Prepared, GrantHolds, Shown, State, Exists, HeadOf
    <3> QED BY <3>2, <3>4, <3>5 DEF Prepared
  <2>4. QED
    BY <2>2, <2>3 DEF Inductive
<1>2. ASSUME NEW x \in Handlers, Ask(x) \/ Advance(x) \/ Fail(x)
      PROVE  Inductive'
  BY <1>2, AskKeeps, LookKeeps, LockKeeps, RecheckKeeps, CreateKeeps, ActivateKeeps, RetireKeeps, RevokeKeeps,
     ReadHeadKeeps, AuthorizeKeeps, CheckKeeps, CommitKeeps, FailKeeps DEF Advance
<1>3. QED
  BY <1>1, <1>2, ExposeKeeps DEF Next

\* The invariant of the lineage holds of every behaviour.
THEOREM LineageInvariant == ASSUME Assumptions PROVE Spec => []Inductive
<1>1. Init => Inductive
  BY InitInductive
<1>2. Inductive /\ [Next]_vars => Inductive'
  BY StepInductive
<1>3. QED
  BY <1>1, <1>2, PTL DEF Spec

\* The variables keep their types, and a chain begins with its candidate and has no other.
LEMMA InductiveIsTyped == ASSUME Inductive PROVE TypeOK
<1>1. ASSUME NEW v \in Versions, NEW i \in 1 .. Len(chain[v])
      PROVE  chain[v][i].transition \in DOMAIN StateAfter
  <2>1. chain[v] \in Seq(Events)
    BY DEF Inductive, Types
  <2>2. chain[v][i] \in Events
    BY <2>1
  <2>3. QED
    BY <2>2 DEF Events
<1>2. \A k \in Keys : grants[k] = None \/ grants[k] \in Versions \X Nat
  BY DEF Inductive, Types
<1>3. QED
  BY <1>1, <1>2 DEF Inductive, Types, Seeded, TypeOK

\* The types hold of every behaviour.
THEOREM TypesHold == ASSUME Assumptions PROVE Spec => []TypeOK
<1>1. Inductive => TypeOK
  BY InductiveIsTyped
<1>2. QED
  BY <1>1, LineageInvariant, PTL

\* ADR-0010: at most one version of a criterion is active, whoever activates at the same time.
THEOREM OneActive == ASSUME Assumptions PROVE Spec => []AtMostOneActive
<1>1. Inductive => AtMostOneActive
  BY DEF Inductive
<1>2. QED
  BY <1>1, LineageInvariant, PTL

\* A committed revocation leaves no version active on the artifact, an activation under way included.
THEOREM RevocationIsFinal == ASSUME Assumptions PROVE Spec => []RevokedIsNotActive
<1>1. Inductive => RevokedIsNotActive
  BY DEF Inductive
<1>2. QED
  BY <1>1, LineageInvariant, PTL

-----------------------------------------------------------------------------
(* What a step may not do.                                                 *)

\* A chain grows by the commit of a handler, and by nothing else.
LEMMA ChainsGrowByCommit ==
    ASSUME Assumptions, Inductive, [Next]_vars, chain' # chain
    PROVE  \E x \in Handlers : h[x].pc = "commit" /\ chain' = After(x)
<1>1. chain' # chain => \E x \in Handlers : Commit(x)
  BY DEF Next, vars, rows, Expose, Ask, Advance, Look, Lock, Recheck, Create, Activate, Retire, Revoke, ReadHead,
         Authorize, Check, Fail
<1>2. QED
  BY <1>1 DEF Commit, At, rows

\* What an owner's command adds to a chain follows the event the owner was shown.
LEMMA StepFollows ==
    ASSUME Assumptions, Inductive, [Next]_vars PROVE FollowsWhatWasShown
<1>1. CASE chain' = chain
  BY <1>1 DEF FollowsWhatWasShown
<1>2. CASE chain' # chain
  <2>1. PICK x \in Handlers : h[x].pc = "commit" /\ chain' = After(x)
    BY <1>2, ChainsGrowByCommit
  <2>2. ASSUME NEW v \in Versions, chain'[v] # chain[v], chain[v] # <<>>, h[x].cmd.kind \in Owner
        PROVE  /\ LastOf(chain'[v]).cmd = h[x].cmd
               /\ \/ h[x].cmd.v = v /\ h[x].cmd.head = Len(chain[v])
                  \/ h[x].cmd.prior = <<v, Len(chain[v])>>
    BY <2>1, <2>2, CommitRows DEF Inductive, Prepared, WritesFollow
  <2>3. ASSUME NEW v \in Versions, chain'[v] # chain[v]
        PROVE  LastOf(chain'[v]).cmd = h[x].cmd
    BY <2>1, <2>3, CommitRows
  <2>4. QED
    BY <2>2, <2>3 DEF LastOf, FollowsWhatWasShown
<1>3. QED
  BY <1>1, <1>2

\* What an owner's command adds to a chain follows the event the owner was shown.
THEOREM OwnersSeeWhatTheyFollow == ASSUME Assumptions PROVE Spec => OwnerSawWhatItFollows
<1>1. Inductive /\ [Next]_vars => [FollowsWhatWasShown]_vars
  BY StepFollows
<1>2. QED
  BY <1>1, LineageInvariant, PTL DEF Spec, OwnerSawWhatItFollows

\* Whoever repeats a command that took effect is told of the first event.
LEMMA StepReplays ==
    ASSUME Assumptions, Inductive, [Next]_vars PROVE ToldOfTheFirst
<1>1. SUFFICES ASSUME NEW x \in Handlers, h'[x].answer \in {"refused", "conflict"},
                      h[x].pc \notin {"idle", "end"}, h[x].cmd.kind \in Owner
               PROVE  ~Done(h[x].cmd)
  BY DEF ToldOfTheFirst
<1>2. h[x].answer = "none" /\ OnCourse(x) /\ KeyIsFresh(x) /\ Types
  BY <1>1 DEF Inductive, Prepared, OnCourse
<1>3. EventsOf(h[x].cmd) = {} => ~Done(h[x].cmd)
  BY DEF Done
<1>4. ASSUME NEW a, End(x, a) PROVE h'[x].answer = a
  BY <1>2, <1>4 DEF End, Idle, Types
<1>5. CASE h'[x] = h[x]
  BY <1>1, <1>2, <1>5
<1>6. CASE Replay(x)
  BY <1>1, <1>4, <1>6 DEF Replay
<1>7. CASE h[x].pc \in {"create", "activate", "retire", "check", "commit"}
  BY <1>1, <1>2, <1>3, <1>7 DEF KeyIsFresh
<1>8. CASE \E pc : Goto(x, pc)
  BY <1>1, <1>2, <1>8, GoneTo
<1>9. CASE Fail(x)
  BY <1>1, <1>4, <1>9 DEF Fail
<1>10. ASSUME NEW y \in Handlers, y # x, Ask(y) \/ Advance(y) \/ Fail(y)
       PROVE  h'[x] = h[x]
  BY <1>2, <1>10 DEF Ask, Advance, Fail, Look, Lock, Recheck, Create, Activate, Retire, Revoke, ReadHead,
       Authorize, Check, Commit, Replay, Refuse, Goto, Write, End, Types
<1>11. CASE Advance(x)
  BY <1>1, <1>2, <1>6, <1>7, <1>8, <1>11 DEF Advance, Look, Lock, Recheck, Create, Activate, Retire, Revoke,
       ReadHead, Authorize, Check, Commit, At, OnCourse, Owner
<1>12. QED
  BY <1>1, <1>5, <1>9, <1>10, <1>11 DEF Next, vars, Expose, Ask

\* Whoever repeats a command that took effect is told of the first event.
THEOREM RepeatsAreReplayed == ASSUME Assumptions PROVE Spec => RepeatIsReplayed
<1>1. Inductive /\ [Next]_vars => [ToldOfTheFirst]_vars
  BY StepReplays
<1>2. QED
  BY <1>1, LineageInvariant, PTL DEF Spec, RepeatIsReplayed

\* An execution is told it may run only on the head its version has at that moment.
LEMMA StepBinds ==
    ASSUME Assumptions, Inductive, [Next]_vars PROVE GrantBindsTheHead
<1>1. SUFFICES ASSUME NEW x \in Handlers, h[x].cmd.kind = "authorize", h[x].pc = "commit", h'[x].answer = "done"
               PROVE  /\ grants'[h[x].cmd.key] = Shown(h[x].cmd.v)
                      /\ State(h[x].cmd.v) = "active" /\ HeadOf(h[x].cmd.v).a \notin revoked
  BY DEF GrantBindsTheHead
<1>2. /\ h[x].answer = "none" /\ GrantHolds(x) /\ WritesFollow(x) /\ Types /\ h[x].cmd.key \in Keys
  BY <1>1 DEF Inductive, Prepared, OnCourse, Types, Handler, WellFormed
<1>3. ASSUME NEW y \in Handlers, y # x, Ask(y) \/ Advance(y) \/ Fail(y)
      PROVE  h'[x] = h[x]
  BY <1>2, <1>3 DEF Ask, Advance, Fail, Look, Lock, Recheck, Create, Activate, Retire, Revoke, ReadHead,
       Authorize, Check, Commit, Replay, Refuse, Goto, Write, End, Types
<1>4. ~Fail(x)
  BY <1>1, <1>2 DEF Fail, End, Types, Idle
<1>5. ~Ask(x) /\ (Advance(x) => Commit(x))
  BY <1>1 DEF Ask, Advance, Look, Lock, Recheck, Create, Activate, Retire, Revoke, ReadHead, Authorize, Check, At
<1>6. Commit(x)
  BY <1>1, <1>2, <1>3, <1>4, <1>5 DEF Next, vars, Expose
<1>7. grants' = IF h[x].grant = None THEN grants
                ELSE [grants EXCEPT ![h[x].cmd.key] = IF @ = None THEN h[x].grant ELSE @]
  BY <1>1, <1>2, <1>6 DEF Commit, WritesFollow
<1>8. h[x].grant = Shown(h[x].cmd.v) /\ grants[h[x].cmd.key] \in {None, h[x].grant}
  BY <1>1, <1>2 DEF GrantHolds
<1>9. grants'[h[x].cmd.key] = Shown(h[x].cmd.v)
  BY <1>2, <1>7, <1>8 DEF Types
<1>10. QED
  BY <1>1, <1>2, <1>9 DEF GrantHolds

\* An execution is told it may run only on the head its version has at that moment.
THEOREM GrantsBind == ASSUME Assumptions PROVE Spec => GrantsBindTheHead
<1>1. Inductive /\ [Next]_vars => [GrantBindsTheHead]_vars
  BY StepBinds
<1>2. QED
  BY <1>1, LineageInvariant, PTL DEF Spec, GrantsBindTheHead
=============================================================================
