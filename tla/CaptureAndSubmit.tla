-------------------------- MODULE CaptureAndSubmit --------------------------
(***************************************************************************)
(* Auditing a skill from a coding session: a hook that runs when a turn    *)
(* stops captures the turns in which the skill ran, a script submits what  *)
(* was captured as a batch, and the API judges it within a quota.          *)
(*                                                                         *)
(* Source: plugins/rubrist/skills/rubrist-audit/hooks/capture.mjs and      *)
(* scripts/rubrist-submit.mjs, the batch route of routes/v1-evaluation-    *)
(* administration.ts and request-services/rate-limit.ts.                   *)
(*                                                                         *)
(* The transcript is a sequence of lines, each of a turn; the hook sees    *)
(* the lines that are flushed.  A captured line is a pair of a request and *)
(* an answer, whose content is known by the turns they come from.          *)
(***************************************************************************)
EXTENDS Integers, Sequences, FiniteSets, FiniteSetsExt, SequencesExt

CONSTANTS
  MaxTurns,      \* bound: turns of the session
  Disturbances,  \* of "late", "continued", "killed"
  MaxItems,      \* JUDGE_BATCH_MAX_ITEMS
  Rate,          \* tokens a tick (JUDGE_RATE_LIMIT_PER_MINUTE)
  MaxFailures,   \* bound: runs that fail
  Pause,         \* ticks (at most what fills the bucket) between one submission and the next
  MaxWatch,      \* bound: ticks a stretch of time is watched for
  None

VARIABLES
  turn, lines, flushed,  \* the session
  hook, cursor, file,    \* the hook, its cursor, and the results file
  judged, runs,          \* contents with a verdict, and pending runs
  bucket,                \* tokens and ticks since they were refilled
  failures, watch        \* what the bound counts; tokens spent in a stretch of time
session == <<turn, lines, flushed>>
capture == <<hook, cursor, file>>
server == <<judged, runs, bucket, failures>>
vars == <<session, capture, server, watch>>

Idle == [pc |-> "idle", to |-> 0, pair |-> None]
Line(t, k) == [turn |-> t, kind |-> k]
SkillRan(t) == \E i \in DOMAIN lines : lines[i] = Line(t, "skill")
Answered(t) == \E i \in DOMAIN lines : lines[i] = Line(t, "text")

Capacity == Max({Rate, MaxItems})

Init ==
  /\ turn = 0 /\ lines = <<>> /\ flushed = 0
  /\ hook = Idle /\ cursor = 0 /\ file = <<>>
  /\ judged = {} /\ runs = {} /\ failures = 0
  /\ bucket = [tokens |-> Capacity, idle |-> Min({Capacity, Pause})]
  /\ watch = [on |-> FALSE, spent |-> 0, ticks |-> 0]

-----------------------------------------------------------------------------
(* A turn: a request, perhaps the skill, perhaps a final text.  Stop fires *)
(* at its end, when the last line may not be flushed.                      *)
Turn(skill, text) ==
  /\ turn < MaxTurns /\ hook = Idle
  /\ turn' = turn + 1
  /\ lines' = lines \o <<Line(turn', "user")>> \o (IF skill THEN <<Line(turn', "skill")>> ELSE <<>>)
                \o (IF text THEN <<Line(turn', "text")>> ELSE <<>>)
  /\ flushed' \in {Len(lines')} \cup (IF "late" \in Disturbances THEN {Len(lines') - 1} ELSE {})
  /\ hook' = [Idle EXCEPT !.pc = "fired"]
  /\ UNCHANGED <<cursor, file, server, watch>>

(* Another hook has the turn go on; Stop fires again with                  *)
(* stop_hook_active, and this hook returns at once.                        *)
Continue ==
  /\ "continued" \in Disturbances /\ hook = Idle /\ turn > 0
  /\ Cardinality({i \in DOMAIN lines : lines[i] = Line(turn, "text")}) < 2
  /\ lines' = lines \o <<Line(turn, "skill"), Line(turn, "text")>> /\ flushed' = Len(lines')
  /\ UNCHANGED <<turn, capture, server, watch>>

-----------------------------------------------------------------------------
(* The hook reads its cursor and the complete lines after it ... *)
LastOf(w, k) == LET of == {i \in DOMAIN w : w[i].kind = k} IN IF of = {} THEN None ELSE w[Max(of)].turn
WindowOfLaterLines == SubSeq(lines, cursor + 2, flushed)    \* Faulty variant: one line too late
Window == SubSeq(lines, cursor + 1, flushed)
PairOf(w) ==
  IF LastOf(w, "skill") = None \/ LastOf(w, "user") = None \/ LastOf(w, "text") = None THEN None
  ELSE [user |-> LastOf(w, "user"), text |-> LastOf(w, "text")]
HookReads ==
  /\ hook.pc = "fired"
  /\ hook' = [pc |-> "read", to |-> flushed, pair |-> PairOf(Window)]
  /\ UNCHANGED <<session, cursor, file, server, watch>>

(* ... moves the cursor, "even when nothing was captured" ...              *)
CursorKept(h) == cursor                               \* Faulty variant: the cursor is never written
CursorOfCaptures(h) == IF h.pair = None THEN cursor ELSE h.to    \* Faulty variant
CursorAfter(h) == h.to
HookMoves ==
  /\ hook.pc = "read"
  /\ cursor' = CursorAfter(hook)
  /\ hook' = IF hook.pair = None THEN Idle ELSE [hook EXCEPT !.pc = "moved"]
  /\ UNCHANGED <<session, file, server, watch>>

(* ... and appends what it captured. *)
HookAppends ==
  /\ hook.pc = "moved"
  /\ file' = Append(file, hook.pair) /\ hook' = Idle
  /\ UNCHANGED <<session, cursor, server, watch>>

HookKilled ==
  /\ "killed" \in Disturbances /\ hook.pc \in {"fired", "read", "moved"}
  /\ hook' = Idle
  /\ UNCHANGED <<session, cursor, file, server, watch>>

-----------------------------------------------------------------------------
(* createTokenBucket: take(identity, count) *)
RefilledWithoutLimit == bucket.tokens + bucket.idle * Rate     \* Faulty variant
Refilled == Min({Capacity, bucket.tokens + bucket.idle * Rate})

(* The middleware takes one token for the request, the batch one for each  *)
(* call beyond the first; what is taken is kept when the batch is refused. *)
Charge(n) ==
  /\ bucket' = [tokens |-> Refilled - n, idle |-> 0]
  /\ watch' = IF watch.on THEN [watch EXCEPT !.spent = @ + n] ELSE watch

(* submit posts the whole file, and repeats of a content are one item. *)
Pending == Range(file) \ judged
Extra == Max({0, Cardinality(Pending) - 1})

Refused ==
  /\ file # <<>> /\ Refilled < 1
  /\ Charge(0) /\ UNCHANGED <<session, capture, judged, runs, failures>>
TooLarge ==
  /\ file # <<>> /\ Refilled >= 1 /\ Len(file) > MaxItems
  /\ Charge(1) /\ UNCHANGED <<session, capture, judged, runs, failures>>
RateLimited ==
  /\ file # <<>> /\ Refilled >= 1 /\ Len(file) <= MaxItems /\ Extra > Refilled - 1
  /\ Charge(1) /\ UNCHANGED <<session, capture, judged, runs, failures>>
Accepted ==
  /\ file # <<>> /\ Refilled >= 1 /\ Len(file) <= MaxItems /\ Extra <= Refilled - 1
  /\ Charge(1 + Extra)
  /\ runs' = runs \cup ({Pending} \ {{}})
  /\ UNCHANGED <<session, capture, judged, failures>>
Post == bucket.idle >= Pause /\ (Refused \/ TooLarge \/ RateLimited \/ Accepted)

RunCompletes(r) ==
  /\ r \in runs
  /\ runs' = runs \ {r} /\ judged' = judged \cup r
  /\ UNCHANGED <<session, capture, bucket, failures, watch>>
RunFails(r) ==
  /\ r \in runs /\ failures < MaxFailures
  /\ runs' = runs \ {r} /\ failures' = failures + 1
  /\ UNCHANGED <<session, capture, judged, bucket, watch>>

(* Time passes; more than fills the bucket is not told apart. *)
Tick ==
  /\ bucket' = [bucket EXCEPT !.idle = Min({Capacity, @ + 1})]
  /\ IF watch.on THEN /\ watch.ticks < MaxWatch
                      /\ watch' = [watch EXCEPT !.ticks = @ + 1]
     ELSE UNCHANGED watch
  /\ UNCHANGED <<session, capture, judged, runs, failures>>

Watch ==    \* a stretch of time begins anywhere
  /\ MaxWatch > 0 /\ ~watch.on
  /\ watch' = [watch EXCEPT !.on = TRUE]
  /\ UNCHANGED <<session, capture, server>>

Next ==
  \/ \E skill, text \in BOOLEAN : Turn(skill, text)
  \/ Continue
  \/ HookReads \/ HookMoves \/ HookAppends \/ HookKilled
  \/ Post
  \/ \E r \in runs : RunCompletes(r) \/ RunFails(r)
  \/ Tick \/ Watch
Spec == Init /\ [][Next]_vars

(* Hooks run to their end, time passes, runs end, and the file is          *)
(* submitted again and again.                                              *)
FairSpec ==
  /\ Spec
  /\ WF_vars(HookReads \/ HookMoves \/ HookAppends)
  /\ WF_vars(Post)
  /\ WF_vars(Tick)
  /\ WF_vars(\E r \in runs : RunCompletes(r))

-----------------------------------------------------------------------------
(* Tokens are never overdrawn, and the cursor never passes what is flushed.*)
TypeOK ==
  /\ bucket.tokens \in 0 .. Capacity /\ bucket.idle \in 0 .. Capacity
  /\ cursor \in 0 .. flushed /\ flushed \in 0 .. Len(lines)
  /\ judged \subseteq Range(file) /\ \A r \in runs : r # {} /\ r \subseteq Range(file)

(* "each turn's lines are processed exactly once": however hooks are       *)
(* killed and turns go on, no turn is captured twice.                      *)
CapturedOnce == \A i, j \in DOMAIN file : file[i] = file[j] => i = j

(* What is captured is a request with the answer to it, of a turn in which *)
(* the skill ran.                                                          *)
PairsAreOfOneTurn == \A p \in Range(file) : p.user = p.text /\ SkillRan(p.user)

(* Of a session that nothing disturbs, no turn of the skill is missed.     *)
NothingIsMissed ==
  hook = Idle => \A t \in 1 .. turn : SkillRan(t) /\ Answered(t) => [user |-> t, text |-> t] \in Range(file)

(* A key spends at most a full bucket and what has been refilled since, in *)
(* any stretch of time.                                                    *)
SpendIsBounded == watch.spent <= Capacity + Rate * watch.ticks

(* "a 429 is just logged and the content is retried on a later turn":      *)
(* everything captured is judged in the end, for any batch of legal size   *)
(* is a legal burst; attempts are refilled faster than they are made.      *)
CapturedIsJudged ==
  \A i \in 1 .. MaxTurns : (Len(file) >= i) ~> (Len(file) >= i /\ file[i] \in judged)
=============================================================================
