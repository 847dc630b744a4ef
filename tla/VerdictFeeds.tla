---------------------------- MODULE VerdictFeeds ----------------------------
(***************************************************************************)
(* Two feeds over a growing log of judgements: the convergence audit of a  *)
(* version, which a client reads page by page, and the queue of exceptions *)
(* that reviewers work off.                                                *)
(*                                                                         *)
(* Source: getConvergenceAudit and listExceptionCases of                   *)
(* repository.pg/case-evidence-repository.ts, the cursor of repository/    *)
(* helpers.ts, and lib/exception-rows.ts, which says what the queue is.    *)
(*                                                                         *)
(* A row is written by one statement; at is its place in the order of      *)
(* (created_at, id).                                                       *)
(***************************************************************************)
EXTENDS Integers, Sequences, FiniteSets, FiniteSetsExt, SequencesExt

CONSTANTS
  Cases,          \* numbers, in the order of their ids
  CriterionOf,    \* the criterion of each version
  Before, After,  \* the versions the audit compares
  Menu,           \* rows the judge and the owner may add: [kind, case, version, label]
  PageSize,       \* cases of a page of the audit
  Limit,          \* exceptions listed (EXCEPTION_LIST_LIMIT)
  MaxRows,        \* bound: rows of Menu added
  MaxPrunes, MaxRetires, \* bounds: cases pruned, golden entries retired
  None

VARIABLES
  rows,      \* judge_runs ("run") and verdicts ("llm_judge", "human", "adjudicated")
  now,
  golden,    \* <<case, criterion>> with an entry that is not retired
  used,      \* what the bounds count
  client     \* the client of the audit
vars == <<rows, now, golden, used, client>>

Runs == {r \in rows : r.kind = "run"}
Rulings == {r \in rows : r.kind \in {"human", "adjudicated"}}
Verdicts == rows \ Runs
Of(r) == <<r.case, CriterionOf[r.version]>>
Keys == Cases \X {CriterionOf[v] : v \in DOMAIN CriterionOf}
Newest(S) == CHOOSE r \in S : \A q \in S : q.at <= r.at
Earliest(S) == CHOOSE r \in S : \A q \in S : r.at <= q.at

Row(m) == [kind |-> m.kind, case |-> m.case, version |-> m.version, label |-> m.label, at |-> now + 1]

-----------------------------------------------------------------------------
(* getConvergenceAudit *)
Upto(w) == IF w = None THEN Verdicts ELSE {r \in Verdicts : r.at <= w}
Adjudicated(w) == {r \in Upto(w) : r.kind = "adjudicated" /\ CriterionOf[r.version] = CriterionOf[After]}
JudgedBy(v, w) == {r \in Upto(w) : r.kind = "llm_judge" /\ r.version = v}
Label(S, c) == LET of == {r \in S : r.case = c} IN IF of = {} THEN None ELSE Newest(of).label

Rank(truth, before, after) ==    \* regressed, improved, still_disagree, still_agree
  CASE after # truth /\ before = truth -> 0
    [] after = truth /\ before \notin {None, truth} -> 1
    [] after # truth /\ before # truth -> 2
    [] OTHER -> 3

Classified(w) ==
  {[case |-> c, rank |-> Rank(Label(Adjudicated(w), c), Label(JudgedBy(Before, w), c), Label(JudgedBy(After, w), c))] :
     c \in {d \in Cases : Label(Adjudicated(w), d) # None /\ Label(JudgedBy(After, w), d) # None}}

Less(x, y) == x.rank < y.rank \/ (x.rank = y.rank /\ x.case < y.case)
InOrder(S) == SetToSortSeq(S, Less)
PageAfter(S, cursor) ==
  LET rest == InOrder(IF cursor = None THEN S ELSE {x \in S : Less(cursor, x)})
  IN SubSeq(rest, 1, Min({PageSize, Len(rest)}))
HasMore(S, cursor) == Cardinality(IF cursor = None THEN S ELSE {x \in S : Less(cursor, x)}) > PageSize

LatestOf(S) == IF S = {} THEN None ELSE Newest(S).at
WatermarkOfThePage(cursor) ==    \* Faulty variant: each page is of the rows there are then
  LatestOf({q \in Verdicts : q.kind = "llm_judge" \/ q.kind = "adjudicated"})
Watermark(cursor) ==
  IF cursor # None THEN cursor.watermark
  ELSE LatestOf(JudgedBy(Before, now) \cup JudgedBy(After, now) \cup Adjudicated(now))

CursorAtTheEnd(page, w) ==    \* Faulty variant: the cursor lies beyond the case that only told there is more
  [case |-> page[Len(page)].case + 1, rank |-> page[Len(page)].rank, watermark |-> w]
Cursor(page, w) == [case |-> page[Len(page)].case, rank |-> page[Len(page)].rank, watermark |-> w]

(* Without a watermark the page is of all there is by now, and no cursor   *)
(* is given out, whether there is more or not.                             *)
GetConvergenceAudit(cursor, w) ==
  LET all == Classified(w)
      page == PageAfter(all, cursor)
  IN [page |-> page, summary |-> all,
      next |-> IF HasMore(all, cursor) /\ w # None THEN Cursor(page, w) ELSE None]

NoClient == [list |-> <<>>, first |-> {}, summary |-> {}, cursor |-> None, mark |-> None, pc |-> "idle"]

(* The first page takes two statements: the newest row there is, and the   *)
(* page of the rows up to it.                                              *)
ReadWatermark ==
  /\ client.pc = "idle"
  /\ client' = [client EXCEPT !.pc = "marked", !.mark = Watermark(None)]
  /\ UNCHANGED <<rows, now, golden, used>>

FirstPage ==
  /\ client.pc = "marked"
  /\ LET a == GetConvergenceAudit(None, client.mark) IN
     client' = [client EXCEPT !.list = a.page, !.first = a.summary, !.summary = a.summary,
                              !.cursor = a.next, !.pc = IF a.next = None THEN "done" ELSE "paging"]
  /\ UNCHANGED <<rows, now, golden, used>>

NextPage ==
  /\ client.pc = "paging"
  /\ LET a == GetConvergenceAudit(client.cursor, Watermark(client.cursor)) IN
     client' = [client EXCEPT !.list = @ \o a.page, !.summary = a.summary, !.cursor = a.next,
                              !.pc = IF a.next = None THEN "done" ELSE "paging"]
  /\ UNCHANGED <<rows, now, golden, used>>

-----------------------------------------------------------------------------
(* listExceptionCases: the first open run that is not a pass, for each     *)
(* case and criterion; open is after the last verdict of a human.          *)
ResolvedAt(k) == Max({0} \cup {r.at : r \in {q \in Rulings : Of(q) = k}})
OpenAlsoBefore(k) ==    \* Faulty variant: a resolution does not close what came before it
  {r \in Runs : Of(r) = k /\ r.label # "pass" /\ k \notin golden}
Open(k) == {r \in Runs : Of(r) = k /\ r.label # "pass" /\ r.at > ResolvedAt(k) /\ k \notin golden}
PinnedIsTheLatest(k) == Newest(Open(k))    \* Faulty variant: the last failure is shown
Pinned(k) == Earliest(Open(k))
AllExceptions == {Pinned(k) : k \in {j \in Keys : Open(j) # {}}}
Capped(S) == {r \in S : Cardinality({q \in S : q.at >= r.at}) <= Limit}
ListExceptionCases == Capped(AllExceptions)

(* pinExceptionJudgeRunRows, over the runs of one criterion, in order *)
PinExceptionJudgeRunRows(criterion) ==
  LET sorted(c) == SetToSortSeq({r \in Runs : Of(r) = <<c, criterion>>}, LAMBDA x, y : x.at < y.at)
      openRows(c) == SelectSeq(sorted(c), LAMBDA r : r.at > ResolvedAt(<<c, criterion>>))
      failing(c) == SelectSeq(openRows(c), LAMBDA r : r.label # "pass")
      pinned == {failing(c)[1] : c \in {d \in Cases : failing(d) # <<>>}}
      newestFirst == SetToSortSeq(pinned, LAMBDA x, y : x.at > y.at)
  IN Range(SubSeq(newestFirst, 1, Min({Limit, Len(newestFirst)})))

-----------------------------------------------------------------------------
Init ==
  /\ rows = {} /\ now = 0 /\ golden = {}
  /\ used = [rows |-> 0, prunes |-> 0, retires |-> 0]
  /\ client = NoClient

(* recordJudgeRun, and recordVerdict of the judge or of the owner *)
Add(m) ==
  /\ used.rows < MaxRows
  /\ used' = [used EXCEPT !.rows = @ + 1]
  /\ rows' = rows \cup {Row(m)} /\ now' = now + 1
  /\ UNCHANGED <<golden, client>>

(* A reviewer takes an exception off the list: with a verdict of its       *)
(* version, or into the golden set.                                        *)
Review(r) ==
  /\ r \in ListExceptionCases
  /\ rows' = rows \cup {Row([kind |-> "human", case |-> r.case, version |-> r.version, label |-> "pass"])}
  /\ now' = now + 1
  /\ UNCHANGED <<golden, used, client>>

Promote(r) ==
  /\ r \in ListExceptionCases
  /\ golden' = golden \cup {Of(r)}
  /\ UNCHANGED <<rows, now, used, client>>

Retire(k) ==
  /\ k \in golden /\ used.retires < MaxRetires
  /\ golden' = golden \ {k} /\ used' = [used EXCEPT !.retires = @ + 1]
  /\ UNCHANGED <<rows, now, client>>

(* Retention deletes a case with its runs, verdicts and golden entries. *)
Prune(c) ==
  /\ used.prunes < MaxPrunes /\ \E r \in rows : r.case = c
  /\ rows' = {r \in rows : r.case # c} /\ golden' = {k \in golden : k[1] # c}
  /\ used' = [used EXCEPT !.prunes = @ + 1]
  /\ UNCHANGED <<now, client>>

Reviews == \E r \in ListExceptionCases : Review(r) \/ Promote(r)
Next ==
  \/ \E m \in Menu : Add(m)
  \/ Reviews
  \/ \E k \in Keys : Retire(k)
  \/ \E c \in Cases : Prune(c)
  \/ ReadWatermark \/ FirstPage \/ NextPage
Spec == Init /\ [][Next]_vars

(* Reviewers go on as long as something is listed. *)
FairSpec == Spec /\ WF_vars(Reviews)

-----------------------------------------------------------------------------
(* No two rows have the same place, and a client holds a cursor while it   *)
(* reads.                                                                  *)
TypeOK ==
  /\ \A r, q \in rows : r.at = q.at => r = q
  /\ \A r \in rows : r.at \in 1 .. now
  /\ (client.pc = "paging") <=> (client.cursor # None)
  /\ golden \subseteq Keys

(* The cursor carries the newest row there was when its first page was    *)
(* read, so that what is recorded while a client turns the pages changes   *)
(* none of them: as long as nothing is pruned, its list is the audit of    *)
(* the first page, in order, and every page has the totals of the first.   *)
(* It is all of that audit, unless there was no row at all when the        *)
(* watermark was read: then the first page is the only one.                *)
PagesAreOneAnswer ==
  used.prunes = 0 =>
    /\ client.summary = client.first
    /\ IsPrefix(client.list, InOrder(client.first))
    /\ client.pc = "done" /\ client.mark # None => client.list = InOrder(client.first)

(* Even when retention deletes cases in between, no case is listed twice,  *)
(* and none that is still there is passed over.                            *)
NothingIsListedTwice ==
  /\ \A i, j \in DOMAIN client.list : client.list[i].case = client.list[j].case => i = j
  /\ client.pc = "done" /\ client.mark # None => client.first \cap client.summary \subseteq Range(client.list)

(* The queue is reduced in SQL, "mirroring pinExceptionJudgeRunRows": for  *)
(* a criterion without golden cases the two agree.                         *)
QueueIsTheSpec ==
  \A k \in {CriterionOf[v] : v \in DOMAIN CriterionOf} :
    (golden = {}) =>
      Capped({r \in AllExceptions : CriterionOf[r.version] = k}) = PinExceptionJudgeRunRows(k)

(* A reviewer who comes back to an exception finds the failure that opened *)
(* it: a later judgement, of this version or another, changes neither the  *)
(* run that is shown nor that it is shown.                                 *)
PinnedStep ==
  \A k \in Keys :
    (Open(k) # {} /\ ResolvedAt(k)' = ResolvedAt(k) /\ golden' = golden /\ used'.prunes = used.prunes) =>
      Open(k)' # {} /\ Pinned(k)' = Pinned(k)
PinnedStands == [][PinnedStep]_vars

(* The list is capped, newest first, and an old exception may be pushed    *)
(* off it; but reviewers who work off the list come to every one of them   *)
(* once judgements stop.                                                   *)
EveryExceptionIsReached == <>[](AllExceptions = {})
=============================================================================
