-------------------------------- MODULE Page --------------------------------
(* The dashboard in the browser: App's polling of the server and the loader  *)
(* of one list view.                                                         *)
(*                                                                           *)
(* A pass of loadGlobal ends by advancing refreshTick, at which the view     *)
(* asks its question again; so does every navigation.  Answers come back in  *)
(* any order and only the newest request's may touch the screen.  Of older   *)
(* requests it is only known whether one has still to return.                *)
EXTENDS Paging, FiniteSets

CONSTANTS
  Questions,    \* the questions in the URL: the row a filter lets through (0: all) and an offset
  PageLimit,    \* rows on a page
  Passes,       \* bound: the passes of loadGlobal under way at once
  NoRequest,
  NoData,
  MaxMore,      \* bound: how much longer than the list on screen lists are looked at
  MaxLimit      \* bound: and the largest page of them

\* What a build reads of the source, and what the page holds of it.
Snapshots == [read : BOOLEAN, rows : Nat]
Answers == [question : Questions, snap : Snapshots]
Requests == [question : Questions, pc : {"sent", "waiting", "answered", "failed"}, snap : Snapshots \cup {NoData}]

ASSUME PageAssumption ==
  /\ Questions \subseteq [filter : Nat, offset : Nat]
  /\ PageLimit \in Nat \ {0}
  /\ MaxMore \in Nat /\ MaxLimit \in Nat
  /\ NoData \notin Answers
  /\ NoRequest \notin Requests

VARIABLES
  question,     \* the question in the URL
  data,         \* the answer on hand, with the question it answers, or NoData
  loading,
  error,        \* the newest request failed
  request,      \* the newest request of the loader, or NoRequest once it returned
  superseded,   \* a request before it has not returned
  passes,       \* the passes of loadGlobal under way
  seen,         \* what each of them read of the sources: unread, discovering or settled
  refreshing,
  discovering,  \* the last pass found no snapshot published yet
  autoReload,
  timers,       \* the intervals that run
  reloadTimer,  \* the interval App knows of; 0 is null
  reloadInterval

loaderVars == <<question, data, loading, error, request, superseded>>
pollVars == <<passes, seen, refreshing, discovering, autoReload, timers, reloadTimer, reloadInterval>>
pageVars == <<loaderVars, pollVars>>

NewRequest(q) == [question |-> q, pc |-> "sent", snap |-> NoData]

\* The page once its session is known: onMount has begun the first pass, set
\* the interval, and the view has asked for the first time.
PageInit ==
  /\ question \in {q \in Questions : q.filter = 0 /\ q.offset = 0}
  /\ data = NoData /\ loading = TRUE /\ error = FALSE
  /\ request = NewRequest(question) /\ superseded = FALSE
  /\ passes = {CHOOSE p \in Passes : TRUE} /\ seen = [p \in Passes |-> "unread"]
  /\ refreshing = TRUE /\ discovering = FALSE /\ autoReload = TRUE
  /\ timers = {1} /\ reloadTimer = 1 /\ reloadInterval = "fast"

-----------------------------------------------------------------------------
\* The loader.

\* run(): the question is asked under a new generation.
Run(q) ==
  /\ request' = NewRequest(q)
  /\ superseded' = (superseded \/ request # NoRequest)
  /\ loading' = TRUE
  /\ error' = FALSE
  /\ UNCHANGED data

Navigate(q) ==
  /\ q # question
  /\ question' = q
  /\ Run(q)
  /\ UNCHANGED pollVars

\* The retry of an error screen: refresh() asks the same question again.
Retry ==
  /\ error
  /\ Run(question)
  /\ UNCHANGED <<question, pollVars>>

\* The server builds its first snapshot for it.
Waiting(r) == [r EXCEPT !.pc = "waiting"]
Answered(r, snap) == [r EXCEPT !.pc = "answered", !.snap = snap]
NotAnswered(r) == [r EXCEPT !.pc = "failed", !.snap = NoData]

Apply(r) ==
  /\ loading' = FALSE
  /\ IF r.pc = "answered"
     THEN data' = [question |-> r.question, snap |-> r.snap] /\ UNCHANGED error
     ELSE error' = TRUE /\ UNCHANGED data

\* A request returns: the newest one's answer is put on the screen ...
DeliverNewest ==
  /\ request # NoRequest /\ request.pc \in {"answered", "failed"}
  /\ Apply(request)
  /\ request' = NoRequest
  /\ UNCHANGED <<question, superseded, pollVars>>

\* Mutant of DeliverLate: a late answer is shown too.
DeliverLateToo(snap) ==
  /\ superseded
  /\ \E q \in Questions : Apply(Answered(NewRequest(q), snap))
  /\ superseded' = FALSE
  /\ UNCHANGED <<question, request, pollVars>>

\* ... and a late one's, with what it read from the server, is dropped.
DeliverLate(snap) ==
  /\ superseded
  /\ superseded' = FALSE
  /\ UNCHANGED <<question, data, loading, error, request, pollVars>>

-----------------------------------------------------------------------------
\* What the view draws.

\* answer(): the current question's own answer, or the page on screen while
\* only the page changed and the next one did not fail.
Answer ==
  IF data = NoData THEN NoData
  ELSE IF data.question = question THEN data
  ELSE IF data.question.filter = question.filter /\ ~error THEN data ELSE NoData

RowsOf(a) == {x \in 1 .. a.snap.rows : a.question.filter \in {0, x}}
PageOf(a) == Paginate(Cardinality(RowsOf(a)), a.question.offset, PageLimit)

\* Mutant of Level: a source that could not be read is taken for an empty one.
LevelDeclared(a) ==
  IF a = NoData THEN "unknown"
  ELSE IF a.snap.rows = 0 THEN "empty" ELSE "complete"

\* snapshotKnowledge, of a snapshot with one source.
Level(a) ==
  IF a = NoData THEN "unknown"
  ELSE IF ~a.snap.read THEN "unavailable"
  ELSE IF a.snap.rows = 0 THEN "empty" ELSE "complete"

Incomplete(a) == Level(a) \notin {"complete", "empty"}

\* decideViewState, with what pastEnd puts before it.
ViewState ==
  LET a == Answer
      count == IF a = NoData THEN 0 ELSE PageOf(a).count
  IN IF a # NoData /\ PastEnd(PageOf(a)) THEN "past-end"
     ELSE IF count > 0 THEN "ready"
     ELSE IF loading THEN "loading"
     ELSE IF error THEN "backend-error"
     ELSE IF question.filter # 0 THEN "filtered-empty"
     ELSE IF Incomplete(a) THEN "empty-unknown" ELSE "empty-fleet"

-----------------------------------------------------------------------------
\* App: passes of loadGlobal and the interval that begins them.

\* A pass begins: the interval's is dropped while one runs, a reader's never.
Begin(p, forced) ==
  /\ p \notin passes
  /\ forced \/ (timers # {} /\ ~refreshing)
  /\ passes' = passes \cup {p}
  /\ refreshing' = TRUE
  /\ UNCHANGED <<loaderVars, seen, discovering, autoReload, timers, reloadTimer, reloadInterval>>

\* A pass reads the sources of the server.
ReadSources(p, early) ==
  /\ p \in passes /\ seen[p] = "unread"
  /\ seen' = [seen EXCEPT ![p] = IF early THEN "discovering" ELSE "settled"]
  /\ UNCHANGED <<loaderVars, passes, refreshing, discovering, autoReload, timers, reloadTimer,
                 reloadInterval>>

\* setInterval, after the interval old was cleared (0: none was).
SetInterval(old, speed) ==
  LET left == timers \ {old}
      new == Min({1, 2, 3} \ left)
  IN /\ timers' = left \cup {new}
     /\ reloadTimer' = new
     /\ reloadInterval' = speed

Speed(early) == IF early THEN "fast" ELSE "normal"

\* Mutant of End: the interval is set though it was switched off meanwhile.
EndAlwaysSets(p) ==
  LET early == seen[p] = "discovering"
  IN /\ p \in passes /\ seen[p] # "unread"
     /\ passes' = passes \ {p} /\ seen' = [seen EXCEPT ![p] = "unread"]
     /\ refreshing' = FALSE
     /\ discovering' = early
     /\ IF reloadInterval # Speed(early)
        THEN SetInterval(reloadTimer, Speed(early))
        ELSE UNCHANGED <<timers, reloadTimer, reloadInterval>>
     /\ Run(question)
     /\ UNCHANGED <<question, autoReload>>

\* Mutant of End: refreshing is not reset.
EndStillRefreshing(p) ==
  LET early == seen[p] = "discovering"
  IN /\ p \in passes /\ seen[p] # "unread"
     /\ passes' = passes \ {p} /\ seen' = [seen EXCEPT ![p] = "unread"]
     /\ discovering' = early
     /\ IF autoReload /\ reloadInterval # Speed(early)
        THEN SetInterval(reloadTimer, Speed(early))
        ELSE UNCHANGED <<timers, reloadTimer, reloadInterval>>
     /\ Run(question)
     /\ UNCHANGED <<question, refreshing, autoReload>>

\* The pass ends: the tick makes the view ask again, and the interval follows
\* whether the server was still discovering when the pass read it.
End(p) ==
  LET early == seen[p] = "discovering"
  IN /\ p \in passes /\ seen[p] # "unread"
     /\ passes' = passes \ {p} /\ seen' = [seen EXCEPT ![p] = "unread"]
     /\ refreshing' = FALSE
     /\ discovering' = early
     /\ IF autoReload /\ reloadInterval # Speed(early)
        THEN SetInterval(reloadTimer, Speed(early))
        ELSE UNCHANGED <<timers, reloadTimer, reloadInterval>>
     /\ Run(question)
     /\ UNCHANGED <<question, autoReload>>

ToggleAutoReload ==
  /\ autoReload' = ~autoReload
  /\ IF autoReload
     THEN timers' = timers \ {reloadTimer} /\ reloadTimer' = 0 /\ UNCHANGED reloadInterval
     ELSE SetInterval(0, Speed(discovering))
  /\ UNCHANGED <<loaderVars, passes, seen, refreshing, discovering>>

-----------------------------------------------------------------------------
\* What is on screen belongs to the question in the URL.  Rows may outlive the
\* page they came from while the next one loads, never the filter; and once
\* nothing loads and nothing failed, they answer exactly the question asked,
\* however late or out of order the answers came (the loader's generation).
ShownAnswersQuestion ==
  /\ Answer # NoData => Answer.question.filter = question.filter
  /\ ~loading /\ ~error => data # NoData /\ data.question = question

\* The interval runs exactly when the reader wants the page to reload itself,
\* and App can still stop it: a pass that ends after it was switched off starts
\* none, and changing its speed leaves no second one behind.
OneTimer == timers = (IF autoReload THEN {reloadTimer} ELSE {})

\* Where the pager leads a reader who stands at offset in a list of total rows.
PagerLeads(total, offset, limit) ==
  LET v == PageView(Paginate(total, offset, limit))
      Jump(n) == RowsAt(total, OffsetOfPage(n, v.pages, limit), limit)
  IN /\ \A o \in LinksOf(v) : RowsAt(total, o, limit) # {}
     /\ PastEnd(Paginate(total, offset, limit)) => v.last # NoLink
     /\ ClientPage(total, offset, limit).count > 0
     /\ UNION {Jump(n) : n \in 1 .. v.pages} = 1 .. total
     /\ \A n, m \in 1 .. v.pages : n # m => Jump(n) \cap Jump(m) = {}

\* Every link the pager offers leads to a page that holds rows, wherever the
\* reader stands: in the middle of a page, or past the end of a list that got
\* shorter, from where Last is always offered.  Jumping to each page by number
\* shows every row once, and a list the client holds is never shown past its
\* end.  (Of the list on a page at rest, and of longer ones in pages of other
\* sizes.)
LinksLeadSomewhere ==
  Answer # NoData /\ request = NoRequest /\ ~superseded /\ passes = {} =>
    \A more \in 0 .. MaxMore, limit \in 1 .. MaxLimit, offset \in 0 .. MaxMore + MaxLimit :
      LET total == Cardinality(RowsOf(Answer)) + more
      IN total > 0 => PagerLeads(total, offset, limit)
=============================================================================
