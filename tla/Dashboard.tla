----------------------------- MODULE Dashboard -----------------------------
(* The dashboard from end to end: what its sources hold, the server that     *)
(* builds snapshots of it, and a browser that asks the server.               *)
(*                                                                           *)
(* The snapshot has one source.  A build that cannot read it still gives a   *)
(* snapshot, with the source unavailable.                                    *)
EXTENDS SnapshotManager, Page

CONSTANTS
  Asker,        \* who calls Refresh for a question, one question at a time
  MaxRows,      \* bound: how many rows the source comes to hold
  MaxFaults     \* bound: reads of the source, builds and answers that fail

ASSUME DashboardAssumption ==
  /\ Passes \subseteq Callers /\ Asker \in Callers \ {Ticker}
  /\ MaxRows \in Nat
  /\ NoSnapshot \notin Snapshots

VARIABLES
  rows,         \* the rows the source holds
  faults

vars == <<managerVars, pageVars, rows, faults>>

Snapshot(read) == [read |-> read, rows |-> IF read THEN rows ELSE 0]

Init ==
  /\ ManagerInit
  /\ PageInit
  /\ rows = 0
  /\ faults = 0

Fault == faults < MaxFaults /\ faults' = faults + 1

-----------------------------------------------------------------------------
\* The source gets a row.
Grow == rows < MaxRows /\ rows' = rows + 1 /\ UNCHANGED <<managerVars, pageVars, faults>>

\* The server: its ticker, and the builds.
Tick == Refresh(Ticker) /\ UNCHANGED <<pageVars, rows, faults>>

BuildReads(c) == Build(c, Snapshot(TRUE)) /\ UNCHANGED <<pageVars, rows, faults>>
BuildMisses(c) == Build(c, Snapshot(FALSE)) /\ Fault /\ UNCHANGED <<pageVars, rows>>
BuildPublished(c) == Publish(c) /\ UNCHANGED <<pageVars, rows, faults>>

\* The call of Refresh that the question waits for ends with an error.
AskerFails == request' = IF request # NoRequest /\ request.pc = "waiting"
                         THEN NotAnswered(request) ELSE request

BuildFails(c) ==
  /\ Fail(c)
  /\ Fault
  /\ IF c = Asker \/ calls[Asker].on = c THEN AskerFails ELSE UNCHANGED request
  /\ UNCHANGED <<question, data, loading, error, superseded, pollVars, rows>>

WaitEnds(c) ==
  /\ GiveUp(c)
  /\ Fault
  /\ IF c = Asker THEN AskerFails ELSE UNCHANGED request
  /\ UNCHANGED <<question, data, loading, error, superseded, pollVars, rows>>

ServerRest == UNCHANGED <<question, data, loading, error, superseded, pollVars, rows, faults>>

\* A question reaches the server: it is answered from the snapshot published,
\* and before there is one it leads the first build or waits for the one in
\* flight.
Serve ==
  /\ request # NoRequest /\ request.pc = "sent"
  /\ IF current # NoSnapshot
     THEN request' = Answered(request, current) /\ UNCHANGED managerVars
     ELSE request' = Waiting(request) /\ Refresh(Asker)
  /\ ServerRest

\* Its Refresh returned without an error: it is answered from what is published.
ServeFirst ==
  /\ request # NoRequest /\ request.pc = "waiting" /\ calls[Asker] = Returned
  /\ request' = Answered(request, current)
  /\ UNCHANGED managerVars /\ ServerRest

\* The answer does not reach the page.
LoseAnswer ==
  /\ Fault
  /\ request # NoRequest
  /\ request' = NotAnswered(request)
  /\ UNCHANGED <<managerVars, question, data, loading, error, superseded, pollVars, rows>>

\* The page.  A reader's refresh has the server build before anything else.
Poll == \E p \in Passes : Begin(p, FALSE) /\ UNCHANGED <<managerVars, rows, faults>>
RefreshNow == \E p \in Passes : Begin(p, TRUE) /\ Refresh(p) /\ UNCHANGED <<rows, faults>>

\* The pass reads whether there is a snapshot; when that fails nothing is taken
\* to be discovered any more.
PassReads(p) ==
  /\ calls[p] = Returned
  /\ \/ ReadSources(p, current = NoSnapshot) /\ UNCHANGED faults
     \/ ReadSources(p, FALSE) /\ current = NoSnapshot /\ Fault
  /\ UNCHANGED <<managerVars, rows>>

OnPage(A) == A /\ UNCHANGED <<managerVars, rows, faults>>

Next ==
  \/ Grow
  \/ Tick
  \/ \E c \in Callers :
       \/ BuildReads(c)
       \/ BuildMisses(c)
       \/ BuildPublished(c)
       \/ BuildFails(c)
       \/ WaitEnds(c)
  \/ Serve \/ ServeFirst \/ LoseAnswer
  \/ Poll \/ RefreshNow
  \/ \E p \in Passes : PassReads(p) \/ OnPage(End(p))
  \/ \E q \in Questions : OnPage(Navigate(q))
  \/ OnPage(Retry)
  \/ OnPage(DeliverNewest)
  \/ OnPage(DeliverLate(current))
  \/ OnPage(ToggleAutoReload)

\* The ticker and the interval go on, builds and passes end, the server answers
\* and an answer that is not voided comes to the page.  Nothing keeps a pass,
\* which asks anew, from voiding every answer under way.
Fairness ==
  /\ WF_vars(Tick)
  /\ \A c \in Callers : WF_vars(BuildReads(c) \/ BuildPublished(c))
  /\ WF_vars(Serve \/ ServeFirst)
  /\ WF_vars(OnPage(DeliverNewest))
  /\ WF_vars(Poll)
  /\ \A p \in Passes : WF_vars(PassReads(p) \/ OnPage(End(p)))

Spec == Init /\ [][Next]_vars /\ Fairness

-----------------------------------------------------------------------------
\* The page says the fleet is empty only of a snapshot that read its source
\* when it held nothing: not of one that could not, not while it waits, not of
\* the answer to another question.
EmptyIsKnown ==
  ViewState = "empty-fleet" =>
    /\ data.snap.read /\ data.snap.rows = 0
    /\ data.question.filter = 0

\* What the source holds is published and stays published, though a build that
\* read less may be published after one that read more, and builds may fail or
\* miss the source.
RowIsPublished == <>[](current # NoSnapshot /\ current.rows = rows)

\* And it comes, and stays, on a page that reloads itself, unless from some time
\* on every answer is still under way when the next pass asks again and voids
\* it.
RowReachesPage ==
  \/ <>[](data # NoData /\ data.snap.rows = rows)
  \/ []<>~autoReload
  \/ <>[](request # NoRequest)
=============================================================================
