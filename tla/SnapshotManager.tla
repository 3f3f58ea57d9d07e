-------------------------- MODULE SnapshotManager --------------------------
(* The dashboard server's snapshot: fleet.Manager builds it, one build at a  *)
(* time, and swaps it in for every query.                                    *)
(*                                                                           *)
(* Refresh either leads a build or waits for the one in flight.  The leader  *)
(* takes its call out of inflight once the build returns and publishes only  *)
(* afterwards, so the next build may begin, and even be published, before    *)
(* the last one is.                                                          *)
EXTENDS Naturals

CONSTANTS
  Callers,      \* who calls Refresh: the ticker of Start, and the requests
  Ticker,       \* the one whose context lasts as long as the server
  NoCaller,
  NoSnapshot

ASSUME CallersAssumption == Ticker \in Callers /\ NoCaller \notin Callers

VARIABLES
  current,      \* the snapshot published, or NoSnapshot
  inflight,     \* the caller that leads the build in flight, or NoCaller
  calls         \* what each caller is doing in Refresh

managerVars == <<current, inflight, calls>>

Returned == [pc |-> "returned", on |-> NoCaller, snap |-> NoSnapshot]

ManagerInit ==
  /\ current = NoSnapshot
  /\ inflight = NoCaller
  /\ calls = [c \in Callers |-> Returned]

Refresh(c) ==
  /\ calls[c] = Returned
  /\ IF inflight = NoCaller
     THEN /\ calls' = [calls EXCEPT ![c].pc = "building"]
          /\ inflight' = c
     ELSE /\ calls' = [calls EXCEPT ![c].pc = "waiting", ![c].on = inflight]
          /\ UNCHANGED inflight
  /\ UNCHANGED current

\* The build returns what it read, and the call leaves inflight ...
Build(c, snap) ==
  /\ calls[c].pc = "building"
  /\ calls' = [calls EXCEPT ![c].pc = "publishing", ![c].snap = snap]
  /\ inflight' = NoCaller
  /\ UNCHANGED current

\* A call is over for the caller that led it and for those that waited for it.
Close(c) == [d \in Callers |-> IF d = c \/ calls[d].on = c THEN Returned ELSE calls[d]]

\* Mutant of Publish: only the first snapshot is published.
PublishUnheard(c) ==
  /\ calls[c].pc = "publishing"
  /\ current' = IF current = NoSnapshot THEN calls[c].snap ELSE current
  /\ calls' = Close(c)
  /\ UNCHANGED inflight

\* ... and then the snapshot is published.
Publish(c) ==
  /\ calls[c].pc = "publishing"
  /\ current' = calls[c].snap
  /\ calls' = Close(c)
  /\ UNCHANGED inflight

\* The build failed, as when the context of the caller that leads it is done:
\* what was published stays, and those that waited get the error.
Fail(c) ==
  /\ calls[c].pc = "building"
  /\ inflight' = NoCaller
  /\ calls' = Close(c)
  /\ UNCHANGED current

\* A caller that waits gives up when its own context is done; the build goes on.
GiveUp(c) ==
  /\ c # Ticker
  /\ calls[c].pc = "waiting"
  /\ calls' = [calls EXCEPT ![c] = Returned]
  /\ UNCHANGED <<current, inflight>>
=============================================================================
