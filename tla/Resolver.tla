------------------------------ MODULE Resolver -------------------------------
(***************************************************************************)
(* The dependency resolver: one goroutine per dependency edge, siblings in *)
(* parallel, one fetch shared by the edges that need the same contract     *)
(* (pkg/graph/resolver.go).                                                *)
(*                                                                         *)
(* A call of resolveEdge is known by its place in the graph: the position  *)
(* of each edge on the way down from the root.  What two calls may do to   *)
(* each other happens under the resolver's mutex, one action per critical  *)
(* section.  Bases and compatibility constraints, which only tell contracts*)
(* of one reference apart, are left out: a reference names one contract.   *)
(***************************************************************************)
EXTENDS Naturals, Sequences, FiniteSets, SequencesExt

CONSTANTS
  Refs,         \* the references a contract may depend on
  Root,         \* the root contract's name, which a reference may equal
  Graphs,       \* the dependency lists to resolve, by contract
  MaxFailures   \* bound: how many fetches fail

ASSUME RootAssumption == Root \notin Refs

ASSUME GraphsAssumption ==
  /\ Graphs \subseteq [Refs \cup {Root} -> Seq(Refs \cup {Root})]
  /\ MaxFailures \in Nat

VARIABLES
  deps,      \* the contracts' dependency lists, as the fetcher serves them
  calls,     \* the calls of resolveEdge, by place
  visited,   \* the contracts fetched
  errors,    \* the references whose last fetch failed
  pending,   \* the references some call is fetching
  resolved,  \* how often OnResolved was fired for each reference
  failures   \* fetches that failed so far

vars == <<deps, calls, visited, errors, pending, resolved, failures>>

Names == Refs \cup {Root}

\* Mutant of Children: only the first dependency is resolved.
FirstChild(place, path, ref) ==
  [p \in {Append(place, i) : i \in DOMAIN deps[ref] \cap {1}} |->
     [ref |-> deps[ref][Last(p)], path |-> path, at |-> "start", on |-> place]]

\* The calls resolveChildren starts below a contract.
Children(place, path, ref) ==
  [p \in {Append(place, i) : i \in DOMAIN deps[ref]} |->
     [ref |-> deps[ref][Last(p)], path |-> path, at |-> "start", on |-> place]]

\* The root is never fetched and waits for its children like any other.
Init ==
  /\ deps \in Graphs
  /\ calls = Children(<<>>, <<Root>>, Root)
  /\ visited = {} /\ errors = {} /\ pending = {}
  /\ resolved = [r \in Names |-> 0]
  /\ failures = 0

Goes(c, at) == calls' = [calls EXCEPT ![c].at = at]

Fetching(ref) == {p \in DOMAIN calls : calls[p].at = "fetching" /\ calls[p].ref = ref}

(***************************************************************************)
(* The first critical section of resolveEdge                               *)
(***************************************************************************)
\* An edge back to a contract on the way down is cut and never fetched.
Cut(c) ==
  /\ calls[c].at = "start"
  /\ Contains(calls[c].path, calls[c].ref)
  /\ Goes(c, "cycle")
  /\ UNCHANGED <<deps, visited, errors, pending, resolved, failures>>

\* Mutant of Share: a contract is shared once its own dependencies are resolved.
ShareWhole(c) ==
  /\ calls[c].at = "start"
  /\ ~Contains(calls[c].path, calls[c].ref) /\ calls[c].ref \in visited
  /\ \E p \in DOMAIN calls : calls[p].ref = calls[c].ref /\ calls[p].at = "node"
  /\ Goes(c, "shared")
  /\ UNCHANGED <<deps, visited, errors, pending, resolved, failures>>

Share(c) ==
  /\ calls[c].at = "start"
  /\ ~Contains(calls[c].path, calls[c].ref) /\ calls[c].ref \in visited
  /\ Goes(c, "shared")
  /\ UNCHANGED <<deps, visited, errors, pending, resolved, failures>>

Wait(c) ==
  /\ calls[c].at = "start"
  /\ ~Contains(calls[c].path, calls[c].ref) /\ calls[c].ref \in pending \ visited
  /\ \E p \in Fetching(calls[c].ref) :
       calls' = [calls EXCEPT ![c].at = "waiting", ![c].on = p]
  /\ UNCHANGED <<deps, visited, errors, pending, resolved, failures>>

\* Mutant of Fetch: a reference someone else is fetching is fetched again.
FetchAnyway(c) ==
  /\ calls[c].at = "start"
  /\ ~Contains(calls[c].path, calls[c].ref) /\ calls[c].ref \notin visited
  /\ pending' = pending \cup {calls[c].ref}
  /\ Goes(c, "fetching")
  /\ UNCHANGED <<deps, visited, errors, resolved, failures>>

Fetch(c) ==
  /\ calls[c].at = "start"
  /\ ~Contains(calls[c].path, calls[c].ref) /\ calls[c].ref \notin visited \cup pending
  /\ pending' = pending \cup {calls[c].ref}
  /\ Goes(c, "fetching")
  /\ UNCHANGED <<deps, visited, errors, resolved, failures>>

(***************************************************************************)
(* The fetch returns                                                       *)
(***************************************************************************)
Below(c) ==
  Children(c, Append(calls[c].path, calls[c].ref), calls[c].ref)

Descends(c) ==
  calls' = [p \in DOMAIN calls \cup DOMAIN Below(c) |->
              IF p = c THEN [calls[c] EXCEPT !.at = "below"]
              ELSE IF p \in DOMAIN calls THEN calls[p] ELSE Below(c)[p]]

\* The contract is committed, those who wait for it are let go, and only then
\* are its own dependencies resolved.
Fetched(c) ==
  /\ calls[c].at = "fetching"
  /\ visited' = visited \cup {calls[c].ref}
  /\ pending' = pending \ {calls[c].ref}
  /\ resolved' = [resolved EXCEPT ![calls[c].ref] = @ + 1]
  /\ Descends(c)
  /\ UNCHANGED <<deps, errors, failures>>

\* Mutant of FailEdge: the error is not kept for those who wait.
FailEdgeSilent(c) ==
  /\ calls[c].at = "fetching" /\ failures < MaxFailures
  /\ failures' = failures + 1
  /\ pending' = pending \ {calls[c].ref}
  /\ Goes(c, "failed")
  /\ UNCHANGED <<deps, visited, errors, resolved>>

FailEdge(c) ==
  /\ calls[c].at = "fetching" /\ failures < MaxFailures
  /\ failures' = failures + 1
  /\ errors' = errors \cup {calls[c].ref}
  /\ pending' = pending \ {calls[c].ref}
  /\ Goes(c, "failed")
  /\ UNCHANGED <<deps, visited, resolved>>

Final == {"cycle", "shared", "failed", "lost", "node"}

\* What those who waited read: a later fetch may have succeeded by then.
Found(ref) == IF ref \in visited THEN "shared" ELSE IF ref \in errors THEN "failed" ELSE "lost"

\* The fetch this call waits for has returned and its channel is closed.
Wake(c) ==
  /\ calls[c].at = "waiting" /\ calls[calls[c].on].at # "fetching"
  /\ Goes(c, Found(calls[c].ref))
  /\ UNCHANGED <<deps, visited, errors, pending, resolved, failures>>

Sub(c) == {p \in DOMAIN calls : Len(p) = Len(c) + 1 /\ Front(p) = c}

\* Every child has returned, and with them the call.
Return(c) ==
  /\ calls[c].at = "below"
  /\ \A p \in Sub(c) : calls[p].at \in Final
  /\ Goes(c, "node")
  /\ UNCHANGED <<deps, visited, errors, pending, resolved, failures>>

\* The root's children have returned: the graph is built.
Built == \A p \in Sub(<<>>) : calls[p].at \in Final
-----------------------------------------------------------------------------
Step(c) == Cut(c) \/ Share(c) \/ Wait(c) \/ Fetch(c) \/ Fetched(c) \/ FailEdge(c)
           \/ Wake(c) \/ Return(c)

Next == \E c \in DOMAIN calls : Step(c)

\* The Go scheduler runs every goroutine that can run, and a fetch returns: it
\* honours the deadline of its context.
Spec == Init /\ [][Next]_vars /\ WF_vars(Next)

(***************************************************************************)
(* Properties                                                              *)
(***************************************************************************)
CallType ==
  [ref : Names, path : Seq(Names), on : Seq(Nat),
   at : {"start", "waiting", "fetching", "below"} \cup Final]

TypeOK ==
  /\ deps \in [Names -> Seq(Names)]
  /\ DOMAIN calls \subseteq Seq(Nat) /\ calls \in [DOMAIN calls -> CallType]
  /\ visited \subseteq Names /\ errors \subseteq Names /\ pending \subseteq Names
  /\ resolved \in [Names -> Nat] /\ failures \in 0 .. MaxFailures

\* Two calls never fetch the same contract, nobody fetches one that is there,
\* and who waits for a fetch that is over has a result to read.
OneFetcher ==
  /\ \A p \in DOMAIN calls : calls[p].at = "fetching" =>
       /\ calls[p].ref \in pending \ visited
       /\ \A q \in DOMAIN calls :
            calls[q].at = "fetching" /\ calls[q].ref = calls[p].ref => q = p
  /\ \A p \in DOMAIN calls : calls[p].at = "waiting" =>
       /\ calls[p].on \in DOMAIN calls /\ calls[calls[p].on].ref = calls[p].ref
       /\ calls[calls[p].on].at # "fetching" => calls[p].ref \in visited \cup errors

\* OnResolved is fired once for every contract fetched, however many edges
\* need it and however their branches interleave.
ResolvedOnce == \A r \in Names : resolved[r] = IF r \in visited THEN 1 ELSE 0

\* Who waited for another's fetch finds a contract or an error, never nothing.
NeverLost == \A c \in DOMAIN calls : calls[c].at # "lost"

\* No branch waits for ever: the graph is built, whatever cycles run through
\* branches that wait for each other's contracts and whatever fetch fails.
GraphIsBuilt == <>Built
=============================================================================
