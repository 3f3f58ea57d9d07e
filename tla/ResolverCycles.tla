--------------------------- MODULE ResolverCycles ----------------------------
(***************************************************************************)
(* The cycle pass over the graph the resolver built: a depth-first walk in *)
(* the order the dependencies are declared (detectCycles), compared with   *)
(* the cycles the graph has.                                               *)
(***************************************************************************)
EXTENDS Resolver

Start == [color |-> [r \in Names |-> "white"], walked |-> {}, cycles |-> {}]

\* Mutant of Enters: an edge to a contract already walked is skipped before it
\* is looked at.
EntersUnwalked(w, e) == e \notin w.walked /\ w.color[e] = "gray"

\* The edge leads back to a contract on the stack.
Enters(w, e) == w.color[e] = "gray"

RECURSIVE Walk(_, _, _)
RECURSIVE Edges(_, _, _, _)

\* The walk w after the contract ref, with the stack above it.
Walk(w, ref, stack) ==
  LET done == Edges([w EXCEPT !.color[ref] = "gray"], ref, Append(stack, ref), 1)
  IN [done EXCEPT !.color[ref] = "black"]

\* The walk w after the dependencies of ref from the i-th on.
Edges(w, ref, stack, i) ==
  IF i > Len(deps[ref]) THEN w
  ELSE LET e == deps[ref][i]
           next == IF Enters(w, e)
                   THEN [w EXCEPT !.cycles = @ \cup {Append(stack, e)}]
                   ELSE IF e \notin visited \/ e \in w.walked THEN w
                   ELSE Walk([w EXCEPT !.walked = @ \cup {e}], e, stack)
       IN Edges(next, ref, stack, i + 1)

\* The cycles detectCycles reports.
Cycles == Walk(Start, Root, <<>>).cycles

(***************************************************************************)
(* The reference definition                                                *)
(***************************************************************************)
DependsOn(S) == S \cup {e \in Names : \E r \in S : Contains(deps[r], e)}

RECURSIVE Closure(_)
Closure(S) == IF DependsOn(S) = S THEN S ELSE Closure(DependsOn(S))

\* Contracts the graph on hand knows the dependencies of.
Known == visited \cup {Root}

\* Contracts that lie on a cycle of the graph on hand.
OnCycle ==
  {r \in Known : LET below == {e \in Known : Contains(deps[r], e)}
                  IN r \in Closure(below) /\ Closure(below) \subseteq Known}

\* Every contract the root depends on, however far down, is resolved when no
\* fetch fails, whichever branch came to it first.
EverythingResolved ==
  Built /\ failures = 0 => visited = Closure({Root}) \ {Root}

\* The cycle pass finds a cycle exactly when the graph has one, even one whose
\* edges lie in branches that never saw each other, and what it reports is a way
\* through the graph that comes back to where it was.
CyclesAreFound ==
  Built => /\ failures = 0 => (Cycles # {} <=> OnCycle # {})
           /\ \A c \in Cycles :
                /\ \E i \in 1 .. Len(c) - 1 : c[i] = Last(c)
                /\ \A i \in 1 .. Len(c) - 1 : Contains(deps[c[i]], c[i + 1])
=============================================================================
