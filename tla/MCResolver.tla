----------------------------- MODULE MCResolver ------------------------------
(***************************************************************************)
(* Three contracts with at most two dependencies each, one of which may    *)
(* name the root.  The root's own dependencies are, up to the names of the *)
(* contracts, a alone or a and b.                                          *)
(***************************************************************************)
EXTENDS ResolverCycles

CONSTANTS a, b, c, root

Order == <<a, b, c, root>>

Lists(S) == {SelectSeq(Order, LAMBDA x : x \in T) : T \in {T \in SUBSET S : Cardinality(T) <= 2}}

SmallGraphs ==
  {g \in [{a, b, c, root} -> Lists({a, b, c, root})] :
     /\ g[root] \in {<<a>>, <<a, b>>}
     /\ ~Contains(g[b], root) /\ ~Contains(g[c], root)}
=============================================================================
