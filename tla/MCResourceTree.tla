--------------------------- MODULE MCResourceTree ---------------------------
(***************************************************************************)
(* ResourceTree for TLC: three requests, of which at most two are under    *)
(* way at a time, so that a request can follow two that overlapped.        *)
(***************************************************************************)
EXTENDS ResourceTree, FiniteSets, TLC

CONSTANTS
    MaxConcurrent,  \* bound: requests under way at a time
    MaxLag          \* bound: commits the replica is behind

ASSUME BoundAssumption == {MaxConcurrent, MaxLag} \subseteq Nat

UnderWay == {r \in Requests : pc[r] \notin {"idle", "done"}}

Bounded ==
    /\ Cardinality(UnderWay) <= MaxConcurrent
    /\ Len(versions) - 1 <= MaxLag

MCNext == Next /\ Bounded'

MCSpec == Init /\ [][MCNext]_vars

\* Requests are interchangeable, and so are the names of sites; the properties
\* are invariants only.
Symmetry == Permutations(Requests) \cup Permutations(Keys)
=============================================================================
