-------------------------- MODULE MCCameraConfig ---------------------------
(***************************************************************************)
(* CameraConfig for TLC: three requests, of which at most two are under    *)
(* way at a time, so that a request can follow two that overlapped.        *)
(***************************************************************************)
EXTENDS CameraConfig, FiniteSets, TLC

CONSTANTS
    MaxConcurrent,  \* bound: requests under way at a time
    MaxLag,         \* bound: commits the replica is behind
    MaxPuts,        \* bound: PUTs of the configuration
    MaxRefs         \* bound: PUTs of a reference image

ASSUME BoundAssumption == {MaxConcurrent, MaxLag, MaxPuts, MaxRefs} \subseteq Nat

OfKind(k) == {r \in Requests : kind[r] = k}
UnderWay == {r \in Requests : pc[r] \notin {"idle", "done"}}

Bounded ==
    /\ Cardinality(UnderWay) <= MaxConcurrent
    /\ Len(versions) - 1 <= MaxLag
    /\ Cardinality(OfKind("put")) <= MaxPuts
    /\ Cardinality(OfKind("ref")) <= MaxRefs
    /\ Cardinality(OfKind("alarm")) <= 1
    /\ Cardinality(OfKind("delete")) <= 1
    \* a PUT without analytics arrives while nothing else has finished
    /\ \A r \in OfKind("put") : arg[r].analytics \/ seen[r] = {}

\* A camera without references, with a day reference, or with both; a snapshot
\* has been asked for unless it has no references.  Values are alike: it holds
\* one of them.
MCInit ==
    /\ Init
    /\ Master.config = [f \in Fields |-> CHOOSE v \in Values : TRUE]
    /\ HasRef(Master.tc, "night") => HasRef(Master.tc, "day")
    /\ HasRef(Master.tc, "day") => Master.snapshot

MCNext == Next /\ Bounded'

MCSpec == MCInit /\ [][MCNext]_vars

\* The requests are interchangeable; the properties are invariants and action
\* properties only.
Symmetry == Permutations(Requests)
=============================================================================
