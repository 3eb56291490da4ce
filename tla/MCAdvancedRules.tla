-------------------------- MODULE MCAdvancedRules --------------------------
(***************************************************************************)
(* AdvancedRules for TLC: three requests, two at a time, and features with *)
(* up to two rules of two integrator IDs.                                  *)
(***************************************************************************)
EXTENDS AdvancedRules, TLC

CONSTANTS
    MaxConcurrent,  \* bound: requests under way at a time
    MaxLag          \* bound: commits the replica is behind

ASSUME BoundAssumption == {MaxConcurrent, MaxLag} \subseteq Nat

\* A rule with the properties that every detection may have.
Basic(id, detection) ==
    [integratorId |-> id, name |-> id, detection |-> detection,
     objectType |-> Undefined, categories |-> Undefined, zones |-> Undefined,
     period |-> Undefined, numberMin |-> Undefined, numberMax |-> Undefined,
     count |-> Undefined, lists |-> Undefined]

Loitering == [Basic("1", "loiteringDetection") EXCEPT
                !.period = 30, !.objectType = "person", !.categories = <<"person">>]
Crowd == [Basic("1", "crowdFormingDetection") EXCEPT
            !.numberMin = 0, !.count = 2, !.numberMax = 8, !.categories = <<>>]
CountNone == [Basic("1", "countDetection") EXCEPT !.count = 0, !.zones = <<"zone">>]
Gun == Basic("2", "gunDetection")
WatchList == [Basic("2", "watchListDetection") EXCEPT
                !.lists = {"face"}, !.objectType = "person",
                !.categories = <<"person", "car">>]

On(rules) == [enabled |-> TRUE, rules |-> rules]

MCFeatures == {Nothing, On(<<Loitering, Gun>>), On(<<Crowd, WatchList>>),
               On(<<WatchList>>), On(<<CountNone, Loitering>>)}

OfKind(k) == {r \in Requests : kind[r] = k}
UnderWay == {r \in Requests : pc[r] \notin {"idle", "done"}}

Bounded ==
    /\ Cardinality(UnderWay) <= MaxConcurrent
    /\ Len(versions) - 1 <= MaxLag
    /\ Cardinality(OfKind("get")) <= 1
    /\ Cardinality(OfKind("delete")) <= 1

MCNext == Next /\ Bounded'

MCSpec == Init /\ [][MCNext]_vars

\* The requests are interchangeable; the properties are invariants and action
\* properties only.
Symmetry == Permutations(Requests)
=============================================================================
