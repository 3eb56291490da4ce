---------------------------- MODULE RuleFeatures ----------------------------
(***************************************************************************)
(* The forms an advanced rule of a camera takes: the resource that a       *)
(* client sends and reads, the row that is to be stored, and the row read  *)
(* from the database; and the comparison that decides which rules a PUT    *)
(* replaces.  JavaScript's undefined and the null of the database and of   *)
(* JSON are different values, and a resource without a property has        *)
(* undefined there.  A rule has exactly one detection, as the API's schema *)
(* requires; detectionTypeNames is one to one, and a row has the           *)
(* detection's name for its type.  Rules that are made here are active.    *)
(***************************************************************************)
EXTENDS Naturals, Sequences, FiniteSets

CONSTANTS
    Null,
    Undefined

ObjectTypes == {"person", "vehicle", "mixed"}

ASSUME MissingAssumption ==
    /\ Null # Undefined
    /\ \A v \in {Null, Undefined} :
         v \notin Nat /\ v \notin ObjectTypes /\ v \notin Seq(STRING)

Missing == {Null, Undefined}
Falsy == Missing \cup {0}

Counted == {"countDetection", "crowdFormingDetection"}
Timed == {"loiteringDetection", "crowdFormingDetection"}
\* Detections whose resource has neither object type nor categories.
Bare == {"gunDetection", "faceDetection"}
Detections == Counted \cup Timed \cup Bare \cup {"watchListDetection"}

-----------------------------------------------------------------------------
\* a || b
Or(a, b) == IF a \in Falsy THEN b ELSE a

\* The details a detection leaves in a row; the others are undefined.  The lists
\* of a watch list are kept by the ids of their items.
DetectionPeriod(rule) ==
    IF rule.detection \in Timed THEN rule.period ELSE Undefined

DetectionMin(rule) ==
    IF rule.detection \in Counted THEN Or(rule.numberMin, rule.count) ELSE Undefined

DetectionMax(rule) ==
    IF rule.detection \in Counted THEN rule.numberMax ELSE Undefined

Meta(rule) ==
    IF rule.detection = "watchListDetection" THEN rule.lists ELSE Undefined

\* Without the default.
ObjectTypeAsSent(rule) == rule.objectType

ObjectType(rule) == IF rule.objectType = Undefined THEN "mixed" ELSE rule.objectType

\* advancedRuleFeaturesToRows, for one rule.
ToRow(rule) ==
    [integratorId |-> rule.integratorId,
     name |-> rule.name,
     objectType |-> ObjectType(rule),
     detection |-> rule.detection,
     detectionPeriod |-> DetectionPeriod(rule),
     detectionMin |-> DetectionMin(rule),
     detectionMax |-> DetectionMax(rule),
     meta |-> Meta(rule),
     zones |-> IF rule.zones = Undefined THEN <<>> ELSE rule.zones,
     categories |-> rule.categories]

\* advancedRuleFeaturesToRows
ToRows(rules) == [i \in DOMAIN rules |-> ToRow(rules[i])]

-----------------------------------------------------------------------------
\* What the database keeps of a value.
Kept(v) == IF v = Undefined THEN Null ELSE v

Elements(list) == {list[i] : i \in DOMAIN list}

\* The row, and its categories in a table of their own.
Store(row) ==
    [row EXCEPT !.detectionPeriod = Kept(@),
                !.detectionMin = Kept(@),
                !.detectionMax = Kept(@),
                !.meta = Kept(@),
                !.categories = IF @ \in Missing THEN {} ELSE Elements(@)]

\* A category is stored once per rule: the pair is the table's primary key.
Storable(row) ==
    row.categories \notin Missing =>
        Cardinality(Elements(row.categories)) = Len(row.categories)

\* array_agg: the categories in any order, null when there are none.
Aggregates(categories) ==
    IF categories = {} THEN {Null}
    ELSE {s \in [1 .. Cardinality(categories) -> categories] : Elements(s) = categories}

\* getAdvancedRules, for one rule.
Reads(stored) == {[stored EXCEPT !.categories = c] : c \in Aggregates(stored.categories)}

-----------------------------------------------------------------------------
\* Every property is compared strictly.
IsRuleEqualStrictly(old, new) ==
    \A p \in {"integratorId", "name", "objectType", "detection", "zones",
              "detectionPeriod", "detectionMin", "detectionMax", "meta", "categories"} :
        old[p] = new[p]

LooselyEqual(a, b) == a = b \/ {a, b} \subseteq Missing

\* isRuleEqual: the details of a detection that a row lacks are null when they
\* come from the database, and undefined when they come from a request.
IsRuleEqual(old, new) ==
    /\ \A p \in {"integratorId", "name", "objectType", "detection", "zones"} :
         old[p] = new[p]
    /\ \A p \in {"detectionPeriod", "detectionMin", "detectionMax", "meta", "categories"} :
         LooselyEqual(old[p], new[p])

-----------------------------------------------------------------------------
\* countDetection and crowdFormingDetection: without the maximum.
NoNumberMax(row) == Undefined

NumberMax(row) == IF row.detection \in Counted THEN row.detectionMax ELSE Undefined

\* rowsToAdvancedRuleFeatures, for one row: getCommonRuleProps spreads the array
\* of zones instead of naming it, so that the resource has no zones.
ToResource(row) ==
    [integratorId |-> row.integratorId,
     name |-> row.name,
     zones |-> Undefined,
     detection |-> row.detection,
     objectType |-> IF row.detection \in Bare THEN Undefined ELSE row.objectType,
     categories |-> IF row.detection \in Bare THEN Undefined ELSE row.categories,
     period |-> IF row.detection \in Timed THEN row.detectionPeriod ELSE Undefined,
     numberMin |-> IF row.detection \in Counted THEN row.detectionMin ELSE Undefined,
     numberMax |-> NumberMax(row),
     count |-> Undefined,
     lists |-> IF row.detection = "watchListDetection" THEN row.meta ELSE Undefined]

\* What a client sends that puts a resource back: the API's schema has no null,
\* so that it leaves out what it read as null.
Sent(v) == IF v = Null THEN Undefined ELSE v

PutBack(resource) ==
    [resource EXCEPT !.categories = Sent(@),
                     !.period = Sent(@),
                     !.numberMin = Sent(@),
                     !.numberMax = Sent(@),
                     !.lists = Sent(@)]

-----------------------------------------------------------------------------
\* Rules as the API's schema has them, but that it has the resources of a watch
\* list's items where their ids are here.  The handlers fail for a watch list
\* without both of its lists.
Resource(missing) ==
    [integratorId : STRING, name : STRING, detection : Detections,
     objectType : {Undefined} \cup ObjectTypes,
     zones : {Undefined} \cup Seq(STRING),
     categories : missing \cup Seq(STRING),
     period : missing \cup Nat, numberMin : missing \cup Nat,
     numberMax : missing \cup Nat, count : {Undefined} \cup Nat,
     lists : missing \cup SUBSET STRING]

SentResource == Resource({Undefined})
AnsweredResource == Resource({Null, Undefined})

\* Rows as the database holds them.
StoredRow == [integratorId : STRING, name : STRING,
              objectType : ObjectTypes, detection : Detections,
              detectionPeriod : {Null} \cup Nat, detectionMin : {Null} \cup Nat,
              detectionMax : {Null} \cup Nat, meta : {Null} \cup SUBSET STRING,
              zones : Seq(STRING), categories : SUBSET STRING]

\* Rules that come back as they were when a client puts back what it read: not
\* those with zones (see ToResource), with a minimum of 0 (see Or), or with what
\* the resource of a gun or a face detection does not show.
ComesBack(row) ==
    /\ row.zones = <<>>
    /\ row.detectionMin # 0
    /\ row.detection \in Bare => row.objectType = "mixed" /\ row.categories = {}
=============================================================================
