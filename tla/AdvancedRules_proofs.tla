------------------------ MODULE AdvancedRules_proofs ------------------------
(***************************************************************************)
(* Proofs about RuleFeatures and AdvancedRules, for any features, any      *)
(* number of requests and rules and however far the replica lags.          *)
(***************************************************************************)
EXTENDS AdvancedRules, VersionLemmas, FiniteSetTheorems,
        WellFoundedInduction

-----------------------------------------------------------------------------
(***************************************************************************)
(* The forms of a rule.                                                    *)
(***************************************************************************)

StoredCategories(c) == IF c \in Missing THEN {} ELSE Elements(c)

LEMMA ElementsType ==
    ASSUME NEW S, NEW s \in Seq(S)
    PROVE  Elements(s) \in SUBSET S /\ IsFiniteSet(Elements(s))
<1>1. Elements(s) \in SUBSET S
  BY ElementOfSeq, LenProperties DEF Elements
<1>2. IsFiniteSet(1 .. Len(s))
  BY LenProperties, FS_Interval
<1>3. s \in Surjection(1 .. Len(s), Elements(s))
  BY LenProperties DEF Surjection, Elements
<1>4. QED
  BY <1>1, <1>2, <1>3, FS_Surjection

\* A rule that was sent becomes a row of the database.
LEMMA StoreType ==
    ASSUME NEW rule \in SentResource
    PROVE  /\ Store(ToRow(rule)) \in StoredRow
           /\ IsFiniteSet(Store(ToRow(rule)).categories)
           /\ Store(ToRow(rule)).integratorId = rule.integratorId
           /\ Store(ToRow(rule)).categories = StoredCategories(rule.categories)
<1>1. /\ ToRow(rule).integratorId = rule.integratorId
      /\ ToRow(rule).integratorId \in STRING
      /\ ToRow(rule).name \in STRING
      /\ ToRow(rule).detection \in Detections
      /\ ToRow(rule).categories = rule.categories
  BY DEF ToRow, SentResource, Resource
<1>2. ToRow(rule).objectType \in ObjectTypes
  BY DEF ToRow, ObjectType, ObjectTypes, SentResource, Resource
<1>3. ToRow(rule).zones \in Seq(STRING)
  <2>1. rule.zones = Undefined \/ rule.zones \in Seq(STRING)
    BY DEF SentResource, Resource
  <2>2. CASE rule.zones = Undefined
    <3>1. <<>> \in Seq(STRING)
      OBVIOUS
    <3>2. QED
      BY <2>2, <3>1 DEF ToRow
  <2>3. CASE rule.zones # Undefined
    BY <2>1, <2>3 DEF ToRow
  <2>4. QED
    BY <2>2, <2>3
<1>4. /\ Kept(ToRow(rule).detectionPeriod) \in {Null} \cup Nat
      /\ Kept(ToRow(rule).detectionMin) \in {Null} \cup Nat
      /\ Kept(ToRow(rule).detectionMax) \in {Null} \cup Nat
      /\ Kept(ToRow(rule).meta) \in {Null} \cup SUBSET STRING
  BY DEF ToRow, Kept, DetectionPeriod, DetectionMin, DetectionMax, Meta, Or,
     SentResource, Resource
<1>5. /\ StoredCategories(rule.categories) \in SUBSET STRING
      /\ IsFiniteSet(StoredCategories(rule.categories))
  BY ElementsType, FS_EmptySet DEF StoredCategories, Missing, SentResource, Resource
<1>6. QED
  BY <1>1, <1>2, <1>3, <1>4, <1>5 DEF Store, ToRow, StoredCategories, StoredRow

\* Reading a row changes nothing but the form of its categories.
LEMMA ReadOfRow ==
    ASSUME NEW row \in StoredRow, NEW read \in Reads(row)
    PROVE  /\ read = [row EXCEPT !.categories = read.categories]
           /\ read.categories \in Aggregates(row.categories)
           /\ read.integratorId = row.integratorId
BY DEF Reads, StoredRow

LEMMA AggregateType ==
    ASSUME NEW c \in SUBSET STRING, IsFiniteSet(c), NEW a \in Aggregates(c)
    PROVE  /\ a \in {Null} \cup Seq(STRING)
           /\ StoredCategories(Sent(a)) = c
           /\ c # {} => a \in [1 .. Cardinality(c) -> c] /\ Elements(a) = c
<1>1. CASE c = {}
  BY <1>1 DEF Aggregates, Sent, StoredCategories, Missing
<1>2. CASE c # {}
  <2>1. a \in [1 .. Cardinality(c) -> c] /\ Elements(a) = c
    BY <1>2 DEF Aggregates
  <2>2. Cardinality(c) \in Nat
    BY FS_CardinalityType
  <2>3. a \in Seq(STRING)
    <3>1. a \in [1 .. Cardinality(c) -> STRING]
      BY <2>1
    <3>2. QED
      BY <2>2, <3>1, SeqDef
  <2>4. a \notin Missing
    BY <2>3, MissingAssumption DEF Missing
  <2>5. Sent(a) = a
    BY <2>4 DEF Sent, Missing
  <2>6. StoredCategories(a) = Elements(a)
    BY <2>4 DEF StoredCategories
  <2>7. QED
    BY <2>1, <2>3, <2>5, <2>6
<1>3. QED
  BY <1>1, <1>2

\* The least element of a set of natural numbers.
LEMMA Least ==
    ASSUME NEW I, I \subseteq Nat, I # {}
    PROVE  \E i \in I : \A j \in I : i <= j
<1>1. PICK i \in I : \A j \in I : <<j, i>> \notin OpToRel(<, Nat)
  BY NatLessThanWellFounded, WFMin, Zenon
<1>2. \A j \in I : ~(j < i)
  BY <1>1 DEF OpToRel
<1>3. QED
  BY <1>2
-----------------------------------------------------------------------------
(***************************************************************************)
(* Rows, what is read of them and what comes back of it.                   *)
(***************************************************************************)

LEMMA StoreFields ==
    ASSUME NEW rule
    PROVE  Store(ToRow(rule)) =
             [integratorId |-> rule.integratorId, name |-> rule.name,
              objectType |-> ToRow(rule).objectType, detection |-> rule.detection,
              detectionPeriod |-> Kept(DetectionPeriod(rule)),
              detectionMin |-> Kept(DetectionMin(rule)),
              detectionMax |-> Kept(DetectionMax(rule)),
              meta |-> Kept(Meta(rule)), zones |-> ToRow(rule).zones,
              categories |-> StoredCategories(rule.categories)]
<1>1. /\ ToRow(rule).categories = rule.categories
      /\ ToRow(rule).detectionPeriod = DetectionPeriod(rule)
      /\ ToRow(rule).detectionMin = DetectionMin(rule)
      /\ ToRow(rule).detectionMax = DetectionMax(rule)
      /\ ToRow(rule).meta = Meta(rule)
  BY DEF ToRow
<1>2. Store(ToRow(rule)) =
        [ToRow(rule) EXCEPT !.detectionPeriod = Kept(DetectionPeriod(rule)),
                            !.detectionMin = Kept(DetectionMin(rule)),
                            !.detectionMax = Kept(DetectionMax(rule)),
                            !.meta = Kept(Meta(rule)),
                            !.categories = StoredCategories(rule.categories)]
  BY <1>1 DEF Store, StoredCategories
<1>3. QED
  BY <1>2 DEF ToRow

\* The resource of a row is one a client can be answered.
LEMMA ToResourceType ==
    ASSUME NEW row \in StoredRow, IsFiniteSet(row.categories), NEW read \in Reads(row)
    PROVE  ToResource(read) \in AnsweredResource
<1>1. read.categories \in {Null} \cup Seq(STRING)
  BY ReadOfRow, AggregateType DEF StoredRow
<1>2. /\ read.integratorId \in STRING /\ read.name \in STRING
      /\ read.detection \in Detections
      /\ read.objectType \in ObjectTypes
      /\ read.detectionPeriod \in {Null} \cup Nat
      /\ read.detectionMin \in {Null} \cup Nat
      /\ read.detectionMax \in {Null} \cup Nat
      /\ read.meta \in {Null} \cup SUBSET STRING
  BY ReadOfRow DEF StoredRow
<1>3. QED
  BY <1>1, <1>2 DEF ToResource, NumberMax, AnsweredResource, Resource

\* What was answered can be sent.
LEMMA PutBackType ==
    ASSUME NEW resource \in AnsweredResource
    PROVE  PutBack(resource) \in SentResource
<1>1. /\ resource.categories \in {Null, Undefined} \cup Seq(STRING)
      /\ resource.period \in {Null, Undefined} \cup Nat
      /\ resource.numberMin \in {Null, Undefined} \cup Nat
      /\ resource.numberMax \in {Null, Undefined} \cup Nat
      /\ resource.lists \in {Null, Undefined} \cup SUBSET STRING
  BY DEF AnsweredResource, Resource, Missing
<1>2. /\ Sent(resource.categories) \in {Undefined} \cup Seq(STRING)
      /\ Sent(resource.period) \in {Undefined} \cup Nat
      /\ Sent(resource.numberMin) \in {Undefined} \cup Nat
      /\ Sent(resource.numberMax) \in {Undefined} \cup Nat
      /\ Sent(resource.lists) \in {Undefined} \cup SUBSET STRING
  BY <1>1 DEF Sent
<1>3. QED
  BY <1>2 DEF PutBack, SentResource, AnsweredResource, Resource

\* A rule put back as it was read becomes the row it was read from: what
\* transformers.js makes of a row, and of a resource, cancel out.
THEOREM RoundTrip ==
    ASSUME NEW rule \in SentResource, ComesBack(Store(ToRow(rule))),
           NEW read \in Reads(Store(ToRow(rule)))
    PROVE  Store(ToRow(PutBack(ToResource(read)))) = Store(ToRow(rule))
<1> DEFINE row == Store(ToRow(rule))
           back == PutBack(ToResource(read))
<1>1. /\ row \in StoredRow /\ IsFiniteSet(row.categories)
      /\ read = [row EXCEPT !.categories = read.categories]
      /\ read.categories \in Aggregates(row.categories)
  BY StoreType, ReadOfRow
<1>2. /\ back.integratorId = row.integratorId
      /\ back.name = row.name
      /\ back.detection = row.detection
      /\ back.zones = Undefined
      /\ back.count = Undefined
  BY <1>1 DEF ToResource, PutBack, StoredRow
<1>3. ToRow(back).zones = row.zones
  BY <1>2 DEF ToRow, ComesBack
<1>4. ToRow(back).objectType = row.objectType
  <2>1. row.objectType \in ObjectTypes
    BY <1>1 DEF StoredRow
  <2>2. row.objectType # Undefined
    BY <2>1, MissingAssumption
  <2>3. back.objectType =
          IF row.detection \in Bare THEN Undefined ELSE row.objectType
    BY <1>1 DEF ToResource, PutBack, StoredRow
  <2>4. QED
    BY <2>2, <2>3 DEF ToRow, ObjectType, ComesBack
<1>5. StoredCategories(back.categories) = row.categories
  <2>1. back.categories =
          Sent(IF row.detection \in Bare THEN Undefined ELSE read.categories)
    BY <1>1 DEF ToResource, PutBack, StoredRow
  <2>2. StoredCategories(Sent(read.categories)) = row.categories
    BY <1>1, AggregateType DEF StoredRow
  <2>3. StoredCategories(Sent(Undefined)) = {}
    BY DEF Sent, StoredCategories, Missing
  <2>4. QED
    BY <2>1, <2>2, <2>3 DEF ComesBack
<1>6. Kept(DetectionPeriod(back)) = row.detectionPeriod
  <2>1. back.period = Sent(IF row.detection \in Timed
                           THEN row.detectionPeriod ELSE Undefined)
    BY <1>1 DEF ToResource, PutBack, StoredRow
  <2>2. row.detectionPeriod = Kept(DetectionPeriod(rule))
        /\ row.detection = rule.detection
    BY DEF Store, ToRow
  <2>3. QED
    BY <1>2, <2>1, <2>2, MissingAssumption DEF Kept, Sent, DetectionPeriod
<1>7. Kept(DetectionMin(back)) = row.detectionMin
  <2>1. back.numberMin = Sent(IF row.detection \in Counted
                              THEN row.detectionMin ELSE Undefined)
    BY <1>1 DEF ToResource, PutBack, StoredRow
  <2>2. row.detectionMin = Kept(DetectionMin(rule))
        /\ row.detection = rule.detection
    BY DEF Store, ToRow
  <2>3. row.detectionMin \in {Null} \cup Nat /\ row.detectionMin # 0
    BY <1>1 DEF StoredRow, ComesBack
  <2>4. CASE row.detection \in Counted
    <3>1. Or(back.numberMin, back.count) = Sent(row.detectionMin)
      BY <1>2, <2>1, <2>3, <2>4, MissingAssumption DEF Or, Sent, Falsy, Missing
    <3>2. QED
      BY <1>2, <2>3, <2>4, <3>1, MissingAssumption DEF DetectionMin, Kept, Sent
  <2>5. CASE row.detection \notin Counted
    BY <1>2, <2>2, <2>5 DEF DetectionMin, Kept
  <2>6. QED
    BY <2>4, <2>5
<1>8. Kept(DetectionMax(back)) = row.detectionMax
  <2>1. back.numberMax = Sent(IF row.detection \in Counted
                              THEN row.detectionMax ELSE Undefined)
    BY <1>1 DEF ToResource, NumberMax, PutBack, StoredRow
  <2>2. row.detectionMax = Kept(DetectionMax(rule))
        /\ row.detection = rule.detection
    BY DEF Store, ToRow
  <2>3. QED
    BY <1>2, <2>1, <2>2, MissingAssumption DEF Kept, Sent, DetectionMax
<1>9. Kept(Meta(back)) = row.meta
  <2>1. back.lists = Sent(IF row.detection = "watchListDetection"
                          THEN row.meta ELSE Undefined)
    BY <1>1 DEF ToResource, PutBack, StoredRow
  <2>2. row.meta = Kept(Meta(rule)) /\ row.detection = rule.detection
    BY DEF Store, ToRow
  <2>3. QED
    BY <1>2, <2>1, <2>2, MissingAssumption DEF Kept, Sent, Meta
<1>10. Store(ToRow(back)) =
         [integratorId |-> row.integratorId, name |-> row.name,
          objectType |-> row.objectType, detection |-> row.detection,
          detectionPeriod |-> row.detectionPeriod,
          detectionMin |-> row.detectionMin, detectionMax |-> row.detectionMax,
          meta |-> row.meta, zones |-> row.zones, categories |-> row.categories]
  <2>1. Store(ToRow(back)) =
          [integratorId |-> back.integratorId, name |-> back.name,
           objectType |-> ToRow(back).objectType, detection |-> back.detection,
           detectionPeriod |-> Kept(DetectionPeriod(back)),
           detectionMin |-> Kept(DetectionMin(back)),
           detectionMax |-> Kept(DetectionMax(back)),
           meta |-> Kept(Meta(back)), zones |-> ToRow(back).zones,
           categories |-> StoredCategories(back.categories)]
    BY StoreFields
  <2>2. QED
    BY <1>2, <1>3, <1>4, <1>5, <1>6, <1>7, <1>8, <1>9, <2>1
<1>11. QED
  BY <1>1, <1>10 DEF StoredRow

\* A row that is read is equal, for resolveUpdates, to the rule it was stored
\* from, if its categories can be read in one order only and were not sent as
\* an empty list.
THEOREM ReadsEqual ==
    ASSUME NEW rule \in SentResource, Storable(ToRow(rule)),
           Cardinality(Store(ToRow(rule)).categories) <= 1,
           rule.categories # <<>>,
           NEW read \in Reads(Store(ToRow(rule)))
    PROVE  IsRuleEqual(read, ToRow(rule))
<1> DEFINE row == Store(ToRow(rule))
<1>1. /\ row \in StoredRow /\ IsFiniteSet(row.categories)
      /\ row.categories = StoredCategories(rule.categories)
      /\ read = [row EXCEPT !.categories = read.categories]
      /\ read.categories \in Aggregates(row.categories)
      /\ ToRow(rule).categories = rule.categories
  BY StoreType, ReadOfRow DEF ToRow
<1>2. \A p \in {"integratorId", "name", "objectType", "detection", "zones"} :
        read[p] = ToRow(rule)[p]
  BY <1>1 DEF Store, ToRow, StoredRow
<1>3. \A p \in {"detectionPeriod", "detectionMin", "detectionMax", "meta"} :
        LooselyEqual(read[p], ToRow(rule)[p])
  <2>1. \A p \in {"detectionPeriod", "detectionMin", "detectionMax", "meta"} :
          read[p] = Kept(ToRow(rule)[p])
    <3>1. /\ row.detectionPeriod = Kept(ToRow(rule).detectionPeriod)
          /\ row.detectionMin = Kept(ToRow(rule).detectionMin)
          /\ row.detectionMax = Kept(ToRow(rule).detectionMax)
          /\ row.meta = Kept(ToRow(rule).meta)
      BY DEF Store, ToRow
    <3>2. /\ read.detectionPeriod = row.detectionPeriod
          /\ read.detectionMin = row.detectionMin
          /\ read.detectionMax = row.detectionMax
          /\ read.meta = row.meta
      BY <1>1 DEF StoredRow
    <3>3. QED
      BY <3>1, <3>2
  <2>2. QED
    BY <2>1 DEF LooselyEqual, Kept, Missing
<1>4. LooselyEqual(read.categories, rule.categories)
  <2>1. rule.categories = Undefined \/ rule.categories \in Seq(STRING)
    BY DEF SentResource, Resource
  <2>2. CASE rule.categories = Undefined
    BY <1>1, <2>2 DEF StoredCategories, Missing, Aggregates, LooselyEqual
  <2>3. CASE rule.categories \in Seq(STRING)
    <3>1. rule.categories \notin Missing
      BY <2>3, MissingAssumption DEF Missing
    <3>2. /\ row.categories = Elements(rule.categories)
          /\ Cardinality(row.categories) = Len(rule.categories)
      BY <1>1, <3>1 DEF StoredCategories, Storable
    <3>3. Len(rule.categories) = 1
      BY <2>3, <3>2, EmptySeq, LenProperties
    <3>4. Elements(rule.categories) = {rule.categories[1]}
      BY <2>3, <3>3, LenProperties DEF Elements
    <3>5. read.categories \in [1 .. 1 -> row.categories]
      BY <1>1, <3>2, <3>3, <3>4, AggregateType DEF StoredRow
    <3>6. read.categories = rule.categories
      BY <2>3, <3>2, <3>3, <3>4, <3>5, LenProperties
    <3>7. QED
      BY <3>6 DEF LooselyEqual
  <2>4. QED
    BY <2>1, <2>2, <2>3
<1>5. QED
  BY <1>1, <1>2, <1>3, <1>4 DEF IsRuleEqual

-----------------------------------------------------------------------------
(***************************************************************************)
(* Types of what the requests build.                                       *)
(***************************************************************************)

LEMMA EndsAreCameras ==
    ASSUME TypeOK
    PROVE  /\ 1 \in DOMAIN versions /\ Replica \in Camera
           /\ Len(versions) \in DOMAIN versions /\ Master \in Camera
BY EndsAreVersions DEF TypeOK, Replica, Master

LEMMA SeqByElements ==
    ASSUME NEW S, NEW T, NEW s \in Seq(S), NEW t, DOMAIN t = DOMAIN s,
           t = [i \in DOMAIN t |-> t[i]], \A i \in DOMAIN s : t[i] \in T
    PROVE  t \in Seq(T)
<1>1. Len(s) \in Nat /\ DOMAIN s = 1 .. Len(s)
  BY LenProperties
<1>2. t \in [1 .. Len(s) -> T]
  BY <1>1
<1>3. QED
  BY <1>1, <1>2, SeqDef

LEMMA StatusType ==
    ASSUME NEW f \in SentFeatures, NEW u \in BOOLEAN
    PROVE  StatusFor(f, u) \in Status
<1>1. <<>> \in Seq(SentResource)
  OBVIOUS
<1>2. QED
  BY <1>1 DEF StatusFor, Off, InRows, InStatus, Status, SentFeatures

LEMMA NothingType == Nothing \in SentFeatures /\ Nothing \in AnsweredFeatures
<1>1. <<>> \in Seq(SentResource) /\ <<>> \in Seq(AnsweredResource)
  OBVIOUS
<1>2. QED
  BY <1>1 DEF Nothing, SentFeatures, AnsweredFeatures

\* The rules a request creates have ids of their own, and are what it sent.
LEMMA CreatedProperties ==
    ASSUME NEW a \in Authors, NEW rules \in Seq(SentResource),
           NEW which \in SUBSET DOMAIN rules
    PROVE  /\ Created(a, rules, which) \in SUBSET Rules
           /\ IsFiniteSet(Created(a, rules, which))
           /\ \A x \in Created(a, rules, which) :
                /\ x.id[1] = a /\ x.id[2] \in which /\ x.id = <<a, x.id[2]>>
                /\ x.row = Store(ToRow(rules[x.id[2]]))
                /\ x.row.integratorId = rules[x.id[2]].integratorId
           /\ \A x, y \in Created(a, rules, which) : x.id = y.id => x = y
<1>1. Len(rules) \in Nat /\ DOMAIN rules = 1 .. Len(rules)
  BY LenProperties
<1>2. \A i \in which : i \in Nat /\ rules[i] \in SentResource
  BY <1>1, ElementOfSeq
<1>3. \A i \in which : /\ Store(ToRow(rules[i])) \in StoredRow
                       /\ Store(ToRow(rules[i])).integratorId = rules[i].integratorId
  BY <1>2, StoreType
<1>4. Created(a, rules, which) =
        {[id |-> <<a, i>>, row |-> Store(ToRow(rules[i]))] : i \in which}
  BY DEF Created, Rule
<1>5. Created(a, rules, which) \in SUBSET Rules
  BY <1>2, <1>3, <1>4 DEF Rules
<1>6. IsFiniteSet(Created(a, rules, which))
  <2> DEFINE g == [i \in which |-> [id |-> <<a, i>>, row |-> Store(ToRow(rules[i]))]]
  <2>1. IsFiniteSet(which)
    <3>1. IsFiniteSet(1 .. Len(rules))
      BY <1>1, FS_Interval
    <3>2. which \subseteq 1 .. Len(rules)
      BY <1>1
    <3>3. QED
      BY <3>1, <3>2, FS_Subset
  <2>2. g \in Surjection(which, Created(a, rules, which))
    BY <1>4 DEF Surjection
  <2>3. QED
    BY <2>1, <2>2, FS_Surjection
<1>7. \A x \in Created(a, rules, which) :
        /\ x.id[1] = a /\ x.id[2] \in which /\ x.id = <<a, x.id[2]>>
        /\ x.row = Store(ToRow(rules[x.id[2]]))
        /\ x.row.integratorId = rules[x.id[2]].integratorId
  BY <1>3, <1>4
<1>8. \A x, y \in Created(a, rules, which) : x.id = y.id => x = y
  <2> SUFFICES ASSUME NEW i \in which, NEW j \in which, <<a, i>> = <<a, j>>
               PROVE  i = j
    BY <1>4
  <2>1. QED
    OBVIOUS
<1>9. QED
  BY <1>5, <1>6, <1>7, <1>8

-----------------------------------------------------------------------------
(***************************************************************************)
(* The invariant.                                                          *)
(***************************************************************************)

\* A rule is what its id says: one of those that were there, or one a request
\* that has finished sent.
Origin(x) ==
    \/ /\ x.id[1] = Earlier
       /\ \E f \in Features :
            /\ x.id[2] \in DOMAIN f.rules
            /\ x.row = Store(ToRow(f.rules[x.id[2]]))
    \/ /\ x.id[1] \in Requests
       /\ pc[x.id[1]] = "done"
       /\ x.id[2] \in DOMAIN sent[x.id[1]].rules
       /\ x.row = Store(ToRow(sent[x.id[1]].rules[x.id[2]]))

RulesOriginate ==
    \A i \in DOMAIN versions :
        /\ IsFiniteSet(versions[i].rules)
        /\ \A x \in versions[i].rules : Origin(x)

\* A rule never changes from one version to another.
IdsIdentify ==
    \A i, j \in DOMAIN versions :
        \A x \in versions[i].rules, y \in versions[j].rules : x.id = y.id => x = y

SeenDone == \A r \in Requests : \A q \in seen[r] : pc[q] = "done"

Unanswered == \A r \in Requests : pc[r] # "done" => reply[r] = "none"

OnlyPutsFind == \A r \in Requests : pc[r] = "find" => kind[r] = "put"

\* Only a request that is about to commit has a plan, and what it is to delete
\* was there when it read.
PlansAreOfReaders ==
    \A r \in Requests :
        /\ pc[r] # "commit" => plan[r] = NoPlan
        /\ \A id \in plan[r].toDelete : id[1] \in Requests => pc[id[1]] = "done"

\* Why a PUT deletes the rule x: each rule it creates instead differs from what
\* it read of x, and if it sent any it creates one.
Explains(x, rules, toAdd) ==
    /\ \A j \in toAdd :
         rules[j].integratorId = x.row.integratorId =>
             \E read \in Reads(x.row) : ~IsRuleEqual(read, ToRow(rules[j]))
    /\ (\E i \in DOMAIN rules : rules[i].integratorId = x.row.integratorId) =>
         \E j \in toAdd : rules[j].integratorId = x.row.integratorId

PlansExplained ==
    \A r \in Requests :
        kind[r] = "put" =>
            \A x \in Master.rules :
                x.id \in plan[r].toDelete => Explains(x, sent[r].rules, plan[r].toAdd)

\* A deletion is to delete all rules of those who had finished before it.
DeletionsCover ==
    \A d \in Requests :
        kind[d] = "delete" /\ pc[d] = "commit" =>
            \A x \in Master.rules : Before(x.id[1], d) => x.id \in plan[d].toDelete

IInv ==
    /\ TypeOK
    /\ RulesOriginate
    /\ IdsIdentify
    /\ SeenDone
    /\ Unanswered
    /\ OnlyPutsFind
    /\ PlansAreOfReaders
    /\ PlansExplained
    /\ DeletionsCover
    /\ DeletionRemovesRules

-----------------------------------------------------------------------------
(***************************************************************************)
(* What requests read.                                                     *)
(***************************************************************************)

\* A rule of any version was sent.
LEMMA RulesWereSent ==
    ASSUME TypeOK, RulesOriginate, NEW i \in DOMAIN versions,
           NEW x \in versions[i].rules
    PROVE  /\ x \in Rules
           /\ \E rule \in SentResource : x.row = Store(ToRow(rule))
           /\ x.row \in StoredRow /\ IsFiniteSet(x.row.categories)
<1>1. x \in Rules
  <2>1. versions[i] \in Camera
    <3>1. versions \in Seq(Camera)
      BY DEF TypeOK
    <3>2. QED
      BY <3>1, ElementOfSeq, LenProperties
  <2>2. QED
    BY <2>1 DEF Camera
<1>2. \E rule \in SentResource : x.row = Store(ToRow(rule))
  <2>1. Origin(x)
    BY DEF RulesOriginate
  <2>2. CASE x.id[1] = Earlier
    <3>1. x.id[1] \notin Requests
      BY <2>2, RulesAssumption
    <3>2. PICK f \in Features :
            x.id[2] \in DOMAIN f.rules /\ x.row = Store(ToRow(f.rules[x.id[2]]))
      BY <2>1, <3>1 DEF Origin
    <3>3. f.rules \in Seq(SentResource)
      BY RulesAssumption
    <3>4. f.rules[x.id[2]] \in SentResource
      BY <3>2, <3>3, ElementOfSeq, LenProperties
    <3>5. QED
      BY <3>2, <3>4
  <2>3. CASE x.id[1] \in Requests
    <3>1. /\ x.id[2] \in DOMAIN sent[x.id[1]].rules
          /\ x.row = Store(ToRow(sent[x.id[1]].rules[x.id[2]]))
      BY <2>1, <2>3, RulesAssumption DEF Origin
    <3>2. sent[x.id[1]].rules \in Seq(SentResource)
      BY <2>3 DEF TypeOK, SentFeatures
    <3>3. sent[x.id[1]].rules[x.id[2]] \in SentResource
      BY <3>1, <3>2, ElementOfSeq, LenProperties
    <3>4. QED
      BY <3>1, <3>3
  <2>4. QED
    BY <2>1, <2>2, <2>3 DEF Origin
<1>3. QED
  BY <1>1, <1>2, StoreType

\* A query returns a sequence of the rules it finds.
LEMMA ReadingProperties ==
    ASSUME TypeOK, RulesOriginate, NEW reading \in Readings(Replica.rules)
    PROVE  /\ DOMAIN reading \subseteq Nat
           /\ DOMAIN reading = 1 .. Cardinality(Replica.rules)
           /\ Cardinality(Replica.rules) \in Nat
           /\ reading = [i \in DOMAIN reading |-> reading[i]]
           /\ \A i \in DOMAIN reading :
                \E x \in Replica.rules :
                  /\ reading[i].id = x.id
                  /\ reading[i].row \in Reads(x.row)
                  /\ reading[i].row.integratorId = x.row.integratorId
                  /\ ToResource(reading[i].row) \in AnsweredResource
<1>1. IsFiniteSet(Replica.rules)
  BY EndsAreCameras DEF RulesOriginate, Replica
<1>2. Cardinality(Replica.rules) \in Nat
  BY <1>1, FS_CardinalityType
<1>3. PICK o \in [1 .. Cardinality(Replica.rules) -> Replica.rules],
           c \in [Replica.rules -> UNION {Reads(x.row) : x \in Replica.rules}] :
        /\ \A x \in Replica.rules : c[x] \in Reads(x.row)
        /\ reading = [i \in DOMAIN o |-> [id |-> o[i].id, row |-> c[o[i]]]]
  BY DEF Readings
<1>4. ASSUME NEW i \in DOMAIN reading
      PROVE  /\ o[i] \in Replica.rules
             /\ reading[i].id = o[i].id
             /\ reading[i].row \in Reads(o[i].row)
  BY <1>3
<1>5. ASSUME NEW i \in DOMAIN reading
      PROVE  /\ reading[i].row.integratorId = o[i].row.integratorId
             /\ ToResource(reading[i].row) \in AnsweredResource
  <2>1. o[i].row \in StoredRow /\ IsFiniteSet(o[i].row.categories)
    BY <1>4, RulesWereSent, EndsAreCameras DEF Replica
  <2>2. QED
    BY <1>4, <2>1, ReadOfRow, ToResourceType
<1>6. QED
  BY <1>2, <1>3, <1>4, <1>5

\* What a GET answers.
LEMMA AnswerType ==
    ASSUME TypeOK, RulesOriginate
    PROVE  /\ \A reading \in Readings(Replica.rules) :
                FeaturesOf(InRows, reading) \in AnsweredFeatures
           /\ Replica.status.store # "rows" =>
                FeaturesOf(Replica.status, <<>>) \in AnsweredFeatures
<1>1. ASSUME NEW reading \in Readings(Replica.rules)
      PROVE  FeaturesOf(InRows, reading) \in AnsweredFeatures
  <2> DEFINE answered == [i \in DOMAIN reading |-> ToResource(reading[i].row)]
  <2>1. answered \in [1 .. Cardinality(Replica.rules) -> AnsweredResource]
    BY ReadingProperties
  <2>2. answered \in Seq(AnsweredResource)
    BY <2>1, ReadingProperties, SeqDef
  <2>3. FeaturesOf(InRows, reading) = [enabled |-> TRUE, rules |-> answered]
    BY DEF FeaturesOf, InRows
  <2>4. QED
    BY <2>2, <2>3 DEF AnsweredFeatures
<1>2. ASSUME Replica.status.store # "rows"
      PROVE  FeaturesOf(Replica.status, <<>>) \in AnsweredFeatures
  <2>1. Replica.status \in Status
    BY EndsAreCameras DEF Camera
  <2>2. SentResource \subseteq AnsweredResource
    BY DEF SentResource, AnsweredResource, Resource
  <2>3. Replica.status.rules \in Seq(AnsweredResource)
    BY <2>1, <2>2, SeqDef DEF Status
  <2>4. QED
    BY <1>2, <2>3 DEF FeaturesOf, AnsweredFeatures
<1>3. QED
  BY <1>1, <1>2

\* What a client may send.
LEMMA SendableType ==
    ASSUME TypeOK
    PROVE  Sendable \subseteq SentFeatures
<1> SUFFICES ASSUME NEW g \in Requests
             PROVE  PutBackOf(answer[g]) \in SentFeatures
  BY RulesAssumption DEF Sendable, Finished, SentFeatures
<1> DEFINE rules == answer[g].rules
           back == [i \in DOMAIN rules |-> PutBack(rules[i])]
<1>1. answer[g] \in AnsweredFeatures
  BY DEF TypeOK
<1>2. rules \in Seq(AnsweredResource)
  BY <1>1 DEF AnsweredFeatures
<1>3. \A i \in DOMAIN rules : back[i] \in SentResource
  BY <1>2, ElementOfSeq, LenProperties, PutBackType
<1>4. back \in Seq(SentResource)
  BY <1>2, <1>3, SeqByElements
<1>5. PutBackOf(answer[g]) = [enabled |-> answer[g].enabled, rules |-> back]
  BY <1>1 DEF PutBackOf, AnsweredFeatures
<1>6. QED
  BY <1>1, <1>4, <1>5 DEF SentFeatures, AnsweredFeatures

-----------------------------------------------------------------------------
(***************************************************************************)
(* resolveUpdates.                                                         *)
(***************************************************************************)

LEMMA FirstExists ==
    ASSUME NEW old, DOMAIN old \subseteq Nat, NEW new, Existing(old, new) # {}
    PROVE  /\ First(old, new) \in DOMAIN old
           /\ old[First(old, new)].row.integratorId = new.integratorId
<1>1. Existing(old, new) \subseteq Nat
  BY DEF Existing
<1>2. \E i \in Existing(old, new) : \A j \in Existing(old, new) : i <= j
  BY <1>1, Least
<1>3. First(old, new) \in Existing(old, new)
  BY <1>2 DEF First
<1>4. QED
  BY <1>3 DEF Existing

\* What is to be deleted was read.
LEMMA DeletedWasRead ==
    ASSUME NEW old, DOMAIN old \subseteq Nat, NEW new, NEW id \in ToDelete(old, new)
    PROVE  \E i \in DOMAIN old : id = old[i].id
<1>1. CASE id \in Vanished(old, new)
  BY <1>1 DEF Vanished
<1>2. CASE id \in Replaced(old, new)
  <2>1. PICK j \in DOMAIN new :
          Changed(old, new[j]) /\ id = old[First(old, new[j])].id
    BY <1>2 DEF Replaced
  <2>2. First(old, new[j]) \in DOMAIN old
    BY <2>1, FirstExists DEF Changed
  <2>3. QED
    BY <2>1, <2>2
<1>3. QED
  BY <1>1, <1>2 DEF ToDelete

\* Rules of one integrator ID are compared with the same rule.
LEMMA SameFirst ==
    ASSUME NEW old, NEW a, NEW b, a.integratorId = b.integratorId
    PROVE  Existing(old, a) = Existing(old, b) /\ First(old, a) = First(old, b)
<1>1. Existing(old, a) = Existing(old, b)
  BY DEF Existing
<1>2. QED
  BY <1>1 DEF First

\* Whatever the plan deletes of what was read, it has a reason to.
LEMMA ResolveExplains ==
    ASSUME NEW old, DOMAIN old \subseteq Nat, NEW rules, NEW x,
           \A i \in DOMAIN old : old[i].id = x.id =>
               /\ old[i].row \in Reads(x.row)
               /\ old[i].row.integratorId = x.row.integratorId,
           x.id \in ToDelete(old, ToRows(rules))
    PROVE  Explains(x, rules, ToAdd(old, ToRows(rules)))
<1> DEFINE new == ToRows(rules)
<1>1. /\ DOMAIN new = DOMAIN rules
      /\ \A j \in DOMAIN rules :
           /\ new[j] = ToRow(rules[j])
           /\ new[j].integratorId = rules[j].integratorId
  BY DEF ToRows, ToRow
<1> HIDE DEF new
<1>2. x.id \in ToDelete(old, new)
  BY DEF new
<1>3. CASE x.id \in Vanished(old, new)
  <2>1. PICK i \in DOMAIN old :
          /\ x.id = old[i].id
          /\ \A j \in DOMAIN new : new[j].integratorId # old[i].row.integratorId
    BY <1>3 DEF Vanished
  <2>2. \A j \in DOMAIN rules : rules[j].integratorId # x.row.integratorId
    BY <1>1, <2>1
  <2>3. ToAdd(old, new) \subseteq DOMAIN rules
    BY <1>1 DEF ToAdd
  <2>4. QED
    BY <2>2, <2>3 DEF Explains, new
<1>4. CASE x.id \in Replaced(old, new)
  <2>1. PICK k \in DOMAIN new :
          Changed(old, new[k]) /\ x.id = old[First(old, new[k])].id
    BY <1>4 DEF Replaced
  <2> DEFINE first == First(old, new[k])
  <2>2. /\ first \in DOMAIN old
        /\ old[first].row.integratorId = new[k].integratorId
        /\ old[first].row \in Reads(x.row)
        /\ new[k].integratorId = x.row.integratorId
    BY <2>1, FirstExists DEF Changed
  <2>3. k \in ToAdd(old, new) /\ rules[k].integratorId = x.row.integratorId
    BY <1>1, <2>1, <2>2 DEF ToAdd
  <2>4. ASSUME NEW j \in ToAdd(old, new),
               rules[j].integratorId = x.row.integratorId
        PROVE  ~IsRuleEqual(old[first].row, ToRow(rules[j]))
    <3>1. j \in DOMAIN new /\ new[j].integratorId = new[k].integratorId
      BY <1>1, <2>2, <2>4 DEF ToAdd
    <3>2. Existing(old, new[j]) = Existing(old, new[k]) /\ First(old, new[j]) = first
      BY <3>1, SameFirst
    <3>3. Changed(old, new[j])
      BY <2>1, <3>2 DEF ToAdd, Changed
    <3>4. QED
      BY <1>1, <3>1, <3>2, <3>3 DEF Changed
  <2>5. QED
    BY <2>2, <2>3, <2>4 DEF Explains, new
<1>5. QED
  BY <1>2, <1>3, <1>4 DEF ToDelete

LEMMA PlanType ==
    ASSUME TypeOK, RulesOriginate, NEW old \in Readings(Replica.rules),
           NEW rules \in Seq(SentResource)
    PROVE  /\ Resolve(old, ToRows(rules)) \in
                [toDelete : SUBSET (Authors \X Nat), toAdd : SUBSET Nat]
           /\ Resolve(old, ToRows(rules)).toAdd \subseteq DOMAIN rules
           /\ \A id \in ToDelete(old, ToRows(rules)) :
                \E x \in Replica.rules : id = x.id
<1>1. \A id \in ToDelete(old, ToRows(rules)) : \E x \in Replica.rules : id = x.id
  BY ReadingProperties, DeletedWasRead
<1>2. \A x \in Replica.rules : x.id \in Authors \X Nat
  BY EndsAreCameras DEF Camera, Rules
<1>3. ToAdd(old, ToRows(rules)) \subseteq DOMAIN rules
  BY DEF ToAdd, ToRows
<1>4. DOMAIN rules \subseteq Nat
  BY LenProperties
<1>5. QED
  BY <1>1, <1>2, <1>3, <1>4 DEF Resolve

-----------------------------------------------------------------------------
(***************************************************************************)
(* A step of one request changes what that request holds and nobody        *)
(* else's.                                                                 *)
(***************************************************************************)
LEMMA StepOfOne ==
    ASSUME TypeOK, Unanswered, NEW r \in Requests, Step(r)
    PROVE  /\ \A x \in Requests \ {r} :
                /\ kind'[x] = kind[x] /\ pc'[x] = pc[x] /\ sent'[x] = sent[x]
                /\ plan'[x] = plan[x] /\ reply'[x] = reply[x] /\ seen'[x] = seen[x]
           /\ pc[r] # "done" /\ pc'[r] # "idle"
           /\ pc[r] # "idle" =>
                kind'[r] = kind[r] /\ seen'[r] = seen[r] /\ sent'[r] = sent[r]
           /\ pc[r] = "idle" => seen'[r] = Finished
           /\ pc[r] = "idle" /\ reply'[r] = "ok" => kind'[r] # "delete"
           /\ pc'[r] # "done" => reply'[r] = reply[r]
           /\ pc[r] = "commit" => pc'[r] = "done"
           /\ pc[r] = "idle" => pc'[r] # "commit"
           /\ pc'[r] = "find" => kind'[r] = "put"
           /\ pc'[r] = "done" => plan'[r] = NoPlan
           /\ pc'[r] # "commit" => plan'[r] \in {plan[r], NoPlan}
<1> USE DEF TypeOK, Unanswered
<1>1. CASE StartPut(r)
  BY <1>1 DEF StartPut, Arrive, Answer, Goto, Proceed
<1>2. CASE FindView(r)
  BY <1>2 DEF FindView, Answer, Goto
<1>3. CASE ReadOriginals(r)
  BY <1>3 DEF ReadOriginals, Goto
<1>4. CASE CommitPut(r)
  BY <1>4 DEF CommitPut, Answer, Goto
<1>5. CASE StartGet(r)
  BY <1>5 DEF StartGet, Arrive, Answer, Goto, Proceed
<1>6. CASE ReadForGet(r)
  BY <1>6 DEF ReadForGet, Answer, Goto
<1>7. CASE StartDelete(r)
  BY <1>7 DEF StartDelete, Arrive, Answer, Goto, Proceed
<1>8. CASE ReadForDelete(r)
  BY <1>8 DEF ReadForDelete, Goto
<1>9. CASE CommitDelete(r)
  BY <1>9 DEF CommitDelete, Answer, Goto
<1>10. CASE Fail(r)
  BY <1>10 DEF Fail, Answer, Goto
<1>11. QED
  BY <1>1, <1>2, <1>3, <1>4, <1>5, <1>6, <1>7, <1>8, <1>9, <1>10 DEF Step

\* Only a commit writes to the database.
LEMMA Writes ==
    ASSUME NEW r \in Requests, Step(r)
    PROVE  versions' = versions \/ CommitPut(r) \/ CommitDelete(r)
BY DEF Step, StartPut, FindView, ReadOriginals, StartGet, ReadForGet, StartDelete,
   ReadForDelete, Fail

\* What a commit leaves is what was there, and what the request sent.
LEMMA Committed ==
    ASSUME TypeOK, RulesOriginate, NEW r \in Requests, CommitPut(r) \/ CommitDelete(r)
    PROVE  /\ pc[r] = "commit" /\ pc'[r] = "done"
           /\ sent' = sent /\ kind' = kind /\ seen' = seen
           /\ \E row \in Camera :
                /\ versions' = Append(versions, row)
                /\ IsFiniteSet(row.rules)
                /\ \A x \in row.rules :
                     x \in Master.rules \/ x \in Created(r, sent[r].rules, plan[r].toAdd)
                /\ CommitDelete(r) => row.rules = Remaining(r)
                /\ CommitPut(r) => row.rules = UpdatedRules(r)
<1> DEFINE created == Created(r, sent[r].rules, plan[r].toAdd)
<1>1. /\ Master \in Camera
      /\ sent[r] \in SentFeatures /\ sent[r].rules \in Seq(SentResource)
      /\ plan[r].toAdd \subseteq DOMAIN sent[r].rules
      /\ uses[r] \in BOOLEAN
  BY EndsAreCameras DEF TypeOK, SentFeatures
<1>2. created \in SUBSET Rules /\ IsFiniteSet(created)
  BY <1>1, CreatedProperties DEF Authors
<1>3. IsFiniteSet(Master.rules)
  BY EndsAreCameras DEF RulesOriginate, Master
<1>4. Remaining(r) \subseteq Master.rules /\ IsFiniteSet(Remaining(r))
  BY <1>3, FS_Subset DEF Remaining
<1>5. IsFiniteSet(UpdatedRules(r))
  BY <1>2, <1>4, FS_Union DEF UpdatedRules
<1>6. pc[r] = "commit" /\ pc'[r] = "done" /\ sent' = sent /\ kind' = kind /\ seen' = seen
  BY DEF CommitPut, CommitDelete, Answer, Goto, TypeOK
<1>7. CASE CommitPut(r)
  <2> DEFINE row == [Master EXCEPT
                       !.status = IF Master.live /\ writes[r]
                                  THEN StatusFor(sent[r], uses[r]) ELSE @,
                       !.rules = UpdatedRules(r)]
  <2>1. versions' = Append(versions, row)
    BY <1>7 DEF CommitPut
  <2>2. row \in Camera /\ row.rules = UpdatedRules(r)
    BY <1>1, <1>2, <1>4, StatusType DEF Camera, UpdatedRules
  <2>3. ~CommitDelete(r)
    BY <1>7 DEF CommitPut, CommitDelete
  <2>4. QED
    BY <1>4, <1>5, <1>6, <2>1, <2>2, <2>3 DEF UpdatedRules
<1>8. CASE CommitDelete(r)
  <2> DEFINE row == [Master EXCEPT !.live = FALSE, !.rules = Remaining(r)]
  <2>1. versions' = Append(versions, row)
    BY <1>8 DEF CommitDelete
  <2>2. row \in Camera /\ row.rules = Remaining(r)
    BY <1>1, <1>4 DEF Camera
  <2>3. ~CommitPut(r)
    BY <1>8 DEF CommitPut, CommitDelete
  <2>4. QED
    BY <1>4, <1>6, <2>1, <2>2, <2>3
<1>9. QED
  BY <1>7, <1>8

-----------------------------------------------------------------------------
(***************************************************************************)
(* The rules of every version.                                             *)
(***************************************************************************)

\* Who has finished is not heard of again.
LEMMA OriginStays ==
    ASSUME TypeOK, Unanswered, NEW r \in Requests, Step(r), NEW x, Origin(x)
    PROVE  Origin(x)'
<1>1. CASE x.id[1] \in Requests
  <2>1. pc[x.id[1]] = "done"
    BY <1>1, RulesAssumption DEF Origin
  <2>2. x.id[1] # r
    BY <2>1, StepOfOne
  <2>3. pc'[x.id[1]] = pc[x.id[1]] /\ sent'[x.id[1]] = sent[x.id[1]]
    BY <1>1, <2>2, StepOfOne
  <2>4. QED
    BY <1>1, <2>3, RulesAssumption DEF Origin
<1>2. CASE x.id[1] \notin Requests
  BY <1>2 DEF Origin
<1>3. QED
  BY <1>1, <1>2

\* What a request creates originates from it once it has finished.
LEMMA CreatedOriginate ==
    ASSUME TypeOK, NEW r \in Requests, pc'[r] = "done", sent' = sent,
           NEW x \in Created(r, sent[r].rules, plan[r].toAdd)
    PROVE  Origin(x)'
<1>1. /\ sent[r].rules \in Seq(SentResource)
      /\ plan[r].toAdd \in SUBSET DOMAIN sent[r].rules
      /\ r \in Authors
  BY DEF TypeOK, SentFeatures, Authors
<1>2. /\ x.id[1] = r /\ x.id[2] \in plan[r].toAdd
      /\ x.row = Store(ToRow(sent[r].rules[x.id[2]]))
  BY <1>1, CreatedProperties
<1>3. QED
  BY <1>1, <1>2 DEF Origin

LEMMA OriginateStep ==
    ASSUME TypeOK, RulesOriginate, Unanswered, NEW r \in Requests, Step(r)
    PROVE  RulesOriginate'
<1>1. CASE versions' = versions
  BY <1>1, OriginStays DEF RulesOriginate
<1>2. CASE CommitPut(r) \/ CommitDelete(r)
  <2>1. PICK row \in Camera :
          /\ versions' = Append(versions, row)
          /\ IsFiniteSet(row.rules)
          /\ \A x \in row.rules :
               x \in Master.rules \/ x \in Created(r, sent[r].rules, plan[r].toAdd)
    BY <1>2, Committed
  <2>2. pc'[r] = "done" /\ sent' = sent
    BY <1>2, Committed
  <2>3. \A x \in row.rules : Origin(x)'
    <3> SUFFICES ASSUME NEW x \in row.rules PROVE Origin(x)'
      OBVIOUS
    <3>1. CASE x \in Master.rules
      <4>1. Origin(x)
        BY <3>1, EndsAreCameras DEF RulesOriginate, Master
      <4>2. QED
        BY <4>1, OriginStays
    <3>2. CASE x \in Created(r, sent[r].rules, plan[r].toAdd)
      BY <2>2, <3>2, CreatedOriginate
    <3>3. QED
      BY <2>1, <3>1, <3>2
  <2>4. ASSUME NEW i \in DOMAIN versions'
        PROVE  IsFiniteSet(versions'[i].rules) /\ \A x \in versions'[i].rules : Origin(x)'
    <3>1. versions \in Seq(Camera)
      BY DEF TypeOK
    <3>2. versions'[i] = row \/ (i \in DOMAIN versions /\ versions'[i] = versions[i])
      BY <2>1, <2>4, <3>1, VersionsAfterCommit
    <3>3. CASE versions'[i] = row
      BY <2>1, <2>3, <3>3
    <3>4. CASE i \in DOMAIN versions /\ versions'[i] = versions[i]
      <4>1. IsFiniteSet(versions[i].rules) /\ \A x \in versions[i].rules : Origin(x)
        BY <3>4 DEF RulesOriginate
      <4>2. QED
        BY <3>4, <4>1, OriginStays
    <3>5. QED
      BY <3>2, <3>3, <3>4
  <2>5. QED
    BY <2>4 DEF RulesOriginate
<1>3. QED
  BY <1>1, <1>2, Writes

\* The ids of what a request creates are new: its author has not finished.
LEMMA IdsStep ==
    ASSUME TypeOK, RulesOriginate, IdsIdentify, NEW r \in Requests, Step(r)
    PROVE  IdsIdentify'
<1>1. CASE versions' = versions
  BY <1>1 DEF IdsIdentify
<1>2. CASE CommitPut(r) \/ CommitDelete(r)
  <2> DEFINE created == Created(r, sent[r].rules, plan[r].toAdd)
             Old(x) == \E i \in DOMAIN versions : x \in versions[i].rules
  <2>1. PICK row \in Camera :
          /\ versions' = Append(versions, row)
          /\ \A x \in row.rules : x \in Master.rules \/ x \in created
    BY <1>2, Committed
  <2>2. /\ sent[r].rules \in Seq(SentResource)
        /\ plan[r].toAdd \in SUBSET DOMAIN sent[r].rules
        /\ r \in Authors
    BY DEF TypeOK, SentFeatures, Authors
  <2>3. \A x \in created : x.id[1] = r
    BY <2>2, CreatedProperties
  <2>4. \A x, y \in created : x.id = y.id => x = y
    BY <2>2, CreatedProperties
  <2>5. \A x : Old(x) => x.id[1] # r
    <3> SUFFICES ASSUME NEW i \in DOMAIN versions, NEW x \in versions[i].rules
                 PROVE  x.id[1] # r
      OBVIOUS
    <3>1. Origin(x)
      BY DEF RulesOriginate
    <3>2. pc[r] = "commit"
      BY <1>2, Committed
    <3>3. QED
      BY <3>1, <3>2, RulesAssumption DEF Origin
  <2>6. \A x, y : Old(x) /\ Old(y) /\ x.id = y.id => x = y
    BY DEF IdsIdentify
  <2>7. \A i \in DOMAIN versions' : \A x \in versions'[i].rules : Old(x) \/ x \in created
    <3> SUFFICES ASSUME NEW i \in DOMAIN versions', NEW x \in versions'[i].rules
                 PROVE  Old(x) \/ x \in created
      OBVIOUS
    <3>1. versions \in Seq(Camera)
      BY DEF TypeOK
    <3>2. versions'[i] = row \/ (i \in DOMAIN versions /\ versions'[i] = versions[i])
      BY <2>1, <3>1, VersionsAfterCommit
    <3>3. QED
      BY <2>1, <3>2, EndsAreCameras DEF Master
  <2> HIDE DEF created, Old
  <2>8. \A x, y : (Old(x) \/ x \in created) /\ (Old(y) \/ y \in created)
                  /\ x.id = y.id => x = y
    BY <2>3, <2>4, <2>5, <2>6
  <2>9. QED
    BY <2>7, <2>8 DEF IdsIdentify
<1>3. QED
  BY <1>1, <1>2, Writes

\* Replication removes a version.
LEMMA ReplicateVersions ==
    ASSUME TypeOK, Replicate
    PROVE  /\ versions' \in Seq(Camera) /\ versions' # <<>>
           /\ Master' = Master
           /\ \A i \in DOMAIN versions' : \E j \in DOMAIN versions : versions'[i] = versions[j]
<1>1. versions \in Seq(Camera) /\ Len(versions) > 1 /\ versions' = Tail(versions)
  BY DEF TypeOK, Replicate
<1>2. QED
  BY <1>1, ReplicateVersion, VersionsAfterReplication DEF Master

-----------------------------------------------------------------------------
(***************************************************************************)
(* Type correctness of a step.                                             *)
(***************************************************************************)

\* The types of everything but the versions.
HoldingsOK ==
    /\ kind \in [Requests -> {"none", "put", "get", "delete"}]
    /\ pc \in [Requests -> {"idle", "find", "rules", "commit", "done"}]
    /\ sent \in [Requests -> SentFeatures]
    /\ uses \in [Requests -> BOOLEAN]
    /\ writes \in [Requests -> BOOLEAN]
    /\ plan \in [Requests -> [toDelete : SUBSET (Authors \X Nat), toAdd : SUBSET Nat]]
    /\ \A r \in Requests : plan[r].toAdd \subseteq DOMAIN sent[r].rules
    /\ reply \in [Requests -> {"none", "ok", "error"}]
    /\ answer \in [Requests -> AnsweredFeatures]
    /\ seen \in [Requests -> SUBSET Requests]
    /\ updated \subseteq Requests
    /\ misled \subseteq Requests

LEMMA TypeParts ==
    IdsIdentify =>
        (TypeOK <=> versions # <<>> /\ versions \in Seq(Camera) /\ HoldingsOK)
BY DEF TypeOK, HoldingsOK, IdsIdentify

LEMMA NoPlanType ==
    /\ NoPlan \in [toDelete : SUBSET (Authors \X Nat), toAdd : SUBSET Nat]
    /\ NoPlan.toDelete = {} /\ NoPlan.toAdd = {}
BY DEF NoPlan

\* An answer forgets the plan.
LEMMA AnswerKeepsTypes ==
    ASSUME HoldingsOK, NEW r \in Requests, NEW what \in {"ok", "error"}, Answer(r, what)
    PROVE  /\ pc' \in [Requests -> {"idle", "find", "rules", "commit", "done"}]
           /\ uses' \in [Requests -> BOOLEAN]
           /\ writes' \in [Requests -> BOOLEAN]
           /\ plan' \in [Requests -> [toDelete : SUBSET (Authors \X Nat),
                                      toAdd : SUBSET Nat]]
           /\ plan'[r].toAdd = {}
           /\ \A x \in Requests \ {r} : plan'[x] = plan[x]
           /\ reply' \in [Requests -> {"none", "ok", "error"}]
BY NoPlanType DEF HoldingsOK, Answer, Goto

LEMMA ArriveKeepsTypes ==
    ASSUME HoldingsOK, NEW r \in Requests, NEW k \in {"put", "get", "delete"},
           Arrive(r, k)
    PROVE  /\ kind' \in [Requests -> {"none", "put", "get", "delete"}]
           /\ seen' \in [Requests -> SUBSET Requests]
BY DEF HoldingsOK, Arrive, Finished

LEMMA HoldingsStep ==
    ASSUME TypeOK, RulesOriginate, IdsIdentify, PlansAreOfReaders,
           NEW r \in Requests, Step(r)
    PROVE  HoldingsOK'
<1>1. HoldingsOK
  BY TypeParts
<1>2. CASE StartPut(r)
  <2>1. PICK f \in Sendable :
          /\ Arrive(r, "put")
          /\ sent' = [sent EXCEPT ![r] = f]
          /\ \/ /\ Replica.live
                /\ uses' = [uses EXCEPT ![r] = Replica.status.store = "rows"]
                /\ Note(r, Master.live /\ (Master.status.store = "rows") = uses'[r])
                /\ Proceed(r, "find")
             \/ Answer(r, "error") /\ UNCHANGED misled
          /\ UNCHANGED <<versions, answer, updated>>
    BY <1>2 DEF StartPut
  <2>2. f \in SentFeatures
    BY SendableType
  <2>3. plan[r].toAdd = {}
    BY <2>1, NoPlanType DEF Arrive, PlansAreOfReaders
  <2>4. sent' \in [Requests -> SentFeatures] /\ \A x \in Requests \ {r} : sent'[x] = sent[x]
    BY <1>1, <2>1, <2>2 DEF HoldingsOK
  <2>5. CASE Answer(r, "error") /\ UNCHANGED misled
    BY <1>1, <2>1, <2>4, <2>5, AnswerKeepsTypes, ArriveKeepsTypes DEF HoldingsOK
  <2>6. CASE /\ uses' = [uses EXCEPT ![r] = Replica.status.store = "rows"]
             /\ Note(r, Master.live /\ (Master.status.store = "rows") = uses'[r])
             /\ Proceed(r, "find")
    BY <1>1, <2>1, <2>3, <2>4, <2>6, ArriveKeepsTypes DEF HoldingsOK, Note, Proceed, Goto
  <2>7. QED
    BY <2>1, <2>5, <2>6
<1>3. CASE FindView(r)
  <2>1. CASE Replica.live
    <3> DEFINE differs == Replica.status # StatusFor(sent[r], uses[r])
    <3>1. /\ writes' = [writes EXCEPT ![r] = differs]
          /\ Note(r, Replica.status = Master.status)
          /\ Goto(r, IF uses[r] THEN "rules" ELSE "commit")
          /\ UNCHANGED <<reply, uses, plan, kind, sent, answer, seen, updated>>
      BY <1>3, <2>1 DEF FindView
    <3>2. differs \in BOOLEAN
      OBVIOUS
    <3> HIDE DEF differs
    <3>3. writes' \in [Requests -> BOOLEAN]
      BY <1>1, <3>1, <3>2 DEF HoldingsOK
    <3>4. pc' \in [Requests -> {"idle", "find", "rules", "commit", "done"}]
      BY <1>1, <3>1 DEF HoldingsOK, Goto
    <3>5. misled' \subseteq Requests
      BY <1>1, <3>1 DEF HoldingsOK, Note
    <3>6. QED
      BY <1>1, <3>1, <3>3, <3>4, <3>5 DEF HoldingsOK
  <2>2. CASE ~Replica.live
    BY <1>1, <1>3, <2>2, AnswerKeepsTypes DEF FindView, HoldingsOK
  <2>3. QED
    BY <2>1, <2>2
<1>4. CASE ReadOriginals(r)
  <2>1. PICK old \in Readings(Replica.rules) :
          /\ plan' = [plan EXCEPT ![r] = Resolve(old, ToRows(sent[r].rules))]
          /\ Note(r, /\ Replica.rules = Master.rules
                     /\ OneEach([i \in DOMAIN old |-> old[i].row]))
    BY <1>4 DEF ReadOriginals
  <2>2. sent[r].rules \in Seq(SentResource)
    BY <1>1 DEF HoldingsOK, SentFeatures
  <2>3. /\ plan'[r] \in [toDelete : SUBSET (Authors \X Nat), toAdd : SUBSET Nat]
        /\ plan'[r].toAdd \subseteq DOMAIN sent[r].rules
    BY <1>1, <2>1, <2>2, PlanType DEF HoldingsOK
  <2>4. QED
    BY <1>1, <1>4, <2>1, <2>3 DEF ReadOriginals, HoldingsOK, Note, Goto
<1>5. CASE CommitPut(r)
  BY <1>1, <1>5, AnswerKeepsTypes DEF CommitPut, HoldingsOK
<1>6. CASE StartGet(r)
  <2>1. CASE Answer(r, "error") /\ UNCHANGED answer
    BY <1>1, <1>6, <2>1, AnswerKeepsTypes, ArriveKeepsTypes DEF StartGet, HoldingsOK
  <2>2. CASE Proceed(r, "rules") /\ UNCHANGED <<uses, answer>>
    BY <1>1, <1>6, <2>2, ArriveKeepsTypes DEF StartGet, HoldingsOK, Proceed, Goto
  <2>3. CASE /\ Replica.status.store # "rows"
             /\ answer' = [answer EXCEPT ![r] = FeaturesOf(Replica.status, <<>>)]
             /\ Answer(r, "ok")
    <3>1. answer' \in [Requests -> AnsweredFeatures]
      BY <1>1, <2>3, AnswerType DEF HoldingsOK
    <3>2. QED
      BY <1>1, <1>6, <2>3, <3>1, AnswerKeepsTypes, ArriveKeepsTypes
         DEF StartGet, HoldingsOK
  <2>4. QED
    BY <1>6, <2>1, <2>2, <2>3 DEF StartGet
<1>7. CASE ReadForGet(r)
  <2>1. answer' \in [Requests -> AnsweredFeatures]
    BY <1>1, <1>7, AnswerType DEF ReadForGet, HoldingsOK
  <2>2. QED
    BY <1>1, <1>7, <2>1, AnswerKeepsTypes DEF ReadForGet, HoldingsOK
<1>8. CASE StartDelete(r)
  <2>1. CASE Answer(r, "error")
    BY <1>1, <1>8, <2>1, AnswerKeepsTypes, ArriveKeepsTypes DEF StartDelete, HoldingsOK
  <2>2. CASE Proceed(r, "rules") /\ UNCHANGED uses
    BY <1>1, <1>8, <2>2, ArriveKeepsTypes DEF StartDelete, HoldingsOK, Proceed, Goto
  <2>3. QED
    BY <1>8, <2>1, <2>2 DEF StartDelete
<1>9. CASE ReadForDelete(r)
  <2>1. {x.id : x \in RulesToDelete} \subseteq Authors \X Nat
    BY EndsAreCameras DEF Camera, Rules, RulesToDelete
  <2>2. QED
    BY <1>1, <1>9, <2>1 DEF ReadForDelete, HoldingsOK, Goto
<1>10. CASE CommitDelete(r)
  BY <1>1, <1>10, AnswerKeepsTypes DEF CommitDelete, HoldingsOK
<1>11. CASE Fail(r)
  BY <1>1, <1>11, AnswerKeepsTypes DEF Fail, HoldingsOK
<1>12. QED
  BY <1>2, <1>3, <1>4, <1>5, <1>6, <1>7, <1>8, <1>9, <1>10, <1>11 DEF Step

LEMMA TypeStep ==
    ASSUME TypeOK, RulesOriginate, IdsIdentify, PlansAreOfReaders,
           NEW r \in Requests, Step(r)
    PROVE  TypeOK'
<1>1. versions' # <<>> /\ versions' \in Seq(Camera)
  <2>1. versions # <<>> /\ versions \in Seq(Camera)
    BY DEF TypeOK
  <2>2. CASE CommitPut(r) \/ CommitDelete(r)
    <3>1. PICK row \in Camera : versions' = Append(versions, row)
      BY <2>2, Committed
    <3>2. QED
      BY <2>1, <3>1, CommitVersion
  <2>3. QED
    BY <2>1, <2>2, Writes
<1>2. IdsIdentify' /\ HoldingsOK'
  BY IdsStep, HoldingsStep
<1>3. QED
  BY <1>1, <1>2 DEF TypeOK, HoldingsOK, IdsIdentify

-----------------------------------------------------------------------------
(***************************************************************************)
(* Plans, and what deletions leave.                                        *)
(***************************************************************************)

LEMMA BookkeepingStep ==
    ASSUME TypeOK, SeenDone, Unanswered, OnlyPutsFind, NEW r \in Requests, Step(r)
    PROVE  SeenDone' /\ Unanswered' /\ OnlyPutsFind'
<1>1. \A q \in Requests : pc[q] = "done" => pc'[q] = "done"
  BY StepOfOne
<1>2. SeenDone'
  <2> SUFFICES ASSUME NEW d \in Requests, NEW q \in seen'[d]
               PROVE  pc'[q] = "done"
    BY DEF SeenDone
  <2>1. CASE d = r /\ pc[r] = "idle"
    <3>1. q \in Finished
      BY <2>1, StepOfOne
    <3>2. QED
      BY <1>1, <3>1 DEF Finished
  <2>2. CASE ~(d = r /\ pc[r] = "idle")
    <3>1. q \in seen[d]
      BY <2>2, StepOfOne
    <3>2. q \in Requests /\ pc[q] = "done"
      BY <3>1 DEF TypeOK, SeenDone
    <3>3. QED
      BY <1>1, <3>2
  <2>3. QED
    BY <2>1, <2>2
<1>3. Unanswered'
  <2> SUFFICES ASSUME NEW q \in Requests, pc'[q] # "done"
               PROVE  reply'[q] = "none"
    BY DEF Unanswered
  <2>1. pc[q] # "done" /\ reply'[q] = reply[q]
    BY <1>1, StepOfOne
  <2>2. QED
    BY <2>1 DEF Unanswered
<1>4. OnlyPutsFind'
  BY StepOfOne DEF OnlyPutsFind
<1>5. QED
  BY <1>2, <1>3, <1>4

\* A request's own step: what it plans.
LEMMA NewPlan ==
    ASSUME NEW r \in Requests, Step(r), TypeOK, pc'[r] = "commit", pc[r] # "find"
    PROVE  \/ /\ kind[r] = "put"
              /\ \E old \in Readings(Replica.rules) :
                   plan'[r] = Resolve(old, ToRows(sent[r].rules))
           \/ /\ kind[r] = "delete"
              /\ plan'[r] = [plan[r] EXCEPT !.toDelete = {x.id : x \in Master.rules}]
<1> USE DEF TypeOK
<1>1. CASE ReadOriginals(r)
  BY <1>1 DEF ReadOriginals
<1>2. CASE ReadForDelete(r)
  BY <1>2 DEF ReadForDelete, RulesToDelete
<1>3. CASE StartPut(r)
  BY <1>3 DEF StartPut, Answer, Proceed, Goto
<1>4. CASE FindView(r)
  BY <1>4 DEF FindView
<1>5. CASE CommitPut(r)
  BY <1>5 DEF CommitPut, Answer, Goto
<1>6. CASE StartGet(r)
  BY <1>6 DEF StartGet, Answer, Proceed, Goto
<1>7. CASE ReadForGet(r)
  BY <1>7 DEF ReadForGet, Answer, Goto
<1>8. CASE StartDelete(r)
  BY <1>8 DEF StartDelete, Answer, Proceed, Goto
<1>9. CASE CommitDelete(r)
  BY <1>9 DEF CommitDelete, Answer, Goto
<1>10. CASE Fail(r)
  BY <1>10 DEF Fail, Answer, Goto
<1>11. QED
  BY <1>1, <1>2, <1>3, <1>4, <1>5, <1>6, <1>7, <1>8, <1>9, <1>10 DEF Step

\* A request that has looked up its camera has no plan yet.
LEMMA FoundPlan ==
    ASSUME NEW r \in Requests, Step(r), TypeOK, pc[r] = "find"
    PROVE  /\ plan'[r] \in {plan[r], NoPlan}
           /\ versions' = versions /\ kind'[r] = kind[r]
           /\ kind[r] = "put" => kind'[r] = "put"
<1> USE DEF TypeOK
<1>1. FindView(r) \/ Fail(r)
  BY DEF Step, StartPut, ReadOriginals, CommitPut, StartGet, ReadForGet, StartDelete,
     ReadForDelete, CommitDelete, Arrive
<1>2. QED
  BY <1>1 DEF FindView, Fail, Answer

LEMMA PlansStep ==
    ASSUME TypeOK, RulesOriginate, Unanswered, PlansAreOfReaders,
           NEW r \in Requests, Step(r)
    PROVE  PlansAreOfReaders'
<1>1. \A q \in Requests : pc[q] = "done" => pc'[q] = "done"
  BY StepOfOne
<1>2. ASSUME NEW q \in Requests, pc'[q] # "commit" PROVE plan'[q] = NoPlan
  <2>1. CASE pc[q] = "commit"
    BY <1>2, <2>1, StepOfOne
  <2>2. CASE pc[q] # "commit"
    <3>1. plan[q] = NoPlan
      BY <2>2 DEF PlansAreOfReaders
    <3>2. QED
      BY <1>2, <3>1, StepOfOne
  <2>3. QED
    BY <2>1, <2>2
<1>3. ASSUME NEW x, \E i \in DOMAIN versions : x \in versions[i].rules,
             x.id[1] \in Requests
      PROVE  pc[x.id[1]] = "done"
  BY <1>3, RulesAssumption DEF RulesOriginate, Origin
<1>4. ASSUME NEW q \in Requests, NEW id \in plan'[q].toDelete, id[1] \in Requests
      PROVE  pc'[id[1]] = "done"
  <2>1. CASE id \in plan[q].toDelete
    BY <1>1, <1>4, <2>1 DEF PlansAreOfReaders
  <2>2. CASE id \notin plan[q].toDelete
    <3>1. q = r /\ plan'[r] # plan[r]
      BY <1>4, <2>2, StepOfOne
    <3>2. plan'[r] # NoPlan
      BY <1>4, <3>1, NoPlanType
    <3>3. pc'[r] = "commit" /\ pc[r] # "find"
      BY <1>2, <3>1, <3>2, FoundPlan
    <3>4. \E i \in DOMAIN versions : \E x \in versions[i].rules : id = x.id
      <4>1. CASE \E old \in Readings(Replica.rules) :
                   plan'[r] = Resolve(old, ToRows(sent[r].rules))
        <5>1. PICK old \in Readings(Replica.rules) :
                plan'[r] = Resolve(old, ToRows(sent[r].rules))
          BY <4>1
        <5>2. id \in ToDelete(old, ToRows(sent[r].rules))
          BY <1>4, <3>1, <5>1 DEF Resolve
        <5>3. sent[r].rules \in Seq(SentResource)
          BY DEF TypeOK, SentFeatures
        <5>4. \E x \in Replica.rules : id = x.id
          BY <5>2, <5>3, PlanType
        <5>5. QED
          BY <5>4, EndsAreCameras DEF Replica
      <4>2. CASE plan'[r] = [plan[r] EXCEPT !.toDelete = {x.id : x \in Master.rules}]
        <5>1. id \in {x.id : x \in Master.rules}
          BY <1>4, <3>1, <4>2 DEF TypeOK
        <5>2. QED
          BY <5>1, EndsAreCameras DEF Master
      <4>3. QED
        BY <3>3, <4>1, <4>2, NewPlan
    <3>5. QED
      BY <1>1, <1>3, <1>4, <3>4
  <2>3. QED
    BY <2>1, <2>2
<1>5. QED
  BY <1>2, <1>4 DEF PlansAreOfReaders

\* A commit leaves rules that were there, and those its author creates.
LEMMA RulesAfterStep ==
    ASSUME TypeOK, RulesOriginate, NEW r \in Requests, Step(r), NEW x \in Master'.rules
    PROVE  \/ x \in Master.rules
           \/ /\ pc[r] = "commit" /\ x.id[1] = r /\ CommitPut(r)
              /\ x \in Created(r, sent[r].rules, plan[r].toAdd)
<1>1. CASE versions' = versions
  BY <1>1 DEF Master
<1>2. CASE CommitPut(r) \/ CommitDelete(r)
  <2>1. PICK row \in Camera :
          /\ versions' = Append(versions, row)
          /\ CommitDelete(r) => row.rules = Remaining(r)
          /\ CommitPut(r) => row.rules = UpdatedRules(r)
    BY <1>2, Committed
  <2>2. Master' = row
    BY <2>1, CommitVersion DEF TypeOK, Master
  <2>3. pc[r] = "commit"
    BY <1>2, Committed
  <2>4. \A y \in Created(r, sent[r].rules, plan[r].toAdd) : y.id[1] = r
    BY CreatedProperties DEF TypeOK, SentFeatures, Authors
  <2>5. QED
    BY <1>2, <2>1, <2>2, <2>3, <2>4 DEF UpdatedRules, Remaining
<1>3. QED
  BY <1>1, <1>2, Writes

LEMMA ExplainedStep ==
    ASSUME TypeOK, RulesOriginate, IdsIdentify, Unanswered, PlansAreOfReaders,
           PlansExplained, NEW r \in Requests, Step(r)
    PROVE  PlansExplained'
<1> SUFFICES ASSUME NEW q \in Requests, kind'[q] = "put", NEW x \in Master'.rules,
                    x.id \in plan'[q].toDelete
             PROVE  Explains(x, sent'[q].rules, plan'[q].toAdd)
  BY DEF PlansExplained, Explains
<1>1. pc'[q] = "commit" /\ plan'[q] # NoPlan
  <2>1. plan'[q] # NoPlan
    BY NoPlanType
  <2>2. QED
    BY <2>1, PlansStep DEF PlansAreOfReaders
<1>2. pc[q] # "idle" => kind[q] = "put" /\ sent'[q] = sent[q]
  BY StepOfOne
<1>3. CASE plan'[q] = plan[q]
  <2>1. pc[q] = "commit"
    BY <1>1, <1>3 DEF PlansAreOfReaders
  <2>2. x \in Master.rules
    <3>1. CASE x.id[1] = r /\ pc[r] = "commit"
      <4>1. pc[x.id[1]] = "done"
        BY <1>3, <3>1 DEF PlansAreOfReaders
      <4>2. QED
        BY <3>1, <4>1
    <3>2. QED
      BY <3>1, RulesAfterStep
  <2>3. QED
    BY <1>2, <1>3, <2>1, <2>2 DEF PlansExplained
<1>4. CASE plan'[q] # plan[q]
  <2>1. q = r
    BY <1>4, StepOfOne
  <2>2. pc[r] # "find"
    BY <1>1, <1>4, <2>1, FoundPlan
  <2>3. kind'[r] = "put" /\ (pc[r] # "idle" => kind[r] = "put" /\ sent'[r] = sent[r])
    BY <1>2, <2>1
  <2>4. pc[r] # "idle" /\ pc[r] # "commit"
    BY <1>1, <2>1, StepOfOne
  <2>5. PICK old \in Readings(Replica.rules) :
          plan'[r] = Resolve(old, ToRows(sent[r].rules))
    BY <1>1, <2>1, <2>2, <2>3, <2>4, NewPlan
  <2>6. x \in Master.rules
    BY <2>4, RulesAfterStep
  <2>7. sent[r].rules \in Seq(SentResource)
    BY DEF TypeOK, SentFeatures
  <2>8. x.id \in ToDelete(old, ToRows(sent[r].rules))
    BY <2>1, <2>5 DEF Resolve
  <2>9. \A y \in Replica.rules : y.id = x.id => y = x
    BY <2>6, EndsAreCameras DEF IdsIdentify, Master, Replica
  <2>10. \A i \in DOMAIN old : old[i].id = x.id =>
           /\ old[i].row \in Reads(x.row)
           /\ old[i].row.integratorId = x.row.integratorId
    BY <2>9, ReadingProperties
  <2>11. Explains(x, sent[r].rules, ToAdd(old, ToRows(sent[r].rules)))
    BY <2>8, <2>10, ReadingProperties, ResolveExplains
  <2>12. QED
    BY <2>1, <2>3, <2>4, <2>5, <2>11 DEF Resolve
<1>5. QED
  BY <1>3, <1>4

\* A deletion is acknowledged when it commits.
LEMMA AcknowledgedDeletion ==
    ASSUME TypeOK, NEW r \in Requests, Step(r), kind[r] = "delete", pc[r] # "idle",
           reply[r] # "ok", reply'[r] = "ok"
    PROVE  CommitDelete(r)
<1> USE DEF TypeOK
<1>1. ~(StartPut(r) \/ StartGet(r) \/ StartDelete(r))
  BY DEF StartPut, StartGet, StartDelete, Arrive
<1>2. ~(ReadOriginals(r) \/ CommitPut(r) \/ ReadForGet(r))
  BY DEF ReadOriginals, CommitPut, ReadForGet
<1>3. ~FindView(r)
  BY DEF FindView, Answer
<1>4. ~(ReadForDelete(r) \/ Fail(r))
  BY DEF ReadForDelete, Fail, Answer
<1>5. QED
  BY <1>1, <1>2, <1>3, <1>4 DEF Step

LEMMA DeletionsStep ==
    ASSUME TypeOK, RulesOriginate, IdsIdentify, SeenDone, Unanswered,
           OnlyPutsFind, DeletionsCover, DeletionRemovesRules,
           NEW r \in Requests, Step(r)
    PROVE  DeletionsCover' /\ DeletionRemovesRules'
<1>1. \* Whoever had finished before d arrived creates nothing in this step.
      ASSUME NEW d \in Requests, pc[d] # "idle", NEW x \in Master'.rules,
             Before(x.id[1], d)'
      PROVE  x \in Master.rules /\ Before(x.id[1], d)
  <2>1. seen'[d] = seen[d]
    BY <1>1, StepOfOne
  <2>2. Before(x.id[1], d)
    BY <1>1, <2>1 DEF Before
  <2>3. x.id[1] # r \/ pc[r] # "commit"
    BY <2>2, RulesAssumption DEF Before, SeenDone
  <2>4. QED
    BY <2>2, <2>3, RulesAfterStep
<1>2. DeletionsCover'
  <2> SUFFICES ASSUME NEW d \in Requests, kind'[d] = "delete", pc'[d] = "commit",
                      NEW x \in Master'.rules, Before(x.id[1], d)'
               PROVE  x.id \in plan'[d].toDelete
    BY DEF DeletionsCover, Before
  <2>1. pc[d] # "idle"
    BY StepOfOne
  <2>2. x \in Master.rules /\ Before(x.id[1], d)
    BY <1>1, <2>1
  <2>3. CASE d # r
    BY <2>2, <2>3, StepOfOne DEF DeletionsCover
  <2>4. CASE d = r
    <3>1. pc[r] # "commit" /\ kind[r] = "delete"
      BY <2>1, <2>4, StepOfOne
    <3>2. pc[r] # "find"
      BY <3>1 DEF OnlyPutsFind
    <3>3. plan'[r] = [plan[r] EXCEPT !.toDelete = {y.id : y \in Master.rules}]
      BY <2>4, <3>1, <3>2, NewPlan
    <3>4. QED
      BY <2>2, <2>4, <3>3 DEF TypeOK
  <2>5. QED
    BY <2>3, <2>4
<1>3. DeletionRemovesRules'
  <2> SUFFICES ASSUME NEW d \in Requests, kind'[d] = "delete", reply'[d] = "ok",
                      NEW x \in Master'.rules, Before(x.id[1], d)'
               PROVE  FALSE
    BY DEF DeletionRemovesRules, Before
  <2>1. pc[d] # "idle"
    BY StepOfOne DEF Unanswered
  <2>2. x \in Master.rules /\ Before(x.id[1], d)
    BY <1>1, <2>1
  <2>3. kind[d] = "delete"
    BY <2>1, StepOfOne
  <2>4. CASE reply[d] = "ok"
    BY <2>2, <2>3, <2>4 DEF DeletionRemovesRules
  <2>5. CASE reply[d] # "ok"
    <3>1. d = r
      BY <2>5, StepOfOne
    <3>2. CommitDelete(r)
      BY <2>1, <2>3, <2>5, <3>1, AcknowledgedDeletion
    <3>3. pc[r] = "commit" /\ Master'.rules = Remaining(r)
      <4>1. PICK row \in Camera :
              versions' = Append(versions, row) /\ row.rules = Remaining(r)
        BY <3>2, Committed
      <4>2. Master' = row
        BY <4>1, CommitVersion DEF TypeOK, Master
      <4>3. QED
        BY <3>2, <4>1, <4>2, Committed
    <3>4. x.id \in plan[r].toDelete
      BY <2>2, <2>3, <3>1, <3>3 DEF DeletionsCover
    <3>5. QED
      BY <3>3, <3>4 DEF Remaining
  <2>6. QED
    BY <2>4, <2>5
<1>4. QED
  BY <1>2, <1>3

-----------------------------------------------------------------------------
(***************************************************************************)
(* The invariant is inductive.                                             *)
(***************************************************************************)

LEMMA InitIInv == Init => IInv
<1> SUFFICES ASSUME Init PROVE IInv
  OBVIOUS
<1>1. PICK f \in Features, uses0 \in BOOLEAN :
        LET created == [live |-> TRUE,
                        status |-> StatusFor(f, uses0),
                        rules |-> IF uses0
                                  THEN Created(Earlier, f.rules, DOMAIN f.rules)
                                  ELSE {}]
            before == [live |-> FALSE, status |-> Off, rules |-> {}]
        IN  versions \in {<<created>>} \cup (IF uses0 THEN {<<before, created>>} ELSE {})
  BY DEF Init
<1> DEFINE first == Created(Earlier, f.rules, DOMAIN f.rules)
           created == [live |-> TRUE, status |-> StatusFor(f, uses0),
                       rules |-> IF uses0 THEN first ELSE {}]
           before == [live |-> FALSE, status |-> Off, rules |-> {}]
<1>2. f \in SentFeatures /\ f.rules \in Seq(SentResource) /\ Earlier \in Authors
  BY RulesAssumption DEF SentFeatures, Authors
<1>3. /\ first \in SUBSET Rules /\ IsFiniteSet(first)
      /\ \A x \in first : Origin(x)
      /\ \A x, y \in first : x.id = y.id => x = y
  BY <1>2, CreatedProperties DEF Origin
<1>4. created \in Camera /\ before \in Camera
  <2>1. Off \in Status
    <3>1. <<>> \in Seq(SentResource)
      OBVIOUS
    <3>2. QED
      BY <3>1 DEF Off, Status
  <2>2. QED
    BY <1>2, <1>3, <2>1, StatusType DEF Camera
<1>5. created.rules \in {first, {}} /\ before.rules = {}
  OBVIOUS
<1> HIDE DEF first, created, before
<1>6. versions = <<created>> \/ versions = <<before, created>>
  BY <1>1 DEF created, before, first
<1>7. versions \in Seq(Camera) /\ versions # <<>>
  <2>1. <<created>> \in Seq(Camera) /\ <<before, created>> \in Seq(Camera)
    BY <1>4, ShortSeqs
  <2>2. Len(versions) # Len(<<>>)
    BY <1>6
  <2>3. QED
    BY <1>6, <2>1, <2>2
<1>8. \A i \in DOMAIN versions : versions[i].rules \in {first, {}}
  <2>1. \A i \in DOMAIN versions : versions[i] \in {created, before}
    BY <1>6
  <2>2. QED
    BY <1>5, <2>1
<1>9. RulesOriginate /\ IdsIdentify
  BY <1>3, <1>8, FS_EmptySet DEF RulesOriginate, IdsIdentify
<1>10. HoldingsOK
  BY NothingType, NoPlanType DEF Init, HoldingsOK
<1>11. TypeOK
  BY <1>7, <1>9, <1>10, TypeParts
<1>12. QED
  BY <1>9, <1>11, NoPlanType DEF IInv, Init, SeenDone, Unanswered, OnlyPutsFind,
     PlansAreOfReaders, PlansExplained, DeletionsCover, DeletionRemovesRules

LEMMA NextIInv == IInv /\ [Next]_vars => IInv'
<1> SUFFICES ASSUME IInv, [Next]_vars PROVE IInv'
  OBVIOUS
<1> USE DEF IInv
<1>1. CASE UNCHANGED vars
  BY <1>1 DEF vars, TypeOK, RulesOriginate, Origin, IdsIdentify, SeenDone, Unanswered,
     OnlyPutsFind, PlansAreOfReaders, PlansExplained, Explains, DeletionsCover,
     DeletionRemovesRules, Before, Master
<1>2. CASE Replicate
  <2>1. /\ versions' \in Seq(Camera) /\ versions' # <<>>
        /\ Master' = Master
        /\ \A i \in DOMAIN versions' :
             \E j \in DOMAIN versions : versions'[i] = versions[j]
    BY <1>2, ReplicateVersions
  <2>2. UNCHANGED <<kind, pc, sent, uses, writes, plan, reply, answer, seen,
                    updated, misled>>
    BY <1>2 DEF Replicate
  <2>3. IdsIdentify'
    <3> SUFFICES ASSUME NEW i \in DOMAIN versions', NEW j \in DOMAIN versions',
                        NEW x \in versions'[i].rules, NEW y \in versions'[j].rules,
                        x.id = y.id
                 PROVE  x = y
      BY DEF IdsIdentify
    <3>1. PICK k \in DOMAIN versions, l \in DOMAIN versions :
            versions'[i] = versions[k] /\ versions'[j] = versions[l]
      BY <2>1
    <3>2. QED
      BY <3>1 DEF IdsIdentify
  <2>4. RulesOriginate'
    <3> SUFFICES ASSUME NEW i \in DOMAIN versions'
                 PROVE  /\ IsFiniteSet(versions'[i].rules)
                        /\ \A x \in versions'[i].rules : Origin(x)'
      BY DEF RulesOriginate
    <3>1. PICK j \in DOMAIN versions : versions'[i] = versions[j]
      BY <2>1
    <3>2. QED
      BY <2>2, <3>1 DEF RulesOriginate, Origin
  <2>5. TypeOK'
    BY <2>1, <2>2, <2>3 DEF TypeOK, IdsIdentify
  <2>6. SeenDone' /\ Unanswered' /\ OnlyPutsFind' /\ PlansAreOfReaders'
    BY <2>2 DEF SeenDone, Unanswered, OnlyPutsFind, PlansAreOfReaders
  <2>7. PlansExplained' /\ DeletionsCover' /\ DeletionRemovesRules'
    BY <2>1, <2>2 DEF PlansExplained, Explains, DeletionsCover, DeletionRemovesRules,
       Before
  <2>8. QED
    BY <2>3, <2>4, <2>5, <2>6, <2>7
<1>3. ASSUME NEW r \in Requests, Step(r) PROVE IInv'
  BY <1>3, TypeStep, OriginateStep, IdsStep, BookkeepingStep, PlansStep,
     ExplainedStep, DeletionsStep
<1>4. QED
  BY <1>1, <1>2, <1>3 DEF Next

\* Every variable keeps its type, for any features, requests and lag.
THEOREM TypeCorrect == Spec => []TypeOK
<1>1. IInv => TypeOK
  BY DEF IInv
<1>2. QED
  BY InitIInv, NextIInv, <1>1, PTL DEF Spec

\* An acknowledged deletion leaves no rules of those who had finished before,
\* because cleanAndDeleteViews finds the rules in its transaction.
THEOREM RulesRemoved == Spec => []DeletionRemovesRules
<1>1. IInv => DeletionRemovesRules
  BY DEF IInv
<1>2. QED
  BY InitIInv, NextIInv, <1>1, PTL DEF Spec

\* What a PUT leaves of the rules on the writer.
LEMMA PutLeaves ==
    ASSUME TypeOK, RulesOriginate, NEW r \in Requests, CommitPut(r)
    PROVE  Master'.rules = UpdatedRules(r)
<1>1. PICK row \in Camera : versions' = Append(versions, row) /\ row.rules = UpdatedRules(r)
  BY Committed
<1>2. QED
  BY <1>1, CommitVersion DEF TypeOK, Master

\* A rule that is replaced by one of the same contents has categories that can
\* be read in several orders, or were sent as an empty list.
LEMMA ReplacedByEqual ==
    ASSUME IInv, [Next]_vars, NEW x \in Master.rules \ Master'.rules,
           NEW y \in Master'.rules \ Master.rules, x.row = y.row
    PROVE  \/ Cardinality(x.row.categories) > 1
           \/ sent[y.id[1]].rules[y.id[2]].categories = <<>>
<1> USE DEF IInv
<1>1. PICK r \in Requests : Step(r)
  <2>1. Master' # Master
    OBVIOUS
  <2>2. ~UNCHANGED vars
    BY <2>1 DEF vars, Master
  <2>3. ~Replicate
    BY <2>1, ReplicateVersions
  <2>4. QED
    BY <2>2, <2>3 DEF Next
<1>2. CommitPut(r) /\ y \in Created(r, sent[r].rules, plan[r].toAdd)
  BY <1>1, RulesAfterStep
<1>3. /\ sent[r].rules \in Seq(SentResource)
      /\ plan[r].toAdd \in SUBSET DOMAIN sent[r].rules
      /\ r \in Authors
  BY DEF TypeOK, SentFeatures, Authors
<1> DEFINE j == y.id[2]
           rule == sent[r].rules[j]
<1>4. /\ y.id[1] = r /\ j \in plan[r].toAdd /\ rule \in SentResource
      /\ y.row = Store(ToRow(rule)) /\ y.row.integratorId = rule.integratorId
  <2>1. y.id[1] = r /\ j \in plan[r].toAdd
        /\ y.row = Store(ToRow(rule)) /\ y.row.integratorId = rule.integratorId
    BY <1>2, <1>3, CreatedProperties
  <2>2. QED
    BY <1>3, <2>1, ElementOfSeq, LenProperties
<1>5. x.id \in plan[r].toDelete
  BY <1>2, PutLeaves DEF UpdatedRules, Remaining
<1>6. kind[r] = "put" /\ Storable(ToRow(rule))
  BY <1>2, <1>4 DEF CommitPut
<1>7. PICK read \in Reads(x.row) : ~IsRuleEqual(read, ToRow(rule))
  BY <1>4, <1>5, <1>6 DEF PlansExplained, Explains
<1>8. Cardinality(x.row.categories) \in Nat
  <2>1. IsFiniteSet(x.row.categories)
    BY <1>4, StoreType
  <2>2. QED
    BY <2>1, FS_CardinalityType
<1>9. ~(Cardinality(x.row.categories) <= 1 /\ rule.categories # <<>>)
  BY <1>4, <1>6, <1>7, ReadsEqual
<1>10. QED
  BY <1>4, <1>8, <1>9

\* Rules whose contents a PUT sends again keep their row, and the links to their
\* images: resolveUpdates compares what the database made of a rule with what
\* the request says of it.
THEOREM RowKept == Spec => UnchangedRulesKeepTheirRow
<1>1. IInv /\ [Next]_vars =>
        [\A x \in Master.rules \ Master'.rules, y \in Master'.rules \ Master.rules :
           x.row = y.row =>
             \/ Cardinality(x.row.categories) > 1
             \/ sent[y.id[1]].rules[y.id[2]].categories = <<>>]_vars
  BY ReplacedByEqual
<1>2. QED
  BY InitIInv, NextIInv, <1>1, PTL DEF Spec, UnchangedRulesKeepTheirRow

\* A PUT that sends what was read of a rule leaves a rule of the same contents.
LEMMA PutBackLeaves ==
    ASSUME IInv, [Next]_vars, NEW r \in Requests, pc[r] = "commit", reply'[r] = "ok",
           kind[r] = "put", OneEach(sent[r].rules),
           NEW x \in Master.rules, ComesBack(x.row),
           NEW i \in DOMAIN sent[r].rules, NEW read \in Reads(x.row),
           sent[r].rules[i] = PutBack(ToResource(read))
    PROVE  \E y \in Master'.rules : y.row = x.row
<1> USE DEF IInv
<1>1. reply[r] = "none"
  BY DEF Unanswered
<1>2. Step(r)
  <2>1. reply'[r] # reply[r]
    BY <1>1
  <2>2. PICK q \in Requests : Step(q)
    BY <2>1 DEF Next, vars, Replicate
  <2>3. q = r
    BY <2>1, <2>2, StepOfOne
  <2>4. QED
    BY <2>2, <2>3
<1>3. CommitPut(r)
  <2> USE DEF TypeOK
  <2>1. ~(StartPut(r) \/ StartGet(r) \/ StartDelete(r) \/ FindView(r))
    BY DEF StartPut, StartGet, StartDelete, Arrive, FindView
  <2>2. ~(ReadOriginals(r) \/ ReadForGet(r) \/ ReadForDelete(r) \/ CommitDelete(r))
    BY DEF ReadOriginals, ReadForGet, ReadForDelete, CommitDelete
  <2>3. ~Fail(r)
    BY DEF Fail, Answer
  <2>4. QED
    BY <1>2, <2>1, <2>2, <2>3 DEF Step
<1>4. Master'.rules = UpdatedRules(r)
  BY <1>3, PutLeaves
<1>5. CASE x.id \notin plan[r].toDelete
  BY <1>4, <1>5 DEF UpdatedRules, Remaining
<1>6. CASE x.id \in plan[r].toDelete
  <2>1. sent[r].rules[i].integratorId = x.row.integratorId
    <3>1. x.row \in StoredRow
      BY EndsAreCameras, RulesWereSent DEF Master
    <3>2. read.integratorId = x.row.integratorId
      BY <3>1, ReadOfRow
    <3>3. QED
      BY <3>2 DEF PutBack, ToResource
  <2>2. PICK j \in plan[r].toAdd : sent[r].rules[j].integratorId = x.row.integratorId
    BY <1>6, <2>1 DEF PlansExplained, Explains
  <2>3. i \in plan[r].toAdd
    BY <2>1, <2>2 DEF OneEach, TypeOK
  <2>4. Store(ToRow(sent[r].rules[i])) = x.row
    BY EndsAreCameras, RulesWereSent, RoundTrip DEF Master
  <2>5. Rule(r, i, ToRow(sent[r].rules[i])) \in Master'.rules
    BY <1>4, <2>3 DEF UpdatedRules, Created
  <2>6. QED
    BY <2>4, <2>5 DEF Rule
<1>7. QED
  BY <1>5, <1>6

\* Putting back what was read loses no rule that comes back as it was: the
\* conversions to rows and to resources, and what the database makes of null and
\* undefined, cancel out.
THEOREM PutBackSafe == Spec => PutBackKeeps
<1>1. IInv /\ [Next]_vars =>
        [\A r \in Requests :
           pc[r] = "commit" /\ reply'[r] = "ok" /\ kind[r] = "put" /\ uses[r]
           /\ OneEach(sent[r].rules) =>
             \A x \in Master.rules :
                 /\ ComesBack(x.row)
                 /\ \E i \in DOMAIN sent[r].rules, read \in Reads(x.row) :
                      sent[r].rules[i] = PutBack(ToResource(read))
                 => \E y \in Master'.rules : y.row = x.row]_vars
  BY PutBackLeaves
<1>2. QED
  BY InitIInv, NextIInv, <1>1, PTL DEF Spec, PutBackKeeps

-----------------------------------------------------------------------------
(***************************************************************************)
(* What an update leaves.  A PUT that read what the writer has works with  *)
(* that when it commits, unless a request that overlaps with it reached    *)
(* the camera before.                                                      *)
(***************************************************************************)

\* Requests that reached the camera have finished.
UpdatedDone == \A q \in updated : pc[q] = "done"

\* What r read is what the writer has, as far as r can be blamed.
Undisturbed(r) == r \notin misled /\ \A q \in updated : ~Overlap(q, r)

\* Features that are off are off without rules, wherever they are.
OffHasNoRules ==
    /\ \A r \in Requests :
         /\ ~sent[r].enabled => DOMAIN sent[r].rules = {}
         /\ ~answer[r].enabled => DOMAIN answer[r].rules = {}
    /\ \A i \in DOMAIN versions :
         versions[i].status.store = "off" => DOMAIN versions[i].status.rules = {}

\* A PUT compares rules only where the camera's are in tables.
OnlyRowsPlanned ==
    \A r \in Requests :
        kind[r] = "put" =>
            /\ pc[r] = "rules" => uses[r]
            /\ ~uses[r] => plan[r] = NoPlan

\* What an undisturbed PUT knows of the camera's status.
StatusStands ==
    \A r \in Requests :
        kind[r] = "put" /\ Undisturbed(r) =>
            /\ pc[r] \in {"find", "rules", "commit"} =>
                 Master.live /\ (uses[r] <=> Master.status.store = "rows")
            /\ pc[r] \in {"rules", "commit"} =>
                 (writes[r] <=> Master.status # StatusFor(sent[r], uses[r]))

\* The plan turns these rules into those sent: rules no longer sent go, those
\* replaced go, and those neither created nor replaced are there.
Fits(p, features, rules) ==
    /\ \A x \in rules :
         (\A j \in DOMAIN features.rules :
            features.rules[j].integratorId # x.row.integratorId) => x.id \in p.toDelete
    /\ \A x \in rules, j \in p.toAdd :
         features.rules[j].integratorId = x.row.integratorId => x.id \in p.toDelete
    /\ \A x, y \in rules : x.row.integratorId = y.row.integratorId => x = y
    /\ OneEach(features.rules) =>
         \A j \in DOMAIN features.rules \ p.toAdd :
            \E x \in rules : /\ x.id \notin p.toDelete
                             /\ x.row = Store(ToRow(features.rules[j]))

\* What an undisturbed request plans fits the rules that the writer has.
PlansStand ==
    \A r \in Requests :
        pc[r] = "commit" /\ Undisturbed(r) =>
            /\ kind[r] = "put" /\ uses[r] => Fits(plan[r], sent[r], Master.rules)
            /\ kind[r] = "delete" => \A x \in Master.rules : x.id \in plan[r].toDelete

\* Disturbed or not, a PUT that is not misled replaces the rules of those who
\* came before it.
PlansReplace ==
    \A r \in Requests \ misled :
        pc[r] = "commit" /\ kind[r] = "put" =>
            \A x \in Master.rules, j \in plan[r].toAdd :
                Before(x.id[1], r) /\ sent[r].rules[j].integratorId = x.row.integratorId
                    => x.id \in plan[r].toDelete

UpdateInv ==
    /\ UpdatedDone /\ OffHasNoRules /\ OnlyRowsPlanned
    /\ StatusStands /\ PlansStand /\ PlansReplace
    /\ RowsOnlyWhileUsed /\ DuplicatesExplained /\ PutApplied

-----------------------------------------------------------------------------
(***************************************************************************)
(* What a plan makes of rules.                                             *)
(***************************************************************************)

\* Rows that isRuleEqual takes for one are stored as one.
LEMMA EqualIsStored ==
    ASSUME NEW old \in SentResource, NEW rule \in SentResource,
           NEW read \in Reads(Store(ToRow(old))), IsRuleEqual(read, ToRow(rule))
    PROVE  Store(ToRow(old)) = Store(ToRow(rule))
<1> DEFINE row == Store(ToRow(old))
           new == ToRow(rule)
<1>1. /\ row \in StoredRow /\ IsFiniteSet(row.categories)
      /\ read = [row EXCEPT !.categories = read.categories]
      /\ read.categories \in Aggregates(row.categories)
  BY StoreType, ReadOfRow
<1>2. /\ row.integratorId = new.integratorId /\ row.name = new.name
      /\ row.objectType = new.objectType /\ row.detection = new.detection
      /\ row.zones = new.zones
  BY <1>1 DEF IsRuleEqual, StoredRow
<1>3. /\ LooselyEqual(row.detectionPeriod, new.detectionPeriod)
      /\ LooselyEqual(row.detectionMin, new.detectionMin)
      /\ LooselyEqual(row.detectionMax, new.detectionMax)
      /\ LooselyEqual(row.meta, new.meta)
      /\ LooselyEqual(read.categories, new.categories)
  BY <1>1 DEF IsRuleEqual, StoredRow
<1>4. ASSUME NEW a, NEW b, LooselyEqual(a, b), a # Undefined
      PROVE  a = Kept(b)
  BY <1>4, MissingAssumption DEF LooselyEqual, Kept, Missing
<1>5. \A v : Kept(v) # Undefined
  BY MissingAssumption DEF Kept
<1>6. /\ row.detectionPeriod # Undefined /\ row.detectionMin # Undefined
      /\ row.detectionMax # Undefined /\ row.meta # Undefined
  <2>1. /\ row.detectionPeriod = Kept(DetectionPeriod(old))
        /\ row.detectionMin = Kept(DetectionMin(old))
        /\ row.detectionMax = Kept(DetectionMax(old))
        /\ row.meta = Kept(Meta(old))
    <3>1. row = [integratorId |-> old.integratorId, name |-> old.name,
                 objectType |-> ToRow(old).objectType, detection |-> old.detection,
                 detectionPeriod |-> Kept(DetectionPeriod(old)),
                 detectionMin |-> Kept(DetectionMin(old)),
                 detectionMax |-> Kept(DetectionMax(old)),
                 meta |-> Kept(Meta(old)), zones |-> ToRow(old).zones,
                 categories |-> StoredCategories(old.categories)]
      BY StoreFields
    <3> HIDE DEF row
    <3>2. QED
      BY <3>1
  <2> HIDE DEF row
  <2>2. QED
    BY <1>5, <2>1
<1>7. /\ row.detectionPeriod = Kept(new.detectionPeriod)
      /\ row.detectionMin = Kept(new.detectionMin)
      /\ row.detectionMax = Kept(new.detectionMax)
      /\ row.meta = Kept(new.meta)
  BY <1>3, <1>4, <1>6
<1>8. row.categories = StoredCategories(new.categories)
  <2>1. /\ row.categories \in SUBSET STRING
        /\ StoredCategories(Sent(read.categories)) = row.categories
        /\ read.categories \in {Null} \cup Seq(STRING)
    BY <1>1, AggregateType DEF StoredRow
  <2>2. new.categories \in {Undefined} \cup Seq(STRING)
    BY DEF ToRow, SentResource, Resource
  <2>3. CASE read.categories = Null
    <3>1. new.categories \in Missing
      BY <1>3, <2>2, <2>3, MissingAssumption DEF LooselyEqual, Missing
    <3>2. QED
      BY <2>1, <2>3, <3>1 DEF Sent, StoredCategories, Missing
  <2>4. CASE read.categories # Null
    <3>1. read.categories \in Seq(STRING) /\ read.categories \notin Missing
      BY <2>1, <2>4, MissingAssumption DEF Missing
    <3>2. read.categories = new.categories
      BY <1>3, <3>1 DEF LooselyEqual
    <3>3. QED
      BY <2>1, <2>4, <3>2 DEF Sent
  <2>5. QED
    BY <2>3, <2>4
<1> HIDE DEF row, new
<1>9. /\ row = [integratorId |-> row.integratorId, name |-> row.name,
               objectType |-> row.objectType, detection |-> row.detection,
               detectionPeriod |-> row.detectionPeriod,
               detectionMin |-> row.detectionMin,
               detectionMax |-> row.detectionMax, meta |-> row.meta,
               zones |-> row.zones, categories |-> row.categories]
      /\ new.integratorId = rule.integratorId /\ new.name = rule.name
      /\ new.detection = rule.detection /\ new.categories = rule.categories
      /\ new.detectionPeriod = DetectionPeriod(rule)
      /\ new.detectionMin = DetectionMin(rule)
      /\ new.detectionMax = DetectionMax(rule) /\ new.meta = Meta(rule)
  BY <1>1 DEF StoredRow, new, ToRow
<1>10. Store(ToRow(rule)) =
             [integratorId |-> rule.integratorId, name |-> rule.name,
              objectType |-> new.objectType, detection |-> rule.detection,
              detectionPeriod |-> Kept(DetectionPeriod(rule)),
              detectionMin |-> Kept(DetectionMin(rule)),
              detectionMax |-> Kept(DetectionMax(rule)),
              meta |-> Kept(Meta(rule)), zones |-> new.zones,
              categories |-> StoredCategories(rule.categories)]
  BY StoreFields DEF new
<1>11. row = Store(ToRow(rule))
  BY <1>2, <1>7, <1>8, <1>9, <1>10
<1>12. QED
  BY <1>11 DEF row

\* A query returns every rule.
LEMMA ReadingCovers ==
    ASSUME NEW S, IsFiniteSet(S), \A x \in S : x.row \in StoredRow,
           NEW old \in Readings(S)
    PROVE  /\ DOMAIN old \subseteq Nat
           /\ \A i \in DOMAIN old :
                \E x \in S : /\ old[i].id = x.id /\ old[i].row \in Reads(x.row)
                             /\ old[i].row.integratorId = x.row.integratorId
           /\ \A x \in S :
                \E i \in DOMAIN old : /\ old[i].id = x.id /\ old[i].row \in Reads(x.row)
                                      /\ old[i].row.integratorId = x.row.integratorId
<1>1. Cardinality(S) \in Nat
  BY FS_CardinalityType
<1>2. PICK o \in [1 .. Cardinality(S) -> S], c \in [S -> UNION {Reads(x.row) : x \in S}] :
        /\ Elements(o) = S
        /\ \A x \in S : c[x] \in Reads(x.row)
        /\ old = [i \in DOMAIN o |-> [id |-> o[i].id, row |-> c[o[i]]]]
  BY DEF Readings
<1>3. \A x \in S : c[x].integratorId = x.row.integratorId
  BY <1>2, ReadOfRow
<1>4. \A x \in S : \E i \in DOMAIN old : o[i] = x
  BY <1>2 DEF Elements
<1>5. \A i \in DOMAIN old : o[i] \in S /\ old[i].id = o[i].id /\ old[i].row = c[o[i]]
  BY <1>2
<1>6. DOMAIN old \subseteq Nat
  BY <1>1, <1>2
<1>7. \A i \in DOMAIN old : /\ old[i].id = o[i].id /\ old[i].row \in Reads(o[i].row)
                            /\ old[i].row.integratorId = o[i].row.integratorId
  BY <1>2, <1>3, <1>5
<1>8. QED
  BY <1>4, <1>5, <1>6, <1>7

\* What resolveUpdates plans fits what it read, if each rule has its own id and
\* each integrator ID one rule.
THEOREM ResolveFits ==
    ASSUME NEW S, IsFiniteSet(S), \A x, y \in S : x.id = y.id => x = y,
           \A x \in S : \E rule \in SentResource : x.row = Store(ToRow(rule)),
           NEW old \in Readings(S), OneEach([i \in DOMAIN old |-> old[i].row]),
           NEW f, f.rules \in Seq(SentResource)
    PROVE  Fits(Resolve(old, ToRows(f.rules)), f, S)
<1> DEFINE new == ToRows(f.rules)
           rules == f.rules
           p == Resolve(old, new)
           Is(i, x) == /\ old[i].id = x.id /\ old[i].row \in Reads(x.row)
                       /\ old[i].row.integratorId = x.row.integratorId
<1>1. /\ DOMAIN new = DOMAIN rules
      /\ \A j \in DOMAIN rules : new[j] = ToRow(rules[j])
      /\ \A j \in DOMAIN rules : new[j].integratorId = rules[j].integratorId
  BY DEF ToRows, ToRow
<1>2. \A x \in S : x.row \in StoredRow
  BY StoreType
<1>3. /\ DOMAIN old \subseteq Nat
      /\ \A i \in DOMAIN old : \E x \in S : Is(i, x)
      /\ \A x \in S : \E i \in DOMAIN old : Is(i, x)
  BY <1>2, ReadingCovers
<1>4. \A i, j \in DOMAIN old :
        old[i].row.integratorId = old[j].row.integratorId => i = j
  BY DEF OneEach
<1>5. p.toDelete = Vanished(old, new) \cup Replaced(old, new) /\ p.toAdd = ToAdd(old, new)
  BY DEF Resolve, ToDelete
<1>6. \A j \in DOMAIN rules : rules[j] \in SentResource
  BY ElementOfSeq, LenProperties
<1> HIDE DEF new, rules, p
<1>7. \A x, y \in S : x.row.integratorId = y.row.integratorId => x = y
  <2> SUFFICES ASSUME NEW x \in S, NEW y \in S,
                      x.row.integratorId = y.row.integratorId
               PROVE  x = y
    OBVIOUS
  <2>1. PICK i \in DOMAIN old, j \in DOMAIN old : Is(i, x) /\ Is(j, y)
    BY <1>3
  <2>2. i = j
    BY <1>4, <2>1
  <2>3. QED
    BY <2>1, <2>2
<1>8. ASSUME NEW x \in S, NEW j \in DOMAIN new, new[j].integratorId = x.row.integratorId
      PROVE  \E i \in DOMAIN old : /\ Is(i, x) /\ First(old, new[j]) = i
                                   /\ Existing(old, new[j]) # {}
  <2>1. PICK i \in DOMAIN old : Is(i, x)
    BY <1>3
  <2>2. i \in Existing(old, new[j])
    BY <1>8, <2>1 DEF Existing
  <2>3. First(old, new[j]) \in DOMAIN old
        /\ old[First(old, new[j])].row.integratorId = new[j].integratorId
    BY <1>3, <2>2, FirstExists
  <2>4. First(old, new[j]) = i
    BY <1>4, <1>8, <2>1, <2>3
  <2>5. QED
    BY <2>1, <2>2, <2>4
<1>9. ASSUME NEW x \in S, \A j \in DOMAIN rules : rules[j].integratorId # x.row.integratorId
      PROVE  x.id \in p.toDelete
  <2>1. PICK i \in DOMAIN old : Is(i, x)
    BY <1>3
  <2>2. \A j \in DOMAIN new : new[j].integratorId # old[i].row.integratorId
    BY <1>1, <1>9, <2>1
  <2>3. old[i].id \in Vanished(old, new)
    BY <2>2 DEF Vanished
  <2>4. QED
    BY <1>5, <2>1, <2>3
<1>10. ASSUME NEW x \in S, NEW j \in p.toAdd, rules[j].integratorId = x.row.integratorId
       PROVE  x.id \in p.toDelete
  <2>1. j \in DOMAIN new /\ (Existing(old, new[j]) = {} \/ Changed(old, new[j]))
    BY <1>5 DEF ToAdd
  <2>2. PICK i \in DOMAIN old : /\ Is(i, x) /\ First(old, new[j]) = i
                                /\ Existing(old, new[j]) # {}
    BY <1>1, <1>8, <1>10, <2>1
  <2>3. old[First(old, new[j])].id \in Replaced(old, new)
    BY <2>1, <2>2 DEF Replaced
  <2>4. QED
    BY <1>5, <2>2, <2>3
<1>11. ASSUME OneEach(rules), NEW j \in DOMAIN rules \ p.toAdd
       PROVE  \E x \in S : x.id \notin p.toDelete /\ x.row = Store(ToRow(rules[j]))
  <2>1. j \in DOMAIN new /\ Existing(old, new[j]) # {} /\ ~Changed(old, new[j])
    BY <1>1, <1>5, <1>11 DEF ToAdd
  <2> DEFINE i == First(old, new[j])
  <2>2. i \in DOMAIN old /\ old[i].row.integratorId = new[j].integratorId
    BY <1>3, <2>1, FirstExists
  <2>3. IsRuleEqual(old[i].row, ToRow(rules[j]))
    BY <1>1, <2>1 DEF Changed
  <2> HIDE DEF i
  <2>4. PICK x \in S : Is(i, x)
    BY <1>3, <2>2
  <2>5. PICK rule \in SentResource : x.row = Store(ToRow(rule))
    OBVIOUS
  <2>6. x.row = Store(ToRow(rules[j]))
    BY <1>6, <1>11, <2>3, <2>4, <2>5, EqualIsStored
  <2>7. x.id \notin Vanished(old, new)
    <3> SUFFICES ASSUME NEW k \in DOMAIN old, old[k].id = x.id
                 PROVE  old[k].row.integratorId = new[j].integratorId
      BY <2>1 DEF Vanished
    <3>1. PICK y \in S : Is(k, y)
      BY <1>3
    <3>2. y = x
      BY <3>1
    <3>3. QED
      BY <2>2, <2>4, <3>1, <3>2
  <2>8. x.id \notin Replaced(old, new)
    <3> SUFFICES ASSUME NEW k \in DOMAIN new, Changed(old, new[k]),
                        x.id = old[First(old, new[k])].id
                 PROVE  FALSE
      BY DEF Replaced
    <3>0. Existing(old, new[k]) # {}
      BY DEF Changed
    <3>1. /\ First(old, new[k]) \in DOMAIN old
          /\ old[First(old, new[k])].row.integratorId = new[k].integratorId
      BY <1>3, <3>0, FirstExists
    <3>2. PICK y \in S : Is(First(old, new[k]), y)
      BY <1>3, <3>1
    <3>3. y = x
      BY <3>2
    <3>4. new[k].integratorId = new[j].integratorId
      BY <2>2, <2>4, <3>1, <3>2, <3>3
    <3>5. k = j
      BY <1>1, <1>11, <2>1, <3>4 DEF OneEach
    <3>6. QED
      BY <2>1, <3>5
  <2>9. QED
    BY <1>5, <2>6, <2>7, <2>8
<1>12. Fits(p, f, S)
  BY <1>7, <1>9, <1>10, <1>11 DEF Fits, rules
<1>13. QED
  BY <1>12 DEF p, new

\* What a PUT leaves of rules that its plan fits: those it sent, one for each.
LEMMA FittedRules ==
    ASSUME NEW r \in Requests, NEW S, NEW f, f.rules \in Seq(SentResource),
           OneEach(f.rules), NEW p, p.toAdd \in SUBSET DOMAIN f.rules, Fits(p, f, S)
    PROVE  LET left == {x \in S : x.id \notin p.toDelete}
                         \cup Created(r, f.rules, p.toAdd)
           IN  /\ {x.row : x \in left} =
                    {Store(ToRow(f.rules[i])) : i \in DOMAIN f.rules}
               /\ Cardinality(left) = Len(f.rules)
<1> DEFINE rules == f.rules
           kept == {x \in S : x.id \notin p.toDelete}
           created == Created(r, rules, p.toAdd)
           left == kept \cup created
           stored(j) == Store(ToRow(rules[j]))
<1>1. /\ \A x \in created :
           /\ x.id[2] \in p.toAdd /\ x.id = <<r, x.id[2]>>
           /\ x.row = stored(x.id[2])
           /\ x.row.integratorId = rules[x.id[2]].integratorId
      /\ \A x, y \in created : x.id = y.id => x = y
  BY CreatedProperties DEF Authors
<1>2. \A j \in p.toAdd : \E x \in created : x.row = stored(j)
  <2> SUFFICES ASSUME NEW j \in p.toAdd
               PROVE  \E x \in created : x.row = stored(j)
    OBVIOUS
  <2>1. Rule(r, j, ToRow(rules[j])) \in created
    BY DEF Created
  <2>2. Rule(r, j, ToRow(rules[j])).row = stored(j)
    BY DEF Rule
  <2>3. QED
    BY <2>1, <2>2
<1>3. \A j \in DOMAIN rules : stored(j).integratorId = rules[j].integratorId
  <2>1. \A j \in DOMAIN rules : rules[j] \in SentResource
    BY ElementOfSeq, LenProperties
  <2>2. QED
    BY <2>1, StoreType
<1>4. /\ \A x \in S : (\A j \in DOMAIN rules : rules[j].integratorId # x.row.integratorId)
                        => x.id \in p.toDelete
      /\ \A x \in S, j \in p.toAdd : rules[j].integratorId = x.row.integratorId
                        => x.id \in p.toDelete
      /\ \A x, y \in S : x.row.integratorId = y.row.integratorId => x = y
      /\ \A j \in DOMAIN rules \ p.toAdd : \E x \in kept : x.row = stored(j)
  BY DEF Fits
<1>5. \A i, j \in DOMAIN rules : rules[i].integratorId = rules[j].integratorId => i = j
  BY DEF OneEach
<1>6. p.toAdd \subseteq DOMAIN rules
  OBVIOUS
<1> HIDE DEF rules, created, stored
<1>7. \A j \in DOMAIN rules : \E x \in left : x.row = stored(j)
  BY <1>2, <1>4
<1>8. \A x, y \in left : x.row.integratorId = y.row.integratorId => x = y
  <2>1. \A x, y \in kept : x.row.integratorId = y.row.integratorId => x = y
    BY <1>4
  <2>2. \A x \in kept, y \in created : x.row.integratorId # y.row.integratorId
    BY <1>1, <1>4
  <2>3. ASSUME NEW x \in created, NEW y \in created,
               x.row.integratorId = y.row.integratorId
        PROVE  x = y
    <3>1. x.id[2] = y.id[2]
      BY <1>1, <1>5, <1>6, <2>3
    <3>2. x.id = y.id
      BY <1>1, <3>1
    <3>3. QED
      BY <1>1, <3>2
  <2>4. QED
    BY <2>1, <2>2, <2>3
<1>9. \A x \in left : \E j \in DOMAIN rules : x.row = stored(j)
  <2>1. ASSUME NEW x \in kept PROVE \E j \in DOMAIN rules : x.row = stored(j)
    <3>1. PICK j \in DOMAIN rules : rules[j].integratorId = x.row.integratorId
      BY <1>4
    <3>2. j \in DOMAIN rules \ p.toAdd
      BY <1>4, <3>1
    <3>3. PICK y \in kept : y.row = stored(j)
      BY <1>4, <3>2
    <3>4. y.row.integratorId = x.row.integratorId
      BY <1>3, <3>1, <3>3
    <3>5. y = x
      BY <1>4, <3>4
    <3>6. QED
      BY <3>3, <3>5
  <2>2. QED
    BY <1>1, <1>6, <2>1
<1>10. {x.row : x \in left} = {stored(i) : i \in DOMAIN rules}
  BY <1>7, <1>9
<1>11. Cardinality(left) = Len(rules)
  <2>1. Len(rules) \in Nat /\ DOMAIN rules = 1 .. Len(rules)
    BY LenProperties DEF rules
  <2> DEFINE g == [j \in 1 .. Len(rules) |-> CHOOSE x \in left : x.row = stored(j)]
  <2>2. \A j \in 1 .. Len(rules) : g[j] \in left /\ g[j].row = stored(j)
    BY <1>7, <2>1
  <2> HIDE DEF left
  <2>3. g \in [1 .. Len(rules) -> left]
    BY <2>2
  <2> HIDE DEF g
  <2>4. \A i, j \in 1 .. Len(rules) : g[i] = g[j] => i = j
    BY <1>3, <1>5, <2>1, <2>2
  <2>5. \A x \in left : \E j \in 1 .. Len(rules) : g[j] = x
    <3> SUFFICES ASSUME NEW x \in left PROVE \E j \in 1 .. Len(rules) : g[j] = x
      OBVIOUS
    <3>1. PICK j \in 1 .. Len(rules) : x.row = stored(j)
      BY <1>9, <2>1
    <3>2. g[j] \in left /\ g[j].row.integratorId = x.row.integratorId
      BY <2>2, <3>1
    <3>3. QED
      BY <1>8, <3>2
  <2>6. ExistsBijection(1 .. Len(rules), left)
    <3>1. g \in Surjection(1 .. Len(rules), left)
      BY <2>3, <2>5 DEF Surjection
    <3>2. g \in Injection(1 .. Len(rules), left)
      BY <2>3, <2>4 DEF Injection, IsInjective
    <3>3. QED
      BY <3>1, <3>2 DEF ExistsBijection, Bijection
  <2>7. IsFiniteSet(1 .. Len(rules)) /\ Cardinality(1 .. Len(rules)) = Len(rules)
    <3>1. 1 \in Int /\ Len(rules) \in Int
      BY <2>1
    <3> HIDE DEF rules
    <3>2. /\ IsFiniteSet(1 .. Len(rules))
          /\ Cardinality(1 .. Len(rules)) =
               IF 1 > Len(rules) THEN 0 ELSE Len(rules) - 1 + 1
      BY <3>1, FS_Interval, Zenon
    <3>3. QED
      BY <2>1, <3>2
  <2>8. QED
    BY <2>6, <2>7, FS_Bijection
<1>12. QED
  BY <1>10, <1>11 DEF rules, created, stored

-----------------------------------------------------------------------------
(***************************************************************************)
(* Who reaches the camera, and whom that disturbs.                         *)
(***************************************************************************)

LEMMA HistoryStep ==
    ASSUME TypeOK, NEW r \in Requests, Step(r)
    PROVE  /\ \A x \in Requests \ {r} :
                uses'[x] = uses[x] /\ writes'[x] = writes[x] /\ answer'[x] = answer[x]
           /\ misled \subseteq misled'
           /\ updated \subseteq updated' /\ updated' \subseteq updated \cup {r}
           /\ updated' # updated \/ versions' # versions =>
                /\ CommitPut(r) \/ CommitDelete(r)
                /\ pc[r] = "commit" /\ r \in updated'
<1> USE DEF TypeOK
<1>1. CASE StartPut(r)
  BY <1>1 DEF StartPut, Note, Answer, Proceed
<1>2. CASE FindView(r)
  BY <1>2 DEF FindView, Note, Answer
<1>3. CASE ReadOriginals(r)
  BY <1>3 DEF ReadOriginals, Note
<1>4. CASE CommitPut(r)
  BY <1>4 DEF CommitPut, Answer
<1>5. CASE StartGet(r)
  BY <1>5 DEF StartGet, Answer, Proceed
<1>6. CASE ReadForGet(r)
  BY <1>6 DEF ReadForGet, Answer
<1>7. CASE StartDelete(r)
  BY <1>7 DEF StartDelete, Answer, Proceed
<1>8. CASE ReadForDelete(r)
  BY <1>8 DEF ReadForDelete
<1>9. CASE CommitDelete(r)
  BY <1>9 DEF CommitDelete, Answer
<1>10. CASE Fail(r)
  BY <1>10 DEF Fail, Answer
<1>11. QED
  BY <1>1, <1>2, <1>3, <1>4, <1>5, <1>6, <1>7, <1>8, <1>9, <1>10 DEF Step

LEMMA UpdatedDoneStep ==
    ASSUME TypeOK, Unanswered, UpdatedDone, NEW r \in Requests, Step(r)
    PROVE  UpdatedDone'
<1>1. ASSUME NEW q \in updated PROVE pc'[q] = "done"
  BY StepOfOne DEF UpdatedDone, TypeOK
<1>2. CASE updated' = updated
  BY <1>1, <1>2 DEF UpdatedDone
<1>3. CASE updated' # updated
  <2>1. pc'[r] = "done"
    BY <1>3, HistoryStep, StepOfOne
  <2>2. QED
    BY <1>1, <2>1, HistoryStep DEF UpdatedDone
<1>4. QED
  BY <1>2, <1>3

\* Requests that have arrived stay in the order in which they came.
LEMMA OrderStays ==
    ASSUME TypeOK, Unanswered, NEW r \in Requests, Step(r),
           NEW a \in Authors, NEW b \in Authors,
           a \in Requests => pc[a] # "idle", b \in Requests => pc[b] # "idle"
    PROVE  /\ Before(a, b)' <=> Before(a, b)
           /\ Overlap(a, b)' <=> Overlap(a, b)
<1>1. a \in Requests => seen'[a] = seen[a]
  BY StepOfOne
<1>2. b \in Requests => seen'[b] = seen[b]
  BY StepOfOne
<1>3. QED
  BY <1>1, <1>2 DEF Before, Overlap, Authors

\* A request that commits comes before nobody who is there.
LEMMA CommitsLate ==
    ASSUME TypeOK, SeenDone, Unanswered, NEW r \in Requests, Step(r), pc[r] = "commit",
           NEW q \in Authors, q # r, q \in Requests => pc[q] # "idle"
    PROVE  ~Before(r, q) /\ ~Before(r, q)'
<1>1. ~Before(r, q)
  BY RulesAssumption DEF Before, SeenDone
<1>2. QED
  BY <1>1, OrderStays DEF Authors

\* Who is undisturbed after a step was so before it, and if it was somebody
\* else's step, the writer has what it had.
LEMMA UndisturbedBefore ==
    ASSUME TypeOK, SeenDone, Unanswered, UpdatedDone, NEW r \in Requests, Step(r),
           NEW q \in Requests, pc[q] # "idle", Undisturbed(q)'
    PROVE  /\ Undisturbed(q)
           /\ q # r /\ pc[q] # "done" => versions' = versions
<1>1. q \notin misled
  BY HistoryStep DEF Undisturbed
<1>2. ASSUME NEW x \in updated PROVE ~Overlap(x, q)
  <2>1. x \in Requests /\ pc[x] # "idle" /\ x \in updated'
    BY HistoryStep DEF UpdatedDone, TypeOK
  <2>2. ~Overlap(x, q)'
    BY <2>1 DEF Undisturbed
  <2>3. QED
    BY <2>1, <2>2, OrderStays DEF Authors
<1>3. ASSUME q # r, pc[q] # "done" PROVE versions' = versions
  <2> SUFFICES ASSUME versions' # versions PROVE FALSE
    OBVIOUS
  <2>1. pc[r] = "commit" /\ r \in updated'
    BY HistoryStep
  <2>2. ~Before(r, q)'
    BY <1>3, <2>1, CommitsLate DEF Authors
  <2>3. ~Before(q, r)
    BY <1>3, RulesAssumption DEF Before, SeenDone
  <2>4. ~Before(q, r)'
    BY <2>1, <2>3, OrderStays DEF Authors
  <2>5. Overlap(r, q)'
    BY <1>3, <2>2, <2>4 DEF Overlap
  <2>6. QED
    BY <2>1, <2>5 DEF Undisturbed
<1>4. QED
  BY <1>1, <1>2, <1>3 DEF Undisturbed

\* Rules of those who had finished before q arrived are not created any more.
LEMMA EarlierRules ==
    ASSUME TypeOK, RulesOriginate, SeenDone, Unanswered, NEW r \in Requests, Step(r),
           NEW q \in Requests, pc[q] # "idle", NEW x \in Master'.rules,
           Before(x.id[1], q)'
    PROVE  x \in Master.rules /\ Before(x.id[1], q)
<1>1. seen'[q] = seen[q]
  BY StepOfOne
<1>2. Before(x.id[1], q)
  BY <1>1 DEF Before
<1>3. x.id[1] # r \/ pc[r] # "commit"
  BY <1>2, RulesAssumption DEF Before, SeenDone
<1>4. QED
  BY <1>2, <1>3, RulesAfterStep

\* How a PUT comes to where it is.
LEMMA PutComes ==
    ASSUME TypeOK, NEW r \in Requests, Step(r), kind'[r] = "put",
           pc'[r] \in {"find", "rules", "commit"}
    PROVE  /\ versions' = versions /\ updated' = updated
           /\ \/ StartPut(r) /\ pc'[r] = "find" /\ pc[r] = "idle" /\ plan' = plan
              \/ /\ FindView(r) /\ pc[r] = "find" /\ kind[r] = "put"
                 /\ pc'[r] = IF uses[r] THEN "rules" ELSE "commit"
                 /\ uses' = uses /\ sent' = sent /\ plan' = plan
                 /\ writes'[r] <=> Replica.status # StatusFor(sent[r], uses[r])
                 /\ r \notin misled' => Replica.status = Master.status
              \/ /\ ReadOriginals(r) /\ pc[r] = "rules" /\ pc'[r] = "commit"
                 /\ kind[r] = "put"
                 /\ uses' = uses /\ sent' = sent /\ writes' = writes
<1> USE DEF TypeOK
<1>1. CASE StartPut(r)
  BY <1>1 DEF StartPut, Arrive, Answer, Proceed, Goto
<1>2. CASE FindView(r)
  BY <1>2 DEF FindView, Answer, Note, Goto
<1>3. CASE ReadOriginals(r)
  BY <1>3 DEF ReadOriginals, Goto
<1>4. ~CommitPut(r) /\ ~CommitDelete(r) /\ ~Fail(r) /\ ~ReadForGet(r)
  BY DEF CommitPut, CommitDelete, Fail, ReadForGet, Answer, Goto
<1>5. ~StartGet(r) /\ ~StartDelete(r)
  BY DEF StartGet, StartDelete, Arrive
<1>6. ~ReadForDelete(r)
  BY DEF ReadForDelete
<1>7. QED
  BY <1>1, <1>2, <1>3, <1>4, <1>5, <1>6 DEF Step

-----------------------------------------------------------------------------
(***************************************************************************)
(* What an undisturbed PUT knows stands until it commits.                  *)
(***************************************************************************)

LEMMA OnlyRowsStep ==
    ASSUME TypeOK, RulesOriginate, IdsIdentify, Unanswered, PlansAreOfReaders,
           OnlyRowsPlanned, NEW r \in Requests, Step(r)
    PROVE  OnlyRowsPlanned'
<1> SUFFICES ASSUME NEW q \in Requests, kind'[q] = "put"
             PROVE  /\ pc'[q] = "rules" => uses'[q]
                    /\ ~uses'[q] => plan'[q] = NoPlan
  BY DEF OnlyRowsPlanned
<1>1. CASE q # r
  BY <1>1, StepOfOne, HistoryStep DEF OnlyRowsPlanned
<1>2. CASE q = r /\ pc'[r] \in {"find", "rules", "commit"}
  <2>1. CASE StartPut(r) /\ pc'[r] = "find" /\ pc[r] = "idle" /\ plan' = plan
    BY <1>2, <2>1 DEF PlansAreOfReaders
  <2>2. CASE /\ FindView(r) /\ pc[r] = "find" /\ plan' = plan
             /\ pc'[r] = IF uses[r] THEN "rules" ELSE "commit"
             /\ uses' = uses
    BY <1>2, <2>2 DEF PlansAreOfReaders
  <2>3. CASE pc[r] = "rules" /\ pc'[r] = "commit" /\ uses' = uses /\ kind[r] = "put"
    BY <1>2, <2>3 DEF OnlyRowsPlanned
  <2>4. QED
    BY <1>2, <2>1, <2>2, <2>3, PutComes
<1>3. CASE q = r /\ pc'[r] \notin {"find", "rules", "commit"}
  <2>1. pc'[r] = "done"
    BY <1>3, StepOfOne, HoldingsStep DEF HoldingsOK
  <2>2. QED
    BY <1>3, <2>1, StepOfOne
<1>4. QED
  BY <1>1, <1>2, <1>3

LEMMA StatusStandsStep ==
    ASSUME TypeOK, SeenDone, Unanswered, UpdatedDone, OnlyRowsPlanned, StatusStands,
           NEW r \in Requests, Step(r)
    PROVE  StatusStands'
<1> SUFFICES ASSUME NEW q \in Requests, kind'[q] = "put", Undisturbed(q)',
                    pc'[q] \in {"find", "rules", "commit"}
             PROVE  /\ Master'.live /\ (uses'[q] <=> Master'.status.store = "rows")
                    /\ pc'[q] \in {"rules", "commit"} =>
                         (writes'[q] <=> Master'.status # StatusFor(sent'[q], uses'[q]))
  BY DEF StatusStands
<1>1. CASE q # r
  <2>1. /\ kind[q] = "put" /\ pc'[q] = pc[q] /\ sent'[q] = sent[q]
        /\ uses'[q] = uses[q] /\ writes'[q] = writes[q]
    BY <1>1, StepOfOne, HistoryStep
  <2>2. Undisturbed(q) /\ versions' = versions
    BY <1>1, <2>1, UndisturbedBefore
  <2>3. QED
    BY <2>1, <2>2 DEF StatusStands, Master
<1>2. CASE q = r
  <2>1. Master' = Master
    BY <1>2, PutComes DEF Master
  <2>2. r \notin misled'
    BY <1>2 DEF Undisturbed
  <2>3. CASE StartPut(r) /\ pc'[r] = "find"
    BY <1>2, <2>1, <2>2, <2>3 DEF StartPut, Note, Answer, Goto, TypeOK
  <2>4. CASE /\ FindView(r) /\ pc[r] = "find" /\ kind[r] = "put"
             /\ pc'[r] = IF uses[r] THEN "rules" ELSE "commit"
             /\ uses' = uses /\ sent' = sent
             /\ writes'[r] <=> Replica.status # StatusFor(sent[r], uses[r])
             /\ r \notin misled' => Replica.status = Master.status
    <3>1. Undisturbed(r)
      BY <1>2, <2>4, UndisturbedBefore
    <3>2. QED
      BY <1>2, <2>1, <2>2, <2>4, <3>1 DEF StatusStands
  <2>5. CASE /\ pc[r] = "rules" /\ pc'[r] = "commit" /\ kind[r] = "put"
             /\ uses' = uses /\ sent' = sent /\ writes' = writes
    <3>1. Undisturbed(r)
      BY <1>2, <2>5, UndisturbedBefore
    <3>2. QED
      BY <1>2, <2>1, <2>5, <3>1 DEF StatusStands
  <2>6. QED
    BY <1>2, <2>3, <2>4, <2>5, PutComes
<1>3. QED
  BY <1>1, <1>2

\* A PUT that was not misled has a plan that fits what the writer has.
LEMMA OriginalsFit ==
    ASSUME TypeOK, RulesOriginate, NEW r \in Requests, ReadOriginals(r), r \notin misled'
    PROVE  Fits(plan'[r], sent'[r], Master'.rules)
<1>1. PICK old \in Readings(Replica.rules) :
        /\ plan' = [plan EXCEPT ![r] = Resolve(old, ToRows(sent[r].rules))]
        /\ Note(r, /\ Replica.rules = Master.rules
                   /\ OneEach([i \in DOMAIN old |-> old[i].row]))
  BY DEF ReadOriginals
<1>2. Replica.rules = Master.rules /\ OneEach([i \in DOMAIN old |-> old[i].row])
  BY <1>1 DEF Note
<1>3. plan'[r] = Resolve(old, ToRows(sent[r].rules))
  BY <1>1 DEF TypeOK
<1>4. sent' = sent /\ Master' = Master
  BY DEF ReadOriginals, Master
<1>5. /\ IsFiniteSet(Master.rules)
      /\ \A x, y \in Master.rules : x.id = y.id => x = y
      /\ \A x \in Master.rules : \E rule \in SentResource : x.row = Store(ToRow(rule))
  <2>1. Len(versions) \in DOMAIN versions
    BY EndsAreCameras
  <2>2. \A x \in Master.rules : \E rule \in SentResource : x.row = Store(ToRow(rule))
    BY <2>1, RulesWereSent DEF Master
  <2>3. QED
    BY <2>1, <2>2 DEF RulesOriginate, TypeOK, Master
<1>6. sent[r].rules \in Seq(SentResource)
  BY DEF TypeOK, SentFeatures
<1>7. Fits(Resolve(old, ToRows(sent[r].rules)), sent[r], Master.rules)
  BY <1>1, <1>2, <1>5, <1>6, ResolveFits
<1>8. QED
  BY <1>3, <1>4, <1>7

LEMMA PlansStandStep ==
    ASSUME TypeOK, RulesOriginate, SeenDone, Unanswered, OnlyPutsFind, UpdatedDone,
           PlansStand, NEW r \in Requests, Step(r)
    PROVE  PlansStand'
<1> SUFFICES ASSUME NEW q \in Requests, pc'[q] = "commit", Undisturbed(q)'
             PROVE  /\ kind'[q] = "put" /\ uses'[q] =>
                         Fits(plan'[q], sent'[q], Master'.rules)
                    /\ kind'[q] = "delete" =>
                         \A x \in Master'.rules : x.id \in plan'[q].toDelete
  BY DEF PlansStand, Fits
<1>1. CASE q # r
  <2>1. /\ kind'[q] = kind[q] /\ pc[q] = "commit" /\ sent'[q] = sent[q]
        /\ uses'[q] = uses[q] /\ plan'[q] = plan[q]
    BY <1>1, StepOfOne, HistoryStep
  <2>2. Undisturbed(q) /\ versions' = versions
    BY <1>1, <2>1, UndisturbedBefore
  <2>3. QED
    BY <2>1, <2>2 DEF PlansStand, Master
<1>2. CASE q = r
  <2>1. CASE kind'[r] = "put" /\ uses'[r]
    <3>1. ReadOriginals(r)
      BY <1>2, <2>1, PutComes
    <3>2. r \notin misled'
      BY <1>2 DEF Undisturbed
    <3>3. QED
      BY <1>2, <2>1, <3>1, <3>2, OriginalsFit
  <2>2. CASE kind'[r] = "delete"
    <3>1. pc[r] # "commit" /\ pc[r] # "idle" /\ kind[r] = "delete"
      BY <1>2, <2>2, StepOfOne
    <3>2. pc[r] # "find"
      BY <3>1 DEF OnlyPutsFind
    <3>3. plan'[r] = [plan[r] EXCEPT !.toDelete = {y.id : y \in Master.rules}]
      BY <1>2, <3>1, <3>2, NewPlan
    <3>4. Master' = Master
      BY <3>1, HistoryStep DEF Master
    <3>5. QED
      BY <1>2, <2>2, <3>3, <3>4 DEF TypeOK
  <2>3. QED
    BY <1>2, <2>1, <2>2
<1>3. QED
  BY <1>1, <1>2

LEMMA PlansReplaceStep ==
    ASSUME TypeOK, RulesOriginate, IdsIdentify, SeenDone, Unanswered, PlansAreOfReaders,
           OnlyRowsPlanned, PlansReplace, NEW r \in Requests, Step(r)
    PROVE  PlansReplace'
<1> SUFFICES ASSUME NEW q \in Requests \ misled', pc'[q] = "commit", kind'[q] = "put",
                    NEW x \in Master'.rules, NEW j \in plan'[q].toAdd,
                    Before(x.id[1], q)',
                    sent'[q].rules[j].integratorId = x.row.integratorId
             PROVE  x.id \in plan'[q].toDelete
  BY DEF PlansReplace, Before
<1>1. CASE q # r
  <2>1. /\ kind[q] = "put" /\ pc[q] = "commit" /\ sent'[q] = sent[q]
        /\ plan'[q] = plan[q] /\ q \notin misled
    BY <1>1, StepOfOne, HistoryStep
  <2>2. x \in Master.rules /\ Before(x.id[1], q)
    BY <2>1, EarlierRules
  <2>3. QED
    BY <2>1, <2>2 DEF PlansReplace
<1>2. CASE q = r
  <2>1. plan'[r] # NoPlan
    BY <1>2, NoPlanType
  <2>2. uses'[r]
    BY <1>2, <2>1, OnlyRowsStep DEF OnlyRowsPlanned
  <2>3. ReadOriginals(r)
    BY <1>2, <2>2, PutComes
  <2>4. Fits(plan'[r], sent'[r], Master'.rules)
    BY <1>2, <2>3, OriginalsFit
  <2>5. QED
    BY <1>2, <2>4 DEF Fits
<1>3. QED
  BY <1>1, <1>2

\* What the two commits write of the camera.
LEMMA CommittedStatus ==
    ASSUME TypeOK, RulesOriginate, NEW r \in Requests, CommitPut(r) \/ CommitDelete(r)
    PROVE  /\ \E row \in Camera :
                /\ versions' = Append(versions, row)
                /\ row.status \in {Master.status, StatusFor(sent[r], uses[r])}
           /\ CommitPut(r) =>
                /\ Master'.live = Master.live
                /\ Master'.status = IF Master.live /\ writes[r]
                                    THEN StatusFor(sent[r], uses[r]) ELSE Master.status
                /\ Master'.rules = UpdatedRules(r)
           /\ CommitDelete(r) => ~Master'.live /\ Master'.rules = Remaining(r)
<1>1. Master \in Camera /\ StatusFor(sent[r], uses[r]) \in Status
  BY EndsAreCameras, StatusType DEF TypeOK
<1>2. PICK row \in Camera :
        /\ CommitDelete(r) => row.rules = Remaining(r)
        /\ CommitPut(r) => row.rules = UpdatedRules(r)
  BY Committed
<1>3. CASE CommitPut(r)
  <2> DEFINE put == [Master EXCEPT
                       !.status = IF Master.live /\ writes[r]
                                  THEN StatusFor(sent[r], uses[r]) ELSE @,
                       !.rules = UpdatedRules(r)]
  <2>1. UpdatedRules(r) \in SUBSET Rules
    BY <1>2, <1>3 DEF Camera
  <2>2. versions' = Append(versions, put)
    BY <1>3 DEF CommitPut
  <2>3. /\ put.live = Master.live
        /\ put.status = IF Master.live /\ writes[r]
                        THEN StatusFor(sent[r], uses[r]) ELSE Master.status
        /\ put.rules = UpdatedRules(r)
    BY <1>1 DEF Camera
  <2>4. put \in Camera
    BY <1>1, <2>1 DEF Camera
  <2> HIDE DEF put
  <2>5. Master' = put
    BY <2>2, <2>4, CommitVersion DEF TypeOK, Master
  <2>6. ~CommitDelete(r)
    BY <1>3 DEF CommitPut, CommitDelete
  <2>7. QED
    BY <2>2, <2>3, <2>4, <2>5, <2>6
<1>4. CASE CommitDelete(r)
  <2> DEFINE deleted == [Master EXCEPT !.live = FALSE, !.rules = Remaining(r)]
  <2>1. Remaining(r) \in SUBSET Rules
    BY <1>2, <1>4 DEF Camera
  <2>2. versions' = Append(versions, deleted)
    BY <1>4 DEF CommitDelete
  <2>3. /\ deleted.live = FALSE /\ deleted.status = Master.status
        /\ deleted.rules = Remaining(r)
    BY <1>1 DEF Camera
  <2>4. deleted \in Camera
    BY <1>1, <2>1 DEF Camera
  <2> HIDE DEF deleted
  <2>5. Master' = deleted
    BY <2>2, <2>4, CommitVersion DEF TypeOK, Master
  <2>6. ~CommitPut(r)
    BY <1>4 DEF CommitPut, CommitDelete
  <2>7. QED
    BY <2>2, <2>3, <2>4, <2>5, <2>6
<1>5. QED
  BY <1>3, <1>4

\* Off has no rules: clients send none with features that are off.
LEMMA OffStep ==
    ASSUME TypeOK, RulesOriginate, OffHasNoRules, NEW r \in Requests, Step(r)
    PROVE  OffHasNoRules'
<1>1. ASSUME NEW f \in Sendable, ~f.enabled PROVE DOMAIN f.rules = {}
  <2>1. CASE f \in Features
    <3>1. f.rules = <<>>
      BY <1>1, <2>1, RulesAssumption
    <3>2. QED
      BY <3>1
  <2>2. CASE \E g \in Requests : f = PutBackOf(answer[g])
    <3>1. PICK g \in Requests : f = PutBackOf(answer[g])
      BY <2>2
    <3>2. f = [enabled |-> answer[g].enabled,
               rules |-> [i \in DOMAIN answer[g].rules |-> PutBack(answer[g].rules[i])]]
      BY <3>1 DEF PutBackOf, TypeOK, AnsweredFeatures
    <3>3. ~answer[g].enabled
      BY <1>1, <3>2
    <3>4. DOMAIN answer[g].rules = {}
      BY <3>3 DEF OffHasNoRules
    <3>5. QED
      BY <3>2, <3>4
  <2>3. QED
    BY <2>1, <2>2 DEF Sendable, Finished
<1>2. ASSUME NEW q \in Requests, ~sent'[q].enabled PROVE DOMAIN sent'[q].rules = {}
  <2>1. CASE sent' = sent
    BY <1>2, <2>1 DEF OffHasNoRules
  <2>2. CASE StartPut(r)
    <3>1. PICK f \in Sendable : sent' = [sent EXCEPT ![r] = f]
      BY <2>2 DEF StartPut
    <3>2. CASE q = r
      BY <1>1, <1>2, <3>1, <3>2 DEF TypeOK
    <3>3. CASE q # r
      BY <1>2, <3>1, <3>3 DEF TypeOK, OffHasNoRules
    <3>4. QED
      BY <3>2, <3>3
  <2>3. QED
    BY <2>1, <2>2 DEF Step, FindView, ReadOriginals, CommitPut, StartGet, ReadForGet,
       StartDelete, ReadForDelete, CommitDelete, Fail
<1>3. ASSUME NEW reading PROVE FeaturesOf(InRows, reading).enabled
  BY DEF FeaturesOf, InRows
<1>4. ~FeaturesOf(Replica.status, <<>>).enabled =>
        DOMAIN FeaturesOf(Replica.status, <<>>).rules = {}
  BY EndsAreCameras DEF FeaturesOf, OffHasNoRules, Replica
<1>5. ASSUME NEW q \in Requests, ~answer'[q].enabled PROVE DOMAIN answer'[q].rules = {}
  <2>1. CASE answer'[q] = answer[q]
    BY <1>5, <2>1 DEF OffHasNoRules
  <2>2. CASE answer'[q] # answer[q]
    <3>1. q = r
      BY <2>2, HistoryStep
    <3>2. StartGet(r) \/ ReadForGet(r)
      BY <2>2 DEF Step, StartPut, FindView, ReadOriginals, CommitPut, StartDelete,
         ReadForDelete, CommitDelete, Fail
    <3>3. \/ answer'[r] = FeaturesOf(Replica.status, <<>>)
          \/ \E reading \in Readings(Replica.rules) : answer'[r] = FeaturesOf(InRows, reading)
      BY <2>2, <3>1, <3>2 DEF StartGet, ReadForGet, TypeOK
    <3>4. QED
      BY <1>3, <1>4, <1>5, <3>1, <3>3
  <2>3. QED
    BY <2>1, <2>2
<1>6. ASSUME NEW i \in DOMAIN versions', versions'[i].status.store = "off"
      PROVE  DOMAIN versions'[i].status.rules = {}
  <2>1. CASE versions' = versions
    BY <1>6, <2>1 DEF OffHasNoRules
  <2>2. CASE CommitPut(r) \/ CommitDelete(r)
    <3>1. PICK row \in Camera :
            /\ versions' = Append(versions, row)
            /\ row.status \in {Master.status, StatusFor(sent[r], uses[r])}
      BY <2>2, CommittedStatus
    <3>2. versions \in Seq(Camera)
      BY DEF TypeOK
    <3>3. versions'[i] = row \/ (i \in DOMAIN versions /\ versions'[i] = versions[i])
      BY <3>1, <3>2, VersionsAfterCommit
    <3>4. Master.status.store = "off" => DOMAIN Master.status.rules = {}
      BY EndsAreCameras DEF OffHasNoRules, Master
    <3>5. StatusFor(sent[r], uses[r]).store = "off" =>
            DOMAIN StatusFor(sent[r], uses[r]).rules = {}
      BY DEF StatusFor, Off, InRows, InStatus
    <3>6. QED
      BY <1>6, <3>1, <3>3, <3>4, <3>5 DEF OffHasNoRules
  <2>3. QED
    BY <2>1, <2>2, Writes
<1>7. QED
  BY <1>2, <1>5, <1>6 DEF OffHasNoRules

-----------------------------------------------------------------------------
(***************************************************************************)
(* The three properties.                                                   *)
(***************************************************************************)

\* An undisturbed PUT commits: the status is the one for what was sent, and the
\* plan fits the rules.
LEMMA UndisturbedPut ==
    ASSUME TypeOK, RulesOriginate, OnlyRowsPlanned, StatusStands, PlansStand,
           NEW r \in Requests, CommitPut(r), Undisturbed(r)
    PROVE  /\ Master'.status = StatusFor(sent[r], uses[r])
           /\ Master'.rules = UpdatedRules(r)
           /\ uses[r] => Fits(plan[r], sent[r], Master.rules)
           /\ ~uses[r] => plan[r] = NoPlan /\ Master.status.store # "rows"
<1>1. pc[r] = "commit" /\ kind[r] = "put"
  BY DEF CommitPut
<1>2. /\ Master.live /\ (uses[r] <=> Master.status.store = "rows")
      /\ writes[r] <=> Master.status # StatusFor(sent[r], uses[r])
  BY <1>1 DEF StatusStands
<1>3. /\ uses[r] => Fits(plan[r], sent[r], Master.rules)
      /\ ~uses[r] => plan[r] = NoPlan
  BY <1>1 DEF PlansStand, OnlyRowsPlanned
<1>4. QED
  BY <1>2, <1>3, CommittedStatus

\* Nothing sent, nothing left.
LEMMA NothingLeft ==
    ASSUME TypeOK, NEW r \in Requests,
           \/ plan[r] = NoPlan /\ Master.rules = {}
           \/ DOMAIN sent[r].rules = {} /\ Fits(plan[r], sent[r], Master.rules)
    PROVE  UpdatedRules(r) = {}
<1>1. plan[r].toAdd = {}
  BY NoPlanType DEF TypeOK
<1>2. Created(r, sent[r].rules, plan[r].toAdd) = {}
  BY <1>1 DEF Created
<1>3. Remaining(r) = {}
  BY DEF Remaining, Fits
<1>4. QED
  BY <1>2, <1>3 DEF UpdatedRules

RowsExplained == \E r \in updated : r \in misled \/ \E q \in updated : Overlap(q, r)

LEMMA RowsStep ==
    ASSUME TypeOK, RulesOriginate, Unanswered, UpdatedDone, OffHasNoRules,
           OnlyRowsPlanned, StatusStands, PlansStand, RowsOnlyWhileUsed,
           NEW r \in Requests, Step(r)
    PROVE  RowsOnlyWhileUsed'
<1> SUFFICES ASSUME Master'.status.store # "rows", Master'.rules # {}, ~RowsExplained'
             PROVE  FALSE
  BY DEF RowsOnlyWhileUsed, RowsExplained
<1>1. \A x, q \in updated : Overlap(q, x)' <=> Overlap(q, x)
  <2>1. \A x \in updated : x \in Requests /\ x \in Authors /\ pc[x] # "idle"
    BY DEF UpdatedDone, TypeOK, Authors
  <2>2. QED
    BY <2>1, OrderStays
<1>2. ~RowsExplained
  BY <1>1, HistoryStep DEF RowsExplained
<1>3. Master.status.store = "rows" \/ Master.rules = {}
  BY <1>2 DEF RowsOnlyWhileUsed, RowsExplained
<1>4. CASE versions' = versions
  BY <1>3, <1>4 DEF Master
<1>5. CASE CommitPut(r) \/ CommitDelete(r)
  <2>1. pc[r] = "commit" /\ r \in updated'
    BY <1>5 DEF CommitPut, CommitDelete
  <2>2. Undisturbed(r)
    <3>1. r \notin misled
      BY <2>1, HistoryStep DEF RowsExplained
    <3>2. ASSUME NEW q \in updated PROVE ~Overlap(q, r)
      <4>1. q \in Authors /\ q \in updated' /\ pc[q] # "idle" /\ r \in Authors
        BY HistoryStep DEF UpdatedDone, TypeOK, Authors
      <4>2. ~Overlap(q, r)'
        BY <2>1, <4>1 DEF RowsExplained
      <4>3. QED
        BY <2>1, <4>1, <4>2, OrderStays
    <3>3. QED
      BY <3>1, <3>2 DEF Undisturbed
  <2>3. CASE CommitDelete(r)
    <3>1. kind[r] = "delete" /\ Master'.rules = Remaining(r)
      BY <2>3, CommittedStatus DEF CommitDelete
    <3>2. \A x \in Master.rules : x.id \in plan[r].toDelete
      BY <2>1, <2>2, <3>1 DEF PlansStand
    <3>3. QED
      BY <3>1, <3>2 DEF Remaining
  <2>4. CASE CommitPut(r)
    <3>1. /\ Master'.status = StatusFor(sent[r], uses[r])
          /\ Master'.rules = UpdatedRules(r)
          /\ uses[r] => Fits(plan[r], sent[r], Master.rules)
          /\ ~uses[r] => plan[r] = NoPlan /\ Master.status.store # "rows"
      BY <2>2, <2>4, UndisturbedPut
    <3>2. CASE uses[r]
      <4>1. ~sent[r].enabled
        BY <3>1, <3>2 DEF StatusFor, InRows
      <4>2. DOMAIN sent[r].rules = {}
        BY <4>1 DEF OffHasNoRules
      <4>3. QED
        BY <3>1, <3>2, <4>2, NothingLeft
    <3>3. CASE ~uses[r]
      BY <1>3, <3>1, <3>3, NothingLeft
    <3>4. QED
      BY <3>2, <3>3
  <2>5. QED
    BY <1>5, <2>3, <2>4
<1>6. QED
  BY <1>4, <1>5, Writes

\* The disjuncts for a and b in DuplicatesExplained.
Explained(a, b) ==
    \/ Overlap(a, b)
    \/ Before(a, b) /\ b \in misled
    \/ Before(b, a) /\ a \in misled

\* A rule that stays has an author who had arrived.
LEMMA AuthorsArrived ==
    ASSUME TypeOK, RulesOriginate, NEW x \in Master.rules
    PROVE  /\ x.id[1] \in Authors
           /\ x.id[1] \in Requests => pc[x.id[1]] = "done"
<1>1. Origin(x)
  BY EndsAreCameras DEF RulesOriginate, Master
<1>2. QED
  BY <1>1, RulesAssumption DEF Origin, Authors

\* What a request is about to create is its own.
LEMMA CreatedOf ==
    ASSUME TypeOK, NEW r \in Requests,
           NEW z \in Created(r, sent[r].rules, plan[r].toAdd)
    PROVE  /\ z.id[1] = r /\ z.id[2] \in plan[r].toAdd
           /\ z.row.integratorId = sent[r].rules[z.id[2]].integratorId
<1>1. /\ r \in Authors /\ sent[r].rules \in Seq(SentResource)
      /\ plan[r].toAdd \in SUBSET DOMAIN sent[r].rules
  BY DEF TypeOK, SentFeatures, Authors
<1>2. QED
  BY <1>1, CreatedProperties

LEMMA DuplicatesStep ==
    ASSUME TypeOK, RulesOriginate, SeenDone, Unanswered, PlansReplace,
           DuplicatesExplained, NEW r \in Requests, Step(r)
    PROVE  DuplicatesExplained'
<1>1. \* A rule that was there and one that r creates.
      ASSUME NEW x \in Master'.rules, NEW y \in Master'.rules, x \in Master.rules,
             y \notin Master.rules, x.id[1] # y.id[1],
             x.row.integratorId = y.row.integratorId
      PROVE  Explained(x.id[1], y.id[1])' /\ Explained(y.id[1], x.id[1])'
  <2> DEFINE a == x.id[1]
  <2>1. /\ CommitPut(r) /\ pc[r] = "commit" /\ y.id[1] = r
        /\ y \in Created(r, sent[r].rules, plan[r].toAdd)
    BY <1>1, RulesAfterStep
  <2>2. /\ y.id[2] \in plan[r].toAdd
        /\ y.row.integratorId = sent[r].rules[y.id[2]].integratorId
    BY <2>1, CreatedOf
  <2>3. x.id \notin plan[r].toDelete
    <3>1. x \in UpdatedRules(r)
      BY <2>1, CommittedStatus
    <3>2. x \notin Created(r, sent[r].rules, plan[r].toAdd)
      BY <1>1, <2>1, CreatedOf
    <3>3. QED
      BY <3>1, <3>2 DEF UpdatedRules, Remaining
  <2>4. Before(a, r) => r \in misled
    BY <1>1, <2>1, <2>2, <2>3 DEF PlansReplace, CommitPut
  <2>5. a \in Authors /\ (a \in Requests => pc[a] = "done") /\ a # r
    BY <1>1, <2>1, AuthorsArrived
  <2>6. ~Before(r, a)
    BY <2>1, <2>5, CommitsLate
  <2> HIDE DEF a
  <2>7. Overlap(a, r) \/ (Before(a, r) /\ r \in misled)
    BY <2>4, <2>5, <2>6 DEF Overlap
  <2>8. r \in misled => r \in misled'
    BY HistoryStep
  <2>9. /\ Overlap(a, r)' <=> Overlap(a, r)
        /\ Before(a, r)' <=> Before(a, r)
        /\ Overlap(r, a)' <=> Overlap(r, a)
    BY <2>1, <2>5, OrderStays DEF Authors
  <2>10. Overlap(a, r) => Overlap(r, a)
    BY DEF Overlap
  <2>11. Explained(a, r)' /\ Explained(r, a)'
    BY <2>7, <2>8, <2>9, <2>10 DEF Explained
  <2>12. QED
    BY <2>1, <2>11 DEF a
<1>2. \* Two rules that were there.
      ASSUME NEW x \in Master.rules, NEW y \in Master.rules, x.id[1] # y.id[1],
             x.row.integratorId = y.row.integratorId
      PROVE  Explained(x.id[1], y.id[1])'
  <2> DEFINE a == x.id[1]
             b == y.id[1]
  <2>1. /\ a \in Authors /\ (a \in Requests => pc[a] = "done")
        /\ b \in Authors /\ (b \in Requests => pc[b] = "done")
    BY AuthorsArrived
  <2>2. Explained(a, b)
    BY <1>2 DEF DuplicatesExplained, Explained
  <2> HIDE DEF a, b
  <2>3. /\ Overlap(a, b)' <=> Overlap(a, b)
        /\ Before(a, b)' <=> Before(a, b)
        /\ Before(b, a)' <=> Before(b, a)
    BY <2>1, OrderStays
  <2>4. misled \subseteq misled'
    BY HistoryStep
  <2>5. Explained(a, b)'
    BY <2>2, <2>3, <2>4 DEF Explained
  <2>6. QED
    BY <2>5 DEF a, b
<1> SUFFICES ASSUME NEW x \in Master'.rules, NEW y \in Master'.rules,
                    x.id[1] # y.id[1], x.row.integratorId = y.row.integratorId
             PROVE  Explained(x.id[1], y.id[1])'
  BY DEF DuplicatesExplained, Explained
<1>3. x \in Master.rules \/ y \in Master.rules
  BY RulesAfterStep
<1>4. QED
  BY <1>1, <1>2, <1>3

LEMMA AppliedStep ==
    ASSUME TypeOK, RulesOriginate, SeenDone, Unanswered, UpdatedDone,
           OnlyRowsPlanned, StatusStands, PlansStand, PutApplied,
           NEW r \in Requests, Step(r)
    PROVE  PutApplied'
<1> SUFFICES ASSUME Master'.live, NEW q \in updated' \ misled', kind'[q] = "put",
                    OneEach(sent'[q].rules)
             PROVE  \/ Has(Master', sent'[q])
                    \/ \E x \in updated' \ {q} : ~Before(x, q)'
  BY DEF PutApplied, Has
<1>1. CASE q \in updated
  <2>1. q \in Requests /\ pc[q] = "done" /\ q \in Authors
    BY <1>1 DEF UpdatedDone, TypeOK, Authors
  <2>2. q # r /\ kind'[q] = kind[q] /\ sent'[q] = sent[q]
    BY <2>1, StepOfOne
  <2>3. CASE versions' = versions
    <3>1. Master' = Master /\ q \notin misled
      BY <2>3, HistoryStep DEF Master
    <3>2. CASE \E x \in updated \ {q} : ~Before(x, q)
      <4>1. PICK x \in updated \ {q} : ~Before(x, q)
        BY <3>2
      <4>2. x \in Authors /\ pc[x] # "idle" /\ x \in updated'
        BY HistoryStep DEF UpdatedDone, TypeOK, Authors
      <4>3. ~Before(x, q)'
        BY <2>1, <4>1, <4>2, OrderStays
      <4>4. QED
        BY <4>2, <4>3
    <3>3. CASE ~\E x \in updated \ {q} : ~Before(x, q)
      BY <1>1, <2>2, <3>1, <3>3 DEF PutApplied
    <3>4. QED
      BY <3>2, <3>3
  <2>4. CASE versions' # versions
    <3>1. pc[r] = "commit" /\ r \in updated'
      BY <2>4, HistoryStep
    <3>2. ~Before(r, q)'
      BY <2>1, <2>2, <3>1, CommitsLate
    <3>3. QED
      BY <2>2, <3>1, <3>2
  <2>5. QED
    BY <2>3, <2>4
<1>2. CASE q \notin updated
  <2>1. q = r /\ pc[r] = "commit" /\ (CommitPut(r) \/ CommitDelete(r))
    BY <1>2, HistoryStep
  <2>2. kind'[r] = kind[r] /\ sent'[r] = sent[r] /\ r \notin misled
    BY <2>1, StepOfOne, HistoryStep
  <2>3. CommitPut(r)
    BY <2>1, <2>2 DEF CommitDelete
  <2>4. CASE Undisturbed(r)
    <3> DEFINE f == sent[r]
               left == {x \in Master.rules : x.id \notin plan[r].toDelete}
                         \cup Created(r, f.rules, plan[r].toAdd)
    <3>1. /\ Master'.status = StatusFor(f, uses[r])
          /\ Master'.rules = UpdatedRules(r)
          /\ uses[r] => Fits(plan[r], f, Master.rules)
      BY <2>3, <2>4, UndisturbedPut
    <3>2. CASE ~f.enabled
      BY <2>1, <2>2, <3>1, <3>2 DEF Has, StatusFor, Off
    <3>3. CASE f.enabled /\ ~uses[r]
      BY <2>1, <2>2, <3>1, <3>3 DEF Has, StatusFor
    <3>4. CASE f.enabled /\ uses[r]
      <4>1. /\ f.rules \in Seq(SentResource)
            /\ plan[r].toAdd \in SUBSET DOMAIN f.rules
            /\ OneEach(f.rules)
            /\ Fits(plan[r], f, Master.rules)
        BY <2>1, <2>2, <3>1, <3>4 DEF TypeOK, SentFeatures
      <4> HIDE DEF f
      <4>2. /\ {x.row : x \in left} = {Store(ToRow(f.rules[i])) : i \in DOMAIN f.rules}
            /\ Cardinality(left) = Len(f.rules)
        BY <4>1, FittedRules, Zenon
      <4>3. Master'.rules = left
        BY <3>1 DEF UpdatedRules, Remaining, f
      <4>4. Master'.status.store = "rows"
        BY <3>1, <3>4 DEF StatusFor, InRows
      <4> HIDE DEF left
      <4>5. /\ {x.row : x \in Master'.rules} =
                 {Store(ToRow(f.rules[i])) : i \in DOMAIN f.rules}
            /\ Cardinality(Master'.rules) = Len(f.rules)
        BY <4>2, <4>3
      <4>6. Has(Master', f)
        BY <3>4, <4>4, <4>5 DEF Has
      <4>7. QED
        BY <2>1, <2>2, <4>6 DEF f
    <3>5. QED
      BY <3>2, <3>3, <3>4
  <2>5. CASE ~Undisturbed(r)
    <3>1. PICK x \in updated : Overlap(x, r)
      BY <2>2, <2>5 DEF Undisturbed
    <3>2. x \in Authors /\ pc[x] # "idle" /\ x \in updated' /\ x # r /\ ~Before(x, r)
      BY <3>1, HistoryStep DEF UpdatedDone, TypeOK, Authors, Overlap
    <3>3. ~Before(x, r)'
      BY <2>1, <3>2, OrderStays DEF Authors
    <3>4. QED
      BY <2>1, <3>2, <3>3
  <2>6. QED
    BY <2>4, <2>5
<1>3. QED
  BY <1>1, <1>2

-----------------------------------------------------------------------------
(***************************************************************************)
(* The invariant is inductive.                                             *)
(***************************************************************************)

LEMMA InitUpdateInv == Init => UpdateInv
<1> SUFFICES ASSUME Init PROVE UpdateInv
  OBVIOUS
<1>1. PICK f \in Features, uses0 \in BOOLEAN :
        LET created == [live |-> TRUE,
                        status |-> StatusFor(f, uses0),
                        rules |-> IF uses0
                                  THEN Created(Earlier, f.rules, DOMAIN f.rules)
                                  ELSE {}]
            before == [live |-> FALSE, status |-> Off, rules |-> {}]
        IN  versions \in {<<created>>} \cup (IF uses0 THEN {<<before, created>>} ELSE {})
  BY DEF Init
<1> DEFINE created == [live |-> TRUE, status |-> StatusFor(f, uses0),
                       rules |-> IF uses0
                                 THEN Created(Earlier, f.rules, DOMAIN f.rules)
                                 ELSE {}]
           before == [live |-> FALSE, status |-> Off, rules |-> {}]
<1>2. DOMAIN <<>> = {}
  OBVIOUS
<1>3. ~f.enabled => DOMAIN f.rules = {}
  BY <1>2, RulesAssumption
<1>4. /\ created.status.store = "off" => DOMAIN created.status.rules = {}
      /\ before.status.store = "off" => DOMAIN before.status.rules = {}
  BY <1>2 DEF StatusFor, Off, InRows, InStatus
<1>5. created.status.store # "rows" => created.rules = {}
  <2>1. CASE f.enabled
    BY <2>1 DEF StatusFor, InRows
  <2>2. CASE ~f.enabled
    BY <1>3, <2>2 DEF Created
  <2>3. QED
    BY <2>1, <2>2
<1>6. \A x \in created.rules : x.id[1] = Earlier
  BY DEF Created, Rule
<1> HIDE DEF created, before
<1>7. versions = <<created>> \/ versions = <<before, created>>
  BY <1>1 DEF created, before
<1>8. Master = created /\ \A i \in DOMAIN versions : versions[i] \in {created, before}
  BY <1>7 DEF Master
<1>9. OffHasNoRules
  BY <1>2, <1>4, <1>8 DEF OffHasNoRules, Init, Nothing
<1>10. RowsOnlyWhileUsed /\ DuplicatesExplained
  BY <1>5, <1>6, <1>8 DEF RowsOnlyWhileUsed, DuplicatesExplained
<1>11. UpdatedDone /\ PutApplied
  BY DEF Init, UpdatedDone, PutApplied
<1>12. OnlyRowsPlanned /\ StatusStands /\ PlansStand /\ PlansReplace
  BY DEF Init, OnlyRowsPlanned, StatusStands, PlansStand, PlansReplace
<1>13. QED
  BY <1>9, <1>10, <1>11, <1>12 DEF UpdateInv

\* Replication, and nothing at all, leave everything but the versions before the
\* last as it was.
LEMMA UpdateInvStays ==
    ASSUME UpdateInv, Master' = Master,
           \A i \in DOMAIN versions' : \E j \in DOMAIN versions : versions'[i] = versions[j],
           UNCHANGED <<kind, pc, sent, uses, writes, plan, reply, answer, seen,
                       updated, misled>>
    PROVE  UpdateInv'
<1>1. OffHasNoRules'
  BY DEF UpdateInv, OffHasNoRules
<1>2. UpdatedDone' /\ OnlyRowsPlanned'
  BY DEF UpdateInv, UpdatedDone, OnlyRowsPlanned
<1>3. StatusStands'
  BY DEF UpdateInv, StatusStands, Undisturbed, Overlap, Before
<1>4. PlansStand'
  BY DEF UpdateInv, PlansStand, Fits, Undisturbed, Overlap, Before
<1>5. PlansReplace'
  BY DEF UpdateInv, PlansReplace, Before
<1>6. RowsOnlyWhileUsed'
  BY DEF UpdateInv, RowsOnlyWhileUsed, Overlap, Before
<1>7. DuplicatesExplained'
  BY DEF UpdateInv, DuplicatesExplained, Overlap, Before
<1>8. PutApplied'
  <2> SUFFICES ASSUME Master'.live, NEW q \in updated' \ misled', kind'[q] = "put",
                      OneEach(sent'[q].rules)
               PROVE  \/ Has(Master', sent'[q])
                      \/ \E x \in updated' \ {q} : ~Before(x, q)'
    BY DEF PutApplied, Has
  <2>1. Has(Master, sent[q]) \/ \E x \in updated \ {q} : ~Before(x, q)
    BY DEF UpdateInv, PutApplied
  <2>2. \A x : Before(x, q)' <=> Before(x, q)
    BY DEF Before
  <2>3. QED
    BY <2>1, <2>2
<1>9. QED
  BY <1>1, <1>2, <1>3, <1>4, <1>5, <1>6, <1>7, <1>8 DEF UpdateInv

LEMMA NextUpdateInv == IInv /\ UpdateInv /\ [Next]_vars => UpdateInv'
<1> SUFFICES ASSUME IInv, UpdateInv, [Next]_vars PROVE UpdateInv'
  OBVIOUS
<1>1. CASE UNCHANGED vars
  <2>1. versions' = versions /\ Master' = Master
    BY <1>1 DEF vars, Master
  <2>2. UNCHANGED <<kind, pc, sent, uses, writes, plan, reply, answer, seen,
                    updated, misled>>
    BY <1>1 DEF vars
  <2>3. QED
    BY <2>1, <2>2, UpdateInvStays
<1>2. CASE Replicate
  <2>1. /\ Master' = Master
        /\ \A i \in DOMAIN versions' :
             \E j \in DOMAIN versions : versions'[i] = versions[j]
    BY <1>2, ReplicateVersions DEF IInv
  <2>2. UNCHANGED <<kind, pc, sent, uses, writes, plan, reply, answer, seen,
                    updated, misled>>
    BY <1>2 DEF Replicate
  <2>3. QED
    BY <2>1, <2>2, UpdateInvStays
<1>3. ASSUME NEW r \in Requests, Step(r) PROVE UpdateInv'
  BY <1>3, UpdatedDoneStep, OffStep, OnlyRowsStep, StatusStandsStep, PlansStandStep,
     PlansReplaceStep, RowsStep, DuplicatesStep, AppliedStep DEF IInv, UpdateInv
<1>4. QED
  BY <1>1, <1>2, <1>3 DEF Next

LEMMA AlwaysUpdateInv == Spec => []UpdateInv
<1>1. QED
  BY InitIInv, NextIInv, InitUpdateInv, NextUpdateInv, PTL DEF Spec

\* A PUT that read what the writer has leaves exactly the rules it sent, one row
\* for each, although it only deletes and creates what differs.
THEOREM PutsApplied == Spec => []PutApplied
<1>1. UpdateInv => PutApplied
  BY DEF UpdateInv
<1>2. QED
  BY AlwaysUpdateInv, <1>1, PTL

\* Two rules of one integrator ID come from requests that overlapped, or from one
\* that read a replica without the other's rule.
THEOREM DuplicatesAreExplained == Spec => []DuplicatesExplained
<1>1. UpdateInv => DuplicatesExplained
  BY DEF UpdateInv
<1>2. QED
  BY AlwaysUpdateInv, <1>1, PTL

\* Without overlapping or misled requests no rows are left in the tables of a
\* camera whose status does not mention them.
THEOREM RowsAreUsed == Spec => []RowsOnlyWhileUsed
<1>1. UpdateInv => RowsOnlyWhileUsed
  BY DEF UpdateInv
<1>2. QED
  BY AlwaysUpdateInv, <1>1, PTL
=============================================================================
