--------------------------- MODULE AdvancedRules ---------------------------
(***************************************************************************)
(* The advanced rules of one camera, and the requests that read and        *)
(* rewrite them concurrently.                                              *)
(*                                                                         *)
(* A camera keeps its rules in tables of their own if its status says so,  *)
(* as it does for cameras created with features nowadays, and otherwise in *)
(* the status itself.  A PUT of the camera compares the rules sent with    *)
(* those it reads outside its transaction, on the replica, and deletes and *)
(* creates rows so that rules that did not change keep their row, and with *)
(* it the id that links to their watch list images contain.                *)
(***************************************************************************)
EXTENDS RuleFeatures

CONSTANTS
    Requests,   \* the requests that may arrive
    Features,   \* the features clients send
    Earlier     \* stands for the writer of what was there before

\* Features without advanced rules have no rules to enable.
ASSUME RulesAssumption ==
    /\ Earlier \notin Requests
    /\ Features \subseteq [enabled : BOOLEAN, rules : Seq(SentResource)]
    /\ \A f \in Features : ~f.enabled => f.rules = <<>>

VARIABLES
    versions,   \* versions of the camera, from the replica's to the writer's
    kind,       \* kind of each request, "none" before it arrives
    pc,         \* where each request is
    sent,       \* the features a PUT sent
    uses,       \* isUsingNewAdvancedRules of the camera, as the PUT read it
    writes,     \* whether the PUT is to write the status
    plan,       \* the rows to delete, and which of the rules sent to create
    reply,      \* what the client was told
    answer,     \* the features a GET answered
    seen,       \* history: requests that had finished when this one arrived
    updated,    \* history: requests that reached the camera
    misled      \* history: PUTs that read what the writer no longer had, or
                \* two rules of one integrator ID

vars == <<versions, kind, pc, sent, uses, writes, plan, reply, answer, seen,
          updated, misled>>

-----------------------------------------------------------------------------
Authors == Requests \cup {Earlier}

\* Features without anything ({}) switch the camera off.
Nothing == [enabled |-> FALSE, rules |-> <<>>]

\* The camera's status, as far as it is about rules.
Off == [store |-> "off", rules |-> <<>>]
InRows == [store |-> "rows", rules |-> <<>>]
InStatus(rules) == [store |-> "status", rules |-> rules]

\* transformFromFeatures: without features the status says nothing of the tables.
StatusFor(features, isUsingNewAdvancedRules) ==
    IF ~features.enabled THEN Off
    ELSE IF isUsingNewAdvancedRules THEN InRows
    ELSE InStatus(features.rules)

\* A rule's id is who created it, and where it was in what was sent.
Rule(author, i, row) == [id |-> <<author, i>>, row |-> Store(row)]

Created(author, rules, which) == {Rule(author, i, ToRow(rules[i])) : i \in which}

Master == versions[Len(versions)]
Replica == versions[1]
Finished == {r \in Requests : pc[r] = "done"}

\* What a query for the camera's rules may return: all of them, in some order.
Readings(rules) ==
    {[i \in DOMAIN o |-> [id |-> o[i].id, row |-> c[o[i]]]] :
       o \in {o \in [1 .. Cardinality(rules) -> rules] : Elements(o) = rules},
       c \in {c \in [rules -> UNION {Reads(x.row) : x \in rules}] :
                \A x \in rules : c[x] \in Reads(x.row)}}

\* The features of a camera with this status, of which these rules were read.
FeaturesOf(status, reading) ==
    [enabled |-> status.store # "off",
     rules |-> IF status.store = "rows"
               THEN [i \in DOMAIN reading |-> ToResource(reading[i].row)]
               ELSE status.rules]

\* What a client sends that puts back what it got.
PutBackOf(features) ==
    [features EXCEPT !.rules = [i \in DOMAIN @ |-> PutBack(@[i])]]

-----------------------------------------------------------------------------
\* resolveUpdates.  The rules read that have the integrator ID of a rule sent,
\* and the first of them, which is the one that is compared.
Existing(old, new) ==
    {i \in DOMAIN old : old[i].row.integratorId = new.integratorId}

First(old, new) ==
    CHOOSE i \in Existing(old, new) : \A j \in Existing(old, new) : i <= j

Changed(old, new) ==
    Existing(old, new) # {} /\ ~IsRuleEqual(old[First(old, new)].row, new)

\* Rules that are no longer sent, and rules that are sent with other contents.
Vanished(old, new) ==
    {old[i].id : i \in {i \in DOMAIN old :
        \A j \in DOMAIN new : new[j].integratorId # old[i].row.integratorId}}

Replaced(old, new) ==
    {old[First(old, new[j])].id : j \in {j \in DOMAIN new : Changed(old, new[j])}}

ToDelete(old, new) == Vanished(old, new) \cup Replaced(old, new)

ToAdd(old, new) ==
    {j \in DOMAIN new : Existing(old, new[j]) = {} \/ Changed(old, new[j])}

Resolve(old, new) == [toDelete |-> ToDelete(old, new), toAdd |-> ToAdd(old, new)]
NoPlan == [toDelete |-> {}, toAdd |-> {}]

-----------------------------------------------------------------------------
\* The camera was created with some features, and is not yet on the replica; or
\* it is older, and its rules are in its status.
Init ==
    /\ \E f \in Features, uses0 \in BOOLEAN :
         LET created == [live |-> TRUE,
                         status |-> StatusFor(f, uses0),
                         rules |-> IF uses0
                                   THEN Created(Earlier, f.rules, DOMAIN f.rules)
                                   ELSE {}]
             before == [live |-> FALSE, status |-> Off, rules |-> {}]
         IN  versions \in {<<created>>} \cup (IF uses0 THEN {<<before, created>>} ELSE {})
    /\ kind = [r \in Requests |-> "none"]
    /\ pc = [r \in Requests |-> "idle"]
    /\ sent = [r \in Requests |-> Nothing]
    /\ uses = [r \in Requests |-> FALSE]
    /\ writes = [r \in Requests |-> FALSE]
    /\ plan = [r \in Requests |-> NoPlan]
    /\ reply = [r \in Requests |-> "none"]
    /\ answer = [r \in Requests |-> Nothing]
    /\ seen = [r \in Requests |-> {}]
    /\ updated = {}
    /\ misled = {}

Arrive(r, k) ==
    /\ pc[r] = "idle"
    /\ kind' = [kind EXCEPT ![r] = k]
    /\ seen' = [seen EXCEPT ![r] = Finished]

Goto(r, where) == pc' = [pc EXCEPT ![r] = where]

\* What the request held in local variables is gone.
Answer(r, what) ==
    /\ Goto(r, "done")
    /\ reply' = [reply EXCEPT ![r] = what]
    /\ uses' = [uses EXCEPT ![r] = FALSE]
    /\ writes' = [writes EXCEPT ![r] = FALSE]
    /\ plan' = [plan EXCEPT ![r] = NoPlan]

Proceed(r, where) == Goto(r, where) /\ UNCHANGED <<reply, writes, plan>>

\* r read something on which the replica and the writer may differ.
Note(r, isCurrent) ==
    misled' = IF isCurrent THEN misled ELSE misled \cup {r}

OneEach(rules) ==
    \A i, j \in DOMAIN rules : rules[i].integratorId = rules[j].integratorId => i = j

-----------------------------------------------------------------------------
\* Features of the client's own, or those it was answered before.
Sendable ==
    Features \cup
    {PutBackOf(answer[g]) : g \in {g \in Finished : kind[g] = "get" /\ reply[g] = "ok"}}

\* PUT of the camera: the handler reads the camera, for what its status says of
\* the rules, and calls updateView.
StartPut(r) ==
    \E f \in Sendable :
      /\ Arrive(r, "put")
      /\ sent' = [sent EXCEPT ![r] = f]
      /\ \/ /\ Replica.live
            /\ uses' = [uses EXCEPT ![r] = Replica.status.store = "rows"]
            /\ Note(r, Master.live /\ (Master.status.store = "rows") = uses'[r])
            /\ Proceed(r, "find")
         \/ Answer(r, "error") /\ UNCHANGED misled
      /\ UNCHANGED <<versions, answer, updated>>

\* findView, on the replica: the status is written if it differs from the one read.
FindView(r) ==
    /\ pc[r] = "find"
    /\ IF Replica.live
       THEN /\ writes' = [writes EXCEPT
                 ![r] = Replica.status # StatusFor(sent[r], uses[r])]
            /\ Note(r, Replica.status = Master.status)
            /\ Goto(r, IF uses[r] THEN "rules" ELSE "commit")
            /\ UNCHANGED <<reply, uses, plan>>
       ELSE Answer(r, "error") /\ UNCHANGED misled
    /\ UNCHANGED <<versions, kind, sent, answer, seen, updated>>

\* updateAdvancedRules: getAdvancedRules without the transaction.
ReadOriginals(r) ==
    /\ pc[r] = "rules"
    /\ kind[r] = "put"
    /\ \E old \in Readings(Replica.rules) :
         /\ plan' = [plan EXCEPT ![r] = Resolve(old, ToRows(sent[r].rules))]
         /\ Note(r, /\ Replica.rules = Master.rules
                    /\ OneEach([i \in DOMAIN old |-> old[i].row]))
    /\ Goto(r, "commit")
    /\ UNCHANGED <<versions, kind, sent, uses, writes, reply, answer, seen, updated>>

\* The rows to delete are deleted if they are still there, with their
\* categories; the others are created.  The status of a camera that is gone is
\* not updated, but the rules have tables of their own.
Remaining(r) == {x \in Master.rules : x.id \notin plan[r].toDelete}

UpdatedRules(r) == Remaining(r) \cup Created(r, sent[r].rules, plan[r].toAdd)

CommitPut(r) ==
    /\ pc[r] = "commit"
    /\ kind[r] = "put"
    /\ \A i \in plan[r].toAdd : Storable(ToRow(sent[r].rules[i]))
    /\ versions' = Append(versions,
         [Master EXCEPT
            !.status = IF Master.live /\ writes[r]
                       THEN StatusFor(sent[r], uses[r]) ELSE @,
            !.rules = UpdatedRules(r)])
    /\ updated' = updated \cup {r}
    /\ Answer(r, "ok")
    /\ UNCHANGED <<kind, sent, answer, seen, misled>>

-----------------------------------------------------------------------------
\* GET of the camera: the camera first, then its rules if they are in tables,
\* both on the replica.
StartGet(r) ==
    /\ Arrive(r, "get")
    /\ \/ /\ Replica.live
          /\ IF Replica.status.store = "rows"
             THEN Proceed(r, "rules") /\ UNCHANGED <<uses, answer>>
             ELSE /\ answer' = [answer EXCEPT ![r] = FeaturesOf(Replica.status, <<>>)]
                  /\ Answer(r, "ok")
       \/ Answer(r, "error") /\ UNCHANGED answer
    /\ UNCHANGED <<versions, sent, updated, misled>>

ReadForGet(r) ==
    /\ pc[r] = "rules"
    /\ kind[r] = "get"
    /\ \E reading \in Readings(Replica.rules) :
         answer' = [answer EXCEPT ![r] = FeaturesOf(InRows, reading)]
    /\ Answer(r, "ok")
    /\ UNCHANGED <<versions, kind, sent, seen, updated, misled>>

-----------------------------------------------------------------------------
\* Soft deletion: the camera is looked up on the replica.
StartDelete(r) ==
    /\ Arrive(r, "delete")
    /\ \/ Replica.live /\ Proceed(r, "rules") /\ UNCHANGED uses
       \/ Answer(r, "error")
    /\ UNCHANGED <<versions, sent, answer, updated, misled>>

\* The rules as the replica has them.
RulesOnReplica == Replica.rules

\* cleanAndDeleteViews finds the rules to delete inside its transaction.
RulesToDelete == Master.rules

ReadForDelete(r) ==
    /\ pc[r] = "rules"
    /\ kind[r] = "delete"
    /\ plan' = [plan EXCEPT ![r].toDelete = {x.id : x \in RulesToDelete}]
    /\ Goto(r, "commit")
    /\ UNCHANGED <<versions, kind, sent, uses, writes, reply, answer, seen,
                   updated, misled>>

\* The client is told 404 when the camera had been deleted meanwhile.
CommitDelete(r) ==
    /\ pc[r] = "commit"
    /\ kind[r] = "delete"
    /\ versions' = Append(versions,
         [Master EXCEPT !.live = FALSE, !.rules = Remaining(r)])
    /\ updated' = updated \cup {r}
    /\ Answer(r, IF Master.live THEN "ok" ELSE "error")
    /\ UNCHANGED <<kind, sent, answer, seen, misled>>

\* A query fails; a transaction is rolled back.
Fail(r) ==
    /\ pc[r] \in {"find", "rules", "commit"}
    /\ Answer(r, "error")
    /\ UNCHANGED <<versions, kind, sent, answer, seen, updated, misled>>

\* The replica replays the next commit.
Replicate ==
    /\ Len(versions) > 1
    /\ versions' = Tail(versions)
    /\ UNCHANGED <<kind, pc, sent, uses, writes, plan, reply, answer, seen,
                   updated, misled>>

Step(r) ==
    \/ StartPut(r) \/ FindView(r) \/ ReadOriginals(r) \/ CommitPut(r)
    \/ StartGet(r) \/ ReadForGet(r)
    \/ StartDelete(r) \/ ReadForDelete(r) \/ CommitDelete(r)
    \/ Fail(r)

Next == Replicate \/ \E r \in Requests : Step(r)

Spec == Init /\ [][Next]_vars
-----------------------------------------------------------------------------
Rules == [id : Authors \X Nat, row : StoredRow]
Status == [store : {"off", "rows", "status"}, rules : Seq(SentResource)]
Camera == [live : BOOLEAN, status : Status, rules : SUBSET Rules]
SentFeatures == [enabled : BOOLEAN, rules : Seq(SentResource)]
AnsweredFeatures == [enabled : BOOLEAN, rules : Seq(AnsweredResource)]

\* Every variable keeps its type; a camera's rules have different ids, and a plan
\* creates rules that were sent.
TypeOK ==
    /\ versions # <<>>
    /\ versions \in Seq(Camera)
    /\ \A i \in DOMAIN versions :
         \A x, y \in versions[i].rules : x.id = y.id => x = y
    /\ kind \in [Requests -> {"none", "put", "get", "delete"}]
    /\ pc \in [Requests -> {"idle", "find", "rules", "commit", "done"}]
    /\ sent \in [Requests -> SentFeatures]
    /\ uses \in [Requests -> BOOLEAN]
    /\ writes \in [Requests -> BOOLEAN]
    /\ plan \in [Requests -> [toDelete : SUBSET (Authors \X Nat), toAdd : SUBSET Nat]]
    /\ \A r \in Requests : plan[r].toAdd \subseteq DOMAIN sent[r].rules
    /\ reply \in [Requests -> {"none", "ok", "error"}]
    /\ answer \in [Requests -> AnsweredFeatures]
    /\ seen \in [Requests -> SUBSET Requests]
    /\ updated \subseteq Requests
    /\ misled \subseteq Requests

\* a had finished when b arrived.
Before(a, b) == b \in Requests /\ a \in seen[b] \cup {Earlier}

Overlap(a, b) == a # b /\ ~Before(a, b) /\ ~Before(b, a)

\* The camera has the rules of these features and no others, wherever it keeps
\* them.
Has(camera, features) ==
    IF ~features.enabled THEN camera.status.store = "off"
    ELSE \/ /\ camera.status.store = "rows"
            /\ {x.row : x \in camera.rules} =
                 {Store(ToRow(features.rules[i])) : i \in DOMAIN features.rules}
            /\ Cardinality(camera.rules) = Len(features.rules)
         \/ camera.status = InStatus(features.rules)

\* A PUT that compared with what the writer has leaves exactly the rules it sent,
\* one for each integrator ID, until a request that overlaps with it or comes
\* later reaches the camera.  Creating and deleting only what differs is no loss
\* then, whichever way the camera keeps its rules.
PutApplied ==
    Master.live =>
        \A q \in updated \ misled :
            kind[q] = "put" /\ OneEach(sent[q].rules) =>
                Has(Master, sent[q]) \/ \E r \in updated \ {q} : ~Before(r, q)

\* Two requests gave a camera two rules of one integrator ID only if they
\* overlapped, or the later one did not read what the earlier one had written.
DuplicatesExplained ==
    \A x, y \in Master.rules :
        LET a == x.id[1]
            b == y.id[1]
        IN  a # b /\ x.row.integratorId = y.row.integratorId =>
                \/ Overlap(a, b)
                \/ Before(a, b) /\ b \in misled
                \/ Before(b, a) /\ a \in misled

\* A camera whose status says nothing of the tables has no rules there, which no
\* PUT would ever read again, unless two updates overlapped or one was misled.
RowsOnlyWhileUsed ==
    Master.status.store # "rows" /\ Master.rules # {} =>
        \E r \in updated : r \in misled \/ \E q \in updated : Overlap(r, q)

\* A deletion that was answered 204 leaves no rules but those of requests that
\* were under way with it or found the camera on the replica afterwards: the
\* rules to delete are found in the transaction, not on the replica.
DeletionRemovesRules ==
    \A d \in Requests : kind[d] = "delete" /\ reply[d] = "ok" =>
        \A x \in Master.rules : ~Before(x.id[1], d)

\* A rule is replaced by another of the same contents, and the links to its
\* images broken, only if its categories can be read in another order than they
\* were sent, or were sent as an empty list, which is not read back as one.
UnchangedRulesKeepTheirRow ==
    [][\A x \in Master.rules \ Master'.rules, y \in Master'.rules \ Master.rules :
         x.row = y.row =>
             \/ Cardinality(x.row.categories) > 1
             \/ sent[y.id[1]].rules[y.id[2]].categories = <<>>]_vars

\* A client that puts back what it read does not lose a rule that it read and
\* the camera still has, however old what it read is and whatever it sends beside.
PutBackKeeps ==
    [][\A r \in Requests :
         pc[r] = "commit" /\ reply'[r] = "ok" /\ kind[r] = "put" /\ uses[r]
         /\ OneEach(sent[r].rules) =>
             \A x \in Master.rules :
                 /\ ComesBack(x.row)
                 /\ \E i \in DOMAIN sent[r].rules, read \in Reads(x.row) :
                      sent[r].rules[i] = PutBack(ToResource(read))
                 => \E y \in Master'.rules : y.row = x.row]_vars
=============================================================================
