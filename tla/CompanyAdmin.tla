----------------------------- MODULE CompanyAdmin -----------------------------
(***************************************************************************)
(* The companies of an integration partner: creation, PUTs by integrator   *)
(* ID, updates, reads, deletions, and a client that walks through the list *)
(* of companies. The partner acts for itself, or for one of its companies  *)
(* (tenants), which also have tokens of their own.                         *)
(*                                                                         *)
(* Queries outside of transactions go to the replica, which lags, those    *)
(* for the partner's capabilities too. A stage is what a request waits     *)
(* for. What a deletion does to the resources of the company is in         *)
(* ResourceTree.                                                           *)
(***************************************************************************)
EXTENDS Naturals, FiniteSets

CONSTANTS
    Requests,
    Workload,   \* what each request may be like
    Ids,        \* ids of companies, in the order of their values: bound
    Existing,   \* the rows of the companies there are at first
    Grants,     \* what the partner's capabilities may be
    MaxChanges, \* bound: how often they change
    PageSize    \* of the list

Partner == "partner"

NoId == 0

Operations == {"create", "upsert", "update", "delete", "get", "patch"}

Calls ==
    [op           : Operations,
     actor        : {"partner", "tenant", "tenantIntegrator", "child"},
     id           : Ids \cup {NoId},    \* of the company in the path, or of the tenant
     integratorId : {"none", "i1", "i2"},
     name         : {"given", "null", "absent"},
     caps         : UNION {SUBSET g : g \in Grants}]

\* A company.  history: by is the request that created it.
Rows ==
    [createdBy    : {Partner, "other"},
     integratorId : {"none", "i1", "i2"},
     name         : Requests \cup {"old"},
     caps         : UNION {SUBSET g : g \in Grants},
     live         : BOOLEAN,
     by           : Requests \cup {"old"}]

\* Updates name the company; only the company itself may leave its name alone.
WorkloadOK ==
    /\ Workload \in [Requests -> (SUBSET Calls) \ {{}}]
    /\ \A w \in UNION {Workload[r] : r \in Requests} :
         /\ w.op # "patch" => w.name = "given" /\ w.actor # "tenantIntegrator"
         /\ w.op = "patch" => w.actor # "partner"
         /\ w.op \in {"create", "update", "delete"} => w.integratorId = "none"
         /\ w.op \in {"update", "delete"} => w.id # NoId
         /\ w.op = "upsert" => w.integratorId # "none"
         /\ w.op = "get" => (w.integratorId = "none") = (w.id # NoId)

ASSUME Assumptions ==
    /\ WorkloadOK
    /\ Ids \subseteq Nat \ {NoId} /\ IsFiniteSet(Ids)
    /\ PageSize \in Nat \ {0}
    /\ MaxChanges \in Nat
    /\ DOMAIN Existing \subseteq Ids /\ Existing \in [DOMAIN Existing -> Rows]
    /\ \A i \in DOMAIN Existing : Existing[i].by = "old"
    /\ "old" \notin Requests

VARIABLES
    master,     \* the table of companies
    replica,
    capabilities, \* of the partner
    visible,    \* what a query for them may find: these, or former ones
    changes,    \* how often they have changed
    stage,      \* what each request waits for
    ctx,        \* its context
    reply,      \* its response
    walk        \* a client that walks through the list

tables == <<master, replica>>
partner == <<capabilities, visible, changes>>
requests == <<stage, ctx, reply>>
vars == <<tables, partner, requests, walk>>

-----------------------------------------------------------------------------
Stages == {"idle", "token", "user", "company", "lookup", "permission", "capabilities",
           "parent", "write", "read", "answered"}

Live(table) == {i \in DOMAIN table : table[i].live}

Call(r) == ctx[r].call

\* history: known and gone are the companies live and deleted on the replica when
\* the request came, held the capabilities that could be found then, or that
\* the partner has had since.
NewContext(w) ==
    [call   |-> w,
     user   |-> NoId,       \* the company whose user acts, NoId for the partner's
     target |-> IF w.op \in {"update", "delete", "get"} THEN w.id ELSE NoId, \* params.companyId
     parent |-> "none",     \* ctx.company.createdBy, once there is a ctx.company
     known  |-> Live(replica),
     gone   |-> DOMAIN replica \ Live(replica),
     held   |-> visible]

\* history: audited is whether the insertion into the audit log succeeded.
NoReply == [code |-> 0, id |-> NoId, audited |-> TRUE]

Codes == {200, 201, 204, 400, 401, 403, 404, 500}

Init ==
    /\ master = Existing
    /\ replica = Existing
    /\ capabilities \in Grants
    /\ visible = {capabilities}
    /\ changes = 0
    /\ stage = [r \in Requests |-> "idle"]
    /\ ctx = [r \in Requests |-> NewContext(CHOOSE w \in Workload[r] : TRUE)]
    /\ reply = [r \in Requests |-> NoReply]
    /\ walk = [phase |-> "first", cursor |-> NoId, start |-> NoId, stable |-> {},
               seen |-> {}, back |-> {}]

Arrive(r) ==
    /\ stage[r] = "idle"
    /\ \E w \in Workload[r] : ctx' = [ctx EXCEPT ![r] = NewContext(w)]
    /\ stage' = [stage EXCEPT ![r] = "token"]
    /\ UNCHANGED <<tables, partner, reply, walk>>

Await(r, next, context) ==
    /\ stage' = [stage EXCEPT ![r] = next]
    /\ ctx' = [ctx EXCEPT ![r] = context]
    /\ UNCHANGED reply

Answer(r, answer) ==
    /\ stage' = [stage EXCEPT ![r] = "answered"]
    /\ reply' = [reply EXCEPT ![r] = answer]
    /\ UNCHANGED ctx

Refuse(r, code) == Answer(r, [code |-> code, id |-> ctx[r].target, audited |-> TRUE])

Reads == UNCHANGED <<tables, partner, walk>>

-----------------------------------------------------------------------------
(***************************************************************************)
(* Authentication, and the user and company it stands for.                 *)
(***************************************************************************)
\* getCompanyByIntegratorId, at the partner's.
ByIntegratorId(integratorId) ==
    {i \in Live(replica) : replica[i].integratorId = integratorId
                           /\ replica[i].createdBy = Partner}

\* Whom a token and the tenant headers stand for: the partner, or the companies
\* whose administrator it may be.  checkIsValidTenant does not ask whether the
\* tenant is deleted, nor does the look-up of its token or administrator.
Users(w) ==
    CASE w.actor = "partner" -> {NoId}
      [] w.actor = "tenant" -> {i \in {w.id} \cap DOMAIN replica : replica[i].createdBy = Partner}
      [] w.actor = "tenantIntegrator" -> ByIntegratorId(w.integratorId)
      [] w.actor = "child" -> {w.id} \cap DOMAIN replica

Authenticate(r) ==
    /\ stage[r] = "token"
    /\ IF Users(Call(r)) = {} THEN Refuse(r, 401)
       ELSE \E u \in Users(Call(r)) : Await(r, "user", [ctx[r] EXCEPT !.user = u])
    /\ Reads

Active(user) == user = NoId \/ user \in Live(replica)

\* validateUser: users of deleted companies are not found.
FindUser(r) ==
    /\ stage[r] = "user"
    /\ IF Active(ctx[r].user) THEN Await(r, "company", ctx[r]) ELSE Refuse(r, 401)
    /\ Reads

\* The first wait of the handlers; a company changes its own name unchecked.
HandlerStarts(r) ==
    LET w == Call(r) IN
    CASE w.op # "patch" ->
           Await(r, IF w.integratorId = "none" THEN "permission" ELSE "lookup", ctx[r])
      [] w.op = "patch" /\ w.name = "null" -> Refuse(r, 400)
      [] w.op = "patch" /\ w.name = "given" ->
           Await(r, "write", [ctx[r] EXCEPT !.target = ctx[r].user])
      [] w.op = "patch" /\ w.name = "absent" ->
           Await(r, "read", [ctx[r] EXCEPT !.target = ctx[r].user])

\* The second query of validateUser throws when the company is deleted between.
FindCompany(r) ==
    /\ stage[r] = "company"
    /\ IF Active(ctx[r].user) THEN HandlerStarts(r) ELSE Refuse(r, 500)
    /\ Reads

-----------------------------------------------------------------------------
(***************************************************************************)
(* The checks of the handlers.                                             *)
(***************************************************************************)
\* The handlers by integrator ID: of several companies, the database chooses.  A
\* tenant has no companies.
LookUp(r) ==
    LET found == IF ctx[r].user = NoId THEN ByIntegratorId(Call(r).integratorId) ELSE {}
    IN  /\ stage[r] = "lookup"
        /\ IF found = {}
           THEN IF Call(r).op = "get" THEN Refuse(r, 404) ELSE Await(r, "permission", ctx[r])
           ELSE \E i \in found :
                  Await(r, "permission", [ctx[r] EXCEPT !.target = i, !.parent = Partner])
        /\ Reads

\* Checks no capabilities when the company is there.
SkipsForUpdates(r) ==
    IF ctx[r].target # NoId THEN "parent" ELSE "capabilities"

AfterPermission(r) == IF Call(r).op \in {"delete", "get"} THEN "parent" ELSE "capabilities"

\* Only the partner's user has CREATE_COMPANY.
CheckPermission(r) ==
    /\ stage[r] = "permission"
    /\ IF ctx[r].user = NoId THEN Await(r, AfterPermission(r), ctx[r]) ELSE Refuse(r, 403)
    /\ Reads

CheckCapabilities(r) ==
    /\ stage[r] = "capabilities"
    /\ \E found \in visible :
         IF ~(Call(r).caps \subseteq found) THEN Refuse(r, 403)
         ELSE Await(r, IF ctx[r].target = NoId THEN "write" ELSE "parent", ctx[r])
    /\ Reads

\* getCompanyById, without its condition on deletion.
FoundAnyhow(id) == DOMAIN replica \cap {id}

Found(id) == Live(replica) \cap {id}

\* Nothing is awaited when the look-up by integrator ID has found the company.
CheckParent(r) ==
    LET id == ctx[r].target
        next == IF Call(r).op = "get" THEN "read" ELSE "write"
    IN
    /\ stage[r] = "parent"
    /\ CASE ctx[r].parent = Partner -> Await(r, next, ctx[r])
         [] ctx[r].parent # Partner /\ Found(id) = {} -> Refuse(r, 404)
         [] ctx[r].parent # Partner /\ Found(id) # {} ->
              IF replica[id].createdBy = Partner
              THEN Await(r, next, [ctx[r] EXCEPT !.parent = Partner])
              ELSE Refuse(r, 403)
    /\ Reads

-----------------------------------------------------------------------------
(***************************************************************************)
(* What the handlers do.                                                   *)
(***************************************************************************)
\* The row of a company that nobody is recorded to have made.
UnownedRow(r) ==
    [createdBy |-> "nobody", integratorId |-> Call(r).integratorId, name |-> r,
     caps |-> Call(r).caps, live |-> TRUE, by |-> r]

NewRow(r) ==
    [createdBy |-> Partner, integratorId |-> Call(r).integratorId, name |-> r,
     caps |-> Call(r).caps, live |-> TRUE, by |-> r]

Fresh == Ids \ (DOMAIN master \cup {reply[q].id : q \in Requests})

\* logOperation keeps the failure of its INSERT to itself, but the database has
\* aborted the transaction by then, and ends it with a rollback.
Committed(audited, table) == IF audited THEN table ELSE master

\* createRowsTransaction.
Create(r) ==
    /\ stage[r] = "write"
    /\ Call(r).op \in {"create", "upsert"} /\ ctx[r].target = NoId
    /\ \E i \in Fresh, audited \in BOOLEAN :
         /\ master' = Committed(audited, [j \in DOMAIN master \cup {i} |->
                                            IF j = i THEN NewRow(r) ELSE master[j]])
         /\ Answer(r, [code |-> 201, id |-> i, audited |-> audited])
    /\ UNCHANGED <<replica, partner, walk>>

\* updateCompany: the model leaves a deleted company alone, setCapabilities does not.
Updated(r, row) == [row EXCEPT !.caps = Call(r).caps, !.name = IF row.live THEN r ELSE @]

Update(r) ==
    LET id == ctx[r].target IN
    /\ stage[r] = "write"
    /\ Call(r).op \in {"upsert", "update"} /\ id # NoId
    /\ master' = [master EXCEPT ![id] = Updated(r, master[id])]
    /\ Answer(r, [code |-> 200, id |-> id, audited |-> TRUE])
    /\ UNCHANGED <<replica, partner, walk>>

\* softDeleteCompanyById, which may find nothing left to delete.
Delete(r) ==
    /\ stage[r] = "write"
    /\ Call(r).op = "delete"
    /\ \E audited \in BOOLEAN :
         /\ master' = Committed(audited, [master EXCEPT ![ctx[r].target].live = FALSE])
         /\ Answer(r, [code |-> 204, id |-> ctx[r].target, audited |-> audited])
    /\ UNCHANGED <<replica, partner, walk>>

\* patchCompanyName, without a transaction.  Of a company deleted meanwhile an
\* empty object is left, of which the next query asks the capabilities.
Patch(r) ==
    LET id == ctx[r].target IN
    /\ stage[r] = "write"
    /\ Call(r).op = "patch"
    /\ IF master[id].live
       THEN /\ master' = [master EXCEPT ![id].name = r]
            /\ Await(r, "read", ctx[r])
       ELSE /\ UNCHANGED master
            /\ Await(r, "read", [ctx[r] EXCEPT !.target = NoId])
    /\ UNCHANGED <<replica, partner, walk>>

ReadCapabilities(r) ==
    /\ stage[r] = "read"
    /\ Answer(r, [code |-> 200, id |-> ctx[r].target, audited |-> TRUE])
    /\ Reads

\* Something that the request waits for throws.
Fail(r) ==
    /\ stage[r] \notin {"idle", "answered"}
    /\ Refuse(r, 500)
    /\ Reads

-----------------------------------------------------------------------------
(***************************************************************************)
(* The list: a client follows the next links to the end, then the prev     *)
(* links back to the beginning.                                            *)
(***************************************************************************)
Listed(table) == {i \in Live(table) : table[i].createdBy = Partner}

\* One company more than the page has.
QueryAfter(cursor) ==
    LET after == {i \in Listed(replica) : i > cursor} IN
    {i \in after : Cardinality({j \in after : j < i}) <= PageSize}

QueryBefore(cursor) ==
    LET before == {i \in Listed(replica) : i < cursor} IN
    {i \in before : Cardinality({j \in before : j > i}) <= PageSize}

LastPage(found) == Cardinality(found) <= PageSize

First(page) == CHOOSE i \in page : \A j \in page : i <= j
Last(page) == CHOOSE i \in page : \A j \in page : j <= i

\* The company removed once the page is in ascending order.
ReversedFirst(found, backward) ==
    IF LastPage(found) THEN found ELSE found \ {Last(found)}

\* companies.pop(), of rows in the order of their query.
Trimmed(found, backward) ==
    IF LastPage(found) THEN found
    ELSE found \ {IF backward THEN First(found) ELSE Last(found)}

\* The answer without a next link ends the way forward; if its page is empty, or
\* the first, it has no prev link either.
WalkForward ==
    LET found == QueryAfter(walk.cursor)
        page == Trimmed(found, FALSE)
        back == walk.phase = "forward" /\ page # {}
    IN
    /\ walk.phase \in {"first", "forward"}
    /\ walk' = [walk EXCEPT
                  !.phase = IF ~LastPage(found) THEN "forward" ELSE IF back THEN "back" ELSE "ended",
                  !.cursor = IF ~LastPage(found) THEN Last(page) ELSE IF back THEN First(page) ELSE NoId,
                  !.start = IF LastPage(found) /\ back THEN First(page) ELSE NoId,
                  !.seen = @ \cup page,
                  !.stable = IF walk.phase = "first" THEN Listed(replica) ELSE @]
    /\ UNCHANGED <<tables, partner, requests>>

WalkBack ==
    LET found == QueryBefore(walk.cursor)
        page == Trimmed(found, TRUE)
    IN
    /\ walk.phase = "back"
    /\ walk' = [walk EXCEPT !.phase = IF LastPage(found) THEN "ended" ELSE "back",
                            !.cursor = IF LastPage(found) THEN NoId ELSE First(page),
                            !.back = @ \cup page]
    /\ UNCHANGED <<tables, partner, requests>>

-----------------------------------------------------------------------------
Replicate ==
    /\ replica # master
    /\ replica' = master
    /\ walk' = [walk EXCEPT !.stable = @ \cap Listed(master)]
    /\ UNCHANGED <<master, partner, requests>>

ChangeCapabilities ==
    /\ changes < MaxChanges
    /\ changes' = changes + 1
    /\ capabilities' \in Grants \ {capabilities}
    /\ visible' = visible \cup {capabilities'}
    /\ ctx' = [r \in Requests |-> [ctx[r] EXCEPT !.held = @ \cup {capabilities'}]]
    /\ UNCHANGED <<tables, stage, reply, walk>>

\* Former capabilities can be found no longer.
ReplicateCapabilities ==
    /\ visible' \in SUBSET visible \ {visible}
    /\ capabilities \in visible'
    /\ UNCHANGED <<tables, capabilities, changes, requests, walk>>

Handles(r) ==
    \/ Arrive(r) \/ Authenticate(r) \/ FindUser(r) \/ FindCompany(r)
    \/ LookUp(r) \/ CheckPermission(r) \/ CheckCapabilities(r) \/ CheckParent(r)
    \/ Create(r) \/ Update(r) \/ Delete(r) \/ Patch(r)
    \/ ReadCapabilities(r) \/ Fail(r)

Next ==
    \/ \E r \in Requests : Handles(r)
    \/ WalkForward \/ WalkBack
    \/ Replicate \/ ChangeCapabilities \/ ReplicateCapabilities

Spec == Init /\ [][Next]_vars

-----------------------------------------------------------------------------
(***************************************************************************)
(* Properties.                                                             *)
(***************************************************************************)
Contexts ==
    [call : Calls, user : Ids \cup {NoId}, target : Ids \cup {NoId},
     parent : {"none", Partner}, known : SUBSET Ids, gone : SUBSET Ids,
     held : SUBSET Grants]

\* Every variable has its type, and the replica lags: it has no company that the
\* database lacks, and none deleted there and live here again.
TypeOK ==
    /\ \A table \in {master, replica} :
         DOMAIN table \subseteq Ids /\ table \in [DOMAIN table -> Rows]
    /\ DOMAIN replica \subseteq DOMAIN master
    /\ Live(master) \cap DOMAIN replica \subseteq Live(replica)
    /\ capabilities \in visible /\ visible \subseteq Grants /\ changes \in 0..MaxChanges
    /\ stage \in [Requests -> Stages]
    /\ ctx \in [Requests -> Contexts]
    /\ reply \in [Requests -> [code : Codes \cup {0}, id : Ids \cup {NoId}, audited : BOOLEAN]]
    /\ walk \in [phase : {"first", "forward", "back", "ended"}, cursor : Ids \cup {NoId},
                 start : Ids \cup {NoId}, stable : SUBSET Ids, seen : SUBSET Ids, back : SUBSET Ids]

\* A company whose creation was acknowledged is stored, whatever the request met
\* on its way, except for a failure of the audit log.
CreationsStored ==
    \A r \in Requests : reply[r].code = 201 /\ reply[r].audited =>
        reply[r].id \in DOMAIN master /\ master[reply[r].id].by = r

\* A company whose deletion was acknowledged stays deleted, whatever other
\* requests, checked while it was there, do to it later.
DeletionsDone ==
    \A r \in Requests : reply[r].code = 204 /\ reply[r].audited =>
        reply[r].id \notin Live(master)

\* A partner gets a second company of an integrator ID only from PUTs that came
\* before the first could be seen on the replica: never again afterwards.
NoNeedlessCompany ==
    \A i, j \in Listed(master) :
        i # j /\ master[i].integratorId = master[j].integratorId
              /\ master[i].integratorId # "none" /\ master[j].by # "old" =>
           i \notin ctx[master[j].by].known

\* No request succeeds with a company that was deleted, as far as the replica
\* knew, before it came: not by its id, its integrator ID, a token or a header.
NothingForDeleted ==
    \A r \in Requests : reply[r].code \in {200, 201, 204} => reply[r].id \notin ctx[r].gone

\* What a partner was told of its companies is true of the table of companies.
AnswersHold == CreationsStored /\ DeletionsDone /\ NoNeedlessCompany /\ NothingForDeleted

\* A company is given only capabilities that its partner had, all at once, at
\* some time since the request that gives them came, or before it and the replica
\* still showed them when it came: a revocation that it had shown is heeded.
Granted(r, caps) == \E g \in ctx[r].held : caps \subseteq g

CapsAt(table, i) == IF i \in DOMAIN table THEN table[i].caps ELSE {}

OnlyGranted ==
    [][\A i \in DOMAIN master' : CapsAt(master, i) # master'[i].caps =>
         \E r \in Requests : stage[r] = "write" /\ stage'[r] = "answered"
                              /\ ctx[r].user = NoId /\ Granted(r, master'[i].caps)]_vars

\* A client that follows the next links to their end has seen every company that
\* was there all the time, and back by the prev links again all that come before
\* the page it turned at, whatever companies come and go meanwhile.
WalkListsStable ==
    /\ walk.phase \in {"back", "ended"} => walk.stable \subseteq walk.seen
    /\ walk.phase = "ended" => {i \in walk.stable : i < walk.start} \subseteq walk.back
=============================================================================
