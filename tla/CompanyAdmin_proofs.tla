------------------------ MODULE CompanyAdmin_proofs ------------------------
(***************************************************************************)
(* Proofs about CompanyAdmin, for any requests, companies, capabilities    *)
(* and page sizes, and however far the replica lags.                       *)
(***************************************************************************)
EXTENDS CompanyAdmin, FiniteSetTheorems, WellFoundedInduction, TLAPS

-----------------------------------------------------------------------------
(***************************************************************************)
(* The inductive invariant.                                                *)
(***************************************************************************)
TablesOK ==
    /\ DOMAIN master \subseteq Ids /\ master \in [DOMAIN master -> Rows]
    /\ DOMAIN replica \subseteq DOMAIN master /\ replica \in [DOMAIN replica -> Rows]
    /\ \A i \in DOMAIN replica :
         /\ replica[i].createdBy = master[i].createdBy
         /\ replica[i].integratorId = master[i].integratorId
         /\ master[i].live => replica[i].live

RequestsOK ==
    /\ capabilities \in visible /\ visible \subseteq Grants /\ changes \in 0..MaxChanges
    /\ stage \in [Requests -> Stages]
    /\ ctx \in [Requests -> Contexts]
    /\ reply \in [Requests -> [code : Codes \cup {0}, id : Ids \cup {NoId}, audited : BOOLEAN]]

\* The company is on the replica, and was not deleted there when r came.
There(r, i) == i \in DOMAIN replica /\ i \notin ctx[r].gone

\* What is remembered of the time when a request came.
HistoryTrue(r) ==
    /\ Call(r) \in Workload[r]
    /\ visible \subseteq ctx[r].held
    /\ ctx[r].known \subseteq DOMAIN replica
    /\ ctx[r].gone \subseteq DOMAIN replica
    /\ ctx[r].gone \cap Live(replica) = {}

\* Which operations wait for what.
StagesFit(r) ==
    /\ Call(r).op = "patch" => stage[r] \notin {"lookup", "permission", "capabilities", "parent"}
    /\ Call(r).op \in {"delete", "get"} => stage[r] # "capabilities"
    /\ Call(r).op = "get" => stage[r] # "write"

\* Who has come how far.
ActorsFit(r) ==
    /\ Call(r).op = "patch" /\ stage[r] \notin {"idle", "token", "answered"} => ctx[r].user # NoId
    /\ stage[r] \in {"capabilities", "parent"} => ctx[r].user = NoId
    /\ stage[r] = "write" /\ Call(r).op # "patch" => ctx[r].user = NoId

TargetsThere(r) ==
    /\ Call(r).op \in {"update", "delete"} => ctx[r].target # NoId
    /\ stage[r] = "write" /\ Call(r).op = "patch" => ctx[r].target # NoId
    /\ stage[r] \in {"write", "read"} /\ ctx[r].target # NoId => There(r, ctx[r].target)
    /\ stage[r] \notin {"idle", "write", "read", "answered"} /\ ctx[r].parent = Partner =>
         There(r, ctx[r].target)

\* The write of capabilities has been allowed.
WritesGranted(r) ==
    stage[r] \in {"parent", "write"} /\ Call(r).op \in {"create", "upsert", "update"} =>
        Granted(r, Call(r).caps)

\* A PUT that is about to create a company has looked for it since it came.
LookedUp(r) ==
    /\ stage[r] \in {"permission", "capabilities", "write"}
    /\ Call(r).op = "upsert" /\ ctx[r].target = NoId /\ ctx[r].user = NoId
    => \A i \in ctx[r].known : master[i].live /\ master[i].createdBy = Partner =>
           master[i].integratorId # Call(r).integratorId

RepliesHold(r) ==
    /\ stage[r] # "answered" => reply[r] = NoReply
    /\ reply[r].code \in {200, 201, 204} => reply[r].id \notin ctx[r].gone
    /\ reply[r].code = 201 /\ reply[r].audited =>
         reply[r].id \in DOMAIN master /\ master[reply[r].id].by = r
    /\ reply[r].code = 204 /\ reply[r].audited => reply[r].id \notin Live(master)

RequestInv(r) ==
    /\ HistoryTrue(r) /\ StagesFit(r) /\ ActorsFit(r) /\ TargetsThere(r)
    /\ WritesGranted(r) /\ LookedUp(r) /\ RepliesHold(r)

Authored ==
    \A i \in DOMAIN master : master[i].by # "old" => stage[master[i].by] = "answered"

IInv ==
    /\ TablesOK /\ RequestsOK /\ Authored /\ NoNeedlessCompany
    /\ \A r \in Requests : RequestInv(r)

-----------------------------------------------------------------------------
(***************************************************************************)
(* How the tables change.                                                  *)
(***************************************************************************)
\* Companies stay what they are, and stay deleted; ids are never used twice.
Grows ==
    /\ DOMAIN master \subseteq DOMAIN master'
    /\ \A i \in DOMAIN master :
         /\ master'[i].createdBy = master[i].createdBy
         /\ master'[i].integratorId = master[i].integratorId
         /\ master'[i].by = master[i].by
         /\ master'[i].live => master[i].live
    /\ \A i \in DOMAIN master' \ DOMAIN master : \A q \in Requests : reply[q].id # i
    /\ replica' \in {replica, master}

\* What another request's step, or the environment's, does to a request.
Untouched(q) ==
    /\ stage'[q] = stage[q] /\ reply'[q] = reply[q]
    /\ ctx'[q].call = ctx[q].call /\ ctx'[q].user = ctx[q].user
    /\ ctx'[q].target = ctx[q].target /\ ctx'[q].parent = ctx[q].parent
    /\ ctx'[q].known = ctx[q].known /\ ctx'[q].gone = ctx[q].gone
    /\ ctx[q].held \subseteq ctx'[q].held
    /\ visible' \subseteq ctx'[q].held

\* What is true of a request stays true while others do their work.
LEMMA UntouchedStays ==
    ASSUME TablesOK, TablesOK', Grows, RequestsOK,
           NEW q \in Requests, RequestInv(q), Untouched(q)
    PROVE  RequestInv(q)'
<1>1. DOMAIN replica \subseteq DOMAIN replica'
  BY DEF Grows, TablesOK
<1>2. ctx[q].known \subseteq DOMAIN master /\ ctx[q].gone \subseteq DOMAIN master
  BY DEF RequestInv, HistoryTrue, TablesOK
<1>3. HistoryTrue(q)'
  <2>1. ctx[q].gone \cap Live(replica)' = {}
    <3>1. CASE replica' = replica
      BY <3>1 DEF RequestInv, HistoryTrue, Live
    <3>2. CASE replica' = master
      <4>1. \A i \in ctx[q].gone : i \notin Live(replica) /\ i \in DOMAIN replica
        BY DEF RequestInv, HistoryTrue
      <4>2. \A i \in ctx[q].gone : ~master[i].live
        BY <4>1 DEF TablesOK, Live
      <4>3. QED
        BY <3>2, <4>2 DEF Live
    <3>3. QED
      BY <3>1, <3>2 DEF Grows
  <2>2. QED
    BY <1>1, <2>1 DEF RequestInv, HistoryTrue, Untouched, Call
<1>4. StagesFit(q)' /\ ActorsFit(q)'
  BY DEF RequestInv, StagesFit, ActorsFit, Untouched, Call
<1>5. TargetsThere(q)'
  BY <1>1 DEF RequestInv, TargetsThere, Untouched, Call, There
<1>6. WritesGranted(q)'
  BY DEF RequestInv, WritesGranted, Untouched, Call, Granted
<1>7. LookedUp(q)'
  BY <1>2 DEF RequestInv, LookedUp, Untouched, Call, Grows
<1>8. RepliesHold(q)'
  <2>1. reply[q].id \notin Live(master) => reply[q].id \notin Live(master)'
    BY DEF Grows, Live
  <2>2. QED
    BY <2>1 DEF RequestInv, RepliesHold, Untouched, Grows
<1>9. QED
  BY <1>3, <1>4, <1>5, <1>6, <1>7, <1>8 DEF RequestInv

-----------------------------------------------------------------------------
(***************************************************************************)
(* Steps that only read: they leave all but one request alone.             *)
(***************************************************************************)
LEMMA AwaitFacts ==
    ASSUME RequestsOK, NEW r \in Requests, NEW n \in Stages, NEW c \in Contexts,
           Await(r, n, c), UNCHANGED partner
    PROVE  /\ RequestsOK'
           /\ stage'[r] = n /\ ctx'[r] = c /\ reply'[r] = reply[r]
           /\ \A q \in Requests \ {r} :
                stage'[q] = stage[q] /\ ctx'[q] = ctx[q] /\ reply'[q] = reply[q]
BY DEF RequestsOK, Await, partner

LEMMA AnswerFacts ==
    ASSUME RequestsOK, NEW r \in Requests,
           NEW a \in [code : Codes \cup {0}, id : Ids \cup {NoId}, audited : BOOLEAN],
           Answer(r, a), UNCHANGED partner
    PROVE  /\ RequestsOK'
           /\ stage'[r] = "answered" /\ ctx' = ctx /\ reply'[r] = a
           /\ \A q \in Requests \ {r} : stage'[q] = stage[q] /\ reply'[q] = reply[q]
BY DEF RequestsOK, Answer, partner, Stages

\* The authors of companies have been answered, so that no step is theirs.
LEMMA ReadStep ==
    ASSUME IInv, NEW r \in Requests, stage[r] # "answered", Reads,
           RequestsOK', RequestInv(r)',
           \A q \in Requests \ {r} :
               stage'[q] = stage[q] /\ ctx'[q] = ctx[q] /\ reply'[q] = reply[q]
    PROVE  IInv'
<1>1. TablesOK' /\ Grows
  BY DEF IInv, TablesOK, Grows, Reads, tables
<1>2. ASSUME NEW q \in Requests \ {r}
      PROVE  RequestInv(q)'
  <2>1. RequestInv(q)
    BY DEF IInv
  <2>2. Untouched(q)
    BY <2>1 DEF Untouched, RequestInv, HistoryTrue, Reads, partner
  <2>3. QED
    BY <1>1, <2>1, <2>2, UntouchedStays DEF IInv
<1>3. \A i \in DOMAIN master : master[i].by # "old" =>
          master[i].by \in Requests \ {r}
  BY DEF IInv, Authored, TablesOK, Rows
<1>4. Authored'
  BY <1>3 DEF IInv, Authored, Reads, tables
<1>5. NoNeedlessCompany'
  BY <1>3 DEF IInv, NoNeedlessCompany, Listed, Live, Reads, tables
<1>6. QED
  BY <1>1, <1>2, <1>4, <1>5 DEF IInv

LEMMA RefuseStep ==
    ASSUME IInv, NEW r \in Requests, stage[r] # "answered", Reads,
           NEW code \in {400, 401, 403, 404, 500}, Refuse(r, code)
    PROVE  IInv'
<1> DEFINE a == [code |-> code, id |-> ctx[r].target, audited |-> TRUE]
<1>1. a \in [code : Codes \cup {0}, id : Ids \cup {NoId}, audited : BOOLEAN]
  <2>1. ctx[r] \in Contexts
    BY DEF IInv, RequestsOK
  <2>2. QED
    BY <2>1 DEF Contexts, Codes
<1>2. /\ RequestsOK'
      /\ stage'[r] = "answered" /\ ctx' = ctx
      /\ reply'[r].code = code
      /\ \A q \in Requests \ {r} : stage'[q] = stage[q] /\ reply'[q] = reply[q]
  <2>1. Answer(r, a) /\ RequestsOK /\ UNCHANGED partner
    BY DEF Refuse, IInv, Reads
  <2>2. a.code = code
    OBVIOUS
  <2> HIDE DEF a
  <2>3. QED
    BY <1>1, <2>1, <2>2, AnswerFacts
<1>3. RequestInv(r)
  BY DEF IInv
<1>4. HistoryTrue(r)'
  BY <1>2, <1>3 DEF RequestInv, HistoryTrue, Call, Live, Reads, tables, partner
<1>5. StagesFit(r)' /\ ActorsFit(r)' /\ WritesGranted(r)' /\ LookedUp(r)'
  BY <1>2 DEF StagesFit, ActorsFit, WritesGranted, LookedUp
<1>6. TargetsThere(r)'
  BY <1>2, <1>3 DEF RequestInv, TargetsThere, Call
<1>7. RepliesHold(r)'
  BY <1>2 DEF RepliesHold
<1>8. RequestInv(r)'
  BY <1>4, <1>5, <1>6, <1>7 DEF RequestInv
<1>9. QED
  BY <1>2, <1>8, ReadStep

\* What is left to show of a request that goes on is what its new stage demands.
LEMMA AwaitStep ==
    ASSUME IInv, NEW r \in Requests, stage[r] # "answered", Reads,
           NEW n \in Stages \ {"answered"}, NEW c \in Contexts, Await(r, n, c),
           c.call = ctx[r].call, c.held = ctx[r].held,
           c.known = ctx[r].known, c.gone = ctx[r].gone,
           StagesFit(r)', ActorsFit(r)', TargetsThere(r)', WritesGranted(r)', LookedUp(r)'
    PROVE  IInv'
<1>1. /\ RequestsOK'
      /\ stage'[r] = n /\ ctx'[r] = c /\ reply'[r] = reply[r]
      /\ \A q \in Requests \ {r} :
           stage'[q] = stage[q] /\ ctx'[q] = ctx[q] /\ reply'[q] = reply[q]
  BY AwaitFacts DEF IInv, Reads, partner
<1>2. RequestInv(r)
  BY DEF IInv
<1>3. HistoryTrue(r)'
  BY <1>1, <1>2 DEF RequestInv, HistoryTrue, Call, Live, Reads, tables, partner
<1>4. RepliesHold(r)'
  <2>1. reply'[r] = NoReply
    BY <1>1, <1>2 DEF RequestInv, RepliesHold
  <2>2. QED
    BY <2>1 DEF RepliesHold, NoReply
<1>5. QED
  BY <1>1, <1>3, <1>4, ReadStep DEF RequestInv

-----------------------------------------------------------------------------
(***************************************************************************)
(* One lemma per action.                                                   *)
(***************************************************************************)
LEMMA ArriveInv ==
    ASSUME IInv, NEW r \in Requests, Arrive(r)
    PROVE  IInv'
<1>1. PICK w \in Workload[r] : ctx' = [ctx EXCEPT ![r] = NewContext(w)]
  BY DEF Arrive
<1>2. w \in Calls /\ (w.op \in {"update", "delete"} => w.id # NoId)
  BY Assumptions DEF WorkloadOK
<1>3. NewContext(w) \in Contexts
  BY <1>2 DEF NewContext, Contexts, Calls, IInv, TablesOK, RequestsOK, Live
<1>4. /\ RequestsOK'
      /\ stage'[r] = "token" /\ ctx'[r] = NewContext(w) /\ reply'[r] = reply[r]
      /\ \A q \in Requests \ {r} :
           stage'[q] = stage[q] /\ ctx'[q] = ctx[q] /\ reply'[q] = reply[q]
  BY <1>1, <1>3 DEF IInv, RequestsOK, Arrive, partner, Stages
<1>5. HistoryTrue(r)'
  BY <1>4 DEF HistoryTrue, Call, NewContext, Live, Arrive, tables, partner
<1>6. StagesFit(r)' /\ ActorsFit(r)' /\ WritesGranted(r)' /\ LookedUp(r)'
  BY <1>4 DEF StagesFit, ActorsFit, WritesGranted, LookedUp
<1>7. TargetsThere(r)'
  BY <1>2, <1>4 DEF TargetsThere, Call, NewContext, Partner
<1>8. RepliesHold(r)'
  <2>1. reply'[r] = NoReply
    BY <1>4 DEF IInv, RequestInv, RepliesHold, Arrive
  <2>2. QED
    BY <2>1 DEF RepliesHold, NoReply
<1>9. Reads /\ stage[r] # "answered"
  BY DEF Arrive, Reads
<1>10. QED
  BY <1>4, <1>5, <1>6, <1>7, <1>8, <1>9, ReadStep DEF RequestInv

\* Whoever acts for a company acts for one that is on the replica.
LEMMA UsersAreThere ==
    ASSUME TablesOK, NEW w \in Calls, NEW u \in Users(w)
    PROVE  /\ u \in Ids \cup {NoId}
           /\ w.actor # "partner" => u # NoId
<1>1. DOMAIN replica \subseteq Ids /\ NoId \notin Ids
  BY Assumptions DEF TablesOK
<1>2. w.actor \in {"partner", "tenant", "tenantIntegrator", "child"}
  BY DEF Calls
<1>3. CASE w.actor = "partner"
  BY <1>3 DEF Users
<1>4. CASE w.actor = "tenant"
  BY <1>1, <1>4 DEF Users
<1>5. CASE w.actor = "tenantIntegrator"
  BY <1>1, <1>5 DEF Users, ByIntegratorId, Live
<1>6. CASE w.actor = "child"
  BY <1>1, <1>6 DEF Users
<1>7. QED
  BY <1>2, <1>3, <1>4, <1>5, <1>6

LEMMA AuthenticateInv ==
    ASSUME IInv, NEW r \in Requests, Authenticate(r)
    PROVE  IInv'
<1>1. CASE Users(Call(r)) = {}
  BY <1>1, RefuseStep DEF Authenticate
<1>2. CASE Users(Call(r)) # {}
  <2>1. PICK u \in Users(Call(r)) : Await(r, "user", [ctx[r] EXCEPT !.user = u])
    BY <1>2 DEF Authenticate
  <2> DEFINE c == [ctx[r] EXCEPT !.user = u]
  <2>2. ctx[r] \in Contexts /\ Call(r) \in Calls /\ Call(r) \in Workload[r]
    BY DEF IInv, RequestsOK, Contexts, RequestInv, HistoryTrue, Call
  <2>3. u \in Ids \cup {NoId} /\ (Call(r).op = "patch" => u # NoId)
    <3>1. Call(r).op = "patch" => Call(r).actor # "partner"
      BY <2>2, Assumptions DEF WorkloadOK
    <3>2. QED
      BY <2>2, <3>1, UsersAreThere DEF IInv
  <2>4. c \in Contexts
    BY <2>2, <2>3 DEF Contexts
  <2>5. /\ c.call = ctx[r].call /\ c.held = ctx[r].held /\ c.known = ctx[r].known
        /\ c.gone = ctx[r].gone /\ c.user = u /\ c.target = ctx[r].target
        /\ c.parent = ctx[r].parent
    BY <2>2 DEF Contexts
  <2>6. stage'[r] = "user" /\ ctx'[r] = c
    BY <2>1 DEF Await, IInv, RequestsOK
  <2>7. StagesFit(r)' /\ ActorsFit(r)' /\ WritesGranted(r)' /\ LookedUp(r)'
    BY <2>3, <2>5, <2>6 DEF StagesFit, ActorsFit, WritesGranted, LookedUp, Call
  <2>8. TargetsThere(r)'
    BY <2>5, <2>6
    DEF IInv, RequestInv, TargetsThere, Call, There, Authenticate, Reads, tables
  <2>9. stage[r] # "answered" /\ Reads /\ "user" \in Stages \ {"answered"}
    BY DEF Authenticate, Stages
  <2> HIDE DEF c
  <2>10. QED
    BY <2>1, <2>4, <2>5, <2>7, <2>8, <2>9, AwaitStep DEF c
<1>3. QED
  BY <1>1, <1>2

LEMMA FindUserInv ==
    ASSUME IInv, NEW r \in Requests, FindUser(r)
    PROVE  IInv'
<1>1. stage[r] # "answered" /\ Reads /\ "company" \in Stages \ {"answered"}
  BY DEF FindUser, Stages
<1>2. CASE ~Active(ctx[r].user)
  BY <1>1, <1>2, RefuseStep DEF FindUser
<1>3. CASE Active(ctx[r].user)
  <2>1. Await(r, "company", ctx[r])
    BY <1>3 DEF FindUser
  <2>2. stage'[r] = "company" /\ ctx'[r] = ctx[r]
    BY <2>1 DEF Await, IInv, RequestsOK
  <2>3. StagesFit(r)' /\ WritesGranted(r)' /\ LookedUp(r)'
    BY <2>2 DEF StagesFit, WritesGranted, LookedUp, Call
  <2>4. ActorsFit(r)' /\ TargetsThere(r)'
    BY <2>2
    DEF IInv, RequestInv, ActorsFit, TargetsThere, Call, There, FindUser, Reads, tables
  <2>5. ctx[r] \in Contexts
    BY DEF IInv, RequestsOK
  <2>6. QED
    BY <1>1, <2>1, <2>3, <2>4, <2>5, AwaitStep
<1>4. QED
  BY <1>2, <1>3

\* The company that acts is on the replica and not deleted there.
LEMMA ActiveIsThere ==
    ASSUME IInv, NEW r \in Requests, NEW i \in Live(replica)
    PROVE  There(r, i) /\ i # NoId /\ i \in Ids
BY Assumptions DEF IInv, RequestInv, HistoryTrue, There, Live, TablesOK

LEMMA FindCompanyInv ==
    ASSUME IInv, NEW r \in Requests, FindCompany(r)
    PROVE  IInv'
<1>1. stage[r] = "company" /\ stage[r] # "answered" /\ Reads
  BY DEF FindCompany
<1>2. {"permission", "lookup", "write", "read"} \subseteq Stages \ {"answered"}
  BY DEF Stages
<1>3. ctx[r] \in Contexts /\ RequestInv(r) /\ Call(r) \in Workload[r] /\ Call(r) \in Calls
  BY DEF IInv, RequestsOK, RequestInv, HistoryTrue, Call, Contexts
<1>4. CASE ~Active(ctx[r].user)
  BY <1>1, <1>4, RefuseStep DEF FindCompany
<1>5. CASE HandlerStarts(r) /\ Active(ctx[r].user)
  <2>1. CASE Call(r).op # "patch"
    <3> DEFINE n == IF Call(r).integratorId = "none" THEN "permission" ELSE "lookup"
    <3>1. Await(r, n, ctx[r])
      BY <1>5, <2>1 DEF HandlerStarts
    <3>2. n \in Stages \ {"answered"} /\ n \in {"permission", "lookup"}
      BY <1>2
    <3>3. Call(r).op = "upsert" => n = "lookup"
      BY <1>3, Assumptions DEF WorkloadOK
    <3> HIDE DEF n
    <3>4. stage'[r] = n /\ ctx'[r] = ctx[r]
      BY <3>1 DEF Await, IInv, RequestsOK
    <3>5. StagesFit(r)' /\ ActorsFit(r)' /\ WritesGranted(r)'
      BY <2>1, <3>2, <3>4 DEF StagesFit, ActorsFit, WritesGranted, Call
    <3>6. LookedUp(r)'
      BY <3>2, <3>3, <3>4 DEF LookedUp, Call
    <3>7. TargetsThere(r)'
      BY <1>1, <1>3, <3>2, <3>4 DEF RequestInv, TargetsThere, Call, There, Reads, tables
    <3>8. QED
      BY <1>1, <1>3, <3>1, <3>2, <3>5, <3>6, <3>7, AwaitStep
  <2>2. CASE Call(r).op = "patch" /\ Call(r).name = "null"
    BY <1>1, <1>5, <2>2, RefuseStep DEF HandlerStarts
  <2>3. CASE Call(r).op = "patch" /\ Call(r).name # "null"
    <3> DEFINE n == IF Call(r).name = "given" THEN "write" ELSE "read"
               c == [ctx[r] EXCEPT !.target = ctx[r].user]
    <3>1. Await(r, n, c)
      BY <1>3, <1>5, <2>3 DEF HandlerStarts, Calls
    <3>2. n \in Stages \ {"answered"} /\ n \in {"write", "read"}
      BY <1>2
    <3>3. ctx[r].user # NoId /\ There(r, ctx[r].user)
      BY <1>1, <1>3, <1>5, <2>3, ActiveIsThere DEF RequestInv, ActorsFit, Active
    <3>4. c \in Contexts
      BY <1>3 DEF Contexts
    <3>5. /\ c.call = ctx[r].call /\ c.held = ctx[r].held /\ c.known = ctx[r].known
          /\ c.gone = ctx[r].gone /\ c.user = ctx[r].user /\ c.target = ctx[r].user
      BY <1>3 DEF Contexts
    <3> HIDE DEF n, c
    <3>6. stage'[r] = n /\ ctx'[r] = c
      BY <3>1 DEF Await, IInv, RequestsOK
    <3>7. StagesFit(r)' /\ ActorsFit(r)' /\ WritesGranted(r)' /\ LookedUp(r)'
      BY <2>3, <3>2, <3>3, <3>5, <3>6 DEF StagesFit, ActorsFit, WritesGranted, LookedUp, Call
    <3>8. TargetsThere(r)'
      BY <1>1, <2>3, <3>2, <3>3, <3>5, <3>6 DEF TargetsThere, Call, There, Reads, tables
    <3>9. QED
      BY <1>1, <3>1, <3>2, <3>4, <3>5, <3>7, <3>8, AwaitStep
  <2>4. QED
    BY <2>1, <2>2, <2>3
<1>6. QED
  BY <1>4, <1>5 DEF FindCompany

LEMMA LookUpInv ==
    ASSUME IInv, NEW r \in Requests, LookUp(r)
    PROVE  IInv'
<1> DEFINE found == IF ctx[r].user = NoId THEN ByIntegratorId(Call(r).integratorId) ELSE {}
<1>1. stage[r] = "lookup" /\ stage[r] # "answered" /\ Reads
      /\ "permission" \in Stages \ {"answered"}
  BY DEF LookUp, Stages
<1>2. ctx[r] \in Contexts /\ RequestInv(r)
  BY DEF IInv, RequestsOK
<1>3. CASE found = {} /\ Call(r).op = "get"
  BY <1>1, <1>3, RefuseStep DEF LookUp
<1>4. CASE found = {} /\ Call(r).op # "get"
  <2>1. Await(r, "permission", ctx[r])
    BY <1>4 DEF LookUp
  <2>2. stage'[r] = "permission" /\ ctx'[r] = ctx[r]
    BY <2>1 DEF Await, IInv, RequestsOK
  <2>3. StagesFit(r)' /\ ActorsFit(r)' /\ WritesGranted(r)'
    BY <1>1, <1>2, <2>2 DEF RequestInv, StagesFit, ActorsFit, WritesGranted, Call
  <2>4. TargetsThere(r)'
    BY <1>1, <1>2, <2>2 DEF RequestInv, TargetsThere, Call, There, Reads, tables
  <2>5. ASSUME NEW i \in ctx[r].known, ctx[r].user = NoId,
               master[i].live, master[i].createdBy = Partner
        PROVE  master[i].integratorId # Call(r).integratorId
    <3>1. i \in DOMAIN replica
      BY <1>2 DEF RequestInv, HistoryTrue
    <3>2. i \in Live(replica) /\ replica[i].createdBy = Partner
          /\ replica[i].integratorId = master[i].integratorId
      BY <2>5, <3>1 DEF IInv, TablesOK, Live
    <3>3. ByIntegratorId(Call(r).integratorId) = {}
      BY <1>4, <2>5
    <3>4. QED
      BY <3>2, <3>3 DEF ByIntegratorId
  <2>6. LookedUp(r)'
    BY <1>1, <2>2, <2>5 DEF LookedUp, Call, Reads, tables
  <2>7. QED
    BY <1>1, <1>2, <2>1, <2>3, <2>4, <2>6, AwaitStep
<1>5. CASE found # {}
  <2>1. PICK i \in found :
          Await(r, "permission", [ctx[r] EXCEPT !.target = i, !.parent = Partner])
    BY <1>5 DEF LookUp
  <2> DEFINE c == [ctx[r] EXCEPT !.target = i, !.parent = Partner]
  <2>2. i \in Live(replica)
    BY DEF ByIntegratorId
  <2>3. There(r, i) /\ i # NoId /\ i \in Ids
    BY <2>2, ActiveIsThere
  <2>4. c \in Contexts
    BY <1>2, <2>3 DEF Contexts, Partner
  <2>5. /\ c.call = ctx[r].call /\ c.held = ctx[r].held /\ c.known = ctx[r].known
        /\ c.gone = ctx[r].gone /\ c.user = ctx[r].user /\ c.target = i
    BY <1>2 DEF Contexts
  <2> HIDE DEF c
  <2>6. stage'[r] = "permission" /\ ctx'[r] = c
    BY <2>1 DEF Await, IInv, RequestsOK, c
  <2>7. StagesFit(r)' /\ ActorsFit(r)' /\ WritesGranted(r)' /\ LookedUp(r)'
    BY <1>1, <1>2, <2>3, <2>5, <2>6
    DEF RequestInv, StagesFit, ActorsFit, WritesGranted, LookedUp, Call
  <2>8. TargetsThere(r)'
    BY <1>1, <2>3, <2>5, <2>6 DEF TargetsThere, Call, There, Reads, tables
  <2>9. QED
    BY <1>1, <2>1, <2>4, <2>5, <2>7, <2>8, AwaitStep DEF c
<1>6. QED
  BY <1>3, <1>4, <1>5

LEMMA CheckPermissionInv ==
    ASSUME IInv, NEW r \in Requests, CheckPermission(r)
    PROVE  IInv'
<1> DEFINE n == AfterPermission(r)
<1>1. stage[r] = "permission" /\ stage[r] # "answered" /\ Reads
  BY DEF CheckPermission
<1>2. ctx[r] \in Contexts /\ RequestInv(r)
  BY DEF IInv, RequestsOK
<1>3. CASE ctx[r].user # NoId
  BY <1>1, <1>3, RefuseStep DEF CheckPermission
<1>4. CASE ctx[r].user = NoId
  <2>1. Await(r, n, ctx[r])
    BY <1>4 DEF CheckPermission
  <2>2. /\ n \in Stages \ {"answered"} /\ n \in {"parent", "capabilities"}
        /\ (n = "parent") = (Call(r).op \in {"delete", "get"})
    BY DEF AfterPermission, Stages
  <2> HIDE DEF n
  <2>3. stage'[r] = n /\ ctx'[r] = ctx[r]
    BY <2>1 DEF Await, IInv, RequestsOK
  <2>4. StagesFit(r)' /\ ActorsFit(r)' /\ WritesGranted(r)'
    BY <1>1, <1>2, <1>4, <2>2, <2>3 DEF RequestInv, StagesFit, ActorsFit, WritesGranted, Call
  <2>5. TargetsThere(r)'
    BY <1>1, <1>2, <2>2, <2>3 DEF RequestInv, TargetsThere, Call, There, Reads, tables
  <2>6. LookedUp(r)'
    BY <1>1, <1>2, <2>3 DEF RequestInv, LookedUp, Call, Reads, tables
  <2>7. QED
    BY <1>1, <1>2, <2>1, <2>2, <2>4, <2>5, <2>6, AwaitStep
<1>5. QED
  BY <1>3, <1>4

LEMMA CheckCapabilitiesInv ==
    ASSUME IInv, NEW r \in Requests, CheckCapabilities(r)
    PROVE  IInv'
<1> DEFINE n == IF ctx[r].target = NoId THEN "write" ELSE "parent"
<1>1. stage[r] = "capabilities" /\ stage[r] # "answered" /\ Reads
  BY DEF CheckCapabilities
<1>2. ctx[r] \in Contexts /\ RequestInv(r)
  BY DEF IInv, RequestsOK
<1>3. CASE Refuse(r, 403)
  BY <1>1, <1>3, RefuseStep DEF CheckCapabilities
<1>4. ASSUME NEW found \in visible, Call(r).caps \subseteq found, Await(r, n, ctx[r])
      PROVE  IInv'
  <2>1. Await(r, n, ctx[r])
    BY <1>4
  <2>2. /\ n \in Stages \ {"answered"} /\ n \in {"parent", "write"}
        /\ (n = "write") = (ctx[r].target = NoId)
    BY DEF Stages
  <2> HIDE DEF n
  <2>3. stage'[r] = n /\ ctx'[r] = ctx[r]
    BY <2>1 DEF Await, IInv, RequestsOK
  <2>4. StagesFit(r)' /\ ActorsFit(r)'
    BY <1>1, <1>2, <2>2, <2>3 DEF RequestInv, StagesFit, ActorsFit, Call
  <2>5. WritesGranted(r)'
    BY <1>2, <1>4, <2>3 DEF RequestInv, HistoryTrue, WritesGranted, Granted, Call
  <2>6. TargetsThere(r)'
    BY <1>1, <1>2, <2>2, <2>3
    DEF RequestInv, StagesFit, TargetsThere, Call, There, Reads, tables
  <2>7. LookedUp(r)'
    BY <1>1, <1>2, <2>3 DEF RequestInv, LookedUp, Call, Reads, tables
  <2>8. QED
    BY <1>1, <1>2, <2>1, <2>2, <2>4, <2>5, <2>6, <2>7, AwaitStep
<1>5. QED
  BY <1>3, <1>4 DEF CheckCapabilities

LEMMA CheckParentInv ==
    ASSUME IInv, NEW r \in Requests, CheckParent(r)
    PROVE  IInv'
<1> DEFINE n == IF Call(r).op = "get" THEN "read" ELSE "write"
<1>1. stage[r] = "parent" /\ stage[r] # "answered" /\ Reads
  BY DEF CheckParent
<1>2. ctx[r] \in Contexts /\ RequestInv(r)
  BY DEF IInv, RequestsOK
<1>3. n \in Stages \ {"answered"} /\ n \in {"read", "write"} /\ (n = "read") = (Call(r).op = "get")
  BY DEF Stages
<1>4. ASSUME NEW c \in Contexts, Await(r, n, c), There(r, ctx[r].target),
             c.call = ctx[r].call, c.held = ctx[r].held, c.known = ctx[r].known,
             c.gone = ctx[r].gone, c.user = ctx[r].user, c.target = ctx[r].target
      PROVE  IInv'
  <2> HIDE DEF n
  <2>1. stage'[r] = n /\ ctx'[r] = c
    BY <1>4 DEF Await, IInv, RequestsOK
  <2>2. ctx[r].target # NoId
    BY <1>4, Assumptions DEF There, IInv, TablesOK
  <2>3. StagesFit(r)' /\ ActorsFit(r)'
    BY <1>1, <1>2, <1>3, <1>4, <2>1 DEF RequestInv, StagesFit, ActorsFit, Call
  <2>4. WritesGranted(r)'
    BY <1>1, <1>2, <1>4, <2>1 DEF RequestInv, WritesGranted, Granted, Call
  <2>5. TargetsThere(r)'
    BY <1>1, <1>3, <1>4, <2>1, <2>2 DEF TargetsThere, Call, There, Reads, tables
  <2>6. LookedUp(r)'
    BY <1>4, <2>1, <2>2 DEF LookedUp
  <2>7. QED
    BY <1>1, <1>3, <1>4, <2>3, <2>4, <2>5, <2>6, AwaitStep
<1>5. CASE ctx[r].parent = Partner
  <2>1. Await(r, n, ctx[r])
    BY <1>5 DEF CheckParent
  <2>2. There(r, ctx[r].target)
    BY <1>1, <1>2, <1>5 DEF RequestInv, TargetsThere
  <2>3. QED
    BY <1>2, <1>4, <2>1, <2>2
<1>6. CASE ctx[r].parent # Partner /\ Found(ctx[r].target) # {}
           /\ replica[ctx[r].target].createdBy = Partner
  <2> DEFINE c == [ctx[r] EXCEPT !.parent = Partner]
  <2>1. Await(r, n, c)
    BY <1>6 DEF CheckParent
  <2>2. There(r, ctx[r].target)
    BY <1>6, ActiveIsThere DEF Found
  <2>3. /\ c \in Contexts /\ c.call = ctx[r].call /\ c.held = ctx[r].held
        /\ c.known = ctx[r].known /\ c.gone = ctx[r].gone /\ c.user = ctx[r].user
        /\ c.target = ctx[r].target
    BY <1>2 DEF Contexts
  <2> HIDE DEF n, c
  <2>4. QED
    BY <1>4, <2>1, <2>2, <2>3
<1>7. CASE ctx[r].parent # Partner /\ (Found(ctx[r].target) = {}
           \/ replica[ctx[r].target].createdBy # Partner)
  <2>1. Refuse(r, 404) \/ Refuse(r, 403)
    BY <1>7 DEF CheckParent
  <2>2. QED
    BY <1>1, <2>1, RefuseStep
<1>8. QED
  BY <1>5, <1>6, <1>7

LEMMA ReadCapabilitiesInv ==
    ASSUME IInv, NEW r \in Requests, ReadCapabilities(r)
    PROVE  IInv'
<1> DEFINE a == [code |-> 200, id |-> ctx[r].target, audited |-> TRUE]
<1>1. stage[r] = "read" /\ stage[r] # "answered" /\ Reads /\ Answer(r, a)
  BY DEF ReadCapabilities
<1>2. ctx[r] \in Contexts /\ RequestInv(r)
  BY DEF IInv, RequestsOK
<1>3. a \in [code : Codes \cup {0}, id : Ids \cup {NoId}, audited : BOOLEAN]
  BY <1>2 DEF Contexts, Codes
<1>4. a.code = 200 /\ a.id = ctx[r].target
  OBVIOUS
<1> HIDE DEF a
<1>5. /\ RequestsOK'
      /\ stage'[r] = "answered" /\ ctx' = ctx /\ reply'[r] = a
      /\ \A q \in Requests \ {r} : stage'[q] = stage[q] /\ reply'[q] = reply[q]
  BY <1>1, <1>3, AnswerFacts DEF IInv, Reads
<1>6. a.id \notin ctx[r].gone
  BY <1>1, <1>2, <1>4, Assumptions
  DEF RequestInv, TargetsThere, HistoryTrue, There, IInv, TablesOK
<1>7. HistoryTrue(r)'
  BY <1>1, <1>2, <1>5 DEF RequestInv, HistoryTrue, Call, Live, Reads, tables, partner
<1>8. StagesFit(r)' /\ ActorsFit(r)' /\ WritesGranted(r)' /\ LookedUp(r)'
  BY <1>5 DEF StagesFit, ActorsFit, WritesGranted, LookedUp
<1>9. TargetsThere(r)'
  BY <1>2, <1>5 DEF RequestInv, TargetsThere, Call
<1>10. RepliesHold(r)'
  BY <1>4, <1>5, <1>6 DEF RepliesHold
<1>11. QED
  BY <1>1, <1>5, <1>7, <1>8, <1>9, <1>10, ReadStep DEF RequestInv

LEMMA FailInv ==
    ASSUME IInv, NEW r \in Requests, Fail(r)
    PROVE  IInv'
BY RefuseStep DEF Fail

-----------------------------------------------------------------------------
(***************************************************************************)
(* The writes.                                                             *)
(***************************************************************************)
\* A write that puts another row in the place of a company's.
LEMMA RowStep ==
    ASSUME TablesOK, NEW i \in DOMAIN master, NEW row \in Rows,
           row.createdBy = master[i].createdBy,
           row.integratorId = master[i].integratorId,
           row.by = master[i].by, row.live => master[i].live,
           master' = [master EXCEPT ![i] = row], replica' = replica
    PROVE  TablesOK' /\ Grows /\ DOMAIN master' = DOMAIN master
<1>1. /\ DOMAIN master' = DOMAIN master
      /\ master'[i] = row
      /\ \A j \in DOMAIN master \ {i} : master'[j] = master[j]
  OBVIOUS
<1>2. master' \in [DOMAIN master' -> Rows]
  BY DEF TablesOK
<1>3. \A j \in DOMAIN master :
        /\ master'[j].createdBy = master[j].createdBy
        /\ master'[j].integratorId = master[j].integratorId
        /\ master'[j].by = master[j].by
        /\ master'[j].live => master[j].live
  BY <1>1
<1>4. TablesOK'
  BY <1>1, <1>2, <1>3 DEF TablesOK
<1>5. QED
  BY <1>1, <1>3, <1>4 DEF Grows

\* A write of a request that goes on or ends, after which no company of another
\* author is new.
LEMMA WriteStep ==
    ASSUME IInv, NEW r \in Requests, stage[r] = "write",
           TablesOK', Grows, RequestsOK', RequestInv(r)', UNCHANGED <<capabilities, visible>>,
           \A q \in Requests \ {r} :
               stage'[q] = stage[q] /\ ctx'[q] = ctx[q] /\ reply'[q] = reply[q],
           ctx'[r].known = ctx[r].known,
           \A i \in DOMAIN master' \ DOMAIN master : master'[i].by = r,
           (DOMAIN master' # DOMAIN master) => stage'[r] = "answered",
           \A i \in Listed(master), j \in Listed(master)' \ DOMAIN master :
               master'[i].integratorId = master'[j].integratorId
               /\ master'[i].integratorId # "none" => i \notin ctx[r].known,
           \A i, j \in DOMAIN master' \ DOMAIN master : i = j
    PROVE  IInv'
<1>1. ASSUME NEW q \in Requests \ {r}
      PROVE  RequestInv(q)'
  <2>1. RequestInv(q)
    BY DEF IInv
  <2>2. Untouched(q)
    BY <2>1 DEF Untouched, RequestInv, HistoryTrue
  <2>3. QED
    BY <2>1, <2>2, UntouchedStays DEF IInv
<1>2. \A i \in DOMAIN master : master[i].by # "old" => master[i].by \in Requests \ {r}
  BY DEF IInv, Authored, TablesOK, Rows
<1>3. \A i \in DOMAIN master : master'[i].by = master[i].by
  BY DEF Grows
<1>4. Authored'
  <2>1. ASSUME NEW i \in DOMAIN master', master'[i].by # "old"
        PROVE  stage'[master'[i].by] = "answered"
    <3>1. CASE i \in DOMAIN master
      BY <1>2, <1>3, <2>1, <3>1 DEF IInv, Authored
    <3>2. CASE i \notin DOMAIN master
      BY <3>2
    <3>3. QED
      BY <3>1, <3>2
  <2>2. QED
    BY <2>1 DEF Authored
<1>5. NoNeedlessCompany'
  <2>1. SUFFICES ASSUME NEW i \in Listed(master)', NEW j \in Listed(master)', i # j,
                        master'[i].integratorId = master'[j].integratorId,
                        master'[i].integratorId # "none", master'[j].by # "old"
                 PROVE  i \notin ctx'[master'[j].by].known
    BY DEF NoNeedlessCompany
  <2>2. \A k \in Listed(master)' : k \in DOMAIN master => k \in Listed(master)
    BY DEF Listed, Live, Grows
  <2>3. \A q \in Requests : ctx'[q].known = ctx[q].known
    OBVIOUS
  <2>4. \A q \in Requests : ctx[q].known \subseteq DOMAIN master
    BY DEF IInv, RequestInv, HistoryTrue, TablesOK
  <2>5. master'[j].by \in Requests
    BY <1>2, <1>3, <2>1 DEF Listed, Live
  <2>6. CASE i \notin DOMAIN master
    BY <2>3, <2>4, <2>5, <2>6
  <2>7. CASE i \in DOMAIN master /\ j \in DOMAIN master
    <3>1. i \in Listed(master) /\ j \in Listed(master)
      BY <2>2, <2>7
    <3>2. /\ master[i].integratorId = master[j].integratorId
          /\ master[i].integratorId # "none" /\ master[j].by # "old"
      BY <2>1, <2>7 DEF Grows
    <3>3. i \notin ctx[master[j].by].known
      BY <2>1, <3>1, <3>2 DEF IInv, NoNeedlessCompany
    <3>4. QED
      BY <1>3, <2>3, <2>5, <2>7, <3>3
  <2>8. CASE i \in DOMAIN master /\ j \notin DOMAIN master
    <3>1. i \in Listed(master) /\ j \in DOMAIN master' \ DOMAIN master
      BY <2>2, <2>8 DEF Listed, Live
    <3>2. master'[j].by = r
      BY <3>1
    <3>3. QED
      BY <2>1, <2>3, <2>8, <3>1, <3>2
  <2>9. QED
    BY <2>6, <2>7, <2>8
<1>6. QED
  BY <1>1, <1>4, <1>5 DEF IInv

LEMMA CreateInv ==
    ASSUME IInv, NEW r \in Requests, Create(r)
    PROVE  IInv'
<1>1. stage[r] = "write" /\ Call(r).op \in {"create", "upsert"} /\ ctx[r].target = NoId
      /\ UNCHANGED <<replica, capabilities, visible, changes>>
  BY DEF Create, partner
<1>2. PICK i \in Fresh, audited \in BOOLEAN :
        /\ master' = Committed(audited, [j \in DOMAIN master \cup {i} |->
                                           IF j = i THEN NewRow(r) ELSE master[j]])
        /\ Answer(r, [code |-> 201, id |-> i, audited |-> audited])
  BY DEF Create
<1> DEFINE a == [code |-> 201, id |-> i, audited |-> audited]
<1>3. ctx[r] \in Contexts /\ Call(r) \in Calls /\ Call(r) \in Workload[r] /\ RequestInv(r)
  BY DEF IInv, RequestsOK, Contexts, Call, RequestInv, HistoryTrue
<1>4. i \in Ids /\ i \notin DOMAIN master /\ \A q \in Requests : reply[q].id # i
  BY DEF Fresh
<1>5. a \in [code : Codes \cup {0}, id : Ids \cup {NoId}, audited : BOOLEAN]
      /\ a.code = 201 /\ a.id = i /\ a.audited = audited
  BY <1>4 DEF Codes
<1> HIDE DEF a
<1>6. /\ RequestsOK'
      /\ stage'[r] = "answered" /\ ctx' = ctx /\ reply'[r] = a
      /\ \A q \in Requests \ {r} : stage'[q] = stage[q] /\ reply'[q] = reply[q]
  <2>1. Answer(r, a) /\ UNCHANGED partner
    BY <1>1, <1>2 DEF a, partner
  <2>2. QED
    BY <1>5, <2>1, AnswerFacts DEF IInv
<1>7. NewRow(r) \in Rows
  BY <1>3 DEF NewRow, Rows, Calls, Partner
<1>8. /\ DOMAIN master \subseteq DOMAIN master' /\ DOMAIN master' \subseteq DOMAIN master \cup {i}
      /\ \A j \in DOMAIN master : master'[j] = master[j]
      /\ \A j \in DOMAIN master' \ DOMAIN master : j = i /\ master'[j] = NewRow(r)
      /\ audited => i \in DOMAIN master'
      /\ master' \in [DOMAIN master' -> Rows]
  <2>1. CASE audited
    <3>1. master' = [j \in DOMAIN master \cup {i} |-> IF j = i THEN NewRow(r) ELSE master[j]]
      BY <1>2, <2>1 DEF Committed
    <3>2. QED
      BY <1>4, <1>7, <3>1 DEF IInv, TablesOK
  <2>2. CASE ~audited
    BY <1>2, <2>2 DEF Committed, IInv, TablesOK
  <2>3. QED
    BY <2>1, <2>2
<1>9. TablesOK' /\ Grows
  BY <1>1, <1>4, <1>8 DEF IInv, TablesOK, Grows
<1>10. NewRow(r).by = r /\ NewRow(r).integratorId = Call(r).integratorId
  BY DEF NewRow
<1>11. ASSUME NEW k \in Listed(master), Call(r).integratorId # "none",
              master[k].integratorId = Call(r).integratorId
       PROVE  k \notin ctx[r].known
  <2>1. Call(r).op = "upsert"
    BY <1>1, <1>3, <1>11, Assumptions DEF WorkloadOK
  <2>2. ctx[r].user = NoId
    BY <1>1, <1>3, <2>1 DEF RequestInv, ActorsFit
  <2>3. QED
    BY <1>1, <1>3, <1>11, <2>1, <2>2 DEF RequestInv, LookedUp, Listed, Live
<1>12. \A k \in Listed(master), j \in Listed(master)' \ DOMAIN master :
         master'[k].integratorId = master'[j].integratorId
         /\ master'[k].integratorId # "none" => k \notin ctx[r].known
  BY <1>8, <1>10, <1>11 DEF Listed, Live
<1>13. HistoryTrue(r)'
  BY <1>1, <1>3, <1>6 DEF RequestInv, HistoryTrue, Call, Live
<1>14. StagesFit(r)' /\ ActorsFit(r)' /\ WritesGranted(r)' /\ LookedUp(r)'
  BY <1>6 DEF StagesFit, ActorsFit, WritesGranted, LookedUp
<1>15. TargetsThere(r)'
  BY <1>3, <1>6 DEF RequestInv, TargetsThere, Call
<1>16. RepliesHold(r)'
  <2>1. i \notin ctx[r].gone
    BY <1>3, <1>4 DEF RequestInv, HistoryTrue, IInv, TablesOK
  <2>2. audited => i \in DOMAIN master' /\ master'[i].by = r
    BY <1>4, <1>8, <1>10
  <2>3. QED
    BY <1>5, <1>6, <2>1, <2>2 DEF RepliesHold
<1>17. RequestInv(r)'
  BY <1>13, <1>14, <1>15, <1>16 DEF RequestInv
<1>18. QED
  BY <1>1, <1>6, <1>8, <1>9, <1>10, <1>12, <1>17, WriteStep

\* What an update, a deletion and a PATCH do to the requests: they answer, or go
\* on, about a company that is on the replica.
LEMMA TargetIsThere ==
    ASSUME IInv, NEW r \in Requests, stage[r] = "write",
           Call(r).op \in {"update", "delete", "patch"} \/ ctx[r].target # NoId
    PROVE  /\ ctx[r].target \in DOMAIN replica /\ ctx[r].target \in DOMAIN master
           /\ ctx[r].target \notin ctx[r].gone /\ ctx[r].target \in Ids
           /\ master[ctx[r].target] \in Rows
<1>1. TargetsThere(r)
  BY DEF IInv, RequestInv
<1>2. There(r, ctx[r].target)
  BY <1>1 DEF TargetsThere
<1>3. QED
  BY <1>2 DEF There, IInv, TablesOK

LEMMA AnsweredWrite ==
    ASSUME IInv, NEW r \in Requests, stage[r] = "write", NEW code \in {200, 204},
           NEW audited \in BOOLEAN,
           Answer(r, [code |-> code, id |-> ctx[r].target, audited |-> audited]),
           ctx[r].target \in DOMAIN master, ctx[r].target \notin ctx[r].gone,
           TablesOK', Grows, DOMAIN master' = DOMAIN master,
           replica' = replica, UNCHANGED partner,
           code = 204 /\ audited => ctx[r].target \notin Live(master)'
    PROVE  IInv'
<1> DEFINE a == [code |-> code, id |-> ctx[r].target, audited |-> audited]
<1>1. ctx[r] \in Contexts /\ RequestInv(r)
  BY DEF IInv, RequestsOK
<1>2. a \in [code : Codes \cup {0}, id : Ids \cup {NoId}, audited : BOOLEAN]
      /\ a.code = code /\ a.id = ctx[r].target /\ a.audited = audited
  BY <1>1 DEF Contexts, Codes
<1>3. Answer(r, a)
  OBVIOUS
<1> HIDE DEF a
<1>4. /\ RequestsOK'
      /\ stage'[r] = "answered" /\ ctx' = ctx /\ reply'[r] = a
      /\ \A q \in Requests \ {r} : stage'[q] = stage[q] /\ reply'[q] = reply[q]
  BY <1>2, <1>3, AnswerFacts DEF IInv
<1>5. HistoryTrue(r)'
  BY <1>1, <1>4 DEF RequestInv, HistoryTrue, Call, Live, partner
<1>6. StagesFit(r)' /\ ActorsFit(r)' /\ WritesGranted(r)' /\ LookedUp(r)'
  BY <1>4 DEF StagesFit, ActorsFit, WritesGranted, LookedUp
<1>7. TargetsThere(r)'
  BY <1>1, <1>4 DEF RequestInv, TargetsThere, Call
<1>8. RepliesHold(r)'
  BY <1>2, <1>4 DEF RepliesHold
<1>9. RequestInv(r)'
  BY <1>5, <1>6, <1>7, <1>8 DEF RequestInv
<1>10. QED
  BY <1>4, <1>9, WriteStep DEF partner, Listed, Live

LEMMA UpdateInv ==
    ASSUME IInv, NEW r \in Requests, Update(r)
    PROVE  IInv'
<1> DEFINE i == ctx[r].target
           row == Updated(r, master[i])
<1>1. stage[r] = "write" /\ i # NoId /\ replica' = replica /\ UNCHANGED partner
  BY DEF Update
<1>2. /\ i \in DOMAIN master /\ i \notin ctx[r].gone /\ master[i] \in Rows
  BY <1>1, TargetIsThere
<1>3. Call(r).caps \in UNION {SUBSET g : g \in Grants}
  BY DEF IInv, RequestsOK, Contexts, Call, Calls
<1>4. /\ row \in Rows /\ row.createdBy = master[i].createdBy
      /\ row.integratorId = master[i].integratorId /\ row.by = master[i].by
      /\ row.live = master[i].live
  BY <1>2, <1>3 DEF Rows, Updated
<1>5. master' = [master EXCEPT ![i] = row]
  BY DEF Update
<1>6. Answer(r, [code |-> 200, id |-> i, audited |-> TRUE])
  BY DEF Update
<1> HIDE DEF row
<1>7. TablesOK' /\ Grows /\ DOMAIN master' = DOMAIN master
  BY <1>1, <1>2, <1>4, <1>5, RowStep DEF IInv
<1>8. QED
  <2> DEFINE code == 200
             audited == TRUE
  <2>1. code \in {200, 204} /\ code # 204 /\ audited \in BOOLEAN
    OBVIOUS
  <2>2. Answer(r, [code |-> code, id |-> ctx[r].target, audited |-> audited])
    BY <1>6
  <2> HIDE DEF code, audited
  <2>3. QED
    BY <1>1, <1>2, <1>7, <2>1, <2>2, AnsweredWrite

LEMMA DeleteInv ==
    ASSUME IInv, NEW r \in Requests, Delete(r)
    PROVE  IInv'
<1> DEFINE i == ctx[r].target
           row == [master[i] EXCEPT !.live = FALSE]
<1>1. stage[r] = "write" /\ Call(r).op = "delete" /\ replica' = replica /\ UNCHANGED partner
  BY DEF Delete
<1>2. /\ i \in DOMAIN master /\ i \notin ctx[r].gone /\ master[i] \in Rows
  BY <1>1, TargetIsThere
<1>3. PICK audited \in BOOLEAN :
        /\ master' = Committed(audited, [master EXCEPT ![i].live = FALSE])
        /\ Answer(r, [code |-> 204, id |-> i, audited |-> audited])
  BY DEF Delete
<1>4. /\ row \in Rows /\ row.createdBy = master[i].createdBy
      /\ row.integratorId = master[i].integratorId /\ row.by = master[i].by
      /\ ~row.live
  BY <1>2 DEF Rows
<1>5. TablesOK' /\ Grows /\ DOMAIN master' = DOMAIN master
      /\ (audited => i \notin Live(master)')
  <2>1. CASE audited
    <3>1. master' = [master EXCEPT ![i] = row]
      BY <1>3, <2>1 DEF Committed
    <3> HIDE DEF row
    <3>2. TablesOK' /\ Grows /\ DOMAIN master' = DOMAIN master
      BY <1>1, <1>2, <1>4, <3>1, RowStep DEF IInv
    <3>3. i \notin Live(master)'
      BY <1>2, <1>4, <3>1 DEF Live
    <3>4. QED
      BY <3>2, <3>3
  <2>2. CASE ~audited
    BY <1>1, <1>3, <2>2 DEF Committed, IInv, TablesOK, Grows
  <2>3. QED
    BY <2>1, <2>2
<1>6. QED
  <2>1. 204 \in {200, 204} /\ audited \in BOOLEAN
    OBVIOUS
  <2>2. Answer(r, [code |-> 204, id |-> ctx[r].target, audited |-> audited])
    BY <1>3
  <2>3. QED
    BY <1>1, <1>2, <1>5, <2>1, <2>2, AnsweredWrite

LEMMA PatchInv ==
    ASSUME IInv, NEW r \in Requests, Patch(r)
    PROVE  IInv'
<1> DEFINE i == ctx[r].target
           row == [master[i] EXCEPT !.name = r]
           c == IF master[i].live THEN ctx[r] ELSE [ctx[r] EXCEPT !.target = NoId]
<1>1. stage[r] = "write" /\ Call(r).op = "patch" /\ replica' = replica /\ UNCHANGED partner
  BY DEF Patch
<1>2. /\ i \in DOMAIN master /\ i \in DOMAIN replica /\ i \notin ctx[r].gone
      /\ master[i] \in Rows
  BY <1>1, TargetIsThere
<1>3. ctx[r] \in Contexts /\ RequestInv(r)
  BY DEF IInv, RequestsOK
<1>4. /\ row \in Rows /\ row.createdBy = master[i].createdBy
      /\ row.integratorId = master[i].integratorId /\ row.by = master[i].by
      /\ row.live = master[i].live
  BY <1>2 DEF Rows
<1>5. /\ c \in Contexts /\ c.call = ctx[r].call /\ c.held = ctx[r].held
      /\ c.known = ctx[r].known /\ c.gone = ctx[r].gone /\ c.user = ctx[r].user
      /\ c.target \in {i, NoId}
  BY <1>3 DEF Contexts
<1>6. Await(r, "read", c)
  BY DEF Patch
<1>7. TablesOK' /\ Grows /\ DOMAIN master' = DOMAIN master
  <2>1. CASE master[i].live
    <3>1. master' = [master EXCEPT ![i] = row]
      BY <2>1 DEF Patch
    <3> HIDE DEF row
    <3>2. QED
      BY <1>1, <1>2, <1>4, <3>1, RowStep DEF IInv
  <2>2. CASE ~master[i].live
    <3>1. master' = master
      BY <2>2 DEF Patch
    <3>2. QED
      BY <1>1, <3>1 DEF IInv, TablesOK, Grows
  <2>3. QED
    BY <2>1, <2>2
<1> HIDE DEF c
<1>8. /\ RequestsOK'
      /\ stage'[r] = "read" /\ ctx'[r] = c /\ reply'[r] = reply[r]
      /\ \A q \in Requests \ {r} :
           stage'[q] = stage[q] /\ ctx'[q] = ctx[q] /\ reply'[q] = reply[q]
  <2>1. "read" \in Stages
    BY DEF Stages
  <2>2. QED
    BY <1>1, <1>5, <1>6, <2>1, AwaitFacts DEF IInv
<1>9. HistoryTrue(r)'
  BY <1>1, <1>3, <1>5, <1>8 DEF RequestInv, HistoryTrue, Call, Live, partner
<1>10. StagesFit(r)' /\ ActorsFit(r)' /\ WritesGranted(r)' /\ LookedUp(r)'
  BY <1>1, <1>3, <1>5, <1>8 
  DEF RequestInv, StagesFit, ActorsFit, WritesGranted, LookedUp, Call
<1>11. TargetsThere(r)'
  BY <1>1, <1>2, <1>5, <1>8 DEF TargetsThere, Call, There
<1>12. RepliesHold(r)'
  <2>1. reply'[r] = NoReply
    BY <1>1, <1>3, <1>8 DEF RequestInv, RepliesHold
  <2>2. QED
    BY <2>1 DEF RepliesHold, NoReply
<1>13. RequestInv(r)'
  BY <1>9, <1>10, <1>11, <1>12 DEF RequestInv
<1>14. QED
  BY <1>1, <1>5, <1>7, <1>8, <1>13, WriteStep DEF partner, Listed, Live

-----------------------------------------------------------------------------
(***************************************************************************)
(* Steps that are nobody's request.                                        *)
(***************************************************************************)
LEMMA ReplicateInv ==
    ASSUME IInv, Replicate
    PROVE  IInv'
<1>1. replica' = master /\ UNCHANGED <<master, capabilities, visible, changes, stage, ctx, reply>>
  BY DEF Replicate, partner, requests
<1>2. TablesOK' /\ Grows
  BY <1>1 DEF IInv, TablesOK, Grows
<1>3. RequestsOK'
  BY <1>1 DEF IInv, RequestsOK
<1>4. Authored' /\ NoNeedlessCompany'
  BY <1>1 DEF IInv, Authored, NoNeedlessCompany, Listed, Live
<1>5. ASSUME NEW q \in Requests
      PROVE  RequestInv(q)'
  <2>1. RequestInv(q)
    BY DEF IInv
  <2>2. Untouched(q)
    BY <1>1, <2>1 DEF Untouched, RequestInv, HistoryTrue
  <2>3. QED
    BY <1>2, <2>1, <2>2, UntouchedStays DEF IInv
<1>6. QED
  BY <1>2, <1>3, <1>4, <1>5 DEF IInv

LEMMA ChangeCapabilitiesInv ==
    ASSUME IInv, ChangeCapabilities
    PROVE  IInv'
<1>1. UNCHANGED <<master, replica, stage, reply>>
  BY DEF ChangeCapabilities, tables
<1>2. TablesOK' /\ Grows
  BY <1>1 DEF IInv, TablesOK, Grows
<1>3. /\ capabilities' \in Grants /\ changes' \in 0..MaxChanges
      /\ visible' = visible \cup {capabilities'} /\ visible \subseteq Grants
  BY Assumptions DEF ChangeCapabilities, IInv, RequestsOK
<1>4. ASSUME NEW q \in Requests
      PROVE  /\ ctx'[q] \in Contexts
             /\ ctx'[q].call = ctx[q].call /\ ctx'[q].user = ctx[q].user
             /\ ctx'[q].target = ctx[q].target /\ ctx'[q].parent = ctx[q].parent
             /\ ctx'[q].known = ctx[q].known /\ ctx'[q].gone = ctx[q].gone
             /\ ctx'[q].held = ctx[q].held \cup {capabilities'}
  <2>1. ctx'[q] = [ctx[q] EXCEPT !.held = @ \cup {capabilities'}]
    BY DEF ChangeCapabilities
  <2>2. ctx[q] \in Contexts
    BY DEF IInv, RequestsOK
  <2>3. QED
    BY <1>3, <2>1, <2>2 DEF Contexts
<1>5. RequestsOK'
  <2>1. ctx' = [q \in Requests |-> ctx'[q]]
    BY DEF ChangeCapabilities
  <2>2. QED
    BY <1>1, <1>3, <1>4, <2>1 DEF IInv, RequestsOK
<1>6. Authored'
  BY <1>1 DEF IInv, Authored
<1>7. NoNeedlessCompany'
  <2>1. \A j \in DOMAIN master : master[j].by # "old" => master[j].by \in Requests
    BY DEF IInv, TablesOK, Rows
  <2>2. QED
    BY <1>1, <1>4, <2>1 DEF IInv, NoNeedlessCompany, Listed, Live
<1>8. ASSUME NEW q \in Requests
      PROVE  RequestInv(q)'
  <2>1. RequestInv(q)
    BY DEF IInv
  <2>2. Untouched(q)
    BY <1>1, <1>3, <1>4, <2>1 DEF Untouched, RequestInv, HistoryTrue
  <2>3. QED
    BY <1>2, <2>1, <2>2, UntouchedStays DEF IInv
<1>9. QED
  BY <1>2, <1>5, <1>6, <1>7, <1>8 DEF IInv

LEMMA ReplicateCapabilitiesInv ==
    ASSUME IInv, ReplicateCapabilities
    PROVE  IInv'
<1>1. /\ UNCHANGED <<master, replica, capabilities, changes, stage, ctx, reply>>
      /\ visible' \subseteq visible /\ capabilities \in visible'
  BY DEF ReplicateCapabilities, tables, requests
<1>2. TablesOK' /\ RequestsOK' /\ Authored' /\ NoNeedlessCompany'
  BY <1>1 DEF IInv, TablesOK, RequestsOK, Authored, NoNeedlessCompany, Listed, Live
<1>3. ASSUME NEW q \in Requests
      PROVE  RequestInv(q)'
  BY <1>1 DEF IInv, RequestInv, HistoryTrue, StagesFit, ActorsFit, TargetsThere, There,
              WritesGranted, Granted, LookedUp, RepliesHold, Call, Live
<1>4. QED
  BY <1>2, <1>3 DEF IInv

LEMMA StutterInv ==
    ASSUME IInv, UNCHANGED <<tables, partner, requests>>
    PROVE  IInv'
<1>1. UNCHANGED <<master, replica, capabilities, visible, changes, stage, ctx, reply>>
  BY DEF tables, partner, requests
<1>2. TablesOK' /\ RequestsOK' /\ Authored' /\ NoNeedlessCompany'
  BY <1>1 DEF IInv, TablesOK, RequestsOK, Authored, NoNeedlessCompany, Listed, Live
<1>3. ASSUME NEW q \in Requests
      PROVE  RequestInv(q)'
  BY <1>1 DEF IInv, RequestInv, HistoryTrue, StagesFit, ActorsFit, TargetsThere, There,
              WritesGranted, Granted, LookedUp, RepliesHold, Call, Live
<1>4. QED
  BY <1>2, <1>3 DEF IInv

LEMMA HandlesInv ==
    ASSUME IInv, NEW r \in Requests, Handles(r)
    PROVE  IInv'
BY ArriveInv, AuthenticateInv, FindUserInv, FindCompanyInv, LookUpInv, CheckPermissionInv,
   CheckCapabilitiesInv, CheckParentInv, CreateInv, UpdateInv, DeleteInv, PatchInv,
   ReadCapabilitiesInv, FailInv
DEF Handles

LEMMA InitInv ==
    ASSUME Init
    PROVE  IInv
<1>1. /\ master = Existing /\ replica = Existing /\ capabilities \in Grants /\ changes = 0
      /\ visible = {capabilities}
      /\ stage = [r \in Requests |-> "idle"] /\ reply = [r \in Requests |-> NoReply]
  BY DEF Init
<1>2. TablesOK
  BY <1>1, Assumptions DEF TablesOK
<1>3. ASSUME NEW r \in Requests
      PROVE  \E w \in Workload[r] : ctx[r] = NewContext(w)
  <2>1. ctx[r] = NewContext(CHOOSE w \in Workload[r] : TRUE)
    BY DEF Init
  <2>2. (CHOOSE w \in Workload[r] : TRUE) \in Workload[r]
    BY Assumptions DEF WorkloadOK
  <2>3. QED
    BY <2>1, <2>2
<1>4. ASSUME NEW r \in Requests
      PROVE  ctx[r] \in Contexts /\ RequestInv(r)
  <2>1. PICK w \in Workload[r] : ctx[r] = NewContext(w)
    BY <1>3
  <2>2. w \in Calls /\ (w.op \in {"update", "delete"} => w.id # NoId)
    BY Assumptions DEF WorkloadOK
  <2>3. ctx[r] \in Contexts
    BY <1>1, <1>2, <2>1, <2>2 DEF NewContext, Contexts, Calls, TablesOK, Live
  <2>4. HistoryTrue(r)
    BY <2>1 DEF HistoryTrue, Call, NewContext, Live
  <2>5. StagesFit(r) /\ ActorsFit(r) /\ WritesGranted(r) /\ LookedUp(r)
    BY <1>1 DEF StagesFit, ActorsFit, WritesGranted, LookedUp
  <2>6. TargetsThere(r)
    BY <1>1, <2>1, <2>2 DEF TargetsThere, Call, NewContext
  <2>7. RepliesHold(r)
    BY <1>1 DEF RepliesHold, NoReply
  <2>8. QED
    BY <2>3, <2>4, <2>5, <2>6, <2>7 DEF RequestInv
<1>5. RequestsOK
  <2>1. ctx = [r \in Requests |-> ctx[r]]
    BY DEF Init
  <2>2. NoReply \in [code : Codes \cup {0}, id : Ids \cup {NoId}, audited : BOOLEAN]
    BY DEF NoReply
  <2>3. QED
    BY <1>1, <1>4, <2>1, <2>2, Assumptions DEF RequestsOK, Stages
<1>6. Authored /\ NoNeedlessCompany
  BY <1>1, Assumptions DEF Authored, NoNeedlessCompany, Listed, Live
<1>7. QED
  BY <1>2, <1>4, <1>5, <1>6 DEF IInv

LEMMA NextInv ==
    ASSUME IInv, [Next]_vars
    PROVE  IInv'
<1>1. ASSUME NEW r \in Requests, Handles(r)
      PROVE  IInv'
  BY <1>1, HandlesInv
<1>2. CASE WalkForward \/ WalkBack \/ UNCHANGED vars
  <2>1. UNCHANGED <<tables, partner, requests>>
    BY <1>2 DEF WalkForward, WalkBack, vars
  <2>2. QED
    BY <2>1, StutterInv
<1>3. QED
  BY <1>1, <1>2, ReplicateInv, ChangeCapabilitiesInv,
     ReplicateCapabilitiesInv DEF Next

LEMMA AlwaysIInv == Spec => []IInv
<1>1. Init => IInv
  BY InitInv
<1>2. IInv /\ [Next]_vars => IInv'
  BY NextInv
<1>3. QED
  BY <1>1, <1>2, PTL DEF Spec

\* What a partner was told of its companies stays true of the table of companies:
\* acknowledged creations are stored, acknowledged deletions stay done, a second
\* company of an integrator ID is only the work of PUTs that could not see the
\* first, and nothing succeeds with a company deleted before.
THEOREM AnswersTrue == Spec => []AnswersHold
<1>1. IInv => AnswersHold
  <2>1. SUFFICES ASSUME IInv
                 PROVE  AnswersHold
    OBVIOUS
  <2>2. \A r \in Requests : RepliesHold(r)
    BY <2>1 DEF IInv, RequestInv
  <2>3. NoNeedlessCompany
    BY <2>1 DEF IInv
  <2>4. QED
    BY <2>2, <2>3
    DEF AnswersHold, RepliesHold, CreationsStored, DeletionsDone, NothingForDeleted
<1>2. QED
  BY <1>1, AlwaysIInv, PTL

-----------------------------------------------------------------------------
(***************************************************************************)
(* Capabilities of companies.                                              *)
(***************************************************************************)
\* Only creations and updates change what companies may do.
Allowed(r, i) ==
    CapsAt(master, i) # master'[i].caps =>
        /\ stage[r] = "write" /\ stage'[r] = "answered"
        /\ ctx[r].user = NoId /\ Granted(r, master'[i].caps)

LEMMA CreateAllowed ==
    ASSUME IInv, NEW r \in Requests, Create(r), NEW i \in DOMAIN master'
    PROVE  Allowed(r, i)
<1>1. RequestInv(r) /\ stage \in [Requests -> Stages]
  BY DEF IInv, RequestsOK
<1>2. stage[r] = "write" /\ stage'[r] = "answered" /\ Call(r).op \in {"create", "upsert"}
  BY <1>1 DEF Create, Answer
<1>3. ctx[r].user = NoId /\ Granted(r, Call(r).caps)
  BY <1>1, <1>2 DEF RequestInv, ActorsFit, WritesGranted
<1>4. master'[i].caps \in {CapsAt(master, i), Call(r).caps}
  <2>1. PICK n \in Fresh, audited \in BOOLEAN :
          master' = Committed(audited, [j \in DOMAIN master \cup {n} |->
                                          IF j = n THEN NewRow(r) ELSE master[j]])
    BY DEF Create
  <2>2. CASE audited
    BY <2>1, <2>2 DEF Committed, CapsAt, NewRow
  <2>3. CASE ~audited
    BY <2>1, <2>3 DEF Committed, CapsAt
  <2>4. QED
    BY <2>2, <2>3
<1>5. QED
  BY <1>2, <1>3, <1>4 DEF Allowed

LEMMA UpdateAllowed ==
    ASSUME IInv, NEW r \in Requests, Update(r), NEW i \in DOMAIN master'
    PROVE  Allowed(r, i)
<1>1. RequestInv(r) /\ stage \in [Requests -> Stages]
  BY DEF IInv, RequestsOK
<1>2. stage[r] = "write" /\ stage'[r] = "answered" /\ Call(r).op \in {"upsert", "update"}
      /\ ctx[r].target # NoId
  BY <1>1 DEF Update, Answer
<1>3. ctx[r].user = NoId /\ Granted(r, Call(r).caps)
  BY <1>1, <1>2 DEF RequestInv, ActorsFit, WritesGranted
<1>4. master'[i].caps \in {CapsAt(master, i), Call(r).caps}
  <2>1. master[ctx[r].target] \in Rows /\ ctx[r].target \in DOMAIN master
    BY <1>2, TargetIsThere
  <2>2. Updated(r, master[ctx[r].target]).caps = Call(r).caps
    BY <2>1 DEF Updated, Rows
  <2>3. QED
    BY <2>1, <2>2 DEF Update, CapsAt
<1>5. QED
  BY <1>2, <1>3, <1>4 DEF Allowed

LEMMA OthersKeepCapabilities ==
    ASSUME IInv, NEW r \in Requests, Delete(r) \/ Patch(r), NEW i \in DOMAIN master'
    PROVE  CapsAt(master, i) = master'[i].caps
<1> DEFINE id == ctx[r].target
<1>1. /\ id \in DOMAIN master /\ master[id] \in Rows
  BY TargetIsThere DEF Delete, Patch
<1>2. /\ [master[id] EXCEPT !.live = FALSE].caps = master[id].caps
      /\ [master[id] EXCEPT !.name = r].caps = master[id].caps
  BY <1>1 DEF Rows
<1>3. \/ master' = master
      \/ master' = [master EXCEPT ![id] = [master[id] EXCEPT !.live = FALSE]]
      \/ master' = [master EXCEPT ![id] = [master[id] EXCEPT !.name = r]]
  BY DEF Delete, Patch, Committed
<1>4. QED
  BY <1>1, <1>2, <1>3 DEF CapsAt

\* No company is given capabilities but at a request of its partner, which had
\* them all at once since the request came, or before it and a lagging replica
\* still showed them then.
THEOREM CapabilitiesGranted == Spec => OnlyGranted
<1> DEFINE A == \A i \in DOMAIN master' : CapsAt(master, i) # master'[i].caps =>
                  \E r \in Requests : stage[r] = "write" /\ stage'[r] = "answered"
                                       /\ ctx[r].user = NoId /\ Granted(r, master'[i].caps)
<1>1. ASSUME IInv, [Next]_vars
      PROVE  A
  <2>1. ASSUME NEW i \in DOMAIN master', NEW r \in Requests, Handles(r),
               CapsAt(master, i) # master'[i].caps
        PROVE  Allowed(r, i)
    <3>1. CASE Create(r) \/ Update(r)
      BY <1>1, <3>1, CreateAllowed, UpdateAllowed
    <3>2. CASE Delete(r) \/ Patch(r)
      BY <1>1, <2>1, <3>2, OthersKeepCapabilities
    <3>3. CASE ~(Create(r) \/ Update(r) \/ Delete(r) \/ Patch(r))
      <4>1. master' = master
        BY <2>1, <3>3
        DEF Handles, Arrive, Authenticate, FindUser, FindCompany, LookUp, CheckPermission,
            CheckCapabilities, CheckParent, ReadCapabilities, Fail, Reads, tables
      <4>2. QED
        BY <2>1, <4>1 DEF CapsAt
    <3>4. QED
      BY <3>1, <3>2, <3>3
  <2>2. CASE \E r \in Requests : Handles(r)
    <3>1. PICK r \in Requests : Handles(r)
      BY <2>2
    <3>2. \A i \in DOMAIN master' : CapsAt(master, i) # master'[i].caps => Allowed(r, i)
      BY <2>1, <3>1
    <3>3. QED
      BY <3>2 DEF Allowed
  <2>3. CASE ~(\E r \in Requests : Handles(r))
    <3>1. master' = master
      BY <1>1, <2>3
      DEF Next, WalkForward, WalkBack, Replicate, ChangeCapabilities, ReplicateCapabilities, vars,
          tables
    <3>2. QED
      BY <3>1 DEF CapsAt
  <2>4. QED
    BY <2>2, <2>3
<1>2. IInv /\ [Next]_vars => [A]_vars
  BY <1>1
<1>3. QED
  BY <1>2, AlwaysIInv, PTL DEF Spec, OnlyGranted

-----------------------------------------------------------------------------
(***************************************************************************)
(* The list.                                                               *)
(***************************************************************************)
\* The least element of a set of natural numbers.
LEMMA Least ==
    ASSUME NEW I, I \subseteq Nat, I # {}
    PROVE  \E i \in I : \A j \in I : i <= j
<1>1. PICK i \in I : \A j \in I : <<j, i>> \notin OpToRel(<, Nat)
  BY NatLessThanWellFounded, WFMin, Zenon
<1>2. \A j \in I : ~(j < i)
  BY <1>1 DEF OpToRel
<1>3. QED
  BY <1>2

\* Of those greater than the greatest element there are the fewest.
LEMMA Greatest ==
    ASSUME NEW I, I \subseteq Nat, I # {}, IsFiniteSet(I)
    PROVE  \E i \in I : \A j \in I : j <= i
<1> DEFINE Above(i) == {j \in I : j > i}
           Counts == {Cardinality(Above(i)) : i \in I}
<1>1. \A i \in I : IsFiniteSet(Above(i)) /\ Cardinality(Above(i)) \in Nat
  <2>1. \A i \in I : Above(i) \in SUBSET I
    OBVIOUS
  <2> HIDE DEF Above
  <2>2. QED
    BY <2>1, FS_Subset, FS_CardinalityType
<1>2. PICK i \in I : \A j \in I : Cardinality(Above(i)) <= Cardinality(Above(j))
  <2>1. Counts \subseteq Nat /\ Counts # {}
    BY <1>1
  <2>2. PICK n \in Counts : \A m \in Counts : n <= m
    <3> HIDE DEF Counts
    <3>1. QED
      BY <2>1, Least
  <2>3. PICK i \in I : n = Cardinality(Above(i))
    OBVIOUS
  <2>4. \A j \in I : Cardinality(Above(j)) \in Counts
    OBVIOUS
  <2> HIDE DEF Above, Counts
  <2>5. QED
    BY <2>2, <2>3, <2>4
<1>3. ASSUME NEW k \in I, k > i
      PROVE  FALSE
  <2>1. Above(k) \in SUBSET Above(i) /\ k \in Above(i) /\ k \notin Above(k)
    <3>1. \A j \in I : j \in Nat
      OBVIOUS
    <3>2. \A j \in I : j > k => j > i
      BY <1>3, <3>1
    <3>3. ~(k > k)
      BY <3>1
    <3>4. QED
      BY <1>3, <3>2, <3>3
  <2> HIDE DEF Above
  <2>2. Cardinality(Above(k)) <= Cardinality(Above(i))
        /\ (Cardinality(Above(i)) = Cardinality(Above(k)) => Above(i) = Above(k))
    BY <1>1, <2>1, FS_Subset
  <2>3. Cardinality(Above(i)) <= Cardinality(Above(k))
    BY <1>2
  <2>4. QED
    BY <1>1, <2>1, <2>2, <2>3
<1>4. QED
  BY <1>3

LEMMA Ends ==
    ASSUME NEW page, page \subseteq Nat, page # {}, IsFiniteSet(page)
    PROVE  /\ First(page) \in page /\ \A j \in page : First(page) <= j
           /\ Last(page) \in page /\ \A j \in page : j <= Last(page)
BY Least, Greatest DEF First, Last

\* Pages: what a query finds of the companies on one side of the cursor.
LEMMA ListedFinite ==
    ASSUME TablesOK, NEW S, S \subseteq Listed(replica)
    PROVE  S \subseteq Ids /\ S \subseteq Nat /\ IsFiniteSet(S) /\ Cardinality(S) \in Nat
<1>1. S \subseteq Ids
  BY DEF TablesOK, Listed, Live
<1>2. QED
  BY <1>1, Assumptions, FS_Subset, FS_CardinalityType

\* What a query finds has no gaps, and nothing is left out of a last page.
LEMMA QueryAfterFinds ==
    ASSUME TablesOK, NEW cursor \in Nat
    PROVE  LET after == {i \in Listed(replica) : i > cursor}
               found == QueryAfter(cursor)
           IN  /\ found \subseteq after
               /\ \A i \in found, j \in after : j < i => j \in found
               /\ LastPage(found) => found = after
<1> DEFINE after == {i \in Listed(replica) : i > cursor}
           found == QueryAfter(cursor)
           Before(i) == {j \in after : j < i}
<1>1. after \subseteq Nat /\ IsFiniteSet(after)
  BY ListedFinite
<1>2. found \subseteq after /\ \A i \in after : i \in found <=> Cardinality(Before(i)) <= PageSize
  BY DEF QueryAfter
<1>3. \A i \in after : IsFiniteSet(Before(i)) /\ Cardinality(Before(i)) \in Nat
  BY <1>1, FS_Subset, FS_CardinalityType
<1>4. PageSize \in Nat
  BY Assumptions
<1>5. ASSUME NEW i \in found, NEW j \in after, j < i
      PROVE  j \in found
  <2>1. Before(j) \in SUBSET Before(i) /\ i \in after
    BY <1>1, <1>2, <1>5
  <2> HIDE DEF Before, found, after
  <2>2. Cardinality(Before(j)) <= Cardinality(Before(i))
    BY <1>3, <2>1, FS_Subset
  <2>3. QED
    BY <1>2, <1>3, <1>4, <2>1, <2>2
<1>6. ASSUME LastPage(found), after \ found # {}
      PROVE  FALSE
  <2>1. PICK m \in after \ found : \A j \in after \ found : m <= j
    <3>1. after \ found \subseteq Nat
      BY <1>1
    <3> HIDE DEF found, after
    <3>2. QED
      BY <1>6, <3>1, Least
  <2>2. Before(m) \in SUBSET found
    BY <1>1, <2>1
  <2>3. IsFiniteSet(found) /\ Cardinality(found) \in Nat
    <3>1. found \in SUBSET after
      BY <1>2
    <3> HIDE DEF found, after
    <3>2. QED
      BY <1>1, <3>1, FS_Subset, FS_CardinalityType
  <2> HIDE DEF Before, found
  <2>4. Cardinality(Before(m)) <= Cardinality(found)
    BY <2>2, <2>3, FS_Subset
  <2>5. Cardinality(found) <= PageSize
    BY <1>6 DEF LastPage
  <2>6. QED
    BY <1>2, <1>3, <1>4, <2>1, <2>3, <2>4, <2>5
<1>7. QED
  BY <1>2, <1>5, <1>6

LEMMA QueryBeforeFinds ==
    ASSUME TablesOK, NEW cursor \in Nat
    PROVE  LET before == {i \in Listed(replica) : i < cursor}
               found == QueryBefore(cursor)
           IN  /\ found \subseteq before
               /\ \A i \in found, j \in before : j > i => j \in found
               /\ LastPage(found) => found = before
<1> DEFINE before == {i \in Listed(replica) : i < cursor}
           found == QueryBefore(cursor)
           After(i) == {j \in before : j > i}
<1>1. before \subseteq Nat /\ IsFiniteSet(before)
  BY ListedFinite
<1>2. found \subseteq before /\ \A i \in before : i \in found <=> Cardinality(After(i)) <= PageSize
  BY DEF QueryBefore
<1>3. \A i \in before : IsFiniteSet(After(i)) /\ Cardinality(After(i)) \in Nat
  BY <1>1, FS_Subset, FS_CardinalityType
<1>4. PageSize \in Nat
  BY Assumptions
<1>5. ASSUME NEW i \in found, NEW j \in before, j > i
      PROVE  j \in found
  <2>1. After(j) \in SUBSET After(i) /\ i \in before
    BY <1>1, <1>2, <1>5
  <2> HIDE DEF After, found, before
  <2>2. Cardinality(After(j)) <= Cardinality(After(i))
    BY <1>3, <2>1, FS_Subset
  <2>3. QED
    BY <1>2, <1>3, <1>4, <2>1, <2>2
<1>6. ASSUME LastPage(found), before \ found # {}
      PROVE  FALSE
  <2>1. PICK m \in before \ found : \A j \in before \ found : j <= m
    <3>1. before \ found \subseteq Nat /\ before \ found \in SUBSET before
      BY <1>1
    <3> HIDE DEF found, before
    <3>2. QED
      BY <1>1, <1>6, <3>1, Greatest, FS_Subset
  <2>2. After(m) \in SUBSET found
    BY <1>1, <2>1
  <2>3. IsFiniteSet(found) /\ Cardinality(found) \in Nat
    <3>1. found \in SUBSET before
      BY <1>2
    <3> HIDE DEF found, before
    <3>2. QED
      BY <1>1, <3>1, FS_Subset, FS_CardinalityType
  <2> HIDE DEF After, found
  <2>4. Cardinality(After(m)) <= Cardinality(found)
    BY <2>2, <2>3, FS_Subset
  <2>5. Cardinality(found) <= PageSize
    BY <1>6 DEF LastPage
  <2>6. QED
    BY <1>2, <1>3, <1>4, <2>1, <2>3, <2>4, <2>5
<1>7. QED
  BY <1>2, <1>5, <1>6

WalkTyped ==
    walk \in [phase : {"first", "forward", "back", "ended"}, cursor : Ids \cup {NoId},
              start : Ids \cup {NoId}, stable : SUBSET Ids, seen : SUBSET Ids, back : SUBSET Ids]

\* What the client has seen of the companies that were there all the time.
WalkInv ==
    /\ WalkTyped
    /\ walk.phase = "first" => walk.cursor = NoId /\ walk.stable = {}
    /\ walk.stable \subseteq Listed(replica)
    /\ walk.phase = "forward" => \A i \in walk.stable : i <= walk.cursor => i \in walk.seen
    /\ walk.phase \in {"back", "ended"} => walk.stable \subseteq walk.seen
    /\ walk.phase = "back" =>
         \A i \in walk.stable : walk.cursor <= i /\ i < walk.start => i \in walk.back
    /\ walk.phase = "ended" => \A i \in walk.stable : i < walk.start => i \in walk.back

\* A page that is not the last lacks only the company beyond it, on either side.
LEMMA PageForward ==
    ASSUME TablesOK, NEW found, found \subseteq Listed(replica), ~LastPage(found)
    PROVE  LET page == Trimmed(found, FALSE) IN
           /\ page # {} /\ page \subseteq found /\ Last(page) \in page
           /\ \A i \in found : i <= Last(page) => i \in page
<1> DEFINE page == Trimmed(found, FALSE)
<1>1. found \subseteq Nat /\ IsFiniteSet(found) /\ Cardinality(found) \in Nat
  BY ListedFinite
<1>2. page = found \ {Last(found)} /\ Cardinality(found) > PageSize /\ PageSize \in Nat \ {0}
  BY <1>1, Assumptions DEF Trimmed, LastPage
<1>3. found # {} /\ \A i \in found : i \in Nat
  BY <1>1, <1>2, FS_EmptySet
<1>4. Last(found) \in found /\ \A j \in found : j <= Last(found)
  BY <1>1, <1>3, Ends
<1> HIDE DEF page
<1>5. IsFiniteSet(page) /\ Cardinality(page) = Cardinality(found) - 1
  <2>1. IsFiniteSet(found) /\ page = found \ {Last(found)} /\ Last(found) \in found
    BY <1>1, <1>2, <1>4
  <2>2. QED
    BY <2>1, FS_RemoveElement
<1>6. page # {}
  <2>1. Cardinality(page) # 0
    BY <1>1, <1>2, <1>5
  <2>2. QED
    BY <2>1, FS_EmptySet
<1>7. Last(page) \in page
  BY <1>1, <1>2, <1>5, <1>6, Ends
<1>8. ASSUME NEW i \in found, i <= Last(page)
      PROVE  i \in page
  <2>1. Last(page) \in found /\ Last(page) # Last(found) /\ Last(page) <= Last(found)
    BY <1>2, <1>4, <1>7
  <2>2. i \in Nat /\ Last(page) \in Nat /\ Last(found) \in Nat
    BY <1>3, <1>4, <2>1
  <2>3. i # Last(found)
    BY <1>8, <2>1, <2>2
  <2>4. QED
    BY <1>2, <2>3
<1>9. QED
  BY <1>2, <1>6, <1>7, <1>8 DEF page

LEMMA PageBack ==
    ASSUME TablesOK, NEW found, found \subseteq Listed(replica), ~LastPage(found)
    PROVE  LET page == Trimmed(found, TRUE) IN
           /\ page # {} /\ page \subseteq found /\ First(page) \in page
           /\ \A i \in found : First(page) <= i => i \in page
<1> DEFINE page == Trimmed(found, TRUE)
<1>1. found \subseteq Nat /\ IsFiniteSet(found) /\ Cardinality(found) \in Nat
  BY ListedFinite
<1>2. page = found \ {First(found)} /\ Cardinality(found) > PageSize /\ PageSize \in Nat \ {0}
  BY <1>1, Assumptions DEF Trimmed, LastPage
<1>3. found # {} /\ \A i \in found : i \in Nat
  BY <1>1, <1>2, FS_EmptySet
<1>4. First(found) \in found /\ \A j \in found : First(found) <= j
  BY <1>1, <1>3, Ends
<1> HIDE DEF page
<1>5. IsFiniteSet(page) /\ Cardinality(page) = Cardinality(found) - 1
  <2>1. IsFiniteSet(found) /\ page = found \ {First(found)} /\ First(found) \in found
    BY <1>1, <1>2, <1>4
  <2>2. QED
    BY <2>1, FS_RemoveElement
<1>6. page # {}
  <2>1. Cardinality(page) # 0
    BY <1>1, <1>2, <1>5
  <2>2. QED
    BY <2>1, FS_EmptySet
<1>7. First(page) \in page
  BY <1>1, <1>2, <1>5, <1>6, Ends
<1>8. ASSUME NEW i \in found, First(page) <= i
      PROVE  i \in page
  <2>1. First(page) \in found /\ First(page) # First(found) /\ First(found) <= First(page)
    BY <1>2, <1>4, <1>7
  <2>2. i \in Nat /\ First(page) \in Nat /\ First(found) \in Nat
    BY <1>3, <1>4, <2>1
  <2>3. i # First(found)
    BY <1>8, <2>1, <2>2
  <2>4. QED
    BY <1>2, <2>3
<1>9. QED
  BY <1>2, <1>6, <1>7, <1>8 DEF page

LEMMA WalkForwardInv ==
    ASSUME TablesOK, WalkInv, WalkForward
    PROVE  WalkInv'
<1> DEFINE found == QueryAfter(walk.cursor)
           page == Trimmed(found, FALSE)
           back == walk.phase = "forward" /\ page # {}
           after == {i \in Listed(replica) : i > walk.cursor}
<1>1. /\ walk.cursor \in Nat /\ Ids \subseteq Nat /\ NoId = 0 /\ 0 \notin Ids
      /\ Listed(replica) \subseteq Ids /\ \A i \in Listed(replica) : i \in Nat /\ i > 0
  <2>1. Listed(replica) \subseteq Ids
    BY ListedFinite
  <2>2. \A i \in Ids : i \in Nat /\ i > 0
    BY Assumptions DEF NoId
  <2>3. QED
    BY <2>1, <2>2 DEF WalkInv, WalkTyped, NoId
<1>2. /\ found \subseteq after
      /\ \A i \in found, j \in after : j < i => j \in found
      /\ LastPage(found) => found = after
  <2> HIDE DEF found, after
  <2>1. QED
    BY <1>1, QueryAfterFinds DEF found, after
<1>3. found \subseteq Listed(replica) /\ page \subseteq found
  BY <1>2 DEF Trimmed
<1>4. /\ walk'.phase = IF ~LastPage(found) THEN "forward" ELSE IF back THEN "back" ELSE "ended"
      /\ walk'.cursor = IF ~LastPage(found) THEN Last(page)
                        ELSE IF back THEN First(page) ELSE NoId
      /\ walk'.start = IF LastPage(found) /\ back THEN First(page) ELSE NoId
      /\ walk'.seen = walk.seen \cup page
      /\ walk'.stable = IF walk.phase = "first" THEN Listed(replica) ELSE walk.stable
      /\ walk'.back = walk.back
      /\ walk.phase \in {"first", "forward"}
      /\ walk' = [phase |-> walk'.phase, cursor |-> walk'.cursor, start |-> walk'.start,
                  stable |-> walk'.stable, seen |-> walk'.seen, back |-> walk'.back]
  BY DEF WalkForward, WalkInv, WalkTyped
<1>5. Listed(replica)' = Listed(replica)
  BY DEF WalkForward, tables, Listed, Live
<1>6. walk'.stable \subseteq Listed(replica) /\ \A i \in walk'.stable : i \in Nat /\ i > 0
  BY <1>1, <1>4 DEF WalkInv
<1>7. \A i \in walk'.stable : i <= walk.cursor => i \in walk.seen
  BY <1>1, <1>4, <1>6 DEF WalkInv, WalkTyped
<1>8. walk.seen \subseteq Ids /\ walk.back \subseteq Ids
  BY DEF WalkInv, WalkTyped
<1>9. CASE ~LastPage(found)
  <2>1. /\ Last(page) \in page /\ \A i \in found : i <= Last(page) => i \in page
    <3> HIDE DEF found
    <3>1. QED
      BY <1>3, <1>9, PageForward
  <2>2. ASSUME NEW i \in walk'.stable, i <= Last(page)
        PROVE  i \in walk'.seen
    <3>1. CASE i <= walk.cursor
      BY <1>4, <1>7, <3>1
    <3>2. CASE i > walk.cursor
      <4>1. i \in after
        BY <1>6, <3>2
      <4>2. i \in found
        <5>1. Last(page) \in found /\ Last(page) \in Nat
          BY <1>1, <1>3, <2>1
        <5>2. i = Last(page) \/ i < Last(page)
          <6> HIDE DEF page
          <6>1. i \in Nat
            BY <1>6
          <6>2. QED
            BY <2>2, <5>1, <6>1
        <5>3. QED
          BY <1>2, <4>1, <5>1, <5>2
      <4>3. QED
        BY <1>4, <2>1, <2>2, <4>2
    <3>3. QED
      BY <1>1, <1>6, <3>1, <3>2
  <2>3. walk'.phase = "forward" /\ walk'.cursor = Last(page) /\ walk'.start = NoId
    BY <1>4, <1>9
  <2> HIDE DEF found, page, back, after
  <2>4. WalkTyped'
    BY <1>1, <1>3, <1>4, <1>6, <1>8, <2>1, <2>3 DEF WalkTyped
  <2>5. QED
    BY <1>5, <1>6, <2>2, <2>3, <2>4 DEF WalkInv
<1>10. CASE LastPage(found)
  <2>1. page = after
    BY <1>2, <1>10 DEF Trimmed
  <2>2. walk'.stable \subseteq walk'.seen
    <3>1. ASSUME NEW i \in walk'.stable
          PROVE  i \in walk.seen \cup after
      <4>1. i <= walk.cursor \/ i > walk.cursor
        BY <1>1, <1>6
      <4>2. QED
        BY <1>6, <1>7, <4>1
    <3>2. QED
      BY <1>4, <2>1, <3>1
  <2>3. page # {} => First(page) \in page
    <3>1. page \subseteq Listed(replica)
      BY <1>3
    <3> HIDE DEF page
    <3>2. QED
      BY <3>1, ListedFinite, Ends
  <2>4. /\ walk'.phase \in {"back", "ended"}
        /\ walk'.phase = "back" => walk'.cursor = walk'.start
        /\ walk'.phase = "ended" => walk'.start = NoId
        /\ walk'.cursor \in page \cup {NoId} /\ walk'.start \in page \cup {NoId}
    BY <1>4, <1>10, <2>3
  <2> HIDE DEF found, page, back, after
  <2>5. WalkTyped'
    BY <1>1, <1>3, <1>4, <1>6, <1>8, <2>4 DEF WalkTyped
  <2>6. walk'.start \in Nat /\ \A i \in walk'.stable : i \in Nat
    <3>1. page \subseteq Nat
      BY <1>1, <1>3
    <3>2. walk'.start \in Nat
      <4>1. walk'.start \in page \cup {NoId}
        BY <2>4
      <4>2. NoId \in Nat
        BY DEF NoId
      <4>3. QED
        BY <3>1, <4>1, <4>2
    <3>3. QED
      BY <1>6, <3>2
  <2>7. QED
    BY <1>1, <1>5, <1>6, <2>2, <2>4, <2>5, <2>6 DEF WalkInv
<1>11. QED
  BY <1>9, <1>10

LEMMA WalkBackInv ==
    ASSUME TablesOK, WalkInv, WalkBack
    PROVE  WalkInv'
<1> DEFINE found == QueryBefore(walk.cursor)
           page == Trimmed(found, TRUE)
           before == {i \in Listed(replica) : i < walk.cursor}
<1>1. /\ walk.cursor \in Nat /\ walk.start \in Nat /\ Ids \subseteq Nat
      /\ Listed(replica) \subseteq Ids /\ \A i \in Listed(replica) : i \in Nat
  <2>1. Listed(replica) \subseteq Ids
    BY ListedFinite
  <2>2. \A i \in Ids : i \in Nat
    BY Assumptions
  <2>3. QED
    BY <2>1, <2>2 DEF WalkInv, WalkTyped, NoId
<1>2. /\ found \subseteq before
      /\ \A i \in found, j \in before : j > i => j \in found
      /\ LastPage(found) => found = before
  <2> HIDE DEF found, before
  <2>1. QED
    BY <1>1, QueryBeforeFinds DEF found, before
<1>3. found \subseteq Listed(replica) /\ page \subseteq found
  BY <1>2 DEF Trimmed
<1>4. /\ walk'.phase = IF LastPage(found) THEN "ended" ELSE "back"
      /\ walk'.cursor = IF LastPage(found) THEN NoId ELSE First(page)
      /\ walk'.start = walk.start /\ walk'.seen = walk.seen /\ walk'.stable = walk.stable
      /\ walk'.back = walk.back \cup page
      /\ walk.phase = "back"
      /\ walk' = [phase |-> walk'.phase, cursor |-> walk'.cursor, start |-> walk'.start,
                  stable |-> walk'.stable, seen |-> walk'.seen, back |-> walk'.back]
  BY DEF WalkBack, WalkInv, WalkTyped
<1>5. Listed(replica)' = Listed(replica)
  BY DEF WalkBack, tables, Listed, Live
<1>6. /\ walk.stable \subseteq Listed(replica) /\ \A i \in walk.stable : i \in Nat
      /\ walk.stable \subseteq walk.seen
  BY <1>1, <1>4 DEF WalkInv
<1>7. \A i \in walk.stable : walk.cursor <= i /\ i < walk.start => i \in walk.back
  BY <1>4 DEF WalkInv
<1>8. /\ walk.seen \subseteq Ids /\ walk.back \subseteq Ids /\ walk.stable \subseteq Ids
      /\ walk.start \in Ids \cup {NoId}
  BY DEF WalkInv, WalkTyped
<1>9. CASE ~LastPage(found)
  <2>1. /\ First(page) \in page /\ \A i \in found : First(page) <= i => i \in page
    <3> HIDE DEF found
    <3>1. QED
      BY <1>3, <1>9, PageBack
  <2>2. ASSUME NEW i \in walk.stable, First(page) <= i, i < walk.start
        PROVE  i \in walk'.back
    <3>1. CASE walk.cursor <= i
      BY <1>4, <1>7, <2>2, <3>1
    <3>2. CASE i < walk.cursor
      <4>1. i \in before
        BY <1>6, <3>2
      <4>2. i \in found
        <5>1. First(page) \in found /\ First(page) \in Nat
          BY <1>1, <1>3, <2>1
        <5>2. i = First(page) \/ i > First(page)
          <6> HIDE DEF page
          <6>1. i \in Nat
            BY <1>6
          <6>2. QED
            BY <2>2, <5>1, <6>1
        <5>3. QED
          BY <1>2, <4>1, <5>1, <5>2
      <4>3. QED
        BY <1>4, <2>1, <2>2, <4>2
    <3>3. QED
      BY <1>1, <1>6, <3>1, <3>2
  <2>3. walk'.phase = "back" /\ walk'.cursor = First(page)
    BY <1>4, <1>9
  <2> HIDE DEF found, page, before
  <2>4. WalkTyped'
    BY <1>1, <1>3, <1>4, <1>8, <2>1, <2>3 DEF WalkTyped
  <2>5. QED
    BY <1>4, <1>5, <1>6, <2>2, <2>3, <2>4 DEF WalkInv
<1>10. CASE LastPage(found)
  <2>1. page = before
    BY <1>2, <1>10 DEF Trimmed
  <2>2. ASSUME NEW i \in walk.stable, i < walk.start
        PROVE  i \in walk'.back
    <3>1. walk.cursor <= i \/ i < walk.cursor
      BY <1>1, <1>6
    <3>2. QED
      BY <1>4, <1>6, <1>7, <2>1, <2>2, <3>1
  <2>3. walk'.phase = "ended" /\ walk'.cursor = NoId
    BY <1>4, <1>10
  <2> HIDE DEF found, page, before
  <2>4. WalkTyped'
    BY <1>1, <1>3, <1>4, <1>8, <2>3 DEF WalkTyped
  <2>5. QED
    BY <1>4, <1>5, <1>6, <2>2, <2>3, <2>4 DEF WalkInv
<1>11. QED
  BY <1>9, <1>10

LEMMA WalkNext ==
    ASSUME IInv, WalkInv, [Next]_vars
    PROVE  WalkInv'
<1>1. TablesOK
  BY DEF IInv
<1>2. CASE UNCHANGED <<replica, walk>>
  BY <1>2 DEF WalkInv, WalkTyped, Listed, Live
<1>3. CASE Replicate
  <2>1. /\ walk' = [walk EXCEPT !.stable = @ \cap Listed(master)] /\ replica' = master
    BY <1>3 DEF Replicate
  <2>2. Listed(replica)' = Listed(master)
    BY <2>1 DEF Listed, Live
  <2>3. /\ walk'.phase = walk.phase /\ walk'.cursor = walk.cursor /\ walk'.start = walk.start
        /\ walk'.seen = walk.seen /\ walk'.back = walk.back
        /\ walk'.stable = walk.stable \cap Listed(master)
        /\ WalkTyped'
    BY <2>1 DEF WalkInv, WalkTyped
  <2>4. QED
    BY <2>2, <2>3 DEF WalkInv
<1>4. CASE UNCHANGED vars
  BY <1>2, <1>4 DEF vars, tables
<1>5. CASE ChangeCapabilities \/ ReplicateCapabilities
  BY <1>2, <1>5 DEF ChangeCapabilities, ReplicateCapabilities, tables
<1>6. ASSUME NEW r \in Requests, Handles(r)
      PROVE  UNCHANGED <<replica, walk>>
  BY <1>6
  DEF Handles, Arrive, Authenticate, FindUser, FindCompany, LookUp, CheckPermission,
      CheckCapabilities, CheckParent, Create, Update, Delete, Patch, ReadCapabilities, Fail,
      Reads, tables
<1>7. QED
  BY <1>1, <1>2, <1>3, <1>4, <1>5, <1>6, WalkForwardInv, WalkBackInv DEF Next

LEMMA AlwaysWalkInv == Spec => []WalkInv
<1>1. Init => WalkInv
  BY DEF Init, WalkInv, WalkTyped, NoId
<1>2. IInv /\ WalkInv /\ [Next]_vars => WalkInv'
  BY WalkNext
<1>3. QED
  BY <1>1, <1>2, AlwaysIInv, PTL DEF Spec

\* However companies come and go, a client that follows the next links to the end
\* and then the prev links back has seen, both ways, every company that was there
\* all the time, of the pages before the one it turned at.
THEOREM WalkComplete == Spec => []WalkListsStable
<1>1. WalkInv => WalkListsStable
  BY DEF WalkInv, WalkListsStable
<1>2. QED
  BY <1>1, AlwaysWalkInv, PTL

\* Every variable has its type, and the replica only ever lags behind the database.
THEOREM TypeCorrect == Spec => []TypeOK
<1>1. ASSUME IInv, WalkInv
      PROVE  TypeOK
  <2>1. \A table \in {master, replica} :
          DOMAIN table \subseteq Ids /\ table \in [DOMAIN table -> Rows]
    BY <1>1 DEF IInv, TablesOK
  <2>2. DOMAIN replica \subseteq DOMAIN master
        /\ Live(master) \cap DOMAIN replica \subseteq Live(replica)
    BY <1>1 DEF IInv, TablesOK, Live
  <2>3. QED
    BY <1>1, <2>1, <2>2 DEF IInv, RequestsOK, WalkInv, WalkTyped, TypeOK
<1>2. QED
  BY <1>1, AlwaysIInv, AlwaysWalkInv, PTL
=============================================================================
