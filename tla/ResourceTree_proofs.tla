------------------------ MODULE ResourceTree_proofs ------------------------
(***************************************************************************)
(* Proofs about ResourceTree, for any requests, workload and site names,   *)
(* and however far the replica lags.                                       *)
(***************************************************************************)
EXTENDS ResourceTree, VersionLemmas

-----------------------------------------------------------------------------
(***************************************************************************)
(* The inductive invariant.                                                *)
(***************************************************************************)
Absent(table, i) == table[i].state = "absent"

\* Which steps each kind of request takes.
Path(k) ==
    CASE k = "none" -> {"idle"}
      [] k \in Puts -> {"client", "createClient", "site", "createSite", "camera",
                        "createView", "findView", "updateView", "done"}
      [] k = "deleteCamera" -> {"camera", "commit", "done"}
      [] k = "deleteSite" -> {"site", "views", "commit", "done"}
      [] k = "deleteClient" -> {"client", "sites", "views", "commit", "done"}
      [] k = "deleteCompany" -> {"clients", "sites", "views", "commit", "done"}

\* A request that has not come so far has created nothing.
Fresh(r) ==
    /\ pc[r] \in {"idle", "client", "createClient"} => Absent(Master.clients, r)
    /\ pc[r] \in {"idle", "client", "createClient", "site", "createSite"} => Absent(Master.sites, r)
    /\ pc[r] \in {"idle", "client", "createClient", "site", "createSite", "camera", "createView"} =>
         Absent(Master.views, r)

Paths(r) ==
    /\ pc[r] \in Path(kind[r])
    /\ seen[r] \subseteq Finished
    /\ pc[r] # "done" => reply[r] = "none"
    /\ kind[r] \in {"none", "deleteCamera", "deleteSite"} => clients[r] = {}
    /\ kind[r] = "none" => sites[r] = {}

\* A PUT has found, or created, what exists.
FoundExists(r) ==
    kind[r] \in Puts =>
        /\ \A c \in clients[r] : ~Absent(Master.clients, c)
        /\ \A s \in sites[r] : ~Absent(Master.sites, s)

\* A PUT that is about to create something has looked for it since it came.
LookedFirst(r) ==
    /\ pc[r] = "createClient" => \A c \in LiveClients(Master) : ~Before(c, r)
    /\ pc[r] = "createSite" /\ r \notin stale /\ Master.company =>
         \A s \in SitesNamed(Master, clients[r], key[r]) : ~Before(s, r)
    /\ pc[r] = "createView" /\ r \notin stale /\ Master.company =>
         \A v \in LiveViews(Master) : ~Before(v, r)

\* A deletion of the company has listed every site that was there before.
SitesCovered(r) ==
    kind[r] = "deleteCompany" /\ pc[r] \in {"views", "commit"} =>
        \A s \in SitesUnder(Master, clients[r]) \ sites[r] : ~Before(s, r)

\* The live cameras at these sites were all put there lately.
OnlyLater(ss, listed, r) ==
    \A v \in LiveViews(Master) \ listed : Master.views[v].site \in ss => ~Before(Master.views[v].by, r)

\* Sites of clients that have been deleted since the request found them.
Orphans(r) == {s \in SitesUnder(Master, clients[r]) : Master.sites[s].client \notin LiveClients(Master)}

\* A deletion whose replica did not lag has listed every camera that was at the
\* sites before.
ViewsCovered(r) ==
    r \notin stale /\ (kind[r] = "deleteClient" => Master.company) =>
        /\ pc[r] = "sites" /\ kind[r] = "deleteClient" => OnlyLater(Orphans(r), {}, r)
        /\ pc[r] = "views" /\ kind[r] = "deleteClient" =>
             OnlyLater(SitesUnder(Master, clients[r]) \ sites[r], {}, r)
        /\ pc[r] = "commit" => OnlyLater(SitesToDelete(r), views[r], r)

\* What a deletion was told to be deleted is.
AnsweredDeleted(r) ==
    reply[r] = "ok" =>
        /\ kind[r] = "deleteCamera" => \A v \in views[r] : Master.views[v].state = "deleted"
        /\ kind[r] = "deleteSite" => \A s \in sites[r] : Master.sites[s].state = "deleted"
        /\ kind[r] = "deleteClient" => \A c \in clients[r] : Master.clients[c].state = "deleted"

\* Nobody has written anything since the request came.
Undisturbed(r) == r \notin stale /\ \A q \in wrote \ {r} : Before(q, r)

GoodSites(r) == SitesNamed(Master, LiveClients(Master), key[r])

\* A PUT of a camera that nobody disturbs knows how things are.
UndisturbedKnows(r) ==
    kind[r] = "putCamera" /\ Undisturbed(r) =>
        /\ pc[r] # "done" => Master.company
        /\ pc[r] \in {"site", "createSite"} => clients[r] \subseteq LiveClients(Master)
        /\ pc[r] \in {"camera", "createView", "findView", "updateView"} => sites[r] \subseteq GoodSites(r)
        /\ pc[r] \in {"findView", "updateView"} => views[r] \subseteq LiveViews(Master)
        /\ reply[r] = "ok" =>
             \E v \in views[r] \cap LiveViews(Master) : Master.views[v].site \in GoodSites(r)

RequestInv(r) ==
    /\ Paths(r) /\ Fresh(r) /\ FoundExists(r) /\ LookedFirst(r) /\ SitesCovered(r)
    /\ ViewsCovered(r) /\ AnsweredDeleted(r) /\ UndisturbedKnows(r)

\* What the replica shows of the sites exists; sites are of clients, and cameras
\* at sites, that exist; what is deleted was deleted by a request that has finished.
TreeFits ==
    /\ \A i \in DOMAIN versions : \A s \in Ids :
         Absent(Master.sites, s) => Absent(versions[i].sites, s)
    /\ \A s \in Ids : ~Absent(Master.sites, s) => ~Absent(Master.clients, Master.sites[s].client)
    /\ \A v \in Ids : ~Absent(Master.views, v) => ~Absent(Master.sites, Master.views[v].site)
    /\ \A c \in Ids : Master.clients[c].state = "deleted" => Master.clients[c].by \in Finished
    /\ \A s \in Ids : Master.sites[s].state = "deleted" => Master.sites[s].by \in Finished

IInv ==
    /\ TypeOK /\ TreeFits
    /\ ClientsUnique /\ LookupsPreventDuplicates /\ NoSiteOutlivesClient /\ NoViewOutlivesSite
    /\ OneDeletionAcknowledged
    /\ \A r \in Requests : RequestInv(r)

-----------------------------------------------------------------------------
(***************************************************************************)
(* How a step of r changes the tree.                                       *)
(***************************************************************************)
ClientRows == [state : States, by : Ids]
SiteRows == [state : States, client : Ids, key : Keys \cup {None}, by : Ids]
ViewRows == [state : States, site : Ids, by : Ids]

NewClient(r, c) ==
    /\ c = r /\ pc[r] = "createClient"
    /\ Absent(Master.clients, c) /\ Master'.clients[c].state = "live"

\* The cascade leaves no site under a client but those that came meanwhile.
LostClient(r, c) ==
    /\ pc[r] = "commit" /\ pc'[r] = "done"
    /\ c \in LiveClients(Master)
    /\ Master'.clients[c].state = "deleted" /\ Master'.clients[c].by = r
    /\ ~Master'.company \/ SitesUnder(Master', {c}) = {}
    /\ \A s \in SitesUnder(Master', {c}) : ~Before(s, r)

NewSite(r, s) ==
    /\ s = r /\ pc[r] = "createSite"
    /\ Absent(Master.sites, s) /\ Master'.sites[s].state = "live"
    /\ Master'.sites[s].client \in clients[r] /\ Master'.sites[s].key = key[r]

LostSite(r, s) ==
    /\ pc[r] = "commit" /\ pc'[r] = "done"
    /\ s \in SitesToDelete(r) /\ s \in LiveSites(Master)
    /\ Master'.sites[s].state = "deleted" /\ Master'.sites[s].by = r
    /\ Master'.sites[s].client = Master.sites[s].client /\ Master'.sites[s].key = Master.sites[s].key
    /\ views[r] \cap LiveViews(Master') = {}

NewView(r, v) ==
    /\ v = r /\ pc[r] = "createView"
    /\ Absent(Master.views, v) /\ Master'.views[v].state = "live"
    /\ Master'.views[v].by = r /\ Master'.views[v].site \in sites[r]

MovedView(r, v) ==
    /\ v \in views[r] /\ pc[r] = "updateView"
    /\ Master'.views[v].state = Master.views[v].state
    /\ Master'.views[v].by = r /\ Master'.views[v].site \in sites[r]

LostView(r, v) ==
    /\ v \in views[r] /\ pc[r] = "commit"
    /\ v \in LiveViews(Master) /\ Master'.views[v].state = "deleted"
    /\ Master'.views[v].site = Master.views[v].site

EvolvesBy(r) ==
    /\ Master'.company => Master.company
    /\ pc[r] # "commit" => Master'.company = Master.company
    /\ \A c \in Ids : Master'.clients[c] = Master.clients[c] \/ NewClient(r, c) \/ LostClient(r, c)
    /\ \A s \in Ids : Master'.sites[s] = Master.sites[s] \/ NewSite(r, s) \/ LostSite(r, s)
    /\ \A v \in Ids :
         Master'.views[v] = Master.views[v] \/ NewView(r, v) \/ MovedView(r, v) \/ LostView(r, v)
    /\ Master' = Master \/ r \in wrote'
    /\ wrote \subseteq wrote'

RequestStep(r) ==
    \/ StartPut(r) \/ StartDelete(r) \/ Fail(r)
    \/ kind[r] \in Puts /\ PutStep(r)
    \/ kind[r] \in Deletions /\ DeleteStep(r)

\* What a step of r leaves alone of another request.
Untouched(q) ==
    /\ pc'[q] = pc[q] /\ kind'[q] = kind[q] /\ key'[q] = key[q] /\ seen'[q] = seen[q]
    /\ clients'[q] = clients[q] /\ sites'[q] = sites[q] /\ views'[q] = views[q]
    /\ reply'[q] = reply[q]
    /\ q \in stale' <=> q \in stale

LEMMA TreeEnds ==
    ASSUME TypeOK
    PROVE  /\ Master \in Tree /\ Replica \in Tree
           /\ Len(versions) \in DOMAIN versions /\ 1 \in DOMAIN versions
  BY EndsAreVersions DEF TypeOK, Master, Replica

-----------------------------------------------------------------------------
(***************************************************************************)
(* The trees that requests commit.                                         *)
(***************************************************************************)
LEMMA PutClientRow ==
    ASSUME NEW db \in Tree, NEW i \in Ids, NEW row \in ClientRows
    PROVE  /\ [db EXCEPT !.clients[i] = row] \in Tree
           /\ [db EXCEPT !.clients[i] = row].company = db.company
           /\ [db EXCEPT !.clients[i] = row].clients = [db.clients EXCEPT ![i] = row]
           /\ [db EXCEPT !.clients[i] = row].sites = db.sites
           /\ [db EXCEPT !.clients[i] = row].views = db.views
  BY DEF Tree, ClientRows

LEMMA PutSiteRow ==
    ASSUME NEW db \in Tree, NEW i \in Ids, NEW row \in SiteRows
    PROVE  /\ [db EXCEPT !.sites[i] = row] \in Tree
           /\ [db EXCEPT !.sites[i] = row].company = db.company
           /\ [db EXCEPT !.sites[i] = row].clients = db.clients
           /\ [db EXCEPT !.sites[i] = row].sites = [db.sites EXCEPT ![i] = row]
           /\ [db EXCEPT !.sites[i] = row].views = db.views
  BY DEF Tree, SiteRows

LEMMA PutViewRow ==
    ASSUME NEW db \in Tree, NEW i \in Ids, NEW row \in ViewRows
    PROVE  /\ [db EXCEPT !.views[i] = row] \in Tree
           /\ [db EXCEPT !.views[i] = row].company = db.company
           /\ [db EXCEPT !.views[i] = row].clients = db.clients
           /\ [db EXCEPT !.views[i] = row].sites = db.sites
           /\ [db EXCEPT !.views[i] = row].views = [db.views EXCEPT ![i] = row]
  BY DEF Tree, ViewRows

LEMMA DeletedRow ==
    ASSUME NEW r \in Ids
    PROVE  /\ \A row \in ClientRows : [row EXCEPT !.state = "deleted", !.by = r] \in ClientRows
           /\ \A row \in SiteRows : [row EXCEPT !.state = "deleted", !.by = r] \in SiteRows
           /\ \A row \in ViewRows : [row EXCEPT !.state = "deleted", !.by = r] \in ViewRows
  BY DEF ClientRows, SiteRows, ViewRows, States

LEMMA DeletedRows ==
    ASSUME NEW db \in Tree, NEW ids \in SUBSET Ids, NEW r \in Ids
    PROVE  /\ Deleted(db.clients, ids, r) \in [Ids -> ClientRows]
           /\ Deleted(db.sites, ids, r) \in [Ids -> SiteRows]
           /\ Deleted(db.views, ids, r) \in [Ids -> ViewRows]
<1>1. /\ db.clients \in [Ids -> ClientRows]
      /\ db.sites \in [Ids -> SiteRows]
      /\ db.views \in [Ids -> ViewRows]
  BY DEF Tree, ClientRows, SiteRows, ViewRows
<1>2. QED
  BY <1>1, DeletedRow DEF Deleted

LEMMA DeletedSites ==
    ASSUME NEW table \in [Ids -> SiteRows], NEW ids \in SUBSET Ids, NEW r \in Ids, NEW s \in Ids
    PROVE  \/ Deleted(table, ids, r)[s] = table[s] /\ (s \notin ids \/ table[s].state # "live")
           \/ /\ s \in ids /\ table[s].state = "live"
              /\ Deleted(table, ids, r)[s].state = "deleted" /\ Deleted(table, ids, r)[s].by = r
              /\ Deleted(table, ids, r)[s].client = table[s].client
              /\ Deleted(table, ids, r)[s].key = table[s].key
  BY DEF Deleted, SiteRows

LEMMA DeletedClients ==
    ASSUME NEW table \in [Ids -> ClientRows], NEW ids \in SUBSET Ids, NEW r \in Ids, NEW c \in Ids
    PROVE  \/ /\ Deleted(table, ids, r)[c] = table[c]
              /\ c \notin ids \/ table[c].state # "live"
           \/ /\ c \in ids /\ table[c].state = "live"
              /\ Deleted(table, ids, r)[c].state = "deleted" /\ Deleted(table, ids, r)[c].by = r
  BY DEF Deleted, ClientRows

LEMMA DeletedViews ==
    ASSUME NEW table \in [Ids -> ViewRows], NEW ids \in SUBSET Ids, NEW r \in Ids, NEW v \in Ids
    PROVE  \/ Deleted(table, ids, r)[v] = table[v] /\ (v \notin ids \/ table[v].state # "live")
           \/ /\ v \in ids /\ table[v].state = "live"
              /\ Deleted(table, ids, r)[v].state = "deleted"
              /\ Deleted(table, ids, r)[v].site = table[v].site
  BY DEF Deleted, ViewRows

-----------------------------------------------------------------------------
(***************************************************************************)
(* What every step keeps.                                                  *)
(***************************************************************************)
LEMMA CommitTypes ==
    ASSUME TypeOK, NEW r \in Requests, NEW db \in Tree, Commit(r, db)
    PROVE  /\ versions' \in Seq(Tree) /\ versions' # <<>>
           /\ Master' = db /\ Replica' = Replica
           /\ wrote' \subseteq Requests /\ wrote \subseteq wrote' /\ r \in wrote'
<1>1. versions' = Append(versions, db) /\ wrote' = wrote \cup {r}
  BY DEF Commit
<1>2. versions \in Seq(Tree) /\ versions # <<>> /\ wrote \subseteq Requests
  BY DEF TypeOK
<1>3. QED
  BY <1>1, <1>2, CommitVersion DEF Master, Replica

\* The types of all but the versions.
RequestTypes ==
    /\ kind \in [Requests -> Kinds \cup {"none"}]
    /\ pc \in [Requests -> Locations]
    /\ key \in [Requests -> Keys \cup {None}]
    /\ clients \in [Requests -> SUBSET Ids]
    /\ sites \in [Requests -> SUBSET Ids]
    /\ views \in [Requests -> SUBSET Ids]
    /\ reply \in [Requests -> {"none", "ok", "error"}]
    /\ seen \in [Requests -> SUBSET Requests]
    /\ stale \subseteq Requests

LEMMA DbFacts ==
    ASSUME NEW db \in Tree
    PROVE  /\ db.company \in BOOLEAN
           /\ db.clients \in [Ids -> ClientRows] /\ db.sites \in [Ids -> SiteRows]
           /\ db.views \in [Ids -> ViewRows]
           /\ LiveClients(db) \subseteq Ids /\ LiveSites(db) \subseteq Ids /\ LiveViews(db) \subseteq Ids
           /\ \A cs : SitesUnder(db, cs) \subseteq LiveSites(db)
           /\ \A cs : SitesOf(db, cs) \subseteq SitesUnder(db, cs)
           /\ \A cs, k : SitesNamed(db, cs, k) \subseteq SitesOf(db, cs)
           /\ \A ss : ViewsAt(db, ss) \subseteq LiveViews(db)
<1>1. /\ db.company \in BOOLEAN
      /\ db.clients \in [Ids -> ClientRows] /\ db.sites \in [Ids -> SiteRows]
      /\ db.views \in [Ids -> ViewRows]
  BY DEF Tree, ClientRows, SiteRows, ViewRows
<1>2. LiveClients(db) \subseteq Ids /\ LiveSites(db) \subseteq Ids /\ LiveViews(db) \subseteq Ids
  BY DEF LiveClients, LiveSites, LiveViews
<1>3. \A cs : SitesUnder(db, cs) \subseteq LiveSites(db)
  BY DEF SitesUnder
<1>4. \A cs : SitesOf(db, cs) \subseteq SitesUnder(db, cs)
  BY DEF SitesOf, SitesUnder
<1>5. /\ \A cs, k : SitesNamed(db, cs, k) \subseteq SitesOf(db, cs)
      /\ \A ss : ViewsAt(db, ss) \subseteq LiveViews(db)
  BY DEF SitesNamed, ViewsAt
<1>6. QED
  BY <1>1, <1>2, <1>3, <1>4, <1>5

LEMMA StepTypes ==
    ASSUME TypeOK, NEW r \in Requests, RequestStep(r)
    PROVE  RequestTypes'
<1>1. RequestTypes /\ r \in Ids
  BY DEF TypeOK, RequestTypes, Ids
<1>2. Master \in Tree /\ Replica \in Tree
  BY TreeEnds
<1>3. /\ LiveClients(Master) \subseteq Ids
      /\ \A cs : SitesUnder(Master, cs) \subseteq Ids
  BY <1>2, DbFacts
<1>4. /\ LiveClients(Replica) \subseteq Ids /\ LiveViews(Replica) \subseteq Ids
      /\ \A cs : SitesOf(Replica, cs) \subseteq Ids
      /\ \A cs, k : SitesNamed(Replica, cs, k) \subseteq Ids
      /\ \A ss : ViewsAt(Replica, ss) \subseteq Ids
  <2>1. Replica \in Tree
    BY <1>2
  <2>2. QED
    BY <2>1, DbFacts
<1>5. ASSUME NEW x \in Locations, Goto(r, x)
      PROVE  pc' \in [Requests -> Locations] /\ reply' \in [Requests -> {"none", "ok", "error"}]
  BY <1>1, <1>5 DEF Goto, RequestTypes
<1>6. ASSUME NEW x \in {"ok", "error"}, Answer(r, x)
      PROVE  pc' \in [Requests -> Locations] /\ reply' \in [Requests -> {"none", "ok", "error"}]
  BY <1>1, <1>6 DEF Answer, RequestTypes, Locations
<1>7. ASSUME NEW k, NEW x \in Locations, Arrive(r, k, x)
      PROVE  /\ kind' \in [Requests -> Kinds \cup {"none"}]
             /\ pc' \in [Requests -> Locations] /\ reply' \in [Requests -> {"none", "ok", "error"}]
             /\ seen' \in [Requests -> SUBSET Requests] /\ stale' \subseteq Requests
             /\ clients' = clients /\ sites' = sites /\ views' = views
  <2>1. pc' \in [Requests -> Locations] /\ reply' \in [Requests -> {"none", "ok", "error"}]
    BY <1>5, <1>6, <1>7 DEF Arrive
  <2>2. QED
    BY <2>1, <1>1, <1>7 DEF Arrive, RequestTypes, Finished
<1>8. ReadReplica(r) => stale' \subseteq Requests
  BY <1>1 DEF ReadReplica, RequestTypes
<1>9. /\ AfterClient(r) => pc' \in [Requests -> Locations] /\ reply' \in [Requests -> {"none", "ok", "error"}]
      /\ AfterSite(r) => pc' \in [Requests -> Locations] /\ reply' \in [Requests -> {"none", "ok", "error"}]
  BY <1>5, <1>6 DEF AfterClient, AfterSite, Locations
<1>16. /\ \A i \in Ids : [clients EXCEPT ![r] = {i}] \in [Requests -> SUBSET Ids]
       /\ \A i \in Ids : [sites EXCEPT ![r] = {i}] \in [Requests -> SUBSET Ids]
       /\ \A i \in Ids : [views EXCEPT ![r] = {i}] \in [Requests -> SUBSET Ids]
       /\ clients \in [Requests -> SUBSET Ids] /\ sites \in [Requests -> SUBSET Ids]
       /\ views \in [Requests -> SUBSET Ids]
  BY <1>1 DEF RequestTypes
<1>10. CASE StartPut(r)
  <2>1. PICK k \in Puts, s \in Keys : Arrive(r, k, "client") /\ key' = [key EXCEPT ![r] = s]
    BY <1>10 DEF StartPut
  <2>2. "client" \in Locations
    BY DEF Locations
  <2>3. QED
    BY <2>1, <2>2, <1>1, <1>7 DEF RequestTypes
<1>11. CASE StartDelete(r)
  <2>1. PICK k \in Deletions :
          /\ Arrive(r, k, CASE k = "deleteCamera" -> "camera" [] k = "deleteSite" -> "site"
                            [] k = "deleteClient" -> "client" [] k = "deleteCompany" -> "clients")
          /\ IF k = "deleteSite" THEN \E s \in Keys : key' = [key EXCEPT ![r] = s] ELSE UNCHANGED key
    BY <1>11 DEF StartDelete
  <2>2. (CASE k = "deleteCamera" -> "camera" [] k = "deleteSite" -> "site"
           [] k = "deleteClient" -> "client" [] k = "deleteCompany" -> "clients") \in Locations
    BY DEF Locations, Deletions
  <2>3. key' \in [Requests -> Keys \cup {None}]
    BY <2>1, <1>1 DEF RequestTypes
  <2>4. QED
    BY <2>1, <2>2, <2>3, <1>1, <1>7 DEF RequestTypes
<1>12. CASE Fail(r)
  BY <1>1, <1>6, <1>12 DEF Fail, RequestTypes, arrival, database
<1>13. CASE kind[r] \in Puts /\ PutStep(r)
  <2>1. kind' = kind /\ key' = key /\ seen' = seen
    BY <1>13 DEF PutStep, FindClient, CreateClient, FindSite, CreateSite, FindCamera, CreateView,
                 FindView, UpdateView, arrival
  <2>2. pc' \in [Requests -> Locations] /\ reply' \in [Requests -> {"none", "ok", "error"}]
    <3>1. {"createClient", "createSite", "createView", "findView", "updateView"} \subseteq Locations
      BY DEF Locations
    <3>2. QED
      BY <3>1, <1>5, <1>6, <1>9, <1>13 DEF PutStep, FindClient, CreateClient, FindSite, CreateSite,
         FindCamera, CreateView, FindView, UpdateView
  <2>3. stale' \subseteq Requests
    BY <1>1, <1>8, <1>13 DEF PutStep, FindClient, CreateClient, FindSite, CreateSite, FindCamera,
       CreateView, FindView, UpdateView, RequestTypes
  <2>4. clients' \in [Requests -> SUBSET Ids]
    <3>1. CASE FindClient(r)
      BY <1>3, <1>16, <3>1 DEF FindClient, ClientsToReuse
    <3>2. CASE CreateClient(r)
      BY <1>1, <1>16, <3>2 DEF CreateClient
    <3>3. ~FindClient(r) /\ ~CreateClient(r) => clients' = clients
      BY <1>13 DEF PutStep, FindSite, CreateSite, FindCamera, CreateView, FindView, UpdateView
    <3>4. QED
      BY <1>16, <3>1, <3>2, <3>3
  <2>5. sites' \in [Requests -> SUBSET Ids]
    <3>1. CASE FindSite(r)
      BY <1>4, <1>16, <3>1 DEF FindSite
    <3>2. CASE CreateSite(r)
      BY <1>1, <1>16, <3>2 DEF CreateSite
    <3>3. ~FindSite(r) /\ ~CreateSite(r) => sites' = sites
      BY <1>13 DEF PutStep, FindClient, CreateClient, FindCamera, CreateView, FindView, UpdateView
    <3>4. QED
      BY <1>16, <3>1, <3>2, <3>3
  <2>6. views' \in [Requests -> SUBSET Ids]
    <3>1. CASE FindCamera(r)
      BY <1>4, <1>16, <3>1 DEF FindCamera, CamerasInCompany
    <3>2. CASE CreateView(r)
      BY <1>1, <1>16, <3>2 DEF CreateView
    <3>3. ~FindCamera(r) /\ ~CreateView(r) => views' = views
      BY <1>13 DEF PutStep, FindClient, CreateClient, FindSite, CreateSite, FindView, UpdateView
    <3>4. QED
      BY <1>16, <3>1, <3>2, <3>3
  <2>7. QED
    BY <2>1, <2>2, <2>3, <2>4, <2>5, <2>6, <1>1 DEF RequestTypes
<1>14. CASE kind[r] \in Deletions /\ DeleteStep(r)
  <2>1. kind' = kind /\ key' = key /\ seen' = seen
    BY <1>14 DEF DeleteStep, LookUpCamera, LookUpSite, LookUpClient, TakeClients, TakeSites, TakeViews,
       CommitDelete, arrival
  <2>2. pc' \in [Requests -> Locations] /\ reply' \in [Requests -> {"none", "ok", "error"}]
    <3>1. {"sites", "views", "commit"} \subseteq Locations
      BY DEF Locations
    <3>2. QED
      BY <3>1, <1>5, <1>6, <1>14 DEF DeleteStep, LookUpCamera, LookUpSite, LookUpClient, TakeClients,
         TakeSites, TakeViews, CommitDelete
  <2>3. stale' \subseteq Requests
    BY <1>1, <1>8, <1>14 DEF DeleteStep, LookUpCamera, LookUpSite, LookUpClient, TakeClients,
       TakeSites, TakeViews, CommitDelete, RequestTypes
  <2>4. clients' \in [Requests -> SUBSET Ids]
    BY <1>1, <1>3, <1>4, <1>14 DEF DeleteStep, LookUpCamera, LookUpSite, LookUpClient, TakeClients,
       TakeSites, TakeViews, CommitDelete, RequestTypes
  <2>5. sites' \in [Requests -> SUBSET Ids]
    BY <1>1, <1>3, <1>4, <1>14 DEF DeleteStep, LookUpCamera, LookUpSite, LookUpClient, TakeClients,
       TakeSites, TakeViews, CommitDelete, RequestTypes
  <2>6. views' \in [Requests -> SUBSET Ids]
    BY <1>1, <1>4, <1>14 DEF DeleteStep, LookUpCamera, LookUpSite, LookUpClient, TakeClients,
       TakeSites, TakeViews, CommitDelete, RequestTypes, CamerasInCompany, ViewsToDelete
  <2>7. QED
    BY <2>1, <2>2, <2>3, <2>4, <2>5, <2>6, <1>1 DEF RequestTypes
<1>15. QED
  BY <1>10, <1>11, <1>12, <1>13, <1>14 DEF RequestStep

\* A request that is over does nothing, and a step of one leaves the others alone.
LEMMA OthersUntouched ==
    ASSUME TypeOK, NEW r \in Requests, RequestStep(r)
    PROVE  /\ pc[r] # "done" /\ stale \subseteq stale'
           /\ \A q \in Requests \ {r} : Untouched(q)
<1>1. RequestTypes
  BY DEF TypeOK, RequestTypes
<1>2. /\ \A x : Goto(r, x) => \A q \in Requests \ {r} : pc'[q] = pc[q] /\ reply'[q] = reply[q]
      /\ \A x : Answer(r, x) => \A q \in Requests \ {r} : pc'[q] = pc[q] /\ reply'[q] = reply[q]
  BY <1>1 DEF Goto, Answer, RequestTypes
<1>3. /\ AfterClient(r) => \A q \in Requests \ {r} : pc'[q] = pc[q] /\ reply'[q] = reply[q]
      /\ AfterSite(r) => \A q \in Requests \ {r} : pc'[q] = pc[q] /\ reply'[q] = reply[q]
  BY <1>2 DEF AfterClient, AfterSite
<1>4. ReadReplica(r) => stale \subseteq stale' /\ \A q \in Requests \ {r} : q \in stale' <=> q \in stale
  BY DEF ReadReplica
<1>5. CASE StartPut(r) \/ StartDelete(r)
  <2>1. PICK k, x : Arrive(r, k, x) /\ \A q \in Requests \ {r} : key'[q] = key[q]
    BY <1>1, <1>5 DEF StartPut, StartDelete, RequestTypes
  <2>2. QED
    BY <2>1, <1>1, <1>2 DEF Arrive, Untouched, RequestTypes, database
<1>6. CASE Fail(r)
  BY <1>2, <1>6 DEF Fail, Untouched, arrival
<1>7. CASE PutStep(r)
  <2>1. kind' = kind /\ key' = key /\ seen' = seen /\ pc[r] # "done"
    BY <1>7 DEF PutStep, FindClient, CreateClient, FindSite, CreateSite, FindCamera, CreateView,
                 FindView, UpdateView, arrival
  <2>2. \A q \in Requests \ {r} : pc'[q] = pc[q] /\ reply'[q] = reply[q]
    BY <1>2, <1>3, <1>7 DEF PutStep, FindClient, CreateClient, FindSite, CreateSite, FindCamera,
       CreateView, FindView, UpdateView
  <2>3. \A q \in Requests \ {r} : clients'[q] = clients[q] /\ sites'[q] = sites[q] /\ views'[q] = views[q]
    BY <1>1, <1>7 DEF PutStep, FindClient, CreateClient, FindSite, CreateSite, FindCamera, CreateView,
       FindView, UpdateView, RequestTypes
  <2>4. stale \subseteq stale' /\ \A q \in Requests \ {r} : q \in stale' <=> q \in stale
    BY <1>4, <1>7 DEF PutStep, FindClient, CreateClient, FindSite, CreateSite, FindCamera, CreateView,
       FindView, UpdateView
  <2>5. QED
    BY <2>1, <2>2, <2>3, <2>4 DEF Untouched
<1>8. CASE DeleteStep(r)
  <2>1. kind' = kind /\ key' = key /\ seen' = seen /\ pc[r] # "done"
    BY <1>8 DEF DeleteStep, LookUpCamera, LookUpSite, LookUpClient, TakeClients, TakeSites, TakeViews,
       CommitDelete, arrival
  <2>2. \A q \in Requests \ {r} : pc'[q] = pc[q] /\ reply'[q] = reply[q]
    BY <1>2, <1>8 DEF DeleteStep, LookUpCamera, LookUpSite, LookUpClient, TakeClients, TakeSites,
       TakeViews, CommitDelete
  <2>3. \A q \in Requests \ {r} : clients'[q] = clients[q] /\ sites'[q] = sites[q] /\ views'[q] = views[q]
    BY <1>1, <1>8 DEF DeleteStep, LookUpCamera, LookUpSite, LookUpClient, TakeClients, TakeSites,
       TakeViews, CommitDelete, RequestTypes
  <2>4. stale \subseteq stale' /\ \A q \in Requests \ {r} : q \in stale' <=> q \in stale
    BY <1>4, <1>8 DEF DeleteStep, LookUpCamera, LookUpSite, LookUpClient, TakeClients, TakeSites,
       TakeViews, CommitDelete
  <2>5. QED
    BY <2>1, <2>2, <2>3, <2>4 DEF Untouched
<1>9. QED
  BY <1>5, <1>6, <1>7, <1>8 DEF RequestStep

\* What a commit of r does to the versions.
CommitsTree(r) ==
    \/ versions' = versions /\ wrote' = wrote
    \/ Master' \in Tree /\ Commit(r, Master')

\* The steps that commit nothing.
LEMMA Quiet ==
    ASSUME TypeOK, NEW r \in Requests, UNCHANGED database
    PROVE  EvolvesBy(r) /\ CommitsTree(r) /\ Master' = Master
  BY DEF EvolvesBy, CommitsTree, database, Master

\* What each of the commits does.
LEMMA ClientCreated ==
    ASSUME TypeOK, NEW r \in Requests, CreateClient(r)
    PROVE  /\ Commit(r, Master') /\ Master' \in Tree /\ Master'.company = Master.company
           /\ Master'.sites = Master.sites /\ Master'.views = Master.views
           /\ \A c \in Ids \ {r} : Master'.clients[c] = Master.clients[c]
           /\ r \in Ids /\ Master'.clients[r].state = "live"
<1> DEFINE row == [state |-> "live", by |-> r]
           db == [Master EXCEPT !.clients[r] = row]
<1>1. r \in Ids /\ Master \in Tree
  BY TreeEnds DEF Ids
<1>2. Commit(r, db)
  BY DEF CreateClient
<1>3. row \in ClientRows /\ row.state = "live"
  BY <1>1 DEF ClientRows, States
<1> HIDE DEF row
<1>4. /\ db \in Tree /\ db.company = Master.company /\ db.sites = Master.sites
      /\ db.views = Master.views /\ db.clients = [Master.clients EXCEPT ![r] = row]
  BY <1>1, <1>3, PutClientRow
<1> HIDE DEF db
<1>5. Master' = db
  BY <1>2, <1>4, CommitTypes
<1>6. Master.clients \in [Ids -> ClientRows]
  BY <1>1, DbFacts
<1>7. QED
  BY <1>1, <1>2, <1>3, <1>4, <1>5, <1>6

LEMMA SiteCreated ==
    ASSUME TypeOK, NEW r \in Requests, CreateSite(r)
    PROVE  /\ Commit(r, Master') /\ Master' \in Tree /\ Master'.company = Master.company
           /\ Master'.clients = Master.clients /\ Master'.views = Master.views
           /\ \A s \in Ids \ {r} : Master'.sites[s] = Master.sites[s]
           /\ r \in Ids /\ Master'.sites[r].state = "live"
           /\ Master'.sites[r].client \in clients[r] /\ Master'.sites[r].key = key[r]
<1>1. PICK c \in clients[r] :
        Commit(r, [Master EXCEPT !.sites[r] = [state |-> "live", client |-> c, key |-> key[r], by |-> r]])
  BY DEF CreateSite
<1> DEFINE row == [state |-> "live", client |-> c, key |-> key[r], by |-> r]
           db == [Master EXCEPT !.sites[r] = row]
<1>2. r \in Ids /\ Master \in Tree /\ c \in Ids /\ key[r] \in Keys \cup {None}
  BY TreeEnds DEF Ids, TypeOK
<1>3. Commit(r, db)
  BY <1>1
<1>4. row \in SiteRows /\ row.state = "live" /\ row.client = c /\ row.key = key[r]
  BY <1>2 DEF SiteRows, States
<1> HIDE DEF row
<1>5. /\ db \in Tree /\ db.company = Master.company /\ db.clients = Master.clients
      /\ db.views = Master.views /\ db.sites = [Master.sites EXCEPT ![r] = row]
  BY <1>2, <1>4, PutSiteRow
<1> HIDE DEF db
<1>6. Master' = db
  BY <1>3, <1>5, CommitTypes
<1>7. Master.sites \in [Ids -> SiteRows]
  BY <1>2, DbFacts
<1>8. QED
  BY <1>1, <1>2, <1>3, <1>4, <1>5, <1>6, <1>7

LEMMA ViewCreated ==
    ASSUME TypeOK, NEW r \in Requests, CreateView(r)
    PROVE  /\ Commit(r, Master') /\ Master' \in Tree /\ Master'.company = Master.company
           /\ Master'.clients = Master.clients /\ Master'.sites = Master.sites
           /\ \A v \in Ids \ {r} : Master'.views[v] = Master.views[v]
           /\ r \in Ids /\ Master'.views[r].state = "live" /\ Master'.views[r].by = r
           /\ Master'.views[r].site \in sites[r]
<1>1. PICK s \in sites[r] : Commit(r, [Master EXCEPT !.views[r] = [state |-> "live", site |-> s, by |-> r]])
  BY DEF CreateView
<1> DEFINE row == [state |-> "live", site |-> s, by |-> r]
           db == [Master EXCEPT !.views[r] = row]
<1>2. r \in Ids /\ Master \in Tree /\ s \in Ids
  BY TreeEnds DEF Ids, TypeOK
<1>3. Commit(r, db)
  BY <1>1
<1>4. row \in ViewRows /\ row.state = "live" /\ row.site = s /\ row.by = r
  BY <1>2 DEF ViewRows, States
<1> HIDE DEF row
<1>5. /\ db \in Tree /\ db.company = Master.company /\ db.clients = Master.clients
      /\ db.sites = Master.sites /\ db.views = [Master.views EXCEPT ![r] = row]
  BY <1>2, <1>4, PutViewRow
<1> HIDE DEF db
<1>6. Master' = db
  BY <1>3, <1>5, CommitTypes
<1>7. Master.views \in [Ids -> ViewRows]
  BY <1>2, DbFacts
<1>8. QED
  BY <1>1, <1>2, <1>3, <1>4, <1>5, <1>6, <1>7

LEMMA ViewUpdated ==
    ASSUME TypeOK, NEW r \in Requests, UpdateView(r)
    PROVE  /\ Commit(r, Master') /\ Master' \in Tree /\ Master'.company = Master.company
           /\ Master'.clients = Master.clients /\ Master'.sites = Master.sites
           /\ \E v \in views[r] :
                /\ \A w \in Ids \ {v} : Master'.views[w] = Master.views[w]
                /\ v \in Ids /\ Master'.views[v].state = Master.views[v].state
                /\ Master'.views[v].by = r /\ Master'.views[v].site \in sites[r]
<1>1. PICK v \in views[r], s \in sites[r] :
        Commit(r, [Master EXCEPT !.views[v] = [state |-> Master.views[v].state, site |-> s, by |-> r]])
  BY DEF UpdateView
<1> DEFINE row == [state |-> Master.views[v].state, site |-> s, by |-> r]
           db == [Master EXCEPT !.views[v] = row]
<1>2. r \in Ids /\ Master \in Tree /\ s \in Ids /\ v \in Ids
  BY TreeEnds DEF Ids, TypeOK
<1>3. Master.views \in [Ids -> ViewRows]
  BY <1>2, DbFacts
<1>4. Commit(r, db)
  BY <1>1
<1>5. row \in ViewRows /\ row.state = Master.views[v].state /\ row.site = s /\ row.by = r
  BY <1>2, <1>3 DEF ViewRows
<1> HIDE DEF row
<1>6. /\ db \in Tree /\ db.company = Master.company /\ db.clients = Master.clients
      /\ db.sites = Master.sites /\ db.views = [Master.views EXCEPT ![v] = row]
  BY <1>2, <1>5, PutViewRow
<1> HIDE DEF db
<1>7. Master' = db
  BY <1>4, <1>6, CommitTypes
<1>8. QED
  BY <1>1, <1>2, <1>3, <1>4, <1>5, <1>6, <1>7

\* Every step of a request changes the tree in one of the ways of EvolvesBy.
LEMMA StepEvolves ==
    ASSUME TypeOK, TreeFits, NEW r \in Requests, RequestInv(r), RequestStep(r)
    PROVE  EvolvesBy(r) /\ CommitsTree(r)
<1>1. RequestTypes /\ r \in Ids
  BY DEF TypeOK, RequestTypes, Ids
<1>2. Master \in Tree
  BY TreeEnds
<1>3. /\ Master.clients \in [Ids -> ClientRows] /\ Master.sites \in [Ids -> SiteRows]
      /\ Master.views \in [Ids -> ViewRows]
  BY <1>2, DbFacts
<1>4. /\ clients[r] \in SUBSET Ids /\ sites[r] \in SUBSET Ids /\ views[r] \in SUBSET Ids
      /\ key[r] \in Keys \cup {None}
  BY <1>1 DEF RequestTypes
<1>5. CASE CreateClient(r)
  <2>1. pc[r] = "createClient" /\ Absent(Master.clients, r)
    BY <1>5 DEF RequestInv, Fresh, CreateClient
  <2>2. QED
    BY <1>5, <2>1, ClientCreated, CommitTypes DEF EvolvesBy, CommitsTree, NewClient
<1>6. CASE CreateSite(r)
  <2>1. pc[r] = "createSite" /\ Absent(Master.sites, r)
    BY <1>6 DEF RequestInv, Fresh, CreateSite
  <2>2. QED
    BY <1>6, <2>1, SiteCreated, CommitTypes DEF EvolvesBy, CommitsTree, NewSite
<1>7. CASE CreateView(r)
  <2>1. pc[r] = "createView" /\ Absent(Master.views, r)
    BY <1>7 DEF RequestInv, Fresh, CreateView
  <2>2. QED
    BY <1>7, <2>1, ViewCreated, CommitTypes DEF EvolvesBy, CommitsTree, NewView
<1>8. CASE UpdateView(r)
  <2>1. pc[r] = "updateView"
    BY <1>8 DEF UpdateView
  <2>2. QED
    BY <1>8, <2>1, ViewUpdated, CommitTypes DEF EvolvesBy, CommitsTree, MovedView
<1>9. CASE kind[r] \in Deletions /\ CommitDelete(r)
  <2> DEFINE db == [company |-> Master.company /\ kind[r] # "deleteCompany",
                    clients |-> Deleted(Master.clients, clients[r], r),
                    sites |-> Deleted(Master.sites, SitesToDelete(r), r),
                    views |-> Deleted(Master.views, views[r], r)]
  <2>1. pc[r] = "commit" /\ Commit(r, db) /\ pc'[r] = "done"
    BY <1>1, <1>9 DEF CommitDelete, Answer, RequestTypes
  <2>2. SitesToDelete(r) \in SUBSET Ids
    BY <1>2, <1>4, DbFacts DEF SitesToDelete
  <2>3. /\ Deleted(Master.clients, clients[r], r) \in [Ids -> ClientRows]
        /\ Deleted(Master.sites, SitesToDelete(r), r) \in [Ids -> SiteRows]
        /\ Deleted(Master.views, views[r], r) \in [Ids -> ViewRows]
    BY <1>1, <1>2, <1>4, <2>2, DeletedRows
  <2>4. Master.company \in BOOLEAN
    BY <1>2, DbFacts
  <2>5. db \in Tree
    BY <2>3, <2>4 DEF Tree, ClientRows, SiteRows, ViewRows
  <2>6. /\ db.company => Master.company /\ kind[r] # "deleteCompany"
        /\ db.clients = Deleted(Master.clients, clients[r], r)
        /\ db.sites = Deleted(Master.sites, SitesToDelete(r), r)
        /\ db.views = Deleted(Master.views, views[r], r)
    OBVIOUS
  <2> HIDE DEF db
  <2>7. Master' = db /\ wrote \subseteq wrote' /\ r \in wrote'
    BY <2>1, <2>5, CommitTypes
  <2>8. \A v \in Ids : (Master'.views[v] = Master.views[v] /\ (v \notin views[r] \/ Master.views[v].state # "live"))
                       \/ LostView(r, v)
    <3>1. SUFFICES ASSUME NEW v \in Ids
                   PROVE  \/ /\ Master'.views[v] = Master.views[v]
                             /\ v \notin views[r] \/ Master.views[v].state # "live"
                          \/ LostView(r, v)
      OBVIOUS
    <3>2. Master'.views[v] = Deleted(Master.views, views[r], r)[v]
      BY <2>6, <2>7
    <3>3. \/ /\ Deleted(Master.views, views[r], r)[v] = Master.views[v]
             /\ v \notin views[r] \/ Master.views[v].state # "live"
          \/ /\ v \in views[r] /\ Master.views[v].state = "live"
             /\ Deleted(Master.views, views[r], r)[v].state = "deleted"
             /\ Deleted(Master.views, views[r], r)[v].site = Master.views[v].site
      BY <1>1, <1>3, <1>4, DeletedViews
    <3>4. QED
      BY <2>1, <3>2, <3>3 DEF LostView, LiveViews
  <2>9. views[r] \cap LiveViews(Master') = {}
    BY <2>8 DEF LostView, LiveViews
  <2>10. \A s \in Ids : \/ /\ Master'.sites[s] = Master.sites[s]
                           /\ s \notin SitesToDelete(r) \/ Master.sites[s].state # "live"
                        \/ LostSite(r, s)
    <3>1. SUFFICES ASSUME NEW s \in Ids
                   PROVE  \/ /\ Master'.sites[s] = Master.sites[s]
                             /\ s \notin SitesToDelete(r) \/ Master.sites[s].state # "live"
                          \/ LostSite(r, s)
      OBVIOUS
    <3>2. Master'.sites[s] = Deleted(Master.sites, SitesToDelete(r), r)[s]
      BY <2>6, <2>7
    <3>3. \/ /\ Deleted(Master.sites, SitesToDelete(r), r)[s] = Master.sites[s]
             /\ s \notin SitesToDelete(r) \/ Master.sites[s].state # "live"
          \/ /\ s \in SitesToDelete(r) /\ Master.sites[s].state = "live"
             /\ Deleted(Master.sites, SitesToDelete(r), r)[s].state = "deleted"
             /\ Deleted(Master.sites, SitesToDelete(r), r)[s].by = r
             /\ Deleted(Master.sites, SitesToDelete(r), r)[s].client = Master.sites[s].client
             /\ Deleted(Master.sites, SitesToDelete(r), r)[s].key = Master.sites[s].key
      BY <1>1, <1>3, <2>2, DeletedSites
    <3>4. QED
      BY <2>1, <2>9, <3>2, <3>3 DEF LostSite, LiveSites
  <2>11. \A cs : SitesUnder(Master', cs) = SitesUnder(Master, cs) \ SitesToDelete(r)
    BY <2>10 DEF SitesUnder, LiveSites, LostSite
  <2>12. ASSUME NEW c \in Ids, Master'.clients[c] # Master.clients[c]
         PROVE  LostClient(r, c)
    <3>1. /\ c \in clients[r] /\ Master.clients[c].state = "live"
          /\ Master'.clients[c].state = "deleted" /\ Master'.clients[c].by = r
      <4>1. Master'.clients[c] = Deleted(Master.clients, clients[r], r)[c]
        BY <2>6, <2>7
      <4>2. \/ /\ Deleted(Master.clients, clients[r], r)[c] = Master.clients[c]
               /\ c \notin clients[r] \/ Master.clients[c].state # "live"
            \/ /\ c \in clients[r] /\ Master.clients[c].state = "live"
               /\ Deleted(Master.clients, clients[r], r)[c].state = "deleted"
               /\ Deleted(Master.clients, clients[r], r)[c].by = r
        BY <1>1, <1>3, <1>4, DeletedClients
      <4>3. QED
        BY <2>12, <4>1, <4>2
    <3>2. kind[r] \in {"deleteClient", "deleteCompany"}
      BY <1>9, <3>1 DEF RequestInv, Paths, Deletions
    <3>3. kind[r] = "deleteClient" => SitesUnder(Master', {c}) = {}
      <4>1. SitesUnder(Master, {c}) \subseteq SitesUnder(Master, clients[r])
        BY <3>1 DEF SitesUnder
      <4>2. QED
        BY <2>11, <4>1 DEF SitesToDelete
    <3>4. kind[r] = "deleteCompany" =>
            ~Master'.company /\ \A s \in SitesUnder(Master', {c}) : ~Before(s, r)
      <4>1. SitesUnder(Master, {c}) \subseteq SitesUnder(Master, clients[r])
        BY <3>1 DEF SitesUnder
      <4>2. kind[r] = "deleteCompany" => SitesToDelete(r) = sites[r]
        BY DEF SitesToDelete
      <4>3. QED
        BY <2>1, <2>6, <2>7, <2>11, <4>1, <4>2 DEF RequestInv, SitesCovered
    <3>5. QED
      BY <2>1, <3>1, <3>2, <3>3, <3>4 DEF LostClient, LiveClients
  <2>13. QED
    BY <2>1, <2>5, <2>6, <2>7, <2>8, <2>10, <2>12 DEF EvolvesBy, CommitsTree
<1>10. CASE /\ ~CreateClient(r) /\ ~CreateSite(r) /\ ~CreateView(r) /\ ~UpdateView(r)
            /\ ~(kind[r] \in Deletions /\ CommitDelete(r))
  <2>1. UNCHANGED database
    BY <1>10 DEF RequestStep, StartPut, StartDelete, Arrive, Fail, PutStep, FindClient, FindSite, FindCamera,
       FindView, DeleteStep, LookUpCamera, LookUpSite, LookUpClient, TakeClients, TakeSites, TakeViews
  <2>2. QED
    BY <2>1, Quiet
<1>11. QED
  BY <1>5, <1>6, <1>7, <1>8, <1>9, <1>10

\* So the new state has its types.
LEMMA StepTypeOK ==
    ASSUME TypeOK, TreeFits, NEW r \in Requests, RequestInv(r), RequestStep(r)
    PROVE  TypeOK'
<1>1. RequestTypes'
  BY StepTypes
<1>2. versions \in Seq(Tree) /\ versions # <<>> /\ wrote \subseteq Requests
  BY DEF TypeOK
<1>3. versions' \in Seq(Tree) /\ versions' # <<>> /\ wrote' \subseteq Requests
  BY <1>2, StepEvolves, CommitTypes DEF CommitsTree
<1>4. QED
  BY <1>1, <1>3 DEF TypeOK, RequestTypes

-----------------------------------------------------------------------------
(***************************************************************************)
(* What holds of a request stays true while others take their steps.       *)
(***************************************************************************)
\* Some steps are those of PUTs only.
LEMMA KindsFit ==
    ASSUME TypeOK, NEW r \in Requests, Paths(r)
    PROVE  /\ kind[r] \in {"none"} \cup Puts \cup Deletions
           /\ pc[r] = "idle" => kind[r] = "none"
           /\ pc[r] \in {"createClient", "createSite", "createView", "findView", "updateView"} =>
                kind[r] \in Puts
<1>1. kind[r] \in {"none"} \cup Puts \cup Deletions
  BY TreeAssumption DEF TypeOK
<1>2. QED
  BY <1>1 DEF Paths, Path, Puts, Deletions

\* Nobody came after a request that has not finished.
LEMMA Unfinished ==
    ASSUME NEW r \in Requests, pc[r] # "done", NEW b, b \in Requests => seen[b] \subseteq Finished
    PROVE  ~Before(r, b)
  BY TreeAssumption DEF Before, Finished

\* What lives after a step of r lived before, or r has just made it so.
LEMMA LiveAfter ==
    ASSUME NEW r \in Requests, EvolvesBy(r)
    PROVE  /\ \A c \in LiveClients(Master)' : c \in LiveClients(Master) \/ NewClient(r, c)
           /\ \A s \in LiveSites(Master)' :
                (s \in LiveSites(Master) /\ Master'.sites[s] = Master.sites[s]) \/ NewSite(r, s)
           /\ \A v \in LiveViews(Master)' :
                \/ v \in LiveViews(Master) /\ Master'.views[v] = Master.views[v]
                \/ NewView(r, v)
                \/ v \in LiveViews(Master) /\ MovedView(r, v)
<1>1. \A c \in LiveClients(Master)' : c \in LiveClients(Master) \/ NewClient(r, c)
  BY DEF EvolvesBy, LiveClients, LostClient
<1>2. \A s \in LiveSites(Master)' :
        (s \in LiveSites(Master) /\ Master'.sites[s] = Master.sites[s]) \/ NewSite(r, s)
  BY DEF EvolvesBy, LiveSites, LostSite
<1>3. \A v \in LiveViews(Master)' :
        \/ v \in LiveViews(Master) /\ Master'.views[v] = Master.views[v]
        \/ NewView(r, v)
        \/ v \in LiveViews(Master) /\ MovedView(r, v)
  BY DEF EvolvesBy, LiveViews, LostView, MovedView
<1>4. QED
  BY <1>1, <1>2, <1>3

\* What exists goes on existing, and what is deleted stays so.
LEMMA Lasting ==
    ASSUME NEW r \in Requests, EvolvesBy(r)
    PROVE  /\ \A c \in Ids : c # r /\ Absent(Master.clients, c) => Absent(Master.clients, c)'
           /\ \A s \in Ids : s # r /\ Absent(Master.sites, s) => Absent(Master.sites, s)'
           /\ \A v \in Ids : v # r /\ Absent(Master.views, v) => Absent(Master.views, v)'
           /\ \A c \in Ids : ~Absent(Master.clients, c) => ~Absent(Master.clients, c)'
           /\ \A s \in Ids : ~Absent(Master.sites, s) => ~Absent(Master.sites, s)'
           /\ \A c \in Ids : Master.clients[c].state = "deleted" => Master'.clients[c] = Master.clients[c]
           /\ \A s \in Ids : Master.sites[s].state = "deleted" => Master'.sites[s] = Master.sites[s]
           /\ \A v \in Ids : Master.views[v].state = "deleted" => Master'.views[v].state = "deleted"
<1>1. /\ \A c \in Ids : c # r /\ Absent(Master.clients, c) => Absent(Master.clients, c)'
      /\ \A c \in Ids : ~Absent(Master.clients, c) => ~Absent(Master.clients, c)'
      /\ \A c \in Ids : Master.clients[c].state = "deleted" => Master'.clients[c] = Master.clients[c]
  BY DEF EvolvesBy, NewClient, LostClient, Absent, LiveClients
<1>2. /\ \A s \in Ids : s # r /\ Absent(Master.sites, s) => Absent(Master.sites, s)'
      /\ \A s \in Ids : ~Absent(Master.sites, s) => ~Absent(Master.sites, s)'
      /\ \A s \in Ids : Master.sites[s].state = "deleted" => Master'.sites[s] = Master.sites[s]
  BY DEF EvolvesBy, NewSite, LostSite, Absent, LiveSites
<1>3. /\ \A v \in Ids : v # r /\ Absent(Master.views, v) => Absent(Master.views, v)'
      /\ \A v \in Ids : Master.views[v].state = "deleted" => Master'.views[v].state = "deleted"
  BY DEF EvolvesBy, NewView, MovedView, LostView, Absent, LiveViews
<1>4. QED
  BY <1>1, <1>2, <1>3

LEMMA OthersStay ==
    ASSUME TypeOK, TreeFits, Finished \subseteq Finished',
           NEW r \in Requests, pc[r] # "done", EvolvesBy(r),
           NEW q \in Requests, q # r, RequestInv(q), Untouched(q)
    PROVE  RequestInv(q)'
<1>1. /\ clients[q] \in SUBSET Ids /\ sites[q] \in SUBSET Ids /\ views[q] \in SUBSET Ids
      /\ q \in Ids
  BY DEF TypeOK, Ids
<1>2. ~Before(r, q) /\ \A a : Before(a, q)' <=> Before(a, q)
  <2>1. seen[q] \subseteq Finished
    BY DEF RequestInv, Paths
  <2>2. QED
    BY <2>1, Unfinished DEF Before, Untouched
<1>3. Paths(q)'
  BY DEF RequestInv, Paths, Untouched
<1>4. Fresh(q)'
  BY <1>1, Lasting DEF RequestInv, Fresh, Untouched
<1>5. FoundExists(q)'
  BY <1>1, Lasting DEF RequestInv, FoundExists, Untouched
<1>6. LookedFirst(q)'
  <2>1. pc[q] = "createClient" => \A c \in LiveClients(Master)' : ~Before(c, q)
    BY <1>2, LiveAfter DEF RequestInv, LookedFirst, NewClient
  <2>2. ASSUME pc[q] = "createSite", q \notin stale, Master'.company,
               NEW s \in SitesNamed(Master, clients[q], key[q])'
        PROVE  ~Before(s, q)
    <3>1. /\ s \in LiveSites(Master)' /\ Master'.sites[s].client \in clients[q] \cap LiveClients(Master)'
          /\ Master'.sites[s].key = key[q]
      BY <2>2 DEF SitesNamed, SitesOf, SitesUnder, Untouched
    <3>2. CASE NewSite(r, s)
      BY <3>2, <1>2 DEF NewSite
    <3>3. CASE s \in LiveSites(Master) /\ Master'.sites[s] = Master.sites[s]
      <4>1. kind[q] \in Puts
        BY <2>2, KindsFit DEF RequestInv
      <4>2. ~Absent(Master.clients, Master.sites[s].client)
        BY <3>1, <3>3, <4>1 DEF RequestInv, FoundExists
      <4>3. Master.sites[s].client \in LiveClients(Master)
        BY <3>1, <3>3, <4>2, LiveAfter DEF NewClient
      <4>4. Master.company
        BY <2>2 DEF EvolvesBy
      <4>5. s \in SitesNamed(Master, clients[q], key[q])
        BY <3>1, <3>3, <4>3, <4>4 DEF SitesNamed, SitesOf, SitesUnder
      <4>6. QED
        BY <2>2, <4>4, <4>5 DEF RequestInv, LookedFirst
    <3>4. QED
      BY <3>1, <3>2, <3>3, LiveAfter
  <2>3. ASSUME pc[q] = "createView", q \notin stale, Master'.company, NEW v \in LiveViews(Master)'
        PROVE  ~Before(v, q)
    <3>1. Master.company
      BY <2>3 DEF EvolvesBy
    <3>2. QED
      BY <1>2, <2>3, <3>1, LiveAfter DEF RequestInv, LookedFirst, NewView
  <2>4. QED
    BY <1>2, <2>1, <2>2, <2>3 DEF LookedFirst, Untouched
<1>7. SitesCovered(q)'
  <2>1. SUFFICES ASSUME kind[q] = "deleteCompany", pc[q] \in {"views", "commit"},
                        NEW s \in SitesUnder(Master', clients[q]) \ sites[q]
                 PROVE  ~Before(s, q)
    BY <1>2 DEF SitesCovered, Untouched
  <2>2. s \in LiveSites(Master)' /\ Master'.sites[s].client \in clients[q]
    BY <2>1 DEF SitesUnder
  <2>3. CASE NewSite(r, s)
    BY <2>3, <1>2 DEF NewSite
  <2>4. CASE s \in LiveSites(Master) /\ Master'.sites[s] = Master.sites[s]
    BY <2>1, <2>2, <2>4 DEF RequestInv, SitesCovered, SitesUnder
  <2>5. QED
    BY <2>2, <2>3, <2>4, LiveAfter
<1>8. ViewsCovered(q)'
  <2>1. ASSUME NEW listed, NEW ss, NEW tt, OnlyLater(ss, listed, q),
               \A s \in tt : s \in ss \/ Absent(Master.sites, s) \/ s \notin Ids
        PROVE  \A v \in LiveViews(Master)' \ listed :
                 Master'.views[v].site \in tt => ~Before(Master'.views[v].by, q)
    <3>1. TAKE v \in LiveViews(Master)' \ listed
    <3>2. HAVE Master'.views[v].site \in tt
    <3>3. CASE NewView(r, v) \/ MovedView(r, v)
      BY <3>3, <1>2 DEF NewView, MovedView
    <3>4. CASE v \in LiveViews(Master) /\ Master'.views[v] = Master.views[v]
      <4>1. ~Absent(Master.sites, Master.views[v].site)
        BY <3>4 DEF TreeFits, LiveViews, Absent
      <4>2. Master.views[v].site \in Ids
        <5>1. Master \in Tree
          BY TreeEnds
        <5>2. QED
          BY <3>4, <5>1 DEF Tree, LiveViews
      <4>3. Master.views[v].site \in ss
        BY <2>1, <3>2, <3>4, <4>1, <4>2
      <4>4. QED
        BY <2>1, <3>4, <4>3 DEF OnlyLater
    <3>5. QED
      BY <3>3, <3>4, LiveAfter
  <2>2. \A cs : \A s \in SitesUnder(Master', cs) : s \in SitesUnder(Master, cs) \/ Absent(Master.sites, s)
    BY LiveAfter DEF SitesUnder, NewSite
  <2>3. SUFFICES ASSUME q \notin stale, kind[q] = "deleteClient" => Master'.company
                 PROVE  /\ pc[q] = "sites" /\ kind[q] = "deleteClient" => OnlyLater(Orphans(q), {}, q)'
                        /\ pc[q] = "views" /\ kind[q] = "deleteClient" =>
                             OnlyLater(SitesUnder(Master, clients[q]) \ sites[q], {}, q)'
                        /\ pc[q] = "commit" => OnlyLater(SitesToDelete(q), views[q], q)'
    BY DEF ViewsCovered, Untouched
  <2>4. kind[q] = "deleteClient" => Master.company
    BY <2>3 DEF EvolvesBy
  <2>5. ASSUME pc[q] = "sites", kind[q] = "deleteClient"
        PROVE  OnlyLater(Orphans(q), {}, q)'
    <3>1. OnlyLater(Orphans(q), {}, q)
      BY <2>3, <2>4, <2>5 DEF RequestInv, ViewsCovered
    <3>2. ASSUME NEW s \in Orphans(q)'
          PROVE  s \in Orphans(q) \/ Absent(Master.sites, s) \/ s \notin Ids
      <4>1. /\ s \in SitesUnder(Master', clients[q])
            /\ Master'.sites[s].client \notin LiveClients(Master)'
        BY DEF Orphans, Untouched
      <4>2. s \in LiveSites(Master)' /\ Master'.sites[s].client \in clients[q]
        BY <4>1 DEF SitesUnder
      <4>3. CASE NewSite(r, s)
        BY <4>3 DEF NewSite
      <4>4. CASE s \in LiveSites(Master) /\ Master'.sites[s] = Master.sites[s]
        <5>1. Master.sites[s].client \in Ids /\ s \in SitesUnder(Master, clients[q])
          BY <1>1, <4>2, <4>4 DEF SitesUnder
        <5>2. CASE LostClient(r, Master.sites[s].client)
          <6>1. s \in SitesUnder(Master', {Master.sites[s].client})
            BY <4>2, <4>4 DEF SitesUnder
          <6>2. QED
            BY <2>3, <2>5, <5>2, <6>1 DEF LostClient
        <5>3. CASE ~LostClient(r, Master.sites[s].client)
          <6>1. Master.sites[s].client \notin LiveClients(Master)
            BY <4>1, <4>4, <5>1, <5>3 DEF EvolvesBy, NewClient, LiveClients, Absent
          <6>2. QED
            BY <5>1, <6>1 DEF Orphans
        <5>4. QED
          BY <5>2, <5>3
      <4>5. QED
        BY <4>2, <4>3, <4>4, LiveAfter
    <3>3. \A s \in Orphans(q)' : s \in Orphans(q) \/ Absent(Master.sites, s) \/ s \notin Ids
      BY <3>2
    <3>4. \A v \in LiveViews(Master)' \ {} :
            Master'.views[v].site \in Orphans(q)' => ~Before(Master'.views[v].by, q)
      BY <2>1, <3>1, <3>3
    <3>5. QED
      BY <1>2, <3>4 DEF OnlyLater
  <2>6. ASSUME pc[q] = "views", kind[q] = "deleteClient"
        PROVE  OnlyLater(SitesUnder(Master, clients[q]) \ sites[q], {}, q)'
    <3>1. OnlyLater(SitesUnder(Master, clients[q]) \ sites[q], {}, q)
      BY <2>3, <2>4, <2>6 DEF RequestInv, ViewsCovered
    <3>2. \A s \in SitesUnder(Master', clients[q]) \ sites[q] :
            s \in SitesUnder(Master, clients[q]) \ sites[q] \/ Absent(Master.sites, s) \/ s \notin Ids
      BY <2>2
    <3>3. \A v \in LiveViews(Master)' \ {} :
            Master'.views[v].site \in SitesUnder(Master', clients[q]) \ sites[q]
              => ~Before(Master'.views[v].by, q)
      BY <2>1, <3>1, <3>2
    <3>4. QED
      BY <1>2, <3>3 DEF OnlyLater, Untouched
  <2>7. ASSUME pc[q] = "commit"
        PROVE  OnlyLater(SitesToDelete(q), views[q], q)'
    <3>1. OnlyLater(SitesToDelete(q), views[q], q)
      BY <2>3, <2>4, <2>7 DEF RequestInv, ViewsCovered
    <3>2. \A s \in SitesToDelete(q)' : s \in SitesToDelete(q) \/ Absent(Master.sites, s) \/ s \notin Ids
      BY <2>2 DEF SitesToDelete, Untouched
    <3>3. \A v \in LiveViews(Master)' \ views[q] :
            Master'.views[v].site \in SitesToDelete(q)' => ~Before(Master'.views[v].by, q)
      BY <2>1, <3>1, <3>2
    <3>4. QED
      BY <1>2, <3>3 DEF OnlyLater, Untouched
  <2>8. QED
    BY <2>5, <2>6, <2>7
<1>9. AnsweredDeleted(q)'
  BY <1>1, Lasting DEF RequestInv, AnsweredDeleted, Untouched
<1>10. UndisturbedKnows(q)'
  <2>1. CASE Undisturbed(q)'
    <3>1. Undisturbed(q) /\ Master' = Master
      BY <1>2, <2>1 DEF Undisturbed, Untouched, EvolvesBy
    <3>2. GoodSites(q)' = GoodSites(q)
      BY <3>1 DEF GoodSites, Untouched
    <3>3. QED
      BY <3>1, <3>2 DEF RequestInv, UndisturbedKnows, Untouched
  <2>2. CASE ~Undisturbed(q)'
    BY <2>2 DEF UndisturbedKnows
  <2>3. QED
    BY <2>1, <2>2
<1>11. QED
  BY <1>3, <1>4, <1>5, <1>6, <1>7, <1>8, <1>9, <1>10 DEF RequestInv

-----------------------------------------------------------------------------
(***************************************************************************)
(* What a step makes of the request that takes it.                         *)
(***************************************************************************)
LEMMA Going ==
    ASSUME TypeOK, NEW r \in Requests
    PROVE  /\ \A x : Goto(r, x) => pc'[r] = x /\ reply'[r] = reply[r]
           /\ \A x : Answer(r, x) => pc'[r] = "done" /\ reply'[r] = x
           /\ AfterClient(r) =>
                \/ kind[r] = "putClient" /\ pc'[r] = "done" /\ reply'[r] = "ok"
                \/ kind[r] # "putClient" /\ pc'[r] = "site" /\ reply'[r] = reply[r]
           /\ AfterSite(r) =>
                \/ kind[r] = "putSite" /\ pc'[r] = "done" /\ reply'[r] = "ok"
                \/ kind[r] # "putSite" /\ pc'[r] = "camera" /\ reply'[r] = reply[r]
<1>1. /\ \A x : Goto(r, x) => pc'[r] = x /\ reply'[r] = reply[r]
      /\ \A x : Answer(r, x) => pc'[r] = "done" /\ reply'[r] = x
  BY DEF Goto, Answer, TypeOK
<1>2. QED
  BY <1>1 DEF AfterClient, AfterSite

\* How a request arrives.
LEMMA Arriving ==
    ASSUME TypeOK, NEW r \in Requests, StartPut(r) \/ StartDelete(r)
    PROVE  /\ pc[r] = "idle" /\ kind'[r] \in Puts \cup Deletions /\ UNCHANGED database
           /\ seen'[r] = Finished /\ Master' = Master
           /\ clients' = clients /\ sites' = sites /\ views' = views
           /\ \/ pc'[r] = "done" /\ reply'[r] = "error"
              \/ /\ reply'[r] = reply[r] /\ Replica.company
                 /\ r \notin stale' => Replica.company = Master.company
                 /\ kind'[r] \in Puts /\ pc'[r] = "client"
              \/ /\ reply'[r] = reply[r]
                 /\ \/ kind'[r] = "deleteCamera" /\ pc'[r] = "camera"
                    \/ kind'[r] = "deleteSite" /\ pc'[r] = "site"
                    \/ kind'[r] = "deleteClient" /\ pc'[r] = "client"
                    \/ kind'[r] = "deleteCompany" /\ pc'[r] = "clients"
<1>1. ASSUME NEW k, NEW x, Arrive(r, k, x)
      PROVE  /\ pc[r] = "idle" /\ kind'[r] = k /\ UNCHANGED database /\ seen'[r] = Finished
             /\ Master' = Master /\ clients' = clients /\ sites' = sites /\ views' = views
             /\ \/ pc'[r] = "done" /\ reply'[r] = "error"
                \/ /\ pc'[r] = x /\ reply'[r] = reply[r] /\ Replica.company
                   /\ r \notin stale' => Replica.company = Master.company
  BY <1>1, Going DEF Arrive, TypeOK, database, Master
<1>2. CASE StartPut(r)
  <2>1. PICK k \in Puts : Arrive(r, k, "client")
    BY <1>2 DEF StartPut
  <2>2. QED
    BY <1>1, <2>1
<1>3. CASE StartDelete(r)
  <2>1. PICK k \in Deletions :
          Arrive(r, k, CASE k = "deleteCamera" -> "camera" [] k = "deleteSite" -> "site"
                         [] k = "deleteClient" -> "client" [] k = "deleteCompany" -> "clients")
    BY <1>3 DEF StartDelete
  <2>2. CASE k = "deleteCamera"
    <3>1. Arrive(r, k, "camera")
      BY <2>1, <2>2
    <3>2. QED
      BY <1>1, <2>2, <3>1 DEF Deletions
  <2>3. CASE k = "deleteSite"
    <3>1. Arrive(r, k, "site")
      BY <2>1, <2>3
    <3>2. QED
      BY <1>1, <2>3, <3>1 DEF Deletions
  <2>4. CASE k = "deleteClient"
    <3>1. Arrive(r, k, "client")
      BY <2>1, <2>4
    <3>2. QED
      BY <1>1, <2>4, <3>1 DEF Deletions
  <2>5. CASE k = "deleteCompany"
    <3>1. Arrive(r, k, "clients")
      BY <2>1, <2>5
    <3>2. QED
      BY <1>1, <2>5, <3>1 DEF Deletions
  <2>6. QED
    BY <2>2, <2>3, <2>4, <2>5 DEF Deletions
<1>4. QED
  BY <1>2, <1>3

\* The way of a PUT.
PutMoves(r) ==
    \/ pc[r] = "client" /\ pc'[r] \in {"createClient", "site", "done"}
    \/ pc[r] = "createClient" /\ pc'[r] \in {"site", "done"}
    \/ pc[r] = "site" /\ pc'[r] \in {"createSite", "camera", "done"}
    \/ pc[r] = "createSite" /\ pc'[r] \in {"camera", "done"}
    \/ pc[r] = "camera" /\ pc'[r] \in {"createView", "findView"}
    \/ pc[r] = "createView" /\ pc'[r] = "done"
    \/ pc[r] = "findView" /\ pc'[r] \in {"updateView", "done"}
    \/ pc[r] = "updateView" /\ pc'[r] = "done"

LEMMA PutWay ==
    ASSUME TypeOK, NEW r \in Requests, PutStep(r)
    PROVE  /\ PutMoves(r)
           /\ pc'[r] # "done" => reply'[r] = reply[r]
           /\ kind' = kind /\ key' = key /\ seen' = seen
<1>1. kind' = kind /\ key' = key /\ seen' = seen
  BY DEF PutStep, FindClient, CreateClient, FindSite, CreateSite, FindCamera, CreateView,
         FindView, UpdateView, arrival
<1>2. CASE FindClient(r)
  BY <1>1, <1>2, Going DEF FindClient, PutMoves
<1>3. CASE CreateClient(r)
  BY <1>1, <1>3, Going DEF CreateClient, PutMoves
<1>4. CASE FindSite(r)
  BY <1>1, <1>4, Going DEF FindSite, PutMoves
<1>5. CASE CreateSite(r)
  BY <1>1, <1>5, Going DEF CreateSite, PutMoves
<1>6. CASE FindCamera(r)
  BY <1>1, <1>6, Going DEF FindCamera, PutMoves
<1>7. CASE CreateView(r)
  BY <1>1, <1>7, Going DEF CreateView, PutMoves
<1>8. CASE FindView(r)
  BY <1>1, <1>8, Going DEF FindView, PutMoves
<1>9. CASE UpdateView(r)
  BY <1>1, <1>9, Going DEF UpdateView, PutMoves
<1>10. QED
  BY <1>2, <1>3, <1>4, <1>5, <1>6, <1>7, <1>8, <1>9 DEF PutStep

\* The way of a deletion.
DeleteMoves(r) ==
    \/ kind[r] = "deleteCamera" /\ LookUpCamera(r) /\ pc'[r] \in {"commit", "done"}
    \/ kind[r] = "deleteSite" /\ LookUpSite(r) /\ pc'[r] \in {"views", "done"}
    \/ kind[r] = "deleteClient" /\ LookUpClient(r) /\ pc'[r] \in {"sites", "done"}
    \/ kind[r] = "deleteCompany" /\ TakeClients(r) /\ pc'[r] = "sites"
    \/ kind[r] \in {"deleteClient", "deleteCompany"} /\ TakeSites(r) /\ pc'[r] = "views"
    \/ kind[r] \in {"deleteSite", "deleteClient", "deleteCompany"} /\ TakeViews(r) /\ pc'[r] = "commit"
    \/ CommitDelete(r) /\ pc'[r] = "done"

LEMMA DeleteWay ==
    ASSUME TypeOK, NEW r \in Requests, Paths(r), kind[r] \in Deletions, DeleteStep(r)
    PROVE  /\ DeleteMoves(r)
           /\ pc'[r] # "done" => reply'[r] = reply[r]
           /\ reply'[r] = "ok" => CommitDelete(r)
           /\ kind' = kind /\ key' = key /\ seen' = seen
<1>1. kind' = kind /\ key' = key /\ seen' = seen
  BY DEF DeleteStep, LookUpCamera, LookUpSite, LookUpClient, TakeClients, TakeSites, TakeViews,
         CommitDelete, arrival
<1>2. pc[r] # "done" => reply[r] = "none"
  BY DEF Paths
<1>3. kind[r] \in {"deleteCamera", "deleteSite", "deleteClient", "deleteCompany"}
  BY DEF Deletions
<1>4. /\ pc[r] = "camera" => kind[r] = "deleteCamera"
      /\ pc[r] = "site" => kind[r] = "deleteSite"
      /\ pc[r] = "client" => kind[r] = "deleteClient"
      /\ pc[r] = "clients" => kind[r] = "deleteCompany"
      /\ pc[r] = "sites" => kind[r] \in {"deleteClient", "deleteCompany"}
      /\ pc[r] = "views" => kind[r] \in {"deleteSite", "deleteClient", "deleteCompany"}
  BY <1>3 DEF Paths, Path, Puts
<1>5. CASE LookUpCamera(r)
  BY <1>1, <1>2, <1>4, <1>5, Going DEF LookUpCamera, DeleteMoves
<1>6. CASE LookUpSite(r)
  BY <1>1, <1>2, <1>4, <1>6, Going DEF LookUpSite, DeleteMoves
<1>7. CASE LookUpClient(r)
  BY <1>1, <1>2, <1>4, <1>7, Going DEF LookUpClient, DeleteMoves
<1>8. CASE TakeClients(r)
  BY <1>1, <1>2, <1>4, <1>8, Going DEF TakeClients, DeleteMoves
<1>9. CASE TakeSites(r)
  BY <1>1, <1>2, <1>4, <1>9, Going DEF TakeSites, DeleteMoves
<1>10. CASE TakeViews(r)
  BY <1>1, <1>2, <1>4, <1>10, Going DEF TakeViews, DeleteMoves
<1>11. CASE CommitDelete(r)
  BY <1>1, <1>11, Going DEF CommitDelete, DeleteMoves
<1>12. QED
  BY <1>5, <1>6, <1>7, <1>8, <1>9, <1>10, <1>11 DEF DeleteStep

LEMMA OwnPaths ==
    ASSUME TypeOK, NEW r \in Requests, Paths(r), RequestStep(r), Finished \subseteq Finished'
    PROVE  Paths(r)'
<1>1. CASE StartPut(r) \/ StartDelete(r)
  <2>1. kind[r] = "none" /\ clients[r] = {} /\ reply[r] = "none"
    BY <1>1, Arriving, KindsFit DEF Paths
  <2>2. pc'[r] \in Path(kind'[r])
    BY <1>1, Arriving DEF Path, Puts, Deletions
  <2>3. kind'[r] # "none"
    BY <1>1, Arriving DEF Puts, Deletions
  <2>4. QED
    BY <1>1, <2>1, <2>2, <2>3, Arriving DEF Paths
<1>2. CASE Fail(r)
  <2>1. pc'[r] = "done" /\ kind'[r] = kind[r] /\ seen' = seen /\ clients' = clients /\ pc[r] # "idle"
    BY <1>2, Going DEF Fail, arrival
  <2>2. kind[r] \in Puts \cup Deletions
    BY <2>1, KindsFit DEF Paths, Path
  <2>3. "done" \in Path(kind[r])
    BY <2>2 DEF Path, Puts, Deletions
  <2>4. kind[r] # "none"
    BY <2>2 DEF Puts, Deletions
  <2>5. QED
    BY <2>1, <2>3, <2>4 DEF Paths
<1>3. CASE kind[r] \in Puts /\ PutStep(r)
  <2>1. PutMoves(r) /\ kind' = kind /\ seen' = seen
    BY <1>3, PutWay
  <2>2. pc'[r] \in Path(kind'[r])
    BY <1>3, <2>1 DEF PutMoves, Path, Puts
  <2>3. pc'[r] # "done" => reply'[r] = "none"
    <3>1. pc[r] # "done"
      BY <2>1 DEF PutMoves
    <3>2. QED
      BY <1>3, <3>1, PutWay DEF Paths
  <2>4. kind'[r] \notin {"none", "deleteCamera", "deleteSite"}
    BY <1>3, <2>1 DEF Puts
  <2>5. QED
    BY <2>1, <2>2, <2>3, <2>4 DEF Paths
<1>4. CASE kind[r] \in Deletions /\ DeleteStep(r)
  <2>1. DeleteMoves(r) /\ kind' = kind /\ seen' = seen
    BY <1>4, DeleteWay
  <2>2. pc'[r] \in Path(kind'[r])
    BY <1>4, <2>1 DEF DeleteMoves, Path, Puts, Deletions
  <2>3. pc'[r] # "done" => reply'[r] = "none"
    <3>1. pc[r] # "done"
      BY <2>1 DEF DeleteMoves, LookUpCamera, LookUpSite, LookUpClient, TakeClients, TakeSites, TakeViews,
                  CommitDelete
    <3>2. QED
      BY <1>4, <3>1, DeleteWay DEF Paths
  <2>4. kind[r] \in {"deleteCamera", "deleteSite"} => clients' = clients
    BY <2>1 DEF DeleteMoves, LookUpCamera, LookUpSite, TakeViews, CommitDelete
  <2>5. kind'[r] # "none"
    BY <1>4, <2>1 DEF Deletions
  <2>6. QED
    BY <2>1, <2>2, <2>3, <2>4, <2>5 DEF Paths
<1>5. QED
  BY <1>1, <1>2, <1>3, <1>4 DEF RequestStep

LEMMA OwnFresh ==
    ASSUME TypeOK, NEW r \in Requests, RequestInv(r), RequestStep(r), EvolvesBy(r)
    PROVE  Fresh(r)'
<1>1. Paths(r) /\ Fresh(r) /\ r \in Ids
  BY DEF RequestInv, Ids
<1>2. /\ pc[r] # "createClient" /\ Absent(Master.clients, r) => Absent(Master.clients, r)'
      /\ pc[r] # "createSite" /\ Absent(Master.sites, r) => Absent(Master.sites, r)'
      /\ pc[r] # "createView" /\ Absent(Master.views, r) => Absent(Master.views, r)'
  BY <1>1 DEF EvolvesBy, NewClient, LostClient, NewSite, LostSite, NewView, MovedView, LostView,
              Absent, LiveClients, LiveSites, LiveViews
<1>3. CASE StartPut(r) \/ StartDelete(r)
  <2>1. pc[r] = "idle"
    BY <1>3, Arriving
  <2>2. QED
    BY <1>1, <1>2, <2>1 DEF Fresh
<1>4. CASE Fail(r)
  BY <1>4, Going DEF Fail, Fresh
<1>5. CASE kind[r] \in Puts /\ PutStep(r)
  <2>1. PutMoves(r)
    BY <1>5, PutWay
  <2>2. QED
    BY <1>1, <1>2, <2>1 DEF PutMoves, Fresh
<1>6. CASE kind[r] \in Deletions /\ DeleteStep(r)
  <2>1. DeleteMoves(r)
    BY <1>1, <1>6, DeleteWay
  <2>2. pc'[r] \in {"sites", "views", "commit", "done"}
    BY <2>1 DEF DeleteMoves
  <2>3. QED
    BY <2>2 DEF Fresh
<1>7. QED
  BY <1>3, <1>4, <1>5, <1>6 DEF RequestStep

LEMMA OwnFound ==
    ASSUME TypeOK, TreeFits, NEW r \in Requests, RequestInv(r), RequestStep(r), EvolvesBy(r)
    PROVE  FoundExists(r)'
<1>1. /\ Paths(r) /\ FoundExists(r) /\ r \in Ids
      /\ clients[r] \in SUBSET Ids /\ sites[r] \in SUBSET Ids
  BY DEF RequestInv, Ids, TypeOK
<1>2. ASSUME clients'[r] = clients[r], sites'[r] = sites[r], kind'[r] = kind[r]
      PROVE  FoundExists(r)'
  BY <1>1, <1>2, Lasting DEF FoundExists
<1>3. CASE StartPut(r) \/ StartDelete(r)
  <2>1. kind[r] = "none" /\ clients'[r] = {} /\ sites'[r] = {}
    BY <1>1, <1>3, Arriving, KindsFit DEF Paths
  <2>2. QED
    BY <2>1 DEF FoundExists
<1>4. CASE Fail(r)
  BY <1>2, <1>4 DEF Fail, arrival
<1>5. CASE kind[r] \in Puts /\ PutStep(r)
  <2>1. kind' = kind
    BY <1>5, PutWay
  <2>2. CASE FindClient(r)
    <3>1. sites' = sites /\ \A c \in clients'[r] : c \in clients[r] \/ c \in LiveClients(Master)
      BY <2>2 DEF FindClient, ClientsToReuse, TypeOK
    <3>2. clients'[r] \in SUBSET Ids
      BY <1>1, <3>1 DEF LiveClients
    <3>3. \A c \in clients'[r] : ~Absent(Master.clients, c)
      BY <1>1, <1>5, <3>1 DEF FoundExists, LiveClients, Absent
    <3>4. QED
      BY <1>1, <1>5, <3>1, <3>2, <3>3, Lasting DEF FoundExists
  <2>3. CASE CreateClient(r)
    <3>1. sites' = sites /\ clients'[r] = {r} /\ Master'.clients[r].state = "live"
      BY <2>3, ClientCreated DEF CreateClient, TypeOK
    <3>2. QED
      BY <1>1, <1>5, <3>1, Lasting DEF FoundExists, Absent
  <2>4. CASE FindSite(r)
    <3>1. clients' = clients /\ \A s \in sites'[r] : s \in sites[r] \/ s \in SitesNamed(Replica, clients[r], key[r])
      BY <2>4 DEF FindSite, TypeOK
    <3>2. Replica \in Tree /\ 1 \in DOMAIN versions
      BY TreeEnds
    <3>3. \A s \in SitesNamed(Replica, clients[r], key[r]) : s \in LiveSites(Replica)
      BY <3>2, DbFacts
    <3>4. sites'[r] \in SUBSET Ids
      BY <1>1, <3>1, <3>3 DEF LiveSites
    <3>5. \A s \in LiveSites(Replica) : ~Absent(Master.sites, s)
      BY <3>2 DEF TreeFits, LiveSites, Absent, Replica
    <3>6. \A s \in sites'[r] : ~Absent(Master.sites, s)
      BY <1>1, <1>5, <3>1, <3>3, <3>5 DEF FoundExists
    <3>7. QED
      BY <1>1, <1>5, <3>1, <3>4, <3>6, Lasting DEF FoundExists
  <2>5. CASE CreateSite(r)
    <3>1. clients' = clients /\ sites'[r] = {r} /\ Master'.sites[r].state = "live"
      BY <2>5, SiteCreated DEF CreateSite, TypeOK
    <3>2. QED
      BY <1>1, <1>5, <3>1, Lasting DEF FoundExists, Absent
  <2>6. CASE FindCamera(r) \/ CreateView(r) \/ FindView(r) \/ UpdateView(r)
    BY <1>2, <2>1, <2>6 DEF FindCamera, CreateView, FindView, UpdateView
  <2>7. QED
    BY <1>5, <2>2, <2>3, <2>4, <2>5, <2>6 DEF PutStep
<1>6. CASE kind[r] \in Deletions /\ DeleteStep(r)
  <2>1. kind'[r] \notin Puts
    BY <1>1, <1>6, DeleteWay DEF Deletions, Puts
  <2>2. QED
    BY <2>1 DEF FoundExists
<1>7. QED
  BY <1>3, <1>4, <1>5, <1>6 DEF RequestStep

LEMMA OwnLooked ==
    ASSUME TypeOK, NEW r \in Requests, RequestInv(r), RequestStep(r)
    PROVE  LookedFirst(r)'
<1>1. Paths(r)
  BY DEF RequestInv
<1>2. ReadReplica(r) /\ r \notin stale' => Replica = Master
  BY DEF ReadReplica
<1>3. CASE StartPut(r) \/ StartDelete(r)
  <2>1. pc'[r] \notin {"createClient", "createSite", "createView"}
    BY <1>3, Arriving
  <2>2. QED
    BY <2>1 DEF LookedFirst
<1>4. CASE Fail(r)
  BY <1>4, Going DEF Fail, LookedFirst
<1>5. CASE kind[r] \in Deletions /\ DeleteStep(r)
  <2>1. pc'[r] \notin {"createClient", "createSite", "createView"}
    BY <1>1, <1>5, DeleteWay DEF DeleteMoves
  <2>2. QED
    BY <2>1 DEF LookedFirst
<1>6. CASE kind[r] \in Puts /\ PutStep(r)
  <2>1. PutMoves(r) /\ key' = key
    BY <1>6, PutWay
  <2>2. CASE FindClient(r)
    <3>1. versions' = versions /\ pc'[r] \in {"createClient", "site", "done"}
      BY <2>1, <2>2 DEF FindClient, database, PutMoves
    <3>2. pc'[r] = "createClient" => LiveClients(Master) = {}
      BY <2>2, Going DEF FindClient, ClientsToReuse
    <3>3. Master' = Master
      BY <3>1 DEF Master
    <3>4. QED
      BY <3>1, <3>2, <3>3 DEF LookedFirst
  <2>3. CASE FindSite(r)
    <3>1. versions' = versions /\ clients' = clients /\ pc'[r] \in {"createSite", "camera", "done"}
      BY <2>1, <2>3 DEF FindSite, database, PutMoves
    <3>2. pc'[r] = "createSite" => SitesNamed(Replica, clients[r], key[r]) = {}
      BY <2>3, Going DEF FindSite
    <3>3. r \notin stale' => Replica = Master
      BY <1>2, <2>3 DEF FindSite
    <3>4. Master' = Master
      BY <3>1 DEF Master
    <3>5. QED
      BY <2>1, <3>1, <3>2, <3>3, <3>4 DEF LookedFirst
  <2>4. CASE FindCamera(r)
    <3>1. versions' = versions /\ pc'[r] \in {"createView", "findView"}
      BY <2>1, <2>4 DEF FindCamera, database, PutMoves
    <3>2. pc'[r] = "createView" /\ Replica.company => LiveViews(Replica) = {}
      BY <2>4, Going DEF FindCamera, CamerasInCompany
    <3>3. r \notin stale' => Replica = Master
      BY <1>2, <2>4 DEF FindCamera
    <3>4. Master' = Master
      BY <3>1 DEF Master
    <3>5. QED
      BY <3>1, <3>2, <3>3, <3>4 DEF LookedFirst
  <2>5. CASE CreateClient(r) \/ CreateSite(r) \/ CreateView(r) \/ FindView(r) \/ UpdateView(r)
    <3>1. pc'[r] \notin {"createClient", "createSite", "createView"}
      BY <2>1, <2>5 DEF CreateClient, CreateSite, CreateView, FindView, UpdateView, PutMoves
    <3>2. QED
      BY <3>1 DEF LookedFirst
  <2>6. QED
    BY <1>6, <2>2, <2>3, <2>4, <2>5 DEF PutStep
<1>7. QED
  BY <1>3, <1>4, <1>5, <1>6 DEF RequestStep

LEMMA OwnSitesCovered ==
    ASSUME TypeOK, NEW r \in Requests, RequestInv(r), RequestStep(r)
    PROVE  SitesCovered(r)'
<1>1. Paths(r) /\ SitesCovered(r)
  BY DEF RequestInv
<1>2. CASE StartPut(r) \/ StartDelete(r)
  <2>1. pc'[r] \notin {"views", "commit"}
    BY <1>2, Arriving
  <2>2. QED
    BY <2>1 DEF SitesCovered
<1>3. CASE Fail(r)
  BY <1>3, Going DEF Fail, SitesCovered
<1>4. CASE kind[r] \in Puts /\ PutStep(r)
  <2>1. pc'[r] \notin {"views", "commit"}
    BY <1>4, PutWay DEF PutMoves
  <2>2. QED
    BY <2>1 DEF SitesCovered
<1>5. CASE kind[r] \in Deletions /\ DeleteStep(r)
  <2>1. DeleteMoves(r) /\ kind' = kind /\ seen' = seen
    BY <1>1, <1>5, DeleteWay
  <2>2. SUFFICES ASSUME kind[r] = "deleteCompany", pc'[r] \in {"views", "commit"}
                 PROVE  \A s \in SitesUnder(Master', clients'[r]) \ sites'[r] : ~Before(s, r)
    BY <2>1 DEF SitesCovered, Before
  <2>3. TakeSites(r) \/ TakeViews(r)
    BY <2>1, <2>2 DEF DeleteMoves
  <2>4. Master' = Master /\ clients' = clients
    BY <2>3 DEF TakeSites, TakeViews, database, Master
  <2>5. CASE TakeSites(r)
    <3>1. sites'[r] = SitesUnder(Master, clients[r])
      BY <2>2, <2>5 DEF TakeSites, TypeOK
    <3>2. QED
      BY <2>4, <3>1
  <2>6. CASE TakeViews(r)
    <3>1. sites' = sites /\ pc[r] = "views"
      BY <2>6 DEF TakeViews
    <3>2. QED
      BY <1>1, <2>2, <2>4, <3>1 DEF SitesCovered
  <2>7. QED
    BY <2>3, <2>5, <2>6
<1>6. QED
  BY <1>2, <1>3, <1>4, <1>5 DEF RequestStep

LEMMA OwnViewsCovered ==
    ASSUME TypeOK, NEW r \in Requests, RequestInv(r), RequestStep(r)
    PROVE  ViewsCovered(r)'
<1>1. Paths(r) /\ ViewsCovered(r)
  BY DEF RequestInv
<1>2. ReadReplica(r) /\ r \notin stale' => Replica = Master /\ r \notin stale
  BY DEF ReadReplica
<1>3. CASE StartPut(r) \/ StartDelete(r)
  <2>1. pc'[r] \notin {"sites", "views", "commit"}
    BY <1>3, Arriving
  <2>2. QED
    BY <2>1 DEF ViewsCovered
<1>4. CASE Fail(r)
  BY <1>4, Going DEF Fail, ViewsCovered
<1>5. CASE kind[r] \in Puts /\ PutStep(r)
  <2>1. pc'[r] \notin {"sites", "views", "commit"}
    BY <1>5, PutWay DEF PutMoves
  <2>2. QED
    BY <2>1 DEF ViewsCovered
<1>6. CASE kind[r] \in Deletions /\ DeleteStep(r)
  <2>1. DeleteMoves(r) /\ kind' = kind /\ seen' = seen
    BY <1>1, <1>6, DeleteWay
  <2>2. SUFFICES ASSUME r \notin stale', kind[r] = "deleteClient" => Master'.company
                 PROVE  /\ pc'[r] = "sites" /\ kind[r] = "deleteClient" => OnlyLater(Orphans(r), {}, r)'
                        /\ pc'[r] = "views" /\ kind[r] = "deleteClient" =>
                             OnlyLater(SitesUnder(Master, clients[r]) \ sites[r], {}, r)'
                        /\ pc'[r] = "commit" => OnlyLater(SitesToDelete(r), views[r], r)'
    BY <2>1 DEF ViewsCovered
  <2>3. ASSUME pc'[r] = "sites", kind[r] = "deleteClient"
        PROVE  OnlyLater(Orphans(r), {}, r)'
    <3>1. LookUpClient(r)
      BY <2>1, <2>3 DEF DeleteMoves, TakeSites
    <3>2. Master' = Master /\ Replica = Master
      BY <1>2, <2>2, <3>1 DEF LookUpClient, database, Master
    <3>3. clients'[r] \subseteq LiveClients(Replica)
      BY <2>3, <3>1, Going DEF LookUpClient, TypeOK
    <3>4. Orphans(r)' = {}
      BY <3>2, <3>3 DEF Orphans, SitesUnder
    <3>5. QED
      BY <3>4 DEF OnlyLater
  <2>4. ASSUME pc'[r] = "views", kind[r] = "deleteClient"
        PROVE  OnlyLater(SitesUnder(Master, clients[r]) \ sites[r], {}, r)'
    <3>1. TakeSites(r) /\ pc[r] = "sites"
      BY <2>1, <2>4 DEF DeleteMoves, TakeSites
    <3>2. Master' = Master /\ Replica = Master /\ r \notin stale /\ clients' = clients
      BY <1>2, <2>2, <2>4, <3>1 DEF TakeSites, database, Master
    <3>3. sites'[r] = SitesOf(Master, clients[r])
      BY <2>4, <3>1, <3>2 DEF TakeSites, TypeOK
    <3>4. Master.company
      BY <2>2, <2>4, <3>2
    <3>5. SitesUnder(Master, clients[r]) \ sites'[r] \subseteq Orphans(r)
      BY <3>3, <3>4 DEF SitesOf, SitesUnder, Orphans
    <3>6. OnlyLater(Orphans(r), {}, r)
      BY <1>1, <2>4, <3>1, <3>2, <3>4 DEF ViewsCovered
    <3>7. QED
      BY <2>1, <3>2, <3>5, <3>6 DEF OnlyLater, Before
  <2>5. ASSUME pc'[r] = "commit"
        PROVE  OnlyLater(SitesToDelete(r), views[r], r)'
    <3>1. CASE kind[r] = "deleteCamera"
      <4>1. SitesToDelete(r)' = {}
        BY <2>1, <3>1 DEF SitesToDelete
      <4>2. QED
        BY <4>1 DEF OnlyLater
    <3>2. CASE kind[r] \in {"deleteSite", "deleteClient", "deleteCompany"}
      <4>1. TakeViews(r) /\ pc[r] = "views"
        BY <2>1, <2>5, <3>2 DEF DeleteMoves, TakeViews
      <4>2. /\ Master' = Master /\ Replica = Master /\ r \notin stale
            /\ clients' = clients /\ sites' = sites
        BY <1>2, <2>2, <4>1 DEF TakeViews, database, Master
      <4>3. views'[r] = ViewsAt(Master, sites[r])
        BY <4>1, <4>2 DEF TakeViews, TypeOK, ViewsToDelete
      <4>4. kind[r] # "deleteClient" => SitesToDelete(r)' = sites[r]
        BY <2>1, <3>2, <4>2 DEF SitesToDelete
      <4>5. kind[r] = "deleteClient" => SitesToDelete(r)' = SitesUnder(Master, clients[r])
        BY <2>1, <4>2 DEF SitesToDelete
      <4>6. \A v \in LiveViews(Master) \ views'[r] : Master.views[v].site \notin sites[r]
        BY <4>3 DEF ViewsAt
      <4>7. CASE kind[r] # "deleteClient"
        BY <4>2, <4>4, <4>6, <4>7 DEF OnlyLater
      <4>8. CASE kind[r] = "deleteClient"
        <5>1. OnlyLater(SitesUnder(Master, clients[r]) \ sites[r], {}, r)
          BY <1>1, <2>2, <4>1, <4>2, <4>8 DEF ViewsCovered
        <5>2. QED
          BY <2>1, <4>2, <4>5, <4>6, <4>8, <5>1 DEF OnlyLater, Before
      <4>9. QED
        BY <4>7, <4>8
    <3>3. QED
      BY <1>6, <3>1, <3>2 DEF Deletions
  <2>6. QED
    BY <2>3, <2>4, <2>5
<1>7. QED
  BY <1>3, <1>4, <1>5, <1>6 DEF RequestStep

\* Everything that a deletion names is deleted by its commit.
LEMMA Deletes ==
    ASSUME TypeOK, NEW r \in Requests, kind[r] \in Deletions, CommitDelete(r)
    PROVE  /\ \A v \in views[r] : v \in LiveViews(Master) => Master'.views[v].state = "deleted"
           /\ \A s \in SitesToDelete(r) : s \in LiveSites(Master) => Master'.sites[s].state = "deleted"
           /\ \A c \in clients[r] : c \in LiveClients(Master) => Master'.clients[c].state = "deleted"
<1>1. r \in Ids /\ Master \in Tree
  BY TreeEnds DEF Ids
<1>2. /\ Master.clients \in [Ids -> ClientRows] /\ Master.sites \in [Ids -> SiteRows]
      /\ Master.views \in [Ids -> ViewRows] /\ Master.company \in BOOLEAN
  BY <1>1, DbFacts
<1>3. /\ clients[r] \in SUBSET Ids /\ sites[r] \in SUBSET Ids /\ views[r] \in SUBSET Ids
  BY DEF TypeOK
<1>4. SitesToDelete(r) \in SUBSET Ids
  BY <1>1, <1>3, DbFacts DEF SitesToDelete
<1> DEFINE db == [company |-> Master.company /\ kind[r] # "deleteCompany",
                  clients |-> Deleted(Master.clients, clients[r], r),
                  sites |-> Deleted(Master.sites, SitesToDelete(r), r),
                  views |-> Deleted(Master.views, views[r], r)]
<1>5. Commit(r, db)
  BY DEF CommitDelete
<1>6. /\ Deleted(Master.clients, clients[r], r) \in [Ids -> ClientRows]
      /\ Deleted(Master.sites, SitesToDelete(r), r) \in [Ids -> SiteRows]
      /\ Deleted(Master.views, views[r], r) \in [Ids -> ViewRows]
  BY <1>1, <1>3, <1>4, DeletedRows
<1>7. db \in Tree
  BY <1>2, <1>6 DEF Tree, ClientRows, SiteRows, ViewRows
<1>8. /\ db.clients = Deleted(Master.clients, clients[r], r)
      /\ db.sites = Deleted(Master.sites, SitesToDelete(r), r)
      /\ db.views = Deleted(Master.views, views[r], r)
  OBVIOUS
<1> HIDE DEF db
<1>9. Master' = db
  BY <1>5, <1>7, CommitTypes
<1>10. ASSUME NEW v \in views[r], v \in LiveViews(Master)
       PROVE  Master'.views[v].state = "deleted"
  <2>1. Deleted(Master.views, views[r], r)[v].state = "deleted"
    BY <1>1, <1>2, <1>3, <1>10, DeletedViews DEF LiveViews
  <2>2. QED
    BY <1>8, <1>9, <2>1
<1>11. ASSUME NEW s \in SitesToDelete(r), s \in LiveSites(Master)
       PROVE  Master'.sites[s].state = "deleted"
  <2>1. Deleted(Master.sites, SitesToDelete(r), r)[s].state = "deleted"
    BY <1>1, <1>2, <1>4, <1>11, DeletedSites DEF LiveSites
  <2>2. QED
    BY <1>8, <1>9, <2>1
<1>12. ASSUME NEW c \in clients[r], c \in LiveClients(Master)
       PROVE  Master'.clients[c].state = "deleted"
  <2>1. Deleted(Master.clients, clients[r], r)[c].state = "deleted"
    BY <1>1, <1>2, <1>3, <1>12, DeletedClients DEF LiveClients
  <2>2. QED
    BY <1>8, <1>9, <2>1
<1>13. QED
  BY <1>10, <1>11, <1>12

LEMMA OwnAnswered ==
    ASSUME TypeOK, NEW r \in Requests, RequestInv(r), RequestStep(r)
    PROVE  AnsweredDeleted(r)'
<1>1. Paths(r)
  BY DEF RequestInv
<1>2. CASE StartPut(r) \/ StartDelete(r)
  <2>1. reply'[r] # "ok"
    BY <1>1, <1>2, Arriving DEF Paths
  <2>2. QED
    BY <2>1 DEF AnsweredDeleted
<1>3. CASE Fail(r)
  BY <1>3, Going DEF Fail, AnsweredDeleted
<1>4. CASE kind[r] \in Puts /\ PutStep(r)
  <2>1. kind'[r] \notin Deletions
    BY <1>4, PutWay DEF Puts, Deletions
  <2>2. QED
    BY <2>1 DEF AnsweredDeleted, Deletions
<1>5. CASE kind[r] \in Deletions /\ DeleteStep(r)
  <2>1. SUFFICES ASSUME reply'[r] = "ok"
                 PROVE  AnsweredDeleted(r)'
    BY DEF AnsweredDeleted
  <2>2. CommitDelete(r) /\ kind' = kind
    BY <1>1, <1>5, <2>1, DeleteWay
  <2>3. Affected(r) /\ clients' = clients /\ sites' = sites /\ views' = views
    BY <2>1, <2>2, Going DEF CommitDelete
  <2>4. kind[r] = "deleteCamera" => views[r] \subseteq LiveViews(Master)
    BY <2>3 DEF Affected
  <2>5. kind[r] = "deleteSite" => sites[r] \subseteq LiveSites(Master) /\ SitesToDelete(r) = sites[r]
    BY <2>3 DEF Affected, SitesToDelete
  <2>6. kind[r] = "deleteClient" => clients[r] \subseteq LiveClients(Master)
    BY <2>3 DEF Affected
  <2>7. QED
    BY <1>5, <2>2, <2>3, <2>4, <2>5, <2>6, Deletes DEF AnsweredDeleted
<1>6. QED
  BY <1>2, <1>3, <1>4, <1>5 DEF RequestStep

LEMMA OwnUndisturbed ==
    ASSUME TypeOK, NEW r \in Requests, RequestInv(r), RequestStep(r)
    PROVE  UndisturbedKnows(r)'
<1>1. Paths(r) /\ UndisturbedKnows(r) /\ r \in Ids
  BY DEF RequestInv, Ids
<1>2. ReadReplica(r) /\ r \notin stale' => Replica = Master
  BY DEF ReadReplica
<1>3. stale \subseteq stale'
  BY OthersUntouched
<1>4. CASE StartPut(r) \/ StartDelete(r)
  <2>1. reply'[r] # "ok" /\ Master' = Master
    BY <1>1, <1>4, Arriving DEF Paths
  <2>2. SUFFICES ASSUME kind'[r] = "putCamera", r \notin stale'
                 PROVE  /\ pc'[r] # "done" => Master'.company
                        /\ pc'[r] \notin {"site", "createSite", "camera", "createView", "findView", "updateView"}
    BY <2>1 DEF UndisturbedKnows, Undisturbed
  <2>3. QED
    BY <1>4, <2>1, <2>2, Arriving DEF Deletions
<1>5. CASE Fail(r)
  BY <1>5, Going DEF Fail, UndisturbedKnows
<1>6. CASE kind[r] \in Deletions /\ DeleteStep(r)
  <2>1. kind'[r] # "putCamera"
    BY <1>1, <1>6, DeleteWay DEF Deletions
  <2>2. QED
    BY <2>1 DEF UndisturbedKnows
<1>7. CASE kind[r] \in Puts /\ PutStep(r)
  <2>1. /\ PutMoves(r) /\ kind' = kind /\ key' = key /\ seen' = seen
        /\ pc'[r] # "done" => reply'[r] = "none"
    <3>1. PutMoves(r)
      BY <1>7, PutWay
    <3>2. pc[r] # "done"
      BY <3>1 DEF PutMoves
    <3>3. QED
      BY <1>1, <1>7, <3>1, <3>2, PutWay DEF Paths
  <2>2. SUFFICES ASSUME kind[r] = "putCamera", Undisturbed(r)'
                 PROVE  UndisturbedKnows(r)'
    BY <2>1 DEF UndisturbedKnows
  <2>3. wrote \subseteq wrote'
    BY <1>7 DEF PutStep, FindClient, CreateClient, FindSite, CreateSite, FindCamera, CreateView, FindView,
                UpdateView, database, Commit
  <2>4. Undisturbed(r) /\ r \notin stale'
    BY <1>3, <2>1, <2>2, <2>3 DEF Undisturbed, Before
  <2>5. pc[r] # "done"
    BY <2>1 DEF PutMoves
  <2>6. /\ Master.company
        /\ pc[r] \in {"site", "createSite"} => clients[r] \subseteq LiveClients(Master)
        /\ pc[r] \in {"camera", "createView", "findView", "updateView"} => sites[r] \subseteq GoodSites(r)
        /\ pc[r] \in {"findView", "updateView"} => views[r] \subseteq LiveViews(Master)
    BY <1>1, <2>2, <2>4, <2>5 DEF UndisturbedKnows
  <2>7. CASE FindClient(r)
    <3>1. Master' = Master /\ pc'[r] \in {"createClient", "site"}
      BY <2>2, <2>7, Going DEF FindClient, database, Master
    <3>2. pc'[r] = "site" => clients'[r] \subseteq LiveClients(Master)
      BY <2>7, Going DEF FindClient, ClientsToReuse, TypeOK
    <3>3. QED
      BY <2>1, <2>6, <3>1, <3>2 DEF UndisturbedKnows
  <2>8. CASE CreateClient(r)
    <3>1. pc'[r] = "site" /\ clients'[r] = {r}
      BY <2>2, <2>8, Going DEF CreateClient, TypeOK
    <3>2. r \in LiveClients(Master') /\ Master'.company
      BY <1>1, <2>6, <2>8, ClientCreated DEF LiveClients
    <3>3. QED
      BY <2>1, <3>1, <3>2 DEF UndisturbedKnows
  <2>9. CASE FindSite(r)
    <3>1. Master' = Master /\ Replica = Master /\ clients' = clients /\ pc'[r] \in {"createSite", "camera"}
      BY <1>2, <2>2, <2>4, <2>9, Going DEF FindSite, database, Master
    <3>2. pc[r] = "site" /\ clients[r] \subseteq LiveClients(Master)
      BY <2>6, <2>9 DEF FindSite
    <3>3. pc'[r] = "camera" => sites'[r] \subseteq SitesNamed(Master, clients[r], key[r])
      BY <2>9, <3>1, Going DEF FindSite, TypeOK
    <3>4. SitesNamed(Master, clients[r], key[r]) \subseteq GoodSites(r)
      BY <3>2 DEF SitesNamed, SitesOf, SitesUnder, GoodSites
    <3>5. GoodSites(r)' = GoodSites(r)
      BY <2>1, <3>1 DEF GoodSites
    <3>6. QED
      BY <2>1, <2>6, <3>1, <3>2, <3>3, <3>4, <3>5 DEF UndisturbedKnows
  <2>10. CASE CreateSite(r)
    <3>1. pc'[r] = "camera" /\ sites'[r] = {r} /\ pc[r] = "createSite"
      BY <2>2, <2>10, Going DEF CreateSite, TypeOK
    <3>2. clients[r] \subseteq LiveClients(Master)
      BY <2>6, <3>1
    <3>3. /\ Master'.company = Master.company /\ Master'.clients = Master.clients
          /\ r \in Ids /\ Master'.sites[r].state = "live"
          /\ Master'.sites[r].client \in clients[r] /\ Master'.sites[r].key = key[r]
      BY <2>10, SiteCreated
    <3>4. Master'.sites[r].client \in LiveClients(Master')
      BY <3>2, <3>3 DEF LiveClients
    <3>5. r \in GoodSites(r)'
      BY <2>1, <2>6, <3>3, <3>4 DEF GoodSites, SitesNamed, SitesOf, SitesUnder, LiveSites
    <3>6. QED
      BY <2>1, <2>6, <3>1, <3>3, <3>5 DEF UndisturbedKnows
  <2>11. CASE FindCamera(r)
    <3>1. /\ Master' = Master /\ Replica = Master /\ sites' = sites
          /\ pc[r] = "camera" /\ pc'[r] \in {"createView", "findView"}
      BY <1>2, <2>4, <2>11, Going DEF FindCamera, database, Master
    <3>2. pc'[r] = "findView" => views'[r] \subseteq LiveViews(Master)
      BY <2>11, <3>1, Going DEF FindCamera, CamerasInCompany, TypeOK
    <3>3. GoodSites(r)' = GoodSites(r)
      BY <2>1, <3>1 DEF GoodSites
    <3>4. QED
      BY <2>1, <2>6, <3>1, <3>2, <3>3 DEF UndisturbedKnows
  <2>12. CASE CreateView(r)
    <3>1. pc'[r] = "done" /\ views'[r] = {r} /\ pc[r] = "createView" /\ sites' = sites
      BY <2>12, Going DEF CreateView, TypeOK
    <3>2. /\ Master'.company = Master.company /\ Master'.clients = Master.clients
          /\ Master'.sites = Master.sites
          /\ r \in Ids /\ Master'.views[r].state = "live" /\ Master'.views[r].site \in sites[r]
      BY <2>12, ViewCreated
    <3>3. GoodSites(r)' = GoodSites(r)
      BY <2>1, <3>2 DEF GoodSites, SitesNamed, SitesOf, SitesUnder, LiveSites, LiveClients
    <3>4. r \in views'[r] \cap LiveViews(Master') /\ Master'.views[r].site \in GoodSites(r)'
      BY <2>6, <3>1, <3>2, <3>3 DEF LiveViews
    <3>5. QED
      BY <3>1, <3>4 DEF UndisturbedKnows
  <2>13. CASE FindView(r)
    <3>1. /\ Master' = Master /\ Replica = Master /\ sites' = sites /\ views' = views
          /\ pc[r] = "findView" /\ pc'[r] \in {"updateView", "done"}
      BY <1>2, <2>1, <2>4, <2>13 DEF FindView, database, Master, PutMoves
    <3>2. reply'[r] = "ok" =>
            \E v \in views[r] : v \in LiveViews(Master) /\ Master.views[v].site \in sites[r]
      <4>1. reply[r] = "none"
        BY <1>1, <2>5 DEF Paths
      <4>2. QED
        BY <2>13, <3>1, <4>1, Going DEF FindView, Moves
    <3>3. GoodSites(r)' = GoodSites(r)
      BY <2>1, <3>1 DEF GoodSites
    <3>4. QED
      BY <2>1, <2>6, <3>1, <3>2, <3>3 DEF UndisturbedKnows
  <2>14. CASE UpdateView(r)
    <3>1. pc'[r] = "done" /\ views' = views /\ pc[r] = "updateView" /\ sites' = sites
      BY <2>14, Going DEF UpdateView
    <3>2. /\ Master'.company = Master.company /\ Master'.clients = Master.clients
          /\ Master'.sites = Master.sites
      BY <2>14, ViewUpdated
    <3>3. PICK v \in views[r] : /\ v \in Ids /\ Master'.views[v].state = Master.views[v].state
                                /\ Master'.views[v].site \in sites[r]
      BY <2>14, ViewUpdated
    <3>4. GoodSites(r)' = GoodSites(r)
      BY <2>1, <3>2 DEF GoodSites, SitesNamed, SitesOf, SitesUnder, LiveSites, LiveClients
    <3>5. v \in views'[r] \cap LiveViews(Master') /\ Master'.views[v].site \in GoodSites(r)'
      BY <2>6, <3>1, <3>3, <3>4 DEF LiveViews
    <3>6. QED
      BY <3>1, <3>5 DEF UndisturbedKnows
  <2>15. QED
    BY <1>7, <2>7, <2>8, <2>9, <2>10, <2>11, <2>12, <2>13, <2>14 DEF PutStep
<1>8. QED
  BY <1>4, <1>5, <1>6, <1>7 DEF RequestStep

-----------------------------------------------------------------------------
(***************************************************************************)
(* What a step makes of the tree.                                          *)
(***************************************************************************)
LEMMA TreeFitsStays ==
    ASSUME TypeOK, TreeFits, Finished \subseteq Finished',
           NEW r \in Requests, RequestInv(r), EvolvesBy(r), CommitsTree(r)
    PROVE  TreeFits'
<1>1. Paths(r) /\ FoundExists(r)
  BY DEF RequestInv
<1>2. /\ versions \in Seq(Tree) /\ versions # <<>> /\ sites[r] \in SUBSET Ids
  BY DEF TypeOK
<1>3. ASSUME NEW i \in DOMAIN versions', NEW s \in Ids, Absent(Master.sites, s)'
      PROVE  Absent(versions'[i].sites, s)
  <2>1. Absent(Master.sites, s)
    BY <1>3, Lasting
  <2>2. CASE versions' = versions
    BY <1>3, <2>1, <2>2 DEF TreeFits
  <2>3. CASE Master' \in Tree /\ Commit(r, Master')
    <3>1. versions' = Append(versions, Master')
      BY <2>3 DEF Commit
    <3>2. versions'[i] = Master' \/ (i \in DOMAIN versions /\ versions'[i] = versions[i])
      BY <1>2, <1>3, <2>3, <3>1, VersionsAfterCommit
    <3>3. QED
      BY <1>3, <2>1, <3>2 DEF TreeFits
  <2>4. QED
    BY <2>2, <2>3 DEF CommitsTree
<1>4. ASSUME NEW v \in Ids, ~Absent(Master.views, v)'
      PROVE  ~Absent(Master.sites, Master.views[v].site)'
  <2>1. Master \in Tree
    BY TreeEnds
  <2>2. Master.views[v].site \in Ids
    BY <2>1 DEF Tree
  <2>3. CASE NewView(r, v) \/ MovedView(r, v)
    <3>1. kind[r] \in Puts /\ Master'.views[v].site \in sites[r]
      BY <1>1, <2>3, KindsFit DEF NewView, MovedView
    <3>2. ~Absent(Master.sites, Master'.views[v].site) /\ Master'.views[v].site \in Ids
      BY <1>1, <1>2, <3>1 DEF FoundExists
    <3>3. QED
      BY <3>2, Lasting
  <2>4. CASE Master'.views[v] = Master.views[v] \/ LostView(r, v)
    <3>1. Master'.views[v].site = Master.views[v].site /\ ~Absent(Master.views, v)
      BY <1>4, <2>4 DEF LostView, Absent, LiveViews
    <3>2. ~Absent(Master.sites, Master.views[v].site)
      BY <3>1 DEF TreeFits
    <3>3. QED
      BY <2>2, <3>1, <3>2, Lasting
  <2>5. QED
    BY <2>3, <2>4 DEF EvolvesBy
<1>9. ASSUME NEW s \in Ids, ~Absent(Master.sites, s)'
      PROVE  ~Absent(Master.clients, Master.sites[s].client)'
  <2>1. Master \in Tree /\ clients[r] \in SUBSET Ids
    BY TreeEnds DEF TypeOK
  <2>2. Master.sites[s].client \in Ids
    BY <2>1 DEF Tree
  <2>3. CASE NewSite(r, s)
    <3>1. kind[r] \in Puts /\ Master'.sites[s].client \in clients[r]
      BY <1>1, <2>3, KindsFit DEF NewSite
    <3>2. ~Absent(Master.clients, Master'.sites[s].client) /\ Master'.sites[s].client \in Ids
      BY <1>1, <2>1, <3>1 DEF FoundExists
    <3>3. QED
      BY <3>2, Lasting
  <2>4. CASE Master'.sites[s] = Master.sites[s] \/ LostSite(r, s)
    <3>1. Master'.sites[s].client = Master.sites[s].client /\ ~Absent(Master.sites, s)
      BY <1>9, <2>4 DEF LostSite, Absent, LiveSites
    <3>2. ~Absent(Master.clients, Master.sites[s].client)
      BY <3>1 DEF TreeFits
    <3>3. QED
      BY <2>2, <3>1, <3>2, Lasting
  <2>5. QED
    BY <2>3, <2>4 DEF EvolvesBy
<1>5. pc'[r] = "done" => r \in Finished'
  BY DEF Finished
<1>6. \A c \in Ids : Master'.clients[c].state = "deleted" => Master'.clients[c].by \in Finished'
  BY <1>5 DEF EvolvesBy, NewClient, LostClient, TreeFits
<1>7. \A s \in Ids : Master'.sites[s].state = "deleted" => Master'.sites[s].by \in Finished'
  BY <1>5 DEF EvolvesBy, NewSite, LostSite, TreeFits
<1>8. QED
  BY <1>3, <1>4, <1>6, <1>7, <1>9 DEF TreeFits

\* All that a step of r may change, and what it may not.
StepOf(r) ==
    /\ TypeOK /\ TreeFits /\ EvolvesBy(r) /\ pc[r] # "done" /\ stale \subseteq stale'
    /\ \A q \in Requests : RequestInv(q)
    /\ \A q \in Requests \ {r} : Untouched(q)
    /\ pc[r] # "idle" => seen' = seen /\ kind' = kind

\* Who has come is before and after the same requests as ever.
LEMMA OrderStays ==
    ASSUME NEW r \in Requests, StepOf(r), NEW b, b \in Requests => pc[b] # "idle"
    PROVE  /\ \A a : Before(a, b)' <=> Before(a, b)
           /\ ~Before(r, b)
<1>1. b \in Requests => seen'[b] = seen[b]
  BY DEF StepOf, Untouched
<1>2. b \in Requests => seen[b] \subseteq Finished
  BY DEF StepOf, RequestInv, Paths
<1>3. pc[r] # "done"
  BY DEF StepOf
<1>4. QED
  BY <1>1, <1>2, <1>3, Unfinished DEF Before

\* Whoever has created something has come.
LEMMA CreatorsCame ==
    ASSUME NEW r \in Requests, StepOf(r)
    PROVE  /\ \A c \in LiveClients(Master) \cap Requests : pc[c] # "idle"
           /\ \A s \in LiveSites(Master) \cap Requests : pc[s] # "idle"
           /\ \A v \in LiveViews(Master) \cap Requests : pc[v] # "idle"
  BY DEF StepOf, RequestInv, Fresh, LiveClients, LiveSites, LiveViews, Absent

LEMMA ClientsStayUnique ==
    ASSUME NEW r \in Requests, StepOf(r), ClientsUnique
    PROVE  ClientsUnique'
<1>1. SUFFICES ASSUME NEW a \in LiveClients(Master)', NEW b \in LiveClients(Master)', a # b
               PROVE  Overlap(a, b)'
  BY DEF ClientsUnique
<1>2. EvolvesBy(r)
  BY DEF StepOf
<1>3. \A c \in LiveClients(Master)' : c \in LiveClients(Master) \/ NewClient(r, c)
  BY <1>2, LiveAfter
<1>4. /\ a \in Requests => pc[a] # "idle"
      /\ b \in Requests => pc[b] # "idle"
  BY <1>1, <1>3, CreatorsCame DEF NewClient
<1>5. /\ \A x : Before(x, a)' <=> Before(x, a)
      /\ \A x : Before(x, b)' <=> Before(x, b)
      /\ ~Before(r, a) /\ ~Before(r, b)
  BY <1>4, OrderStays
<1>6. ASSUME NEW c \in LiveClients(Master), pc[r] = "createClient"
      PROVE  ~Before(c, r)
  BY <1>6 DEF StepOf, RequestInv, LookedFirst
<1>7. CASE a \in LiveClients(Master) /\ b \in LiveClients(Master)
  BY <1>1, <1>5, <1>7 DEF ClientsUnique, Overlap
<1>8. CASE NewClient(r, a)
  BY <1>1, <1>3, <1>5, <1>6, <1>8 DEF NewClient, Overlap
<1>9. CASE NewClient(r, b)
  BY <1>1, <1>3, <1>5, <1>6, <1>9 DEF NewClient, Overlap
<1>10. QED
  BY <1>3, <1>7, <1>8, <1>9

LEMMA SitesStayUnique ==
    ASSUME NEW r \in Requests, StepOf(r), LookupsPreventDuplicates, Master'.company,
           NEW a \in SitesOf(Master, LiveClients(Master))', NEW b \in SitesOf(Master, LiveClients(Master))',
           Master'.sites[a].client = Master'.sites[b].client, Master'.sites[a].key = Master'.sites[b].key,
           a # b, {a, b} \cap stale' = {}
    PROVE  Overlap(a, b)'
<1>1. EvolvesBy(r) /\ Master.company /\ stale \subseteq stale'
  BY DEF StepOf, EvolvesBy
<1>2. \A s \in LiveSites(Master)' :
        (s \in LiveSites(Master) /\ Master'.sites[s] = Master.sites[s]) \/ NewSite(r, s)
  BY <1>1, LiveAfter
<1>3. /\ a \in LiveSites(Master)' /\ Master'.sites[a].client \in LiveClients(Master)'
      /\ b \in LiveSites(Master)' /\ Master'.sites[b].client \in LiveClients(Master)'
  BY DEF SitesOf, SitesUnder
<1>4. /\ a \in Requests => pc[a] # "idle"
      /\ b \in Requests => pc[b] # "idle"
  BY <1>2, <1>3, CreatorsCame DEF NewSite
<1>5. /\ \A x : Before(x, a)' <=> Before(x, a)
      /\ \A x : Before(x, b)' <=> Before(x, b)
      /\ ~Before(r, a) /\ ~Before(r, b)
  BY <1>4, OrderStays
<1>6. ASSUME NEW s \in LiveSites(Master), NEW n, NewSite(r, n), r \notin stale,
             Master.sites[s].client = Master'.sites[n].client, Master.sites[s].key = Master'.sites[n].key,
             Master'.sites[n].client \in LiveClients(Master)'
      PROVE  ~Before(s, r)
  <2>1. RequestInv(r) /\ TypeOK
    BY DEF StepOf
  <2>2. pc[r] = "createSite" /\ Master'.sites[n].client \in clients[r] /\ Master'.sites[n].key = key[r]
    BY <1>6 DEF NewSite
  <2>3. Master'.sites[n].client \in LiveClients(Master)
    BY <1>1, <1>6, <2>2, LiveAfter DEF NewClient
  <2>4. s \in SitesNamed(Master, clients[r], key[r])
    BY <1>1, <1>6, <2>2, <2>3 DEF SitesNamed, SitesOf, SitesUnder
  <2>5. QED
    BY <1>1, <1>6, <2>1, <2>2, <2>4 DEF RequestInv, LookedFirst
<1>7. CASE NewSite(r, a)
  <2>1. a = r /\ b \in LiveSites(Master) /\ Master'.sites[b] = Master.sites[b]
    BY <1>2, <1>3, <1>7 DEF NewSite
  <2>2. ~Before(b, r)
    BY <1>1, <1>3, <1>6, <1>7, <2>1
  <2>3. QED
    BY <1>5, <2>1, <2>2 DEF Overlap
<1>8. CASE NewSite(r, b)
  <2>1. b = r /\ a \in LiveSites(Master) /\ Master'.sites[a] = Master.sites[a]
    BY <1>2, <1>3, <1>8 DEF NewSite
  <2>2. ~Before(a, r)
    BY <1>1, <1>3, <1>6, <1>8, <2>1
  <2>3. QED
    BY <1>5, <2>1, <2>2 DEF Overlap
<1>9. CASE /\ a \in LiveSites(Master) /\ Master'.sites[a] = Master.sites[a]
           /\ b \in LiveSites(Master) /\ Master'.sites[b] = Master.sites[b]
           /\ ~NewSite(r, a) /\ ~NewSite(r, b)
  <2>1. CASE Master.sites[a].client \in LiveClients(Master)
    <3>1. a \in SitesOf(Master, LiveClients(Master)) /\ b \in SitesOf(Master, LiveClients(Master))
      BY <1>1, <1>9, <2>1 DEF SitesOf, SitesUnder
    <3>2. QED
      BY <1>1, <1>5, <1>9, <3>1 DEF LookupsPreventDuplicates, Overlap
  <2>2. CASE Master.sites[a].client \notin LiveClients(Master)
    <3>1. NewClient(r, Master.sites[a].client)
      BY <1>1, <1>3, <1>9, <2>2, LiveAfter
    <3>2. Absent(Master.clients, Master.sites[a].client)
      BY <3>1 DEF NewClient
    <3>3. QED
      BY <1>9, <3>2 DEF StepOf, TreeFits, LiveSites, Absent
  <2>3. QED
    BY <2>1, <2>2
<1>10. QED
  BY <1>2, <1>3, <1>7, <1>8, <1>9

LEMMA ViewsStayUnique ==
    ASSUME NEW r \in Requests, StepOf(r), LookupsPreventDuplicates, Master'.company,
           NEW a \in LiveViews(Master)', NEW b \in LiveViews(Master)', a # b, {a, b} \cap stale' = {}
    PROVE  Overlap(a, b)'
<1>1. EvolvesBy(r) /\ Master.company /\ stale \subseteq stale' /\ RequestInv(r)
  BY DEF StepOf, EvolvesBy
<1>2. \A v \in LiveViews(Master)' : v \in LiveViews(Master) \/ NewView(r, v)
  BY <1>1, LiveAfter
<1>3. /\ a \in Requests => pc[a] # "idle"
      /\ b \in Requests => pc[b] # "idle"
  BY <1>2, CreatorsCame DEF NewView
<1>4. /\ \A x : Before(x, a)' <=> Before(x, a)
      /\ \A x : Before(x, b)' <=> Before(x, b)
      /\ ~Before(r, a) /\ ~Before(r, b)
  BY <1>3, OrderStays
<1>5. ASSUME pc[r] = "createView", r \notin stale, NEW v \in LiveViews(Master)
      PROVE  ~Before(v, r)
  BY <1>1, <1>5 DEF RequestInv, LookedFirst
<1>6. CASE NewView(r, a)
  <2>1. a = r /\ b \in LiveViews(Master) /\ pc[r] = "createView"
    BY <1>2, <1>6 DEF NewView
  <2>2. QED
    BY <1>1, <1>4, <1>5, <2>1 DEF Overlap
<1>7. CASE NewView(r, b)
  <2>1. b = r /\ a \in LiveViews(Master) /\ pc[r] = "createView"
    BY <1>2, <1>7 DEF NewView
  <2>2. QED
    BY <1>1, <1>4, <1>5, <2>1 DEF Overlap
<1>8. CASE a \in LiveViews(Master) /\ b \in LiveViews(Master)
  BY <1>1, <1>4, <1>8 DEF LookupsPreventDuplicates, Overlap
<1>9. QED
  BY <1>2, <1>6, <1>7, <1>8

LEMMA LookupsStay ==
    ASSUME NEW r \in Requests, StepOf(r), LookupsPreventDuplicates
    PROVE  LookupsPreventDuplicates'
<1>1. SUFFICES ASSUME Master'.company
               PROVE  LookupsPreventDuplicates'
  BY DEF LookupsPreventDuplicates
<1>2. \A a, b \in SitesOf(Master, LiveClients(Master))' :
        Master'.sites[a].client = Master'.sites[b].client /\ Master'.sites[a].key = Master'.sites[b].key =>
            a = b \/ Overlap(a, b)' \/ {a, b} \cap stale' # {}
  BY <1>1, SitesStayUnique
<1>3. \A a, b \in LiveViews(Master)' : a = b \/ Overlap(a, b)' \/ {a, b} \cap stale' # {}
  BY <1>1, ViewsStayUnique
<1>4. QED
  BY <1>2, <1>3 DEF LookupsPreventDuplicates

LEMMA SitesFollowClients ==
    ASSUME NEW r \in Requests, StepOf(r), NoSiteOutlivesClient
    PROVE  NoSiteOutlivesClient'
<1>1. SUFFICES ASSUME NEW s \in LiveSites(Master)', NEW c, c = Master'.sites[s].client,
                      Master'.clients[c].state = "deleted", NEW d, d = Master'.clients[c].by
               PROVE  ~Before(s, d)'
  BY DEF NoSiteOutlivesClient, Before
<1>2. EvolvesBy(r) /\ TypeOK
  BY DEF StepOf
<1>3. (s \in LiveSites(Master) /\ Master'.sites[s] = Master.sites[s]) \/ NewSite(r, s)
  BY <1>1, <1>2, LiveAfter
<1>4. c \in Ids
  <2>1. NewSite(r, s) => c \in clients[r]
    BY <1>1 DEF NewSite
  <2>2. Master \in Tree /\ clients[r] \in SUBSET Ids
    BY <1>2, TreeEnds DEF TypeOK
  <2>3. QED
    BY <1>1, <1>3, <2>1, <2>2 DEF Tree, LiveSites
<1>5. CASE LostClient(r, c)
  <2>1. d = r /\ pc[r] = "commit"
    BY <1>1, <1>5 DEF LostClient
  <2>2. \A a : Before(a, r)' <=> Before(a, r)
    BY <2>1, OrderStays
  <2>3. ~Before(s, r)
    BY <1>1, <1>5 DEF LostClient, SitesUnder
  <2>4. QED
    BY <2>1, <2>2, <2>3
<1>6. CASE Master'.clients[c] = Master.clients[c]
  <2>1. Master.clients[c].state = "deleted" /\ d \in Finished
    BY <1>1, <1>4, <1>6 DEF StepOf, TreeFits
  <2>2. d \in Requests /\ pc[d] # "idle"
    BY <2>1 DEF Finished
  <2>3. (\A a : Before(a, d)' <=> Before(a, d)) /\ ~Before(r, d)
    BY <2>2, OrderStays
  <2>4. CASE NewSite(r, s)
    BY <2>3, <2>4 DEF NewSite
  <2>5. CASE s \in LiveSites(Master) /\ Master'.sites[s] = Master.sites[s]
    <3>1. ~Before(s, d)
      BY <1>1, <1>6, <2>1, <2>5 DEF NoSiteOutlivesClient
    <3>2. QED
      BY <2>3, <3>1
  <2>6. QED
    BY <1>3, <2>4, <2>5
<1>7. ~NewClient(r, c)
  BY <1>1 DEF NewClient
<1>8. QED
  BY <1>2, <1>4, <1>5, <1>6, <1>7 DEF EvolvesBy

LEMMA ViewsFollowSites ==
    ASSUME NEW r \in Requests, StepOf(r), NoViewOutlivesSite
    PROVE  NoViewOutlivesSite'
<1>1. SUFFICES ASSUME NEW v \in LiveViews(Master)', NEW s, s = Master'.views[v].site,
                      Master'.sites[s].state = "deleted",
                      NEW d, d = Master'.sites[s].by, d \notin stale', Master'.company \/ kind'[d] = "deleteCompany",
                      NEW b, b = Master'.views[v].by
               PROVE  ~Before(b, d)'
  BY DEF NoViewOutlivesSite, Before
<1>2. EvolvesBy(r) /\ TypeOK /\ stale \subseteq stale' /\ RequestInv(r)
  BY DEF StepOf
<1>3. \/ v \in LiveViews(Master) /\ Master'.views[v] = Master.views[v]
      \/ NewView(r, v) \/ MovedView(r, v)
  BY <1>1, <1>2, LiveAfter
<1>4. s \in Ids
  <2>1. NewView(r, v) \/ MovedView(r, v) => s \in sites[r]
    BY <1>1 DEF NewView, MovedView
  <2>2. Master \in Tree /\ sites[r] \in SUBSET Ids
    BY <1>2, TreeEnds DEF TypeOK
  <2>3. QED
    BY <1>1, <1>3, <2>1, <2>2 DEF Tree, LiveViews
<1>5. CASE LostSite(r, s)
  <2>1. d = r /\ pc[r] = "commit" /\ s \in SitesToDelete(r) /\ v \notin views[r]
    BY <1>1, <1>5 DEF LostSite
  <2>2. v \in LiveViews(Master) /\ Master'.views[v] = Master.views[v]
    BY <1>3, <2>1 DEF NewView, MovedView
  <2>3. r \notin stale /\ (kind[r] = "deleteClient" => Master.company)
    <3>1. kind'[r] = kind[r]
      BY <2>1 DEF StepOf
    <3>2. QED
      BY <1>1, <1>2, <2>1, <3>1 DEF EvolvesBy
  <2>4. OnlyLater(SitesToDelete(r), views[r], r)
    BY <1>2, <2>1, <2>3 DEF RequestInv, ViewsCovered
  <2>5. ~Before(Master.views[v].by, r)
    BY <1>1, <2>1, <2>2, <2>4 DEF OnlyLater
  <2>6. \A a : Before(a, r)' <=> Before(a, r)
    BY <2>1, OrderStays
  <2>7. QED
    BY <1>1, <2>1, <2>2, <2>5, <2>6
<1>6. CASE Master'.sites[s] = Master.sites[s]
  <2>1. Master.sites[s].state = "deleted" /\ d \in Finished
    BY <1>1, <1>4, <1>6 DEF StepOf, TreeFits
  <2>2. d \in Requests /\ pc[d] = "done" /\ d # r
    BY <2>1 DEF Finished, StepOf
  <2>3. (\A a : Before(a, d)' <=> Before(a, d)) /\ ~Before(r, d)
    BY <2>2, OrderStays
  <2>4. CASE NewView(r, v) \/ MovedView(r, v)
    BY <1>1, <2>3, <2>4 DEF NewView, MovedView
  <2>5. CASE v \in LiveViews(Master) /\ Master'.views[v] = Master.views[v]
    <3>1. kind'[d] = kind[d] /\ d \notin stale
      BY <1>1, <1>2, <2>2 DEF StepOf, Untouched
    <3>2. Master.company \/ kind[d] = "deleteCompany"
      BY <1>1, <1>2, <3>1 DEF EvolvesBy
    <3>3. ~Before(Master.views[v].by, d)
      BY <1>1, <1>6, <2>1, <2>5, <3>1, <3>2 DEF NoViewOutlivesSite
    <3>4. QED
      BY <1>1, <2>3, <2>5, <3>3
  <2>6. QED
    BY <1>3, <2>4, <2>5
<1>7. ~NewSite(r, s)
  BY <1>1 DEF NewSite
<1>8. QED
  BY <1>2, <1>4, <1>5, <1>6, <1>7 DEF EvolvesBy

\* A deletion that is answered 204 has found its target live.
LEMMA AnsweredOnce ==
    ASSUME NEW r \in Requests, StepOf(r), RequestStep(r), OneDeletionAcknowledged
    PROVE  OneDeletionAcknowledged'
<1>1. TypeOK /\ RequestInv(r) /\ Paths(r) /\ pc[r] # "done"
  BY DEF StepOf, RequestInv
<1>2. ASSUME NEW a \in Requests, NEW b \in Requests, a # b, a # r, b # r, kind'[a] = kind'[b],
             reply'[a] = "ok", reply'[b] = "ok", kind'[a] \in Deletions
      PROVE  Target(a)' \cap Target(b)' = {}
  <2>1. Untouched(a) /\ Untouched(b)
    BY <1>2 DEF StepOf
  <2>2. Target(a)' = Target(a) /\ Target(b)' = Target(b)
    BY <2>1 DEF Untouched, Target
  <2>3. QED
    BY <1>2, <2>1, <2>2 DEF OneDeletionAcknowledged, Untouched
<1>3. ASSUME NEW a \in Requests, a # r, kind'[a] = kind'[r], reply'[a] = "ok", reply'[r] = "ok",
             kind'[r] \in Deletions
      PROVE  Target(a)' \cap Target(r)' = {}
  <2>1. kind[r] \in Deletions /\ CommitDelete(r) /\ kind'[r] = kind[r]
    <3>1. ~(StartPut(r) \/ StartDelete(r))
      BY <1>1, <1>3, Arriving DEF Paths
    <3>2. ~Fail(r)
      BY <1>1, <1>3, Going DEF Fail
    <3>3. ~(kind[r] \in Puts /\ PutStep(r))
      BY <1>1, <1>3, PutWay DEF Puts, Deletions
    <3>4. QED
      BY <1>1, <1>3, <3>1, <3>2, <3>3, DeleteWay DEF RequestStep
  <2>2. Affected(r) /\ clients' = clients /\ sites' = sites /\ views' = views
    BY <1>1, <1>3, <2>1, Going DEF CommitDelete
  <2>3. Untouched(a) /\ RequestInv(a)
    BY <1>3 DEF StepOf
  <2>4. Target(a)' = Target(a) /\ Target(r)' = Target(r)
    BY <2>1, <2>2, <2>3 DEF Untouched, Target
  <2>5. kind[a] = kind[r] /\ reply[a] = "ok"
    BY <1>3, <2>1, <2>3 DEF Untouched
  <2>6. CASE kind[r] = "deleteCamera"
    BY <2>2, <2>3, <2>4, <2>5, <2>6 DEF RequestInv, AnsweredDeleted, Affected, Target, LiveViews
  <2>7. CASE kind[r] = "deleteSite"
    BY <2>2, <2>3, <2>4, <2>5, <2>7 DEF RequestInv, AnsweredDeleted, Affected, Target, LiveSites
  <2>8. CASE kind[r] = "deleteClient"
    BY <2>2, <2>3, <2>4, <2>5, <2>8 DEF RequestInv, AnsweredDeleted, Affected, Target, LiveClients
  <2>9. CASE kind[r] = "deleteCompany"
    BY <2>4, <2>9 DEF Target
  <2>10. QED
    BY <2>1, <2>6, <2>7, <2>8, <2>9 DEF Deletions
<1>4. QED
  BY <1>2, <1>3 DEF OneDeletionAcknowledged

-----------------------------------------------------------------------------
(***************************************************************************)
(* The invariant is inductive.                                             *)
(***************************************************************************)
LEMMA InitIInv == Init => IInv
<1> SUFFICES ASSUME Init PROVE IInv
  OBVIOUS
<1>1. PICK k \in Keys \cup {None} :
        LET state == [i \in Ids |-> IF i = Earlier /\ k # None THEN "live" ELSE "absent"]
        IN  versions =
              << [company |-> TRUE,
                  clients |-> [i \in Ids |-> [state |-> state[i], by |-> i]],
                  sites |-> [i \in Ids |-> [state |-> state[i], client |-> i, by |-> i,
                               key |-> IF i = Earlier THEN k ELSE None]],
                  views |-> [i \in Ids |-> [state |-> state[i], site |-> i, by |-> i]]] >>
  BY DEF Init
<1> DEFINE st(i) == IF i = Earlier /\ k # None THEN "live" ELSE "absent"
           db == [company |-> TRUE,
                  clients |-> [i \in Ids |-> [state |-> st(i), by |-> i]],
                  sites |-> [i \in Ids |-> [state |-> st(i), client |-> i, by |-> i,
                               key |-> IF i = Earlier THEN k ELSE None]],
                  views |-> [i \in Ids |-> [state |-> st(i), site |-> i, by |-> i]]]
<1>2. versions = << db >>
  BY <1>1
<1>3. \A i \in Ids : st(i) \in {"live", "absent"} /\ (i # Earlier => st(i) = "absent")
  OBVIOUS
<1>4. db \in Tree
  BY <1>3 DEF Tree, States
<1>5. /\ \A i \in Ids : /\ db.clients[i].state = st(i) /\ db.sites[i].state = st(i)
                        /\ db.views[i].state = st(i)
                        /\ db.sites[i].client = i /\ db.views[i].site = i
  OBVIOUS
<1> HIDE DEF db, st
<1>6. /\ versions \in Seq(Tree) /\ versions # <<>> /\ Len(versions) = 1 /\ Master = db
      /\ DOMAIN versions = {1} /\ versions[1] = db
  BY <1>2, <1>4, ShortSeqs DEF Master
<1>7. TypeOK
  BY <1>6 DEF Init, TypeOK, Locations
<1>8. TreeFits
  <2>1. \A i \in Ids : st(i) # "deleted"
    BY <1>3
  <2>2. QED
    BY <1>3, <1>5, <1>6, <2>1 DEF TreeFits, Absent
<1>9. \A i \in Ids : i \in Requests => st(i) = "absent"
  BY <1>3, TreeAssumption
<1>10. \A i \in LiveClients(Master) \cup LiveSites(Master) \cup LiveViews(Master) : i = Earlier
  BY <1>3, <1>5, <1>6 DEF LiveClients, LiveSites, LiveViews
<1>11. ClientsUnique
  BY <1>10 DEF ClientsUnique
<1>12. LookupsPreventDuplicates
  BY <1>10 DEF LookupsPreventDuplicates, SitesOf, SitesUnder
<1>13. NoSiteOutlivesClient
  BY <1>3, <1>5, <1>6 DEF NoSiteOutlivesClient, LiveSites
<1>14. NoViewOutlivesSite
  BY <1>3, <1>5, <1>6 DEF NoViewOutlivesSite, LiveViews
<1>15. ASSUME NEW r \in Requests
       PROVE  RequestInv(r)
  <2>1. r \in Ids /\ st(r) = "absent"
    BY <1>9 DEF Ids
  <2>2. /\ kind[r] = "none" /\ pc[r] = "idle" /\ clients[r] = {} /\ sites[r] = {}
        /\ reply[r] = "none" /\ seen[r] = {}
    BY DEF Init
  <2>3. Paths(r)
    BY <2>2 DEF Paths, Path, Puts
  <2>4. Fresh(r)
    BY <1>5, <1>6, <2>1 DEF Fresh, Absent
  <2>5. FoundExists(r) /\ LookedFirst(r) /\ SitesCovered(r) /\ ViewsCovered(r) /\ AnsweredDeleted(r)
    BY <2>2 DEF FoundExists, LookedFirst, SitesCovered, ViewsCovered, AnsweredDeleted
  <2>6. UndisturbedKnows(r)
    BY <2>2 DEF UndisturbedKnows
  <2>7. QED
    BY <2>3, <2>4, <2>5, <2>6 DEF RequestInv
<1>17. OneDeletionAcknowledged
  BY DEF OneDeletionAcknowledged, Init
<1>16. QED
  BY <1>7, <1>8, <1>11, <1>12, <1>13, <1>14, <1>15, <1>17 DEF IInv

\* When the replica catches up, or nothing happens, the writer keeps its tree.
LEMMA StillIInv ==
    ASSUME IInv, TypeOK', Master' = Master,
           UNCHANGED <<kind, pc, key, clients, sites, views, reply, seen, stale, wrote>>,
           \A i \in DOMAIN versions' : \E j \in DOMAIN versions : versions'[i] = versions[j]
    PROVE  IInv'
<1>1. TreeFits'
  <2>1. \A i \in DOMAIN versions' : \A s \in Ids :
          Absent(Master.sites, s) => Absent(versions'[i].sites, s)
    BY DEF IInv, TreeFits
  <2>2. Finished' = Finished
    BY DEF Finished
  <2>3. QED
    BY <2>1, <2>2 DEF IInv, TreeFits
<1>5. OneDeletionAcknowledged'
  BY DEF IInv, OneDeletionAcknowledged, Target
<1>2. ClientsUnique' /\ LookupsPreventDuplicates' /\ NoSiteOutlivesClient' /\ NoViewOutlivesSite'
  BY DEF IInv, ClientsUnique, LookupsPreventDuplicates, NoSiteOutlivesClient, NoViewOutlivesSite,
         Overlap, Before
<1>3. ASSUME NEW r \in Requests
      PROVE  RequestInv(r)'
  <2>1. Paths(r)' /\ Fresh(r)' /\ FoundExists(r)' /\ LookedFirst(r)'
    BY DEF IInv, RequestInv, Paths, Fresh, FoundExists, LookedFirst, Finished, Before
  <2>2. SitesCovered(r)' /\ AnsweredDeleted(r)'
    BY DEF IInv, RequestInv, SitesCovered, AnsweredDeleted, Before
  <2>3. ViewsCovered(r)'
    BY DEF IInv, RequestInv, ViewsCovered, OnlyLater, Orphans, SitesToDelete, Before
  <2>4. UndisturbedKnows(r)'
    BY DEF IInv, RequestInv, UndisturbedKnows, Undisturbed, GoodSites, Before
  <2>5. QED
    BY <2>1, <2>2, <2>3, <2>4 DEF RequestInv
<1>4. QED
  BY <1>1, <1>2, <1>3, <1>5 DEF IInv

LEMMA StepIInv ==
    ASSUME IInv, NEW r \in Requests, RequestStep(r)
    PROVE  IInv'
<1>1. TypeOK /\ TreeFits /\ \A q \in Requests : RequestInv(q)
  BY DEF IInv
<1>2. EvolvesBy(r) /\ CommitsTree(r) /\ TypeOK'
  BY <1>1, StepEvolves, StepTypeOK
<1>3. /\ pc[r] # "done" /\ stale \subseteq stale'
      /\ \A q \in Requests \ {r} : Untouched(q)
  BY <1>1, OthersUntouched
<1>4. Finished \subseteq Finished'
  BY <1>3 DEF Finished, Untouched
<1>5. pc[r] # "idle" => seen' = seen /\ kind' = kind
  BY <1>1, Arriving, PutWay, DeleteWay DEF RequestStep, Fail, arrival, RequestInv
<1>6. StepOf(r)
  BY <1>1, <1>2, <1>3, <1>5 DEF StepOf
<1>7. TreeFits'
  BY <1>1, <1>2, <1>4, TreeFitsStays
<1>8. /\ ClientsUnique' /\ LookupsPreventDuplicates' /\ NoSiteOutlivesClient' /\ NoViewOutlivesSite'
      /\ OneDeletionAcknowledged'
  BY <1>6, ClientsStayUnique, LookupsStay, SitesFollowClients, ViewsFollowSites, AnsweredOnce DEF IInv
<1>9. RequestInv(r)'
  <2>1. Paths(r)'
    BY <1>1, <1>4, OwnPaths DEF RequestInv
  <2>2. Fresh(r)' /\ FoundExists(r)'
    BY <1>1, <1>2, OwnFresh, OwnFound
  <2>3. LookedFirst(r)' /\ SitesCovered(r)' /\ ViewsCovered(r)' /\ AnsweredDeleted(r)' /\ UndisturbedKnows(r)'
    BY <1>1, OwnLooked, OwnSitesCovered, OwnViewsCovered, OwnAnswered, OwnUndisturbed
  <2>4. QED
    BY <2>1, <2>2, <2>3 DEF RequestInv
<1>10. \A q \in Requests \ {r} : RequestInv(q)'
  BY <1>1, <1>2, <1>3, <1>4, OthersStay
<1>11. QED
  BY <1>2, <1>7, <1>8, <1>9, <1>10 DEF IInv

LEMMA NextIInv == IInv /\ [Next]_vars => IInv'
<1> SUFFICES ASSUME IInv, [Next]_vars PROVE IInv'
  OBVIOUS
<1>1. CASE \E r \in Requests : RequestStep(r)
  BY <1>1, StepIInv
<1>2. CASE Replicate
  <2>1. /\ versions' = Tail(versions) /\ Len(versions) > 1
        /\ UNCHANGED <<kind, pc, key, clients, sites, views, reply, seen, stale, wrote>>
    BY <1>2 DEF Replicate, arrival
  <2>2. TypeOK /\ versions \in Seq(Tree)
    BY DEF IInv, TypeOK
  <2>3. versions' \in Seq(Tree) /\ versions' # <<>> /\ Master' = Master
    BY <2>1, <2>2, ReplicateVersion DEF Master
  <2>4. TypeOK'
    BY <2>1, <2>2, <2>3 DEF TypeOK
  <2>5. \A i \in DOMAIN versions' : \E j \in DOMAIN versions : versions'[i] = versions[j]
    BY <2>1, <2>2, VersionsAfterReplication
  <2>6. QED
    BY <2>1, <2>3, <2>4, <2>5, StillIInv
<1>3. CASE UNCHANGED vars
  <2>1. /\ versions' = versions
        /\ UNCHANGED <<kind, pc, key, clients, sites, views, reply, seen, stale, wrote>>
    BY <1>3 DEF vars
  <2>2. Master' = Master /\ TypeOK'
    BY <2>1 DEF IInv, TypeOK, Master
  <2>3. QED
    BY <2>1, <2>2, StillIInv
<1>4. QED
  BY <1>1, <1>2, <1>3 DEF Next, RequestStep

LEMMA AlwaysIInv == Spec => []IInv
  BY InitIInv, NextIInv, PTL DEF Spec

-----------------------------------------------------------------------------
\* Types are kept, by requests of every kind and in any number.
THEOREM TypeCorrect == Spec => []TypeOK
<1>1. IInv => TypeOK
  BY DEF IInv
<1>2. QED
  BY <1>1, AlwaysIInv, PTL

\* findOrCreate makes two clients of one integrator ID only for requests that
\* overlapped.
THEOREM ClientsStaySingle == Spec => []ClientsUnique
<1>1. IInv => ClientsUnique
  BY DEF IInv
<1>2. QED
  BY <1>1, AlwaysIInv, PTL

\* The look-ups of sites and cameras prevent duplicates unless the requests
\* overlapped or one was misled by the replica.
THEOREM LookupsSuffice == Spec => []LookupsPreventDuplicates
<1>1. IInv => LookupsPreventDuplicates
  BY DEF IInv
<1>2. QED
  BY <1>1, AlwaysIInv, PTL

\* The cascades leave no site under a deleted client, but of a request that
\* overlapped with the deletion.
THEOREM CascadesReachSites == Spec => []NoSiteOutlivesClient
<1>1. IInv => NoSiteOutlivesClient
  BY DEF IInv
<1>2. QED
  BY <1>1, AlwaysIInv, PTL

\* The cascades leave no camera at a deleted site but for the reasons that
\* NoViewOutlivesSite names.
THEOREM CascadesReachViews == Spec => []NoViewOutlivesSite
<1>1. IInv => NoViewOutlivesSite
  BY DEF IInv
<1>2. QED
  BY <1>1, AlwaysIInv, PTL

\* Of two deletions of a camera, a site or a client at most one is answered 204:
\* what the first was answered for stays deleted, and the second must find it live.
THEOREM OneAcknowledgement == Spec => []OneDeletionAcknowledged
<1>1. IInv => OneDeletionAcknowledged
  BY DEF IInv
<1>2. QED
  BY <1>1, AlwaysIInv, PTL

\* A PUT of a camera that nobody has disturbed since it came is in force.
THEOREM PutsPlaceCameras == Spec => []PutPlacesCamera
<1>1. IInv => PutPlacesCamera
  BY DEF IInv, RequestInv, UndisturbedKnows, Undisturbed, GoodSites, PutPlacesCamera
<1>2. QED
  BY <1>1, AlwaysIInv, PTL

=============================================================================
