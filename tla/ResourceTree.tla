---------------------------- MODULE ResourceTree ----------------------------
(***************************************************************************)
(* The clients, sites and cameras of one company, and the requests that    *)
(* create, move and delete them: the PUTs by integrator IDs, which create  *)
(* the client and the site they name if need be and create a camera or     *)
(* move it to that site, and the soft deletions, which cascade from the    *)
(* company down to the cameras.                                            *)
(*                                                                         *)
(* The requests name one client and one camera, and the sites in Keys.     *)
(* Queries go to a read replica unless they are part of a transaction.     *)
(* The models declare no unique index on the integrator IDs.  A resource   *)
(* is identified by the request that created it.  Every step between two   *)
(* awaits is an action; a transaction's writes are those of its commit.    *)
(***************************************************************************)
EXTENDS Naturals, Sequences

CONSTANTS
    Requests,
    Kinds,      \* the kinds of requests in this workload
    Keys,       \* integrator IDs of sites
    Earlier,    \* stands for whoever created what was there before
    None

Puts == {"putClient", "putSite", "putCamera"}
Deletions == {"deleteCamera", "deleteSite", "deleteClient", "deleteCompany"}

ASSUME TreeAssumption ==
    /\ Kinds \subseteq Puts \cup Deletions
    /\ Earlier \notin Requests
    /\ None \notin Requests \cup {Earlier}

VARIABLES
    versions,   \* versions of the tree, from the replica's to the writer's
    kind,       \* kind of each request, "none" before it arrives
    pc,         \* where each request is
    key,        \* the site that a PUT or a deletion of a site names
    clients,    \* the clients a request has found or created
    sites,      \* the sites a request has found or created
    views,      \* the cameras a request has found or created
    reply,      \* what the client was told
    seen,       \* history: requests that had finished when this one arrived
    stale,      \* history: requests that read a replica that lagged behind
    wrote       \* history: requests that have committed something

vars == <<versions, kind, pc, key, clients, sites, views, reply, seen, stale, wrote>>

arrival == <<kind, key, seen>>
database == <<versions, wrote>>

-----------------------------------------------------------------------------
Ids == Requests \cup {Earlier}
States == {"absent", "live", "deleted"}

\* by: who created or deleted the resource, or put the camera where it is.
Tree == [company : BOOLEAN,
         clients : [Ids -> [state : States, by : Ids]],
         sites : [Ids -> [state : States, client : Ids, key : Keys \cup {None}, by : Ids]],
         views : [Ids -> [state : States, site : Ids, by : Ids]]]

Locations == {"idle", "client", "createClient", "clients", "site", "createSite", "sites",
              "camera", "createView", "findView", "updateView", "views", "commit", "done"}

Master == versions[Len(versions)]
Replica == versions[1]
Finished == {r \in Requests : pc[r] = "done"}

LiveClients(db) == {c \in Ids : db.clients[c].state = "live"}
LiveSites(db) == {s \in Ids : db.sites[s].state = "live"}

\* Cameras are looked up in view_currents, which holds those that are not
\* deleted, whatever has become of their sites.
LiveViews(db) == {v \in Ids : db.views[v].state = "live"}

SitesUnder(db, cs) == {s \in LiveSites(db) : db.sites[s].client \in cs}

\* What the queries of a client's sites find: nothing if the client is deleted.
SitesOf(db, cs) ==
    IF db.company THEN SitesUnder(db, cs \cap LiveClients(db)) ELSE {}

SitesNamed(db, cs, k) == {s \in SitesOf(db, cs) : db.sites[s].key = k}

ViewsAt(db, ss) == {v \in LiveViews(db) : db.views[v].site \in ss}

\* The rows are deleted for good.
Removed(table, ids, r) == [i \in Ids \ ids |-> table[i]]

\* SET deleted_at of the rows of a table that are among ids and not deleted.
Deleted(table, ids, r) ==
    [i \in Ids |-> IF i \in ids /\ table[i].state = "live"
                   THEN [table[i] EXCEPT !.state = "deleted", !.by = r]
                   ELSE table[i]]

-----------------------------------------------------------------------------
\* There is nothing yet, or there are a client, a site and a camera.
Init ==
    /\ \E k \in Keys \cup {None} :
         LET state == [i \in Ids |-> IF i = Earlier /\ k # None THEN "live" ELSE "absent"]
         IN  versions =
               << [company |-> TRUE,
                   clients |-> [i \in Ids |-> [state |-> state[i], by |-> i]],
                   sites |-> [i \in Ids |-> [state |-> state[i], client |-> i, by |-> i,
                                key |-> IF i = Earlier THEN k ELSE None]],
                   views |-> [i \in Ids |-> [state |-> state[i], site |-> i, by |-> i]]] >>
    /\ kind = [r \in Requests |-> "none"]
    /\ pc = [r \in Requests |-> "idle"]
    /\ key = [r \in Requests |-> None]
    /\ clients = [r \in Requests |-> {}]
    /\ sites = [r \in Requests |-> {}]
    /\ views = [r \in Requests |-> {}]
    /\ reply = [r \in Requests |-> "none"]
    /\ seen = [r \in Requests |-> {}]
    /\ stale = {}
    /\ wrote = {}

Goto(r, where) == pc' = [pc EXCEPT ![r] = where] /\ UNCHANGED reply

Answer(r, what) ==
    /\ pc' = [pc EXCEPT ![r] = "done"]
    /\ reply' = [reply EXCEPT ![r] = what]

\* r reads from the replica.
ReadReplica(r) == stale' = IF Replica = Master THEN stale ELSE stale \cup {r}

Commit(r, db) ==
    /\ versions' = Append(versions, db)
    /\ wrote' = wrote \cup {r}

\* A request arrives, and is let in or refused: the company of the user, or the
\* one to delete, must not be deleted by the replica.
Arrive(r, k, first) ==
    /\ pc[r] = "idle"
    /\ k \in Kinds
    /\ kind' = [kind EXCEPT ![r] = k]
    /\ seen' = [seen EXCEPT ![r] = Finished]
    /\ \/ Replica.company /\ Goto(r, first)
       \/ Answer(r, "error")
    /\ stale' = IF Replica.company = Master.company THEN stale ELSE stale \cup {r}
    /\ UNCHANGED <<database, clients, sites, views>>

\* A query fails or times out, and with it the transaction if there is one; or
\* the company lacks a capability, which is checked once client and site exist.
Fail(r) ==
    /\ pc[r] \notin {"idle", "done"}
    /\ Answer(r, "error")
    /\ UNCHANGED <<database, arrival, clients, sites, views, stale>>

-----------------------------------------------------------------------------
StartPut(r) ==
    \E k \in Puts, s \in Keys :
      /\ Arrive(r, k, "client")
      /\ key' = [key EXCEPT ![r] = s]

\* A PUT of a client, or of a site, ends when it has it.
AfterClient(r) == IF kind[r] = "putClient" THEN Answer(r, "ok") ELSE Goto(r, "site")
AfterSite(r) == IF kind[r] = "putSite" THEN Answer(r, "ok") ELSE Goto(r, "camera")

\* The client is looked for outside a transaction.
ClientsOnReplica == LiveClients(Replica)

\* findOrCreate looks for the client inside the transaction it may create it in.
ClientsToReuse == LiveClients(Master)

FindClient(r) ==
    /\ pc[r] = "client"
    /\ \/ \E c \in ClientsToReuse :
            /\ clients' = [clients EXCEPT ![r] = {c}]
            /\ AfterClient(r)
       \/ /\ ClientsToReuse = {}
          /\ Goto(r, "createClient")
          /\ UNCHANGED clients
    /\ UNCHANGED <<database, arrival, sites, views, stale>>

CreateClient(r) ==
    /\ pc[r] = "createClient"
    /\ Commit(r, [Master EXCEPT !.clients[r] = [state |-> "live", by |-> r]])
    /\ clients' = [clients EXCEPT ![r] = {r}]
    /\ AfterClient(r)
    /\ UNCHANGED <<arrival, sites, views, stale>>

FindSite(r) ==
    /\ pc[r] = "site"
    /\ ReadReplica(r)
    /\ LET found == SitesNamed(Replica, clients[r], key[r])
       IN  \/ \E s \in found :
                /\ sites' = [sites EXCEPT ![r] = {s}]
                /\ AfterSite(r)
           \/ /\ found = {}
              /\ Goto(r, "createSite")
              /\ UNCHANGED sites
    /\ UNCHANGED <<database, arrival, clients, views>>

CreateSite(r) ==
    /\ pc[r] = "createSite"
    /\ \E c \in clients[r] :
         Commit(r, [Master EXCEPT !.sites[r] =
                      [state |-> "live", client |-> c, key |-> key[r], by |-> r]])
    /\ sites' = [sites EXCEPT ![r] = {r}]
    /\ AfterSite(r)
    /\ UNCHANGED <<arrival, clients, views, stale>>

\* The camera is looked for at the site of the PUT.
CamerasAtSite(r) == ViewsAt(Replica, sites[r])

\* A query by the integrator ID of the camera, which is anywhere in the company.
CamerasInCompany(r) == IF Replica.company THEN LiveViews(Replica) ELSE {}

FindCamera(r) ==
    /\ pc[r] = "camera"
    /\ ReadReplica(r)
    /\ \/ \E v \in CamerasInCompany(r) :
            /\ views' = [views EXCEPT ![r] = {v}]
            /\ Goto(r, "findView")
       \/ /\ CamerasInCompany(r) = {}
          /\ Goto(r, "createView")
          /\ UNCHANGED views
    /\ UNCHANGED <<database, arrival, clients, sites>>

CreateView(r) ==
    /\ pc[r] = "createView"
    /\ \E s \in sites[r] :
         Commit(r, [Master EXCEPT !.views[r] = [state |-> "live", site |-> s, by |-> r]])
    /\ views' = [views EXCEPT ![r] = {r}]
    /\ Answer(r, "ok")
    /\ UNCHANGED <<arrival, clients, sites, stale>>

\* The camera stays where it is.
NeverMoves(db, v, ss) == FALSE

\* siteId !== view.siteId
Moves(db, v, ss) == db.views[v].site \notin ss

\* updateView, in a transaction, but findView queries the replica.  A camera
\* that is not there is answered with an error, and one that is at the site by
\* the replica is left where it is.
FindView(r) ==
    /\ pc[r] = "findView"
    /\ ReadReplica(r)
    /\ \E v \in views[r] :
         IF v \in LiveViews(Replica)
         THEN IF Moves(Replica, v, sites[r]) THEN Goto(r, "updateView") ELSE Answer(r, "ok")
         ELSE Answer(r, "error")
    /\ UNCHANGED <<database, arrival, clients, sites, views>>

\* paranoid: false, so that a camera deleted meanwhile moves too.
UpdateView(r) ==
    /\ pc[r] = "updateView"
    /\ \E v \in views[r], s \in sites[r] :
         Commit(r, [Master EXCEPT !.views[v] = [state |-> Master.views[v].state, site |-> s, by |-> r]])
    /\ Answer(r, "ok")
    /\ UNCHANGED <<arrival, clients, sites, views, stale>>

-----------------------------------------------------------------------------
\* What a deletion looks up first, on the replica; the company's clients are
\* deleted straight away.
StartDelete(r) ==
    \E k \in Deletions :
      /\ Arrive(r, k, CASE k = "deleteCamera" -> "camera"
                        [] k = "deleteSite" -> "site"
                        [] k = "deleteClient" -> "client"
                        [] k = "deleteCompany" -> "clients")
      /\ IF k = "deleteSite"
         THEN \E s \in Keys : key' = [key EXCEPT ![r] = s]
         ELSE UNCHANGED key

\* A camera whose site or client is deleted is found, but answered with 404:
\* such a site is not among those that sites remembers.
LookUpCamera(r) ==
    /\ pc[r] = "camera"
    /\ ReadReplica(r)
    /\ \/ \E v \in CamerasInCompany(r) :
            /\ views' = [views EXCEPT ![r] = {v}]
            /\ sites' = [sites EXCEPT ![r] =
                 {Replica.views[v].site} \cap SitesOf(Replica, LiveClients(Replica))]
            /\ Goto(r, "commit")
       \/ /\ CamerasInCompany(r) = {}
          /\ Answer(r, "error")
          /\ UNCHANGED <<sites, views>>
    /\ UNCHANGED <<database, arrival, clients>>

LookUpSite(r) ==
    /\ pc[r] = "site"
    /\ ReadReplica(r)
    /\ LET found == SitesNamed(Replica, LiveClients(Replica), key[r])
       IN  \/ \E s \in found :
                /\ sites' = [sites EXCEPT ![r] = {s}]
                /\ Goto(r, "views")
           \/ /\ found = {}
              /\ Answer(r, "error")
              /\ UNCHANGED sites
    /\ UNCHANGED <<database, arrival, clients, views>>

LookUpClient(r) ==
    /\ pc[r] = "client"
    /\ ReadReplica(r)
    /\ LET found == LiveClients(Replica)
       IN  \/ \E c \in found :
                /\ clients' = [clients EXCEPT ![r] = {c}]
                /\ Goto(r, "sites")
           \/ /\ found = {}
              /\ Answer(r, "error")
              /\ UNCHANGED clients
    /\ UNCHANGED <<database, arrival, sites, views>>

\* softDeleteClients, in the transaction: the clients it deletes.
TakeClients(r) ==
    /\ pc[r] = "clients"
    /\ clients' = [clients EXCEPT ![r] = LiveClients(Master)]
    /\ Goto(r, "sites")
    /\ UNCHANGED <<database, arrival, sites, views, stale>>

\* A client's sites are read from the replica; softDeleteSites deletes those of
\* the company's clients in the transaction.
TakeSites(r) ==
    /\ pc[r] = "sites"
    /\ IF kind[r] = "deleteCompany"
       THEN /\ sites' = [sites EXCEPT ![r] = SitesUnder(Master, clients[r])]
            /\ UNCHANGED stale
       ELSE /\ sites' = [sites EXCEPT ![r] = SitesOf(Replica, clients[r])]
            /\ ReadReplica(r)
    /\ Goto(r, "views")
    /\ UNCHANGED <<database, arrival, clients, views>>

\* The cascade of a company ends at its sites.
ViewsUnlessCompany(r) ==
    IF kind[r] = "deleteCompany" THEN {} ELSE ViewsAt(Replica, sites[r])

\* viewCurrent.findAll is not part of the transaction.
ViewsToDelete(r) == ViewsAt(Replica, sites[r])

TakeViews(r) ==
    /\ pc[r] = "views"
    /\ views' = [views EXCEPT ![r] = ViewsToDelete(r)]
    /\ ReadReplica(r)
    /\ Goto(r, "commit")
    /\ UNCHANGED <<database, arrival, clients, sites>>

\* Only the sites that were listed.
ListedSites(r) == sites[r]

\* A deletion of a client deletes all its sites, listed or not.
SitesToDelete(r) ==
    CASE kind[r] = "deleteCamera" -> {}
      [] kind[r] = "deleteClient" -> SitesUnder(Master, clients[r])
      [] OTHER -> sites[r]

\* Whether the target was still there is not looked at.
AffectedAnyhow(r) == TRUE

\* The UPDATE of the target affected a row.  The deletion of a company does not
\* look at that.
Affected(r) ==
    CASE kind[r] = "deleteCamera" -> views[r] \subseteq LiveViews(Master) /\ sites[r] # {}
      [] kind[r] = "deleteSite" -> sites[r] \subseteq LiveSites(Master)
      [] kind[r] = "deleteClient" -> clients[r] \subseteq LiveClients(Master)
      [] kind[r] = "deleteCompany" -> TRUE

CommitDelete(r) ==
    /\ pc[r] = "commit"
    /\ Commit(r, [company |-> Master.company /\ kind[r] # "deleteCompany",
                  clients |-> Deleted(Master.clients, clients[r], r),
                  sites |-> Deleted(Master.sites, SitesToDelete(r), r),
                  views |-> Deleted(Master.views, views[r], r)])
    /\ Answer(r, IF Affected(r) THEN "ok" ELSE "error")
    /\ UNCHANGED <<arrival, clients, sites, views, stale>>

-----------------------------------------------------------------------------
\* The replica replays the next commit.
Replicate ==
    /\ Len(versions) > 1
    /\ versions' = Tail(versions)
    /\ UNCHANGED <<arrival, pc, clients, sites, views, reply, stale, wrote>>

PutStep(r) ==
    \/ FindClient(r) \/ CreateClient(r) \/ FindSite(r) \/ CreateSite(r)
    \/ FindCamera(r) \/ CreateView(r) \/ FindView(r) \/ UpdateView(r)

DeleteStep(r) ==
    \/ LookUpCamera(r) \/ LookUpSite(r) \/ LookUpClient(r)
    \/ TakeClients(r) \/ TakeSites(r) \/ TakeViews(r) \/ CommitDelete(r)

Next ==
    \/ Replicate
    \/ \E r \in Requests :
         \/ StartPut(r) \/ StartDelete(r) \/ Fail(r)
         \/ kind[r] \in Puts /\ PutStep(r)
         \/ kind[r] \in Deletions /\ DeleteStep(r)

Spec == Init /\ [][Next]_vars

-----------------------------------------------------------------------------
\* Every variable keeps its type; a request has at most one site unless it
\* deletes a client or the company.
TypeOK ==
    /\ versions \in Seq(Tree)
    /\ versions # <<>>
    /\ kind \in [Requests -> Kinds \cup {"none"}]
    /\ pc \in [Requests -> Locations]
    /\ key \in [Requests -> Keys \cup {None}]
    /\ clients \in [Requests -> SUBSET Ids]
    /\ sites \in [Requests -> SUBSET Ids]
    /\ views \in [Requests -> SUBSET Ids]
    /\ reply \in [Requests -> {"none", "ok", "error"}]
    /\ seen \in [Requests -> SUBSET Requests]
    /\ stale \subseteq Requests
    /\ wrote \subseteq Requests

\* a had finished when b arrived.
Before(a, b) == a = Earlier \/ (b \in Requests /\ a \in seen[b])

Overlap(a, b) == ~Before(a, b) /\ ~Before(b, a)

\* There are two clients of the integrator ID only if the requests that created
\* them overlapped, however far the replica lags: findOrCreate reads and creates
\* in one transaction.
ClientsUnique ==
    \A a, b \in LiveClients(Master) : a = b \/ Overlap(a, b)

\* A company that is not deleted has two sites of the integrator IDs, or two
\* cameras of the integrator ID, only if the requests that created them
\* overlapped or one read a replica that lagged: both are looked for outside the
\* transaction that creates them.
LookupsPreventDuplicates ==
    Master.company =>
    /\ \A a, b \in SitesOf(Master, LiveClients(Master)) :
         Master.sites[a].client = Master.sites[b].client /\ Master.sites[a].key = Master.sites[b].key =>
             a = b \/ Overlap(a, b) \/ {a, b} \cap stale # {}
    /\ \A a, b \in LiveViews(Master) : a = b \/ Overlap(a, b) \/ {a, b} \cap stale # {}

\* A site is left under a deleted client only by a request that overlapped with
\* the deletion: a deletion of a client or of the company finds the sites to
\* delete by their client in the transaction, not on the replica.
NoSiteOutlivesClient ==
    \A s \in LiveSites(Master) :
        LET client == Master.clients[Master.sites[s].client]
        IN  client.state = "deleted" => ~Before(s, client.by)

\* A camera is left at a deleted site only if it was put there by a request that
\* had not finished when the deletion arrived, if the deletion read a replica
\* that lagged, or if the company was deleted under it.
NoViewOutlivesSite ==
    \A v \in LiveViews(Master) :
        LET site == Master.sites[Master.views[v].site]
        IN  site.state = "deleted" =>
                \/ site.by \in stale
                \/ ~Before(Master.views[v].by, site.by)
                \/ ~Master.company /\ kind[site.by] # "deleteCompany"

Target(r) ==
    CASE kind[r] = "deleteCamera" -> views[r]
      [] kind[r] = "deleteSite" -> sites[r]
      [] kind[r] = "deleteClient" -> clients[r]
      [] OTHER -> {}

\* Of two deletions of the same camera, site or client, concurrent or not, at
\* most one is answered 204.
OneDeletionAcknowledged ==
    \A a, b \in Requests :
        a # b /\ kind[a] = kind[b] /\ reply[a] = "ok" /\ reply[b] = "ok" =>
            kind[a] \notin Deletions \/ Target(a) \cap Target(b) = {}

\* A PUT of a camera that is answered, and read no replica that lagged, leaves
\* the camera at a site of that name that exists under a client that exists,
\* until a request writes that had not finished when the PUT arrived, whatever
\* deletions, creations and moves came before.
PutPlacesCamera ==
    \A q \in Requests \ stale :
        kind[q] = "putCamera" /\ reply[q] = "ok" /\ (\A r \in wrote \ {q} : Before(r, q)) =>
            \E v \in views[q] \cap LiveViews(Master) :
                Master.views[v].site \in SitesNamed(Master, LiveClients(Master), key[q])
=============================================================================
