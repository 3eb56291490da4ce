---------------------------- MODULE CameraConfig ----------------------------
(***************************************************************************)
(* One camera (a "view") of the Platform Services API and the requests     *)
(* that read and rewrite its configuration concurrently.                   *)
(*                                                                         *)
(* The camera's row lives in Postgres.  Sequelize is configured with a     *)
(* writer and a read replica: a query outside a transaction goes to the    *)
(* replica unless it asks for the master.  The row is rewritten by four    *)
(* kinds of requests, all through updateView:                              *)
(*   put     PUT of the camera's configuration,                            *)
(*   ref     PUT of a day or night scene change reference image,           *)
(*   alarm   an alarm analysis, which may save its image as a missing      *)
(*           reference before the analysis, and a snapshot after it,       *)
(*   delete  the soft deletion of the camera.                              *)
(* Every step between two awaits is an action.  A transaction's writes     *)
(* are blind column updates that no other session sees before the commit,  *)
(* so they are applied in the commit's action.                             *)
(***************************************************************************)
EXTENDS Naturals, Sequences

CONSTANTS
    Requests,   \* the requests that may arrive
    Kinds,      \* the kinds of requests in this workload
    Fields,     \* the columns updateViewDb compares before it writes them
    Values,     \* what such a column may hold
    Earlier,    \* stands for the writer of what was there before
    None        \* no reference image

ASSUME ConfigAssumption ==
    /\ Kinds \subseteq {"put", "ref", "alarm", "delete"}
    /\ Earlier \notin Requests
    /\ None \notin Requests \cup {Earlier}

VARIABLES
    versions,   \* versions of the camera's row, from the replica's to the writer's
    images,     \* ids of the reference images that S3 holds
    kind,       \* kind of each request, "none" before it arrives
    pc,         \* where each request is
    arg,        \* the camera data a request holds, and hands to updateView
    mode,       \* the reference image updateView is to change, if any
    modified,   \* the columns that differ from what findView returned
    rows,       \* the analytics rows the transaction read
    reply,      \* what the client was told
    seen,       \* history: requests that had finished when this one arrived
    updated,    \* history: requests whose update reached the row
    saved,      \* history: requests whose reference image reached the row
    fresh       \* history: requests whose findView saw the writer's columns

vars == <<versions, images, kind, pc, arg, mode, modified, rows, reply, seen,
          updated, saved, fresh>>

store == <<versions, images>>
ghosts == <<seen, updated, saved, fresh>>

-----------------------------------------------------------------------------
Modes == {"day", "night"}
Authors == Requests \cup {Earlier}
Configs == [Fields -> Values]

\* tamperingConfig[mode]: the image's id is the request that minted the uuid,
\* referenceImageUpdatedAt is the request that wrote the entry last.
Ref == [id : Authors \cup {None}, at : Authors \cup {None}]
NoRef == [id |-> None, at |-> None]
Tampering == [Modes -> Ref]

\* analytics: the writers of the camera's rows in public.analytics.
Row == [live : BOOLEAN, config : Configs, tc : Tampering,
        analytics : SUBSET Authors, snapshot : BOOLEAN]

CameraData == [config : Configs, tc : Tampering, analytics : BOOLEAN,
               snapshot : BOOLEAN]

Locations == {"idle", "scene", "upload", "find", "analytics", "commit",
              "analysed", "clean", "done"}

Master == versions[Len(versions)]
Replica == versions[1]
Finished == {r \in Requests : pc[r] = "done"}

\* The row a query returned, as the handlers keep it.
Data(row) == [config |-> row.config, tc |-> row.tc,
              analytics |-> row.analytics # {}, snapshot |-> row.snapshot]

HasRef(tc, m) == tc[m].id # None

\* The entry without its referenceImageUpdatedAt.
WithRefUndated(tc, m, r) ==
    [tc EXCEPT ![m] = [id |-> IF HasRef(tc, m) THEN tc[m].id ELSE r]]

\* setReferenceImage and putReferenceImage: the existing id is reused.
WithRef(tc, m, r) ==
    [tc EXCEPT ![m] = [id |-> IF HasRef(tc, m) THEN tc[m].id ELSE r, at |-> r]]

-----------------------------------------------------------------------------
\* The camera has just been created: the replica may not have it yet.
Init ==
    /\ \E c \in Configs, tc \in [Modes -> {NoRef, [id |-> Earlier, at |-> Earlier]}],
          s \in BOOLEAN :
         LET created == [live |-> TRUE, config |-> c, tc |-> tc,
                         analytics |-> {Earlier}, snapshot |-> s]
         IN  /\ versions \in
                  {<<created>>,
                   <<[created EXCEPT !.live = FALSE, !.analytics = {}], created>>}
             /\ images = {tc[m].id : m \in Modes} \ {None}
             /\ arg = [r \in Requests |-> Data(created)]
    /\ kind = [r \in Requests |-> "none"]
    /\ pc = [r \in Requests |-> "idle"]
    /\ mode = [r \in Requests |-> "none"]
    /\ modified = [r \in Requests |-> {}]
    /\ rows = [r \in Requests |-> {}]
    /\ reply = [r \in Requests |-> "none"]
    /\ seen = [r \in Requests |-> {}]
    /\ updated = {}
    /\ saved = {}
    /\ fresh = {}

\* A request arrives: what has finished by now is before it.
Arrive(r, k) ==
    /\ pc[r] = "idle"
    /\ k \in Kinds
    /\ kind' = [kind EXCEPT ![r] = k]
    /\ seen' = [seen EXCEPT ![r] = Finished]

Goto(r, where) == pc' = [pc EXCEPT ![r] = where]

Answer(r, what) ==
    /\ Goto(r, "done")
    /\ reply' = [reply EXCEPT ![r] = what]

\* The database part of a request is over.  An alarm logs a failure and goes on
\* to the analysis; after its snapshot there is nothing left to do.  What the
\* transaction held in local variables is gone.
Conclude(r, what) ==
    /\ modified' = [modified EXCEPT ![r] = {}]
    /\ rows' = [rows EXCEPT ![r] = {}]
    /\ IF kind[r] = "alarm"
       THEN /\ Goto(r, IF mode[r] = "none" THEN "done" ELSE "analysed")
            /\ mode' = [mode EXCEPT ![r] = "none"]
            /\ UNCHANGED reply
       ELSE /\ Answer(r, what)
            /\ UNCHANGED mode

-----------------------------------------------------------------------------
\* Whatever its kind, a request may end before it touches the camera: the camera
\* is not found, the request is not acceptable, a query fails.

\* PUT of the configuration: the handler looks the camera up, then calls
\* updateView with what the client sent.
StartPut(r) ==
    \E c \in Configs, a \in BOOLEAN :
      /\ Arrive(r, "put")
      /\ arg' = [arg EXCEPT ![r] = [@ EXCEPT !.config = c, !.analytics = a]]
      /\ \/ Replica.live /\ Goto(r, "find") /\ UNCHANGED reply
         \/ Answer(r, "error")
      /\ UNCHANGED <<store, mode, modified, rows, updated, saved, fresh>>

\* getView without intentToUpdate, as everywhere else.
ReplicaRow == Replica

\* getView with intentToUpdate: the query goes to the master.
RowToUpdate == Master

\* PUT of a reference image: the camera is read from the master and its
\* tampering config completed with the new image.
StartRef(r) ==
    \E m \in Modes :
      /\ Arrive(r, "ref")
      /\ mode' = [mode EXCEPT ![r] = m]
      /\ \/ /\ RowToUpdate.live
            /\ arg' = [arg EXCEPT ![r] =
                 [Data(RowToUpdate) EXCEPT !.tc = WithRef(@, m, r)]]
            /\ Goto(r, "upload")
            /\ UNCHANGED reply
         \/ Answer(r, "error") /\ UNCHANGED arg
      /\ UNCHANGED <<store, modified, rows, updated, saved, fresh>>

\* An alarm analysis: the camera is read from the replica.
StartAlarm(r) ==
    /\ Arrive(r, "alarm")
    /\ \/ /\ Replica.live
          /\ arg' = [arg EXCEPT ![r] = Data(Replica)]
          /\ Goto(r, "scene")
          /\ UNCHANGED reply
       \/ Answer(r, "error") /\ UNCHANGED arg
    /\ UNCHANGED <<store, mode, modified, rows, updated, saved, fresh>>

\* `!sceneChange.references.length < 2` in JavaScript: the negation binds
\* tighter, and the Boolean is compared as 0 or 1.
IsReferenceMissing(tc) ==
    LET negated == IF \A m \in Modes : ~HasRef(tc, m) THEN 1 ELSE 0
    IN  negated < 2

\* configureTampering saves the image either because the camera has no
\* reference at all, or because maybeSaveMissingReference decides so.
SavesReference(tc, isDayTime) ==
    IF \E m \in Modes : HasRef(tc, m)
    THEN /\ IsReferenceMissing(tc)
         /\ HasRef(tc, "day") # isDayTime
    ELSE TRUE

\* Scene change is not due, not enabled, or asked for explicitly.
SkipScene(r) ==
    /\ pc[r] = "scene"
    /\ Goto(r, "analysed")
    /\ UNCHANGED <<store, kind, arg, mode, modified, rows, reply, ghosts>>

SaveScene(r) ==
    /\ pc[r] = "scene"
    /\ \E isDayTime \in BOOLEAN :
         LET m == IF isDayTime THEN "day" ELSE "night"
         IN  /\ SavesReference(arg[r].tc, isDayTime)
             /\ mode' = [mode EXCEPT ![r] = m]
             /\ arg' = [arg EXCEPT ![r].tc = WithRef(arg[r].tc, m, r)]
    /\ Goto(r, "upload")
    /\ UNCHANGED <<store, kind, modified, rows, reply, ghosts>>

\* The image goes to S3 before the row refers to it.
Upload(r) ==
    /\ pc[r] = "upload"
    /\ images' = images \cup {arg[r].tc[mode[r]].id}
    /\ Goto(r, "find")
    /\ UNCHANGED <<versions, kind, arg, mode, modified, rows, reply, ghosts>>

\* The same for every caller.
LogFailedUpload(r) ==
    /\ pc[r] = "upload"
    /\ Goto(r, "find")
    /\ UNCHANGED <<store, kind, arg, mode, modified, rows, reply, ghosts>>

\* A failed upload ends a PUT; setReferenceImage logs it and goes on.
FailUpload(r) ==
    /\ pc[r] = "upload"
    /\ IF kind[r] = "alarm"
       THEN Goto(r, "find") /\ UNCHANGED reply
       ELSE Answer(r, "error")
    /\ UNCHANGED <<store, kind, arg, mode, modified, rows, ghosts>>

-----------------------------------------------------------------------------
\* One column forgotten in the comparison.
DifferingButOne(row, config) ==
    {f \in Fields \ {CHOOSE g \in Fields : TRUE} : row.config[f] # config[f]}

\* modifiedViewProps: the columns to write are those that differ from what
\* findView returned.
Differing(row, config) == {f \in Fields : row.config[f] # config[f]}

\* updateView, in a transaction: findView, which queries the replica.  The
\* caller of a ref does not look at the result, so a camera that is not there
\* is no error.
FindView(r) ==
    /\ pc[r] = "find"
    /\ IF Replica.live
       THEN /\ modified' = [modified EXCEPT ![r] = Differing(Replica, arg[r].config)]
            /\ fresh' = IF Replica.config = Master.config
                        THEN fresh \cup {r} ELSE fresh \ {r}
            /\ Goto(r, "analytics")
            /\ UNCHANGED <<mode, rows, reply>>
       ELSE /\ Conclude(r, IF kind[r] = "ref" THEN "ok" ELSE "error")
            /\ UNCHANGED fresh
    /\ UNCHANGED <<store, kind, arg, seen, updated, saved>>

\* The same query outside the transaction.
AnalyticsOnReplica == Replica.analytics

\* deleteAnalytics reads the rows to delete inside the transaction.
AnalyticsToDelete == Master.analytics

ReadAnalytics(r) ==
    /\ pc[r] = "analytics"
    /\ rows' = [rows EXCEPT ![r] = AnalyticsToDelete]
    /\ Goto(r, "commit")
    /\ UNCHANGED <<store, kind, arg, mode, modified, reply, ghosts>>

UpdatedConfig(r) ==
    [f \in Fields |-> IF f \in modified[r] THEN arg[r].config[f] ELSE Master.config[f]]

UpdatedAnalytics(r) ==
    (Master.analytics \ rows[r]) \cup (IF arg[r].analytics THEN {r} ELSE {})

\* isSnapshot written as false unless it is passed as true.
SnapshotReset(r) == FALSE

\* isSnapshot is written only when it is passed, as saveSnapshot does.
UpdatedSnapshot(r) == Master.snapshot /\ ~(kind[r] = "alarm" /\ mode[r] = "none")

\* An UPDATE of a row that is gone affects nothing; analytics is a table of
\* its own.  tamperingConfig is written when it is passed.
UpdatedRow(r) ==
    IF Master.live
    THEN [Master EXCEPT
            !.config = UpdatedConfig(r),
            !.tc = IF mode[r] = "none" THEN @ ELSE arg[r].tc,
            !.analytics = UpdatedAnalytics(r),
            !.snapshot = UpdatedSnapshot(r)]
    ELSE [Master EXCEPT !.analytics = UpdatedAnalytics(r)]

CommitUpdate(r) ==
    /\ pc[r] = "commit"
    /\ kind[r] # "delete"
    /\ versions' = Append(versions, UpdatedRow(r))
    /\ updated' = IF Master.live THEN updated \cup {r} ELSE updated
    /\ saved' = IF Master.live /\ mode[r] # "none" THEN saved \cup {r} ELSE saved
    /\ Conclude(r, "ok")
    /\ UNCHANGED <<images, kind, arg, seen, fresh>>

\* A query fails or times out and the transaction is rolled back.
Rollback(r) ==
    /\ pc[r] \in {"find", "analytics", "commit"}
    /\ Conclude(r, "error")
    /\ UNCHANGED <<store, kind, arg, ghosts>>

\* The analysis is over.  It failed, or the response is sent and, if the camera
\* data asked for one, a snapshot is saved with all of that data, not awaited.
EndAnalysis(r) ==
    /\ pc[r] = "analysed"
    /\ \/ /\ Answer(r, "error")
       \/ /\ reply' = [reply EXCEPT ![r] = "ok"]
          /\ Goto(r, IF arg[r].snapshot THEN "find" ELSE "done")
    /\ UNCHANGED <<store, kind, arg, mode, modified, rows, ghosts>>

-----------------------------------------------------------------------------
\* Soft deletion: the camera and its images are looked up on the replica.
StartDelete(r) ==
    /\ Arrive(r, "delete")
    /\ \/ /\ Replica.live
          /\ arg' = [arg EXCEPT ![r] = Data(Replica)]
          /\ Goto(r, "analytics")
          /\ UNCHANGED reply
       \/ Answer(r, "error") /\ UNCHANGED arg
    /\ UNCHANGED <<store, mode, modified, rows, updated, saved, fresh>>

\* The row leaves view_currents and the analytics read are destroyed.  The
\* client is told 404 when no row was affected.
CommitDelete(r) ==
    /\ pc[r] = "commit"
    /\ kind[r] = "delete"
    /\ versions' = Append(versions,
         [Master EXCEPT !.live = FALSE, !.analytics = @ \ rows[r]])
    /\ updated' = IF Master.live THEN updated \cup {r} ELSE updated
    /\ rows' = [rows EXCEPT ![r] = {}]
    /\ Goto(r, "clean")
    /\ UNCHANGED <<images, kind, arg, mode, modified, reply, seen, saved, fresh>>

\* afterCommit: the images the replica's row named are deleted from S3.
CleanImages(r) ==
    /\ pc[r] = "clean"
    /\ \/ /\ images' = images \ {arg[r].tc[m].id : m \in Modes}
          /\ Answer(r, IF r \in updated THEN "ok" ELSE "error")
       \/ /\ Answer(r, "error")
          /\ UNCHANGED images
    /\ UNCHANGED <<versions, kind, arg, mode, modified, rows, ghosts>>

-----------------------------------------------------------------------------
\* The replica replays the next commit.
Replicate ==
    /\ Len(versions) > 1
    /\ versions' = Tail(versions)
    /\ UNCHANGED <<images, kind, pc, arg, mode, modified, rows, reply, ghosts>>

Step(r) ==
    \/ StartPut(r) \/ StartRef(r) \/ StartAlarm(r) \/ StartDelete(r)
    \/ SkipScene(r) \/ SaveScene(r) \/ Upload(r) \/ FailUpload(r)
    \/ FindView(r) \/ ReadAnalytics(r) \/ CommitUpdate(r) \/ Rollback(r)
    \/ EndAnalysis(r) \/ CommitDelete(r) \/ CleanImages(r)

Next == Replicate \/ \E r \in Requests : Step(r)

Spec == Init /\ [][Next]_vars
-----------------------------------------------------------------------------
\* Every variable keeps its type; there is always a version that the
\* replica shows.
TypeOK ==
    /\ versions \in Seq(Row)
    /\ versions # <<>>
    /\ images \subseteq Authors
    /\ kind \in [Requests -> Kinds \cup {"none"}]
    /\ pc \in [Requests -> Locations]
    /\ arg \in [Requests -> CameraData]
    /\ mode \in [Requests -> Modes \cup {"none"}]
    /\ modified \in [Requests -> SUBSET Fields]
    /\ rows \in [Requests -> SUBSET Authors]
    /\ reply \in [Requests -> {"none", "ok", "error"}]
    /\ seen \in [Requests -> SUBSET Requests]
    /\ updated \subseteq Requests
    /\ saved \subseteq Requests
    /\ fresh \subseteq Requests

\* a had finished, background work included, when b arrived.
Before(a, b) == a \in seen[b]

\* Neither of two requests had finished when the other arrived.
Overlap(a, b) == a # b /\ ~Before(a, b) /\ ~Before(b, a)

\* What may replace a reference image that q recorded: an alarm's image, a PUT
\* that overlapped with q, a later PUT for the same mode.
MayReplace(r, q) ==
    \/ kind[r] # "ref"
    \/ Overlap(r, q)
    \/ mode[r] = mode[q] /\ Before(q, r)

Replaceable(q) == \E r \in saved \ {q} : MayReplace(r, q)

\* A reference image that a PUT recorded is on the camera until another PUT for
\* the same mode replaces it, whatever PUTs for the other mode come before or
\* after it: putReferenceImage reads the tampering config it completes from the
\* master, not from a replica that lags behind.  Only a PUT that overlaps with
\* it, or an alarm that saves its image as a reference, may undo it.
SerialReferencesKept ==
    Master.live =>
        \A q \in saved : kind[q] = "ref" =>
            Master.tc[mode[q]].at = q \/ Replaceable(q)

\* What a PUT of the configuration sent is what the camera has, all of its
\* columns, when updateView compared it with the writer's current columns and no
\* request that rewrites the camera overlapped with it or came later.  Writing
\* only the columns that differ is no loss then.
FreshPutApplied ==
    Master.live =>
        \A q \in updated \cap fresh : kind[q] = "put" =>
            \/ Master.config = arg[q].config
            \/ \E r \in updated \ {q} : ~Before(r, q)

\* updateViewDb replaces the camera's analytics: two requests both have rows in
\* the table only if they overlapped, however far the replica lags.
AnalyticsReplaced ==
    \A a, b \in Master.analytics :
        a = b \/ (a \in Requests /\ b \in Requests /\ Overlap(a, b))

\* A deletion leaves no analytics behind but those of requests that were under
\* way with it or that found the camera on the replica afterwards.
DeletionRemovesAnalytics ==
    \A d \in Requests : kind[d] = "delete" /\ reply[d] = "ok" =>
        \A a \in Master.analytics : a \in Requests /\ ~Before(a, d)

\* A reference image on the camera can be fetched from S3, unless an alarm
\* minted its id (setReferenceImage records an id whose upload failed): a PUT
\* uploads before it records, and images are deleted after the camera is.
PutReferencesStored ==
    Master.live =>
        \A m \in Modes :
            LET id == Master.tc[m].id
            IN  id # None /\ (id \in Requests => kind[id] = "ref") => id \in images

\* The snapshot flag is lowered by an alarm that had read it raised, and by
\* nothing else: updateView leaves it alone unless it is passed.
SnapshotClearedByAlarm ==
    [][Master.snapshot /\ ~Master'.snapshot =>
         \E r \in Requests : /\ kind[r] = "alarm"
                             /\ arg[r].snapshot
                             /\ reply[r] = "ok"
                             /\ pc[r] = "commit"]_vars

-----------------------------------------------------------------------------
\* What the documentation and the comments say, and the code does not do.

\* "Only called when at least one reference is missing": an alarm saves its
\* image only as a reference its camera data does not have.
AlarmFillsOnlyMissing ==
    \A r \in Requests :
        kind[r] = "alarm" /\ pc[r] = "upload" => arg[r].tc[mode[r]].id = r

\* PUT replaces the resource: once answered, the configuration sent is the
\* camera's unless another request overlapped or came later.
AcknowledgedPutApplied ==
    Master.live =>
        \A q \in updated : kind[q] = "put" =>
            \/ Master.config = arg[q].config
            \/ \E r \in updated \ {q} : ~Before(r, q)

\* A PUT of a reference image that was answered 204 recorded the image.
AcknowledgedReferenceRecorded ==
    \A r \in Requests : kind[r] = "ref" /\ reply[r] = "ok" /\ Master.live => r \in saved
=============================================================================
