--------------------------- MODULE AnalyzePipeline ---------------------------
(***************************************************************************)
(* Analyses of images of one camera: the chain of middleware that decides  *)
(* what to ask of APS, the call, the answer to the client, and the work    *)
(* that goes on behind it, which nobody awaits.  Requests interleave at    *)
(* every await, and so do changes of the company's capabilities, which a   *)
(* request reads on the replica: it may find the former ones for a while.  *)
(*                                                                         *)
(* A stage is what a request waits for; what the code does between two     *)
(* awaits belongs to one action.                                           *)
(***************************************************************************)
EXTENDS Detections, FiniteSets

CONSTANTS
    Requests,
    Workload,   \* what each request may be like, given the camera's configuration
    Grants,     \* what the company's capabilities may be
    MaxChanges, \* bound: how often they change
    Database    \* the service that queries go to

Endpoints == {"alarm", "chip", "analysis"}

Calls ==
    [endpoint   : Endpoints,
     features   : Features,
     newRules   : BOOLEAN,   \* viewStatus.isUsingNewAdvancedRules
     option     : {"none", "face", "gun", "person", "lpr", "vehicle"},
     onDemand   : BOOLEAN,   \* options.performSceneChangeDetection is given
     perform    : BOOLEAN,   \* ... and true
     urls       : BOOLEAN,   \* the images are URLs
     references : BOOLEAN,   \* the camera has, or the request gives, a reference
     snapshot   : BOOLEAN,   \* the camera is flagged for a snapshot
     retained   : BOOLEAN]   \* the company's alarms are kept

\* What requests can be like: URLs are for full-frame analyses only, or chips,
\* whose scene is never looked at.
WorkloadOK ==
    /\ Workload \in [Requests -> (SUBSET Calls) \ {{}}]
    /\ \A w \in UNION {Workload[r] : r \in Requests} :
         /\ w.endpoint = "analysis" => w.urls
         /\ w.endpoint = "alarm" => ~w.urls
         /\ w.endpoint = "chip" => w.onDemand /\ ~w.perform
         /\ w.perform => w.onDemand

VARIABLES
    up,         \* the services that are up: ServiceLifecycle says so
    capabilities, \* of the company
    visible,    \* what a query for them may find: a replica lags
    changes,    \* how often they have changed
    stage,      \* what each request waits for
    ctx,        \* the context of each request, until it is answered
    reply,      \* the response to each request
    tasks,      \* the work behind each response
    raised,     \* rejected promises that nobody handles: for what call
    events,     \* the tampering table in this period: who wrote what
    replica     \* ... as the replica has it

company == <<capabilities, visible, changes>>
tampering == <<events, replica>>

vars == <<company, tampering, stage, ctx, reply, tasks, raised>>

-----------------------------------------------------------------------------
Stages == {"idle", "view", "rules", "capabilities", "sceneCapability", "images",
           "tampering", "reference", "aps", "register", "answered"}

NotSent == [detections |-> {}, payload |-> "none", asked |-> FALSE]

NoReply == [code |-> 0, embeddings |-> {}]

Codes == {200, 400, 403, 404, 410, 500}

Completed(table) == {e \in table : e[2] = "completed"}

(***************************************************************************)
(* What a request holds.  history: held are the capabilities that could be *)
(* found when the request came, and those the company has had since; known *)
(* are the events the replica had then.                                    *)
(***************************************************************************)
Context(w, has, knows) ==
    [call       |-> w,
     detections |-> {},          \* ctx.detections but tampering
     payload    |-> "none",      \* ctx.detections.tampering
     granted    |-> {},          \* ctx.companyCapabilities
     sent       |-> NotSent,     \* what APS was asked
     shown      |-> {},          \* embeddings in the response being made
     held       |-> has,
     known      |-> knows]

NewContext(w) == Context(w, visible, replica)

NoContext(r) == Context(CHOOSE w \in Workload[r] : TRUE, {}, {})

Call(r) == ctx[r].call

Init ==
    /\ capabilities \in Grants
    /\ visible = {capabilities}
    /\ changes = 0
    /\ events = {}
    /\ replica = {}
    /\ stage = [r \in Requests |-> "idle"]
    /\ ctx = [r \in Requests |-> NoContext(r)]
    /\ reply = [r \in Requests |-> NoReply]
    /\ tasks = [r \in Requests |-> {}]
    /\ raised = {}

\* The request passes authentication and the handler's chain begins with the
\* query for the camera.
Arrive(r) ==
    /\ stage[r] = "idle"
    /\ \E w \in Workload[r] : ctx' = [ctx EXCEPT ![r] = NewContext(w)]
    /\ stage' = [stage EXCEPT ![r] = "view"]
    /\ UNCHANGED <<company, tampering, reply, tasks, raised>>

\* An answer that ends the request.
Refuse(r, code) ==
    /\ stage' = [stage EXCEPT ![r] = "answered"]
    /\ reply' = [reply EXCEPT ![r].code = code]
    /\ ctx' = [ctx EXCEPT ![r] = NoContext(r)]
    /\ UNCHANGED <<tasks, raised>>

\* The request goes on with this context, to wait for what is next.
Await(r, next, context) ==
    /\ stage' = [stage EXCEPT ![r] = next]
    /\ ctx' = [ctx EXCEPT ![r] = context]
    /\ UNCHANGED <<reply, tasks, raised>>

-----------------------------------------------------------------------------
\* The second check is for a scene change that the client asks to have done.
AfterCapabilities(r) ==
    IF Call(r).onDemand /\ Call(r).perform THEN "sceneCapability" ELSE "images"

\* configureAlarmDetections and configureChipDetections; the capabilities are
\* queried only when there is one to check.
Configure(r) ==
    LET chip == Call(r).endpoint = "chip"
        chosen == IF chip THEN ChipDetections(Call(r).features, Call(r).option)
                  ELSE AlarmDetections(Call(r).features)
    IN  IF chip /\ (~ChipsConfigured(Call(r).features) \/ chosen = {})
        THEN Refuse(r, 400)
        ELSE Await(r, IF Required(chosen) = {} THEN AfterCapabilities(r) ELSE "capabilities",
                   [ctx[r] EXCEPT !.detections = chosen])

\* The camera's row; then its options, which may not be acceptable.  References
\* must exist if the scene change is to be checked on demand.
FindView(r) ==
    /\ stage[r] = "view"
    /\ \/ Refuse(r, 400)
       \/ /\ Call(r).perform => Call(r).references
          /\ IF Call(r).newRules THEN Await(r, "rules", ctx[r]) ELSE Configure(r)
    /\ UNCHANGED <<company, tampering>>

\* No row: a second query tells a deleted camera from one that never was.
MissView(r) ==
    /\ stage[r] = "view"
    /\ \E code \in {404, 410} : Refuse(r, code)
    /\ UNCHANGED <<company, tampering>>

FindRules(r) ==
    /\ stage[r] = "rules"
    /\ Configure(r)
    /\ UNCHANGED <<company, tampering>>

\* What was found has what the detections take.
Covered(r, found) == Required(ctx[r].detections) \subseteq found

CheckCapabilities(r) ==
    /\ stage[r] = "capabilities"
    /\ \E found \in visible :
         IF Covered(r, found)
         THEN Await(r, AfterCapabilities(r), [ctx[r] EXCEPT !.granted = found])
         ELSE Refuse(r, 403)
    /\ UNCHANGED <<company, tampering>>

\* A company that lacks the capability has its images analysed without.
CheckSceneCapability(r) ==
    /\ stage[r] = "sceneCapability"
    /\ \E found \in visible :
         Await(r, "images", [ctx[r] EXCEPT !.payload =
           IF Required({"tampering"}) \subseteq found THEN @ ELSE "companyNotEligible"])
    /\ UNCHANGED <<company, tampering>>

\* The call of APS, made at once.
Send(r, scene) ==
    Await(r, "aps", [ctx[r] EXCEPT !.payload = scene, !.sent =
        [detections |-> DetectionsForAps(ctx[r].detections), payload |-> scene,
         asked |-> Call(r).onDemand]])

\* Overwrites the refusal of the check.
OnDemandAlways(r) ==
    OnDemandPayload(Call(r).features, Call(r).perform, "none")

OnDemand(r) == OnDemandPayload(Call(r).features, Call(r).perform, ctx[r].payload)

\* Images may be missing, or too small.  Chips have no scene; a scene change on
\* demand needs no more awaiting.
ParseImages(r) ==
    /\ stage[r] = "images"
    /\ \/ Refuse(r, 400)
       \/ CASE Call(r).endpoint = "chip" -> Send(r, "none")
            [] Call(r).endpoint # "chip" /\ Call(r).onDemand -> Send(r, OnDemand(r))
            [] OTHER -> Await(r, "tampering", ctx[r])
    /\ UNCHANGED <<company, tampering>>

-----------------------------------------------------------------------------
\* isTamperingAlreadyDone: the query goes to the replica.
AlreadyDone == Completed(replica) # {}

\* Whether the period is looked up: not when there is nothing to compare.
LooksUpPeriod(r) ==
    /\ "sceneChangeDetection" \in Call(r).features.on
    /\ Call(r).references

\* Never goes on when the camera has no references.
CheckReferencesOnly(r) ==
    /\ stage[r] = "tampering"
    /\ LooksUpPeriod(r) \/ "sceneChangeDetection" \notin Call(r).features.on
    /\ Send(r, IF ~LooksUpPeriod(r) THEN "notEligible"
               ELSE IF AlreadyDone THEN "skipPeriod" ELSE "noChecks")
    /\ UNCHANGED <<company, tampering>>

\* checkTampering, for the scene change check that Services API decides on.  It
\* proceeds as a check on demand that registers its result.  Saving a missing
\* reference image never fails the request: CameraConfig.
CheckTampering(r) ==
    /\ stage[r] = "tampering"
    /\ CASE LooksUpPeriod(r) -> Send(r, IF AlreadyDone THEN "skipPeriod" ELSE "noChecks")
         [] "sceneChangeDetection" \notin Call(r).features.on -> Send(r, "notEligible")
         [] OTHER -> Await(r, "reference", ctx[r])
    /\ UNCHANGED <<company, tampering>>

\* The image has become the reference; an event says that nothing was compared.
RegisterFirst(r) ==
    /\ stage[r] = "reference"
    /\ events' = events \cup {<<r, "failed">>}
    /\ Send(r, "skipReferenceImage")
    /\ UNCHANGED <<company, replica>>

\* A promise that the chain awaits is rejected.
FailAwait(r) ==
    /\ \/ stage[r] \in {"view", "rules", "capabilities", "sceneCapability", "images",
                        "reference"}
       \/ stage[r] = "tampering" /\ LooksUpPeriod(r)
    /\ Refuse(r, 500)
    /\ UNCHANGED <<company, tampering>>

-----------------------------------------------------------------------------
\* No try block: a failed upload rejects the promise too.
SnapshotUnguarded(w) == TRUE

\* saveSnapshot reads the buffers of the images before its try block: there are
\* none when the images are URLs.
SnapshotThrows(w) == w.urls

\* The response, and what is begun with it and not awaited.  Chips save no
\* snapshot.
Finish(r, show) ==
    LET w == Call(r)
        snapshot == w.snapshot /\ w.endpoint # "chip"
    IN  /\ stage' = [stage EXCEPT ![r] = "answered"]
        /\ reply' = [reply EXCEPT ![r] = [code |-> 200, embeddings |-> show]]
        /\ tasks' = [tasks EXCEPT ![r] =
             (IF snapshot /\ ~SnapshotThrows(w) THEN {"snapshot"} ELSE {})
                \cup (IF w.retained THEN {"store"} ELSE {})]
        /\ raised' = IF snapshot /\ SnapshotThrows(w) THEN raised \cup {w} ELSE raised
        /\ ctx' = [ctx EXCEPT ![r] = NoContext(r)]

\* The sections an answer may have: those asked for, or some of them.
Answers(r) == UNION {[asked -> Outcomes] : asked \in SUBSET ctx[r].sent.detections}

\* Scene changes are registered that Services API decided to check for.
Registers(r) == ctx[r].sent.payload = "noChecks" /\ ~Call(r).onDemand

\* Summaries are made for full-frame analyses.
Throws(r, answer) == Call(r).endpoint # "chip" /\ SummaryThrows(answer)

\* APS answers.  A scene change that was compared is registered before the client
\* is answered.
ApsAnswers(r) ==
    /\ stage[r] = "aps"
    /\ \E show \in {Embeddings(answer, ctx[r].granted) :
                       answer \in {a \in Answers(r) : ~Throws(r, a)}} :
         \/ Finish(r, show)
         \/ Registers(r) /\ Await(r, "register", [ctx[r] EXCEPT !.shown = show])
    /\ UNCHANGED <<company, tampering>>

\* The results of an answer cannot be shaped.
CannotShape(r) ==
    /\ stage[r] = "aps"
    /\ \E answer \in Answers(r) : Throws(r, answer)
    /\ Refuse(r, 500)
    /\ UNCHANGED <<company, tampering>>

\* APS finds the images invalid, fails, or cannot be reached.
ApsFails(r) ==
    /\ stage[r] = "aps"
    /\ \E code \in {400, 500} : Refuse(r, code)
    /\ UNCHANGED <<company, tampering>>

\* A failure to write the event is logged.
RegisterTampering(r) ==
    /\ stage[r] = "register"
    /\ \/ Database \in up /\ events' = events \cup {<<r, "completed">>}
       \/ UNCHANGED events
    /\ Finish(r, ctx[r].shown)
    /\ UNCHANGED <<company, replica>>

\* An upload and an update of the camera, or a put of the result: failures are
\* logged, in both.
EndTask(r, task) ==
    /\ task \in tasks[r]
    /\ tasks' = [tasks EXCEPT ![r] = @ \ {task}]
    /\ UNCHANGED <<company, tampering, stage, ctx, reply, raised>>

\* The rejection becomes an uncaught exception, which the process handles.
Raise(w) ==
    /\ w \in raised
    /\ raised' = raised \ {w}
    /\ UNCHANGED <<company, tampering, stage, ctx, reply, tasks>>

-----------------------------------------------------------------------------
Underway == {r \in Requests : stage[r] \notin {"idle", "answered"}}

\* The integration partner or an administrator changes what the company has.
ChangeCapabilities ==
    /\ changes < MaxChanges
    /\ changes' = changes + 1
    /\ capabilities' \in Grants \ {capabilities}
    /\ visible' = visible \cup {capabilities'}
    /\ ctx' = [r \in Requests |->
         IF r \in Underway THEN [ctx[r] EXCEPT !.held = @ \cup {capabilities'}] ELSE ctx[r]]
    /\ UNCHANGED <<tampering, stage, reply, tasks, raised>>

\* Former capabilities can be found no longer.
ReplicateCapabilities ==
    /\ visible' \in SUBSET visible \ {visible}
    /\ capabilities \in visible'
    /\ UNCHANGED <<capabilities, changes, tampering, stage, ctx, reply, tasks, raised>>

Replicate ==
    /\ replica # events
    /\ replica' = events
    /\ UNCHANGED <<company, events, stage, ctx, reply, tasks, raised>>

\* What needs the database while it is up.
Query(r) ==
    FindView(r) \/ MissView(r) \/ FindRules(r) \/ CheckCapabilities(r)
        \/ CheckSceneCapability(r) \/ RegisterFirst(r)

\* What an await that settles leads to, but for a failure.
Proceed(r) ==
    \/ Database \in up /\ Query(r)
    \/ (LooksUpPeriod(r) => Database \in up) /\ CheckTampering(r)
    \/ ParseImages(r) \/ ApsAnswers(r) \/ CannotShape(r) \/ ApsFails(r)
    \/ RegisterTampering(r)

TypeOK ==
    /\ capabilities \in visible /\ visible \subseteq Grants
    /\ changes \in 0 .. MaxChanges
    /\ events \subseteq Requests \X {"completed", "failed"}
    /\ replica \subseteq events
    /\ stage \in [Requests -> Stages]
    /\ \A r \in Requests :
         /\ ctx[r].call \in Workload[r]
         /\ ctx[r].detections \subseteq DOMAIN Capability \cup {"gun"}
         /\ ctx[r].payload \in Payloads
         /\ ctx[r].granted \in Grants \cup {{}}
         /\ ctx[r].sent.detections \subseteq ctx[r].detections
         /\ ctx[r].shown \subseteq ctx[r].granted
         /\ ctx[r].held \subseteq Grants
         /\ ctx[r].known \subseteq events
         /\ reply[r].code \in Codes \cup {0}
    /\ tasks \in [Requests -> SUBSET {"snapshot", "store"}]
    /\ raised \subseteq UNION {Workload[r] : r \in Requests}

-----------------------------------------------------------------------------
\* A full-frame analysis that is being answered is valid as a whole exactly when
\* one of the summaries shown with it is: validity is computed when the answer
\* of APS is parsed, the summaries when the response is shaped.
SummariesAgree ==
    \A r \in Requests : stage[r] = "aps" /\ Call(r).endpoint # "chip" =>
        \A answer \in Answers(r) :
            SummaryThrows(answer) \/ (Overall(answer) = "valid" <=> "valid" \in Summaries(answer))
=============================================================================
