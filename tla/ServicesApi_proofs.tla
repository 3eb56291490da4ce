-------------------------- MODULE ServicesApi_proofs --------------------------
(***************************************************************************)
(* Proofs about ServicesApi: what ServiceLifecycle_proofs shows of the     *)
(* process holds of the process that serves analyses, and what the         *)
(* analyses do implements AnalysisPromise, for any services, requests and  *)
(* sets of capabilities.                                                   *)
(***************************************************************************)
EXTENDS ServicesApi, ServiceLifecycle_proofs

-----------------------------------------------------------------------------
(***************************************************************************)
(* The process.                                                            *)
(***************************************************************************)
\* To the process, what a request does is one of its steps or nothing.
LEMMA StepOfProcess ==
    ASSUME [ApiNext]_allVars
    PROVE  [Next]_vars
<1>1. CASE UNCHANGED allVars
  BY <1>1 DEF allVars
<1>2. CASE ProcessStep
  BY <1>2 DEF ProcessStep, Next
<1>3. CASE Environment
  BY <1>3 DEF Environment
<1>4. CASE Uncaught
  BY <1>4 DEF Uncaught, Next
<1>5. ASSUME NEW r \in Requests, Receive(r) \/ RequestStep(r) \/ EndWork(r)
      PROVE  Accept(r) \/ Respond(r) \/ Refuse(r) \/ EndBackground(r) \/ UNCHANGED vars
  BY <1>5 DEF Receive, RequestStep, ServeRequest, FailRequest, Follow, EndWork
<1>6. QED
  BY <1>1, <1>2, <1>3, <1>4, <1>5 DEF ApiNext, Next

LEMMA ProcessInv == ApiSpec => []IInv
<1>1. ApiInit => Init
  BY DEF ApiInit
<1>2. [ApiNext]_allVars => [Next]_vars
  BY StepOfProcess
<1>3. ApiSpec => Init /\ [][Next]_vars
  BY <1>1, <1>2, PTL DEF ApiSpec
<1>4. QED
  BY <1>3, AlwaysIInv, PTL

-----------------------------------------------------------------------------
(***************************************************************************)
(* The analyses: their inductive invariant.                                *)
(***************************************************************************)
Kinds == DOMAIN Analyses!Capability \cup {"gun"}

Events == Requests \X {"completed", "failed"}

Contexts ==
    [call       : Analyses!Calls,
     detections : SUBSET Kinds,
     payload    : Analyses!Payloads,
     granted    : Grants \cup {{}},
     sent       : [detections : SUBSET Kinds, payload : Analyses!Payloads, asked : BOOLEAN],
     shown      : SUBSET {"person_embeddings", "vehicle_embeddings"},
     held       : SUBSET Grants,
     known      : SUBSET Events]

Replies == [code : Analyses!Codes \cup {0}, embeddings : SUBSET {"person_embeddings", "vehicle_embeddings"}]

\* What could reject a promise that nobody handles.
Crashing == {w \in UNION {Workload[r] : r \in Requests} : w.snapshot /\ w.urls}

AnalysesTyped ==
    /\ capabilities \in visible /\ visible \subseteq Grants /\ changes \in 0 .. MaxChanges
    /\ events \subseteq Events /\ replica \subseteq events
    /\ stage \in [Requests -> Analyses!Stages]
    /\ ctx \in [Requests -> Contexts]
    /\ reply \in [Requests -> Replies]
    /\ tasks \in [Requests -> SUBSET {"snapshot", "store"}]
    /\ raised \subseteq Crashing /\ killers \subseteq Crashing

\* Some capabilities that could be found since the request came were enough.
Had(c, what) == \E h \in c.held : what \subseteq h

\* Outside of the chain a context holds nothing; within, it holds whatever
\* capabilities can be found now, and others.
HeldFits(s, c, now, table) ==
    /\ c.known \subseteq table
    /\ c.shown \subseteq c.granted
    /\ c.sent.detections \subseteq c.detections
    /\ s \in {"idle", "answered"} => c.held = {} /\ c.known = {} /\ c.sent = Analyses!NotSent
    /\ s \notin {"idle", "answered"} =>
         c.held # {} /\ now \subseteq c.held /\ c.granted \in c.held \cup {{}}

\* What has been checked before the request came to a stage.
CheckedFits(s, c) ==
    /\ s \in {"sceneCapability", "images", "tampering", "reference"} =>
         Had(c, Analyses!Required(c.detections))
    /\ s = "images" /\ c.call.perform /\ c.payload # "companyNotEligible" =>
         Had(c, Analyses!Required({"tampering"}))
    /\ s \in {"tampering", "reference"} => ~c.call.onDemand

\* APS is asked once, and after the capabilities have been checked.
SentFits(s, c) ==
    /\ s \notin {"aps", "register"} => c.sent = Analyses!NotSent /\ c.shown = {}
    /\ s \in {"aps", "register"} =>
         /\ c.sent # Analyses!NotSent
         /\ c.sent.payload = "noChecks" /\ ~c.call.onDemand =>
              \A e \in c.known : e[2] # "completed"
    /\ s = "register" => c.sent.payload = "noChecks" /\ ~c.call.onDemand

Fits(s, c, now, table) == HeldFits(s, c, now, table) /\ CheckedFits(s, c) /\ SentFits(s, c)

AnalysesInv ==
    /\ AnalysesTyped
    /\ \A r \in Requests :
         /\ ctx[r].call \in Workload[r]
         /\ Fits(stage[r], ctx[r], visible, replica)
         /\ stage[r] # "answered" => reply[r] = Analyses!NoReply

-----------------------------------------------------------------------------
(***************************************************************************)
(* Contexts.                                                               *)
(***************************************************************************)
LEMMA WorkloadFacts ==
    ASSUME NEW r \in Requests
    PROVE  /\ Workload[r] \subseteq Analyses!Calls /\ Workload[r] # {}
           /\ \A w \in Workload[r] : (w.endpoint = "chip" => w.onDemand)
                                       /\ (w.perform => w.onDemand)
           /\ MaxChanges \in Nat
<1>1. /\ Workload \in [Requests -> (SUBSET Analyses!Calls) \ {{}}] /\ MaxChanges \in Nat
      /\ \A w \in UNION {Workload[q] : q \in Requests} :
           (w.endpoint = "chip" => w.onDemand) /\ (w.perform => w.onDemand)
  BY WorkloadAssumption DEF Analyses!WorkloadOK
<1>2. Workload[r] \in (SUBSET Analyses!Calls) \ {{}}
  BY <1>1
<1>3. QED
  BY <1>1, <1>2

LEMMA CallTyped ==
    ASSUME NEW r \in Requests, NEW w \in Workload[r]
    PROVE  w.onDemand \in BOOLEAN
<1>1. w \in Analyses!Calls
  BY WorkloadFacts
<1>2. QED
  BY <1>1 DEF Analyses!Calls

\* The context of a request that is not underway.
LEMMA NoContextFacts ==
    ASSUME NEW r \in Requests
    PROVE  /\ Analyses!NoContext(r) \in Contexts
           /\ Analyses!NoContext(r).call \in Workload[r]
           /\ Analyses!NoContext(r).held = {} /\ Analyses!NoContext(r).known = {}
           /\ Analyses!NoContext(r).sent = Analyses!NotSent
           /\ \A now, table : Fits("answered", Analyses!NoContext(r), now, table)
           /\ \A now, table : Fits("idle", Analyses!NoContext(r), now, table)
<1> DEFINE w == CHOOSE v \in Workload[r] : TRUE
<1>1. w \in Workload[r] /\ w \in Analyses!Calls
  BY WorkloadFacts
<1> HIDE DEF w
<1> DEFINE d == Analyses!Context(w, {}, {})
<1>2. d = [call |-> w, detections |-> {}, payload |-> "none", granted |-> {},
           sent |-> Analyses!NotSent, shown |-> {}, held |-> {}, known |-> {}]
  BY DEF Analyses!Context
<1>3. Analyses!NoContext(r) = d
  BY DEF Analyses!NoContext, w
<1> HIDE DEF d
<1>4. Analyses!NotSent \in [detections : SUBSET Kinds, payload : Analyses!Payloads, asked : BOOLEAN]
      /\ Analyses!NotSent.detections = {} /\ "none" \in Analyses!Payloads
  BY DEF Analyses!NotSent, Analyses!Payloads
<1>5. d \in Contexts
  BY <1>1, <1>2, <1>4 DEF Contexts
<1>6. /\ d.call = w /\ d.held = {} /\ d.known = {} /\ d.sent = Analyses!NotSent
      /\ d.shown = {} /\ d.granted = {} /\ d.detections = {}
  BY <1>2
<1>7. \A now, table : Fits("answered", d, now, table) /\ Fits("idle", d, now, table)
  BY <1>4, <1>6 DEF Fits, HeldFits, CheckedFits, SentFits
<1>8. QED
  BY <1>1, <1>3, <1>5, <1>6, <1>7

-----------------------------------------------------------------------------
(***************************************************************************)
(* What the ways of ending a step do, to the invariant and to the promise. *)
(***************************************************************************)
Within(s) == s \in Analyses!Stages \ {"idle", "answered"}

\* Nothing of a request changes that the promise speaks of.
LEMMA Stutters ==
    ASSUME \A q \in Requests : /\ ctx'[q].held = ctx[q].held /\ ctx'[q].known = ctx[q].known
                              /\ ctx'[q].sent = ctx[q].sent,
           UNCHANGED <<capabilities, visible, reply, events, killers>>
    PROVE  UNCHANGED Promise!vars
BY DEF Promise!vars

\* The request goes on.
LEMMA AwaitInv ==
    ASSUME AnalysesInv, NEW r \in Requests, NEW next, NEW c \in Contexts,
           Analyses!Await(r, next, c), Within(next), Within(stage[r]),
           c.call = ctx[r].call, Fits(next, c, visible, replica),
           UNCHANGED <<capabilities, visible, changes, replica, killers>>,
           events \subseteq events', events' \subseteq Events
    PROVE  AnalysesInv'
<1>1. /\ stage' = [stage EXCEPT ![r] = next] /\ ctx' = [ctx EXCEPT ![r] = c]
      /\ UNCHANGED <<reply, tasks, raised>>
  BY DEF Analyses!Await
<1>2. AnalysesTyped'
  BY <1>1 DEF AnalysesInv, AnalysesTyped, Within
<1>3. /\ stage'[r] = next /\ ctx'[r] = c
      /\ \A q \in Requests \ {r} : stage'[q] = stage[q] /\ ctx'[q] = ctx[q]
  BY <1>1 DEF AnalysesInv, AnalysesTyped
<1>4. ASSUME NEW q \in Requests
      PROVE  /\ ctx'[q].call \in Workload[q]
             /\ Fits(stage'[q], ctx'[q], visible', replica')
             /\ stage'[q] # "answered" => reply'[q] = Analyses!NoReply
  <2>1. CASE q = r
    BY <1>1, <1>3, <2>1 DEF AnalysesInv, Within
  <2>2. CASE q # r
    BY <1>1, <1>3, <2>2 DEF AnalysesInv
  <2>3. QED
    BY <2>1, <2>2
<1>5. QED
  BY <1>2, <1>4 DEF AnalysesInv

\* The request is answered, and its context is given up.
LEMMA AnsweredInv ==
    ASSUME AnalysesInv, NEW r \in Requests, NEW answer \in Replies, NEW work \in SUBSET {"snapshot", "store"},
           stage' = [stage EXCEPT ![r] = "answered"], reply' = [reply EXCEPT ![r] = answer],
           ctx' = [ctx EXCEPT ![r] = Analyses!NoContext(r)],
           tasks' = [tasks EXCEPT ![r] = work], raised' \subseteq Crashing,
           UNCHANGED <<capabilities, visible, changes, replica, killers>>,
           events \subseteq events', events' \subseteq Events
    PROVE  AnalysesInv'
<1>1. /\ Analyses!NoContext(r) \in Contexts /\ Analyses!NoContext(r).call \in Workload[r]
      /\ \A now, table : Fits("answered", Analyses!NoContext(r), now, table)
  BY NoContextFacts
<1> DEFINE c == Analyses!NoContext(r)
<1> HIDE DEF c
<1>2. "answered" \in Analyses!Stages
  BY DEF Analyses!Stages
<1>3. AnalysesTyped'
  BY <1>1, <1>2 DEF AnalysesInv, AnalysesTyped
<1>4. /\ stage'[r] = "answered" /\ ctx'[r] = Analyses!NoContext(r)
      /\ \A q \in Requests \ {r} : stage'[q] = stage[q] /\ ctx'[q] = ctx[q] /\ reply'[q] = reply[q]
  BY DEF AnalysesInv, AnalysesTyped
<1>5. ASSUME NEW q \in Requests
      PROVE  /\ ctx'[q].call \in Workload[q]
             /\ Fits(stage'[q], ctx'[q], visible', replica')
             /\ stage'[q] # "answered" => reply'[q] = Analyses!NoReply
  <2>1. CASE q = r
    BY <1>1, <1>4, <2>1
  <2>2. CASE q # r
    BY <1>4, <2>2 DEF AnalysesInv
  <2>3. QED
    BY <2>1, <2>2
<1>6. QED
  BY <1>3, <1>5 DEF AnalysesInv

\* ... which the promise has as its answer.
LEMMA AnsweredPromise ==
    ASSUME AnalysesInv, NEW r \in Requests, NEW answer \in Replies, Within(stage[r]),
           reply' = [reply EXCEPT ![r] = answer],
           ctx' = [ctx EXCEPT ![r] = Analyses!NoContext(r)],
           answer.code \in Analyses!Codes,
           answer.code = 200 => ctx[r].sent # Analyses!NotSent,
           Had(ctx[r], answer.embeddings),
           \/ events' = events
           \/ /\ \A e \in ctx[r].known : e[2] # "completed"
              /\ events' = events \cup {<<r, "completed">>},
           UNCHANGED <<capabilities, visible, killers>>
    PROVE  Promise!Answer(r)
<1>1. /\ ctx'[r].held = {} /\ ctx'[r].known = {} /\ ctx'[r].sent = Analyses!NotSent
      /\ \A q \in Requests \ {r} : ctx'[q] = ctx[q]
      /\ reply'[r] = answer /\ \A q \in Requests \ {r} : reply'[q] = reply[q]
  BY NoContextFacts DEF AnalysesInv, AnalysesTyped
<1>2. ctx[r].held # {} /\ reply[r] = Analyses!NoReply
  BY DEF AnalysesInv, Fits, HeldFits, Within
<1>3. ASSUME NEW q \in Requests
      PROVE  /\ ctx'[q].held = IF q = r THEN {} ELSE ctx[q].held
             /\ ctx'[q].known = IF q = r THEN {} ELSE ctx[q].known
             /\ ctx'[q].sent = IF q = r THEN Analyses!NotSent ELSE ctx[q].sent
  <2>1. CASE q = r
    BY <1>1, <2>1
  <2>2. CASE q # r
    BY <1>1, <2>2
  <2>3. QED
    BY <2>1, <2>2
<1> DEFINE Held == [q \in Requests |-> ctx[q].held]
           Known == [q \in Requests |-> ctx[q].known]
           Sent == [q \in Requests |-> ctx[q].sent]
<1>4. /\ Held' = [Held EXCEPT ![r] = {}] /\ Known' = [Known EXCEPT ![r] = {}]
      /\ Sent' = [Sent EXCEPT ![r] = Analyses!NotSent]
  <2>1. Held' = [Held EXCEPT ![r] = {}]
    <3>1. Held' = [q \in Requests |-> IF q = r THEN {} ELSE ctx[q].held]
      BY <1>3
    <3>2. QED
      BY <3>1
  <2>2. Known' = [Known EXCEPT ![r] = {}]
    <3>1. Known' = [q \in Requests |-> IF q = r THEN {} ELSE ctx[q].known]
      BY <1>3
    <3>2. QED
      BY <3>1
  <2>3. Sent' = [Sent EXCEPT ![r] = Analyses!NotSent]
    <3>1. Sent' = [q \in Requests |-> IF q = r THEN Analyses!NotSent ELSE ctx[q].sent]
      BY <1>3
    <3>2. QED
      BY <3>1
  <2>4. QED
    BY <2>1, <2>2, <2>3
<1>5. /\ Held[r] = ctx[r].held /\ Known[r] = ctx[r].known /\ Sent[r] = ctx[r].sent
  OBVIOUS
<1>6. Promise!HadAll(r, answer.embeddings)
  BY <1>5 DEF Promise!HadAll, Had
<1>7. UNCHANGED events \/ Promise!Register(r)
  BY <1>5 DEF Promise!Register
<1>8. Promise!ChangesFor(r, reply, reply')
  BY <1>1 DEF Promise!ChangesFor
<1>9. QED
  BY <1>1, <1>2, <1>4, <1>5, <1>6, <1>7, <1>8 DEF Promise!Answer

\* A refusal ends a request that is underway.
LEMMA RefuseStep ==
    ASSUME AnalysesInv, NEW r \in Requests, NEW code \in Analyses!Codes \ {200},
           Analyses!Refuse(r, code), Within(stage[r]),
           UNCHANGED <<capabilities, visible, changes, events, replica, killers>>
    PROVE  AnalysesInv' /\ Promise!Answer(r)
<1> DEFINE answer == [code |-> code, embeddings |-> {}]
           work == tasks[r]
<1>1. reply[r] = Analyses!NoReply /\ reply \in [Requests -> Replies]
  BY DEF AnalysesInv, AnalysesTyped, Within
<1>2. reply' = [reply EXCEPT ![r].code = code]
  BY DEF Analyses!Refuse
<1>3. reply' = [reply EXCEPT ![r] = answer]
  <2>1. reply[r] = [code |-> 0, embeddings |-> {}]
    BY <1>1 DEF Analyses!NoReply
  <2>2. [reply[r] EXCEPT !.code = code] = answer
    BY <2>1
  <2>3. reply' = [reply EXCEPT ![r] = [reply[r] EXCEPT !.code = code]]
    BY <1>2
  <2>4. QED
    BY <2>2, <2>3
<1>4. answer \in Replies /\ answer.code = code /\ answer.embeddings = {} /\ answer.code # 200
  BY DEF Replies, Analyses!Codes
<1>5. /\ work \in SUBSET {"snapshot", "store"} /\ tasks' = [tasks EXCEPT ![r] = work]
      /\ stage' = [stage EXCEPT ![r] = "answered"]
      /\ ctx' = [ctx EXCEPT ![r] = Analyses!NoContext(r)] /\ raised' \subseteq Crashing
      /\ events' \subseteq Events /\ events \subseteq events'
  BY DEF Analyses!Refuse, AnalysesInv, AnalysesTyped
<1>6. Had(ctx[r], answer.embeddings)
  BY <1>4 DEF AnalysesInv, Fits, HeldFits, Within, Had
<1> HIDE DEF answer, work
<1>7. AnalysesInv'
  BY <1>3, <1>4, <1>5, AnsweredInv
<1>8. Promise!Answer(r)
  BY <1>3, <1>4, <1>5, <1>6, AnsweredPromise
<1>9. QED
  BY <1>7, <1>8

\* What is shown in an answer was granted.
LEMMA FinishStep ==
    ASSUME AnalysesInv, NEW r \in Requests, stage[r] \in {"aps", "register"},
           NEW show \in SUBSET {"person_embeddings", "vehicle_embeddings"},
           show \subseteq ctx[r].granted, Analyses!Finish(r, show),
           \/ events' = events
           \/ stage[r] = "register" /\ events' = events \cup {<<r, "completed">>},
           UNCHANGED <<capabilities, visible, changes, replica, killers>>
    PROVE  AnalysesInv' /\ Promise!Answer(r)
<1> DEFINE answer == [code |-> 200, embeddings |-> show]
           work == (IF Analyses!Call(r).snapshot /\ Analyses!Call(r).endpoint # "chip"
                       /\ ~Analyses!SnapshotThrows(Analyses!Call(r)) THEN {"snapshot"} ELSE {})
                     \cup (IF Analyses!Call(r).retained THEN {"store"} ELSE {})
<1>1. /\ stage' = [stage EXCEPT ![r] = "answered"] /\ reply' = [reply EXCEPT ![r] = answer]
      /\ tasks' = [tasks EXCEPT ![r] = work]
      /\ ctx' = [ctx EXCEPT ![r] = Analyses!NoContext(r)]
  BY DEF Analyses!Finish
<1>2. raised' \subseteq Crashing
  BY DEF Analyses!Finish, Analyses!Call, Analyses!SnapshotThrows, AnalysesInv, AnalysesTyped,
         Crashing
<1>3. answer \in Replies /\ answer.code \in Analyses!Codes /\ answer.embeddings = show
  BY DEF Replies, Analyses!Codes
<1>4. work \in SUBSET {"snapshot", "store"}
  OBVIOUS
<1>5. Within(stage[r]) /\ ctx[r].sent # Analyses!NotSent
  BY DEF AnalysesInv, Fits, SentFits, Within, Analyses!Stages
<1>6. Had(ctx[r], answer.embeddings)
  <2>1. ctx[r].held # {} /\ ctx[r].granted \in ctx[r].held \cup {{}}
    BY <1>5 DEF AnalysesInv, Fits, HeldFits, Within
  <2>2. QED
    BY <1>3, <2>1 DEF Had
<1>7. \/ events' = events
      \/ /\ \A e \in ctx[r].known : e[2] # "completed"
         /\ events' = events \cup {<<r, "completed">>}
  BY DEF AnalysesInv, Fits, SentFits
<1>8. events \subseteq events' /\ events' \subseteq Events
  BY DEF AnalysesInv, AnalysesTyped, Events
<1> HIDE DEF answer, work
<1>9. AnalysesInv'
  BY <1>1, <1>2, <1>3, <1>4, <1>8, AnsweredInv
<1>10. Promise!Answer(r)
  BY <1>1, <1>3, <1>5, <1>6, <1>7, AnsweredPromise
<1>11. QED
  BY <1>9, <1>10

\* The request goes on, and what the promise speaks of stays.
LEMMA PassStep ==
    ASSUME AnalysesInv, NEW r \in Requests, NEW next, NEW c \in Contexts,
           Analyses!Await(r, next, c), Within(next), Within(stage[r]),
           c.call = ctx[r].call, c.held = ctx[r].held, c.known = ctx[r].known,
           c.sent = ctx[r].sent, Fits(next, c, visible, replica),
           UNCHANGED <<capabilities, visible, changes, events, replica, killers>>
    PROVE  AnalysesInv' /\ UNCHANGED Promise!vars
<1>1. AnalysesInv'
  <2>1. events \subseteq events' /\ events' \subseteq Events
    BY DEF AnalysesInv, AnalysesTyped
  <2>2. QED
    BY <2>1, AwaitInv
<1>2. ctx' = [ctx EXCEPT ![r] = c] /\ reply' = reply /\ ctx \in [Requests -> Contexts]
  BY DEF Analyses!Await, AnalysesInv, AnalysesTyped
<1>3. \A q \in Requests : /\ ctx'[q].held = ctx[q].held /\ ctx'[q].known = ctx[q].known
                         /\ ctx'[q].sent = ctx[q].sent
  <2>1. ASSUME NEW q \in Requests
        PROVE  /\ ctx'[q].held = ctx[q].held /\ ctx'[q].known = ctx[q].known
               /\ ctx'[q].sent = ctx[q].sent
    <3>1. CASE q = r
      BY <1>2, <3>1
    <3>2. CASE q # r
      BY <1>2, <3>2
    <3>3. QED
      BY <3>1, <3>2
  <2>2. QED
    BY <2>1
<1>4. QED
  BY <1>1, <1>2, <1>3, Stutters

\* The two modules mean the same by what detections require.
LEMMA SameRequired ==
    ASSUME NEW what
    PROVE  Promise!Required(what) = Analyses!Required(what)
BY DEF Promise!Required, Analyses!Required, Promise!Capability, Analyses!Capability

\* APS is asked for what has been checked.
LEMMA SendStep ==
    ASSUME AnalysesInv, NEW r \in Requests, stage[r] \in {"images", "tampering", "reference"},
           NEW scene \in Analyses!Payloads, Analyses!Send(r, scene),
           scene = "none" => ctx[r].call.onDemand,
           scene = "noChecks" /\ ctx[r].call.onDemand => Had(ctx[r], Analyses!Required({"tampering"})),
           scene = "noChecks" /\ ~ctx[r].call.onDemand => Analyses!Completed(replica) = {},
           Had(ctx[r], Analyses!Required(ctx[r].detections)),
           UNCHANGED <<capabilities, visible, changes, replica, killers>>,
           events' \in {events, events \cup {<<r, "failed">>}}
    PROVE  AnalysesInv' /\ Promise!Ask(r)
<1> DEFINE s == [detections |-> Analyses!DetectionsForAps(ctx[r].detections), payload |-> scene,
                 asked |-> Analyses!Call(r).onDemand]
           c == [ctx[r] EXCEPT !.payload = scene, !.sent = s]
<1>1. Analyses!Await(r, "aps", c)
  BY DEF Analyses!Send
<1>2. /\ ctx \in [Requests -> Contexts] /\ ctx[r] \in Contexts /\ ctx[r].call \in Workload[r]
      /\ ctx[r].sent = Analyses!NotSent /\ Within(stage[r]) /\ Within("aps")
      /\ HeldFits(stage[r], ctx[r], visible, replica)
  BY DEF AnalysesInv, AnalysesTyped, Fits, SentFits, Within, Analyses!Stages
<1>3. /\ s.detections \subseteq ctx[r].detections /\ s.payload = scene
      /\ s.asked = ctx[r].call.onDemand /\ s.asked \in BOOLEAN
  <2>1. s.detections \subseteq ctx[r].detections
    BY DEF Analyses!DetectionsForAps
  <2>2. s.payload = scene /\ s.asked = ctx[r].call.onDemand
    BY DEF Analyses!Call
  <2>3. ctx[r].call.onDemand \in BOOLEAN
    <3>1. ctx[r].call \in Workload[r]
      BY <1>2
    <3>2. QED
      BY <3>1, CallTyped
  <2> HIDE DEF s
  <2>4. QED
    BY <2>1, <2>2, <2>3
<1>4. s # Analyses!NotSent
  BY <1>3 DEF Analyses!NotSent
<1>5. s \in [detections : SUBSET Kinds, payload : Analyses!Payloads, asked : BOOLEAN]
  <2>1. s.detections \in SUBSET Kinds
    BY <1>2, <1>3 DEF Contexts
  <2>2. QED
    BY <1>3, <2>1
<1> HIDE DEF s
<1>6. c \in Contexts
  BY <1>2, <1>5 DEF Contexts
<1>7. /\ c.call = ctx[r].call /\ c.held = ctx[r].held /\ c.known = ctx[r].known /\ c.sent = s
      /\ c.detections = ctx[r].detections /\ c.granted = ctx[r].granted /\ c.shown = ctx[r].shown
  BY <1>2 DEF Contexts
<1> HIDE DEF c
<1>8. Fits("aps", c, visible, replica)
  <2>1. HeldFits("aps", c, visible, replica)
    BY <1>2, <1>3, <1>7 DEF HeldFits, Within
  <2>2. CheckedFits("aps", c)
    BY DEF CheckedFits
  <2>3. scene = "noChecks" /\ ~ctx[r].call.onDemand => \A e \in ctx[r].known : e[2] # "completed"
    BY <1>2 DEF HeldFits, Analyses!Completed
  <2>4. SentFits("aps", c)
    BY <1>3, <1>4, <1>7, <2>3 DEF SentFits
  <2>5. QED
    BY <2>1, <2>2, <2>4 DEF Fits
<1>9. events \subseteq events' /\ events' \subseteq Events
  BY DEF AnalysesInv, AnalysesTyped, Events
<1>10. AnalysesInv'
  BY <1>1, <1>2, <1>6, <1>7, <1>8, <1>9, AwaitInv
<1>11. ctx' = [ctx EXCEPT ![r] = c] /\ reply' = reply
  BY <1>1 DEF Analyses!Await
<1>12. ASSUME NEW q \in Requests
       PROVE  /\ ctx'[q].held = ctx[q].held /\ ctx'[q].known = ctx[q].known
              /\ ctx'[q].sent = IF q = r THEN s ELSE ctx[q].sent
  <2>1. CASE q = r
    BY <1>2, <1>7, <1>11, <2>1
  <2>2. CASE q # r
    BY <1>2, <1>11, <2>2
  <2>3. QED
    BY <2>1, <2>2
<1> DEFINE Held == [q \in Requests |-> ctx[q].held]
           Known == [q \in Requests |-> ctx[q].known]
           Sent == [q \in Requests |-> ctx[q].sent]
<1>13. Held' = Held /\ Known' = Known
  BY <1>12
<1>14. Promise!ChangesFor(r, Sent, Sent') /\ Sent'[r] = s /\ Sent[r] = Analyses!NotSent
       /\ Held[r] = ctx[r].held
  BY <1>2, <1>12 DEF Promise!ChangesFor
<1>15. Promise!MayAsk(r, s)
  <2>1. Analyses!Required(s.detections) \subseteq Analyses!Required(ctx[r].detections)
    BY <1>3 DEF Analyses!Required
  <2>2. Promise!HadAll(r, Promise!Required(s.detections))
    BY <2>1, <1>14, SameRequired DEF Had, Promise!HadAll
  <2>3. s.payload = "noChecks" /\ s.asked => Promise!HadAll(r, Promise!Required({"tampering"}))
    BY <1>3, <1>14, SameRequired DEF Had, Promise!HadAll
  <2>4. QED
    BY <2>2, <2>3 DEF Promise!MayAsk
<1>16. ctx[r].held # {}
  BY <1>2 DEF HeldFits, Within
<1>17. QED
  BY <1>4, <1>10, <1>11, <1>13, <1>14, <1>15, <1>16 DEF Promise!Ask

-----------------------------------------------------------------------------
(***************************************************************************)
(* The steps of a request.                                                 *)
(***************************************************************************)
PromiseStep(r) == Promise!Answer(r) \/ Promise!Ask(r) \/ UNCHANGED Promise!vars

Still == UNCHANGED <<capabilities, visible, changes, events, replica, killers>>

\* What is chosen has a capability, or is a gun.
LEMMA AlarmTyped ==
    ASSUME NEW features
    PROVE  Analyses!AlarmDetections(features) \subseteq Kinds
<1>1. \A f \in DOMAIN Analyses!FullFrame : Analyses!FullFrame[f] \subseteq Kinds
  BY DEF Analyses!FullFrame, Kinds, Analyses!Capability
<1>2. QED
  BY <1>1 DEF Analyses!AlarmDetections

LEMMA ChipTyped ==
    ASSUME NEW features, NEW option
    PROVE  Analyses!ChipDetections(features, option) \subseteq Kinds
<1> DEFINE types == {"face", "gun", "person", "vehicle", "lpr"}
<1>1. Analyses!ChipTypes(features) \subseteq types
  BY DEF Analyses!ChipTypes
<1>2. types \subseteq Kinds
  BY DEF Kinds, Analyses!Capability
<1>3. ASSUME NEW t \in types
      PROVE  Analyses!SelectByOption(t, option) \subseteq types
  BY <1>3 DEF Analyses!SelectByOption
<1>4. \A what : Analyses!SelectByPriority(what) \subseteq what
  BY DEF Analyses!SelectByPriority
<1> HIDE DEF types
<1>5. QED
  BY <1>1, <1>2, <1>3, <1>4 DEF Analyses!ChipDetections

\* A context of a request that is underway.
LEMMA Underway ==
    ASSUME AnalysesInv, NEW r \in Requests, Within(stage[r])
    PROVE  /\ ctx[r] \in Contexts /\ ctx[r].call \in Workload[r]
           /\ Fits(stage[r], ctx[r], visible, replica)
           /\ ctx[r].held # {} /\ visible \subseteq ctx[r].held /\ visible \subseteq Grants
           /\ ctx[r].detections \in SUBSET Kinds /\ ctx[r].payload \in Analyses!Payloads
           /\ ctx[r].call.perform => ctx[r].call.onDemand
           /\ ctx[r].call.endpoint = "chip" => ctx[r].call.onDemand
           /\ Analyses!Call(r) = ctx[r].call
<1>1. ctx[r] \in Contexts /\ ctx[r].call \in Workload[r] /\ Fits(stage[r], ctx[r], visible, replica)
      /\ visible \subseteq Grants
  BY DEF AnalysesInv, AnalysesTyped
<1>2. ctx[r].held # {} /\ visible \subseteq ctx[r].held
  BY <1>1 DEF Fits, HeldFits, Within
<1>3. ctx[r].detections \in SUBSET Kinds /\ ctx[r].payload \in Analyses!Payloads
  BY <1>1 DEF Contexts
<1>4. (ctx[r].call.endpoint = "chip" => ctx[r].call.onDemand)
      /\ (ctx[r].call.perform => ctx[r].call.onDemand)
  BY <1>1, WorkloadFacts
<1>5. Analyses!Call(r) = ctx[r].call
  BY DEF Analyses!Call
<1>6. QED
  BY <1>1, <1>2, <1>3, <1>4, <1>5

\* Detections are chosen; they are checked next unless nothing is to check.
LEMMA ConfigureStep ==
    ASSUME AnalysesInv, NEW r \in Requests, stage[r] \in {"view", "rules"},
           Analyses!Configure(r), Still
    PROVE  AnalysesInv' /\ PromiseStep(r)
<1> DEFINE chosen == IF Analyses!Call(r).endpoint = "chip"
                     THEN Analyses!ChipDetections(Analyses!Call(r).features, Analyses!Call(r).option)
                     ELSE Analyses!AlarmDetections(Analyses!Call(r).features)
           next == IF Analyses!Required(chosen) = {} THEN Analyses!AfterCapabilities(r)
                   ELSE "capabilities"
           c == [ctx[r] EXCEPT !.detections = chosen]
<1>1. Analyses!Refuse(r, 400) \/ Analyses!Await(r, next, c)
  BY DEF Analyses!Configure
<1>2. Within(stage[r]) /\ 400 \in Analyses!Codes \ {200}
  BY DEF Within, Analyses!Stages, Analyses!Codes
<1>3. CASE Analyses!Refuse(r, 400)
  BY <1>2, <1>3, RefuseStep DEF Still, PromiseStep
<1>4. CASE Analyses!Await(r, next, c)
  <2>1. chosen \in SUBSET Kinds
    BY AlarmTyped, ChipTyped
  <2> HIDE DEF chosen
  <2>2. /\ ctx[r] \in Contexts /\ Fits(stage[r], ctx[r], visible, replica)
        /\ ctx[r].held # {}
        /\ ctx[r].call.perform => ctx[r].call.onDemand
    BY <1>2, Underway
  <2>3. c \in Contexts
    BY <2>1, <2>2 DEF Contexts
  <2>4. /\ c.call = ctx[r].call /\ c.held = ctx[r].held /\ c.known = ctx[r].known
        /\ c.sent = ctx[r].sent /\ c.detections = chosen /\ c.granted = ctx[r].granted
        /\ c.shown = ctx[r].shown /\ c.payload = ctx[r].payload
    BY <2>2 DEF Contexts
  <2> HIDE DEF c
  <2>5. /\ next \in {"capabilities", "sceneCapability", "images"}
        /\ next \in {"sceneCapability", "images"} => Analyses!Required(chosen) = {}
        /\ next = "images" => ~ctx[r].call.perform
    BY <2>2 DEF Analyses!AfterCapabilities, Analyses!Call
  <2>6. Within(next)
    BY <2>5 DEF Within, Analyses!Stages
  <2> HIDE DEF next
  <2>7. ctx[r].sent = Analyses!NotSent /\ ctx[r].shown = {}
    BY <2>2 DEF Fits, SentFits
  <2>8. HeldFits(next, c, visible, replica)
    BY <1>2, <2>2, <2>4, <2>6, <2>7 DEF Fits, HeldFits, Within, Analyses!NotSent
  <2>9. CheckedFits(next, c)
    BY <2>2, <2>4, <2>5 DEF CheckedFits, Had
  <2>10. SentFits(next, c)
    BY <2>4, <2>5, <2>7 DEF SentFits
  <2>11. AnalysesInv' /\ UNCHANGED Promise!vars
    BY <1>2, <1>4, <2>3, <2>4, <2>6, <2>8, <2>9, <2>10, PassStep DEF Fits, Still
  <2>12. QED
    BY <2>11 DEF PromiseStep
<1>5. QED
  BY <1>1, <1>3, <1>4

LEMMA FindViewStep ==
    ASSUME AnalysesInv, NEW r \in Requests, Analyses!FindView(r), Still
    PROVE  AnalysesInv' /\ PromiseStep(r)
<1>1. stage[r] = "view" /\ Within(stage[r]) /\ Within("rules") /\ 400 \in Analyses!Codes \ {200}
  BY DEF Analyses!FindView, Within, Analyses!Stages, Analyses!Codes
<1>2. CASE Analyses!Refuse(r, 400)
  BY <1>1, <1>2, RefuseStep DEF Still, PromiseStep
<1>3. CASE Analyses!Configure(r)
  BY <1>1, <1>3, ConfigureStep
<1>4. CASE Analyses!Await(r, "rules", ctx[r])
  <2>1. ctx[r] \in Contexts /\ Fits(stage[r], ctx[r], visible, replica)
    BY <1>1, Underway
  <2>2. Fits("rules", ctx[r], visible, replica)
    BY <1>1, <2>1 DEF Fits, HeldFits, CheckedFits, SentFits
  <2>3. QED
    BY <1>1, <1>4, <2>1, <2>2, PassStep DEF Still, PromiseStep
<1>5. QED
  BY <1>2, <1>3, <1>4 DEF Analyses!FindView

LEMMA MissViewStep ==
    ASSUME AnalysesInv, NEW r \in Requests, Analyses!MissView(r), Still
    PROVE  AnalysesInv' /\ PromiseStep(r)
<1>1. Within(stage[r])
  BY DEF Analyses!MissView, Within, Analyses!Stages
<1>2. PICK code \in {404, 410} : Analyses!Refuse(r, code)
  BY DEF Analyses!MissView
<1>3. code \in Analyses!Codes \ {200}
  BY DEF Analyses!Codes
<1>4. QED
  BY <1>1, <1>2, <1>3, RefuseStep DEF Still, PromiseStep

\* What is granted is what the query found.
LEMMA CheckCapabilitiesStep ==
    ASSUME AnalysesInv, NEW r \in Requests, Analyses!CheckCapabilities(r), Still
    PROVE  AnalysesInv' /\ PromiseStep(r)
<1>1. stage[r] = "capabilities" /\ Within(stage[r]) /\ 403 \in Analyses!Codes \ {200}
  BY DEF Analyses!CheckCapabilities, Within, Analyses!Stages, Analyses!Codes
<1> DEFINE next == Analyses!AfterCapabilities(r)
           Granted(shown) == [ctx[r] EXCEPT !.granted = shown]
<1>2. PICK shown \in visible :
        \/ Analyses!Refuse(r, 403)
        \/ Analyses!Covered(r, shown) /\ Analyses!Await(r, next, Granted(shown))
  BY DEF Analyses!CheckCapabilities
<1> DEFINE c == Granted(shown)
<1>3. CASE Analyses!Refuse(r, 403)
  BY <1>1, <1>3, RefuseStep DEF Still, PromiseStep
<1>4. CASE Analyses!Covered(r, shown) /\ Analyses!Await(r, next, c)
  <2>1. /\ ctx[r] \in Contexts /\ Fits(stage[r], ctx[r], visible, replica)
        /\ shown \in ctx[r].held /\ shown \in Grants /\ ctx[r].held # {}
        /\ ctx[r].call.perform => ctx[r].call.onDemand
    BY <1>1, Underway
  <2>2. c \in Contexts
    BY <2>1 DEF Contexts
  <2>3. /\ c.call = ctx[r].call /\ c.held = ctx[r].held /\ c.known = ctx[r].known
        /\ c.sent = ctx[r].sent /\ c.detections = ctx[r].detections
        /\ c.granted = shown /\ c.shown = ctx[r].shown
    BY <2>1 DEF Contexts
  <2> HIDE DEF c
  <2>4. next \in {"sceneCapability", "images"} /\ (next = "images" => ~ctx[r].call.perform)
    BY <2>1 DEF Analyses!AfterCapabilities, Analyses!Call
  <2>5. Within(next)
    BY <2>4 DEF Within, Analyses!Stages
  <2> HIDE DEF next
  <2>6. ctx[r].shown = {}
    BY <1>1, <2>1 DEF Fits, HeldFits, SentFits
  <2>7. HeldFits(next, c, visible, replica)
    BY <1>1, <2>1, <2>3, <2>5, <2>6 DEF Fits, HeldFits, Within
  <2>8. CheckedFits(next, c)
    BY <1>4, <2>1, <2>3, <2>4 DEF CheckedFits, Had, Analyses!Covered
  <2>9. SentFits(next, c)
    BY <1>1, <2>1, <2>3, <2>4 DEF Fits, SentFits
  <2>10. AnalysesInv' /\ UNCHANGED Promise!vars
    BY <1>1, <1>4, <2>2, <2>3, <2>5, <2>7, <2>8, <2>9, PassStep DEF Fits, Still
  <2>11. QED
    BY <2>10 DEF PromiseStep
<1>5. QED
  BY <1>2, <1>3, <1>4

\* An answer of APS is asked for a scene change only when that has been checked.
LEMMA CheckSceneStep ==
    ASSUME AnalysesInv, NEW r \in Requests, Analyses!CheckSceneCapability(r), Still
    PROVE  AnalysesInv' /\ PromiseStep(r)
<1>1. stage[r] = "sceneCapability" /\ Within(stage[r]) /\ Within("images")
  BY DEF Analyses!CheckSceneCapability, Within, Analyses!Stages
<1> DEFINE Has(shown) == Analyses!Required({"tampering"}) \subseteq shown
           Scene(shown) == IF Has(shown) THEN ctx[r].payload ELSE "companyNotEligible"
<1>a. PICK shown \in visible :
        Analyses!Await(r, "images", [ctx[r] EXCEPT !.payload = Scene(shown)])
  BY DEF Analyses!CheckSceneCapability
<1> DEFINE has == Has(shown)
           scene == Scene(shown)
           c == [ctx[r] EXCEPT !.payload = scene]
<1>b. Analyses!Await(r, "images", c)
  BY <1>a
<1>2. /\ ctx[r] \in Contexts /\ Fits(stage[r], ctx[r], visible, replica)
      /\ shown \in ctx[r].held /\ ctx[r].payload \in Analyses!Payloads
  BY <1>1, Underway
<1>3. scene \in Analyses!Payloads /\ (scene # "companyNotEligible" => has)
  BY <1>2 DEF Analyses!Payloads
<1>4. has => Had(ctx[r], Analyses!Required({"tampering"}))
  BY <1>2 DEF Had
<1> HIDE DEF has, scene
<1>5. c \in Contexts
  BY <1>2, <1>3 DEF Contexts
<1>6. /\ c.call = ctx[r].call /\ c.held = ctx[r].held /\ c.known = ctx[r].known
      /\ c.sent = ctx[r].sent /\ c.detections = ctx[r].detections
      /\ c.granted = ctx[r].granted /\ c.shown = ctx[r].shown /\ c.payload = scene
  BY <1>2 DEF Contexts
<1> HIDE DEF c
<1>7. HeldFits("images", c, visible, replica)
  BY <1>1, <1>2, <1>6 DEF Fits, HeldFits
<1>8. CheckedFits("images", c)
  BY <1>1, <1>2, <1>3, <1>4, <1>6 DEF Fits, CheckedFits, Had
<1>9. SentFits("images", c)
  BY <1>1, <1>2, <1>6 DEF Fits, SentFits
<1>10. AnalysesInv' /\ UNCHANGED Promise!vars
  BY <1>b, <1>1, <1>5, <1>6, <1>7, <1>8, <1>9, PassStep DEF Fits, Still
<1>11. QED
  BY <1>10 DEF PromiseStep

\* A check on demand is asked for only of a company that is not found wanting.
LEMMA ParseImagesStep ==
    ASSUME AnalysesInv, NEW r \in Requests, Analyses!ParseImages(r), Still
    PROVE  AnalysesInv' /\ PromiseStep(r)
<1>1. stage[r] = "images" /\ Within(stage[r]) /\ Within("tampering")
      /\ 400 \in Analyses!Codes \ {200}
  BY DEF Analyses!ParseImages, Within, Analyses!Stages, Analyses!Codes
<1>2. /\ ctx[r] \in Contexts /\ Fits(stage[r], ctx[r], visible, replica)
      /\ ctx[r].payload \in Analyses!Payloads /\ Analyses!Call(r) = ctx[r].call
      /\ ctx[r].call.perform => ctx[r].call.onDemand
      /\ ctx[r].call.endpoint = "chip" => ctx[r].call.onDemand
  BY <1>1, Underway
<1>3. Had(ctx[r], Analyses!Required(ctx[r].detections))
  BY <1>1, <1>2 DEF Fits, CheckedFits
<1>4. CASE Analyses!Refuse(r, 400)
  BY <1>1, <1>4, RefuseStep DEF Still, PromiseStep
<1>5. CASE ctx[r].call.endpoint = "chip" /\ Analyses!Send(r, "none")
  <2>1. "none" \in Analyses!Payloads /\ events' \in {events, events \cup {<<r, "failed">>}}
    BY DEF Analyses!Payloads, Still
  <2>2. AnalysesInv' /\ Promise!Ask(r)
    BY <1>1, <1>2, <1>3, <1>5, <2>1, SendStep DEF Still
  <2>3. QED
    BY <2>2 DEF PromiseStep
<1>6. CASE ctx[r].call.onDemand /\ Analyses!Send(r, Analyses!OnDemand(r))
  <2> DEFINE scene == Analyses!OnDemand(r)
  <2>1. /\ scene \in Analyses!Payloads /\ scene # "none"
        /\ scene = "noChecks" => ctx[r].call.perform /\ ctx[r].payload # "companyNotEligible"
    BY <1>2 DEF Analyses!OnDemand, Analyses!OnDemandPayload, Analyses!Payloads
  <2>2. scene = "noChecks" => Had(ctx[r], Analyses!Required({"tampering"}))
    BY <1>1, <1>2, <2>1 DEF Fits, CheckedFits
  <2>3. Analyses!Send(r, scene) /\ events' \in {events, events \cup {<<r, "failed">>}}
    BY <1>6 DEF Still
  <2> HIDE DEF scene
  <2>4. AnalysesInv' /\ Promise!Ask(r)
    BY <1>1, <1>3, <1>6, <2>1, <2>2, <2>3, SendStep DEF Still
  <2>5. QED
    BY <2>4 DEF PromiseStep
<1>7. CASE ~ctx[r].call.onDemand /\ Analyses!Await(r, "tampering", ctx[r])
  <2>1. Fits("tampering", ctx[r], visible, replica)
    BY <1>1, <1>2, <1>7 DEF Fits, HeldFits, CheckedFits, SentFits
  <2>2. AnalysesInv' /\ UNCHANGED Promise!vars
    BY <1>1, <1>2, <1>7, <2>1, PassStep DEF Still
  <2>3. QED
    BY <2>2 DEF PromiseStep
<1>8. \/ Analyses!Refuse(r, 400)
      \/ ctx[r].call.endpoint = "chip" /\ Analyses!Send(r, "none")
      \/ ctx[r].call.onDemand /\ Analyses!Send(r, Analyses!OnDemand(r))
      \/ ~ctx[r].call.onDemand /\ Analyses!Await(r, "tampering", ctx[r])
  BY <1>2 DEF Analyses!ParseImages
<1>9. QED
  BY <1>4, <1>5, <1>6, <1>7, <1>8

\* A comparison that Services API decides on is asked for when the replica shows
\* none in the period, hence none that was known when the request came.
LEMMA CheckTamperingStep ==
    ASSUME AnalysesInv, NEW r \in Requests, Analyses!CheckTampering(r), Still
    PROVE  AnalysesInv' /\ PromiseStep(r)
<1>1. stage[r] = "tampering" /\ Within(stage[r]) /\ Within("reference")
  BY DEF Analyses!CheckTampering, Within, Analyses!Stages
<1>2. ctx[r] \in Contexts /\ Fits(stage[r], ctx[r], visible, replica)
  BY <1>1, Underway
<1>3. Had(ctx[r], Analyses!Required(ctx[r].detections)) /\ ~ctx[r].call.onDemand
  BY <1>1, <1>2 DEF Fits, CheckedFits
<1>4. ASSUME NEW scene \in {"skipPeriod", "noChecks", "notEligible"}, Analyses!Send(r, scene),
             scene = "noChecks" => Analyses!Completed(replica) = {}
      PROVE  AnalysesInv' /\ PromiseStep(r)
  <2>1. scene \in Analyses!Payloads /\ scene # "none"
        /\ events' \in {events, events \cup {<<r, "failed">>}}
    BY DEF Analyses!Payloads, Still
  <2>2. AnalysesInv' /\ Promise!Ask(r)
    BY <1>1, <1>3, <1>4, <2>1, SendStep DEF Still
  <2>3. QED
    BY <2>2 DEF PromiseStep
<1>5. CASE Analyses!Await(r, "reference", ctx[r])
  <2>1. Fits("reference", ctx[r], visible, replica)
    BY <1>1, <1>2 DEF Fits, HeldFits, CheckedFits, SentFits
  <2>2. AnalysesInv' /\ UNCHANGED Promise!vars
    BY <1>1, <1>2, <1>5, <2>1, PassStep DEF Still
  <2>3. QED
    BY <2>2 DEF PromiseStep
<1>6. \/ Analyses!Await(r, "reference", ctx[r])
      \/ Analyses!Send(r, "notEligible")
      \/ Analyses!Send(r, IF Analyses!AlreadyDone THEN "skipPeriod" ELSE "noChecks")
  BY DEF Analyses!CheckTampering
<1>7. CASE Analyses!Send(r, IF Analyses!AlreadyDone THEN "skipPeriod" ELSE "noChecks")
  <2>1. CASE Analyses!AlreadyDone
    BY <1>4, <1>7, <2>1
  <2>2. CASE ~Analyses!AlreadyDone
    BY <1>4, <1>7, <2>2 DEF Analyses!AlreadyDone
  <2>3. QED
    BY <2>1, <2>2
<1>8. QED
  BY <1>4, <1>5, <1>6, <1>7

LEMMA RegisterFirstStep ==
    ASSUME AnalysesInv, NEW r \in Requests, Analyses!RegisterFirst(r),
           UNCHANGED <<capabilities, visible, changes, replica, killers>>
    PROVE  AnalysesInv' /\ PromiseStep(r)
<1>1. stage[r] = "reference" /\ Within(stage[r]) /\ Analyses!Send(r, "skipReferenceImage")
      /\ events' \in {events, events \cup {<<r, "failed">>}}
  BY DEF Analyses!RegisterFirst, Within, Analyses!Stages
<1>2. Fits(stage[r], ctx[r], visible, replica)
  BY <1>1, Underway
<1>3. Had(ctx[r], Analyses!Required(ctx[r].detections)) /\ ~ctx[r].call.onDemand
  BY <1>1, <1>2 DEF Fits, CheckedFits
<1>4. "skipReferenceImage" \in Analyses!Payloads
  BY DEF Analyses!Payloads
<1>5. AnalysesInv' /\ Promise!Ask(r)
  BY <1>1, <1>3, <1>4, SendStep
<1>6. QED
  BY <1>5 DEF PromiseStep

LEMMA FailAwaitStep ==
    ASSUME AnalysesInv, NEW r \in Requests, Analyses!FailAwait(r), Still
    PROVE  AnalysesInv' /\ PromiseStep(r)
<1>1. Within(stage[r]) /\ Analyses!Refuse(r, 500) /\ 500 \in Analyses!Codes \ {200}
  BY DEF Analyses!FailAwait, Within, Analyses!Stages, Analyses!Codes
<1>2. QED
  BY <1>1, RefuseStep DEF Still, PromiseStep

\* A response shows what was granted, and a comparison is registered before it.
LEMMA ApsAnswersStep ==
    ASSUME AnalysesInv, NEW r \in Requests, Analyses!ApsAnswers(r), Still
    PROVE  AnalysesInv' /\ PromiseStep(r)
<1>1. stage[r] = "aps" /\ Within(stage[r]) /\ Within("register")
  BY DEF Analyses!ApsAnswers, Within, Analyses!Stages
<1>2. ctx[r] \in Contexts /\ Fits(stage[r], ctx[r], visible, replica)
      /\ Analyses!Call(r) = ctx[r].call
  BY <1>1, Underway
<1>3. PICK answer \in {a \in Analyses!Answers(r) : ~Analyses!Throws(r, a)} :
        \/ Analyses!Finish(r, Analyses!Embeddings(answer, ctx[r].granted))
        \/ /\ Analyses!Registers(r)
           /\ Analyses!Await(r, "register",
                [ctx[r] EXCEPT !.shown = Analyses!Embeddings(answer, ctx[r].granted)])
  BY DEF Analyses!ApsAnswers
<1> DEFINE show == Analyses!Embeddings(answer, ctx[r].granted)
           c == [ctx[r] EXCEPT !.shown = show]
<1>4. show \in SUBSET {"person_embeddings", "vehicle_embeddings"} /\ show \subseteq ctx[r].granted
  BY DEF Analyses!Embeddings
<1>5. \/ Analyses!Finish(r, show)
      \/ Analyses!Registers(r) /\ Analyses!Await(r, "register", c)
  BY <1>3
<1> HIDE DEF show
<1>6. CASE Analyses!Finish(r, show)
  BY <1>1, <1>4, <1>6, FinishStep DEF Still, PromiseStep
<1>7. CASE Analyses!Registers(r) /\ Analyses!Await(r, "register", c)
  <2>1. c \in Contexts
    BY <1>2, <1>4 DEF Contexts
  <2>2. /\ c.call = ctx[r].call /\ c.held = ctx[r].held /\ c.known = ctx[r].known
        /\ c.sent = ctx[r].sent /\ c.detections = ctx[r].detections
        /\ c.granted = ctx[r].granted /\ c.shown = show
    BY <1>2 DEF Contexts
  <2> HIDE DEF c
  <2>3. HeldFits("register", c, visible, replica)
    BY <1>1, <1>2, <1>4, <2>2 DEF Fits, HeldFits
  <2>4. CheckedFits("register", c)
    BY DEF CheckedFits
  <2>5. SentFits("register", c)
    BY <1>1, <1>2, <1>7, <2>2 DEF Fits, SentFits, Analyses!Registers
  <2>6. AnalysesInv' /\ UNCHANGED Promise!vars
    BY <1>1, <1>7, <2>1, <2>2, <2>3, <2>4, <2>5, PassStep DEF Fits, Still
  <2>7. QED
    BY <2>6 DEF PromiseStep
<1>8. QED
  BY <1>5, <1>6, <1>7

LEMMA ApsRefusesStep ==
    ASSUME AnalysesInv, NEW r \in Requests, Analyses!CannotShape(r) \/ Analyses!ApsFails(r), Still
    PROVE  AnalysesInv' /\ PromiseStep(r)
<1>1. Within(stage[r])
  BY DEF Analyses!CannotShape, Analyses!ApsFails, Within, Analyses!Stages
<1>2. PICK code \in {400, 500} : Analyses!Refuse(r, code)
  BY DEF Analyses!CannotShape, Analyses!ApsFails
<1>3. code \in Analyses!Codes \ {200}
  BY DEF Analyses!Codes
<1>4. QED
  BY <1>1, <1>2, <1>3, RefuseStep DEF Still, PromiseStep

LEMMA RegisterStep ==
    ASSUME AnalysesInv, NEW r \in Requests, Analyses!RegisterTampering(r),
           UNCHANGED <<capabilities, visible, changes, replica, killers>>
    PROVE  AnalysesInv' /\ PromiseStep(r)
<1>1. /\ stage[r] = "register" /\ Analyses!Finish(r, ctx[r].shown)
      /\ events' = events \/ events' = events \cup {<<r, "completed">>}
  BY DEF Analyses!RegisterTampering
<1>2. Within(stage[r])
  BY <1>1 DEF Within, Analyses!Stages
<1>3. ctx[r] \in Contexts /\ Fits(stage[r], ctx[r], visible, replica)
  BY <1>2, Underway
<1>4. ctx[r].shown \in SUBSET {"person_embeddings", "vehicle_embeddings"}
      /\ ctx[r].shown \subseteq ctx[r].granted
  BY <1>3 DEF Contexts, Fits, HeldFits
<1>5. AnalysesInv' /\ Promise!Answer(r)
  BY <1>1, <1>4, FinishStep
<1>6. QED
  BY <1>5 DEF PromiseStep

LEMMA RequestStepKept ==
    ASSUME AnalysesInv, NEW r \in Requests, RequestStep(r)
    PROVE  AnalysesInv' /\ PromiseStep(r)
<1>1. killers' = killers
  BY DEF RequestStep, ServeRequest, FailRequest
<1>2. CASE ServeRequest(r)
  <2>1. \/ Analyses!FindView(r) /\ Still
        \/ Analyses!MissView(r) /\ Still
        \/ Analyses!FindRules(r) /\ Still /\ Analyses!Configure(r) /\ stage[r] = "rules"
        \/ Analyses!CheckCapabilities(r) /\ Still
        \/ Analyses!CheckSceneCapability(r) /\ Still
        \/ Analyses!RegisterFirst(r) /\ UNCHANGED <<capabilities, visible, changes, replica, killers>>
        \/ Analyses!CheckTampering(r) /\ Still
        \/ Analyses!ParseImages(r) /\ Still
        \/ Analyses!ApsAnswers(r) /\ Still
        \/ (Analyses!CannotShape(r) \/ Analyses!ApsFails(r)) /\ Still
        \/ Analyses!RegisterTampering(r) /\ UNCHANGED <<capabilities, visible, changes, replica, killers>>
    <3>1. Analyses!Proceed(r)
      BY <1>2 DEF ServeRequest
    <3>2. CASE Analyses!Query(r)
      BY <1>1, <3>2 DEF Analyses!Query, Still, Analyses!company, Analyses!tampering,
           Analyses!FindView, Analyses!MissView, Analyses!FindRules, Analyses!CheckCapabilities,
           Analyses!CheckSceneCapability, Analyses!RegisterFirst
    <3>3. CASE Analyses!CheckTampering(r) \/ Analyses!ParseImages(r)
      BY <1>1, <3>3 DEF Still, Analyses!company, Analyses!tampering, Analyses!CheckTampering,
           Analyses!ParseImages
    <3>4. CASE Analyses!ApsAnswers(r) \/ Analyses!CannotShape(r) \/ Analyses!ApsFails(r)
      BY <1>1, <3>4 DEF Still, Analyses!company, Analyses!tampering, Analyses!ApsAnswers,
           Analyses!CannotShape, Analyses!ApsFails
    <3>5. CASE Analyses!RegisterTampering(r)
      BY <1>1, <3>5 DEF Analyses!company, Analyses!RegisterTampering
    <3>6. QED
      BY <3>1, <3>2, <3>3, <3>4, <3>5 DEF Analyses!Proceed
  <2>2. QED
    BY <2>1, FindViewStep, MissViewStep, ConfigureStep, CheckCapabilitiesStep, CheckSceneStep,
       RegisterFirstStep, CheckTamperingStep, ParseImagesStep, ApsAnswersStep, ApsRefusesStep,
       RegisterStep
<1>3. CASE FailRequest(r)
  <2>1. Analyses!FailAwait(r)
    BY <1>3 DEF FailRequest
  <2>2. Still
    BY <1>1, <2>1 DEF Analyses!FailAwait, Still, Analyses!company, Analyses!tampering
  <2>3. QED
    BY <2>1, <2>2, FailAwaitStep
<1>4. QED
  BY <1>2, <1>3 DEF RequestStep

-----------------------------------------------------------------------------
(***************************************************************************)
(* The other steps.                                                        *)
(***************************************************************************)
\* A request comes with whatever capabilities, and checks, the replica shows.
LEMMA ReceiveKept ==
    ASSUME AnalysesInv, NEW r \in Requests, Receive(r)
    PROVE  AnalysesInv' /\ Promise!Accept(r)
<1>1. PICK w \in Workload[r] : ctx' = [ctx EXCEPT ![r] = Analyses!NewContext(w)]
  BY DEF Receive, Analyses!Arrive
<1>2. /\ stage[r] = "idle" /\ stage' = [stage EXCEPT ![r] = "view"]
      /\ UNCHANGED <<capabilities, visible, changes, events, replica, reply, tasks, raised, killers>>
  BY DEF Receive, Analyses!Arrive, Analyses!company, Analyses!tampering
<1> DEFINE c == Analyses!NewContext(w)
<1>3. c = [call |-> w, detections |-> {}, payload |-> "none", granted |-> {},
           sent |-> Analyses!NotSent, shown |-> {}, held |-> visible, known |-> replica]
  BY DEF Analyses!NewContext, Analyses!Context
<1>4. Analyses!NotSent \in [detections : SUBSET Kinds, payload : Analyses!Payloads, asked : BOOLEAN]
      /\ Analyses!NotSent.detections = {} /\ "none" \in Analyses!Payloads
  BY DEF Analyses!NotSent, Analyses!Payloads
<1>5. w \in Analyses!Calls /\ replica \subseteq Events
      /\ visible \subseteq Grants /\ visible # {}
      /\ "view" \in Analyses!Stages
  BY WorkloadFacts DEF AnalysesInv, AnalysesTyped, Analyses!Stages
<1> HIDE DEF c
<1>6. c \in Contexts
  BY <1>3, <1>4, <1>5 DEF Contexts
<1>7. /\ c.call = w /\ c.sent = Analyses!NotSent /\ c.shown = {} /\ c.granted = {}
      /\ c.detections = {} /\ c.held = visible /\ c.known = replica
  BY <1>3
<1>8. Fits("view", c, visible, replica)
  BY <1>4, <1>5, <1>7 DEF Fits, HeldFits, CheckedFits, SentFits
<1>9. ctx' = [ctx EXCEPT ![r] = c]
  BY <1>1 DEF c
<1>10. AnalysesTyped'
  BY <1>2, <1>5, <1>6, <1>9 DEF AnalysesInv, AnalysesTyped
<1>11. ASSUME NEW q \in Requests
       PROVE  /\ ctx'[q].call \in Workload[q]
              /\ Fits(stage'[q], ctx'[q], visible', replica')
              /\ stage'[q] # "answered" => reply'[q] = Analyses!NoReply
  <2>1. CASE q = r
    BY <1>2, <1>7, <1>8, <1>9, <2>1 DEF AnalysesInv, AnalysesTyped
  <2>2. CASE q # r
    BY <1>2, <1>9, <2>2 DEF AnalysesInv, AnalysesTyped
  <2>3. QED
    BY <2>1, <2>2
<1>12. ASSUME NEW q \in Requests
       PROVE  /\ ctx'[q].held = IF q = r THEN visible ELSE ctx[q].held
              /\ ctx'[q].known = IF q = r THEN replica ELSE ctx[q].known
              /\ ctx'[q].sent = ctx[q].sent
  <2>1. CASE q = r
    BY <1>2, <1>7, <1>9, <2>1 DEF AnalysesInv, AnalysesTyped, Fits, SentFits
  <2>2. CASE q # r
    BY <1>9, <2>2 DEF AnalysesInv, AnalysesTyped
  <2>3. QED
    BY <2>1, <2>2
<1> DEFINE Held == [q \in Requests |-> ctx[q].held]
           Known == [q \in Requests |-> ctx[q].known]
           Sent == [q \in Requests |-> ctx[q].sent]
<1>13. Held' = [Held EXCEPT ![r] = visible]
  <2>1. Held' = [q \in Requests |-> IF q = r THEN visible ELSE ctx[q].held]
    BY <1>12
  <2>2. QED
    BY <2>1
<1>14. Known' = [Known EXCEPT ![r] = replica]
  <2>1. Known' = [q \in Requests |-> IF q = r THEN replica ELSE ctx[q].known]
    BY <1>12
  <2>2. QED
    BY <2>1
<1>15. Sent' = Sent
  BY <1>12
<1>16. Held[r] = {} /\ reply[r] = Analyses!NoReply /\ replica \in SUBSET events
  BY <1>2 DEF AnalysesInv, AnalysesTyped, Fits, HeldFits
<1>17. Promise!Accept(r)
  BY <1>2, <1>13, <1>14, <1>15, <1>16 DEF Promise!Accept
<1>18. QED
  BY <1>10, <1>11, <1>17 DEF AnalysesInv

\* What the company gets can be found, and by the requests that are underway.
LEMMA ChangeKept ==
    ASSUME AnalysesInv, Analyses!ChangeCapabilities, killers' = killers
    PROVE  AnalysesInv' /\ Promise!Change
<1> DEFINE Grown(q) == [ctx[q] EXCEPT !.held = @ \cup {capabilities'}]
<1>1. /\ capabilities' \in Grants /\ visible' = visible \cup {capabilities'}
      /\ changes' = changes + 1 /\ changes < MaxChanges
      /\ ctx' = [q \in Requests |-> IF q \in Analyses!Underway THEN Grown(q) ELSE ctx[q]]
      /\ UNCHANGED <<events, replica, stage, reply, tasks, raised>>
  BY DEF Analyses!ChangeCapabilities, Analyses!tampering
<1>2. \A q \in Requests : q \in Analyses!Underway <=> stage[q] \notin {"idle", "answered"}
  BY DEF Analyses!Underway
<1>3. ASSUME NEW q \in Requests
      PROVE  /\ Grown(q) \in Contexts /\ Grown(q).call = ctx[q].call
             /\ Grown(q).held = ctx[q].held \cup {capabilities'}
             /\ Grown(q).known = ctx[q].known /\ Grown(q).sent = ctx[q].sent
             /\ Grown(q).detections = ctx[q].detections /\ Grown(q).shown = ctx[q].shown
             /\ Grown(q).granted = ctx[q].granted /\ Grown(q).payload = ctx[q].payload
  <2>1. ctx[q] \in Contexts
    BY DEF AnalysesInv, AnalysesTyped
  <2>2. QED
    BY <1>1, <2>1 DEF Contexts
<1> HIDE DEF Grown
<1>4. MaxChanges \in Nat
  BY WorkloadAssumption
<1>5. AnalysesTyped'
  <2>1. ctx' \in [Requests -> Contexts]
    BY <1>1, <1>3 DEF AnalysesInv, AnalysesTyped
  <2>2. changes' \in 0 .. MaxChanges
    BY <1>1, <1>4 DEF AnalysesInv, AnalysesTyped
  <2>3. killers' \subseteq Crashing
    BY DEF AnalysesInv, AnalysesTyped
  <2>4. QED
    BY <1>1, <2>1, <2>2, <2>3 DEF AnalysesInv, AnalysesTyped
<1>6. ASSUME NEW q \in Requests
      PROVE  /\ ctx'[q].call \in Workload[q]
             /\ Fits(stage'[q], ctx'[q], visible', replica')
             /\ stage'[q] # "answered" => reply'[q] = Analyses!NoReply
  <2>1. /\ ctx[q].call \in Workload[q] /\ Fits(stage[q], ctx[q], visible, replica)
        /\ stage[q] # "answered" => reply[q] = Analyses!NoReply
    BY DEF AnalysesInv
  <2>2. CASE q \in Analyses!Underway
    <3>1. ctx'[q] = Grown(q) /\ stage[q] \notin {"idle", "answered"}
      BY <1>1, <1>2, <2>2
    <3>2. HeldFits(stage[q], Grown(q), visible', replica)
      BY <1>1, <1>3, <2>1, <3>1 DEF Fits, HeldFits
    <3>3. \A what : Had(ctx[q], what) => Had(Grown(q), what)
      BY <1>3 DEF Had
    <3>4. CheckedFits(stage[q], Grown(q))
      BY <1>3, <2>1, <3>3 DEF Fits, CheckedFits
    <3>5. SentFits(stage[q], Grown(q))
      BY <1>3, <2>1 DEF Fits, SentFits
    <3>6. QED
      BY <1>1, <1>3, <2>1, <3>1, <3>2, <3>4, <3>5 DEF Fits
  <2>3. CASE q \notin Analyses!Underway
    <3>1. ctx'[q] = ctx[q] /\ stage[q] \in {"idle", "answered"}
      BY <1>1, <1>2, <2>3
    <3>2. Fits(stage[q], ctx[q], visible', replica)
      BY <2>1, <3>1 DEF Fits, HeldFits
    <3>3. QED
      BY <1>1, <2>1, <3>1, <3>2
  <2>4. QED
    BY <2>2, <2>3
<1>7. ASSUME NEW q \in Requests
      PROVE  /\ ctx'[q].held = IF ctx[q].held = {} THEN {} ELSE ctx[q].held \cup {capabilities'}
             /\ ctx'[q].known = ctx[q].known /\ ctx'[q].sent = ctx[q].sent
  <2>1. ctx[q].held = {} <=> q \notin Analyses!Underway
    BY <1>2 DEF AnalysesInv, Fits, HeldFits
  <2>2. CASE q \in Analyses!Underway
    BY <1>1, <1>3, <2>1, <2>2
  <2>3. CASE q \notin Analyses!Underway
    BY <1>1, <2>1, <2>3
  <2>4. QED
    BY <2>2, <2>3
<1>8. Promise!Change
  BY <1>1, <1>7 DEF Promise!Change
<1>9. QED
  BY <1>5, <1>6, <1>8 DEF AnalysesInv

\* Former capabilities can be found no longer.
LEMMA CatchUpKept ==
    ASSUME AnalysesInv, Analyses!ReplicateCapabilities, killers' = killers
    PROVE  AnalysesInv' /\ Promise!CatchUp
<1>1. /\ visible' \subseteq visible /\ capabilities \in visible'
      /\ UNCHANGED <<capabilities, changes, events, replica, stage, ctx, reply, tasks, raised,
                     killers>>
  BY DEF Analyses!ReplicateCapabilities, Analyses!tampering
<1>2. AnalysesTyped'
  BY <1>1 DEF AnalysesInv, AnalysesTyped
<1>3. ASSUME NEW q \in Requests
      PROVE  Fits(stage'[q], ctx'[q], visible', replica')
  BY <1>1 DEF AnalysesInv, Fits, HeldFits
<1>4. Promise!CatchUp
  BY <1>1 DEF Promise!CatchUp
<1>5. QED
  BY <1>1, <1>2, <1>3, <1>4 DEF AnalysesInv

\* The replica catches up, work behind an answer ends, a rejection is handled.
LEMMA OthersKept ==
    ASSUME AnalysesInv,
           \/ Analyses!Replicate /\ killers' = killers
           \/ \E r \in Requests : EndWork(r)
           \/ Uncaught
           \/ UNCHANGED <<analyses, killers>>
    PROVE  AnalysesInv' /\ Promise!EndProcess
<1>1. /\ UNCHANGED <<capabilities, visible, changes, events, stage, ctx, reply>>
      /\ replica \subseteq replica' /\ replica' \subseteq events
      /\ tasks' \in [Requests -> SUBSET {"snapshot", "store"}]
      /\ raised' \subseteq Crashing /\ killers' \subseteq Crashing
  <2>1. CASE Analyses!Replicate /\ killers' = killers
    BY <2>1 DEF Analyses!Replicate, Analyses!company, AnalysesInv, AnalysesTyped
  <2>2. CASE \E r \in Requests : EndWork(r)
    BY <2>2 DEF EndWork, Analyses!EndTask, Analyses!company, Analyses!tampering, AnalysesInv,
                AnalysesTyped
  <2>3. CASE Uncaught
    BY <2>3 DEF Uncaught, Analyses!Raise, Analyses!company, Analyses!tampering, AnalysesInv,
                AnalysesTyped
  <2>4. CASE UNCHANGED <<analyses, killers>>
    BY <2>4 DEF analyses, AnalysesInv, AnalysesTyped
  <2>5. QED
    BY <2>1, <2>2, <2>3, <2>4
<1>2. AnalysesTyped'
  BY <1>1 DEF AnalysesInv, AnalysesTyped
<1>3. ASSUME NEW q \in Requests
      PROVE  Fits(stage'[q], ctx'[q], visible', replica')
  BY <1>1 DEF AnalysesInv, Fits, HeldFits
<1>4. AnalysesInv'
  BY <1>1, <1>2, <1>3 DEF AnalysesInv
<1>5. Promise!EndProcess
  <2>1. \A q \in Requests : /\ ctx'[q].held = ctx[q].held /\ ctx'[q].known = ctx[q].known
                           /\ ctx'[q].sent = ctx[q].sent
    BY <1>1
  <2>2. \A w \in killers' \ killers : w.snapshot /\ w.urls
    BY <1>1 DEF Crashing
  <2>3. QED
    BY <1>1, <2>1, <2>2 DEF Promise!EndProcess
<1>6. QED
  BY <1>4, <1>5

LEMMA ApiNextKept ==
    ASSUME AnalysesInv, [ApiNext]_allVars
    PROVE  AnalysesInv' /\ [Promise!Next]_(Promise!vars)
<1>1. CASE UNCHANGED allVars \/ ProcessStep
  <2>1. UNCHANGED <<analyses, killers>>
    BY <1>1 DEF allVars, ProcessStep, Unaffected
  <2>2. QED
    BY <2>1, OthersKept DEF Promise!Next
<1>2. CASE Environment
  <2>1. CASE Analyses!ChangeCapabilities
    BY <1>2, <2>1, ChangeKept DEF Environment, Promise!Next
  <2>2. CASE Analyses!ReplicateCapabilities
    BY <1>2, <2>2, CatchUpKept DEF Environment, Promise!Next
  <2>3. CASE Analyses!Replicate
    BY <1>2, <2>3, OthersKept DEF Environment, Promise!Next
  <2>4. QED
    BY <1>2, <2>1, <2>2, <2>3 DEF Environment
<1>3. CASE Uncaught
  BY <1>3, OthersKept DEF Promise!Next
<1>4. ASSUME NEW r \in Requests, Receive(r)
      PROVE  AnalysesInv' /\ [Promise!Next]_(Promise!vars)
  BY <1>4, ReceiveKept DEF Promise!Next
<1>5. ASSUME NEW r \in Requests, RequestStep(r)
      PROVE  AnalysesInv' /\ [Promise!Next]_(Promise!vars)
  BY <1>5, RequestStepKept DEF Promise!Next, PromiseStep
<1>6. ASSUME NEW r \in Requests, EndWork(r)
      PROVE  AnalysesInv' /\ [Promise!Next]_(Promise!vars)
  BY <1>6, OthersKept DEF Promise!Next
<1>7. QED
  BY <1>1, <1>2, <1>3, <1>4, <1>5, <1>6 DEF ApiNext

LEMMA ApiInitKept ==
    ASSUME ApiInit
    PROVE  AnalysesInv /\ Promise!Init
<1>1. /\ capabilities \in Grants /\ visible = {capabilities} /\ changes = 0 /\ events = {} /\ replica = {}
      /\ stage = [r \in Requests |-> "idle"] /\ ctx = [r \in Requests |-> Analyses!NoContext(r)]
      /\ reply = [r \in Requests |-> Analyses!NoReply] /\ tasks = [r \in Requests |-> {}]
      /\ raised = {} /\ killers = {}
  BY DEF ApiInit, Analyses!Init
<1>2. \A r \in Requests : /\ Analyses!NoContext(r) \in Contexts
                         /\ Analyses!NoContext(r).call \in Workload[r]
                         /\ Analyses!NoContext(r).held = {} /\ Analyses!NoContext(r).known = {}
                         /\ Analyses!NoContext(r).sent = Analyses!NotSent
                         /\ Fits("idle", Analyses!NoContext(r), visible, replica)
  BY NoContextFacts
<1>3. Analyses!NoReply \in Replies /\ "idle" \in Analyses!Stages /\ MaxChanges \in Nat
  BY WorkloadAssumption DEF Analyses!NoReply, Replies, Analyses!Codes, Analyses!Stages
<1>4. AnalysesTyped
  BY <1>1, <1>2, <1>3 DEF AnalysesTyped
<1>5. AnalysesInv
  BY <1>1, <1>2, <1>4 DEF AnalysesInv
<1>6. Promise!Init
  BY <1>1, <1>2 DEF Promise!Init
<1>7. QED
  BY <1>5, <1>6

LEMMA AnalysesAlways == ApiSpec => []AnalysesInv
<1>1. ApiInit => AnalysesInv
  BY ApiInitKept
<1>2. AnalysesInv /\ [ApiNext]_allVars => AnalysesInv'
  BY ApiNextKept
<1>3. QED
  BY <1>1, <1>2, PTL DEF ApiSpec

-----------------------------------------------------------------------------
(***************************************************************************)
(* The theorems.                                                           *)
(***************************************************************************)
\* The variables of the process and of its requests keep their types.
THEOREM ApiTypeCorrect == ApiSpec => []ApiTypeOK
<1>1. ASSUME IInv, AnalysesInv
      PROVE  ApiTypeOK
  <2>1. TypeOK
    BY <1>1 DEF IInv
  <2>2. ASSUME NEW r \in Requests
        PROVE  /\ ctx[r].call \in Workload[r]
               /\ ctx[r].detections \subseteq DOMAIN Analyses!Capability \cup {"gun"}
               /\ ctx[r].payload \in Analyses!Payloads
               /\ ctx[r].granted \in Grants \cup {{}}
               /\ ctx[r].sent.detections \subseteq ctx[r].detections
               /\ ctx[r].shown \subseteq ctx[r].granted
               /\ ctx[r].held \subseteq Grants
               /\ ctx[r].known \subseteq events
               /\ reply[r].code \in Analyses!Codes \cup {0}
    <3>1. ctx[r] \in Contexts /\ reply[r] \in Replies /\ replica \subseteq events
      BY <1>1 DEF AnalysesInv, AnalysesTyped
    <3>2. ctx[r].call \in Workload[r] /\ HeldFits(stage[r], ctx[r], visible, replica)
      BY <1>1 DEF AnalysesInv, Fits
    <3>3. QED
      BY <3>1, <3>2 DEF Contexts, Replies, HeldFits, Kinds
  <2>3. raised \subseteq UNION {Workload[r] : r \in Requests}
    BY <1>1 DEF AnalysesInv, AnalysesTyped, Crashing
  <2>4. Analyses!TypeOK
    BY <1>1, <2>2, <2>3 DEF AnalysesInv, AnalysesTyped, Analyses!TypeOK, Events
  <2>5. QED
    BY <2>1, <2>4 DEF ApiTypeOK
<1>2. QED
  BY <1>1, ProcessInv, AnalysesAlways, PTL

\* The chain of middleware, its awaits and the changes between them keep the
\* promise: APS is asked for what the company had since the request came, or a
\* lagging replica still showed then, the client is answered once and shown no
\* more than that, and no comparison is registered that was known before.
THEOREM AnalysesImplementPromise == ApiSpec => PromiseKept
<1>1. ApiInit => Promise!Init
  BY ApiInitKept
<1>2. AnalysesInv /\ [ApiNext]_allVars => [Promise!Next]_(Promise!vars)
  BY ApiNextKept
<1>3. QED
  BY <1>1, <1>2, AnalysesAlways, PTL DEF ApiSpec, PromiseKept, Promise!Spec

\* The validity of an answer and the summaries shown with it agree, of whatever
\* sections the answer is made.
THEOREM SummariesTrue == ApiSpec => []SummariesAgree
<1>1. SummariesAgree
  <2>1. SUFFICES ASSUME NEW r \in Requests, NEW asked,
                        NEW answer \in [asked -> Analyses!Outcomes]
                 PROVE  Analyses!Overall(answer) = "valid" <=> "valid" \in Analyses!Summaries(answer)
    BY DEF SummariesAgree, Analyses!SummariesAgree, Analyses!Answers
  <2>2. \A s \in asked : Analyses!ResultSummary(answer[s]) = "valid" <=> answer[s] = "valid"
    BY DEF Analyses!ResultSummary, Analyses!Outcomes
  <2>3. Analyses!RiskSummary(answer) = "valid"
          <=> \E s \in Analyses!Risks \cap asked : answer[s] = "valid"
    BY DEF Analyses!RiskSummary
  <2>4. QED
    BY <2>2, <2>3 DEF Analyses!Overall, Analyses!Valid, Analyses!Summaries
<1>2. QED
  BY <1>1, PTL

\* Services stop in reverse, although requests send the process signals.
THEOREM ApiStopsInReverse == ApiSpec => []ReverseOrder
<1>1. QED
  BY IInvReverse, ProcessInv, PTL

\* Analyses that clients wait for can use the database in a shutdown.
THEOREM ApiKeepsDatabase == ApiSpec => []OpenRequestsHaveDatabase
<1>1. QED
  BY IInvOpen, ProcessInv, PTL

\* A shutdown leaves no service running.
THEOREM ApiShutdownComplete == ApiSpec => []ShutdownStopsAll
<1>1. QED
  BY IInvStopped, ProcessInv, PTL

-----------------------------------------------------------------------------
(***************************************************************************)
(* What the promise is worth: from its steps alone, not from how the chain *)
(* of middleware makes them.                                               *)
(***************************************************************************)
\* What can be found, and what a request may go by, is what the company has, and
\* so is what APS was asked for and what the answer shows.
OnlyWhatItHas ==
    /\ visible = {capabilities}
    /\ \A r \in Requests :
         /\ ctx[r].held \subseteq {capabilities}
         /\ ctx[r].sent # Analyses!NotSent =>
              Promise!Required(ctx[r].sent.detections) \subseteq capabilities
         /\ reply[r] # Analyses!NoReply => reply[r].embeddings \subseteq capabilities

\* Who has been answered holds nothing and asks nothing.
AnsweredIsOver ==
    \A r \in Requests : reply[r] # Analyses!NoReply =>
        ctx[r].held = {} /\ ctx[r].sent = Analyses!NotSent

\* An answer is the last thing that happens to a request.
AnswerStands ==
    \A r \in Requests : reply[r] # Analyses!NoReply =>
        /\ reply'[r] = reply[r]
        /\ ctx'[r].held = {} /\ ctx'[r].sent = Analyses!NotSent

\* The steps of the promise, as they show in the contexts of the requests.
CompanyChanges ==
    /\ visible' = visible \cup {capabilities'} /\ UNCHANGED reply
    /\ \A q \in Requests :
         /\ ctx'[q].sent = ctx[q].sent
         /\ ctx'[q].held = IF ctx[q].held = {} THEN {} ELSE ctx[q].held \cup {capabilities'}

NothingHappens ==
    /\ visible' \subseteq visible /\ (capabilities \in visible => capabilities \in visible')
    /\ UNCHANGED reply
    /\ \A q \in Requests : ctx'[q].sent = ctx[q].sent /\ ctx'[q].held = ctx[q].held

OnlyFor(r) ==
    /\ UNCHANGED visible
    /\ \A q \in Requests \ {r} :
         ctx'[q].sent = ctx[q].sent /\ ctx'[q].held = ctx[q].held /\ reply'[q] = reply[q]

IsAccepted(r) ==
    /\ reply[r] = Analyses!NoReply /\ UNCHANGED reply
    /\ ctx'[r].sent = ctx[r].sent /\ ctx'[r].held = visible

IsAsked(r) ==
    /\ ctx[r].held # {} /\ UNCHANGED reply /\ ctx'[r].held = ctx[r].held
    /\ \E c \in ctx[r].held : Promise!Required(ctx'[r].sent.detections) \subseteq c

IsAnswered(r) ==
    /\ reply[r] = Analyses!NoReply
    /\ ctx'[r].held = {} /\ ctx'[r].sent = Analyses!NotSent
    /\ \E c \in ctx[r].held : reply'[r].embeddings \subseteq c

LEMMA PromiseSteps ==
    ASSUME Promise!Next
    PROVE  \/ CompanyChanges \/ NothingHappens
           \/ \E r \in Requests : OnlyFor(r) /\ (IsAccepted(r) \/ IsAsked(r) \/ IsAnswered(r))
<1> DEFINE held == [r \in Requests |-> ctx[r].held]
           sent == [r \in Requests |-> ctx[r].sent]
<1>1. \A q \in Requests : /\ held[q] = ctx[q].held /\ held'[q] = ctx'[q].held
                          /\ sent[q] = ctx[q].sent /\ sent'[q] = ctx'[q].sent
  OBVIOUS
<1>2. CASE Promise!Change
  <2>1. /\ held' = [r \in Requests |-> IF held[r] = {} THEN {} ELSE held[r] \cup {capabilities'}]
        /\ visible' = visible \cup {capabilities'} /\ UNCHANGED <<sent, reply>>
    BY <1>2 DEF Promise!Change
  <2> HIDE DEF held, sent
  <2>2. CompanyChanges
    BY <1>1, <2>1 DEF CompanyChanges
  <2>3. QED
    BY <2>2
<1>3. CASE Promise!EndProcess \/ Promise!CatchUp
  <2>1. /\ UNCHANGED <<held, sent, reply>>
        /\ visible' \subseteq visible /\ (capabilities \in visible => capabilities \in visible')
    BY <1>3 DEF Promise!EndProcess, Promise!CatchUp
  <2> HIDE DEF held, sent
  <2>2. NothingHappens
    BY <1>1, <2>1 DEF NothingHappens
  <2>3. QED
    BY <2>2
<1>4. ASSUME NEW r \in Requests, Promise!Accept(r)
      PROVE  OnlyFor(r) /\ IsAccepted(r)
  <2>1. /\ reply[r] = Analyses!NoReply /\ UNCHANGED <<sent, reply, visible>>
        /\ held' = [held EXCEPT ![r] = visible]
    BY <1>4 DEF Promise!Accept
  <2>2. DOMAIN held = Requests
    OBVIOUS
  <2> HIDE DEF held, sent
  <2>3. QED
    BY <1>1, <2>1, <2>2 DEF OnlyFor, IsAccepted
<1>5. ASSUME NEW r \in Requests, Promise!Ask(r)
      PROVE  OnlyFor(r) /\ IsAsked(r)
  <2>1. /\ held[r] # {} /\ UNCHANGED <<held, reply, visible>>
        /\ \A q \in Requests \ {r} : sent'[q] = sent[q]
        /\ \E c \in held[r] : Promise!Required(sent'[r].detections) \subseteq c
    BY <1>5 DEF Promise!Ask, Promise!ChangesFor, Promise!MayAsk, Promise!HadAll
  <2> HIDE DEF held, sent
  <2>2. QED
    BY <1>1, <2>1 DEF OnlyFor, IsAsked
<1>6. ASSUME NEW r \in Requests, Promise!Answer(r)
      PROVE  OnlyFor(r) /\ IsAnswered(r)
  <2>1. /\ reply[r] = Analyses!NoReply
        /\ \A q \in Requests \ {r} : reply'[q] = reply[q]
        /\ \E c \in held[r] : reply'[r].embeddings \subseteq c
        /\ held' = [held EXCEPT ![r] = {}]
        /\ sent' = [sent EXCEPT ![r] = Analyses!NotSent] /\ UNCHANGED visible
    BY <1>6 DEF Promise!Answer, Promise!ChangesFor, Promise!HadAll
  <2>2. DOMAIN held = Requests /\ DOMAIN sent = Requests
    OBVIOUS
  <2> HIDE DEF held, sent
  <2>3. QED
    BY <1>1, <2>1, <2>2 DEF OnlyFor, IsAnswered
<1> HIDE DEF held, sent
<1>7. QED
  BY <1>2, <1>3, <1>4, <1>5, <1>6 DEF Promise!Next

LEMMA PromiseKeepsOver ==
    ASSUME AnsweredIsOver, Promise!Next
    PROVE  AnsweredIsOver' /\ AnswerStands
<1>1. CASE CompanyChanges
  BY <1>1 DEF CompanyChanges, AnsweredIsOver, AnswerStands
<1>2. CASE NothingHappens
  BY <1>2 DEF NothingHappens, AnsweredIsOver, AnswerStands
<1>3. ASSUME NEW r \in Requests, OnlyFor(r), IsAccepted(r) \/ IsAsked(r) \/ IsAnswered(r)
      PROVE  AnsweredIsOver' /\ AnswerStands
  <2>1. \A q \in Requests \ {r} :
          ctx'[q].sent = ctx[q].sent /\ ctx'[q].held = ctx[q].held /\ reply'[q] = reply[q]
    BY <1>3 DEF OnlyFor
  <2>2. reply[r] = Analyses!NoReply
    BY <1>3 DEF IsAccepted, IsAsked, IsAnswered, AnsweredIsOver
  <2>3. reply'[r] # Analyses!NoReply => ctx'[r].held = {} /\ ctx'[r].sent = Analyses!NotSent
    BY <1>3, <2>2 DEF IsAccepted, IsAsked, IsAnswered
  <2>4. QED
    BY <2>1, <2>2, <2>3 DEF AnsweredIsOver, AnswerStands
<1>4. QED
  BY <1>1, <1>2, <1>3, PromiseSteps

LEMMA PromiseKeepsWithin ==
    ASSUME OnlyWhatItHas, Promise!Next, UNCHANGED capabilities
    PROVE  OnlyWhatItHas'
<1>1. CASE CompanyChanges
  BY <1>1 DEF CompanyChanges, OnlyWhatItHas
<1>2. CASE NothingHappens
  BY <1>2 DEF NothingHappens, OnlyWhatItHas
<1>3. ASSUME NEW r \in Requests, OnlyFor(r), IsAccepted(r) \/ IsAsked(r) \/ IsAnswered(r)
      PROVE  OnlyWhatItHas'
  <2>1. /\ UNCHANGED visible
        /\ \A q \in Requests \ {r} :
             ctx'[q].sent = ctx[q].sent /\ ctx'[q].held = ctx[q].held /\ reply'[q] = reply[q]
    BY <1>3 DEF OnlyFor
  <2>2. \A c \in ctx[r].held : c = capabilities
    BY DEF OnlyWhatItHas
  <2>3. /\ ctx'[r].held \subseteq {capabilities}
        /\ ctx'[r].sent # Analyses!NotSent =>
             Promise!Required(ctx'[r].sent.detections) \subseteq capabilities
        /\ reply'[r] # Analyses!NoReply => reply'[r].embeddings \subseteq capabilities
    <3>1. CASE IsAccepted(r)
      BY <3>1 DEF IsAccepted, OnlyWhatItHas
    <3>2. CASE IsAsked(r)
      BY <2>2, <3>2 DEF IsAsked, OnlyWhatItHas
    <3>3. CASE IsAnswered(r)
      BY <2>2, <3>3 DEF IsAnswered
    <3>4. QED
      BY <1>3, <3>1, <3>2, <3>3
  <2>4. QED
    BY <2>1, <2>3 DEF OnlyWhatItHas
<1>4. QED
  BY <1>1, <1>2, <1>3, PromiseSteps

LEMMA PromiseStutters ==
    ASSUME UNCHANGED Promise!vars
    PROVE  NothingHappens /\ UNCHANGED <<capabilities, visible>>
<1> DEFINE held == [r \in Requests |-> ctx[r].held]
           sent == [r \in Requests |-> ctx[r].sent]
<1>1. UNCHANGED <<held, sent, reply, capabilities, visible>>
  BY DEF Promise!vars
<1>2. \A q \in Requests : /\ held[q] = ctx[q].held /\ held'[q] = ctx'[q].held
                          /\ sent[q] = ctx[q].sent /\ sent'[q] = ctx'[q].sent
  OBVIOUS
<1> HIDE DEF held, sent
<1>3. QED
  BY <1>1, <1>2 DEF NothingHappens

LEMMA PromiseBegins ==
    ASSUME Promise!Init
    PROVE  AnsweredIsOver /\ OnlyWhatItHas
<1> DEFINE held == [r \in Requests |-> ctx[r].held]
           sent == [r \in Requests |-> ctx[r].sent]
<1>1. /\ held = [r \in Requests |-> {}] /\ sent = [r \in Requests |-> Analyses!NotSent]
      /\ reply = [r \in Requests |-> Analyses!NoReply] /\ visible = {capabilities}
  BY DEF Promise!Init
<1>2. \A q \in Requests : held[q] = ctx[q].held /\ sent[q] = ctx[q].sent
  OBVIOUS
<1> HIDE DEF held, sent
<1>3. \A q \in Requests : /\ ctx[q].held = {} /\ ctx[q].sent = Analyses!NotSent
                          /\ reply[q] = Analyses!NoReply
  BY <1>1, <1>2
<1>4. QED
  BY <1>1, <1>3 DEF AnsweredIsOver, OnlyWhatItHas

\* The promise has every client answered once: after the answer nothing is asked
\* of APS for the request, and the answer stays what it was.
THEOREM AnswersAreLast == Promise!Spec => [][AnswerStands]_(Promise!vars)
<1>1. Promise!Init => AnsweredIsOver
  BY PromiseBegins
<1>2. AnsweredIsOver /\ [Promise!Next]_(Promise!vars) =>
        AnsweredIsOver' /\ [AnswerStands]_(Promise!vars)
  <2>1. CASE Promise!Next
    BY <2>1, PromiseKeepsOver
  <2>2. ASSUME AnsweredIsOver, UNCHANGED Promise!vars
        PROVE  AnsweredIsOver'
    BY <2>2, PromiseStutters DEF NothingHappens, AnsweredIsOver
  <2>3. QED
    BY <2>1, <2>2
<1>3. QED
  BY <1>1, <1>2, PTL DEF Promise!Spec

\* The promise speaks of what the company has had since a request came, or could
\* be taken to have then.  While nobody changes its capabilities, that is what it
\* has: APS is asked for, and clients are shown, nothing else.
THEOREM PromiseWithinCapabilities ==
    Promise!Spec /\ [][UNCHANGED capabilities]_(Promise!vars) => []OnlyWhatItHas
<1>1. Promise!Init => OnlyWhatItHas
  BY PromiseBegins
<1>2. ASSUME OnlyWhatItHas, [Promise!Next]_(Promise!vars),
             [UNCHANGED capabilities]_(Promise!vars)
      PROVE  OnlyWhatItHas'
  <2>1. UNCHANGED capabilities
    BY <1>2, PromiseStutters
  <2>2. CASE Promise!Next
    BY <1>2, <2>1, <2>2, PromiseKeepsWithin
  <2>3. CASE UNCHANGED Promise!vars
    BY <1>2, <2>3, PromiseStutters DEF NothingHappens, OnlyWhatItHas
  <2>4. QED
    BY <1>2, <2>2, <2>3
<1>3. QED
  BY <1>1, <1>2, PTL DEF Promise!Spec

\* So it is in the process with its chain of middleware, which keeps the promise.
THEOREM AnalysesWithinCapabilities ==
    ApiSpec /\ [][UNCHANGED capabilities]_allVars => []OnlyWhatItHas
<1>1. [UNCHANGED capabilities]_allVars => [UNCHANGED capabilities]_(Promise!vars)
  BY DEF allVars, analyses
<1>2. QED
  BY <1>1, AnalysesImplementPromise, PromiseWithinCapabilities, PTL DEF PromiseKept

-----------------------------------------------------------------------------
(***************************************************************************)
(* Requests settle.  The chain is a finite one, so each link has a rank,   *)
(* and what a request does takes it to a higher one; the work behind an    *)
(* answer counts as two more links.                                        *)
(***************************************************************************)
Rank == [idle |-> 0, view |-> 1, rules |-> 2, capabilities |-> 3, sceneCapability |-> 4,
         images |-> 5, tampering |-> 6, reference |-> 7, aps |-> 8, register |-> 9,
         answered |-> 10]

Progress(r) ==
    IF stage[r] # "answered" THEN Rank[stage[r]]
    ELSE IF tasks[r] = {} THEN 12
    ELSE IF tasks[r] = {"snapshot", "store"} THEN 10
    ELSE 11

Reached(r, n) == Progress(r) >= n

\* A step of a request's chain: to a later link, of this request alone, with no
\* work behind it before it is answered.
Onward(r) ==
    /\ stage[r] \in Analyses!Stages \ {"idle", "answered"}
    /\ \E s \in Analyses!Stages :
         /\ stage' = [stage EXCEPT ![r] = s] /\ Rank[s] > Rank[stage[r]]
         /\ s # "answered" => tasks' = tasks
    /\ \A q \in Requests \ {r} : tasks'[q] = tasks[q]

LEMMA RankTyped ==
    /\ \A s \in Analyses!Stages : Rank[s] \in 0 .. 10 /\ (s # "answered" => Rank[s] <= 9)
    /\ \A s \in Analyses!Stages : s # "idle" <=> Rank[s] >= 1
BY DEF Rank, Analyses!Stages

LEMMA RequestStepOnward ==
    ASSUME AnalysesInv, NEW r \in Requests, RequestStep(r)
    PROVE  Onward(r)
<1>1. tasks \in [Requests -> SUBSET {"snapshot", "store"}] /\ stage[r] \in Analyses!Stages
  BY DEF AnalysesInv, AnalysesTyped
<1>2. ASSUME NEW s \in Analyses!Stages \ {"idle", "answered"}, stage[r] = s,
             NEW t \in Analyses!Stages, NEW c, Analyses!Await(r, t, c), Rank[t] > Rank[s]
      PROVE  Onward(r)
  BY <1>2 DEF Onward, Analyses!Await
<1>3. ASSUME NEW code, stage[r] \in Analyses!Stages \ {"idle", "answered"}, Analyses!Refuse(r, code)
      PROVE  Onward(r)
  BY <1>3 DEF Onward, Analyses!Refuse, Rank, Analyses!Stages
<1>4. ASSUME NEW show, stage[r] \in Analyses!Stages \ {"idle", "answered"}, Analyses!Finish(r, show)
      PROVE  Onward(r)
  BY <1>1, <1>4 DEF Onward, Analyses!Finish, Rank, Analyses!Stages
<1>5. ASSUME NEW scene, stage[r] \in {"images", "tampering", "reference"}, Analyses!Send(r, scene)
      PROVE  Onward(r)
  BY <1>2, <1>5 DEF Analyses!Send, Rank, Analyses!Stages
<1>6. Analyses!AfterCapabilities(r) \in {"sceneCapability", "images"}
  BY DEF Analyses!AfterCapabilities
<1>7. ASSUME stage[r] \in {"view", "rules"}, Analyses!Configure(r)
      PROVE  Onward(r)
  <2>1. PICK t \in {"capabilities", "sceneCapability", "images"} :
          Analyses!Refuse(r, 400) \/ \E c : Analyses!Await(r, t, c)
    BY <1>6, <1>7 DEF Analyses!Configure
  <2>2. QED
    BY <1>2, <1>3, <1>7, <2>1 DEF Rank, Analyses!Stages
<1>8. CASE Analyses!FindView(r) \/ Analyses!FindRules(r)
  BY <1>2, <1>3, <1>7, <1>8 DEF Analyses!FindView, Analyses!FindRules, Rank, Analyses!Stages
<1>9. CASE Analyses!CheckCapabilities(r) \/ Analyses!CheckSceneCapability(r)
  <2>1. CASE Analyses!CheckCapabilities(r)
    BY <1>2, <1>3, <1>6, <2>1 DEF Analyses!CheckCapabilities, Rank, Analyses!Stages
  <2>2. CASE Analyses!CheckSceneCapability(r)
    BY <1>2, <2>2 DEF Analyses!CheckSceneCapability, Rank, Analyses!Stages
  <2>3. QED
    BY <1>9, <2>1, <2>2
<1>10. CASE Analyses!ParseImages(r)
  BY <1>2, <1>3, <1>5, <1>10 DEF Analyses!ParseImages, Rank, Analyses!Stages
<1>11. CASE Analyses!CheckTampering(r) \/ Analyses!RegisterFirst(r)
  BY <1>2, <1>5, <1>11 DEF Analyses!CheckTampering, Analyses!RegisterFirst, Rank, Analyses!Stages
<1>12. CASE Analyses!ApsAnswers(r)
  <2>1. PICK show : \/ Analyses!Finish(r, show)
                    \/ \E c : Analyses!Await(r, "register", c)
    BY <1>12 DEF Analyses!ApsAnswers
  <2>2. stage[r] = "aps"
    BY <1>12 DEF Analyses!ApsAnswers
  <2>3. QED
    BY <1>2, <1>4, <2>1, <2>2 DEF Rank, Analyses!Stages
<1>13. CASE Analyses!MissView(r) \/ Analyses!CannotShape(r) \/ Analyses!ApsFails(r)
              \/ Analyses!FailAwait(r)
  BY <1>3, <1>13 DEF Analyses!MissView, Analyses!CannotShape, Analyses!ApsFails,
     Analyses!FailAwait, Analyses!Stages
<1>14. CASE Analyses!RegisterTampering(r)
  BY <1>4, <1>14 DEF Analyses!RegisterTampering, Analyses!Stages
<1>15. Analyses!Proceed(r) \/ Analyses!FailAwait(r)
  BY DEF RequestStep, ServeRequest, FailRequest
<1>16. QED
  BY <1>8, <1>9, <1>10, <1>11, <1>12, <1>13, <1>14, <1>15 DEF Analyses!Proceed, Analyses!Query

\* What a request does takes it on, and only it.
LEMMA RequestStepProgress ==
    ASSUME AnalysesInv, NEW r \in Requests, RequestStep(r)
    PROVE  /\ Progress(r)' > Progress(r)
           /\ \A q \in Requests \ {r} : Progress(q)' = Progress(q)
<1>1. Onward(r)
  BY RequestStepOnward
<1>2. PICK s \in Analyses!Stages : stage' = [stage EXCEPT ![r] = s] /\ Rank[s] > Rank[stage[r]]
  BY <1>1 DEF Onward
<1>3. stage \in [Requests -> Analyses!Stages]
  BY DEF AnalysesInv, AnalysesTyped
<1>4. stage[r] \notin {"idle", "answered"} /\ Progress(r) = Rank[stage[r]] /\ Progress(r) \in 1 .. 9
  BY <1>1, <1>3, RankTyped DEF Onward, Progress
<1>5. stage'[r] = s /\ \A q \in Requests \ {r} : stage'[q] = stage[q]
  BY <1>2, <1>3
<1>6. ASSUME s = "answered"
      PROVE  Progress(r)' > Progress(r)
  <2>1. stage'[r] = "answered"
    BY <1>5, <1>6
  <2>2. Progress(r)' \in {10, 11, 12}
    BY <2>1 DEF Progress
  <2>3. QED
    BY <1>4, <2>2
<1>7. ASSUME s # "answered"
      PROVE  Progress(r)' > Progress(r)
  <2>1. Progress(r)' = Rank[s]
    BY <1>5, <1>7 DEF Progress
  <2>2. QED
    BY <1>2, <1>4, <2>1, RankTyped
<1>8. \A q \in Requests \ {r} : Progress(q)' = Progress(q)
  BY <1>1, <1>5 DEF Onward, Progress
<1>9. QED
  BY <1>6, <1>7, <1>8

LEMMA EndWorkProgress ==
    ASSUME AnalysesInv, NEW r \in Requests, EndWork(r), stage[r] = "answered"
    PROVE  /\ Progress(r)' > Progress(r)
           /\ \A q \in Requests \ {r} : Progress(q)' = Progress(q)
<1>1. PICK task \in tasks[r] : tasks' = [tasks EXCEPT ![r] = @ \ {task}] /\ stage' = stage
  BY DEF EndWork, Analyses!EndTask
<1>2. tasks \in [Requests -> SUBSET {"snapshot", "store"}]
  BY DEF AnalysesInv, AnalysesTyped
<1>3. tasks'[r] = tasks[r] \ {task} /\ \A q \in Requests \ {r} : tasks'[q] = tasks[q]
  BY <1>1, <1>2
<1>4. tasks[r] \in {{"snapshot"}, {"store"}, {"snapshot", "store"}}
  BY <1>1, <1>2
<1>5. CASE tasks[r] = {"snapshot", "store"}
  <2>1. Progress(r) = 10
    BY <1>5 DEF Progress
  <2>2. tasks'[r] # {"snapshot", "store"} /\ stage'[r] = "answered"
    <3>1. task \notin tasks'[r] /\ task \in {"snapshot", "store"}
      BY <1>1, <1>2, <1>3
    <3>2. QED
      BY <1>1, <3>1
  <2>3. Progress(r)' \in {11, 12}
    BY <2>2 DEF Progress
  <2>4. QED
    BY <1>1, <1>3, <2>1, <2>3 DEF Progress
<1>6. CASE tasks[r] # {"snapshot", "store"}
  <2>1. Progress(r) = 11
    BY <1>1, <1>6 DEF Progress
  <2>2. tasks'[r] = {}
    BY <1>3, <1>4, <1>6, <1>1
  <2>3. Progress(r)' = 12
    BY <1>1, <2>2 DEF Progress
  <2>4. QED
    BY <1>1, <1>3, <2>1, <2>3 DEF Progress
<1>7. QED
  BY <1>5, <1>6

\* No work is behind a request that is not answered.
WorkBehindAnswers == \A r \in Requests : stage[r] # "answered" => tasks[r] = {}

LEMMA ProgressTyped ==
    AnalysesInv => \A r \in Requests : Progress(r) \in 0 .. 12
BY RankTyped DEF AnalysesInv, AnalysesTyped, Progress

\* A request is underway from the first link on, and over at the last.
LEMMA SettlesAtLast ==
    ASSUME AnalysesInv, NEW r \in Requests
    PROVE  /\ Progress(r) \in 0 .. 12
           /\ Reached(r, 1) <=> stage[r] # "idle"
           /\ Reached(r, 12) <=> Settled(r)
<1>1. stage[r] \in Analyses!Stages /\ tasks[r] \in SUBSET {"snapshot", "store"}
  BY DEF AnalysesInv, AnalysesTyped
<1>2. CASE stage[r] = "answered"
  <2>1. Progress(r) \in {10, 11, 12} /\ (Progress(r) = 12 <=> tasks[r] = {})
    BY <1>2 DEF Progress
  <2>2. QED
    BY <1>2, <2>1 DEF Reached, Settled
<1>3. CASE stage[r] # "answered"
  BY <1>1, <1>3, RankTyped DEF Progress, Reached, Settled
<1>4. QED
  BY <1>2, <1>3

\* To what a request has reached, its own steps are all that matters.
LEMMA NextProgress ==
    ASSUME AnalysesInv, WorkBehindAnswers, [ApiNext]_allVars
    PROVE  /\ WorkBehindAnswers'
           /\ \A q \in Requests : Progress(q)' >= Progress(q)
<1>1. /\ stage \in [Requests -> Analyses!Stages]
      /\ tasks \in [Requests -> SUBSET {"snapshot", "store"}]
  BY DEF AnalysesInv, AnalysesTyped
<1>2. \A q \in Requests : Progress(q) \in 0 .. 12 /\ Progress(q)' \in 0 .. 12
  <2>1. (AnalysesInv => \A r \in Requests : Progress(r) \in 0 .. 12)'
    BY ProgressTyped, PTL
  <2>2. AnalysesInv'
    BY ApiNextKept
  <2>3. QED
    BY <2>1, <2>2, ProgressTyped
<1>3. ASSUME UNCHANGED <<stage, tasks>>
      PROVE  WorkBehindAnswers' /\ \A q \in Requests : Progress(q)' >= Progress(q)
  BY <1>2, <1>3 DEF WorkBehindAnswers, Progress
<1>4. CASE UNCHANGED allVars \/ ProcessStep \/ Environment \/ Uncaught
  <2>1. UNCHANGED <<stage, tasks>>
    BY <1>4 DEF allVars, analyses, ProcessStep, Unaffected, Environment, Uncaught,
       Analyses!ChangeCapabilities, Analyses!ReplicateCapabilities, Analyses!Replicate,
       Analyses!Raise
  <2>2. QED
    BY <1>3, <2>1
<1>5. ASSUME NEW r \in Requests, Receive(r)
      PROVE  WorkBehindAnswers' /\ \A q \in Requests : Progress(q)' >= Progress(q)
  <2>1. stage[r] = "idle" /\ stage' = [stage EXCEPT ![r] = "view"] /\ tasks' = tasks
    BY <1>5 DEF Receive, Analyses!Arrive
  <2>2. Progress(r) = 0 /\ Progress(r)' = 1
    BY <1>1, <2>1 DEF Progress, Rank
  <2>3. \A q \in Requests \ {r} : Progress(q)' = Progress(q)
    BY <1>1, <2>1 DEF Progress
  <2>4. WorkBehindAnswers'
    BY <1>1, <2>1 DEF WorkBehindAnswers
  <2>5. QED
    BY <1>2, <2>2, <2>3, <2>4
<1>6. ASSUME NEW r \in Requests, RequestStep(r)
      PROVE  WorkBehindAnswers' /\ \A q \in Requests : Progress(q)' >= Progress(q)
  <2>1. Onward(r)
    BY <1>6, RequestStepOnward
  <2>2. WorkBehindAnswers'
    BY <1>1, <2>1 DEF WorkBehindAnswers, Onward
  <2>3. Progress(r)' > Progress(r) /\ \A q \in Requests \ {r} : Progress(q)' = Progress(q)
    BY <1>6, RequestStepProgress
  <2>4. QED
    BY <1>2, <2>2, <2>3
<1>7. ASSUME NEW r \in Requests, EndWork(r)
      PROVE  WorkBehindAnswers' /\ \A q \in Requests : Progress(q)' >= Progress(q)
  <2>1. PICK task \in tasks[r] : tasks' = [tasks EXCEPT ![r] = @ \ {task}] /\ stage' = stage
    BY <1>7 DEF EndWork, Analyses!EndTask
  <2>2. stage[r] = "answered"
    BY <2>1 DEF WorkBehindAnswers
  <2>3. WorkBehindAnswers'
    BY <1>1, <2>1 DEF WorkBehindAnswers
  <2>4. Progress(r)' > Progress(r) /\ \A q \in Requests \ {r} : Progress(q)' = Progress(q)
    BY <1>7, <2>2, EndWorkProgress
  <2>5. QED
    BY <1>2, <2>3, <2>4
<1>8. QED
  BY <1>4, <1>5, <1>6, <1>7 DEF ApiNext

LEMMA StepProgress ==
    ASSUME AnalysesInv, WorkBehindAnswers, NEW r \in Requests, RequestStep(r) \/ EndWork(r)
    PROVE  Progress(r)' > Progress(r)
<1>1. CASE RequestStep(r)
  BY <1>1, RequestStepProgress
<1>2. CASE EndWork(r)
  <2>1. stage[r] = "answered"
    BY <1>2 DEF EndWork, Analyses!EndTask, WorkBehindAnswers
  <2>2. QED
    BY <1>2, <2>1, EndWorkProgress
<1>3. QED
  BY <1>1, <1>2

LeadsOn(r, n, m) == Reached(r, n) ~> Reached(r, m)

\* A request that can go on does, to a later link.
LEMMA GoesFurther ==
    ASSUME NEW r \in Requests, NEW n \in 1 .. 11, NEW m \in 2 .. 12, m = n + 1
    PROVE  ApiSpec /\ []NeverStuck => LeadsOn(r, n, m)
<1> DEFINE At == Reached(r, n)
           Next1 == Reached(r, m)
           Inv == AnalysesInv /\ WorkBehindAnswers
           Step == RequestStep(r) \/ EndWork(r)
<1>1. ApiInit => Inv
  <2>1. ApiInit => WorkBehindAnswers
    BY DEF ApiInit, Analyses!Init, WorkBehindAnswers
  <2>2. QED
    BY <2>1, ApiInitKept
<1>2. Inv /\ [ApiNext]_allVars => Inv'
  BY ApiNextKept, NextProgress
<1>3. /\ AnalysesInv => Progress(r) \in 0 .. 12
      /\ (AnalysesInv => Progress(r) \in 0 .. 12)'
  <2>1. AnalysesInv => Progress(r) \in 0 .. 12
    BY ProgressTyped
  <2>2. QED
    BY <2>1, PTL
<1>4. At /\ Inv /\ [ApiNext]_allVars => At'
  <2>1. SUFFICES ASSUME At, Inv, [ApiNext]_allVars
                 PROVE  At'
    OBVIOUS
  <2>2. Progress(r)' >= Progress(r)
    BY <2>1, NextProgress
  <2>3. QED
    BY <2>1, <2>2, <1>2, <1>3 DEF Reached
<1>5. At /\ Inv /\ [ApiNext]_allVars /\ Step => Next1'
  <2>1. SUFFICES ASSUME At, Inv, [ApiNext]_allVars, Step
                 PROVE  Next1'
    OBVIOUS
  <2>2. Progress(r)' > Progress(r)
    BY <2>1, StepProgress
  <2>3. QED
    BY <2>1, <2>2, <1>2, <1>3 DEF Reached
<1>6. At /\ Inv /\ NeverStuck => Next1 \/ ENABLED <<Step>>_allVars
  <2>1. SUFFICES ASSUME At, Inv, NeverStuck, ~Next1
                 PROVE  ENABLED <<Step>>_allVars
    OBVIOUS
  <2>2. stage[r] # "idle" /\ ~Settled(r)
    BY <2>1, SettlesAtLast DEF Reached
  <2>3. QED
    BY <2>1, <2>2 DEF NeverStuck
<1>7. ApiSpec => GoesOn(r)
  <2>1. (\A q \in Requests : GoesOn(q)) => GoesOn(r)
    OBVIOUS
  <2>2. ApiFairness => \A q \in Requests : GoesOn(q)
    BY DEF ApiFairness
  <2>3. ApiSpec => ApiFairness
    BY PTL DEF ApiSpec
  <2>4. QED
    BY <2>1, <2>2, <2>3
<1>8. ApiSpec => ApiInit /\ [][ApiNext]_allVars
  BY PTL DEF ApiSpec
<1>9. QED
  BY <1>1, <1>2, <1>4, <1>5, <1>6, <1>7, <1>8, PTL DEF GoesOn, LeadsOn

\* Every analysis that has come is answered, and the work behind its answer ends,
\* as long as nothing keeps a request from going on: weak fairness is enough,
\* for the chain only goes forward, whatever the process and the other requests
\* do between two of its awaits.
THEOREM RequestsSettle == ApiSpec /\ []NeverStuck => EveryRequestSettles
<1>1. ASSUME NEW r \in Requests
      PROVE  ApiSpec /\ []NeverStuck => (stage[r] # "idle" ~> Settled(r))
  <2>1. ApiSpec /\ []NeverStuck =>
           /\ LeadsOn(r, 1, 2) /\ LeadsOn(r, 2, 3) /\ LeadsOn(r, 3, 4)
           /\ LeadsOn(r, 4, 5) /\ LeadsOn(r, 5, 6) /\ LeadsOn(r, 6, 7)
           /\ LeadsOn(r, 7, 8) /\ LeadsOn(r, 8, 9) /\ LeadsOn(r, 9, 10)
           /\ LeadsOn(r, 10, 11) /\ LeadsOn(r, 11, 12)
    BY GoesFurther
  <2>2. LeadsOn(r, 1, 2) /\ LeadsOn(r, 2, 3) /\ LeadsOn(r, 3, 4) => LeadsOn(r, 1, 4)
    BY PTL DEF LeadsOn
  <2>3. LeadsOn(r, 4, 5) /\ LeadsOn(r, 5, 6) /\ LeadsOn(r, 6, 7) => LeadsOn(r, 4, 7)
    BY PTL DEF LeadsOn
  <2>4. LeadsOn(r, 7, 8) /\ LeadsOn(r, 8, 9) /\ LeadsOn(r, 9, 10) => LeadsOn(r, 7, 10)
    BY PTL DEF LeadsOn
  <2>5. LeadsOn(r, 10, 11) /\ LeadsOn(r, 11, 12) => LeadsOn(r, 10, 12)
    BY PTL DEF LeadsOn
  <2>6. LeadsOn(r, 1, 4) /\ LeadsOn(r, 4, 7) /\ LeadsOn(r, 7, 10) /\ LeadsOn(r, 10, 12)
          => LeadsOn(r, 1, 12)
    BY PTL DEF LeadsOn
  <2>7. ApiSpec /\ []NeverStuck => LeadsOn(r, 1, 12)
    BY <2>1, <2>2, <2>3, <2>4, <2>5, <2>6
  <2>8. AnalysesInv => /\ stage[r] # "idle" => Reached(r, 1)
                       /\ Reached(r, 12) => Settled(r)
    BY SettlesAtLast
  <2>9. QED
    BY <2>7, <2>8, AnalysesAlways, PTL DEF LeadsOn
<1>2. QED
  BY <1>1 DEF EveryRequestSettles
=============================================================================
