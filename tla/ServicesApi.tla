----------------------------- MODULE ServicesApi -----------------------------
(***************************************************************************)
(* The process with its analyses: ServiceLifecycle, whose requests are     *)
(* those of AnalyzePipeline.  The API accepts them while it is up; their   *)
(* queries need the database; a promise that is rejected and that nobody   *)
(* handles begins a shutdown.  A request's step and what it is to the      *)
(* process are one step.                                                   *)
(***************************************************************************)
EXTENDS ServiceLifecycle

CONSTANTS Workload, Grants, MaxChanges

VARIABLES
    capabilities, visible, changes, stage, ctx, reply, tasks, raised, events, replica,
    killers     \* history: the calls whose rejections began a shutdown

Up == {s \in Names : status[s] = "up"}

Analyses == INSTANCE AnalyzePipeline WITH up <- Up

\* A request's context is what the promise says of it.
Promise == INSTANCE AnalysisPromise WITH
    NotSent <- Analyses!NotSent, NoReply <- Analyses!NoReply, Codes <- Analyses!Codes,
    held <- [r \in Requests |-> ctx[r].held],
    known <- [r \in Requests |-> ctx[r].known],
    sent <- [r \in Requests |-> ctx[r].sent]

ASSUME WorkloadAssumption == Analyses!WorkloadOK /\ MaxChanges \in Nat

analyses == <<capabilities, visible, changes, stage, ctx, reply, tasks, raised, events, replica>>

allVars == <<vars, analyses, killers>>

ApiInit == Init /\ Analyses!Init /\ killers = {}

-----------------------------------------------------------------------------
Unaffected == UNCHANGED <<analyses, killers>>

\* The process goes on without its requests.
ProcessStep ==
    /\ Unaffected
    /\ \/ StartService \/ FailStart \/ Signal \/ \E l \in Shutdowns : EndStop(l)
       \/ AnswerScrape \/ GiveUp

Receive(r) ==
    /\ Analyses!Arrive(r)
    /\ Accept(r)
    /\ UNCHANGED killers

\* To the process, a request that has been answered is over unless there is work
\* behind the answer.
Follow(r) ==
    IF reply'[r] = reply[r] THEN UNCHANGED vars
    ELSE /\ Respond(r)
         /\ request'[r] = IF tasks'[r] = {} THEN "done" ELSE "background"

ServeRequest(r) ==
    /\ Analyses!Proceed(r)
    /\ Follow(r)
    /\ UNCHANGED killers

\* A query fails, or finds the database closed.
FailRequest(r) ==
    /\ Analyses!FailAwait(r)
    /\ Follow(r) \/ Refuse(r)
    /\ UNCHANGED killers

EndWork(r) ==
    /\ \E task \in tasks[r] : Analyses!EndTask(r, task)
    /\ IF tasks'[r] = {} THEN EndBackground(r) ELSE UNCHANGED vars
    /\ UNCHANGED killers

\* uncaughtException: the process sends itself a signal, unless it is shutting
\* down.
Uncaught ==
    /\ \E w \in raised :
         /\ Analyses!Raise(w)
         /\ killers' = IF shutdownInProgress THEN killers ELSE killers \cup {w}
    /\ IF shutdownInProgress THEN UNCHANGED vars ELSE Signal

Environment ==
    /\ Analyses!ChangeCapabilities \/ Analyses!ReplicateCapabilities \/ Analyses!Replicate
    /\ UNCHANGED <<vars, killers>>

RequestStep(r) == ServeRequest(r) \/ FailRequest(r)

ApiNext ==
    \/ ProcessStep \/ Environment \/ Uncaught
    \/ \E r \in Requests : Receive(r) \/ RequestStep(r) \/ EndWork(r)

\* What a request awaits settles: queries have a timeout, so has the call of APS.
GoesOn(r) == WF_allVars(RequestStep(r) \/ EndWork(r))

\* What bootstrap and the shutdowns await settles too, but for a stop of the Monitor
\* whose client does not give up.
ProcessGoesOn ==
    /\ WF_allVars(Unaffected /\ (StartService \/ FailStart))
    /\ WF_allVars(Unaffected /\ AnswerScrape)
    /\ \A l \in Shutdowns : WF_allVars(Unaffected /\ EndStop(l))

ApiFairness == ProcessGoesOn /\ \A r \in Requests : GoesOn(r)

ApiSpec == ApiInit /\ [][ApiNext]_allVars /\ ApiFairness

-----------------------------------------------------------------------------
\* Every variable keeps its type, in the process and in its requests.
ApiTypeOK == TypeOK /\ Analyses!TypeOK

\* AnalyzePipeline implements AnalysisPromise.
PromiseKept == Promise!Spec

Settled(r) == stage[r] = "answered" /\ tasks[r] = {}

\* A request that has come and is not over can go on, whatever it waits for: no
\* link of the chain keeps it, and the end of the process's services only makes
\* its queries fail.
NeverStuck ==
    \A r \in Requests : stage[r] = "idle" \/ Settled(r)
                          \/ ENABLED <<RequestStep(r) \/ EndWork(r)>>_allVars

\* Every analysis is answered, and the work behind its answer ends, whatever
\* fails and although the process may be shutting down.
EveryRequestSettles == \A r \in Requests : stage[r] # "idle" ~> Settled(r)

SummariesAgree == Analyses!SummariesAgree
=============================================================================
