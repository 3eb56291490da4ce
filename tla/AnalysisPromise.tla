--------------------------- MODULE AnalysisPromise ---------------------------
(***************************************************************************)
(* What analyses promise, whatever chain of checks and calls they go       *)
(* through: APS is asked for nothing that the company does not have, or    *)
(* lately had as far as a lagging replica can tell, and the client is      *)
(* shown no embeddings but on the same condition; it is answered once; a   *)
(* scene change check that Services API decides on is registered once per  *)
(* period, as far as the replica lets it know; and the process outlives    *)
(* all but one kind of analysis.                                           *)
(***************************************************************************)
EXTENDS Detections

CONSTANTS Requests, Grants, NotSent, NoReply, Codes

VARIABLES
    capabilities, \* of the company
    visible,    \* what a query for them may find: these, or former ones
    held,       \* what could be found when each request came, or the company has
                \* had since; {} before and after
    known,      \* the events that could be known when each request came
    sent,       \* what APS was asked
    reply,      \* the answer
    events,     \* who registered a scene change check, and how it ended
    killers     \* the calls whose failures began a shutdown

vars == <<capabilities, visible, held, known, sent, reply, events, killers>>

Init ==
    /\ capabilities \in Grants
    /\ visible = {capabilities}
    /\ held = [r \in Requests |-> {}]
    /\ known = [r \in Requests |-> {}]
    /\ sent = [r \in Requests |-> NotSent]
    /\ reply = [r \in Requests |-> NoReply]
    /\ events = {}
    /\ killers = {}

Change ==
    /\ capabilities' \in Grants
    /\ visible' = visible \cup {capabilities'}
    /\ held' = [r \in Requests |->
         IF held[r] = {} THEN {} ELSE held[r] \cup {capabilities'}]
    /\ UNCHANGED <<known, sent, reply, events, killers>>

\* The replica has caught up, or somewhat.
CatchUp ==
    /\ visible' \subseteq visible /\ capabilities \in visible'
    /\ UNCHANGED <<capabilities, held, known, sent, reply, events, killers>>

Accept(r) ==
    /\ held[r] = {} /\ reply[r] = NoReply
    /\ held' = [held EXCEPT ![r] = visible]
    /\ \E before \in SUBSET events : known' = [known EXCEPT ![r] = before]
    /\ UNCHANGED <<capabilities, visible, sent, reply, events, killers>>

\* The company had it all at one time: since the request came, or lately enough
\* for a query to find it then.
HadAll(r, what) == \E c \in held[r] : what \subseteq c

\* A scene change needs the capability only when it is the client who asks.
MayAsk(r, s) ==
    /\ HadAll(r, Required(s.detections))
    /\ s.payload = "noChecks" /\ s.asked => HadAll(r, Required({"tampering"}))

\* Nothing of a function but its value for r changes.
ChangesFor(r, f, g) == \A q \in Requests \ {r} : g[q] = f[q]

\* An event may say that there was nothing to compare with.
Ask(r) ==
    /\ held[r] # {} /\ sent[r] = NotSent
    /\ ChangesFor(r, sent, sent')
    /\ sent'[r] # NotSent /\ MayAsk(r, sent'[r])
    /\ events' \in {events, events \cup {<<r, "failed">>}}
    /\ UNCHANGED <<capabilities, visible, held, known, reply, killers>>

\* A check is registered when none could be known to be.
Register(r) ==
    /\ \A e \in known[r] : e[2] # "completed"
    /\ events' = events \cup {<<r, "completed">>}

Answer(r) ==
    /\ held[r] # {} /\ reply[r] = NoReply
    /\ ChangesFor(r, reply, reply')
    /\ reply'[r].code \in Codes
    /\ reply'[r].code = 200 => sent[r] # NotSent
    /\ HadAll(r, reply'[r].embeddings)
    /\ UNCHANGED events \/ Register(r)
    /\ held' = [held EXCEPT ![r] = {}]
    /\ known' = [known EXCEPT ![r] = {}]
    /\ sent' = [sent EXCEPT ![r] = NotSent]
    /\ UNCHANGED <<capabilities, visible, killers>>

\* No failure of the database, of S3, DynamoDB or APS begins a shutdown: only
\* analyses of images given as URLs do, of a camera that waits for a snapshot.
EndProcess ==
    /\ \A w \in killers' \ killers : w.snapshot /\ w.urls
    /\ UNCHANGED <<capabilities, visible, held, known, sent, reply, events>>

Next == Change \/ CatchUp \/ EndProcess \/ \E r \in Requests : Accept(r) \/ Ask(r) \/ Answer(r)

Spec == Init /\ [][Next]_vars
=============================================================================
