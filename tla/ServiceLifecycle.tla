-------------------------- MODULE ServiceLifecycle --------------------------
(***************************************************************************)
(* The life of a services-api process.  Bootstrap starts the services one  *)
(* after the other; each start adds a stopper, and a shutdown runs the     *)
(* stoppers.  A shutdown is begun by the first signal (an uncaught         *)
(* exception and an exhausted database pool send the process one) and by a *)
(* service that fails to start.  HTTP requests are accepted while the API  *)
(* is up and query the database; some leave work behind that nobody        *)
(* awaits.  Another HTTP server answers one request only, for metrics, and *)
(* leaves any other without an answer.                                     *)
(***************************************************************************)
EXTENDS Naturals, Sequences

CONSTANTS
    Services,   \* names of the services, in the order bootstrap starts them
    Stoppable,  \* the services whose starter returns a stop function
    Database,   \* the service that requests query
    Api,        \* the service that accepts requests
    Monitor,    \* the service that answers with metrics
    Requests

Names == {Services[i] : i \in DOMAIN Services}

ASSUME ServicesAssumption ==
    /\ Services \in Seq(STRING)
    /\ \A i, j \in DOMAIN Services : Services[i] = Services[j] => i = j
    /\ Stoppable \subseteq Names
    /\ Database \in Stoppable /\ Api \in Stoppable /\ Monitor \in Stoppable \ {Api}
    /\ \E i, j \in DOMAIN Services : i < j /\ Services[i] = Database /\ Services[j] = Api
    /\ "none" \notin Names

VARIABLES
    boot,       \* how many services have started
    failed,     \* a service failed to start
    stoppers,   \* the services that have a stopper, in the order of the array
    status,     \* state of each service
    shutdownInProgress,
    index,      \* of each shutdown: its place in stoppers, 0 before it begins
    current,    \* of each shutdown: the service whose stop it awaits, if any
    closes,     \* of each shutdown: that stop is what closes the service
    request,    \* where each request is
    scrape,     \* what a client of the Monitor waits for while that closes
    orderly,    \* history: at most one shutdown has begun, after bootstrap
    found       \* history, of each shutdown: the stoppers it found when it began

vars == <<boot, failed, stoppers, status, shutdownInProgress, index, current,
          closes, request, scrape, orderly, found>>

process == <<boot, failed, stoppers>>
shutdown == <<shutdownInProgress, index, current, closes, orderly, found>>

-----------------------------------------------------------------------------
Shutdowns == {"signal", "failure"}

BootstrapOver == failed \/ boot = Len(Services)

Running(l) == current[l] # "none"

Over(l) == index[l] > 0 /\ ~Running(l)

Init ==
    /\ boot = 0
    /\ failed = FALSE
    /\ stoppers = <<>>
    /\ status = [s \in Names |-> "off"]
    /\ shutdownInProgress = FALSE
    /\ index = [l \in Shutdowns |-> 0]
    /\ current = [l \in Shutdowns |-> "none"]
    /\ closes = [l \in Shutdowns |-> FALSE]
    /\ request = [r \in Requests |-> "none"]
    /\ scrape = "none"
    /\ orderly = TRUE
    /\ found = [l \in Shutdowns |-> {}]

-----------------------------------------------------------------------------
\* Added by the starter and by startService.
AddTwice(s) == stoppers' = <<s, s>> \o stoppers

\* stoppers.push instead
AddLast(s) == stoppers' = Append(stoppers, s)

\* stoppers.unshift(stopper)
AddStopper(s) == stoppers' = <<s>> \o stoppers

\* The starter that bootstrap awaits returns.  Nothing holds bootstrap up when a
\* shutdown has begun meanwhile.
StartService ==
    /\ ~BootstrapOver
    /\ LET s == Services[boot + 1]
       IN  /\ boot' = boot + 1
           /\ status' = [status EXCEPT ![s] = "up"]
           /\ IF s \in Stoppable THEN AddStopper(s) ELSE UNCHANGED stoppers
    /\ UNCHANGED <<failed, shutdown, request, scrape>>

\* What the clients of the Monitor ask for matters when it closes, and is chosen
\* then: one that will not be answered stands for all of those.
Scrapes == {"none", "metrics", "other"}

\* The loop of shutdown l comes to place i of the array as it now is, the
\* services being as in now: it calls that stop function and awaits it, or ends.
StopAt(l, i, now) ==
    /\ index' = [index EXCEPT ![l] = i]
    /\ IF i \in DOMAIN stoppers
       THEN LET s == stoppers[i]
            IN  /\ current' = [current EXCEPT ![l] = s]
                /\ closes' = [closes EXCEPT ![l] = now[s] = "up"]
                /\ status' = [now EXCEPT ![s] = IF @ = "up" THEN "closing" ELSE @]
                /\ scrape' \in IF s = Monitor /\ now[s] = "up" THEN Scrapes ELSE {scrape}
       ELSE /\ current' = [current EXCEPT ![l] = "none"]
            /\ status' = now
            /\ UNCHANGED <<closes, scrape>>

\* A loop that counts from 1 over an array that starts at 0.
BeginSecond(l, over) ==
    /\ StopAt(l, 2, status)
    /\ orderly' = (orderly /\ over /\ \A k \in Shutdowns : index[k] = 0)
    /\ found' = [found EXCEPT ![l] = {stoppers[i] : i \in DOMAIN stoppers}]

Begin(l, over) ==
    /\ StopAt(l, 1, status)
    /\ orderly' = (orderly /\ over /\ \A k \in Shutdowns : index[k] = 0)
    /\ found' = [found EXCEPT ![l] = {stoppers[i] : i \in DOMAIN stoppers}]

\* A starter throws: bootstrap shuts down what has started unless a signal did,
\* without saying that a shutdown is in progress.
FailStart ==
    /\ ~BootstrapOver
    /\ failed' = TRUE
    /\ IF shutdownInProgress
       THEN UNCHANGED <<index, current, closes, status, scrape, orderly, found>>
       ELSE Begin("failure", TRUE)
    /\ UNCHANGED <<boot, stoppers, shutdownInProgress, request>>

\* handleShutdown: later signals are ignored.
Signal ==
    /\ ~shutdownInProgress
    /\ shutdownInProgress' = TRUE
    /\ Begin("signal", BootstrapOver)
    /\ UNCHANGED <<process, request>>

Open == {r \in Requests : request[r] = "open"}

\* The API closes without waiting.
QuietAtOnce(s) == TRUE

\* An HTTP server has closed when its last connection has ended.
Quiet(s) ==
    /\ s = Api => Open = {}
    /\ s = Monitor => scrape = "none"

\* No stopper catches the error of a service that is closed already.
SettlesOnce(l) == closes[l] /\ Quiet(current[l])

\* A stop of a service that another call is closing does not wait for it: the
\* server reports that it is not running, which the stopper logs.
Settles(l) == closes[l] => Quiet(current[l])

\* The stop that shutdown l awaits settles; the next one is called.
EndStop(l) ==
    /\ Running(l)
    /\ Settles(l)
    /\ StopAt(l, index[l] + 1,
              IF closes[l] THEN [status EXCEPT ![current[l]] = "closed"] ELSE status)
    /\ UNCHANGED <<process, shutdownInProgress, request, orderly, found>>

-----------------------------------------------------------------------------
\* The API accepts a connection.
Accept(r) ==
    /\ request[r] = "none"
    /\ status[Api] = "up"
    /\ request' = [request EXCEPT ![r] = "open"]
    /\ UNCHANGED <<process, shutdown, status, scrape>>

\* The response is sent.  A snapshot or an analysis result may still be on its
\* way to the database.
Respond(r) ==
    /\ request[r] = "open"
    /\ \E then \in {"background", "done"} : request' = [request EXCEPT ![r] = then]
    /\ UNCHANGED <<process, shutdown, status, scrape>>

\* A query finds the database closed.
Refuse(r) ==
    /\ request[r] = "open"
    /\ status[Database] # "up"
    /\ request' = [request EXCEPT ![r] = "refused"]
    /\ UNCHANGED <<process, shutdown, status, scrape>>

\* Whether or not it succeeds: failures are logged.
EndBackground(r) ==
    /\ request[r] = "background"
    /\ request' = [request EXCEPT ![r] = "done"]
    /\ UNCHANGED <<process, shutdown, status, scrape>>

-----------------------------------------------------------------------------
AnswerScrape ==
    /\ scrape = "metrics"
    /\ scrape' = "none"
    /\ UNCHANGED <<process, shutdown, status, request>>

\* The handler never answers what is not a GET of the metrics: the connection
\* ends when the client gives up.
GiveUp ==
    /\ scrape = "other"
    /\ scrape' = "none"
    /\ UNCHANGED <<process, shutdown, status, request>>

-----------------------------------------------------------------------------
Next ==
    \/ StartService \/ FailStart \/ Signal
    \/ AnswerScrape \/ GiveUp
    \/ \E l \in Shutdowns : EndStop(l)
    \/ \E r \in Requests : Accept(r) \/ Respond(r) \/ Refuse(r) \/ EndBackground(r)

\* The promises bootstrap and the shutdowns await settle, and requests are
\* answered: queries and calls to other services have timeouts.  Nothing makes a
\* client give up.
Fairness ==
    /\ WF_vars(StartService \/ FailStart)
    /\ WF_vars(AnswerScrape)
    /\ \A l \in Shutdowns : WF_vars(EndStop(l))
    /\ \A r \in Requests : WF_vars(Respond(r) \/ Refuse(r)) /\ WF_vars(EndBackground(r))

Spec == Init /\ [][Next]_vars /\ Fairness

-----------------------------------------------------------------------------
\* Every variable keeps its type.
TypeOK ==
    /\ boot \in 0 .. Len(Services)
    /\ failed \in BOOLEAN
    /\ stoppers \in Seq(Stoppable) /\ Len(stoppers) <= boot
    /\ status \in [Names -> {"off", "up", "closing", "closed"}]
    /\ shutdownInProgress \in BOOLEAN
    /\ index \in [Shutdowns -> 0 .. Len(Services) + 1]
    /\ current \in [Shutdowns -> Stoppable \cup {"none"}]
    /\ closes \in [Shutdowns -> BOOLEAN]
    /\ request \in [Requests -> {"none", "open", "background", "refused", "done"}]
    /\ scrape \in Scrapes
    /\ orderly \in BOOLEAN
    /\ found \in [Shutdowns -> SUBSET Stoppable]

\* A shutdown that begins when bootstrap is over, and is the only one, closes
\* each service after all that started later: unshift makes the array a stack.
ReverseOrder ==
    orderly =>
        \A i, j \in DOMAIN Services :
            i < j /\ status[Services[i]] \in {"closing", "closed"} =>
                status[Services[j]] \in {"off", "closed"} \/ Services[j] \notin Stoppable

\* In such a shutdown no request that a client still waits for finds the
\* database closed: the API closes first and waits for its connections.
OpenRequestsHaveDatabase == orderly /\ Open # {} => status[Database] = "up"

\* Shutdown k awaits the stop that closes s.
ClosedBy(k, s) == Running(k) /\ closes[k] /\ current[k] = s

\* When such a shutdown is over, every service that has started and can be
\* stopped is closed.  Any other shutdown passes over none of those that had started
\* when it began, although later ones move the array under its loop, and leaves
\* none half closed: when it is over, only the other one may still be closing it.
ShutdownStopsAll ==
    /\ orderly /\ (\E l \in Shutdowns : Over(l)) =>
         \A s \in Stoppable : status[s] \in {"off", "closed"}
    /\ \A l \in Shutdowns : Over(l) =>
         \A s \in found[l] : status[s] = "closed" \/ \E k \in Shutdowns : ClosedBy(k, s)

\* Every shutdown comes to its end, although services that start meanwhile add
\* stoppers before the place it has come to, and although another shutdown may
\* be closing the same services, if no client waits for ever for an answer of the
\* Monitor that never comes: its stop, the first of all, would wait for that client.
ShutdownEnds ==
    []<>(scrape # "other") =>
        ((\E l \in Shutdowns : Running(l)) ~> (\A l \in Shutdowns : ~Running(l)))

\* "Need stoppers to run one-at-a-time in order."
StoppersOneAtATime == ~(Running("signal") /\ Running("failure"))
=============================================================================
