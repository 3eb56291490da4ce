----------------------- MODULE ServiceLifecycle_proofs -----------------------
(***************************************************************************)
(* Proofs about ServiceLifecycle, for any services that bootstrap starts   *)
(* in any order in which the database comes before the API.                *)
(***************************************************************************)
EXTENDS ServiceLifecycle, SequenceTheorems, TLAPS

-----------------------------------------------------------------------------
(***************************************************************************)
(* The inductive invariant.                                                *)
(***************************************************************************)
\* What services have started and can be stopped is in the array, the latest first.
Stacked ==
    /\ \A i \in 1 .. boot : Services[i] \in Stoppable =>
         \E p \in DOMAIN stoppers : stoppers[p] = Services[i]
    /\ \A p \in DOMAIN stoppers : \E i \in 1 .. boot : stoppers[p] = Services[i]
    /\ \A p, q \in DOMAIN stoppers, i, j \in 1 .. boot :
         stoppers[p] = Services[i] /\ stoppers[q] = Services[j] => (p < q <=> j < i)

\* What has not started is off, what cannot be stopped is never closed.
StatusFits ==
    /\ \A i \in DOMAIN Services : i > boot => status[Services[i]] = "off"
    /\ \A i \in 1 .. boot : status[Services[i]] # "off"
    /\ \A s \in Names \ Stoppable : status[s] \in {"off", "up"}

\* A shutdown awaits the stop it has come to, and ends behind the last.
PlaceFits(l) ==
    /\ Running(l) => index[l] \in DOMAIN stoppers /\ status[current[l]] # "off"
    /\ index[l] = 0 => ~Running(l)

\* Until a shutdown begins, nothing closes.
Undisturbed ==
    /\ \A s \in Names : status[s] \in {"off", "up"}
    /\ \A l \in Shutdowns : ~Running(l)

\* The only shutdown, begun when bootstrap was over: behind it everything is
\* closed, before it everything is up.
Advancing(l) ==
    /\ BootstrapOver
    /\ \A k \in Shutdowns \ {l} : index[k] = 0
    /\ \A p \in DOMAIN stoppers :
         /\ p < index[l] => status[stoppers[p]] = "closed"
         /\ p = index[l] => status[stoppers[p]] = "closing"
         /\ p > index[l] => status[stoppers[p]] = "up"
    /\ index[l] \in DOMAIN stoppers => current[l] = stoppers[index[l]] /\ closes[l]
    /\ index[l] \notin DOMAIN stoppers => ~Running(l)

OrderlyFits ==
    orderly => \/ (\A l \in Shutdowns : index[l] = 0) /\ Undisturbed
               \/ \E l \in Shutdowns : index[l] > 0 /\ Advancing(l)

\* Connections are to an API that has not closed.
OpenFits == Open # {} => status[Api] \in {"up", "closing"}

\* A shutdown that has begun has left its mark.
BegunFits ==
    /\ index["signal"] # 0 => shutdownInProgress
    /\ index["failure"] # 0 => failed

\* Wherever the array has moved to, what a shutdown found and has not begun to
\* close has its place ahead of the loop.
Ahead(l) ==
    index[l] > 0 =>
        \A s \in found[l] :
            /\ status[s] # "off"
            /\ status[s] = "up" =>
                 Running(l) /\ \E p \in DOMAIN stoppers : p > index[l] /\ stoppers[p] = s

\* What is being closed, one shutdown awaits, and no other thinks it closes it.
ClosingFits ==
    /\ \A l \in Shutdowns : Running(l) /\ closes[l] => status[current[l]] = "closing"
    /\ \A s \in Names : status[s] = "closing" => \E l \in Shutdowns : ClosedBy(l, s)
    /\ \A k, l \in Shutdowns, s \in Names : ClosedBy(k, s) /\ ClosedBy(l, s) => k = l

IInv ==
    /\ BegunFits /\ ClosingFits
    /\ TypeOK /\ Stacked /\ StatusFits
    /\ \A l \in Shutdowns : PlaceFits(l)
    /\ \A l \in Shutdowns : Ahead(l)
    /\ OrderlyFits /\ OpenFits

-----------------------------------------------------------------------------
(***************************************************************************)
(* The array of stoppers.                                                  *)
(***************************************************************************)
Status == [Names -> {"off", "up", "closing", "closed"}]

\* Every service has one place in the array.
LEMMA StoppersDistinct ==
    ASSUME Stacked, TypeOK,
           NEW p \in DOMAIN stoppers, NEW q \in DOMAIN stoppers, stoppers[p] = stoppers[q]
    PROVE  p = q
<1>1. PICK i \in 1 .. boot : stoppers[p] = Services[i]
  BY DEF Stacked
<1>2. ~(p < q) /\ ~(q < p)
  <2>1. i < i <=> FALSE
    BY DEF TypeOK
  <2>2. QED
    BY <1>1, <2>1 DEF Stacked
<1>3. p \in Nat /\ q \in Nat
  BY DEF TypeOK
<1>4. QED
  BY <1>2, <1>3

LEMMA StoppersTyped ==
    ASSUME TypeOK, NEW p \in DOMAIN stoppers
    PROVE  stoppers[p] \in Stoppable /\ stoppers[p] \in Names /\ stoppers[p] # "none"
BY ServicesAssumption DEF TypeOK

\* What has started is up or was.
LEMMA StoppersStarted ==
    ASSUME TypeOK, Stacked, StatusFits, NEW p \in DOMAIN stoppers
    PROVE  status[stoppers[p]] # "off"
BY DEF Stacked, StatusFits

\* A loop's next place.
LEMMA StopAtFacts ==
    ASSUME TypeOK, NEW l \in Shutdowns, NEW i \in 1 .. Len(stoppers) + 1, NEW now \in Status,
           StopAt(l, i, now)
    PROVE  /\ index' \in [Shutdowns -> 0 .. Len(Services) + 1]
           /\ current' \in [Shutdowns -> Stoppable \cup {"none"}]
           /\ closes' \in [Shutdowns -> BOOLEAN] /\ status' \in Status
           /\ index'[l] = i
           /\ \A k \in Shutdowns \ {l} : /\ index'[k] = index[k] /\ current'[k] = current[k]
                                          /\ closes'[k] = closes[k]
           /\ i \in DOMAIN stoppers =>
                /\ current'[l] = stoppers[i] /\ closes'[l] = (now[stoppers[i]] = "up")
                /\ status'[stoppers[i]] = IF now[stoppers[i]] = "up" THEN "closing"
                                          ELSE now[stoppers[i]]
                /\ \A s \in Names \ {stoppers[i]} : status'[s] = now[s]
           /\ i \notin DOMAIN stoppers => current'[l] = "none" /\ status' = now
           /\ scrape' \in Scrapes
<1>0. scrape' \in Scrapes
  BY DEF StopAt, TypeOK
<1>1. i \in 0 .. Len(Services) + 1
  BY DEF TypeOK
<1>2. index' \in [Shutdowns -> 0 .. Len(Services) + 1] /\ index'[l] = i
      /\ \A k \in Shutdowns \ {l} : index'[k] = index[k]
  BY <1>1 DEF StopAt, TypeOK
<1>3. CASE i \in DOMAIN stoppers
  <2> DEFINE s == stoppers[i]
  <2>1. s \in Names /\ s \in Stoppable
    BY <1>3, StoppersTyped
  <2>2. /\ current' = [current EXCEPT ![l] = s]
        /\ closes' = [closes EXCEPT ![l] = (now[s] = "up")]
        /\ status' = [now EXCEPT ![s] = IF @ = "up" THEN "closing" ELSE @]
    BY <1>3 DEF StopAt
  <2> HIDE DEF s
  <2>3. current' \in [Shutdowns -> Stoppable \cup {"none"}] /\ current'[l] = s
        /\ \A k \in Shutdowns \ {l} : current'[k] = current[k]
    BY <2>1, <2>2 DEF TypeOK
  <2>4. /\ closes' \in [Shutdowns -> BOOLEAN] /\ closes'[l] = (now[s] = "up")
        /\ \A k \in Shutdowns \ {l} : closes'[k] = closes[k]
    <3> DEFINE b == now[s] = "up"
    <3>1. b \in BOOLEAN /\ closes \in [Shutdowns -> BOOLEAN] /\ closes' = [closes EXCEPT ![l] = b]
      BY <2>2 DEF TypeOK
    <3> HIDE DEF b
    <3>2. /\ closes' \in [Shutdowns -> BOOLEAN] /\ closes'[l] = b
          /\ \A k \in Shutdowns \ {l} : closes'[k] = closes[k]
      BY <3>1
    <3>3. QED
      BY <3>2 DEF b
  <2>5. /\ status' \in Status
        /\ status'[s] = IF now[s] = "up" THEN "closing" ELSE now[s]
        /\ \A t \in Names \ {s} : status'[t] = now[t]
    BY <2>1, <2>2 DEF Status
  <2>6. QED
    BY <1>0, <1>2, <1>3, <2>3, <2>4, <2>5 DEF s
<1>4. CASE i \notin DOMAIN stoppers
  BY <1>0, <1>2, <1>4 DEF StopAt, TypeOK
<1>5. QED
  BY <1>3, <1>4

\* A loop's next place, where what is closing is another shutdown's to close.
LEMMA StopAtCloses ==
    ASSUME TypeOK, NEW l \in Shutdowns, NEW i \in 1 .. Len(stoppers) + 1, NEW now \in Status,
           StopAt(l, i, now),
           \A k \in Shutdowns \ {l} : Running(k) /\ closes[k] => now[current[k]] = "closing",
           \A s \in Names : now[s] = "closing" => \E k \in Shutdowns \ {l} : ClosedBy(k, s),
           \A k, m \in Shutdowns \ {l}, s \in Names :
              ClosedBy(k, s) /\ ClosedBy(m, s) => k = m
    PROVE  ClosingFits'
<1>1. /\ \A k \in Shutdowns \ {l} : current'[k] = current[k] /\ closes'[k] = closes[k]
      /\ i \in DOMAIN stoppers =>
           /\ current'[l] = stoppers[i] /\ closes'[l] = (now[stoppers[i]] = "up")
           /\ status'[stoppers[i]] = IF now[stoppers[i]] = "up" THEN "closing"
                                     ELSE now[stoppers[i]]
           /\ \A s \in Names \ {stoppers[i]} : status'[s] = now[s]
      /\ i \notin DOMAIN stoppers => current'[l] = "none" /\ status' = now
  BY StopAtFacts
<1>2. \A k \in Shutdowns \ {l} : (Running(k)' <=> Running(k))
                                /\ \A s : ClosedBy(k, s)' <=> ClosedBy(k, s)
  BY <1>1 DEF Running, ClosedBy
<1>3. \A k \in Shutdowns : Running(k) => current[k] \in Names
  BY ServicesAssumption DEF TypeOK, Running
<1>4. CASE i \in DOMAIN stoppers
  <2> DEFINE t == stoppers[i]
  <2>1. t \in Names /\ t # "none"
    BY <1>4, StoppersTyped
  <2>2. /\ current'[l] = t /\ closes'[l] = (now[t] = "up")
        /\ status'[t] = IF now[t] = "up" THEN "closing" ELSE now[t]
        /\ \A s \in Names \ {t} : status'[s] = now[s]
    BY <1>1, <1>4
  <2> HIDE DEF t
  <2>3. \A s : ClosedBy(l, s)' <=> s = t /\ now[t] = "up"
    BY <2>1, <2>2 DEF ClosedBy, Running
  <2>4. ASSUME NEW k \in Shutdowns, Running(k)', closes'[k]
        PROVE  status'[current'[k]] = "closing"
    <3>1. CASE k = l
      BY <2>2, <2>4, <3>1
    <3>2. CASE k # l
      <4>1. now[current[k]] = "closing" /\ current[k] \in Names
        BY <1>1, <1>2, <1>3, <2>4, <3>2
      <4>2. QED
        BY <1>1, <2>2, <3>2, <4>1
    <3>3. QED
      BY <3>1, <3>2
  <2>5. ASSUME NEW s \in Names, status'[s] = "closing"
        PROVE  \E k \in Shutdowns : ClosedBy(k, s)'
    <3>1. CASE s = t /\ now[t] = "up"
      BY <2>3, <3>1
    <3>2. CASE ~(s = t /\ now[t] = "up")
      <4>1. now[s] = "closing"
        BY <2>2, <2>5, <3>2
      <4>2. QED
        BY <1>2, <4>1
    <3>3. QED
      BY <3>1, <3>2
  <2>6. ASSUME NEW k \in Shutdowns \ {l}, NEW s \in Names, ClosedBy(k, s)'
        PROVE  ~ClosedBy(l, s)'
    <3>1. ClosedBy(k, s)
      BY <1>2, <2>6
    <3>2. now[s] = "closing"
      BY <3>1 DEF ClosedBy
    <3>3. QED
      BY <2>3, <3>2
  <2>7. \A k, m \in Shutdowns, s \in Names : ClosedBy(k, s)' /\ ClosedBy(m, s)' => k = m
    BY <1>2, <2>6
  <2>8. QED
    BY <2>4, <2>5, <2>7 DEF ClosingFits
<1>5. CASE i \notin DOMAIN stoppers
  <2>1. ~Running(l)' /\ status' = now /\ \A s : ~ClosedBy(l, s)'
    BY <1>1, <1>5 DEF Running, ClosedBy
  <2>2. \A k \in Shutdowns : Running(k)' /\ closes'[k] => status'[current'[k]] = "closing"
    BY <1>1, <1>2, <2>1
  <2>3. \A s \in Names : status'[s] = "closing" => \E k \in Shutdowns : ClosedBy(k, s)'
    BY <1>2, <2>1
  <2>4. \A k, m \in Shutdowns, s \in Names : ClosedBy(k, s)' /\ ClosedBy(m, s)' => k = m
    BY <1>2, <2>1
  <2>5. QED
    BY <2>2, <2>3, <2>4 DEF ClosingFits
<1>6. QED
  BY <1>4, <1>5

-----------------------------------------------------------------------------
(***************************************************************************)
(* Bootstrap.                                                              *)
(***************************************************************************)
\* unshift puts the latest service first.
LEMMA StackedGrows ==
    ASSUME IInv, StartService
    PROVE  /\ Stacked' /\ stoppers' \in Seq(Stoppable) /\ Len(stoppers') <= boot'
           /\ Len(stoppers) <= Len(stoppers')
           /\ \A p \in DOMAIN stoppers : \E q \in DOMAIN stoppers' :
                p <= q /\ stoppers'[q] = stoppers[p]
<1> DEFINE s == Services[boot + 1]
<1>1. /\ boot \in Nat /\ boot' = boot + 1 /\ boot + 1 \in DOMAIN Services
      /\ stoppers \in Seq(Stoppable) /\ Len(stoppers) <= boot /\ Len(stoppers) \in Nat
      /\ boot < Len(Services) /\ Len(Services) \in Nat
  BY ServicesAssumption DEF StartService, BootstrapOver, IInv, TypeOK
<1>2. \A i \in 1 .. boot : i \in DOMAIN Services /\ Services[i] # s
  BY <1>1, ServicesAssumption
<1>3. CASE s \notin Stoppable
  <2>1. stoppers' = stoppers
    BY <1>3 DEF StartService
  <2>2. \A i \in 1 .. boot' : i \in 1 .. boot \/ i = boot + 1
    BY <1>1
  <2>3. \A p \in DOMAIN stoppers : stoppers[p] # s
    BY <1>1, <1>3
  <2>4. \A i \in 1 .. boot : i \in 1 .. boot'
    BY <1>1
  <2>5. Stacked'
    BY <1>3, <2>1, <2>2, <2>3, <2>4 DEF IInv, Stacked
  <2>6. \A p \in DOMAIN stoppers : p <= p
    BY <1>1
  <2>7. QED
    BY <1>1, <2>1, <2>5, <2>6
<1>4. CASE s \in Stoppable
  <2>1. stoppers' = <<s>> \o stoppers
    BY <1>4 DEF StartService, AddStopper
  <2> HIDE DEF s
  <2>2. /\ stoppers' \in Seq(Stoppable) /\ Len(stoppers') = Len(stoppers) + 1
        /\ stoppers'[1] = s
        /\ \A p \in DOMAIN stoppers : stoppers'[p + 1] = stoppers[p]
    BY <1>1, <1>4, <2>1
  <2>3. \A p \in DOMAIN stoppers' : p = 1 \/ \E q \in DOMAIN stoppers : p = q + 1
    <3>1. ASSUME NEW p \in DOMAIN stoppers', p # 1
          PROVE  p - 1 \in DOMAIN stoppers /\ p = (p - 1) + 1
      BY <1>1, <2>2, <3>1
    <3>2. QED
      BY <3>1
  <2>4. \A i \in 1 .. boot' : i \in 1 .. boot \/ i = boot + 1
    BY <1>1
  <2>5. \A i \in 1 .. boot : i \in 1 .. boot'
    BY <1>1
  <2>6. ASSUME NEW i \in 1 .. boot', Services[i] \in Stoppable
        PROVE  \E p \in DOMAIN stoppers' : stoppers'[p] = Services[i]
    <3>1. CASE i = boot + 1
      BY <1>1, <2>2, <3>1 DEF s
    <3>2. CASE i \in 1 .. boot
      <4>1. PICK q \in DOMAIN stoppers : stoppers[q] = Services[i]
        BY <2>6, <3>2 DEF IInv, Stacked
      <4>2. q + 1 \in DOMAIN stoppers' /\ stoppers'[q + 1] = Services[i]
        BY <1>1, <2>2, <4>1
      <4>3. QED
        BY <4>2
    <3>3. QED
      BY <2>4, <3>1, <3>2
  <2>7. ASSUME NEW p \in DOMAIN stoppers'
        PROVE  \E i \in 1 .. boot' : stoppers'[p] = Services[i]
    <3>1. CASE p = 1
      <4>1. boot + 1 \in 1 .. boot'
        BY <1>1
      <4>2. QED
        BY <2>2, <3>1, <4>1 DEF s
    <3>2. CASE p # 1
      <4>1. PICK q \in DOMAIN stoppers : p = q + 1
        BY <2>3, <3>2
      <4>2. QED
        BY <2>2, <2>5, <4>1 DEF IInv, Stacked
    <3>3. QED
      BY <3>1, <3>2
  <2>8. ASSUME NEW p \in DOMAIN stoppers', NEW q \in DOMAIN stoppers',
               NEW i \in 1 .. boot', NEW j \in 1 .. boot',
               stoppers'[p] = Services[i], stoppers'[q] = Services[j]
        PROVE  p < q <=> j < i
    <3>1. \A k \in DOMAIN stoppers : stoppers[k] # s
      BY <1>2 DEF IInv, Stacked
    <3>2. \A k \in DOMAIN stoppers : k \in Nat /\ k >= 1
      BY <1>1
    <3>3. CASE p = 1 /\ q = 1
      <4>1. i = boot + 1 /\ j = boot + 1
        BY <1>2, <2>2, <2>4, <2>8, <3>3
      <4>2. QED
        BY <1>1, <3>3, <4>1
    <3>4. CASE p = 1 /\ q # 1
      <4>1. PICK k \in DOMAIN stoppers : q = k + 1
        BY <2>3, <3>4
      <4>2. i = boot + 1 /\ j \in 1 .. boot
        BY <1>2, <2>2, <2>4, <2>8, <3>1, <3>4, <4>1 DEF s
      <4>3. QED
        BY <1>1, <3>2, <3>4, <4>1, <4>2
    <3>5. CASE p # 1 /\ q = 1
      <4>1. PICK k \in DOMAIN stoppers : p = k + 1
        BY <2>3, <3>5
      <4>2. j = boot + 1 /\ i \in 1 .. boot
        BY <1>2, <2>2, <2>4, <2>8, <3>1, <3>5, <4>1 DEF s
      <4>3. QED
        BY <1>1, <3>2, <3>5, <4>1, <4>2
    <3>6. CASE p # 1 /\ q # 1
      <4>1. PICK k \in DOMAIN stoppers : p = k + 1
        BY <2>3, <3>6
      <4>2. PICK m \in DOMAIN stoppers : q = m + 1
        BY <2>3, <3>6
      <4>3. i \in 1 .. boot /\ j \in 1 .. boot /\ stoppers[k] = Services[i]
            /\ stoppers[m] = Services[j]
        BY <2>2, <2>4, <2>8, <3>1, <4>1, <4>2 DEF s
      <4>4. k < m <=> j < i
        BY <4>3 DEF IInv, Stacked
      <4>5. QED
        BY <3>2, <4>1, <4>2, <4>4
    <3>7. QED
      BY <3>3, <3>4, <3>5, <3>6
  <2>9. Stacked'
    BY <2>6, <2>7, <2>8 DEF Stacked
  <2>10. \A p \in DOMAIN stoppers : p + 1 \in DOMAIN stoppers' /\ p <= p + 1
    BY <1>1, <2>2
  <2>11. QED
    BY <1>1, <2>2, <2>9, <2>10
<1>5. QED
  BY <1>3, <1>4

\* While bootstrap goes on, the only shutdown there can be is not orderly.
LEMMA StartServiceInv ==
    ASSUME IInv, StartService
    PROVE  IInv'
<1> DEFINE s == Services[boot + 1]
<1>1. /\ boot \in Nat /\ boot' = boot + 1 /\ boot + 1 \in DOMAIN Services
      /\ boot < Len(Services) /\ Len(Services) \in Nat /\ s \in Names
      /\ status' = [status EXCEPT ![s] = "up"] /\ ~BootstrapOver
      /\ UNCHANGED <<failed, shutdown, request, scrape>>
  BY ServicesAssumption DEF StartService, BootstrapOver, IInv, TypeOK, Names
<1>2. /\ Stacked' /\ stoppers' \in Seq(Stoppable) /\ Len(stoppers') <= boot'
      /\ Len(stoppers) <= Len(stoppers')
      /\ \A p \in DOMAIN stoppers : \E q \in DOMAIN stoppers' :
           p <= q /\ stoppers'[q] = stoppers[p]
  BY StackedGrows
<1> HIDE DEF s
<1>3. /\ status' \in Status /\ status'[s] = "up"
      /\ \A t \in Names \ {s} : status'[t] = status[t]
  BY <1>1 DEF IInv, TypeOK, Status
<1>4. TypeOK'
  BY <1>1, <1>2, <1>3 DEF IInv, TypeOK, Status, shutdown
<1>5. StatusFits'
  <2>0. Services \in Seq(STRING)
    BY ServicesAssumption
  <2>1. \A i \in DOMAIN Services : i \in Nat /\ i >= 1 /\ Services[i] \in Names
    BY <2>0 DEF Names
  <2>2. \A i \in DOMAIN Services : Services[i] = s => i = boot + 1
    BY <1>1, ServicesAssumption DEF s
  <2>3. \A i \in DOMAIN Services : i > boot' => status'[Services[i]] = "off"
    BY <1>1, <1>3, <2>1, <2>2 DEF IInv, StatusFits
  <2>4. \A i \in 1 .. boot' : status'[Services[i]] # "off"
    <3>1. ASSUME NEW i \in 1 .. boot'
          PROVE  status'[Services[i]] # "off"
      <4>1. i \in DOMAIN Services /\ (i \in 1 .. boot \/ i = boot + 1)
        BY <1>1
      <4>2. CASE i = boot + 1
        BY <1>3, <4>2 DEF s
      <4>3. CASE i # boot + 1
        BY <1>3, <2>1, <2>2, <4>1, <4>3 DEF IInv, StatusFits
      <4>4. QED
        BY <4>2, <4>3
    <3>2. QED
      BY <3>1
  <2>5. \A t \in Names \ Stoppable : status'[t] \in {"off", "up"}
    BY <1>3 DEF IInv, StatusFits
  <2>6. QED
    BY <2>3, <2>4, <2>5 DEF StatusFits
<1>6. \A l \in Shutdowns : PlaceFits(l)'
  <2>1. \A p \in DOMAIN stoppers : p \in DOMAIN stoppers'
    BY <1>2 DEF IInv, TypeOK
  <2>2. \A l \in Shutdowns : Running(l) => current[l] \in Names
    BY ServicesAssumption DEF IInv, TypeOK, Running
  <2>3. QED
    BY <1>1, <1>3, <2>1, <2>2 DEF IInv, PlaceFits, shutdown, Running
<1>7. OrderlyFits'
  <2>1. CASE orderly
    <3>1. (\A l \in Shutdowns : index[l] = 0) /\ Undisturbed
      BY <1>1, <2>1 DEF IInv, OrderlyFits, Advancing
    <3>2. Undisturbed'
      BY <1>1, <1>3, <3>1 DEF Undisturbed, shutdown, Running
    <3>3. QED
      BY <1>1, <3>1, <3>2 DEF OrderlyFits, shutdown
  <2>2. CASE ~orderly
    BY <1>1, <2>2 DEF OrderlyFits, shutdown
  <2>3. QED
    BY <2>1, <2>2
<1>8. OpenFits'
  <2>1. Open' = Open /\ Api \in Names
    BY <1>1, ServicesAssumption DEF Open
  <2>2. QED
    BY <1>3, <2>1 DEF IInv, OpenFits
<1>9. BegunFits'
  BY <1>1 DEF IInv, BegunFits, shutdown
<1>10. \A l \in Shutdowns : Ahead(l)'
  <2>1. SUFFICES ASSUME NEW l \in Shutdowns, index[l] > 0, NEW t \in found[l]
                 PROVE  /\ status'[t] # "off"
                        /\ status'[t] = "up" =>
                             Running(l) /\ \E q \in DOMAIN stoppers' :
                                            q > index[l] /\ stoppers'[q] = t
    BY <1>1 DEF Ahead, Running, shutdown
  <2>2. t \in Names
    BY ServicesAssumption DEF IInv, TypeOK
  <2>3. status[s] = "off"
    <3>1. boot + 1 > boot
      BY <1>1
    <3>2. QED
      BY <1>1, <3>1 DEF IInv, StatusFits, s
  <2>4. status[t] # "off" /\ t # s /\ status'[t] = status[t]
    BY <1>3, <2>1, <2>2, <2>3 DEF IInv, Ahead
  <2>5. CASE status[t] = "up"
    <3>1. PICK p \in DOMAIN stoppers : p > index[l] /\ stoppers[p] = t
      BY <2>1, <2>5 DEF IInv, Ahead
    <3>2. PICK q \in DOMAIN stoppers' : p <= q /\ stoppers'[q] = t
      BY <1>2, <3>1
    <3>3. q > index[l]
      BY <1>2, <3>1, <3>2 DEF IInv, TypeOK
    <3>4. QED
      BY <2>1, <2>4, <2>5, <3>2, <3>3 DEF IInv, Ahead
  <2>6. QED
    BY <2>4, <2>5
<1>11. ClosingFits'
  <2>1. status[s] = "off" /\ \A l \in Shutdowns : Running(l) => current[l] \in Names
    <3>1. boot + 1 > boot
      BY <1>1
    <3>2. QED
      BY <1>1, <3>1, ServicesAssumption DEF IInv, TypeOK, StatusFits, Running, s
  <2>2. \A t \in Names : status'[t] = "closing" <=> status[t] = "closing"
    BY <1>3, <2>1
  <2>3. UNCHANGED <<current, closes>>
    BY <1>1 DEF shutdown
  <2>4. QED
    BY <2>1, <2>2, <2>3 DEF IInv, ClosingFits, ClosedBy, Running
<1>12. QED
  BY <1>2, <1>4, <1>5, <1>6, <1>7, <1>8, <1>9, <1>10, <1>11 DEF IInv

-----------------------------------------------------------------------------
(***************************************************************************)
(* Shutdowns.                                                              *)
(***************************************************************************)
\* A shutdown that begins closes what was started last.
LEMMA BeginStep ==
    ASSUME IInv, NEW l \in Shutdowns, NEW over, Begin(l, over), index[l] = 0,
           over => BootstrapOver',
           failed' \in BOOLEAN, shutdownInProgress' \in BOOLEAN,
           l = "signal" => shutdownInProgress', l = "failure" => failed',
           shutdownInProgress => shutdownInProgress', failed => failed',
           UNCHANGED <<boot, stoppers, request>>, over \in BOOLEAN
    PROVE  IInv'
<1>1. /\ StopAt(l, 1, status)
      /\ orderly' = (orderly /\ over /\ \A k \in Shutdowns : index[k] = 0)
      /\ found' = [found EXCEPT ![l] = {stoppers[i] : i \in DOMAIN stoppers}]
  BY DEF Begin
<1>2. 1 \in 1 .. Len(stoppers) + 1 /\ status \in Status /\ Len(stoppers) \in Nat
  BY DEF IInv, TypeOK, Status
<1>3. /\ index' \in [Shutdowns -> 0 .. Len(Services) + 1]
      /\ current' \in [Shutdowns -> Stoppable \cup {"none"}]
      /\ closes' \in [Shutdowns -> BOOLEAN] /\ status' \in Status
      /\ index'[l] = 1
      /\ \A k \in Shutdowns \ {l} : index'[k] = index[k] /\ current'[k] = current[k]
      /\ 1 \in DOMAIN stoppers =>
           /\ current'[l] = stoppers[1] /\ closes'[l] = (status[stoppers[1]] = "up")
           /\ status'[stoppers[1]] = IF status[stoppers[1]] = "up" THEN "closing"
                                     ELSE status[stoppers[1]]
           /\ \A s \in Names \ {stoppers[1]} : status'[s] = status[s]
      /\ 1 \notin DOMAIN stoppers => current'[l] = "none" /\ status' = status
      /\ scrape' \in Scrapes
  BY <1>1, <1>2, StopAtFacts DEF IInv
<1>4. \A s \in Names : status'[s] = status[s] \/ (status[s] = "up" /\ status'[s] = "closing"
                                                /\ s \in Stoppable)
  BY <1>3, StoppersTyped DEF IInv
<1>5. TypeOK'
  <2>1. orderly' \in BOOLEAN
    BY <1>1
  <2>2. {stoppers[i] : i \in DOMAIN stoppers} \subseteq Stoppable
    BY StoppersTyped DEF IInv
  <2>3. found' \in [Shutdowns -> SUBSET Stoppable]
    BY <1>1, <2>2 DEF IInv, TypeOK
  <2>4. QED
    BY <1>3, <2>1, <2>3 DEF IInv, TypeOK, Status
<1>6. Stacked'
  BY DEF IInv, Stacked
<1>7. StatusFits'
  <2>1. \A i \in DOMAIN Services : Services[i] \in Names
    BY DEF Names
  <2>2. \A i \in 1 .. boot : i \in DOMAIN Services
    BY ServicesAssumption DEF IInv, TypeOK
  <2>3. QED
    BY <1>4, <2>1, <2>2 DEF IInv, StatusFits
<1>8. \A k \in Shutdowns : PlaceFits(k)'
  <2>1. 1 \in DOMAIN stoppers => status'[stoppers[1]] # "off"
    BY <1>3, StoppersStarted DEF IInv
  <2>2. \A k \in Shutdowns : Running(k) => current[k] \in Names
    BY ServicesAssumption DEF IInv, TypeOK, Running
  <2>3. QED
    BY <1>3, <1>4, <2>1, <2>2 DEF IInv, PlaceFits, Running
<1>9. OrderlyFits'
  <2>1. SUFFICES ASSUME orderly'
                 PROVE  Advancing(l)' /\ index'[l] > 0
    BY DEF OrderlyFits
  <2>2. /\ orderly /\ over /\ \A k \in Shutdowns : index[k] = 0
    BY <1>1, <2>1
  <2>3. Undisturbed
    BY <2>2 DEF IInv, OrderlyFits
  <2>4. \A p \in DOMAIN stoppers : status[stoppers[p]] = "up" /\ stoppers[p] \in Names
    BY <2>3, StoppersStarted, StoppersTyped DEF IInv, Undisturbed
  <2>5. \A p \in DOMAIN stoppers : p \in Nat /\ p >= 1 /\ (p # 1 => 1 \in DOMAIN stoppers)
    BY <1>2
  <2>6. ASSUME NEW p \in DOMAIN stoppers
        PROVE  /\ p < index'[l] => status'[stoppers[p]] = "closed"
               /\ p = index'[l] => status'[stoppers[p]] = "closing"
               /\ p > index'[l] => status'[stoppers[p]] = "up"
    <3>1. CASE p = 1
      BY <1>3, <2>4, <3>1
    <3>2. CASE p # 1
      <4>1. stoppers[p] # stoppers[1] /\ 1 \in DOMAIN stoppers
        BY <2>5, <3>2, StoppersDistinct DEF IInv
      <4>2. QED
        BY <1>3, <2>4, <2>5, <3>2, <4>1
    <3>3. QED
      BY <3>1, <3>2
  <2>7. \A k \in Shutdowns \ {l} : index'[k] = 0
    BY <1>3, <2>2
  <2>8. QED
    BY <1>3, <2>2, <2>4, <2>6, <2>7 DEF Advancing, Running
<1>10. OpenFits'
  <2>1. Open' = Open /\ Api \in Names
    BY ServicesAssumption DEF Open
  <2>2. QED
    BY <1>4, <2>1 DEF IInv, OpenFits
<1>11. BegunFits'
  BY <1>3 DEF IInv, BegunFits, Shutdowns
<1>12. \A k \in Shutdowns : Ahead(k)'
  <2>1. ASSUME NEW t \in found'[l]
        PROVE  /\ status'[t] # "off"
               /\ status'[t] = "up" =>
                    Running(l)' /\ \E p \in DOMAIN stoppers : p > 1 /\ stoppers[p] = t
    <3>1. found'[l] = {stoppers[i] : i \in DOMAIN stoppers}
      BY <1>1 DEF IInv, TypeOK
    <3>2. PICK p \in DOMAIN stoppers : stoppers[p] = t
      BY <2>1, <3>1
    <3>3. p \in Nat /\ p >= 1 /\ 1 \in DOMAIN stoppers
      BY <1>2
    <3>4. t \in Names /\ status[t] # "off"
      BY <3>2, StoppersStarted, StoppersTyped DEF IInv
    <3>5. current'[l] # "none"
      BY <1>3, <3>3, StoppersTyped DEF IInv
    <3>6. p = 1 => status'[t] # "up"
      BY <1>3, <3>2, <3>3
    <3>7. QED
      BY <1>4, <3>2, <3>3, <3>4, <3>5, <3>6 DEF Running
  <2>2. ASSUME NEW k \in Shutdowns \ {l}
        PROVE  Ahead(k)'
    <3>1. /\ found'[k] = found[k] /\ index'[k] = index[k] /\ current'[k] = current[k]
          /\ stoppers' = stoppers
      BY <1>1, <1>3 DEF IInv, TypeOK
    <3>2. \A t \in found[k] : t \in Names
      BY ServicesAssumption DEF IInv, TypeOK
    <3>3. QED
      BY <1>4, <3>1, <3>2 DEF IInv, Ahead, Running
  <2>3. Ahead(l)'
    BY <1>3, <2>1 DEF Ahead
  <2>4. QED
    BY <2>2, <2>3
<1>13. ClosingFits'
  <2>1. ~Running(l) /\ \A s : ~ClosedBy(l, s)
    BY DEF IInv, PlaceFits, ClosedBy
  <2>2. \A k \in Shutdowns \ {l} : Running(k) /\ closes[k] => status[current[k]] = "closing"
    BY DEF IInv, ClosingFits
  <2>3. \A s \in Names : status[s] = "closing" => \E k \in Shutdowns \ {l} : ClosedBy(k, s)
    BY <2>1 DEF IInv, ClosingFits
  <2>4. \A k, m \in Shutdowns \ {l}, s \in Names : ClosedBy(k, s) /\ ClosedBy(m, s) => k = m
    BY DEF IInv, ClosingFits
  <2>5. QED
    BY <1>1, <1>2, <2>2, <2>3, <2>4, StopAtCloses DEF IInv
<1>14. QED
  BY <1>5, <1>6, <1>7, <1>8, <1>9, <1>10, <1>11, <1>12, <1>13 DEF IInv

LEMMA SignalInv ==
    ASSUME IInv, Signal
    PROVE  IInv'
<1>1. "signal" \in Shutdowns /\ BootstrapOver \in BOOLEAN /\ index["signal"] = 0
  BY DEF Shutdowns, BootstrapOver, IInv, TypeOK, BegunFits, Signal
<1>2. /\ Begin("signal", BootstrapOver) /\ UNCHANGED <<boot, stoppers, request>>
      /\ failed' = failed /\ shutdownInProgress' = TRUE /\ failed \in BOOLEAN
      /\ (BootstrapOver => BootstrapOver')
  BY DEF Signal, process, IInv, TypeOK, BootstrapOver
<1> DEFINE over == BootstrapOver
<1> HIDE DEF over
<1>3. QED
  BY <1>1, <1>2, BeginStep DEF over

LEMMA FailStartInv ==
    ASSUME IInv, FailStart
    PROVE  IInv'
<1>1. CASE ~shutdownInProgress
  <2>1. /\ "failure" \in Shutdowns /\ index["failure"] = 0
        /\ Begin("failure", TRUE) /\ UNCHANGED <<boot, stoppers, request>>
        /\ failed' = TRUE /\ shutdownInProgress' = shutdownInProgress
        /\ shutdownInProgress \in BOOLEAN /\ BootstrapOver'
    BY <1>1 DEF FailStart, Shutdowns, BootstrapOver, IInv, TypeOK, BegunFits
  <2> DEFINE over == TRUE
  <2>2. over \in BOOLEAN /\ Begin("failure", over)
    BY <2>1
  <2> HIDE DEF over
  <2>3. QED
    BY <2>1, <2>2, BeginStep
<1>2. CASE shutdownInProgress
  <2>1. failed' = TRUE /\ UNCHANGED <<index, current, closes, status, orderly, found, boot,
                                      stoppers, shutdownInProgress, request, scrape>>
    BY <1>2 DEF FailStart
  <2>2. TypeOK' /\ Stacked' /\ StatusFits' /\ BegunFits' /\ OpenFits' /\ ClosingFits'
    BY <2>1 DEF IInv, TypeOK, Stacked, StatusFits, BegunFits, OpenFits, Open, ClosingFits,
                ClosedBy, Running
  <2>3. \A l \in Shutdowns : PlaceFits(l)' /\ Ahead(l)'
    BY <2>1 DEF IInv, PlaceFits, Ahead, Running
  <2>4. OrderlyFits'
    BY <2>1 DEF IInv, OrderlyFits, Undisturbed, Advancing, BootstrapOver, Running
  <2>5. QED
    BY <2>2, <2>3, <2>4 DEF IInv
<1>3. QED
  BY <1>1, <1>2

\* A loop goes on to the next place: behind it one more service has closed.
LEMMA EndStopInv ==
    ASSUME IInv, NEW l \in Shutdowns, EndStop(l)
    PROVE  IInv'
<1> DEFINE i == index[l] + 1
           now == IF closes[l] THEN [status EXCEPT ![current[l]] = "closed"] ELSE status
<1>1. /\ Running(l) /\ Settles(l) /\ StopAt(l, i, now)
      /\ UNCHANGED <<boot, failed, stoppers, shutdownInProgress, request, orderly, found>>
  BY DEF EndStop, process
<1>2. /\ i \in 1 .. Len(stoppers) + 1 /\ index[l] \in DOMAIN stoppers /\ index[l] \in Nat
      /\ i = index[l] + 1 /\ Len(stoppers) \in Nat /\ index[l] # 0
  BY <1>1 DEF IInv, PlaceFits, TypeOK
<1>3. /\ now \in Status
      /\ \A s \in Names : now[s] = IF closes[l] /\ s = current[l] THEN "closed" ELSE status[s]
  BY DEF IInv, TypeOK, Status
<1>4. current[l] \in Stoppable
  BY <1>1 DEF IInv, TypeOK, Running
<1> HIDE DEF i, now
<1>5. /\ index' \in [Shutdowns -> 0 .. Len(Services) + 1]
      /\ current' \in [Shutdowns -> Stoppable \cup {"none"}]
      /\ closes' \in [Shutdowns -> BOOLEAN] /\ status' \in Status
      /\ index'[l] = i
      /\ \A k \in Shutdowns \ {l} : index'[k] = index[k] /\ current'[k] = current[k]
      /\ i \in DOMAIN stoppers =>
           /\ current'[l] = stoppers[i] /\ closes'[l] = (now[stoppers[i]] = "up")
           /\ status'[stoppers[i]] = IF now[stoppers[i]] = "up" THEN "closing"
                                     ELSE now[stoppers[i]]
           /\ \A s \in Names \ {stoppers[i]} : status'[s] = now[s]
      /\ i \notin DOMAIN stoppers => current'[l] = "none" /\ status' = now
      /\ scrape' \in Scrapes
  BY <1>1, <1>2, <1>3, StopAtFacts DEF IInv
<1>6. \A s \in Names : status'[s] = now[s] \/ (now[s] = "up" /\ status'[s] = "closing"
                                             /\ s \in Stoppable)
  BY <1>5, StoppersTyped DEF IInv
<1>7. TypeOK'
  BY <1>1, <1>5 DEF IInv, TypeOK, Status
<1>8. Stacked'
  BY <1>1 DEF IInv, Stacked
<1>9. \A s \in Names : /\ status[s] = "off" /\ s # current[l] => status'[s] = "off"
                       /\ status[s] # "off" => status'[s] # "off"
                       /\ s \notin Stoppable => status'[s] = status[s]
  BY <1>3, <1>4, <1>6
<1>10. StatusFits'
  <2>1. \A j \in DOMAIN Services : Services[j] \in Names
    BY DEF Names
  <2>2. \A j \in 1 .. boot : j \in DOMAIN Services
    BY ServicesAssumption DEF IInv, TypeOK
  <2>3. status[current[l]] # "off"
    BY <1>1 DEF IInv, PlaceFits
  <2>4. ASSUME NEW j \in DOMAIN Services, j > boot
        PROVE  status'[Services[j]] = "off"
    <3>1. status[Services[j]] = "off" /\ Services[j] \in Names
      BY <2>1, <2>4 DEF IInv, StatusFits
    <3>2. Services[j] # current[l]
      BY <2>3, <3>1
    <3>3. QED
      BY <1>9, <3>1, <3>2
  <2>5. ASSUME NEW j \in 1 .. boot
        PROVE  status'[Services[j]] # "off"
    BY <1>9, <2>1, <2>2 DEF IInv, StatusFits
  <2>6. \A s \in Names \ Stoppable : status'[s] \in {"off", "up"}
    BY <1>9 DEF IInv, StatusFits
  <2>7. boot' = boot
    BY <1>1
  <2>8. QED
    BY <2>4, <2>5, <2>6, <2>7 DEF StatusFits
<1>11. \A k \in Shutdowns : PlaceFits(k)'
  <2>1. i \in DOMAIN stoppers => status'[stoppers[i]] # "off"
    <3>1. SUFFICES ASSUME i \in DOMAIN stoppers
                   PROVE  status'[stoppers[i]] # "off"
      OBVIOUS
    <3>2. stoppers[i] \in Names /\ status[stoppers[i]] # "off"
      BY <3>1, StoppersStarted, StoppersTyped DEF IInv
    <3>3. QED
      BY <1>9, <3>2
  <2>2. \A k \in Shutdowns : Running(k) => current[k] \in Names
    BY ServicesAssumption DEF IInv, TypeOK, Running
  <2>3. stoppers' = stoppers
    BY <1>1
  <2>4. PlaceFits(l)'
    <3>1. CASE i \in DOMAIN stoppers
      BY <1>2, <1>5, <2>1, <2>3, <3>1 DEF PlaceFits
    <3>2. CASE i \notin DOMAIN stoppers
      BY <1>5, <2>3, <3>2 DEF PlaceFits, Running
    <3>3. QED
      BY <3>1, <3>2
  <2>5. ASSUME NEW k \in Shutdowns \ {l}
        PROVE  PlaceFits(k)'
    <3>1. PlaceFits(k) /\ index'[k] = index[k] /\ current'[k] = current[k]
      BY <1>5 DEF IInv
    <3>2. QED
      BY <1>9, <2>2, <2>3, <3>1 DEF PlaceFits, Running
  <2>6. QED
    BY <2>4, <2>5
<1>12. BegunFits'
  BY <1>1, <1>2, <1>5 DEF IInv, BegunFits, Shutdowns
<1>13. OpenFits'
  <2>1. /\ Open' = Open /\ Api \in Names
    BY <1>1, ServicesAssumption DEF Open
  <2>2. closes[l] /\ Api = current[l] => Open = {}
    BY <1>1 DEF Settles, Quiet
  <2>3. QED
    BY <1>3, <1>6, <2>1, <2>2 DEF IInv, OpenFits
<1>14. OrderlyFits'
  <2>1. SUFFICES ASSUME orderly'
                 PROVE  Advancing(l)' /\ index'[l] > 0
    BY DEF OrderlyFits
  <2>2. index[l] > 0 /\ Advancing(l)
    <3>1. orderly
      BY <1>1, <2>1
    <3>2. PICK k \in Shutdowns : index[k] > 0 /\ Advancing(k)
      BY <1>1, <1>2, <3>1 DEF IInv, OrderlyFits
    <3>3. k = l
      BY <1>2, <3>2 DEF Advancing
    <3>4. QED
      BY <3>2, <3>3
  <2>3. current[l] = stoppers[index[l]] /\ closes[l]
    BY <1>2, <2>2 DEF Advancing
  <2>4. \A p \in DOMAIN stoppers : p \in Nat
    BY <1>2
  <2>5. \A p \in DOMAIN stoppers : stoppers[p] \in Names
    BY StoppersTyped DEF IInv
  <2>6. \A p \in DOMAIN stoppers : /\ p < i => now[stoppers[p]] = "closed"
                                   /\ p >= i => now[stoppers[p]] = "up"
    <3>1. ASSUME NEW p \in DOMAIN stoppers
          PROVE  /\ p < i => now[stoppers[p]] = "closed"
                 /\ p >= i => now[stoppers[p]] = "up"
      <4>1. CASE p = index[l]
        BY <1>2, <1>3, <2>3, <2>5, <4>1
      <4>2. CASE p # index[l]
        <5>1. stoppers[p] # current[l]
          BY <1>2, <2>3, <4>2, StoppersDistinct DEF IInv
        <5>2. now[stoppers[p]] = status[stoppers[p]]
          BY <1>3, <2>5, <5>1
        <5>3. QED
          BY <1>2, <2>2, <2>4, <4>2, <5>2 DEF Advancing
      <4>3. QED
        BY <4>1, <4>2
    <3>2. QED
      BY <3>1
  <2>7. ASSUME NEW p \in DOMAIN stoppers
        PROVE  /\ p < index'[l] => status'[stoppers[p]] = "closed"
               /\ p = index'[l] => status'[stoppers[p]] = "closing"
               /\ p > index'[l] => status'[stoppers[p]] = "up"
    <3>1. CASE p = i
      BY <1>2, <1>5, <2>6, <3>1
    <3>2. CASE p # i
      <4>1. status'[stoppers[p]] = now[stoppers[p]]
        <5>1. CASE i \in DOMAIN stoppers
          <6>1. stoppers[p] # stoppers[i]
            BY <3>2, <5>1, StoppersDistinct DEF IInv
          <6>2. QED
            BY <1>5, <2>5, <5>1, <6>1
        <5>2. CASE i \notin DOMAIN stoppers
          BY <1>5, <5>2
        <5>3. QED
          BY <5>1, <5>2
      <4>2. p \in Nat /\ i \in Nat /\ index'[l] = i
        BY <1>2, <1>5, <2>4
      <4>3. p > i => p >= i
        BY <4>2
      <4>4. QED
        BY <2>6, <3>2, <4>1, <4>2, <4>3
    <3>3. QED
      BY <3>1, <3>2
  <2>8. \A k \in Shutdowns \ {l} : index'[k] = 0
    BY <1>5, <2>2 DEF Advancing
  <2>9. BootstrapOver'
    BY <1>1, <2>2 DEF Advancing, BootstrapOver
  <2>10. i \in DOMAIN stoppers => closes'[l]
    BY <1>2, <1>5, <2>6
  <2>11. QED
    BY <1>1, <1>2, <1>5, <2>7, <2>8, <2>9, <2>10 DEF Advancing, Running
<1>15. \A k \in Shutdowns : Ahead(k)'
  <2>1. \A s \in Names : status'[s] = "up" =>
          status[s] = "up" /\ (i \in DOMAIN stoppers => s # stoppers[i])
    <3>1. \A s \in Names : status'[s] = "up" => status[s] = "up"
      BY <1>3, <1>6
    <3>2. i \in DOMAIN stoppers => status'[stoppers[i]] # "up"
      BY <1>5
    <3>3. QED
      BY <3>1, <3>2
  <2>2. \A k \in Shutdowns : \A s \in found[k] : s \in Names
    BY ServicesAssumption DEF IInv, TypeOK
  <2>3. stoppers' = stoppers /\ found' = found
    BY <1>1
  <2>4. ASSUME NEW s \in found[l]
        PROVE  /\ status'[s] # "off"
               /\ status'[s] = "up" =>
                    Running(l)' /\ \E p \in DOMAIN stoppers : p > i /\ stoppers[p] = s
    <3>1. status'[s] # "off"
      BY <1>2, <1>9, <2>2 DEF IInv, Ahead
    <3>2. SUFFICES ASSUME status'[s] = "up"
                   PROVE  Running(l)' /\ \E p \in DOMAIN stoppers : p > i /\ stoppers[p] = s
      BY <3>1
    <3>3. PICK p \in DOMAIN stoppers : p > index[l] /\ stoppers[p] = s
      BY <1>2, <2>1, <2>2, <3>2 DEF IInv, Ahead
    <3>4. p # i
      BY <2>1, <2>2, <3>2, <3>3
    <3>5. p \in Nat /\ p > i /\ i \in DOMAIN stoppers
      BY <1>2, <3>3, <3>4
    <3>6. current'[l] # "none"
      BY <1>5, <3>5, StoppersTyped DEF IInv
    <3>7. QED
      BY <3>3, <3>5, <3>6 DEF Running
  <2>5. Ahead(l)'
    BY <1>5, <2>3, <2>4 DEF Ahead
  <2>6. ASSUME NEW k \in Shutdowns \ {l}
        PROVE  Ahead(k)'
    BY <1>5, <1>9, <2>1, <2>2, <2>3 DEF IInv, Ahead, Running
  <2>7. QED
    BY <2>5, <2>6
<1>16. ClosingFits'
  <2>1. \A k \in Shutdowns : Running(k) => current[k] \in Names
    BY ServicesAssumption DEF IInv, TypeOK, Running
  <2>2. closes[l] => ClosedBy(l, current[l])
    BY <1>1 DEF ClosedBy
  <2>3. ASSUME NEW k \in Shutdowns \ {l}, Running(k), closes[k]
        PROVE  now[current[k]] = "closing"
    <3>1. status[current[k]] = "closing" /\ ClosedBy(k, current[k]) /\ current[k] \in Names
      BY <2>1, <2>3 DEF IInv, ClosingFits, ClosedBy
    <3>2. ~(closes[l] /\ current[k] = current[l])
      BY <2>2, <3>1 DEF IInv, ClosingFits
    <3>3. QED
      BY <1>3, <3>1, <3>2
  <2>4. ASSUME NEW s \in Names, now[s] = "closing"
        PROVE  \E k \in Shutdowns \ {l} : ClosedBy(k, s)
    <3>1. status[s] = "closing" /\ ~(closes[l] /\ s = current[l])
      BY <1>3, <2>4
    <3>2. ~ClosedBy(l, s)
      BY <3>1 DEF ClosedBy
    <3>3. QED
      BY <3>1, <3>2 DEF IInv, ClosingFits
  <2>5. \A k, m \in Shutdowns \ {l}, s \in Names : ClosedBy(k, s) /\ ClosedBy(m, s) => k = m
    BY DEF IInv, ClosingFits
  <2>6. QED
    BY <1>1, <1>2, <1>3, <2>3, <2>4, <2>5, StopAtCloses DEF IInv
<1>17. QED
  BY <1>7, <1>8, <1>10, <1>11, <1>12, <1>13, <1>14, <1>15, <1>16 DEF IInv

-----------------------------------------------------------------------------
(***************************************************************************)
(* Requests, and all steps.                                                *)
(***************************************************************************)
LEMMA RequestStepInv ==
    ASSUME IInv, NEW r \in Requests, Accept(r) \/ Respond(r) \/ Refuse(r) \/ EndBackground(r)
    PROVE  IInv'
<1>1. UNCHANGED <<boot, failed, stoppers, shutdownInProgress, index, current, closes, orderly,
                  found, status, scrape>>
  BY DEF Accept, Respond, Refuse, EndBackground, process, shutdown
<1>2. request' \in [Requests -> {"none", "open", "background", "refused", "done"}]
  BY DEF IInv, TypeOK, Accept, Respond, Refuse, EndBackground
<1>3. TypeOK' /\ Stacked' /\ StatusFits' /\ BegunFits' /\ ClosingFits'
  BY <1>1, <1>2 DEF IInv, TypeOK, Stacked, StatusFits, BegunFits, ClosingFits, ClosedBy, Running
<1>4. \A l \in Shutdowns : PlaceFits(l)' /\ Ahead(l)'
  BY <1>1 DEF IInv, PlaceFits, Ahead, Running
<1>5. OrderlyFits'
  BY <1>1 DEF IInv, OrderlyFits, Undisturbed, Advancing, BootstrapOver, Running
<1>6. OpenFits'
  <2>1. CASE Accept(r)
    BY <1>1, <2>1 DEF Accept, OpenFits
  <2>2. CASE ~Accept(r)
    <3>1. Open' \subseteq Open
      BY <2>2 DEF Respond, Refuse, EndBackground, Open, IInv, TypeOK
    <3>2. QED
      BY <1>1, <3>1 DEF IInv, OpenFits
  <2>3. QED
    BY <2>1, <2>2
<1>7. QED
  BY <1>3, <1>4, <1>5, <1>6 DEF IInv

\* What a client of the Monitor waits for is nobody else's concern.
LEMMA ScrapeInv ==
    ASSUME IInv, AnswerScrape \/ GiveUp
    PROVE  IInv'
<1>1. UNCHANGED <<boot, failed, stoppers, shutdownInProgress, index, current, closes, orderly,
                  found, status, request>> /\ scrape' \in Scrapes
  BY DEF AnswerScrape, GiveUp, process, shutdown, Scrapes
<1>2. TypeOK' /\ Stacked' /\ StatusFits' /\ BegunFits' /\ ClosingFits' /\ OpenFits'
  BY <1>1 DEF IInv, TypeOK, Stacked, StatusFits, BegunFits, ClosingFits, ClosedBy, Running,
     OpenFits, Open
<1>3. \A l \in Shutdowns : PlaceFits(l)' /\ Ahead(l)'
  BY <1>1 DEF IInv, PlaceFits, Ahead, Running
<1>4. OrderlyFits'
  BY <1>1 DEF IInv, OrderlyFits, Undisturbed, Advancing, BootstrapOver, Running
<1>5. QED
  BY <1>2, <1>3, <1>4 DEF IInv

LEMMA NextInv ==
    ASSUME IInv, [Next]_vars
    PROVE  IInv'
<1>1. CASE UNCHANGED vars
  BY <1>1 DEF vars, IInv, TypeOK, Stacked, StatusFits, BegunFits, PlaceFits, Ahead, Running, OrderlyFits,
              Undisturbed, Advancing, BootstrapOver, OpenFits, Open, ClosingFits, ClosedBy
<1>2. QED
  BY <1>1, StartServiceInv, FailStartInv, SignalInv, EndStopInv, RequestStepInv, ScrapeInv
     DEF Next

LEMMA InitInv ==
    ASSUME Init
    PROVE  IInv
<1>1. Services \in Seq(STRING) /\ "none" \notin Names
  BY ServicesAssumption
<1>2. TypeOK
  <2>1. Len(Services) \in Nat /\ 0 \in 0 .. Len(Services) /\ 0 \in 0 .. Len(Services) + 1
    BY <1>1
  <2>2. boot \in 0 .. Len(Services) /\ index \in [Shutdowns -> 0 .. Len(Services) + 1]
    BY <2>1 DEF Init
  <2>3. stoppers \in Seq(Stoppable) /\ Len(stoppers) <= boot
    BY DEF Init
  <2>4. /\ status \in [Names -> {"off", "up", "closing", "closed"}]
        /\ current \in [Shutdowns -> Stoppable \cup {"none"}]
        /\ closes \in [Shutdowns -> BOOLEAN]
        /\ request \in [Requests -> {"none", "open", "background", "refused", "done"}]
    BY DEF Init
  <2>5. failed \in BOOLEAN /\ shutdownInProgress \in BOOLEAN /\ orderly \in BOOLEAN
        /\ scrape \in Scrapes
    BY DEF Init, Scrapes
  <2>6. found \in [Shutdowns -> SUBSET Stoppable]
    BY DEF Init
  <2>7. QED
    BY <2>2, <2>3, <2>4, <2>5, <2>6 DEF TypeOK
<1>3. Stacked /\ StatusFits /\ BegunFits /\ ClosingFits
  <2>1. DOMAIN stoppers = {} /\ 1 .. boot = {}
    BY DEF Init
  <2>2. Stacked
    BY <2>1 DEF Stacked
  <2>3. \A i \in DOMAIN Services : Services[i] \in Names
    BY DEF Names
  <2>4. StatusFits
    BY <2>1, <2>3 DEF Init, StatusFits
  <2>5. BegunFits
    BY DEF Init, BegunFits, Shutdowns
  <2>6. ClosingFits
    BY DEF Init, ClosingFits, ClosedBy, Running
  <2>7. QED
    BY <2>2, <2>4, <2>5, <2>6
<1>4. \A l \in Shutdowns : PlaceFits(l) /\ Ahead(l)
  BY DEF Init, PlaceFits, Ahead, Running
<1>5. OrderlyFits /\ OpenFits
  BY DEF Init, OrderlyFits, Undisturbed, Running, OpenFits, Open
<1>6. QED
  BY <1>2, <1>3, <1>4, <1>5 DEF IInv

\* In whatever larger system the process takes its steps.
LEMMA AlwaysIInv == Init /\ [][Next]_vars => []IInv
<1>1. Init => IInv
  BY InitInv
<1>2. IInv /\ [Next]_vars => IInv'
  BY NextInv
<1>3. QED
  BY <1>1, <1>2, PTL

-----------------------------------------------------------------------------
(***************************************************************************)
(* What the invariant says of a shutdown.                                  *)
(***************************************************************************)
\* What starts later has its place before.
LEMMA IInvReverse ==
    ASSUME IInv
    PROVE  ReverseOrder
<1>1. SUFFICES ASSUME orderly, NEW i \in DOMAIN Services, NEW j \in DOMAIN Services, i < j,
                      status[Services[i]] \in {"closing", "closed"}, Services[j] \in Stoppable
               PROVE  status[Services[j]] \in {"off", "closed"}
  BY DEF ReverseOrder
<1>2. /\ Services[i] \in Names /\ Services[j] \in Names /\ i \in Nat /\ j \in Nat /\ boot \in Nat
      /\ i >= 1 /\ j >= 1
  BY ServicesAssumption DEF Names, IInv, TypeOK
<1>3. Services[i] \in Stoppable /\ i <= boot
  BY <1>1, <1>2 DEF IInv, StatusFits
<1>4. PICK l \in Shutdowns : index[l] > 0 /\ Advancing(l)
  BY <1>1, <1>2 DEF IInv, OrderlyFits, Undisturbed
<1>5. CASE j > boot
  BY <1>5 DEF IInv, StatusFits
<1>6. CASE j <= boot
  <2>1. i \in 1 .. boot /\ j \in 1 .. boot
    BY <1>2, <1>3, <1>6
  <2>2. PICK p \in DOMAIN stoppers : stoppers[p] = Services[i]
    BY <1>3, <2>1 DEF IInv, Stacked
  <2>3. PICK q \in DOMAIN stoppers : stoppers[q] = Services[j]
    BY <1>1, <2>1 DEF IInv, Stacked
  <2>4. q < p /\ p \in Nat /\ q \in Nat /\ index[l] \in Nat
    BY <1>1, <2>1, <2>2, <2>3 DEF IInv, Stacked, TypeOK
  <2>5. p <= index[l]
    BY <1>1, <1>4, <2>2, <2>4 DEF Advancing
  <2>6. QED
    BY <1>4, <2>3, <2>4, <2>5 DEF Advancing
<1>7. QED
  BY <1>2, <1>5, <1>6

\* The database is before the API in the order of the starts.
LEMMA IInvOpen ==
    ASSUME IInv
    PROVE  OpenRequestsHaveDatabase
<1>1. SUFFICES ASSUME orderly, Open # {}
               PROVE  status[Database] = "up"
  BY DEF OpenRequestsHaveDatabase
<1>2. PICK i \in DOMAIN Services, j \in DOMAIN Services :
        i < j /\ Services[i] = Database /\ Services[j] = Api
  BY ServicesAssumption
<1>3. /\ Api \in Stoppable /\ Database \in Names /\ i \in Nat /\ j \in Nat /\ boot \in Nat
      /\ i >= 1 /\ j >= 1
  BY <1>2, ServicesAssumption DEF IInv, TypeOK
<1>4. status[Api] \in {"up", "closing"}
  BY <1>1 DEF IInv, OpenFits
<1>5. status[Database] \notin {"closing", "closed"}
  BY <1>1, <1>2, <1>3, <1>4, IInvReverse DEF ReverseOrder
<1>6. j <= boot
  BY <1>2, <1>3, <1>4 DEF IInv, StatusFits
<1>7. i \in 1 .. boot
  BY <1>2, <1>3, <1>6
<1>8. status[Database] # "off"
  BY <1>2, <1>7 DEF IInv, StatusFits
<1>9. QED
  BY <1>3, <1>5, <1>8 DEF IInv, TypeOK

\* Behind the end of the array nothing is left.
LEMMA IInvStopped ==
    ASSUME IInv
    PROVE  ShutdownStopsAll
<1>0. \A l \in Shutdowns : Over(l) =>
        \A s \in found[l] : status[s] = "closed" \/ \E k \in Shutdowns : ClosedBy(k, s)
  <2>1. SUFFICES ASSUME NEW l \in Shutdowns, Over(l), NEW s \in found[l]
                 PROVE  status[s] = "closed" \/ \E k \in Shutdowns : ClosedBy(k, s)
    OBVIOUS
  <2>2. s \in Names /\ status[s] \in {"off", "up", "closing", "closed"}
    BY ServicesAssumption DEF IInv, TypeOK
  <2>3. status[s] \in {"closing", "closed"}
    BY <2>1, <2>2 DEF IInv, Ahead, Over
  <2>4. QED
    BY <2>2, <2>3 DEF IInv, ClosingFits
<1>1. SUFFICES ASSUME orderly, NEW k \in Shutdowns, Over(k), NEW s \in Stoppable
               PROVE  status[s] \in {"off", "closed"}
  BY <1>0 DEF ShutdownStopsAll
<1>2. PICK l \in Shutdowns : index[l] > 0 /\ Advancing(l)
  BY <1>1 DEF IInv, OrderlyFits, Over, TypeOK
<1>3. k = l
  BY <1>1, <1>2 DEF Over, Advancing
<1>4. index[l] \notin DOMAIN stoppers
  <2>1. SUFFICES ASSUME index[l] \in DOMAIN stoppers
                 PROVE  FALSE
    OBVIOUS
  <2>2. current[l] # "none"
    BY <1>2, <2>1, StoppersTyped DEF IInv, Advancing
  <2>3. QED
    BY <1>1, <1>3, <2>2 DEF Over, Running
<1>5. PICK i \in DOMAIN Services : Services[i] = s
  BY ServicesAssumption DEF Names
<1>6. i \in Nat /\ i >= 1 /\ boot \in Nat /\ index[l] \in Nat /\ Len(stoppers) \in Nat
      /\ DOMAIN stoppers = 1 .. Len(stoppers)
  BY ServicesAssumption DEF IInv, TypeOK
<1>7. CASE i > boot
  BY <1>5, <1>7 DEF IInv, StatusFits
<1>8. CASE i <= boot
  <2>1. PICK p \in DOMAIN stoppers : stoppers[p] = s
    BY <1>5, <1>6, <1>8 DEF IInv, Stacked
  <2>2. p < index[l]
    BY <1>2, <1>4, <1>6
  <2>3. QED
    BY <1>2, <2>1, <2>2 DEF Advancing
<1>9. QED
  BY <1>6, <1>7, <1>8

-----------------------------------------------------------------------------
(***************************************************************************)
(* What the invariant says of a step, and of two shutdowns.                *)
(***************************************************************************)
\* The life of a service.
Follows(a, b) ==
    \/ a = b
    \/ <<a, b>> \in {<<"off", "up">>, <<"up", "closing">>, <<"closing", "closed">>}

EachLivesOnce == \A s \in Names : Follows(status[s], status'[s])

\* A loop that comes to its next place closes nothing twice.
LEMMA StopAtFollows ==
    ASSUME TypeOK, NEW l \in Shutdowns, NEW i \in 1 .. Len(stoppers) + 1, NEW now \in Status,
           StopAt(l, i, now), NEW s \in Names
    PROVE  status'[s] = now[s] \/ (now[s] = "up" /\ status'[s] = "closing")
<1>1. /\ i \in DOMAIN stoppers =>
           /\ status'[stoppers[i]] = IF now[stoppers[i]] = "up" THEN "closing"
                                     ELSE now[stoppers[i]]
           /\ \A t \in Names \ {stoppers[i]} : status'[t] = now[t]
      /\ i \notin DOMAIN stoppers => status' = now
  BY StopAtFacts
<1>2. CASE i \in DOMAIN stoppers /\ s = stoppers[i]
  BY <1>1, <1>2
<1>3. CASE i \in DOMAIN stoppers /\ s # stoppers[i]
  BY <1>1, <1>3
<1>4. CASE i \notin DOMAIN stoppers
  BY <1>1, <1>4
<1>5. QED
  BY <1>2, <1>3, <1>4

LEMMA NextLivesOnce ==
    ASSUME IInv, [Next]_vars
    PROVE  EachLivesOnce
<1>1. status \in Status /\ 1 \in 1 .. Len(stoppers) + 1
  BY DEF IInv, TypeOK, Status
<1>2. CASE StartService
  <2>1. boot + 1 \in DOMAIN Services /\ boot + 1 > boot
    BY <1>2, ServicesAssumption DEF StartService, BootstrapOver, IInv, TypeOK
  <2>2. status[Services[boot + 1]] = "off"
    BY <2>1 DEF IInv, StatusFits
  <2>3. status' = [status EXCEPT ![Services[boot + 1]] = "up"]
    BY <1>2 DEF StartService
  <2>4. QED
    BY <1>1, <2>2, <2>3 DEF EachLivesOnce, Follows, Status
<1>3. ASSUME NEW l \in Shutdowns, StopAt(l, 1, status)
      PROVE  EachLivesOnce
  BY <1>1, <1>3, StopAtFollows DEF EachLivesOnce, Follows, IInv
<1>4. CASE FailStart
  <2>1. "failure" \in Shutdowns
    BY DEF Shutdowns
  <2>2. status' = status \/ StopAt("failure", 1, status)
    BY <1>4 DEF FailStart, Begin
  <2>3. QED
    BY <1>3, <2>1, <2>2 DEF EachLivesOnce, Follows
<1>5. CASE Signal
  BY <1>3, <1>5 DEF Signal, Begin, Shutdowns
<1>6. ASSUME NEW l \in Shutdowns, EndStop(l)
      PROVE  EachLivesOnce
  <2> DEFINE now == IF closes[l] THEN [status EXCEPT ![current[l]] = "closed"] ELSE status
             i == index[l] + 1
  <2>1. Running(l) /\ StopAt(l, i, now)
    BY <1>6 DEF EndStop
  <2>2. now \in Status
    BY <1>1 DEF Status
  <2>3. i \in 1 .. Len(stoppers) + 1
    BY <2>1 DEF IInv, PlaceFits, TypeOK
  <2>4. \A s \in Names : now[s] = status[s] \/ (status[s] = "closing" /\ now[s] = "closed")
    <3>1. closes[l] => status[current[l]] = "closing"
      BY <2>1 DEF IInv, ClosingFits
    <3>2. QED
      BY <1>1, <3>1 DEF Status
  <2> HIDE DEF now, i
  <2>5. \A s \in Names : status'[s] = now[s] \/ (now[s] = "up" /\ status'[s] = "closing")
    BY <2>1, <2>2, <2>3, StopAtFollows DEF IInv
  <2>6. QED
    BY <2>4, <2>5 DEF EachLivesOnce, Follows
<1>7. CASE UNCHANGED status
  BY <1>7 DEF EachLivesOnce, Follows
<1>8. QED
  BY <1>2, <1>4, <1>5, <1>6, <1>7 DEF Next, Accept, Respond, Refuse, EndBackground,
     AnswerScrape, GiveUp, vars

\* A loop awaits what it has come to, and then goes on: it has a last place, and
\* no second beginning.
LoopsGoForward ==
    \A l \in Shutdowns : Running(l) =>
        IF EndStop(l)
        THEN index'[l] = index[l] + 1
        ELSE index'[l] = index[l] /\ current'[l] = current[l] /\ closes'[l] = closes[l]

LEMMA NextGoesForward ==
    ASSUME IInv, [Next]_vars
    PROVE  LoopsGoForward
<1> SUFFICES ASSUME NEW l \in Shutdowns, Running(l)
             PROVE  IF EndStop(l)
                    THEN index'[l] = index[l] + 1
                    ELSE /\ index'[l] = index[l] /\ current'[l] = current[l]
                         /\ closes'[l] = closes[l]
  BY DEF LoopsGoForward
<1>1. status \in Status /\ 1 \in 1 .. Len(stoppers) + 1 /\ TypeOK
  BY DEF IInv, TypeOK, Status
<1>2. index[l] # 0
  BY DEF IInv, PlaceFits
<1>3. ASSUME NEW k \in Shutdowns \ {l}, StopAt(k, 1, status)
      PROVE  index'[l] = index[l] /\ current'[l] = current[l] /\ closes'[l] = closes[l]
  BY <1>1, <1>3, StopAtFacts
<1>4. ASSUME NEW k \in Shutdowns, EndStop(k)
      PROVE  /\ index'[k] = index[k] + 1
             /\ k # l => index'[l] = index[l] /\ current'[l] = current[l] /\ closes'[l] = closes[l]
  <2> DEFINE now == IF closes[k] THEN [status EXCEPT ![current[k]] = "closed"] ELSE status
             i == index[k] + 1
  <2>1. Running(k) /\ StopAt(k, i, now)
    BY <1>4 DEF EndStop
  <2>2. now \in Status
    BY <1>1 DEF Status
  <2>3. i \in 1 .. Len(stoppers) + 1
    BY <2>1 DEF IInv, PlaceFits, TypeOK
  <2> HIDE DEF now
  <2>4. /\ index'[k] = i
        /\ \A j \in Shutdowns \ {k} : /\ index'[j] = index[j] /\ current'[j] = current[j]
                                       /\ closes'[j] = closes[j]
    BY <1>1, <2>1, <2>2, <2>3, StopAtFacts
  <2>5. QED
    BY <2>4
<1>5. CASE EndStop(l)
  BY <1>4, <1>5
<1>6. CASE ~EndStop(l)
  <2> SUFFICES index'[l] = index[l] /\ current'[l] = current[l] /\ closes'[l] = closes[l]
    BY <1>6
  <2>1. CASE FailStart
    <3>1. ~failed
      BY <2>1 DEF FailStart, BootstrapOver
    <3>2. l # "failure" /\ "failure" \in Shutdowns
      BY <1>2, <3>1 DEF IInv, BegunFits, Shutdowns
    <3>3. UNCHANGED <<index, current, closes>> \/ StopAt("failure", 1, status)
      BY <2>1 DEF FailStart, Begin
    <3>4. QED
      BY <1>3, <3>2, <3>3
  <2>2. CASE Signal
    <3>1. ~shutdownInProgress /\ StopAt("signal", 1, status)
      BY <2>2 DEF Signal, Begin
    <3>2. l # "signal" /\ "signal" \in Shutdowns
      BY <1>2, <3>1 DEF IInv, BegunFits, Shutdowns
    <3>3. QED
      BY <1>3, <3>1, <3>2
  <2>3. CASE \E k \in Shutdowns : EndStop(k)
    BY <1>4, <1>6, <2>3
  <2>4. CASE UNCHANGED <<index, current, closes>>
    BY <2>4
  <2>5. QED
    BY <2>1, <2>2, <2>3, <2>4
    DEF Next, StartService, Accept, Respond, Refuse, EndBackground, AnswerScrape, GiveUp,
        shutdown, vars
<1>7. QED
  BY <1>5, <1>6

\* Two loops run only when a signal follows a start that failed.
Overlap == ~StoppersOneAtATime

LEMMA IInvOverlap ==
    ASSUME IInv, Overlap
    PROVE  failed /\ shutdownInProgress /\ ~orderly
<1>1. Running("signal") /\ Running("failure")
  BY DEF Overlap, StoppersOneAtATime
<1>2. index["signal"] # 0 /\ index["failure"] # 0
  BY <1>1 DEF IInv, PlaceFits, Shutdowns
<1>3. ~orderly
  <2>1. SUFFICES ASSUME orderly
                 PROVE  FALSE
    OBVIOUS
  <2>2. PICK l \in Shutdowns : \A k \in Shutdowns \ {l} : index[k] = 0
    BY <1>2, <2>1 DEF IInv, OrderlyFits, Advancing, Shutdowns
  <2>3. QED
    BY <1>2, <2>2 DEF Shutdowns
<1>4. QED
  BY <1>2, <1>3 DEF IInv, BegunFits

-----------------------------------------------------------------------------
(***************************************************************************)
(* The theorems, for the process by itself.                                *)
(***************************************************************************)
\* Every variable of the process keeps its type.
THEOREM TypeCorrect == Spec => []TypeOK
<1>1. IInv => TypeOK
  BY DEF IInv
<1>2. QED
  BY <1>1, AlwaysIInv, PTL DEF Spec

\* The stoppers run in the reverse of the order in which bootstrap started the
\* services.
THEOREM StopsInReverse == Spec => []ReverseOrder
<1>1. QED
  BY IInvReverse, AlwaysIInv, PTL DEF Spec

\* Requests still open in a shutdown can use the database.
THEOREM RequestsKeepDatabase == Spec => []OpenRequestsHaveDatabase
<1>1. QED
  BY IInvOpen, AlwaysIInv, PTL DEF Spec

\* A shutdown leaves no service running that it found, nor any at all when it
\* begins after bootstrap and is the only one.
THEOREM ShutdownComplete == Spec => []ShutdownStopsAll
<1>1. QED
  BY IInvStopped, AlwaysIInv, PTL DEF Spec

\* A service starts once and is closed once, each step of its life after the one
\* before, though two shutdowns may run over it and neither looks whether the
\* other has called its stopper.
THEOREM ServicesLiveOnce == Spec => [][EachLivesOnce]_vars
<1>1. IInv /\ [Next]_vars => [EachLivesOnce]_vars
  BY NextLivesOnce
<1>2. QED
  BY <1>1, AlwaysIInv, PTL DEF Spec

\* A shutdown begins once and only goes forward: why it ends, as its places are
\* not more than the services and one (TypeOK), although services that start
\* meanwhile add to them.
THEOREM ShutdownsGoForward == Spec => [][LoopsGoForward]_vars
<1>1. IInv /\ [Next]_vars => [LoopsGoForward]_vars
  BY NextGoesForward
<1>2. QED
  BY <1>1, AlwaysIInv, PTL DEF Spec

\* Stoppers run one at a time, as serviceManager.js says they need to, unless a start
\* failed and a signal came as well: without a failed start, a process has one
\* shutdown at most.
THEOREM OverlapNeedsFailedStart ==
    Spec => [](Overlap => failed /\ shutdownInProgress /\ ~orderly)
<1>1. QED
  BY IInvOverlap, AlwaysIInv, PTL DEF Spec
=============================================================================
