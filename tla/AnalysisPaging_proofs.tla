------------------------ MODULE AnalysisPaging_proofs ------------------------
(***************************************************************************)
(* Proofs about AnalysisPaging, for any number of milliseconds, ranks,     *)
(* cameras and stored analyses and any limits.                             *)
(***************************************************************************)
EXTENDS AnalysisPaging, SequenceTheorems, FiniteSetTheorems, TLAPS

-----------------------------------------------------------------------------
(***************************************************************************)
(* The inductive invariant.  A walk advances through the milliseconds: the *)
(* listed keys, the keys this request has read and the keys still to be    *)
(* found follow each other.                                                *)
(***************************************************************************)

\* Keys in the order of their milliseconds, none twice.
Ascending(q) ==
    \A i, j \in 1 .. Len(q) : i < j => q[i].ms <= q[j].ms /\ q[i] # q[j]

Walking == pc \in {"query", "page"}

\* Where the walk has come to with the pages it has listed.
Position == IF pc = "page" THEN next ELSE start

\* What this request has read lies between its start and its next query.
ReadInOrder ==
    /\ Ascending(analyses)
    /\ \A i \in 1 .. Len(analyses) :
        /\ analyses[i] \in Matching
        /\ start <= analyses[i].ms
        /\ analyses[i].ms < end
        /\ pc = "query" => analyses[i].ms < continueFrom
    /\ pc = "query" => start <= continueFrom
    /\ pc = "page" => next \in Times

BeforeStands == \A k \in before : k \in settled /\ table[k] \in filter

\* What is alone in its millisecond is listed, read, or still ahead.
NothingPassed ==
    Walking => \A k \in before : Siblings(k) = {k} /\ k.ms < end =>
        \/ k \in delivered
        \/ pc = "query" /\ (continueFrom <= k.ms \/ \E i \in 1 .. Len(analyses) : analyses[i] = k)
        \/ pc = "page" /\ next <= k.ms

\* What is listed lies behind, unless it shares its millisecond.
ListedIsBehind ==
    \A k \in delivered :
        /\ k \in Stored
        /\ Walking => k.ms <= Position /\ (Siblings(k) = {k} => k.ms < Position)

IInv ==
    /\ TypeOK
    /\ RangesAreValid
    /\ ReadInOrder
    /\ BeforeStands
    /\ NothingPassed
    /\ ListedIsBehind
    /\ OnlySiblingsRepeat

-----------------------------------------------------------------------------
(***************************************************************************)
(* One query.                                                              *)
(***************************************************************************)

LEMMA KeyFields ==
    /\ \A k \in Keys : k.ms \in Times /\ k.rank \in Ranks /\ k.ms \in Nat /\ k.rank \in Nat /\ k.rank # 0
    /\ Times \subseteq Nat
    /\ \A k, l \in Keys : k.ms = l.ms /\ k.rank = l.rank => k = l
<1>1. Times \subseteq Nat /\ Ranks \subseteq Nat \ {0}
  BY PagingAssumption DEF Times
<1>2. \A k \in Keys : k.ms \in Times /\ k.rank \in Ranks
  BY DEF Keys
<1>3. \A k, l \in Keys : k.ms = l.ms /\ k.rank = l.rank => k = l
  BY DEF Keys
<1>4. QED
  BY <1>1, <1>2, <1>3

\* Of two times that are written in the time of UTC and of a place that is not
\* behind it, the earlier is not taken for the later.
LEMMA ReadInTheirOrder ==
    ASSUME NEW t \in Int, NEW u \in Int, u <= t, NEW o \in Int, o >= 0
    PROVE  ~TextBefore([time |-> t, offset |-> o], Utc(u))
<1> DEFINE a == [time |-> t, offset |-> o]
<1>1. Reading(a) = t + o /\ Reading(Utc(u)) = u /\ a.offset = o /\ Utc(u).offset = 0
  BY DEF Reading, Utc
<1>2. ~(t + o < u) /\ (t + o = u => o = 0)
  OBVIOUS
<1>3. ~OffsetBefore(0, 0)
  BY DEF OffsetBefore
<1>4. QED
  BY <1>1, <1>2, <1>3 DEF TextBefore

\* A range ends before the keys of the millisecond of its upper bound.
LEMMA RangeEndsBefore ==
    ASSUME NEW k \in Keys, NEW t \in Times
    PROVE  /\ NotAfter(uuidFromTimestamp(t), k) <=> t <= k.ms
           /\ NotAfter(k, uuidFromTimestamp(t)) <=> k.ms < t
BY KeyFields DEF NotAfter, uuidFromTimestamp

\* What a response holds, and what it leaves for later.
LEMMA ResponseFacts ==
    ASSUME NEW found \in SUBSET Keys, NEW from \in Times, NEW to \in Times,
           NEW response \in Responses(found, uuidFromTimestamp(from), uuidFromTimestamp(to))
    PROVE  /\ response.read \subseteq found
           /\ ContinueFrom(response) \in Times \cup {None}
           /\ \A k \in response.read : from <= k.ms /\ k.ms < to
           /\ ContinueFrom(response) # None =>
                /\ from < ContinueFrom(response)
                /\ ContinueFrom(response) <= to
                /\ \A k \in response.read : k.ms < ContinueFrom(response)
           /\ \A k \in found :
                (from <= k.ms /\ k.ms < to /\ \A l \in found : l.ms = k.ms => l = k)
                => \/ k \in response.read
                   \/ ContinueFrom(response) # None /\ ContinueFrom(response) <= k.ms
<1> DEFINE between == {k \in found : /\ NotAfter(uuidFromTimestamp(from), k)
                                     /\ NotAfter(k, uuidFromTimestamp(to))}
           upTo(l) == {k \in between : NotAfter(k, l)}
<1>1. \A k \in found : k \in between <=> from <= k.ms /\ k.ms < to
  BY RangeEndsBefore
<1>2. \/ response = [read |-> between, lastKey |-> None]
      \/ \E l \in between : response = [read |-> upTo(l), lastKey |-> l]
  BY DEF Responses
<1>3. CASE response = [read |-> between, lastKey |-> None]
  <2>1. response.read = between /\ ContinueFrom(response) = None
    BY <1>3 DEF ContinueFrom
  <2>2. QED
    BY <1>1, <2>1
<1>4. CASE \E l \in between : response = [read |-> upTo(l), lastKey |-> l]
  <2>1. PICK l \in between : response = [read |-> upTo(l), lastKey |-> l]
    BY <1>4
  <2>2. l \in found /\ l \in Keys /\ l # None /\ from <= l.ms /\ l.ms < to
    BY <1>1, PagingAssumption
  <2>3. response.read = upTo(l) /\ ContinueFrom(response) = l.ms + 1
    BY <2>1, <2>2 DEF ContinueFrom, timestampFromUuid
  <2>4. l.ms + 1 \in Times /\ l.ms + 1 # None /\ from < l.ms + 1 /\ l.ms + 1 <= to
    BY <2>2, KeyFields, PagingAssumption DEF Times
  <2>5. \A k \in upTo(l) : k.ms < l.ms + 1
    BY <2>2, KeyFields DEF NotAfter
  <2>6. ASSUME NEW k \in found, k \in between, k \notin upTo(l),
               \A j \in found : j.ms = k.ms => j = k
        PROVE  l.ms + 1 <= k.ms
    <3>1. ~NotAfter(k, l)
      BY <2>6
    <3>2. NotAfter(l, l)
      BY <2>2, KeyFields DEF NotAfter
    <3>3. k # l /\ k \in Keys
      BY <3>1, <3>2
    <3>4. k.ms # l.ms
      BY <2>2, <2>6, <3>3
    <3>5. QED
      BY <2>2, <3>1, <3>3, <3>4, KeyFields DEF NotAfter
  <2>7. QED
    BY <1>1, <2>3, <2>4, <2>5, <2>6
<1>5. QED
  BY <1>2, <1>3, <1>4

\* What the loop has to show after a turn: results in order, which lie before
\* the next query, and nothing passed over.
Reached(results, from) ==
    /\ Ascending(results)
    /\ \A i \in 1 .. Len(results) :
        /\ results[i] \in Matching
        /\ start <= results[i].ms
        /\ results[i].ms < end
        /\ from # None => results[i].ms < from
    /\ from # None => start < from /\ from <= end
    /\ \A k \in before : Siblings(k) = {k} /\ k.ms < end =>
        \/ k \in delivered
        \/ \E i \in 1 .. Len(results) : results[i] = k
        \/ from # None /\ from <= k.ms

LEMMA ListingFacts ==
    ASSUME NEW S \in SUBSET Keys, NEW items \in Listings(S)
    PROVE  /\ items \in Seq(Keys)
           /\ \A i \in 1 .. Len(items) : items[i] \in S
           /\ \A k \in S : \E i \in 1 .. Len(items) : items[i] = k
           /\ Ascending(items)
<1>1. PICK n \in 0 .. QueryLimit : items \in [1 .. n -> S]
  BY DEF Listings
<1>2. n \in Nat
  BY <1>1, PagingAssumption
<1>3. items \in Seq(S) /\ Len(items) = n /\ DOMAIN items = 1 .. Len(items)
  BY <1>1, <1>2
<1>4. items \in Seq(Keys)
  BY <1>1, <1>2, <1>3
<1>5. \A i \in 1 .. Len(items) : items[i] \in S
  BY <1>1, <1>3
<1>6. Ascending(items)
  <2>1. \A i, j \in DOMAIN items : i < j => NotAfter(items[i], items[j]) /\ items[i] # items[j]
    BY DEF Listings
  <2>2. \A k, l \in Keys : NotAfter(k, l) => k.ms <= l.ms
    BY KeyFields DEF NotAfter
  <2>3. QED
    BY <1>3, <1>5, <2>1, <2>2 DEF Ascending
<1>7. \A k \in S : \E i \in 1 .. Len(items) : items[i] = k
  BY <1>3 DEF Listings
<1>8. QED
  BY <1>4, <1>5, <1>6, <1>7

\* Results of one turn after those of earlier turns.
LEMMA ConcatAscending ==
    ASSUME NEW a \in Seq(Keys), NEW b \in Seq(Keys), NEW from \in Nat,
           Ascending(a), Ascending(b),
           \A i \in 1 .. Len(a) : a[i].ms < from,
           \A i \in 1 .. Len(b) : from <= b[i].ms
    PROVE  /\ a \o b \in Seq(Keys)
           /\ Ascending(a \o b)
           /\ \A i \in 1 .. Len(a \o b) :
                \/ \E j \in 1 .. Len(a) : (a \o b)[i] = a[j]
                \/ \E j \in 1 .. Len(b) : (a \o b)[i] = b[j]
           /\ \A j \in 1 .. Len(a) : \E i \in 1 .. Len(a \o b) : (a \o b)[i] = a[j]
           /\ \A j \in 1 .. Len(b) : \E i \in 1 .. Len(a \o b) : (a \o b)[i] = b[j]
<1> DEFINE c == a \o b
<1>1. /\ c \in Seq(Keys)
      /\ Len(c) = Len(a) + Len(b)
      /\ Len(a) \in Nat /\ Len(b) \in Nat
      /\ \A i \in 1 .. Len(a) + Len(b) :
            c[i] = IF i <= Len(a) THEN a[i] ELSE b[i - Len(a)]
  BY ConcatProperties, LenProperties
<1>2. /\ \A i \in 1 .. Len(a) : i \in 1 .. Len(c) /\ c[i] = a[i]
      /\ \A i \in 1 .. Len(b) : i + Len(a) \in 1 .. Len(c) /\ c[i + Len(a)] = b[i]
      /\ \A i \in 1 .. Len(c) : i \in 1 .. Len(a) \/ i - Len(a) \in 1 .. Len(b)
  <2>1. \A i \in 1 .. Len(b) : ~(i + Len(a) <= Len(a)) /\ (i + Len(a)) - Len(a) = i
    BY <1>1
  <2>2. \A i \in 1 .. Len(b) : i + Len(a) \in 1 .. Len(c)
    BY <1>1
  <2>3. \A i \in 1 .. Len(b) : c[i + Len(a)] = b[i]
    BY <1>1, <2>1, <2>2
  <2>4. \A i \in 1 .. Len(a) : i \in 1 .. Len(c) /\ c[i] = a[i]
    BY <1>1
  <2>5. \A i \in 1 .. Len(c) : i \in 1 .. Len(a) \/ i - Len(a) \in 1 .. Len(b)
    BY <1>1
  <2>6. QED
    BY <2>2, <2>3, <2>4, <2>5
<1>3. \A i \in 1 .. Len(c) :
        \/ i \in 1 .. Len(a) /\ c[i] = a[i]
        \/ i - Len(a) \in 1 .. Len(b) /\ c[i] = b[i - Len(a)]
  BY <1>1
<1>4. \A i \in 1 .. Len(a) : a[i] \in Keys /\ a[i].ms \in Nat
  BY KeyFields, ElementOfSeq
<1>5. \A i \in 1 .. Len(b) : b[i] \in Keys /\ b[i].ms \in Nat
  BY KeyFields, ElementOfSeq
<1>6. Ascending(c)
  <2>1. SUFFICES ASSUME NEW i \in 1 .. Len(c), NEW j \in 1 .. Len(c), i < j
                 PROVE  c[i].ms <= c[j].ms /\ c[i] # c[j]
    BY DEF Ascending
  <2>2. CASE j \in 1 .. Len(a)
    <3>1. i \in 1 .. Len(a)
      BY <1>1, <2>1, <2>2
    <3>2. QED
      BY <1>2, <2>1, <2>2, <3>1 DEF Ascending
  <2>3. CASE i \in 1 .. Len(a) /\ j - Len(a) \in 1 .. Len(b)
    <3>1. c[i] = a[i] /\ c[j] = b[j - Len(a)]
      BY <1>1, <2>3
    <3>2. a[i].ms < b[j - Len(a)].ms
      BY <1>4, <1>5, <2>3
    <3>3. QED
      BY <1>4, <1>5, <2>3, <3>1, <3>2
  <2>4. CASE i - Len(a) \in 1 .. Len(b) /\ j - Len(a) \in 1 .. Len(b)
    <3>1. c[i] = b[i - Len(a)] /\ c[j] = b[j - Len(a)]
      BY <1>1, <2>4
    <3>2. i - Len(a) < j - Len(a)
      BY <1>1, <2>1
    <3>3. QED
      BY <2>4, <3>1, <3>2 DEF Ascending
  <2>5. QED
    BY <1>2, <2>2, <2>3, <2>4
<1>7. QED
  BY <1>1, <1>2, <1>3, <1>6

\* The turn of the loop that Query takes, without its last step.
Turn(results, from) ==
    \/ /\ NeedsMore(from, results)
       /\ analyses' = results
       /\ continueFrom' = from
       /\ UNCHANGED <<pc, next, history>>
    \/ /\ ~NeedsMore(from, results)
       /\ analyses' = <<>>
       /\ continueFrom' = None
       /\ next' = NextTimestamp(from, results)
       /\ pc' = IF next' = None THEN "end" ELSE "page"
       /\ delivered' = delivered \cup {First(results)[i] : i \in DOMAIN First(results)}
       /\ repeated' = repeated
            \cup (delivered \cap {First(results)[i] : i \in DOMAIN First(results)})
            \cup {First(results)[i] :
                    i \in {i \in DOMAIN First(results) :
                            \E j \in 1 .. i - 1 : First(results)[j] = First(results)[i]}}
       /\ UNCHANGED before

LEMMA TurnOfLoop ==
    ASSUME IInv, Query
    PROVE  \E results \in Seq(Keys), from \in Times \cup {None} :
                /\ Reached(results, from) /\ Turn(results, from)
                /\ from # None => continueFrom < from
<1> USE DEF IInv
<1>1. pc = "query" /\ Walking /\ continueFrom \in Times /\ end \in Times /\ start \in Times
  BY DEF Query, RangesAreValid, TypeOK, Walking
<1>2. PICK lately \in SUBSET (Stored \ settled) :
        \E response \in Responses(settled \cup lately, uuidFromTimestamp(continueFrom),
                                  uuidFromTimestamp(end)) :
        \E items \in Items(response) : Turn(analyses \o items, ContinueFrom(response))
  BY Zenon DEF Query, Turn
<1> DEFINE found == settled \cup lately
<1>2a. PICK response \in Responses(found, uuidFromTimestamp(continueFrom), uuidFromTimestamp(end)) :
        \E items \in Items(response) : Turn(analyses \o items, ContinueFrom(response))
  BY <1>2
<1>2b. PICK items \in Items(response) : Turn(analyses \o items, ContinueFrom(response))
  BY <1>2a
<1> DEFINE from == ContinueFrom(response)
           results == analyses \o items
<1>3. found \subseteq Stored /\ found \in SUBSET Keys
  BY DEF TypeOK
<1>4. /\ response.read \subseteq found
      /\ from \in Times \cup {None}
      /\ \A k \in response.read : continueFrom <= k.ms /\ k.ms < end
      /\ from # None =>
           /\ continueFrom < from
           /\ from <= end
           /\ \A k \in response.read : k.ms < from
      /\ \A k \in found :
           (continueFrom <= k.ms /\ k.ms < end /\ \A l \in found : l.ms = k.ms => l = k)
           => k \in response.read \/ (from # None /\ from <= k.ms)
  BY <1>1, <1>3, ResponseFacts
<1>5. /\ items \in Seq(Keys)
      /\ \A i \in 1 .. Len(items) : items[i] \in response.read /\ items[i] \in Matching
      /\ \A k \in response.read \cap Matching : \E i \in 1 .. Len(items) : items[i] = k
      /\ Ascending(items)
  <2>1. response.read \cap Matching \in SUBSET Keys
    BY <1>3, <1>4
  <2>2. items \in Listings(response.read \cap Matching)
    BY <1>2b DEF Items
  <2>3. QED
    BY <2>1, <2>2, ListingFacts
<1>6. /\ analyses \in Seq(Keys)
      /\ Ascending(analyses)
      /\ \A i \in 1 .. Len(analyses) :
            /\ analyses[i] \in Matching
            /\ start <= analyses[i].ms
            /\ analyses[i].ms < end
            /\ analyses[i].ms < continueFrom
      /\ start <= continueFrom
  BY <1>1 DEF TypeOK, ReadInOrder
<1>7. /\ results \in Seq(Keys)
      /\ Ascending(results)
      /\ \A i \in 1 .. Len(results) :
            \/ \E j \in 1 .. Len(analyses) : results[i] = analyses[j]
            \/ \E j \in 1 .. Len(items) : results[i] = items[j]
      /\ \A j \in 1 .. Len(analyses) : \E i \in 1 .. Len(results) : results[i] = analyses[j]
      /\ \A j \in 1 .. Len(items) : \E i \in 1 .. Len(results) : results[i] = items[j]
  <2>1. continueFrom \in Nat
    BY <1>1, KeyFields
  <2>2. QED
    BY <1>4, <1>5, <1>6, <2>1, ConcatAscending
<1>8. /\ start \in Nat /\ end \in Nat /\ continueFrom \in Nat
      /\ from # None => from \in Nat
      /\ \A k \in Stored : k \in Keys /\ k.ms \in Nat
      /\ Matching \subseteq Stored
  BY <1>1, <1>4, KeyFields DEF TypeOK, Matching
<1>9. \A i \in 1 .. Len(results) :
        /\ results[i] \in Matching
        /\ start <= results[i].ms
        /\ results[i].ms < end
        /\ from # None => results[i].ms < from
  <2>1. ASSUME NEW i \in 1 .. Len(results), NEW j \in 1 .. Len(analyses),
               results[i] = analyses[j]
        PROVE  /\ results[i] \in Matching
               /\ start <= results[i].ms
               /\ results[i].ms < end
               /\ from # None => results[i].ms < from
    BY <1>4, <1>6, <1>8, <2>1
  <2>2. ASSUME NEW i \in 1 .. Len(results), NEW j \in 1 .. Len(items),
               results[i] = items[j]
        PROVE  /\ results[i] \in Matching
               /\ start <= results[i].ms
               /\ results[i].ms < end
               /\ from # None => results[i].ms < from
    <3>1. results[i] \in response.read /\ results[i] \in Matching
      BY <1>3, <1>4, <1>5, <2>2
    <3>2. QED
      BY <1>4, <1>6, <1>8, <3>1
  <2>3. QED
    BY <1>7, <2>1, <2>2
<1>10. from # None => start < from /\ from <= end
  BY <1>4, <1>6, <1>8
<1>11. ASSUME NEW k \in before, Siblings(k) = {k}, k.ms < end, k \notin delivered
       PROVE  \/ \E i \in 1 .. Len(results) : results[i] = k
              \/ from # None /\ from <= k.ms
  <2>1. continueFrom <= k.ms \/ \E i \in 1 .. Len(analyses) : analyses[i] = k
    BY <1>1, <1>11 DEF NothingPassed
  <2>2. CASE \E i \in 1 .. Len(analyses) : analyses[i] = k
    BY <1>7, <2>2
  <2>3. CASE continueFrom <= k.ms
    <3>1. k \in settled /\ k \in found /\ k \in Matching /\ k.ms < end
      BY <1>11 DEF BeforeStands, TypeOK, Matching
    <3>2. \A l \in found : l.ms = k.ms => l = k
      BY <1>3, <1>11 DEF Siblings
    <3>3. k \in response.read \/ (from # None /\ from <= k.ms)
      BY <1>4, <2>3, <3>1, <3>2
    <3>4. CASE k \in response.read
      <4>1. \E j \in 1 .. Len(items) : items[j] = k
        BY <1>5, <3>1, <3>4
      <4>2. QED
        BY <1>7, <4>1
    <3>5. QED
      BY <3>3, <3>4
  <2>4. QED
    BY <2>1, <2>2, <2>3
<1>12. Reached(results, from)
  BY <1>7, <1>9, <1>10, <1>11 DEF Reached
<1>13. QED
  BY <1>2b, <1>4, <1>7, <1>12

-----------------------------------------------------------------------------
(***************************************************************************)
(* One page.                                                               *)
(***************************************************************************)

Listed(results) == {First(results)[i] : i \in DOMAIN First(results)}

\* More analyses share a millisecond than fit on a page.
CrowdedAt(t) == ~Listing!Fits({k \in Matching : k.ms = t})

\* What a page and its `next` link make of what the loop has reached.
PageDone(results, later) ==
    /\ later \in Times \cup {None}
    /\ \A k \in Listed(results) : k \in Matching /\ start <= k.ms /\ k.ms < end
    /\ Listing!Fits(Listed(results))
    /\ later # None =>
        /\ start < later \/ (later = start /\ CrowdedAt(start))
        /\ later <= end
        /\ \A k \in Listed(results) : k.ms <= later /\ (Siblings(k) = {k} => k.ms < later)
    /\ \A k \in before : Siblings(k) = {k} /\ k.ms < end =>
        k \in delivered \/ k \in Listed(results) \/ (later # None /\ later <= k.ms)
    /\ \A i \in DOMAIN First(results), j \in DOMAIN First(results) :
        j < i => First(results)[j] # First(results)[i]

LEMMA FirstFacts ==
    ASSUME NEW results \in Seq(Keys)
    PROVE  /\ DOMAIN First(results) = 1 .. Min2(Len(results), ResultLimit)
           /\ \A i \in DOMAIN First(results) :
                i \in 1 .. Len(results) /\ i <= ResultLimit /\ First(results)[i] = results[i]
<1> DEFINE n == Min2(Len(results), ResultLimit)
<1>1. n \in Nat /\ n <= Len(results) /\ n <= ResultLimit /\ Len(results) \in Nat /\ ResultLimit \in Nat
  BY PagingAssumption, LenProperties DEF Min2
<1>2. \A i \in 1 .. n : results[i] \in Keys
  BY <1>1, ElementOfSeq
<1>3. /\ First(results) \in Seq(Keys)
      /\ Len(First(results)) = IF 1 <= n THEN n - 1 + 1 ELSE 0
      /\ \A i \in 1 .. n - 1 + 1 : First(results)[i] = results[1 + i - 1]
  BY <1>1, <1>2, SubSeqProperties DEF First
<1>4. Len(First(results)) = n
  BY <1>1, <1>3
<1>5. DOMAIN First(results) = 1 .. n
  BY <1>3, <1>4, LenProperties
<1>6. \A i \in 1 .. n : First(results)[i] = results[i]
  BY <1>1, <1>3
<1>7. QED
  BY <1>1, <1>5, <1>6

\* A page is of no more than ResultLimit analyses.
LEMMA PageFits ==
    ASSUME NEW results \in Seq(Keys)
    PROVE  Listing!Fits(Listed(results))
<1> DEFINE page == First(results)
           n == Min2(Len(results), ResultLimit)
<1>1. DOMAIN page = 1 .. n /\ \A i \in DOMAIN page : page[i] = results[i]
  BY FirstFacts
<1>2. n \in 0 .. ResultLimit /\ n <= Len(results) /\ Len(results) \in Nat
  BY PagingAssumption, LenProperties DEF Min2
<1>3. page \in [1 .. n -> Keys]
  <2>1. \A i \in 1 .. n : results[i] \in Keys
    BY <1>2, ElementOfSeq
  <2>2. page \in Seq(Keys)
    BY <2>1, <1>2, PagingAssumption, SubSeqProperties DEF First
  <2>3. QED
    BY <1>1, <2>2, LenProperties
<1> HIDE DEF page, n
<1>4. Listed(results) = {page[i] : i \in 1 .. n}
  BY <1>1 DEF Listed, page
<1>5. page \in [1 .. n -> Listed(results)]
  BY <1>3, <1>4
<1>6. QED
  BY <1>2, <1>4, <1>5 DEF Listing!Fits

\* Results that fill a page and more, all of one millisecond, crowd it.
LEMMA CrowdedBy ==
    ASSUME NEW results \in Seq(Keys), NEW t \in Nat,
           Len(results) > ResultLimit, Ascending(results),
           \A i \in 1 .. ResultLimit + 1 : results[i] \in Matching /\ results[i].ms = t
    PROVE  CrowdedAt(t)
<1> DEFINE T == {k \in Matching : k.ms = t}
           m == ResultLimit + 1
           f == [i \in 1 .. m |-> results[i]]
<1>1. m \in Nat /\ m <= Len(results) /\ ResultLimit \in Nat
  BY PagingAssumption, LenProperties
<1>2. \A i, j \in 1 .. m : i < j => results[i] # results[j]
  BY <1>1 DEF Ascending
<1>3. f \in Injection(1 .. m, T)
  <2>1. f \in [1 .. m -> T]
    OBVIOUS
  <2>2. \A i, j \in 1 .. m : f[i] = f[j] => i = j
    BY <1>1, <1>2
  <2>3. QED
    BY <2>1, <2>2 DEF Injection, IsInjective
<1>4. Cardinality(1 .. m) = m
  BY <1>1, FS_Interval
<1> HIDE DEF f, T
<1>5. ASSUME Listing!Fits(T)
      PROVE  FALSE
  <2>1. PICK n \in 0 .. ResultLimit :
          \E page \in [1 .. n -> T] : T = {page[i] : i \in 1 .. n}
    BY <1>5 DEF Listing!Fits
  <2>2. PICK page \in [1 .. n -> T] : T = {page[i] : i \in 1 .. n}
    BY <2>1
  <2>3. page \in Surjection(1 .. n, T)
    BY <2>2 DEF Surjection
  <2>4. IsFiniteSet(1 .. n) /\ Cardinality(1 .. n) = n /\ n \in Nat
    BY <1>1, FS_Interval
  <2>5. IsFiniteSet(T) /\ Cardinality(T) <= n
    BY <2>3, <2>4, FS_Surjection
  <2>6. m <= Cardinality(T) /\ Cardinality(T) \in Nat
    BY <1>3, <1>4, <2>5, FS_Injection, FS_CardinalityType
  <2>7. QED
    BY <1>1, <2>5, <2>6
<1>6. QED
  BY <1>5 DEF CrowdedAt, T

LEMMA PageFacts ==
    ASSUME TypeOK, BeforeStands, NEW results \in Seq(Keys), NEW from \in Times \cup {None},
           Reached(results, from)
    PROVE  PageDone(results, NextTimestamp(from, results))
<1> DEFINE page == First(results)
           later == NextTimestamp(from, results)
<1>1. /\ DOMAIN page = 1 .. Min2(Len(results), ResultLimit)
      /\ \A i \in DOMAIN page :
            i \in 1 .. Len(results) /\ i <= ResultLimit /\ page[i] = results[i]
  BY FirstFacts
<1>2. /\ Len(results) \in Nat
      /\ ResultLimit \in Nat \ {0}
      /\ \A i \in 1 .. Len(results) :
            results[i] \in Keys /\ results[i].ms \in Nat /\ results[i].ms \in Times
  BY PagingAssumption, LenProperties, ElementOfSeq, KeyFields
<1>3. start \in Nat /\ end \in Nat /\ (from # None => from \in Nat)
  BY KeyFields DEF TypeOK
<1>4. /\ \A i, j \in 1 .. Len(results) :
            i < j => results[i].ms <= results[j].ms /\ results[i] # results[j]
      /\ \A i \in 1 .. Len(results) :
            /\ results[i] \in Matching /\ results[i] \in Stored
            /\ start <= results[i].ms
            /\ results[i].ms < end
            /\ from # None => results[i].ms < from
      /\ from # None => start < from /\ from <= end
      /\ \A k \in before : Siblings(k) = {k} /\ k.ms < end =>
            \/ k \in delivered
            \/ \E i \in 1 .. Len(results) : results[i] = k
            \/ from # None /\ from <= k.ms
  BY DEF Reached, Ascending, Matching
<1>5. \A k \in Listed(results) : k \in Matching /\ k \in Stored /\ start <= k.ms /\ k.ms < end
  BY <1>1, <1>4 DEF Listed
<1>6. /\ \A i \in DOMAIN page, j \in DOMAIN page : j < i => page[j] # page[i]
      /\ Listing!Fits(Listed(results))
  BY <1>1, <1>4, PageFits
<1>7. CASE Len(results) > ResultLimit
  <2> DEFINE m == ResultLimit + 1
  <2>1. m \in 1 .. Len(results) /\ \A i \in DOMAIN page : i < m
    BY <1>1, <1>2, <1>7
  <2>2. later = results[m].ms /\ later \in Times /\ later \in Nat /\ later # None
    BY <1>2, <1>7, <2>1, PagingAssumption DEF NextTimestamp, timestampFromUuid
  <2>3. start <= later /\ later <= end
    BY <1>2, <1>3, <1>4, <2>1, <2>2
  <2>4. ASSUME NEW i \in DOMAIN page
        PROVE  page[i].ms <= later /\ (Siblings(page[i]) = {page[i]} => page[i].ms < later)
    <3>1. page[i].ms <= later /\ page[i] # results[m]
      BY <1>1, <1>4, <2>1, <2>2
    <3>2. ASSUME page[i].ms = later PROVE results[m] \in Siblings(page[i])
      BY <1>4, <2>1, <2>2, <3>2 DEF Siblings
    <3>3. page[i].ms \in Nat
      BY <1>1, <1>2
    <3>4. QED
      BY <2>2, <3>1, <3>2, <3>3
  <2>5. ASSUME NEW k \in before, Siblings(k) = {k}, k.ms < end, k \notin delivered
        PROVE  k \in Listed(results) \/ later <= k.ms
    <3>1. k \in Keys /\ k.ms \in Nat
      BY KeyFields DEF TypeOK
    <3>2. CASE \E i \in 1 .. Len(results) : results[i] = k
      <4>1. PICK i \in 1 .. Len(results) : results[i] = k
        BY <3>2
      <4>2. CASE i <= ResultLimit
        <5>1. i \in DOMAIN page
          BY <1>1, <1>2, <4>2 DEF Min2
        <5>2. QED
          BY <1>1, <4>1, <5>1 DEF Listed
      <4>3. CASE ~(i <= ResultLimit)
        <5>1. i = m \/ m < i
          BY <1>2, <4>3
        <5>2. QED
          BY <1>2, <1>4, <2>1, <2>2, <4>1, <5>1
      <4>4. QED
        BY <4>2, <4>3
    <3>3. CASE from # None /\ from <= k.ms
      BY <1>2, <1>3, <1>4, <2>1, <2>2, <3>1, <3>3
    <3>4. QED
      BY <1>4, <2>5, <3>2, <3>3
  <2>6. start < later \/ (later = start /\ CrowdedAt(start))
    <3>1. CASE later = start
      <4>1. ASSUME NEW i \in 1 .. m
            PROVE  results[i] \in Matching /\ results[i].ms = start
        <5>1. i \in 1 .. Len(results) /\ (i = m \/ i < m)
          BY <1>2, <2>1
        <5>2. results[i].ms <= results[m].ms /\ start <= results[i].ms /\ results[i].ms \in Nat
          BY <1>2, <1>4, <2>1, <5>1
        <5>3. QED
          BY <1>3, <1>4, <2>2, <3>1, <5>1, <5>2
      <4>2. CrowdedAt(start)
        BY <1>3, <1>7, <4>1, CrowdedBy DEF Reached
      <4>3. QED
        BY <3>1, <4>2
    <3>2. QED
      BY <1>3, <2>2, <2>3, <3>1
  <2>7. QED
    BY <1>5, <1>6, <2>2, <2>3, <2>4, <2>5, <2>6 DEF PageDone, Listed
<1>8. CASE ~(Len(results) > ResultLimit)
  <2>1. later = from
    BY <1>8 DEF NextTimestamp
  <2>2. DOMAIN page = 1 .. Len(results)
    <3>1. Min2(Len(results), ResultLimit) = Len(results)
      BY <1>2, <1>8 DEF Min2
    <3>2. QED
      BY <1>1, <3>1
  <2>3. \A i \in 1 .. Len(results) : results[i] \in Listed(results)
    BY <1>1, <2>2 DEF Listed
  <2>4. \A i \in DOMAIN page : from # None => page[i].ms < from /\ page[i].ms <= from
    BY <1>1, <1>2, <1>3, <1>4
  <2>5. QED
    BY <1>4, <1>5, <1>6, <2>1, <2>3, <2>4 DEF PageDone, Listed
<1>9. QED
  BY <1>7, <1>8

-----------------------------------------------------------------------------
(***************************************************************************)
(* The invariant is inductive.                                             *)
(***************************************************************************)

LEMMA InitInv == Init => IInv
<1> SUFFICES ASSUME Init PROVE IInv
  OBVIOUS
<1> USE DEF Init
<1>1. 0 \in Times /\ Stored = {} /\ Len(analyses) = 0 /\ ~Walking
  BY PagingAssumption, EmptySeq DEF Times, Stored, Walking
<1>2. TypeOK
  BY <1>1, PagingAssumption DEF TypeOK
<1>3. ReadInOrder
  BY <1>1 DEF ReadInOrder, Ascending
<1>4. QED
  BY <1>1, <1>2, <1>3 DEF IInv, RangesAreValid, BeforeStands, NothingPassed,
     ListedIsBehind, OnlySiblingsRepeat

\* A key that is alone in its millisecond has been so since it was stored.
LEMMA LoneSince ==
    ASSUME Stored \subseteq Stored', NEW k, k \in Stored, Siblings(k)' = {k}
    PROVE  Siblings(k) = {k}
BY DEF Siblings

\* Storing and settling change nothing of the walk.
LEMMA TableStep ==
    ASSUME IInv, UNCHANGED <<pc, next, request, history>>, Stored \subseteq Stored',
           settled \subseteq settled', \A k \in Stored : table'[k] = table[k], TypeOK'
    PROVE  IInv'
<1> USE DEF IInv, request, history
<1>1. settled \subseteq Stored
  BY DEF TypeOK
<1>2. Walking' = Walking /\ Position' = Position
  BY DEF Walking, Position
<1>3. RangesAreValid'
  BY DEF RangesAreValid, EndText
<1>4. ReadInOrder'
  BY DEF ReadInOrder, Ascending, Matching
<1>5. BeforeStands'
  BY <1>1 DEF BeforeStands
<1>6. NothingPassed'
  <2>1. SUFFICES ASSUME Walking, NEW k \in before, Siblings(k)' = {k}, k.ms < end
                 PROVE  \/ k \in delivered
                        \/ pc = "query" /\ \/ continueFrom <= k.ms
                                           \/ \E i \in 1 .. Len(analyses) : analyses[i] = k
                        \/ pc = "page" /\ next <= k.ms
    BY <1>2 DEF NothingPassed, request
  <2>2. Siblings(k) = {k}
    BY <1>1, <2>1, LoneSince DEF BeforeStands
  <2>3. QED
    BY <2>1, <2>2 DEF NothingPassed
<1>7. ListedIsBehind'
  <2>1. SUFFICES ASSUME NEW k \in delivered
                 PROVE  /\ k \in Stored'
                        /\ Walking =>
                            k.ms <= Position /\ (Siblings(k)' = {k} => k.ms < Position)
    BY <1>2 DEF ListedIsBehind
  <2>2. k \in Stored
    BY DEF ListedIsBehind
  <2>3. Siblings(k)' = {k} => Siblings(k) = {k}
    BY <2>2, LoneSince
  <2>4. QED
    BY <2>2, <2>3 DEF ListedIsBehind
<1>8. OnlySiblingsRepeat'
  <2>1. ASSUME NEW k \in repeated, Siblings(k)' = {k} PROVE FALSE
    <3>1. k \in Stored
      BY DEF TypeOK, ListedIsBehind
    <3>2. QED
      BY <2>1, <3>1, LoneSince DEF OnlySiblingsRepeat
  <2>2. QED
    BY <2>1 DEF OnlySiblingsRepeat
<1>9. QED
  BY <1>3, <1>4, <1>5, <1>6, <1>7, <1>8

LEMMA StoreInv ==
    ASSUME IInv, NEW k \in Keys, NEW c \in Cameras, Store(k, c)
    PROVE  IInv'
<1> USE DEF IInv
<1>1. /\ Stored' = Stored \cup {k}
      /\ \A l \in Stored : table'[l] = table[l]
      /\ UNCHANGED <<settled, pc, next, request, history>>
  BY DEF Store, Stored
<1>2. table' \in [Stored' -> Cameras]
  BY <1>1 DEF Store, TypeOK
<1>3. TypeOK'
  BY <1>1, <1>2 DEF TypeOK, request, history
<1>4. QED
  BY <1>1, <1>3, TableStep

LEMMA SettleInv ==
    ASSUME IInv, NEW k \in Keys, Settle(k)
    PROVE  IInv'
<1> USE DEF IInv
<1>1. /\ Stored' = Stored
      /\ table' = table
      /\ settled' = settled \cup {k}
      /\ k \in Stored
      /\ UNCHANGED <<pc, next, request, history>>
  BY DEF Settle, Stored
<1>2. TypeOK'
  BY <1>1 DEF TypeOK, request, history
<1>3. QED
  BY <1>1, <1>2, TableStep

\* An empty list of results is in order.
LEMMA NothingRead ==
    <<>> \in Seq(Keys) /\ Len(<<>>) = 0 /\ Ascending(<<>>)
BY EmptySeq DEF Ascending

LEMMA AskInv ==
    ASSUME IInv, NEW s \in Texts, NEW e \in Texts, NEW f \in Filters, Ask(s, e, f)
    PROVE  IInv'
<1> USE DEF IInv, Ask, Receive
<1>1. /\ s.time \in Times /\ s.time \in Nat /\ e.time \in Times /\ e.time \in Nat
      /\ e.offset \in Offsets /\ Stored' = Stored /\ Keys' = Keys
  BY KeyFields DEF Stored, Texts
<1>2. \A k \in before' : k \in settled /\ table[k] \in f /\ s.time <= k.ms
  OBVIOUS
<1>3. TypeOK'
  BY <1>1, <1>2, NothingRead DEF TypeOK
<1>4. RangesAreValid'
  BY <1>1 DEF RangesAreValid
<1>5. ReadInOrder'
  BY <1>1, NothingRead DEF ReadInOrder
<1>6. BeforeStands'
  BY <1>2 DEF BeforeStands
<1>7. NothingPassed'
  BY <1>2 DEF NothingPassed, Walking
<1>8. ListedIsBehind' /\ OnlySiblingsRepeat'
  BY DEF ListedIsBehind, OnlySiblingsRepeat
<1>9. QED
  BY <1>1, <1>3, <1>4, <1>5, <1>6, <1>7, <1>8

LEMMA FollowLinkInv ==
    ASSUME IInv, FollowLink
    PROVE  IInv'
<1> USE DEF IInv, FollowLink, Receive
<1>1. next \in Times /\ next \in Nat /\ end \in Nat /\ next <= end /\ pc = "page" /\ Walking
  BY KeyFields DEF RangesAreValid, ReadInOrder, TypeOK, Walking
<1>2. /\ pc' \in {"query", "rejected"} /\ start' = next /\ continueFrom' = next
      /\ UNCHANGED <<table, settled, end, endOffset, filter, before, delivered, repeated>>
  BY <1>1 DEF history, Utc, EndText
<1>3. /\ Stored' = Stored /\ \A k : Siblings(k)' = Siblings(k)
      /\ Position' = Position
  BY <1>1, <1>2 DEF Stored, Position, Siblings
<1>4. TypeOK'
  BY <1>1, <1>2, <1>3, NothingRead DEF TypeOK
<1>5. RangesAreValid'
  BY <1>1, <1>2 DEF RangesAreValid
<1>6. ReadInOrder'
  BY <1>1, <1>2, NothingRead DEF ReadInOrder
<1>7. BeforeStands'
  BY <1>2 DEF BeforeStands
<1>8. NothingPassed'
  BY <1>1, <1>2, <1>3 DEF NothingPassed, Walking
<1>9. ListedIsBehind'
  BY <1>1, <1>2, <1>3 DEF ListedIsBehind
<1>10. OnlySiblingsRepeat'
  BY <1>2, <1>3 DEF OnlySiblingsRepeat
<1>11. QED
  BY <1>3, <1>4, <1>5, <1>6, <1>7, <1>8, <1>9, <1>10

LEMMA QueryFailsInv ==
    ASSUME IInv, QueryFails
    PROVE  IInv'
<1> USE DEF IInv, QueryFails, history
<1>1. Stored' = Stored /\ \A k : Siblings(k)' = Siblings(k)
  BY DEF Stored, Siblings
<1>2. TypeOK'
  BY <1>1, NothingRead DEF TypeOK
<1>3. RangesAreValid' /\ NothingPassed'
  BY DEF RangesAreValid, NothingPassed, Walking
<1>4. ReadInOrder'
  BY NothingRead DEF ReadInOrder
<1>5. BeforeStands'
  BY DEF BeforeStands
<1>6. ListedIsBehind'
  BY <1>1 DEF ListedIsBehind, Walking
<1>7. OnlySiblingsRepeat'
  BY <1>1 DEF OnlySiblingsRepeat
<1>8. QED
  BY <1>1, <1>2, <1>3, <1>4, <1>5, <1>6, <1>7

LEMMA QueryInv ==
    ASSUME IInv, Query
    PROVE  IInv'
<1> USE DEF IInv
<1>1. pc = "query" /\ Walking /\ Position = start /\ start \in Nat /\ start \in Times
  BY KeyFields DEF Query, Walking, Position, TypeOK
<1>2. UNCHANGED <<table, settled, start, end, endOffset, filter>>
  BY DEF Query
<1>3. Stored' = Stored /\ Matching' = Matching /\ \A k : Siblings(k)' = Siblings(k)
  BY <1>2 DEF Stored, Siblings, Matching
<1>4. PICK results \in Seq(Keys), from \in Times \cup {None} :
        Reached(results, from) /\ Turn(results, from)
  BY TurnOfLoop
<1>5. CASE /\ NeedsMore(from, results)
           /\ analyses' = results
           /\ continueFrom' = from
           /\ UNCHANGED <<pc, next, history>>
  <2> USE DEF history
  <2>1. from # None /\ from \in Times
    BY <1>5 DEF NeedsMore
  <2>2. TypeOK'
    BY <1>2, <1>3, <1>5, <2>1 DEF TypeOK
  <2>3. RangesAreValid'
    BY <1>1, <1>2, <1>4, <1>5, <2>1 DEF RangesAreValid, Reached
  <2>4. ReadInOrder'
    <3>1. start \in Nat /\ from \in Nat
      BY <1>1, <2>1, KeyFields
    <3>2. QED
      BY <1>1, <1>2, <1>3, <1>4, <1>5, <2>1, <3>1 DEF ReadInOrder, Reached
  <2>5. BeforeStands'
    BY <1>2, <1>5 DEF BeforeStands
  <2>6. NothingPassed'
    BY <1>1, <1>2, <1>3, <1>4, <1>5 DEF NothingPassed, Reached
  <2>7. ListedIsBehind'
    <3>1. Position' = Position /\ Walking' = Walking /\ delivered' = delivered
      BY <1>2, <1>5 DEF Position, Walking
    <3>2. QED
      BY <1>3, <3>1 DEF ListedIsBehind
  <2>8. OnlySiblingsRepeat'
    BY <1>3, <1>5 DEF OnlySiblingsRepeat
  <2>9. QED
    BY <1>3, <2>2, <2>3, <2>4, <2>5, <2>6, <2>7, <2>8
<1>6. CASE /\ ~NeedsMore(from, results)
           /\ analyses' = <<>>
           /\ continueFrom' = None
           /\ next' = NextTimestamp(from, results)
           /\ pc' = IF next' = None THEN "end" ELSE "page"
           /\ delivered' = delivered \cup Listed(results)
           /\ repeated' = repeated \cup (delivered \cap Listed(results))
                \cup {First(results)[i] :
                        i \in {i \in DOMAIN First(results) :
                                \E j \in 1 .. i - 1 : First(results)[j] = First(results)[i]}}
           /\ UNCHANGED before
  <2>1. PageDone(results, next')
    BY <1>4, <1>6, PageFacts
  <2>2. /\ next' \in Times \cup {None}
        /\ \A k \in Listed(results) : k \in Stored /\ start <= k.ms
        /\ next' # None =>
            /\ start <= next'
            /\ next' <= end
            /\ \A k \in Listed(results) : k.ms <= next' /\ (Siblings(k) = {k} => k.ms < next')
        /\ \A k \in before : Siblings(k) = {k} /\ k.ms < end =>
            k \in delivered \/ k \in Listed(results) \/ (next' # None /\ next' <= k.ms)
    <3>1. next' \in Times => next' \in Nat
      BY KeyFields
    <3>2. QED
      BY <1>1, <2>1, <3>1, PagingAssumption DEF PageDone, Matching
  <2>3. repeated' = repeated \cup (delivered \cap Listed(results))
    <3>1. ASSUME NEW i \in DOMAIN First(results), NEW j \in 1 .. i - 1
          PROVE  First(results)[j] # First(results)[i]
      <4>1. DOMAIN First(results) = 1 .. Min2(Len(results), ResultLimit)
            /\ Min2(Len(results), ResultLimit) \in Nat
        BY FirstFacts, LenProperties, PagingAssumption DEF Min2
      <4>2. j \in DOMAIN First(results) /\ j < i
        BY <4>1
      <4>3. QED
        BY <2>1, <4>2 DEF PageDone
    <3>2. QED
      BY <1>6, <3>1, Zenon
  <2>4. TypeOK'
    <3>1. Listed(results) \subseteq Keys
      BY <2>2 DEF TypeOK
    <3>2. QED
      BY <1>2, <1>3, <1>6, <2>2, <2>3, <3>1, NothingRead DEF TypeOK
  <2>5. RangesAreValid'
    <3>1. /\ end \in Int /\ endOffset \in Int
          /\ next' \in Times => next' \in Int
      <4>1. end \in Times /\ endOffset \in Offsets
        BY DEF TypeOK
      <4>2. QED
        BY <4>1, PagingAssumption DEF Times
    <3>2. pc' = "page" => next' \in Times /\ next' <= end
      BY <1>6, <2>2
    <3>3. pc' = "page" /\ endOffset >= 0 => ~TextBefore(EndText, Utc(next'))
      BY <3>1, <3>2, ReadInTheirOrder DEF EndText
    <3>4. pc' # "query" /\ EndText' = EndText
      BY <1>2, <1>6 DEF EndText
    <3>5. QED
      BY <1>2, <3>2, <3>3, <3>4 DEF RangesAreValid
  <2>6. ReadInOrder'
    BY <1>6, <2>2, NothingRead DEF ReadInOrder
  <2>7. BeforeStands'
    BY <1>2, <1>6 DEF BeforeStands
  <2>8. NothingPassed'
    BY <1>2, <1>3, <1>6, <2>2 DEF NothingPassed, Walking
  <2>9. ListedIsBehind'
    <3>1. SUFFICES ASSUME NEW k \in delivered \cup Listed(results)
                   PROVE  /\ k \in Stored
                          /\ pc' = "page" =>
                                k.ms <= next' /\ (Siblings(k) = {k} => k.ms < next')
      BY <1>3, <1>6 DEF ListedIsBehind, Walking, Position
    <3>2. CASE k \in Listed(results)
      BY <1>6, <2>2, <3>2
    <3>3. CASE k \in delivered
      <4>1. k \in Stored /\ k.ms <= start /\ (Siblings(k) = {k} => k.ms < start)
        BY <1>1, <3>3 DEF ListedIsBehind
      <4>2. pc' = "page" => next' \in Nat /\ start <= next'
        BY <1>6, <2>2, KeyFields
      <4>3. k.ms \in Nat
        BY <4>1, KeyFields DEF TypeOK
      <4>4. QED
        BY <1>1, <4>1, <4>2, <4>3
    <3>4. QED
      BY <3>1, <3>2, <3>3
  <2>10. OnlySiblingsRepeat'
    <3>1. ASSUME NEW k \in delivered, k \in Listed(results), Siblings(k) = {k} PROVE FALSE
      <4>1. k.ms < start /\ start <= k.ms /\ k.ms \in Nat
        BY <1>1, <2>2, <3>1, KeyFields DEF ListedIsBehind, TypeOK
      <4>2. QED
        BY <1>1, <4>1
    <3>2. QED
      BY <1>3, <2>3, <3>1 DEF OnlySiblingsRepeat
  <2>11. QED
    BY <1>3, <2>4, <2>5, <2>6, <2>7, <2>8, <2>9, <2>10
<1>7. QED
  BY <1>4, <1>5, <1>6 DEF Turn, Listed

LEMMA StutterInv ==
    ASSUME IInv, UNCHANGED vars
    PROVE  IInv'
<1>1. Stored' = Stored /\ \A k : Siblings(k)' = Siblings(k)
  BY DEF vars, Stored, Siblings
<1>2. TypeOK'
  BY <1>1 DEF IInv, TypeOK, vars
<1>3. UNCHANGED <<pc, next, request, history>>
  BY DEF vars, request, history
<1>4. QED
  BY <1>1, <1>2, <1>3, TableStep DEF vars, IInv

LEMMA NextInv == IInv /\ [Next]_vars => IInv'
<1> SUFFICES ASSUME IInv, [Next]_vars PROVE IInv'
  OBVIOUS
<1>1. CASE \E k \in Keys, c \in Cameras : Store(k, c)
  BY <1>1, StoreInv
<1>2. CASE \E k \in Keys : Settle(k)
  BY <1>2, SettleInv
<1>3. CASE \E s \in Texts, e \in Texts, f \in Filters : Ask(s, e, f)
  BY <1>3, AskInv
<1>4. CASE FollowLink
  BY <1>4, FollowLinkInv
<1>5. CASE Query
  BY <1>5, QueryInv
<1>6. CASE QueryFails
  BY <1>6, QueryFailsInv
<1>7. CASE UNCHANGED vars
  BY <1>7, StutterInv
<1>8. QED
  BY <1>1, <1>2, <1>3, <1>4, <1>5, <1>6, <1>7 DEF Next

LEMMA Invariance == Spec => []IInv
BY InitInv, NextInv, PTL DEF Spec

-----------------------------------------------------------------------------
(***************************************************************************)
(* The theorems.                                                           *)
(***************************************************************************)

\* Type correctness of the list of analyses and of the walk over it.
THEOREM TypeCorrect == Spec => []TypeOK
BY Invariance, PTL DEF IInv

\* getAnalysisResults never queries a range that ends before it starts, unless the
\* client's does, and the handler, which compares texts, rejects none of its own
\* links if the client's endTime is not written in the time of a place behind UTC.
THEOREM RangesValid == Spec => []RangesAreValid
BY Invariance, PTL DEF IInv

\* Whatever the limits, a walk lists twice only what shares its millisecond
\* with another analysis.
THEOREM RepeatsAreSiblings == Spec => []OnlySiblingsRepeat
BY Invariance, PTL DEF IInv

\* What only the answer of a request can change.
LEMMA OnlyQueryEnds ==
    ASSUME [Next]_vars, pc # "end", pc' = "end"
    PROVE  Query
BY DEF Next, Store, Settle, Ask, Receive, FollowLink, QueryFails, vars

LEMMA OnlyQueryLists ==
    ASSUME [Next]_vars, delivered' # {}, delivered' # delivered
    PROVE  Query
BY DEF Next, Store, Settle, Ask, Receive, FollowLink, QueryFails, vars, history

LEMMA EndListsAll ==
    ASSUME IInv, [Next]_vars, pc # "end", pc' = "end",
           NEW k \in before, Siblings(k) = {k}, k.ms < end
    PROVE  k \in delivered'
<1>1. Query
  BY OnlyQueryEnds
<1>2. PICK results \in Seq(Keys), from \in Times \cup {None} :
        Reached(results, from) /\ Turn(results, from)
  BY <1>1, TurnOfLoop
<1>3. /\ next' = NextTimestamp(from, results)
      /\ next' = None
      /\ delivered' = delivered \cup Listed(results)
  BY <1>2 DEF Turn, Listed
<1>4. PageDone(results, next')
  BY <1>2, <1>3, PageFacts DEF IInv
<1>5. QED
  BY <1>3, <1>4 DEF PageDone

\* A client that follows the links to the end gets every analysis of before
\* endTime's millisecond that was there when it began and is alone in its millisecond, whatever is stored
\* meanwhile, whatever the limits and wherever DynamoDB ends its responses.
THEOREM LoneListed == Spec => LoneItemsListed
<1>1. IInv /\ [Next]_vars =>
        [pc # "end" /\ pc' = "end" =>
            \A k \in before : Siblings(k) = {k} /\ k.ms < end => k \in delivered']_vars
  BY EndListsAll
<1>2. QED
  BY <1>1, Invariance, PTL DEF Spec, LoneItemsListed

-----------------------------------------------------------------------------
(***************************************************************************)
(* The refinement: AnalysisListing sees of a request only its page.        *)
(***************************************************************************)
WalkPosition == CASE pc = "query" -> start [] pc = "page" -> next [] OTHER -> None

LEMMA PositionOf ==
    /\ pc = "query" => WalkPosition = start
    /\ pc = "page" => WalkPosition = next
    /\ pc \notin {"query", "page"} => WalkPosition = None
BY DEF WalkPosition

LEMMA NextPositionOf ==
    /\ pc' = "query" => WalkPosition' = start'
    /\ pc' = "page" => WalkPosition' = next'
    /\ pc' \notin {"query", "page"} => WalkPosition' = None
BY DEF WalkPosition

LEMMA LoneSiblings ==
    ASSUME NEW k \in Stored
    PROVE  Listing!Lone(k) <=> Siblings(k) = {k}
BY DEF Listing!Lone, Listing!Stored, Siblings, Stored

LEMMA SameStored == Listing!Stored = Stored /\ Listing!Matching = Matching
BY DEF Listing!Stored, Stored, Listing!Matching, Matching

\* What every query finds lies within the stored analyses, of which there are
\* more and more.
LEMMA TableGrows ==
    ASSUME IInv, UNCHANGED <<pc, next, request, history>>, Stored \subseteq Stored',
           settled \subseteq settled', \A k \in Stored : table'[k] = table[k], TypeOK'
    PROVE  Listing!Grow
<1>1. UNCHANGED <<pc, start, end, filter, next, before, delivered>>
  BY DEF request, history
<1>2. Stored' \subseteq Keys /\ settled' \subseteq Stored'
  BY DEF TypeOK
<1>3. WalkPosition' = WalkPosition
  BY <1>1 DEF WalkPosition
<1>4. UNCHANGED Listing!walk
  BY <1>1, <1>3 DEF Listing!walk, WalkPosition
<1>5. QED
  BY <1>1, <1>2, <1>4 DEF Listing!Grow, Listing!Stored, Stored

LEMMA AskBegins ==
    ASSUME IInv, NEW s \in Texts, NEW e \in Texts, NEW f \in Filters, Ask(s, e, f)
    PROVE  Listing!Begin(s.time, e.time, f)
<1>1. WalkPosition = None /\ pc' \in {"rejected", "query"}
  BY PositionOf DEF Ask, Receive
<1>2. WalkPosition' \in {None, s.time}
  BY <1>1, NextPositionOf DEF Ask, Receive
<1>3. QED
  BY <1>1, <1>2 DEF Ask, Receive, Listing!Begin, WalkPosition

LEMMA LinkIsFollowed ==
    ASSUME IInv, FollowLink
    PROVE  UNCHANGED Listing!vars \/ Listing!Fail
<1>1. pc = "page" /\ next \in Times /\ next # None /\ WalkPosition = next
  BY PagingAssumption, PositionOf DEF FollowLink, IInv, ReadInOrder
<1>2. /\ pc' \in {"query", "rejected"} /\ start' = next
      /\ UNCHANGED <<table, settled, end, filter, before, delivered>>
  BY <1>1 DEF FollowLink, Receive, Utc, EndText, history
<1>3. CASE pc' = "query"
  <2>1. WalkPosition' = WalkPosition
    BY <1>1, <1>2, <1>3, NextPositionOf
  <2>2. QED
    BY <1>1, <1>2, <1>3, <2>1 DEF Listing!vars, WalkPosition
<1>4. CASE pc' = "rejected"
  <2>1. WalkPosition' = None
    BY <1>4, NextPositionOf
  <2>2. QED
    BY <1>1, <1>2, <1>4, <2>1 DEF Listing!Fail, WalkPosition
<1>5. QED
  BY <1>2, <1>3, <1>4

\* A turn of the loop is nothing to the client, or the page.
LEMMA PageIsListed ==
    ASSUME IInv, Query
    PROVE  \/ UNCHANGED Listing!vars
           \/ \E page \in SUBSET Matching, to \in Times \cup {None} : Listing!ListPage(page, to)
<1>1. pc = "query" /\ UNCHANGED <<table, settled, start, end, endOffset, filter>>
  BY DEF Query
<1>2. PICK results \in Seq(Keys), from \in Times \cup {None} :
        Reached(results, from) /\ Turn(results, from)
  BY TurnOfLoop
<1>3. CASE UNCHANGED <<pc, next, history>>
  <2>1. WalkPosition' = WalkPosition
    BY <1>1, <1>3 DEF WalkPosition
  <2>2. QED
    BY <1>1, <1>3, <2>1 DEF history, Listing!vars, WalkPosition
<1>4. CASE /\ next' = NextTimestamp(from, results)
           /\ pc' = IF next' = None THEN "end" ELSE "page"
           /\ delivered' = delivered \cup Listed(results)
           /\ UNCHANGED before
  <2> DEFINE page == Listed(results)
             to == next'
  <2>1. PageDone(results, to)
    BY <1>2, <1>4, PageFacts DEF IInv
  <2>2. /\ to \in Times \cup {None}
        /\ \A k \in page : k \in Matching /\ start <= k.ms /\ k.ms < end
        /\ Listing!Fits(page)
        /\ to # None => /\ start < to \/ (to = start /\ CrowdedAt(start))
                        /\ to <= end
                        /\ \A k \in page : k.ms <= to
        /\ \A k \in before : Siblings(k) = {k} /\ k.ms < end =>
             k \in delivered \/ k \in page \/ (to # None /\ to <= k.ms)
    BY <2>1 DEF PageDone
  <2>3. WalkPosition = start /\ start \in Times /\ start # None
    BY <1>1, PositionOf, PagingAssumption DEF IInv, TypeOK
  <2>4. WalkPosition' = to
    BY <1>4, NextPositionOf
  <2> HIDE DEF page, to
  <2>5. (pc' = "end") = (to = None)
    BY <1>4 DEF to
  <2>6. ASSUME NEW k \in page \cap delivered
        PROVE  ~Listing!Lone(k)
    <3>1. k \in Stored /\ k.ms \in Nat /\ start \in Nat /\ start <= k.ms
      BY <2>2, <2>3, KeyFields DEF IInv, TypeOK, Matching
    <3>2. Siblings(k) = {k} => k.ms < start
      BY <1>1 DEF IInv, ListedIsBehind, Walking, Position
    <3>3. QED
      BY <3>1, <3>2, LoneSiblings
  <2>7. \A k \in before : k \in Stored
    BY DEF IInv, BeforeStands, TypeOK
  <2>8. \A k \in before : Listing!Lone(k) /\ k.ms < end =>
          k \in delivered \cup page \/ (to # None /\ to <= k.ms)
    BY <2>2, <2>7, LoneSiblings
  <2>9. CrowdedAt(start) => Listing!Crowded
    BY <2>3, SameStored DEF CrowdedAt, Listing!Crowded, WalkPosition
  <2>10. Listing!ListPage(page, to)
    BY <1>1, <1>4, <2>2, <2>3, <2>4, <2>5, <2>6, <2>8, <2>9, SameStored
       DEF Listing!ListPage, WalkPosition, page
  <2>11. page \in SUBSET Matching /\ to \in Times \cup {None}
    BY <2>2
  <2>12. QED
    BY <2>10, <2>11
<1>5. QED
  BY <1>2, <1>3, <1>4 DEF Turn, Listed

LEMMA FailureEnds ==
    ASSUME IInv, QueryFails
    PROVE  Listing!Fail
<1>1. pc = "query" /\ pc' = "failed" /\ start \in Times /\ start # None
  BY PagingAssumption DEF QueryFails, IInv, TypeOK
<1>2. WalkPosition = start /\ WalkPosition' = None
  BY <1>1, PositionOf, NextPositionOf
<1>3. QED
  BY <1>1, <1>2 DEF QueryFails, history, Listing!Fail, WalkPosition

LEMMA NextListed ==
    ASSUME IInv, [Next]_vars
    PROVE  [Listing!Next]_(Listing!vars)
<1>1. ASSUME NEW k \in Keys, NEW c \in Cameras, Store(k, c)
      PROVE  Listing!Grow
  <2>1. /\ Stored' = Stored \cup {k} /\ \A l \in Stored : table'[l] = table[l]
        /\ UNCHANGED <<settled, pc, next, request, history>>
    BY <1>1 DEF Store, Stored
  <2>2. TypeOK'
    BY <1>1, StoreInv DEF IInv
  <2>3. QED
    BY <2>1, <2>2, TableGrows
<1>2. ASSUME NEW k \in Keys, Settle(k)
      PROVE  Listing!Grow
  <2>1. /\ Stored' = Stored /\ table' = table /\ settled \subseteq settled'
        /\ UNCHANGED <<pc, next, request, history>>
    BY <1>2 DEF Settle, Stored
  <2>2. TypeOK'
    BY <1>2, SettleInv DEF IInv
  <2>3. QED
    BY <2>1, <2>2, TableGrows
<1>3. ASSUME NEW s \in Texts, NEW e \in Texts, NEW f \in Filters, Ask(s, e, f)
      PROVE  Listing!Next
  <2>1. s.time \in Times /\ e.time \in Times
    BY DEF Texts
  <2>2. QED
    BY <1>3, <2>1, AskBegins DEF Listing!Next
<1>4. CASE FollowLink
  BY <1>4, LinkIsFollowed DEF Listing!Next
<1>5. CASE Query
  BY <1>5, PageIsListed, SameStored DEF Listing!Next
<1>6. CASE QueryFails
  BY <1>6, FailureEnds DEF Listing!Next
<1>7. CASE UNCHANGED vars
  <2>1. WalkPosition' = WalkPosition
    BY <1>7 DEF vars, WalkPosition
  <2>2. QED
    BY <1>7, <2>1 DEF vars, Listing!vars, WalkPosition
<1>8. QED
  BY <1>1, <1>2, <1>3, <1>4, <1>5, <1>6, <1>7 DEF Next, Listing!Next

LEMMA InitListed ==
    ASSUME Init
    PROVE  Listing!Init
<1>1. WalkPosition = None
  BY DEF Init, WalkPosition
<1>2. QED
  BY <1>1 DEF Init, Listing!Init, WalkPosition

\* The loop of queries, the page cut from what it has read and the link made from
\* what is left over implement AnalysisListing: whatever DynamoDB's responses and
\* whatever is stored between them, a page is of the request's cameras and times,
\* passes over nothing, and takes the walk forward unless its millisecond is
\* crowded.
THEOREM PagingImplementsListing == Spec => ListingKept
<1>1. Init => Listing!Init
  BY InitListed
<1>2. IInv /\ [Next]_vars => [Listing!Next]_(Listing!vars)
  BY NextListed
<1>3. QED
  BY <1>1, <1>2, Invariance, PTL DEF Spec, ListingKept, Listing!Spec

\* What AnalysisListing alone keeps: what was there when the walk began and is alone
\* in its millisecond is listed or still ahead, or the walk has failed.
ListedOrAhead ==
    /\ WalkPosition # None =>
         /\ pc # "end"
         /\ \A k \in before :
              Listing!Lone(k) /\ k.ms < end => k \in delivered \/ WalkPosition <= k.ms
    /\ pc = "end" => \A k \in before : Listing!Lone(k) /\ k.ms < end => k \in delivered

LEMMA ListingKeeps ==
    ASSUME ListedOrAhead, Listing!Next
    PROVE  ListedOrAhead'
<1>1. CASE Listing!Grow
  <2>1. \A k : Listing!Lone(k)' => Listing!Lone(k)
    BY <1>1 DEF Listing!Grow, Listing!Lone, Listing!Stored
  <2>2. UNCHANGED <<WalkPosition, pc = "end", end, before, delivered>>
    BY <1>1 DEF Listing!Grow, Listing!walk, WalkPosition
  <2>3. QED
    BY <2>1, <2>2 DEF ListedOrAhead
<1>2. ASSUME NEW s \in Times, NEW e \in Times, NEW f \in Filters, Listing!Begin(s, e, f)
      PROVE  ListedOrAhead'
  <2>1. /\ WalkPosition' \in {None, s}
        /\ (pc = "end")' = FALSE
        /\ \A k \in before' : s <= k.ms
    BY <1>2 DEF Listing!Begin, WalkPosition
  <2>2. QED
    BY <2>1 DEF ListedOrAhead
<1>3. ASSUME NEW page \in SUBSET Listing!Matching, NEW to \in Times \cup {None},
             Listing!ListPage(page, to)
      PROVE  ListedOrAhead'
  <2>1. /\ WalkPosition' = to /\ (pc = "end")' = (to = None)
        /\ before' = before /\ delivered' = delivered \cup page /\ table' = table /\ end' = end
        /\ \A k \in before : Listing!Lone(k) /\ k.ms < end =>
             k \in delivered \cup page \/ (to # None /\ to <= k.ms)
    BY <1>3 DEF Listing!ListPage, WalkPosition
  <2>2. \A k : Listing!Lone(k)' <=> Listing!Lone(k)
    BY <2>1 DEF Listing!Lone, Listing!Stored
  <2>3. QED
    BY <2>1, <2>2 DEF ListedOrAhead
<1>4. CASE Listing!Fail
  <2>1. /\ WalkPosition # None /\ WalkPosition' = None
        /\ (pc = "end")' = (pc = "end")
    BY <1>4 DEF Listing!Fail, WalkPosition
  <2>2. QED
    BY <2>1 DEF ListedOrAhead
<1>5. QED
  BY <1>1, <1>2, <1>3, <1>4 DEF Listing!Next

\* What the abstract listing is worth: from its steps alone, not from how
\* getAnalysisResults makes them, it follows that a walk that ends has listed what
\* was there, before its last millisecond, when it began, unless it shares its own.
THEOREM ListingIsComplete ==
    Listing!Spec =>
        [](pc = "end" => \A k \in before : Listing!Lone(k) /\ k.ms < end => k \in delivered)
<1>1. Listing!Init => ListedOrAhead
  BY DEF Listing!Init, ListedOrAhead
<1>2. ListedOrAhead /\ [Listing!Next]_(Listing!vars) => ListedOrAhead'
  <2>1. CASE Listing!Next
    BY <2>1, ListingKeeps
  <2>2. ASSUME ListedOrAhead, UNCHANGED Listing!vars
        PROVE  ListedOrAhead'
    <3>1. /\ UNCHANGED <<WalkPosition, pc = "end", end, before, delivered, table>>
      BY <2>2 DEF Listing!vars, WalkPosition
    <3>2. \A k : Listing!Lone(k)' <=> Listing!Lone(k)
      BY <3>1 DEF Listing!Lone, Listing!Stored
    <3>3. QED
      BY <2>2, <3>1, <3>2 DEF ListedOrAhead
  <2>3. QED
    BY <2>1, <2>2
<1>3. ListedOrAhead =>
        (pc = "end" => \A k \in before : Listing!Lone(k) /\ k.ms < end => k \in delivered)
  BY DEF ListedOrAhead
<1>4. QED
  BY <1>1, <1>2, <1>3, PTL DEF Listing!Spec

\* A response that is not the last tells the key it ended at.
LEMMA TurnGoesOn ==
    ASSUME IInv, Query, pc' = "query"
    PROVE  continueFrom < continueFrom' /\ continueFrom' <= end
<1>1. PICK results \in Seq(Keys), from \in Times \cup {None} :
        /\ Reached(results, from) /\ Turn(results, from)
        /\ from # None => continueFrom < from
  BY TurnOfLoop
<1>2. NeedsMore(from, results) /\ continueFrom' = from
  BY <1>1 DEF Turn
<1>3. QED
  BY <1>1, <1>2 DEF NeedsMore, Reached

\* The loop of getAnalysisResults has a variant: a turn that is not the last one
\* makes the range of the next query shorter, and keeps it a range.  With the
\* pages, which go forward unless they are crowded, it is why a walk ends.
THEOREM TurnsGoForward ==
    Spec => [][Query /\ pc' = "query" => continueFrom < continueFrom' /\ continueFrom' <= end]_vars
<1>1. IInv /\ [Next]_vars =>
        [Query /\ pc' = "query" => continueFrom < continueFrom' /\ continueFrom' <= end]_vars
  BY TurnGoesOn
<1>2. QED
  BY <1>1, Invariance, PTL DEF Spec
=============================================================================
