--------------------------- MODULE AnalysisPaging ---------------------------
(***************************************************************************)
(* The list of a company's analyses: the requests that store an analysis   *)
(* in DynamoDB, and a client that asks for the analyses between two times  *)
(* and follows the `next` links.                                           *)
(*                                                                         *)
(* The key of an analysis is the UUIDv7 that its request was given when it *)
(* arrived: the millisecond, then a rank within it.  The analysis is       *)
(* stored when it is over, with nobody waiting, so that keys are stored in *)
(* any order: Store picks any unused key.  Queries are not strongly        *)
(* consistent: they find an analysis stored lately, or do not.             *)
(*                                                                         *)
(* The times of a request are texts.  The service compares them as texts,  *)
(* and queries by the instants that they are; its links say the start in   *)
(* UTC and repeat the end as the client wrote it.                          *)
(***************************************************************************)
EXTENDS Integers, Sequences, FiniteSets

CONSTANTS
    LastTime,    \* bound: milliseconds go from 0 to LastTime
    Offsets,     \* the offsets from UTC that clients write times with
    Ranks,       \* what tells apart the keys of one millisecond
    Cameras,
    Filters,     \* the cameras that a request's viewId and siteId admit
    QueryLimit,  \* DYNAMODB_ANALYSIS_RESULTS_QUERY_LIMIT
    ResultLimit, \* DYNAMODB_ANALYSIS_RESULTS_RESULT_LIMIT
    MaxStored,   \* bound: analyses stored in all
    None

Times == 0 .. LastTime
Keys == [ms : Times, rank : Ranks]

\* An instant, written in the time of an offset: all to the millisecond.
Texts == [time : Times, offset : Offsets]

ASSUME PagingAssumption ==
    /\ LastTime \in Nat
    /\ Offsets \subseteq Int /\ 0 \in Offsets
    /\ Ranks \subseteq Nat \ {0}
    /\ Filters \subseteq SUBSET Cameras
    /\ QueryLimit \in Nat \ {0}
    /\ ResultLimit \in Nat \ {0}
    /\ None \notin Times \cup Keys

VARIABLES
    table,        \* camera of each stored analysis, by its key
    settled,      \* keys that every query finds
    pc,           \* where the client's request is
    start,        \* startTime of the request
    end,          \* endTime of the request
    endOffset,    \* ... which is written with this offset
    filter,       \* the cameras it is about
    continueFrom, \* the time the next query starts at
    analyses,     \* what the queries of this request have returned
    next,         \* the time in the `next` link of the last page
    before,       \* history: what every query would find when the walk began
    delivered,    \* history: what the pages of this walk held
    repeated      \* history: what they held more than once

vars == <<table, settled, pc, start, end, endOffset, filter, continueFrom, analyses, next,
          before, delivered, repeated>>

request == <<start, end, endOffset, filter, continueFrom, analyses>>
history == <<before, delivered, repeated>>

-----------------------------------------------------------------------------
Stored == DOMAIN table
Matching == {k \in Stored : table[k] \in filter}

NotAfter(k, l) == k.ms < l.ms \/ (k.ms = l.ms /\ k.rank <= l.rank)

\* A bound that comes after every key of its millisecond.
LastUuidOf(t) == [ms |-> t, rank |-> Cardinality(Keys)]

\* The bound of a range: as it comes before every key of its millisecond, a
\* range ends before the keys of the millisecond endTime.
uuidFromTimestamp(t) == [ms |-> t, rank |-> 0]
timestampFromUuid(k, offset) == k.ms + offset

\* The one listing of a set of keys in their order.
Listings(S) ==
    {q \in UNION {[1 .. n -> S] : n \in 0 .. QueryLimit} :
        /\ \A k \in S : \E i \in DOMAIN q : q[i] = k
        /\ \A i, j \in DOMAIN q : i < j => NotAfter(q[i], q[j]) /\ q[i] # q[j]}

\* What a query between two bounds may read: it stops at QueryLimit items, or
\* sooner for the size of them, and tells the key of the last one, unless it
\* has come to the end.
Responses(found, low, high) ==
    LET between == {k \in found : NotAfter(low, k) /\ NotAfter(k, high)}
        upTo(l) == {k \in between : NotAfter(k, l)}
    IN  {r \in {[read |-> between, lastKey |-> None]}
                \cup {[read |-> upTo(l), lastKey |-> l] : l \in between} :
            Cardinality(r.read) <= QueryLimit}

\* The filter applies to what was read.
Items(response) == Listings(response.read \cap Matching)

\* The millisecond of the last item again.
ContinueFromLast(response) ==
    IF response.lastKey = None THEN None ELSE timestampFromUuid(response.lastKey, 0)

\* A millisecond too far.
ContinueTwoOn(response) ==
    IF response.lastKey = None THEN None ELSE timestampFromUuid(response.lastKey, 2)

ContinueFrom(response) ==
    IF response.lastKey = None THEN None ELSE timestampFromUuid(response.lastKey, 1)

NeedsMore(from, results) == from # None /\ Len(results) < ResultLimit

\* toISOString
Utc(t) == [time |-> t, offset |-> 0]

EndText == [time |-> end, offset |-> endOffset]

Reading(text) == text.time + text.offset

\* Of equal readings, the texts end in the offsets: '+' < '-' < 'Z', and those
\* of a sign are in the order of what follows it.
OffsetBefore(o, p) ==
    \/ o # 0 /\ p = 0
    \/ o > 0 /\ (p < 0 \/ o < p)
    \/ p < o /\ o < 0

\* a < b, of strings.
TextBefore(a, b) ==
    \/ Reading(a) < Reading(b)
    \/ Reading(a) = Reading(b) /\ OffsetBefore(a.offset, b.offset)

Min2(a, b) == IF a < b THEN a ELSE b
First(results) == SubSeq(results, 1, Min2(Len(results), ResultLimit))

\* The time the next query would have started at, left-over items or not.
NextQuery(from, results) ==
    IF from # None \/ Len(results) <= ResultLimit
      THEN from
      ELSE timestampFromUuid(results[ResultLimit + 1], 0)

\* The request's own startTime.
NextFromStart(from, results) ==
    IF Len(results) > ResultLimit THEN start ELSE from

NextTimestamp(from, results) ==
    IF Len(results) > ResultLimit
      THEN timestampFromUuid(results[ResultLimit + 1], 0)
      ELSE from

-----------------------------------------------------------------------------
Init ==
    /\ table = <<>>
    /\ settled = {}
    /\ pc = "idle"
    /\ start = 0
    /\ end = 0
    /\ endOffset = 0
    /\ filter = {}
    /\ continueFrom = None
    /\ analyses = <<>>
    /\ next = None
    /\ before = {}
    /\ delivered = {}
    /\ repeated = {}

\* putAnalysis, called without waiting for it when the analysis is over.
Store(k, c) ==
    /\ Cardinality(Stored) < MaxStored
    /\ k \notin Stored
    /\ table' = [l \in Stored \cup {k} |-> IF l = k THEN c ELSE table[l]]
    /\ UNCHANGED <<settled, pc, next, request, history>>

\* DynamoDB has copied the item to the replicas that queries go to.
Settle(k) ==
    /\ k \in Stored \ settled
    /\ settled' = settled \cup {k}
    /\ UNCHANGED <<table, pc, next, request, history>>

\* endTime < startTime rejects the request.
Receive(s, e, f) ==
    /\ start' = s.time
    /\ end' = e.time
    /\ endOffset' = e.offset
    /\ filter' = f
    /\ continueFrom' = s.time
    /\ analyses' = <<>>
    /\ next' = None
    /\ pc' = IF TextBefore(e, s) THEN "rejected" ELSE "query"

Ask(s, e, f) ==
    /\ pc \in {"idle", "end", "failed", "rejected"}
    /\ Receive(s, e, f)
    /\ before' = {k \in settled : table[k] \in f /\ s.time <= k.ms /\ k.ms <= e.time}
    /\ delivered' = {}
    /\ repeated' = {}
    /\ UNCHANGED <<table, settled>>

FollowLink ==
    /\ pc = "page"
    /\ Receive(Utc(next), EndText, filter)
    /\ UNCHANGED <<table, settled, history>>

\* One turn of the loop of getAnalysisResults; its last turn answers the
\* request.  DynamoDB refuses a range that ends before it starts.
Query ==
    /\ pc = "query"
    /\ continueFrom <= end
    /\ \E lately \in SUBSET (Stored \ settled) :
       \E response \in Responses(settled \cup lately, uuidFromTimestamp(continueFrom),
                                 uuidFromTimestamp(end)) :
       \E items \in Items(response) :
        LET results == analyses \o items
            from == ContinueFrom(response)
            page == First(results)
            listed == {page[i] : i \in DOMAIN page}
        IN  IF NeedsMore(from, results)
              THEN /\ analyses' = results
                   /\ continueFrom' = from
                   /\ UNCHANGED <<pc, next, history>>
              ELSE /\ analyses' = <<>>
                   /\ continueFrom' = None
                   /\ next' = NextTimestamp(from, results)
                   /\ pc' = IF next' = None THEN "end" ELSE "page"
                   /\ delivered' = delivered \cup listed
                   /\ repeated' = repeated \cup (delivered \cap listed)
                        \cup {page[i] : i \in {i \in DOMAIN page : \E j \in 1 .. i - 1 : page[j] = page[i]}}
                   /\ UNCHANGED before
    /\ UNCHANGED <<table, settled, start, end, endOffset, filter>>

\* An error that is answered like an empty page without a link.
QueryFailsAsEnd ==
    /\ pc = "query"
    /\ pc' = "end"
    /\ analyses' = <<>>
    /\ continueFrom' = None
    /\ next' = None
    /\ UNCHANGED <<table, settled, start, end, endOffset, filter, history>>

\* An error of the query: getAnalysisResults returns an empty list in place
\* of a page, and the handler answers 404.
QueryFails ==
    /\ pc = "query"
    /\ pc' = "failed"
    /\ analyses' = <<>>
    /\ continueFrom' = None
    /\ UNCHANGED <<table, settled, start, end, endOffset, filter, next, history>>

Next ==
    \/ \E k \in Keys, c \in Cameras : Store(k, c)
    \/ \E k \in Keys : Settle(k)
    \/ \E s \in Texts, e \in Texts, f \in Filters : Ask(s, e, f)
    \/ FollowLink
    \/ Query
    \/ QueryFails

Spec == Init /\ [][Next]_vars

\* DynamoDB answers, with a page or an error, and the client follows the links.
FairSpec == Spec /\ WF_vars(Query \/ QueryFails) /\ WF_vars(FollowLink)

-----------------------------------------------------------------------------
TypeOK ==
    /\ Stored \subseteq Keys
    /\ table \in [Stored -> Cameras]
    /\ settled \subseteq Stored
    /\ pc \in {"idle", "query", "page", "end", "failed", "rejected"}
    /\ start \in Times
    /\ end \in Times
    /\ endOffset \in Offsets
    /\ filter \in Filters \cup {{}}
    /\ continueFrom \in Times \cup {None}
    /\ next \in Times \cup {None}
    /\ analyses \in Seq(Keys)
    /\ before \subseteq Keys
    /\ repeated \subseteq delivered
    /\ delivered \subseteq Keys

Siblings(k) == {l \in Stored : l.ms = k.ms}

\* Of a request whose end is not before its start, no query is for a range that
\* ends before it starts, which DynamoDB refuses with an error that would cost the
\* client every result of its page: although the time after the last key that was
\* read may be that of the range's end, it is never beyond it.  No link is for such
\* a range either, and the handler rejects none, unless the client's endTime is
\* written in the time of a place behind UTC, which its UTC start may be ahead of.
RangesAreValid ==
    /\ pc = "query" => continueFrom \in Times
    /\ pc = "query" /\ start <= end => continueFrom <= end
    /\ pc = "page" => next <= end
    /\ pc = "page" /\ endOffset >= 0 => ~TextBefore(EndText, Utc(next))

\* A client that follows the links to the end has been given every analysis of
\* before endTime's millisecond that was there before it began and is alone in its
\* own, whatever is stored in the meantime and wherever the queries and the pages
\* break.
LoneItemsListed ==
    [][pc # "end" /\ pc' = "end" =>
        \A k \in before : Siblings(k) = {k} /\ k.ms < end => k \in delivered']_vars

\* What a walk lists twice shares its millisecond with another analysis.
OnlySiblingsRepeat == \A k \in repeated : Siblings(k) # {k}

\* To the client, a page is one step, although a loop of queries makes it, and
\* a link is followed from where the page came to.
Listing == INSTANCE AnalysisListing WITH
    position <- CASE pc = "query" -> start
                  [] pc = "page" -> next
                  [] OTHER -> None,
    complete <- pc = "end"

\* The queries, the limits and the links keep the promise of the list: pages go
\* forward, unless more analyses share a millisecond than fit on a page, and pass
\* over nothing.
ListingKept == Listing!Spec

\* A walk ends, by its last page or a failed query, unless one millisecond has more
\* analyses than fit on a page, or the client's endTime is behind UTC, so that a
\* link may be rejected: filtered-out results, empty queries and late arrivals only
\* delay its end.
Crowded == \E k \in Matching : Cardinality({l \in Matching : l.ms = k.ms}) > ResultLimit
WalkEnds ==
    pc \in {"query", "page"} /\ endOffset >= 0 ~> pc \in {"end", "failed"} \/ Crowded

\* What the comment of services/dynamo/index.js says of LastEvaluatedKey, that it
\* is used to continue the query from where it left off: a client that follows
\* the links to the end has been given everything that was there before endTime.
ContinuesWhereItLeftOff ==
    [][pc # "end" /\ pc' = "end" => {k \in before : k.ms < end} \subseteq delivered']_vars

\* What openapi/perception.json says of the times, that they are inclusive: a client
\* that follows the links to the end has been given what was there in the
\* millisecond of endTime too, if it is alone there.
EndTimeIncluded ==
    [][pc # "end" /\ pc' = "end" =>
        \A k \in before : Siblings(k) = {k} => k \in delivered']_vars
=============================================================================
