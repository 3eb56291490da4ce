--------------------------- MODULE AnalysisListing ---------------------------
(***************************************************************************)
(* What a client is promised that lists a company's analyses page by page, *)
(* however many queries a page takes and whatever is stored meanwhile: the *)
(* pages go forward from position to position, and between two positions   *)
(* they leave out nothing that every query would have found when the walk  *)
(* began and that has its millisecond to itself.  The millisecond where    *)
(* the walk ends is not listed.                                            *)
(***************************************************************************)
EXTENDS Naturals

CONSTANTS Times, Keys, Cameras, Filters, ResultLimit, None

VARIABLES
    table,      \* camera of each stored analysis, by its key
    settled,    \* keys that every query finds
    position,   \* the time that the next page starts at, None between two walks
    complete,   \* the last walk has come to the end
    end,        \* where the walk ends
    filter,     \* the cameras that the walk is about
    before,     \* what every query would have found when it began, up to its end
    delivered   \* what its pages have held

vars == <<table, settled, position, complete, end, filter, before, delivered>>

walk == <<position, complete, end, filter, before, delivered>>

Stored == DOMAIN table

Matching == {k \in Stored : table[k] \in filter}

Lone(k) == \A l \in Stored : l.ms = k.ms => l = k

Init ==
    /\ table = <<>> /\ settled = {}
    /\ position = None /\ complete = FALSE
    /\ end = 0 /\ filter = {}
    /\ before = {} /\ delivered = {}

\* Analyses are stored, in any order, and settle.
Grow ==
    /\ Stored \subseteq Stored' /\ Stored' \subseteq Keys
    /\ \A k \in Stored : table'[k] = table[k]
    /\ settled \subseteq settled' /\ settled' \subseteq Stored'
    /\ UNCHANGED walk

\* A walk begins, unless the service refuses it for how its times are written.
Begin(s, e, f) ==
    /\ position = None
    /\ position' \in {None, s}
    /\ complete' = FALSE
    /\ end' = e /\ filter' = f
    /\ before' = {k \in settled : table[k] \in f /\ s <= k.ms /\ k.ms <= e}
    /\ delivered' = {}
    /\ UNCHANGED <<table, settled>>

\* A page holds so many analyses.
Fits(S) ==
    \E n \in 0 .. ResultLimit : \E page \in [1 .. n -> S] : S = {page[i] : i \in 1 .. n}

\* More analyses share the millisecond of the position than a page holds.
Crowded == ~Fits({k \in Matching : k.ms = position})

\* A page takes the walk from its position to another, or to the end, in which
\* case it leaves out nothing up to there.  The range ends before the millisecond
\* of its end.
ListPage(page, to) ==
    /\ position # None
    /\ page \subseteq {k \in Matching : position <= k.ms /\ k.ms < end}
    /\ Fits(page)
    /\ \A k \in page \cap delivered : ~Lone(k)
    /\ \A k \in before : Lone(k) /\ k.ms < end =>
         k \in delivered \cup page \/ (to # None /\ to <= k.ms)
    /\ to # None =>
         /\ position < to \/ (to = position /\ Crowded)
         /\ to <= end
         /\ \A k \in page : k.ms <= to
    /\ position' = to
    /\ complete' = (to = None)
    /\ delivered' = delivered \cup page
    /\ UNCHANGED <<table, settled, end, filter, before>>

\* A query fails, or the link to the next page is refused, and with it the walk.
Fail ==
    /\ position # None
    /\ position' = None
    /\ UNCHANGED <<table, settled, complete, end, filter, before, delivered>>

Next ==
    \/ Grow
    \/ \E s \in Times, e \in Times, f \in Filters : Begin(s, e, f)
    \/ \E page \in SUBSET Matching, to \in Times \cup {None} : ListPage(page, to)
    \/ Fail

Spec == Init /\ [][Next]_vars
=============================================================================
