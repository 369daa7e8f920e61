----------------------------- MODULE EventPager -----------------------------
(***************************************************************************)
(* A client that reads the access history page by page, each page with a   *)
(* limit of its own and from the cursor of the one before, while events    *)
(* are added, age and are pruned.  Each page adds an event itself.         *)
(***************************************************************************)
EXTENDS AccessEvents

CONSTANTS
  PageLimits,   \* limits of a page that a client may ask for
  MaxSequence   \* bound: events that are ever added

\* parseAccessEventPage refuses a limit below 1.
ASSUME PagerConstants == PageLimits \subseteq Nat \ {0}

VARIABLES
  listing,  \* "idle", "open" while there is a next cursor, "done"
  cursor,   \* the next cursor; 0 without one
  listed,   \* the rows returned, by their sequence numbers
  count,    \* and how many that were
  remained  \* history: the rows that have been there since the first page

pagerVars == <<listing, cursor, listed, count, remained>>

PagerInit ==
  /\ listing = "idle"
  /\ cursor = 0
  /\ listed = {} /\ count = 0
  /\ remained = {}

Sequences(rows) == {r.seq : r \in rows}

Older(rows, before) == {r \in rows : before = 0 \/ r.seq < before}

\* Newest first, at most limit of them.
Page(rows, limit, before) ==
  LET older == Older(rows, before)
  IN  {r \in older : Cardinality({q \in older : q.seq > r.seq}) < limit}

HasMore(rows, limit, before) == Cardinality(Older(rows, before)) > limit

\* Mutant: the cursor is that of the first row that did not fit.
CursorOfNext(rows, limit, before) ==
  IF HasMore(rows, limit, before)
    THEN CHOOSE s \in Sequences(Page(rows, limit + 1, before)) :
           \A r \in Page(rows, limit + 1, before) : s <= r.seq
    ELSE 0

\* encodeEventCursor of the last row returned, if there are more.
NextCursor(rows, limit, before) ==
  IF HasMore(rows, limit, before)
    THEN CHOOSE s \in Sequences(Page(rows, limit, before)) :
           \A r \in Page(rows, limit, before) : s <= r.seq
    ELSE 0

-----------------------------------------------------------------------------
Remaining == remained \cap Sequences(events')

\* listAccessEvents: the page is read after its own event is added.
ReadPage(d, limit) ==
  /\ listing # "done" /\ lastSequence < MaxSequence
  /\ InsertAccessEvent(Event(d, TRUE, NoDevice, "event_list", "succeeded", "none"))
  /\ LET page == Page(events', limit, cursor) IN
       /\ listed' = listed \cup Sequences(page)
       /\ count' = count + Cardinality(page)
  /\ cursor' = NextCursor(events', limit, cursor)
  /\ listing' = IF HasMore(events', limit, cursor) THEN "open" ELSE "done"
  /\ remained' = IF listing = "idle" THEN Sequences(events') ELSE Remaining
  /\ UNCHANGED clockVars

\* Any other request, of this device or of nobody known.
OtherEvent(d, verified) ==
  /\ lastSequence < MaxSequence
  /\ InsertAccessEvent(Event(d, verified, NoDevice, "record_list",
                             IF verified THEN "succeeded" ELSE "denied",
                             IF verified THEN "none" ELSE "invalid_signature"))
  /\ remained' = Remaining
  /\ UNCHANGED <<clockVars, listing, cursor, listed, count>>

\* The client begins anew, at the end or before.
StartOver ==
  /\ listing' = "idle" /\ cursor' = 0
  /\ listed' = {} /\ count' = 0
  /\ remained' = {}
  /\ UNCHANGED <<clockVars, eventVars>>

PagerNext(maxSec) ==
  \/ \E d \in Device : \/ \E limit \in PageLimits : ReadPage(d, limit)
                       \/ \E verified \in BOOLEAN : OtherEvent(d, verified)
  \/ StartOver
  \/ AdvanceClock(maxSec) /\ UNCHANGED <<eventVars, pagerVars>>

\* The history and its reader by themselves.
PagerSpec(maxSec) ==
  /\ EventsInit /\ PagerInit
  /\ [][PagerNext(maxSec)]_<<clockVars, eventVars, pagerVars>>

-----------------------------------------------------------------------------
\* A client that follows the cursors to the end is given no event twice, and
\* every event that was there from the first page to the last, whatever is
\* added and pruned in between, also the row that its cursor names.
EventsAreListedOnce ==
  /\ count = Cardinality(listed)
  /\ listing = "done" => remained \subseteq listed
=============================================================================
