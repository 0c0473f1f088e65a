----------------------------- MODULE HealthPages -----------------------------
(***************************************************************************)
(* Reading the history page by page (health_history/queries.py).  A reader *)
(* lists samples or alerts, newest first, or the events of one alert,      *)
(* oldest first, and asks for each page with the cursor of the page before *)
(* it.  A page is one read transaction; between two of them the store      *)
(* takes in new rows, alerts change their lifecycle, retention deletes,    *)
(* and the clock may have been set back.  Nothing is kept for the reader.  *)
(*                                                                         *)
(* A row is its time, its id and what a listing may select it by.  The     *)
(* checks a reader makes of each row are in HealthHistory.                 *)
(***************************************************************************)
EXTENDS Integers, Sequences, FiniteSets

CONSTANTS PageSizes,   \* what a reader may ask for
          Keep,        \* retention_days, in ticks
          MaxUtc,      \* bound: ticks
          MaxId,       \* bound: rows at a time
          MaxWrites    \* bound: changes of the table

ASSUME PagesAssumption ==
    /\ PageSizes \subseteq Nat \ {0}
    /\ {Keep, MaxUtc, MaxId, MaxWrites} \subseteq Nat

VARIABLES
    listing,    \* what the reader asks for: "samples", "alerts" or "events"
    utc,        \* the clock of the writer
    table,      \* the rows
    subject,    \* the alert whose events they are: "active", "archived" or "deleted"
    reader,     \* "idle", "reading", "done" or "not_found"
    size,       \* page_size
    filter,     \* overall_status or lifecycle
    cursor,     \* next_cursor of the last page
    given,      \* the pages so far, each the keys of its items
    lasting,    \* ghost: the keys that were there to be listed all the time
    writes      \* bound

pagesVars == <<listing, utc, table, subject, reader, size, filter, cursor, given,
               lasting, writes>>

Every == "any"
NoCursor == <<>>
Key(r) == <<r.at, r.id>>
ClassesOf == [samples |-> {"healthy", "degraded"},
              alerts  |-> {"open", "recovered", "archived"}, events |-> {Every}]
FirstClass == [samples |-> {"healthy", "degraded"}, alerts |-> {"open"}, events |-> {Every}]

PagesInit ==
    /\ listing \in {"samples", "alerts", "events"} /\ utc = 0 /\ table = {}
    /\ subject = "active" /\ reader = "idle" /\ size = 0 /\ filter = Every
    /\ cursor = NoCursor /\ given = <<>> /\ lasting = {} /\ writes = 0

Earlier(k, l) == k[1] < l[1] \/ (k[1] = l[1] /\ k[2] < l[2])

(* The order of a listing: which of two keys comes first.                  *)
Ahead(k, l) == IF listing = "events" THEN Earlier(k, l) ELSE Earlier(l, k)

-----------------------------------------------------------------------------
(* The writer                                                              *)

Write == writes < MaxWrites /\ writes' = writes + 1
ReaderKeeps == UNCHANGED <<listing, reader, size, filter, cursor, given>>

ClockMoves ==
    /\ Write /\ utc' \in {utc + 1, utc - 1} \intersect 0 .. MaxUtc
    /\ ReaderKeeps /\ UNCHANGED <<table, subject, lasting>>

(* A row gets the id after the largest: after a deletion it may be one     *)
(* that was used before.                                                   *)
IsNextId(i) ==
    /\ \A r \in table : r.id < i
    /\ i = 1 \/ \E r \in table : r.id = i - 1

(* A sample, an alert, an event of the alert, or a new alert under the id  *)
(* of one that was deleted.                                                *)
Insert ==
    /\ Write
    /\ \E i \in 1 .. MaxId, class \in FirstClass[listing] :
          IsNextId(i) /\ table' = table \union {[id |-> i, at |-> utc, class |-> class]}
    /\ listing = "events" => subject # "archived"
    /\ subject' = "active"
    /\ ReaderKeeps /\ UNCHANGED <<utc, lasting>>

(* An alert changes its lifecycle in its row.                              *)
Advances(r) ==
    /\ listing = "alerts" /\ r.class # "archived"
    /\ table' = (table \ {r}) \union
                {[r EXCEPT !.class = IF @ = "open" THEN "recovered" ELSE "archived"]}
    /\ lasting' = (IF filter = Every THEN lasting ELSE lasting \ {Key(r)})
    /\ UNCHANGED subject

(* The last event of an alert.                                             *)
Archives ==
    /\ listing = "events" /\ table # {} /\ subject = "active" /\ subject' = "archived"
    /\ UNCHANGED <<table, lasting>>

(* Retention takes samples and the events of an archived alert oldest      *)
(* first, and archived alerts in the order of their recoveries, which may  *)
(* be any here.  An alert goes after its events.                           *)
Forgettable(r) ==
    CASE listing = "samples" -> r.at < utc - Keep
      [] listing = "alerts"  -> r.class = "archived"
      [] listing = "events"  -> subject = "archived"
Oldest(r) == listing = "alerts" \/ \A q \in table : ~Earlier(Key(q), Key(r))
Forget(r) ==
    /\ Forgettable(r) /\ Oldest(r)
    /\ table' = table \ {r} /\ lasting' = lasting \ {Key(r)}
    /\ subject' = IF listing = "events" /\ table' = {} THEN "deleted" ELSE subject

Changes ==
    /\ Write /\ ReaderKeeps /\ UNCHANGED utc
    /\ Archives \/ \E r \in table : Advances(r) \/ Forget(r)

-----------------------------------------------------------------------------
(* The reader                                                              *)

Selected(by) == {Key(r) : r \in {r \in table : by \in {Every, r.class}}}

Begin ==
    /\ reader = "idle" /\ reader' = "reading"
    /\ size' \in PageSizes
    /\ filter' \in {Every} \union ClassesOf[listing]
    /\ lasting' = Selected(filter')
    /\ UNCHANGED <<listing, utc, table, subject, cursor, given, writes>>

(* Bug: rows of one time are not told apart.                               *)
AfterTime(k) == cursor = NoCursor \/ Ahead(<<cursor[1], 0>>, <<k[1], 0>>)

After(k) == cursor = NoCursor \/ Ahead(cursor, k)

(* A page is the rows after the cursor that come first in the order of the *)
(* listing.  One row more than the page is fetched, to see whether there   *)
(* is one.                                                                 *)
Rest == {k \in Selected(filter) : After(k)}
Page == {k \in Rest : Cardinality({l \in Rest : Ahead(l, k)}) < size}
IsLast(k) == k \in Page /\ \A l \in Page : l = k \/ Ahead(l, k)

Answers ==
    /\ given' = Append(given, Page)
    /\ IF Cardinality(Rest) > size
       THEN (\E k \in Page : IsLast(k) /\ cursor' = k) /\ UNCHANGED reader
       ELSE cursor' = NoCursor /\ reader' = "done"

Lists ==
    /\ reader = "reading" /\ Answers
    /\ UNCHANGED <<listing, utc, table, subject, size, filter, lasting, writes>>

ListHealthSamples == listing = "samples" /\ Lists
ListAlerts == listing = "alerts" /\ Lists
ListAlertEvents == listing = "events" /\ subject # "deleted" /\ Lists

(* The alert is gone.                                                      *)
NotFound ==
    /\ listing = "events" /\ reader = "reading" /\ subject = "deleted"
    /\ reader' = "not_found"
    /\ UNCHANGED <<listing, utc, table, subject, size, filter, cursor, given, lasting, writes>>

PagesNext ==
    \/ ClockMoves \/ Insert \/ Changes
    \/ Begin \/ ListHealthSamples \/ ListAlerts \/ ListAlertEvents \/ NotFound

PagesSpec == PagesInit /\ [][PagesNext]_pagesVars

-----------------------------------------------------------------------------
(* Properties                                                              *)

(* Whoever follows the cursors to the end is given every row that was      *)
(* there all the time, and none twice or out of order, whatever the store  *)
(* took in, changed and deleted between the pages.                         *)
EveryRowOnce ==
    /\ \A i, j \in 1 .. Len(given) :
          i < j => \A k \in given[i], l \in given[j] : Ahead(k, l)
    /\ reader = "done" => \A k \in lasting : \E i \in 1 .. Len(given) : k \in given[i]
=============================================================================
