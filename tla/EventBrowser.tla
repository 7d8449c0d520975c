---------------------------- MODULE EventBrowser ----------------------------
(***************************************************************************)
(* The list of events in the web interface: one page of what the server    *)
(* finds for the chosen filters, in a collection that filters, the pager,  *)
(* announced events and finished requests all fetch again.  Dialogs edit   *)
(* or remove one event, a selection, the page or everything that matches;  *)
(* the list may change under an open dialog.  The filters are the source   *)
(* (live events or archive) and the status; those for division, sensor,    *)
(* classification, date and text send a query parameter the same way.      *)
(***************************************************************************)
EXTENDS Naturals, Sequences, FiniteSets, SequencesExt

CONSTANTS
    MaxId,          \* bound: events that are ever recorded; the archive counts its own ids
    PageSize,       \* events on a page
    MaxFetches,     \* bound: answers to the list that are awaited when another one is asked for
    MaxClicks,      \* bound: filters and pages that the user chooses, dialogs he opens
    MaxChanges      \* bound: events that arrive or that somebody else removes

VARIABLES
    events,         \* the tables of the server: the status of each event, "none" or "gone"
    announced,      \* no event has arrived since the page was last told of new ones
    query,          \* queryParams and the current page
    rows, total,    \* the collection, and totalRecords
    fetches,        \* fetches of the collection, oldest first
    dialog,         \* of the user
    requests,       \* changes that were confirmed
    clicks,         \* number of the user's choices
    changes,        \* number of changes by others
    lagging         \* history: the rows are not the answer to the latest question

shownVars == <<query, rows, total, fetches, lagging>>
historyVars == <<clicks, changes>>
browserVars == <<events, announced, shownVars, dialog, requests, historyVars>>

Ids == 1..MaxId
Sources == {"live", "archive"}
Filters == {"open", "all"}
Pages(n) == (n + PageSize - 1) \div PageSize

\* fetchEvents(): what matches, and the rows of the requested page, newest first.
Fits(status, filter) == status \notin {"none", "gone"} /\ filter \in {status, "all"}
Matching(q) == {id \in Ids : Fits(events[<<q.source, id>>], q.status)}
PageOf(q) ==
    {<<q.source, id, events[<<q.source, id>>]>> :
        id \in {i \in Matching(q) :
                  Cardinality({j \in Matching(q) : j > i}) \div PageSize = q.page}}

NoDialog == [kind |-> "none"]
Start == [source |-> "live", status |-> "open", page |-> 0]

\* Each fetch sends the parameters and the page of the collection.
Fetch(q, reset) ==
    /\ Len(fetches) < MaxFetches
    /\ query' = q
    /\ fetches' = Append(fetches, [query |-> q, reset |-> reset, late |-> FALSE])

Init ==
    /\ \E n \in 0..MaxId, k \in 0..MaxId :
         /\ n + k <= MaxId
         /\ events = [e \in Sources \X Ids |->
                        IF e[2] <= (IF e[1] = "live" THEN n ELSE k) THEN "open" ELSE "none"]
    /\ query = Start /\ rows = {} /\ total = 0
    /\ fetches = <<[query |-> Start, reset |-> FALSE, late |-> FALSE]>>
    /\ announced = TRUE /\ dialog = NoDialog /\ requests = {} /\ clicks = 0 /\ changes = 0
    /\ lagging = FALSE

-----------------------------------------------------------------------------
(* Sensors, other users, and the poll that announces new events *)

Unused(source) == {id \in Ids : events[<<source, id>>] = "none"}
Present == {id \in Ids : Fits(events[<<"live", id>>], "all")}
Lowest(S) == CHOOSE id \in S : \A j \in S : id <= j

Change == changes < MaxChanges /\ changes' = changes + 1

EventArrives ==
    /\ Unused("live") # {}
    /\ Cardinality(Present) < Cardinality(Unused("archive"))      \* bound: all can be archived
    /\ events' = [events EXCEPT ![<<"live", Lowest(Unused("live"))>>] = "open"]
    /\ announced' = FALSE /\ Change
    /\ UNCHANGED <<shownVars, dialog, requests, clicks>>

EventsAnnounced ==
    /\ ~announced /\ announced' = TRUE
    /\ Fetch(query, TRUE)
    /\ UNCHANGED <<events, rows, total, lagging, dialog, requests, historyVars>>

SomebodyRemoves(id) ==
    /\ id \in Present
    /\ events' = [events EXCEPT ![<<"live", id>>] = "gone"]
    /\ Change
    /\ UNCHANGED <<announced, shownVars, dialog, requests, clicks>>

-----------------------------------------------------------------------------
(* Filters and pager; a dialog covers them *)

Click == clicks < MaxClicks /\ clicks' = clicks + 1

Browse(q, reset) ==
    /\ dialog = NoDialog /\ Click
    /\ Fetch(q, reset)
    /\ UNCHANGED <<events, announced, rows, total, lagging, dialog, requests, changes>>

\* Filters go to the first page.
ChooseStatus(s) ==
    /\ s # query.status
    /\ Browse([query EXCEPT !.status = s, !.page = 0], TRUE)

\* beforeChange() of the source filter sets the status filter: everything in the archive,
\* new and busy events among the live ones.
ChooseSource(source) ==
    /\ source # query.source
    /\ Browse([source |-> source, page |-> 0,
               status |-> IF source = "archive" THEN "all" ELSE "open"], TRUE)

TurnPage(page) ==
    /\ page \in 0..Pages(total) - 1 /\ page # query.page
    /\ Browse([query EXCEPT !.page = page], FALSE)

\* The user goes to another page of the interface and comes back: onDestroy() empties the
\* collection, onRender() resets the parameters, and the date filter fetches the first page.
Reopen ==
    /\ dialog = NoDialog /\ Click
    /\ Fetch(Start, FALSE)
    /\ rows' = {}
    /\ UNCHANGED <<events, announced, total, lagging, dialog, requests, changes>>

-----------------------------------------------------------------------------
(* Answers to fetches *)

\* Those that were asked earlier are late now.
Remaining(i) ==
    RemoveAt([j \in DOMAIN fetches |-> [fetches[j] EXCEPT !.late = @ \/ j < i]], i)

\* A dialog that the cell of a row has opened is deaf when the row has been replaced.
Replaced(shown, reset) ==
    dialog' = IF dialog = NoDialog THEN dialog
              ELSE [dialog EXCEPT
                      !.deaf = @ \/ (/\ dialog.kind = "remove" /\ dialog.scope = "one"
                                     /\ reset \/ dialog.chosen \cap shown = {}),
                      !.hasty = @ \/ dialog.scope = "page"]

\* The answer replaces the rows whatever the filters are by now; the pager raises a
\* RangeError when the current page is not among its pages, and the rows stay.
FetchAnswered(i) ==
    /\ i \in DOMAIN fetches
    /\ LET q == fetches[i].query
           found == Cardinality(Matching(q)) IN
       IF found > 0 /\ query.page >= Pages(found)
       THEN lagging' = TRUE /\ UNCHANGED <<rows, total, dialog>>
       ELSE /\ rows' = PageOf(q) /\ total' = found /\ lagging' = fetches[i].late
            /\ Replaced({<<r[1], r[2]>> : r \in PageOf(q)}, fetches[i].reset)
    /\ fetches' = Remaining(i)
    /\ UNCHANGED <<events, announced, query, requests, clicks, changes>>

\* No handler: the filters have changed, the rows have not.
FetchFails(i) ==
    /\ i \in DOMAIN fetches
    /\ fetches' = Remaining(i) /\ lagging' = TRUE
    /\ UNCHANGED <<events, announced, query, rows, total, dialog, requests, clicks, changes>>

-----------------------------------------------------------------------------
(* Dialogs *)

Listed == {<<r[1], r[2]>> : r \in rows}

\* The buttons of a row, of the selection, of the page, and those for all that match.  The
\* dialog holds the chosen events, but for a page, whose dialog holds the collection.
Open(kind, scope, chosen) ==
    /\ dialog = NoDialog
    /\ chosen \subseteq Listed
    /\ scope = "one" => Cardinality(chosen) = 1
    /\ scope = "some" => chosen # {}
    /\ scope \in {"page", "all"} => chosen = Listed
    /\ scope = "page" => rows # {}
    \* edit buttons are disabled in the archive: the one of a row by the event it shows
    /\ kind = "edit" => IF scope = "one" THEN \A e \in chosen : e[1] = "live"
                        ELSE query.source = "live"
    /\ Click
    /\ dialog' = [kind |-> kind, scope |-> scope, chosen |-> chosen, seen |-> Listed, deaf |-> FALSE,
                  source |-> IF scope = "one" THEN (CHOOSE e \in chosen : TRUE)[1] ELSE query.source,
                  hasty |-> fetches # <<>> \/ lagging]
    /\ UNCHANGED <<events, announced, shownVars, requests, changes>>

Dismiss == /\ dialog # NoDialog /\ dialog' = NoDialog
           /\ UNCHANGED <<events, announced, shownVars, requests, historyVars>>

\* The ids that are sent: a page has the ones that are shown by now.
Named == {e[2] : e \in IF dialog.scope = "page" THEN Listed ELSE dialog.chosen}

\* "Avoid RangeError when deleting all events of the last page (if currently displayed)".
LastPageGoes ==
    /\ dialog.kind = "remove" /\ dialog.scope \in {"some", "page"}
    /\ query.page > 0 /\ query.page + 1 = Pages(total)
    /\ {e[2] : e \in Listed} \subseteq Named

\* Mutant: the request does not say where the events are.
RequestForLive(archive) ==
    [kind |-> dialog.kind, scope |-> dialog.scope, archive |-> archive, done |-> FALSE,
     ids |-> IF dialog.scope = "all" THEN {} ELSE Named,
     status |-> query.status, source |-> "live", seen |-> dialog.seen, hasty |-> dialog.hasty]

\* What is sent; an edit has no source but in the parameters of all that match.
Request(archive) ==
    [kind |-> dialog.kind, scope |-> dialog.scope, archive |-> archive, done |-> FALSE,
     ids |-> IF dialog.scope = "all" THEN {} ELSE Named,
     status |-> query.status,
     source |-> IF dialog.kind = "edit" THEN "live" ELSE dialog.source,
     seen |-> dialog.seen, hasty |-> dialog.hasty]

Confirm(archive) ==
    /\ dialog # NoDialog /\ ~dialog.deaf /\ requests = {}
    /\ archive => dialog.kind = "remove" /\ dialog.source = "live"
    /\ IF LastPageGoes THEN Fetch([query EXCEPT !.page = @ - 1], FALSE)
       ELSE UNCHANGED <<query, fetches>>
    /\ requests' = {Request(archive)}
    /\ UNCHANGED <<events, announced, rows, total, lagging, dialog, clicks, changes>>

Targets(r) ==
    IF r.scope = "all" THEN Matching([source |-> r.source, status |-> r.status])
    ELSE {id \in r.ids : events[<<r.source, id>>] \in {"open", "closed"}}

\* archiveEvents() gives the copies the next ids of the archive, and copies the status.
Rank(id, S) == Cardinality({j \in S : j < id})
Original(r, id) == {t \in Targets(r) : r.archive /\ Rank(t, Targets(r)) = Rank(id, Unused("archive"))}
Archived(r) == {id \in Unused("archive") : Original(r, id) # {}}

\* updateEvent(), deleteEvent().
ServeRequest(r) ==
    /\ r \in requests /\ ~r.done
    /\ \E status \in IF r.kind = "edit" THEN {"open", "closed"} ELSE {"gone"} :
         events' = [e \in Sources \X Ids |->
                      IF e[1] = r.source /\ e[2] \in Targets(r) THEN status
                      ELSE IF e[1] = "archive" /\ e[2] \in Archived(r) THEN events[<<"live", Lowest(Original(r, e[2]))>>]
                      ELSE events[e]]
    /\ requests' = {[r EXCEPT !.done = TRUE]}
    /\ UNCHANGED <<announced, shownVars, dialog, historyVars>>

\* The handler of success fetches the list and closes the dialog that is open by now, if it
\* is one of the same kind.
RequestAnswered(r) ==
    /\ r \in requests /\ r.done
    /\ requests' = {}
    /\ Fetch(query, FALSE)
    /\ dialog' = IF dialog.kind = r.kind THEN NoDialog ELSE dialog
    /\ UNCHANGED <<events, announced, rows, total, lagging, historyVars>>

RequestFails(r) ==
    /\ r \in requests /\ ~r.done
    /\ requests' = {}
    /\ UNCHANGED <<events, announced, shownVars, dialog, historyVars>>

Next ==
    \/ EventArrives \/ EventsAnnounced \/ Reopen \/ Dismiss
    \/ \E id \in Ids : SomebodyRemoves(id)
    \/ \E s \in Filters : ChooseStatus(s)
    \/ \E s \in Sources : ChooseSource(s)
    \/ \E p \in 0..MaxId : TurnPage(p)
    \/ \E i \in 1..MaxFetches : FetchAnswered(i) \/ FetchFails(i)
    \/ \E kind \in {"edit", "remove"}, scope \in {"one", "some", "page", "all"},
          chosen \in SUBSET Listed : Open(kind, scope, chosen)
    \/ \E archive \in BOOLEAN : Confirm(archive)
    \/ \E r \in requests : ServeRequest(r) \/ RequestAnswered(r) \/ RequestFails(r)

Spec == Init /\ [][Next]_browserVars

-----------------------------------------------------------------------------
(* Properties *)

TypeOK ==
    /\ events \in [Sources \X Ids -> {"none", "open", "closed", "gone"}]
    /\ query \in [source : Sources, status : Filters, page : 0..MaxId]
    /\ rows \subseteq Sources \X Ids \X {"open", "closed"} /\ total \in 0..MaxId
    /\ Len(fetches) <= MaxFetches /\ clicks \in 0..MaxClicks /\ changes \in 0..MaxChanges
    /\ Cardinality(requests) <= 1
    /\ {announced, lagging} \subseteq BOOLEAN

\* What is sent for single events, a selection or a page names events that the list showed
\* when the dialog opened, in the right table - if the list had settled by then, and was not
\* refreshed while the dialog of a page was open.
SentAsShown ==
    \A r \in requests : r.scope # "all" /\ ~r.hasty => {<<r.source, id>> : id \in r.ids} \subseteq r.seen
=============================================================================
