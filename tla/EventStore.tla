----------------------------- MODULE EventStore -----------------------------
(***************************************************************************)
(* The events on the server and their archive.  Sensors add events, users  *)
(* edit, delete and archive selections of them, sensors are deleted with   *)
(* their events, and every night the archive caretaker moves what was      *)
(* resolved long ago.  A request is made of several queries: it selects    *)
(* events, works on them one after the other, and removes them in the end, *)
(* each in a transaction of its own, while others do the same.  The        *)
(* database refuses to remove what rows of another table refer to.         *)
(*                                                                         *)
(* Statuses are `open` (unedited, busy) and `closed` (resolved, ignored).  *)
(* A filter of the division suppresses events and counts them instead.     *)
(***************************************************************************)
EXTENDS Naturals, FiniteSets, Functions

CONSTANTS
    Sensors,        \* sensors of one division
    Requests,       \* requests that may be at work at the same time
    MaxEvents,      \* bound: ids of events
    MaxRequests,    \* bound: requests
    MaxFaults       \* bound: requests and runs of the caretaker that end early

ASSUME StoreAssumption ==
    MaxEvents \in Nat /\ MaxRequests \in Nat /\ MaxFaults \in Nat

VARIABLES
    sensors,        \* the sensors that exist
    events,         \* the events table, by id
    lastId,         \* the last id given away
    archive,        \* the archived_events table
    filter,         \* the filter of the division, and its counter
    request,        \* what each request is about to do
    caretaker,
    suppressed,     \* history: events that a filter suppressed
    overlapped,     \* history: whether two requests counted up at once
    latest,         \* history: the status each event was given last
    discarded,      \* history: events removed for good, by users or by age
    raced,          \* history: events that two had selected at once, or that an
                    \* archiving that failed had
    requests, faults

tables == <<sensors, events, lastId, archive, filter>>
history == <<suppressed, overlapped, latest, discarded, raced>>
bounds == <<requests, faults>>
vars == <<tables, request, caretaker, history, bounds>>

Ids == 1..MaxEvents
Statuses == {"open", "closed"}

\* `modified`: never, today, or long enough ago for the caretaker; `complete`: with all
\* its details and packets.
Events == [sensor : Sensors, status : Statuses, modified : {"never", "today", "past"},
           complete : BOOLEAN]

\* `nr` tells copies of the same event apart.
Copies == [oid : Ids, nr : 1..(MaxRequests + 1), status : Statuses, complete : BOOLEAN,
           past : BOOLEAN]

Stored == DOMAIN events
CopiesOf(e) == {c \in archive : c.oid = e}

\* `loaded`: the events as the request has read them; `todo`: those still to be archived.
Idle == [pc |-> "idle", op |-> "none", archiving |-> FALSE, ids |-> {}, loaded |-> <<>>,
         todo |-> {}, sensor |-> {}, status |-> "open", matched |-> FALSE, count |-> 0,
         copies |-> {}]
Asleep == [pc |-> "asleep", list |-> <<>>, snapshot |-> {}, current |-> {}, complete |-> FALSE]

\* What each request and the caretaker have selected.  One that removes everything
\* selects nothing.
Selected(r) == IF request[r].op = "all" THEN Stored ELSE request[r].ids
Listed == DOMAIN caretaker.list

TypeOK ==
    /\ sensors \subseteq Sensors
    /\ lastId \in 0..MaxEvents
    /\ Stored \subseteq 1..lastId /\ \A e \in Stored : events[e] \in Events
    /\ archive \subseteq Copies
    /\ \A c, d \in archive : c.oid = d.oid /\ c.nr = d.nr => c = d
    /\ filter \in [enabled : BOOLEAN, count : Nat]
    /\ \A r \in Requests :
         /\ request[r].pc \in {"idle", "flush", "update", "load", "archive", "details", "rows",
                               "again", "cascade", "copies"}
         /\ request[r].todo \subseteq DOMAIN request[r].loaded
         /\ DOMAIN request[r].loaded \subseteq request[r].ids
         /\ request[r].copies \subseteq Copies
    /\ caretaker.pc \in {"asleep", "purged", "listed", "moving", "read"}
    /\ Listed \subseteq 1..lastId /\ caretaker.current \subseteq Listed
    /\ suppressed \in Nat /\ overlapped \in BOOLEAN
    /\ latest \in [Ids -> Statuses]
    /\ discarded \subseteq 1..lastId /\ raced \subseteq 1..lastId
    /\ requests \in 0..MaxRequests /\ faults \in 0..MaxFaults

Init ==
    /\ sensors = Sensors
    /\ events = <<>> /\ lastId = 0
    /\ archive = {}
    /\ filter = [enabled |-> TRUE, count |-> 0]
    /\ request = [r \in Requests |-> Idle]
    /\ caretaker = Asleep
    /\ suppressed = 0 /\ overlapped = FALSE /\ latest = [e \in Ids |-> "open"] /\ discarded = {} /\ raced = {}
    /\ requests = 0 /\ faults = 0

-----------------------------------------------------------------------------
(* The tables *)

Delete(S) == events' = Restrict(events, Stored \ S)

\* Mutant: a modification leaves no trace.
ModifyUntimed(S, status) ==
    events' = [e \in Stored |-> IF e \in S THEN [events[e] EXCEPT !.status = status] ELSE events[e]]

Modify(S, status) ==
    events' = [e \in Stored |->
        IF e \in S THEN [events[e] EXCEPT !.status = status, !.modified = "today"] ELSE events[e]]

StripDetails(S) ==
    events' = [e \in Stored |->
        IF e \in S THEN [events[e] EXCEPT !.complete = FALSE] ELSE events[e]]

\* A copy with what is there of the event by now.
Archived(e, status, complete) ==
    archive' = archive \cup
        {[oid |-> e, nr |-> CHOOSE n \in 1..(MaxRequests + 1) : \A c \in CopiesOf(e) : c.nr # n,
          status |-> status, complete |-> complete, past |-> FALSE]}

Complete(e) == e \in Stored /\ events[e].complete

-----------------------------------------------------------------------------
(* Requests *)

quiet == <<tables, caretaker, history>>

\* Another one has selected some of the same events, to do more than edit them.
Contended(op, r, S) ==
    S \cap (Listed \cup UNION {Selected(q) :
              q \in {x \in Requests \ {r} : op # "update" \/ request[x].op # "update"}})

Begin(r, state) ==
    /\ request[r].pc = "idle" /\ requests < MaxRequests
    /\ requests' = requests + 1
    /\ request' = [request EXCEPT ![r] = state]
    /\ raced' = raced \cup Contended(state.op, r, state.ids)
    /\ UNCHANGED <<tables, caretaker, suppressed, latest, discarded, faults>>
    /\ overlapped' = (overlapped \/ (state.matched /\ \E q \in Requests \ {r} : request[q].matched))

Goto(r, pc) == request' = [request EXCEPT ![r].pc = pc]
Ends(r) == request' = [request EXCEPT ![r] = Idle]

\* Mutant: a request that could not archive goes on.
FailsOn(r) ==
    /\ request' = [request EXCEPT ![r] = IF @.pc = "archive" THEN [@ EXCEPT !.pc = "details"] ELSE Idle]
    /\ UNCHANGED <<tables, caretaker, suppressed, overlapped, latest, discarded, raced>>

\* An exception ends the request; what was committed stays.
Fails(r) ==
    /\ Ends(r)
    /\ raced' = raced \cup (IF request[r].archiving THEN Selected(r) ELSE {})
    /\ UNCHANGED <<tables, caretaker, suppressed, overlapped, latest, discarded>>

RequestFails(r) ==
    /\ request[r].pc # "idle"
    /\ faults < MaxFaults /\ faults' = faults + 1
    /\ Fails(r) /\ UNCHANGED requests

step == <<requests, faults>>

\* createEvent(): the filters of the division are read, and counted up in memory ...
CreateEvent(r) ==
    \E s \in sensors, matched \in BOOLEAN :
        Begin(r, [Idle EXCEPT !.pc = "flush", !.op = "create", !.sensor = {s},
                    !.matched = matched /\ filter.enabled, !.count = filter.count])

\* Mutant: an event that is suppressed is not counted.
SuppressUncounted(r) ==
    suppressed' = suppressed + 1 /\ UNCHANGED <<sensors, events, lastId, archive, filter>>

\* ... and written by the flush, whatever the counter is by then.
Suppress(r) ==
    /\ filter' = [filter EXCEPT !.count = request[r].count + 1]
    /\ suppressed' = suppressed + 1
    /\ UNCHANGED <<sensors, events, lastId, archive>>

Store(r) ==
    LET s == CHOOSE x \in request[r].sensor : TRUE IN
    /\ lastId < MaxEvents /\ lastId' = lastId + 1
    /\ events' = [e \in Stored \cup {lastId + 1} |->
         IF e \in Stored THEN events[e]
         ELSE [sensor |-> s, status |-> "open", modified |-> "never", complete |-> TRUE]]
    /\ UNCHANGED <<sensors, archive, filter, suppressed>>

FlushEvent(r) ==
    /\ request[r].pc = "flush" /\ (request[r].matched \/ request[r].sensor \subseteq sensors)
    /\ IF request[r].matched THEN Suppress(r) ELSE Store(r)
    /\ Ends(r)
    /\ UNCHANGED <<caretaker, overlapped, latest, discarded, raced, step>>

\* The sensor is gone: there is no row to refer to.
FlushRefused(r) ==
    /\ request[r].pc = "flush" /\ ~(request[r].sensor \subseteq sensors) /\ ~request[r].matched
    /\ Fails(r) /\ UNCHANGED step

\* updateEventFilter(): the filter is switched.
UpdateFilter ==
    /\ requests < MaxRequests /\ requests' = requests + 1
    /\ filter' = [filter EXCEPT !.enabled = ~@]
    /\ UNCHANGED <<sensors, events, lastId, archive, request, caretaker, history, faults>>

\* Selections are by id, or by status and others.
Selections == SUBSET Stored \ {{}}

\* updateEvent(): the ids are selected ...
SelectToUpdate(r) ==
    \E S \in Selections, status \in Statuses :
        Begin(r, [Idle EXCEPT !.pc = "update", !.op = "update", !.ids = S, !.status = status])

\* ... and updated where they are still there.
UpdateEvents(r) ==
    /\ request[r].pc = "update"
    /\ Modify(Selected(r), request[r].status)
    /\ latest' = [e \in Ids |-> IF e \in Selected(r) THEN request[r].status ELSE latest[e]]
    /\ Ends(r)
    /\ UNCHANGED <<sensors, lastId, archive, filter, caretaker, suppressed, overlapped, discarded, raced,
                   step>>

\* deleteEvent(): the ids are selected ...
SelectToDelete(r) ==
    \E S \in Selections, archiving \in BOOLEAN :
        Begin(r, [Idle EXCEPT !.pc = IF archiving THEN "load" ELSE "details", !.op = "delete",
                    !.archiving = archiving, !.ids = S])

Read(S) == [e \in S |-> [sensor |-> events[e].sensor, status |-> events[e].status]]

\* ... archiveEvents() reads those that are still there ...
LoadEvents(r) ==
    /\ request[r].pc = "load"
    /\ LET there == Selected(r) \cap Stored IN
         request' = [request EXCEPT ![r].pc = "archive", ![r].loaded = Read(there),
                                    ![r].todo = there]
    /\ UNCHANGED <<quiet, step>>

\* ... and archives one after the other, with details as they are by now; for the
\* name of its sensor the first one needs that, too.
SensorAtHand(r, e) ==
    \/ request[r].op = "sensor" \/ request[r].loaded[e].sensor \in sensors
    \/ \E x \in DOMAIN request[r].loaded \ request[r].todo :
         request[r].loaded[x].sensor = request[r].loaded[e].sensor

ArchiveEvent(r) ==
    /\ request[r].pc = "archive"
    /\ \E e \in request[r].todo :
         /\ SensorAtHand(r, e)
         /\ Archived(e, request[r].loaded[e].status, Complete(e))
         /\ request' = [request EXCEPT ![r].todo = @ \ {e}]
    /\ UNCHANGED <<sensors, events, lastId, filter, caretaker, history, step>>

ArchiveRefused(r) ==
    /\ request[r].pc = "archive"
    /\ \E e \in request[r].todo : ~SensorAtHand(r, e)
    /\ Fails(r) /\ UNCHANGED step

EventsArchived(r) ==
    /\ request[r].pc = "archive" /\ request[r].todo = {}
    /\ Goto(r, IF request[r].op = "sensor" THEN "cascade" ELSE "details")
    /\ UNCHANGED <<quiet, step>>

Discard(r, S) == discarded' = discarded \cup (IF request[r].archiving THEN {} ELSE S)

\* The details go first, then the events.
DeleteDetails(r) ==
    /\ request[r].pc = "details"
    /\ StripDetails(Selected(r))
    /\ Discard(r, Selected(r))
    /\ Goto(r, "rows")
    /\ UNCHANGED <<sensors, lastId, archive, filter, caretaker, suppressed, overlapped, latest, raced,
                   step>>

DeleteEvents(r) ==
    /\ request[r].pc = "rows"
    /\ \A e \in Selected(r) : ~Complete(e)
    /\ Delete(Selected(r))
    /\ IF request[r].op = "all" THEN Goto(r, "copies") ELSE Ends(r)
    /\ UNCHANGED <<sensors, lastId, archive, filter, caretaker, history, step>>

DeleteRefused(r) ==
    /\ request[r].pc = "rows"
    /\ \E e \in Selected(r) : Complete(e)
    /\ Fails(r) /\ UNCHANGED step

\* deleteSensor(): the sensor's events are read ...
SelectSensor(r) ==
    \E s \in sensors, archiving \in BOOLEAN :
        LET S == {e \in Stored : events[e].sensor = s} IN
        Begin(r, [Idle EXCEPT !.pc = IF archiving THEN "again" ELSE "cascade", !.op = "sensor",
                    !.archiving = archiving, !.sensor = {s}, !.ids = S, !.loaded = Read(S)])

\* ... archiveEvents() asks for them once more, but keeps what was read then ...
LoadAgain(r) ==
    /\ request[r].pc = "again"
    /\ request' = [request EXCEPT ![r].pc = "archive", ![r].todo = Selected(r) \cap Stored]
    /\ UNCHANGED <<quiet, step>>

\* ... and they are removed with the sensor in one transaction.
NewOnes(r) == {e \in Stored \ Selected(r) : events[e].sensor \in request[r].sensor}

RemoveSensor(r) ==
    /\ request[r].pc = "cascade" /\ NewOnes(r) = {}
    /\ Delete(Selected(r)) /\ sensors' = sensors \ request[r].sensor
    /\ Discard(r, Selected(r))
    /\ Ends(r)
    /\ UNCHANGED <<lastId, archive, filter, caretaker, suppressed, overlapped, latest, raced,
                   step>>

\* Its new events refer to it: nothing is removed.
RemovalRefused(r) ==
    /\ request[r].pc = "cascade" /\ NewOnes(r) # {}
    /\ Fails(r) /\ UNCHANGED step

\* deleteEvent() in the archive, and the end of removeAllEvents().
SelectCopies(r) ==
    \E S \in SUBSET archive \ {{}} :
        Begin(r, [Idle EXCEPT !.pc = "copies", !.op = "copies", !.copies = S])

DeleteCopies(r) ==
    LET S == IF request[r].op = "all" THEN archive ELSE request[r].copies IN
    /\ request[r].pc = "copies"
    /\ archive' = archive \ S /\ discarded' = discarded \cup {c.oid : c \in S}
    /\ Ends(r)
    /\ UNCHANGED <<sensors, events, lastId, filter, caretaker, suppressed, overlapped, latest, raced,
                   step>>

\* removeAllEvents(): all details, all events, all of the archive.
RemoveAll(r) == Begin(r, [Idle EXCEPT !.pc = "details", !.op = "all", !.ids = Stored])

-----------------------------------------------------------------------------
(* The archive caretaker *)

caretakerUnchanged == <<sensors, lastId, filter, request, suppressed, overlapped, latest, bounds>>

\* Old copies are removed.
Purge ==
    /\ caretaker.pc = "asleep"
    /\ archive' = {c \in archive : ~c.past}
    /\ discarded' = discarded \cup {c.oid : c \in archive \ archive'}
    /\ caretaker' = [Asleep EXCEPT !.pc = "purged"]
    /\ UNCHANGED <<events, raced, caretakerUnchanged>>

\* What was closed long ago is listed ...
List ==
    /\ caretaker.pc = "purged"
    /\ LET S == {e \in Stored : events[e].status = "closed" /\ events[e].modified = "past"} IN
         /\ caretaker' = [Asleep EXCEPT !.pc = "listed", !.list = [e \in S |-> events[e].status],
                                        !.snapshot = {e \in S : Complete(e)}]
         /\ raced' = raced \cup (S \cap UNION {Selected(r) : r \in Requests})
    /\ UNCHANGED <<events, archive, discarded, caretakerUnchanged>>

\* ... the details of one after the other are read, those of the first as they were
\* when the list was made (it is the same transaction) ...
ReadDetails ==
    /\ caretaker.pc \in {"listed", "moving"}
    /\ \E e \in Listed :
         caretaker' = [caretaker EXCEPT !.pc = "read", !.current = {e},
             !.complete = IF caretaker.pc = "listed" THEN e \in caretaker.snapshot ELSE Complete(e)]
    /\ UNCHANGED <<events, archive, discarded, raced, caretakerUnchanged>>

\* Mutant: the rows are left to a later clean-up.
MoveEventKeeps ==
    /\ caretaker.pc = "read"
    /\ \E e \in caretaker.current :
         /\ Archived(e, caretaker.list[e], caretaker.complete)
         /\ caretaker' = [caretaker EXCEPT !.pc = "moving", !.current = {},
                                           !.list = Restrict(@, Listed \ {e})]
    /\ UNCHANGED <<events, discarded, raced, caretakerUnchanged>>

\* ... and it is moved, in one transaction.
MoveEvent ==
    /\ caretaker.pc = "read"
    /\ \E e \in caretaker.current :
         /\ Archived(e, caretaker.list[e], caretaker.complete)
         /\ Delete({e})
         /\ caretaker' = [caretaker EXCEPT !.pc = "moving", !.current = {},
                                           !.list = Restrict(@, Listed \ {e})]
    /\ UNCHANGED <<discarded, raced, caretakerUnchanged>>

CaretakerSleeps ==
    /\ caretaker.pc \in {"listed", "moving"} /\ Listed = {}
    /\ caretaker' = Asleep
    /\ UNCHANGED <<events, archive, discarded, raced, caretakerUnchanged>>

CaretakerFails ==
    /\ caretaker.pc # "asleep"
    /\ faults < MaxFaults /\ faults' = faults + 1
    /\ caretaker' = Asleep
    /\ UNCHANGED <<tables, request, history, requests>>

\* Time passes, until all is old.
NewDay ==
    /\ events' = [e \in Stored |->
         IF events[e].modified = "today" THEN [events[e] EXCEPT !.modified = "past"] ELSE events[e]]
    /\ archive' = {[c EXCEPT !.past = TRUE] : c \in archive}
    /\ <<events', archive'>> # <<events, archive>>
    /\ UNCHANGED <<discarded, raced, caretaker, caretakerUnchanged>>

-----------------------------------------------------------------------------
Begins(r) == \/ CreateEvent(r) \/ SelectToUpdate(r) \/ SelectToDelete(r)
             \/ SelectSensor(r) \/ SelectCopies(r) \/ RemoveAll(r)

Works(r) == \/ FlushEvent(r) \/ FlushRefused(r) \/ UpdateEvents(r)
            \/ LoadEvents(r) \/ ArchiveEvent(r) \/ ArchiveRefused(r) \/ EventsArchived(r)
            \/ DeleteDetails(r) \/ DeleteEvents(r) \/ DeleteRefused(r)
            \/ LoadAgain(r) \/ RemoveSensor(r) \/ RemovalRefused(r) \/ DeleteCopies(r)

Caretaker == Purge \/ List \/ ReadDetails \/ MoveEvent \/ CaretakerSleeps

Next == \/ \E r \in Requests : Begins(r) \/ Works(r) \/ RequestFails(r)
        \/ UpdateFilter
        \/ Caretaker \/ CaretakerFails \/ NewDay

Spec == Init /\ [][Next]_vars

\* Requests come to an end, days pass, and celery beat starts the caretaker every night.
Fairness == /\ \A r \in Requests : WF_vars(Works(r))
            /\ WF_vars(Caretaker) /\ WF_vars(NewDay)

FairSpec == Spec /\ Fairness

-----------------------------------------------------------------------------
(* Properties *)

\* An event that was stored is there with all it came with, in the table or in the
\* archive, until somebody removes it for good: archiving loses nothing, however
\* many archive the same event at once, and whatever fails.
NothingVanishes ==
    \A e \in 1..lastId :
        \/ Complete(e) \/ e \in discarded
        \/ \E c \in CopiesOf(e) : c.complete

\* When nobody else had an event selected meanwhile, it is not in both places, nor
\* twice in the archive, and its copy has the status that it was given last
\* (archiveEvents() "removes them from the primary event list").
AtRest(e) == e \notin Listed /\ \A r \in Requests : e \notin Selected(r)
InOnePlace ==
    \A e \in 1..lastId \ raced : AtRest(e) =>
        /\ Cardinality(CopiesOf(e)) + (IF e \in Stored THEN 1 ELSE 0) <= 1
        /\ \A c \in CopiesOf(e) : c.status = latest[e]

\* A filter never counts more events than it suppressed, and it counts every one of them
\* (EventFilter.php: events that match "increase the filter event count") unless two
\* requests count up at the same time; one that fails counts nothing.
CounterCounts ==
    /\ filter.count <= suppressed
    /\ ~overlapped => filter.count = suppressed

\* An event that is closed and left alone ends up in the archive (archive_caretaker.py:
\* "Handles automatic archiving of resolved and ignored events").
ClosedIsArchived ==
    \A e \in Ids : (e \in Stored /\ events[e].status = "closed")
                      ~> (e \notin Stored \/ events[e].status = "open")
=============================================================================
