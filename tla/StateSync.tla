----------------------------- MODULE StateSync -----------------------------
(***************************************************************************)
(* How the web interface follows the state of the server.  The server      *)
(* keeps one timestamp per table, in seconds, that changes of the table    *)
(* renew; the interface asks every few seconds for the tables that have    *)
(* changed since its last answer, and for the events that are new, and     *)
(* replaces what it has.  Requests of others change the tables meanwhile,  *)
(* also between the queries that one answer is made of.  The interface may *)
(* have two polls under way, as it polls at once when a sensor or division *)
(* has been edited: the server handles them in turn, as they belong to one *)
(* session, but the answers may overtake each other.                       *)
(***************************************************************************)
EXTENDS Integers, FiniteSets, FiniteSetsExt

CONSTANTS
    Tables,         \* tables of last_updates, "sensors" and "settings" among them
    Writers,        \* requests that change something
    Polls,          \* polls that may be under way at the same time
    PerPage,        \* the most events that one answer holds
    MaxTime,        \* bound: seconds
    MaxWrites,      \* bound: changes
    MaxEvents,      \* bound: ids of events
    Never           \* the timestamp of a client that has no state yet

ASSUME SyncAssumption ==
    /\ {"sensors", "settings"} \subseteq Tables
    /\ PerPage \in Nat \ {0} /\ MaxTime \in Nat /\ MaxWrites \in Nat
    /\ MaxEvents \in Nat /\ Never \notin Nat

VARIABLES
    clock,
    version,        \* of each table: how often its content has changed
    stamp,          \* last_updates
    events, lastId, \* the ids of the events, and the last one given away
    writer,         \* what each request is about to do
    view,           \* what the interface shows
    poll,           \* the polls that are under way
    unnoticed,      \* history: tables with a change that the timestamp does not show
    announced,      \* history: the events that the interface knows of
    written         \* counter for the bound

db == <<version, stamp, events, lastId, writer, written>>
client == <<view, poll, announced>>
vars == <<clock, db, client, unnoticed>>

Times == 0..MaxTime
Ids == 1..MaxEvents

Idle == [pc |-> "idle", table |-> "sensors", ts |-> 0, id |-> 0]

\* `reads`: the tables that are still to be read; `new`: the events of the answer.
NoPoll == [pc |-> "none", ts |-> Never, lastId |-> 0, now |-> 0, reads |-> {},
           copy |-> [t \in {} |-> 0], new |-> {}, answer |-> 0, known |-> {}]

NoView == [ts |-> Never, lastId |-> 0, copy |-> [t \in Tables |-> 0]]

TypeOK ==
    /\ clock \in Times
    /\ version \in [Tables -> 0..MaxWrites] /\ stamp \in [Tables -> Times]
    /\ events \subseteq 1..lastId /\ lastId \in 0..MaxEvents
    /\ writer \in [Writers -> [pc : {"idle", "flush", "insert", "unstamped"},
                               table : Tables, ts : Times, id : 0..MaxEvents]]
    /\ view.ts \in Times \cup {Never} /\ view.lastId \in 0..lastId
    /\ \A t \in Tables : view.copy[t] \in 0..version[t]
    /\ \A p \in Polls :
         /\ poll[p].pc \in {"none", "sent", "started", "reading", "listed", "answered"}
         /\ poll[p].reads \cap DOMAIN poll[p].copy = {}
         /\ \A t \in DOMAIN poll[p].copy : poll[p].copy[t] \in 0..version[t]
         /\ poll[p].now <= clock
         /\ Cardinality(poll[p].new) <= PerPage
    /\ unnoticed \subseteq Tables /\ announced \subseteq Ids
    /\ written \in 0..MaxWrites

Init ==
    /\ clock = 0
    /\ version = [t \in Tables |-> 0] /\ stamp = [t \in Tables |-> 0]
    /\ events = {} /\ lastId = 0
    /\ writer = [w \in Writers |-> Idle]
    /\ view = NoView
    /\ poll = [p \in Polls |-> NoPoll]
    /\ unnoticed = {} /\ announced = {}
    /\ written = 0

Tick == clock < MaxTime /\ clock' = clock + 1 /\ UNCHANGED <<db, client, unnoticed>>

-----------------------------------------------------------------------------
(* Changes *)

Begin(w) == /\ writer[w] = Idle /\ written < MaxWrites /\ written' = written + 1
            /\ UNCHANGED <<clock, client>>

Changed(t) == version' = [version EXCEPT ![t] = @ + 1]

\* A flush of entities that EntityUpdateSubscriber knows: within the transaction, the
\* timestamp is set to the time of that statement ...
Flush(w, t) ==
    /\ Begin(w) /\ t # "settings"
    /\ writer' = [writer EXCEPT ![w] = [Idle EXCEPT !.pc = "flush", !.table = t, !.ts = clock]]
    /\ UNCHANGED <<version, stamp, events, lastId, unnoticed>>

\* ... and others see it when the transaction is committed, in a later second maybe.
Commit(w) ==
    LET t == writer[w].table IN
    /\ writer[w].pc = "flush"
    /\ Changed(t) /\ stamp' = [stamp EXCEPT ![t] = writer[w].ts]
    /\ unnoticed' = unnoticed \cup (IF clock > writer[w].ts THEN {t} ELSE {})
    /\ writer' = [writer EXCEPT ![w] = Idle]
    /\ UNCHANGED <<clock, client, events, lastId, written>>

\* A flush of entities that it does not know: the default firmware of a platform, the
\* services of a sensor, the conditions of a filter.
FlushUntracked(w, t) ==
    /\ Begin(w) /\ t # "settings"
    /\ Changed(t) /\ unnoticed' = unnoticed \cup {t}
    /\ UNCHANGED <<stamp, events, lastId, writer>>

\* updateSettings(): the file is saved, the timestamp is set then.
SaveSettings(w) ==
    /\ Begin(w) /\ Changed("settings")
    /\ writer' = [writer EXCEPT ![w] = [Idle EXCEPT !.pc = "unstamped", !.table = "settings"]]
    /\ UNCHANGED <<stamp, events, lastId, unnoticed>>

\* createEvent(): the event gets its id when it is inserted ...
InsertEvent(w) ==
    /\ Begin(w) /\ lastId < MaxEvents
    /\ lastId' = lastId + 1
    /\ writer' = [writer EXCEPT ![w] = [Idle EXCEPT !.pc = "insert", !.id = lastId + 1]]
    /\ UNCHANGED <<version, stamp, events, unnoticed>>

\* ... is there when the transaction is committed, and counts for its sensor.
CommitEvent(w) ==
    /\ writer[w].pc = "insert"
    /\ events' = events \cup {writer[w].id} /\ Changed("sensors")
    /\ writer' = [writer EXCEPT ![w] = [Idle EXCEPT !.pc = "unstamped"]]
    /\ UNCHANGED <<clock, client, stamp, lastId, unnoticed, written>>

DeleteEvents(w) ==
    /\ Begin(w)
    /\ \E S \in SUBSET events \ {{}} : events' = events \ S
    /\ Changed("sensors")
    /\ writer' = [writer EXCEPT ![w] = [Idle EXCEPT !.pc = "unstamped"]]
    /\ UNCHANGED <<stamp, lastId, unnoticed>>

\* updateSensorRepo(), and the end of updateSettings().
Stamp(w) ==
    /\ writer[w].pc = "unstamped"
    /\ stamp' = [stamp EXCEPT ![writer[w].table] = clock]
    /\ writer' = [writer EXCEPT ![w] = Idle]
    /\ UNCHANGED <<clock, client, version, events, lastId, unnoticed, written>>

Write(w) == \/ \E t \in Tables : Flush(w, t) \/ FlushUntracked(w, t)
            \/ SaveSettings(w) \/ InsertEvent(w) \/ DeleteEvents(w)

Finish(w) == Commit(w) \/ CommitEvent(w) \/ Stamp(w)

-----------------------------------------------------------------------------
(* A poll *)

\* The first one, of a page that has no state yet, is alone.
Send(p) ==
    /\ poll[p].pc = "none"
    /\ view.ts = Never => \A q \in Polls : poll[q].pc = "none"
    /\ poll' = [poll EXCEPT ![p] =
         [NoPoll EXCEPT !.pc = "sent", !.ts = view.ts, !.lastId = view.lastId]]
    /\ UNCHANGED <<clock, db, view, announced, unnoticed>>

\* session_start() waits for the other requests of this session.
Start(p) ==
    /\ poll[p].pc = "sent"
    /\ \A q \in Polls : poll[q].pc \in {"none", "sent", "answered"}
    /\ poll' = [poll EXCEPT ![p].pc = "started", ![p].now = clock]
    /\ UNCHANGED <<clock, db, view, announced, unnoticed>>

\* Mutant: a table that changed in the second of the last answer is left out.
ChangedAfter(ts) == {t \in Tables : ts = Never \/ stamp[t] > ts}

ChangedSince(ts) == {t \in Tables : ts = Never \/ stamp[t] >= ts}

\* getEntities(): which tables ...
Query(p) ==
    /\ poll[p].pc = "started"
    /\ poll' = [poll EXCEPT ![p].pc = "reading", ![p].reads = ChangedSince(poll[p].ts)]
    /\ UNCHANGED <<clock, db, view, announced, unnoticed>>

\* ... and what is in them, one after the other.
ReadTable(p) ==
    /\ poll[p].pc = "reading"
    /\ \E t \in poll[p].reads :
         poll' = [poll EXCEPT ![p].reads = @ \ {t},
                    ![p].copy = [u \in DOMAIN @ \cup {t} |-> IF u = t THEN version[t] ELSE @[u]]]
    /\ UNCHANGED <<clock, db, view, announced, unnoticed>>

\* The new events; there are none in a first answer.  More than a page are cut off.
NewEvents(p) ==
    LET new == {e \in events : e > poll[p].lastId} IN
    IF poll[p].ts = Never THEN {{}}
    ELSE kSubset(Min({PerPage, Cardinality(new)}), new)

ReadEvents(p) ==
    /\ poll[p].pc = "reading" /\ poll[p].reads = {}
    /\ \E new \in NewEvents(p) :
         poll' = [poll EXCEPT ![p].pc = "listed", ![p].new = new]
    /\ UNCHANGED <<clock, db, view, announced, unnoticed>>

\* The id of the last event, in a query of its own.
ReadLastId(p) ==
    /\ poll[p].pc = "listed"
    /\ poll' = [poll EXCEPT ![p].pc = "answered", ![p].answer = Max(events \cup {0}),
                  ![p].known = IF poll[p].ts = Never THEN events ELSE poll[p].new]
    /\ UNCHANGED <<clock, db, view, announced, unnoticed>>

\* The interface replaces what it has; an answer may have been overtaken by another.
Receive(p) ==
    LET copy == poll[p].copy
        shown == [t \in Tables |-> IF t \in DOMAIN copy THEN copy[t] ELSE view.copy[t]]
        older == {t \in DOMAIN copy : copy[t] < view.copy[t]}
    IN
    /\ poll[p].pc = "answered"
    /\ view' = [ts |-> poll[p].now, lastId |-> poll[p].answer, copy |-> shown]
    /\ unnoticed' = {t \in unnoticed \cup older : shown[t] # version[t]}
    /\ announced' = announced \cup poll[p].known
    /\ poll' = [poll EXCEPT ![p] = NoPoll]
    /\ UNCHANGED <<clock, db>>

\* The interface says that the connection is lost, and the page is loaded anew.
Lose(p) ==
    /\ poll[p].pc # "none"
    /\ view' = NoView /\ poll' = [q \in Polls |-> NoPoll]
    /\ unnoticed' = {} /\ announced' = {}
    /\ UNCHANGED <<clock, db>>

Polling(p) == \/ Send(p) \/ Start(p) \/ Query(p) \/ ReadTable(p)
              \/ ReadEvents(p) \/ ReadLastId(p) \/ Receive(p)

-----------------------------------------------------------------------------
Next == \/ Tick
        \/ \E w \in Writers : Write(w) \/ Finish(w)
        \/ \E p \in Polls : Polling(p) \/ Lose(p)

Spec == Init /\ [][Next]_vars

-----------------------------------------------------------------------------
(* Properties *)

\* What the interface shows of a table is what is in it, or the next poll fetches it
\* (EntityUpdateSubscriber.php: the timestamps "are used to supply clients with all
\* recent updates"), but for changes that leave no timestamp, or the one of an
\* earlier second, and for an old answer that comes late.
UpdatesAreSeen ==
    (view.ts # Never /\ \A p \in Polls : poll[p].pc = "none") =>
        \A t \in Tables :
            \/ view.copy[t] = version[t]
            \/ stamp[t] >= view.ts
            \/ \E w \in Writers : writer[w].pc = "unstamped" /\ writer[w].table = t
            \/ t \in unnoticed

\* Every event is announced (State.php:81: "Return new events since the provided last
\* event ID").
EveryEventIsAnnounced ==
    (view.ts # Never /\ \A p \in Polls : poll[p].pc = "none") =>
        \A e \in events : e \in announced \/ e > view.lastId

=============================================================================
