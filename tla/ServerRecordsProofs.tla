------------------------- MODULE ServerRecordsProofs -------------------------
(***************************************************************************)
(* Proofs about EventStore, for any sensors, requests and bounds: no event *)
(* vanishes, with what it came with, unless somebody removes it for good.  *)
(* An event only ever loses its details, and what has been saved, in the   *)
(* archive or in the record of what was removed, stays saved.  So what a   *)
(* request and the caretaker know of an event may be out of date, but only *)
(* in one direction: what they have archived, or seen to be incomplete,    *)
(* may be deleted whenever they get to it.                                 *)
(*                                                                         *)
(* And no event is in two places, unless two had it selected at once: who  *)
(* archives it has it alone, from before the copy is made until the event  *)
(* is removed.                                                             *)
(*                                                                         *)
(* And proofs about SensorStatus, through SensorRecords, for any intervals *)
(* and any number of checkers: runningSince starts anew only after a       *)
(* timeout.  What a poll will remove of the log is its oldest part, so     *)
(* that no timeout is removed before the reports that it ended; and time   *)
(* changes no order.                                                       *)
(*                                                                         *)
(* And proofs about FilterForm, through FilterRecords, for any filters,    *)
(* fields and bounds: an update stores the conditions that were sent.  The *)
(* ids of conditions ascend at the server, and in all that pages and       *)
(* requests know of them, however old; so a part of them that is picked    *)
(* by its ids is in the order in which it was sent.                        *)
(***************************************************************************)
EXTENDS EventStore, SensorRecords, FilterRecords, Subsequences, SequenceTheorems,
        FiniteSetTheorems, TLAPS

\* Somebody has removed the event for good, or it is in the archive with all its details.
Saved(e) == e \in discarded \/ \E c \in CopiesOf(e) : c.complete

\* Events that may be deleted.
Safe(S) == \A e \in S : Complete(e) => Saved(e)

-----------------------------------------------------------------------------
(* The invariant *)

IsEvent(v) ==
    DOMAIN v = {"sensor", "status", "modified", "complete"} /\ v.complete \in BOOLEAN

IsCopy(c) ==
    DOMAIN c = {"oid", "nr", "status", "complete", "past"} /\ c.complete \in BOOLEAN

Parts == {"pc", "op", "archiving", "ids", "loaded", "todo", "sensor", "status", "matched",
          "count", "copies"}
IsRequest(q) == DOMAIN q = Parts

IsCaretaker(c) == DOMAIN c = {"pc", "list", "snapshot", "current", "complete"}

TablesOK ==
    /\ lastId \in Nat /\ Stored \subseteq 1..lastId
    /\ \A e \in Stored : IsEvent(events[e])
    /\ \A c \in archive : IsCopy(c)

\* What a request has archived is safe, and it deletes when it has archived all.
RequestOK(q) ==
    /\ IsRequest(q) /\ q.ids \subseteq 1..lastId
    /\ q.archiving =>
         /\ q.op # "all"
         /\ q.pc \in {"archive", "details", "cascade"} => Safe(q.ids \ q.todo)
         /\ q.pc \in {"details", "cascade"} => q.todo = {}

\* What the caretaker takes for incomplete is so.
CaretakerOK(c) ==
    /\ IsCaretaker(c) /\ DOMAIN c.list \subseteq 1..lastId /\ c.current \subseteq 1..lastId
    /\ c.pc = "listed" => \A e \in DOMAIN c.list : Complete(e) => e \in c.snapshot
    /\ c.pc = "read" =>
         c.complete \in BOOLEAN /\ \A e \in c.current : Complete(e) => c.complete

RequestsOK ==
    /\ request = [r \in Requests |-> request[r]]
    /\ \A r \in Requests : RequestOK(request[r])

IInv == TablesOK /\ RequestsOK /\ CaretakerOK(caretaker) /\ NothingVanishes

-----------------------------------------------------------------------------
(* What the tables go through *)

\* Events lose details only when they are saved, and new ones have all of theirs.
Keeps ==
    /\ TablesOK' /\ lastId <= lastId'
    /\ \A e \in 1..lastId :
         /\ Complete(e)' => Complete(e)
         /\ Saved(e) => Saved(e)'
         /\ Complete(e) => Complete(e)' \/ Saved(e)'
    /\ \A e \in (lastId + 1)..lastId' : Complete(e)'

LEMMA Kept ==
    ASSUME IInv, Keeps
    PROVE  /\ NothingVanishes'
           /\ \A S \in SUBSET (1..lastId) : Safe(S) => Safe(S)'
<1>1. \A e \in 1..lastId : Complete(e) \/ Saved(e)
    BY DEF IInv, NothingVanishes, Saved
<1>2. lastId \in Nat /\ lastId' \in Nat /\ lastId <= lastId'
    BY DEF IInv, TablesOK, Keeps
<1>3. ASSUME NEW e \in 1..lastId' PROVE Complete(e)' \/ Saved(e)'
    <2>1. CASE e \in 1..lastId
        BY <1>1, <2>1 DEF Keeps
    <2>2. CASE e \notin 1..lastId
        <3>1. e \in (lastId + 1)..lastId'
            BY <1>2, <1>3, <2>2
        <3>2. QED
            BY <3>1 DEF Keeps
    <2>3. QED
        BY <2>1, <2>2
<1>4. NothingVanishes'
    BY <1>3 DEF NothingVanishes, Saved
<1>5. \A S \in SUBSET (1..lastId) : Safe(S) => Safe(S)'
    BY DEF Safe, Keeps
<1>6. QED
    BY <1>4, <1>5

LEMMA RequestStays ==
    ASSUME IInv, Keeps, NEW q, RequestOK(q)
    PROVE  RequestOK(q)'
<1>1. 1..lastId \subseteq 1..lastId'
    BY DEF IInv, TablesOK, Keeps
<1>2. q.ids \ q.todo \in SUBSET (1..lastId)
    BY DEF RequestOK
<1>3. Safe(q.ids \ q.todo) => Safe(q.ids \ q.todo)'
    BY <1>2, Kept
<1>4. QED
    BY <1>1, <1>3 DEF RequestOK

LEMMA CaretakerStays ==
    ASSUME IInv, Keeps, NEW c, CaretakerOK(c)
    PROVE  CaretakerOK(c)'
<1>1. 1..lastId \subseteq 1..lastId'
    BY DEF IInv, TablesOK, Keeps
<1>2. \A e \in 1..lastId : Complete(e)' => Complete(e)
    BY DEF Keeps
<1>3. QED
    BY <1>1, <1>2 DEF CaretakerOK

\* A step of one request, and one of the caretaker.
LEMMA RequestMoves ==
    ASSUME IInv, Keeps, NEW r \in Requests, NEW q, request' = [request EXCEPT ![r] = q],
           RequestOK(q)', UNCHANGED caretaker
    PROVE  IInv'
<1>1. request' = [x \in Requests |-> request'[x]] /\ request'[r] = q
      /\ \A x \in Requests \ {r} : request'[x] = request[x]
    BY DEF IInv, RequestsOK
<1>2. ASSUME NEW x \in Requests PROVE RequestOK(request[x])'
    <2>1. CASE x = r
        BY <1>1, <2>1 DEF RequestOK, Safe
    <2>2. CASE x # r
        <3>1. PICK s : s = request[x]
            OBVIOUS
        <3>2. RequestOK(s)
            BY <3>1 DEF IInv, RequestsOK
        <3>3. RequestOK(s)'
            BY <3>2, RequestStays
        <3>4. request'[x] = s
            BY <1>1, <2>2, <3>1
        <3>5. QED
            BY <3>3, <3>4 DEF RequestOK, Safe
    <2>3. QED
        BY <2>1, <2>2
<1>3. CaretakerOK(caretaker)'
    <2>1. PICK c : c = caretaker
        OBVIOUS
    <2>2. CaretakerOK(c)'
        BY <2>1, CaretakerStays DEF IInv
    <2>3. QED
        BY <2>1, <2>2 DEF CaretakerOK
<1>4. QED
    BY <1>1, <1>2, <1>3, Kept DEF IInv, RequestsOK, Keeps

LEMMA CaretakerMoves ==
    ASSUME IInv, Keeps, NEW c, caretaker' = c, CaretakerOK(c)', UNCHANGED request
    PROVE  IInv'
<1>1. ASSUME NEW x \in Requests PROVE RequestOK(request[x])'
    <2>1. PICK s : s = request[x]
        OBVIOUS
    <2>2. RequestOK(s)'
        BY <2>1, RequestStays DEF IInv, RequestsOK
    <2>3. QED
        BY <2>1, <2>2 DEF RequestOK, Safe
<1>2. CaretakerOK(caretaker)'
    BY DEF CaretakerOK
<1>3. QED
    BY <1>1, <1>2, Kept DEF IInv, RequestsOK, Keeps

-----------------------------------------------------------------------------
(* What is done to the tables *)

LEMMA Untouched ==
    ASSUME IInv, UNCHANGED <<events, lastId, archive, discarded>>
    PROVE  Keeps
<1>1. \A e : (Complete(e) <=> Complete(e)') /\ (Saved(e) <=> Saved(e)')
    BY DEF Complete, Saved, CopiesOf, Stored
<1>2. QED
    BY <1>1 DEF IInv, TablesOK, Keeps, Stored

\* Events stay what they are, but for their status and their time.
LEMMA Edited ==
    ASSUME IInv, UNCHANGED <<lastId, archive, discarded>>, Stored' = Stored,
           \A e \in Stored : IsEvent(events'[e]) /\ events'[e].complete = events[e].complete
    PROVE  Keeps
<1>1. \A e : (Complete(e) <=> Complete(e)') /\ (Saved(e) <=> Saved(e)')
    BY DEF Complete, Saved, CopiesOf
<1>2. TablesOK'
    BY DEF IInv, TablesOK
<1>3. QED
    BY <1>1, <1>2 DEF IInv, TablesOK, Keeps

\* Events are removed, or lose their details, when that is safe.
LEMMA Lessened ==
    ASSUME IInv, UNCHANGED <<lastId, archive>>, Stored' \subseteq Stored, discarded \subseteq discarded',
           \A e \in Stored' : IsEvent(events'[e]) /\ (events'[e].complete => events[e].complete),
           \A e \in 1..lastId : Complete(e) => Complete(e)' \/ Saved(e)'
    PROVE  Keeps
<1>1. \A e : (Complete(e)' => Complete(e)) /\ (Saved(e) => Saved(e)')
    BY DEF Complete, Saved, CopiesOf
<1>2. TablesOK'
    BY DEF IInv, TablesOK
<1>3. QED
    BY <1>1, <1>2 DEF IInv, TablesOK, Keeps

LEMMA EventChanges ==
    ASSUME NEW v, IsEvent(v), NEW x, NEW y
    PROVE  /\ LET w == [v EXCEPT !.status = x, !.modified = y] IN
              IsEvent(w) /\ w.complete = v.complete
           /\ LET w == [v EXCEPT !.modified = y] IN
              IsEvent(w) /\ w.complete = v.complete /\ w.status = v.status
           /\ LET w == [v EXCEPT !.complete = FALSE] IN
              IsEvent(w) /\ w.complete = FALSE
BY DEF IsEvent

LEMMA CopyIsOne ==
    ASSUME NEW e, NEW st, NEW complete \in BOOLEAN, Archived(e, st, complete)
    PROVE  \E c : /\ archive' = archive \cup {c} /\ IsCopy(c) /\ c.oid = e
                  /\ c.complete = complete /\ c.status = st
<1>1. PICK n : archive' = archive \cup {[oid |-> e, nr |-> n, status |-> st,
                                        complete |-> complete, past |-> FALSE]}
    BY Zenon DEF Archived
<1> DEFINE c == [oid |-> e, nr |-> n, status |-> st, complete |-> complete, past |-> FALSE]
<1>2. c.oid = e /\ c.nr = n /\ c.status = st /\ c.complete = complete /\ c.past = FALSE
    BY Zenon
<1>3. IsCopy(c)
    BY <1>2, Zenon DEF IsCopy
<1>4. QED
    BY <1>1, <1>2, <1>3, Zenon

LEMMA Copied ==
    ASSUME IInv, UNCHANGED <<events, lastId, discarded>>, NEW c, IsCopy(c), archive' = archive \cup {c}
    PROVE  Keeps
<1>1. \A e : (Complete(e) <=> Complete(e)') /\ (Saved(e) => Saved(e)')
    BY DEF Complete, Saved, CopiesOf, Stored
<1>2. QED
    BY <1>1 DEF IInv, TablesOK, Keeps, Stored

\* Copies are removed for good.
LEMMA CopiesRemoved ==
    ASSUME IInv, UNCHANGED <<events, lastId>>, archive' \subseteq archive,
           discarded \subseteq discarded', \A c \in archive \ archive' : c.oid \in discarded'
    PROVE  Keeps
<1>1. \A e : (Complete(e) <=> Complete(e)')
    BY DEF Complete, Stored
<1>2. ASSUME NEW e, Saved(e) PROVE Saved(e)'
    BY <1>2 DEF Saved, CopiesOf
<1>3. QED
    BY <1>1, <1>2 DEF IInv, TablesOK, Keeps, Stored

-----------------------------------------------------------------------------
(* Requests *)

LEMMA IdleIsOne ==
    /\ IsRequest(Idle) /\ Idle.pc = "idle" /\ Idle.op = "none" /\ Idle.archiving = FALSE
    /\ Idle.ids = {} /\ Idle.todo = {}
BY DEF Idle, IsRequest, Parts

\* What a step makes of a request.
AtPc(q, pc) == [q EXCEPT !.pc = pc]
LessTodo(q, todo) == [q EXCEPT !.todo = todo]
WithTodo(q, todo) == [q EXCEPT !.pc = "archive", !.todo = todo]
WithEvents(q, loaded, todo) == [q EXCEPT !.pc = "archive", !.loaded = loaded, !.todo = todo]

Same(s, q) == IsRequest(s) /\ s.op = q.op /\ s.archiving = q.archiving /\ s.ids = q.ids

LEMMA RequestChanges ==
    ASSUME NEW q, IsRequest(q), NEW pc, NEW loaded, NEW todo
    PROVE  /\ LET s == AtPc(q, pc) IN Same(s, q) /\ s.pc = pc /\ s.todo = q.todo
           /\ LET s == LessTodo(q, todo) IN Same(s, q) /\ s.pc = q.pc /\ s.todo = todo
           /\ LET s == WithTodo(q, todo) IN Same(s, q) /\ s.pc = "archive" /\ s.todo = todo
           /\ LET s == WithEvents(q, loaded, todo) IN
                Same(s, q) /\ s.pc = "archive" /\ s.todo = todo
BY DEF IsRequest, Parts, Same, AtPc, LessTodo, WithTodo, WithEvents

LEMMA Unmatched ==
    ASSUME NEW q, IsRequest(q), NEW pc, NEW loaded, NEW todo
    PROVE  /\ AtPc(q, pc).matched = q.matched
           /\ LessTodo(q, todo).matched = q.matched
           /\ WithTodo(q, todo).matched = q.matched
           /\ WithEvents(q, loaded, todo).matched = q.matched
BY DEF IsRequest, Parts, AtPc, LessTodo, WithTodo, WithEvents

LEMMA Begun ==
    ASSUME IInv, NEW r \in Requests, NEW q, Begin(r, q), IsRequest(q), q.ids \subseteq Stored,
           q.archiving => q.op # "all" /\ q.pc \in {"load", "again"}
    PROVE  IInv'
<1>1. Keeps
    BY Untouched DEF Begin, tables
<1>2. RequestOK(q)
    BY DEF RequestOK, Safe, IInv, TablesOK
<1>3. RequestOK(q)'
    BY <1>1, <1>2, RequestStays
<1>4. QED
    BY <1>1, <1>3, RequestMoves DEF Begin, tables

LEMMA Ended ==
    ASSUME IInv, Keeps, NEW r \in Requests, Ends(r), UNCHANGED caretaker
    PROVE  IInv'
<1>1. RequestOK(Idle)'
    BY IdleIsOne DEF RequestOK, Safe
<1>2. QED
    BY <1>1, RequestMoves DEF Ends

LEMMA Failed ==
    ASSUME IInv, NEW r \in Requests, Fails(r)
    PROVE  IInv'
BY Untouched, Ended DEF Fails, tables

LEMMA BeginSteps ==
    ASSUME IInv, NEW r \in Requests, Begins(r)
    PROVE  IInv'
<1>1. CASE CreateEvent(r)
    <2>1. PICK x \in sensors, m \in BOOLEAN :
            Begin(r, [Idle EXCEPT !.pc = "flush", !.op = "create", !.sensor = {x},
                        !.matched = m /\ filter.enabled, !.count = filter.count])
        BY <1>1 DEF CreateEvent
    <2> DEFINE q == [Idle EXCEPT !.pc = "flush", !.op = "create", !.sensor = {x},
                        !.matched = m /\ filter.enabled, !.count = filter.count]
    <2>2. IsRequest(q) /\ q.ids = {} /\ q.archiving = FALSE
        BY DEF Idle, IsRequest, Parts
    <2> HIDE DEF q
    <2>3. Begin(r, q)
        BY <2>1 DEF q
    <2>4. QED
        BY <2>2, <2>3, Begun
<1>2. CASE SelectToUpdate(r)
    <2>1. PICK S \in Selections, st \in Statuses :
            Begin(r, [Idle EXCEPT !.pc = "update", !.op = "update", !.ids = S, !.status = st])
        BY <1>2 DEF SelectToUpdate
    <2> DEFINE q == [Idle EXCEPT !.pc = "update", !.op = "update", !.ids = S, !.status = st]
    <2>2. IsRequest(q) /\ q.ids = S /\ q.archiving = FALSE
        BY DEF Idle, IsRequest, Parts
    <2> HIDE DEF q
    <2>3. Begin(r, q) /\ S \subseteq Stored
        BY <2>1 DEF q, Selections
    <2>4. QED
        BY <2>2, <2>3, Begun
<1>3. CASE SelectToDelete(r)
    <2>1. PICK S \in Selections, a \in BOOLEAN :
            Begin(r, [Idle EXCEPT !.pc = IF a THEN "load" ELSE "details", !.op = "delete",
                        !.archiving = a, !.ids = S])
        BY <1>3 DEF SelectToDelete
    <2> DEFINE q == [Idle EXCEPT !.pc = IF a THEN "load" ELSE "details", !.op = "delete",
                        !.archiving = a, !.ids = S]
    <2>2. /\ IsRequest(q) /\ q.ids = S /\ q.archiving = a /\ q.op = "delete"
          /\ a => q.pc = "load"
        BY DEF Idle, IsRequest, Parts
    <2> HIDE DEF q
    <2>3. Begin(r, q) /\ S \subseteq Stored
        BY <2>1 DEF q, Selections
    <2>4. QED
        BY <2>2, <2>3, Begun
<1>4. CASE SelectSensor(r)
    <2>1. PICK x \in sensors, a \in BOOLEAN :
            LET S == {e \in Stored : events[e].sensor = x} IN
            Begin(r, [Idle EXCEPT !.pc = IF a THEN "again" ELSE "cascade", !.op = "sensor",
                        !.archiving = a, !.sensor = {x}, !.ids = S, !.loaded = Read(S)])
        BY <1>4 DEF SelectSensor
    <2> DEFINE S == {e \in Stored : events[e].sensor = x}
               l == Read(S)
               q == [Idle EXCEPT !.pc = IF a THEN "again" ELSE "cascade", !.op = "sensor",
                        !.archiving = a, !.sensor = {x}, !.ids = S, !.loaded = l]
    <2>2. S \subseteq Stored
        OBVIOUS
    <2> HIDE DEF S, l
    <2>3. /\ IsRequest(q) /\ q.ids = S /\ q.archiving = a /\ q.op = "sensor"
          /\ a => q.pc = "again"
        BY DEF Idle, IsRequest, Parts
    <2> HIDE DEF q
    <2>4. Begin(r, q)
        BY <2>1 DEF q, S, l
    <2>5. QED
        BY <2>2, <2>3, <2>4, Begun
<1>5. CASE SelectCopies(r)
    <2>1. PICK S \in SUBSET archive :
            Begin(r, [Idle EXCEPT !.pc = "copies", !.op = "copies", !.copies = S])
        BY <1>5 DEF SelectCopies
    <2> DEFINE q == [Idle EXCEPT !.pc = "copies", !.op = "copies", !.copies = S]
    <2>2. IsRequest(q) /\ q.ids = {} /\ q.archiving = FALSE
        BY DEF Idle, IsRequest, Parts
    <2> HIDE DEF q
    <2>3. Begin(r, q)
        BY <2>1 DEF q
    <2>4. QED
        BY <2>2, <2>3, Begun
<1>6. CASE RemoveAll(r)
    <2> DEFINE S == Stored
               q == [Idle EXCEPT !.pc = "details", !.op = "all", !.ids = S]
    <2> HIDE DEF S
    <2>1. IsRequest(q) /\ q.ids = S /\ q.archiving = FALSE
        BY DEF Idle, IsRequest, Parts
    <2> HIDE DEF q
    <2>2. Begin(r, q) /\ S \subseteq Stored
        BY <1>6 DEF RemoveAll, q, S
    <2>3. QED
        BY <2>1, <2>2, Begun
<1>7. QED
    BY <1>1, <1>2, <1>3, <1>4, <1>5, <1>6 DEF Begins

\* What a request works on: its ids, when it archives them.
LEMMA Working ==
    ASSUME IInv, NEW r \in Requests
    PROVE  /\ RequestOK(request[r]) /\ IsRequest(request[r])
           /\ request[r].archiving => Selected(r) = request[r].ids
           /\ \A e \in Selected(r) : e \in 1..lastId
BY DEF IInv, TablesOK, RequestsOK, RequestOK, Selected

LEMMA SimpleWorks ==
    ASSUME IInv, NEW r \in Requests,
           \/ FlushRefused(r) \/ ArchiveRefused(r) \/ DeleteRefused(r) \/ RemovalRefused(r)
           \/ RequestFails(r) \/ FlushEvent(r) \/ UpdateEvents(r) \/ DeleteCopies(r)
    PROVE  IInv'
<1>1. CASE \/ FlushRefused(r) \/ ArchiveRefused(r) \/ DeleteRefused(r) \/ RemovalRefused(r)
           \/ RequestFails(r)
    BY <1>1, Failed DEF FlushRefused, ArchiveRefused, DeleteRefused, RemovalRefused, RequestFails
<1>2. CASE FlushEvent(r)
    <2>1. CASE Suppress(r)
        BY <1>2, <2>1, Untouched, Ended DEF FlushEvent, Suppress
    <2>2. CASE Store(r)
        <3>1. PICK x : events' = [e \in Stored \cup {lastId + 1} |->
                 IF e \in Stored THEN events[e]
                 ELSE [sensor |-> x, status |-> "open", modified |-> "never", complete |-> TRUE]]
            BY <2>2 DEF Store
        <3> DEFINE new == [sensor |-> x, status |-> "open", modified |-> "never", complete |-> TRUE]
        <3>2. IsEvent(new) /\ new.complete = TRUE
            BY DEF IsEvent
        <3> HIDE DEF new
        <3>3. lastId \in Nat /\ Stored \subseteq 1..lastId /\ lastId' = lastId + 1
            BY <2>2 DEF Store, IInv, TablesOK
        <3>4. lastId + 1 \notin Stored
            BY <3>3
        <3>5. /\ Stored' = Stored \cup {lastId + 1} /\ events'[lastId + 1] = new
              /\ \A e \in Stored : events'[e] = events[e]
            BY <3>1, <3>4 DEF Stored, new
        <3>6. UNCHANGED <<archive, discarded>>
            BY <1>2, <2>2 DEF FlushEvent, Store
        <3>7. TablesOK'
            <4>1. lastId' \in Nat /\ \A e \in Stored' : e \in 1..lastId'
                <5>1. \A e \in Stored : e \in 1..(lastId + 1)
                    BY <3>3
                <5>2. lastId + 1 \in 1..(lastId + 1)
                    BY <3>3
                <5>3. QED
                    BY <3>3, <3>5, <5>1, <5>2
            <4>2. \A e \in Stored' : IsEvent(events'[e])
                BY <3>2, <3>5 DEF IInv, TablesOK
            <4>3. QED
                BY <3>6, <4>1, <4>2 DEF IInv, TablesOK
        <3>8. ASSUME NEW e \in 1..lastId
              PROVE  (Complete(e) <=> Complete(e)') /\ (Saved(e) <=> Saved(e)')
            BY <3>3, <3>5, <3>6 DEF Complete, Saved, CopiesOf
        <3>9. Keeps
            <4>1. (lastId + 1)..lastId' = {lastId + 1} /\ lastId <= lastId'
                BY <3>3
            <4>2. \A e \in (lastId + 1)..lastId' : e = lastId + 1
                BY <4>1
            <4>3. \A e \in (lastId + 1)..lastId' : Complete(e)'
                BY <3>2, <3>5, <4>2 DEF Complete
            <4>4. QED
                BY <3>7, <3>8, <4>1, <4>3 DEF Keeps
        <3>10. QED
            BY <1>2, <3>9, Ended DEF FlushEvent
    <2>3. QED
        BY <1>2, <2>1, <2>2 DEF FlushEvent
<1>3. CASE UpdateEvents(r)
    <2>1. events' = [e \in Stored |->
            IF e \in Selected(r)
            THEN [events[e] EXCEPT !.status = request[r].status, !.modified = "today"]
            ELSE events[e]]
        BY <1>3 DEF UpdateEvents, Modify
    <2>2. \A e \in Stored : IsEvent(events'[e]) /\ events'[e].complete = events[e].complete
        <3>1. ASSUME NEW e \in Stored
              PROVE  IsEvent(events'[e]) /\ events'[e].complete = events[e].complete
            <4>1. IsEvent(events[e])
                BY DEF IInv, TablesOK
            <4>2. \/ events'[e] = [events[e] EXCEPT !.status = request[r].status, !.modified = "today"]
                  \/ events'[e] = events[e]
                BY <2>1
            <4>3. QED
                BY <4>1, <4>2 DEF IsEvent
        <3>2. QED
            BY <3>1
    <2>3. Stored' = Stored
        BY <2>1 DEF Stored
    <2>4. QED
        BY <1>3, <2>2, <2>3, Edited, Ended DEF UpdateEvents
<1>4. CASE DeleteCopies(r)
    <2>1. UNCHANGED <<events, lastId>> /\ archive' \subseteq archive /\ discarded \subseteq discarded'
          /\ \A c \in archive \ archive' : c.oid \in discarded'
        BY <1>4 DEF DeleteCopies
    <2>2. QED
        BY <1>4, <2>1, CopiesRemoved, Ended DEF DeleteCopies
<1>5. QED
    BY <1>1, <1>2, <1>3, <1>4

\* Whoever archives reads first what is there: what is not, was saved before.
LEMMA LoadSteps ==
    ASSUME IInv, NEW r \in Requests, LoadEvents(r) \/ LoadAgain(r)
    PROVE  IInv'
<1> DEFINE q == request[r]
           there == Selected(r) \cap Stored
<1>1. Keeps
    BY Untouched DEF LoadEvents, LoadAgain, quiet, tables, history
<1>2. RequestOK(q) /\ IsRequest(q) /\ (q.archiving => Selected(r) = q.ids)
    BY Working
<1>3. PICK s : /\ request' = [request EXCEPT ![r] = s] /\ Same(s, q)
               /\ s.pc = "archive" /\ s.todo = there
    <2> DEFINE l == Read(there)
    <2> HIDE DEF q, there, l
    <2>1. CASE LoadEvents(r)
        <3>1. request' = [request EXCEPT ![r] = WithEvents(q, l, there)]
            BY <2>1 DEF LoadEvents, q, there, l, WithEvents
        <3>2. LET x == WithEvents(q, l, there) IN
              Same(x, q) /\ x.pc = "archive" /\ x.todo = there
            BY <1>2, RequestChanges
        <3>3. QED
            BY <3>1, <3>2, Zenon
    <2>2. CASE LoadAgain(r)
        <3>1. request' = [request EXCEPT ![r] = WithTodo(q, there)]
            BY <2>2 DEF LoadAgain, q, there, WithTodo
        <3>2. LET x == WithTodo(q, there) IN
              Same(x, q) /\ x.pc = "archive" /\ x.todo = there
            BY <1>2, RequestChanges
        <3>3. QED
            BY <3>1, <3>2, Zenon
    <2>3. QED
        BY <2>1, <2>2
<1>4. RequestOK(s)
    <2>1. q.archiving => Safe(q.ids \ there)
        BY <1>2 DEF Safe, Complete
    <2>2. QED
        BY <1>2, <1>3, <2>1 DEF RequestOK, Same
<1>5. RequestOK(s)'
    BY <1>1, <1>4, RequestStays
<1>6. UNCHANGED caretaker
    BY DEF LoadEvents, LoadAgain, quiet
<1>7. QED
    BY <1>1, <1>3, <1>5, <1>6, RequestMoves

LEMMA ArchiveSteps ==
    ASSUME IInv, NEW r \in Requests, ArchiveEvent(r) \/ EventsArchived(r)
    PROVE  IInv'
<1> DEFINE q == request[r]
<1>1. RequestOK(q) /\ IsRequest(q) /\ q.pc = "archive"
    BY Working DEF ArchiveEvent, EventsArchived
<1>2. CASE ArchiveEvent(r)
    <2>1. PICK e \in q.todo :
            /\ Archived(e, q.loaded[e].status, Complete(e))
            /\ request' = [request EXCEPT ![r].todo = @ \ {e}]
        BY <1>2 DEF ArchiveEvent
    <2>2. Complete(e) \in BOOLEAN
        BY DEF Complete, IInv, TablesOK, IsEvent
    <2>3. PICK c : archive' = archive \cup {c} /\ IsCopy(c) /\ c.oid = e /\ c.complete = Complete(e)
        BY <2>1, <2>2, CopyIsOne
    <2>4. UNCHANGED <<events, lastId, discarded, caretaker>>
        BY <1>2 DEF ArchiveEvent, history
    <2>5. Keeps
        BY <2>3, <2>4, Copied
    <2> DEFINE rest == q.todo \ {e}
    <2>s. PICK s : s = LessTodo(q, rest)
        OBVIOUS
    <2>6. request' = [request EXCEPT ![r] = s]
        BY <2>1, <2>s DEF LessTodo
    <2>7. Same(s, q) /\ s.pc = "archive" /\ s.todo = rest
        <3> HIDE DEF rest, q
        <3>1. QED
            BY <1>1, <2>s, RequestChanges
    <2>8. lastId' = lastId
        BY <2>4
    <2>9. ASSUME q.archiving PROVE Safe(s.ids \ s.todo)'
        <3>1. Safe(q.ids \ q.todo)
            BY <1>1, <2>9 DEF RequestOK
        <3>2. \A x : Complete(x)' <=> Complete(x)
            BY <2>4 DEF Complete, Stored
        <3>3. \A x : Saved(x) => Saved(x)'
            BY <2>3, <2>4 DEF Saved, CopiesOf
        <3>4. Complete(e) => Saved(e)'
            BY <2>3 DEF Saved, CopiesOf
        <3>5. ASSUME NEW x \in s.ids \ s.todo PROVE Complete(x) => Saved(x)'
            <4>1. x = e \/ x \in q.ids \ q.todo
                BY <2>7 DEF Same
            <4>2. QED
                BY <3>1, <3>3, <3>4, <4>1 DEF Safe
        <3>6. QED
            BY <3>2, <3>5 DEF Safe
    <2>10. RequestOK(s)'
        BY <1>1, <2>7, <2>8, <2>9 DEF RequestOK, Same
    <2>11. QED
        BY <2>4, <2>5, <2>6, <2>7, <2>10, RequestMoves
<1>3. CASE EventsArchived(r)
    <2>1. Keeps /\ UNCHANGED caretaker
        BY <1>3, Untouched DEF EventsArchived, quiet, tables, history
    <2> DEFINE pc == IF q.op = "sensor" THEN "cascade" ELSE "details"
    <2>s. PICK s : s = AtPc(q, pc)
        OBVIOUS
    <2>2. request' = [request EXCEPT ![r] = s] /\ q.todo = {}
        BY <1>3, <2>s DEF EventsArchived, Goto, AtPc
    <2>3. Same(s, q) /\ s.todo = {}
        <3> HIDE DEF q, pc
        <3>1. QED
            BY <1>1, <2>2, <2>s, RequestChanges
    <2>4. RequestOK(s)
        BY <1>1, <2>2, <2>3 DEF RequestOK, Same
    <2>5. RequestOK(s)'
        BY <2>1, <2>4, RequestStays
    <2>6. QED
        BY <2>1, <2>2, <2>3, <2>5, RequestMoves
<1>4. QED
    BY <1>2, <1>3

\* What is deleted is safe, or was discarded with the same step.
LEMMA DeleteSteps ==
    ASSUME IInv, NEW r \in Requests, DeleteDetails(r) \/ DeleteEvents(r) \/ RemoveSensor(r)
    PROVE  IInv'
<1> DEFINE q == request[r]
<1>1. RequestOK(q) /\ IsRequest(q) /\ (q.archiving => Selected(r) = q.ids)
    BY Working
<1>2. ASSUME q.pc \in {"details", "cascade"}, Discard(r, Selected(r)), UNCHANGED archive
      PROVE  \A e \in Selected(r) : Complete(e) => Saved(e)'
    <2>1. CASE q.archiving
        <3>1. Safe(Selected(r))
            <4>1. q.ids \ q.todo = q.ids
                BY <1>1, <1>2, <2>1 DEF RequestOK
            <4>2. QED
                BY <1>1, <1>2, <2>1, <4>1 DEF RequestOK
        <3>2. \A e : Saved(e) => Saved(e)'
            BY <1>2 DEF Discard, Saved, CopiesOf
        <3>3. QED
            BY <3>1, <3>2 DEF Safe
    <2>2. CASE ~q.archiving
        BY <1>2, <2>2 DEF Discard, Saved
    <2>3. QED
        BY <2>1, <2>2
<1>3. \A e \in Stored : IsEvent(events[e]) /\ e \in 1..lastId
    BY DEF IInv, TablesOK
<1>4. ASSUME NEW S, Delete(S), \A e \in S : Complete(e) => Saved(e)',
             UNCHANGED <<lastId, archive>>, discarded \subseteq discarded'
      PROVE  Keeps
    <2>1. Stored' = Stored \ S /\ \A e \in Stored \ S : events'[e] = events[e]
        BY <1>4 DEF Delete, Restrict, Stored
    <2>2. \A e \in 1..lastId : Complete(e) => Complete(e)' \/ Saved(e)'
        BY <1>4, <2>1 DEF Complete
    <2>3. \A e \in Stored' : IsEvent(events'[e]) /\ (events'[e].complete => events[e].complete)
        BY <1>3, <2>1
    <2>4. QED
        BY <1>4, <2>1, <2>2, <2>3, Lessened
<1>5. CASE DeleteDetails(r)
    <2>1. \A e \in Selected(r) : Complete(e) => Saved(e)'
        BY <1>2, <1>5 DEF DeleteDetails
    <2>2. events' = [e \in Stored |->
            IF e \in Selected(r) THEN [events[e] EXCEPT !.complete = FALSE] ELSE events[e]]
        BY <1>5 DEF DeleteDetails, StripDetails
    <2>3. Stored' = Stored
        BY <2>2 DEF Stored
    <2>4. ASSUME NEW e \in Stored
          PROVE  IsEvent(events'[e]) /\ (events'[e].complete => events[e].complete)
        BY <1>3, <2>2 DEF IsEvent
    <2>5. ASSUME NEW e \in 1..lastId, Complete(e) PROVE Complete(e)' \/ Saved(e)'
        <3>1. CASE e \in Selected(r)
            BY <2>1, <2>5, <3>1
        <3>2. CASE e \notin Selected(r)
            BY <2>2, <2>3, <2>5, <3>2 DEF Complete
        <3>3. QED
            BY <3>1, <3>2
    <2>6. Keeps
        BY <1>5, <2>3, <2>4, <2>5, Lessened DEF DeleteDetails, Discard
    <2>s. PICK s : s = AtPc(q, "rows")
        OBVIOUS
    <2>7. Same(s, q) /\ s.pc = "rows"
        <3> HIDE DEF q
        <3>1. QED
            BY <1>1, <2>s, RequestChanges
    <2>8. RequestOK(s)
        BY <1>1, <2>7 DEF RequestOK, Same
    <2>9. RequestOK(s)'
        BY <2>6, <2>8, RequestStays
    <2>10. request' = [request EXCEPT ![r] = s] /\ UNCHANGED caretaker
        BY <1>5, <2>s DEF DeleteDetails, Goto, AtPc
    <2>11. QED
        BY <2>6, <2>9, <2>10, RequestMoves
<1>6. CASE DeleteEvents(r)
    <2>1. Keeps /\ UNCHANGED caretaker
        BY <1>4, <1>6 DEF DeleteEvents, history
    <2>2. CASE Ends(r)
        BY <2>1, <2>2, Ended
    <2>3. CASE Goto(r, "copies")
        <3>s. PICK s : s = AtPc(q, "copies")
            OBVIOUS
        <3>1. Same(s, q) /\ s.pc = "copies"
            <4> HIDE DEF q
            <4>1. QED
                BY <1>1, <3>s, RequestChanges
        <3>2. RequestOK(s)
            BY <1>1, <3>1 DEF RequestOK, Same
        <3>3. RequestOK(s)'
            BY <2>1, <3>2, RequestStays
        <3>4. QED
            <4>1. request' = [request EXCEPT ![r] = s]
                BY <2>3, <3>s DEF Goto, AtPc
            <4>2. QED
                BY <2>1, <3>3, <4>1, RequestMoves
    <2>4. QED
        BY <1>6, <2>2, <2>3 DEF DeleteEvents
<1>7. CASE RemoveSensor(r)
    <2>1. \A e \in Selected(r) : Complete(e) => Saved(e)'
        BY <1>2, <1>7 DEF RemoveSensor
    <2>2. Keeps
        BY <1>4, <1>7, <2>1 DEF RemoveSensor, Discard
    <2>3. QED
        BY <1>7, <2>2, Ended DEF RemoveSensor
<1>8. QED
    BY <1>5, <1>6, <1>7

LEMMA RequestSteps ==
    ASSUME IInv, NEW r \in Requests, Begins(r) \/ Works(r) \/ RequestFails(r)
    PROVE  IInv'
BY BeginSteps, SimpleWorks, LoadSteps, ArchiveSteps, DeleteSteps DEF Works

-----------------------------------------------------------------------------
(* The caretaker *)

LEMMA NothingStored == DOMAIN <<>> = {}
OBVIOUS

LEMMA AsleepIsFine == CaretakerOK(Asleep)
BY NothingStored DEF CaretakerOK, IsCaretaker, Asleep

LEMMA Sleeps ==
    ASSUME IInv, Keeps, caretaker' = Asleep, UNCHANGED request
    PROVE  IInv'
<1>1. CaretakerOK(Asleep)'
    BY AsleepIsFine, CaretakerStays
<1>2. QED
    BY <1>1, CaretakerMoves

\* What a step makes of the caretaker.
Lists(list, snapshot) == [Asleep EXCEPT !.pc = "listed", !.list = list, !.snapshot = snapshot]
Reads(c, e, complete) == [c EXCEPT !.pc = "read", !.current = {e}, !.complete = complete]
Moves(c, list) == [c EXCEPT !.pc = "moving", !.current = {}, !.list = list]

LEMMA CaretakerChanges ==
    ASSUME NEW c, IsCaretaker(c), NEW e, NEW complete, NEW list, NEW snapshot
    PROVE  /\ LET x == Lists(list, snapshot) IN
                IsCaretaker(x) /\ x.pc = "listed" /\ x.list = list /\ x.snapshot = snapshot
                /\ x.current = {}
           /\ LET x == Reads(c, e, complete) IN
                IsCaretaker(x) /\ x.pc = "read" /\ x.list = c.list /\ x.current = {e}
                /\ x.complete = complete
           /\ LET x == Moves(c, list) IN
                IsCaretaker(x) /\ x.pc = "moving" /\ x.list = list /\ x.current = {}
BY DEF IsCaretaker, Lists, Reads, Moves, Asleep

LEMMA CaretakerSteps ==
    ASSUME IInv, Caretaker \/ CaretakerFails
    PROVE  IInv'
<1>1. CASE CaretakerFails
    BY <1>1, Untouched, Sleeps DEF CaretakerFails, tables, history
<1>2. CASE CaretakerSleeps
    BY <1>2, Untouched, Sleeps DEF CaretakerSleeps, caretakerUnchanged
<1>3. CASE Purge
    <2>1. Keeps /\ UNCHANGED request
        BY <1>3, CopiesRemoved DEF Purge, caretakerUnchanged
    <2>2. PICK c : c = [Asleep EXCEPT !.pc = "purged"]
        OBVIOUS
    <2>3. CaretakerOK(c)
        BY <2>2, NothingStored DEF CaretakerOK, IsCaretaker, Asleep
    <2>4. CaretakerOK(c)'
        BY <2>1, <2>3, CaretakerStays
    <2>5. QED
        BY <1>3, <2>1, <2>2, <2>4, CaretakerMoves DEF Purge
<1>4. CASE List
    <2>1. Keeps /\ UNCHANGED request
        BY <1>4, Untouched DEF List, caretakerUnchanged
    <2> DEFINE S == {e \in Stored : events[e].status = "closed" /\ events[e].modified = "past"}
               list == [e \in S |-> events[e].status]
               snapshot == {e \in S : Complete(e)}
    <2>2. PICK c : c = Lists(list, snapshot)
        OBVIOUS
    <2>3. caretaker' = c
        BY <1>4, <2>2 DEF List, Lists
    <2>4. IsCaretaker(c) /\ c.pc = "listed" /\ c.list = list /\ c.snapshot = snapshot
          /\ c.current = {}
        <3> HIDE DEF list, snapshot
        <3>1. QED
            BY <2>2, CaretakerChanges DEF IInv, CaretakerOK
    <2>5. CaretakerOK(c)
        BY <2>4 DEF CaretakerOK, IInv, TablesOK
    <2>6. CaretakerOK(c)'
        BY <2>1, <2>5, CaretakerStays
    <2>7. QED
        BY <2>1, <2>3, <2>6, CaretakerMoves
<1>5. CASE ReadDetails
    <2>1. Keeps /\ UNCHANGED request
        BY <1>5, Untouched DEF ReadDetails, caretakerUnchanged
    <2> DEFINE complete(e) == IF caretaker.pc = "listed" THEN e \in caretaker.snapshot ELSE Complete(e)
    <2>2. PICK e \in Listed : caretaker' = Reads(caretaker, e, complete(e))
        BY <1>5 DEF ReadDetails, Reads
    <2>3. PICK b : b = complete(e)
        OBVIOUS
    <2>4. PICK c : c = Reads(caretaker, e, b)
        OBVIOUS
    <2>5. IsCaretaker(c) /\ c.pc = "read" /\ c.list = caretaker.list /\ c.current = {e}
          /\ c.complete = b
        <3> HIDE DEF complete
        <3>1. QED
            BY <2>4, CaretakerChanges DEF IInv, CaretakerOK
    <2>6. b \in BOOLEAN
        <3>1. Complete(e) \in BOOLEAN
            BY DEF Complete
        <3>2. (e \in caretaker.snapshot) \in BOOLEAN
            OBVIOUS
        <3>3. QED
            BY <2>3, <3>1, <3>2, Zenon
    <2>7. Complete(e) => b
        BY <2>3 DEF IInv, CaretakerOK, Listed
    <2>8. CaretakerOK(c)
        BY <2>5, <2>6, <2>7 DEF CaretakerOK, IInv, Listed
    <2>9. CaretakerOK(c)'
        BY <2>1, <2>8, CaretakerStays
    <2>10. caretaker' = c
        BY <2>2, <2>3, <2>4
    <2>11. QED
        BY <2>1, <2>9, <2>10, CaretakerMoves
<1>6. CASE MoveEvent
    <2> DEFINE list(e) == Restrict(caretaker.list, Listed \ {e})
    <2>1. PICK e \in caretaker.current :
            /\ Archived(e, caretaker.list[e], caretaker.complete)
            /\ Delete({e})
            /\ caretaker' = Moves(caretaker, list(e))
        BY <1>6 DEF MoveEvent, Moves
    <2>2. caretaker.complete \in BOOLEAN /\ (Complete(e) => caretaker.complete)
        BY <1>6, <2>1 DEF MoveEvent, IInv, CaretakerOK
    <2>3. PICK x : archive' = archive \cup {x} /\ IsCopy(x) /\ x.oid = e
                   /\ x.complete = caretaker.complete
        BY <2>1, <2>2, CopyIsOne
    <2>4. UNCHANGED <<lastId, discarded, request>>
        BY <1>6 DEF MoveEvent, caretakerUnchanged
    <2>5. Stored' = Stored \ {e} /\ \A y \in Stored \ {e} : events'[y] = events[y]
        BY <2>1 DEF Delete, Restrict, Stored
    <2>6. /\ \A y : Complete(y)' => Complete(y)
          /\ \A y : Complete(y) => Complete(y)' \/ y = e
        BY <2>5 DEF Complete
    <2>7. \A y : Saved(y) => Saved(y)'
        BY <2>3, <2>4 DEF Saved, CopiesOf
    <2>8. Complete(e) => Saved(e)'
        BY <2>2, <2>3 DEF Saved, CopiesOf
    <2>9. TablesOK'
        BY <2>3, <2>4, <2>5 DEF IInv, TablesOK
    <2>10. Keeps
        BY <2>4, <2>6, <2>7, <2>8, <2>9 DEF Keeps, IInv, TablesOK
    <2>11. PICK l : l = list(e)
        OBVIOUS
    <2>12. DOMAIN l \subseteq DOMAIN caretaker.list
        BY <2>11 DEF Restrict, Listed
    <2>13. PICK c : c = Moves(caretaker, l)
        OBVIOUS
    <2>14. IsCaretaker(c) /\ c.pc = "moving" /\ c.list = l /\ c.current = {}
        BY <2>13, CaretakerChanges DEF IInv, CaretakerOK
    <2>15. CaretakerOK(c)
        BY <2>12, <2>14 DEF CaretakerOK, IInv
    <2>16. CaretakerOK(c)'
        BY <2>10, <2>15, CaretakerStays
    <2>17. QED
        BY <2>1, <2>4, <2>10, <2>11, <2>13, <2>16, CaretakerMoves
<1>7. QED
    BY <1>1, <1>2, <1>3, <1>4, <1>5, <1>6 DEF Caretaker

-----------------------------------------------------------------------------
(* The others *)

\* A step that leaves requests and the caretaker alone.
LEMMA OthersMove ==
    ASSUME IInv, Keeps, UNCHANGED <<request, caretaker>>
    PROVE  IInv'
<1>1. PICK c : c = caretaker
    OBVIOUS
<1>2. CaretakerOK(c)'
    BY <1>1, CaretakerStays DEF IInv
<1>3. QED
    BY <1>1, <1>2, CaretakerMoves

LEMMA Ages ==
    ASSUME IInv, NewDay
    PROVE  Keeps
<1>1. events' = [e \in Stored |->
         IF events[e].modified = "today" THEN [events[e] EXCEPT !.modified = "past"] ELSE events[e]]
      /\ archive' = {[c EXCEPT !.past = TRUE] : c \in archive}
      /\ UNCHANGED <<lastId, discarded>>
    BY DEF NewDay, caretakerUnchanged
<1>2. Stored' = Stored
    BY <1>1 DEF Stored
<1>3. ASSUME NEW e \in Stored PROVE IsEvent(events'[e]) /\ events'[e].complete = events[e].complete
    <2>1. IsEvent(events[e])
        BY DEF IInv, TablesOK
    <2>2. QED
        BY <1>1, <2>1 DEF IsEvent
<1>4. ASSUME NEW c \in archive
      PROVE  LET d == [c EXCEPT !.past = TRUE] IN
             IsCopy(d) /\ d.oid = c.oid /\ d.complete = c.complete
    BY DEF IInv, TablesOK, IsCopy
<1>5. \A d \in archive' : IsCopy(d)
    BY <1>1, <1>4
<1>6. ASSUME NEW e, Saved(e) PROVE Saved(e)'
    <2>1. CASE e \in discarded
        BY <1>1, <2>1 DEF Saved
    <2>2. CASE e \notin discarded
        <3>1. PICK c \in archive : c.oid = e /\ c.complete
            BY <1>6, <2>2 DEF Saved, CopiesOf
        <3>2. PICK d : d = [c EXCEPT !.past = TRUE]
            OBVIOUS
        <3>3. d \in archive' /\ d.oid = e /\ d.complete
            BY <1>1, <1>4, <3>1, <3>2
        <3>4. QED
            BY <3>3 DEF Saved, CopiesOf
    <2>3. QED
        BY <2>1, <2>2
<1>7. \A e : Complete(e) <=> Complete(e)'
    BY <1>2, <1>3 DEF Complete
<1>8. TablesOK'
    BY <1>1, <1>2, <1>3, <1>5 DEF IInv, TablesOK
<1>9. QED
    BY <1>1, <1>6, <1>7, <1>8 DEF Keeps, IInv, TablesOK

-----------------------------------------------------------------------------
LEMMA InvInit == Init => IInv
<1> SUFFICES ASSUME Init PROVE IInv
    OBVIOUS
<1>1. Stored = {} /\ lastId = 0 /\ archive = {}
    BY NothingStored DEF Init, Stored
<1>2. RequestsOK
    BY IdleIsOne DEF Init, RequestsOK, RequestOK
<1>3. CaretakerOK(caretaker)
    BY AsleepIsFine DEF Init
<1>4. QED
    BY <1>1, <1>2, <1>3 DEF IInv, TablesOK, NothingVanishes

LEMMA InvStep == IInv /\ [Next]_vars => IInv'
<1> SUFFICES ASSUME IInv, [Next]_vars PROVE IInv'
    OBVIOUS
<1>1. CASE \E r \in Requests : Begins(r) \/ Works(r) \/ RequestFails(r)
    BY <1>1, RequestSteps
<1>2. CASE UpdateFilter
    BY <1>2, Untouched, OthersMove DEF UpdateFilter, history
<1>3. CASE Caretaker \/ CaretakerFails
    BY <1>3, CaretakerSteps
<1>4. CASE NewDay
    BY <1>4, Ages, OthersMove DEF NewDay, caretakerUnchanged
<1>5. CASE UNCHANGED vars
    BY <1>5, Untouched, OthersMove DEF vars, tables, history
<1>6. QED
    BY <1>1, <1>2, <1>3, <1>4, <1>5 DEF Next

\* However many requests archive, edit and delete the same events at once, and
\* whatever ends early: what an event came with is in the table or in the archive
\* until somebody removes it for good.
THEOREM NothingIsLost == Spec => []NothingVanishes
<1>1. IInv => NothingVanishes
    BY DEF IInv
<1>2. QED
    BY <1>1, InvInit, InvStep, PTL DEF Spec

-----------------------------------------------------------------------------
(* The counter of the filter *)

\* Requests that will count an event have read the counter; while no two of them ever
\* did so at once, one at most is about to, and it knows what the counter shows.
CountInv ==
    /\ DOMAIN filter = {"enabled", "count"} /\ filter.count \in Nat /\ suppressed \in Nat
    /\ filter.count <= suppressed
    /\ \A r \in Requests : request[r].matched =>
         request[r].pc = "flush" /\ request[r].count \in Nat /\ request[r].count <= suppressed
    /\ ~overlapped =>
         /\ filter.count = suppressed
         /\ \A r \in Requests : request[r].matched =>
              /\ request[r].count = filter.count
              /\ \A q \in Requests : request[q].matched => q = r

\* A step after which nobody is about to count who was not before.
Uncounted ==
    /\ UNCHANGED <<filter, suppressed>> /\ (overlapped => overlapped')
    /\ \A r \in Requests : request'[r].matched =>
         /\ request[r].matched /\ request'[r].pc = request[r].pc
         /\ request'[r].count = request[r].count

LEMMA CountStays ==
    ASSUME CountInv, Uncounted
    PROVE  CountInv'
BY DEF CountInv, Uncounted

LEMMA OneUncounted ==
    ASSUME IInv, NEW r \in Requests, NEW q, request' = [request EXCEPT ![r] = q], ~q.matched,
           UNCHANGED <<filter, suppressed>>, overlapped => overlapped'
    PROVE  Uncounted
<1>1. request'[r] = q /\ \A x \in Requests \ {r} : request'[x] = request[x]
    BY DEF IInv, RequestsOK
<1>2. QED
    BY <1>1 DEF Uncounted

LEMMA BeginsUncounted ==
    ASSUME IInv, NEW r \in Requests, NEW q, Begin(r, q), ~q.matched
    PROVE  Uncounted
<1>1. request' = [request EXCEPT ![r] = q] /\ UNCHANGED <<filter, suppressed>>
    BY DEF Begin, tables
<1>2. overlapped => overlapped'
    BY Zenon DEF Begin
<1>3. QED
    BY <1>1, <1>2, OneUncounted

LEMMA CreateCounts ==
    ASSUME IInv, CountInv, NEW r \in Requests, CreateEvent(r)
    PROVE  CountInv'
<1>1. PICK x \in sensors, m \in BOOLEAN :
        Begin(r, [Idle EXCEPT !.pc = "flush", !.op = "create", !.sensor = {x},
                    !.matched = m /\ filter.enabled, !.count = filter.count])
    BY DEF CreateEvent
<1> DEFINE b == m /\ filter.enabled
<1>2. PICK q : q = [Idle EXCEPT !.pc = "flush", !.op = "create", !.sensor = {x},
                      !.matched = b, !.count = filter.count]
    OBVIOUS
<1>3. q.pc = "flush" /\ q.matched = b /\ q.count = filter.count
    <2> HIDE DEF b
    <2>1. QED
        BY <1>2 DEF Idle
<1>4. Begin(r, q)
    BY <1>1, <1>2
<1>5. /\ request'[r] = q /\ \A x_1 \in Requests \ {r} : request'[x_1] = request[x_1]
      /\ UNCHANGED <<filter, suppressed>>
    BY <1>4 DEF Begin, tables, IInv, RequestsOK
<1>6. /\ overlapped => overlapped'
      /\ q.matched /\ (\E y \in Requests \ {r} : request[y].matched) => overlapped'
    BY <1>4, Zenon DEF Begin
<1>7. QED
    BY <1>3, <1>5, <1>6 DEF CountInv

LEMMA FlushCounts ==
    ASSUME IInv, CountInv, NEW r \in Requests, FlushEvent(r)
    PROVE  CountInv'
<1>1. /\ request' = [request EXCEPT ![r] = Idle] /\ ~Idle.matched /\ UNCHANGED overlapped
    BY DEF FlushEvent, Ends, Idle
<1>2. CASE ~request[r].matched
    <2>1. UNCHANGED <<filter, suppressed>>
        BY <1>2 DEF FlushEvent, Store
    <2>2. QED
        BY <1>1, <2>1, OneUncounted, CountStays
<1>3. CASE request[r].matched
    <2>1. filter' = [filter EXCEPT !.count = request[r].count + 1] /\ suppressed' = suppressed + 1
        BY <1>3 DEF FlushEvent, Suppress
    <2>2. DOMAIN filter' = {"enabled", "count"} /\ filter'.count = request[r].count + 1
        BY <2>1 DEF CountInv
    <2>3. \A x \in Requests : request'[x].matched => x # r /\ request'[x] = request[x]
        BY <1>1 DEF IInv, RequestsOK
    <2>4. request[r].count \in Nat /\ request[r].count <= suppressed /\ suppressed \in Nat
        BY <1>3 DEF CountInv
    <2>5. ~overlapped => /\ request[r].count = suppressed
                         /\ \A x \in Requests : request[x].matched => x = r
        BY <1>3 DEF CountInv
    <2>6. filter'.count \in Nat /\ suppressed' \in Nat /\ filter'.count <= suppressed'
          /\ (~overlapped' => filter'.count = suppressed')
        BY <1>1, <2>1, <2>2, <2>4, <2>5
    <2>7. \A x \in Requests : request'[x].matched =>
            request'[x].pc = "flush" /\ request'[x].count \in Nat /\ request'[x].count <= suppressed'
        BY <2>1, <2>3, <2>4 DEF CountInv
    <2>8. ~overlapped' => \A x \in Requests : ~request'[x].matched
        BY <1>1, <2>3, <2>5
    <2>9. QED
        BY <2>2, <2>6, <2>7, <2>8 DEF CountInv
<1>4. QED
    BY <1>2, <1>3

LEMMA OtherBegins ==
    ASSUME IInv, NEW r \in Requests, Begins(r), ~CreateEvent(r)
    PROVE  Uncounted
<1>1. CASE SelectToUpdate(r)
    <2>1. PICK S, t :
            Begin(r, [Idle EXCEPT !.pc = "update", !.op = "update", !.ids = S, !.status = t])
        BY <1>1 DEF SelectToUpdate
    <2>2. PICK q : q = [Idle EXCEPT !.pc = "update", !.op = "update", !.ids = S, !.status = t]
        OBVIOUS
    <2>3. ~q.matched
        BY <2>2 DEF Idle
    <2>4. Begin(r, q)
        BY <2>1, <2>2
    <2>5. QED
        BY <2>3, <2>4, BeginsUncounted
<1>2. CASE SelectToDelete(r)
    <2>1. PICK S, a :
            Begin(r, [Idle EXCEPT !.pc = IF a THEN "load" ELSE "details", !.op = "delete",
                        !.archiving = a, !.ids = S])
        BY <1>2 DEF SelectToDelete
    <2>2. PICK q : q = [Idle EXCEPT !.pc = IF a THEN "load" ELSE "details", !.op = "delete",
                        !.archiving = a, !.ids = S]
        OBVIOUS
    <2>3. ~q.matched
        BY <2>2 DEF Idle
    <2>4. Begin(r, q)
        BY <2>1, <2>2
    <2>5. QED
        BY <2>3, <2>4, BeginsUncounted
<1>3. CASE SelectSensor(r)
    <2>1. PICK x, a, S, l :
            Begin(r, [Idle EXCEPT !.pc = IF a THEN "again" ELSE "cascade", !.op = "sensor",
                        !.archiving = a, !.sensor = {x}, !.ids = S, !.loaded = l])
        BY <1>3 DEF SelectSensor
    <2>2. PICK q : q = [Idle EXCEPT !.pc = IF a THEN "again" ELSE "cascade", !.op = "sensor",
                        !.archiving = a, !.sensor = {x}, !.ids = S, !.loaded = l]
        OBVIOUS
    <2>3. ~q.matched
        BY <2>2 DEF Idle
    <2>4. Begin(r, q)
        BY <2>1, <2>2
    <2>5. QED
        BY <2>3, <2>4, BeginsUncounted
<1>4. CASE SelectCopies(r)
    <2>1. PICK S :
            Begin(r, [Idle EXCEPT !.pc = "copies", !.op = "copies", !.copies = S])
        BY <1>4 DEF SelectCopies
    <2>2. PICK q : q = [Idle EXCEPT !.pc = "copies", !.op = "copies", !.copies = S]
        OBVIOUS
    <2>3. ~q.matched
        BY <2>2 DEF Idle
    <2>4. Begin(r, q)
        BY <2>1, <2>2
    <2>5. QED
        BY <2>3, <2>4, BeginsUncounted
<1>5. CASE RemoveAll(r)
    <2>1. PICK S :
            Begin(r, [Idle EXCEPT !.pc = "details", !.op = "all", !.ids = S])
        BY <1>5 DEF RemoveAll
    <2>2. PICK q : q = [Idle EXCEPT !.pc = "details", !.op = "all", !.ids = S]
        OBVIOUS
    <2>3. ~q.matched
        BY <2>2 DEF Idle
    <2>4. Begin(r, q)
        BY <2>1, <2>2
    <2>5. QED
        BY <2>3, <2>4, BeginsUncounted
<1>6. QED
    BY <1>1, <1>2, <1>3, <1>4, <1>5 DEF Begins

\* What a request does when it is not about to count leaves it so.
LEMMA OtherWorks ==
    ASSUME IInv, CountInv, NEW r \in Requests, Works(r) \/ RequestFails(r), ~FlushEvent(r)
    PROVE  Uncounted
<1> DEFINE q == request[r]
<1>1. IsRequest(q)
    BY Working
<1>2. UNCHANGED <<filter, suppressed, overlapped>>
    BY DEF Works, RequestFails, Fails, FlushRefused, UpdateEvents, LoadEvents, ArchiveEvent,
           ArchiveRefused, EventsArchived, DeleteDetails, DeleteEvents, DeleteRefused, LoadAgain,
           RemoveSensor, RemovalRefused, DeleteCopies, tables, history, quiet
<1>3. CASE Ends(r)
    <2>1. ~Idle.matched
        BY DEF Idle
    <2>2. QED
        BY <1>2, <1>3, <2>1, OneUncounted DEF Ends
<1>4. CASE ~Ends(r)
    <2>1. \/ LoadEvents(r) \/ ArchiveEvent(r) \/ EventsArchived(r) \/ DeleteDetails(r)
          \/ DeleteEvents(r) \/ LoadAgain(r)
        BY <1>4 DEF Works, RequestFails, Fails, FlushRefused, UpdateEvents, ArchiveRefused,
                    DeleteRefused, RemoveSensor, RemovalRefused, DeleteCopies
    <2>2. q.pc # "flush"
        BY <2>1 DEF LoadEvents, ArchiveEvent, EventsArchived, DeleteDetails, DeleteEvents, LoadAgain
    <2>3. ~q.matched
        BY <2>2 DEF CountInv
    <2>4. PICK s : request' = [request EXCEPT ![r] = s] /\ s.matched = q.matched
        <3>1. CASE LoadEvents(r)
            <4>1. PICK l, t : request' = [request EXCEPT ![r] = WithEvents(q, l, t)]
                BY <3>1 DEF LoadEvents, WithEvents
            <4>2. WithEvents(q, l, t).matched = q.matched
                BY <1>1, Unmatched
            <4>3. QED
                BY <4>1, <4>2, Zenon
        <3>2. CASE LoadAgain(r)
            <4>1. PICK t : request' = [request EXCEPT ![r] = WithTodo(q, t)]
                BY <3>2 DEF LoadAgain, WithTodo
            <4>2. QED
                BY ZenonT(60), <1>1, <4>1, Unmatched
        <3>3. CASE ArchiveEvent(r)
            <4>1. PICK e : request' = [request EXCEPT ![r] = LessTodo(q, q.todo \ {e})]
                BY <3>3 DEF ArchiveEvent, LessTodo
            <4>2. QED
                BY ZenonT(60), <1>1, <4>1, Unmatched
        <3>4. CASE EventsArchived(r) \/ DeleteDetails(r) \/ DeleteEvents(r)
            <4>1. PICK pc : request' = [request EXCEPT ![r] = AtPc(q, pc)]
                BY <1>4, <3>4 DEF EventsArchived, DeleteDetails, DeleteEvents, Goto, AtPc
            <4>2. QED
                BY ZenonT(60), <1>1, <4>1, Unmatched
        <3>5. QED
            BY <2>1, <3>1, <3>2, <3>3, <3>4
    <2>5. QED
        BY <1>2, <2>3, <2>4, OneUncounted
<1>5. QED
    BY <1>3, <1>4

LEMMA CountInit == Init => CountInv
BY DEF Init, CountInv, Idle

LEMMA CountStep == IInv /\ CountInv /\ [Next]_vars => CountInv'
<1> SUFFICES ASSUME IInv, CountInv, [Next]_vars PROVE CountInv'
    OBVIOUS
<1>1. ASSUME NEW r \in Requests, Begins(r) \/ Works(r) \/ RequestFails(r) PROVE CountInv'
    BY <1>1, CreateCounts, FlushCounts, OtherBegins, OtherWorks, CountStays
<1>2. CASE UpdateFilter
    <2>1. /\ filter' = [filter EXCEPT !.enabled = ~@]
          /\ UNCHANGED <<request, suppressed, overlapped>>
        BY <1>2 DEF UpdateFilter, history
    <2>2. DOMAIN filter' = {"enabled", "count"} /\ filter'.count = filter.count
        BY <2>1 DEF CountInv
    <2>3. QED
        BY <2>1, <2>2 DEF CountInv
<1>3. CASE Caretaker \/ CaretakerFails \/ NewDay \/ UNCHANGED vars
    <2>1. UNCHANGED <<filter, request, suppressed, overlapped>>
        BY <1>3 DEF Caretaker, Purge, List, ReadDetails, MoveEvent, CaretakerSleeps, CaretakerFails,
                    NewDay, caretakerUnchanged, tables, history, vars
    <2>2. QED
        BY <2>1 DEF CountInv
<1>4. QED
    BY <1>1, <1>2, <1>3 DEF Next

\* The counter of a filter never shows more than it suppressed, nor less, unless two
\* requests counted up at once.
THEOREM CounterIsRight == Spec => []CounterCounts
<1>1. CountInv => CounterCounts
    BY DEF CountInv, CounterCounts
<1>2. QED
    BY <1>1, InvInit, InvStep, CountInit, CountStep, PTL DEF Spec

-----------------------------------------------------------------------------
(* Each event in one place *)

\* The request has archived what it had selected, and is about to remove it.
Halfway(q, e) ==
    /\ q.archiving /\ q.pc \in {"archive", "details", "rows", "cascade"}
    /\ e \in q.ids \ q.todo

\* What fits together in a request.
Shape(q) ==
    /\ q.op \in {"none", "create", "copies", "update", "delete", "sensor", "all"}
    /\ q.pc = "idle" => q.op = "none"
    /\ q.pc = "update" => q.op = "update"
    /\ q.op \in {"none", "create", "copies"} => q.ids = {}
    /\ q.pc \in {"load", "again", "archive"} => q.archiving
    /\ q.archiving => q.op \in {"delete", "sensor"}
    /\ q.todo \subseteq q.ids

\* What is to be archived has no copy yet, and was read with the status it still has.
Ready(q, e) ==
    /\ q.op = "update" => CopiesOf(e) = {}
    /\ q.pc = "again" \/ (q.pc = "archive" /\ e \in q.todo) =>
         e \in DOMAIN q.loaded /\ q.loaded[e].status = latest[e]
    /\ q.pc = "archive" /\ e \in q.todo => CopiesOf(e) = {}

Holds(q, e) == e \in IF q.op = "all" THEN Stored ELSE q.ids

\* Who works on an event does so alone, unless all edit it or all remove everything.
Alone(e) ==
    /\ \A r, x \in Requests : r # x /\ Holds(request[r], e) /\ Holds(request[x], e) =>
         request[r].op = request[x].op /\ request[r].op \in {"update", "all"}
    /\ e \in Listed => \A r \in Requests : ~Holds(request[r], e)

Fits(e) == /\ \A c, d \in CopiesOf(e) : c = d
           /\ \A c \in CopiesOf(e) : c.status = latest[e]

Placed(e) == e \in Stored => CopiesOf(e) = {} \/ \E r \in Requests : Halfway(request[r], e)

Prepared(e) ==
    /\ \A r \in Requests : Holds(request[r], e) => Ready(request[r], e)
    /\ e \in Listed => caretaker.list[e] = latest[e] /\ CopiesOf(e) = {}

PlaceOK(e) == Alone(e) /\ Fits(e) /\ Placed(e) /\ Prepared(e)

\* The status in the table is the one given last; no copy comes before its event.
Latest ==
    /\ lastId <= MaxEvents
    /\ latest = [e \in Ids |-> latest[e]]
    /\ \A e \in Stored : events[e].status = latest[e]
    /\ \A e \in Ids : e > lastId => latest[e] = "open"
    /\ \A c \in archive : c.oid \in 1..lastId

Shapes == caretaker.current \subseteq Listed /\ \A r \in Requests : Shape(request[r])

PlaceInv == Latest /\ Shapes /\ \A e \in (1..lastId) \ raced : PlaceOK(e)

\* A selection of an event that nobody else has.
LEMMA SelectedHolds == \A r \in Requests : \A e : e \in Selected(r) <=> Holds(request[r], e)
BY DEF Selected, Holds

LEMMA HalfwayHolds ==
    ASSUME NEW q, NEW e, Shape(q), Halfway(q, e)
    PROVE  Holds(q, e) /\ q.op \in {"delete", "sensor"} /\ e \in q.ids
BY DEF Shape, Halfway, Holds

LEMMA ReadyStays ==
    ASSUME NEW q, NEW e, Ready(q, e), CopiesOf(e) = {} => CopiesOf(e)' = {}, latest'[e] = latest[e]
    PROVE  Ready(q, e)'
BY DEF Ready

\* An event keeps its place in a step of a request that takes no new event.
LEMMA PlaceStays ==
    ASSUME IInv, NEW r \in Requests, NEW q, request' = [request EXCEPT ![r] = q],
           UNCHANGED caretaker, NEW e, PlaceOK(e),
           CopiesOf(e)' \subseteq CopiesOf(e), e \in Stored' => e \in Stored, latest'[e] = latest[e],
           Holds(q, e)' => Holds(request[r], e) /\ q.op = request[r].op /\ Ready(q, e)',
           Halfway(request[r], e) /\ e \in Stored' => Halfway(q, e)
    PROVE  PlaceOK(e)'
<1>1. request'[r] = q /\ \A x \in Requests \ {r} : request'[x] = request[x]
    BY DEF IInv, RequestsOK
<1>2. ASSUME NEW x \in Requests, Holds(request[x], e)'
      PROVE  Holds(request[x], e) /\ request'[x].op = request[x].op /\ Ready(request[x], e)'
    <2>1. CASE x = r
        BY <1>1, <1>2, <2>1 DEF Holds, Ready
    <2>2. CASE x # r
        <3>1. PICK y : y = request[x]
            OBVIOUS
        <3>2. request'[x] = y
            BY <1>1, <2>2, <3>1
        <3>3. Holds(y, e)
            BY <1>2, <3>2 DEF Holds
        <3>4. Ready(y, e)
            BY <3>1, <3>3 DEF PlaceOK, Prepared
        <3>5. Ready(y, e)'
            <4>1. CopiesOf(e) = {} => CopiesOf(e)' = {}
                OBVIOUS
            <4>2. QED
                BY <3>4, <4>1, ReadyStays
        <3>6. QED
            BY <3>1, <3>2, <3>3, <3>5 DEF Ready
    <2>3. QED
        BY <2>1, <2>2
<1>3. Alone(e)'
    BY <1>2 DEF PlaceOK, Alone, Listed
<1>4. Fits(e)'
    BY DEF PlaceOK, Fits
<1>5. Placed(e)'
    <2>1. SUFFICES ASSUME e \in Stored', CopiesOf(e)' # {}
                   PROVE  \E x \in Requests : Halfway(request'[x], e)
        BY DEF Placed, Halfway
    <2>2. PICK x \in Requests : Halfway(request[x], e)
        BY <2>1 DEF PlaceOK, Placed
    <2>3. Halfway(request'[x], e)
        BY <1>1, <2>1, <2>2 DEF Halfway
    <2>4. QED
        BY <2>3
<1>6. Prepared(e)'
    BY <1>2 DEF PlaceOK, Prepared, Listed
<1>7. QED
    BY <1>3, <1>4, <1>5, <1>6 DEF PlaceOK

LEMMA ShapesStay ==
    ASSUME IInv, Shapes, NEW r \in Requests, NEW q, request' = [request EXCEPT ![r] = q],
           Shape(q), UNCHANGED caretaker
    PROVE  Shapes'
<1>1. request'[r] = q /\ \A x \in Requests \ {r} : request'[x] = request[x]
    BY DEF IInv, RequestsOK
<1>2. QED
    BY <1>1 DEF Shapes, Shape, Listed

\* The same for all events.
LEMMA WorkPlaces ==
    ASSUME IInv, PlaceInv, Latest', lastId' = lastId, raced \subseteq raced',
           NEW r \in Requests, NEW q, request' = [request EXCEPT ![r] = q], Shape(q),
           UNCHANGED caretaker,
           \A e \in (1..lastId) \ raced' :
              /\ CopiesOf(e)' \subseteq CopiesOf(e) /\ latest'[e] = latest[e]
              /\ e \in Stored' => e \in Stored
              /\ Holds(q, e)' => Holds(request[r], e) /\ q.op = request[r].op /\ Ready(q, e)'
              /\ Halfway(request[r], e) /\ e \in Stored' => Halfway(q, e)
    PROVE  PlaceInv'
<1>1. Shapes'
    BY ShapesStay DEF PlaceInv
<1>2. ASSUME NEW e \in (1..lastId) \ raced' PROVE PlaceOK(e)'
    <2>1. PlaceOK(e)
        BY DEF PlaceInv
    <2>2. /\ CopiesOf(e)' \subseteq CopiesOf(e) /\ latest'[e] = latest[e]
          /\ e \in Stored' => e \in Stored
          /\ Holds(q, e)' => Holds(request[r], e) /\ q.op = request[r].op /\ Ready(q, e)'
          /\ Halfway(request[r], e) /\ e \in Stored' => Halfway(q, e)
        BY <1>2
    <2>3. QED
        BY <2>1, <2>2, PlaceStays
<1>3. QED
    BY <1>1, <1>2 DEF PlaceInv

LEMMA IdleHolds == Shape(Idle) /\ \A e : ~Holds(Idle, e) /\ ~Halfway(Idle, e)
BY DEF Idle, Shape, Holds, Halfway

\* A request ends, with all that it had archived removed, or raced for.
LEMMA EndPlaces ==
    ASSUME IInv, PlaceInv, Latest', lastId' = lastId, raced \subseteq raced',
           NEW r \in Requests, Ends(r), UNCHANGED caretaker,
           \A e \in (1..lastId) \ raced' :
              /\ CopiesOf(e)' \subseteq CopiesOf(e) /\ latest'[e] = latest[e]
              /\ e \in Stored' => e \in Stored
              /\ Halfway(request[r], e) => e \notin Stored'
    PROVE  PlaceInv'
<1>1. PICK q : q = Idle
    OBVIOUS
<1>2. request' = [request EXCEPT ![r] = q] /\ Shape(q)
    BY <1>1, IdleHolds DEF Ends
<1>3. \A e : ~Holds(q, e)'
    BY <1>1 DEF Idle, Holds
<1>4. QED
    BY <1>2, <1>3, WorkPlaces

\* A request that begins has its events for itself, but for edits, or they are raced for.
LEMMA BeginPlaces ==
    ASSUME IInv, PlaceInv, NEW r \in Requests, NEW q, Begin(r, q), q.ids \subseteq Stored,
           q.op = "all" => q.ids = Stored, Shape(q), q.todo = {},
           q.pc \notin {"archive", "rows"}, q.pc \in {"details", "cascade"} => ~q.archiving,
           q.pc = "again" => \A e \in q.ids : /\ e \in DOMAIN q.loaded
                                              /\ q.loaded[e].status = events[e].status
    PROVE  PlaceInv'
<1>1. /\ request' = [request EXCEPT ![r] = q] /\ request[r].pc = "idle"
      /\ raced' = raced \cup Contended(q.op, r, q.ids)
      /\ UNCHANGED <<tables, caretaker, latest>>
    BY DEF Begin
<1>2. UNCHANGED <<events, lastId, archive>> /\ Stored' = Stored
    BY <1>1 DEF tables, Stored
<1>3. Latest' /\ Shapes'
    <2>1. Latest'
        BY <1>1, <1>2 DEF PlaceInv, Latest
    <2>2. QED
        BY <1>1, <2>1, ShapesStay DEF PlaceInv
<1>4. request'[r] = q /\ \A x \in Requests \ {r} : request'[x] = request[x]
    BY <1>1 DEF IInv, RequestsOK
<1>5. \A e : Holds(q, e) <=> e \in q.ids
    BY DEF Holds
<1>6. \A e : ~Halfway(q, e)
    BY DEF Halfway
<1>7. \A e : ~Halfway(request[r], e)
    BY <1>1 DEF Halfway
<1>8. ASSUME NEW e \in (1..lastId) \ raced' PROVE PlaceOK(e)'
    <2>1. PlaceOK(e)
        BY <1>1, <1>8 DEF PlaceInv
    <2>2. CopiesOf(e)' = CopiesOf(e) /\ latest'[e] = latest[e]
        BY <1>1, <1>2 DEF CopiesOf
    <2>3. CASE e \notin q.ids
        <3>1. ~Holds(q, e)'
            BY <1>2, <1>5, <2>3 DEF Holds
        <3>2. QED
            BY <1>1, <1>2, <1>7, <2>1, <2>2, <3>1, PlaceStays
    <2>4. CASE e \in q.ids
        <3>1. e \notin Listed
            BY <1>1, <1>8, <2>4 DEF Contended
        <3>2. ASSUME NEW x \in Requests \ {r}, Holds(request[x], e)
              PROVE  q.op = "update" /\ request[x].op = "update"
            <4>1. e \in Selected(x)
                BY <3>2, SelectedHolds
            <4>2. e \notin Contended(q.op, r, q.ids)
                BY <1>1, <1>8
            <4>3. QED
                BY <2>4, <4>1, <4>2 DEF Contended
        <3>3. \A x \in Requests \ {r} : Holds(request[x], e)' <=> Holds(request[x], e)
            BY <1>2, <1>4 DEF Holds
        <3>4. Alone(e)'
            BY <1>1, <1>4, <2>1, <3>1, <3>2, <3>3 DEF PlaceOK, Alone, Listed
        <3>5. Fits(e)'
            BY <2>1, <2>2 DEF PlaceOK, Fits
        <3>6. ASSUME CopiesOf(e) # {}
              PROVE  q.op # "update" /\ \E x \in Requests \ {r} : Halfway(request[x], e)
            <4>1. PICK x \in Requests : Halfway(request[x], e)
                BY <2>1, <2>4, <3>6 DEF PlaceOK, Placed
            <4>2. Shape(request[x])
                BY DEF PlaceInv, Shapes
            <4>3. Holds(request[x], e) /\ request[x].op # "update" /\ x # r
                BY <1>7, <4>1, <4>2, HalfwayHolds
            <4>4. QED
                BY <3>2, <4>1, <4>3
        <3>7. Placed(e)'
            <4>1. SUFFICES ASSUME CopiesOf(e)' # {}
                           PROVE  \E x \in Requests : Halfway(request'[x], e)
                BY DEF Placed, Halfway
            <4>2. PICK x \in Requests \ {r} : Halfway(request[x], e)
                BY <2>2, <3>6, <4>1
            <4>3. request'[x] = request[x]
                BY <1>4
            <4>4. QED
                BY <4>2, <4>3
        <3>8. Prepared(e)'
            <4>1. Ready(q, e)'
                <5>1. q.pc = "again" => e \in DOMAIN q.loaded /\ q.loaded[e].status = latest[e]
                    BY <2>4 DEF PlaceInv, Latest
                <5>2. q.op = "update" => CopiesOf(e) = {}
                    BY <3>6
                <5>3. QED
                    BY <2>2, <5>1, <5>2 DEF Ready
            <4>2. ASSUME NEW x \in Requests \ {r}, Holds(request[x], e)'
                  PROVE  Ready(request[x], e)'
                <5>1. PICK y : y = request[x]
                    OBVIOUS
                <5>2. request'[x] = y
                    BY <1>4, <5>1
                <5>3. Ready(y, e)
                    BY <2>1, <3>3, <4>2, <5>1 DEF PlaceOK, Prepared
                <5>4. Ready(y, e)'
                    BY <2>2, <5>3, ReadyStays
                <5>5. QED
                    BY <5>2, <5>4 DEF Ready
            <4>3. \A x \in Requests : Holds(request[x], e)' => Ready(request[x], e)'
                BY <1>4, <4>1, <4>2 DEF Ready
            <4>4. QED
                BY <1>1, <3>1, <4>3 DEF Prepared, Listed
        <3>9. QED
            BY <3>4, <3>5, <3>7, <3>8 DEF PlaceOK
    <2>5. QED
        BY <2>3, <2>4
<1>9. QED
    BY <1>2, <1>3, <1>8 DEF PlaceInv

\* So for each of them.
LEMMA BeginsPlaces ==
    ASSUME IInv, PlaceInv, NEW r \in Requests, Begins(r)
    PROVE  PlaceInv'
<1>1. CASE CreateEvent(r)
    <2>1. PICK s, b, n :
            Begin(r, [Idle EXCEPT !.pc = "flush", !.op = "create", !.sensor = s,
                        !.matched = b, !.count = n])
        BY <1>1 DEF CreateEvent
    <2>2. PICK q : q = [Idle EXCEPT !.pc = "flush", !.op = "create", !.sensor = s,
                        !.matched = b, !.count = n]
        OBVIOUS
    <2>3. /\ q.ids = {} /\ q.op = "create" /\ q.todo = {} /\ q.pc = "flush" /\ Shape(q)
        BY <2>2 DEF Idle, Shape
    <2>4. QED
        BY <2>1, <2>2, <2>3, BeginPlaces
<1>2. CASE SelectToUpdate(r)
    <2>1. PICK S \in Selections, t \in Statuses :
            Begin(r, [Idle EXCEPT !.pc = "update", !.op = "update", !.ids = S, !.status = t])
        BY <1>2 DEF SelectToUpdate
    <2>2. PICK q : q = [Idle EXCEPT !.pc = "update", !.op = "update", !.ids = S, !.status = t]
        OBVIOUS
    <2>3. /\ q.ids = S /\ q.op = "update" /\ q.todo = {} /\ q.pc = "update" /\ Shape(q)
        BY <2>2 DEF Idle, Shape
    <2>4. QED
        BY <2>1, <2>2, <2>3, BeginPlaces DEF Selections
<1>3. CASE SelectToDelete(r)
    <2>1. PICK S \in Selections, a \in BOOLEAN :
            Begin(r, [Idle EXCEPT !.pc = IF a THEN "load" ELSE "details", !.op = "delete",
                        !.archiving = a, !.ids = S])
        BY <1>3 DEF SelectToDelete
    <2>2. PICK q : q = [Idle EXCEPT !.pc = IF a THEN "load" ELSE "details", !.op = "delete",
                        !.archiving = a, !.ids = S]
        OBVIOUS
    <2>3. /\ q.ids = S /\ q.op = "delete" /\ q.todo = {} /\ q.archiving = a
          /\ q.pc = IF a THEN "load" ELSE "details"
        BY <2>2 DEF Idle
    <2>4. Shape(q)
        BY <2>3 DEF Shape
    <2>5. Begin(r, q) /\ q.ids \subseteq Stored
        BY <2>1, <2>2, <2>3 DEF Selections
    <2>6. /\ q.pc \notin {"archive", "rows", "again"} /\ q.op # "all"
          /\ q.pc \in {"details", "cascade"} => ~q.archiving
        BY <2>3
    <2>7. QED
        BY <2>3, <2>4, <2>5, <2>6, BeginPlaces
<1>4. CASE SelectSensor(r)
    <2>1. PICK s \in sensors, a \in BOOLEAN :
            LET S == {e \in Stored : events[e].sensor = s} IN
            Begin(r, [Idle EXCEPT !.pc = IF a THEN "again" ELSE "cascade", !.op = "sensor",
                        !.archiving = a, !.sensor = {s}, !.ids = S, !.loaded = Read(S)])
        BY <1>4 DEF SelectSensor
    <2>2. PICK S : S = {e \in Stored : events[e].sensor = s}
        OBVIOUS
    <2>3. PICK l : l = Read(S)
        OBVIOUS
    <2>4. S \subseteq Stored /\ \A e \in S : e \in DOMAIN l /\ l[e].status = events[e].status
        BY <2>2, <2>3 DEF Read
    <2>5. PICK q : q = [Idle EXCEPT !.pc = IF a THEN "again" ELSE "cascade", !.op = "sensor",
                        !.archiving = a, !.sensor = {s}, !.ids = S, !.loaded = l]
        OBVIOUS
    <2>6. /\ q.ids = S /\ q.op = "sensor" /\ q.todo = {} /\ q.archiving = a /\ q.loaded = l
          /\ q.pc = IF a THEN "again" ELSE "cascade"
        BY <2>5 DEF Idle
    <2>7. Shape(q)
        BY <2>6 DEF Shape
    <2>8. Begin(r, q)
        BY <2>1, <2>2, <2>3, <2>5
    <2>9. /\ q.pc \notin {"archive", "rows"} /\ q.op # "all"
          /\ q.pc \in {"details", "cascade"} => ~q.archiving
        BY <2>6
    <2>10. QED
        BY <2>4, <2>6, <2>7, <2>8, <2>9, BeginPlaces
<1>5. CASE SelectCopies(r)
    <2>1. PICK S : Begin(r, [Idle EXCEPT !.pc = "copies", !.op = "copies", !.copies = S])
        BY <1>5 DEF SelectCopies
    <2>2. PICK q : q = [Idle EXCEPT !.pc = "copies", !.op = "copies", !.copies = S]
        OBVIOUS
    <2>3. /\ q.ids = {} /\ q.op = "copies" /\ q.todo = {} /\ q.pc = "copies" /\ Shape(q)
        BY <2>2 DEF Idle, Shape
    <2>4. QED
        BY <2>1, <2>2, <2>3, BeginPlaces
<1>6. CASE RemoveAll(r)
    <2>1. PICK S : S = Stored
        OBVIOUS
    <2>2. PICK q : q = [Idle EXCEPT !.pc = "details", !.op = "all", !.ids = S]
        OBVIOUS
    <2>3. /\ q.ids = S /\ q.op = "all" /\ q.todo = {} /\ q.pc = "details" /\ ~q.archiving
          /\ Shape(q)
        BY <2>2 DEF Idle, Shape
    <2>4. Begin(r, q)
        BY <1>6, <2>1, <2>2 DEF RemoveAll
    <2>5. QED
        BY <2>1, <2>3, <2>4, BeginPlaces
<1>7. QED
    BY <1>1, <1>2, <1>3, <1>4, <1>5, <1>6 DEF Begins

\* What fails had archived nothing, or is raced for.
LEMMA FailPlaces ==
    ASSUME IInv, PlaceInv, NEW r \in Requests, Fails(r)
    PROVE  PlaceInv'
<1>1. /\ UNCHANGED <<events, lastId, archive, caretaker, latest>> /\ Ends(r)
      /\ raced' = raced \cup (IF request[r].archiving THEN Selected(r) ELSE {})
    BY DEF Fails, tables
<1>2. Latest'
    BY <1>1 DEF PlaceInv, Latest, Stored
<1>3. ASSUME NEW e \in (1..lastId) \ raced' PROVE ~Halfway(request[r], e)
    <2>1. Shape(request[r])
        BY DEF PlaceInv, Shapes
    <2>2. Halfway(request[r], e) => Holds(request[r], e) /\ request[r].archiving
        BY <2>1, HalfwayHolds DEF Halfway
    <2>3. QED
        BY <1>1, <1>3, <2>2, SelectedHolds
<1>4. QED
    BY <1>1, <1>2, <1>3, EndPlaces DEF CopiesOf, Stored

\* A new event has no copy, and only who removes everything has it.
LEMMA FlushPlaces ==
    ASSUME IInv, PlaceInv, NEW r \in Requests, FlushEvent(r)
    PROVE  PlaceInv'
<1>1. /\ Ends(r) /\ request[r].pc = "flush" /\ UNCHANGED <<caretaker, latest, raced>>
    BY DEF FlushEvent
<1>2. \A e : ~Halfway(request[r], e)
    BY <1>1 DEF Halfway
<1>3. CASE request[r].matched
    <2>1. UNCHANGED <<events, lastId, archive>>
        BY <1>3 DEF FlushEvent, Suppress
    <2>2. Latest'
        BY <1>1, <2>1 DEF PlaceInv, Latest, Stored
    <2>3. QED
        BY <1>1, <1>2, <2>1, <2>2, EndPlaces DEF CopiesOf, Stored
<1>4. CASE ~request[r].matched
    <2>1. PICK v : /\ lastId < MaxEvents /\ lastId' = lastId + 1 /\ UNCHANGED archive
                   /\ v.status = "open"
                   /\ events' = [e \in Stored \cup {lastId + 1} |-> IF e \in Stored THEN events[e] ELSE v]
        BY <1>4 DEF FlushEvent, Store
    <2>2. lastId \in Nat /\ MaxEvents \in Nat /\ Stored \subseteq 1..lastId
        BY StoreAssumption DEF IInv, TablesOK
    <2>3. Stored' = Stored \cup {lastId + 1}
        BY <2>1 DEF Stored
    <2>4. Latest'
        <3>1. lastId + 1 \in Ids /\ latest[lastId + 1] = "open"
            BY <2>1, <2>2 DEF PlaceInv, Latest, Ids
        <3>2. \A e \in Stored' : events'[e].status = latest[e]
            BY <2>1, <2>2, <2>3, <3>1 DEF PlaceInv, Latest
        <3>3. \A e \in Ids : e > lastId' => e > lastId
            BY <2>1, <2>2 DEF Ids
        <3>4. lastId' <= MaxEvents /\ 1..lastId \subseteq 1..lastId'
            BY <2>1, <2>2
        <3>5. QED
            BY <1>1, <2>1, <3>2, <3>3, <3>4 DEF PlaceInv, Latest
    <2>5. request' = [request EXCEPT ![r] = Idle]
        BY <1>1 DEF Ends
    <2>6. request'[r] = Idle /\ \A x \in Requests \ {r} : request'[x] = request[x]
        BY <2>5 DEF IInv, RequestsOK
    <2>7. Shapes'
        BY <1>1, <2>5, IdleHolds, ShapesStay DEF PlaceInv
    <2>8. ASSUME NEW e \in (1..lastId) \ raced' PROVE PlaceOK(e)'
        <3>1. PlaceOK(e)
            BY <1>1, <2>8 DEF PlaceInv
        <3>2. PICK q : q = Idle
            OBVIOUS
        <3>3. ~Holds(q, e)'
            BY <3>2 DEF Idle, Holds
        <3>4. e # lastId + 1
            BY <2>2, <2>8
        <3>5. CopiesOf(e)' = CopiesOf(e)
            BY <2>1 DEF CopiesOf
        <3>6. QED
            BY <1>1, <1>2, <2>3, <2>5, <3>1, <3>2, <3>3, <3>4, <3>5, PlaceStays
    <2>9. ASSUME NEW e, e = lastId + 1 PROVE PlaceOK(e)'
        <3>1. e \notin 1..lastId
            BY <2>2, <2>9
        <3>2. CopiesOf(e)' = {}
            BY <2>1, <3>1 DEF CopiesOf, PlaceInv, Latest
        <3>3. ASSUME NEW x \in Requests, Holds(request[x], e)'
              PROVE  request'[x].op = "all" /\ Ready(request[x], e)'
            <4>1. x # r
                BY <2>6, <3>3 DEF Holds, Idle
            <4>2. request[x].ids \subseteq 1..lastId
                BY Working DEF RequestOK
            <4>3. request'[x].op = "all"
                BY <2>6, <3>1, <3>3, <4>1, <4>2 DEF Holds
            <4>4. Shape(request[x])'
                BY <2>7 DEF Shapes
            <4>5. QED
                BY <4>3, <4>4 DEF Ready, Shape
        <3>4. e \notin Listed'
            BY <1>1, <3>1 DEF Listed, IInv, CaretakerOK
        <3>5. QED
            BY <3>2, <3>3, <3>4 DEF PlaceOK, Alone, Fits, Placed, Prepared
    <2>10. \A e \in (1..lastId)' : e \in 1..lastId \/ e = lastId + 1
        BY <2>1, <2>2
    <2>11. QED
        BY <2>4, <2>7, <2>8, <2>9, <2>10 DEF PlaceInv
<1>5. QED
    BY <1>3, <1>4

\* An edit of all who hold an event, and of what was not archived.
LEMMA UpdatePlaces ==
    ASSUME IInv, PlaceInv, NEW r \in Requests, UpdateEvents(r)
    PROVE  PlaceInv'
<1>1. /\ Ends(r) /\ request[r].pc = "update" /\ UNCHANGED <<lastId, archive, caretaker, raced>>
      /\ latest' = [e \in Ids |-> IF e \in Selected(r) THEN request[r].status ELSE latest[e]]
      /\ events' = [e \in Stored |->
           IF e \in Selected(r)
           THEN [events[e] EXCEPT !.status = request[r].status, !.modified = "today"] ELSE events[e]]
    BY DEF UpdateEvents, Modify
<1>2. Stored' = Stored
    BY <1>1 DEF Stored
<1>3. request[r].op = "update" /\ \A e \in Selected(r) : e \in 1..lastId
    BY <1>1, Working DEF PlaceInv, Shapes, Shape
<1>4. Latest'
    <2>1. ASSUME NEW e \in Stored PROVE events'[e].status = latest'[e]
        <3>1. e \in Ids
            BY StoreAssumption DEF IInv, TablesOK, PlaceInv, Latest, Ids
        <3>2. IsEvent(events[e]) /\ events[e].status = latest[e]
            BY DEF IInv, TablesOK, PlaceInv, Latest
        <3>3. CASE e \in Selected(r)
            <4>1. events'[e] = [events[e] EXCEPT !.status = request[r].status, !.modified = "today"]
                BY <1>1, <3>3
            <4>2. events'[e].status = request[r].status
                BY <3>2, <4>1 DEF IsEvent
            <4>3. QED
                BY <1>1, <3>1, <3>3, <4>2
        <3>4. CASE e \notin Selected(r)
            BY <1>1, <3>1, <3>2, <3>4
        <3>5. QED
            BY <3>3, <3>4
    <2>2. latest' = [e \in Ids |-> latest'[e]]
        BY <1>1
    <2>3. ASSUME NEW e \in Ids, e > lastId PROVE latest'[e] = "open"
        <3>1. e \notin Selected(r)
            BY <1>3, <2>3 DEF IInv, TablesOK, Ids
        <3>2. QED
            BY <1>1, <2>3, <3>1 DEF PlaceInv, Latest
    <2>4. QED
        BY <1>1, <1>2, <2>1, <2>2, <2>3 DEF PlaceInv, Latest
<1>5. request' = [request EXCEPT ![r] = Idle]
    BY <1>1 DEF Ends
<1>6. request'[r] = Idle /\ \A x \in Requests \ {r} : request'[x] = request[x]
    BY <1>5 DEF IInv, RequestsOK
<1>7. Shapes'
    BY <1>1, <1>5, IdleHolds, ShapesStay DEF PlaceInv
<1>8. ASSUME NEW e \in (1..lastId) \ raced' PROVE PlaceOK(e)'
    <2>1. PlaceOK(e) /\ CopiesOf(e)' = CopiesOf(e)
        BY <1>1, <1>8 DEF PlaceInv, CopiesOf
    <2>2. CASE e \notin Selected(r)
        <3>1. e \in Ids
            BY StoreAssumption DEF IInv, TablesOK, PlaceInv, Latest, Ids
        <3>2. latest'[e] = latest[e]
            BY <1>1, <2>2, <3>1
        <3>3. PICK q : q = Idle
            OBVIOUS
        <3>4. ~Holds(q, e)'
            BY <3>3 DEF Idle, Holds
        <3>5. ~Halfway(request[r], e)
            BY <1>1 DEF Halfway
        <3>6. QED
            BY <1>1, <1>2, <1>5, <2>1, <3>2, <3>3, <3>4, <3>5, PlaceStays
    <2>3. CASE e \in Selected(r)
        <3>1. Holds(request[r], e)
            BY <2>3, SelectedHolds
        <3>2. CopiesOf(e) = {} /\ e \notin Listed
            BY <1>3, <2>1, <3>1 DEF PlaceOK, Prepared, Ready, Alone
        <3>3. ASSUME NEW x \in Requests, Holds(request[x], e)'
              PROVE  request'[x].op = "update" /\ Ready(request[x], e)'
            <4>1. x # r
                BY <1>6, <3>3 DEF Holds, Idle
            <4>2. Holds(request[x], e) /\ request'[x] = request[x]
                BY <1>2, <1>6, <3>3, <4>1 DEF Holds
            <4>3. request'[x].op = "update"
                BY <1>3, <2>1, <3>1, <4>1, <4>2 DEF PlaceOK, Alone
            <4>4. Shape(request[x])'
                BY <1>7 DEF Shapes
            <4>5. QED
                BY <2>1, <3>2, <4>3, <4>4 DEF Ready, Shape
        <3>4. e \notin Listed'
            BY <1>1, <3>2 DEF Listed
        <3>5. QED
            BY <2>1, <3>2, <3>3, <3>4 DEF PlaceOK, Alone, Fits, Placed, Prepared
    <2>4. QED
        BY <2>2, <2>3
<1>9. QED
    BY <1>1, <1>4, <1>7, <1>8 DEF PlaceInv

LEMMA LoadedChanges ==
    ASSUME NEW q, IsRequest(q), NEW pc, NEW loaded, NEW todo
    PROVE  /\ AtPc(q, pc).loaded = q.loaded /\ LessTodo(q, todo).loaded = q.loaded
           /\ WithTodo(q, todo).loaded = q.loaded /\ WithEvents(q, loaded, todo).loaded = loaded
BY DEF IsRequest, Parts, AtPc, LessTodo, WithTodo, WithEvents

\* What is read to be archived is as it was edited last, and nobody else archives it.
LEMMA LoadPlaces ==
    ASSUME IInv, PlaceInv, NEW r \in Requests, LoadEvents(r) \/ LoadAgain(r)
    PROVE  PlaceInv'
<1>1. /\ UNCHANGED <<events, lastId, archive, caretaker, latest, raced>>
      /\ request[r].pc \in {"load", "again"}
    BY DEF LoadEvents, LoadAgain, quiet, tables, history
<1>2. PICK q : q = request[r]
    OBVIOUS
<1>3. IsRequest(q) /\ Shape(q)
    BY <1>2, Working DEF PlaceInv, Shapes
<1>4. q.archiving /\ q.op \in {"delete", "sensor"} /\ Selected(r) = q.ids
    BY <1>1, <1>2, <1>3 DEF Shape, Selected
<1>5. PICK there : there = q.ids \cap Stored
    OBVIOUS
<1>6. PICK s : /\ request' = [request EXCEPT ![r] = s] /\ Same(s, q)
               /\ s.pc = "archive" /\ s.todo = there
               /\ \A e \in there \ raced :
                    e \in DOMAIN s.loaded /\ s.loaded[e].status = latest[e]
    <2>1. CASE LoadEvents(r)
        <3>1. PICK l : l = Read(there)
            OBVIOUS
        <3>2. request' = [request EXCEPT ![r] = WithEvents(q, l, there)]
            BY <1>2, <1>4, <1>5, <2>1, <3>1, Zenon DEF LoadEvents, WithEvents
        <3>3. \A e \in there : e \in DOMAIN l /\ l[e].status = latest[e]
            BY <1>5, <3>1 DEF Read, PlaceInv, Latest
        <3>4. PICK s : s = WithEvents(q, l, there)
            OBVIOUS
        <3>5. Same(s, q) /\ s.pc = "archive" /\ s.todo = there /\ s.loaded = l
            BY <1>3, <3>4, RequestChanges, LoadedChanges
        <3>6. QED
            BY <3>2, <3>3, <3>4, <3>5
    <2>2. CASE LoadAgain(r)
        <3>1. request' = [request EXCEPT ![r] = WithTodo(q, there)] /\ q.pc = "again"
            BY <1>2, <1>4, <1>5, <2>2, Zenon DEF LoadAgain, WithTodo
        <3>2. ASSUME NEW e \in there \ raced
              PROVE  e \in DOMAIN q.loaded /\ q.loaded[e].status = latest[e]
            <4>1. e \in 1..lastId /\ Holds(q, e)
                BY <1>4, <1>5, <3>2 DEF Holds, IInv, TablesOK
            <4>2. Ready(q, e)
                BY <1>2, <3>2, <4>1 DEF PlaceInv, PlaceOK, Prepared
            <4>3. QED
                BY <3>1, <4>2 DEF Ready
        <3>3. PICK s : s = WithTodo(q, there)
            OBVIOUS
        <3>4. Same(s, q) /\ s.pc = "archive" /\ s.todo = there /\ s.loaded = q.loaded
            BY <1>3, <3>3, RequestChanges, LoadedChanges
        <3>5. QED
            BY <3>1, <3>2, <3>3, <3>4
    <2>3. QED
        BY <2>1, <2>2
<1>7. Shape(s)
    BY <1>3, <1>4, <1>5, <1>6 DEF Shape, Same
<1>8. Latest'
    BY <1>1 DEF PlaceInv, Latest, Stored
<1>9. ASSUME NEW e \in (1..lastId) \ raced'
      PROVE  /\ CopiesOf(e)' \subseteq CopiesOf(e) /\ latest'[e] = latest[e]
             /\ e \in Stored' => e \in Stored
             /\ Holds(s, e)' => Holds(request[r], e) /\ s.op = request[r].op /\ Ready(s, e)'
             /\ ~Halfway(request[r], e)
    <2>1. PlaceOK(e) /\ CopiesOf(e)' = CopiesOf(e) /\ latest'[e] = latest[e] /\ Stored' = Stored
        BY <1>1, <1>9 DEF PlaceInv, CopiesOf, Stored
    <2>2. ~Halfway(request[r], e)
        BY <1>1 DEF Halfway
    <2>3. ASSUME e \in there PROVE CopiesOf(e) = {}
        <3>1. Holds(request[r], e)
            BY <1>2, <1>4, <1>5, <2>3 DEF Holds
        <3>2. ASSUME NEW x \in Requests, Halfway(request[x], e) PROVE FALSE
            <4>1. Holds(request[x], e)
                BY <3>2, HalfwayHolds DEF PlaceInv, Shapes
            <4>2. x # r
                BY <2>2, <3>2
            <4>3. QED
                BY <1>2, <1>4, <2>1, <3>1, <4>1, <4>2 DEF PlaceOK, Alone
        <3>3. QED
            BY <1>5, <2>1, <2>3, <3>2 DEF PlaceOK, Placed
    <2>4. Ready(s, e)'
        BY <1>1, <1>4, <1>6, <1>9, <2>1, <2>3 DEF Ready, Same
    <2>5. Holds(s, e)' => Holds(request[r], e) /\ s.op = request[r].op
        BY <1>2, <1>6, <2>1 DEF Holds, Same
    <2>6. QED
        BY <2>1, <2>2, <2>4, <2>5
<1>10. QED
    BY <1>1, <1>6, <1>7, <1>8, <1>9, WorkPlaces

\* The copy is the only one, and the request is to remove the event.
LEMMA ArchivePlaces ==
    ASSUME IInv, PlaceInv, NEW r \in Requests, ArchiveEvent(r)
    PROVE  PlaceInv'
<1>1. PICK q : q = request[r]
    OBVIOUS
<1>2. /\ q.pc = "archive" /\ UNCHANGED <<sensors, events, lastId, caretaker, latest, raced>>
      /\ IsRequest(q) /\ Shape(q)
    BY <1>1, Working DEF ArchiveEvent, history, PlaceInv, Shapes
<1>3. PICK i \in q.todo :
        Archived(i, q.loaded[i].status, Complete(i)) /\ request' = [request EXCEPT ![r].todo = @ \ {i}]
    BY <1>1 DEF ArchiveEvent
<1>4. PICK c : archive' = archive \cup {c} /\ c.oid = i /\ c.status = q.loaded[i].status
    <2>1. Complete(i) \in BOOLEAN
        BY DEF Complete, IInv, TablesOK, IsEvent
    <2>2. QED
        BY <1>3, <2>1, CopyIsOne
<1>5. PICK s : s = LessTodo(q, q.todo \ {i})
    OBVIOUS
<1>6. request' = [request EXCEPT ![r] = s]
    BY <1>1, <1>3, <1>5, Zenon DEF LessTodo
<1>7. /\ Same(s, q) /\ s.pc = "archive" /\ s.todo = q.todo \ {i} /\ s.loaded = q.loaded
    BY <1>2, <1>5, RequestChanges, LoadedChanges
<1>8. /\ q.archiving /\ q.op \in {"delete", "sensor"} /\ i \in q.ids /\ i \in 1..lastId
    <2>1. q.ids \subseteq 1..lastId
        BY <1>1, Working DEF RequestOK
    <2>2. QED
        BY <1>2, <1>3, <2>1 DEF Shape
<1>9. Shape(s)
    BY <1>2, <1>7 DEF Shape, Same
<1>10. Latest'
    BY <1>2, <1>4, <1>8 DEF PlaceInv, Latest, Stored
<1>11. Shapes'
    BY <1>2, <1>6, <1>9, ShapesStay DEF PlaceInv
<1>12. Stored' = Stored /\ Listed' = Listed
    BY <1>2 DEF Stored, Listed
<1>13. \A e : Holds(s, e)' <=> Holds(q, e)
    BY <1>7, <1>12 DEF Holds, Same
<1>14. \A e : Halfway(q, e) => Halfway(s, e)
    BY <1>2, <1>7 DEF Halfway, Same
<1>15. ASSUME NEW e \in (1..lastId) \ raced' PROVE PlaceOK(e)'
    <2>1. PlaceOK(e)
        BY <1>2, <1>15 DEF PlaceInv
    <2>2. CASE e # i
        <3>1. CopiesOf(e)' = CopiesOf(e)
            BY <1>4, <2>2 DEF CopiesOf
        <3>2. ASSUME Holds(s, e)' PROVE Holds(q, e) /\ s.op = q.op /\ Ready(s, e)'
            <4>1. Holds(q, e) /\ Ready(q, e)
                BY <1>1, <1>13, <2>1, <3>2 DEF PlaceOK, Prepared
            <4>2. QED
                BY <1>2, <1>7, <3>1, <4>1 DEF Ready, Same
        <3>3. QED
            BY <1>1, <1>2, <1>6, <1>12, <1>14, <2>1, <3>1, <3>2, PlaceStays
    <2>3. CASE e = i
        <3>1. Holds(q, e)
            BY <1>8, <2>3 DEF Holds
        <3>2. CopiesOf(e) = {} /\ q.loaded[e].status = latest[e]
            BY <1>1, <1>2, <1>3, <2>1, <2>3, <3>1 DEF PlaceOK, Prepared, Ready
        <3>3. CopiesOf(e)' = {c} /\ c.status = latest'[e]
            BY <1>2, <1>4, <2>3, <3>2 DEF CopiesOf
        <3>4. request'[r] = s /\ \A x \in Requests \ {r} : request'[x] = request[x]
            BY <1>6 DEF IInv, RequestsOK
        <3>5. ASSUME NEW x \in Requests, Holds(request[x], e)'
              PROVE  x = r
            <4>1. SUFFICES ASSUME x # r PROVE FALSE
                OBVIOUS
            <4>2. Holds(request[x], e)
                BY <1>12, <3>4, <3>5, <4>1 DEF Holds
            <4>3. QED
                BY <1>1, <1>8, <2>1, <3>1, <4>1, <4>2 DEF PlaceOK, Alone
        <3>6. e \notin Listed'
            BY <1>1, <1>12, <2>1, <3>1 DEF PlaceOK, Alone
        <3>7. Halfway(request'[r], e)
            BY <1>7, <1>8, <2>3, <3>4 DEF Halfway, Same
        <3>8. Ready(request[r], e)'
            BY <1>7, <1>8, <2>3, <3>4 DEF Ready, Same
        <3>9. Placed(e)'
            BY <3>7 DEF Placed, Halfway
        <3>10. QED
            BY <3>3, <3>5, <3>6, <3>8, <3>9 DEF PlaceOK, Alone, Fits, Prepared
    <2>4. QED
        BY <2>2, <2>3
<1>16. QED
    BY <1>2, <1>10, <1>11, <1>15 DEF PlaceInv

\* A request goes on to what it does next with the events it has.
LEMMA GotoPlaces ==
    ASSUME IInv, PlaceInv, Latest', lastId' = lastId, raced' = raced, NEW r \in Requests, NEW pc,
           Goto(r, pc), UNCHANGED caretaker, pc \in {"details", "cascade", "rows", "copies"},
           \A e \in (1..lastId) : CopiesOf(e)' \subseteq CopiesOf(e) /\ latest'[e] = latest[e],
           Stored' \subseteq Stored,
           request[r].archiving => pc # "copies"
    PROVE  PlaceInv'
<1>1. PICK q : q = request[r]
    OBVIOUS
<1>2. IsRequest(q) /\ Shape(q)
    BY <1>1, Working DEF PlaceInv, Shapes
<1>3. PICK s : s = AtPc(q, pc)
    OBVIOUS
<1>4. request' = [request EXCEPT ![r] = s]
    BY <1>1, <1>3, Zenon DEF Goto, AtPc
<1>5. Same(s, q) /\ s.pc = pc /\ s.todo = q.todo
    BY <1>2, <1>3, RequestChanges
<1>6. Shape(s)
    BY <1>2, <1>5 DEF Shape, Same
<1>7. ASSUME NEW e \in (1..lastId) \ raced'
      PROVE  /\ Holds(s, e)' => Holds(q, e) /\ s.op = q.op /\ Ready(s, e)'
             /\ Halfway(q, e) => Halfway(s, e)
    <2>1. Holds(s, e)' => Holds(q, e) /\ s.op = q.op
        BY <1>5 DEF Holds, Same
    <2>2. Holds(q, e) => Ready(q, e)
        BY <1>1, <1>7 DEF PlaceInv, PlaceOK, Prepared
    <2>3. Holds(q, e) => Ready(s, e)'
        BY <1>5, <2>2 DEF Ready, Same
    <2>4. Halfway(q, e) => Halfway(s, e)
        BY <1>1, <1>5 DEF Halfway, Same
    <2>5. QED
        BY <2>1, <2>3, <2>4
<1>8. ASSUME NEW e \in (1..lastId) \ raced'
      PROVE  /\ CopiesOf(e)' \subseteq CopiesOf(e) /\ latest'[e] = latest[e]
             /\ e \in Stored' => e \in Stored
             /\ Holds(s, e)' => Holds(request[r], e) /\ s.op = request[r].op /\ Ready(s, e)'
             /\ Halfway(request[r], e) /\ e \in Stored' => Halfway(s, e)
    BY <1>1, <1>7, <1>8
<1>9. raced \subseteq raced'
    OBVIOUS
<1>10. QED
    BY <1>4, <1>6, <1>8, <1>9, WorkPlaces

LEMMA Removed ==
    ASSUME NEW S, Delete(S)
    PROVE  Stored' = Stored \ S /\ \A e \in Stored' : events'[e] = events[e]
BY DEF Delete, Restrict, Stored

\* What was archived is removed.
LEMMA DeletePlaces ==
    ASSUME IInv, PlaceInv, NEW r \in Requests,
           \/ EventsArchived(r) \/ DeleteDetails(r) \/ DeleteEvents(r)
           \/ RemoveSensor(r) \/ DeleteCopies(r)
    PROVE  PlaceInv'
<1>1. UNCHANGED <<lastId, caretaker, latest, raced>>
    BY DEF EventsArchived, DeleteDetails, DeleteEvents, RemoveSensor, DeleteCopies, quiet, tables, history
<1>2. Shape(request[r])
    BY DEF PlaceInv, Shapes
<1>3. CASE EventsArchived(r)
    <2>1. UNCHANGED <<events, archive>> /\ Stored' = Stored
        BY <1>3 DEF EventsArchived, quiet, tables, Stored
    <2>2. Latest'
        BY <1>1, <2>1 DEF PlaceInv, Latest
    <2>3. PICK pc \in {"details", "cascade"} : Goto(r, pc)
        BY <1>3, Zenon DEF EventsArchived
    <2>4. QED
        BY <1>1, <2>1, <2>2, <2>3, GotoPlaces DEF CopiesOf
<1>4. CASE DeleteDetails(r)
    <2>1. /\ UNCHANGED archive /\ Goto(r, "rows")
          /\ events' = [e \in Stored |->
               IF e \in Selected(r) THEN [events[e] EXCEPT !.complete = FALSE] ELSE events[e]]
        BY <1>4 DEF DeleteDetails, StripDetails
    <2>2. Stored' = Stored
        BY <2>1 DEF Stored
    <2>3. ASSUME NEW e \in Stored PROVE events'[e].status = events[e].status
        <3>1. IsEvent(events[e])
            BY DEF IInv, TablesOK
        <3>2. QED
            BY <2>1, <3>1 DEF IsEvent
    <2>4. Latest'
        BY <1>1, <2>1, <2>2, <2>3 DEF PlaceInv, Latest
    <2>5. QED
        BY <1>1, <2>1, <2>2, <2>4, GotoPlaces DEF CopiesOf
<1>5. ASSUME Delete(Selected(r)), UNCHANGED archive
      PROVE  /\ Latest' /\ Stored' \subseteq Stored
             /\ \A e \in (1..lastId) \ raced' : Halfway(request[r], e) => e \notin Stored'
    <2>1. Stored' = Stored \ Selected(r) /\ \A e \in Stored' : events'[e] = events[e]
        BY <1>5, Removed
    <2>2. Latest'
        BY <1>1, <1>5, <2>1 DEF PlaceInv, Latest
    <2>3. \A e : Halfway(request[r], e) => e \in Selected(r)
        BY <1>2, HalfwayHolds, SelectedHolds
    <2>4. QED
        BY <2>1, <2>2, <2>3
<1>6. CASE DeleteEvents(r)
    <2>1. UNCHANGED archive /\ Delete(Selected(r))
        BY <1>6 DEF DeleteEvents
    <2>2. CASE request[r].op = "all"
        <3>1. Goto(r, "copies") /\ ~request[r].archiving
            BY <1>2, <1>6, <2>2 DEF DeleteEvents, Shape
        <3>2. QED
            BY <1>1, <1>5, <2>1, <3>1, GotoPlaces DEF CopiesOf
    <2>3. CASE request[r].op # "all"
        <3>1. Ends(r)
            BY <1>6, <2>3 DEF DeleteEvents
        <3>2. QED
            BY <1>1, <1>5, <2>1, <3>1, EndPlaces DEF CopiesOf
    <2>4. QED
        BY <2>2, <2>3
<1>7. CASE RemoveSensor(r)
    <2>1. UNCHANGED archive /\ Delete(Selected(r)) /\ Ends(r)
        BY <1>7 DEF RemoveSensor
    <2>2. QED
        BY <1>1, <1>5, <2>1, EndPlaces DEF CopiesOf
<1>8. CASE DeleteCopies(r)
    <2>1. /\ UNCHANGED events /\ archive' \subseteq archive /\ Ends(r)
          /\ request[r].pc = "copies" /\ Stored' = Stored
        BY <1>8 DEF DeleteCopies, Stored
    <2>2. Latest'
        BY <1>1, <2>1 DEF PlaceInv, Latest
    <2>3. \A e : CopiesOf(e)' \subseteq CopiesOf(e) /\ ~Halfway(request[r], e)
        BY <2>1 DEF CopiesOf, Halfway
    <2>4. QED
        BY <1>1, <2>1, <2>2, <2>3, EndPlaces
<1>9. QED
    BY <1>3, <1>4, <1>6, <1>7, <1>8

LEMMA WorksPlaces ==
    ASSUME IInv, PlaceInv, NEW r \in Requests, Works(r) \/ RequestFails(r)
    PROVE  PlaceInv'
<1>1. CASE \/ FlushRefused(r) \/ ArchiveRefused(r) \/ DeleteRefused(r) \/ RemovalRefused(r)
           \/ RequestFails(r)
    BY <1>1, FailPlaces DEF FlushRefused, ArchiveRefused, DeleteRefused, RemovalRefused, RequestFails
<1>2. QED
    BY <1>1, FlushPlaces, UpdatePlaces, LoadPlaces, ArchivePlaces, DeletePlaces DEF Works

\* An event keeps its place in a step of the caretaker that takes no new event.
LEMMA CaretakerKeepsPlace ==
    ASSUME NEW e, PlaceOK(e), UNCHANGED request, Fits(e)', latest'[e] = latest[e],
           CopiesOf(e) = {} => CopiesOf(e)' = {}, e \in Stored' => e \in Stored,
           e \in Listed' => e \in Listed /\ caretaker'.list[e] = caretaker.list[e]
    PROVE  PlaceOK(e)'
<1>1. ASSUME NEW x \in Requests, Holds(request[x], e)' PROVE Holds(request[x], e)
    BY <1>1 DEF Holds
<1>2. Alone(e)'
    BY <1>1 DEF PlaceOK, Alone
<1>3. Placed(e)'
    BY DEF PlaceOK, Placed, Halfway
<1>4. Prepared(e)'
    BY <1>1 DEF PlaceOK, Prepared, Ready
<1>5. QED
    BY <1>2, <1>3, <1>4 DEF PlaceOK

LEMMA ShapesRemain ==
    ASSUME Shapes, UNCHANGED request, caretaker'.current \subseteq Listed'
    PROVE  Shapes'
BY DEF Shapes, Shape

\* Steps that copy nothing.
LEMMA CaretakerPlaces ==
    ASSUME IInv, PlaceInv, UNCHANGED <<events, lastId, latest, request>>, raced \subseteq raced',
           archive' \subseteq archive, caretaker'.current \subseteq Listed',
           \A e \in Listed' : e \in Listed /\ caretaker'.list[e] = caretaker.list[e]
    PROVE  PlaceInv'
<1>1. Latest' /\ Shapes'
    BY ShapesRemain DEF PlaceInv, Latest, Stored
<1>2. ASSUME NEW e \in (1..lastId) \ raced' PROVE PlaceOK(e)'
    <2>1. PlaceOK(e)
        BY <1>2 DEF PlaceInv
    <2>2. CopiesOf(e)' \subseteq CopiesOf(e)
        BY DEF CopiesOf
    <2>3. Fits(e)'
        BY <2>1, <2>2 DEF PlaceOK, Fits
    <2>4. QED
        BY <2>1, <2>2, <2>3, CaretakerKeepsPlace DEF Stored
<1>3. QED
    BY <1>1, <1>2 DEF PlaceInv

LEMMA AsleepHasNothing == DOMAIN Asleep.list = {} /\ Asleep.current = {}
BY NothingStored DEF Asleep

\* What the caretaker lists nobody else has, or it is raced for.
LEMMA ListPlaces ==
    ASSUME IInv, PlaceInv, List
    PROVE  PlaceInv'
<1>1. PICK S : S = {e \in Stored : events[e].status = "closed" /\ events[e].modified = "past"}
    OBVIOUS
<1>2. PICK l : l = [e \in S |-> events[e].status]
    OBVIOUS
<1>3. PICK t : t = {e \in S : Complete(e)}
    OBVIOUS
<1>4. /\ caretaker' = Lists(l, t)
      /\ raced' = raced \cup (S \cap UNION {Selected(r) : r \in Requests})
      /\ UNCHANGED <<events, lastId, archive, request, latest>>
    BY <1>1, <1>2, <1>3 DEF List, Lists, caretakerUnchanged
<1>5. caretaker'.list = l /\ caretaker'.current = {} /\ Listed' = S
    BY <1>2, <1>4, AsleepIsFine, CaretakerChanges DEF CaretakerOK, Listed
<1>6. Latest' /\ Shapes'
    BY <1>4, <1>5, ShapesRemain DEF PlaceInv, Latest, Stored
<1>7. ASSUME NEW e \in (1..lastId) \ raced' PROVE PlaceOK(e)'
    <2>1. PlaceOK(e) /\ CopiesOf(e)' = CopiesOf(e) /\ Stored' = Stored /\ latest' = latest
        BY <1>4, <1>7 DEF PlaceInv, CopiesOf, Stored
    <2>2. Fits(e)'
        BY <2>1 DEF PlaceOK, Fits
    <2>3. CASE e \notin S
        BY <1>4, <1>5, <2>1, <2>2, <2>3, CaretakerKeepsPlace
    <2>4. CASE e \in S
        <3>1. \A x \in Requests : ~Holds(request[x], e)
            BY <1>4, <1>7, <2>4, SelectedHolds
        <3>2. \A x \in Requests : ~Holds(request[x], e)'
            BY <1>4, <2>1, <3>1 DEF Holds
        <3>3. CopiesOf(e) = {}
            <4>1. \A x \in Requests : ~Halfway(request[x], e)
                BY <3>1, HalfwayHolds DEF PlaceInv, Shapes
            <4>2. QED
                BY <1>1, <2>1, <2>4, <4>1 DEF PlaceOK, Placed
        <3>4. caretaker'.list[e] = latest[e]
            BY <1>1, <1>2, <1>5, <2>4 DEF PlaceInv, Latest
        <3>5. QED
            BY <2>1, <2>2, <3>2, <3>3, <3>4 DEF PlaceOK, Alone, Placed, Prepared
    <2>5. QED
        BY <2>3, <2>4
<1>8. QED
    BY <1>4, <1>6, <1>7 DEF PlaceInv

\* The caretaker copies what has no copy, and removes it in the same step.
LEMMA MovePlaces ==
    ASSUME IInv, PlaceInv, MoveEvent
    PROVE  PlaceInv'
<1>1. PICK i \in caretaker.current :
        /\ Archived(i, caretaker.list[i], caretaker.complete)
        /\ Delete({i})
        /\ caretaker' = [caretaker EXCEPT !.pc = "moving", !.current = {},
                                          !.list = Restrict(@, Listed \ {i})]
    BY DEF MoveEvent
<1>2. UNCHANGED <<lastId, request, latest, raced>> /\ caretaker.pc = "read"
    BY DEF MoveEvent, caretakerUnchanged
<1>3. i \in Listed /\ i \in 1..lastId
    BY DEF PlaceInv, Shapes, IInv, CaretakerOK
<1>4. PICK c : archive' = archive \cup {c} /\ c.oid = i /\ c.status = caretaker.list[i]
    <2>1. caretaker.complete \in BOOLEAN
        BY <1>2 DEF IInv, CaretakerOK
    <2>2. QED
        BY <1>1, <2>1, CopyIsOne
<1>5. Stored' = Stored \ {i} /\ \A e \in Stored' : events'[e] = events[e]
    BY <1>1, Removed
<1>6. PICK l : l = Restrict(caretaker.list, Listed \ {i})
    OBVIOUS
<1>7. caretaker' = Moves(caretaker, l)
    BY <1>1, <1>6, Zenon DEF Moves
<1>8. caretaker'.list = l /\ caretaker'.current = {}
    BY <1>7, CaretakerChanges DEF IInv, CaretakerOK
<1>9. Listed' = Listed \ {i} /\ \A e \in Listed' : caretaker'.list[e] = caretaker.list[e]
    BY <1>6, <1>8 DEF Restrict, Listed
<1>10. Latest'
    BY <1>2, <1>3, <1>4, <1>5 DEF PlaceInv, Latest
<1>11. Shapes'
    BY <1>2, <1>8, ShapesRemain DEF PlaceInv
<1>12. ASSUME NEW e \in (1..lastId) \ raced' PROVE PlaceOK(e)'
    <2>1. PlaceOK(e)
        BY <1>2, <1>12 DEF PlaceInv
    <2>2. CASE e # i
        <3>1. CopiesOf(e)' = CopiesOf(e)
            BY <1>4, <2>2 DEF CopiesOf
        <3>2. Fits(e)'
            BY <1>2, <2>1, <3>1 DEF PlaceOK, Fits
        <3>3. QED
            BY <1>2, <1>5, <1>9, <2>1, <2>2, <3>1, <3>2, CaretakerKeepsPlace
    <2>3. CASE e = i
        <3>1. CopiesOf(e) = {} /\ caretaker.list[e] = latest[e]
            BY <1>3, <2>1, <2>3 DEF PlaceOK, Prepared
        <3>2. CopiesOf(e)' = {c} /\ c.status = latest'[e]
            BY <1>2, <1>4, <2>3, <3>1 DEF CopiesOf
        <3>3. \A x \in Requests : ~Holds(request[x], e)
            BY <1>3, <2>1, <2>3 DEF PlaceOK, Alone
        <3>4. \A x \in Requests : ~Holds(request[x], e)'
            BY <1>2, <1>5, <3>3 DEF Holds
        <3>5. e \notin Stored' /\ e \notin Listed'
            BY <1>5, <1>9, <2>3
        <3>6. QED
            BY <3>2, <3>4, <3>5 DEF PlaceOK, Alone, Fits, Placed, Prepared
    <2>4. QED
        BY <2>2, <2>3
<1>13. QED
    BY <1>2, <1>10, <1>11, <1>12 DEF PlaceInv

\* Copies grow old.
LEMMA NewDayPlaces ==
    ASSUME IInv, PlaceInv, NewDay
    PROVE  PlaceInv'
<1>1. /\ events' = [e \in Stored |->
           IF events[e].modified = "today" THEN [events[e] EXCEPT !.modified = "past"] ELSE events[e]]
      /\ archive' = {[c EXCEPT !.past = TRUE] : c \in archive}
      /\ UNCHANGED <<lastId, request, latest, raced, caretaker>>
    BY DEF NewDay, caretakerUnchanged
<1>2. Stored' = Stored
    BY <1>1 DEF Stored
<1>3. ASSUME NEW e \in Stored PROVE events'[e].status = events[e].status
    <2>1. IsEvent(events[e])
        BY DEF IInv, TablesOK
    <2>2. QED
        BY <1>1, <2>1 DEF IsEvent
<1>4. ASSUME NEW c \in archive
      PROVE  [c EXCEPT !.past = TRUE].oid = c.oid /\ [c EXCEPT !.past = TRUE].status = c.status
    <2>1. IsCopy(c)
        BY DEF IInv, TablesOK
    <2>2. QED
        BY <2>1 DEF IsCopy
<1>5. \A c \in archive' : \E d \in archive :
        c = [d EXCEPT !.past = TRUE] /\ c.oid = d.oid /\ c.status = d.status
    BY <1>1, <1>4
<1>6. Latest'
    BY <1>1, <1>2, <1>3, <1>5 DEF PlaceInv, Latest
<1>7. Shapes'
    BY <1>1, ShapesRemain DEF PlaceInv, Shapes, Listed
<1>8. ASSUME NEW e \in (1..lastId) \ raced' PROVE PlaceOK(e)'
    <2>1. PlaceOK(e)
        BY <1>1, <1>8 DEF PlaceInv
    <2>2. \A c \in CopiesOf(e)' : \E d \in CopiesOf(e) :
            c = [d EXCEPT !.past = TRUE] /\ c.status = d.status
        BY <1>5 DEF CopiesOf
    <2>3. Fits(e)'
        BY <1>1, <2>1, <2>2 DEF PlaceOK, Fits
    <2>4. CopiesOf(e) = {} => CopiesOf(e)' = {}
        BY <2>2
    <2>5. QED
        BY <1>1, <1>2, <2>1, <2>3, <2>4, CaretakerKeepsPlace DEF Listed
<1>9. QED
    BY <1>1, <1>6, <1>7, <1>8 DEF PlaceInv

LEMMA PlaceInit == Init => PlaceInv
<1> SUFFICES ASSUME Init PROVE PlaceInv
    OBVIOUS
<1>1. Stored = {} /\ lastId = 0 /\ archive = {}
    BY NothingStored DEF Init, Stored
<1>2. Latest
    BY <1>1, StoreAssumption DEF Init, Latest
<1>3. Shapes
    BY AsleepHasNothing, IdleHolds DEF Init, Shapes
<1>4. QED
    BY <1>1, <1>2, <1>3 DEF PlaceInv

LEMMA PlaceStep == IInv /\ PlaceInv /\ [Next]_vars => PlaceInv'
<1> SUFFICES ASSUME IInv, PlaceInv, [Next]_vars PROVE PlaceInv'
    OBVIOUS
<1>1. caretaker.current \subseteq Listed
    BY DEF PlaceInv, Shapes
<1>2. CASE \E r \in Requests : Begins(r) \/ Works(r) \/ RequestFails(r)
    BY <1>2, BeginsPlaces, WorksPlaces
<1>3. CASE UpdateFilter \/ UNCHANGED vars
    <2>1. UNCHANGED <<events, lastId, latest, request, raced, archive, caretaker>>
        BY <1>3 DEF UpdateFilter, vars, tables, history
    <2>2. QED
        BY <1>1, <2>1, CaretakerPlaces DEF Listed
<1>4. CASE Purge
    <2>1. /\ UNCHANGED <<events, lastId, latest, request, raced>> /\ archive' \subseteq archive
          /\ caretaker' = [Asleep EXCEPT !.pc = "purged"]
        BY <1>4 DEF Purge, caretakerUnchanged
    <2>2. Listed' = {} /\ caretaker'.current = {}
        BY <2>1, NothingStored DEF Asleep, Listed
    <2>3. QED
        BY <2>1, <2>2, CaretakerPlaces
<1>5. CASE ReadDetails
    <2>1. UNCHANGED <<events, lastId, latest, request, raced, archive>>
        BY <1>5 DEF ReadDetails, caretakerUnchanged
    <2>2. PICK i \in Listed : \E d : caretaker' = Reads(caretaker, i, d)
        BY <1>5, Zenon DEF ReadDetails, Reads
    <2>3. caretaker'.list = caretaker.list /\ caretaker'.current = {i}
        BY <2>2, CaretakerChanges DEF IInv, CaretakerOK
    <2>4. QED
        BY <2>1, <2>3, CaretakerPlaces DEF Listed
<1>6. CASE CaretakerSleeps \/ CaretakerFails
    <2>1. /\ UNCHANGED <<events, lastId, latest, request, raced, archive>> /\ caretaker' = Asleep
        BY <1>6 DEF CaretakerSleeps, CaretakerFails, caretakerUnchanged, tables, history
    <2>2. Listed' = {} /\ caretaker'.current = {}
        BY <2>1, AsleepHasNothing DEF Listed
    <2>3. QED
        BY <2>1, <2>2, CaretakerPlaces
<1>7. QED
    BY <1>2, <1>3, <1>4, <1>5, <1>6, ListPlaces, MovePlaces, NewDayPlaces DEF Next, Caretaker

\* An event that nobody else had selected meanwhile is not in both places, nor twice in
\* the archive, and its copy has the status it was given last: whoever archives removes
\* what he copied before he lets go of it.
THEOREM NoneIsTwice == Spec => []InOnePlace
<1>1. IInv /\ PlaceInv => InOnePlace
    <2> SUFFICES ASSUME IInv, PlaceInv, NEW e \in 1..lastId \ raced, AtRest(e)
                   PROVE  /\ Cardinality(CopiesOf(e)) + (IF e \in Stored THEN 1 ELSE 0) <= 1
                          /\ \A c \in CopiesOf(e) : c.status = latest[e]
        BY DEF InOnePlace
    <2>2. PlaceOK(e)
        BY DEF PlaceInv
    <2>3. \A r \in Requests : ~Halfway(request[r], e)
        BY SelectedHolds, HalfwayHolds DEF AtRest, PlaceInv, Shapes
    <2>4. e \in Stored => CopiesOf(e) = {}
        BY <2>2, <2>3 DEF PlaceOK, Placed
    <2>5. CASE CopiesOf(e) = {}
        BY <2>5, FS_EmptySet
    <2>6. CASE CopiesOf(e) # {}
        <3>1. PICK c : CopiesOf(e) = {c}
            BY <2>2, <2>6 DEF PlaceOK, Fits
        <3>2. Cardinality(CopiesOf(e)) = 1
            BY <3>1, FS_Singleton
        <3>3. QED
            BY <2>2, <2>4, <2>6, <3>2 DEF PlaceOK, Fits
    <2>7. QED
        BY <2>5, <2>6
<1>2. QED
    BY <1>1, InvInit, InvStep, PlaceInit, PlaceStep, PTL DEF Spec

-----------------------------------------------------------------------------
(* Counting, and parts of a sequence *)

\* Numbers that differ, and are small enough, are all there are.
LEMMA AllNumbers ==
    ASSUME NEW K, IsFiniteSet(K), NEW f \in [K -> 0..Cardinality(K) - 1],
           \A i, j \in K : f[i] = f[j] => i = j
    PROVE  \A n \in 0..Cardinality(K) - 1 : \E i \in K : f[i] = n
<1> DEFINE T == 0..Cardinality(K) - 1
<1>1. Cardinality(K) \in Nat
    BY FS_CardinalityType
<1>2. IsFiniteSet(T) /\ Cardinality(T) = Cardinality(K)
    BY <1>1, FS_Interval
<1>3. f \in Injection(K, T)
    BY DEF Injection, IsInjective
<1>4. f \in Surjection(K, T)
    <2> HIDE DEF T
    <2>1. QED
        BY <1>2, <1>3, FS_Injection
<1>5. QED
    BY <1>4 DEF Surjection

\* A part that leaves something out is smaller.
LEMMA Fewer ==
    ASSUME NEW S, IsFiniteSet(S), NEW T \in SUBSET S, NEW x \in S, x \notin T
    PROVE  Cardinality(T) \in Nat /\ Cardinality(S) \in Nat /\ Cardinality(T) < Cardinality(S)
<1>1. IsFiniteSet(T) /\ Cardinality(T) <= Cardinality(S) /\ (Cardinality(S) = Cardinality(T) => S = T)
    BY FS_Subset
<1>2. Cardinality(T) \in Nat /\ Cardinality(S) \in Nat
    BY <1>1, FS_CardinalityType
<1>3. QED
    BY <1>1, <1>2

Below(K, i) == {j \in K : j < i}

LEMMA BelowCounts ==
    ASSUME NEW K \in SUBSET Int, IsFiniteSet(K)
    PROVE  /\ \A i \in K : Cardinality(Below(K, i)) \in 0..Cardinality(K) - 1
           /\ \A i, j \in K : i < j => Cardinality(Below(K, i)) < Cardinality(Below(K, j))
           /\ \A i, j \in K : Cardinality(Below(K, i)) = Cardinality(Below(K, j)) => i = j
<1>1. ASSUME NEW i \in K PROVE Cardinality(Below(K, i)) \in 0..Cardinality(K) - 1
    <2>1. Below(K, i) \in SUBSET K /\ i \notin Below(K, i)
        BY DEF Below
    <2>2. QED
        BY <2>1, Fewer
<1>2. ASSUME NEW i \in K, NEW j \in K, i < j
      PROVE  Cardinality(Below(K, i)) < Cardinality(Below(K, j))
    <2>1. i \in Int /\ j \in Int /\ \A x \in K : x \in Int
        OBVIOUS
    <2>2. Below(K, i) \in SUBSET Below(K, j) /\ i \in Below(K, j) /\ i \notin Below(K, i)
        <3>1. ~(i < i) /\ \A x \in K : x < i => x < j
            BY <1>2, <2>1
        <3>2. QED
            BY <1>2, <3>1, Zenon DEF Below
    <2>3. IsFiniteSet(Below(K, j))
        BY FS_Subset DEF Below
    <2>4. QED
        BY <2>2, <2>3, Fewer
<1>3. ASSUME NEW i \in K, NEW j \in K, Cardinality(Below(K, i)) = Cardinality(Below(K, j))
      PROVE  i = j
    <2>1. Cardinality(Below(K, i)) \in Nat
        BY <1>1, FS_CardinalityType
    <2>2. ~(i < j) /\ ~(j < i)
        BY <1>2, <1>3, <2>1
    <2>3. QED
        BY <2>2
<1>4. QED
    BY <1>1, <1>2, <1>3

\* The elements of a set of numbers in their order.
LEMMA NthInOrder ==
    ASSUME NEW K \in SUBSET Int, IsFiniteSet(K)
    PROVE  /\ Cardinality(K) \in Nat
           /\ \A n \in 1..Cardinality(K) : Nth(K, n) \in K
           /\ \A m, n \in 1..Cardinality(K) : m < n => Nth(K, m) < Nth(K, n)
           /\ \A i \in K : \E n \in 1..Cardinality(K) : Nth(K, n) = i
<1> DEFINE c == Cardinality(K)
           f == [i \in K |-> Cardinality(Below(K, i))]
<1>1. c \in Nat
    BY FS_CardinalityType
<1>2. f \in [K -> 0..c - 1] /\ \A i, j \in K : f[i] = f[j] => i = j
    BY BelowCounts
<1>3. \A n \in 0..c - 1 : \E i \in K : f[i] = n
    <2> HIDE DEF f
    <2>1. QED
        BY <1>2, AllNumbers
<1>4. ASSUME NEW n \in 1..c
      PROVE  Nth(K, n) \in K /\ Cardinality(Below(K, Nth(K, n))) = n - 1
    <2>1. n - 1 \in 0..c - 1
        BY <1>1
    <2>2. PICK i \in K : Cardinality(Below(K, i)) = n - 1
        BY <1>3, <2>1
    <2>3. Cardinality({j \in K : j < i}) = n - 1
        BY <2>2 DEF Below
    <2>4. /\ Nth(K, n) \in K
          /\ Cardinality({j \in K : j < Nth(K, n)}) = n - 1
        BY <2>3 DEF Nth
    <2>5. QED
        BY <2>4 DEF Below
<1>5. ASSUME NEW m \in 1..c, NEW n \in 1..c, m < n PROVE Nth(K, m) < Nth(K, n)
    <2>1. /\ Nth(K, m) \in K /\ Nth(K, n) \in K
          /\ Cardinality(Below(K, Nth(K, m))) = m - 1
          /\ Cardinality(Below(K, Nth(K, n))) = n - 1
        BY <1>4
    <2> DEFINE a == Nth(K, m)
               b == Nth(K, n)
    <2>2. a \in Int /\ b \in Int /\ a \in K /\ b \in K
        BY <2>1
    <2>3. b < a => Cardinality(Below(K, b)) < Cardinality(Below(K, a))
        BY <2>2, BelowCounts
    <2> HIDE DEF a, b
    <2>4. a # b /\ ~(b < a)
        BY <1>5, <2>1, <2>3 DEF a, b
    <2>5. QED
        BY <2>2, <2>4 DEF a, b
<1>6. ASSUME NEW i \in K PROVE \E n \in 1..c : Nth(K, n) = i
    <2>1. Cardinality(Below(K, i)) \in 0..c - 1
        BY BelowCounts
    <2> DEFINE n == Cardinality(Below(K, i)) + 1
    <2>2. n \in 1..c /\ n - 1 = Cardinality(Below(K, i))
        BY <1>1, <2>1
    <2>3. /\ Nth(K, n) \in K
          /\ Cardinality(Below(K, Nth(K, n))) = Cardinality(Below(K, i))
        BY <1>4, <2>2
    <2>4. Nth(K, n) = i
        <3>1. \A a, b \in K : Cardinality(Below(K, a)) = Cardinality(Below(K, b)) => a = b
            BY BelowCounts
        <3>2. QED
            BY <2>3, <3>1, Zenon
    <2>5. QED
        BY <2>2, <2>4
<1>7. QED
    BY <1>1, <1>4, <1>5, <1>6

\* The places of a sequence.
LEMMA Places ==
    ASSUME NEW T, NEW s \in Seq(T)
    PROVE  /\ Len(s) \in Nat /\ DOMAIN s = 1..Len(s) /\ DOMAIN s \in SUBSET Int
           /\ IsFiniteSet(DOMAIN s) /\ Cardinality(DOMAIN s) = Len(s)
           /\ \A i \in DOMAIN s : s[i] \in T
<1> DEFINE l == Len(s)
<1>1. l \in Nat /\ DOMAIN s = 1..l
    BY LenProperties
<1>2. \A i \in DOMAIN s : s[i] \in T
    BY <1>1, ElementOfSeq
<1> HIDE DEF l
<1>3. IsFiniteSet(1..l) /\ Cardinality(1..l) = l
    BY <1>1, FS_Interval
<1>4. QED
    BY <1>1, <1>2, <1>3 DEF l

\* The part of a sequence has the entries at its places, in their order.
LEMMA WhatIsPart ==
    ASSUME NEW T, NEW s \in Seq(T), NEW S \in SUBSET DOMAIN s
    PROVE  LET p == Part(s, S) IN
           /\ p \in Seq(T) /\ Len(p) = Cardinality(S) /\ DOMAIN p = 1..Cardinality(S)
           /\ Cardinality(S) \in Nat
           /\ \A n \in DOMAIN p : Nth(S, n) \in S /\ p[n] = s[Nth(S, n)]
           /\ \A m, n \in DOMAIN p : m < n => Nth(S, m) < Nth(S, n)
           /\ \A i \in S : \E n \in DOMAIN p : Nth(S, n) = i
<1> DEFINE c == Cardinality(S)
           p == Part(s, S)
<1>1. S \in SUBSET Int /\ IsFiniteSet(S)
    <2>1. IsFiniteSet(DOMAIN s) /\ DOMAIN s \in SUBSET Int
        BY Places
    <2>2. QED
        BY <2>1, FS_Subset
<1>2. p = [n \in 1..c |-> s[Nth(S, n)]]
    BY DEF Part
<1>3. /\ c \in Nat
      /\ \A n \in 1..c : Nth(S, n) \in S
      /\ \A m, n \in 1..c : m < n => Nth(S, m) < Nth(S, n)
      /\ \A i \in S : \E n \in 1..c : Nth(S, n) = i
    BY <1>1, NthInOrder
<1>4. \A n \in 1..c : s[Nth(S, n)] \in T
    BY <1>3, Places
<1> HIDE DEF p
<1>5. p \in Seq(T) /\ DOMAIN p = 1..c /\ Len(p) = c
    <2> HIDE DEF c
    <2>1. p \in [1..c -> T]
        BY <1>2, <1>4
    <2>2. QED
        BY <1>3, <2>1
<1>6. QED
    BY <1>2, <1>3, <1>5 DEF p

\* Places that are known in their order are these places.
LEMMA PlacesInOrder ==
    ASSUME NEW S \in SUBSET Int, IsFiniteSet(S), NEW m \in Nat, NEW g \in [1..m -> S],
           \A i, j \in 1..m : i < j => g[i] < g[j],
           \A x \in S : \E i \in 1..m : g[i] = x
    PROVE  Cardinality(S) = m /\ \A n \in 1..m : Nth(S, n) = g[n]
<1>0. \A i \in 1..m : i \in Int /\ g[i] \in S /\ g[i] \in Int
    <2>1. \A x \in S : x \in Int
        OBVIOUS
    <2>2. \A i \in 1..m : g[i] \in S
        OBVIOUS
    <2>3. \A i \in 1..m : i \in Int
        OBVIOUS
    <2>4. QED
        BY <2>1, <2>2, <2>3, Zenon
<1>1. \A i, j \in 1..m : g[i] = g[j] => i = j
    <2>1. SUFFICES ASSUME NEW i \in 1..m, NEW j \in 1..m, g[i] = g[j], i # j PROVE FALSE
        OBVIOUS
    <2>2. g[i] \in Int /\ g[j] \in Int /\ i \in Int /\ j \in Int
        BY <1>0
    <2>3. i < j \/ j < i
        BY <2>1, <2>2
    <2>4. QED
        BY <2>1, <2>2, <2>3
<1>2. Cardinality(S) = m
    <2>1. ExistsBijection(1..m, S)
        BY <1>1 DEF ExistsBijection, Bijection, Injection, Surjection, IsInjective
    <2>2. QED
        BY <2>1, FS_CountingElements
<1>3. ASSUME NEW n \in 1..m PROVE Cardinality(Below(S, g[n])) = n - 1
    <2> DEFINE h == [i \in 1..(n - 1) |-> g[i]]
    <2>1. \A i \in 1..(n - 1) : i \in 1..m /\ g[i] \in Below(S, g[n])
        BY DEF Below
    <2>2. ASSUME NEW x \in Below(S, g[n]) PROVE \E i \in 1..(n - 1) : g[i] = x
        <3>1. PICK i \in 1..m : g[i] = x
            BY DEF Below
        <3>2. g[i] < g[n] /\ g[i] \in Int /\ g[n] \in Int /\ i \in Int /\ n \in Int
            BY <1>0, <3>1 DEF Below
        <3>3. ~(n < i) /\ n # i
            BY <3>2
        <3>4. QED
            BY <3>1, <3>2, <3>3
    <2>3. h \in Bijection(1..(n - 1), Below(S, g[n]))
        BY <1>1, <2>1, <2>2 DEF Bijection, Injection, Surjection, IsInjective
    <2>4. ExistsBijection(1..(n - 1), Below(S, g[n])) /\ n - 1 \in Nat
        BY <2>3 DEF ExistsBijection
    <2>5. QED
        BY <2>4, FS_CountingElements
<1>4. ASSUME NEW n \in 1..m PROVE Nth(S, n) = g[n]
    <2>1. Cardinality({j \in S : j < g[n]}) = n - 1 /\ g[n] \in S
        BY <1>3 DEF Below
    <2>2. Nth(S, n) \in S /\ Cardinality({j \in S : j < Nth(S, n)}) = n - 1
        BY <2>1 DEF Nth
    <2>3. Cardinality(Below(S, Nth(S, n))) = Cardinality(Below(S, g[n]))
        BY <1>3, <2>2 DEF Below
    <2>4. \A i, j \in S : Cardinality(Below(S, i)) = Cardinality(Below(S, j)) => i = j
        BY BelowCounts
    <2>5. QED
        BY <2>1, <2>2, <2>3, <2>4, Zenon
<1>5. QED
    BY <1>2, <1>4

-----------------------------------------------------------------------------
(* The log of a sensor's status *)

Running(log, i) == i \in DOMAIN log /\ log[i].flag = "RUNNING"

\* A timeout that is older than entry i, by the order of the log, and not younger than an age.
TimeoutBefore(log, i, age) ==
    \E k \in DOMAIN log : log[k].flag = "TIMEOUT" /\ Status!Before(log, k, i) /\ age <= log[k].age

\* Between two reports of which the later one starts anew is a timeout.
LogFits(log) ==
    \A i, j \in DOMAIN log :
      i < j /\ Running(log, i) /\ Running(log, j) /\ log[j].fresh => TimeoutBefore(log, i, log[j].age)

\* What a poll will remove is the oldest part of the log that it has read, and it starts
\* anew only after a timeout.
PollFits ==
    poll.pc = "checked" =>
      /\ \A i \in poll.drop, k \in DOMAIN status :
           Running(status, k) /\ Status!Before(status, i, k) => k \in poll.drop
      /\ poll.fresh => \A i \in DOMAIN status \ poll.drop :
                         Running(status, i) => TimeoutBefore(status, i, poll.age)

StatusTypes ==
    /\ status \in Seq(Status!Entries)
    /\ skew \in -ClockWindow..ClockWindow
    /\ poll \in [pc : {"none", "sent", "checked"}, age : Int, fresh : BOOLEAN, drop : SUBSET Int]
    /\ poll.drop \subseteq DOMAIN status
    /\ checker \in [TimeoutCheckers -> Int]

StatusInv == StatusTypes /\ LogFits(status) /\ PollFits

\* Numbers are counted in the same way there.
LEMMA SameCount == \A S : Status!Cardinality(S) = Cardinality(S)
BY DEF Status!Cardinality, Cardinality

LEMMA SamePart == \A s, S : Status!Part(s, S) = Part(s, S)
BY DEF Status!Part, Part, Status!Nth, Nth, Status!Cardinality, Cardinality

\* The entries of a log are ordered by their ages.
LEMMA Ordered ==
    ASSUME NEW log \in Seq(Status!Entries)
    PROVE  /\ Len(log) \in Nat /\ DOMAIN log = 1..Len(log) /\ IsFiniteSet(DOMAIN log)
           /\ \A i \in DOMAIN log : i \in Int /\ log[i] \in Status!Entries /\ log[i].age \in Int
           /\ \A i, j \in DOMAIN log : i # j => Status!Before(log, i, j) \/ Status!Before(log, j, i)
           /\ \A i \in DOMAIN log : ~Status!Before(log, i, i)
           /\ \A i, j, k \in DOMAIN log :
                Status!Before(log, i, j) /\ Status!Before(log, j, k) => Status!Before(log, i, k)
<1>1. Len(log) \in Nat /\ DOMAIN log = 1..Len(log)
    BY Places
<1>2. IsFiniteSet(DOMAIN log)
    BY Places
<1>3. ASSUME NEW i \in DOMAIN log
      PROVE  i \in Int /\ log[i] \in Status!Entries /\ log[i].age \in Int
    <2>1. i \in Int /\ log[i] \in Status!Entries
        BY <1>1
    <2>2. \A e \in Status!Entries : e.age \in Int
        BY DEF Status!Entries
    <2>3. QED
        BY <2>1, <2>2
<1>4. \A i, j \in DOMAIN log : i # j => Status!Before(log, i, j) \/ Status!Before(log, j, i)
    BY <1>3 DEF Status!Before
<1>5. \A i \in DOMAIN log : ~Status!Before(log, i, i)
    BY <1>3 DEF Status!Before
<1>6. ASSUME NEW i \in DOMAIN log, NEW j \in DOMAIN log, NEW k \in DOMAIN log,
             Status!Before(log, i, j), Status!Before(log, j, k)
      PROVE  Status!Before(log, i, k)
    <2>1. /\ i \in Int /\ j \in Int /\ k \in Int
          /\ log[i].age \in Int /\ log[j].age \in Int /\ log[k].age \in Int
        BY <1>3
    <2>2. QED
        BY <1>6, <2>1 DEF Status!Before
<1>7. QED
    BY <1>1, <1>2, <1>3, <1>4, <1>5, <1>6

\* What comes later in the order has more before it.
LEMMA RanksGrow ==
    ASSUME NEW log \in Seq(Status!Entries), NEW i \in DOMAIN log, NEW j \in DOMAIN log,
           Status!Before(log, i, j)
    PROVE  /\ Status!Rank(log, i) \in Nat /\ Status!Rank(log, j) \in Nat
           /\ Status!Rank(log, i) < Status!Rank(log, j)
<1> DEFINE first(n) == {k \in DOMAIN log : Status!Before(log, k, n)}
<1>1. first(i) \in SUBSET first(j) /\ i \in first(j) /\ i \notin first(i)
    BY Ordered
<1>2. IsFiniteSet(first(j))
    BY Ordered, FS_Subset
<1>3. Status!Rank(log, i) = Cardinality(first(i)) /\ Status!Rank(log, j) = Cardinality(first(j))
    BY SameCount DEF Status!Rank
<1>4. QED
    BY <1>1, <1>2, <1>3, Fewer

\* The last status is before all others.
LEMMA LastIsFirst ==
    ASSUME NEW log \in Seq(Status!Entries), log # <<>>
    PROVE  \E l \in DOMAIN log :
             /\ Status!LastStatus(log) = log[l]
             /\ \A j \in DOMAIN log : j # l => Status!Before(log, l, j)
<1> DEFINE D == DOMAIN log
           f == [i \in D |-> Status!Rank(log, i)]
<1>1. IsFiniteSet(D) /\ Cardinality(D) \in Nat /\ Cardinality(D) > 0 /\ D = 1..Len(log)
    <2>1. IsFiniteSet(D) /\ D = 1..Len(log) /\ Len(log) \in Nat
        BY Ordered
    <2>2. Len(log) > 0
        BY <2>1, EmptySeq
    <2>3. Cardinality(D) = Len(log)
        BY <2>1, <2>2, FS_Interval
    <2>4. QED
        BY <2>1, <2>2, <2>3
<1>2. ASSUME NEW i \in D PROVE Status!Rank(log, i) \in 0..Cardinality(D) - 1
    <2> DEFINE first == {k \in D : Status!Before(log, k, i)}
    <2>1. first \in SUBSET D /\ i \notin first
        BY Ordered
    <2>2. Status!Rank(log, i) = Cardinality(first)
        BY SameCount DEF Status!Rank
    <2>3. Cardinality(first) \in Nat /\ Cardinality(first) < Cardinality(D)
        BY <1>1, <2>1, Fewer
    <2>4. QED
        BY <1>1, <2>2, <2>3
<1>3. ASSUME NEW i \in D, NEW j \in D, f[i] = f[j] PROVE i = j
    <2>1. Status!Rank(log, i) = Status!Rank(log, j)
        BY <1>3
    <2>2. ~Status!Before(log, i, j) /\ ~Status!Before(log, j, i)
        <3>1. Status!Rank(log, i) \in Int
            BY <1>2
        <3>2. Status!Before(log, i, j) => Status!Rank(log, i) < Status!Rank(log, j)
            BY RanksGrow
        <3>3. Status!Before(log, j, i) => Status!Rank(log, j) < Status!Rank(log, i)
            BY RanksGrow
        <3>4. QED
            BY <2>1, <3>1, <3>2, <3>3
    <2>3. QED
        BY <2>2, Ordered
<1>4. f \in [D -> 0..Cardinality(D) - 1]
    BY <1>2
<1>5. \E i \in D : f[i] = 0
    <2>1. 0 \in 0..Cardinality(D) - 1
        BY <1>1
    <2> HIDE DEF f, D
    <2>2. IsFiniteSet(D) /\ \A i, j \in D : f[i] = f[j] => i = j
        BY <1>1, <1>3
    <2>3. \A n \in 0..Cardinality(D) - 1 : \E i \in D : f[i] = n
        BY <1>4, <2>2, AllNumbers
    <2>4. QED
        BY <2>1, <2>3
<1>6. PICK l \in D : Status!LastStatus(log) = log[l] /\ Status!Rank(log, l) = 0
    <2>1. \E i \in D : Status!Rank(log, i) = 0
        BY <1>5
    <2>2. QED
        BY <2>1 DEF Status!LastStatus
<1>7. ASSUME NEW j \in D, j # l PROVE Status!Before(log, l, j)
    <2>1. ~Status!Before(log, j, l)
        <3>1. SUFFICES ASSUME Status!Before(log, j, l) PROVE FALSE
            OBVIOUS
        <3>2. Status!Rank(log, j) \in Nat /\ Status!Rank(log, j) < Status!Rank(log, l)
            BY <3>1, RanksGrow
        <3>3. QED
            BY <1>6, <3>2
    <2>2. QED
        BY <1>7, <2>1, Ordered
<1>8. QED
    BY <1>6, <1>7

\* A log without some entries has the others, in the same order.
LEMMA WhatIsLeft ==
    ASSUME NEW log \in Seq(Status!Entries), NEW S \in SUBSET Int
    PROVE  LET rest == Status!Without(log, S)
               kept == DOMAIN log \ S IN
           /\ rest \in Seq(Status!Entries)
           /\ \A n \in DOMAIN rest : Nth(kept, n) \in kept /\ rest[n] = log[Nth(kept, n)]
           /\ \A m, n \in DOMAIN rest : m < n => Nth(kept, m) < Nth(kept, n)
           /\ \A i \in kept : \E n \in DOMAIN rest : Nth(kept, n) = i
<1>1. Status!Without(log, S) = Part(log, DOMAIN log \ S)
    BY SamePart DEF Status!Without
<1>2. DOMAIN log \ S \in SUBSET DOMAIN log
    OBVIOUS
<1> DEFINE K == DOMAIN log \ S
           p == Part(log, K)
<1>3. /\ p \in Seq(Status!Entries)
      /\ \A n \in DOMAIN p : Nth(K, n) \in K /\ p[n] = log[Nth(K, n)]
      /\ \A m, n \in DOMAIN p : m < n => Nth(K, m) < Nth(K, n)
      /\ \A i \in K : \E n \in DOMAIN p : Nth(K, n) = i
    <2>1. K \in SUBSET DOMAIN log
        BY <1>2
    <2> HIDE DEF K
    <2>2. QED
        BY <2>1, WhatIsPart
<1> HIDE DEF p
<1>4. QED
    BY <1>1, <1>3, Zenon DEF p

\* A log fits as long as its entries keep their order.
LEMMA SameOrder ==
    ASSUME NEW log \in Seq(Status!Entries), NEW new \in Seq(Status!Entries),
           DOMAIN new = DOMAIN log,
           \A i \in DOMAIN log : new[i].flag = log[i].flag /\ new[i].fresh = log[i].fresh,
           \A i, j \in DOMAIN log : log[i].age < log[j].age => new[i].age < new[j].age,
           \A i, j \in DOMAIN log : log[i].age = log[j].age => new[i].age = new[j].age
    PROVE  /\ \A i, j \in DOMAIN log : Status!Before(new, i, j) <=> Status!Before(log, i, j)
           /\ \A i, j \in DOMAIN log : log[i].age <= log[j].age => new[i].age <= new[j].age
           /\ LogFits(log) => LogFits(new)
<1>1. \A i \in DOMAIN log : log[i].age \in Int /\ new[i].age \in Int
    BY Ordered
<1>2. ASSUME NEW i \in DOMAIN log, NEW j \in DOMAIN log
      PROVE  /\ Status!Before(new, i, j) <=> Status!Before(log, i, j)
             /\ log[i].age <= log[j].age => new[i].age <= new[j].age
    <2>1. log[i].age \in Int /\ new[i].age \in Int /\ log[j].age \in Int /\ new[j].age \in Int
        BY <1>1
    <2>2. /\ log[i].age < log[j].age => new[i].age < new[j].age
          /\ log[j].age < log[i].age => new[j].age < new[i].age
          /\ log[i].age = log[j].age => new[i].age = new[j].age
        OBVIOUS
    <2>3. /\ log[i].age < log[j].age <=> new[i].age < new[j].age
          /\ log[i].age = log[j].age <=> new[i].age = new[j].age
        BY <2>1, <2>2
    <2>4. QED
        BY <2>1, <2>3 DEF Status!Before
<1>3. ASSUME LogFits(log) PROVE LogFits(new)
    <2>1. SUFFICES ASSUME NEW i \in DOMAIN log, NEW j \in DOMAIN log, i < j, Running(new, i),
                          Running(new, j), new[j].fresh
                   PROVE  TimeoutBefore(new, i, new[j].age)
        BY DEF LogFits
    <2>2. Running(log, i) /\ Running(log, j) /\ log[j].fresh
        BY <2>1 DEF Running
    <2>3. PICK k \in DOMAIN log : /\ log[k].flag = "TIMEOUT" /\ Status!Before(log, k, i)
                                  /\ log[j].age <= log[k].age
        BY <1>3, <2>1, <2>2 DEF LogFits, TimeoutBefore
    <2>4. QED
        BY <1>2, <2>3 DEF TimeoutBefore
<1>4. QED
    BY <1>2, <1>3

\* When time passes, ages grow, or stay old, and keep their order.
LEMMA GrowsInOrder ==
    ASSUME NEW ages \in SUBSET Int, IsFiniteSet(ages)
    PROVE  /\ \A a \in ages : Status!Grown(ages, a) \in Int
           /\ \A a, b \in ages : a < b => Status!Grown(ages, a) < Status!Grown(ages, b)
<1>1. Status!OldAge \in Int
    BY StatusAssumption DEF Status!OldAge
<1>2. ASSUME NEW a \in ages
      PROVE  /\ a \in Int /\ Cardinality(Below(ages, a)) \in Int
             /\ Status!Grown(ages, a) =
                  IF a + 1 > Status!OldAge + Cardinality(Below(ages, a))
                    THEN Status!OldAge + Cardinality(Below(ages, a)) ELSE a + 1
    <2>1. Cardinality(Below(ages, a)) \in 0..Cardinality(ages) - 1
        BY BelowCounts
    <2>2. Cardinality({x \in ages : x < a}) = Cardinality(Below(ages, a))
        BY DEF Below
    <2>3. QED
        BY <2>1, <2>2, SameCount DEF Status!Grown
<1>3. ASSUME NEW a \in ages, NEW b \in ages, a < b
      PROVE  Status!Grown(ages, a) < Status!Grown(ages, b)
    <2>1. Cardinality(Below(ages, a)) < Cardinality(Below(ages, b))
        BY <1>3, BelowCounts
    <2>2. QED
        BY <1>1, <1>2, <1>3, <2>1
<1>4. QED
    BY <1>1, <1>2, <1>3

\* The entries of a log grow with the ages that there are.
LEMMA GrowingOlder ==
    ASSUME NEW log \in Seq(Status!Entries), NEW ages \in SUBSET Int, IsFiniteSet(ages),
           \A i \in DOMAIN log : log[i].age \in ages
    PROVE  LET new == Status!Older(log, ages) IN
           /\ new \in Seq(Status!Entries) /\ DOMAIN new = DOMAIN log
           /\ \A i \in DOMAIN log : /\ new[i].flag = log[i].flag /\ new[i].fresh = log[i].fresh
                                    /\ new[i].age = Status!Grown(ages, log[i].age)
<1> DEFINE new == Status!Older(log, ages)
           Age(i) == Status!Grown(ages, log[i].age)
<1>1. DOMAIN log = 1..Len(log) /\ Len(log) \in Nat
    BY Ordered
<1>2. new = [i \in DOMAIN log |-> [log[i] EXCEPT !.age = Age(i)]]
    BY DEF Status!Older
<1>3. \A i \in DOMAIN log : Age(i) \in Int /\ log[i] \in Status!Entries
    BY GrowsInOrder, Ordered
<1> HIDE DEF new, Age
<1>4. ASSUME NEW i \in DOMAIN log
      PROVE  /\ new[i] \in Status!Entries /\ new[i].age = Age(i)
             /\ new[i].flag = log[i].flag /\ new[i].fresh = log[i].fresh
    BY <1>2, <1>3 DEF Status!Entries
<1>5. DOMAIN new = DOMAIN log
    BY <1>2
<1>6. new \in Seq(Status!Entries)
    <2>1. new = [i \in 1..Len(log) |-> new[i]] /\ \A i \in 1..Len(log) : new[i] \in Status!Entries
        BY <1>1, <1>2, <1>4
    <2>2. new \in [1..Len(log) -> Status!Entries]
        BY <2>1
    <2>3. QED
        BY <1>1, <2>2
<1>7. QED
    BY <1>4, <1>5, <1>6 DEF new, Age

\* What is added to a log leaves the others as they are, and in their order.
LEMMA Added ==
    ASSUME NEW log \in Seq(Status!Entries), NEW e \in Status!Entries
    PROVE  LET new == Append(log, e) IN
           /\ new \in Seq(Status!Entries) /\ DOMAIN new = DOMAIN log \cup {Len(log) + 1}
           /\ Len(log) + 1 \notin DOMAIN log /\ new[Len(log) + 1] = e
           /\ \A i \in DOMAIN log : i < Len(log) + 1 /\ new[i] = log[i]
           /\ \A i, j \in DOMAIN log : Status!Before(new, i, j) <=> Status!Before(log, i, j)
           /\ \A i \in DOMAIN log, age \in Int :
                TimeoutBefore(log, i, age) => TimeoutBefore(new, i, age)
<1> DEFINE new == Append(log, e)
<1>1. /\ new \in Seq(Status!Entries) /\ DOMAIN new = DOMAIN log \cup {Len(log) + 1}
      /\ Len(log) + 1 \notin DOMAIN log /\ new[Len(log) + 1] = e
      /\ \A i \in DOMAIN log : i < Len(log) + 1 /\ new[i] = log[i]
    BY AppendProperties, LenProperties
<1> HIDE DEF new
<1>2. \A i, j \in DOMAIN log : Status!Before(new, i, j) <=> Status!Before(log, i, j)
    BY <1>1 DEF Status!Before
<1>3. ASSUME NEW i \in DOMAIN log, NEW age \in Int, TimeoutBefore(log, i, age)
      PROVE  TimeoutBefore(new, i, age)
    BY <1>1, <1>2, <1>3 DEF TimeoutBefore
<1>4. QED
    BY <1>1, <1>2, <1>3 DEF new

\* A log still fits with an entry that starts nothing anew, or only after a timeout.
LEMMA FitsWithMore ==
    ASSUME NEW log \in Seq(Status!Entries), LogFits(log), NEW e \in Status!Entries,
           e.flag = "RUNNING" /\ e.fresh =>
             \A i \in DOMAIN log : Running(log, i) => TimeoutBefore(log, i, e.age)
    PROVE  LogFits(Append(log, e))
<1> DEFINE new == Append(log, e)
           last == Len(log) + 1
<1>1. /\ DOMAIN new = DOMAIN log \cup {last} /\ last \notin DOMAIN log /\ new[last] = e
      /\ \A i \in DOMAIN log : i < last /\ new[i] = log[i]
      /\ \A i \in DOMAIN log, age \in Int :
           TimeoutBefore(log, i, age) => TimeoutBefore(new, i, age)
    BY Added
<1>2. \A i \in DOMAIN log : i \in Int /\ log[i].age \in Int
    BY Ordered
<1>3. last \in Int /\ e.age \in Int
    BY Ordered DEF Status!Entries
<1> HIDE DEF new, last
<1>4. SUFFICES ASSUME NEW i \in DOMAIN new, NEW j \in DOMAIN new, i < j, Running(new, i),
                      Running(new, j), new[j].fresh
               PROVE  TimeoutBefore(new, i, new[j].age)
    BY DEF LogFits, new
<1>5. i \in DOMAIN log /\ Running(log, i)
    BY <1>1, <1>2, <1>3, <1>4 DEF Running
<1>6. CASE j \in DOMAIN log
    <2>1. Running(log, j) /\ log[j].fresh /\ new[j].age = log[j].age /\ log[j].age \in Int
        BY <1>1, <1>2, <1>4, <1>6 DEF Running
    <2>2. TimeoutBefore(log, i, log[j].age)
        BY <1>4, <1>5, <1>6, <2>1 DEF LogFits
    <2>3. QED
        BY <1>1, <1>5, <2>1, <2>2
<1>7. CASE j = last
    <2>1. e.flag = "RUNNING" /\ e.fresh /\ new[j].age = e.age
        BY <1>1, <1>4, <1>7 DEF Running
    <2>2. TimeoutBefore(log, i, e.age)
        BY <1>5, <2>1
    <2>3. QED
        BY <1>1, <1>3, <1>5, <2>1, <2>2
<1>8. QED
    BY <1>1, <1>6, <1>7

\* When the oldest part is removed, the timeouts before what is left are left, too.
LEMMA FitsWithLess ==
    ASSUME NEW log \in Seq(Status!Entries), NEW S \in SUBSET DOMAIN log,
           \A i \in S, k \in DOMAIN log : Running(log, k) /\ Status!Before(log, i, k) => k \in S
    PROVE  LET rest == Status!Without(log, S) IN
           /\ \A age \in Int :
                (\A i \in DOMAIN log \ S : Running(log, i) => TimeoutBefore(log, i, age))
                  => \A n \in DOMAIN rest : Running(rest, n) => TimeoutBefore(rest, n, age)
           /\ LogFits(log) => LogFits(rest)
<1> DEFINE rest == Status!Without(log, S)
           kept == DOMAIN log \ S
           at(n) == Nth(kept, n)
<1>1. /\ rest \in Seq(Status!Entries)
      /\ \A n \in DOMAIN rest : at(n) \in kept /\ rest[n] = log[at(n)]
      /\ \A m, n \in DOMAIN rest : m < n => at(m) < at(n)
      /\ \A i \in kept : \E n \in DOMAIN rest : at(n) = i
    <2>1. S \in SUBSET Int
        BY Ordered
    <2>2. QED
        BY <2>1, WhatIsLeft
<1>2. /\ \A i \in kept : i \in DOMAIN log /\ i \notin S /\ i \in Int /\ log[i].age \in Int
      /\ \A n \in DOMAIN rest : n \in Int
    BY <1>1, Ordered
<1> HIDE DEF rest, kept, at
<1>3. ASSUME NEW m \in DOMAIN rest, NEW n \in DOMAIN rest, Status!Before(log, at(m), at(n))
      PROVE  Status!Before(rest, m, n)
    <2>1. /\ at(m) \in Int /\ at(n) \in Int /\ m \in Int /\ n \in Int
          /\ rest[m] = log[at(m)] /\ rest[n] = log[at(n)]
        BY <1>1, <1>2
    <2>2. at(m) < at(n) => m < n
        <3>1. n < m => at(n) < at(m)
            BY <1>1
        <3>2. m = n => at(m) = at(n)
            OBVIOUS
        <3>3. QED
            BY <2>1, <3>1, <3>2
    <2>3. QED
        BY <1>3, <2>1, <2>2 DEF Status!Before
<1>4. ASSUME NEW n \in DOMAIN rest, NEW age \in Int, Running(log, at(n)),
             TimeoutBefore(log, at(n), age)
      PROVE  TimeoutBefore(rest, n, age)
    <2>1. PICK k \in DOMAIN log : /\ log[k].flag = "TIMEOUT" /\ Status!Before(log, k, at(n))
                                  /\ age <= log[k].age
        BY <1>4 DEF TimeoutBefore
    <2>2. at(n) \in DOMAIN log /\ at(n) \notin S
        BY <1>1, <1>2
    <2>3. k \in kept
        BY <1>4, <2>1, <2>2 DEF kept
    <2>4. PICK m \in DOMAIN rest : at(m) = k
        BY <1>1, <2>3
    <2>5. Status!Before(rest, m, n)
        BY <1>3, <2>1, <2>4
    <2>6. rest[m] = log[k]
        BY <1>1, <2>4
    <2>7. QED
        BY <2>1, <2>5, <2>6 DEF TimeoutBefore
<1>5. ASSUME NEW n \in DOMAIN rest, Running(rest, n) PROVE Running(log, at(n)) /\ at(n) \in kept
    BY <1>1, <1>2, <1>5 DEF Running
<1>6. ASSUME NEW age \in Int,
             \A i \in DOMAIN log \ S : Running(log, i) => TimeoutBefore(log, i, age),
             NEW n \in DOMAIN rest, Running(rest, n)
      PROVE  TimeoutBefore(rest, n, age)
    <2>1. TimeoutBefore(log, at(n), age) /\ Running(log, at(n))
        BY <1>5, <1>6 DEF kept
    <2>2. QED
        BY <1>4, <2>1
<1>7. ASSUME LogFits(log) PROVE LogFits(rest)
    <2>1. SUFFICES ASSUME NEW i \in DOMAIN rest, NEW j \in DOMAIN rest, i < j, Running(rest, i),
                          Running(rest, j), rest[j].fresh
                   PROVE  TimeoutBefore(rest, i, rest[j].age)
        BY DEF LogFits
    <2>2. Running(log, at(i)) /\ at(i) \in kept /\ Running(log, at(j)) /\ at(j) \in kept
        BY <1>5, <2>1
    <2>3. at(i) < at(j) /\ rest[j] = log[at(j)]
        BY <1>1, <2>1
    <2>4. TimeoutBefore(log, at(i), log[at(j)].age)
        BY <1>2, <1>7, <2>1, <2>2, <2>3 DEF LogFits
    <2>5. QED
        BY <1>2, <1>4, <2>2, <2>3, <2>4
<1>8. QED
    BY <1>6, <1>7 DEF rest

-----------------------------------------------------------------------------
(* The steps *)

\* While the log and the poll stay as they are, so does what is said of them.
LEMMA NothingWritten ==
    ASSUME StatusInv, status' = status, poll' = poll, skew' \in -ClockWindow..ClockWindow,
           checker' \in [TimeoutCheckers -> Int]
    PROVE  StatusInv'
BY DEF StatusInv, StatusTypes, LogFits, PollFits, TimeoutBefore, Running

\* A poll that has not been read promises nothing.
LEMMA NothingRead ==
    ASSUME StatusInv, status' \in Seq(Status!Entries), LogFits(status'), skew' = skew,
           checker' = checker,
           poll' \in [pc : {"none", "sent", "checked"}, age : Int, fresh : BOOLEAN, drop : SUBSET Int],
           poll'.pc # "checked", poll'.drop = {}
    PROVE  StatusInv'
BY DEF StatusInv, StatusTypes, LogFits, PollFits, TimeoutBefore, Running

LEMMA NoPollType ==
    Status!NoPoll \in [pc : {"none", "sent", "checked"}, age : Int, fresh : BOOLEAN, drop : SUBSET Int]
BY DEF Status!NoPoll

LEMMA SendStep == StatusInv /\ Status!Send => StatusInv'
<1> SUFFICES ASSUME StatusInv, Status!Send PROVE StatusInv'
    OBVIOUS
<1>1. -skew \in Int
    BY StatusAssumption DEF StatusInv, StatusTypes
<1>2. poll' = [pc |-> "sent", age |-> -skew, fresh |-> FALSE, drop |-> {}]
    BY DEF Status!Send, Status!NoPoll
<1>3. status' = status /\ LogFits(status') /\ skew' = skew /\ checker' = checker
    BY DEF Status!Send, StatusInv
<1>4. QED
    BY <1>1, <1>2, <1>3, NothingRead DEF StatusInv, StatusTypes

\* A poll that ends, refused or lost.
LEMMA FailStep == StatusInv /\ Status!Fails => StatusInv'
<1> SUFFICES ASSUME StatusInv, Status!Fails PROVE StatusInv'
    OBVIOUS
<1>1. status' = status /\ LogFits(status') /\ skew' = skew /\ checker' = checker
    BY DEF Status!Fails, StatusInv
<1>2. poll' = Status!NoPoll /\ Status!NoPoll.pc = "none" /\ Status!NoPoll.drop = {}
    BY DEF Status!Fails, Status!NoPoll
<1>3. QED
    BY <1>1, <1>2, NoPollType, NothingRead DEF StatusInv, StatusTypes

\* What has been read of the log is what PollFits says.
LEMMA AcceptStep == StatusInv /\ Status!Accept => StatusInv'
<1> SUFFICES ASSUME StatusInv, Status!Accept PROVE StatusInv'
    OBVIOUS
<1> DEFINE fresh == status = <<>> \/ Status!LastStatus(status).flag = "TIMEOUT"
           new == [age |-> poll.age, flag |-> "RUNNING", fresh |-> fresh]
           log == Append(status, new)
           last == Len(status) + 1
           drop == Status!ToRemove(log) \ {last}
<1>1. /\ status \in Seq(Status!Entries) /\ poll.age \in Int /\ fresh \in BOOLEAN
      /\ new \in Status!Entries
    <2>1. fresh \in BOOLEAN
        OBVIOUS
    <2> HIDE DEF fresh
    <2>2. QED
        BY <2>1 DEF StatusInv, StatusTypes, Status!Entries
<1>2. /\ status' = status /\ skew' = skew /\ checker' = checker
      /\ poll' = [poll EXCEPT !.pc = "checked", !.fresh = fresh, !.drop = drop]
      /\ poll.pc = "sent" /\ poll.age \in -ClockWindow..ClockWindow
      /\ Status!Acceptable(poll.age, status)
    BY DEF Status!Accept
<1> HIDE DEF new
<1>3. /\ log \in Seq(Status!Entries) /\ DOMAIN log = DOMAIN status \cup {last}
      /\ last \notin DOMAIN status
      /\ \A i, j \in DOMAIN status : Status!Before(log, i, j) <=> Status!Before(status, i, j)
    BY <1>1, Added
<1> HIDE DEF log, last
<1>4. drop \subseteq DOMAIN status
    BY <1>3 DEF Status!ToRemove
<1>5. ASSUME NEW i \in drop, NEW k \in DOMAIN status, Status!Before(status, i, k)
      PROVE  k \in drop
    <2>1. /\ i \in DOMAIN status /\ i \in DOMAIN log /\ k \in DOMAIN log /\ k # last
          /\ Status!Before(log, i, k)
        BY <1>3, <1>4, <1>5
    <2>2. Status!Rank(log, i) >= KeptEntries
        BY DEF Status!ToRemove
    <2>3. /\ Status!Rank(log, i) \in Nat /\ Status!Rank(log, k) \in Nat
          /\ Status!Rank(log, i) < Status!Rank(log, k)
        BY <1>3, <2>1, RanksGrow
    <2>4. Status!Rank(log, k) >= KeptEntries
        BY <2>2, <2>3, StatusAssumption
    <2>5. QED
        BY <2>1, <2>4 DEF Status!ToRemove
<1>6. ASSUME fresh, NEW i \in DOMAIN status, Running(status, i)
      PROVE  TimeoutBefore(status, i, poll.age)
    <2>1. status # <<>>
        BY <1>6, EmptySeq DEF Running
    <2>2. PICK l \in DOMAIN status :
            /\ Status!LastStatus(status) = status[l]
            /\ \A j \in DOMAIN status : j # l => Status!Before(status, l, j)
        BY <1>1, <2>1, LastIsFirst
    <2>3. status[l].flag = "TIMEOUT"
        BY <1>6, <2>1, <2>2
    <2>4. i # l
        BY <1>6, <2>3 DEF Running
    <2>5. poll.age <= status[l].age
        BY <1>2, <2>1, <2>2 DEF Status!Acceptable
    <2>6. QED
        BY <2>2, <2>3, <2>4, <2>5 DEF TimeoutBefore
<1> HIDE DEF fresh, drop
<1>7. /\ poll'.pc = "checked" /\ poll'.age = poll.age /\ poll'.fresh = fresh /\ poll'.drop = drop
      /\ poll' \in [pc : {"none", "sent", "checked"}, age : Int, fresh : BOOLEAN, drop : SUBSET Int]
    <2>1. drop \in SUBSET Int
        BY <1>1, <1>4, Ordered
    <2>2. poll \in [pc : {"none", "sent", "checked"}, age : Int, fresh : BOOLEAN, drop : SUBSET Int]
        BY DEF StatusInv, StatusTypes
    <2>3. QED
        BY <1>1, <1>2, <2>1, <2>2
<1>8. StatusTypes'
    BY <1>1, <1>2, <1>4, <1>7 DEF StatusInv, StatusTypes
<1>9. PollFits'
    <2>1. \A i \in poll'.drop, k \in DOMAIN status' :
            Running(status', k) /\ Status!Before(status', i, k) => k \in poll'.drop
        BY <1>2, <1>5, <1>7
    <2>2. poll'.fresh => \A i \in DOMAIN status' \ poll'.drop :
                           Running(status', i) => TimeoutBefore(status', i, poll'.age)
        BY <1>2, <1>6, <1>7
    <2>3. QED
        BY <2>1, <2>2 DEF PollFits
<1>10. QED
    BY <1>2, <1>8, <1>9 DEF StatusInv

\* What is written fits whatever was added since the log was read.
LEMMA RecordStep == StatusInv /\ Status!Record => StatusInv'
<1> SUFFICES ASSUME StatusInv, Status!Record PROVE StatusInv'
    OBVIOUS
<1> DEFINE rest == Status!Without(status, poll.drop)
           e == [age |-> poll.age, flag |-> "RUNNING", fresh |-> poll.fresh]
<1>1. /\ poll.pc = "checked" /\ status' = Append(rest, e) /\ poll' = Status!NoPoll
      /\ skew' = skew /\ checker' = checker
    BY DEF Status!Record
<1>2. /\ status \in Seq(Status!Entries) /\ poll.age \in Int /\ poll.fresh \in BOOLEAN
      /\ poll.drop \in SUBSET DOMAIN status /\ poll.drop \in SUBSET Int
      /\ e \in Status!Entries
    BY DEF StatusInv, StatusTypes, Status!Entries
<1>3. rest \in Seq(Status!Entries)
    BY <1>2, WhatIsLeft
<1>4. /\ LogFits(rest)
      /\ poll.fresh => \A n \in DOMAIN rest : Running(rest, n) => TimeoutBefore(rest, n, poll.age)
    <2>1. /\ \A i \in poll.drop, k \in DOMAIN status :
               Running(status, k) /\ Status!Before(status, i, k) => k \in poll.drop
          /\ poll.fresh => \A i \in DOMAIN status \ poll.drop :
                             Running(status, i) => TimeoutBefore(status, i, poll.age)
        BY <1>1 DEF StatusInv, PollFits
    <2>2. LogFits(status)
        BY DEF StatusInv
    <2> HIDE DEF rest
    <2>3. /\ \A age \in Int :
               (\A i \in DOMAIN status \ poll.drop : Running(status, i) => TimeoutBefore(status, i, age))
                 => \A n \in DOMAIN rest : Running(rest, n) => TimeoutBefore(rest, n, age)
          /\ LogFits(status) => LogFits(rest)
        BY <1>2, <2>1, FitsWithLess DEF rest
    <2>4. QED
        BY <1>2, <2>1, <2>2, <2>3
<1>5. e.flag = "RUNNING" /\ e.age = poll.age /\ e.fresh = poll.fresh
    OBVIOUS
<1> HIDE DEF rest, e
<1>6. status' \in Seq(Status!Entries) /\ LogFits(status')
    BY <1>1, <1>2, <1>3, <1>4, <1>5, FitsWithMore, AppendProperties
<1>7. poll'.pc = "none" /\ poll'.drop = {}
    BY <1>1 DEF Status!NoPoll
<1>8. QED
    BY <1>1, <1>6, <1>7, NoPollType, NothingRead

\* A timeout that is added late still fits.
LEMMA TimeoutStep ==
    StatusInv /\ (\E c \in TimeoutCheckers : Status!AddTimeout(c)) => StatusInv'
<1> SUFFICES ASSUME StatusInv, NEW c \in TimeoutCheckers, Status!AddTimeout(c) PROVE StatusInv'
    OBVIOUS
<1> DEFINE e == [age |-> checker[c], flag |-> "TIMEOUT", fresh |-> FALSE]
           last == Len(status) + 1
<1>1. /\ status' = Append(status, e) /\ checker' = [checker EXCEPT ![c] = -1]
      /\ skew' = skew /\ poll' = poll
    BY DEF Status!AddTimeout, Status!Free
<1>2. /\ status \in Seq(Status!Entries) /\ e \in Status!Entries /\ e.flag = "TIMEOUT"
      /\ checker' \in [TimeoutCheckers -> Int]
    BY <1>1 DEF StatusInv, StatusTypes, Status!Entries
<1> HIDE DEF e
<1>3. /\ status' \in Seq(Status!Entries) /\ DOMAIN status' = DOMAIN status \cup {last}
      /\ status'[last] = e
      /\ \A i \in DOMAIN status : status'[i] = status[i]
      /\ \A i, j \in DOMAIN status : Status!Before(status', i, j) <=> Status!Before(status, i, j)
      /\ \A i \in DOMAIN status, age \in Int :
           TimeoutBefore(status, i, age) => TimeoutBefore(status', i, age)
    BY <1>1, <1>2, Added
<1>4. LogFits(status')
    BY <1>1, <1>2, FitsWithMore DEF StatusInv
<1>5. ASSUME NEW k \in DOMAIN status', Running(status', k)
      PROVE  k \in DOMAIN status /\ Running(status, k)
    BY <1>2, <1>3, <1>5 DEF Running
<1>6. StatusTypes'
    BY <1>1, <1>2, <1>3 DEF StatusInv, StatusTypes
<1>7. PollFits'
    <2>1. SUFFICES ASSUME poll.pc = "checked"
                   PROVE  /\ \A i \in poll.drop, k \in DOMAIN status' :
                               Running(status', k) /\ Status!Before(status', i, k) => k \in poll.drop
                          /\ poll.fresh => \A i \in DOMAIN status' \ poll.drop :
                               Running(status', i) => TimeoutBefore(status', i, poll.age)
        BY <1>1 DEF PollFits
    <2>2. /\ \A i \in poll.drop, k \in DOMAIN status :
               Running(status, k) /\ Status!Before(status, i, k) => k \in poll.drop
          /\ poll.fresh => \A i \in DOMAIN status \ poll.drop :
                             Running(status, i) => TimeoutBefore(status, i, poll.age)
          /\ poll.drop \subseteq DOMAIN status /\ poll.age \in Int
        BY <2>1 DEF StatusInv, StatusTypes, PollFits
    <2>3. QED
        BY <1>3, <1>5, <2>2
<1>8. QED
    BY <1>4, <1>6, <1>7 DEF StatusInv

\* The order stays, that of the entries and that of the poll among them.
LEMMA TickStep == StatusInv /\ Status!Tick => StatusInv'
<1> SUFFICES ASSUME StatusInv, Status!Tick PROVE StatusInv'
    OBVIOUS
<1> DEFINE ages == Status!Seen
           Age(a) == Status!Grown(ages, a)
<1>1. /\ status \in Seq(Status!Entries) /\ poll.age \in Int
      /\ poll \in [pc : {"none", "sent", "checked"}, age : Int, fresh : BOOLEAN, drop : SUBSET Int]
      /\ poll.drop \subseteq DOMAIN status /\ LogFits(status)
    BY DEF StatusInv, StatusTypes
<1>2. /\ status' = Status!Older(status, ages) /\ skew' = skew
      /\ poll' = IF poll.pc = "none" THEN poll ELSE [poll EXCEPT !.age = Age(@)]
    BY DEF Status!Tick
<1>3. /\ ages \in SUBSET Int /\ IsFiniteSet(ages) /\ poll.age \in ages
      /\ \A i \in DOMAIN status : status[i].age \in ages
    <2> DEFINE f == [i \in DOMAIN status |-> status[i].age]
               S == {status[i].age : i \in DOMAIN status}
    <2>1. f \in Surjection(DOMAIN status, S)
        BY DEF Surjection
    <2>2. S \in SUBSET Int /\ IsFiniteSet(DOMAIN status)
        BY <1>1, Ordered
    <2>3. ages = S \cup {poll.age} /\ \A i \in DOMAIN status : status[i].age \in S
        BY DEF Status!Seen
    <2> HIDE DEF f, S, ages
    <2>4. IsFiniteSet(S)
        BY <2>1, <2>2, FS_Surjection
    <2>5. IsFiniteSet(ages)
        BY <2>3, <2>4, FS_AddElement
    <2>6. QED
        BY <1>1, <2>2, <2>3, <2>5
<1>4. checker' \in [TimeoutCheckers -> Int]
    <2>1. checker \in [TimeoutCheckers -> Int]
        BY DEF StatusInv, StatusTypes
    <2>2. checker' = [c \in TimeoutCheckers |-> IF checker[c] = -1 THEN -1 ELSE checker[c] + 1]
        BY DEF Status!Tick, Status!Free
    <2>3. QED
        BY <2>1, <2>2
<1> HIDE DEF ages
<1>5. /\ \A a \in ages : a \in Int /\ Age(a) \in Int
      /\ \A a, b \in ages : a < b => Age(a) < Age(b)
      /\ \A a, b \in ages : a <= b => Age(a) <= Age(b)
    <2>1. /\ \A a \in ages : a \in Int /\ Age(a) \in Int
          /\ \A a, b \in ages : a < b => Age(a) < Age(b)
        BY <1>3, GrowsInOrder
    <2>2. ASSUME NEW a \in ages, NEW b \in ages, a <= b PROVE Age(a) <= Age(b)
        <3> HIDE DEF Age
        <3>1. CASE a = b
            BY <2>1, <3>1
        <3>2. CASE a < b
            BY <2>1, <3>2
        <3>3. QED
            BY <2>1, <2>2, <3>1, <3>2
    <2>3. QED
        BY <2>1, <2>2
<1>6. /\ status' \in Seq(Status!Entries) /\ DOMAIN status' = DOMAIN status
      /\ \A i \in DOMAIN status : /\ status'[i].flag = status[i].flag
                                  /\ status'[i].fresh = status[i].fresh
                                  /\ status'[i].age = Age(status[i].age)
    BY <1>1, <1>2, <1>3, GrowingOlder
<1> HIDE DEF Age
<1>7. /\ \A i, j \in DOMAIN status : Status!Before(status', i, j) <=> Status!Before(status, i, j)
      /\ LogFits(status')
    <2>1. /\ \A i, j \in DOMAIN status : status[i].age < status[j].age => status'[i].age < status'[j].age
          /\ \A i, j \in DOMAIN status : status[i].age = status[j].age => status'[i].age = status'[j].age
        BY <1>3, <1>5, <1>6
    <2>2. QED
        BY <1>1, <1>6, <2>1, SameOrder
<1>8. \A i \in DOMAIN status : Running(status', i) <=> Running(status, i)
    BY <1>6 DEF Running
<1>9. /\ poll' \in [pc : {"none", "sent", "checked"}, age : Int, fresh : BOOLEAN, drop : SUBSET Int]
      /\ poll'.pc = poll.pc /\ poll'.fresh = poll.fresh /\ poll'.drop = poll.drop
      /\ poll.pc # "none" => poll'.age = Age(poll.age)
    BY <1>1, <1>2, <1>3, <1>5
<1>10. StatusTypes'
    BY <1>1, <1>2, <1>4, <1>6, <1>9 DEF StatusInv, StatusTypes
<1>11. ASSUME poll.pc = "checked", NEW i \in DOMAIN status, TimeoutBefore(status, i, poll.age)
       PROVE  TimeoutBefore(status', i, poll'.age)
    <2>1. PICK k \in DOMAIN status : /\ status[k].flag = "TIMEOUT" /\ Status!Before(status, k, i)
                                     /\ poll.age <= status[k].age
        BY <1>11 DEF TimeoutBefore
    <2>2. poll'.age <= status'[k].age
        BY <1>3, <1>5, <1>6, <1>9, <1>11, <2>1
    <2>3. QED
        BY <1>6, <1>7, <2>1, <2>2 DEF TimeoutBefore
<1>12. PollFits'
    <2>1. SUFFICES ASSUME poll.pc = "checked"
                   PROVE  /\ \A i \in poll.drop, k \in DOMAIN status :
                               Running(status', k) /\ Status!Before(status', i, k) => k \in poll.drop
                          /\ poll.fresh => \A i \in DOMAIN status \ poll.drop :
                               Running(status', i) => TimeoutBefore(status', i, poll'.age)
        BY <1>6, <1>9 DEF PollFits
    <2>2. /\ \A i \in poll.drop, k \in DOMAIN status :
               Running(status, k) /\ Status!Before(status, i, k) => k \in poll.drop
          /\ poll.fresh => \A i \in DOMAIN status \ poll.drop :
                             Running(status, i) => TimeoutBefore(status, i, poll.age)
        BY <2>1 DEF StatusInv, PollFits
    <2>3. QED
        BY <1>1, <1>7, <1>8, <1>11, <2>1, <2>2
<1>13. QED
    BY <1>7, <1>10, <1>12 DEF StatusInv

LEMMA StatusInitially == Status!Init => StatusInv
<1> SUFFICES ASSUME Status!Init PROVE StatusInv
    OBVIOUS
<1>1. status = <<>> /\ DOMAIN status = {} /\ status \in Seq(Status!Entries)
    BY EmptySeq DEF Status!Init
<1>2. StatusTypes
    BY <1>1, StatusAssumption, NoPollType DEF Status!Init, Status!NoPoll, Status!Free, StatusTypes
<1>3. LogFits(status) /\ PollFits
    BY <1>1 DEF Status!Init, Status!NoPoll, LogFits, PollFits
<1>4. QED
    BY <1>2, <1>3 DEF StatusInv

LEMMA StatusStep == StatusInv /\ [Status!Next]_(Status!vars) => StatusInv'
<1> SUFFICES ASSUME StatusInv, [Status!Next]_(Status!vars) PROVE StatusInv'
    OBVIOUS
<1>1. skew \in -ClockWindow..ClockWindow /\ checker \in [TimeoutCheckers -> Int]
    BY DEF StatusInv, StatusTypes
<1>2. CASE Status!Send
    BY <1>2, SendStep
<1>3. CASE Status!Refuse
    BY <1>3, FailStep DEF Status!Refuse
<1>4. CASE Status!Accept
    BY <1>4, AcceptStep
<1>5. CASE Status!Record
    BY <1>5, RecordStep
<1>6. CASE Status!PollLost
    BY <1>6, FailStep DEF Status!PollLost
<1>7. CASE \E c \in TimeoutCheckers : Status!Check(c)
    <2>1. /\ status' = status /\ poll' = poll /\ skew' = skew
          /\ checker' \in [TimeoutCheckers -> Int]
        BY <1>1, <1>7 DEF Status!Check
    <2>2. QED
        BY <1>1, <2>1, NothingWritten
<1>8. CASE \E c \in TimeoutCheckers : Status!AddTimeout(c)
    BY <1>8, TimeoutStep
<1>9. CASE Status!Tick
    BY <1>9, TickStep
<1>10. CASE Status!ChangeClock
    BY <1>1, <1>10, NothingWritten DEF Status!ChangeClock
<1>11. CASE Status!Stop
    BY <1>1, <1>11, NothingWritten DEF Status!Stop
<1>12. CASE Status!Start
    BY <1>1, <1>12, NothingWritten DEF Status!Start
<1>13. CASE UNCHANGED Status!vars
    BY <1>1, <1>13, NothingWritten DEF Status!vars
<1>14. QED
    BY <1>2, <1>3, <1>4, <1>5, <1>6, <1>7, <1>8, <1>9, <1>10, <1>11, <1>12, <1>13
    DEF Status!Next, Status!Polling

\* runningSince of a report starts anew only if there is a timeout between it and the
\* reports before: for any intervals, any number of entries that a poll leaves and any number of
\* checkers, however long polls and checkers are held up.
THEOREM SinceStartsAnew == Status!Spec => []SinceStartsAfterTimeout
<1>1. StatusInv => SinceStartsAfterTimeout
    <2>1. SUFFICES ASSUME StatusInv, NEW i \in DOMAIN status, NEW j \in DOMAIN status, i < j,
                          status[i].flag = "RUNNING", status[j].flag = "RUNNING", status[j].fresh
                   PROVE  \E k \in DOMAIN status : /\ status[k].flag = "TIMEOUT"
                                                   /\ status[k].age \in status[j].age..status[i].age
        BY DEF SinceStartsAfterTimeout, Status!SinceStartsAfterTimeout
    <2>2. PICK k \in DOMAIN status : /\ status[k].flag = "TIMEOUT" /\ Status!Before(status, k, i)
                                     /\ status[j].age <= status[k].age
        BY <2>1 DEF StatusInv, LogFits, Running, TimeoutBefore
    <2>3. \A m \in DOMAIN status : status[m].age \in Int
        BY <2>1, Ordered DEF StatusInv, StatusTypes
    <2>4. QED
        BY <2>2, <2>3 DEF Status!Before
<1>2. QED
    BY <1>1, StatusInitially, StatusStep, PTL DEF Status!Spec

-----------------------------------------------------------------------------
(* Event filters *)

LEMMA SamePartOfFilter == \A s, S : EventFilters!Part(s, S) = Part(s, S)
BY DEF EventFilters!Part, Part, EventFilters!Nth, Nth, EventFilters!Cardinality, Cardinality

\* The ids that are given are below the next one and ascend; conditions without an id are the
\* last ones.
Ascending(c) ==
    \A i, j \in DOMAIN c : i < j /\ c[j].id \in Nat => c[i].id \in Nat /\ c[i].id < c[j].id
Given(c, next) == \A i \in DOMAIN c : c[i].id \in Nat => c[i].id < next

GoodConditions(c, next) == c \in Seq(EventFilters!Conditions) /\ Ascending(c) /\ Given(c, next)
StoredConditions(c, next) == GoodConditions(c, next) /\ \A i \in DOMAIN c : c[i].id \in Nat

FilterValues == [enabled : BOOLEAN, conditions : Seq(EventFilters!Conditions)]
GoodFilter(v, next) == v \in FilterValues /\ GoodConditions(v.conditions, next)
StoredFilter(v, next) == v \in FilterValues /\ StoredConditions(v.conditions, next)

FilterForms ==
    [filter : AllFilters \cup {NoValue}, inList : BOOLEAN, busy : BOOLEAN, enabled : BOOLEAN,
     conditions : Seq(EventFilters!Conditions)]
FilterRequests ==
    [what : {"create", "update", "remove"}, filter : AllFilters \cup {NoValue}, inList : BOOLEAN,
     closes : BOOLEAN, enabled : BOOLEAN, conditions : Seq(EventFilters!Conditions)]

\* What the server keeps, and what pages and requests know of it, however old.
ServerKnows ==
    /\ nextCondition \in Nat
    /\ filterStore = [f \in AllFilters |-> filterStore[f]]
    /\ \A f \in AllFilters :
         filterStore[f] = NoValue \/ StoredFilter(filterStore[f], nextCondition)
PageKnows ==
    /\ filterList = [f \in AllFilters |-> filterList[f]]
    /\ \A f \in AllFilters : filterList[f] = NoValue \/ GoodFilter(filterList[f], nextCondition)
    /\ orphanFilter = NoValue \/ GoodFilter(orphanFilter, nextCondition)
    /\ filterRemoval \in AllFilters \cup {NoValue}
    /\ filterForm = NoValue \/ (filterForm \in FilterForms /\ GoodConditions(filterForm.conditions, nextCondition))
RequestsKnow ==
    \A r \in filterRequests :
        /\ r \in FilterRequests /\ GoodConditions(r.conditions, nextCondition)
        /\ r.what \in {"update", "remove"} => r.filter \in AllFilters

FilterInv == ServerKnows /\ PageKnows /\ RequestsKnow

\* Fields are to be chosen from or to be typed in.
LEMMA FieldsAndTests ==
    /\ EventFilters!Fresh \in EventFilters!Fields
    /\ \A field \in EventFilters!Fields :
         EventFilters!Blank(field) \in EventFilters!Tests \cup {NoValue}
    /\ \A id \in Nat \cup {NoValue}, field \in EventFilters!Fields,
          test \in EventFilters!Tests \cup {NoValue} :
         /\ EventFilters!Condition(id, field, test) \in EventFilters!Conditions
         /\ EventFilters!Condition(id, field, test).id = id
<1>1. EventFilters!Fresh \in TypedFields
    BY FiltersAssumption DEF EventFilters!Fresh
<1>2. QED
    BY <1>1 DEF EventFilters!Fields, EventFilters!Blank, EventFilters!Tests, EventFilters!Condition,
                EventFilters!Conditions

\* Ids that were given stay given.
LEMMA StillGood ==
    ASSUME NEW m \in Nat, NEW n \in Nat, m <= n
    PROVE  /\ \A c : GoodConditions(c, m) => GoodConditions(c, n)
           /\ \A c : StoredConditions(c, m) => StoredConditions(c, n)
           /\ \A v : GoodFilter(v, m) => GoodFilter(v, n)
           /\ \A v : StoredFilter(v, m) => StoredFilter(v, n)
<1>1. ASSUME NEW c, GoodConditions(c, m) PROVE GoodConditions(c, n)
    <2>1. \A i \in DOMAIN c : c[i].id \in Nat => c[i].id < n
        BY <1>1 DEF GoodConditions, Given
    <2>2. QED
        BY <1>1, <2>1 DEF GoodConditions, Given
<1>2. QED
    BY <1>1 DEF StoredConditions, GoodFilter, StoredFilter

\* The first m conditions have an id.
IdsUpTo(c, m) ==
    /\ m \in 0..Len(c)
    /\ \A i \in 1..m : i \in DOMAIN c /\ c[i].id \in Nat
    /\ \A i \in DOMAIN c : i > m => c[i].id = NoValue

\* Conditions without an id follow those with one.
LEMMA IdsFirst ==
    ASSUME NEW c, NEW n \in Nat, GoodConditions(c, n)
    PROVE  \E m : IdsUpTo(c, m)
<1> DEFINE N == {i \in DOMAIN c : c[i].id \in Nat}
           m == Cardinality(N)
<1>1. DOMAIN c = 1..Len(c) /\ Len(c) \in Nat /\ \A i \in DOMAIN c : c[i] \in EventFilters!Conditions
    BY LenProperties, ElementOfSeq DEF GoodConditions
<1>2. IsFiniteSet(DOMAIN c) /\ Cardinality(DOMAIN c) = Len(c)
    BY Places DEF GoodConditions
<1>3. IsFiniteSet(N) /\ m \in Nat /\ m <= Len(c) /\ N \in SUBSET DOMAIN c
    BY <1>2, FS_Subset, FS_CardinalityType
<1>4. ASSUME NEW i \in N PROVE i \in 1..m
    <2>1. i \in 1..Len(c) /\ i \in Nat
        BY <1>1
    <2>2. 1..i \in SUBSET N
        <3>1. SUFFICES ASSUME NEW j \in 1..i PROVE j \in N
            OBVIOUS
        <3>2. j \in DOMAIN c /\ (j < i \/ j = i)
            BY <1>1, <2>1
        <3>3. QED
            BY <3>2 DEF GoodConditions, Ascending
    <2>3. Cardinality(1..i) = i
        BY <2>1, FS_Interval
    <2>4. Cardinality(1..i) <= m
        <3> HIDE DEF N
        <3>1. QED
            BY <1>3, <2>2, FS_Subset
    <2>5. QED
        BY <1>3, <2>1, <2>3, <2>4
<1>5. N = 1..m
    <2>1. IsFiniteSet(1..m) /\ Cardinality(1..m) = m
        BY <1>3, FS_Interval
    <2>2. N \in SUBSET 1..m
        BY <1>4
    <2> HIDE DEF N
    <2>3. QED
        BY <2>1, <2>2, FS_Subset
<1>6. \A i \in DOMAIN c : c[i].id \in Nat \cup {NoValue}
    BY <1>1 DEF EventFilters!Conditions
<1>7. \A i \in 1..m : i \in DOMAIN c /\ c[i].id \in Nat
    BY <1>5
<1>8. \A i \in DOMAIN c : i > m => c[i].id = NoValue
    <2>1. ASSUME NEW i \in DOMAIN c, i \in N PROVE ~(i > m)
        <3>1. i \in 1..m
            BY <1>4, <2>1
        <3> HIDE DEF m
        <3>2. QED
            BY <1>3, <3>1
    <2>2. QED
        BY <1>6, <2>1
<1>9. IdsUpTo(c, m)
    BY <1>1, <1>3, <1>7, <1>8 DEF IdsUpTo
<1>10. QED
    BY <1>9

\* Conditions that are added are those without an id, as they were sent, with the next ids.
LEMMA WhatIsAdded ==
    ASSUME ServerKnows, NEW c, GoodConditions(c, nextCondition), NEW m, IdsUpTo(c, m)
    PROVE  LET added == EventFilters!Added(c) IN
           /\ added \in Seq(EventFilters!Conditions) /\ Len(added) = Len(c) - m
           /\ DOMAIN added = 1..(Len(c) - m)
           /\ \A k \in 1..(Len(c) - m) : /\ m + k \in DOMAIN c /\ added[k].id = nextCondition + k - 1
                                         /\ added[k].field = c[m + k].field
                                         /\ added[k].test = c[m + k].test
<1> DEFINE S == {i \in DOMAIN c : c[i].id = NoValue}
           l == Len(c) - m
           g == [k \in 1..l |-> m + k]
           new == Part(c, S)
           added == EventFilters!Added(c)
<1>1. /\ DOMAIN c = 1..Len(c) /\ Len(c) \in Nat /\ m \in Nat /\ l \in Nat /\ m + l = Len(c)
      /\ c \in Seq(EventFilters!Conditions)
      /\ \A i \in DOMAIN c : c[i] \in EventFilters!Conditions
      /\ \A i \in 1..m : i \in DOMAIN c /\ c[i].id \in Nat
      /\ \A i \in DOMAIN c : i > m => c[i].id = NoValue
    BY LenProperties, ElementOfSeq DEF GoodConditions, IdsUpTo
<1>2. \A i \in DOMAIN c : i \in S <=> i > m
    <2>1. ASSUME NEW i \in DOMAIN c, ~(i > m) PROVE i \notin S
        <3>1. i \in 1..m
            BY <1>1, <2>1
        <3>2. c[i].id \in Nat
            BY <1>1, <3>1
        <3>3. QED
            BY <3>2, FiltersAssumption
    <2>2. QED
        BY <1>1, <2>1
<1>3. g \in [1..l -> S]
    <2>1. \A k \in 1..l : m + k \in DOMAIN c /\ m + k > m
        BY <1>1
    <2>2. QED
        BY <1>2, <2>1
<1>4. \A i, j \in 1..l : i < j => g[i] < g[j]
    BY <1>1
<1>5. ASSUME NEW x \in S PROVE \E k \in 1..l : g[k] = x
    <2>1. x \in 1..Len(c) /\ x > m
        BY <1>1, <1>2
    <2>2. x - m \in 1..l /\ m + (x - m) = x
        BY <1>1, <2>1
    <2>3. QED
        BY <2>2
<1>6. S \in SUBSET Int /\ IsFiniteSet(S) /\ S \in SUBSET DOMAIN c
    <2>1. S \in SUBSET DOMAIN c
        OBVIOUS
    <2>2. IsFiniteSet(DOMAIN c) /\ DOMAIN c \in SUBSET Int
        BY <1>1, Places
    <2> HIDE DEF S
    <2>3. QED
        BY <2>1, <2>2, FS_Subset
<1>7. Cardinality(S) = l /\ \A k \in 1..l : Nth(S, k) = g[k]
    <2> HIDE DEF S, g, l
    <2>1. QED
        BY <1>1, <1>3, <1>4, <1>5, <1>6, PlacesInOrder
<1>8. /\ new \in Seq(EventFilters!Conditions) /\ DOMAIN new = 1..l
      /\ \A k \in 1..l : new[k] = c[m + k]
    <2>1. /\ new \in Seq(EventFilters!Conditions) /\ DOMAIN new = 1..Cardinality(S)
          /\ \A k \in DOMAIN new : new[k] = c[Nth(S, k)]
        <3> HIDE DEF S
        <3>1. QED
            BY <1>1, <1>6, WhatIsPart
    <2> HIDE DEF new
    <2>2. QED
        BY <1>7, <2>1
<1>9. added = [i \in DOMAIN new |-> [new[i] EXCEPT !.id = nextCondition + i - 1]]
    BY SamePartOfFilter DEF EventFilters!Added
<1> HIDE DEF new, added, l
<1>10. ASSUME NEW k \in 1..l
       PROVE  /\ m + k \in DOMAIN c /\ added[k] \in EventFilters!Conditions
              /\ added[k].id = nextCondition + k - 1
              /\ added[k].field = c[m + k].field /\ added[k].test = c[m + k].test
    <2>1. m + k \in DOMAIN c /\ nextCondition + k - 1 \in Nat
        BY <1>1 DEF ServerKnows
    <2>2. added[k] = [c[m + k] EXCEPT !.id = nextCondition + k - 1]
        BY <1>8, <1>9
    <2>3. QED
        BY <1>1, <2>1, <2>2 DEF EventFilters!Conditions
<1>11. added \in Seq(EventFilters!Conditions) /\ Len(added) = l /\ DOMAIN added = 1..l
    <2>1. added \in [1..l -> EventFilters!Conditions]
        BY <1>8, <1>9, <1>10
    <2>2. QED
        BY <1>1, <2>1
<1>12. QED
    BY <1>10, <1>11 DEF added, l

\* The stored conditions whose ids were sent, and what an update makes of them.
Staying(stored, sent) ==
    Part(stored, {i \in DOMAIN stored : stored[i].id \in EventFilters!Ids(sent)})
SentFor(sent, id) == sent[CHOOSE i \in DOMAIN sent : sent[i].id = id]
Renewed(stored, sent) ==
    [i \in DOMAIN Staying(stored, sent) |->
        EventFilters!Condition(Staying(stored, sent)[i].id, SentFor(sent, Staying(stored, sent)[i].id).field,
                               sent[Len(sent)].test)]

LEMMA UpdatedParts ==
    \A stored, sent :
        EventFilters!Updated(stored, sent) = Renewed(stored, sent) \o EventFilters!Added(sent)
<1> TAKE stored, sent
<1> DEFINE K == {i \in DOMAIN stored : stored[i].id \in EventFilters!Ids(sent)}
           kept == EventFilters!Part(stored, K)
<1>1. Staying(stored, sent) = kept
    BY SamePartOfFilter DEF Staying
<1>2. EventFilters!Updated(stored, sent) =
        [i \in DOMAIN kept |->
           EventFilters!Condition(kept[i].id, SentFor(sent, kept[i].id).field, sent[Len(sent)].test)]
          \o EventFilters!Added(sent)
    BY DEF EventFilters!Updated, EventFilters!Last, SentFor
<1> HIDE DEF kept
<1>3. Renewed(stored, sent) =
        [i \in DOMAIN kept |->
           EventFilters!Condition(kept[i].id, SentFor(sent, kept[i].id).field, sent[Len(sent)].test)]
    BY <1>1 DEF Renewed
<1>4. QED
    BY <1>2, <1>3, Zenon

\* What is kept was stored and sent, and ascends.
LEMMA WhatIsKept ==
    ASSUME NEW n \in Nat, NEW stored, NEW sent, StoredConditions(stored, n)
    PROVE  LET kept == Staying(stored, sent) IN
           /\ kept \in Seq(EventFilters!Conditions)
           /\ \A i \in DOMAIN kept : /\ kept[i].id \in Nat /\ kept[i].id < n
                                     /\ kept[i].id \in EventFilters!Ids(sent)
           /\ \A i, j \in DOMAIN kept : i < j => kept[i].id < kept[j].id
<1> DEFINE K == {i \in DOMAIN stored : stored[i].id \in EventFilters!Ids(sent)}
           kept == Part(stored, K)
<1>1. /\ kept \in Seq(EventFilters!Conditions)
      /\ \A i \in DOMAIN kept : Nth(K, i) \in K /\ kept[i] = stored[Nth(K, i)]
      /\ \A i, j \in DOMAIN kept : i < j => Nth(K, i) < Nth(K, j)
    <2>1. K \in SUBSET DOMAIN stored /\ stored \in Seq(EventFilters!Conditions)
        BY DEF StoredConditions, GoodConditions
    <2> HIDE DEF K
    <2>2. QED
        BY <2>1, WhatIsPart
<1> HIDE DEF kept
<1>2. \A i \in DOMAIN kept : /\ Nth(K, i) \in DOMAIN stored
                             /\ kept[i].id \in EventFilters!Ids(sent)
    BY <1>1
<1>3. \A i \in DOMAIN kept : kept[i].id \in Nat /\ kept[i].id < n
    BY <1>1, <1>2 DEF StoredConditions, GoodConditions, Given
<1>4. ASSUME NEW i \in DOMAIN kept, NEW j \in DOMAIN kept, i < j PROVE kept[i].id < kept[j].id
    <2>1. Nth(K, i) < Nth(K, j) /\ Nth(K, i) \in DOMAIN stored /\ Nth(K, j) \in DOMAIN stored
        BY <1>1, <1>2, <1>4
    <2>2. stored[Nth(K, j)].id \in Nat
        BY <2>1 DEF StoredConditions
    <2>3. stored[Nth(K, i)].id < stored[Nth(K, j)].id
        BY <2>1, <2>2 DEF StoredConditions, GoodConditions, Ascending
    <2>4. QED
        BY <1>1, <2>3
<1>5. QED
    BY <1>1, <1>2, <1>3, <1>4 DEF kept, Staying

\* A condition was sent for each id that was sent.
LEMMA WhatWasSent ==
    ASSUME NEW n \in Nat, NEW sent, GoodConditions(sent, n), NEW id \in EventFilters!Ids(sent)
    PROVE  /\ \E i \in DOMAIN sent : SentFor(sent, id) = sent[i] /\ sent[i].id = id
           /\ SentFor(sent, id).field \in EventFilters!Fields
           /\ Len(sent) \in DOMAIN sent /\ sent[Len(sent)].test \in EventFilters!Tests \cup {NoValue}
<1>1. /\ \A i \in DOMAIN sent : sent[i] \in EventFilters!Conditions
      /\ DOMAIN sent = 1..Len(sent) /\ Len(sent) \in Nat
    BY LenProperties, ElementOfSeq DEF GoodConditions
<1>2. \E i \in DOMAIN sent : sent[i].id = id
    BY DEF EventFilters!Ids
<1>3. PICK i \in DOMAIN sent : SentFor(sent, id) = sent[i] /\ sent[i].id = id
    BY <1>2 DEF SentFor
<1>4. Len(sent) \in DOMAIN sent
    BY <1>1, <1>2
<1>5. QED
    BY <1>1, <1>3, <1>4 DEF EventFilters!Conditions

LEMMA WhatIsRenewed ==
    ASSUME NEW n \in Nat, NEW stored, NEW sent, StoredConditions(stored, n), GoodConditions(sent, n)
    PROVE  LET kept == Staying(stored, sent)
               new == Renewed(stored, sent) IN
           /\ new \in Seq(EventFilters!Conditions) /\ DOMAIN new = DOMAIN kept /\ Len(new) = Len(kept)
           /\ \A i \in DOMAIN kept : /\ new[i].id = kept[i].id
                                     /\ new[i].field = SentFor(sent, kept[i].id).field
                                     /\ new[i].test = sent[Len(sent)].test
<1> DEFINE kept == Staying(stored, sent)
           new == Renewed(stored, sent)
<1>1. /\ kept \in Seq(EventFilters!Conditions)
      /\ \A i \in DOMAIN kept : kept[i].id \in Nat /\ kept[i].id \in EventFilters!Ids(sent)
    BY WhatIsKept
<1>2. new = [i \in DOMAIN kept |->
               EventFilters!Condition(kept[i].id, SentFor(sent, kept[i].id).field, sent[Len(sent)].test)]
    BY DEF Renewed
<1> HIDE DEF kept, new
<1>3. ASSUME NEW i \in DOMAIN kept
      PROVE  /\ new[i] \in EventFilters!Conditions /\ new[i].id = kept[i].id
             /\ new[i].field = SentFor(sent, kept[i].id).field
             /\ new[i].test = sent[Len(sent)].test
    <2>1. /\ SentFor(sent, kept[i].id).field \in EventFilters!Fields
          /\ sent[Len(sent)].test \in EventFilters!Tests \cup {NoValue}
          /\ kept[i].id \in Nat \cup {NoValue}
        BY <1>1, WhatWasSent
    <2>2. QED
        BY <1>2, <2>1, FieldsAndTests DEF EventFilters!Condition
<1>4. DOMAIN kept = 1..Len(kept) /\ Len(kept) \in Nat
    BY <1>1, LenProperties
<1>5. new \in [1..Len(kept) -> EventFilters!Conditions]
    BY <1>2, <1>3, <1>4
<1>6. new \in Seq(EventFilters!Conditions) /\ Len(new) = Len(kept) /\ DOMAIN new = DOMAIN kept
    BY <1>4, <1>5
<1>7. QED
    BY <1>3, <1>6 DEF kept, new

\* What is added comes after all that was there.
LEMMA Joined ==
    ASSUME ServerKnows, NEW old, StoredConditions(old, nextCondition), NEW added,
           added \in Seq(EventFilters!Conditions),
           \A k \in DOMAIN added : added[k].id = nextCondition + k - 1
    PROVE  StoredConditions(old \o added, nextCondition + Len(added))
<1> DEFINE n == nextCondition
           l == Len(old)
           new == old \o added
<1>1. /\ n \in Nat /\ old \in Seq(EventFilters!Conditions)
      /\ l \in Nat /\ DOMAIN old = 1..l /\ Len(added) \in Nat /\ DOMAIN added = 1..Len(added)
    BY LenProperties DEF ServerKnows, StoredConditions, GoodConditions
<1>2. /\ new \in Seq(EventFilters!Conditions) /\ DOMAIN new = 1..(l + Len(added))
      /\ \A i \in DOMAIN new : new[i] = IF i <= l THEN old[i] ELSE added[i - l]
    BY <1>1, ConcatProperties, LenProperties
<1> HIDE DEF new, n, l
<1>3. ASSUME NEW i \in DOMAIN new
      PROVE  /\ i \in Int
             /\ i <= l => i \in DOMAIN old /\ new[i].id = old[i].id /\ new[i].id \in Nat /\ new[i].id < n
             /\ i > l => new[i].id = n + (i - l) - 1 /\ i - l <= Len(added) /\ i - l >= 1
    <2>1. i \in Int /\ (i <= l => i \in DOMAIN old) /\ (i > l => i - l \in DOMAIN added)
        BY <1>1, <1>2
    <2>2. CASE i <= l
        BY <1>1, <1>2, <2>1, <2>2 DEF StoredConditions, GoodConditions, Given, n
    <2>3. CASE i > l
        BY <1>1, <1>2, <2>1, <2>3 DEF n
    <2>4. QED
        BY <1>1, <2>1, <2>2, <2>3
<1>4. ASSUME NEW i \in DOMAIN new PROVE new[i].id \in Nat /\ new[i].id < n + Len(added)
    BY <1>1, <1>3
<1>5. ASSUME NEW i \in DOMAIN new, NEW j \in DOMAIN new, i < j PROVE new[i].id < new[j].id
    <2>1. CASE j <= l
        <3>1. /\ i \in DOMAIN old /\ j \in DOMAIN old /\ old[j].id \in Nat
              /\ new[i].id = old[i].id /\ new[j].id = old[j].id
            BY <1>1, <1>3, <1>5, <2>1
        <3>2. QED
            BY <1>5, <3>1 DEF StoredConditions, GoodConditions, Ascending
    <2>2. CASE i <= l /\ j > l
        BY <1>1, <1>3, <2>2
    <2>3. CASE i > l
        BY <1>1, <1>3, <1>5, <2>3
    <2>4. QED
        BY <1>1, <1>3, <2>1, <2>2, <2>3
<1>6. QED
    BY <1>2, <1>4, <1>5 DEF StoredConditions, GoodConditions, Ascending, Given, new, n

\* Conditions that are updated, or created, are stored as conditions should be.
LEMMA UpdateIsGood ==
    ASSUME ServerKnows, NEW stored, NEW sent, StoredConditions(stored, nextCondition),
           GoodConditions(sent, nextCondition)
    PROVE  LET added == EventFilters!Added(sent) IN
           /\ added \in Seq(EventFilters!Conditions) /\ Len(added) \in Nat
           /\ StoredConditions(added, nextCondition + Len(added))
           /\ StoredConditions(EventFilters!Updated(stored, sent), nextCondition + Len(added))
<1> DEFINE added == EventFilters!Added(sent)
           kept == Staying(stored, sent)
           new == Renewed(stored, sent)
<1>1. nextCondition \in Nat
    BY DEF ServerKnows
<1>2. PICK m : IdsUpTo(sent, m)
    BY <1>1, IdsFirst
<1>3. /\ added \in Seq(EventFilters!Conditions)
      /\ \A k \in DOMAIN added : added[k].id = nextCondition + k - 1
    BY <1>2, WhatIsAdded
<1>4. /\ kept \in Seq(EventFilters!Conditions)
      /\ \A i \in DOMAIN kept : kept[i].id \in Nat /\ kept[i].id < nextCondition
      /\ \A i, j \in DOMAIN kept : i < j => kept[i].id < kept[j].id
    BY <1>1, WhatIsKept
<1>5. /\ new \in Seq(EventFilters!Conditions) /\ DOMAIN new = DOMAIN kept
      /\ \A i \in DOMAIN kept : new[i].id = kept[i].id
    BY <1>1, WhatIsRenewed
<1> HIDE DEF added, kept, new
<1>6. StoredConditions(new, nextCondition)
    <2>1. /\ \A i \in DOMAIN new : new[i].id \in Nat /\ new[i].id < nextCondition
          /\ \A i, j \in DOMAIN new : i < j => new[i].id < new[j].id
        BY <1>4, <1>5
    <2>2. QED
        BY <1>5, <2>1 DEF StoredConditions, GoodConditions, Ascending, Given
<1>7. StoredConditions(new \o added, nextCondition + Len(added))
    BY <1>3, <1>6, Joined
<1>8. StoredConditions(<<>>, nextCondition)
    BY EmptySeq DEF StoredConditions, GoodConditions, Ascending, Given
<1>9. StoredConditions(<<>> \o added, nextCondition + Len(added))
    BY <1>3, <1>8, Joined
<1>10. <<>> \o added = added
    BY <1>3, ConcatEmptySeq
<1>11. Len(added) \in Nat
    BY <1>3, LenProperties
<1>12. QED
    BY <1>3, <1>7, <1>9, <1>10, <1>11, UpdatedParts DEF added, new

\* If all ids that were sent are stored, the conditions that stay are the first ones that were
\* sent, in the order in which they were sent.
LEMMA KeptAsSent ==
    ASSUME NEW n \in Nat, NEW stored, NEW sent, StoredConditions(stored, n), GoodConditions(sent, n),
           EventFilters!Ids(sent) \subseteq EventFilters!Ids(stored),
           NEW m, IdsUpTo(sent, m)
    PROVE  LET kept == Staying(stored, sent) IN
           /\ DOMAIN kept = 1..m /\ Len(kept) = m
           /\ \A i \in 1..m : SentFor(sent, kept[i].id) = sent[i]
<1> DEFINE K == {i \in DOMAIN stored : stored[i].id \in EventFilters!Ids(sent)}
           g == [i \in 1..m |-> CHOOSE k \in DOMAIN stored : stored[k].id = sent[i].id]
           kept == Part(stored, K)
<1>1. /\ DOMAIN stored = 1..Len(stored) /\ Len(stored) \in Nat
      /\ DOMAIN sent = 1..Len(sent) /\ Len(sent) \in Nat /\ m \in Nat
      /\ stored \in Seq(EventFilters!Conditions)
      /\ \A i \in 1..m : i \in DOMAIN sent /\ sent[i].id \in Nat
      /\ \A i \in DOMAIN sent : i > m => sent[i].id = NoValue
    BY LenProperties DEF StoredConditions, GoodConditions, IdsUpTo
<1>2. /\ \A i, j \in DOMAIN stored : i < j => stored[i].id < stored[j].id
      /\ \A i \in DOMAIN stored : stored[i].id \in Nat
    BY DEF StoredConditions, GoodConditions, Ascending
<1>3. \A i, j \in 1..m : i < j => sent[i].id < sent[j].id
    BY <1>1 DEF GoodConditions, Ascending
<1>4. \A i, j \in DOMAIN stored : stored[i].id < stored[j].id => i < j
    <2>1. SUFFICES ASSUME NEW i \in DOMAIN stored, NEW j \in DOMAIN stored,
                          stored[i].id < stored[j].id, ~(i < j)
                   PROVE  FALSE
        OBVIOUS
    <2>2. i = j \/ j < i
        BY <1>1, <2>1
    <2>3. stored[i].id \in Nat /\ stored[j].id \in Nat
        BY <1>2
    <2>4. QED
        BY <1>2, <2>1, <2>2, <2>3
<1>5. \A i, j \in DOMAIN stored : stored[i].id = stored[j].id => i = j
    <2>1. SUFFICES ASSUME NEW i \in DOMAIN stored, NEW j \in DOMAIN stored,
                          stored[i].id = stored[j].id, i # j
                   PROVE  FALSE
        OBVIOUS
    <2>2. i < j \/ j < i
        BY <1>1, <2>1
    <2>3. QED
        BY <1>2, <2>1, <2>2
<1>6. ASSUME NEW i \in 1..m PROVE g[i] \in K /\ stored[g[i]].id = sent[i].id
    <2>1. sent[i].id \in EventFilters!Ids(sent)
        BY <1>1, FiltersAssumption DEF EventFilters!Ids
    <2>2. PICK k \in DOMAIN stored : stored[k].id = sent[i].id
        BY <2>1 DEF EventFilters!Ids
    <2>3. g[i] \in DOMAIN stored /\ stored[g[i]].id = sent[i].id
        BY <2>2
    <2> HIDE DEF g
    <2>4. QED
        BY <2>1, <2>3
<1>7. ASSUME NEW x \in K PROVE \E i \in 1..m : g[i] = x
    <2>1. PICK i \in DOMAIN sent : sent[i].id = stored[x].id
        BY DEF EventFilters!Ids
    <2>2. stored[x].id \in Nat
        BY <1>2
    <2>3. ~(i > m)
        BY <1>1, <2>1, <2>2, FiltersAssumption
    <2>4. i \in 1..m
        BY <1>1, <2>3
    <2> HIDE DEF g
    <2>5. g[i] = x
        BY <1>5, <1>6, <2>1, <2>4
    <2>6. QED
        BY <2>4, <2>5
<1>8. ASSUME NEW i \in 1..m, NEW j \in 1..m, i < j PROVE g[i] < g[j]
    <2> HIDE DEF g
    <2>1. /\ g[i] \in DOMAIN stored /\ g[j] \in DOMAIN stored
          /\ stored[g[i]].id < stored[g[j]].id
        BY <1>3, <1>6, <1>8
    <2>2. QED
        BY <1>4, <2>1
<1>9. K \in SUBSET DOMAIN stored /\ K \in SUBSET Int /\ IsFiniteSet(K)
    <2>1. K \in SUBSET DOMAIN stored
        OBVIOUS
    <2>2. IsFiniteSet(DOMAIN stored) /\ DOMAIN stored \in SUBSET Int
        BY <1>1, Places
    <2> HIDE DEF K
    <2>3. QED
        BY <2>1, <2>2, FS_Subset
<1>10. g \in [1..m -> K]
    BY <1>6
<1>11. Cardinality(K) = m /\ \A i \in 1..m : Nth(K, i) = g[i]
    <2> HIDE DEF K, g
    <2>1. QED
        BY <1>1, <1>7, <1>8, <1>9, <1>10, PlacesInOrder
<1>12. /\ DOMAIN kept = 1..m /\ Len(kept) = m
       /\ \A i \in 1..m : kept[i] = stored[g[i]]
    <2>1. /\ DOMAIN kept = 1..Cardinality(K) /\ Len(kept) = Cardinality(K)
          /\ \A i \in DOMAIN kept : kept[i] = stored[Nth(K, i)]
        <3> HIDE DEF K
        <3>1. QED
            BY <1>1, <1>9, WhatIsPart
    <2> HIDE DEF kept, K, g
    <2>2. QED
        BY <1>11, <2>1
<1> HIDE DEF kept, g
<1>13. ASSUME NEW i \in 1..m PROVE SentFor(sent, kept[i].id) = sent[i]
    <2>1. kept[i].id = sent[i].id /\ sent[i].id \in Nat /\ i \in DOMAIN sent
        BY <1>1, <1>6, <1>12
    <2>2. sent[i].id \in EventFilters!Ids(sent)
        BY <2>1, FiltersAssumption DEF EventFilters!Ids
    <2>3. PICK j \in DOMAIN sent : SentFor(sent, sent[i].id) = sent[j] /\ sent[j].id = sent[i].id
        BY <2>2, WhatWasSent
    <2>4. ~(j > m)
        BY <1>1, <2>1, <2>3, FiltersAssumption
    <2>5. j \in 1..m /\ i \in Int /\ j \in Int
        BY <1>1, <2>4
    <2>6. ~(i < j) /\ ~(j < i)
        BY <1>3, <2>1, <2>3, <2>5
    <2>7. QED
        BY <2>1, <2>3, <2>5, <2>6
<1>14. QED
    BY <1>12, <1>13 DEF kept, Staying

LEMMA UpdateAsSent ==
    ASSUME ServerKnows, NEW stored, NEW sent, StoredConditions(stored, nextCondition),
           GoodConditions(sent, nextCondition),
           EventFilters!Ids(sent) \subseteq EventFilters!Ids(stored)
    PROVE  LET result == EventFilters!Updated(stored, sent) IN
           /\ Len(result) = Len(sent) /\ DOMAIN result = DOMAIN sent
           /\ \A i \in DOMAIN result : result[i].field = sent[i].field
           /\ result # <<>> => result[Len(result)].test = sent[Len(sent)].test
<1> DEFINE added == EventFilters!Added(sent)
           kept == Staying(stored, sent)
           new == Renewed(stored, sent)
           result == EventFilters!Updated(stored, sent)
<1>1. nextCondition \in Nat /\ Len(sent) \in Nat /\ DOMAIN sent = 1..Len(sent)
    BY LenProperties DEF ServerKnows, GoodConditions
<1>2. PICK m : IdsUpTo(sent, m)
    BY <1>1, IdsFirst
<1>3. /\ added \in Seq(EventFilters!Conditions) /\ Len(added) = Len(sent) - m
      /\ \A k \in 1..(Len(sent) - m) : /\ added[k].field = sent[m + k].field
                                       /\ added[k].test = sent[m + k].test
    BY <1>2, WhatIsAdded
<1>4. /\ DOMAIN kept = 1..m /\ Len(kept) = m
      /\ \A i \in 1..m : SentFor(sent, kept[i].id) = sent[i]
    BY <1>1, <1>2, KeptAsSent
<1>5. /\ new \in Seq(EventFilters!Conditions) /\ Len(new) = Len(kept)
      /\ \A i \in DOMAIN kept : /\ new[i].field = SentFor(sent, kept[i].id).field
                                /\ new[i].test = sent[Len(sent)].test
    BY <1>1, WhatIsRenewed
<1>6. result = new \o added
    BY UpdatedParts
<1> HIDE DEF added, kept, new, result
<1>7. /\ result \in Seq(EventFilters!Conditions) /\ Len(result) = Len(sent) /\ m \in 0..Len(sent)
      /\ \A i \in 1..Len(sent) : result[i] = IF i <= m THEN new[i] ELSE added[i - m]
    <2>1. Len(new) + Len(added) = Len(sent) /\ Len(new) = m /\ m \in 0..Len(sent)
        BY <1>1, <1>2, <1>3, <1>4, <1>5 DEF IdsUpTo
    <2>2. QED
        BY <1>3, <1>5, <1>6, <2>1, ConcatProperties
<1>8. DOMAIN result = 1..Len(sent)
    BY <1>7, LenProperties
<1>9. ASSUME NEW i \in 1..Len(sent)
      PROVE  /\ result[i].field = sent[i].field
             /\ i = Len(sent) => result[i].test = sent[i].test
    <2>1. CASE i <= m
        <3>1. i \in 1..m /\ result[i] = new[i]
            BY <1>1, <1>7, <2>1
        <3>2. QED
            BY <1>4, <1>5, <3>1
    <2>2. CASE i > m
        <3>1. i - m \in 1..(Len(sent) - m) /\ m + (i - m) = i /\ result[i] = added[i - m]
            BY <1>1, <1>7, <2>2
        <3>2. QED
            BY <1>3, <3>1
    <2>3. QED
        BY <1>1, <1>7, <2>1, <2>2
<1>10. result # <<>> => Len(sent) \in 1..Len(sent)
    BY <1>1, <1>7, EmptySeq
<1>11. QED
    BY <1>1, <1>7, <1>8, <1>9, <1>10 DEF result

\* Conditions at later places are as good as all.
LEMMA SomeOfThem ==
    ASSUME NEW n \in Nat, NEW c, GoodConditions(c, n), NEW d, d \in Seq(EventFilters!Conditions),
           NEW at, at \in [DOMAIN d -> DOMAIN c], \A i \in DOMAIN d : d[i].id = c[at[i]].id,
           \A i, j \in DOMAIN d : i < j => at[i] < at[j]
    PROVE  GoodConditions(d, n) /\ (StoredConditions(c, n) => StoredConditions(d, n))
<1>1. \A i \in DOMAIN d : at[i] \in DOMAIN c
    OBVIOUS
<1>2. GoodConditions(d, n)
    BY <1>1 DEF GoodConditions, Ascending, Given
<1>3. QED
    BY <1>1, <1>2 DEF StoredConditions

LEMMA RemovedOne ==
    ASSUME NEW T, NEW s \in Seq(T), NEW i \in DOMAIN s
    PROVE  LET d == EventFilters!RemoveAt(s, i) IN
           /\ d \in Seq(T) /\ DOMAIN d = 1..(Len(s) - 1)
           /\ \A k \in 1..(Len(s) - 1) : d[k] = IF k < i THEN s[k] ELSE s[k + 1]
<1> DEFINE l == Len(s)
           a == SubSeq(s, 1, i - 1)
           b == SubSeq(s, i + 1, l)
           d == a \o b
<1>1. /\ l \in Nat /\ i \in Int /\ i >= 1 /\ i <= l
      /\ \A k \in 1..l : s[k] \in T
    BY Places
<1> HIDE DEF l
<1>2. /\ a \in Seq(T) /\ Len(a) = i - 1
      /\ \A k \in 1..(i - 1) : a[k] = s[k]
    <2>1. 1 \in Int /\ i - 1 \in Int /\ \A k \in 1..(i - 1) : s[k] \in T
        BY <1>1
    <2>2. /\ a \in Seq(T) /\ Len(a) = IF 1 <= i - 1 THEN (i - 1) - 1 + 1 ELSE 0
          /\ \A k \in 1..((i - 1) - 1 + 1) : a[k] = s[1 + k - 1]
        BY <2>1, SubSeqProperties
    <2> HIDE DEF a
    <2>3. QED
        BY <1>1, <2>2
<1>3. /\ b \in Seq(T) /\ Len(b) = l - i
      /\ \A k \in 1..(l - i) : b[k] = s[i + k]
    <2>1. i + 1 \in Int /\ l \in Int /\ \A k \in (i + 1)..l : s[k] \in T
        BY <1>1
    <2>2. /\ b \in Seq(T) /\ Len(b) = IF i + 1 <= l THEN l - (i + 1) + 1 ELSE 0
          /\ \A k \in 1..(l - (i + 1) + 1) : b[k] = s[(i + 1) + k - 1]
        BY <2>1, SubSeqProperties
    <2> HIDE DEF b
    <2>3. QED
        BY <1>1, <2>2
<1> HIDE DEF a, b
<1>4. /\ d \in Seq(T) /\ Len(d) = Len(a) + Len(b)
      /\ \A k \in 1..(Len(a) + Len(b)) : d[k] = IF k <= Len(a) THEN a[k] ELSE b[k - Len(a)]
    BY <1>2, <1>3, ConcatProperties
<1>5. DOMAIN d = 1..Len(d)
    BY <1>4, Places
<1> HIDE DEF d
<1>6. Len(a) + Len(b) = l - 1
    BY <1>1, <1>2, <1>3
<1>7. ASSUME NEW k \in 1..(l - 1) PROVE d[k] = IF k < i THEN s[k] ELSE s[k + 1]
    <2>1. d[k] = IF k <= i - 1 THEN a[k] ELSE b[k - (i - 1)]
        BY <1>2, <1>4, <1>6
    <2>2. CASE k < i
        BY <1>1, <1>2, <2>1, <2>2
    <2>3. CASE ~(k < i)
        <3>1. k - (i - 1) \in 1..(l - i) /\ i + (k - (i - 1)) = k + 1 /\ ~(k <= i - 1)
            BY <1>1, <2>3
        <3>2. QED
            BY <1>3, <2>1, <2>3, <3>1
    <2>4. QED
        BY <2>2, <2>3
<1>8. QED
    BY <1>4, <1>5, <1>6, <1>7 DEF d, a, b, l, EventFilters!RemoveAt

\* What the user does with the conditions of a form.
LEMMA EditedConditions ==
    ASSUME NEW n \in Nat, NEW c, GoodConditions(c, n)
    PROVE  /\ GoodConditions(Append(c, EventFilters!Condition(NoValue, EventFilters!Fresh,
                                         EventFilters!Blank(EventFilters!Fresh))), n)
           /\ \A i \in DOMAIN c : GoodConditions(EventFilters!RemoveAt(c, i), n)
           /\ \A i \in DOMAIN c, field \in EventFilters!Fields,
                 test \in EventFilters!Tests \cup {NoValue} :
                /\ GoodConditions([c EXCEPT ![i].field = field, ![i].test = test], n)
                /\ GoodConditions([c EXCEPT ![i].test = test], n)
<1>1. /\ DOMAIN c = 1..Len(c) /\ Len(c) \in Nat /\ c \in Seq(EventFilters!Conditions)
      /\ \A i \in DOMAIN c : c[i] \in EventFilters!Conditions
    BY LenProperties, ElementOfSeq DEF GoodConditions
<1>2. GoodConditions(Append(c, EventFilters!Condition(NoValue, EventFilters!Fresh,
                                 EventFilters!Blank(EventFilters!Fresh))), n)
    <2> DEFINE e == EventFilters!Condition(NoValue, EventFilters!Fresh,
                                           EventFilters!Blank(EventFilters!Fresh))
               d == Append(c, e)
    <2>1. e \in EventFilters!Conditions /\ e.id = NoValue /\ e.id \notin Nat
        BY FieldsAndTests, FiltersAssumption
    <2> HIDE DEF e
    <2>2. /\ d \in Seq(EventFilters!Conditions) /\ DOMAIN d = 1..(Len(c) + 1)
          /\ d[Len(c) + 1] = e /\ \A i \in 1..Len(c) : d[i] = c[i]
        BY <1>1, <2>1, AppendProperties, LenProperties
    <2> HIDE DEF d
    <2>3. ASSUME NEW j \in DOMAIN d, d[j].id \in Nat
          PROVE  j \in DOMAIN c /\ d[j] = c[j] /\ \A i \in DOMAIN d : i < j => i \in DOMAIN c /\ d[i] = c[i]
        <3>1. j # Len(c) + 1
            BY <2>1, <2>2, <2>3
        <3>2. QED
            BY <1>1, <2>2, <3>1
    <2>4. Given(d, n)
        BY <2>3 DEF GoodConditions, Given
    <2>5. Ascending(d)
        BY <2>3 DEF GoodConditions, Ascending
    <2>6. QED
        BY <2>2, <2>4, <2>5 DEF GoodConditions, d, e
<1>3. ASSUME NEW i \in DOMAIN c PROVE GoodConditions(EventFilters!RemoveAt(c, i), n)
    <2> DEFINE d == EventFilters!RemoveAt(c, i)
               at == [k \in DOMAIN d |-> IF k < i THEN k ELSE k + 1]
    <2>1. i \in Int /\ i >= 1 /\ i <= Len(c)
        BY <1>1
    <2>2. /\ d \in Seq(EventFilters!Conditions) /\ DOMAIN d = 1..(Len(c) - 1)
          /\ \A k \in 1..(Len(c) - 1) : d[k] = IF k < i THEN c[k] ELSE c[k + 1]
        BY <1>1, RemovedOne
    <2> HIDE DEF d
    <2>3. \A k \in DOMAIN d : at[k] \in DOMAIN c /\ d[k] = c[at[k]]
        BY <1>1, <2>1, <2>2
    <2>4. \A k, l \in DOMAIN d : k < l => at[k] < at[l]
        BY <1>1, <2>1, <2>2
    <2>5. at \in [DOMAIN d -> DOMAIN c] /\ \A k \in DOMAIN d : d[k].id = c[at[k]].id
        BY <2>3
    <2> HIDE DEF at
    <2>6. GoodConditions(d, n)
        BY <2>2, <2>4, <2>5, SomeOfThem
    <2>7. QED
        BY <2>6 DEF d
<1>4. ASSUME NEW i \in DOMAIN c, NEW d, DOMAIN d = DOMAIN c,
             \A k \in DOMAIN c : d[k] \in EventFilters!Conditions /\ d[k].id = c[k].id,
             d = [k \in DOMAIN c |-> d[k]]
      PROVE  GoodConditions(d, n)
    <2> DEFINE at == [k \in DOMAIN c |-> k]
    <2>1. d \in [1..Len(c) -> EventFilters!Conditions]
        BY <1>1, <1>4
    <2>2. d \in Seq(EventFilters!Conditions)
        BY <1>1, <2>1
    <2>3. /\ at \in [DOMAIN d -> DOMAIN c] /\ \A k \in DOMAIN d : d[k].id = c[at[k]].id
          /\ \A k, l \in DOMAIN d : k < l => at[k] < at[l]
        BY <1>4
    <2> HIDE DEF at
    <2>4. QED
        BY <2>2, <2>3, SomeOfThem
<1>5. ASSUME NEW i \in DOMAIN c, NEW field \in EventFilters!Fields,
             NEW test \in EventFilters!Tests \cup {NoValue}
      PROVE  /\ GoodConditions([c EXCEPT ![i].field = field, ![i].test = test], n)
             /\ GoodConditions([c EXCEPT ![i].test = test], n)
    <2> DEFINE d == [c EXCEPT ![i].field = field, ![i].test = test]
               e == [c EXCEPT ![i].test = test]
    <2>1. /\ DOMAIN d = DOMAIN c /\ d = [k \in DOMAIN c |-> d[k]]
          /\ \A k \in DOMAIN c : d[k] \in EventFilters!Conditions /\ d[k].id = c[k].id
        BY <1>1 DEF EventFilters!Conditions
    <2>2. /\ DOMAIN e = DOMAIN c /\ e = [k \in DOMAIN c |-> e[k]]
          /\ \A k \in DOMAIN c : e[k] \in EventFilters!Conditions /\ e[k].id = c[k].id
        BY <1>1 DEF EventFilters!Conditions
    <2> HIDE DEF d, e
    <2>3. GoodConditions(d, n) /\ GoodConditions(e, n)
        BY <1>4, <2>1, <2>2
    <2>4. QED
        BY <2>3 DEF d, e
<1>6. QED
    BY <1>2, <1>3, <1>5

\* The first condition is removed by somebody else.
LEMMA OneLess ==
    ASSUME NEW n \in Nat, NEW c, StoredConditions(c, n), c # <<>>
    PROVE  StoredConditions(Tail(c), n)
<1> DEFINE d == Tail(c)
           at == [k \in DOMAIN d |-> k + 1]
<1>1. DOMAIN c = 1..Len(c) /\ Len(c) \in Nat /\ c \in Seq(EventFilters!Conditions)
    BY LenProperties DEF StoredConditions, GoodConditions
<1>2. /\ d \in Seq(EventFilters!Conditions) /\ DOMAIN d = 1..(Len(c) - 1)
      /\ \A k \in 1..(Len(c) - 1) : d[k] = c[k + 1]
    BY <1>1, HeadTailProperties, LenProperties
<1> HIDE DEF d
<1>3. /\ at \in [DOMAIN d -> DOMAIN c] /\ \A k \in DOMAIN d : d[k].id = c[at[k]].id
      /\ \A k, l \in DOMAIN d : k < l => at[k] < at[l]
    BY <1>1, <1>2
<1> HIDE DEF at
<1>4. QED
    BY <1>2, <1>3, SomeOfThem DEF d, StoredConditions

\* Attributes are a filter.
LEMMA AttributesAreGood ==
    \A n, c, e : GoodConditions(c, n) /\ e \in BOOLEAN =>
        GoodFilter(EventFilters!Attributes(e, c), n)
BY DEF EventFilters!Attributes, GoodFilter, FilterValues, GoodConditions

LEMMA StoredAreGood == \A n, v : StoredFilter(v, n) => GoodFilter(v, n)
BY DEF StoredFilter, GoodFilter, StoredConditions

LEMMA NoConditions == \A n : GoodConditions(<<>>, n)
BY EmptySeq DEF GoodConditions, Ascending, Given

\* A request that is sent with a filter as the page knows it.
LEMMA Sending ==
    ASSUME FilterInv, NEW what \in {"create", "update", "remove"},
           NEW f \in AllFilters \cup {NoValue}, NEW v, GoodFilter(v, nextCondition),
           NEW inList \in BOOLEAN, NEW closes \in BOOLEAN,
           what \in {"update", "remove"} => f \in AllFilters,
           EventFilters!Send(what, f, v, inList, closes), nextCondition' = nextCondition
    PROVE  RequestsKnow'
<1> DEFINE q == [what |-> what, filter |-> f, inList |-> inList, closes |-> closes,
                 enabled |-> v.enabled, conditions |-> v.conditions]
<1>1. filterRequests' = filterRequests \cup {q}
    BY DEF EventFilters!Send
<1>2. v.enabled \in BOOLEAN /\ v.conditions \in Seq(EventFilters!Conditions)
      /\ GoodConditions(v.conditions, nextCondition)
    BY DEF GoodFilter, FilterValues
<1>3. /\ q \in FilterRequests /\ GoodConditions(q.conditions, nextCondition)
      /\ q.what \in {"update", "remove"} => q.filter \in AllFilters
    BY <1>2 DEF FilterRequests
<1> HIDE DEF q
<1>4. QED
    BY <1>1, <1>3 DEF FilterInv, RequestsKnow

\* The server serves nothing.
LEMMA NotServed ==
    ASSUME FilterInv, filterStore' = filterStore, nextCondition' = nextCondition
    PROVE  ServerKnows'
BY DEF FilterInv, ServerKnows

LEMMA NothingSent ==
    ASSUME FilterInv, filterRequests' \subseteq filterRequests, nextCondition' = nextCondition
    PROVE  RequestsKnow'
BY DEF FilterInv, RequestsKnow

\* Forms that open, and close.
LEMMA OpenStep ==
    ASSUME FilterInv, NEW f \in AllFilters \cup {NoValue}, NEW v, GoodFilter(v, nextCondition),
           NEW inList \in BOOLEAN, EventFilters!Open(f, v, inList)
    PROVE  FilterInv'
<1> DEFINE q == [filter |-> f, inList |-> inList, busy |-> FALSE,
                 enabled |-> v.enabled, conditions |-> v.conditions]
<1>1. /\ filterForm' = q /\ filterStore' = filterStore /\ nextCondition' = nextCondition
      /\ filterList' = filterList /\ orphanFilter' = orphanFilter
      /\ filterRemoval' = filterRemoval /\ filterRequests' = filterRequests
    BY DEF EventFilters!Open
<1>2. q \in FilterForms /\ GoodConditions(q.conditions, nextCondition)
    BY DEF GoodFilter, FilterValues, FilterForms
<1> HIDE DEF q
<1>3. PageKnows'
    BY <1>1, <1>2 DEF FilterInv, PageKnows
<1>4. QED
    BY <1>1, <1>3, NotServed, NothingSent DEF FilterInv

LEMMA OpenSteps ==
    ASSUME FilterInv,
           \/ EventFilters!OpenNew \/ EventFilters!OpenOrphan \/ EventFilters!CloseForm
           \/ \E f \in AllFilters : EventFilters!OpenListed(f)
    PROVE  FilterInv'
<1>1. CASE EventFilters!OpenNew
    <2>1. GoodFilter(EventFilters!Attributes(TRUE, <<>>), nextCondition)
        BY NoConditions, AttributesAreGood
    <2>2. QED
        BY <1>1, <2>1, OpenStep DEF EventFilters!OpenNew
<1>2. CASE EventFilters!OpenOrphan
    <2>1. GoodFilter(orphanFilter, nextCondition)
        BY <1>2 DEF EventFilters!OpenOrphan, FilterInv, PageKnows
    <2>2. QED
        BY <1>2, <2>1, OpenStep DEF EventFilters!OpenOrphan
<1>3. CASE EventFilters!CloseForm
    <2>1. /\ filterStore' = filterStore /\ nextCondition' = nextCondition
          /\ filterRequests' = filterRequests
        BY <1>3 DEF EventFilters!CloseForm
    <2>2. PageKnows'
        BY <1>3 DEF EventFilters!CloseForm, FilterInv, PageKnows
    <2>3. QED
        BY <2>1, <2>2, NotServed, NothingSent DEF FilterInv
<1>4. CASE \E f \in AllFilters : EventFilters!OpenListed(f)
    <2>1. PICK f \in AllFilters : EventFilters!OpenListed(f)
        BY <1>4
    <2>2. GoodFilter(filterList[f], nextCondition)
        BY <2>1 DEF EventFilters!OpenListed, FilterInv, PageKnows
    <2>3. QED
        BY <2>1, <2>2, OpenStep DEF EventFilters!OpenListed
<1>5. QED
    BY <1>1, <1>2, <1>3, <1>4

\* What is typed into a form.
LEMMA EditStep ==
    ASSUME FilterInv, filterForm # NoValue, NEW c, GoodConditions(c, nextCondition),
           EventFilters!Edit(c)
    PROVE  FilterInv'
<1>1. /\ filterForm' = [filterForm EXCEPT !.conditions = c]
      /\ filterStore' = filterStore /\ nextCondition' = nextCondition
      /\ filterList' = filterList /\ orphanFilter' = orphanFilter
      /\ filterRemoval' = filterRemoval /\ filterRequests' = filterRequests
    BY DEF EventFilters!Edit
<1>2. filterForm \in FilterForms /\ c \in Seq(EventFilters!Conditions)
    BY DEF FilterInv, PageKnows, GoodConditions
<1>3. filterForm' \in FilterForms /\ filterForm'.conditions = c
    BY <1>1, <1>2 DEF FilterForms
<1>4. PageKnows'
    BY <1>1, <1>3 DEF FilterInv, PageKnows
<1>5. QED
    BY <1>1, <1>4, NotServed, NothingSent DEF FilterInv

LEMMA EditSteps ==
    ASSUME FilterInv,
           \/ EventFilters!AddCondition
           \/ \E i \in 1..MaxConditions :
                \/ EventFilters!RemoveCondition(i)
                \/ \E field \in EventFilters!Fields : EventFilters!ChangeAttribute(i, field)
                \/ \E test \in EventFilters!Tests : EventFilters!ChangeValue(i, test)
    PROVE  FilterInv'
<1> DEFINE c == filterForm.conditions
<1>1. filterForm # NoValue /\ nextCondition \in Nat /\ GoodConditions(c, nextCondition)
    BY DEF EventFilters!AddCondition, EventFilters!RemoveCondition, EventFilters!ChangeAttribute,
           EventFilters!ChangeValue, EventFilters!Editing, FilterInv, PageKnows, ServerKnows
<1>2. CASE EventFilters!AddCondition
    BY <1>1, <1>2, EditedConditions, EditStep DEF EventFilters!AddCondition
<1>3. CASE \E i \in 1..MaxConditions : EventFilters!RemoveCondition(i)
    BY <1>1, <1>3, EditedConditions, EditStep DEF EventFilters!RemoveCondition
<1>4. CASE \E i \in 1..MaxConditions, field \in EventFilters!Fields : EventFilters!ChangeAttribute(i, field)
    <2>1. PICK i \in DOMAIN c, field \in EventFilters!Fields :
            EventFilters!Edit([c EXCEPT ![i].field = field, ![i].test = EventFilters!Blank(field)])
        BY <1>4 DEF EventFilters!ChangeAttribute
    <2>2. GoodConditions([c EXCEPT ![i].field = field, ![i].test = EventFilters!Blank(field)], nextCondition)
        BY <1>1, EditedConditions, FieldsAndTests
    <2>3. QED
        BY <1>1, <2>1, <2>2, EditStep
<1>5. CASE \E i \in 1..MaxConditions, test \in EventFilters!Tests : EventFilters!ChangeValue(i, test)
    <2>1. PICK i \in DOMAIN c, test \in EventFilters!Tests :
            EventFilters!Edit([c EXCEPT ![i].test = test])
        BY <1>5 DEF EventFilters!ChangeValue
    <2>2. GoodConditions([c EXCEPT ![i].test = test], nextCondition)
        BY <1>1, EditedConditions, FieldsAndTests
    <2>3. QED
        BY <1>1, <2>1, <2>2, EditStep
<1>6. QED
    BY <1>2, <1>3, <1>4, <1>5

\* What the page asks of the server.
LEMMA SaveStep ==
    ASSUME FilterInv, EventFilters!Save PROVE FilterInv'
<1> DEFINE v == EventFilters!Attributes(filterForm.enabled, filterForm.conditions)
<1>1. /\ filterForm \in FilterForms /\ GoodFilter(v, nextCondition)
      /\ filterStore' = filterStore /\ nextCondition' = nextCondition
      /\ filterRemoval' = filterRemoval
    BY AttributesAreGood
       DEF EventFilters!Save, EventFilters!Editing, FilterInv, PageKnows, FilterForms
<1> HIDE DEF v
<1>2. /\ filterForm' \in FilterForms /\ filterForm'.conditions = filterForm.conditions
      /\ GoodConditions(filterForm'.conditions, nextCondition)
    BY <1>1 DEF EventFilters!Save, EventFilters!Editing, FilterInv, PageKnows, FilterForms
<1>3. CASE filterForm.filter = NoValue
    <2>1. /\ orphanFilter' = v /\ filterList' = filterList
          /\ EventFilters!Send("create", NoValue, v, TRUE, TRUE)
        BY <1>3 DEF EventFilters!Save, v
    <2>2. PageKnows'
        BY <1>1, <1>2, <2>1 DEF FilterInv, PageKnows
    <2>3. RequestsKnow'
        BY <1>1, <2>1, Sending
    <2>4. QED
        BY <1>1, <2>2, <2>3, NotServed DEF FilterInv
<1>4. CASE filterForm.filter # NoValue
    <2>1. /\ filterForm.filter \in AllFilters /\ filterForm.inList \in BOOLEAN
          /\ filterList' = IF filterForm.inList THEN [filterList EXCEPT ![filterForm.filter] = v]
                           ELSE filterList
          /\ orphanFilter' = orphanFilter
          /\ EventFilters!Send("update", filterForm.filter, v, filterForm.inList, TRUE)
        BY <1>1, <1>4 DEF EventFilters!Save, FilterForms, v
    <2>2. /\ filterList' = [f \in AllFilters |-> filterList'[f]]
          /\ \A f \in AllFilters : filterList'[f] = NoValue \/ GoodFilter(filterList'[f], nextCondition)
        BY <1>1, <2>1 DEF FilterInv, PageKnows
    <2>3. PageKnows'
        BY <1>1, <1>2, <2>1, <2>2 DEF FilterInv, PageKnows
    <2>4. RequestsKnow'
        BY <1>1, <2>1, Sending
    <2>5. QED
        BY <1>1, <2>3, <2>4, NotServed DEF FilterInv
<1>5. QED
    BY <1>3, <1>4

LEMMA AskSteps ==
    ASSUME FilterInv,
           \/ EventFilters!ToggleOrphan \/ EventFilters!ConfirmRemoval \/ EventFilters!CancelRemoval
           \/ \E f \in AllFilters : EventFilters!Toggle(f) \/ EventFilters!AskRemoval(f)
    PROVE  FilterInv'
<1>1. CASE EventFilters!ToggleOrphan
    <2> DEFINE v == EventFilters!Attributes(~orphanFilter.enabled, orphanFilter.conditions)
    <2>1. /\ GoodFilter(v, nextCondition)
          /\ EventFilters!Send("create", NoValue, v, TRUE, FALSE)
          /\ UNCHANGED <<filterStore, nextCondition, filterList, orphanFilter, filterForm, filterRemoval>>
        BY <1>1, AttributesAreGood
           DEF EventFilters!ToggleOrphan, EventFilters!pageVars, FilterInv, PageKnows, GoodFilter
    <2> HIDE DEF v
    <2>2. RequestsKnow'
        BY <2>1, Sending
    <2>3. QED
        BY <2>1, <2>2, NotServed DEF FilterInv, PageKnows
<1>2. CASE EventFilters!ConfirmRemoval
    <2> DEFINE v == EventFilters!Attributes(FALSE, <<>>)
    <2>1. /\ GoodFilter(v, nextCondition)
          /\ filterRemoval \in AllFilters
          /\ EventFilters!Send("remove", filterRemoval, v, TRUE, FALSE)
          /\ UNCHANGED <<filterStore, nextCondition, filterList, orphanFilter, filterForm, filterRemoval>>
        BY <1>2, NoConditions, AttributesAreGood
           DEF EventFilters!ConfirmRemoval, EventFilters!pageVars, FilterInv, PageKnows
    <2> HIDE DEF v
    <2>2. RequestsKnow'
        BY <2>1, Sending
    <2>3. QED
        BY <2>1, <2>2, NotServed DEF FilterInv, PageKnows
<1>3. CASE EventFilters!CancelRemoval
    <2>1. /\ filterRemoval' = NoValue /\ filterRequests' = filterRequests
          /\ UNCHANGED <<filterStore, nextCondition, filterList, orphanFilter, filterForm>>
        BY <1>3 DEF EventFilters!CancelRemoval
    <2>2. PageKnows'
        BY <2>1 DEF FilterInv, PageKnows
    <2>3. QED
        BY <2>1, <2>2, NotServed, NothingSent DEF FilterInv
<1>4. ASSUME NEW f \in AllFilters, EventFilters!Toggle(f) PROVE FilterInv'
    <2> DEFINE v == EventFilters!Attributes(~filterList[f].enabled, filterList[f].conditions)
    <2>1. /\ GoodFilter(v, nextCondition)
          /\ EventFilters!Send("update", f, v, TRUE, FALSE)
          /\ UNCHANGED <<filterStore, nextCondition, filterList, orphanFilter, filterForm, filterRemoval>>
        BY <1>4, AttributesAreGood
           DEF EventFilters!Toggle, EventFilters!pageVars, FilterInv, PageKnows, GoodFilter
    <2> HIDE DEF v
    <2>2. RequestsKnow'
        BY <2>1, Sending
    <2>3. QED
        BY <2>1, <2>2, NotServed DEF FilterInv, PageKnows
<1>5. ASSUME NEW f \in AllFilters, EventFilters!AskRemoval(f) PROVE FilterInv'
    <2>1. /\ filterRemoval' = f /\ filterRequests' = filterRequests
          /\ UNCHANGED <<filterStore, nextCondition, filterList, orphanFilter, filterForm>>
        BY <1>5 DEF EventFilters!AskRemoval
    <2>2. PageKnows'
        BY <2>1 DEF FilterInv, PageKnows
    <2>3. QED
        BY <2>1, <2>2, NotServed, NothingSent DEF FilterInv
<1>6. QED
    BY <1>1, <1>2, <1>3, <1>4, <1>5

\* What the server makes of a request: nothing, or a filter with conditions that have ids of
\* their own.
MaybeStored(v, n) == v = NoValue \/ StoredFilter(v, n)

LEMMA StoredStep ==
    ASSUME FilterInv, NEW n \in Nat, nextCondition <= n, nextCondition' = n,
           NEW f \in AllFilters, NEW v, MaybeStored(v, n),
           filterStore' = [filterStore EXCEPT ![f] = v]
    PROVE  ServerKnows'
<1>1. nextCondition \in Nat
    BY DEF FilterInv, ServerKnows
<1>2. \A w : StoredFilter(w, nextCondition) => StoredFilter(w, n)
    BY <1>1, StillGood
<1>3. /\ filterStore' = [g \in AllFilters |-> filterStore'[g]]
      /\ \A g \in AllFilters : filterStore'[g] = NoValue \/ StoredFilter(filterStore'[g], n)
    BY <1>2 DEF FilterInv, ServerKnows, MaybeStored
<1>4. QED
    BY <1>3 DEF ServerKnows

\* What is known of fewer ids stays true.
LEMMA MoreIds ==
    ASSUME FilterInv, NEW n \in Nat, nextCondition <= n
    PROVE  /\ \A f \in AllFilters : filterList[f] = NoValue \/ GoodFilter(filterList[f], n)
           /\ orphanFilter = NoValue \/ GoodFilter(orphanFilter, n)
           /\ filterForm = NoValue \/ (filterForm \in FilterForms /\ GoodConditions(filterForm.conditions, n))
           /\ \A r \in filterRequests : GoodConditions(r.conditions, n)
<1>1. nextCondition \in Nat
    BY DEF FilterInv, ServerKnows
<1>2. /\ \A c : GoodConditions(c, nextCondition) => GoodConditions(c, n)
      /\ \A v : GoodFilter(v, nextCondition) => GoodFilter(v, n)
    BY <1>1, StillGood
<1>3. QED
    BY <1>2 DEF FilterInv, PageKnows, RequestsKnow

\* The page takes over what the server says, or never hears of it.
LEMMA AcceptedStep ==
    ASSUME FilterInv, NEW r \in filterRequests, NEW f \in AllFilters, NEW v, NEW heard \in BOOLEAN,
           MaybeStored(v, nextCondition + Len(EventFilters!Added(r.conditions))),
           EventFilters!Accepted(r, f, v, heard)
    PROVE  FilterInv'
<1> DEFINE n == nextCondition + Len(EventFilters!Added(r.conditions))
<1>1. /\ filterStore' = [filterStore EXCEPT ![f] = v] /\ nextCondition' = n
      /\ filterRequests' = filterRequests \ {r}
      /\ IF heard THEN EventFilters!Heard(r, f, v)
         ELSE UNCHANGED <<filterList, orphanFilter, filterForm, filterRemoval>>
    BY DEF EventFilters!Accepted, EventFilters!Stored, EventFilters!pageVars
<1>2. n \in Nat /\ nextCondition <= n
    <2>1. GoodConditions(r.conditions, nextCondition) /\ nextCondition \in Nat
        BY DEF FilterInv, RequestsKnow, ServerKnows
    <2>2. PICK m : IdsUpTo(r.conditions, m)
        BY <2>1, IdsFirst
    <2>3. EventFilters!Added(r.conditions) \in Seq(EventFilters!Conditions)
        BY <2>1, <2>2, WhatIsAdded DEF FilterInv
    <2>4. Len(EventFilters!Added(r.conditions)) \in Nat
        BY <2>3, LenProperties
    <2>5. QED
        BY <2>1, <2>4
<1>3. MaybeStored(v, n)
    OBVIOUS
<1> HIDE DEF n
<1>4. ServerKnows'
    BY <1>1, <1>2, <1>3, StoredStep
<1>5. RequestsKnow'
    BY <1>1, <1>2, MoreIds DEF FilterInv, RequestsKnow
<1>6. CASE ~heard
    <2>1. PageKnows'
        BY <1>1, <1>2, <1>6, MoreIds DEF FilterInv, PageKnows
    <2>2. QED
        BY <1>4, <1>5, <2>1 DEF FilterInv
<1>7. CASE heard
    <2>1. v = NoValue \/ GoodFilter(v, n)
        BY <1>3, StoredAreGood DEF MaybeStored
    <2>2. /\ filterList' = [g \in AllFilters |-> filterList'[g]]
          /\ \A g \in AllFilters : filterList'[g] = NoValue \/ GoodFilter(filterList'[g], n)
        BY <1>1, <1>2, <1>7, <2>1, MoreIds DEF EventFilters!Heard, FilterInv, PageKnows
    <2>3. orphanFilter' = NoValue \/ GoodFilter(orphanFilter', n)
        BY <1>1, <1>2, <1>7, MoreIds DEF EventFilters!Heard
    <2>4. filterRemoval' \in AllFilters \cup {NoValue}
        BY <1>1, <1>7 DEF EventFilters!Heard, FilterInv, PageKnows
    <2>5. filterForm' = NoValue \/ (filterForm' \in FilterForms /\ GoodConditions(filterForm'.conditions, n))
        <3>1. filterForm' \in {NoValue, filterForm, [filterForm EXCEPT !.filter = f]}
            BY <1>1, <1>7 DEF EventFilters!Heard
        <3>2. filterForm = NoValue => filterForm' = NoValue
            BY <1>1, <1>7 DEF EventFilters!Heard
        <3>3. filterForm \in FilterForms =>
                /\ [filterForm EXCEPT !.filter = f] \in FilterForms
                /\ [filterForm EXCEPT !.filter = f].conditions = filterForm.conditions
            BY DEF FilterForms
        <3>4. QED
            BY <1>2, <3>1, <3>2, <3>3, MoreIds
    <2>6. PageKnows'
        BY <1>1, <2>2, <2>3, <2>4, <2>5 DEF PageKnows
    <2>7. QED
        BY <1>4, <1>5, <2>6 DEF FilterInv
<1>8. QED
    BY <1>6, <1>7

\* What a request makes of a filter, and which filter that is.
LEMMA WhatIsServed ==
    ASSUME FilterInv, NEW r \in filterRequests, NEW heard \in BOOLEAN
    PROVE  LET n == nextCondition + Len(EventFilters!Added(r.conditions))
               stored == filterStore[r.filter].conditions IN
           /\ MaybeStored(EventFilters!Created(r.conditions), n)
           /\ EventFilters!ServeUpdate(r, heard) =>
                /\ r.filter \in AllFilters
                /\ StoredConditions(stored, nextCondition)
                /\ MaybeStored(EventFilters!Attributes(r.enabled,
                                 EventFilters!Updated(stored, r.conditions)), n)
<1> DEFINE n == nextCondition + Len(EventFilters!Added(r.conditions))
           stored == filterStore[r.filter].conditions
<1>1. /\ ServerKnows /\ nextCondition \in Nat /\ GoodConditions(r.conditions, nextCondition)
      /\ r \in FilterRequests
      /\ r.what \in {"update", "remove"} => r.filter \in AllFilters
    BY DEF FilterInv, RequestsKnow, ServerKnows
<1>2. MaybeStored(EventFilters!Created(r.conditions), n)
    <2>1. StoredConditions(<<>>, nextCondition)
        BY EmptySeq DEF StoredConditions, GoodConditions, Ascending, Given
    <2>2. StoredConditions(EventFilters!Added(r.conditions), n)
        BY <1>1, <2>1, UpdateIsGood
    <2>3. QED
        BY <2>2 DEF EventFilters!Created, EventFilters!Attributes, MaybeStored, StoredFilter,
                    FilterValues, StoredConditions, GoodConditions
<1>3. ASSUME EventFilters!ServeUpdate(r, heard)
      PROVE  /\ r.filter \in AllFilters /\ StoredConditions(stored, nextCondition)
             /\ MaybeStored(EventFilters!Attributes(r.enabled,
                              EventFilters!Updated(stored, r.conditions)), n)
    <2>1. r.filter \in AllFilters /\ filterStore[r.filter] # NoValue
        BY <1>1, <1>3 DEF EventFilters!ServeUpdate
    <2>2. StoredConditions(stored, nextCondition)
        BY <1>1, <2>1 DEF ServerKnows, StoredFilter
    <2>3. StoredConditions(EventFilters!Updated(stored, r.conditions), n)
        BY <1>1, <2>2, UpdateIsGood
    <2>4. r.enabled \in BOOLEAN
        BY <1>1 DEF FilterRequests
    <2>5. QED
        BY <2>1, <2>2, <2>3, <2>4
           DEF EventFilters!Attributes, MaybeStored, StoredFilter, FilterValues, StoredConditions,
               GoodConditions
<1>4. QED
    BY <1>2, <1>3

LEMMA ServeStep ==
    ASSUME FilterInv, NEW r \in filterRequests, EventFilters!Serve(r) PROVE FilterInv'
<1>1. PICK heard \in BOOLEAN :
        EventFilters!ServeCreate(r, heard) \/ EventFilters!ServeUpdate(r, heard)
          \/ EventFilters!ServeRemove(r, heard)
    BY DEF EventFilters!Serve
<1>2. CASE EventFilters!ServeCreate(r, heard)
    <2> DEFINE f == CHOOSE g \in EventFilters!Unused : TRUE
    <2>1. f \in AllFilters
        BY <1>2 DEF EventFilters!ServeCreate, EventFilters!Unused
    <2>2. EventFilters!Accepted(r, f, EventFilters!Created(r.conditions), heard)
        BY <1>2 DEF EventFilters!ServeCreate
    <2> HIDE DEF f
    <2>3. QED
        BY <2>1, <2>2, WhatIsServed, AcceptedStep
<1>3. CASE EventFilters!ServeUpdate(r, heard)
    <2>1. EventFilters!Accepted(r, r.filter,
            EventFilters!Attributes(r.enabled,
              EventFilters!Updated(filterStore[r.filter].conditions, r.conditions)), heard)
        BY <1>3 DEF EventFilters!ServeUpdate
    <2>2. QED
        BY <1>3, <2>1, WhatIsServed, AcceptedStep
<1>4. CASE EventFilters!ServeRemove(r, heard)
    <2>1. EventFilters!Accepted(r, r.filter, NoValue, heard) /\ r.filter \in AllFilters
        BY <1>4 DEF EventFilters!ServeRemove, FilterInv, RequestsKnow
    <2>2. QED
        BY <2>1, AcceptedStep DEF MaybeStored
<1>5. QED
    BY <1>1, <1>2, <1>3, <1>4

\* Requests that fail, lists that are replaced, and other users.
LEMMA OtherSteps ==
    ASSUME FilterInv,
           \/ EventFilters!Refresh
           \/ \E r \in filterRequests : EventFilters!Refused(r)
           \/ \E f \in AllFilters : EventFilters!SomebodySaves(f)
    PROVE  FilterInv'
<1>1. CASE EventFilters!Refresh
    <2>1. /\ filterList' = filterStore /\ orphanFilter' = NoValue
          /\ filterForm' = IF filterForm = NoValue THEN NoValue ELSE [filterForm EXCEPT !.inList = FALSE]
          /\ filterRequests' = {[r EXCEPT !.inList = FALSE] : r \in filterRequests}
          /\ filterStore' = filterStore /\ nextCondition' = nextCondition
          /\ filterRemoval' = filterRemoval
        BY <1>1 DEF EventFilters!Refresh
    <2>2. /\ filterList' = [f \in AllFilters |-> filterList'[f]]
          /\ \A f \in AllFilters : filterList'[f] = NoValue \/ GoodFilter(filterList'[f], nextCondition)
        BY <2>1, StoredAreGood DEF FilterInv, ServerKnows
    <2>3. filterForm' = NoValue \/ (filterForm' \in FilterForms
                                      /\ GoodConditions(filterForm'.conditions, nextCondition))
        BY <2>1 DEF FilterInv, PageKnows, FilterForms
    <2>4. PageKnows'
        BY <2>1, <2>2, <2>3 DEF FilterInv, PageKnows
    <2>5. RequestsKnow'
        <3>1. ASSUME NEW r \in filterRequests
              PROVE  LET q == [r EXCEPT !.inList = FALSE] IN
                     /\ q \in FilterRequests /\ GoodConditions(q.conditions, nextCondition)
                     /\ q.what \in {"update", "remove"} => q.filter \in AllFilters
            BY DEF FilterInv, RequestsKnow, FilterRequests
        <3>2. QED
            BY <2>1, <3>1 DEF RequestsKnow
    <2>6. QED
        BY <2>1, <2>4, <2>5, NotServed DEF FilterInv
<1>2. ASSUME NEW r \in filterRequests, EventFilters!Refused(r) PROVE FilterInv'
    <2>1. /\ filterRequests' = filterRequests \ {r}
          /\ UNCHANGED <<filterStore, nextCondition, filterList, orphanFilter, filterForm, filterRemoval>>
        BY <1>2 DEF EventFilters!Refused, EventFilters!pageVars
    <2>2. QED
        BY <2>1, NotServed, NothingSent DEF FilterInv, PageKnows
<1>3. ASSUME NEW f \in AllFilters, EventFilters!SomebodySaves(f) PROVE FilterInv'
    <2> DEFINE less == EventFilters!Attributes(filterStore[f].enabled, Tail(filterStore[f].conditions))
    <2>1. /\ filterStore[f] # NoValue /\ filterRequests' = filterRequests
          /\ filterStore' = [filterStore EXCEPT ![f] =
                               IF filterStore[f].conditions = <<>> THEN NoValue ELSE less]
          /\ UNCHANGED <<nextCondition, filterList, orphanFilter, filterForm, filterRemoval>>
        BY <1>3 DEF EventFilters!SomebodySaves, EventFilters!pageVars
    <2>2. nextCondition \in Nat /\ StoredFilter(filterStore[f], nextCondition)
        BY <2>1 DEF FilterInv, ServerKnows
    <2>3. filterStore[f].conditions # <<>> => MaybeStored(less, nextCondition)
        <3>1. SUFFICES ASSUME filterStore[f].conditions # <<>>
                       PROVE  MaybeStored(less, nextCondition)
            OBVIOUS
        <3>2. StoredConditions(Tail(filterStore[f].conditions), nextCondition)
            BY <2>2, <3>1, OneLess DEF StoredFilter
        <3>3. QED
            BY <2>2, <3>2 DEF MaybeStored, StoredFilter, FilterValues, EventFilters!Attributes,
                              StoredConditions, GoodConditions
    <2> HIDE DEF less
    <2>4. PICK v : filterStore' = [filterStore EXCEPT ![f] = v] /\ MaybeStored(v, nextCondition)
        BY <2>1, <2>3 DEF MaybeStored
    <2>5. nextCondition <= nextCondition
        BY <2>2
    <2>6. ServerKnows'
        BY <2>1, <2>2, <2>4, <2>5, StoredStep
    <2>7. PageKnows'
        BY <2>1 DEF FilterInv, PageKnows
    <2>8. QED
        BY <2>1, <2>6, <2>7, NothingSent DEF FilterInv
<1>4. QED
    BY <1>1, <1>2, <1>3

LEMMA FilterStep ==
    ASSUME FilterInv, [EventFilters!Next]_EventFilters!filterVars PROVE FilterInv'
<1>1. CASE UNCHANGED EventFilters!filterVars
    BY <1>1 DEF EventFilters!filterVars, EventFilters!pageVars, FilterInv, ServerKnows, PageKnows,
                RequestsKnow
<1>2. CASE EventFilters!Next
    BY <1>2, OpenSteps, EditSteps, SaveStep, AskSteps, ServeStep, OtherSteps DEF EventFilters!Next
<1>3. QED
    BY <1>1, <1>2

\* The fields can be listed.
LEMMA ListedFields ==
    LET fields == EventFilters!SetToSeq(EventFilters!Fields) IN
    /\ Cardinality(EventFilters!Fields) \in Nat \ {0}
    /\ \A i \in 1..Cardinality(EventFilters!Fields) : fields[i] \in EventFilters!Fields
<1> DEFINE F == EventFilters!Fields
           l == Cardinality(F)
<1>1. IsFiniteSet(F) /\ F # {}
    BY FiltersAssumption, FS_Union DEF EventFilters!Fields
<1>2. l \in Nat /\ l # 0 /\ ExistsBijection(1..l, F)
    BY <1>1, FS_CardinalityType, FS_EmptySet
<1>3. PICK g \in [1..l -> F] : \A a, b \in DOMAIN g : g[a] = g[b] => a = b
    BY <1>2 DEF ExistsBijection, Bijection, Injection, IsInjective
<1>4. EventFilters!SetToSeq(F) = CHOOSE h \in [1..l -> F] : \A a, b \in DOMAIN h : h[a] = h[b] => a = b
    BY DEF EventFilters!SetToSeq, EventFilters!IsInjective, EventFilters!Cardinality, Cardinality
<1> HIDE DEF F, l
<1>5. EventFilters!SetToSeq(F) \in [1..l -> F]
    BY <1>3, <1>4
<1>6. QED
    BY <1>2, <1>5 DEF F, l

LEMMA FilterInit == EventFilters!Init => FilterInv
<1> SUFFICES ASSUME EventFilters!Init PROVE FilterInv
    OBVIOUS
<1> DEFINE F == EventFilters!Fields
           l == Cardinality(F)
           field(i) == EventFilters!SetToSeq(F)[1 + (i % l)]
           c == [i \in 1..MaxConditions |->
                   EventFilters!Condition(i, field(i), <<field(i), 1>>)]
           v == EventFilters!Attributes(TRUE, c)
<1>1. /\ filterStore = [f \in AllFilters |-> IF f \in FirstFilters THEN v ELSE NoValue]
      /\ nextCondition = MaxConditions + 1 /\ filterList = filterStore /\ orphanFilter = NoValue
      /\ filterForm = NoValue /\ filterRemoval = NoValue /\ filterRequests = {}
    BY DEF EventFilters!Init, EventFilters!Cardinality, Cardinality
<1>2. ASSUME NEW i \in 1..MaxConditions
      PROVE  /\ c[i] \in EventFilters!Conditions /\ c[i].id = i
    <2>1. 1 + (i % l) \in 1..l
        BY ListedFields
    <2>2. field(i) \in F
        BY <2>1, ListedFields
    <2>3. i \in Nat \cup {NoValue} /\ <<field(i), 1>> \in EventFilters!Tests \cup {NoValue}
        BY <2>2 DEF EventFilters!Tests
    <2> HIDE DEF field, F
    <2>4. QED
        BY <2>2, <2>3, FieldsAndTests DEF F
<1>3. DOMAIN c = 1..MaxConditions /\ c \in [1..MaxConditions -> EventFilters!Conditions]
    BY <1>2
<1> HIDE DEF c
<1>4. c \in Seq(EventFilters!Conditions) /\ MaxConditions \in Nat
    BY <1>3, FiltersAssumption
<1>5. StoredConditions(c, nextCondition)
    BY <1>1, <1>2, <1>3, <1>4 DEF StoredConditions, GoodConditions, Ascending, Given
<1>6. StoredFilter(v, nextCondition) /\ nextCondition \in Nat
    BY <1>1, <1>4, <1>5 DEF StoredFilter, FilterValues, EventFilters!Attributes
<1> HIDE DEF v
<1>7. QED
    BY <1>1, <1>6, StoredAreGood DEF FilterInv, ServerKnows, PageKnows, RequestsKnow

\* Only an update that is accepted removes an update and changes what is stored.
LEMMA SentIsStored ==
    ASSUME FilterInv, [EventFilters!Next]_EventFilters!filterVars,
           NEW r \in filterRequests \ filterRequests',
           r.what = "update", filterStore[r.filter] # NoValue, filterStore' # filterStore,
           EventFilters!Ids(r.conditions) \subseteq EventFilters!Ids(filterStore[r.filter].conditions)
    PROVE  LET result == filterStore'[r.filter].conditions IN
           /\ Len(result) = Len(r.conditions)
           /\ \A i \in DOMAIN result : result[i].field = r.conditions[i].field
           /\ result # <<>> => EventFilters!Last(result).test = EventFilters!Last(r.conditions).test
<1>1. PICK q \in filterRequests : EventFilters!Serve(q)
    BY DEF EventFilters!Next, EventFilters!filterVars, EventFilters!OpenNew, EventFilters!OpenOrphan,
           EventFilters!Open, EventFilters!CloseForm, EventFilters!AddCondition, EventFilters!Edit,
           EventFilters!Save, EventFilters!ToggleOrphan, EventFilters!ConfirmRemoval,
           EventFilters!CancelRemoval, EventFilters!Refresh, EventFilters!OpenListed,
           EventFilters!Toggle, EventFilters!AskRemoval, EventFilters!SomebodySaves,
           EventFilters!RemoveCondition, EventFilters!ChangeAttribute, EventFilters!ChangeValue,
           EventFilters!Refused
<1>2. q = r
    BY <1>1 DEF EventFilters!Serve, EventFilters!ServeCreate, EventFilters!ServeUpdate,
                EventFilters!ServeRemove, EventFilters!Accepted
<1>3. PICK heard \in BOOLEAN : EventFilters!ServeUpdate(r, heard)
    BY <1>1, <1>2 DEF EventFilters!Serve, EventFilters!ServeCreate, EventFilters!ServeRemove
<1> DEFINE stored == filterStore[r.filter].conditions
           new == EventFilters!Updated(stored, r.conditions)
<1>4. filterStore' = [filterStore EXCEPT ![r.filter] = EventFilters!Attributes(r.enabled, new)]
    BY <1>3 DEF EventFilters!ServeUpdate, EventFilters!Accepted, EventFilters!Stored
<1>5. /\ r.filter \in AllFilters /\ StoredConditions(stored, nextCondition)
      /\ ServerKnows /\ GoodConditions(r.conditions, nextCondition)
    BY <1>3, WhatIsServed DEF FilterInv, RequestsKnow
<1>6. filterStore'[r.filter].conditions = new
    BY <1>4, <1>5 DEF EventFilters!Attributes, ServerKnows
<1>7. /\ Len(new) = Len(r.conditions) /\ DOMAIN new = DOMAIN r.conditions
      /\ \A i \in DOMAIN new : new[i].field = r.conditions[i].field
      /\ new # <<>> => new[Len(new)].test = r.conditions[Len(r.conditions)].test
    BY <1>5, UpdateAsSent
<1> HIDE DEF new
<1>8. QED
    BY <1>6, <1>7 DEF EventFilters!Last

\* Whatever forms, requests, answers that are lost and other users do, an update stores as many
\* conditions as were sent, with their fields and in their order.
THEOREM ConditionsAreStored == EventFilters!Spec => StoredAsSent
<1>1. FilterInv /\ [EventFilters!Next]_EventFilters!filterVars => FilterInv'
    BY FilterStep
<1>2. FilterInv /\ [EventFilters!Next]_EventFilters!filterVars
        => [\A r \in filterRequests \ filterRequests' :
              r.what = "update" /\ filterStore[r.filter] # NoValue /\ filterStore' # filterStore
                 /\ EventFilters!Ids(r.conditions) \subseteq EventFilters!Ids(filterStore[r.filter].conditions) =>
              LET result == filterStore'[r.filter].conditions IN
              /\ Len(result) = Len(r.conditions)
              /\ \A i \in DOMAIN result : result[i].field = r.conditions[i].field
              /\ result # <<>> => EventFilters!Last(result).test = EventFilters!Last(r.conditions).test
           ]_EventFilters!filterVars
    BY SentIsStored
<1>3. QED
    BY <1>1, <1>2, FilterInit, PTL DEF EventFilters!Spec, StoredAsSent, EventFilters!StoredAsSent
=============================================================================
