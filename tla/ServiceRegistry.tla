-------------------------- MODULE ServiceRegistry --------------------------
(***************************************************************************)
(* The services that sensors can run: rows of the database with their      *)
(* revisions and a default one, and the images of the revisions in the     *)
(* registry, which is another server.  Images get there by a task, and     *)
(* are removed by the requests that remove revisions or services, before   *)
(* the rows.  As in FirmwareStore a click includes the reads that decide   *)
(* whether the request is refused, and the details that a page shows are   *)
(* as old as its models.  There is one architecture: the images of a       *)
(* revision for several of them come and go one after the other.           *)
(***************************************************************************)
EXTENDS Naturals, FiniteSets

CONSTANTS
    Pages,          \* pages of administrators; each has at most one request under way
    Names,          \* of services; each has its repository
    Revisions,      \* revision strings, which services have in common
    Archives,       \* what is uploaded: pairs of a name and a revision
    None,
    MaxId,          \* bound: rows
    MaxClicks,      \* bound: requests
    MaxFaults       \* bound: requests that end early, tasks that fail, outages

Ids == 1..MaxId

VARIABLES
    services,       \* rows of services: the name of each id
    default,        \* their default revisions
    revisions,      \* rows of revisions: id, service, revision
    lastId,         \* the last id that was given to a row, of either table
    images,         \* in the registry: pairs of a name and a revision
    filling,        \* images that a task is going to put there
    online,         \* whether the registry answers
    uploads,        \* archives whose verified upload is there
    request,        \* what each page waits for
    disabled,       \* of the list of each page: rows whose buttons do not work
    details,        \* of the details of each page: service, rows, default revision
    clicks, faults,
    shared,         \* history: names that two requests were creating or removing at once
    harmed          \* history: pairs of a service and a revision, see Properties

rowVars == <<services, default, revisions, lastId>>
registryVars == <<images, filling, online>>
pageVars == <<disabled, details>>
historyVars == <<shared, harmed>>
serviceVars == <<rowVars, registryVars, uploads, request, pageVars, clicks, faults, historyVars>>

Rows == DOMAIN services
Has(s, rev) == \E r \in revisions : r.service = s /\ r.revision = rev
Of(s) == {r \in revisions : r.service = s}

Idle == [at |-> "idle", name |-> None, service |-> None, revision |-> None, rest |-> {}, all |-> {}]
NoDetails == [service |-> None, rows |-> {}, default |-> None]

\* One service has two revisions, the other, if there is one, one of them.
Init ==
    /\ \E first, second \in Names, old, new \in Revisions, n \in 1..2 :
        /\ first # second /\ old # new
        /\ services = [s \in 1..n |-> IF s = 1 THEN first ELSE second]
        /\ default = [s \in 1..n |-> new]
        /\ revisions = {r \in [id : 3..5, service : 1..n, revision : {old, new}] :
                          /\ r.service = IF r.id = 5 THEN 2 ELSE 1
                          /\ r.revision = IF r.id = 3 THEN old ELSE new}
        /\ images = {<<services[r.service], r.revision>> : r \in revisions}
    /\ lastId = 5 /\ filling = {} /\ online = TRUE /\ uploads = Archives
    /\ request = [p \in Pages |-> Idle]
    /\ disabled = [p \in Pages |-> Rows] /\ details = [p \in Pages |-> NoDetails]
    /\ clicks = 0 /\ faults = 0 /\ shared = {} /\ harmed = {}

-----------------------------------------------------------------------------
(* The pages *)

Shows(p, dead, shown) ==
    /\ request[p] = Idle
    /\ disabled' = [disabled EXCEPT ![p] = dead] /\ details' = [details EXCEPT ![p] = shown]
    /\ UNCHANGED <<rowVars, registryVars, uploads, request, clicks, faults, historyVars>>

\* services:show disables the buttons of all rows, but not those of rows that come later.
ShowList(p) == Shows(p, Rows, NoDetails)

\* updateRegistryStatus() enables them, if the registry answers.
StatusAnswered(p) == online /\ Shows(p, {}, details[p])

ShowDetails(p, s) ==
    /\ s \in Rows \ disabled[p]
    /\ Shows(p, disabled[p], [service |-> s, rows |-> Of(s), default |-> default[s]])

Asks(p, r) ==
    /\ request[p] = Idle /\ clicks < MaxClicks /\ clicks' = clicks + 1
    /\ request' = [request EXCEPT ![p] = r]
    /\ UNCHANGED <<rowVars, registryVars, uploads, pageVars, faults>>

Others(p, at) == {request[q] : q \in {q \in Pages \ {p} : request[q].at \in at}}
Removal == {"untag", "remove"}      \* steps of a request that removes rows and images

\* createService(): the registry answers, the upload has been verified, the revision is new.
\* Another request that creates the service, or the revision, or removes images of the name
\* does not see this one.
Register(p, name, rev) ==
    \E s \in {t \in Rows : services[t] = name} \cup {x \in {None} : name \notin {services[t] : t \in Rows}} :
        /\ <<name, rev>> \in uploads /\ online /\ ~Has(s, rev)
        /\ Asks(p, [Idle EXCEPT !.at = "insert", !.name = name, !.service = s, !.revision = rev])
        /\ shared' = shared \cup
             {r.name : r \in {o \in Others(p, {"insert"} \cup Removal) :
                                o.name = name /\ (s = None \/ o.at # "insert" \/ o.revision = rev)}}
        /\ UNCHANGED harmed

\* updateService(): it takes the revision string of any service.
SetDefault(p, s, rev) ==
    /\ s = details[p].service /\ rev # details[p].default
    /\ \E r \in details[p].rows : r.revision = rev
    /\ s \in Rows /\ \E r \in revisions : r.revision = rev
    /\ Asks(p, [Idle EXCEPT !.at = "default", !.name = services[s], !.service = s, !.revision = rev])
    /\ harmed' = harmed \cup {<<s, rev>> : o \in {x \in Others(p, Removal) :
                                                     x.service = s /\ x.revision = rev}}
                        \cup {<<s, rev>> : x \in {y \in {rev} : ~Has(s, y)}}
    /\ UNCHANGED shared

\* Mutant: the default revision is removed like any other.
RemovableAnyway(r) == r \in revisions

\* What deleteRevision() asks before it starts.
Removable(r) == r \in revisions /\ r.revision # default[r.service]

\* ModalServiceRevisionRemove; the default revision has no button.
RemoveRevision(p, r) ==
    /\ r \in details[p].rows /\ r.revision # details[p].default /\ Removable(r)
    /\ Asks(p, [Idle EXCEPT !.at = "untag", !.name = services[r.service], !.service = r.service,
                            !.revision = r.revision, !.rest = {r}, !.all = {r}])
    /\ harmed' = harmed \cup {<<o.service, o.revision>> :
                                o \in {x \in Others(p, {"default"} \cup Removal) :
                                         x.service = r.service /\ x.revision = r.revision}}
    /\ UNCHANGED shared

\* ModalServiceRemove
RemoveService(p, s) ==
    /\ s \in Rows \ disabled[p]
    /\ Asks(p, [Idle EXCEPT !.at = "untag", !.name = services[s], !.service = s,
                            !.rest = Of(s), !.all = Of(s)])
    /\ UNCHANGED historyVars

-----------------------------------------------------------------------------
(* The requests *)

Goes(p, r) == request' = [request EXCEPT ![p] = r]

\* createService(), flush.  A new service has this revision as its default one; the database
\* refuses a revision of a service that is gone.
Insert(p) ==
    LET r == request[p]
        s == IF r.service = None THEN lastId + 1 ELSE r.service
        row == [id |-> IF r.service = None THEN lastId + 2 ELSE lastId + 1,
                service |-> s, revision |-> r.revision] IN
    /\ r.at = "insert" /\ row.id \in Ids
    /\ IF r.service # None /\ s \notin Rows
       THEN Goes(p, Idle) /\ UNCHANGED <<rowVars, uploads, harmed>>
       ELSE /\ revisions' = revisions \cup {row} /\ lastId' = row.id
            /\ services' = [t \in Rows \cup {s} |-> IF t = s THEN r.name ELSE services[t]]
            /\ default' = [t \in Rows \cup {s} |->
                             IF t = s /\ r.service = None THEN r.revision ELSE default[t]]
            /\ uploads' = uploads \ {<<r.name, r.revision>>}
            /\ Goes(p, [r EXCEPT !.at = "enqueue", !.service = s])
            /\ harmed' = harmed \cup {<<s, rev>> : rev \in IF r.name \in shared THEN Revisions ELSE {}}
    /\ UNCHANGED <<registryVars, pageVars, clicks, faults, shared>>

\* The task that fills the registry.
Enqueue(p) ==
    /\ request[p].at = "enqueue" /\ Goes(p, Idle)
    /\ filling' = filling \cup {<<request[p].name, request[p].revision>>}
    /\ UNCHANGED <<rowVars, images, online, uploads, pageVars, clicks, faults, historyVars>>

\* updateService(), flush.  The answer draws the details anew.
FlushDefault(p) ==
    LET r == request[p] IN
    /\ r.at = "default" /\ Goes(p, Idle)
    /\ default' = [s \in Rows |-> IF s = r.service THEN r.revision ELSE default[s]]
    /\ details' = IF r.service \in Rows THEN [details EXCEPT ![p].default = r.revision] ELSE details
    /\ UNCHANGED <<services, revisions, lastId, registryVars, uploads, disabled, clicks, faults, historyVars>>

\* What a request leaves behind that has removed images and ends before the rows.
Torn(r) == {<<x.service, x.revision>> : x \in r.all}

\* removeServiceRevision(): removeTag() for one revision after the other.  An image that is
\* not there is fine; if the registry does not answer, the request ends.
Untag(p) ==
    LET r == request[p] IN
    /\ r.at = "untag"
    /\ IF ~online
       THEN Goes(p, Idle) /\ harmed' = harmed \cup Torn(r) /\ UNCHANGED images
       ELSE /\ \/ r.rest = {} /\ Goes(p, [r EXCEPT !.at = "remove"]) /\ UNCHANGED images
               \/ \E x \in r.rest :
                    /\ Goes(p, [r EXCEPT !.rest = @ \ {x},
                                         !.at = IF r.rest = {x} THEN "remove" ELSE @])
                    /\ images' = images \ {<<r.name, x.revision>>}
            /\ UNCHANGED harmed
    /\ UNCHANGED <<rowVars, filling, online, uploads, pageVars, clicks, faults, shared>>

\* deleteRevision(), flush.  The page takes the row away.
DeleteRevision(p) ==
    LET r == request[p] IN
    /\ r.at = "remove" /\ r.revision # None /\ Goes(p, Idle)
    /\ revisions' = revisions \ r.all
    /\ details' = [details EXCEPT ![p].rows = @ \ r.all]
    /\ UNCHANGED <<services, default, lastId, registryVars, uploads, disabled, clicks, faults, historyVars>>

\* deleteService(), flush: the service and the revisions that were read.  The database
\* refuses it if there is another revision.
DeleteService(p) ==
    LET r == request[p] IN
    /\ r.at = "remove" /\ r.revision = None /\ Goes(p, Idle)
    /\ IF Of(r.service) \subseteq r.all
       THEN /\ services' = [s \in Rows \ {r.service} |-> services[s]]
            /\ default' = [s \in Rows \ {r.service} |-> default[s]]
            /\ revisions' = revisions \ r.all
            /\ UNCHANGED harmed
       ELSE harmed' = harmed \cup Torn(r) /\ UNCHANGED <<services, default, revisions>>
    /\ UNCHANGED <<lastId, registryVars, uploads, pageVars, clicks, faults, shared>>

\* The process dies, or the registry or the database refuses what it is asked for.
EndsEarly(p) ==
    LET r == request[p] IN
    /\ r.at \in {"enqueue"} \cup Removal
    /\ faults < MaxFaults /\ faults' = faults + 1
    /\ Goes(p, Idle)
    /\ harmed' = harmed \cup Torn(r) \cup {<<r.service, r.revision>>}
    /\ UNCHANGED <<rowVars, registryVars, uploads, pageVars, clicks, shared>>

-----------------------------------------------------------------------------
(* The registry *)

\* registry_manager: the exit code of the copy is not looked at, the task is done.
Fill(i) ==
    /\ i \in filling /\ filling' = filling \ {i}
    /\ IF online THEN images' = images \cup {i} /\ UNCHANGED harmed
       ELSE /\ harmed' = harmed \cup {<<s, i[2]>> : s \in {t \in Rows : services[t] = i[1]}}
            /\ UNCHANGED images
    /\ UNCHANGED <<rowVars, online, uploads, request, pageVars, clicks, faults, shared>>

\* The task is removed before a worker takes it, or fails.
FillFails(i) ==
    /\ i \in filling /\ filling' = filling \ {i}
    /\ faults < MaxFaults /\ faults' = faults + 1
    /\ harmed' = harmed \cup {<<s, i[2]>> : s \in {t \in Rows : services[t] = i[1]}}
    /\ UNCHANGED <<rowVars, images, online, uploads, request, pageVars, clicks, shared>>

Outage ==
    /\ online' = ~online
    /\ IF online THEN faults < MaxFaults /\ faults' = faults + 1 ELSE UNCHANGED faults
    /\ UNCHANGED <<rowVars, images, filling, uploads, request, pageVars, clicks, historyVars>>

Clicks(p) ==
    \/ ShowList(p) \/ StatusAnswered(p)
    \/ \E s \in Ids : ShowDetails(p, s) \/ RemoveService(p, s)
    \/ \E a \in Archives : Register(p, a[1], a[2])
    \/ \E s \in Ids, rev \in Revisions : SetDefault(p, s, rev)
    \/ \E r \in details[p].rows : RemoveRevision(p, r)

Serves(p) ==
    \/ Insert(p) \/ Enqueue(p) \/ FlushDefault(p)
    \/ Untag(p) \/ DeleteRevision(p) \/ DeleteService(p)

Next ==
    \/ \E p \in Pages : Clicks(p) \/ Serves(p) \/ EndsEarly(p)
    \/ \E i \in Archives : Fill(i) \/ FillFails(i)
    \/ Outage

Spec == Init /\ [][Next]_serviceVars

-----------------------------------------------------------------------------
(* Properties *)

TypeOK ==
    /\ Rows \subseteq 1..lastId /\ lastId \in 0..MaxId
    /\ services \in [Rows -> Names] /\ default \in [Rows -> Revisions]
    /\ \A r \in revisions : r.id \in 1..lastId /\ r.service \in Rows /\ r.revision \in Revisions
    /\ images \subseteq Names \X Revisions /\ filling \subseteq Archives /\ uploads \subseteq Archives
    /\ disabled \in [Pages -> SUBSET Ids]
    /\ shared \subseteq Names /\ harmed \subseteq Ids \X (Revisions \cup {None})

OnItsWay(s) ==
    \/ <<services[s], default[s]>> \in filling
    \/ \E p \in Pages : request[p].at = "enqueue" /\ request[p].service = s
                        /\ request[p].revision = default[s]

GoesAway(s) == \E p \in Pages : request[p].at \in Removal /\ request[p].service = s
                                 /\ request[p].revision = None

\* What a sensor is told to run can be pulled: the default revision of each service is one
\* of its revisions, and its image is in the registry or on its way there.  Left out are
\* services that are being removed, and revisions that were harmed: made the default while
\* they were removed or although they are another service's only, left behind by a removal
\* or a task that failed, created twice at once, or removed while an older one still was.
DefaultCanBePulled ==
    \A s \in Rows :
        \/ Has(s, default[s]) /\ (<<services[s], default[s]>> \in images \/ OnItsWay(s))
        \/ GoesAway(s) \/ <<s, default[s]>> \in harmed
=============================================================================
