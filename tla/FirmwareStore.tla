--------------------------- MODULE FirmwareStore ---------------------------
(***************************************************************************)
(* The firmware of a platform: rows of the database, files beside them,    *)
(* the default of the platform and what single sensors use instead.  The   *)
(* details that a page shows of a platform are as old as the models that   *)
(* it had when they were opened.  A request reads, changes files and       *)
(* flushes in steps, while the requests of other pages go on.  The read    *)
(* that decides whether a request is refused is part of the click: a page  *)
(* does nothing else meanwhile, and a late read is one of a late click.    *)
(***************************************************************************)
EXTENDS Naturals, FiniteSets

CONSTANTS
    Pages,          \* pages of administrators; each has at most one request under way
    Sensors,
    Versions,       \* firmware archives, by name and version; each is uploaded once
    None,           \* no firmware
    MaxFirmware,    \* bound: rows
    MaxClicks,      \* bound: requests
    MaxFaults       \* bound: requests that end early

Ids == 1..MaxFirmware

VARIABLES
    firmware,       \* rows: the version of each id that is there
    lastId,         \* the last id that was given to a row
    default,        \* the default revision of the platform
    choice,         \* the revision that a sensor uses instead, or None
    files,          \* ids of the firmware whose file is there
    uploads,        \* versions whose verified upload is there, its task and its file
    request,        \* what each page waits for
    listed, offered,    \* of the details of each page: rows, and those with buttons
    clicks, faults,
    shared,         \* history: versions whose upload was used twice, or removed in use
    harmed          \* history: ids whose requests overlapped, or ended early

storeVars == <<firmware, lastId, default, choice, files, uploads>>
pageVars == <<listed, offered>>
firmwareVars == <<storeVars, request, pageVars, clicks, faults, shared, harmed>>

Idle == [at |-> "idle", id |-> None, version |-> None, sensor |-> None,
         first |-> FALSE, resets |-> {}]

Rows == DOMAIN firmware
Removes(r) == r.at \in {"unlink", "delete"}

Init ==
    /\ \E n \in 0..2 :
        /\ lastId = n /\ files = 1..n /\ default = IF n = 0 THEN None ELSE 1
        /\ \E f \in [1..n -> Versions] :
            /\ \A i, j \in 1..n : f[i] = f[j] => i = j
            /\ firmware = f /\ uploads = Versions \ {f[i] : i \in 1..n}
    /\ choice = [s \in Sensors |-> None]
    /\ request = [p \in Pages |-> Idle]
    /\ listed = [p \in Pages |-> {}] /\ offered = [p \in Pages |-> {}]
    /\ clicks = 0 /\ faults = 0 /\ shared = {} /\ harmed = {}

-----------------------------------------------------------------------------
(* The pages *)

\* platforms:details.  The default revision has no buttons.
ShowDetails(p) ==
    /\ request[p] = Idle
    /\ listed' = [listed EXCEPT ![p] = Rows]
    /\ offered' = [offered EXCEPT ![p] = Rows \ {default}]
    /\ UNCHANGED <<storeVars, request, clicks, faults, shared, harmed>>

\* Requests that name the same revision overlap, and one of them removes it.
Overlaps(p, r) ==
    {f \in {r.id} \ {None} :
        \E q \in Pages \ {p} : request[q].id = f /\ (Removes(r) \/ Removes(request[q]))}

Asks(p, r) ==
    /\ request[p] = Idle /\ clicks < MaxClicks /\ clicks' = clicks + 1
    /\ request' = [request EXCEPT ![p] = r]
    /\ harmed' = harmed \cup Overlaps(p, r)
    /\ UNCHANGED <<storeVars, pageVars, faults>>

\* createFirmware(): the upload has been verified, the revision is new.
Register(p, v) ==
    /\ v \in uploads /\ \A f \in Rows : firmware[f] # v
    /\ Asks(p, [Idle EXCEPT !.at = "insert", !.version = v, !.first = default = None])
    /\ shared' = shared \cup {w \in {v} : \E q \in Pages : request[q].version = w}

\* updateFirmware(), asked for in the details.
SetDefault(p, f) ==
    /\ f \in offered[p] \cap Rows
    /\ Asks(p, [Idle EXCEPT !.at = "default", !.id = f])
    /\ UNCHANGED shared

\* Mutant: the default revision is removed like any other.
RemovableAnyway(f) == f \in Rows

\* What deleteFirmware() asks before it starts.
Removable(f) == f \in Rows /\ f # default

\* ModalFirmwareRemove
Remove(p, f) ==
    /\ f \in offered[p] /\ Removable(f)
    /\ Asks(p, [Idle EXCEPT !.at = "unlink", !.id = f])
    /\ UNCHANGED shared

\* The form of a sensor is saved with the firmware that it shall use.
Choose(p, s, f) ==
    /\ f \in {None} \cup (listed[p] \cap Rows) /\ f # choice[s]
    /\ Asks(p, [Idle EXCEPT !.at = "choose", !.id = f, !.sensor = s])
    /\ UNCHANGED shared

\* The list of tasks removes an upload with its file.
RemoveUpload(v) ==
    /\ v \in uploads /\ uploads' = uploads \ {v}
    /\ shared' = shared \cup {w \in {v} : \E p \in Pages : request[p].version = w}
    /\ UNCHANGED <<firmware, lastId, default, choice, files, request, pageVars,
                   clicks, faults, harmed>>

-----------------------------------------------------------------------------
(* The requests *)

\* createFirmware(), flush.  The first revision becomes the default.
Insert(p) ==
    LET r == request[p]
        id == lastId + 1 IN
    /\ r.at = "insert" /\ id \in Ids /\ lastId' = id
    /\ firmware' = [f \in Rows \cup {id} |-> IF f = id THEN r.version ELSE firmware[f]]
    /\ default' = IF r.first THEN id ELSE default
    /\ request' = [request EXCEPT ![p].at = "rename", ![p].id = id]
    /\ UNCHANGED <<choice, files, uploads, pageVars, clicks, faults, shared, harmed>>

\* registerFirmwareFile() moves the file of the upload, deleteTask() removes its task.
Rename(p) ==
    LET r == request[p] IN
    /\ r.at = "rename"
    /\ files' = IF r.version \in uploads THEN files \cup {r.id} ELSE files
    /\ uploads' = uploads \ {r.version}
    /\ harmed' = IF r.version \in shared THEN harmed \cup {r.id} ELSE harmed
    /\ request' = [request EXCEPT ![p] = Idle]
    /\ UNCHANGED <<firmware, lastId, default, choice, pageVars, clicks, faults, shared>>

\* updateFirmware(), flush: the database refuses a revision that is gone.  The answer
\* draws the rows of the details anew.
FlushDefault(p) ==
    LET f == request[p].id IN
    /\ request[p].at = "default" /\ request' = [request EXCEPT ![p] = Idle]
    /\ IF f \in Rows
       THEN default' = f /\ offered' = [offered EXCEPT ![p] = listed[p] \ {f}]
       ELSE UNCHANGED <<default, offered>>
    /\ UNCHANGED <<firmware, lastId, choice, files, uploads, listed, clicks, faults, shared, harmed>>

\* updateSensor(), flush.
FlushChoice(p) ==
    LET r == request[p] IN
    /\ r.at = "choose" /\ request' = [request EXCEPT ![p] = Idle]
    /\ choice' = IF r.id \in {None} \cup Rows THEN [choice EXCEPT ![r.sensor] = r.id] ELSE choice
    /\ UNCHANGED <<firmware, lastId, default, files, uploads, pageVars, clicks, faults, shared, harmed>>

\* deleteFirmware(): the sensors that use the revision are read, its file is removed.
Unlink(p) ==
    LET f == request[p].id IN
    /\ request[p].at = "unlink"
    /\ request' = [request EXCEPT ![p].at = "delete",
                                  ![p].resets = {s \in Sensors : choice[s] = f}]
    /\ files' = files \ {f}
    /\ UNCHANGED <<firmware, lastId, default, choice, uploads, pageVars, clicks, faults, shared, harmed>>

\* deleteFirmware(), flush: the sensors that were read use the default again.  The database
\* refuses all of it if something refers to the revision.
Delete(p) ==
    LET r == request[p]
        reset == [s \in Sensors |-> IF s \in r.resets THEN None ELSE choice[s]] IN
    /\ r.at = "delete" /\ request' = [request EXCEPT ![p] = Idle]
    /\ IF r.id = default \/ \E s \in Sensors : reset[s] = r.id
       THEN UNCHANGED <<firmware, choice, pageVars>>
       ELSE /\ firmware' = [f \in Rows \ {r.id} |-> firmware[f]] /\ choice' = reset
            /\ listed' = [listed EXCEPT ![p] = @ \ {r.id}]
            /\ offered' = [offered EXCEPT ![p] = @ \ {r.id}]
    /\ UNCHANGED <<lastId, default, files, uploads, clicks, faults, shared, harmed>>

\* The process dies, or its connection to the database.
EndsEarly(p) ==
    /\ request[p].at \in {"rename", "delete"}
    /\ faults < MaxFaults /\ faults' = faults + 1
    /\ request' = [request EXCEPT ![p] = Idle]
    /\ harmed' = harmed \cup {request[p].id}
    /\ UNCHANGED <<storeVars, pageVars, clicks, shared>>

Clicks(p) ==
    \/ ShowDetails(p)
    \/ \E v \in Versions : Register(p, v)
    \/ \E f \in Ids : SetDefault(p, f) \/ Remove(p, f)
    \/ \E s \in Sensors, f \in Ids \cup {None} : Choose(p, s, f)

Serves(p) == Insert(p) \/ Rename(p) \/ FlushDefault(p) \/ FlushChoice(p) \/ Unlink(p) \/ Delete(p)

Next ==
    \/ \E p \in Pages : Clicks(p) \/ Serves(p) \/ EndsEarly(p)
    \/ \E v \in Versions : RemoveUpload(v)

Spec == Init /\ [][Next]_firmwareVars

-----------------------------------------------------------------------------
(* Properties *)

TypeOK ==
    /\ Rows \subseteq 1..lastId /\ lastId \in 0..MaxFirmware
    /\ \A f \in Rows : firmware[f] \in Versions
    /\ default \in Rows \cup {None} /\ choice \in [Sensors -> Rows \cup {None}]
    /\ files \subseteq Ids /\ uploads \subseteq Versions
    /\ listed \in [Pages -> SUBSET Ids] /\ offered \in [Pages -> SUBSET Ids]
    /\ shared \subseteq Versions /\ harmed \subseteq Ids

BeingCreated(f) == \E p \in Pages : request[p].at = "rename" /\ request[p].id = f
BeingRemoved(f) == \E p \in Pages : request[p].at = "delete" /\ request[p].id = f

\* What sensors are told to install can be downloaded: the file of the default revision is
\* there, and the file of a revision that a sensor uses instead, unless that sensor is about
\* to be reset.  Left out are revisions that are just being created, those whose removal
\* overlapped with other requests or ended early, and uploads that were used twice.
FirmwareHasFile ==
    /\ default # None =>
        default \in files \/ default \in harmed \/ BeingCreated(default)
    /\ \A s \in Sensors : choice[s] # None =>
        LET f == choice[s] IN f \in files \/ f \in harmed \/ BeingCreated(f) \/ BeingRemoved(f)
=============================================================================
