--------------------------- MODULE MCServerRecords ---------------------------
(***************************************************************************)
(* What the server keeps of events, and what it keeps of the status of a   *)
(* sensor, on small instances: two requests beside the caretaker, and two  *)
(* checkers, as the worker of the `high` queue has two processes.  The two *)
(* parts share no variable, so that one of them moves, the other stays.    *)
(***************************************************************************)
EXTENDS EventStore, SensorRecords

CONSTANTS s1, s2, r1, r2, c1, c2

VARIABLE part   \* the part that moves

MCSensors == {s1, s2}
MCRequests == {r1, r2}
MCCheckers == {c1, c2}

recordsVars == <<part, vars, statusVars>>

StoreOnly(A) == part = "store" /\ A /\ UNCHANGED <<part, statusVars>>
StatusOnly(A) == part = "status" /\ A /\ UNCHANGED <<part, vars>>

RecordsInit == part \in {"store", "status"} /\ Init /\ Status!Init

RecordsNext == StoreOnly(Next) \/ StatusOnly(Status!Next)

\* The fairness of the parts.
RecordsSpec ==
    /\ RecordsInit /\ [][RecordsNext]_recordsVars
    /\ \A r \in Requests : WF_recordsVars(StoreOnly(Works(r)))
    /\ WF_recordsVars(StoreOnly(Caretaker)) /\ WF_recordsVars(StoreOnly(NewDay))
    /\ WF_recordsVars(StatusOnly(Status!Tick)) /\ WF_recordsVars(StatusOnly(Status!Polling))
    /\ \A c \in TimeoutCheckers : /\ WF_recordsVars(StatusOnly(Status!Check(c)))
                                  /\ WF_recordsVars(StatusOnly(Status!AddTimeout(c)))

\* A sensor that keeps polling is online in the end.
BackOnline == part = "status" => Status!BackOnline
=============================================================================
