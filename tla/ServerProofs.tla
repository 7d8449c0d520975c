---------------------------- MODULE ServerProofs ----------------------------
(***************************************************************************)
(* Proofs about TaskProcessing, for any tasks, workers and bounds: types,  *)
(* and that no task shows as DONE without its result; without faults no    *)
(* task that is scheduled is forgotten.                                    *)
(*                                                                         *)
(* And about Inventory, for any administrators, sensors, names and bounds: *)
(* what sensors are told to install has a file, and what they are told to  *)
(* run has an image, but for the requests that overlap or end early in one *)
(* of the ways that FirmwareStore and ServiceRegistry name.                *)
(***************************************************************************)
EXTENDS TaskProcessing, Inventory, TLAPS

\* A message, or a worker that has taken one, is about a task with a row, or with one that
\* was deleted: a row comes first, and is not made twice.
HasHadRow(t) == status[t] # "new"
RowsComeFirst ==
    /\ \A t \in Tasks : web[t] = "enqueue" => HasHadRow(t)
    /\ \A m \in messages : HasHadRow(m[1])
    /\ \A w \in Workers : worker[w] # "idle" => HasHadRow(TaskOf(w))

\* Between the result and the status DONE the row has a result, or is gone.
StoredBeforeDone ==
    \A w \in Workers : worker[w] = "stored" => result[TaskOf(w)] \/ status[TaskOf(w)] = "deleted"

\* After UPDATE ... RUNNING no row goes back to SCHEDULED.
Late == {"running", "performed", "stored", "failed", "cleanup"}
ClaimedIsNotScheduled ==
    \A w \in Workers : worker[w] \in Late => status[TaskOf(w)] # "scheduled"

\* Connections break in an outage only.
ConnectionsHold ==
    outages = 0 => /\ db_up
                   /\ \A w \in Workers : worker[w] \notin {"idle", "taken"} => connected[w]

IInv == /\ TypeOK /\ RowsComeFirst /\ StoredBeforeDone /\ ClaimedIsNotScheduled
        /\ ConnectionsHold /\ DoneHasResult /\ ScheduledIsQueued

-----------------------------------------------------------------------------
(* Types *)

LEMMA JobIsMessage ==
    ASSUME TypeOK, NEW w \in Workers, worker[w] # "idle"
    PROVE  job[w] \in Messages /\ TaskOf(w) \in Tasks
BY DEF TypeOK, Messages, TaskOf

LEMMA MessageIsNotEmpty == \A m \in Messages : m # <<>> /\ m[1] \in Tasks
BY DEF Messages

LEMMA TypeInit == Init => TypeOK
BY TaskAssumption DEF Init, TypeOK, Messages, WorkerStates, Rows

\* A worker that is done, and one that goes on.
LEMMA IdleTypes ==
    ASSUME TypeOK, NEW w \in Workers, GoIdle(w)
    PROVE  /\ worker' \in [Workers -> WorkerStates] /\ job' \in [Workers -> Messages \cup {<<>>}]
           /\ connected' \in [Workers -> BOOLEAN]
           /\ \A v \in Workers : worker'[v] = "idle" <=> job'[v] = <<>>
BY DEF TypeOK, GoIdle, WorkerStates

LEMMA StatusTypes ==
    ASSUME TypeOK, NEW w \in Workers, NEW s \in Rows, SetStatus(w, s)
    PROVE  status' \in [Tasks -> Rows \cup {"new", "deleted"}]
BY DEF TypeOK, SetStatus, Rows

LEMMA WebTypes ==
    ASSUME TypeOK, NEW t \in Tasks, Web(t)
    PROVE  TypeOK'
<1> USE TaskAssumption DEF TypeOK, webUnchanged, tableVars, workerVars, boundVars
<1>1. CASE Enqueue(t)
    BY <1>1 DEF Enqueue, Rows
<1>2. CASE SendTask(t)
    BY <1>2 DEF SendTask, Messages
<1>3. CASE SendFails(t)
    BY <1>3 DEF SendFails, MayFail
<1>4. CASE DeleteCheck(t)
    BY <1>4 DEF DeleteCheck
<1>5. CASE DeleteRow(t)
    BY <1>5 DEF DeleteRow, Remove, Rows
<1>6. QED
    BY <1>1, <1>2, <1>3, <1>4, <1>5 DEF Web

LEMMA WorkTypes ==
    ASSUME TypeOK, NEW w \in Workers, Work(w)
    PROVE  TypeOK'
<1> USE TaskAssumption DEF workerUnchanged, tableVars, boundVars
<1>1. CASE Connect(w)
    BY <1>1 DEF Connect, Goto, TypeOK, WorkerStates
<1>2. CASE Retry(w)
    <2>1. job[w][2] < MaxRetries => <<TaskOf(w), job[w][2] + 1>> \in Messages
        BY <1>2, JobIsMessage DEF Retry, Messages, TaskOf
    <2>2. QED
        BY <1>2, <2>1, IdleTypes DEF Retry, TypeOK
<1>3. CASE ConnectNone(w)
    BY <1>3, IdleTypes DEF ConnectNone, TypeOK
<1>4. CASE FetchNothing(w)
    BY <1>4, IdleTypes DEF FetchNothing, TypeOK
<1>5. CASE Fetch(w)
    BY <1>5 DEF Fetch, Goto, TypeOK, WorkerStates
<1>6. CASE Claim(w)
    BY <1>6, StatusTypes DEF Claim, Goto, TypeOK, WorkerStates, Rows
<1>7. CASE Perform(w)
    BY <1>7 DEF Perform, Goto, TypeOK, WorkerStates
<1>8. CASE StoreResult(w)
    BY <1>8 DEF StoreResult, Goto, TypeOK, WorkerStates
<1>9. CASE MarkDone(w)
    BY <1>9, StatusTypes DEF MarkDone, Goto, TypeOK, WorkerStates, Rows
<1>10. CASE MarkError(w)
    BY <1>10, StatusTypes DEF MarkError, Goto, TypeOK, WorkerStates, Rows
<1>11. CASE Cleanup(w)
    BY <1>11, IdleTypes DEF Cleanup, Remove, TypeOK
<1>12. CASE ConnectionBroken(w)
    BY <1>12, IdleTypes DEF ConnectionBroken, TypeOK
<1>13. QED
    BY <1>1, <1>2, <1>3, <1>4, <1>5, <1>6, <1>7, <1>8, <1>9, <1>10, <1>11, <1>12 DEF Work

LEMMA FaultTypes ==
    ASSUME TypeOK, \/ DbDown \/ DbUp
                   \/ \E w \in Workers : WorkerCrash(w) \/ \E m \in messages : Take(w, m)
    PROVE  TypeOK'
<1> USE TaskAssumption DEF tableVars, workerVars, boundVars
<1>1. CASE DbDown
    <2>1. db_up' \in BOOLEAN
        BY <1>1 DEF DbDown
    <2>2. connected' \in [Workers -> BOOLEAN]
        BY <1>1 DEF DbDown
    <2>3. outages' \in Nat /\ outages' + duplicates + crashes <= MaxFaults
        BY <1>1, SMT DEF DbDown, MayFail, TypeOK
    <2>4. QED
        BY <1>1, <2>1, <2>2, <2>3 DEF DbDown, TypeOK
<1>2. CASE DbUp
    BY <1>2 DEF DbUp, TypeOK
<1>3. ASSUME NEW w \in Workers, WorkerCrash(w) PROVE TypeOK'
    BY <1>3, IdleTypes DEF WorkerCrash, MayFail, TypeOK
<1>4. ASSUME NEW w \in Workers, NEW m \in messages, Take(w, m) PROVE TypeOK'
    BY <1>4, MessageIsNotEmpty DEF Take, Goto, MayFail, TypeOK, WorkerStates
<1>5. QED
    BY <1>1, <1>2, <1>3, <1>4

LEMMA TypeStep == TypeOK /\ [Next]_vars => TypeOK'
<1> SUFFICES ASSUME TypeOK, [Next]_vars PROVE TypeOK'
    OBVIOUS
<1>1. CASE UNCHANGED vars
    BY <1>1 DEF TypeOK, vars, tableVars, workerVars, boundVars
<1>2. CASE Next
    BY <1>2, WebTypes, WorkTypes, FaultTypes DEF Next
<1>3. QED
    BY <1>1, <1>2

-----------------------------------------------------------------------------
(* The parts of the invariant *)

LEMMA RowsStep ==
    ASSUME TypeOK, RowsComeFirst, [Next]_vars
    PROVE  RowsComeFirst'
<1> USE JobIsMessage, MessageIsNotEmpty DEF TypeOK, RowsComeFirst, HasHadRow, TaskOf, Rows
<1>1. ASSUME NEW t \in Tasks, Enqueue(t) PROVE RowsComeFirst'
    BY <1>1 DEF Enqueue, webUnchanged, tableVars, workerVars, boundVars
<1>2. ASSUME NEW t \in Tasks, SendTask(t) PROVE RowsComeFirst'
    BY <1>2 DEF SendTask, webUnchanged, tableVars, workerVars, boundVars
<1>3. ASSUME NEW t \in Tasks, SendFails(t) PROVE RowsComeFirst'
    BY <1>3 DEF SendFails, webUnchanged, tableVars, workerVars, boundVars
<1>4. ASSUME NEW t \in Tasks, DeleteCheck(t) PROVE RowsComeFirst'
    BY <1>4 DEF DeleteCheck, webUnchanged, tableVars, workerVars, boundVars
<1>5. ASSUME NEW t \in Tasks, DeleteRow(t) PROVE RowsComeFirst'
    BY <1>5 DEF DeleteRow, Remove, webUnchanged, tableVars, workerVars, boundVars
<1>6. ASSUME NEW w \in Workers, Connect(w) PROVE RowsComeFirst'
    BY <1>6 DEF Connect, Goto, workerUnchanged, tableVars, boundVars
<1>7. ASSUME NEW w \in Workers, Retry(w) PROVE RowsComeFirst'
    BY <1>7 DEF Retry, GoIdle, workerUnchanged, tableVars, boundVars
<1>8. ASSUME NEW w \in Workers, ConnectNone(w) PROVE RowsComeFirst'
    BY <1>8 DEF ConnectNone, GoIdle, workerUnchanged, tableVars, boundVars
<1>9. ASSUME NEW w \in Workers, FetchNothing(w) PROVE RowsComeFirst'
    BY <1>9 DEF FetchNothing, GoIdle, workerUnchanged, tableVars, boundVars
<1>10. ASSUME NEW w \in Workers, Fetch(w) PROVE RowsComeFirst'
    BY <1>10 DEF Fetch, Goto, workerUnchanged, tableVars, boundVars
<1>11. ASSUME NEW w \in Workers, Claim(w) PROVE RowsComeFirst'
    BY <1>11 DEF Claim, Goto, SetStatus, workerUnchanged, tableVars, boundVars
<1>12. ASSUME NEW w \in Workers, Perform(w) PROVE RowsComeFirst'
    BY <1>12 DEF Perform, Goto, workerUnchanged, tableVars, boundVars
<1>13. ASSUME NEW w \in Workers, StoreResult(w) PROVE RowsComeFirst'
    BY <1>13 DEF StoreResult, Goto, workerUnchanged, tableVars, boundVars
<1>14. ASSUME NEW w \in Workers, MarkDone(w) PROVE RowsComeFirst'
    BY <1>14 DEF MarkDone, Goto, SetStatus, workerUnchanged, tableVars, boundVars
<1>15. ASSUME NEW w \in Workers, MarkError(w) PROVE RowsComeFirst'
    BY <1>15 DEF MarkError, Goto, SetStatus, workerUnchanged, tableVars, boundVars
<1>16. ASSUME NEW w \in Workers, Cleanup(w) PROVE RowsComeFirst'
    BY <1>16 DEF Cleanup, GoIdle, Remove, workerUnchanged, tableVars, boundVars
<1>17. ASSUME NEW w \in Workers, ConnectionBroken(w) PROVE RowsComeFirst'
    BY <1>17 DEF ConnectionBroken, GoIdle, workerUnchanged, tableVars, boundVars
<1>18. ASSUME NEW w \in Workers, WorkerCrash(w) PROVE RowsComeFirst'
    BY <1>18 DEF WorkerCrash, GoIdle, tableVars
<1>19. ASSUME NEW w \in Workers, NEW m \in messages, Take(w, m) PROVE RowsComeFirst'
    BY <1>19 DEF Take, Goto, tableVars
<1>20. CASE DbDown
    BY <1>20 DEF DbDown, tableVars
<1>21. CASE DbUp
    BY <1>21 DEF DbUp, tableVars, workerVars, boundVars
<1>22. CASE UNCHANGED vars
    BY <1>22 DEF vars, tableVars, workerVars, boundVars
<1>23. QED
    BY <1>1, <1>2, <1>3, <1>4, <1>5, <1>6, <1>7, <1>8, <1>9, <1>10, <1>11, <1>12, <1>13,
       <1>14, <1>15, <1>16, <1>17, <1>18, <1>19, <1>20, <1>21, <1>22 DEF Next, Web, Work

LEMMA StoredStep ==
    ASSUME TypeOK, RowsComeFirst, StoredBeforeDone, [Next]_vars
    PROVE  StoredBeforeDone'
<1> USE JobIsMessage, MessageIsNotEmpty DEF TypeOK, RowsComeFirst, HasHadRow, StoredBeforeDone, TaskOf, Rows
<1>1. ASSUME NEW t \in Tasks, Enqueue(t) PROVE StoredBeforeDone'
    BY <1>1 DEF Enqueue, webUnchanged, tableVars, workerVars, boundVars
<1>2. ASSUME NEW t \in Tasks, SendTask(t) PROVE StoredBeforeDone'
    BY <1>2 DEF SendTask, webUnchanged, tableVars, workerVars, boundVars
<1>3. ASSUME NEW t \in Tasks, SendFails(t) PROVE StoredBeforeDone'
    BY <1>3 DEF SendFails, webUnchanged, tableVars, workerVars, boundVars
<1>4. ASSUME NEW t \in Tasks, DeleteCheck(t) PROVE StoredBeforeDone'
    BY <1>4 DEF DeleteCheck, webUnchanged, tableVars, workerVars, boundVars
<1>5. ASSUME NEW t \in Tasks, DeleteRow(t) PROVE StoredBeforeDone'
    BY <1>5 DEF DeleteRow, Remove, webUnchanged, tableVars, workerVars, boundVars
<1>6. ASSUME NEW w \in Workers, Connect(w) PROVE StoredBeforeDone'
    BY <1>6 DEF Connect, Goto, workerUnchanged, tableVars, boundVars
<1>7. ASSUME NEW w \in Workers, Retry(w) PROVE StoredBeforeDone'
    BY <1>7 DEF Retry, GoIdle, workerUnchanged, tableVars, boundVars
<1>8. ASSUME NEW w \in Workers, ConnectNone(w) PROVE StoredBeforeDone'
    BY <1>8 DEF ConnectNone, GoIdle, workerUnchanged, tableVars, boundVars
<1>9. ASSUME NEW w \in Workers, FetchNothing(w) PROVE StoredBeforeDone'
    BY <1>9 DEF FetchNothing, GoIdle, workerUnchanged, tableVars, boundVars
<1>10. ASSUME NEW w \in Workers, Fetch(w) PROVE StoredBeforeDone'
    BY <1>10 DEF Fetch, Goto, workerUnchanged, tableVars, boundVars
<1>11. ASSUME NEW w \in Workers, Claim(w) PROVE StoredBeforeDone'
    BY <1>11 DEF Claim, Goto, SetStatus, workerUnchanged, tableVars, boundVars
<1>12. ASSUME NEW w \in Workers, Perform(w) PROVE StoredBeforeDone'
    BY <1>12 DEF Perform, Goto, workerUnchanged, tableVars, boundVars
<1>13. ASSUME NEW w \in Workers, StoreResult(w) PROVE StoredBeforeDone'
    BY <1>13 DEF StoreResult, Goto, workerUnchanged, tableVars, boundVars
<1>14. ASSUME NEW w \in Workers, MarkDone(w) PROVE StoredBeforeDone'
    BY <1>14 DEF MarkDone, Goto, SetStatus, workerUnchanged, tableVars, boundVars
<1>15. ASSUME NEW w \in Workers, MarkError(w) PROVE StoredBeforeDone'
    BY <1>15 DEF MarkError, Goto, SetStatus, workerUnchanged, tableVars, boundVars
<1>16. ASSUME NEW w \in Workers, Cleanup(w) PROVE StoredBeforeDone'
    BY <1>16 DEF Cleanup, GoIdle, Remove, workerUnchanged, tableVars, boundVars
<1>17. ASSUME NEW w \in Workers, ConnectionBroken(w) PROVE StoredBeforeDone'
    BY <1>17 DEF ConnectionBroken, GoIdle, workerUnchanged, tableVars, boundVars
<1>18. ASSUME NEW w \in Workers, WorkerCrash(w) PROVE StoredBeforeDone'
    BY <1>18 DEF WorkerCrash, GoIdle, tableVars
<1>19. ASSUME NEW w \in Workers, NEW m \in messages, Take(w, m) PROVE StoredBeforeDone'
    BY <1>19 DEF Take, Goto, tableVars
<1>20. CASE DbDown
    BY <1>20 DEF DbDown, tableVars
<1>21. CASE DbUp
    BY <1>21 DEF DbUp, tableVars, workerVars, boundVars
<1>22. CASE UNCHANGED vars
    BY <1>22 DEF vars, tableVars, workerVars, boundVars
<1>23. QED
    BY <1>1, <1>2, <1>3, <1>4, <1>5, <1>6, <1>7, <1>8, <1>9, <1>10, <1>11, <1>12, <1>13,
       <1>14, <1>15, <1>16, <1>17, <1>18, <1>19, <1>20, <1>21, <1>22 DEF Next, Web, Work

LEMMA ClaimedStep ==
    ASSUME TypeOK, RowsComeFirst, ClaimedIsNotScheduled, [Next]_vars
    PROVE  ClaimedIsNotScheduled'
<1> USE JobIsMessage, MessageIsNotEmpty DEF TypeOK, RowsComeFirst, HasHadRow, ClaimedIsNotScheduled, Late, TaskOf, Rows
<1>1. ASSUME NEW t \in Tasks, Enqueue(t) PROVE ClaimedIsNotScheduled'
    BY <1>1 DEF Enqueue, webUnchanged, tableVars, workerVars, boundVars
<1>2. ASSUME NEW t \in Tasks, SendTask(t) PROVE ClaimedIsNotScheduled'
    BY <1>2 DEF SendTask, webUnchanged, tableVars, workerVars, boundVars
<1>3. ASSUME NEW t \in Tasks, SendFails(t) PROVE ClaimedIsNotScheduled'
    BY <1>3 DEF SendFails, webUnchanged, tableVars, workerVars, boundVars
<1>4. ASSUME NEW t \in Tasks, DeleteCheck(t) PROVE ClaimedIsNotScheduled'
    BY <1>4 DEF DeleteCheck, webUnchanged, tableVars, workerVars, boundVars
<1>5. ASSUME NEW t \in Tasks, DeleteRow(t) PROVE ClaimedIsNotScheduled'
    BY <1>5 DEF DeleteRow, Remove, webUnchanged, tableVars, workerVars, boundVars
<1>6. ASSUME NEW w \in Workers, Connect(w) PROVE ClaimedIsNotScheduled'
    BY <1>6 DEF Connect, Goto, workerUnchanged, tableVars, boundVars
<1>7. ASSUME NEW w \in Workers, Retry(w) PROVE ClaimedIsNotScheduled'
    BY <1>7 DEF Retry, GoIdle, workerUnchanged, tableVars, boundVars
<1>8. ASSUME NEW w \in Workers, ConnectNone(w) PROVE ClaimedIsNotScheduled'
    BY <1>8 DEF ConnectNone, GoIdle, workerUnchanged, tableVars, boundVars
<1>9. ASSUME NEW w \in Workers, FetchNothing(w) PROVE ClaimedIsNotScheduled'
    BY <1>9 DEF FetchNothing, GoIdle, workerUnchanged, tableVars, boundVars
<1>10. ASSUME NEW w \in Workers, Fetch(w) PROVE ClaimedIsNotScheduled'
    BY <1>10 DEF Fetch, Goto, workerUnchanged, tableVars, boundVars
<1>11. ASSUME NEW w \in Workers, Claim(w) PROVE ClaimedIsNotScheduled'
    BY <1>11 DEF Claim, Goto, SetStatus, workerUnchanged, tableVars, boundVars
<1>12. ASSUME NEW w \in Workers, Perform(w) PROVE ClaimedIsNotScheduled'
    BY <1>12 DEF Perform, Goto, workerUnchanged, tableVars, boundVars
<1>13. ASSUME NEW w \in Workers, StoreResult(w) PROVE ClaimedIsNotScheduled'
    BY <1>13 DEF StoreResult, Goto, workerUnchanged, tableVars, boundVars
<1>14. ASSUME NEW w \in Workers, MarkDone(w) PROVE ClaimedIsNotScheduled'
    BY <1>14 DEF MarkDone, Goto, SetStatus, workerUnchanged, tableVars, boundVars
<1>15. ASSUME NEW w \in Workers, MarkError(w) PROVE ClaimedIsNotScheduled'
    BY <1>15 DEF MarkError, Goto, SetStatus, workerUnchanged, tableVars, boundVars
<1>16. ASSUME NEW w \in Workers, Cleanup(w) PROVE ClaimedIsNotScheduled'
    BY <1>16 DEF Cleanup, GoIdle, Remove, workerUnchanged, tableVars, boundVars
<1>17. ASSUME NEW w \in Workers, ConnectionBroken(w) PROVE ClaimedIsNotScheduled'
    BY <1>17 DEF ConnectionBroken, GoIdle, workerUnchanged, tableVars, boundVars
<1>18. ASSUME NEW w \in Workers, WorkerCrash(w) PROVE ClaimedIsNotScheduled'
    BY <1>18 DEF WorkerCrash, GoIdle, tableVars
<1>19. ASSUME NEW w \in Workers, NEW m \in messages, Take(w, m) PROVE ClaimedIsNotScheduled'
    BY <1>19 DEF Take, Goto, tableVars
<1>20. CASE DbDown
    BY <1>20 DEF DbDown, tableVars
<1>21. CASE DbUp
    BY <1>21 DEF DbUp, tableVars, workerVars, boundVars
<1>22. CASE UNCHANGED vars
    BY <1>22 DEF vars, tableVars, workerVars, boundVars
<1>23. QED
    BY <1>1, <1>2, <1>3, <1>4, <1>5, <1>6, <1>7, <1>8, <1>9, <1>10, <1>11, <1>12, <1>13,
       <1>14, <1>15, <1>16, <1>17, <1>18, <1>19, <1>20, <1>21, <1>22 DEF Next, Web, Work

LEMMA DoneStep ==
    ASSUME TypeOK, StoredBeforeDone, DoneHasResult, [Next]_vars
    PROVE  DoneHasResult'
<1> USE JobIsMessage, MessageIsNotEmpty DEF TypeOK, StoredBeforeDone, DoneHasResult, TaskOf, Rows
<1>1. ASSUME NEW t \in Tasks, Enqueue(t) PROVE DoneHasResult'
    BY <1>1 DEF Enqueue, webUnchanged, tableVars, workerVars, boundVars
<1>2. ASSUME NEW t \in Tasks, SendTask(t) PROVE DoneHasResult'
    BY <1>2 DEF SendTask, webUnchanged, tableVars, workerVars, boundVars
<1>3. ASSUME NEW t \in Tasks, SendFails(t) PROVE DoneHasResult'
    BY <1>3 DEF SendFails, webUnchanged, tableVars, workerVars, boundVars
<1>4. ASSUME NEW t \in Tasks, DeleteCheck(t) PROVE DoneHasResult'
    BY <1>4 DEF DeleteCheck, webUnchanged, tableVars, workerVars, boundVars
<1>5. ASSUME NEW t \in Tasks, DeleteRow(t) PROVE DoneHasResult'
    BY <1>5 DEF DeleteRow, Remove, webUnchanged, tableVars, workerVars, boundVars
<1>6. ASSUME NEW w \in Workers, Connect(w) PROVE DoneHasResult'
    BY <1>6 DEF Connect, Goto, workerUnchanged, tableVars, boundVars
<1>7. ASSUME NEW w \in Workers, Retry(w) PROVE DoneHasResult'
    BY <1>7 DEF Retry, GoIdle, workerUnchanged, tableVars, boundVars
<1>8. ASSUME NEW w \in Workers, ConnectNone(w) PROVE DoneHasResult'
    BY <1>8 DEF ConnectNone, GoIdle, workerUnchanged, tableVars, boundVars
<1>9. ASSUME NEW w \in Workers, FetchNothing(w) PROVE DoneHasResult'
    BY <1>9 DEF FetchNothing, GoIdle, workerUnchanged, tableVars, boundVars
<1>10. ASSUME NEW w \in Workers, Fetch(w) PROVE DoneHasResult'
    BY <1>10 DEF Fetch, Goto, workerUnchanged, tableVars, boundVars
<1>11. ASSUME NEW w \in Workers, Claim(w) PROVE DoneHasResult'
    BY <1>11 DEF Claim, Goto, SetStatus, workerUnchanged, tableVars, boundVars
<1>12. ASSUME NEW w \in Workers, Perform(w) PROVE DoneHasResult'
    BY <1>12 DEF Perform, Goto, workerUnchanged, tableVars, boundVars
<1>13. ASSUME NEW w \in Workers, StoreResult(w) PROVE DoneHasResult'
    BY <1>13 DEF StoreResult, Goto, workerUnchanged, tableVars, boundVars
<1>14. ASSUME NEW w \in Workers, MarkDone(w) PROVE DoneHasResult'
    BY <1>14 DEF MarkDone, Goto, SetStatus, workerUnchanged, tableVars, boundVars
<1>15. ASSUME NEW w \in Workers, MarkError(w) PROVE DoneHasResult'
    BY <1>15 DEF MarkError, Goto, SetStatus, workerUnchanged, tableVars, boundVars
<1>16. ASSUME NEW w \in Workers, Cleanup(w) PROVE DoneHasResult'
    BY <1>16 DEF Cleanup, GoIdle, Remove, workerUnchanged, tableVars, boundVars
<1>17. ASSUME NEW w \in Workers, ConnectionBroken(w) PROVE DoneHasResult'
    BY <1>17 DEF ConnectionBroken, GoIdle, workerUnchanged, tableVars, boundVars
<1>18. ASSUME NEW w \in Workers, WorkerCrash(w) PROVE DoneHasResult'
    BY <1>18 DEF WorkerCrash, GoIdle, tableVars
<1>19. ASSUME NEW w \in Workers, NEW m \in messages, Take(w, m) PROVE DoneHasResult'
    BY <1>19 DEF Take, Goto, tableVars
<1>20. CASE DbDown
    BY <1>20 DEF DbDown, tableVars
<1>21. CASE DbUp
    BY <1>21 DEF DbUp, tableVars, workerVars, boundVars
<1>22. CASE UNCHANGED vars
    BY <1>22 DEF vars, tableVars, workerVars, boundVars
<1>23. QED
    BY <1>1, <1>2, <1>3, <1>4, <1>5, <1>6, <1>7, <1>8, <1>9, <1>10, <1>11, <1>12, <1>13,
       <1>14, <1>15, <1>16, <1>17, <1>18, <1>19, <1>20, <1>21, <1>22 DEF Next, Web, Work

LEMMA ConnectionsStep ==
    ASSUME TypeOK, ConnectionsHold, [Next]_vars
    PROVE  ConnectionsHold'
<1> USE JobIsMessage, MessageIsNotEmpty DEF TypeOK, ConnectionsHold
<1>1. ASSUME NEW t \in Tasks, Enqueue(t) PROVE ConnectionsHold'
    BY <1>1 DEF Enqueue, webUnchanged, tableVars, workerVars, boundVars
<1>2. ASSUME NEW t \in Tasks, SendTask(t) PROVE ConnectionsHold'
    BY <1>2 DEF SendTask, webUnchanged, tableVars, workerVars, boundVars
<1>3. ASSUME NEW t \in Tasks, SendFails(t) PROVE ConnectionsHold'
    BY <1>3 DEF SendFails, webUnchanged, tableVars, workerVars, boundVars
<1>4. ASSUME NEW t \in Tasks, DeleteCheck(t) PROVE ConnectionsHold'
    BY <1>4 DEF DeleteCheck, webUnchanged, tableVars, workerVars, boundVars
<1>5. ASSUME NEW t \in Tasks, DeleteRow(t) PROVE ConnectionsHold'
    BY <1>5 DEF DeleteRow, Remove, webUnchanged, tableVars, workerVars, boundVars
<1>6. ASSUME NEW w \in Workers, Connect(w) PROVE ConnectionsHold'
    BY <1>6 DEF Connect, Goto, workerUnchanged, tableVars, boundVars
<1>7. ASSUME NEW w \in Workers, Retry(w) PROVE ConnectionsHold'
    BY <1>7 DEF Retry, GoIdle, workerUnchanged, tableVars, boundVars
<1>8. ASSUME NEW w \in Workers, ConnectNone(w) PROVE ConnectionsHold'
    BY <1>8 DEF ConnectNone, GoIdle, workerUnchanged, tableVars, boundVars
<1>9. ASSUME NEW w \in Workers, FetchNothing(w) PROVE ConnectionsHold'
    BY <1>9 DEF FetchNothing, GoIdle, workerUnchanged, tableVars, boundVars
<1>10. ASSUME NEW w \in Workers, Fetch(w) PROVE ConnectionsHold'
    BY <1>10 DEF Fetch, Goto, workerUnchanged, tableVars, boundVars
<1>11. ASSUME NEW w \in Workers, Claim(w) PROVE ConnectionsHold'
    BY <1>11 DEF Claim, Goto, SetStatus, workerUnchanged, tableVars, boundVars
<1>12. ASSUME NEW w \in Workers, Perform(w) PROVE ConnectionsHold'
    BY <1>12 DEF Perform, Goto, workerUnchanged, tableVars, boundVars
<1>13. ASSUME NEW w \in Workers, StoreResult(w) PROVE ConnectionsHold'
    BY <1>13 DEF StoreResult, Goto, workerUnchanged, tableVars, boundVars
<1>14. ASSUME NEW w \in Workers, MarkDone(w) PROVE ConnectionsHold'
    BY <1>14 DEF MarkDone, Goto, SetStatus, workerUnchanged, tableVars, boundVars
<1>15. ASSUME NEW w \in Workers, MarkError(w) PROVE ConnectionsHold'
    BY <1>15 DEF MarkError, Goto, SetStatus, workerUnchanged, tableVars, boundVars
<1>16. ASSUME NEW w \in Workers, Cleanup(w) PROVE ConnectionsHold'
    BY <1>16 DEF Cleanup, GoIdle, Remove, workerUnchanged, tableVars, boundVars
<1>17. ASSUME NEW w \in Workers, ConnectionBroken(w) PROVE ConnectionsHold'
    BY <1>17 DEF ConnectionBroken, GoIdle, workerUnchanged, tableVars, boundVars
<1>18. ASSUME NEW w \in Workers, WorkerCrash(w) PROVE ConnectionsHold'
    BY <1>18 DEF WorkerCrash, GoIdle, tableVars
<1>19. ASSUME NEW w \in Workers, NEW m \in messages, Take(w, m) PROVE ConnectionsHold'
    BY <1>19 DEF Take, Goto, tableVars
<1>20. CASE DbDown
    BY <1>20 DEF DbDown, tableVars
<1>21. CASE DbUp
    BY <1>21 DEF DbUp, tableVars, workerVars, boundVars
<1>22. CASE UNCHANGED vars
    BY <1>22 DEF vars, tableVars, workerVars, boundVars
<1>23. QED
    BY <1>1, <1>2, <1>3, <1>4, <1>5, <1>6, <1>7, <1>8, <1>9, <1>10, <1>11, <1>12, <1>13,
       <1>14, <1>15, <1>16, <1>17, <1>18, <1>19, <1>20, <1>21, <1>22 DEF Next, Web, Work

LEMMA ScheduledStep ==
    ASSUME TypeOK, ConnectionsHold, ClaimedIsNotScheduled, ScheduledIsQueued, [Next]_vars
    PROVE  ScheduledIsQueued'
<1> USE JobIsMessage, MessageIsNotEmpty DEF TypeOK, ConnectionsHold, ClaimedIsNotScheduled, ScheduledIsQueued, Late, HasMessage, Holds, TaskOf, Rows
<1>1. ASSUME NEW t \in Tasks, Enqueue(t) PROVE ScheduledIsQueued'
    BY <1>1 DEF Enqueue, webUnchanged, tableVars, workerVars, boundVars
<1>2. ASSUME NEW t \in Tasks, SendTask(t) PROVE ScheduledIsQueued'
    <2>1. <<t, 0>> \in messages' /\ <<t, 0>>[1] = t /\ messages \subseteq messages'
        BY <1>2 DEF SendTask
    <2>2. QED
        BY ZenonT(60), <1>2, <2>1 DEF SendTask, webUnchanged, tableVars, workerVars, boundVars
<1>3. ASSUME NEW t \in Tasks, SendFails(t) PROVE ScheduledIsQueued'
    BY <1>3 DEF SendFails, webUnchanged, tableVars, workerVars, boundVars
<1>4. ASSUME NEW t \in Tasks, DeleteCheck(t) PROVE ScheduledIsQueued'
    BY <1>4 DEF DeleteCheck, webUnchanged, tableVars, workerVars, boundVars
<1>5. ASSUME NEW t \in Tasks, DeleteRow(t) PROVE ScheduledIsQueued'
    BY <1>5 DEF DeleteRow, Remove, webUnchanged, tableVars, workerVars, boundVars
<1>6. ASSUME NEW w \in Workers, Connect(w) PROVE ScheduledIsQueued'
    BY <1>6 DEF Connect, Goto, workerUnchanged, tableVars, boundVars
<1>7. ASSUME NEW w \in Workers, Retry(w) PROVE ScheduledIsQueued'
    BY <1>7 DEF Retry, GoIdle, workerUnchanged, tableVars, boundVars
<1>8. ASSUME NEW w \in Workers, ConnectNone(w) PROVE ScheduledIsQueued'
    BY <1>8 DEF ConnectNone, GoIdle, workerUnchanged, tableVars, boundVars
<1>9. ASSUME NEW w \in Workers, FetchNothing(w) PROVE ScheduledIsQueued'
    BY <1>9 DEF FetchNothing, GoIdle, workerUnchanged, tableVars, boundVars
<1>10. ASSUME NEW w \in Workers, Fetch(w) PROVE ScheduledIsQueued'
    BY <1>10 DEF Fetch, Goto, workerUnchanged, tableVars, boundVars
<1>11. ASSUME NEW w \in Workers, Claim(w) PROVE ScheduledIsQueued'
    BY <1>11 DEF Claim, Goto, SetStatus, workerUnchanged, tableVars, boundVars
<1>12. ASSUME NEW w \in Workers, Perform(w) PROVE ScheduledIsQueued'
    BY <1>12 DEF Perform, Goto, workerUnchanged, tableVars, boundVars
<1>13. ASSUME NEW w \in Workers, StoreResult(w) PROVE ScheduledIsQueued'
    BY <1>13 DEF StoreResult, Goto, workerUnchanged, tableVars, boundVars
<1>14. ASSUME NEW w \in Workers, MarkDone(w) PROVE ScheduledIsQueued'
    BY <1>14 DEF MarkDone, Goto, SetStatus, workerUnchanged, tableVars, boundVars
<1>15. ASSUME NEW w \in Workers, MarkError(w) PROVE ScheduledIsQueued'
    BY <1>15 DEF MarkError, Goto, SetStatus, workerUnchanged, tableVars, boundVars
<1>16. ASSUME NEW w \in Workers, Cleanup(w) PROVE ScheduledIsQueued'
    BY <1>16 DEF Cleanup, GoIdle, Remove, workerUnchanged, tableVars, boundVars
<1>17. ASSUME NEW w \in Workers, ConnectionBroken(w) PROVE ScheduledIsQueued'
    BY <1>17 DEF ConnectionBroken, GoIdle, workerUnchanged, tableVars, boundVars
<1>18. ASSUME NEW w \in Workers, WorkerCrash(w) PROVE ScheduledIsQueued'
    BY <1>18 DEF WorkerCrash, GoIdle, tableVars
<1>19. ASSUME NEW w \in Workers, NEW m \in messages, Take(w, m) PROVE ScheduledIsQueued'
    BY <1>19 DEF Take, Goto, tableVars
<1>20. CASE DbDown
    BY <1>20 DEF DbDown, tableVars
<1>21. CASE DbUp
    BY <1>21 DEF DbUp, tableVars, workerVars, boundVars
<1>22. CASE UNCHANGED vars
    BY <1>22 DEF vars, tableVars, workerVars, boundVars
<1>23. QED
    BY <1>1, <1>2, <1>3, <1>4, <1>5, <1>6, <1>7, <1>8, <1>9, <1>10, <1>11, <1>12, <1>13,
       <1>14, <1>15, <1>16, <1>17, <1>18, <1>19, <1>20, <1>21, <1>22 DEF Next, Web, Work

-----------------------------------------------------------------------------
(* Theorems *)

\* The parts of the invariant hold in every state.
THEOREM Invariance == Spec => []IInv
<1>1. Init => IInv
    <2> SUFFICES ASSUME Init PROVE IInv
        OBVIOUS
    <2>1. RowsComeFirst /\ StoredBeforeDone /\ ClaimedIsNotScheduled /\ ConnectionsHold
        BY DEF Init, RowsComeFirst, StoredBeforeDone, ClaimedIsNotScheduled, ConnectionsHold, Late
    <2>2. DoneHasResult /\ ScheduledIsQueued
        BY DEF Init, DoneHasResult, ScheduledIsQueued
    <2>3. QED
        BY <2>1, <2>2, TypeInit DEF IInv
<1>2. IInv /\ [Next]_vars => IInv'
    BY TypeStep, RowsStep, StoredStep, ClaimedStep, ConnectionsStep, DoneStep, ScheduledStep
       DEF IInv
<1>3. QED
    BY <1>1, <1>2, PTL DEF Spec

\* The tables, the queue and the workers hold what the code puts there, and there are no more
\* faults than the bound allows.
THEOREM TypeCorrect == Spec => []TypeOK
BY Invariance, PTL DEF IInv

\* A client that sees DONE finds the result, whatever fails, is delivered twice or deleted.
THEOREM ResultsOfDone == Spec => []DoneHasResult
BY Invariance, PTL DEF IInv

\* Without faults enqueue() loses no task: a message, the request or a worker has it.
THEOREM ScheduledOnes == Spec => []ScheduledIsQueued
BY Invariance, PTL DEF IInv

-----------------------------------------------------------------------------
(* The firmware of a platform *)

AskedFirmware ==
    [at : {"idle", "insert", "rename", "default", "choose", "unlink", "delete"},
     id : Nat \cup {Absent}, version : FirmwareVersions \cup {Absent},
     sensor : Devices \cup {Absent}, first : BOOLEAN, resets : SUBSET Devices]

FirmwareTypes ==
    /\ lastFirmware \in Nat
    /\ DOMAIN firmware \subseteq 1..lastFirmware
    /\ defaultFirmware \in DOMAIN firmware \cup {Absent}
    /\ choice \in [Devices -> DOMAIN firmware \cup {Absent}]
    /\ firmwareRequest \in [Administrators -> AskedFirmware]

\* Requests name rows that were there, but for new ones.
IdsGiven ==
    \A p \in Administrators :
      LET r == firmwareRequest[p] IN
      /\ r.id \in 1..lastFirmware \cup {Absent}
      /\ r.at \in {"idle", "insert"} => r.id = Absent
      /\ r.at \in {"rename", "default", "unlink", "delete"} => r.id # Absent

\* Unless it is harmed, a revision that is being removed is not the default, no other request
\* names it, and the sensors that use it are about to be reset.
RemovedAlone ==
    \A p \in Administrators :
      LET r == firmwareRequest[p] IN
      r.at \in {"unlink", "delete"} /\ r.id \notin harmedFirmware =>
        /\ r.id # defaultFirmware
        /\ \A q \in Administrators \ {p} : firmwareRequest[q].id # r.id
        /\ r.at = "delete" => \A s \in Devices : choice[s] = r.id => s \in r.resets

\* Every revision has its file, or will have it, or goes.
RowsHaveFiles ==
    \A f \in DOMAIN firmware :
      f \in files \cup harmedFirmware \/ Platforms!BeingCreated(f) \/ Platforms!BeingRemoved(f)

\* The upload of a revision that is being created is there, and nobody else takes it.
UploadsWait ==
    \A p \in Administrators :
      LET r == firmwareRequest[p] IN
      r.at \in {"insert", "rename"} /\ r.version \notin sharedFirmware =>
        /\ r.version \in firmwareUploads
        /\ \A q \in Administrators \ {p} :
             LET o == firmwareRequest[q] IN
             o.at \in {"insert", "rename"} => o.version # r.version

FirmwareInv == FirmwareTypes /\ IdsGiven /\ RemovedAlone /\ RowsHaveFiles /\ UploadsWait

-----------------------------------------------------------------------------
\* What a page waits for changes.
LEMMA FirmwareAsked ==
    ASSUME FirmwareTypes, NEW p \in Administrators, NEW r \in AskedFirmware,
           firmwareRequest' = [firmwareRequest EXCEPT ![p] = r]
    PROVE  firmwareRequest' \in [Administrators -> AskedFirmware]
BY DEF FirmwareTypes

\* Details are read.
LEMMA ShowDetailsKeeps ==
    ASSUME FirmwareInv, NEW p \in Administrators, Platforms!ShowDetails(p)
    PROVE  FirmwareInv'
<1> USE InventoryAssumption DEF FirmwareInv, Platforms!ShowDetails, Platforms!storeVars,
        Platforms!Rows
<1>1. FirmwareTypes'
    BY DEF FirmwareTypes
<1>2. IdsGiven'
    BY DEF IdsGiven
<1>3. RemovedAlone'
    BY DEF RemovedAlone
<1>4. RowsHaveFiles'
    BY DEF RowsHaveFiles, Platforms!BeingCreated, Platforms!BeingRemoved
<1>5. UploadsWait'
    BY DEF UploadsWait
<1>6. QED
    BY <1>1, <1>2, <1>3, <1>4, <1>5

\* A request to create a revision finds its upload, unless another one does, too.
LEMMA RegisterKeeps ==
    ASSUME FirmwareInv, NEW p \in Administrators, NEW v \in FirmwareVersions,
           Platforms!Register(p, v)
    PROVE  FirmwareInv'
<1> USE InventoryAssumption DEF FirmwareInv, Platforms!Register, Platforms!Asks, Platforms!Overlaps,
        Platforms!Removes, Platforms!Idle, Platforms!storeVars, Platforms!pageVars, Platforms!Rows
<1>1. FirmwareTypes'
    BY DEF FirmwareTypes, AskedFirmware
<1>2. IdsGiven'
    BY DEF IdsGiven
<1>3. RemovedAlone'
    BY DEF RemovedAlone
<1>4. RowsHaveFiles'
    BY DEF RowsHaveFiles, Platforms!BeingCreated, Platforms!BeingRemoved
<1>5. UploadsWait'
    BY DEF UploadsWait
<1>6. QED
    BY <1>1, <1>2, <1>3, <1>4, <1>5

\* A request for a new default revision harms it if it is being removed.
LEMMA SetDefaultKeeps ==
    ASSUME FirmwareInv, NEW p \in Administrators, NEW f, Platforms!SetDefault(p, f)
    PROVE  FirmwareInv'
<1> USE InventoryAssumption DEF FirmwareInv, Platforms!SetDefault, Platforms!Asks,
        Platforms!Overlaps, Platforms!Removes, Platforms!Idle, Platforms!storeVars,
        Platforms!pageVars, Platforms!Rows
<1>1. FirmwareTypes'
    <2> DEFINE r == [Platforms!Idle EXCEPT !.at = "default", !.id = f]
    <2>1. f \in Nat \cup {Absent}
        BY DEF FirmwareTypes
    <2>2. r \in AskedFirmware
        BY <2>1 DEF AskedFirmware
    <2>3. firmwareRequest' = [firmwareRequest EXCEPT ![p] = r]
        OBVIOUS
    <2>4. QED
        BY <2>2, <2>3, FirmwareAsked DEF FirmwareTypes
<1>2. IdsGiven'
    BY DEF FirmwareTypes, IdsGiven
<1>3. RemovedAlone'
    BY DEF RemovedAlone
<1>4. RowsHaveFiles'
    BY DEF RowsHaveFiles, Platforms!BeingCreated, Platforms!BeingRemoved
<1>5. UploadsWait'
    BY DEF UploadsWait
<1>6. QED
    BY <1>1, <1>2, <1>3, <1>4, <1>5

\* A request to remove a revision that another one names harms it.
LEMMA RemoveKeeps ==
    ASSUME FirmwareInv, NEW p \in Administrators, NEW f, Platforms!Remove(p, f)
    PROVE  FirmwareInv'
<1> USE InventoryAssumption DEF FirmwareInv, Platforms!Remove, Platforms!Asks, Platforms!Overlaps,
        Platforms!Removes, Platforms!Removable, Platforms!Idle, Platforms!storeVars,
        Platforms!pageVars, Platforms!Rows
<1>1. FirmwareTypes'
    <2> DEFINE r == [Platforms!Idle EXCEPT !.at = "unlink", !.id = f]
    <2>1. f \in Nat \cup {Absent}
        BY DEF FirmwareTypes
    <2>2. r \in AskedFirmware
        BY <2>1 DEF AskedFirmware
    <2>3. firmwareRequest' = [firmwareRequest EXCEPT ![p] = r]
        OBVIOUS
    <2>4. QED
        BY <2>2, <2>3, FirmwareAsked DEF FirmwareTypes
<1>2. IdsGiven'
    BY DEF FirmwareTypes, IdsGiven
<1>3. RemovedAlone'
    BY DEF FirmwareTypes, RemovedAlone
<1>4. RowsHaveFiles'
    BY DEF RowsHaveFiles, Platforms!BeingCreated, Platforms!BeingRemoved
<1>5. UploadsWait'
    BY DEF UploadsWait
<1>6. QED
    BY <1>1, <1>2, <1>3, <1>4, <1>5

\* So does one for the firmware of a sensor.
LEMMA ChooseKeeps ==
    ASSUME FirmwareInv, NEW p \in Administrators, NEW s \in Devices, NEW f,
           Platforms!Choose(p, s, f)
    PROVE  FirmwareInv'
<1> USE InventoryAssumption DEF FirmwareInv, Platforms!Choose, Platforms!Asks, Platforms!Overlaps,
        Platforms!Removes, Platforms!Idle, Platforms!storeVars, Platforms!pageVars, Platforms!Rows
<1>1. FirmwareTypes'
    <2> DEFINE r == [Platforms!Idle EXCEPT !.at = "choose", !.id = f, !.sensor = s]
    <2>1. f \in Nat \cup {Absent}
        BY DEF FirmwareTypes
    <2>2. r \in AskedFirmware
        BY <2>1 DEF AskedFirmware
    <2>3. firmwareRequest' = [firmwareRequest EXCEPT ![p] = r]
        OBVIOUS
    <2>4. QED
        BY <2>2, <2>3, FirmwareAsked DEF FirmwareTypes
<1>2. IdsGiven'
    BY DEF FirmwareTypes, IdsGiven
<1>3. RemovedAlone'
    BY DEF RemovedAlone
<1>4. RowsHaveFiles'
    BY DEF RowsHaveFiles, Platforms!BeingCreated, Platforms!BeingRemoved
<1>5. UploadsWait'
    BY DEF UploadsWait
<1>6. QED
    BY <1>1, <1>2, <1>3, <1>4, <1>5

\* An upload that a request waits for is shared when it is removed.
LEMMA RemoveUploadKeeps ==
    ASSUME FirmwareInv, NEW v \in FirmwareVersions, Platforms!RemoveUpload(v)
    PROVE  FirmwareInv'
<1> USE InventoryAssumption DEF FirmwareInv, Platforms!RemoveUpload
<1>1. FirmwareTypes'
    BY DEF FirmwareTypes
<1>2. IdsGiven'
    BY DEF IdsGiven
<1>3. RemovedAlone'
    BY DEF RemovedAlone
<1>4. RowsHaveFiles'
    BY DEF RowsHaveFiles, Platforms!BeingCreated, Platforms!BeingRemoved
<1>5. UploadsWait'
    BY DEF UploadsWait
<1>6. QED
    BY <1>1, <1>2, <1>3, <1>4, <1>5

\* A new row waits for its file.
LEMMA InsertKeeps ==
    ASSUME FirmwareInv, NEW p \in Administrators, Platforms!Insert(p)
    PROVE  FirmwareInv'
<1> USE InventoryAssumption DEF FirmwareInv, Platforms!Insert, Platforms!Rows, Platforms!Ids
<1>1. FirmwareTypes'
    BY DEF FirmwareTypes, IdsGiven, AskedFirmware
<1>2. IdsGiven'
    BY DEF FirmwareTypes, IdsGiven
<1>3. RemovedAlone'
    BY DEF FirmwareTypes, IdsGiven, RemovedAlone
<1>4. RowsHaveFiles'
    BY DEF FirmwareTypes, RowsHaveFiles, Platforms!BeingCreated, Platforms!BeingRemoved
<1>5. UploadsWait'
    BY DEF FirmwareTypes, UploadsWait
<1>6. QED
    BY <1>1, <1>2, <1>3, <1>4, <1>5

\* The file of the upload is there, unless somebody else has taken it.
LEMMA RenameKeeps ==
    ASSUME FirmwareInv, NEW p \in Administrators, Platforms!Rename(p)
    PROVE  FirmwareInv'
<1> USE InventoryAssumption DEF FirmwareInv, Platforms!Rename, Platforms!Idle
<1>1. FirmwareTypes'
    BY DEF FirmwareTypes, AskedFirmware
<1>2. IdsGiven'
    BY DEF IdsGiven
<1>3. RemovedAlone'
    BY DEF IdsGiven, RemovedAlone
<1>4. RowsHaveFiles'
    BY DEF RowsHaveFiles, UploadsWait, Platforms!BeingCreated, Platforms!BeingRemoved
<1>5. UploadsWait'
    BY DEF FirmwareTypes, UploadsWait
<1>6. QED
    BY <1>1, <1>2, <1>3, <1>4, <1>5

\* What becomes the default is not being removed, or harmed.
LEMMA FlushDefaultKeeps ==
    ASSUME FirmwareInv, NEW p \in Administrators, Platforms!FlushDefault(p)
    PROVE  FirmwareInv'
<1> USE InventoryAssumption DEF FirmwareInv, Platforms!FlushDefault, Platforms!Rows, Platforms!Idle
<1>1. FirmwareTypes'
    BY DEF FirmwareTypes, AskedFirmware
<1>2. IdsGiven'
    BY DEF IdsGiven
<1>3. RemovedAlone'
    BY DEF IdsGiven, RemovedAlone
<1>4. RowsHaveFiles'
    BY DEF RowsHaveFiles, Platforms!BeingCreated, Platforms!BeingRemoved
<1>5. UploadsWait'
    BY DEF UploadsWait
<1>6. QED
    BY <1>1, <1>2, <1>3, <1>4, <1>5

\* What a sensor chooses is not being removed, or harmed.
LEMMA FlushChoiceKeeps ==
    ASSUME FirmwareInv, NEW p \in Administrators, Platforms!FlushChoice(p)
    PROVE  FirmwareInv'
<1> USE InventoryAssumption DEF FirmwareInv, Platforms!FlushChoice, Platforms!Rows, Platforms!Idle
<1>1. FirmwareTypes'
    BY DEF FirmwareTypes, AskedFirmware
<1>2. IdsGiven'
    BY DEF IdsGiven
<1>3. RemovedAlone'
    BY DEF IdsGiven, RemovedAlone
<1>4. RowsHaveFiles'
    BY DEF RowsHaveFiles, Platforms!BeingCreated, Platforms!BeingRemoved
<1>5. UploadsWait'
    BY DEF UploadsWait
<1>6. QED
    BY <1>1, <1>2, <1>3, <1>4, <1>5

\* The file goes, and the sensors that use it are known.
LEMMA UnlinkKeeps ==
    ASSUME FirmwareInv, NEW p \in Administrators, Platforms!Unlink(p)
    PROVE  FirmwareInv'
<1> USE InventoryAssumption DEF FirmwareInv, Platforms!Unlink
<1>1. FirmwareTypes'
    <2> DEFINE r == [firmwareRequest[p] EXCEPT !.at = "delete",
                                       !.resets = {s \in Devices : choice[s] = firmwareRequest[p].id}]
    <2>2. r \in AskedFirmware
        BY DEF AskedFirmware, FirmwareTypes
    <2>3. firmwareRequest' = [firmwareRequest EXCEPT ![p] = r]
        OBVIOUS
    <2>4. QED
        BY <2>2, <2>3, FirmwareAsked DEF FirmwareTypes
<1>2. IdsGiven'
    BY DEF FirmwareTypes, IdsGiven
<1>3. RemovedAlone'
    BY DEF FirmwareTypes, RemovedAlone
<1>4. RowsHaveFiles'
    BY DEF FirmwareTypes, RowsHaveFiles, Platforms!BeingCreated, Platforms!BeingRemoved
<1>5. UploadsWait'
    BY DEF FirmwareTypes, UploadsWait
<1>6. QED
    BY <1>1, <1>2, <1>3, <1>4, <1>5

\* The row goes, unless something refers to it, and then it was harmed.
LEMMA DeleteKeeps ==
    ASSUME FirmwareInv, NEW p \in Administrators, Platforms!Delete(p)
    PROVE  FirmwareInv'
<1> USE InventoryAssumption DEF FirmwareInv, Platforms!Delete, Platforms!Rows, Platforms!Idle
<1>1. FirmwareTypes'
    BY DEF FirmwareTypes, AskedFirmware
<1>2. IdsGiven'
    BY DEF IdsGiven
<1>3. RemovedAlone'
    BY DEF IdsGiven, RemovedAlone
<1>4. RowsHaveFiles'
    BY DEF FirmwareTypes, RemovedAlone, RowsHaveFiles, Platforms!BeingCreated,
       Platforms!BeingRemoved
<1>5. UploadsWait'
    BY DEF UploadsWait
<1>6. QED
    BY <1>1, <1>2, <1>3, <1>4, <1>5

\* What a request leaves half done is harmed.
LEMMA EndsEarlyKeeps ==
    ASSUME FirmwareInv, NEW p \in Administrators, Platforms!EndsEarly(p)
    PROVE  FirmwareInv'
<1> USE InventoryAssumption DEF FirmwareInv, Platforms!EndsEarly, Platforms!Idle,
        Platforms!storeVars
<1>1. FirmwareTypes'
    BY DEF FirmwareTypes, AskedFirmware
<1>2. IdsGiven'
    BY DEF IdsGiven
<1>3. RemovedAlone'
    BY DEF IdsGiven, RemovedAlone
<1>4. RowsHaveFiles'
    BY DEF RowsHaveFiles, Platforms!BeingCreated, Platforms!BeingRemoved
<1>5. UploadsWait'
    BY DEF UploadsWait
<1>6. QED
    BY <1>1, <1>2, <1>3, <1>4, <1>5

LEMMA FirmwareInit == Platforms!Init => FirmwareInv
<1> SUFFICES ASSUME Platforms!Init PROVE FirmwareInv
    OBVIOUS
<1> USE InventoryAssumption DEF Platforms!Init
<1>1. FirmwareTypes
    BY DEF FirmwareTypes, AskedFirmware, Platforms!Idle
<1>2. IdsGiven /\ RemovedAlone /\ UploadsWait
    BY DEF IdsGiven, RemovedAlone, UploadsWait, Platforms!Idle
<1>3. RowsHaveFiles
    BY DEF RowsHaveFiles
<1>4. QED
    BY <1>1, <1>2, <1>3 DEF FirmwareInv

LEMMA FirmwareStep == FirmwareInv /\ [Platforms!Next]_(Platforms!firmwareVars) => FirmwareInv'
<1> SUFFICES ASSUME FirmwareInv, [Platforms!Next]_(Platforms!firmwareVars) PROVE FirmwareInv'
    OBVIOUS
<1>1. ASSUME NEW p \in Administrators, Platforms!Clicks(p) PROVE FirmwareInv'
    BY <1>1, ShowDetailsKeeps, RegisterKeeps, SetDefaultKeeps, RemoveKeeps, ChooseKeeps
       DEF Platforms!Clicks
<1>2. ASSUME NEW p \in Administrators, Platforms!Serves(p) PROVE FirmwareInv'
    BY <1>2, InsertKeeps, RenameKeeps, FlushDefaultKeeps, FlushChoiceKeeps, UnlinkKeeps, DeleteKeeps
       DEF Platforms!Serves
<1>3. CASE UNCHANGED Platforms!firmwareVars
    BY <1>3 DEF FirmwareInv, FirmwareTypes, IdsGiven, RemovedAlone, RowsHaveFiles, UploadsWait,
                Platforms!BeingCreated, Platforms!BeingRemoved, Platforms!firmwareVars,
                Platforms!storeVars, Platforms!pageVars
<1>4. QED
    BY <1>1, <1>2, <1>3, EndsEarlyKeeps, RemoveUploadKeeps DEF Platforms!Next

\* What sensors are told to install can be downloaded, for any number of administrators,
\* sensors, archives and requests: a file goes only when the request that removes it has
\* made sure that its revision is not the default one, and while it is under way nobody
\* names the revision without harming it.
THEOREM FirmwareIsThere == Platforms!Spec => []FirmwareHasFile
<1>1. FirmwareInv => FirmwareHasFile
    BY DEF FirmwareInv, FirmwareTypes, RemovedAlone, RowsHaveFiles, FirmwareHasFile,
           Platforms!FirmwareHasFile, Platforms!BeingCreated, Platforms!BeingRemoved
<1>2. QED
    BY <1>1, FirmwareInit, FirmwareStep, PTL DEF Platforms!Spec

-----------------------------------------------------------------------------
(* Services and their images *)

Listing == [id : Nat, service : Nat, revision : RevisionNames]

AskedService ==
    [at : {"idle", "insert", "enqueue", "default"} \cup Services!Removal,
     name : ServiceNames \cup {Absent}, service : Nat \cup {Absent},
     revision : RevisionNames \cup {Absent},
     rest : SUBSET Listing, all : SUBSET Listing]

RegistryTypes ==
    /\ lastId \in Nat
    /\ DOMAIN services \subseteq 1..lastId /\ DOMAIN default = DOMAIN services
    /\ \A s \in DOMAIN services : services[s] \in ServiceNames /\ default[s] \in RevisionNames
    /\ revisions \subseteq Listing
    /\ \A x \in revisions : x.id \in 1..lastId /\ x.service \in DOMAIN services
    /\ serviceRequest \in [Administrators -> AskedService]

\* A removal takes revisions of its service, or one of them, and no other request does.
RequestsFit ==
    \A p \in Administrators :
      LET r == serviceRequest[p] IN
      /\ r.rest \subseteq r.all /\ (r.at \notin Services!Removal => r.all = {})
      /\ r.at \in Services!Removal \cup {"enqueue", "default"} => r.service # Absent
      /\ r.at \in {"insert", "enqueue", "default"} => r.revision # Absent
      /\ r.at # "idle" => r.name \in ServiceNames
      /\ r.service # Absent => r.service \in 1..lastId
      /\ r.service \in DOMAIN services => services[r.service] = r.name
      /\ \A x \in r.all : x.service = r.service /\ x.id \in 1..lastId
      /\ r.revision # Absent => \A x \in r.all : x.revision = r.revision

AllHarmed(s) == \A rev \in RevisionNames : <<s, rev>> \in harmedRevisions

\* Nothing else has the name of a service, unless everything of it is harmed.
NamesOnce ==
    \A s \in DOMAIN services :
      ~AllHarmed(s) =>
        /\ \A t \in DOMAIN services \ {s} : services[t] # services[s]
        /\ \A p \in Administrators :
             LET r == serviceRequest[p] IN
             r.name = services[s] =>
               /\ r.at \in Services!Removal => r.service = s
               /\ r.at = "insert" => r.service # Absent

\* What a request is about to create is not there, and no other request is about to remove
\* or to create it.
CreatedOnce ==
    \A p \in Administrators :
      LET r == serviceRequest[p] IN
      r.at = "insert" /\ r.name \notin sharedNames =>
        /\ r.service = Absent => \A s \in DOMAIN services : services[s] # r.name
        /\ r.service # Absent =>
             \A x \in revisions : ~(x.service = r.service /\ x.revision = r.revision)
        /\ \A q \in Administrators \ {p} :
             LET o == serviceRequest[q] IN
             /\ o.at = "insert" /\ o.name = r.name =>
                  /\ o.service # Absent /\ r.service # Absent
                  /\ o.service = r.service => o.revision # r.revision
             /\ r.service = Absent /\ o.at \in Services!Removal => o.name # r.name
             /\ \A x \in o.all : ~(x.service = r.service /\ x.revision = r.revision)

\* A revision is there once, and was not there before.
RevisionsOnce ==
    \A x \in revisions :
      <<x.service, x.revision>> \notin harmedRevisions =>
        /\ \A y \in revisions : y.service = x.service /\ y.revision = x.revision => y = x
        /\ \A p \in Administrators : \A y \in serviceRequest[p].all :
             y.service = x.service /\ y.revision = x.revision => y = x

\* The default revision is there, and that which it shall be.
DefaultsThere ==
    /\ \A s \in DOMAIN services :
         Services!Has(s, default[s]) \/ <<s, default[s]>> \in harmedRevisions
    /\ \A p \in Administrators :
         LET r == serviceRequest[p] IN
         r.at = "default" /\ r.service \in DOMAIN services =>
           Services!Has(r.service, r.revision) \/ <<r.service, r.revision>> \in harmedRevisions

\* A revision that is removed by itself is not the default, and nobody makes it so.
DefaultsStay ==
    \A p \in Administrators :
      LET r == serviceRequest[p] IN
      /\ r.at \in Services!Removal /\ r.revision # Absent
      /\ <<r.service, r.revision>> \notin harmedRevisions
      => /\ r.service \in DOMAIN services => default[r.service] # r.revision
         /\ \A q \in Administrators :
              LET o == serviceRequest[q] IN
              o.at = "default" => ~(o.service = r.service /\ o.revision = r.revision)

Pictured(x) ==
    \/ <<services[x.service], x.revision>> \in tags \cup filling
    \/ <<x.service, x.revision>> \in harmedRevisions

\* A request is about to have the image made, or to remove the revision.
Cares(r, x) ==
    \/ r.at = "enqueue" /\ r.service = x.service /\ r.revision = x.revision
    \/ x \in r.all

\* Each revision has its image, or will have it, or goes.
RevisionsHaveImages ==
    \A x \in revisions :
      Pictured(x) \/ \E p \in Administrators : Cares(serviceRequest[p], x)

RegistryInv ==
    /\ RegistryTypes /\ RequestsFit /\ NamesOnce /\ CreatedOnce /\ RevisionsOnce
    /\ DefaultsThere /\ DefaultsStay /\ RevisionsHaveImages


-----------------------------------------------------------------------------
(* Steps that change little *)

LEMMA ServiceAsked ==
    ASSUME RegistryTypes, NEW p \in Administrators, NEW r \in AskedService,
           serviceRequest' = [serviceRequest EXCEPT ![p] = r]
    PROVE  serviceRequest' \in [Administrators -> AskedService]
BY DEF RegistryTypes

\* When nothing of a revision changes but what page p waits for, it keeps its image or what
\* becomes of it.
LEMMA ImagesStay ==
    ASSUME RegistryInv, NEW p \in Administrators, NEW r,
           serviceRequest' = [serviceRequest EXCEPT ![p] = r],
           revisions' \subseteq revisions,
           \A x \in revisions' :
             /\ Pictured(x) => Pictured(x)'
             /\ Cares(serviceRequest[p], x) => Cares(r, x) \/ Pictured(x)'
    PROVE  RevisionsHaveImages'
<1> SUFFICES ASSUME NEW x \in revisions'
             PROVE  Pictured(x)' \/ \E o \in Administrators : Cares(serviceRequest'[o], x)
    BY DEF RevisionsHaveImages, Cares
<1>1. CASE Pictured(x)
    BY <1>1
<1>2. ASSUME NEW o \in Administrators, Cares(serviceRequest[o], x)
      PROVE  Pictured(x)' \/ \E c \in Administrators : Cares(serviceRequest'[c], x)
    <2>1. CASE o = p
        BY <1>2, <2>1 DEF RegistryInv, RegistryTypes
    <2>2. CASE o # p
        <3>1. serviceRequest'[o] = serviceRequest[o]
            BY <2>2 DEF RegistryInv, RegistryTypes
        <3>2. QED
            BY <1>2, <3>1
    <2>3. QED
        BY <2>1, <2>2
<1>3. QED
    BY <1>1, <1>2 DEF RegistryInv, RevisionsHaveImages

\* A page asks for something.
LEMMA AsksTypes ==
    ASSUME RegistryInv, NEW p \in Administrators, NEW r \in AskedService,
           serviceRequest[p] = Services!Idle,
           serviceRequest' = [serviceRequest EXCEPT ![p] = r],
           UNCHANGED <<services, default, revisions, lastId, tags, filling>>,
           harmedRevisions \subseteq harmedRevisions'
    PROVE  RegistryTypes' /\ RevisionsHaveImages'
<1>1. RegistryTypes'
    BY ServiceAsked DEF RegistryInv, RegistryTypes
<1>2. \A x \in revisions : ~Cares(serviceRequest[p], x)
    BY DEF Services!Idle, Cares
<1>3. RevisionsHaveImages'
    BY <1>2, ImagesStay DEF Pictured
<1>4. QED
    BY <1>1, <1>3

\* A request ends, and whatever it cared for has its image or is harmed.
LEMMA RequestEnds ==
    ASSUME RegistryInv, NEW p \in Administrators,
           serviceRequest' = [serviceRequest EXCEPT ![p] = Services!Idle],
           UNCHANGED <<services, default, revisions, lastId, sharedNames>>,
           harmedRevisions \subseteq harmedRevisions', tags \cup filling \subseteq tags' \cup filling',
           \A x \in revisions : Cares(serviceRequest[p], x) => Pictured(x)'
    PROVE  RegistryInv'
<1> USE InventoryAssumption DEF RegistryInv
<1>1. Services!Idle \in AskedService
    BY DEF Services!Idle, AskedService
<1>2. RegistryTypes'
    BY <1>1, ServiceAsked DEF RegistryTypes
<1>3. /\ serviceRequest'[p] = Services!Idle
      /\ \A o \in Administrators \ {p} : serviceRequest'[o] = serviceRequest[o]
    BY DEF RegistryTypes
<1>4. RequestsFit'
    BY <1>3 DEF RegistryTypes, RequestsFit, Services!Idle, Services!Removal
<1>5. NamesOnce'
    BY <1>3 DEF NamesOnce, AllHarmed, Services!Idle, Services!Removal
<1>6. CreatedOnce'
    BY <1>3 DEF CreatedOnce, Services!Idle, Services!Removal
<1>7. RevisionsOnce'
    BY <1>3 DEF RevisionsOnce, Services!Idle
<1>8. DefaultsThere'
    BY <1>3 DEF DefaultsThere, Services!Idle, Services!Has
<1>9. DefaultsStay'
    BY <1>3 DEF DefaultsStay, Services!Idle, Services!Removal
<1>10. RevisionsHaveImages'
    BY ImagesStay DEF Pictured
<1>11. QED
    BY <1>2, <1>4, <1>5, <1>6, <1>7, <1>8, <1>9, <1>10

\* The registry and its tasks go on.
LEMMA RegistryMoves ==
    ASSUME RegistryInv,
           UNCHANGED <<services, default, revisions, lastId, sharedNames, serviceRequest>>,
           harmedRevisions \subseteq harmedRevisions',
           \A x \in revisions : Pictured(x) => Pictured(x)'
    PROVE  RegistryInv'
<1> USE DEF RegistryInv
<1>1. RegistryTypes' /\ RequestsFit' /\ CreatedOnce'
    BY DEF RegistryTypes, RequestsFit, CreatedOnce
<1>2. NamesOnce'
    BY DEF NamesOnce, AllHarmed
<1>3. RevisionsOnce'
    BY DEF RevisionsOnce
<1>4. DefaultsThere' /\ DefaultsStay'
    BY DEF DefaultsThere, DefaultsStay, Services!Has
<1>5. RevisionsHaveImages'
    BY DEF RevisionsHaveImages, Cares
<1>6. QED
    BY <1>1, <1>2, <1>3, <1>4, <1>5

-----------------------------------------------------------------------------
(* What pages ask the registry for *)

\* What a request is about to create is alone, or its name is shared.
LEMMA RegisterServiceKeeps ==
    ASSUME RegistryInv, NEW p \in Administrators, NEW name \in ServiceNames, NEW rev \in RevisionNames,
           Services!Register(p, name, rev)
    PROVE  RegistryInv'
<1> USE InventoryAssumption DEF RegistryInv, Services!Register, Services!Asks, Services!Others,
        Services!Has, Services!Rows, Services!Idle, Services!rowVars, Services!registryVars,
        Services!Removal
<1>1. RegistryTypes' /\ RevisionsHaveImages'
    <2>1. PICK s \in DOMAIN services \cup {Absent} :
            serviceRequest' = [serviceRequest EXCEPT ![p] =
              [Services!Idle EXCEPT !.at = "insert", !.name = name, !.service = s, !.revision = rev]]
        OBVIOUS
    <2> DEFINE r == [Services!Idle EXCEPT !.at = "insert", !.name = name, !.service = s,
                                          !.revision = rev]
    <2>2. s \in Nat \cup {Absent}
        BY DEF RegistryTypes
    <2>3. r \in AskedService
        BY <2>2 DEF AskedService
    <2>4. QED
        BY <2>1, <2>3, AsksTypes
<1>2. RequestsFit'
    BY DEF RegistryTypes, RequestsFit
<1>3. NamesOnce'
    BY DEF RegistryTypes, NamesOnce, AllHarmed
<1>4. CreatedOnce'
    BY DEF RegistryTypes, RequestsFit, CreatedOnce
<1>5. RevisionsOnce'
    BY DEF RevisionsOnce
<1>6. DefaultsThere'
    BY DEF DefaultsThere
<1>7. DefaultsStay'
    BY DEF DefaultsStay
<1>8. QED
    BY <1>1, <1>2, <1>3, <1>4, <1>5, <1>6, <1>7

\* What a request is about to make the default is there and stays, or is harmed.
LEMMA ServiceDefaultKeeps ==
    ASSUME RegistryInv, NEW p \in Administrators, NEW s, NEW rev \in RevisionNames,
           Services!SetDefault(p, s, rev)
    PROVE  RegistryInv'
<1> USE InventoryAssumption DEF RegistryInv, Services!SetDefault, Services!Asks, Services!Others,
        Services!Has, Services!Rows, Services!Idle, Services!rowVars, Services!registryVars,
        Services!Removal
<1>1. RegistryTypes' /\ RevisionsHaveImages'
    <2> DEFINE r == [Services!Idle EXCEPT !.at = "default", !.name = services[s], !.service = s,
                                          !.revision = rev]
    <2>1. s \in Nat /\ services[s] \in ServiceNames
        BY DEF RegistryTypes
    <2>2. r \in AskedService
        BY <2>1 DEF AskedService, Listing
    <2>3. serviceRequest' = [serviceRequest EXCEPT ![p] = r]
        OBVIOUS
    <2>4. QED
        BY <2>2, <2>3, AsksTypes
<1>2. RequestsFit'
    BY DEF RegistryTypes, RequestsFit
<1>3. NamesOnce'
    BY DEF NamesOnce, AllHarmed
<1>4. CreatedOnce'
    BY DEF CreatedOnce
<1>5. RevisionsOnce'
    BY DEF RevisionsOnce
<1>6. DefaultsThere'
    BY DEF DefaultsThere
<1>7. DefaultsStay'
    BY DEF DefaultsStay
<1>8. QED
    BY <1>1, <1>2, <1>3, <1>4, <1>5, <1>6, <1>7

\* What a request is about to remove is not the default, nor about to become it, or is harmed.
LEMMA RemoveRevisionKeeps ==
    ASSUME RegistryInv, NEW p \in Administrators, NEW x, Services!RemoveRevision(p, x)
    PROVE  RegistryInv'
<1> USE InventoryAssumption DEF RegistryInv, Services!RemoveRevision, Services!Asks,
        Services!Others, Services!Has, Services!Removable, Services!Idle, Services!rowVars,
        Services!registryVars, Services!Removal
<1>1. RegistryTypes' /\ RevisionsHaveImages'
    <2> DEFINE r == [Services!Idle EXCEPT !.at = "untag", !.name = services[x.service],
                                          !.service = x.service, !.revision = x.revision,
                                          !.rest = {x}, !.all = {x}]
    <2>1. x \in Listing /\ x.service \in DOMAIN services /\ services[x.service] \in ServiceNames
        BY DEF RegistryTypes
    <2>2. r \in AskedService
        BY <2>1 DEF AskedService, Listing
    <2>3. serviceRequest' = [serviceRequest EXCEPT ![p] = r]
        OBVIOUS
    <2>4. QED
        BY <2>2, <2>3, AsksTypes
<1>2. RequestsFit'
    BY DEF RegistryTypes, RequestsFit
<1>3. NamesOnce'
    BY DEF RegistryTypes, NamesOnce, AllHarmed
<1>4. CreatedOnce'
    BY DEF RegistryTypes, CreatedOnce
<1>5. RevisionsOnce'
    BY DEF RevisionsOnce
<1>6. DefaultsThere'
    BY DEF DefaultsThere
<1>7. DefaultsStay'
    BY DEF DefaultsStay
<1>8. QED
    BY <1>1, <1>2, <1>3, <1>4, <1>5, <1>6, <1>7

\* A request takes all revisions that its service has.
LEMMA RemoveServiceKeeps ==
    ASSUME RegistryInv, NEW p \in Administrators, NEW s, Services!RemoveService(p, s)
    PROVE  RegistryInv'
<1> USE InventoryAssumption DEF RegistryInv, Services!RemoveService, Services!Asks, Services!Has,
        Services!Of, Services!Rows, Services!Idle, Services!rowVars, Services!registryVars,
        Services!historyVars, Services!Removal
<1>1. RegistryTypes' /\ RevisionsHaveImages'
    <2> DEFINE r == [Services!Idle EXCEPT !.at = "untag", !.name = services[s], !.service = s,
                                          !.rest = Services!Of(s), !.all = Services!Of(s)]
    <2>1. s \in Nat /\ services[s] \in ServiceNames /\ Services!Of(s) \subseteq Listing
        BY DEF RegistryTypes
    <2>2. r \in AskedService
        BY <2>1 DEF AskedService, Listing
    <2>3. serviceRequest' = [serviceRequest EXCEPT ![p] = r]
        OBVIOUS
    <2>4. QED
        BY <2>2, <2>3, AsksTypes
<1>2. RequestsFit'
    BY DEF RegistryTypes, RequestsFit
<1>3. NamesOnce'
    BY DEF NamesOnce, AllHarmed
<1>4. CreatedOnce'
    BY DEF RegistryTypes, CreatedOnce
<1>5. RevisionsOnce'
    BY DEF RevisionsOnce
<1>6. DefaultsThere'
    BY DEF DefaultsThere
<1>7. DefaultsStay'
    BY DEF DefaultsStay
<1>8. QED
    BY <1>1, <1>2, <1>3, <1>4, <1>5, <1>6, <1>7

\* The rows are new, or everything of the service is harmed.
LEMMA InsertStores ==
    ASSUME RegistryInv, NEW p \in Administrators, Services!Insert(p),
           serviceRequest[p].service = Absent \/ serviceRequest[p].service \in DOMAIN services
    PROVE  RegistryInv'
<1> USE InventoryAssumption
<1> DEFINE q == serviceRequest[p]
           s == IF q.service = Absent THEN lastId + 1 ELSE q.service
           row == [id |-> IF q.service = Absent THEN lastId + 2 ELSE lastId + 1,
                   service |-> s, revision |-> q.revision]
           n == [q EXCEPT !.at = "enqueue", !.service = s]
<1>1. /\ q \in AskedService /\ q.at = "insert" /\ q.all = {} /\ q.rest = {}
      /\ q.revision \in RevisionNames /\ q.name \in ServiceNames
    BY DEF RegistryInv, RegistryTypes, RequestsFit, AskedService, Services!Insert, Services!Removal
<1>2. /\ lastId' = row.id /\ revisions' = revisions \cup {row}
      /\ services' = [t \in DOMAIN services \cup {s} |-> IF t = s THEN q.name ELSE services[t]]
      /\ default' = [t \in DOMAIN services \cup {s} |->
                       IF t = s /\ q.service = Absent THEN q.revision ELSE default[t]]
      /\ serviceRequest' = [serviceRequest EXCEPT ![p] = n]
      /\ harmedRevisions' = harmedRevisions \cup
            {<<s, rev>> : rev \in IF q.name \in sharedNames THEN RevisionNames ELSE {}}
      /\ UNCHANGED <<tags, filling, sharedNames>>
    BY DEF Services!Insert, Services!Rows, Services!Goes, Services!registryVars
<1>3. /\ q.service # Absent => /\ s = q.service /\ s \in DOMAIN services
                              /\ services[s] = q.name /\ s \in 1..lastId
      /\ q.service = Absent => s = lastId + 1 /\ s \notin DOMAIN services
      /\ s \in Nat /\ s >= 1 /\ row.id \in Nat /\ row.id > lastId /\ s <= row.id /\ lastId \in Nat
    BY DEF RegistryInv, RegistryTypes, RequestsFit
<1>4. /\ n \in AskedService /\ n.at = "enqueue" /\ n.service = s /\ n.revision = q.revision
      /\ n.name = q.name /\ n.all = {} /\ n.rest = {}
    BY <1>1, <1>3 DEF AskedService
<1>5. row \in Listing /\ row.service = s /\ row.revision = q.revision /\ row \notin revisions
    BY <1>1, <1>3 DEF Listing, RegistryInv, RegistryTypes
<1>6. /\ serviceRequest'[p] = n
      /\ \A o \in Administrators \ {p} : serviceRequest'[o] = serviceRequest[o]
    BY <1>2 DEF RegistryInv, RegistryTypes
<1>7. /\ DOMAIN services' = DOMAIN services \cup {s} /\ services'[s] = q.name
      /\ DOMAIN default' = DOMAIN services \cup {s}
      /\ \A t \in DOMAIN services : services'[t] = services[t] /\ default'[t] = default[t]
      /\ q.service = Absent => default'[s] = q.revision
    BY <1>2, <1>3
<1>8. /\ harmedRevisions \subseteq harmedRevisions'
      /\ q.name \in sharedNames => \A rev \in RevisionNames : <<s, rev>> \in harmedRevisions'
    <2>1. harmedRevisions \subseteq harmedRevisions'
        BY <1>2
    <2>2. ASSUME q.name \in sharedNames PROVE \A rev \in RevisionNames : <<s, rev>> \in harmedRevisions'
        BY <1>2, <2>2
    <2>3. QED
        BY <2>1, <2>2
<1>9. \A x \in revisions : /\ x.service \in DOMAIN services /\ x.id <= lastId
                           /\ x.revision \in RevisionNames /\ x.service <= lastId
    BY DEF RegistryInv, RegistryTypes, Listing
<1>10. \A o \in Administrators : serviceRequest[o].service # Absent =>
            serviceRequest[o].service \in 1..lastId
    BY DEF RegistryInv, RequestsFit
<1>11. /\ sharedNames' = sharedNames /\ revisions' = revisions \cup {row}
       /\ tags' = tags /\ filling' = filling /\ lastId' = row.id
    BY <1>2
<1>12. serviceRequest' = [serviceRequest EXCEPT ![p] = n]
    BY <1>2
<1> HIDE DEF s, row, n
<1>13. RegistryTypes'
    BY <1>1, <1>3, <1>4, <1>5, <1>7, <1>9, <1>11, <1>12, ServiceAsked DEF RegistryInv, RegistryTypes
<1>14. RequestsFit'
    BY <1>1, <1>3, <1>4, <1>6, <1>7, <1>10, <1>11 DEF RegistryInv, RequestsFit, Services!Removal
<1>15. NamesOnce'
    BY <1>1, <1>3, <1>4, <1>6, <1>7, <1>8, <1>10 DEF RegistryInv, NamesOnce, CreatedOnce, AllHarmed, Services!Removal
<1>16. CreatedOnce'
    <2> SUFFICES ASSUME NEW o \in Administrators, serviceRequest'[o].at = "insert",
                        serviceRequest'[o].name \notin sharedNames
                 PROVE  LET r == serviceRequest'[o] IN
            /\ r.service = Absent => \A t \in DOMAIN services' : services'[t] # r.name
            /\ r.service # Absent =>
                 \A x \in revisions' : ~(x.service = r.service /\ x.revision = r.revision)
            /\ \A c \in Administrators \ {o} :
                 LET a == serviceRequest'[c] IN
                 /\ a.at = "insert" /\ a.name = r.name =>
                      /\ a.service # Absent /\ r.service # Absent
                      /\ a.service = r.service => a.revision # r.revision
                 /\ r.service = Absent /\ a.at \in Services!Removal => a.name # r.name
                 /\ \A x \in a.all : ~(x.service = r.service /\ x.revision = r.revision)
        BY <1>11 DEF CreatedOnce
    <2> DEFINE r == serviceRequest[o]
    <2>1. o # p /\ serviceRequest'[o] = r
        BY <1>4, <1>6
    <2>2. q.name = r.name =>
             q.service # Absent /\ r.service # Absent /\ (q.service = r.service => q.revision # r.revision)
        BY <1>1, <2>1 DEF RegistryInv, CreatedOnce
    <2>3. r.service = Absent => \A t \in DOMAIN services' : services'[t] # r.name
        BY <1>7, <2>1, <2>2 DEF RegistryInv, CreatedOnce
    <2>4. r.service = s => q.service = r.service /\ q.name = r.name
        BY <1>3, <1>10 DEF RegistryInv, RequestsFit
    <2>5. r.service # Absent =>
            \A x \in revisions' : ~(x.service = r.service /\ x.revision = r.revision)
        BY <1>5, <1>11, <2>1, <2>2, <2>4 DEF RegistryInv, CreatedOnce
    <2>6. QED
        BY <1>4, <1>6, <2>1, <2>3, <2>5 DEF RegistryInv, CreatedOnce, Services!Removal
<1>17. RevisionsOnce'
    <2>1. ASSUME q.name \notin sharedNames, NEW x \in revisions
          PROVE  ~(x.service = s /\ x.revision = q.revision)
        BY <1>1, <1>3, <1>9, <2>1 DEF RegistryInv, CreatedOnce
    <2>2. ASSUME q.name \notin sharedNames, NEW o \in Administrators \ {p}, NEW y \in serviceRequest[o].all
          PROVE  ~(y.service = s /\ y.revision = q.revision)
        <3>1. y.service = serviceRequest[o].service /\ serviceRequest[o].service # Absent
            BY <2>2 DEF RegistryInv, RequestsFit
        <3>2. QED
            BY <1>1, <1>3, <1>10, <2>2, <3>1 DEF RegistryInv, CreatedOnce
    <2>3. QED
        BY <1>1, <1>4, <1>5, <1>6, <1>8, <1>11, <2>1, <2>2 DEF RegistryInv, RevisionsOnce
<1>18. DefaultsThere'
    BY <1>1, <1>3, <1>4, <1>5, <1>6, <1>7, <1>8, <1>10, <1>11 DEF RegistryInv, DefaultsThere, Services!Has
<1>19. DefaultsStay'
    BY <1>1, <1>3, <1>4, <1>6, <1>7, <1>8, <1>10 DEF RegistryInv, DefaultsStay, Services!Removal
<1>20. RevisionsHaveImages'
    <2>1. Cares(n, row)
        BY <1>4, <1>5 DEF Cares
    <2>2. ASSUME NEW x \in revisions PROVE Pictured(x)' \/ \E o \in Administrators : Cares(serviceRequest'[o], x)
        <3>1. Pictured(x) => Pictured(x)'
            BY <1>7, <1>8, <1>9, <1>11 DEF Pictured
        <3>2. ~Cares(q, x)
            BY <1>1 DEF Cares
        <3>3. QED
            BY <1>6, <3>1, <3>2 DEF RegistryInv, RevisionsHaveImages
    <2>3. QED
        BY <1>6, <1>11, <2>1, <2>2 DEF RevisionsHaveImages, Cares
<1>21. QED
    BY <1>13, <1>14, <1>15, <1>16, <1>17, <1>18, <1>19, <1>20 DEF RegistryInv

\* A removal that waits for the registry: it goes on, or takes one image after the other.
LEMMA UntagKeeps ==
    ASSUME RegistryInv, NEW p \in Administrators, Services!Untag(p), online
    PROVE  RegistryInv'
<1> USE InventoryAssumption
<1> DEFINE q == serviceRequest[p]
<1>1. q \in AskedService /\ q.at = "untag" /\ q.rest \subseteq q.all
    BY DEF RegistryInv, RegistryTypes, RequestsFit, Services!Untag
<1>2. UNCHANGED <<services, default, revisions, lastId, filling, sharedNames, harmedRevisions>>
    BY DEF Services!Untag, Services!rowVars
<1>3. PICK n \in AskedService :
        /\ serviceRequest' = [serviceRequest EXCEPT ![p] = n]
        /\ n.at \in Services!Removal /\ n.rest \subseteq q.rest
        /\ n.name = q.name /\ n.service = q.service /\ n.revision = q.revision /\ n.all = q.all
        /\ tags' = tags \/ \E x \in q.all : tags' = tags \ {<<q.name, x.revision>>}
    <2>1. CASE q.rest = {}
        <3> DEFINE n == [q EXCEPT !.at = "remove"]
        <3>1. n \in AskedService
            BY <1>1 DEF AskedService, Services!Removal
        <3>2. n.at \in Services!Removal /\ n.rest = q.rest /\ n.name = q.name /\ n.service = q.service
              /\ n.revision = q.revision /\ n.all = q.all
            BY <1>1 DEF AskedService, Services!Removal
        <3>3. serviceRequest' = [serviceRequest EXCEPT ![p] = n] /\ tags' = tags
            BY <2>1 DEF Services!Untag, Services!Goes
        <3>4. QED
            BY <3>1, <3>2, <3>3
    <2>2. ASSUME NEW x \in q.rest,
                 Services!Goes(p, [q EXCEPT !.rest = @ \ {x}, !.at = IF q.rest = {x} THEN "remove" ELSE @]),
                 tags' = tags \ {<<q.name, x.revision>>}
          PROVE  \E n \in AskedService :
                    /\ serviceRequest' = [serviceRequest EXCEPT ![p] = n]
                    /\ n.at \in Services!Removal /\ n.rest \subseteq q.rest
                    /\ n.name = q.name /\ n.service = q.service /\ n.revision = q.revision /\ n.all = q.all
                    /\ \E y \in q.all : tags' = tags \ {<<q.name, y.revision>>}
        <3> DEFINE at == IF q.rest = {x} THEN "remove" ELSE q.at
                   n == [q EXCEPT !.rest = q.rest \ {x}, !.at = at]
        <3>0. at \in Services!Removal
            BY <1>1 DEF Services!Removal
        <3>1. n \in AskedService
            BY <1>1, <3>0 DEF AskedService
        <3>2. n.at \in Services!Removal /\ n.rest \subseteq q.rest /\ n.name = q.name /\ n.service = q.service
              /\ n.revision = q.revision /\ n.all = q.all
            BY <1>1, <3>0 DEF AskedService
        <3>3. serviceRequest' = [serviceRequest EXCEPT ![p] = n]
            BY <2>2 DEF Services!Goes
        <3>4. QED
            BY <1>1, <2>2, <3>1, <3>2, <3>3
    <2>3. QED
        BY <2>1, <2>2 DEF Services!Untag
<1>4. /\ serviceRequest'[p] = n
      /\ \A o \in Administrators \ {p} : serviceRequest'[o] = serviceRequest[o]
    BY <1>3 DEF RegistryInv, RegistryTypes
<1>5. RegistryTypes'
    BY <1>2, <1>3, ServiceAsked DEF RegistryInv, RegistryTypes
<1>6. RequestsFit'
    BY <1>1, <1>2, <1>3, <1>4 DEF RegistryInv, RequestsFit, Services!Removal
<1>7. NamesOnce'
    BY <1>1, <1>2, <1>3, <1>4 DEF RegistryInv, NamesOnce, AllHarmed, Services!Removal
<1>8. CreatedOnce'
    BY <1>1, <1>2, <1>3, <1>4 DEF RegistryInv, CreatedOnce, Services!Removal
<1>9. RevisionsOnce'
    BY <1>1, <1>2, <1>3, <1>4 DEF RegistryInv, RevisionsOnce
<1>10. DefaultsThere'
    BY <1>1, <1>2, <1>3, <1>4 DEF RegistryInv, DefaultsThere, Services!Removal, Services!Has
<1>11. DefaultsStay'
    BY <1>1, <1>2, <1>3, <1>4 DEF RegistryInv, DefaultsStay, Services!Removal
<1>12. ASSUME NEW x \in revisions, ~Cares(n, x), Pictured(x) PROVE Pictured(x)'
    <2>1. SUFFICES ASSUME NEW y \in q.all, <<services[x.service], x.revision>> = <<q.name, y.revision>>
                   PROVE  <<x.service, x.revision>> \in harmedRevisions
        BY <1>2, <1>3, <1>12 DEF Pictured
    <2>2. x.service \in DOMAIN services /\ x.revision \in RevisionNames
        BY DEF RegistryInv, RegistryTypes, Listing
    <2>3. CASE AllHarmed(x.service)
        BY <2>2, <2>3 DEF AllHarmed
    <2>4. CASE ~AllHarmed(x.service)
        <3>1. q.service = x.service
            BY <1>1, <2>1, <2>2, <2>4 DEF RegistryInv, NamesOnce, Services!Removal
        <3>2. y.service = x.service /\ y.revision = x.revision /\ y # x
            BY <1>3, <1>12, <2>1, <3>1 DEF RegistryInv, RequestsFit, Cares
        <3>3. QED
            BY <3>2 DEF RegistryInv, RevisionsOnce
    <2>5. QED
        BY <2>3, <2>4
<1>13. RevisionsHaveImages'
    <2>1. ASSUME NEW x \in revisions, ~Cares(n, x)
          PROVE  Pictured(x)' \/ \E o \in Administrators : Cares(serviceRequest'[o], x)
        <3>1. ~Cares(q, x)
            BY <1>1, <1>3, <2>1 DEF Cares
        <3>2. CASE Pictured(x)
            BY <1>12, <2>1, <3>2
        <3>3. ASSUME NEW o \in Administrators, Cares(serviceRequest[o], x) PROVE Cares(serviceRequest'[o], x)
            BY <1>4, <3>1, <3>3
        <3>4. QED
            BY <3>2, <3>3 DEF RegistryInv, RevisionsHaveImages
    <2>2. QED
        BY <1>2, <1>4, <2>1 DEF RevisionsHaveImages, Cares
<1>14. QED
    BY <1>5, <1>6, <1>7, <1>8, <1>9, <1>10, <1>11, <1>13 DEF RegistryInv

-----------------------------------------------------------------------------
(* The requests for services *)

LEMMA InsertServiceKeeps ==
    ASSUME RegistryInv, NEW p \in Administrators, Services!Insert(p)
    PROVE  RegistryInv'
<1>1. CASE serviceRequest[p].service # Absent /\ serviceRequest[p].service \notin DOMAIN services
    <2>1. /\ serviceRequest' = [serviceRequest EXCEPT ![p] = Services!Idle]
          /\ UNCHANGED <<services, default, revisions, lastId, tags, filling, sharedNames, harmedRevisions>>
        BY <1>1 DEF Services!Insert, Services!Rows, Services!Goes, Services!rowVars, Services!registryVars
    <2>2. \A x \in revisions : ~Cares(serviceRequest[p], x)
        BY DEF Services!Insert, RegistryInv, RequestsFit, Services!Removal, Cares
    <2>3. QED
        BY <2>1, <2>2, RequestEnds
<1>2. QED
    BY <1>1, InsertStores

\* The image is on its way.
LEMMA EnqueueKeeps ==
    ASSUME RegistryInv, NEW p \in Administrators, Services!Enqueue(p)
    PROVE  RegistryInv'
<1> DEFINE q == serviceRequest[p]
<1>1. /\ serviceRequest' = [serviceRequest EXCEPT ![p] = Services!Idle]
      /\ filling' = filling \cup {<<q.name, q.revision>>}
      /\ UNCHANGED <<services, default, revisions, lastId, tags, sharedNames, harmedRevisions>>
    BY DEF Services!Enqueue, Services!Goes, Services!rowVars, Services!historyVars
<1>2. ASSUME NEW x \in revisions, Cares(q, x) PROVE Pictured(x)'
    BY <1>1, <1>2
       DEF Pictured, Cares, RegistryInv, RequestsFit, RegistryTypes, Services!Enqueue, Services!Removal
<1>3. QED
    BY <1>1, <1>2, RequestEnds

\* Without the registry, the request ends, and its revisions are harmed.
LEMMA UntagEnds ==
    ASSUME RegistryInv, NEW p \in Administrators, Services!Untag(p), ~online
    PROVE  RegistryInv'
<1> DEFINE q == serviceRequest[p]
<1>1. /\ serviceRequest' = [serviceRequest EXCEPT ![p] = Services!Idle]
      /\ harmedRevisions' = harmedRevisions \cup {<<x.service, x.revision>> : x \in q.all}
      /\ UNCHANGED <<services, default, revisions, lastId, tags, filling, sharedNames>>
    BY DEF Services!Untag, Services!Goes, Services!rowVars, Services!Torn
<1>2. ASSUME NEW x \in revisions, Cares(q, x) PROVE Pictured(x)'
    BY <1>1, <1>2 DEF Pictured, Cares, Services!Untag
<1>3. QED
    BY <1>1, <1>2, RequestEnds

\* What a request leaves half done is harmed.
LEMMA ServiceEndsEarlyKeeps ==
    ASSUME RegistryInv, NEW p \in Administrators, Services!EndsEarly(p)
    PROVE  RegistryInv'
<1> DEFINE q == serviceRequest[p]
<1>1. /\ serviceRequest' = [serviceRequest EXCEPT ![p] = Services!Idle]
      /\ harmedRevisions' = harmedRevisions \cup {<<x.service, x.revision>> : x \in q.all}
                                \cup {<<q.service, q.revision>>}
      /\ UNCHANGED <<services, default, revisions, lastId, tags, filling, sharedNames>>
    BY DEF Services!EndsEarly, Services!Goes, Services!rowVars, Services!registryVars, Services!Torn
<1>2. ASSUME NEW x \in revisions, Cares(q, x) PROVE Pictured(x)'
    BY <1>1, <1>2 DEF Pictured, Cares
<1>3. QED
    BY <1>1, <1>2, RequestEnds

\* A task that ends has made the image, or harms whatever has its name.
LEMMA FillKeeps ==
    ASSUME RegistryInv, NEW i \in ServiceArchives, Services!Fill(i) \/ Services!FillFails(i)
    PROVE  RegistryInv'
<1>1. /\ filling' = filling \ {i} /\ tags \subseteq tags' /\ harmedRevisions \subseteq harmedRevisions'
      /\ UNCHANGED <<services, default, revisions, lastId, sharedNames, serviceRequest>>
    BY DEF Services!Fill, Services!FillFails, Services!rowVars
<1>2. ASSUME NEW x \in revisions, <<services[x.service], x.revision>> = i PROVE Pictured(x)'
    <2>1. x.service \in DOMAIN services /\ services[x.service] = i[1] /\ x.revision = i[2]
        BY <1>2 DEF RegistryInv, RegistryTypes
    <2>2. CASE i \in tags'
        BY <1>1, <1>2, <2>2 DEF Pictured
    <2>3. CASE harmedRevisions' = harmedRevisions \cup
                                    {<<s, i[2]>> : s \in {t \in DOMAIN services : services[t] = i[1]}}
        BY <1>1, <2>1, <2>3 DEF Pictured
    <2>4. QED
        BY <2>2, <2>3 DEF Services!Fill, Services!FillFails, Services!Rows
<1>3. ASSUME NEW x \in revisions, Pictured(x) PROVE Pictured(x)'
    BY <1>1, <1>2, <1>3 DEF Pictured
<1>4. QED
    BY <1>1, <1>3, RegistryMoves

\* The new default is there.
LEMMA FlushServiceDefaultKeeps ==
    ASSUME RegistryInv, NEW p \in Administrators, Services!FlushDefault(p)
    PROVE  RegistryInv'
<1> USE InventoryAssumption DEF RegistryInv, Services!FlushDefault, Services!Goes, Services!Has,
        Services!Rows, Services!Idle, Services!registryVars, Services!historyVars, Services!Removal
<1>1. RegistryTypes'
    BY DEF RegistryTypes, RequestsFit, AskedService
<1>2. RequestsFit'
    BY DEF RegistryTypes, RequestsFit
<1>3. NamesOnce'
    BY DEF NamesOnce, AllHarmed
<1>4. CreatedOnce'
    BY DEF CreatedOnce
<1>5. RevisionsOnce'
    BY DEF RevisionsOnce
<1>6. DefaultsThere'
    BY DEF DefaultsThere
<1>7. DefaultsStay'
    BY DEF DefaultsStay
<1>8. RevisionsHaveImages'
    BY DEF RegistryTypes, RequestsFit, RevisionsHaveImages, Pictured, Cares
<1>9. QED
    BY <1>1, <1>2, <1>3, <1>4, <1>5, <1>6, <1>7, <1>8

\* What is removed is no default, or harmed.
LEMMA DeleteRevisionKeeps ==
    ASSUME RegistryInv, NEW p \in Administrators, Services!DeleteRevision(p)
    PROVE  RegistryInv'
<1> USE InventoryAssumption DEF RegistryInv, Services!DeleteRevision, Services!Goes, Services!Has,
        Services!Idle, Services!registryVars, Services!historyVars, Services!Removal
<1>1. RegistryTypes'
    BY DEF RegistryTypes, AskedService
<1>2. RequestsFit'
    BY DEF RegistryTypes, RequestsFit
<1>3. NamesOnce'
    BY DEF NamesOnce, AllHarmed
<1>4. CreatedOnce'
    BY DEF CreatedOnce
<1>5. RevisionsOnce'
    BY DEF RevisionsOnce
<1>6. DefaultsThere'
    BY DEF RequestsFit, DefaultsThere, DefaultsStay
<1>7. DefaultsStay'
    BY DEF DefaultsStay
<1>8. RevisionsHaveImages'
    BY DEF RegistryTypes, RevisionsHaveImages, Pictured, Cares
<1>9. QED
    BY <1>1, <1>2, <1>3, <1>4, <1>5, <1>6, <1>7, <1>8

\* A service goes with its revisions, or they are harmed.
LEMMA DeleteServiceKeeps ==
    ASSUME RegistryInv, NEW p \in Administrators, Services!DeleteService(p)
    PROVE  RegistryInv'
<1> USE InventoryAssumption DEF RegistryInv, Services!DeleteService, Services!Goes, Services!Has,
        Services!Of, Services!Torn, Services!Rows, Services!Idle, Services!registryVars,
        Services!Removal
<1>1. RegistryTypes'
    BY DEF RegistryTypes, AskedService
<1>2. RequestsFit'
    BY DEF RegistryTypes, RequestsFit
<1>3. NamesOnce'
    BY DEF NamesOnce, AllHarmed
<1>4. CreatedOnce'
    BY DEF CreatedOnce
<1>5. RevisionsOnce'
    BY DEF RevisionsOnce
<1>6. DefaultsThere'
    BY DEF RequestsFit, DefaultsThere
<1>7. DefaultsStay'
    BY DEF DefaultsStay
<1>8. RevisionsHaveImages'
    <2> DEFINE q == serviceRequest[p]
    <2>1. q.at = "remove" /\ serviceRequest' = [serviceRequest EXCEPT ![p] = Services!Idle]
        OBVIOUS
    <2>2. CASE Services!Of(q.service) \subseteq q.all
        <3>1. /\ revisions' = revisions \ q.all
              /\ services' = [s \in DOMAIN services \ {q.service} |-> services[s]]
              /\ UNCHANGED <<harmedRevisions, tags, filling>>
            BY <2>2
        <3>2. ASSUME NEW x \in revisions' PROVE services'[x.service] = services[x.service] /\ ~Cares(q, x)
            <4>1. x \in revisions /\ x \notin q.all
                BY <3>1
            <4>2. x.service \in DOMAIN services \ {q.service}
                BY <2>2, <4>1 DEF RegistryTypes
            <4>3. QED
                BY <2>1, <3>1, <4>1, <4>2 DEF Cares
        <3>3. \A x \in revisions' : Pictured(x) => Pictured(x)'
            BY <3>1, <3>2 DEF Pictured
        <3>4. revisions' \subseteq revisions
            BY <3>1
        <3>5. QED
            BY <2>1, <3>2, <3>3, <3>4, ImagesStay
    <2>3. CASE ~(Services!Of(q.service) \subseteq q.all)
        <3>1. /\ harmedRevisions' = harmedRevisions \cup {<<x.service, x.revision>> : x \in q.all}
              /\ UNCHANGED <<services, revisions, tags, filling>>
            BY <2>3
        <3>2. ASSUME NEW x \in revisions, Cares(q, x) PROVE Pictured(x)'
            BY <2>1, <3>1, <3>2 DEF Pictured, Cares
        <3>3. \A x \in revisions : Pictured(x) => Pictured(x)'
            BY <3>1 DEF Pictured
        <3>4. revisions' = revisions
            BY <3>1
        <3>5. QED
            BY <2>1, <3>2, <3>3, <3>4, ImagesStay
    <2>4. QED
        BY <2>2, <2>3
<1>9. QED
    BY <1>1, <1>2, <1>3, <1>4, <1>5, <1>6, <1>7, <1>8

LEMMA RegistryInit == Services!Init => RegistryInv
<1> SUFFICES ASSUME Services!Init PROVE RegistryInv
    OBVIOUS
<1> USE InventoryAssumption DEF Services!Init
<1>1. PICK first \in ServiceNames, second \in ServiceNames, old \in RevisionNames,
           new \in RevisionNames, n \in 1..2 :
        /\ first # second /\ old # new
        /\ services = [s \in 1..n |-> IF s = 1 THEN first ELSE second]
        /\ default = [s \in 1..n |-> new]
        /\ revisions = {r \in [id : 3..5, service : 1..n, revision : {old, new}] :
                          /\ r.service = IF r.id = 5 THEN 2 ELSE 1
                          /\ r.revision = IF r.id = 3 THEN old ELSE new}
        /\ tags = {<<services[r.service], r.revision>> : r \in revisions}
    BY Zenon
<1> DEFINE Fits(r) == /\ r.service = IF r.id = 5 THEN 2 ELSE 1
                      /\ r.revision = IF r.id = 3 THEN old ELSE new
<1>9. \A x : x \in revisions <=>
             x \in [id : 3..5, service : 1..n, revision : {old, new}] /\ Fits(x)
    BY <1>1, Zenon
<1>2. RegistryTypes
    BY <1>1 DEF RegistryTypes, Listing, AskedService, Services!Idle
<1>3. RequestsFit /\ CreatedOnce /\ DefaultsStay
    BY <1>1 DEF RequestsFit, CreatedOnce, DefaultsStay, Services!Idle, Services!Removal
<1>4. NamesOnce
    BY <1>1 DEF NamesOnce, Services!Idle, Services!Removal
<1>5. RevisionsOnce
    <2>1. \A x, y \in revisions : x.service = y.service /\ x.revision = y.revision => x.id = y.id
        BY <1>1
    <2>2. \A x \in revisions : x = [id |-> x.id, service |-> x.service, revision |-> x.revision]
        BY <1>9
    <2>3. ASSUME NEW x \in revisions, NEW y \in revisions, x.service = y.service, x.revision = y.revision
          PROVE  x = y
        <3>1. x.id = y.id
            BY <2>1, <2>3, Zenon
        <3>2. x = [id |-> x.id, service |-> x.service, revision |-> x.revision]
            BY <2>2, Zenon
        <3>3. y = [id |-> y.id, service |-> y.service, revision |-> y.revision]
            BY <2>2, Zenon
        <3>4. QED
            BY ONLY <2>3, <3>1, <3>2, <3>3, Zenon
    <2>4. QED
        BY <2>3 DEF RevisionsOnce, Services!Idle
<1>6. DefaultsThere
    <2>1. ASSUME NEW s \in 1..n PROVE \E x \in revisions : x.service = s /\ x.revision = new
        <3> DEFINE x == [id |-> 3 + s, service |-> s, revision |-> new]
        <3>1. s = 1 \/ s = 2
            OBVIOUS
        <3>2. x \in [id : 3..5, service : 1..n, revision : {old, new}]
            BY <3>1
        <3>3. Fits(x)
            BY <3>1
        <3>4. QED
            BY <1>9, <3>2, <3>3
    <2>2. \A s \in DOMAIN services : Services!Has(s, default[s])
        BY <1>1, <2>1 DEF Services!Has
    <2>3. QED
        BY <2>2 DEF DefaultsThere, Services!Idle
<1>7. RevisionsHaveImages
    BY DEF RevisionsHaveImages, Pictured
<1>8. QED
    BY <1>2, <1>3, <1>4, <1>5, <1>6, <1>7 DEF RegistryInv

LEMMA RegistryStep == RegistryInv /\ [Services!Next]_(Services!serviceVars) => RegistryInv'
<1> SUFFICES ASSUME RegistryInv, [Services!Next]_(Services!serviceVars) PROVE RegistryInv'
    OBVIOUS
<1>1. ASSUME NEW p \in Administrators, Services!Clicks(p) PROVE RegistryInv'
    <2>1. ASSUME NEW dead, NEW shown, Services!Shows(p, dead, shown) PROVE RegistryInv'
        BY <2>1, RegistryMoves
           DEF Services!Shows, Services!rowVars, Services!registryVars, Services!historyVars, Pictured
    <2>2. CASE \E a \in ServiceArchives : Services!Register(p, a[1], a[2])
        BY <2>2, RegisterServiceKeeps, InventoryAssumption
    <2>3. QED
        BY <1>1, <2>1, <2>2, ServiceDefaultKeeps, RemoveRevisionKeeps, RemoveServiceKeeps
           DEF Services!Clicks, Services!ShowList, Services!StatusAnswered, Services!ShowDetails
<1>2. ASSUME NEW p \in Administrators, Services!Serves(p) PROVE RegistryInv'
    BY <1>2, InsertServiceKeeps, EnqueueKeeps, FlushServiceDefaultKeeps, UntagKeeps, UntagEnds,
       DeleteRevisionKeeps, DeleteServiceKeeps
       DEF Services!Serves
<1>3. CASE Services!Outage \/ UNCHANGED Services!serviceVars
    BY <1>3, RegistryMoves
       DEF Services!Outage, Services!serviceVars, Services!rowVars, Services!registryVars,
           Services!historyVars, Pictured
<1>4. QED
    BY <1>1, <1>2, <1>3, ServiceEndsEarlyKeeps, FillKeeps DEF Services!Next

\* What sensors are told to run can be pulled, for any number of administrators, services,
\* revisions and requests: a default revision is one of the service's, and each revision has
\* its image, or a task for it, or a request that removes it, which does not leave the
\* default behind.
THEOREM DefaultIsThere == Services!Spec => []DefaultCanBePulled
<1>1. RegistryInv => DefaultCanBePulled
    <2> SUFFICES ASSUME RegistryInv, NEW s \in DOMAIN services,
                        <<s, default[s]>> \notin harmedRevisions, ~Services!GoesAway(s)
                 PROVE  /\ Services!Has(s, default[s])
                        /\ <<services[s], default[s]>> \in tags \/ Services!OnItsWay(s)
        BY DEF DefaultCanBePulled, Services!DefaultCanBePulled, Services!Rows
    <2>1. PICK x \in revisions : x.service = s /\ x.revision = default[s]
        BY DEF RegistryInv, DefaultsThere, Services!Has
    <2>2. \A p \in Administrators : x \notin serviceRequest[p].all
        BY <2>1 DEF RegistryInv, RequestsFit, DefaultsStay, Services!GoesAway
    <2>3. Pictured(x) \/ Services!OnItsWay(s)
        BY <2>1, <2>2 DEF RegistryInv, RevisionsHaveImages, Cares, Services!OnItsWay
    <2>4. QED
        BY <2>1, <2>3 DEF Pictured, Services!Has, Services!OnItsWay
<1>2. QED
    BY <1>1, RegistryInit, RegistryStep, PTL DEF Services!Spec
=============================================================================
