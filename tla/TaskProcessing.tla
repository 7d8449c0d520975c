--------------------------- MODULE TaskProcessing ---------------------------
(***************************************************************************)
(* The server's asynchronous tasks: the web API writes a row to the tasks  *)
(* table and sends a message to the broker, a worker process takes the     *)
(* message, reads the row, runs the handler and records what came out.     *)
(* Users delete tasks meanwhile, the database is away for a while, worker  *)
(* processes and web requests end early, and the broker may deliver a      *)
(* message that it got no acknowledgement for once more.                   *)
(***************************************************************************)
EXTENDS Naturals, FiniteSets

CONSTANTS
    Tasks,          \* the tasks the web API enqueues
    UserTasks,      \* those with a user; the others are system tasks
    Workers,        \* the worker processes of the queue
    MaxRetries,     \* celery's limit for task.retry()
    MaxFaults       \* bound: outages of the database, messages delivered once more,
                    \* and processes and requests that end early, together

ASSUME TaskAssumption ==
    /\ UserTasks \subseteq Tasks
    /\ MaxRetries \in Nat /\ MaxFaults \in Nat

VARIABLES
    status,         \* the tasks table: the status of each row
    result,         \* the tasks table: whether a result is stored
    web,            \* the web requests at work on each task
    messages,       \* the broker: <<task, retries>>
    worker,         \* where each worker is
    job,            \* the message each worker has taken
    connected,      \* whether each worker's database connection works
    db_schema_initialized,  \* per worker process
    db_up,          \* the database can be reached
    outages, duplicates, crashes    \* the faults so far

tableVars  == <<status, result>>
workerVars == <<worker, job, connected, db_schema_initialized>>
boundVars  == <<outages, duplicates, crashes>>
vars == <<tableVars, web, messages, workerVars, db_up, boundVars>>

\* Rows that do not exist are `new` or `deleted`.
Rows == {"scheduled", "running", "done", "error"}
Messages == Tasks \X (0..MaxRetries)

\* `fetched`: the row was read; `performed` and `stored` lie between handler,
\* result and status; `failed` is the except block, `cleanup` what follows it.
WorkerStates == {"idle", "taken", "connected", "fetched", "running", "performed", "stored",
                 "failed", "cleanup"}

TypeOK ==
    /\ status \in [Tasks -> Rows \cup {"new", "deleted"}]
    /\ result \in [Tasks -> BOOLEAN]
    /\ web \in [Tasks -> {"none", "enqueue", "delete"}]
    /\ messages \subseteq Messages
    /\ worker \in [Workers -> WorkerStates]
    /\ job \in [Workers -> Messages \cup {<<>>}]
    /\ connected \in [Workers -> BOOLEAN]
    /\ db_schema_initialized \in [Workers -> BOOLEAN]
    /\ db_up \in BOOLEAN
    /\ outages \in Nat /\ duplicates \in Nat /\ crashes \in Nat
    /\ outages + duplicates + crashes <= MaxFaults
    /\ \A w \in Workers : worker[w] = "idle" <=> job[w] = <<>>

Init ==
    /\ status = [t \in Tasks |-> "new"] /\ result = [t \in Tasks |-> FALSE]
    /\ web = [t \in Tasks |-> "none"]
    /\ messages = {}
    /\ worker = [w \in Workers |-> "idle"] /\ job = [w \in Workers |-> <<>>]
    /\ connected = [w \in Workers |-> FALSE]
    /\ db_schema_initialized = [w \in Workers |-> FALSE]
    /\ db_up = TRUE
    /\ outages = 0 /\ duplicates = 0 /\ crashes = 0

MayFail == outages + duplicates + crashes < MaxFaults

-----------------------------------------------------------------------------
(* The web API *)

webUnchanged == <<workerVars, db_up, outages, duplicates>>

\* enqueue(): the row is flushed ...
Enqueue(t) ==
    /\ status[t] = "new" /\ db_up
    /\ status' = [status EXCEPT ![t] = "scheduled"]
    /\ web' = [web EXCEPT ![t] = "enqueue"]
    /\ UNCHANGED <<result, messages, crashes, webUnchanged>>

\* Mutant: the message goes to a queue that no worker reads.
SendTaskElsewhere(t) ==
    /\ web[t] = "enqueue"
    /\ web' = [web EXCEPT ![t] = "none"]
    /\ UNCHANGED <<tableVars, messages, crashes, webUnchanged>>

\* ... and then the message is sent.
SendTask(t) ==
    /\ web[t] = "enqueue"
    /\ messages' = messages \cup {<<t, 0>>}
    /\ web' = [web EXCEPT ![t] = "none"]
    /\ UNCHANGED <<tableVars, crashes, webUnchanged>>

\* The request ends between the two, or the broker cannot be reached.
SendFails(t) ==
    /\ web[t] = "enqueue"
    /\ MayFail /\ crashes' = crashes + 1
    /\ web' = [web EXCEPT ![t] = "none"]
    /\ UNCHANGED <<tableVars, messages, webUnchanged>>

\* deleteTask(): the row is read, and refused while the task is running ...
DeleteCheck(t) ==
    /\ db_up /\ web[t] = "none"
    /\ status[t] \in Rows \ {"running"}
    /\ web' = [web EXCEPT ![t] = "delete"]
    /\ UNCHANGED <<tableVars, messages, crashes, webUnchanged>>

Remove(t) == /\ status' = [status EXCEPT ![t] = "deleted"]
             /\ result' = [result EXCEPT ![t] = FALSE]

\* ... and removed, whatever its status is by now; without a database the
\* request fails.
DeleteRow(t) ==
    /\ web[t] = "delete"
    /\ web' = [web EXCEPT ![t] = "none"]
    /\ IF db_up THEN Remove(t) ELSE UNCHANGED tableVars
    /\ UNCHANGED <<messages, crashes, webUnchanged>>

-----------------------------------------------------------------------------
(* perform_task() *)

workerUnchanged == <<web, db_up, boundVars>>

\* The worker is done with the message, one way or another.
GoIdle(w) ==
    /\ worker' = [worker EXCEPT ![w] = "idle"]
    /\ job' = [job EXCEPT ![w] = <<>>]
    /\ connected' = [connected EXCEPT ![w] = FALSE]

Goto(w, pc) == worker' = [worker EXCEPT ![w] = pc]
TaskOf(w) == job[w][1]

\* UPDATE on the row of w's task, without effect when the row is gone.
SetStatus(w, s) ==
    status' = [status EXCEPT ![TaskOf(w)] = IF @ \in Rows THEN s ELSE @]

\* A worker takes a message, which is acknowledged before the task runs; a lost
\* acknowledgement leaves it at the broker.
Take(w, m) ==
    /\ worker[w] = "idle" /\ m \in messages
    /\ Goto(w, "taken")
    /\ job' = [job EXCEPT ![w] = m]
    /\ \/ messages' = messages \ {m} /\ UNCHANGED duplicates
       \/ MayFail /\ duplicates' = duplicates + 1 /\ UNCHANGED messages
    /\ UNCHANGED <<tableVars, web, connected, db_schema_initialized, db_up,
                   outages, crashes>>

\* connect_to_db(), the database answers.
Connect(w) ==
    /\ worker[w] = "taken" /\ db_up
    /\ Goto(w, "connected")
    /\ connected' = [connected EXCEPT ![w] = TRUE]
    /\ db_schema_initialized' = [db_schema_initialized EXCEPT ![w] = TRUE]
    /\ UNCHANGED <<tableVars, messages, job, workerUnchanged>>

\* connect_to_db() without a database, in a process that never had one: looking
\* for the schema raises, and the task is scheduled again until celery gives up.
Retry(w) ==
    /\ worker[w] = "taken" /\ ~db_up /\ ~db_schema_initialized[w]
    /\ messages' = IF job[w][2] < MaxRetries
                     THEN messages \cup {<<TaskOf(w), job[w][2] + 1>>} ELSE messages
    /\ GoIdle(w)
    /\ UNCHANGED <<tableVars, db_schema_initialized, workerUnchanged>>

\* connect_to_db() without a database, in a process that has seen the schema: it
\* returns None, and the next statement that needs it raises outside every try.
ConnectNone(w) ==
    /\ worker[w] = "taken" /\ ~db_up /\ db_schema_initialized[w]
    /\ GoIdle(w)
    /\ UNCHANGED <<tableVars, messages, db_schema_initialized, workerUnchanged>>

\* fetch_task_data() finds no row, and the missing data raises twice: the task
\* ends with an exception, and nothing else changes.
FetchNothing(w) ==
    /\ worker[w] = "connected" /\ connected[w]
    /\ status[TaskOf(w)] \notin Rows
    /\ GoIdle(w)
    /\ UNCHANGED <<tableVars, messages, db_schema_initialized, workerUnchanged>>

\* fetch_task_data() returns the row; a status other than SCHEDULED raises.
Fetch(w) ==
    /\ worker[w] = "connected" /\ connected[w]
    /\ status[TaskOf(w)] \in Rows
    /\ Goto(w, IF status[TaskOf(w)] = "scheduled" THEN "fetched" ELSE "failed")
    /\ UNCHANGED <<tableVars, messages, job, connected, db_schema_initialized,
                   workerUnchanged>>

\* The status becomes RUNNING.
Claim(w) ==
    /\ worker[w] = "fetched" /\ connected[w]
    /\ SetStatus(w, "running")
    /\ Goto(w, "running")
    /\ UNCHANGED <<result, messages, job, connected, db_schema_initialized,
                   workerUnchanged>>

\* Mutant: a failed handler counts as having a result.
PerformIgnoresErrors(w) ==
    /\ worker[w] = "running"
    /\ \E pc \in {"performed", "stored"} : Goto(w, pc)
    /\ UNCHANGED <<tableVars, messages, job, connected, db_schema_initialized, workerUnchanged>>

\* The handler runs and returns a result, or raises.
Perform(w) ==
    /\ worker[w] = "running"
    /\ \E pc \in {"performed", "failed"} : Goto(w, pc)
    /\ UNCHANGED <<tableVars, messages, job, connected, db_schema_initialized, workerUnchanged>>

StoreResult(w) ==
    /\ worker[w] = "performed" /\ connected[w]
    /\ result' = [result EXCEPT ![TaskOf(w)] = @ \/ status[TaskOf(w)] \in Rows]
    /\ Goto(w, "stored")
    /\ UNCHANGED <<status, messages, job, connected, db_schema_initialized,
                   workerUnchanged>>

MarkDone(w) ==
    /\ worker[w] = "stored" /\ connected[w]
    /\ SetStatus(w, "done")
    /\ Goto(w, "cleanup")
    /\ UNCHANGED <<result, messages, job, connected, db_schema_initialized,
                   workerUnchanged>>

\* Mutant: the except block only logs.
MarkErrorLogs(w) ==
    /\ worker[w] = "failed" /\ connected[w]
    /\ Goto(w, "cleanup")
    /\ UNCHANGED <<tableVars, messages, job, connected, db_schema_initialized, workerUnchanged>>

\* The except block.
MarkError(w) ==
    /\ worker[w] = "failed" /\ connected[w]
    /\ SetStatus(w, "error")
    /\ Goto(w, "cleanup")
    /\ UNCHANGED <<result, messages, job, connected, db_schema_initialized,
                   workerUnchanged>>

\* The row of a system task is deleted; deleting nothing is no error.
Cleanup(w) ==
    /\ worker[w] = "cleanup"
    /\ TaskOf(w) \in UserTasks \/ connected[w]
    /\ IF TaskOf(w) \in UserTasks THEN UNCHANGED tableVars ELSE Remove(TaskOf(w))
    /\ GoIdle(w)
    /\ UNCHANGED <<messages, db_schema_initialized, workerUnchanged>>

\* A statement on a broken connection raises; so does the except block, which
\* needs the connection too, and nothing else is done.
ConnectionBroken(w) ==
    /\ worker[w] \in {"connected", "fetched", "performed", "stored", "failed", "cleanup"}
    /\ ~connected[w]
    /\ worker[w] = "cleanup" => TaskOf(w) \notin UserTasks
    /\ GoIdle(w)
    /\ UNCHANGED <<tableVars, messages, db_schema_initialized, workerUnchanged>>

\* A worker process is killed; its successor has seen no schema yet.
WorkerCrash(w) ==
    /\ worker[w] # "idle"
    /\ MayFail /\ crashes' = crashes + 1
    /\ GoIdle(w)
    /\ db_schema_initialized' = [db_schema_initialized EXCEPT ![w] = FALSE]
    /\ UNCHANGED <<tableVars, web, messages, db_up, outages, duplicates>>

-----------------------------------------------------------------------------
(* The database *)

\* The database goes away, and every connection with it.
DbDown ==
    /\ db_up /\ MayFail
    /\ db_up' = FALSE /\ outages' = outages + 1
    /\ connected' = [w \in Workers |-> FALSE]
    /\ UNCHANGED <<tableVars, web, messages, worker, job, db_schema_initialized,
                   duplicates, crashes>>

DbUp ==
    /\ ~db_up
    /\ db_up' = TRUE
    /\ UNCHANGED <<tableVars, web, messages, workerVars, boundVars>>

-----------------------------------------------------------------------------
Web(t) == Enqueue(t) \/ SendTask(t) \/ SendFails(t) \/ DeleteCheck(t) \/ DeleteRow(t)

Work(w) == \/ Connect(w) \/ Retry(w) \/ ConnectNone(w) \/ FetchNothing(w) \/ Fetch(w)
           \/ Claim(w) \/ Perform(w) \/ StoreResult(w) \/ MarkDone(w) \/ MarkError(w)
           \/ Cleanup(w) \/ ConnectionBroken(w)

Next == \/ \E t \in Tasks : Web(t)
        \/ \E w \in Workers : Work(w) \/ WorkerCrash(w) \/ \E m \in messages : Take(w, m)
        \/ DbDown \/ DbUp

Spec == Init /\ [][Next]_vars

\* Worker processes and requests run, workers take what is in the queue, and the
\* database comes back.
Fairness ==
    /\ \A w \in Workers : WF_vars(Work(w)) /\ WF_vars(\E m \in messages : Take(w, m))
    /\ \A t \in Tasks : WF_vars(SendTask(t)) /\ WF_vars(DeleteRow(t))
    /\ WF_vars(DbUp)

FairSpec == Spec /\ Fairness

-----------------------------------------------------------------------------
(* Properties *)

Holds(w, t) == worker[w] # "idle" /\ TaskOf(w) = t
HasMessage(t) == \E m \in messages : m[1] = t

\* A task that shows as DONE has its result: clients read it as soon as they see
\* the status, whatever fails and however often the message is delivered.
DoneHasResult == \A t \in Tasks : status[t] = "done" => result[t]

\* A scheduled task is on its way to a worker, unless a process ended early or
\* the database was away.
ScheduledIsQueued ==
    crashes = 0 /\ outages = 0 =>
        \A t \in Tasks : status[t] = "scheduled" =>
            HasMessage(t) \/ web[t] = "enqueue" \/ \E w \in Workers : Holds(w, t)

\* A message leads to an end: neither it nor a worker with it is left, and the task is
\* finished or gone - system tasks are gone (tasks.py: "After task completion, they are
\* removed from the db") - or else a process ended early or the database went.
Ends(t) == {"deleted"} \cup (IF t \in UserTasks THEN {"done", "error"} ELSE {})

Finished(t) ==
    /\ ~HasMessage(t) /\ \A w \in Workers : ~Holds(w, t)
    /\ status[t] \in Ends(t) \/ crashes > 0 \/ outages > 0

MessagesLeadToAnEnd == \A t \in Tasks : HasMessage(t) ~> Finished(t)
=============================================================================
