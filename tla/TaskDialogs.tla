---------------------------- MODULE TaskDialogs ----------------------------
(***************************************************************************)
(* How the page follows tasks of the server: exports of events or sensor   *)
(* configurations that are downloaded when they are done, uploads that are *)
(* verified and then registered as a service or firmware, test mails.  A   *)
(* dialog shows the task, waitForTask() polls it every second and calls    *)
(* back when it has ended, the list of tasks is refreshed by the updates   *)
(* of the page, and the user closes dialogs or removes tasks at any time.  *)
(***************************************************************************)
EXTENDS Naturals, FiniteSets

CONSTANTS
    Exports, Uploads, Mails,    \* the tasks, by what they are for
    None,                       \* no dialog
    MaxStarted,                 \* bound: tasks that the user starts
    MaxPending                  \* bound: requests that are under way when the user makes one

Fill(t) == <<t, "fill">>        \* the task that puts the service of an upload into the registry
Tasks == Exports \cup Uploads \cup Mails \cup {Fill(t) : t \in Uploads}

VARIABLES
    task,           \* at the server: the status of each task, "none" or "gone"
    seen,           \* the status in the page's list of tasks, or "none"
    watch,          \* waitForTask() of each task: "none", "wait" or "sent"
    dialog,         \* the task it shows, whether it holds its model, and was used to register
    pending,        \* requests for a task that nobody waits for
    downloaded,     \* history: exports whose result has been fetched
    lost,           \* history: results that are gone though nobody has fetched them
    removed,        \* history: tasks that the user has removed
    failures        \* history: tasks with a poll that has failed

serverVars == <<task, downloaded, lost>>
historyVars == <<removed, failures>>
dialogVars == <<serverVars, historyVars, seen, watch, dialog, pending>>

Active == {"scheduled", "running"}
Ended == {"done", "error"}
NoDialog == [task |-> None, holds |-> FALSE, used |-> FALSE]

Init ==
    /\ task = [t \in Tasks |-> "none"] /\ seen = [t \in Tasks |-> "none"]
    /\ watch = [t \in Tasks |-> "none"]
    /\ dialog = NoDialog /\ pending = {}
    /\ downloaded = {} /\ lost = {} /\ removed = {} /\ failures = {}

-----------------------------------------------------------------------------
(* The user *)

Ask(t, what) == /\ Cardinality(pending) < MaxPending
                /\ pending' = pending \cup {<<t, what>>}

\* An export is ordered, a file is uploaded, a mail is sent: the answer holds a new task.
\* The dialog of a mail does not hold its model before the task has ended.
Start(t) ==
    /\ task[t] = "none" /\ t \in Exports \cup Uploads \cup Mails
    /\ Cardinality({u \in Tasks : task[u] # "none"}) < MaxStarted
    /\ task' = [task EXCEPT ![t] = "scheduled"] /\ seen' = [seen EXCEPT ![t] = "scheduled"]
    /\ watch' = [watch EXCEPT ![t] = "wait"]
    /\ dialog' = [task |-> t, holds |-> t \notin Mails, used |-> FALSE]
    /\ UNCHANGED <<downloaded, lost, historyVars, pending>>

\* Buttons of the task list.
Inspect(t) ==
    /\ dialog = NoDialog /\ t \in Uploads \cup Mails /\ seen[t] # "none"
    /\ dialog' = [task |-> t, holds |-> TRUE, used |-> FALSE]
    /\ UNCHANGED <<serverVars, historyVars, seen, watch, pending>>

RemoveFromList(t) ==
    /\ dialog = NoDialog /\ seen[t] # "none"
    /\ Ask(t, "remove") /\ removed' = removed \cup {t}
    /\ UNCHANGED <<serverVars, seen, watch, dialog, failures>>

DownloadFromList(t) ==
    /\ dialog = NoDialog /\ t \in Exports /\ seen[t] = "done"
    /\ Ask(t, "download")
    /\ UNCHANGED <<serverVars, historyVars, seen, watch, dialog>>

\* Escape, a click beside the dialog, the button of ModalAwaitTask.
Close == /\ dialog # NoDialog /\ dialog' = NoDialog
         /\ UNCHANGED <<serverVars, historyVars, seen, watch, pending>>

\* The cancel button of an upload removes the task if it has ended, the one of a mail
\* removes the task whose model it holds.
Cancel ==
    LET t == dialog.task IN
    /\ t \in Tasks \ Exports
    /\ IF IF t \in Mails THEN dialog.holds ELSE seen[t] \notin Active
       THEN /\ Ask(t, "cancel") /\ removed' = removed \cup {t}
            /\ UNCHANGED dialog
       ELSE dialog' = NoDialog /\ UNCHANGED <<pending, removed>>
    /\ UNCHANGED <<serverVars, seen, watch, failures>>

\* createService, createFirmware: the button hides itself.
Register(what) ==
    /\ dialog.task \in Uploads /\ seen[dialog.task] = "done" /\ ~dialog.used
    /\ Ask(dialog.task, what)
    /\ dialog' = [dialog EXCEPT !.used = TRUE]
    /\ UNCHANGED <<serverVars, historyVars, seen, watch>>

-----------------------------------------------------------------------------
(* The server and its workers *)

Run(t) ==
    /\ \/ task[t] = "scheduled" /\ task' = [task EXCEPT ![t] = "running"]
       \/ task[t] = "running" /\ \E s \in Ended : task' = [task EXCEPT ![t] = s]
    /\ UNCHANGED <<downloaded, lost, historyVars, seen, watch, dialog, pending>>

Request(t, kinds) == \E what \in kinds : <<t, what>> \in pending /\ pending' = pending \ {<<t, what>>}

\* deleteTask(): running tasks stay.  The page forgets the task if it succeeds.
ServeRemoval(t) ==
    /\ Request(t, {"remove", "cancel", "forget"})
    /\ IF task[t] \in {"running", "gone"} THEN UNCHANGED <<task, lost, seen, dialog>>
       ELSE /\ task' = [task EXCEPT ![t] = "gone"] /\ seen' = [seen EXCEPT ![t] = "none"]
            /\ lost' = lost \cup {e \in {t} : e \in Exports \ downloaded /\ task[e] = "done"}
            /\ dialog' = IF <<t, "cancel">> \in pending \ pending' /\ dialog.task = t
                         THEN NoDialog ELSE dialog
    /\ UNCHANGED <<downloaded, historyVars, watch>>

\* downloadResult(), with or without the removal of the task.
ServeDownload(t) ==
    /\ Request(t, {"download", "fetch"})
    /\ IF task[t] = "done"
       THEN /\ downloaded' = downloaded \cup {t}
            /\ task' = IF <<t, "fetch">> \in pending \ pending'
                       THEN [task EXCEPT ![t] = "gone"] ELSE task
       ELSE UNCHANGED <<task, downloaded>>
    /\ UNCHANGED <<lost, historyVars, seen, watch, dialog>>

\* createService() replaces the verified upload by a task that fills the registry, which
\* the dialog waits for; createFirmware() has no more to do.
ServeRegistration(t) ==
    /\ Request(t, {"service", "firmware"})
    /\ IF task[t] # "done" THEN UNCHANGED <<task, watch>>
       ELSE IF <<t, "firmware">> \in pending \ pending'
       THEN task' = [task EXCEPT ![t] = "gone"] /\ UNCHANGED watch
       ELSE /\ task' = [task EXCEPT ![t] = "gone", ![Fill(t)] = "scheduled"]
            /\ watch' = [watch EXCEPT ![Fill(t)] = "wait"]
    /\ UNCHANGED <<downloaded, lost, historyVars, seen, dialog>>

-----------------------------------------------------------------------------
(* Polls *)

Poll(t) == /\ watch[t] = "wait" /\ watch' = [watch EXCEPT ![t] = "sent"]
           /\ UNCHANGED <<serverVars, historyVars, seen, dialog, pending>>

\* Mutant: the dialog of an export tidies up when it is done, as the others do.
CalledTidiesUp(t, done) ==
    /\ watch' = [watch EXCEPT ![t] = "none"]
    /\ IF t \in Exports /\ dialog.task = t
       THEN /\ pending' = pending \cup {<<t, "forget">>} \cup {<<x, "fetch">> : x \in {y \in {t} : done}}
            /\ dialog' = IF done THEN NoDialog ELSE dialog
       ELSE UNCHANGED <<pending, dialog>>

\* What the callbacks do.  Exports, as long as their dialog is there: done() downloads the
\* result and closes it, error() removes the task.  The other dialogs take the model over.
Called(t, done) ==
    /\ watch' = [watch EXCEPT ![t] = "none"]
    /\ IF t \in Exports
       THEN IF dialog.task = t
            THEN /\ pending' = pending \cup {<<t, IF done THEN "fetch" ELSE "forget">>}
                 /\ dialog' = IF done THEN NoDialog ELSE dialog
            ELSE UNCHANGED <<pending, dialog>>
       ELSE /\ dialog' = IF t \in Mails /\ dialog.task = t THEN [dialog EXCEPT !.holds = TRUE]
                         ELSE IF t = Fill(dialog.task) THEN [dialog EXCEPT !.task = t]
                         ELSE dialog
            /\ UNCHANGED pending

\* Mutant: the task is polled once.
PollAnsweredOnce(t) ==
    /\ watch[t] = "sent" /\ task[t] # "gone"
    /\ seen' = IF t \in Exports \cup Uploads THEN [seen EXCEPT ![t] = task[t]] ELSE seen
    /\ IF task[t] \in Active
       THEN watch' = [watch EXCEPT ![t] = "none"] /\ UNCHANGED <<pending, dialog>>
       ELSE Called(t, task[t] = "done")
    /\ UNCHANGED <<serverVars, historyVars>>

\* The model takes over the answer; waitForTask() goes on, or calls back.
PollAnswered(t) ==
    /\ watch[t] = "sent" /\ task[t] # "gone"
    /\ seen' = IF t \in Exports \cup Uploads THEN [seen EXCEPT ![t] = task[t]] ELSE seen
    /\ IF task[t] \in Active
       THEN watch' = [watch EXCEPT ![t] = "wait"] /\ UNCHANGED <<pending, dialog>>
       ELSE Called(t, task[t] = "done")
    /\ UNCHANGED <<serverVars, historyVars>>

\* A poll that fails is the end of waiting; for the callback it is the end of the task.
PollFails(t) ==
    /\ watch[t] = "sent"
    /\ failures' = IF task[t] = "gone" THEN failures ELSE failures \cup {t}
    /\ Called(t, FALSE)
    /\ UNCHANGED <<serverVars, seen, removed>>

\* The updates of the page: tasks.set() replaces the list.
Update ==
    /\ seen' = [t \in Tasks |-> IF task[t] = "gone" THEN "none" ELSE task[t]]
    /\ UNCHANGED <<serverVars, historyVars, watch, dialog, pending>>

UserActs(t) == Start(t) \/ Inspect(t) \/ RemoveFromList(t) \/ DownloadFromList(t)
ServerActs(t) == ServeRemoval(t) \/ ServeDownload(t) \/ ServeRegistration(t)
Polls(t) == Poll(t) \/ PollAnswered(t) \/ PollFails(t)

Next ==
    \/ \E t \in Tasks : UserActs(t) \/ Run(t) \/ ServerActs(t) \/ Polls(t)
    \/ \E what \in {"service", "firmware"} : Register(what)
    \/ Close \/ Cancel \/ Update

\* Workers get to each task and end it, timers fire, and polls are answered.
Fairness == \A t \in Tasks : WF_dialogVars(Run(t)) /\ WF_dialogVars(Polls(t))

Spec == Init /\ [][Next]_dialogVars /\ Fairness

-----------------------------------------------------------------------------
(* Properties *)

TypeOK ==
    /\ task \in [Tasks -> {"none", "gone"} \cup Active \cup Ended]
    /\ seen \in [Tasks -> {"none"} \cup Active \cup Ended]
    /\ watch \in [Tasks -> {"none", "wait", "sent"}]
    /\ dialog \in [task : Tasks \cup {None}, holds : BOOLEAN, used : BOOLEAN]
    /\ pending \subseteq Tasks \X {"remove", "cancel", "forget", "download", "fetch",
                                   "service", "firmware"}
    /\ downloaded \subseteq Exports /\ lost \subseteq Exports
    /\ removed \subseteq Tasks /\ failures \subseteq Tasks

\* The result of an export goes unread only if the user has removed the task, or if a poll
\* has failed while the server still worked on it.
ResultsAreKept == lost \subseteq removed \cup failures

\* The dialog of an export closes by itself, unless the export or a poll fails.
ExportsArrive ==
    \A t \in Exports :
        dialog.task = t /\ watch[t] # "none"
            ~> dialog.task # t \/ seen[t] = "error" \/ t \in failures
=============================================================================
