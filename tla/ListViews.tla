------------------------------ MODULE ListViews ------------------------------
(***************************************************************************)
(* Two lists of the web interface that change while their dialogs are      *)
(* open: the tasks of a user, and the events.  Neither knows of the other. *)
(***************************************************************************)
EXTENDS Naturals

CONSTANTS
    ExportTasks, UploadTasks, MailTasks,
    NoTask,             \* no dialog of a task
    MaxTasks,           \* bound: tasks that the user starts
    MaxTaskRequests,    \* bound: requests for tasks that are under way
    MaxEventId,         \* bound: events
    RowsPerPage,        \* events on a page
    MaxAnswers,         \* bound: answers to the list of events that are awaited
    MaxChoices,         \* bound: filters, pages and dialogs of events that the user chooses
    MaxOthers           \* bound: changes of events by others

\* What is exported is neither uploaded nor mailed, nor put into the registry.
ASSUME ListAssumption ==
    /\ MaxEventId \in Nat
    /\ ExportTasks \cap (UploadTasks \cup MailTasks \cup (UploadTasks \X {"fill"})) = {}

VARIABLES
    task, seen, watch, taskDialog, pending, downloaded, lost, removed, failures,    \* TaskDialogs
    storedEvents, told, query, rows, total, fetches, eventDialog, changeRequests,   \* EventBrowser
    choices, otherChanges, lagging

taskVars == <<task, seen, watch, taskDialog, pending, downloaded, lost, removed, failures>>
listVars == <<storedEvents, told, query, rows, total, fetches, eventDialog, changeRequests,
              choices, otherChanges, lagging>>

Dialogs == INSTANCE TaskDialogs WITH
    Exports <- ExportTasks, Uploads <- UploadTasks, Mails <- MailTasks, None <- NoTask,
    MaxStarted <- MaxTasks, MaxPending <- MaxTaskRequests, dialog <- taskDialog

Browser == INSTANCE EventBrowser WITH
    MaxId <- MaxEventId, PageSize <- RowsPerPage, MaxFetches <- MaxAnswers,
    MaxClicks <- MaxChoices, MaxChanges <- MaxOthers,
    events <- storedEvents, announced <- told, dialog <- eventDialog,
    requests <- changeRequests, clicks <- choices, changes <- otherChanges

-----------------------------------------------------------------------------
(* Properties *)

\* No result of an export is removed unread, but by its user or after a poll that has failed.
ResultsAreKept == Dialogs!ResultsAreKept

\* A request for events names those that its dialog was opened for, with the exceptions that
\* EventBrowser names.
SentAsShown == Browser!SentAsShown
=============================================================================
