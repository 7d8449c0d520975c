# HoneySens: a TLA+ verification development

HoneySens is a honeypot sensor network. Sensors run honeypot services in
containers and report what attackers do there; a server collects the events,
lets users read and edit them, and hands the sensors their configuration. This
directory models the parts of that system whose correctness depends on the order
of things (threads, requests, crashes, lost messages, stale copies, what users
clicks meanwhile), checks the models with TLC, and proves with TLAPS most of the
invariants that the runs check, and one refinement, for every size of the system.

All paths below are relative to the root of the repository (`src/` of
PROJECT.json). `SM` is `sensor/manager/manager`, `API` is
`server/services/web/api/app`, `TP` is `server/services/tasks/processor`, `FE` is
`server/services/web/frontend/app`.

Contents

 1. Inventory of the system
 2. Plan
 3. The modules, and how they correspond to the code
 4. The runs
 5. Fairness
 6. What is proved
 7. What is only model-checked
 8. What is not modelled
 9. Disagreements between the code and what it says

## 1. Inventory

### Sensor

| Component | State | Operations | What makes it hard | What makes it correct |
|---|---|---|---|---|
| Event pipeline: `SM/collector.py`, `event_processor.py` | the queue between the two threads, the ring buffer, the snapshot under way, the time of the last successful poll | receive and enqueue; take, submit, retry; is_online() | three threads share `_last_successful_poll` without a lock; requests and answers get lost; the buffer overflows; a restart loses it | no failure loses an event, order has no gaps, surplus copies come from broken connections only, everything is processed in the end |
| State worker and services: `SM/state.py`, `services.py` | the registry of services, the catch-all target; docker's containers, images and network; the netfilter chain | apply a configuration: exchange the network, destroy, create, start, remove; redirect packets | each docker call may fail, containers stop by themselves, lists read before a change are used after it | no container escapes the registry, the sensor converges to its assignment, rules go with their container |
| Polling and configuration: `SM/polling.py`, `manager.py`, `platforms/generic.py` | the configuration object, certificate files, archive, the queue to the state worker | poll, update parameters and certificates, save, archive, enqueue; apply | two threads use one object; a write may fail at any line; the process may end at any line | what is set up, in memory and in the archive agrees; a restart resumes; the sensor ends up with what users set |
| Configuration updater: `SM/config_updater.py` | the configuration file | one edit per former server version | runs before anything else | - |
| Command endpoint: `SM/commands.py`, `cli.py` | none of its own | status, log level | - | - |
| Platforms and firmware update: `SM/platforms/*`, `hooks.py` | network interfaces, 802.1X credentials, firmware image | apply_config(), LED, update | download and verification fail, the new manager takes over from the old one | a sensor never runs an image that was not verified, or comes back |
| Services: `sensor/services/*` | third-party | one message per event | - | - |
| Platform images: `sensor/platforms/*` | - | build and init scripts | - | - |

### Server

| Component | State | Operations | What makes it hard | What makes it correct |
|---|---|---|---|---|
| Event store: `API/services/EventsService.php` | events with details and packets, archived events, timestamps | create (with filters), edit, delete, archive, list | check and use in different queries, flushes in a loop, deletions meanwhile | an event is in the store or the archive, not in neither or both |
| Event filters: `EventFiltersService.php`, `FE/modules/filters` | filters, conditions, counters; the form and its list of conditions | match, count, edit, toggle, remove | counters are read, added to and written; a save matches conditions by id with what is stored by then | counters count, conditions are what users sent |
| Sensor status: `SensorsService.php`, `TP/handlers/sensor_timeout_checker.py` | the status log of each sensor | add a report, reduce the log, add a TIMEOUT | two writers that overlap; the timestamps of two clocks | reports in order, a sensor that is away is reported, one that polls is online |
| Sensors and assignments: `SensorsService.php`, `Sensor.php`, `FE/modules/sensors` | sensors, credentials, certificates, service assignments | create, edit, delete, poll | requests leave out what is to be kept; references to what others delete | what a form asks for is accepted, what it does not change stays |
| Task queue and workers: `API/adapters/TaskAdapter.php`, `TasksService.php`, `TP/tasks.py` | the tasks table, messages at the broker, worker processes | enqueue, take, perform, record, retry, delete | database outages, messages delivered again, processes that end early, deletions meanwhile | DONE has a result, no task is forgotten, system tasks vanish |
| Task handlers: `TP/handlers/*` | files | verify uploads, create configurations, talk to the registry, extract, forward, mail | chunks of uploads, missing files | the same |
| Periodic tasks: `TP/beat.py` | - | timeout checker, summaries, archive caretaker, update of certificates | runs overlap | see sensor status |
| State of the web interface: `API/controllers/State.php`, `models/EntityUpdateSubscriber.php`, `frontend/app/controller.js` | `last_updates`, session locks; the page's copy, its timestamp and last event id | stamp tables, answer a poll by several queries, replace the page's copy | seconds as timestamps, commits after statements, answers that overtake each other | what the page does not show it fetches with its next poll |
| Divisions, contacts, users: `DivisionsService.php`, `UsersService.php`, `FE/modules/accounts` | accounts, memberships, contacts; the page's copies of each | create, edit, delete with what belongs to them | membership is kept twice and renewed for different reasons; cascades | contacts are members, nobody loses a membership that nobody took, passwords are asked for when they are needed |
| Services and registry: `SensorServicesService.php`, `RegistryAdapter.php`, `FE/modules/services` | services, revisions, the default revision; images in the registry; buttons that wait for the status of the registry | create from an upload, edit, delete | images are removed before the rows, and put there by a task whose tool may fail unnoticed; the default is named by a string | what sensors are told to run can be pulled |
| Platforms and firmware: `PlatformsService.php`, `FE/modules/platforms` | platforms, firmware revisions, the default, what sensors use instead; files | create from an upload, edit, delete | files change before or after the rows; details that pages show are old | what sensors are told to install can be downloaded |
| Sessions and permissions: `SessionsService.php`, `SessionMiddleware.php` | sessions | log in and out, check | they run out while a page shows the application | see web interface |
| Settings, logs, templates, certificates, statistics, system | single rows, a settings file | read, write | the settings file is read and written as a whole | - |
| Web interface, session, routing and layout: `FE/controller.js`, `FE/views/regions.js`, `FE/modules/*/module.js` | what the page shows and to whom, its requests, its counter; regions with their queues and animations | log in and out, route, install, poll, notice errors; show, hide and close views | answers of a session that is over, animations and handlers that end late, links typed by hand | what is shown is kept up to date, by one loop, with the data of its user; no view stays behind |
| Web interface, lists, dialogs and forms: `FE/modules/*/views` | models and collections, open forms, confirmed changes under way | page, filter, select, edit, remove; export, upload, register; save | the list is another one by the time a button is clicked; forms send models that are stale; dialogs wait for tasks that others remove | what is sent is what was shown, a save changes only what was changed in the form, no result is thrown away |
| Startup, backup, deployment: `server/services/web/env`, `server/services/backup`, `server/deployment` | certificates, volumes | scripts | runs while nothing else does | - |
| Tools and demo: `utils/` | - | - | - | - |

### How they interact

A service sends an event to the collector (a request-reply socket); the
collector hands it to the event processor (queue); the event processor posts a
batch to the server, which stores it and renews the timestamp of the sensors
table; the polls of the web interface notice both. The polling thread sends the
sensor's status and the fingerprints of its certificates and gets its
configuration; it changes the configuration object, and hands a reference to it
to the state worker (queue), which sets up the network, the services network and
the containers, and tells the collector to bind again (event). Users edit
sensors, services and firmware through the API; whatever takes long becomes a
row of the tasks table and a message at the broker, which a worker process
takes. Celery beat sends the periodic tasks to the same workers. The page of the web
interface keeps copies of most tables: a loop of counter and poll renews those whose
timestamp is new, each save renews some more, and views, forms and dialogs work on the
models that they found when they were opened. PROJECT.json
lists, line by line, where this can go wrong ("hazards").

## 2. Plan

Order by importance: what loses data or a sensor comes first, what confuses a user next.

 1. `EventDelivery` (abstract) and `EventPipeline`, which implements it: done, all safety
    properties proved.
 2. `ServiceManager`: done, safety proved.
 3. `TaskProcessing`: done, safety proved.
 4. `ConfigSync`: done but for the orderly shutdown, safety proved.
 5. `SensorStatus` and `EventStore`: done, the invariants of both proved. `SensorRecords`
    declares the first for the proofs, `MCServerRecords` checks the two side by side.
    `Subsequences` is what this module and `FilterForm` know of parts of a sequence.
 6. `StateSync`: done, proved.
 7. `WebSession`: done, its invariants proved.
 8. `ViewRegions`, `TaskDialogs`, `EventBrowser`, `FirmwareStore`, `ServiceRegistry`: done,
    safety proved; `ListViews` puts the second and the third side by side, `Inventory` the last
    two, and `MCWebPages` checks all of them.
 9. `Accounts`, `SensorForm`, `FilterForm`, each from the form to the row: done, safety proved;
    `SensorViews` and `FilterRecords` declare the second and the third for the proofs,
    `MCWebForms` checks all three.

What is left, in the order it would be done:

 - `Uploads` and `FirmwareUpdate`: chunks and the verifier; download, verification and
    handover on the sensor.
 - The orderly shutdown, as an extension of `ConfigSync`: stop() cancels the timer only,
    a poll under way goes on while the configuration directory is removed.
 - An abstract specification of `EventStore` (a set of events, each stored, archived or
    gone), which the requests implement.

## 3. The modules

PROJECT.json, "map", gives the lines of each definition. In every module an
action is a handler, or the part of one between two points where something else
can come between: another thread, another request, a failure. Counters in the
guards (`faults`, `edits`, ...) bound the exploration; they are named as bounds
where they are declared. History variables, marked as such, are read by
properties only; so are `outcome`, `failed`, `overlapped` and `unnoticed`.
Definitions that begin with "Mutant:" are not part of the specification: each is
a plausible mistake in the definition after it, and shows that a property is able
to fail.

### EventDelivery, EventPipeline

| Model | Code |
|---|---|
| `event_queue`, `events`, `send_cand` | the queue between collector and processor; the deque; the snapshot, `SM/event_processor.py` |
| `processor`, `poller` | where run() and submit_events(), worker() and its hooks are |
| `last_successful_poll` | `_last_successful_poll` of `SM/polling.py`: None, within the interval, or older |
| `committed` | how often the server processed each event (stored, or counted by a filter) |
| `late` | requests the sensor gave up on that the server still handles |
| `Receive` | Collector.run() |
| `TakeEvent`, `QueueEmpty` | run() of the event processor |
| `IsOnlineCheck`, `StartSend`, `SkipSend` | the two reads of is_online() (two actions), and what follows |
| `Refused`, `RequestLost`, `ReplyLost`, `ReplyOk` | the outcomes of the request; ConnError is trigger_conn_error() |
| `PollOk` ... `ProcLedAge` | polls, and the LED hooks that call is_online() on a BeagleBone (`HasLed`) |
| `CreateEvent`, `CreateEventLate` | EventsService::createEvent() |
| `Restart` | shutdown() or a crash, and start() |

`EventDelivery` is what the sensor promises: an event that it took over is held
until it was processed or is dropped, openly, by a full buffer or a restart. The
refinement mapping takes an event's place in the queues to its phase.

### ServiceManager

One action per docker call. `services` is the registry with the container object
each entry holds (`live` tells whether the container of that object still exists),
`containers`, `images` and `network` are docker's, `chain` is the set of addresses that
netfilter redirects packets to, `config`, `worker`, `pending` and `current` are where the
state worker is in `apply_services()` and `start()`. NameIn says which container
names contain which, as start() and destroy() search by substring; a run chooses
it. `forgotten` is history: addresses whose rule does not go with its container any
more, since the container stopped by itself, was destroyed under the name of another service,
or is not the latest catch-all that was started. Containers in raw network mode are left out.

### TaskProcessing

`status` and `result` are the columns of the tasks table, `web` the requests that
are half way through enqueue() or deleteTask(), `messages` the broker, `worker`,
`job`, `connected` and `db_schema_initialized` the worker processes. perform_task()
is one action per statement that needs the database; each of them may find its
connection broken (`ConnectionBroken`). `Take` acknowledges the message at once, as
celery does by default, or leaves it for a second delivery.

### ConfigSync

`server` is the sensor's row, `config`, `files` and `archive` what the sensor has
in memory, in its directory and in the archive that survives a restart;
`poll.pc` walks through update_config() statement by statement, `worker` reads the
shared configuration in one action and copies files in a later one. Settings
other than credentials are `net` (trigger_network_change) or `plain`. 802.1X
credentials are modelled one by one, PEAP and TTLS as one mode. A write that fails
leaves the file half written; a crash may come anywhere. `Setup` is what
configure_eapol() and apply_config() make of a configuration, `NewsFor` which
certificates a poll returns.

### SensorStatus

One sensor. Its log is a sequence in the order of the ids; each entry has an age in ticks
instead of a timestamp, so that time can go on for ever in a finite model: ages from which a
sensor is overdue anyway, that of a poll under way among them, are compressed in a way that
keeps their order (`Grown`). `skew` is the
difference of the clocks. A report is accepted or refused by validateSensorRequest() and
addSensorStatus(), from what the request has read (`Accept`), and written with the
reduction of the log (`Record`), whatever was added meanwhile. Checkers read the
log (`Check`) and add their TIMEOUT later (`AddTimeout`). `SensorRecords` declares the variables
and instantiates the module, for any intervals and checkers. What the reduction leaves is a part
of the log, as `Subsequences` defines it: the entries at some places, found by counting places
instead of by going through the log.

### StateSync

`version` counts the changes of a table, `stamp` is last_updates, `writer` the
requests that change something, in the three ways the code has: the subscriber's
UPDATE inside the transaction that is committed later, the statement of its own
after the commit, and no stamp at all. A poll is one action per query, in the order of
State.php; requests of a session exclude each other (PHP's session lock), but their
answers may arrive in any order. `unnoticed` notes the changes that the timestamps
cannot show, by the three mechanisms UpdatesAreSeen names.

### EventStore

| Model | Code |
|---|---|
| `events`, `archive`, `sensors`, `filter` | the tables; an event has a status, an age and, in one bit, its details and packets; all sensors are of one division, which has one filter |
| `request[r].pc` | the query that request r does next; `ids` is what it selected, `loaded` the entities it has read |
| `caretaker` | where ArchiveCaretaker.perform() is, the list it read, and the details as its transaction saw them |
| `CreateEvent`, `FlushEvent` | createEvent(): filters and counters are read first, and written by the flush |
| `SelectToUpdate`, `UpdateEvents` | updateEvent() |
| `SelectToDelete`, `LoadEvents`, `ArchiveEvent`, `DeleteDetails`, `DeleteEvents` | deleteEvent() and archiveEvents(): a transaction for each statement |
| `SelectSensor`, `LoadAgain`, `RemoveSensor` | deleteSensor(): entities are read twice, everything is removed by one flush |
| `RemoveAll`, `SelectCopies`, `DeleteCopies` | removeAllEvents(), deleteEvent() in the archive |
| ...`Refused` | a foreign key forbids it: the request ends, what was committed stays |
| `Purge` ... `CaretakerSleeps`, `NewDay` | the nightly run; time passes in three steps: never modified, today, long ago |

### WebSession

One page and the session of its user. `page` is a record: its phase, the hash in the address,
whose data it holds, which layout, module and view it shows, a dialog, and how many counters
run; the handlers of `FE/controller.js` and of the modules are operators on that record.

| Model | Code |
|---|---|
| `session`, `mustChange`, `setup` | the session at the server, users with a password that was given to them, State.php's `setup` |
| `req` | requests under way: sent, then answered by the server, then handled by the page |
| `InitLayout`, `StartModule`, `Routed`, `LoggedOut` | initLayout(), module start, the routers, the end of a session |
| `Loaded`, `LoggedIn`, `GotState`, `GotUpdates`, `Saved`, `LogoutAnswered`, ... | the success and error handlers of each request |
| `CounterEnds` | the counter that asks for the next poll |
| `Shows`, `AskAdmin` ... `Install`, `FinishInstall` | the steps of the setup form |
| `Expire`, `UserReload`, `Route` | the session runs out, the user reloads a page that shows nothing or types a link |

`past` notes what properties excuse: a log-in that was sent, served or answered, or another
answer that came, after a log-out or next to another log-in (`stray`; a double click on the
button is enough), and a form whose failure nobody draws a conclusion from (`swallowed`).

### ViewRegions, TaskDialogs, EventBrowser, FirmwareStore, ServiceRegistry (MCWebPages)

`ViewRegions` has the three kinds of regions: `content` (two views while one slides out, one
that waits), `overlay` (with its listeners and the animations that take it away), and `modal`
(which empties itself when it is hidden). Each action is a call of show() or empty(), or the
end of an animation. A view is made once, shown, and destroyed.

`TaskDialogs` has the tasks at the server, the page's list of them (`seen`, renewed by
`Update`), the polls of waitForTask() (`watch`) and the dialog. `Called` is the callback of
each dialog; `Register` creates a service or firmware from an upload, and with it the task
`Fill`. Results go when they are downloaded (`ServeDownload`) or the task is removed.

`EventBrowser` has the pages of the list: `query` with source, status and page, `fetches` under
way in the order of their requests, `rows` and `total` of the last answer. `Browse` is a filter or
the pager; `Open` takes what a dialog works on, `Confirm` sends it, `Request` is what the page
makes of it. `lagging` notes that the rows are not the answer to the latest question. `ListViews`
declares the variables of the two modules and instantiates them.

`FirmwareStore` has the revisions of one platform at the server (`firmware`, `default`,
`files`), what a sensor uses instead (`choice`), the verified uploads, and the details that
each page shows (`listed`, `offered`). A click (`Register`, `SetDefault`, `Remove`, `Choose`)
includes the reads by which PlatformsService.php and SensorsService.php refuse a request; the
rest are the steps behind them: `Insert` then `Rename` for createFirmware(), `Unlink` then
`Delete` for deleteFirmware(), which removes the file before it flushes. `EndsEarly` is a
request that stops in between.

`ServiceRegistry` has services with revisions and a default, the images in the registry,
and the tasks that put them there (`filling`). updateRegistryStatus() enables the buttons of
the rows that are listed when it answers, and ServiceList disables those that were there
when it was shown: `disabled`. Requests are `Insert` then `Enqueue`; `Untag` for one image after the
other, then `DeleteRevision` or `DeleteService`; `FlushDefault`. `Fill` is the task of
registry_manager, which does not look at the exit code of the copy.

In both, `harmed` notes what one of these weaknesses has hit, and `shared` the uploads or
names that two requests were creating, or removing, at once; the properties leave those out.
`Inventory` declares the variables of both and instantiates them for the same administrators:
MCWebPages gives its constants values, and ServerProofs proves its two properties for all.

### Accounts, SensorForm, FilterForm (MCWebForms)

`Accounts`: `account`, `division` at the server, `stamps` what the next update of the page
brings, `users`, `divs`, `contacts` the page's collections. Forms are built from the
collections (`DivisionForm`, `UserForm`), sent as a whole (`SaveDivision`, `SaveUser`), and
served by `UpdateDivision`, `UserSaved` and the others, which also renew collections as the
success handlers do. Other administrators act by `SomebodyAssigns`.

`SensorForm`: `objects` are the models that the page has had of one sensor: updates replace
the model in the list, forms and requests keep theirs. `Submitted` is what SensorEdit sends,
`Whole` what a check box of the list sends. What the server refuses is of two kinds: requests
that lack a credential (not `Complete`), and requests whose fields or files it cannot take (not
`WellFormed`): the page looks at patterns and sizes only, so it lets through 999.999.999.999 as an
address (`Contents`, "odd", in the parts that are `Loose`), and files that are no certificate or
key, or a key with another passphrase (`Broken`). After a refusal the model of the form is fetched.
`Stored` is updateSensorFromParams(). `SensorViews` declares the variables and instantiates the
module, for any services, files and parts of the form.

`FilterForm`: `store` at the server, `list` and `orphan` (a new filter that has no id yet) in the
page, `form` with its conditions. `Updated` is the loop of updateEventFilter() as it is, that is,
without the braces that its indentation suggests (section 9). The conditions that stay, and those that
are added, are parts of what is stored and of what was sent (`Part` of `Subsequences`).
`FilterRecords` declares the variables and instantiates the module, for any filters and fields.

The modules of each of the three groups (and EventStore and SensorStatus in MCServerRecords)
share no variable. The MC modules are their disjoint sum: a variable `part` is chosen at the
start, one part moves, and the others stay in their initial states, so that one run checks each
part alone and no state is a product of two.

## 4. The runs

States are distinct states; all runs check for the bounds given in their cfg.

| Run | Question | Bounds | States |
|---|---|---|---|
| event_pipeline | Is any event lost, out of order, or copied without a cause? Is every event processed in the end? Is EventDelivery implemented? | 3 events, one refused; a buffer of 2; 1 broken connection, 1 restart | 169,000 |
| service_manager | Do registry, docker, netfilter and collector agree, and does the sensor converge? | 2 services of which one container name contains the other, 2 revisions, of each of which one service has a catch-all; 2 changes, each to one of three assignments, 1 crash, 1 failing call, 1 restart | 1,350,000 |
| task_processing | What becomes of rows and messages? | a user's and a system task, 2 workers, 1 retry, 2 faults of any kind | 396,000 |
| config_sync | Do memory, files, archive and interface agree, and does the sensor follow? | 2 edits, 1 fault; 3 client credentials of which two share a certificate | 1,450,000 |
| state_sync | Does the page miss a change? | 2 writers, 2 polls, 3 seconds, 2 changes, pages of 1 | 2,070,000 |
| server_records | Does an event vanish, or end up twice? Do filters count? Is what is closed archived? Is a sensor that polls online? | 2 sensors, 2 events, 2 requests beside the caretaker, 3 requests in all, 1 failure; 2 checkers, 2 faults, a log of 2, clocks 1 tick apart | 133,000 |
| web_session | Is the application kept up to date, by one loop, with the data of its user? | 2 users of whom one must change the password, 2 requests, 2 log-ins per page | 698,000 |
| web_pages | Is a view left behind, a result lost, a request other than what was shown? Can sensors get what they are told to install and run? | 4 views, 2 closing animations at a time; one export, upload and mail; 2 events on pages of 1, 2 fetches; 2 pages with 3 clicks and 1 fault on 2 firmware archives, and on 2 services with 2 revisions | 471,000 |
| web_forms | Do forms ask for what is needed, and change only what was changed in them? | 2 users, 2 divisions, 3 clicks, 2 requests; a sensor with 2 services, 2 forms with 3 edits in all, one file that can be read and one that cannot, one field whose pattern is loose; filters with up to 2 conditions | 1,411,000 |
| is_online_race, event_not_announced, filter_condition_braces | section 9 | as above, or less | - |

Why the bounds are enough to be of interest:

 - A buffer of 2 with 3 events overflows; a snapshot is overwritten only if the buffer
   turns over, which 3 events do; one broken connection separates a retry from what was
   stored; one refused event blocks two others.
 - Two services and one more address than containers let a container come back with
   another address, and one name contain another. One crash and one failing call at any
   point, combined with a restart, reach each except block of services.py. The three assignments
   add the service whose name is part of the other's to that, remove it while the other stays, and
   replace it while the other is removed; so its destroy() may fail with the other's container
   already gone, and what it leaves is met by a later start(). What a start() finds compatible
   before it destroys it (`Found`) takes a third service, which only the proofs cover.
 - Two workers and one repeated delivery make two processes work on one row; a second
   fault meets the except block of the first.
 - Two edits let each mode follow each other one, with credentials left out, while the
   update of the first is still being applied; the fault may hit any statement of it.
 - Two checkers are what supervisord runs for that queue; with a log of 2 the
   reduction is at work from the third report on.
 - Two requests and the caretaker are three that select the same event; with three requests
   one edits, one archives, and one reports or removes the sensor. Two events separate
   what is archived from what is not when a request fails in its loop.
 - Two polls are what the interface can have under way; three seconds separate
   "before", "in" and "after" the second of an answer.
 - Two requests of a page are a poll and one that overtakes it; the log-in of a second user
   on the same page is what brings foreign data, and two log-ins at once are a double click.
 - Four views are one that is shown, one that slides out, one that waits, and one that
   replaces it there. Pages of one event make each removal a removal of a page.
 - Two pages with three clicks let one replace the default while the other, with older
   details, removes what it was or has become; two services that have revision strings in
   common are what makes a default that is another service's.
 - Two requests of forms let the later one be served first; three clicks are two forms and
   a change by somebody else between them.

Deadlock is checked where the system must go on (state_sync, whose polls always can, and
web_session, whose counters and links can). The other systems stop when their bounded
inputs are used up: there CHECK_DEADLOCK is off, and the liveness properties say that they
did not stop early.

What the runs show: in event_pipeline no failure of a submission loses an event,
and a full buffer overwrites only after a submission failed or was impossible. In
service_manager no container runs unmanaged whatever call fails, and the sensor
converges, except for two states that Converges names: a dead thread, and a container
object whose container somebody else removed (`Stuck`). In task_processing DONE always
has a result, although messages come twice and connections break. In config_sync what is
set up agrees with memory and archive whenever no write failed, and WorkerSurvives
shows the only two causes of a dead state worker. In state_sync the page fetches each
change, except for those by three mechanisms, each of which the run reaches.

In server_records no event vanishes, whoever archives it at the same time and whatever
fails; it is in one place, with the status it was given last, unless two had selected it at
once or an archiving failed and may be repeated (`raced`). A sensor that polls is online in the
end although checkers add stale TIMEOUTs, and "online since" starts after the time-out
that it ends.

In web_session what is shown beyond the log-in keeps itself up to date or says that it
cannot, and an expired session is noticed. In web_pages no view stays behind, the result of an
export is lost only to the user who removed it or to a poll that failed, what is sent is
what was shown if the list had settled, and default revisions of firmware and services have
their file or image, unless requests for the same revision overlapped or something failed
between the two stores. In web_forms contacts are members, passwords are
asked for, forms lack no credential, and what a form or check box does not
change stays, each but for the cases that the property names.

Invariants with an escape (`unless ...`, or history variables such as `hasty`, `raced`,
`stray`) name a weakness of the code that the model reaches; each escape is a hazard in
PROJECT.json at its line, whose note says which case is excused: there the property shows that
nothing else goes wrong, and not that the hazard cannot bite.

Type invariants are proved where a proof module exists (section 6); TLC has checked the
others (TypeOK of each module), and the runs spend their time on what could be wrong.

## 5. Fairness

 - event_pipeline: threads run (weak fairness of each step), polls succeed now and then
   (PollOk), the server answers. A successful poll stays fresh for the polling interval,
   minutes, while the processor comes around every second, so it cannot miss every
   fresh period: strong fairness of the three steps that lead to a submission. No
   fairness of failures, arrivals, expiry or restarts.
 - service_manager: the state worker's and the collector's loops run. The polling thread
   delivers the current configuration again and again. No fairness of failures or edits.
 - task_processing: workers and requests run, workers take messages, the database
   comes back. Each worker has fairness of its own: they are processes.
 - config_sync: the polling thread (armed by a timer), the state worker, and the
   restart of the process (docker's restart policy, or the init system).
 - server_records: for the sensor, time passes, polls and checkers come to an end (celery beat
   starts the checker every minute); nobody has to start a sensor. For the events,
   requests come to an end, days pass, celery beat starts the caretaker every night;
   nobody has to report, edit or archive anything. The sum states the fairness of both
   parts for the part that moves.
 - web_session: the server answers each request, or its failure is noticed, and the page
   handles each answer. A counter is an interval timer of the browser: it runs down while
   other requests are under way. In the model it needs a free request, which a bound
   limits, and others may take each one first; hence strong fairness. Users have to do nothing.
 - web_pages: workers get to each task and end it, the timer of waitForTask() fires, and its
   requests are answered or fail. Users have to do nothing. The other four parts have safety only.
 - state_sync and web_forms have safety and action properties only.

## 6. What is proved

Eight modules hold proofs. Each theorem is for any sets, any number of requests, threads,
edits and faults, from the assumptions that the module itself declares; none depends on
fairness, and no other theorem is assumed but those of the library (sequences, finite
sets). The leaves were proved by an SMT solver and Zenon, the temporal steps by LS4.

| Theorem | Property | Module |
|---|---|---|
| `TypeCorrect` | TypeOK: above all, the ring buffer never exceeds its capacity | EventPipelineProofs |
| `NothingLost` | EventsAccountedFor | EventPipelineProofs |
| `ImplementsDelivery` | DeliverySpec: every step is a step of EventDelivery or stutters | EventPipelineProofs |
| `SurplusCopies` | SurplusNeedsFault | EventPipelineProofs |
| `OverwritesAfterFailure` | FullOnlyAfterFailure | EventPipelineProofs |
| `BatchesLeaveNoGaps` | NoGaps | EventPipelineProofs |
| `ResultsOfDone` | DoneHasResult | ServerProofs |
| `ScheduledOnes` | ScheduledIsQueued | ServerProofs |
| `NoResultIsLost` | ResultsAreKept | PageStateProofs |
| `WhatIsShownIsSent` | SentAsShown | PageStateProofs |
| `FirmwareIsThere` | FirmwareHasFile | ServerProofs |
| `DefaultIsThere` | DefaultCanBePulled | ServerProofs |
| `NothingDrifts` | NoDrift | ConfigSyncProofs |
| `ArchiveIsCurrent` | RestartResumes | ConfigSyncProofs |
| `ArchivesApply` | ArchiveApplies | ConfigSyncProofs |
| `WorkerLives` | WorkerSurvives | ConfigSyncProofs |
| `UpdatesGetThrough` | UpdatesAreSeen | PageStateProofs |
| `NothingIsLost` | NothingVanishes | ServerRecordsProofs |
| `CounterIsRight` | CounterCounts | ServerRecordsProofs |
| `NoneIsTwice` | InOnePlace | ServerRecordsProofs |
| `SinceStartsAnew` | SinceStartsAfterTimeout | ServerRecordsProofs |
| `NoneEscapes` | ManagedContainers | ServiceManagerProofs |
| `RulesLeadSomewhere` | NoStaleRules | ServiceManagerProofs |
| `NoViewIsLeft` | NothingIsLeft | WebSessionProofs |
| `ContactsStayMembers` | ContactsAreMembers | AccountsProofs |
| `PasswordsAreNotMissed` | PasswordsAreAsked | AccountsProofs |
| `NobodyIsDropped` | MembersStay | AccountsProofs |
| `FormsLackNothing` | NothingIsMissing | PageStateProofs |
| `NoOtherIsAssigned` | OthersStayAssigned | PageStateProofs |
| `ConditionsAreStored` | StoredAsSent | ServerRecordsProofs |
| `AppStaysUpdated` | AppIsUpdated | WebSessionProofs |
| `NoSecondLoop` | OneLoop | WebSessionProofs |
| `NoOthersData` | OwnData | WebSessionProofs |

Type correctness is proved of each of these modules too, as a theorem or as part of the
invariant (of SensorStatus without the bounds that TypeOK gives for ages). ViewRegions has its
proofs in WebSessionProofs, which extends both modules of the page, ServerProofs extends both
TaskProcessing and Inventory, ServerRecordsProofs EventStore, SensorRecords and FilterRecords,
and PageStateProofs StateSync, ListViews and SensorViews.

### The pipeline

EventsAccountedFor is not inductive: ReplyOk removes the snapshot's length from the
front of the buffer, which is right only if the snapshot still is that front and all
of it was processed. So the invariant IInv adds

 - `Snapshot`: while a request is under way the snapshot is the whole buffer, and once
   the server has answered every event of it was processed;
 - `OnePlace`: no event is twice in the two queues. Overwriting one would otherwise drop
   an event that is still there, and removing one forget a copy;
 - `Known`: what the queues and `dropped` hold was collected, and nothing is both held and
   dropped.

Steps that only move a thread are one case (`Quiet`); every other action has a lemma. The
refinement uses IInv at each step: Phase is a function of the four variables the mapping
reads, each action changes the phase of the events it moves, and CreateEventLate delivers
events that were collected (TypeOK and Known). SurplusNeedsFault needs
`CopiesBounded`, which counts the copies of an event that were or may still be stored:
those committed, those in requests that are late, and the one under way. Each fault
allows one more; finite cardinalities come from FiniteSetTheorems.

FullOnlyAfterFailure follows from `FullInv`, which says at each place of the processor's
loop what a full buffer there means: before the first is_online() the processor comes from
a submission that was impossible or failed. NoGaps follows from `OrderInv`: what was collected
is, in this order, what is gone, the ring buffer and the queue (`Cut`, whose lemmas say how the
three parts change when an event joins, moves on or is dropped); what is gone is committed
or dropped; and every batch that the server may still handle leaves no gap when it does.

### Services

ManagedContainers and NoStaleRules are read off one invariant, `Position` and `Registry`.
`EntryKept` says that each container has an entry in the registry, which need not refer to it:
destroy() resets the reference of its service with the first container that it removes, and may
fail at that of the service itself afterwards. `RefTrue` says that an object which is not stale
shows the image its container runs. The second is needed where start() decides by its object whether a container may
stay, and both need `CurrentKnown` and `PendingAssigned`: the loop over the assigned services is
at a service that is in the registry and assigned, although containers are destroyed under it
by the names of others. `RulesOfTarget` ties the rules to `catchall_target`: unless it is
forgotten, a rule is that of the target, the target runs, the registry refers to its container,
and its address is that of the rule; this is what stop() and disable_catchall_for() rely on. For
each way in which destroy() ends, `EntriesAfter` says what it has done to the entries, and one
lemma (`GoneTogether`) shows that this goes with the containers that it has removed.

### Tasks

DONE is written by the process that has stored the result and still holds the task. IInv
(`StoredBeforeDone`, `ClaimedIsNotScheduled`, `ConnectionsHold`, `RowsComeFirst`) says
what each place of perform_task() may rely on: which of the statements behind it reached
the database, and that a status SCHEDULED means that no process has gone past its
claim. ScheduledIsQueued follows: while no process ended early and no connection broke, a message of a
scheduled task is at the broker, or about to be sent by the request that wrote the row, or held by
a worker that has not claimed the task yet, or that will send it again.

### Firmware, services and images

Both properties excuse what overlapping or unfinished requests have `harmed`, and the proofs show
that nothing else goes wrong. For FirmwareHasFile, `FirmwareInv` says of each request what it still
relies on: the file of every revision is there, or a request is about to put it there or to
remove the revision (`RowsHaveFiles`); an upload waits for the one request that took it
(`UploadsWait`); and a revision whose file goes is not the default, is named by no other request, and
is the choice of no sensor that the request will not reset (`RemovedAlone`), because Removable()
was asked in the same step as the request began, and whatever asks for the revision later harms it.

DefaultCanBePulled needs more, because images are named by the name of a service, and defaults
and requests by strings. `NamesOnce` and `CreatedOnce` say that no two services have one name,
and that what a request is about to create neither exists nor is removed or created
meanwhile; `RevisionsOnce` that a row is the only one of its revision, also in what a
removal has read before. `DefaultsThere` and `DefaultsStay` say that a default, and what a request
will make the default, exists, and that a revision which is removed by itself is neither.
`RevisionsHaveImages` follows an image: it is in the registry, or a task will put it there,
or a request is about to enqueue that task or to remove the row. Untagging is the hard step: it takes
the image from under every row of that name and revision, and RevisionsOnce says that there is one.
InventoryAssumption says that the id which stands for nothing is no number, and that an archive
is of a service and a revision.

### Configuration

The difficulty is that an answer leaves out certificates that the sensor is known to have,
while the configuration changes on its way. `AnswerOK` says that an answer brings the client's
credentials or that the sensor holds those it was computed for, because only the polling
thread changes them and it is waiting; `Sound` that what is in memory is in the files;
`ArchiveOK` and `Resumes` that the archive is what memory and files are between two successful
updates; `Flagged`, `WorkerWaits` and `WorkerOK` that a change which is not yet set up is on its
way: it is in the queue, or read by the state worker, or in an update that will queue it.
The four properties are read off their conjunction.

### State of the page

A change is seen if its stamp is later than the timestamp that the page will send with its
next poll. The invariant follows a timestamp from the clock through the poll's
queries to the answer and the page: what a poll has read by then it will show (`AllIsRead`,
`ReadIsFine`), what it has not read has a stamp that the next poll asks for, unless the
change is excused (`unnoticed`): it set no stamp, or one of an earlier second, or an answer was
overtaken. `InThePast` bounds all timestamps by the clock.

### Lists and their dialogs

ResultsAreKept follows from `TasksInv`: a removal by hand that is under way is known to be one, and
an export is only forgotten by a dialog that was told that it failed: then it has, or a
poll for it has, and a failed export never becomes a result. For that, who waits for a task has
started it, and nothing but an upload becomes a task that fills the registry.
ListAssumption says that exports are neither uploads nor mails nor such tasks.

SentAsShown needs to know which table the rows are of. `LatestAsked` says that if any of the
answers that are to come is in time, then the last one is, and it answers the present question:
asking always appends, and each answer makes those before it late. Hence `Settled`: with no answer
to come but late ones, and the list not lagging behind, the rows are of the chosen table; the
lemma behind both is about the sequence that an answer is taken out of (`Taken`). `DialogFits`
carries this from the moment when a dialog opens to the request that it sends.

### Event store

NothingVanishes is inductive only with what the requests remember: what a request has
archived is safe (an event that still has its details has them in the archive, or was
discarded), and it deletes details and events only when it has archived all that it selected
(`RequestsOK`); what the caretaker takes for incomplete is incomplete (`CaretakerOK`). The step
property `Keeps` is proved for each action. CounterCounts needs `CountInv`: as long as no two
requests counted up at the same time, the counter and the one request that has read it account
for every suppressed event.

InOnePlace needs to know who works on an event. `PlaceInv` says of each event that was
not selected by two at once: who has it selected has it alone, unless all who do edit it or
all remove everything (`Alone`); its copies are one, with the status given last (`Fits`); if it is
in the table and has a copy, a request is between archiving and removing it (`Placed`,
`Halfway`); and who is about to archive it read the status that it still has and finds no copy
(`Prepared`, `Ready`). A lemma for each kind of step shows that it moves this along: one that
touches no event, one that selects, one that lets go, one that removes.

### Sensor status

SinceStartsAfterTimeout is about pairs of reports, in the order in which they were stored, and
timeouts by their age, while the log is read and reduced by age. `LogFits` puts it in the terms
of the second order (`Before`): of two reports in the log of which the later one starts anew, the
earlier one comes after a timeout in that order which is not younger than the later one.
`PollFits` says the same of a report that is about to be written and the reports that it leaves,
and that what it will remove is closed: with an entry go all reports that are
older (`RanksGrow`, so ToRemove() is such a set). Hence no timeout is removed without the
reports that it ended, whatever the checkers added between reading and writing. When
a report is accepted, it is not older than the last entry, which comes before all others
(`LastIsFirst`): if that is a timeout, it is the one. Time changes no order (`GrowsInOrder`).
The lemmas about ranks, and about what is left of a log in the order of the ids (`NthInOrder`,
`WhatIsLeft`), rest on one about counting: as many numbers as there are places, all of them
different, are all the places (`AllNumbers`). SensorRecords assumes that the intervals are numbers.

### The page and its forms

NothingIsLeft is inductive with TypeOK alone. AppIsUpdated is inductive with TypeOK, because
every operator on a page either shows no application, starts a counter, or keeps what kept
the former page up to date (`Keeps`), and no answer ends the poll that goes on with the loop
without doing the same (`LoopGoesOn`). OneLoop and OwnData follow from `LoopInv`. Its parts are
what a page does before it is ready (`Loading`), that a log-in which was accepted was that
of a user (`Named`), and, unless `stray`: at the log-in form nothing of a loop is left, a log-in or
the state request after it is the only one, and then one counter or one request
goes on with the loop (`Loops`); from the answer to the log-in on, the session is that of the user
whom the page shows, and so is every answer under way that could fill its models (`Own`).

ContactsAreMembers needs that a form's contact is one
of its members (`FormContact`) and that requests under way say the same (`AskedContacts`),
since the server checks neither. PasswordsAreAsked needs `PasswordInv`: unless `hasty`, there
is one request of a user's form at most, and while such a form can still be sent the list tells
the kind of each account, so that a form which asks for no password is for an account that
has one. MembersStay is an action property; its invariant `MembersInv` follows a member from the
server to the request that may drop him. Whoever is a member and was neither removed nor added
by somebody else (`Stays`) is in the list of the page, in the form that was made of it and in the
request that was made of the form (`Keeps`), provided that the page knows him: `MembersKnown`
says that whom it does not know was added by somebody else, and `Accounted` that ids are given
once, so that a new user is in no older list. `OneAtATime` excludes that an older form is served
after a newer one. Most steps are `Calm`: nobody stays after them who did not before. The
assumption of Accounts says that None is neither a division nor what the page holds of a user.

The two properties of SensorForm follow from `FormsInv`. Unless somebody else has changed the
sensor, every model that the page has had, however old, and every request under way differ from
the server only in services whose check box was clicked (`ServicesAgree`): so it does not matter
in which order they are served, and OthersStayAssigned holds though each sends all services.
NothingIsMissing needs that the server keeps the credentials which the mode of the sensor uses and
no others (`CredentialsFit`), that a form shows a file only if it was attached, and a fingerprint
only while nothing was (`ShownFits`), and, while nobody interferes, that one request is under way
at most and the model of an open form has the mode that the server has (`Undisturbed`); then a
form that asks for no password or file is one whose sensor has them. The services of the models
may be old there, even the last one's, since an update may overtake a check box; only the mode and
the certificate are not. What is in the files and fields does not matter: a request that is
refused for them stores nothing, and the form's model is that of the server again. SensorAssumption
says that a fingerprint is not a file, and that no file is an empty field.

StoredAsSent compares what an update sends with what becomes of it, position by position, though
the one may have been read long before the other was stored. `FilterInv` says why they fit: ids
are given in ascending order, so that the conditions of a filter ascend at the server, in the
list, in forms and in requests, those without an id come last (`Ascending`), and no id is known
that was not given (`Given`); editing, removing and adding conditions keeps this, whoever does it.
If all ids that were sent are stored, those that stay are therefore the first ones that were
sent, in the same order (`KeptAsSent`), and what was added follows (`WhatIsAdded`): two parts of
two sequences are equal because places that ascend and are all there are the places that counting
finds (`PlacesInOrder`). FiltersAssumption says that fields can be listed, that some are typed in,
and that no id is not a number.

## 7. What is only model-checked

 - All liveness properties (EventuallyProcessed, Converges of both modules,
   MessagesLeadToAnEnd, BackOnline, ClosedIsArchived, LossIsNoticed, ExportsArrive):
   liveness under fairness is out of this prover's reach.

Every safety and action property of the runs that TLC finds to hold is a theorem as well.

## 8. What is not modelled, and why

 - ServiceManager: raw network mode; the content of images; the addresses of catch-all
   services other than the latest one, which enable_catchall() overwrites; a container object
   without an address in disable_catchall_for(), which takes three names that contain each
   other.
 - ConfigSync: proxy and MAC parameters, which travel like the modelled ones;
   802.1X identities, which travel like passwords; the configuration updater, which
   does nothing to a configuration of the current version; a server certificate that the
   sensor has in full is taken to be accepted by it; commands for time and firmware.
 - EventPipeline: what is in an event; the filters of a division, which count an event
   instead of storing it (both are "processed").
 - TaskProcessing: what a handler does, but for its returning or raising.
 - SensorStatus: the status UPDATING, which is treated as any report; the mails; the
   insertion and the reduction of a poll, two flushes, are one action.
 - EventStore: comments, which follow statuses; conditions of filters (they match or not);
   more than one filter and division; the archived copies of deleted divisions; statuses
   other than open and closed; details and packets one by one.
 - StateSync: the row lock on last_updates, which delays a writer and changes
   nothing else; the division filter of queries; sessions are PHP's default files.
 - WebSession: other tabs of the browser; requests that are under way when the page is
   loaded anew, which nobody listens to; the `update` flag of the system, which the server
   never sets; the address of the setup typed by a user who is logged in; refusals of requests
   other than those modelled.
 - ViewRegions: what views do inside.
 - TaskDialogs: chunks of uploads, which end in the upload that the model starts with; the
   contents of mails.
 - EventBrowser: filters other than source and status, which are sent the same way; sorting;
   the details of an event.
 - FirmwareStore: more than one platform, and descriptions; the default of a new sensor is
   that of the platform.
 - ServiceRegistry: more than one architecture (the images of a revision come and go one after
   the other); two images with the same digest, which removeTag() would remove together; the
   status that the details show of each image, by which nothing is decided; labels.
 - Accounts: names, mail addresses and their duplicates, which are refusals (`Fails`); contacts
   by mail address; a user who removes himself; what goes with a deleted division (its sensors,
   whose removal is in EventStore).
 - SensorForm: the network modes, proxy and service network, which are sections that can be switched
   on (`Kept`, `Cleared`); the button that asks for a configuration archive, which is a task;
   identities, which follow passwords; the links to firmware images. A passphrase is part of
   the file of its key; what else a field may hold is whether the server takes it. References
   to divisions and firmware that are gone, which the server refuses as well, have no variable. The
   fetch after a refusal is part of it.
 - FilterForm: names and descriptions; the setting that makes a description necessary.
 - Views that show a model or save single values: the dashboard, the log, the details of an event,
   the settings, the list of tasks.
 - Whole components: those PROJECT.json lists as not_modelled, with their reasons: third-party
   honeypots and libraries, scripts, and parts that section 2 leaves for later.

## 9. Disagreements

Three runs each check one statement that the code, or a comment in it, makes, and end in
a counterexample. PROJECT.json, "findings", quotes the lines.

| Run | What happens |
|---|---|
| is_online_race | is_online() reads the time of the last poll twice; trigger_conn_error() of another thread sets it to None in between; the TypeError ends the event processor, which calls is_online() outside its try block |
| event_not_announced | an event stored between the two queries of a poll is never announced |
| filter_condition_braces | an update of a filter gives each stored condition the type and value of the last one, as the body of an `if` has lost its braces (`API/services/EventFiltersService.php:159-167`) |

More are part of the models, where a property excuses them by name or leaves them out:

 - starting or removing service 1 destroys the container of service 12, because containers
   are looked up by a part of their name (`SM/services.py:119`, `:193`);
 - the form of a sensor lets through addresses that match the pattern of their field and no more
   (`FE/modules/sensors/templates/SensorEdit.tpl:55`), and files of any content, which the server
   refuses (`API/controllers/Sensors.php:161-187`, `API/services/SensorsService.php:430-463`):
   NothingIsMissing is about credentials that are missing;
 - a worker that has seen the schema once drops a task when the database is away, instead of
   scheduling it again (`TP/tasks.py:57-58`, `:113`);
 - a client key that is replaced under the same certificate never reaches the sensor, its new
   passphrase does (`API/services/SensorsService.php:392`); Converges leaves the key out;
 - a filter does not count an event when another sensor of its division reports at the same time
   (EventFilter.php says that events that match "increase the filter event count";
   CounterCounts excuses `overlapped`);
 - a catch-all container that stops by itself and comes back with another address stays behind the
   netfilter rule of the old one (NoStaleRules excuses what is `forgotten`);
 - a page that finds its session expired while it logs out loads itself again and again
   (`FE/controller.js:61-62`, `:234-235`);
 - the dialog that removes a page of events holds the list itself: it removes what is listed
   when it is confirmed, while it goes on to name the number of events it was opened with
   ("Should the selected {{- count}} events really be removed?", `assets/i18n/en/events.json:48`),
   and after a change of the source a quick selection names archived events by the ids of
   live ones (`FE/modules/events/module.js:179-203`; SentAsShown excuses `hasty`);
 - the file of a firmware revision is removed before the request that removes the row is
   flushed, and the database refuses the row if a sensor or the default has come to use it
   (`API/services/PlatformsService.php`; FirmwareHasFile excuses `harmed`);
 - a service takes any revision string as its default that some service has
   (`API/services/SensorServicesService.php:156-159`), and the images of a revision are removed
   before its rows (DefaultCanBePulled excuses `harmed`);
 - a second click on its button, before the first answer, removes the page before the last one,
   to which the pager has been turned (the same lines);
 - a membership that another administrator adds is not told to the page, whose form takes it
   back when it is saved (`API/services/DivisionsService.php`; MembersStay excuses `added`);
 - a check box of a service sends the fingerprint of the CA certificate as if it were the
   certificate, and is refused for sensors that have one
   (`FE/modules/sensors/views/SensorList.js:122-136`);
 - a new certificate without its key, or a key without its certificate, is not sent at all
   (`FE/modules/sensors/views/SensorEdit.js:261-268`).
