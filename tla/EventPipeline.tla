--------------------------- MODULE EventPipeline ---------------------------
(***************************************************************************)
(* The way of an event from a honeypot service to the server's database:   *)
(*                                                                         *)
(*   service --ZMQ--> Collector --event_queue--> EventProcessor            *)
(*                                                    | ring buffer        *)
(*                          POST api/events           v                    *)
(*   database <-- EventsService::createEvent <-- submit_events()           *)
(*                                                                         *)
(* and the polling thread, whose last result decides through is_online()   *)
(* whether events are submitted at all.  The collector, the event          *)
(* processor and the polling worker are threads of the sensor manager;     *)
(* each action is what one of them does between two points where another   *)
(* thread, or the server, can be observed.                                 *)
(***************************************************************************)
EXTENDS Naturals, Sequences, Functions

CONSTANTS
    Events,        \* the events the services report, all different
    Rejected,      \* events createEvent() refuses: a batch with one is not stored
    Capacity,      \* EVENT_CACHE_LENGTH
    HasLed,        \* the platform refreshes a status LED from its hooks (BeagleBone)
    MaxFaults,     \* bound: submissions whose connection breaks
    MaxRestarts    \* bound: restarts of the manager

ASSUME PipelineAssumption ==
    /\ Rejected \subseteq Events
    /\ Capacity \in Nat \ {0}
    /\ HasLed \in BOOLEAN
    /\ MaxFaults \in Nat
    /\ MaxRestarts \in Nat

VARIABLES
    event_queue,           \* Manager.event_queue, from collector to processor
    events,                \* EventProcessor.events, the ring buffer
    send_cand,             \* the snapshot that submit_events() sends
    processor,             \* where the event processor thread is
    poller,                \* where the polling worker is
    last_successful_poll,  \* "none" | "fresh" | "stale": None, or within the interval or not
    late,                  \* requests the sensor gave up on and the server may still get
    committed,             \* how often createEvent() has committed each event
    faults,                \* broken submissions so far
    restarts,              \* restarts of the manager so far
    collected,             \* history: every event the collector took over, in order
    dropped,               \* history: events overwritten in the ring buffer or lost at a restart
    outcome                \* history: how the last submit_events() ended

sensorVars == <<event_queue, events, send_cand, processor, poller, last_successful_poll>>
serverVars == <<late, committed>>
boundVars  == <<faults, restarts>>
historyVars == <<collected, dropped, outcome>>
vars == <<sensorVars, serverVars, boundVars, historyVars>>

\* The processor is `off` until polling.start() returns, then loops in `get`;
\* `submit` is the entry of submit_events(), `checked` lies between the two
\* reads of is_online(), `sending` and `replied` inside the HTTPS request, and
\* `led` between the two reads of the is_online() that the LED hook calls.
ProcessorStates == {"off", "get", "submit", "checked", "sending", "replied", "hook", "led", "dead"}

\* `wait`: the timer is armed; `hook` and `led`: inside the ON_POLL hook of the
\* LED, before and between the two reads of is_online().
PollerStates == {"wait", "hook", "led", "dead"}

Outcomes == {"none", "offline", "failed", "sent"}

TypeOK ==
    /\ event_queue \in Seq(Events)
    /\ events \in Seq(Events) /\ Len(events) <= Capacity
    /\ send_cand \in Seq(Events)
    /\ processor \in ProcessorStates
    /\ poller \in PollerStates
    /\ last_successful_poll \in {"none", "fresh", "stale"}
    /\ late \subseteq [id : 1..(MaxFaults + MaxRestarts), batch : Seq(Events)]
    /\ committed \in [Events -> Nat]
    /\ faults \in 0..MaxFaults
    /\ restarts \in 0..MaxRestarts
    /\ collected \in Seq(Events)
    /\ dropped \subseteq Events
    /\ outcome \in Outcomes

Init ==
    /\ event_queue = <<>> /\ events = <<>> /\ send_cand = <<>>
    /\ processor = "off" /\ poller = "wait"
    /\ last_successful_poll = "none"
    /\ late = {}
    /\ committed = [e \in Events |-> 0]
    /\ faults = 0 /\ restarts = 0
    /\ collected = <<>> /\ dropped = {} /\ outcome = "none"

-----------------------------------------------------------------------------
(* The collector thread *)

\* Collector.run(): an event of a service is received, enqueued for the
\* processor and acknowledged.  Manager.start() starts it after the processor.
Receive(e) ==
    /\ processor # "off"
    /\ e \notin Range(collected)
    /\ event_queue' = Append(event_queue, e)
    /\ collected' = Append(collected, e)
    /\ UNCHANGED <<events, send_cand, processor, poller, last_successful_poll,
                   serverVars, boundVars, dropped, outcome>>

-----------------------------------------------------------------------------
(* The polling worker thread *)

\* Manager.start(): the first worker() runs in the main thread, which starts the
\* event processor when it returns.
Started == IF processor = "off" THEN "get" ELSE processor

\* worker() up to the ON_POLL hook: a poll succeeds and its time is noted.
PollOk ==
    /\ poller = "wait"
    /\ last_successful_poll' = "fresh"
    /\ IF HasLed THEN poller' = "hook" /\ UNCHANGED processor
                 ELSE poller' = "wait" /\ processor' = Started
    /\ UNCHANGED <<event_queue, events, send_cand, serverVars, boundVars, historyVars>>

\* worker() with a failing poll: trigger_conn_error().  The LED hooks that
\* follow find no last poll, and only this thread could set one.
PollFail ==
    /\ poller = "wait"
    /\ last_successful_poll' = "none"
    /\ processor' = Started
    /\ UNCHANGED <<event_queue, events, send_cand, poller, serverVars, boundVars, historyVars>>

\* refresh_led_status() in the ON_POLL hook, the first read of is_online().
PollLedCheck ==
    /\ poller = "hook"
    /\ poller' = IF last_successful_poll = "none" THEN "wait" ELSE "led"
    /\ UNCHANGED <<event_queue, events, send_cand, processor, last_successful_poll,
                   serverVars, boundVars, historyVars>>

\* The second read: subtracting None raises a TypeError that nothing on the
\* worker's stack catches, so the timer is not armed again.
PollLedAge ==
    /\ poller = "led"
    /\ poller' = IF last_successful_poll = "none" THEN "dead" ELSE "wait"
    /\ processor' = Started
    /\ UNCHANGED <<event_queue, events, send_cand, last_successful_poll,
                   serverVars, boundVars, historyVars>>

\* The polling interval passes without another successful poll.
Expire ==
    /\ last_successful_poll = "fresh"
    /\ last_successful_poll' = "stale"
    /\ UNCHANGED <<event_queue, events, send_cand, processor, poller,
                   serverVars, boundVars, historyVars>>

-----------------------------------------------------------------------------
(* The event processor thread *)

\* deque.append() on a deque with maxlen: a full one loses its first element.
Push(buffer, e) ==
    IF Len(buffer) = Capacity THEN Append(Tail(buffer), e) ELSE Append(buffer, e)

Overwritten(buffer) == IF Len(buffer) = Capacity THEN {Head(buffer)} ELSE {}

\* Mutant: a full buffer waits for the queue to run empty.
TakeEventNoSubmit ==
    /\ processor = "get"
    /\ event_queue # <<>>
    /\ LET e == Head(event_queue) IN
         /\ event_queue' = Tail(event_queue)
         /\ events' = Push(events, e)
         /\ dropped' = dropped \cup Overwritten(events)
    /\ UNCHANGED <<send_cand, processor, poller, last_successful_poll, serverVars, boundVars,
                   collected, outcome>>

\* Mutant: a queue that hands out the newest event first.
TakeEventNewest ==
    /\ processor = "get"
    /\ event_queue # <<>>
    /\ LET e == event_queue[Len(event_queue)] IN
         /\ event_queue' = SubSeq(event_queue, 1, Len(event_queue) - 1)
         /\ events' = Push(events, e)
         /\ dropped' = dropped \cup Overwritten(events)
         /\ processor' = IF Len(Push(events, e)) = Capacity THEN "submit" ELSE "get"
    /\ UNCHANGED <<send_cand, poller, last_successful_poll, serverVars, boundVars,
                   collected, outcome>>

\* run(): the next queued event moves to the ring buffer; a full buffer is
\* submitted at once.
TakeEvent ==
    /\ processor = "get"
    /\ event_queue # <<>>
    /\ LET e == Head(event_queue) IN
         /\ event_queue' = Tail(event_queue)
         /\ events' = Push(events, e)
         /\ dropped' = dropped \cup Overwritten(events)
         /\ processor' = IF Len(Push(events, e)) = Capacity THEN "submit" ELSE "get"
    /\ UNCHANGED <<send_cand, poller, last_successful_poll, serverVars, boundVars,
                   collected, outcome>>

\* Mutant: submission only when the buffer is full.
QueueEmptyContinue ==
    /\ processor = "get"
    /\ event_queue = <<>>
    /\ UNCHANGED vars

\* run(): nothing queued for a second.
QueueEmpty ==
    /\ processor = "get"
    /\ event_queue = <<>>
    /\ processor' = "submit"
    /\ UNCHANGED <<event_queue, events, send_cand, poller, last_successful_poll,
                   serverVars, boundVars, historyVars>>

\* is_online(), the first read of _last_successful_poll.
IsOnlineCheck ==
    /\ processor = "submit"
    /\ IF last_successful_poll = "none"
         THEN processor' = "get" /\ outcome' = "offline"
         ELSE processor' = "checked" /\ UNCHANGED outcome
    /\ UNCHANGED <<event_queue, events, send_cand, poller, last_successful_poll,
                   serverVars, boundVars, collected, dropped>>

\* is_online(), the second read, when it lets the submission go ahead: the
\* whole ring buffer is copied and sent.
StartSend ==
    /\ processor = "checked"
    /\ last_successful_poll = "fresh"
    /\ events # <<>>
    /\ send_cand' = events
    /\ processor' = "sending"
    /\ UNCHANGED <<event_queue, events, poller, last_successful_poll, serverVars,
                   boundVars, historyVars>>

\* is_online(), the second read, otherwise: the last poll is too old, there is
\* nothing to send, or it has become None in between and the TypeError ends
\* the thread, since submit_events() calls is_online() outside its try block.
SkipSend ==
    /\ processor = "checked"
    /\ \/ /\ last_successful_poll = "none"
          /\ processor' = "dead" /\ UNCHANGED outcome
       \/ /\ last_successful_poll = "stale"
          /\ processor' = "get" /\ outcome' = "offline"
       \/ /\ last_successful_poll = "fresh" /\ events = <<>>
          /\ processor' = "get" /\ UNCHANGED outcome
    /\ UNCHANGED <<event_queue, events, send_cand, poller, last_successful_poll,
                   serverVars, boundVars, collected, dropped>>

\* Mutant: the handler falls through to the removal of the sent events.
ConnErrorFallsThrough ==
    /\ last_successful_poll' = "none"
    /\ events' = <<>>
    /\ send_cand' = <<>>
    /\ outcome' = "failed"
    /\ processor' = IF HasLed THEN "hook" ELSE "get"
    /\ UNCHANGED <<event_queue, poller, restarts, collected, dropped>>

\* submit_events() after an exception: trigger_conn_error(), whose LED hook
\* calls is_online() again.
ConnError ==
    /\ last_successful_poll' = "none"
    /\ send_cand' = <<>>
    /\ outcome' = "failed"
    /\ processor' = IF HasLed THEN "hook" ELSE "get"
    /\ UNCHANGED <<event_queue, events, poller, restarts, collected, dropped>>

\* The server refuses the batch: validateEvents() or the flush throws, nothing
\* is stored and the answer is an error.
Refused ==
    /\ processor = "sending"
    /\ Range(send_cand) \cap Rejected # {}
    /\ ConnError
    /\ UNCHANGED <<serverVars, faults>>

\* The connection breaks before the server has processed the request, which it
\* may still do.
RequestLost ==
    /\ processor = "sending"
    /\ faults < MaxFaults
    /\ faults' = faults + 1
    /\ late' = late \cup {[id |-> faults + 1, batch |-> send_cand]}
    /\ ConnError
    /\ UNCHANGED committed

\* The connection breaks after the server has committed the events.
ReplyLost ==
    /\ processor = "replied"
    /\ faults < MaxFaults
    /\ faults' = faults + 1
    /\ ConnError
    /\ UNCHANGED serverVars

\* Mutant: the last event of the snapshot stays in the buffer.
ReplyOkKeepsLast ==
    /\ processor = "replied"
    /\ events' = <<events[Len(events)]>>
    /\ send_cand' = <<>>
    /\ processor' = "get"
    /\ outcome' = "sent"
    /\ UNCHANGED <<event_queue, poller, last_successful_poll, serverVars, boundVars,
                   collected, dropped>>

\* Status 200: every event of the snapshot is removed from the ring buffer.
\* Nothing else changed it since, so the snapshot is its prefix.
ReplyOk ==
    /\ processor = "replied"
    /\ events' = [i \in 1..(Len(events) - Len(send_cand)) |-> events[i + Len(send_cand)]]
    /\ send_cand' = <<>>
    /\ processor' = "get"
    /\ outcome' = "sent"
    /\ UNCHANGED <<event_queue, poller, last_successful_poll, serverVars, boundVars,
                   collected, dropped>>

\* refresh_led_status() in the ON_CONN_ERROR hook, the first read.
ProcLedCheck ==
    /\ processor = "hook"
    /\ processor' = IF last_successful_poll = "none" THEN "get" ELSE "led"
    /\ UNCHANGED <<event_queue, events, send_cand, poller, last_successful_poll,
                   serverVars, boundVars, historyVars>>

\* The second read, again outside every try block.
ProcLedAge ==
    /\ processor = "led"
    /\ processor' = IF last_successful_poll = "none" THEN "dead" ELSE "get"
    /\ UNCHANGED <<event_queue, events, send_cand, poller, last_successful_poll,
                   serverVars, boundVars, historyVars>>

-----------------------------------------------------------------------------
(* The server *)

\* One flush stores the whole batch; an event that a filter of the division
\* matches is counted there instead, and is processed too.
Commit(batch) ==
    committed' = [e \in Events |-> IF e \in Range(batch) THEN committed[e] + 1
                                                         ELSE committed[e]]

\* Mutant: the server answers 200 although the flush threw.
CreateEventSwallows ==
    /\ processor = "sending"
    /\ IF Range(send_cand) \cap Rejected = {} THEN Commit(send_cand) ELSE UNCHANGED committed
    /\ processor' = "replied"
    /\ UNCHANGED <<event_queue, events, send_cand, poller, last_successful_poll, late,
                   boundVars, historyVars>>

\* EventsService::createEvent() on the request the sensor is waiting for: a
\* batch without a refused event is stored and answered with status 200.
CreateEvent ==
    /\ processor = "sending"
    /\ Range(send_cand) \cap Rejected = {}
    /\ Commit(send_cand)
    /\ processor' = "replied"
    /\ UNCHANGED <<event_queue, events, send_cand, poller, last_successful_poll, late,
                   boundVars, historyVars>>

\* A request of an earlier, broken connection is processed after all.
CreateEventLate(r) ==
    /\ late' = late \ {r}
    /\ IF Range(r.batch) \cap Rejected = {} THEN Commit(r.batch) ELSE UNCHANGED committed
    /\ UNCHANGED <<sensorVars, boundVars, historyVars>>

-----------------------------------------------------------------------------
(* Restarts *)

\* The manager stops, gracefully or not, and starts again: both queues are
\* memory of the process (shutdown() joins the threads without a last
\* submission).  The server may still process a request that was under way.
Restart ==
    /\ restarts < MaxRestarts
    /\ restarts' = restarts + 1
    /\ dropped' = dropped \cup Range(event_queue) \cup Range(events)
    /\ event_queue' = <<>> /\ events' = <<>> /\ send_cand' = <<>>
    /\ processor' = "off" /\ poller' = "wait"
    /\ last_successful_poll' = "none"
    /\ outcome' = "none"
    /\ late' = IF processor = "sending"
                 THEN late \cup {[id |-> MaxFaults + restarts + 1, batch |-> send_cand]}
                 ELSE late
    /\ UNCHANGED <<committed, faults, collected>>

-----------------------------------------------------------------------------
Processor == \/ TakeEvent \/ QueueEmpty \/ IsOnlineCheck \/ StartSend \/ SkipSend
             \/ Refused \/ ReplyOk \/ ProcLedCheck \/ ProcLedAge

Poller == PollOk \/ PollFail \/ PollLedCheck \/ PollLedAge

Network == RequestLost \/ ReplyLost

Server == CreateEvent \/ \E r \in late : CreateEventLate(r)

Next == \/ \E e \in Events : Receive(e)
        \/ Processor \/ Poller \/ Expire \/ Network \/ Server \/ Restart

Spec == Init /\ [][Next]_vars

(***************************************************************************)
(* Fairness.  The threads run; the server answers what reaches it; polls   *)
(* succeed now and then.  A successful poll stays fresh for the polling    *)
(* interval, minutes, while the processor comes around every second: it    *)
(* cannot miss every fresh period, hence strong fairness of the three      *)
(* steps that lead to a submission when they meet one.                     *)
(***************************************************************************)
Fresh == last_successful_poll = "fresh"

Fairness ==
    /\ WF_vars(TakeEvent) /\ WF_vars(QueueEmpty) /\ WF_vars(IsOnlineCheck)
    /\ WF_vars(SkipSend) /\ WF_vars(Refused) /\ WF_vars(ReplyOk)
    /\ WF_vars(ProcLedCheck) /\ WF_vars(ProcLedAge)
    /\ SF_vars(QueueEmpty /\ Fresh) /\ SF_vars(IsOnlineCheck /\ Fresh) /\ SF_vars(StartSend)
    /\ WF_vars(PollOk) /\ WF_vars(PollLedCheck) /\ WF_vars(PollLedAge)
    /\ WF_vars(CreateEvent)

FairSpec == Spec /\ Fairness

-----------------------------------------------------------------------------
(* Properties *)

Held == Range(event_queue) \cup Range(events)

\* An event a service handed over (collector.py) is in one of the two queues,
\* was processed by the server, or was dropped by a full buffer or a restart:
\* no failure of submit_events() loses one.
EventsAccountedFor ==
    \A e \in Range(collected) : e \in Held \/ e \in dropped \/ committed[e] > 0

\* The ring buffer is left full, so that the next event overwrites one, only
\* when the submission it triggered was impossible or failed
\* (event_processor.py: "If this fails, further events will overwrite").
FullOnlyAfterFailure ==
    Len(events) = Capacity /\ processor = "get" => outcome \in {"offline", "failed"}

\* Delivery is at least once, but every surplus copy on the server is paid for
\* by a broken connection: submissions are retried only after one.
SurplusNeedsFault == \A e \in Events : committed[e] <= 1 + faults

\* The server never processes an event while an older one of the same sensor
\* is still waiting for its first submission: batches leave no gaps.
NoGaps ==
    \A i, j \in DOMAIN collected :
        i < j /\ committed[collected[j]] > 0
            => committed[collected[i]] > 0 \/ collected[i] \in dropped

\* The sensor's loops end only with the manager: run() leaves its loop on
\* ev_stop, worker() always arms the next timer.
WorkersSurvive == processor # "dead" /\ poller # "dead"

\* An event the server refuses keeps the whole buffer from being stored.
HeldBack == Held \cap Rejected # {}

\* Every event taken over is processed in the end, unless it is dropped, an
\* event the server refuses holds the batch back, or a thread has died.
EventuallyProcessed ==
    \A e \in Events :
        e \in Held ~> (committed[e] > 0 \/ e \in dropped \/ HeldBack \/ ~WorkersSurvive)

\* The pipeline implements the promise of EventDelivery.
Phase(e) == IF e \in Held THEN "held"
            ELSE IF e \in dropped THEN "dropped"
            ELSE IF e \in Range(collected) THEN "released"
            ELSE "new"

Delivery == INSTANCE EventDelivery WITH phase <- [e \in Events |-> Phase(e)],
                                        deliveries <- committed

\* Every step of the sensor and the server is a step of EventDelivery: above
\* all, an event leaves the ring buffer only processed or dropped.
DeliverySpec == Delivery!Spec

=============================================================================
