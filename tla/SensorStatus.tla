---------------------------- MODULE SensorStatus ----------------------------
(***************************************************************************)
(* Which sensors are online.  A sensor reports its status at every poll;   *)
(* the server appends it to the sensor's status log, which it keeps short. *)
(* Every minute a checker looks for sensors that are overdue and adds a    *)
(* TIMEOUT to their logs; it may be at this for long (it sends mails), and *)
(* the next one starts meanwhile.  The last entry, by its timestamp, says  *)
(* whether the sensor is online.  One sensor is modelled; sensors do not   *)
(* share anything but the checkers.                                        *)
(*                                                                         *)
(* Timestamps are kept as ages, in ticks of the server's clock.            *)
(***************************************************************************)
EXTENDS Integers, Sequences, FiniteSets, Subsequences

CONSTANTS
    Keep,           \* entries that a poll leaves (10 in the code)
    Interval,       \* ticks between polls
    Retry,          \* ticks to the next poll after one that failed
    Threshold,      \* ticks that a sensor may be late
    Window,         \* ticks that the clocks may differ
    Checkers,       \* the processes that run the timeout checker
    MaxDelay,       \* bound: ticks that one run of the checker takes
    MaxFaults       \* bound: lost and delayed polls, changes of the clock, stops

VARIABLES
    status,         \* the log, in the order of the ids
    up,             \* the sensor runs
    skew,           \* how far its clock is ahead of the server's
    timer,          \* ticks to its next poll
    poll,           \* the poll that is under way
    checker,        \* what each checker is about to do
    faults

vars == <<status, up, skew, timer, poll, checker, faults>>

\* An age from which a sensor is overdue, whatever its further age.
OldAge == Interval + Threshold + 1
Ages == -Window..(OldAge + Len(status))

\* `fresh`: runningSince is the entry's own timestamp, it is inherited otherwise.
Entries == [age : Int, flag : {"RUNNING", "TIMEOUT"}, fresh : BOOLEAN]

TypeOK ==
    /\ status \in Seq(Entries)
    /\ \A i \in DOMAIN status : status[i].age \in Ages
    /\ up \in BOOLEAN /\ skew \in -Window..Window /\ timer \in 0..(Interval + Retry)
    /\ poll.pc \in {"none", "sent", "checked"}
    /\ poll.age \in Int /\ poll.fresh \in BOOLEAN /\ poll.drop \subseteq DOMAIN status
    /\ checker \in [Checkers -> -1..MaxDelay]
    /\ faults \in 0..MaxFaults

NoPoll == [pc |-> "none", age |-> 0, fresh |-> FALSE, drop |-> {}]

\* A checker that has nothing to add.
Free == -1

Init ==
    /\ status = <<>>
    /\ up = TRUE /\ skew = 0 /\ timer = 0
    /\ poll = NoPoll
    /\ checker = [c \in Checkers |-> Free]
    /\ faults = 0

Fault == faults < MaxFaults /\ faults' = faults + 1

-----------------------------------------------------------------------------
(* The log *)

\* Sorted by timestamp, youngest first; of two with the same one, that with the
\* smaller id comes first.
Before(log, i, j) == log[i].age < log[j].age \/ (log[i].age = log[j].age /\ i < j)
Rank(log, i) == Cardinality({j \in DOMAIN log : Before(log, j, i)})

\* Mutant: the log is searched in the order of the ids.
LastStatusById(log) == log[Len(log)]

\* getLastStatus(), and _get_last_status() of the checker.
LastStatus(log) == log[CHOOSE i \in DOMAIN log : Rank(log, i) = 0]

\* reduceStatus(): all but the youngest.
ToRemove(log) == {i \in DOMAIN log : Rank(log, i) >= Keep}

\* What is left, in the order of the ids.
Without(log, S) == Part(log, DOMAIN log \ S)

-----------------------------------------------------------------------------
(* A poll *)

Send ==
    /\ up /\ timer = 0 /\ poll.pc = "none"
    /\ poll' = [NoPoll EXCEPT !.pc = "sent", !.age = -skew]
    /\ UNCHANGED <<status, up, skew, timer, checker, faults>>

\* The sensor hears that its poll failed, or nothing.
Fails == poll' = NoPoll /\ timer' = Retry /\ UNCHANGED <<status, up, skew, checker>>

PollLost == poll.pc = "sent" /\ Fault /\ Fails

\* addSensorStatus(): not older than two minutes, nor than the last entry.
Acceptable(age, log) ==
    /\ age <= 2 * Window
    /\ log # <<>> => age <= LastStatus(log).age

\* validateSensorRequest() or addSensorStatus() refuses the report.
Refuse ==
    /\ poll.pc = "sent"
    /\ poll.age \notin -Window..Window \/ ~Acceptable(poll.age, status)
    /\ Fails /\ UNCHANGED faults

\* The log is read ...
Accept ==
    /\ poll.pc = "sent"
    /\ poll.age \in -Window..Window /\ Acceptable(poll.age, status)
    /\ LET fresh == status = <<>> \/ LastStatus(status).flag = "TIMEOUT"
           new == [age |-> poll.age, flag |-> "RUNNING", fresh |-> fresh]
       IN poll' = [poll EXCEPT !.pc = "checked", !.fresh = fresh,
                     !.drop = ToRemove(Append(status, new)) \ {Len(status) + 1}]
    /\ UNCHANGED <<status, up, skew, timer, checker, faults>>

\* ... and written, whatever was added meanwhile, and the sensor gets its answer.
Record ==
    /\ poll.pc = "checked"
    /\ status' = Append(Without(status, poll.drop),
                        [age |-> poll.age, flag |-> "RUNNING", fresh |-> poll.fresh])
    /\ poll' = NoPoll /\ timer' = Interval
    /\ UNCHANGED <<up, skew, checker, faults>>

-----------------------------------------------------------------------------
(* The timeout checker *)

\* Mutant: off by one.
OverdueEarly(log) ==
    log # <<>> /\ LastStatus(log).flag # "TIMEOUT" /\ LastStatus(log).age >= Interval + Threshold

Overdue(log) ==
    /\ log # <<>>
    /\ LastStatus(log).flag # "TIMEOUT"
    /\ LastStatus(log).age > Interval + Threshold

\* All logs are read at once; `now` is taken here, too.
Check(c) ==
    /\ checker[c] = Free /\ Overdue(status)
    /\ checker' = [checker EXCEPT ![c] = 0]
    /\ UNCHANGED <<status, up, skew, timer, poll, faults>>

\* The sensor's turn comes.
AddTimeout(c) ==
    /\ checker[c] # Free
    /\ status' = Append(status, [age |-> checker[c], flag |-> "TIMEOUT", fresh |-> FALSE])
    /\ checker' = [checker EXCEPT ![c] = Free]
    /\ UNCHANGED <<up, skew, timer, poll, faults>>

-----------------------------------------------------------------------------
(* Time, and the sensor *)

\* The timestamps that there are; when they are all old, distinct ones stay distinct.
Seen == {status[i].age : i \in DOMAIN status} \cup {poll.age}
Grown(ages, age) == LET limit == OldAge + Cardinality({a \in ages : a < age})
                    IN IF age + 1 > limit THEN limit ELSE age + 1
Older(log, ages) == [i \in DOMAIN log |-> [log[i] EXCEPT !.age = Grown(ages, @)]]

\* A sensor polls when its timer says so, and a poll takes less than a tick, unless
\* something holds it up.
Tick ==
    /\ \A c \in Checkers : checker[c] < MaxDelay
    /\ IF poll.pc = "none" /\ (up => timer > 0)
         THEN UNCHANGED faults ELSE Fault
    /\ status' = Older(status, Seen)
    /\ timer' = IF up /\ timer > 0 THEN timer - 1 ELSE timer
    /\ poll' = IF poll.pc = "none" THEN poll ELSE [poll EXCEPT !.age = Grown(Seen, @)]
    /\ checker' = [c \in Checkers |-> IF checker[c] = Free THEN Free ELSE checker[c] + 1]
    /\ UNCHANGED <<up, skew>>

\* The sensor's clock is set, or drifts.
ChangeClock ==
    /\ Fault /\ skew' \in (-Window..Window) \ {skew}
    /\ UNCHANGED <<status, up, timer, poll, checker>>

Stop ==
    /\ up /\ poll.pc = "none" /\ Fault
    /\ up' = FALSE
    /\ UNCHANGED <<status, skew, timer, poll, checker>>

\* A sensor polls as soon as it is up again.
Start ==
    /\ ~up
    /\ up' = TRUE /\ timer' = 0
    /\ UNCHANGED <<status, skew, poll, checker, faults>>

-----------------------------------------------------------------------------
Polling == Send \/ Refuse \/ Accept \/ Record

Next == \/ Polling \/ PollLost
        \/ \E c \in Checkers : Check(c) \/ AddTimeout(c)
        \/ Tick \/ ChangeClock \/ Stop \/ Start

Spec == Init /\ [][Next]_vars

\* Time passes, polls and checkers come to an end.  Nobody has to start a sensor.
Fairness == /\ WF_vars(Tick) /\ WF_vars(Polling)
            /\ \A c \in Checkers : WF_vars(Check(c)) /\ WF_vars(AddTimeout(c))

FairSpec == Spec /\ Fairness

-----------------------------------------------------------------------------
(* Properties *)

\* runningSince starts anew only after a timeout, or with the first report
\* (SensorStatus.php: it "is copied over from one SensorStatus to the next as long
\* as the sensor is online without interruption").
SinceStartsAfterTimeout ==
    \A i, j \in DOMAIN status :
        /\ i < j /\ status[i].flag = "RUNNING"
        /\ status[j].flag = "RUNNING" /\ status[j].fresh
        => \E k \in DOMAIN status : /\ status[k].flag = "TIMEOUT"
                                    /\ status[k].age \in status[j].age..status[i].age

\* A sensor that keeps polling is online in the end, whatever its clock shows and
\* however late the checkers add what they found.
BackOnline == <>[]up => <>[](status # <<>> /\ LastStatus(status).flag = "RUNNING")
=============================================================================
