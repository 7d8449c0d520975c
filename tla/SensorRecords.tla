--------------------------- MODULE SensorRecords ---------------------------
(***************************************************************************)
(* The status log of a sensor, for any intervals and any number of         *)
(* processes that run the timeout checker.                                 *)
(***************************************************************************)
EXTENDS Naturals

CONSTANTS
    KeptEntries,        \* entries that a poll leaves
    PollInterval, RetryInterval, LateBy,    \* ticks between polls, and that a sensor may be late
    ClockWindow,        \* ticks that the clocks may differ
    TimeoutCheckers,    \* the processes
    MaxCheckDelay,      \* bound: ticks that one run of the checker takes
    MaxStatusFaults     \* bound: faults

ASSUME StatusAssumption ==
    KeptEntries \in Nat /\ PollInterval \in Nat /\ LateBy \in Nat /\ ClockWindow \in Nat

VARIABLES
    status, up, skew, timer, poll, checker, statusFaults    \* SensorStatus

statusVars == <<status, up, skew, timer, poll, checker, statusFaults>>

Status == INSTANCE SensorStatus WITH
    Keep <- KeptEntries, Interval <- PollInterval, Retry <- RetryInterval, Threshold <- LateBy,
    Window <- ClockWindow, Checkers <- TimeoutCheckers, MaxDelay <- MaxCheckDelay,
    MaxFaults <- MaxStatusFaults, faults <- statusFaults

-----------------------------------------------------------------------------
(* Properties *)

\* runningSince starts anew only after a timeout, or with the first report.
SinceStartsAfterTimeout == Status!SinceStartsAfterTimeout
=============================================================================
