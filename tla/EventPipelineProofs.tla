------------------------ MODULE EventPipelineProofs ------------------------
(***************************************************************************)
(* Proofs about EventPipeline for every set of events, every buffer size   *)
(* and every number of faults and restarts.                                *)
(***************************************************************************)
EXTENDS EventPipeline, SequenceTheorems, FiniteSets, FiniteSetTheorems, TLAPS

-----------------------------------------------------------------------------
(* Sequences whose elements all differ *)

Distinct(s) == \A i, j \in 1..Len(s) : s[i] = s[j] => i = j

\* The elements of a sequence, spelled out over its length.
LEMMA RangeDef ==
    ASSUME NEW S, NEW s \in Seq(S)
    PROVE  /\ Range(s) = {s[i] : i \in 1..Len(s)}
           /\ Range(s) \subseteq S
  BY DEF Range

\* Appending adds one element, and keeps a sequence distinct if it is new.
LEMMA AppendRange ==
    ASSUME NEW S, NEW s \in Seq(S), NEW e \in S
    PROVE  /\ Append(s, e) \in Seq(S)
           /\ Len(Append(s, e)) = Len(s) + 1
           /\ Range(Append(s, e)) = Range(s) \cup {e}
           /\ Distinct(s) /\ e \notin Range(s) => Distinct(Append(s, e))
  <1> DEFINE t == Append(s, e)
  <1>1. /\ t \in Seq(S) /\ Len(t) = Len(s) + 1
        /\ \A i \in 1..Len(s) : t[i] = s[i]
        /\ t[Len(s) + 1] = e
    BY AppendProperties
  <1>2. Range(s) = {s[i] : i \in 1..Len(s)} /\ Range(t) = {t[i] : i \in 1..Len(t)}
    BY <1>1, RangeDef
  <1>3. Range(t) = Range(s) \cup {e}
    <2>1. Range(t) \subseteq Range(s) \cup {e}
      BY <1>1, <1>2
    <2>2. Range(s) \subseteq Range(t)
      BY <1>1, <1>2
    <2>3. e \in Range(t)
      BY <1>1, <1>2
    <2>4. QED
      BY <2>1, <2>2, <2>3
  <1>4. ASSUME Distinct(s), e \notin Range(s)
        PROVE  Distinct(t)
    BY <1>1, <1>2, <1>4 DEF Distinct
  <1>5. QED
    BY <1>1, <1>3, <1>4

\* Taking the head away from a distinct sequence removes exactly that element.
LEMMA TailRange ==
    ASSUME NEW S, NEW s \in Seq(S), s # <<>>
    PROVE  /\ Head(s) \in S /\ Tail(s) \in Seq(S)
           /\ Len(Tail(s)) = Len(s) - 1
           /\ Range(s) = Range(Tail(s)) \cup {Head(s)}
           /\ Distinct(s) => Distinct(Tail(s)) /\ Head(s) \notin Range(Tail(s))
  <1> DEFINE t == Tail(s)
  <1>1. /\ Head(s) \in S /\ t \in Seq(S) /\ Len(t) = Len(s) - 1
        /\ \A i \in 1..Len(t) : t[i] = s[i + 1]
    BY HeadTailProperties
  <1>2. Head(s) = s[1] /\ Len(s) \in Nat /\ Len(s) >= 1
    BY EmptySeq
  <1>3. Range(s) = {s[i] : i \in 1..Len(s)} /\ Range(t) = {t[i] : i \in 1..Len(t)}
    BY <1>1, RangeDef
  <1>4. Range(s) = Range(t) \cup {Head(s)}
    <2>1. ASSUME NEW i \in 1..Len(s)
          PROVE  s[i] \in Range(t) \cup {Head(s)}
      <3>1. CASE i = 1
        BY <3>1, <1>2
      <3>2. CASE i # 1
        <4>1. i - 1 \in 1..Len(t) /\ t[i - 1] = s[i]
          BY <3>2, <1>1, <1>2
        <4>2. QED
          BY <4>1, <1>3
      <3>3. QED
        BY <3>1, <3>2
    <2>2. ASSUME NEW i \in 1..Len(t)
          PROVE  t[i] \in Range(s)
      BY <1>1, <1>2, <1>3
    <2>3. Head(s) \in Range(s)
      BY <1>2, <1>3
    <2>4. QED
      BY <1>3, <2>1, <2>2, <2>3
  <1>5. ASSUME Distinct(s)
        PROVE  Distinct(t) /\ Head(s) \notin Range(t)
    BY <1>1, <1>2, <1>3, <1>5 DEF Distinct
  <1>6. QED
    BY <1>1, <1>4, <1>5

\* The empty sequence has no elements.
LEMMA EmptyRange == Range(<<>>) = {} /\ Distinct(<<>>)
  BY DEF Range, Distinct

-----------------------------------------------------------------------------
(* The inductive invariant *)

InFlight == processor \in {"sending", "replied"}

\* While a request is under way the snapshot is the ring buffer: only this
\* thread changes it.  Once the server has answered, it has committed all of it.
Snapshot ==
    /\ InFlight => send_cand = events
    /\ processor = "replied" => \A e \in Range(events) : committed[e] > 0

\* No event is at two places of the sensor.
OnePlace ==
    /\ Distinct(event_queue)
    /\ Distinct(events)
    /\ Range(event_queue) \cap Range(events) = {}

\* Nothing is queued, dropped or on its way that was not collected, and a
\* dropped event is gone.
Known ==
    /\ Held \subseteq Range(collected)
    /\ dropped \subseteq Range(collected)
    /\ dropped \cap Held = {}
    /\ \A r \in late : Range(r.batch) \subseteq Range(collected)

IInv == TypeOK /\ Snapshot /\ OnePlace /\ Known /\ EventsAccountedFor

\* What the steps have in common that only move a thread or the poll result.
Quiet ==
    /\ UNCHANGED <<event_queue, events, send_cand, late, committed, faults, restarts,
                   collected, dropped>>
    /\ processor' \in ProcessorStates
    /\ InFlight \/ InFlight' => UNCHANGED processor
    /\ poller' \in PollerStates
    /\ last_successful_poll' \in {"none", "fresh", "stale"}
    /\ outcome' \in Outcomes

\* Ten of the actions, and stuttering, are quiet.
LEMMA QuietSteps ==
    ASSUME TypeOK,
           \/ PollOk \/ PollFail \/ PollLedCheck \/ PollLedAge \/ Expire
           \/ QueueEmpty \/ IsOnlineCheck \/ SkipSend \/ ProcLedCheck \/ ProcLedAge
           \/ UNCHANGED vars
    PROVE  Quiet
  <1> USE DEF Quiet, InFlight, TypeOK, ProcessorStates, PollerStates, Outcomes,
              serverVars, boundVars, historyVars, Started
  <1>1. CASE PollOk
    BY <1>1 DEF PollOk
  <1>2. CASE PollFail
    BY <1>2 DEF PollFail
  <1>3. CASE PollLedCheck
    BY <1>3 DEF PollLedCheck
  <1>4. CASE PollLedAge
    BY <1>4 DEF PollLedAge
  <1>5. CASE Expire
    BY <1>5 DEF Expire
  <1>6. CASE QueueEmpty
    BY <1>6 DEF QueueEmpty
  <1>7. CASE IsOnlineCheck
    BY <1>7 DEF IsOnlineCheck
  <1>8. CASE SkipSend
    BY <1>8 DEF SkipSend
  <1>9. CASE ProcLedCheck
    BY <1>9 DEF ProcLedCheck
  <1>10. CASE ProcLedAge
    BY <1>10 DEF ProcLedAge
  <1>11. CASE UNCHANGED vars
    BY <1>11 DEF vars, sensorVars
  <1>12. QED
    BY <1>1, <1>2, <1>3, <1>4, <1>5, <1>6, <1>7, <1>8, <1>9, <1>10, <1>11

\* The next-state relation, sorted by what a proof has to look at.
LEMMA StepCases ==
    ASSUME TypeOK, [Next]_vars
    PROVE  \/ Quiet
           \/ \E e \in Events : Receive(e)
           \/ TakeEvent
           \/ StartSend
           \/ Refused
           \/ RequestLost
           \/ ReplyLost
           \/ ReplyOk
           \/ CreateEvent
           \/ \E r \in late : CreateEventLate(r)
           \/ Restart
  BY QuietSteps DEF Next, Processor, Poller, Network, Server

\* The ring buffer after a push: it keeps its bound, gains the event and loses
\* exactly what is reported as overwritten.
LEMMA PushProperties ==
    ASSUME NEW buffer \in Seq(Events), Len(buffer) <= Capacity, NEW e \in Events
    PROVE  /\ Push(buffer, e) \in Seq(Events)
           /\ Len(Push(buffer, e)) <= Capacity
           /\ Overwritten(buffer) \subseteq Events
           /\ Range(Push(buffer, e)) \cup Overwritten(buffer) = Range(buffer) \cup {e}
           /\ Distinct(buffer) /\ e \notin Range(buffer)
                => /\ Distinct(Push(buffer, e))
                   /\ Overwritten(buffer) \cap Range(Push(buffer, e)) = {}
  <1> USE PipelineAssumption
  <1>1. CASE Len(buffer) = Capacity
    <2>1. buffer # <<>>
      BY <1>1
    <2>2. /\ Head(buffer) \in Events /\ Tail(buffer) \in Seq(Events)
          /\ Len(Tail(buffer)) = Len(buffer) - 1
          /\ Range(buffer) = Range(Tail(buffer)) \cup {Head(buffer)}
          /\ Distinct(buffer) => /\ Distinct(Tail(buffer))
                                 /\ Head(buffer) \notin Range(Tail(buffer))
      BY <2>1, TailRange
    <2>3. Push(buffer, e) = Append(Tail(buffer), e) /\ Overwritten(buffer) = {Head(buffer)}
      BY <1>1 DEF Push, Overwritten
    <2>4. /\ Append(Tail(buffer), e) \in Seq(Events)
          /\ Len(Append(Tail(buffer), e)) = Len(Tail(buffer)) + 1
          /\ Range(Append(Tail(buffer), e)) = Range(Tail(buffer)) \cup {e}
          /\ Distinct(Tail(buffer)) /\ e \notin Range(Tail(buffer))
               => Distinct(Append(Tail(buffer), e))
      BY <2>2, AppendRange
    <2>5. QED
      BY <1>1, <2>2, <2>3, <2>4
  <1>2. CASE Len(buffer) # Capacity
    <2>1. Push(buffer, e) = Append(buffer, e) /\ Overwritten(buffer) = {}
      BY <1>2 DEF Push, Overwritten
    <2>2. QED
      BY <1>2, <2>1, AppendRange
  <1>3. QED
    BY <1>1, <1>2

\* Removing the snapshot, which is the whole buffer, leaves nothing.
LEMMA RemoveSnapshot ==
    ASSUME TypeOK, Snapshot, ReplyOk
    PROVE  events' = <<>>
  <1>1. send_cand = events
    BY DEF Snapshot, InFlight, ReplyOk
  <1>2. Len(events) - Len(send_cand) = 0
    BY <1>1 DEF TypeOK
  <1>3. events' = [i \in 1..0 |-> events[i + Len(send_cand)]]
    BY <1>2 DEF ReplyOk
  <1>4. events' = <<>>
    BY <1>3
  <1>5. QED
    BY <1>4

-----------------------------------------------------------------------------
(* Every action preserves the invariant *)

USE DEF InFlight

\* A quiet step leaves everything the invariant speaks of.
LEMMA QuietPreserves ==
    ASSUME IInv, Quiet
    PROVE  IInv'
  <1>1. TypeOK'
    BY DEF IInv, TypeOK, Quiet
  <1>2. Snapshot'
    BY DEF IInv, Snapshot, Quiet
  <1>3. OnePlace' /\ Known' /\ EventsAccountedFor'
    BY DEF IInv, OnePlace, Known, Held, EventsAccountedFor, Quiet
  <1>4. QED
    BY <1>1, <1>2, <1>3 DEF IInv

\* A received event is new to the sensor, and is in the queue afterwards.
LEMMA ReceivePreserves ==
    ASSUME IInv, NEW e \in Events, Receive(e)
    PROVE  IInv'
  <1> USE DEF IInv, Receive, serverVars, boundVars
  <1>1. /\ event_queue' \in Seq(Events) /\ collected' \in Seq(Events)
        /\ Range(event_queue') = Range(event_queue) \cup {e}
        /\ Range(collected') = Range(collected) \cup {e}
        /\ e \notin Range(event_queue) => Distinct(event_queue')
    BY AppendRange DEF TypeOK, OnePlace
  <1>2. e \notin Held /\ e \notin dropped
    BY DEF Known
  <1>3. TypeOK'
    BY <1>1 DEF TypeOK
  <1>4. Snapshot'
    BY DEF Snapshot
  <1>5. OnePlace'
    BY <1>1, <1>2 DEF OnePlace, Held
  <1>6. Known'
    BY <1>1, <1>2 DEF Known, Held
  <1>7. EventsAccountedFor'
    BY <1>1 DEF EventsAccountedFor, Held
  <1>8. QED
    BY <1>3, <1>4, <1>5, <1>6, <1>7

\* An event moves from the queue to the buffer; what it overwrites is dropped.
LEMMA TakeEventPreserves ==
    ASSUME IInv, TakeEvent
    PROVE  IInv'
  <1> USE DEF IInv, TakeEvent, serverVars, boundVars
  <1> DEFINE e == Head(event_queue)
  <1>1. /\ e \in Events /\ event_queue' \in Seq(Events)
        /\ Range(event_queue) = Range(event_queue') \cup {e}
        /\ Distinct(event_queue') /\ e \notin Range(event_queue')
    BY TailRange DEF TypeOK, OnePlace
  <1>2. e \notin Range(events)
    BY <1>1 DEF OnePlace
  <1>3. /\ events' \in Seq(Events) /\ Len(events') <= Capacity
        /\ Overwritten(events) \subseteq Events
        /\ Range(events') \cup Overwritten(events) = Range(events) \cup {e}
        /\ Distinct(events')
        /\ Overwritten(events) \cap Range(events') = {}
    BY <1>1, <1>2, PushProperties DEF TypeOK, OnePlace
  <1>4. dropped' = dropped \cup Overwritten(events)
    OBVIOUS
  <1>5. TypeOK'
    BY <1>1, <1>3, <1>4 DEF TypeOK, ProcessorStates
  <1>6. Snapshot'
    BY DEF Snapshot
  <1>7. OnePlace'
    BY <1>1, <1>2, <1>3 DEF OnePlace
  <1>8. Known'
    <2>1. Held' \cup Overwritten(events) = Held
      BY <1>1, <1>3 DEF Held
    <2>2. Overwritten(events) \cap Held' = {}
      <3>1. Overwritten(events) \subseteq Range(events) \cup {e}
        BY <1>3
      <3>2. Overwritten(events) \cap Range(event_queue') = {}
        BY <3>1, <1>1 DEF OnePlace
      <3>3. QED
        BY <3>2, <1>3 DEF Held
    <2>3. QED
      BY <2>1, <2>2, <1>4 DEF Known
  <1>9. EventsAccountedFor'
    BY <1>1, <1>3, <1>4 DEF EventsAccountedFor, Held
  <1>10. QED
    BY <1>5, <1>6, <1>7, <1>8, <1>9

\* The snapshot is taken from the buffer.
LEMMA StartSendPreserves ==
    ASSUME IInv, StartSend
    PROVE  IInv'
  <1> USE DEF IInv, StartSend, serverVars, boundVars, historyVars
  <1>1. TypeOK'
    BY DEF TypeOK, ProcessorStates
  <1>2. Snapshot' /\ OnePlace' /\ Known' /\ EventsAccountedFor'
    BY DEF Snapshot, OnePlace, Known, Held, EventsAccountedFor
  <1>3. QED
    BY <1>1, <1>2

\* A failed submission keeps the buffer as it is.
LEMMA FailurePreserves ==
    ASSUME IInv, Refused \/ RequestLost \/ ReplyLost
    PROVE  IInv'
  <1> USE DEF IInv, ConnError
  <1>1. /\ UNCHANGED <<event_queue, events, poller, restarts, collected, dropped, committed>>
        /\ send_cand' = <<>> /\ processor' \in {"hook", "get"}
        /\ last_successful_poll' = "none" /\ outcome' = "failed"
        /\ faults' \in 0..MaxFaults
    BY PipelineAssumption DEF Refused, RequestLost, ReplyLost, TypeOK, serverVars
  <1>2. ASSUME NEW r \in late'
        PROVE  /\ r \in [id : 1..(MaxFaults + MaxRestarts), batch : Seq(Events)]
               /\ Range(r.batch) \subseteq Range(collected)
    <2>1. CASE r \in late
      BY <2>1 DEF TypeOK, Known
    <2>2. CASE r \notin late
      <3>1. /\ RequestLost
            /\ r = [id |-> faults + 1, batch |-> send_cand]
        BY <2>2, <1>2 DEF Refused, RequestLost, ReplyLost, serverVars
      <3>2. send_cand = events
        BY <3>1 DEF RequestLost, Snapshot
      <3>3. faults + 1 \in 1..(MaxFaults + MaxRestarts)
        BY <3>1, PipelineAssumption DEF RequestLost, TypeOK
      <3>4. QED
        BY <3>1, <3>2, <3>3 DEF TypeOK, Known, Held
    <2>3. QED
      BY <2>1, <2>2
  <1>3. TypeOK'
    BY <1>1, <1>2 DEF TypeOK, ProcessorStates, Outcomes
  <1>4. Snapshot' /\ OnePlace' /\ EventsAccountedFor'
    BY <1>1 DEF Snapshot, OnePlace, EventsAccountedFor, Held
  <1>5. Known'
    BY <1>1, <1>2 DEF Known, Held
  <1>6. QED
    BY <1>3, <1>4, <1>5


\* The answer releases the buffer: the server has committed all of it.
LEMMA ReplyOkPreserves ==
    ASSUME IInv, ReplyOk
    PROVE  IInv'
  <1> USE DEF IInv
  <1>1. events' = <<>> /\ Range(events') = {} /\ Distinct(events')
    BY RemoveSnapshot, EmptyRange
  <1>2. \A e \in Range(events) : committed[e] > 0
    BY DEF Snapshot, ReplyOk
  <1>3. /\ UNCHANGED <<event_queue, poller, last_successful_poll, late, committed,
                       faults, restarts, collected, dropped>>
        /\ send_cand' = <<>> /\ processor' = "get" /\ outcome' = "sent"
    BY DEF ReplyOk, serverVars, boundVars
  <1>4. TypeOK'
    BY <1>1, <1>3, PipelineAssumption DEF TypeOK, ProcessorStates, Outcomes
  <1>5. Snapshot' /\ OnePlace'
    BY <1>1, <1>3 DEF Snapshot, OnePlace
  <1>6. Known'
    BY <1>1, <1>3 DEF Known, Held
  <1>7. EventsAccountedFor'
    BY <1>1, <1>2, <1>3 DEF EventsAccountedFor, Held
  <1>8. QED
    BY <1>4, <1>5, <1>6, <1>7

\* A commit counts every event of the batch once more and no other.
LEMMA CommitCounts ==
    ASSUME TypeOK, NEW batch, Commit(batch)
    PROVE  /\ committed' \in [Events -> Nat]
           /\ \A e \in Events : committed[e] > 0 => committed'[e] > 0
           /\ \A e \in Events : e \in Range(batch) => committed'[e] > 0
  BY DEF Commit, TypeOK

\* The server commits the snapshot, that is the whole buffer.
LEMMA CreateEventPreserves ==
    ASSUME IInv, CreateEvent
    PROVE  IInv'
  <1> USE DEF IInv, CreateEvent, boundVars, historyVars
  <1>1. /\ committed' \in [Events -> Nat]
        /\ \A e \in Events : committed[e] > 0 => committed'[e] > 0
        /\ \A e \in Events : e \in Range(send_cand) => committed'[e] > 0
    BY CommitCounts
  <1>2. Range(events) \subseteq Events /\ Range(collected) \subseteq Events
    BY RangeDef DEF TypeOK
  <1>3. TypeOK'
    BY <1>1 DEF TypeOK, ProcessorStates
  <1>4. Snapshot'
    BY <1>1, <1>2 DEF Snapshot
  <1>5. OnePlace' /\ Known'
    BY DEF OnePlace, Known, Held
  <1>6. EventsAccountedFor'
    BY <1>1, <1>2 DEF EventsAccountedFor, Held
  <1>7. QED
    BY <1>3, <1>4, <1>5, <1>6

\* A late request only adds to what the server has committed.
LEMMA CreateEventLatePreserves ==
    ASSUME IInv, NEW r \in late, CreateEventLate(r)
    PROVE  IInv'
  <1> USE DEF IInv, CreateEventLate, sensorVars, boundVars, historyVars
  <1>1. /\ committed' \in [Events -> Nat]
        /\ \A e \in Events : committed[e] > 0 => committed'[e] > 0
    BY CommitCounts DEF TypeOK
  <1>2. Range(events) \subseteq Events /\ Range(collected) \subseteq Events
    BY RangeDef DEF TypeOK
  <1>3. TypeOK'
    BY <1>1 DEF TypeOK
  <1>4. Snapshot' /\ EventsAccountedFor'
    BY <1>1, <1>2 DEF Snapshot, EventsAccountedFor, Held
  <1>5. OnePlace' /\ Known'
    BY DEF OnePlace, Known, Held
  <1>6. QED
    BY <1>3, <1>4, <1>5

\* A restart drops what the sensor holds; a request under way becomes late.
LEMMA RestartPreserves ==
    ASSUME IInv, Restart
    PROVE  IInv'
  <1> USE DEF IInv, Restart, serverVars
  <1>1. /\ Range(event_queue') = {} /\ Range(events') = {}
        /\ Distinct(event_queue') /\ Distinct(events')
    BY EmptyRange
  <1>2. Range(event_queue) \subseteq Events /\ Range(events) \subseteq Events
    BY RangeDef DEF TypeOK
  <1>3. ASSUME NEW r \in late'
        PROVE  /\ r \in [id : 1..(MaxFaults + MaxRestarts), batch : Seq(Events)]
               /\ Range(r.batch) \subseteq Range(collected)
    <2>1. CASE r \in late
      BY <2>1 DEF TypeOK, Known
    <2>2. CASE r \notin late
      <3>1. /\ processor = "sending"
            /\ r = [id |-> MaxFaults + restarts + 1, batch |-> send_cand]
        BY <2>2, <1>3
      <3>2. send_cand = events
        BY <3>1 DEF Snapshot
      <3>3. MaxFaults + restarts + 1 \in 1..(MaxFaults + MaxRestarts)
        BY PipelineAssumption DEF TypeOK
      <3>4. QED
        BY <3>1, <3>2, <3>3 DEF TypeOK, Known, Held
    <2>3. QED
      BY <2>1, <2>2
  <1>4. TypeOK'
    BY <1>2, <1>3, PipelineAssumption DEF TypeOK, ProcessorStates, PollerStates, Outcomes
  <1>5. Snapshot' /\ OnePlace'
    BY <1>1 DEF Snapshot, OnePlace
  <1>6. Known'
    BY <1>1, <1>3 DEF Known, Held
  <1>7. EventsAccountedFor'
    BY <1>1 DEF EventsAccountedFor, Held
  <1>8. QED
    BY <1>4, <1>5, <1>6, <1>7

-----------------------------------------------------------------------------
(* The theorems *)

LEMMA InitIInv == Init => IInv
  <1> SUFFICES ASSUME Init PROVE IInv
    OBVIOUS
  <1> USE DEF Init
  <1>1. TypeOK
    BY PipelineAssumption
       DEF TypeOK, ProcessorStates, PollerStates, Outcomes
  <1>2. Snapshot /\ OnePlace /\ Known /\ EventsAccountedFor
    BY EmptyRange DEF Snapshot, OnePlace, Known, Held, EventsAccountedFor
  <1>3. QED
    BY <1>1, <1>2 DEF IInv

LEMMA NextIInv == IInv /\ [Next]_vars => IInv'
  <1> SUFFICES ASSUME IInv, [Next]_vars PROVE IInv'
    OBVIOUS
  <1>1. \/ Quiet
        \/ \E e \in Events : Receive(e)
        \/ TakeEvent \/ StartSend \/ Refused \/ RequestLost \/ ReplyLost \/ ReplyOk
        \/ CreateEvent
        \/ \E r \in late : CreateEventLate(r)
        \/ Restart
    BY StepCases DEF IInv
  <1>2. QED
    BY <1>1, QuietPreserves, ReceivePreserves, TakeEventPreserves, StartSendPreserves,
       FailurePreserves, ReplyOkPreserves, CreateEventPreserves,
       CreateEventLatePreserves, RestartPreserves

LEMMA SpecIInv == Spec => []IInv
  BY InitIInv, NextIInv, PTL DEF Spec

\* Type correctness: above all, the ring buffer never exceeds its capacity.
THEOREM TypeCorrect == Spec => []TypeOK
  <1>1. IInv => TypeOK
    BY DEF IInv
  <1>2. QED
    BY <1>1, SpecIInv, PTL

\* No failure of a submission loses an event: whatever the collector took over
\* is held, processed by the server, or was dropped by a full buffer or restart.
THEOREM NothingLost == Spec => []EventsAccountedFor
  <1>1. IInv => EventsAccountedFor
    BY DEF IInv
  <1>2. QED
    BY <1>1, SpecIInv, PTL

-----------------------------------------------------------------------------
(* Implementation of EventDelivery *)

PhaseMap == [e \in Events |-> Phase(e)]

LEMMA InitImplements == Init => Delivery!Init
  <1> SUFFICES ASSUME Init PROVE Delivery!Init
    OBVIOUS
  <1>1. Held = {} /\ Range(collected) = {} /\ dropped = {}
    BY EmptyRange DEF Init, Held
  <1>2. \A e \in Events : Phase(e) = "new"
    BY <1>1 DEF Phase
  <1>3. QED
    BY <1>2 DEF Init, Delivery!Init

\* A step that leaves queue, buffer and history alone leaves every phase alone.
LEMMA SamePhases ==
    ASSUME UNCHANGED <<event_queue, events, collected, dropped>>
    PROVE  PhaseMap' = PhaseMap
  BY DEF PhaseMap, Phase, Held

LEMMA StepImplements == IInv /\ [Next]_vars => [Delivery!Next]_(Delivery!vars)
  <1> SUFFICES ASSUME IInv, [Next]_vars PROVE [Delivery!Next]_(Delivery!vars)
    OBVIOUS
  <1> USE DEF IInv
  <1>0. /\ Held \in SUBSET Events /\ Range(events) \in SUBSET Events
         /\ Overwritten(events) \in SUBSET Events
         /\ \A r \in late : Range(r.batch) \in SUBSET Events
    <2>1. Range(event_queue) \subseteq Events /\ Range(events) \subseteq Events
      BY RangeDef DEF TypeOK
    <2>2. Range(collected) \subseteq Events
      BY RangeDef DEF TypeOK
    <2>3. Overwritten(events) \subseteq Events
      BY TailRange, PipelineAssumption DEF TypeOK, Overwritten
    <2>4. QED
      BY <2>1, <2>2, <2>3 DEF Held, Known
  <1>1. IInv'
    BY NextIInv
  <1>2. ASSUME UNCHANGED <<event_queue, events, collected, dropped, committed>>
        PROVE  UNCHANGED Delivery!vars
    BY <1>2, SamePhases DEF Delivery!vars, PhaseMap
  <1>3. ASSUME Quiet \/ StartSend \/ Refused \/ RequestLost \/ ReplyLost
        PROVE  UNCHANGED Delivery!vars
    BY <1>3, <1>2 DEF Quiet, StartSend, Refused, RequestLost, ReplyLost, ConnError,
                      serverVars, boundVars, historyVars
  <1>4. ASSUME NEW e \in Events, Receive(e)
        PROVE  Delivery!Collect(e)
    <2>1. /\ Range(event_queue') = Range(event_queue) \cup {e}
          /\ Range(collected') = Range(collected) \cup {e}
          /\ UNCHANGED <<events, dropped, committed>>
      BY <1>4, AppendRange DEF Receive, TypeOK, serverVars
    <2>2. e \notin Held /\ e \notin dropped /\ e \notin Range(collected)
      BY <1>4 DEF Receive, Known
    <2>3. Phase(e) = "new" /\ Phase(e)' = "held"
      BY <2>1, <2>2 DEF Phase, Held
    <2>4. \A f \in Events \ {e} : Phase(f)' = Phase(f)
      BY <2>1 DEF Phase, Held
    <2>5. QED
      BY <2>1, <2>3, <2>4 DEF Delivery!Collect, Delivery!Move
  <1>5. ASSUME TakeEvent
        PROVE  Delivery!Drop(Overwritten(events))
    <2>1. UNCHANGED <<collected, committed>> /\ dropped' = dropped \cup Overwritten(events)
      BY <1>5 DEF TakeEvent, serverVars
    <2> DEFINE e == Head(event_queue)
    <2>2. /\ Range(event_queue) = Range(event_queue') \cup {e}
          /\ e \in Events /\ e \notin Range(events)
      <3>1. e \in Events /\ Range(event_queue) = Range(event_queue') \cup {e}
        BY <1>5, TailRange DEF TakeEvent, TypeOK
      <3>2. QED
        BY <3>1 DEF OnePlace
    <2>3. /\ Range(events') \cup Overwritten(events) = Range(events) \cup {e}
          /\ Overwritten(events) \cap Range(events') = {}
      BY <1>5, <2>2, PushProperties DEF TakeEvent, TypeOK, OnePlace
    <2>4. Held = Held' \cup Overwritten(events) /\ Overwritten(events) \cap Held' = {}
      BY <1>1, <2>1, <2>2, <2>3 DEF Held, Known
    <2>5. \A f \in Overwritten(events) : Phase(f) = "held" /\ Phase(f)' = "dropped"
      BY <2>1, <2>4 DEF Phase
    <2>6. \A f \in Events \ Overwritten(events) : Phase(f)' = Phase(f)
      BY <2>1, <2>4 DEF Phase
    <2>7. QED
      BY <1>0, <2>1, <2>5, <2>6 DEF Delivery!Drop, Delivery!Move
  <1>6. ASSUME ReplyOk
        PROVE  Delivery!Release(Range(events))
    <2>1. /\ UNCHANGED <<event_queue, collected, dropped, committed>>
          /\ Range(events') = {}
      BY <1>6, RemoveSnapshot, EmptyRange DEF ReplyOk, serverVars
    <2>2. \A e \in Range(events) : committed[e] > 0
      BY <1>6 DEF ReplyOk, Snapshot
    <2>3. \A e \in Range(events) : Phase(e) = "held" /\ Phase(e)' = "released"
      BY <2>1 DEF Phase, Held, Known, OnePlace
    <2>4. \A e \in Events \ Range(events) : Phase(e)' = Phase(e)
      BY <2>1 DEF Phase, Held
    <2>5. QED
      BY <1>0, <2>1, <2>2, <2>3, <2>4 DEF Delivery!Release, Delivery!Move
  <1>7. ASSUME CreateEvent
        PROVE  Delivery!Deliver(Range(events))
    <2>1. send_cand = events
      BY <1>7 DEF CreateEvent, Snapshot
    <2>2. \A e \in Range(events) : Phase(e) # "new"
      BY DEF Phase, Held
    <2>3. PhaseMap' = PhaseMap
      BY <1>7, SamePhases DEF CreateEvent, historyVars
    <2>4. QED
      BY <1>0, <1>7, <2>1, <2>2, <2>3 DEF CreateEvent, Commit, Delivery!Deliver, PhaseMap
  <1>8. ASSUME NEW r \in late, CreateEventLate(r)
        PROVE  Delivery!Deliver(Range(r.batch)) \/ UNCHANGED Delivery!vars
    <2>1. UNCHANGED <<event_queue, events, collected, dropped>>
      BY <1>8 DEF CreateEventLate, sensorVars, historyVars
    <2>2. CASE UNCHANGED committed
      BY <2>1, <2>2, <1>2
    <2>3. CASE Commit(r.batch)
      <3>1. \A e \in Range(r.batch) : Phase(e) # "new"
        BY DEF Known, Phase, Held
      <3>2. PhaseMap' = PhaseMap
        BY <2>1, SamePhases
      <3>3. QED
        BY <1>0, <2>3, <3>1, <3>2 DEF Commit, Delivery!Deliver, PhaseMap
    <2>4. QED
      BY <1>8, <2>2, <2>3 DEF CreateEventLate
  <1>9. ASSUME Restart
        PROVE  Delivery!Drop(Held)
    <2>1. /\ UNCHANGED <<collected, committed>>
          /\ Held' = {} /\ dropped' = dropped \cup Held
      BY <1>9, EmptyRange DEF Restart, Held
    <2>2. \A e \in Held : Phase(e) = "held" /\ Phase(e)' = "dropped"
      BY <2>1 DEF Phase
    <2>3. \A e \in Events \ Held : Phase(e)' = Phase(e)
      BY <2>1 DEF Phase
    <2>4. QED
      BY <1>0, <2>1, <2>2, <2>3 DEF Delivery!Drop, Delivery!Move
  <1>10. QED
    BY StepCases, <1>0, <1>3, <1>4, <1>5, <1>6, <1>7, <1>8, <1>9 DEF Delivery!Next

\* The pipeline implements EventDelivery: an event leaves the sensor only after
\* the server has processed it, or dropped, and the server sees no others.
THEOREM ImplementsDelivery == Spec => DeliverySpec
  BY InitImplements, StepImplements, SpecIInv, PTL DEF Spec, DeliverySpec, Delivery!Spec

-----------------------------------------------------------------------------
(* Surplus copies *)

\* The late requests that would commit an event once more.
LateWith(e) == {r \in late : e \in Range(r.batch)}

\* Commits done and commits still possible, counted together: none for an event
\* the sensor has not submitted, one per fault while it is in the buffer and its
\* current request is not answered, and one more when it is.
Copies(e) == committed[e] + Cardinality(LateWith(e))

CopiesBounded ==
    /\ IsFiniteSet(late)
    /\ \A e \in Events :
         /\ Copies(e) <= faults + 1
         /\ e \notin Range(collected) \/ e \in Range(event_queue) => Copies(e) = 0
         /\ e \in Range(events) /\ processor # "replied" => Copies(e) <= faults

\* Adding a late request raises the count of the events in it by one at most.
LEMMA LateAdded ==
    ASSUME IsFiniteSet(late), NEW x, late' = late \cup {x}, NEW e
    PROVE  /\ IsFiniteSet(late')
           /\ Cardinality(LateWith(e)) \in Nat /\ Cardinality(LateWith(e)') \in Nat
           /\ Cardinality(LateWith(e)') <= Cardinality(LateWith(e)) + 1
           /\ e \notin Range(x.batch) => LateWith(e)' = LateWith(e)
  <1>1. IsFiniteSet(late') /\ IsFiniteSet(LateWith(e)) /\ LateWith(e)' \subseteq LateWith(e) \cup {x}
    BY FS_AddElement, FS_Subset DEF LateWith
  <1>2. /\ Cardinality(LateWith(e)) \in Nat
        /\ IsFiniteSet(LateWith(e) \cup {x})
        /\ Cardinality(LateWith(e) \cup {x}) <= Cardinality(LateWith(e)) + 1
    <2>1. Cardinality(LateWith(e)) \in Nat
      BY <1>1, FS_CardinalityType
    <2>2. /\ IsFiniteSet(LateWith(e) \cup {x})
          /\ Cardinality(LateWith(e) \cup {x}) =
               IF x \in LateWith(e) THEN Cardinality(LateWith(e))
                                    ELSE Cardinality(LateWith(e)) + 1
      BY <1>1, FS_AddElement
    <2>3. QED
      BY <2>1, <2>2
  <1>3. /\ Cardinality(LateWith(e)') <= Cardinality(LateWith(e) \cup {x})
        /\ Cardinality(LateWith(e)') \in Nat /\ Cardinality(LateWith(e) \cup {x}) \in Nat
    BY <1>1, <1>2, FS_Subset, FS_CardinalityType
  <1>4. e \notin Range(x.batch) => LateWith(e)' = LateWith(e)
    BY DEF LateWith
  <1>5. QED
    BY <1>1, <1>2, <1>3, <1>4

\* Processing a late request lowers the count of its events by one.
LEMMA LateRemoved ==
    ASSUME IsFiniteSet(late), NEW x \in late, late' = late \ {x}, NEW e
    PROVE  /\ IsFiniteSet(late')
           /\ Cardinality(LateWith(e)) \in Nat /\ Cardinality(LateWith(e)') \in Nat
           /\ Cardinality(LateWith(e)') = IF e \in Range(x.batch)
                                            THEN Cardinality(LateWith(e)) - 1
                                            ELSE Cardinality(LateWith(e))
  <1>1. IsFiniteSet(late') /\ IsFiniteSet(LateWith(e)) /\ IsFiniteSet(LateWith(e)')
    BY FS_Subset DEF LateWith
  <1>2. Cardinality(LateWith(e)) \in Nat /\ Cardinality(LateWith(e)') \in Nat
    BY <1>1, FS_CardinalityType
  <1>3. CASE e \in Range(x.batch)
    <2>1. x \in LateWith(e) /\ LateWith(e)' = LateWith(e) \ {x}
      BY <1>3 DEF LateWith
    <2>2. Cardinality(LateWith(e)') = Cardinality(LateWith(e)) - 1
      BY <2>1, <1>1, FS_RemoveElement
    <2>3. QED
      BY <1>1, <1>2, <1>3, <2>2
  <1>4. CASE e \notin Range(x.batch)
    <2>1. LateWith(e)' = LateWith(e)
      BY <1>4 DEF LateWith
    <2>2. QED
      BY <1>1, <1>2, <1>4, <2>1
  <1>5. QED
    BY <1>3, <1>4

\* Nothing is late or committed at the start.
LEMMA InitCopies == Init => CopiesBounded
  <1> SUFFICES ASSUME Init PROVE CopiesBounded
    OBVIOUS
  <1>1. IsFiniteSet(late) /\ \A e \in Events : LateWith(e) = {}
    BY FS_EmptySet DEF Init, LateWith
  <1>2. \A e \in Events : Copies(e) = 0
    BY <1>1, FS_EmptySet DEF Copies, Init
  <1>3. QED
    BY <1>1, <1>2, EmptyRange DEF CopiesBounded, Init

\* Steps that change neither the server nor the late requests.
LEMMA SameCopies ==
    ASSUME UNCHANGED <<late, committed>>
    PROVE  \A e \in Events : Copies(e)' = Copies(e)
  BY DEF Copies, LateWith

LEMMA CopiesPreserved ==
    ASSUME IInv, IInv', CopiesBounded, [Next]_vars
    PROVE  CopiesBounded'
  <1> USE DEF IInv
  <1>0. /\ faults \in Nat /\ faults' \in Nat
        /\ Range(event_queue) \subseteq Events /\ Range(events) \subseteq Events
        /\ \A e \in Events : committed[e] \in Nat /\ committed'[e] \in Nat
        /\ \A e \in Events : Copies(e) \in Nat
    <2>1. /\ Range(event_queue) \subseteq Events /\ Range(events) \subseteq Events
          /\ faults \in Nat /\ faults' \in Nat
          /\ \A e \in Events : committed[e] \in Nat /\ committed'[e] \in Nat
      BY RangeDef, PipelineAssumption DEF TypeOK
    <2>2. \A e \in Events : Cardinality(LateWith(e)) \in Nat
      BY FS_Subset, FS_CardinalityType DEF CopiesBounded, LateWith
    <2>3. QED
      BY <2>1, <2>2 DEF Copies
  <1>1. CASE Quiet
    BY <1>1, SameCopies DEF Quiet, CopiesBounded
  <1>2. ASSUME NEW e \in Events, Receive(e)
        PROVE  CopiesBounded'
    <2>1. /\ Range(event_queue') = Range(event_queue) \cup {e}
          /\ Range(collected') = Range(collected) \cup {e}
          /\ UNCHANGED <<events, processor, late, committed, faults>>
          /\ e \notin Range(collected)
      BY <1>2, AppendRange DEF Receive, TypeOK, serverVars, boundVars
    <2>2. QED
      BY <2>1, SameCopies DEF CopiesBounded
  <1>3. CASE TakeEvent
    <2>1. /\ UNCHANGED <<collected, late, committed, faults>>
          /\ processor = "get" /\ processor' # "replied"
      BY <1>3 DEF TakeEvent, serverVars, boundVars
    <2>2. /\ Head(event_queue) \in Events
          /\ Range(event_queue) = Range(event_queue') \cup {Head(event_queue)}
      BY <1>3, TailRange DEF TakeEvent, TypeOK
    <2>3. Range(events') \subseteq Range(events) \cup {Head(event_queue)}
      <3>1. events' = Push(events, Head(event_queue))
        BY <1>3 DEF TakeEvent
      <3>2. events \in Seq(Events) /\ Len(events) <= Capacity
        BY DEF TypeOK
      <3>3. Range(Push(events, Head(event_queue))) \subseteq Range(events) \cup {Head(event_queue)}
        BY <2>2, <3>2, PushProperties
      <3>4. QED
        BY <3>1, <3>3
    <2>4. QED
      BY <1>0, <2>1, <2>2, <2>3, SameCopies DEF CopiesBounded
  <1>4. CASE StartSend \/ Refused
    <2>1. /\ UNCHANGED <<event_queue, events, collected, late, committed, faults>>
          /\ processor # "replied"
      BY <1>4 DEF StartSend, Refused, ConnError, serverVars, boundVars, historyVars
    <2>2. QED
      BY <2>1, SameCopies DEF CopiesBounded
  <1>5. CASE RequestLost
    <2> DEFINE x == [id |-> faults + 1, batch |-> send_cand]
    <2>1. /\ UNCHANGED <<event_queue, events, collected, committed>>
          /\ late' = late \cup {x} /\ faults' = faults + 1 /\ processor = "sending"
      BY <1>5 DEF RequestLost, ConnError
    <2>2. Range(x.batch) = Range(events)
      BY <2>1 DEF Snapshot
    <2>3. IsFiniteSet(late')
      BY <2>1, LateAdded DEF CopiesBounded
    <2>4. ASSUME NEW e \in Events
          PROVE  /\ Copies(e)' <= Copies(e) + 1
                 /\ e \notin Range(events) => Copies(e)' = Copies(e)
                 /\ Copies(e)' \in Nat
      <3>1. /\ Cardinality(LateWith(e)) \in Nat /\ Cardinality(LateWith(e)') \in Nat
            /\ Cardinality(LateWith(e)') <= Cardinality(LateWith(e)) + 1
            /\ e \notin Range(events) => LateWith(e)' = LateWith(e)
        BY <2>1, <2>2, LateAdded DEF CopiesBounded
      <3>2. QED
        BY <3>1, <2>1, <1>0 DEF Copies
    <2>5. ASSUME NEW e \in Range(events)
          PROVE  Copies(e) <= faults /\ e \in Range(collected) /\ e \notin Range(event_queue)
      BY <2>1, <1>0 DEF CopiesBounded, Known, OnePlace, Held
    <2>6. QED
      BY <1>0, <2>1, <2>3, <2>4, <2>5 DEF CopiesBounded
  <1>6. CASE ReplyLost
    <2>1. /\ UNCHANGED <<event_queue, events, collected, late, committed>>
          /\ faults' = faults + 1
      BY <1>6 DEF ReplyLost, ConnError, serverVars
    <2>2. QED
      BY <1>0, <2>1, SameCopies DEF CopiesBounded
  <1>7. CASE ReplyOk
    <2>1. /\ UNCHANGED <<event_queue, collected, late, committed, faults>>
          /\ Range(events') = {}
      BY <1>7, RemoveSnapshot, EmptyRange DEF ReplyOk, serverVars, boundVars
    <2>2. QED
      BY <2>1, SameCopies DEF CopiesBounded
  <1>8. CASE CreateEvent
    <2>1. /\ UNCHANGED <<event_queue, events, collected, late, faults>>
          /\ Commit(send_cand) /\ send_cand = events
          /\ processor = "sending" /\ processor' = "replied"
      BY <1>8 DEF CreateEvent, Snapshot, boundVars, historyVars
    <2>2. ASSUME NEW e \in Events
          PROVE  Copies(e)' = IF e \in Range(events) THEN Copies(e) + 1 ELSE Copies(e)
      <3>1. LateWith(e)' = LateWith(e) /\ Cardinality(LateWith(e)) \in Nat
        BY <2>1, FS_Subset, FS_CardinalityType DEF LateWith, CopiesBounded
      <3>2. committed'[e] = IF e \in Range(events) THEN committed[e] + 1 ELSE committed[e]
        BY <2>1 DEF Commit
      <3>3. QED
        BY <1>0, <3>1, <3>2 DEF Copies
    <2>3. \A e \in Range(events) : e \in Range(collected) /\ e \notin Range(event_queue)
      BY DEF Known, OnePlace, Held
    <2>4. QED
      BY <1>0, <2>1, <2>2, <2>3 DEF CopiesBounded
  <1>9. ASSUME NEW r \in late, CreateEventLate(r)
        PROVE  CopiesBounded'
    <2>1. /\ UNCHANGED <<event_queue, events, collected, faults, processor>>
          /\ late' = late \ {r}
          /\ Commit(r.batch) \/ UNCHANGED committed
      BY <1>9 DEF CreateEventLate, sensorVars, boundVars, historyVars
    <2>2. IsFiniteSet(late')
      BY <2>1, LateRemoved DEF CopiesBounded
    <2>3. ASSUME NEW e \in Events
          PROVE  Copies(e)' <= Copies(e) /\ Copies(e)' \in Nat
      <3>1. /\ Cardinality(LateWith(e)) \in Nat /\ Cardinality(LateWith(e)') \in Nat
            /\ Cardinality(LateWith(e)') = IF e \in Range(r.batch)
                                             THEN Cardinality(LateWith(e)) - 1
                                             ELSE Cardinality(LateWith(e))
        BY <2>1, LateRemoved DEF CopiesBounded
      <3>2. committed'[e] = committed[e]
            \/ committed'[e] = IF e \in Range(r.batch) THEN committed[e] + 1 ELSE committed[e]
        BY <2>1 DEF Commit
      <3>3. QED
        BY <1>0, <3>1, <3>2 DEF Copies
    <2>4. QED
      BY <1>0, <2>1, <2>2, <2>3 DEF CopiesBounded
  <1>10. CASE Restart
    <2>1. /\ UNCHANGED <<collected, committed, faults>>
          /\ Range(event_queue') = {} /\ Range(events') = {}
      BY <1>10, EmptyRange DEF Restart
    <2>2. CASE processor = "sending"
      <3> DEFINE x == [id |-> MaxFaults + restarts + 1, batch |-> send_cand]
      <3>1. late' = late \cup {x} /\ Range(x.batch) = Range(events)
        BY <1>10, <2>2 DEF Restart, Snapshot
      <3>2. IsFiniteSet(late')
        BY <3>1, LateAdded DEF CopiesBounded
      <3>3. ASSUME NEW e \in Events
            PROVE  /\ Copies(e)' <= Copies(e) + 1
                   /\ e \notin Range(events) => Copies(e)' = Copies(e)
                   /\ Copies(e)' \in Nat
        <4>1. /\ Cardinality(LateWith(e)) \in Nat /\ Cardinality(LateWith(e)') \in Nat
              /\ Cardinality(LateWith(e)') <= Cardinality(LateWith(e)) + 1
              /\ e \notin Range(events) => LateWith(e)' = LateWith(e)
          BY <3>1, LateAdded DEF CopiesBounded
        <4>2. QED
          BY <4>1, <2>1, <1>0 DEF Copies
      <3>4. \A e \in Range(events) : Copies(e) <= faults /\ e \in Range(collected)
        BY <2>2, <1>0 DEF CopiesBounded, Known, Held
      <3>5. QED
        BY <1>0, <2>1, <3>2, <3>3, <3>4 DEF CopiesBounded
    <2>3. CASE processor # "sending"
      BY <1>10, <2>1, <2>3, SameCopies DEF Restart, CopiesBounded
    <2>4. QED
      BY <2>2, <2>3
  <1>11. QED
    BY StepCases, <1>1, <1>2, <1>3, <1>4, <1>5, <1>6, <1>7, <1>8, <1>9, <1>10

\* At-least-once delivery is as close to exactly once as it can be: an event has
\* at most one copy on the server, and one more for each broken connection.
THEOREM SurplusCopies == Spec => []SurplusNeedsFault
  <1>1. IInv /\ CopiesBounded => SurplusNeedsFault
    <2> SUFFICES ASSUME IInv, CopiesBounded, NEW e \in Events
                 PROVE  committed[e] <= 1 + faults
      BY DEF SurplusNeedsFault
    <2>1. Cardinality(LateWith(e)) \in Nat
      BY FS_Subset, FS_CardinalityType DEF CopiesBounded, LateWith
    <2>2. committed[e] \in Nat /\ faults \in Nat
      BY PipelineAssumption DEF IInv, TypeOK
    <2>3. committed[e] + Cardinality(LateWith(e)) <= faults + 1
      BY DEF CopiesBounded, Copies
    <2>4. QED
      BY <2>1, <2>2, <2>3
  <1>2. IInv /\ IInv' /\ CopiesBounded /\ [Next]_vars => CopiesBounded'
    BY CopiesPreserved
  <1>3. QED
    BY <1>1, <1>2, InitCopies, SpecIInv, PTL DEF Spec

-----------------------------------------------------------------------------
(* A full ring buffer *)

\* The processor meets a full buffer in its loop, or on the way there, only after
\* a submission that was not possible or failed; before the start it is empty.
FullInv ==
    /\ processor = "off" => events = <<>>
    /\ Len(events) = Capacity =>
         /\ processor = "get" => outcome \in {"offline", "failed"}
         /\ processor \in {"hook", "led"} => outcome = "failed"

\* Every action keeps it.
LEMMA FullPreserved ==
    ASSUME IInv, FullInv, [Next]_vars
    PROVE  FullInv'
  <1> USE PipelineAssumption DEF IInv, FullInv, serverVars, boundVars, historyVars
  <1>0. Len(<<>>) = 0 /\ Capacity > 0
    OBVIOUS
  <1>1. CASE PollOk \/ PollFail
    BY <1>0, <1>1 DEF PollOk, PollFail, Started
  <1>2. CASE PollLedCheck \/ PollLedAge
    BY <1>0, <1>2 DEF PollLedCheck, PollLedAge, Started
  <1>3. CASE Expire \/ QueueEmpty \/ IsOnlineCheck
    BY <1>3 DEF Expire, QueueEmpty, IsOnlineCheck
  <1>4. CASE StartSend \/ SkipSend
    BY <1>0, <1>4 DEF StartSend, SkipSend
  <1>5. CASE ProcLedCheck \/ ProcLedAge
    BY <1>5 DEF ProcLedCheck, ProcLedAge
  <1>6. CASE TakeEvent
    BY <1>6 DEF TakeEvent
  <1>7. CASE Refused \/ RequestLost \/ ReplyLost
    BY <1>7 DEF Refused, RequestLost, ReplyLost, ConnError
  <1>8. CASE ReplyOk
    BY <1>0, <1>8, RemoveSnapshot DEF ReplyOk
  <1>9. CASE CreateEvent
    BY <1>9 DEF CreateEvent
  <1>10. ASSUME NEW r \in late, CreateEventLate(r)
         PROVE  FullInv'
    BY <1>10 DEF CreateEventLate, sensorVars
  <1>11. ASSUME NEW e \in Events, Receive(e)
         PROVE  FullInv'
    BY <1>11 DEF Receive
  <1>12. CASE Restart
    BY <1>12 DEF Restart
  <1>13. CASE UNCHANGED vars
    BY <1>13 DEF vars, sensorVars
  <1>14. QED
    BY <1>1, <1>2, <1>3, <1>4, <1>5, <1>6, <1>7, <1>8, <1>9, <1>10, <1>11, <1>12, <1>13
       DEF Next, Processor, Poller, Network, Server

\* The ring buffer is left full, so that the next event overwrites one, only when
\* the submission it triggered was impossible or failed.
THEOREM OverwritesAfterFailure == Spec => []FullOnlyAfterFailure
  <1>1. Init => FullInv
    BY PipelineAssumption DEF Init, FullInv
  <1>2. IInv /\ FullInv /\ [Next]_vars => FullInv'
    BY FullPreserved
  <1>3. FullInv => FullOnlyAfterFailure
    BY DEF FullInv, FullOnlyAfterFailure
  <1>4. QED
    BY <1>1, <1>2, <1>3, SpecIInv, PTL DEF Spec

-----------------------------------------------------------------------------
(* The order of events *)

\* A sequence c cut in three: g elements, then the buffer b, then the queue q.
Cut(c, g, b, q) ==
    /\ g \in Nat
    /\ Len(c) = g + Len(b) + Len(q)
    /\ \A k \in 1..Len(b) : b[k] = c[g + k]
    /\ \A k \in 1..Len(q) : q[k] = c[g + Len(b) + k]

\* A new element joins the queue.
LEMMA CutGrows ==
    ASSUME NEW S, NEW c \in Seq(S), NEW b \in Seq(S), NEW q \in Seq(S), NEW g,
           NEW e \in S, Cut(c, g, b, q)
    PROVE  Cut(Append(c, e), g, b, Append(q, e))
  <1> DEFINE d == Append(c, e)
             r == Append(q, e)
  <1>1. /\ Len(d) = Len(c) + 1 /\ Len(c) \in Nat
        /\ \A i \in 1..Len(c) : d[i] = c[i]
        /\ d[Len(c) + 1] = e
    BY AppendProperties
  <1>2. /\ Len(r) = Len(q) + 1 /\ Len(q) \in Nat
        /\ \A i \in 1..Len(q) : r[i] = q[i]
        /\ r[Len(q) + 1] = e
    BY AppendProperties
  <1>3. Len(b) \in Nat
    OBVIOUS
  <1> HIDE DEF d, r
  <1>0. g \in Nat /\ Len(c) = g + Len(b) + Len(q)
    BY DEF Cut
  <1>4. \A k \in 1..Len(b) : b[k] = d[g + k]
    BY <1>0, <1>1, <1>2, <1>3 DEF Cut
  <1>5. \A k \in 1..Len(r) : r[k] = d[g + Len(b) + k]
    <2>1. ASSUME NEW k \in 1..Len(q)
          PROVE  r[k] = d[g + Len(b) + k]
      <3>1. r[k] = q[k] /\ q[k] = c[g + Len(b) + k]
        BY <1>2 DEF Cut
      <3>2. g + Len(b) + k \in 1..Len(c)
        BY <1>0, <1>2, <1>3
      <3>3. QED
        BY <1>1, <3>1, <3>2
    <2>2. r[Len(q) + 1] = d[g + Len(b) + (Len(q) + 1)]
      <3>1. g + Len(b) + (Len(q) + 1) = Len(c) + 1
        BY <1>0, <1>2, <1>3
      <3>2. QED
        BY <1>1, <1>2, <3>1
    <2>3. \A k \in 1..Len(r) : k \in 1..Len(q) \/ k = Len(q) + 1
      BY <1>2
    <2>4. QED
      BY <2>1, <2>2, <2>3
  <1>6. Cut(d, g, b, r)
    <2>1. Len(d) = g + Len(b) + Len(r)
      BY <1>0, <1>1, <1>2, <1>3
    <2>2. QED
      BY ONLY <1>0, <1>4, <1>5, <2>1 DEF Cut
  <1>7. QED
    BY <1>6 DEF d, r

\* The head of the queue moves to the end of the buffer.
LEMMA CutMoves ==
    ASSUME NEW S, NEW c \in Seq(S), NEW b \in Seq(S), NEW q \in Seq(S), NEW g,
           Cut(c, g, b, q), q # <<>>
    PROVE  Cut(c, g, Append(b, Head(q)), Tail(q))
  <1> DEFINE d == Append(b, Head(q))
             r == Tail(q)
  <1>1. /\ Len(r) = Len(q) - 1 /\ Len(q) \in Nat /\ Len(q) >= 1
        /\ Head(q) \in S /\ Head(q) = q[1]
        /\ \A k \in 1..(Len(q) - 1) : r[k] = q[k + 1]
    BY HeadTailProperties, EmptySeq
  <1>2. /\ Len(d) = Len(b) + 1 /\ Len(b) \in Nat
        /\ \A k \in 1..Len(b) : d[k] = b[k]
        /\ d[Len(b) + 1] = q[1]
    BY <1>1, AppendProperties
  <1> HIDE DEF d, r
  <1>3. \A k \in 1..Len(d) : d[k] = c[g + k]
    <2>1. q[1] = c[g + Len(b) + 1]
      BY <1>1 DEF Cut
    <2>2. ASSUME NEW k \in 1..Len(b)
          PROVE  d[k] = c[g + k]
      BY <1>2 DEF Cut
    <2>3. d[Len(b) + 1] = c[g + (Len(b) + 1)]
      <3>1. g + (Len(b) + 1) = g + Len(b) + 1
        BY <1>2 DEF Cut
      <3>2. QED
        BY <1>2, <2>1, <3>1
    <2>4. \A k \in 1..Len(d) : k \in 1..Len(b) \/ k = Len(b) + 1
      BY <1>2
    <2>5. QED
      BY <2>2, <2>3, <2>4
  <1>4. ASSUME NEW k \in 1..Len(r)
        PROVE  r[k] = c[g + Len(d) + k]
    <2>1. k + 1 \in 1..Len(q) /\ r[k] = q[k + 1]
      BY <1>1
    <2>2. q[k + 1] = c[g + Len(b) + (k + 1)]
      BY <2>1 DEF Cut
    <2>3. g + Len(b) + (k + 1) = g + Len(d) + k
      BY <1>2 DEF Cut
    <2>4. QED
      BY <2>1, <2>2, <2>3
  <1>5. Cut(c, g, d, r)
    <2>1. g \in Nat /\ Len(c) = g + Len(b) + Len(q)
      BY DEF Cut
    <2>2. Len(c) = g + Len(d) + Len(r)
      <3>1. Len(d) = Len(b) + 1 /\ Len(r) = Len(q) - 1
        BY <1>1, <1>2
      <3>2. Len(b) \in Nat /\ Len(q) \in Nat
        BY <1>1, <1>2
      <3>3. QED
        BY ONLY <2>1, <3>1, <3>2
    <2>3. QED
      BY ONLY <2>1, <2>2, <1>3, <1>4 DEF Cut
  <1>6. QED
    BY <1>5 DEF d, r

\* The head of the buffer is dropped.
LEMMA CutDrops ==
    ASSUME NEW S, NEW c \in Seq(S), NEW b \in Seq(S), NEW q \in Seq(S), NEW g,
           Cut(c, g, b, q), b # <<>>
    PROVE  Cut(c, g + 1, Tail(b), q) /\ c[g + 1] = Head(b)
  <1> DEFINE d == Tail(b)
  <1>1. /\ Len(d) = Len(b) - 1 /\ Len(b) \in Nat /\ Len(b) >= 1
        /\ Head(b) = b[1]
        /\ \A k \in 1..(Len(b) - 1) : d[k] = b[k + 1]
    BY HeadTailProperties, EmptySeq
  <1>2. Len(q) \in Nat
    OBVIOUS
  <1> HIDE DEF d
  <1>3. ASSUME NEW k \in 1..Len(d)
        PROVE  d[k] = c[(g + 1) + k]
    <2>1. k + 1 \in 1..Len(b) /\ d[k] = b[k + 1]
      BY <1>1
    <2>2. b[k + 1] = c[g + (k + 1)] /\ g + (k + 1) = (g + 1) + k
      BY <2>1 DEF Cut
    <2>3. QED
      BY <2>1, <2>2
  <1>4. \A k \in 1..Len(q) : q[k] = c[(g + 1) + Len(d) + k]
    BY <1>1, <1>2 DEF Cut
  <1>5. c[g + 1] = Head(b)
    BY <1>1 DEF Cut
  <1>6. Cut(c, g + 1, d, q)
    <2>1. g \in Nat /\ Len(c) = g + Len(b) + Len(q)
      BY DEF Cut
    <2>2. g + 1 \in Nat /\ Len(c) = (g + 1) + Len(d) + Len(q)
      <3>1. Len(d) = Len(b) - 1 /\ Len(b) \in Nat
        BY <1>1
      <3>2. QED
        BY ONLY <2>1, <3>1, <1>2
    <2>3. QED
      BY ONLY <2>2, <1>3, <1>4 DEF Cut
  <1>7. QED
    BY <1>5, <1>6 DEF d

\* How many of the collected events have left both queues.
Gone == Len(collected) - Len(event_queue) - Len(events)

Done(e) == committed[e] > 0 \/ e \in dropped

\* The history of collected events, cut in three: those that have left the sensor,
\* the ring buffer, and the queue, each in the order of collection.
InOrder ==
    /\ Distinct(collected)
    /\ Cut(collected, Gone, events, event_queue)
    /\ \A i \in 1..Gone : Done(collected[i])

\* What is or may still be committed has no gap before it.
Committed ==
    /\ \A e \in Events : committed[e] > 0 => e \in Range(collected)
    /\ \A i, j \in 1..Len(collected) :
         i < j /\ committed[collected[j]] > 0 => Done(collected[i])
    /\ \A r \in late : \A i, j \in 1..Len(collected) :
         i < j /\ collected[j] \in Range(r.batch)
           => collected[i] \in Range(r.batch) \/ Done(collected[i])

OrderInv == InOrder /\ Committed

\* A cut of what was collected says how much is gone.
LEMMA CutGone ==
    ASSUME TypeOK, NEW g, Cut(collected, g, events, event_queue)
    PROVE  Gone = g
  BY DEF TypeOK, Cut, Gone

\* The ring buffer leaves no gap: what was collected before one of its events is in
\* it, too, or done.
LEMMA NoGapBefore ==
    ASSUME TypeOK, InOrder, NEW i \in 1..Len(collected), NEW j \in 1..Len(collected),
           i < j, collected[j] \in Range(events)
    PROVE  collected[i] \in Range(events) \/ Done(collected[i])
  <1>0. /\ Len(collected) \in Nat /\ Len(events) \in Nat /\ Len(event_queue) \in Nat
        /\ Gone \in Nat /\ Len(collected) = Gone + Len(events) + Len(event_queue)
    BY DEF TypeOK, InOrder, Cut
  <1>1. Range(events) = {events[k] : k \in 1..Len(events)}
    BY RangeDef DEF TypeOK
  <1>2. PICK k \in 1..Len(events) : collected[j] = events[k]
    BY <1>1
  <1>3. Gone + k \in 1..Len(collected) /\ events[k] = collected[Gone + k]
    BY <1>0 DEF InOrder, Cut
  <1>4. j = Gone + k
    BY <1>2, <1>3 DEF InOrder, Distinct
  <1>5. CASE i \in 1..Gone
    BY <1>5 DEF InOrder
  <1>6. CASE i \notin 1..Gone
    <2>1. i - Gone \in 1..Len(events) /\ Gone + (i - Gone) = i
      BY <1>0, <1>4, <1>6
    <2>2. collected[i] = events[i - Gone]
      BY <2>1 DEF InOrder, Cut
    <2>3. QED
      BY <1>1, <2>1, <2>2
  <1>7. QED
    BY <1>5, <1>6

\* The order survives any step that keeps the three sequences and forgets nothing.
LEMMA SameOrder ==
    ASSUME TypeOK, InOrder, UNCHANGED <<collected, event_queue, events>>,
           \A i \in 1..Len(collected) : Done(collected[i]) => Done(collected[i])'
    PROVE  InOrder'
  <1>1. Gone' = Gone
    BY DEF Gone
  <1>2. 1..Gone \subseteq 1..Len(collected)
    BY DEF TypeOK, InOrder, Cut
  <1>3. QED
    BY <1>1, <1>2 DEF InOrder

\* What a step without a commit leaves alone.
LEMMA SameCommitted ==
    ASSUME TypeOK, Committed, UNCHANGED <<collected, committed>>, dropped \subseteq dropped',
           \A r \in late' : r \in late \/
               (\A i, j \in 1..Len(collected) :
                  i < j /\ collected[j] \in Range(r.batch)
                    => collected[i] \in Range(r.batch) \/ Done(collected[i]))
    PROVE  Committed' /\ \A e : Done(e) => Done(e)'
  <1>1. \A e : Done(e) => Done(e)'
    BY DEF Done
  <1>2. QED
    BY <1>1 DEF Committed

\* A commit of a batch without a gap before it leaves no gap.
LEMMA CommitKeepsOrder ==
    ASSUME IInv, Committed, NEW batch, Commit(batch), UNCHANGED <<collected, dropped>>,
           late' \subseteq late, Range(batch) \subseteq Range(collected),
           \A i, j \in 1..Len(collected) :
             i < j /\ collected[j] \in Range(batch)
               => collected[i] \in Range(batch) \/ Done(collected[i])
    PROVE  Committed' /\ \A i \in 1..Len(collected) : Done(collected[i]) => Done(collected[i])'
  <1>1. \A i \in 1..Len(collected) : collected[i] \in Events
    BY DEF IInv, TypeOK
  <1>2. \A e \in Events : /\ committed[e] > 0 => committed'[e] > 0
                          /\ e \in Range(batch) => committed'[e] > 0
                          /\ committed'[e] > 0 => committed[e] > 0 \/ e \in Range(batch)
    BY CommitCounts DEF IInv, Commit, TypeOK
  <1>3. \A i \in 1..Len(collected) :
          /\ Done(collected[i]) => Done(collected[i])'
          /\ collected[i] \in Range(batch) => Done(collected[i])'
    BY <1>1, <1>2 DEF Done
  <1>4. \A e \in Events : committed'[e] > 0 => e \in Range(collected')
    BY <1>2 DEF Committed
  <1>5. ASSUME NEW i \in 1..Len(collected), NEW j \in 1..Len(collected),
               i < j, committed'[collected[j]] > 0
        PROVE  Done(collected[i])'
    <2>1. committed[collected[j]] > 0 \/ collected[j] \in Range(batch)
      BY <1>1, <1>2, <1>5
    <2>2. QED
      BY <1>3, <1>5, <2>1 DEF Committed
  <1>6. ASSUME NEW r \in late', NEW i \in 1..Len(collected), NEW j \in 1..Len(collected),
               i < j, collected[j] \in Range(r.batch)
        PROVE  collected[i] \in Range(r.batch) \/ Done(collected[i])'
    BY <1>3, <1>6 DEF Committed
  <1>7. QED
    BY <1>3, <1>4, <1>5, <1>6 DEF Committed

\* A received event is the newest, and nothing of it can have been committed.
LEMMA ReceiveKeepsOrder ==
    ASSUME IInv, OrderInv, IInv', NEW e \in Events, Receive(e)
    PROVE  OrderInv'
  <1> DEFINE n == Len(collected)
  <1>0. TypeOK /\ TypeOK' /\ Known /\ InOrder /\ Committed
    BY DEF IInv, OrderInv
  <1>1. /\ UNCHANGED <<events, late, committed, dropped>>
        /\ event_queue' = Append(event_queue, e) /\ collected' = Append(collected, e)
        /\ e \notin Range(collected)
    BY DEF Receive, serverVars
  <1>2. /\ Len(collected') = n + 1 /\ n \in Nat
        /\ \A i \in 1..n : collected'[i] = collected[i]
        /\ collected'[n + 1] = e
    BY <1>0, <1>1, AppendProperties DEF TypeOK
  <1>3. Range(collected') = Range(collected) \cup {e} /\ Distinct(collected')
    BY <1>0, <1>1, AppendRange DEF TypeOK, InOrder
  <1>4. \A d : Done(d)' = Done(d)
    BY <1>1 DEF Done
  <1>5. InOrder'
    <2>1. /\ Cut(collected', Gone, events', event_queue')
          /\ \A i \in 1..Gone : collected'[i] = collected[i]
      <3>1. /\ collected \in Seq(Events) /\ events \in Seq(Events)
            /\ event_queue \in Seq(Events) /\ Cut(collected, Gone, events, event_queue)
        BY <1>0 DEF TypeOK, InOrder
      <3>2. Cut(Append(collected, e), Gone, events, Append(event_queue, e))
        BY <3>1, CutGrows
      <3>3. 1..Gone \subseteq 1..n
        BY <3>1 DEF Cut
      <3>4. QED
        BY <1>1, <1>2, <3>2, <3>3
    <2>2. Gone' = Gone
      BY <1>0, <2>1 DEF TypeOK, Cut, Gone
    <2>3. \A i \in 1..Gone : Done(collected[i])'
      BY <1>0, <1>4, <2>1 DEF InOrder
    <2>4. QED
      BY <1>3, <2>1, <2>2, <2>3 DEF InOrder
  <1>6. Committed'
    <2>1. committed[e] = 0 /\ \A r \in late : e \notin Range(r.batch)
      BY <1>0, <1>1 DEF Committed, Known, TypeOK
    <2>2. \A d \in Events : committed'[d] > 0 => d \in Range(collected')
      BY <1>0, <1>1, <1>3 DEF Committed
    <2>3. ASSUME NEW i \in 1..Len(collected'), NEW j \in 1..Len(collected'), i < j
          PROVE  /\ i \in 1..n /\ collected'[i] = collected[i]
                 /\ (j \in 1..n /\ collected'[j] = collected[j]) \/ collected'[j] = e
      BY <1>2, <2>3
    <2>4. ASSUME NEW i \in 1..Len(collected'), NEW j \in 1..Len(collected'), i < j,
                 committed'[collected'[j]] > 0
          PROVE  Done(collected[i])'
      <3>1. collected'[j] # e
        BY <1>1, <2>1, <2>4
      <3>2. QED
        BY <1>0, <1>1, <1>4, <2>3, <2>4, <3>1 DEF Committed
    <2>5. ASSUME NEW r \in late', NEW i \in 1..Len(collected'), NEW j \in 1..Len(collected'),
                 i < j, collected'[j] \in Range(r.batch)
          PROVE  collected'[i] \in Range(r.batch) \/ Done(collected[i])'
      <3>1. collected'[j] # e
        BY <1>1, <2>1, <2>5
      <3>2. QED
        BY <1>0, <1>1, <1>4, <2>3, <2>5, <3>1 DEF Committed
    <2>6. QED
      BY <2>2, <2>4, <2>5 DEF Committed
  <1>7. QED
    BY <1>5, <1>6 DEF OrderInv

\* The oldest event of the queue becomes the newest of the buffer; the one it
\* overwrites is the oldest there.
LEMMA TakeEventKeepsOrder ==
    ASSUME IInv, OrderInv, IInv', TakeEvent
    PROVE  OrderInv'
  <1> DEFINE e == Head(event_queue)
  <1>0. TypeOK /\ TypeOK' /\ InOrder /\ Committed
    BY DEF IInv, OrderInv
  <1>1. /\ UNCHANGED <<collected, late, committed>>
        /\ event_queue # <<>> /\ event_queue' = Tail(event_queue)
        /\ events' = Push(events, e) /\ dropped' = dropped \cup Overwritten(events)
    BY DEF TakeEvent, serverVars
  <1>2. Committed' /\ \A d : Done(d) => Done(d)'
    BY <1>0, <1>1, SameCommitted
  <1>3. /\ collected \in Seq(Events) /\ events \in Seq(Events) /\ event_queue \in Seq(Events)
        /\ Cut(collected, Gone, events, event_queue)
    BY <1>0 DEF TypeOK, InOrder
  <1>4. CASE Len(events) # Capacity
    <2>1. Cut(collected, Gone, Append(events, e), Tail(event_queue))
      BY <1>1, <1>3, CutMoves
    <2>2. Cut(collected', Gone, events', event_queue')
      BY <1>1, <1>4, <2>1 DEF Push
    <2>3. Gone' = Gone
      BY <1>0, <2>2 DEF TypeOK, Cut, Gone
    <2>4. QED
      BY <1>0, <1>1, <1>2, <2>2, <2>3 DEF InOrder, OrderInv
  <1>5. CASE Len(events) = Capacity
    <2>1. events # <<>>
      BY <1>5, PipelineAssumption
    <2>2. /\ Cut(collected, Gone + 1, Tail(events), event_queue)
          /\ collected[Gone + 1] = Head(events)
      BY <1>3, <2>1, CutDrops
    <2>3. Tail(events) \in Seq(Events)
      BY <1>3, <2>1, HeadTailProperties
    <2>4. Cut(collected, Gone + 1, Append(Tail(events), e), Tail(event_queue))
      BY <1>1, <1>3, <2>2, <2>3, CutMoves
    <2>5. Cut(collected', Gone + 1, events', event_queue')
      BY <1>1, <1>5, <2>4 DEF Push
    <2>6. Gone' = Gone + 1
      BY <1>0, <2>5 DEF TypeOK, Cut, Gone
    <2>7. Head(events) \in dropped'
      BY <1>1, <1>5 DEF Overwritten
    <2>8. ASSUME NEW i \in 1..(Gone + 1)
          PROVE  Done(collected[i])'
      <3>1. i \in 1..Gone \/ i = Gone + 1
        BY <1>3 DEF Cut
      <3>2. CASE i \in 1..Gone
        BY <1>0, <1>2, <1>1, <3>2 DEF InOrder
      <3>3. CASE i = Gone + 1
        <4>1. collected'[i] = Head(events)
          BY <1>1, <2>2, <3>3
        <4>2. QED
          BY <4>1, <2>7 DEF Done
      <3>4. QED
        BY <3>1, <3>2, <3>3
    <2>9. \A i \in 1..Gone' : Done(collected[i])'
      BY <2>6, <2>8
    <2>10. QED
      BY <1>0, <1>1, <1>2, <2>5, <2>6, <2>9 DEF InOrder, OrderInv
  <1>6. QED
    BY <1>4, <1>5

\* A step that sends, fails or only moves a thread keeps the order; a request that
\* becomes late carries the ring buffer.
LEMMA OthersKeepOrder ==
    ASSUME IInv, OrderInv, Quiet \/ StartSend \/ Refused \/ RequestLost \/ ReplyLost
    PROVE  OrderInv'
  <1>0. TypeOK /\ Snapshot /\ InOrder /\ Committed
    BY DEF IInv, OrderInv
  <1>1. UNCHANGED <<event_queue, events, collected, committed, dropped>>
    BY DEF Quiet, StartSend, Refused, RequestLost, ReplyLost, ConnError, serverVars, historyVars
  <1>2. ASSUME NEW r \in late', r \notin late
        PROVE  Range(r.batch) = Range(events)
    <2>1. RequestLost
      BY <1>2 DEF Quiet, StartSend, Refused, ReplyLost, serverVars
    <2>2. r = [id |-> faults + 1, batch |-> send_cand] /\ send_cand = events
      BY <1>0, <1>2, <2>1 DEF RequestLost, Snapshot
    <2>3. QED
      BY <2>2
  <1>3. ASSUME NEW r \in late', r \notin late,
               NEW i \in 1..Len(collected), NEW j \in 1..Len(collected),
               i < j, collected[j] \in Range(r.batch)
        PROVE  collected[i] \in Range(r.batch) \/ Done(collected[i])
    BY <1>0, <1>2, <1>3, NoGapBefore
  <1>4. Committed' /\ \A e : Done(e) => Done(e)'
    BY <1>0, <1>1, <1>3, SameCommitted
  <1>5. InOrder'
    BY <1>0, <1>1, <1>4, SameOrder
  <1>6. QED
    BY <1>4, <1>5 DEF OrderInv

\* The answer releases the whole buffer, and the server has committed it.
LEMMA ReplyOkKeepsOrder ==
    ASSUME IInv, OrderInv, ReplyOk
    PROVE  OrderInv'
  <1>0. TypeOK /\ Snapshot /\ InOrder /\ Committed
    BY DEF IInv, OrderInv
  <1>1. /\ UNCHANGED <<event_queue, collected, late, committed, dropped>>
        /\ events' = <<>> /\ \A e \in Range(events) : committed[e] > 0
    BY <1>0, RemoveSnapshot DEF ReplyOk, Snapshot, serverVars
  <1>2. Committed' /\ \A e : Done(e) => Done(e)'
    BY <1>0, <1>1, SameCommitted
  <1>3. /\ Len(events) \in Nat /\ Len(event_queue) \in Nat /\ Gone \in Nat
        /\ Len(collected) = Gone + Len(events) + Len(event_queue)
        /\ Len(<<>>) = 0
    BY <1>0 DEF TypeOK, InOrder, Cut
  <1>4. Gone' = Gone + Len(events)
    BY <1>1, <1>3 DEF Gone
  <1>5. \A i \in 1..(Gone + Len(events)) : Done(collected[i])
    <2>1. ASSUME NEW k \in 1..Len(events)
          PROVE  Done(collected[Gone + k])
      <3>1. collected[Gone + k] = events[k]
        BY <1>0 DEF InOrder, Cut
      <3>2. events[k] \in Range(events)
        <4>1. events \in Seq(Events)
          BY <1>0 DEF TypeOK
        <4>2. QED
          BY ONLY <2>1, <4>1, RangeDef
      <3>3. QED
        BY <1>1, <3>1, <3>2 DEF Done
    <2>2. ASSUME NEW i \in 1..(Gone + Len(events)), i \notin 1..Gone
          PROVE  i - Gone \in 1..Len(events) /\ Gone + (i - Gone) = i
      BY <1>3, <2>2
    <2>3. \A i \in 1..Gone : Done(collected[i])
      BY <1>0 DEF InOrder
    <2>4. ASSUME NEW i \in 1..(Gone + Len(events))
          PROVE  Done(collected[i])
      <3>1. CASE i \in 1..Gone
        BY <2>3, <3>1
      <3>2. CASE i \notin 1..Gone
        <4>1. i - Gone \in 1..Len(events) /\ Gone + (i - Gone) = i
          BY <2>2, <3>2
        <4>2. Done(collected[Gone + (i - Gone)])
          BY <2>1, <4>1
        <4>3. QED
          BY <4>1, <4>2
      <3>3. QED
        BY <3>1, <3>2
    <2>5. QED
      BY <2>4
  <1>6. \A k \in 1..Len(event_queue) : event_queue[k] = collected[Gone + Len(events) + 0 + k]
    BY <1>0, <1>3 DEF InOrder, Cut
  <1>7. Cut(collected, Gone + Len(events), <<>>, event_queue)
    BY <1>3, <1>6 DEF Cut
  <1>8. InOrder'
    BY <1>0, <1>1, <1>2, <1>4, <1>5, <1>7 DEF InOrder
  <1>9. QED
    BY <1>2, <1>8 DEF OrderInv

\* A commit, of the snapshot or of a late request, closes a gap or leaves none.
LEMMA CommitsKeepOrder ==
    ASSUME IInv, OrderInv, CreateEvent \/ \E r \in late : CreateEventLate(r)
    PROVE  OrderInv'
  <1>0. TypeOK /\ Snapshot /\ Known /\ InOrder /\ Committed
    BY DEF IInv, OrderInv
  <1>1. CASE CreateEvent
    <2>1. /\ UNCHANGED <<event_queue, events, collected, dropped, late>>
          /\ Commit(send_cand) /\ send_cand = events
      BY <1>0, <1>1 DEF CreateEvent, Snapshot, boundVars, historyVars
    <2>2. Range(send_cand) \subseteq Range(collected)
      BY <1>0, <2>1 DEF Known, Held
    <2>3. Committed' /\ \A i \in 1..Len(collected) : Done(collected[i]) => Done(collected[i])'
      BY <1>0, <2>1, <2>2, NoGapBefore, CommitKeepsOrder
    <2>4. QED
      BY <1>0, <2>1, <2>3, SameOrder DEF OrderInv
  <1>2. ASSUME NEW r \in late, CreateEventLate(r)
        PROVE  OrderInv'
    <2>1. /\ UNCHANGED <<event_queue, events, collected, dropped>>
          /\ late' \subseteq late
      BY <1>2 DEF CreateEventLate, sensorVars, historyVars
    <2>2. CASE UNCHANGED committed
      <3>1. Committed' /\ \A e : Done(e) => Done(e)'
        BY <1>0, <2>1, <2>2, SameCommitted
      <3>2. QED
        BY <1>0, <2>1, <3>1, SameOrder DEF OrderInv
    <2>3. CASE Commit(r.batch)
      <3>1. Range(r.batch) \subseteq Range(collected)
        BY <1>0 DEF Known
      <3>2. \A i, j \in 1..Len(collected) :
              i < j /\ collected[j] \in Range(r.batch)
                => collected[i] \in Range(r.batch) \/ Done(collected[i])
        BY <1>0 DEF Committed
      <3>3. Committed' /\ \A i \in 1..Len(collected) : Done(collected[i]) => Done(collected[i])'
        BY <1>0, <2>1, <2>3, <3>1, <3>2, CommitKeepsOrder
      <3>4. QED
        BY <1>0, <2>1, <3>3, SameOrder DEF OrderInv
    <2>4. QED
      BY <1>2, <2>2, <2>3 DEF CreateEventLate
  <1>3. QED
    BY <1>1, <1>2

\* A restart drops everything that is not gone; the request under way carries the
\* ring buffer.
LEMMA RestartKeepsOrder ==
    ASSUME IInv, OrderInv, Restart
    PROVE  OrderInv'
  <1>0. TypeOK /\ Snapshot /\ InOrder /\ Committed
    BY DEF IInv, OrderInv
  <1>1. /\ UNCHANGED <<collected, committed>>
        /\ dropped' = dropped \cup Range(event_queue) \cup Range(events)
        /\ event_queue' = <<>> /\ events' = <<>>
    BY DEF Restart
  <1>2. ASSUME NEW r \in late', r \notin late
        PROVE  Range(r.batch) = Range(events)
    BY <1>0, <1>2 DEF Restart, Snapshot
  <1>3. ASSUME NEW r \in late', r \notin late,
               NEW i \in 1..Len(collected), NEW j \in 1..Len(collected),
               i < j, collected[j] \in Range(r.batch)
        PROVE  collected[i] \in Range(r.batch) \/ Done(collected[i])
    BY <1>0, <1>2, <1>3, NoGapBefore
  <1>4. Committed' /\ \A e : Done(e) => Done(e)'
    BY <1>0, <1>1, <1>3, SameCommitted
  <1>5. /\ Len(collected) \in Nat /\ Len(events) \in Nat /\ Len(event_queue) \in Nat /\ Gone \in Nat
        /\ Len(collected) = Gone + Len(events) + Len(event_queue)
        /\ Len(<<>>) = 0
    BY <1>0 DEF TypeOK, InOrder, Cut
  <1>6. ASSUME NEW i \in 1..Len(collected)
        PROVE  Done(collected[i])'
    <2>1. CASE i \in 1..Gone
      BY <1>0, <1>1, <1>4, <2>1 DEF InOrder
    <2>2. CASE i \notin 1..Gone /\ i - Gone \in 1..Len(events)
      <3>1. events[i - Gone] = collected[Gone + (i - Gone)] /\ Gone + (i - Gone) = i
        BY <1>0, <1>5, <2>2 DEF InOrder, Cut
      <3>2. events[i - Gone] \in Range(events)
        BY <1>0, <2>2, RangeDef DEF TypeOK
      <3>3. QED
        BY <1>1, <3>1, <3>2 DEF Done
    <2>3. CASE i \notin 1..Gone /\ i - Gone \notin 1..Len(events)
      <3> DEFINE k == i - Gone - Len(events)
      <3>1. k \in 1..Len(event_queue) /\ Gone + Len(events) + k = i
        BY <1>5, <2>3
      <3> HIDE DEF k
      <3>2. event_queue[k] = collected[i]
        BY <1>0, <3>1 DEF InOrder, Cut
      <3>3. event_queue[k] \in Range(event_queue)
        BY <1>0, <3>1, RangeDef DEF TypeOK
      <3>4. QED
        BY <1>1, <3>2, <3>3 DEF Done
    <2>4. QED
      BY <2>1, <2>2, <2>3
  <1>7. Gone' = Len(collected)
    BY <1>1, <1>5 DEF Gone
  <1>8. Cut(collected, Len(collected), <<>>, <<>>)
    BY <1>5 DEF Cut
  <1>9. InOrder'
    BY <1>0, <1>1, <1>6, <1>7, <1>8 DEF InOrder
  <1>10. QED
    BY <1>4, <1>9 DEF OrderInv

\* Nothing is collected or committed at the start.
LEMMA InitOrder == Init => OrderInv
  <1> SUFFICES ASSUME Init PROVE OrderInv
    OBVIOUS
  <1>0. collected = <<>> /\ events = <<>> /\ event_queue = <<>> /\ Len(<<>>) = 0
    BY DEF Init
  <1>1. Len(collected) = 0 /\ Gone = 0 /\ Distinct(collected)
    <2>1. Len(collected) = 0 /\ Len(events) = 0 /\ Len(event_queue) = 0
      BY <1>0, Zenon
    <2>2. Gone = 0
      BY <2>1 DEF Gone
    <2>3. Distinct(collected)
      BY <1>0, EmptyRange
    <2>4. QED
      BY <2>1, <2>2, <2>3
  <1>2. Cut(collected, Gone, events, event_queue)
    BY <1>1 DEF Init, Cut
  <1>3. QED
    BY <1>1, <1>2 DEF Init, OrderInv, InOrder, Committed

\* Every action keeps the order.
LEMMA OrderPreserved ==
    ASSUME IInv, IInv', OrderInv, [Next]_vars
    PROVE  OrderInv'
  <1>1. TypeOK
    BY DEF IInv
  <1>2. QED
    BY <1>1, StepCases, ReceiveKeepsOrder, TakeEventKeepsOrder, OthersKeepOrder,
       ReplyOkKeepsOrder, CommitsKeepOrder, RestartKeepsOrder

\* The server never processes an event while an older one of the same sensor still
\* waits for its first submission, whatever requests come late.
THEOREM BatchesLeaveNoGaps == Spec => []NoGaps
  <1>1. IInv /\ OrderInv => NoGaps
    <2> SUFFICES ASSUME IInv, OrderInv PROVE NoGaps
      OBVIOUS
    <2>1. DOMAIN collected = 1..Len(collected)
      BY DEF IInv, TypeOK
    <2>2. \A i, j \in 1..Len(collected) :
            i < j /\ committed[collected[j]] > 0
              => committed[collected[i]] > 0 \/ collected[i] \in dropped
      BY DEF OrderInv, Committed, Done
    <2>3. QED
      BY <2>1, <2>2 DEF NoGaps
  <1>2. IInv /\ IInv' /\ OrderInv /\ [Next]_vars => OrderInv'
    BY OrderPreserved
  <1>3. QED
    BY <1>1, <1>2, InitOrder, SpecIInv, PTL DEF Spec

=============================================================================
