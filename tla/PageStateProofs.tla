--------------------------- MODULE PageStateProofs --------------------------
(***************************************************************************)
(* Proofs about StateSync, for any tables, requests, polls and bounds: the *)
(* interface shows what is in a table, or the next poll fetches it.        *)
(*                                                                         *)
(* A table is excused for a time when its timestamp shows a change of that *)
(* time or later, will do so at once, or when the change leaves none.      *)
(* Whatever changes a table excuses it for all times that have passed, and *)
(* answers that come late do so themselves.  So what the view, a poll that *)
(* was sent, and an answer under way say of a table is right, or excused   *)
(* for the time that each of them would have the next poll ask for.        *)
(*                                                                         *)
(* And about ListViews, for any tasks, events and bounds: no result of an  *)
(* export is lost by the dialogs that wait for it, and what is sent for    *)
(* events names those that were shown.                                     *)
(*                                                                         *)
(* And about SensorViews, for any services, files, parts of a form and     *)
(* bounds: the server accepts what a form sends, and neither forms nor     *)
(* check boxes change a service that was not clicked.  What the page has   *)
(* and what it has sent differs from the server only in services that were *)
(* clicked; and while nobody interferes, it knows the mode of the sensor.  *)
(***************************************************************************)
EXTENDS StateSync, ListViews, SensorViews, SequenceTheorems, FiniteSetTheorems, TLAPS

Unstamped(t) == \E w \in Writers : writer[w].pc = "unstamped" /\ writer[w].table = t

Excused(t, time) == stamp[t] >= time \/ Unstamped(t) \/ t \in unnoticed

-----------------------------------------------------------------------------
(* The invariant *)

LastIds == {0} \cup {Max(E \cup {0}) : E \in SUBSET (0..MaxEvents)}

Copies == UNION {[D -> Nat] : D \in SUBSET Tables}

Polled == [pc : {"none", "sent", "started", "reading", "listed", "answered"},
           ts : Times \cup {Never}, lastId : LastIds, now : Times, reads : SUBSET Tables,
           copy : Copies, new : SUBSET (0..MaxEvents), answer : LastIds,
           known : SUBSET (0..MaxEvents)]

Writing == [pc : {"idle", "flush", "insert", "unstamped"}, table : Tables, ts : Times,
            id : 0..MaxEvents]

DbOK == /\ version \in [Tables -> Nat] /\ stamp \in [Tables -> Times]
        /\ events \subseteq 0..MaxEvents /\ lastId \in 0..MaxEvents
        /\ writer \in [Writers -> Writing]
        /\ unnoticed \subseteq Tables

ClientOK == /\ view \in [ts : Times \cup {Never}, lastId : LastIds, copy : [Tables -> Nat]]
            /\ poll \in [Polls -> Polled]

Types == clock \in Times /\ DbOK /\ ClientOK

\* Nothing is ahead of its time.
InThePast ==
    /\ view.ts # Never => view.ts <= clock
    /\ \A t \in Tables : view.copy[t] <= version[t]
    /\ \A p \in Polls :
         /\ poll[p].now <= clock
         /\ poll[p].ts # Never => poll[p].ts <= clock
         /\ \A t \in DOMAIN poll[p].copy : poll[p].copy[t] <= version[t]

\* The view is right for the time that it has, and for those that polls were sent with.
Fine(t, time) == view.copy[t] = version[t] \/ Excused(t, time)

ViewIsFine == view.ts # Never => \A t \in Tables : Fine(t, view.ts)

SentIsFine ==
    \A p \in Polls : poll[p].pc # "none" /\ poll[p].ts # Never =>
        \A t \in Tables : Fine(t, poll[p].ts)

\* What an answer leaves out need not be in it.
Queried(p) == poll[p].pc \in {"reading", "listed", "answered"}

SkippedIsFine ==
    \A p \in Polls : Queried(p) =>
        \A t \in Tables \ (poll[p].reads \cup DOMAIN poll[p].copy) : Fine(t, poll[p].now)

\* What is in it is right, excused, or older than what the interface has.
ReadIsFine ==
    \A p \in Polls : \A t \in DOMAIN poll[p].copy :
        \/ poll[p].copy[t] < view.copy[t]
        \/ poll[p].copy[t] = version[t]
        \/ Excused(t, poll[p].now)

AllIsRead == \A p \in Polls : poll[p].pc \in {"listed", "answered"} => poll[p].reads = {}

NothingReadYet ==
    \A p \in Polls : poll[p].pc \in {"none", "sent", "started"} => DOMAIN poll[p].copy = {}

IInv == /\ Types /\ InThePast /\ ViewIsFine /\ SentIsFine /\ SkippedIsFine /\ ReadIsFine
        /\ AllIsRead /\ NothingReadYet

-----------------------------------------------------------------------------
(* Changes *)

\* What a change of a table does to it, for all times that have passed.
Excuses ==
    /\ DbOK'
    /\ \A t \in Tables :
         /\ version[t] <= version'[t]
         /\ \A time \in Times :
              time <= clock /\ (Excused(t, time) \/ version'[t] # version[t]) => Excused(t, time)'

LEMMA WritersExcuse ==
    ASSUME Types, NEW w \in Writers, Write(w) \/ Finish(w)
    PROVE  Excuses /\ UNCHANGED <<clock, client>>
<1> USE SyncAssumption DEF Types
<1>1. DbOK
    OBVIOUS
<1>2. Idle \in Writing
    BY DEF Idle, Writing, Times
<1>3. ASSUME NEW t \in Tables, Flush(w, t)
      PROVE  Excuses /\ UNCHANGED <<clock, client>>
    <2>1. [Idle EXCEPT !.pc = "flush", !.table = t, !.ts = clock] \in Writing
        BY <1>2, <1>3 DEF Writing
    <2>2. DbOK' /\ writer[w].pc = "idle" /\ \A v \in Writers \ {w} : writer'[v] = writer[v]
        BY <1>1, <1>3, <2>1 DEF Flush, Begin, DbOK, Idle
    <2>3. \A x \in Tables : Unstamped(x) => Unstamped(x)'
        BY <2>2 DEF Unstamped
    <2>4. QED
        BY <1>1, <1>3, <2>2, <2>3 DEF Flush, Begin, Excuses, Excused, DbOK
<1>4. ASSUME NEW t \in Tables, FlushUntracked(w, t)
      PROVE  Excuses /\ UNCHANGED <<clock, client>>
    BY <1>1, <1>4 DEF FlushUntracked, Begin, Changed, Excuses, Excused, Unstamped, DbOK
<1>5. ASSUME Commit(w)
      PROVE  Excuses /\ UNCHANGED <<clock, client>>
    <2> DEFINE t == writer[w].table
    <2>1. t \in Tables /\ writer[w].ts \in Times /\ writer[w].pc = "flush"
        BY <1>1, <1>5 DEF Commit, DbOK, Writing
    <2>2. DbOK' /\ \A v \in Writers \ {w} : writer'[v] = writer[v]
        BY <1>1, <1>2, <1>5, <2>1 DEF Commit, Changed, DbOK
    <2>3. \A x \in Tables : Unstamped(x) => Unstamped(x)'
        BY <2>1, <2>2 DEF Unstamped
    <2>4. \A x \in Tables \ {t} : version'[x] = version[x] /\ stamp'[x] = stamp[x]
        BY <1>1, <1>5 DEF Commit, Changed, DbOK
    <2>5. version'[t] = version[t] + 1 /\ (stamp'[t] >= clock \/ t \in unnoticed')
        BY <1>1, <1>5, <2>1 DEF Commit, Changed, DbOK, Times
    <2>6. unnoticed \subseteq unnoticed'
        BY <1>5 DEF Commit
    <2>7. ASSUME NEW x \in Tables, NEW time \in Times, time <= clock,
                 Excused(x, time) \/ version'[x] # version[x]
          PROVE  Excused(x, time)'
        BY <1>1, <2>2, <2>3, <2>4, <2>5, <2>6, <2>7 DEF Excused, DbOK, Times
    <2>8. QED
        BY <1>1, <1>5, <2>1, <2>2, <2>4, <2>5, <2>7 DEF Commit, Excuses, DbOK
<1>6. ASSUME NEW t \in Tables, Changed(t), DbOK', UNCHANGED <<stamp, unnoticed>>,
             writer'[w].pc = "unstamped" /\ writer'[w].table = t,
             \A v \in Writers \ {w} : writer'[v] = writer[v],
             writer[w].pc # "unstamped"
      PROVE  Excuses
    <2>1. Unstamped(t)' /\ \A x \in Tables : Unstamped(x) => Unstamped(x)'
        BY <1>6 DEF Unstamped
    <2>2. QED
        BY <1>1, <1>6, <2>1 DEF Changed, Excuses, Excused, DbOK
<1>7. ASSUME SaveSettings(w)
      PROVE  Excuses /\ UNCHANGED <<clock, client>>
    <2>1. [Idle EXCEPT !.pc = "unstamped", !.table = "settings"] \in Writing
        BY <1>2 DEF Writing
    <2>2. /\ DbOK' /\ writer[w].pc = "idle" /\ \A v \in Writers \ {w} : writer'[v] = writer[v]
          /\ writer'[w].pc = "unstamped" /\ writer'[w].table = "settings"
        BY <1>1, <1>7, <2>1 DEF SaveSettings, Begin, Changed, DbOK, Idle
    <2>3. QED
        BY <1>6, <1>7, <2>2 DEF SaveSettings, Begin
<1>8. ASSUME InsertEvent(w)
      PROVE  Excuses /\ UNCHANGED <<clock, client>>
    <2>1. lastId + 1 \in 0..MaxEvents
        BY <1>1, <1>8 DEF InsertEvent, DbOK
    <2>2. [Idle EXCEPT !.pc = "insert", !.id = lastId + 1] \in Writing
        BY <1>2, <2>1 DEF Writing
    <2>3. DbOK' /\ writer[w].pc = "idle" /\ \A v \in Writers \ {w} : writer'[v] = writer[v]
        BY <1>1, <1>8, <2>1, <2>2 DEF InsertEvent, Begin, DbOK, Idle
    <2>4. \A x \in Tables : Unstamped(x) => Unstamped(x)'
        BY <2>3 DEF Unstamped
    <2>5. QED
        BY <1>1, <1>8, <2>3, <2>4 DEF InsertEvent, Begin, Excuses, Excused, DbOK
<1>9. [Idle EXCEPT !.pc = "unstamped"] \in Writing
    BY <1>2 DEF Writing
<1>10. [Idle EXCEPT !.pc = "unstamped"].table = "sensors" /\ [Idle EXCEPT !.pc = "unstamped"].pc = "unstamped"
    BY DEF Idle
<1>11. ASSUME CommitEvent(w)
      PROVE  Excuses /\ UNCHANGED <<clock, client>>
    <2>1. writer[w].id \in 0..MaxEvents /\ writer[w].pc = "insert"
        BY <1>1, <1>11 DEF CommitEvent, DbOK, Writing
    <2>2. /\ DbOK' /\ \A v \in Writers \ {w} : writer'[v] = writer[v]
          /\ writer'[w].pc = "unstamped" /\ writer'[w].table = "sensors"
        BY <1>1, <1>9, <1>10, <1>11, <2>1 DEF CommitEvent, Changed, DbOK
    <2>3. QED
        BY <1>6, <1>11, <2>1, <2>2 DEF CommitEvent
<1>12. ASSUME DeleteEvents(w)
      PROVE  Excuses /\ UNCHANGED <<clock, client>>
    <2>1. events' \subseteq events
        BY <1>12 DEF DeleteEvents
    <2>2. /\ DbOK' /\ writer[w].pc = "idle" /\ \A v \in Writers \ {w} : writer'[v] = writer[v]
          /\ writer'[w].pc = "unstamped" /\ writer'[w].table = "sensors"
        BY <1>1, <1>9, <1>10, <1>12, <2>1 DEF DeleteEvents, Begin, Changed, DbOK, Idle
    <2>3. QED
        BY <1>6, <1>12, <2>2 DEF DeleteEvents, Begin
<1>13. ASSUME Stamp(w)
      PROVE  Excuses /\ UNCHANGED <<clock, client>>
    <2> DEFINE t == writer[w].table
    <2>1. t \in Tables /\ DbOK' /\ stamp'[t] = clock
        BY <1>1, <1>2, <1>13 DEF Stamp, DbOK, Writing
    <2>2. \A v \in Writers \ {w} : writer'[v] = writer[v]
        BY <1>1, <1>13 DEF Stamp, DbOK
    <2>3. \A x \in Tables \ {t} : stamp'[x] = stamp[x] /\ (Unstamped(x) => Unstamped(x)')
        BY <1>1, <1>13, <2>2 DEF Stamp, Unstamped, DbOK
    <2>4. QED
        BY <1>1, <1>13, <2>1, <2>3 DEF Stamp, Excuses, Excused, DbOK, Times
<1>14. QED
    BY <1>3, <1>4, <1>5, <1>7, <1>8, <1>11, <1>12, <1>13 DEF Write, Finish

LEMMA ChangesStep ==
    ASSUME IInv, NEW w \in Writers, Write(w) \/ Finish(w)
    PROVE  IInv'
<1> USE DEF IInv
<1>1. Excuses /\ UNCHANGED <<clock, view, poll>>
    BY WritersExcuse DEF client
<1>2. Types'
    BY <1>1 DEF Types, Excuses, ClientOK
<1>3. InThePast'
    BY <1>1, <1>2 DEF InThePast, Excuses, Types, DbOK, ClientOK, Polled, Copies, Times
<1>4. \A t \in Tables, time \in Times : time <= clock /\ Fine(t, time) => Fine(t, time)'
    BY <1>1 DEF Fine, Excuses
<1>5. ViewIsFine'
    BY <1>1, <1>4 DEF ViewIsFine, InThePast, Types, ClientOK
<1>6. SentIsFine' /\ SkippedIsFine'
    BY <1>1, <1>4 DEF SentIsFine, SkippedIsFine, Queried, InThePast, Types, ClientOK, Polled
<1>7. ReadIsFine'
    <2>1. ASSUME NEW p \in Polls, NEW t \in DOMAIN poll[p].copy
          PROVE  \/ poll[p].copy[t] < view.copy[t]
                 \/ poll[p].copy[t] = version'[t]
                 \/ Excused(t, poll[p].now)'
        <3>1. t \in Tables /\ poll[p].now \in Times /\ poll[p].now <= clock
            BY DEF Types, ClientOK, Polled, Copies, InThePast
        <3>2. QED
            BY <1>1, <3>1 DEF Excuses, ReadIsFine
    <2>2. QED
        BY <1>1, <2>1 DEF ReadIsFine
<1>8. QED
    BY <1>1, <1>2, <1>3, <1>5, <1>6, <1>7 DEF AllIsRead, NothingReadYet

-----------------------------------------------------------------------------
(* Polls *)

LEMMA Empty == NoPoll \in Polled /\ DOMAIN NoPoll.copy = {} /\ NoPoll.pc = "none"
<1>1. [t \in {} |-> 0] \in Copies
    BY DEF Copies
<1>2. 0 \in Times
    BY SyncAssumption DEF Times
<1>3. QED
    BY <1>1, <1>2 DEF NoPoll, Polled, LastIds

\* Another state of one poll matters to that poll only.
LEMMA OnePoll ==
    ASSUME IInv, UNCHANGED <<clock, version, stamp, events, lastId, writer, view, unnoticed>>,
           NEW p \in Polls, NEW q \in Polled, poll' = [poll EXCEPT ![p] = q],
           q.now <= clock,
           q.ts # Never => q.ts <= clock /\ \A t \in Tables : Fine(t, q.ts),
           q.pc \in {"reading", "listed", "answered"} =>
             \A t \in Tables \ (q.reads \cup DOMAIN q.copy) : Fine(t, q.now),
           \A t \in DOMAIN q.copy :
             /\ q.copy[t] <= version[t]
             /\ q.copy[t] < view.copy[t] \/ q.copy[t] = version[t] \/ Excused(t, q.now),
           q.pc \in {"listed", "answered"} => q.reads = {},
           q.pc \in {"none", "sent", "started"} => DOMAIN q.copy = {}
    PROVE  IInv'
<1> USE DEF IInv
<1>1. poll' \in [Polls -> Polled] /\ poll'[p] = q /\ \A x \in Polls \ {p} : poll'[x] = poll[x]
    BY DEF Types, ClientOK
<1>2. Types'
    BY <1>1 DEF Types, ClientOK, DbOK
<1>3. \A t, time : Excused(t, time) <=> Excused(t, time)'
    BY DEF Excused, Unstamped
<1>4. \A t, time : Fine(t, time) <=> Fine(t, time)'
    BY <1>3 DEF Fine
<1>5. InThePast'
    BY <1>1 DEF InThePast
<1>6. ViewIsFine'
    BY <1>4 DEF ViewIsFine
<1>7. SentIsFine'
    BY <1>1, <1>4 DEF SentIsFine
<1>8. SkippedIsFine'
    BY <1>1, <1>4 DEF SkippedIsFine, Queried
<1>9. ReadIsFine'
    BY <1>1, <1>3 DEF ReadIsFine
<1>10. AllIsRead' /\ NothingReadYet'
    BY <1>1 DEF AllIsRead, NothingReadYet
<1>11. QED
    BY <1>2, <1>5, <1>6, <1>7, <1>8, <1>9, <1>10

LEMMA PollSteps ==
    ASSUME IInv, NEW p \in Polls,
           Send(p) \/ Start(p) \/ Query(p) \/ ReadTable(p) \/ ReadEvents(p) \/ ReadLastId(p)
    PROVE  IInv'
<1> USE DEF IInv
<1>1. /\ poll[p] \in Polled /\ view \in [ts : Times \cup {Never}, lastId : LastIds, copy : [Tables -> Nat]]
      /\ poll \in [Polls -> Polled] /\ version \in [Tables -> Nat] /\ clock \in Times
      /\ stamp \in [Tables -> Times] /\ events \subseteq 0..MaxEvents
    BY DEF Types, ClientOK, DbOK
<1>2. UNCHANGED <<clock, version, stamp, events, lastId, writer, view, unnoticed>>
    BY DEF Send, Start, Query, ReadTable, ReadEvents, ReadLastId, db
<1>3. /\ poll[p].now \in Times /\ poll[p].now <= clock
      /\ poll[p].ts # Never => poll[p].ts <= clock
      /\ \A t \in DOMAIN poll[p].copy : t \in Tables /\ poll[p].copy[t] <= version[t]
    BY <1>1 DEF InThePast, Polled, Copies
<1>4. CASE Send(p)
    <2> DEFINE q == [NoPoll EXCEPT !.pc = "sent", !.ts = view.ts, !.lastId = view.lastId]
    <2>1. q \in Polled /\ DOMAIN q.copy = {} /\ q.pc = "sent" /\ q.ts = view.ts /\ q.now = 0
        BY <1>1, Empty DEF Polled, NoPoll
    <2> HIDE DEF q
    <2>2. poll' = [poll EXCEPT ![p] = q]
        BY <1>4 DEF Send, q
    <2>3. view.ts # Never => view.ts <= clock /\ \A t \in Tables : Fine(t, view.ts)
        BY DEF InThePast, ViewIsFine
    <2>4. 0 <= clock
        BY <1>1 DEF Times
    <2>5. QED
        BY <1>2, <2>1, <2>2, <2>3, <2>4, OnePoll
<1>5. CASE Start(p)
    <2> DEFINE q == [poll[p] EXCEPT !.pc = "started", !.now = clock]
    <2>1. /\ q \in Polled /\ q.pc = "started" /\ q.now = clock
          /\ q.ts = poll[p].ts /\ q.copy = poll[p].copy
        BY <1>1 DEF Polled
    <2> HIDE DEF q
    <2>2. poll' = [poll EXCEPT ![p] = q] /\ poll[p].pc = "sent"
        BY <1>1, <1>5 DEF Start, q
    <2>3. \A t \in Tables : poll[p].ts # Never => Fine(t, poll[p].ts)
        BY <2>2 DEF SentIsFine
    <2>4. DOMAIN poll[p].copy = {}
        BY <2>2 DEF NothingReadYet
    <2>5. clock <= clock
        BY <1>1 DEF Times
    <2>6. QED
        BY <1>2, <1>3, <2>1, <2>2, <2>3, <2>4, <2>5, OnePoll
<1>6. CASE Query(p)
    <2> DEFINE q == [poll[p] EXCEPT !.pc = "reading", !.reads = ChangedSince(poll[p].ts)]
    <2>1. /\ q \in Polled /\ q.pc = "reading" /\ q.now = poll[p].now
          /\ q.ts = poll[p].ts /\ q.copy = poll[p].copy /\ q.reads = ChangedSince(poll[p].ts)
        BY <1>1 DEF Polled, ChangedSince
    <2> HIDE DEF q
    <2>2. poll' = [poll EXCEPT ![p] = q] /\ poll[p].pc = "started"
        BY <1>1, <1>6 DEF Query, q
    <2>3. \A t \in Tables : poll[p].ts # Never => Fine(t, poll[p].ts)
        BY <2>2 DEF SentIsFine
    <2>4. ASSUME NEW t \in Tables \ ChangedSince(poll[p].ts)
          PROVE  Fine(t, poll[p].now)
        <3>1. poll[p].ts # Never /\ ~(stamp[t] >= poll[p].ts)
            BY DEF ChangedSince
        <3>2. QED
            BY <2>3, <3>1 DEF Fine, Excused
    <2>5. DOMAIN poll[p].copy = {}
        BY <2>2 DEF NothingReadYet
    <2>6. QED
        BY <1>2, <1>3, <2>1, <2>2, <2>3, <2>4, <2>5, OnePoll
<1>7. CASE ReadTable(p)
    <2>1. PICK t \in poll[p].reads :
            poll' = [poll EXCEPT ![p].reads = @ \ {t},
                       ![p].copy = [u \in DOMAIN @ \cup {t} |-> IF u = t THEN version[t] ELSE @[u]]]
        BY <1>7 DEF ReadTable
    <2> DEFINE copy == [u \in DOMAIN poll[p].copy \cup {t} |->
                          IF u = t THEN version[t] ELSE poll[p].copy[u]]
               q == [poll[p] EXCEPT !.reads = poll[p].reads \ {t}, !.copy = copy]
    <2>2. t \in Tables /\ poll[p].reads \subseteq Tables
        BY <1>1 DEF Polled
    <2>3. /\ copy \in Copies /\ DOMAIN copy = DOMAIN poll[p].copy \cup {t}
          /\ copy[t] = version[t] /\ \A u \in DOMAIN poll[p].copy : u # t => copy[u] = poll[p].copy[u]
        <3>1. PICK D \in SUBSET Tables : poll[p].copy \in [D -> Nat]
            BY <1>1 DEF Polled, Copies
        <3>2. copy \in [D \cup {t} -> Nat]
            BY <1>1, <2>2, <3>1
        <3>3. D \cup {t} \in SUBSET Tables
            BY <2>2
        <3>4. QED
            BY <3>1, <3>2, <3>3 DEF Copies
    <2> HIDE DEF copy
    <2>4. /\ q \in Polled /\ q.pc = "reading" /\ q.now = poll[p].now
          /\ q.ts = poll[p].ts /\ q.copy = copy /\ q.reads = poll[p].reads \ {t}
        BY <1>1, <1>7, <2>3 DEF Polled, ReadTable
    <2>5. poll' = [poll EXCEPT ![p] = q]
        BY <1>1, <2>1 DEF copy
    <2> HIDE DEF q
    <2>6. \A u \in Tables : poll[p].ts # Never => Fine(u, poll[p].ts)
        BY <1>7 DEF ReadTable, SentIsFine
    <2>7. \A u \in Tables \ (q.reads \cup DOMAIN q.copy) : Fine(u, q.now)
        BY <1>7, <2>3, <2>4 DEF ReadTable, SkippedIsFine, Queried
    <2>8. ASSUME NEW u \in DOMAIN copy
          PROVE  /\ copy[u] <= version[u]
                 /\ copy[u] < view.copy[u] \/ copy[u] = version[u] \/ Excused(u, poll[p].now)
        BY <1>1, <1>3, <2>2, <2>3 DEF ReadIsFine
    <2>9. QED
        BY <1>2, <1>3, <2>4, <2>5, <2>6, <2>7, <2>8, OnePoll
<1>8. ASSUME NEW q \in Polled, poll' = [poll EXCEPT ![p] = q],
             q.pc \in {"listed", "answered"}, Queried(p), poll[p].reads = {},
             q.ts = poll[p].ts, q.now = poll[p].now, q.copy = poll[p].copy, q.reads = poll[p].reads
      PROVE  IInv'
    <2>1. \A t \in Tables : poll[p].ts # Never => Fine(t, poll[p].ts)
        BY <1>8 DEF Queried, SentIsFine
    <2>2. \A t \in Tables \ (q.reads \cup DOMAIN q.copy) : Fine(t, q.now)
        BY <1>8 DEF SkippedIsFine
    <2>3. \A t \in DOMAIN q.copy :
            q.copy[t] < view.copy[t] \/ q.copy[t] = version[t] \/ Excused(t, q.now)
        BY <1>8 DEF ReadIsFine
    <2>4. QED
        BY <1>2, <1>3, <1>8, <2>1, <2>2, <2>3, OnePoll
<1>9. CASE ReadEvents(p)
    <2>1. PICK new \in NewEvents(p) : poll' = [poll EXCEPT ![p].pc = "listed", ![p].new = new]
        BY <1>9 DEF ReadEvents
    <2>2. new \subseteq 0..MaxEvents
        BY <1>1, <2>1 DEF NewEvents, kSubset
    <2> DEFINE q == [poll[p] EXCEPT !.pc = "listed", !.new = new]
    <2>3. /\ q \in Polled /\ q.pc = "listed" /\ q.now = poll[p].now
          /\ q.ts = poll[p].ts /\ q.copy = poll[p].copy /\ q.reads = poll[p].reads
        BY <1>1, <2>2 DEF Polled
    <2>4. poll' = [poll EXCEPT ![p] = q]
        BY <1>1, <2>1
    <2> HIDE DEF q
    <2>5. QED
        BY <1>8, <1>9, <2>3, <2>4 DEF ReadEvents, Queried
<1>10. CASE ReadLastId(p)
    <2> DEFINE last == Max(events \cup {0})
               known == IF poll[p].ts = Never THEN events ELSE poll[p].new
               q == [poll[p] EXCEPT !.pc = "answered", !.answer = last, !.known = known]
    <2>1. last \in LastIds /\ known \subseteq 0..MaxEvents
        BY <1>1 DEF LastIds, Polled
    <2> HIDE DEF last, known
    <2>2. /\ q \in Polled /\ q.pc = "answered" /\ q.now = poll[p].now
          /\ q.ts = poll[p].ts /\ q.copy = poll[p].copy /\ q.reads = poll[p].reads
        BY <1>1, <2>1 DEF Polled
    <2>3. poll' = [poll EXCEPT ![p] = q]
        BY <1>1, <1>10 DEF ReadLastId, last, known
    <2> HIDE DEF q
    <2>4. QED
        BY <1>8, <1>10, <2>2, <2>3 DEF ReadLastId, Queried, AllIsRead
<1>11. QED
    BY <1>4, <1>5, <1>6, <1>7, <1>9, <1>10

LEMMA ReceiveStep ==
    ASSUME IInv, NEW p \in Polls, Receive(p)
    PROVE  IInv'
<1> USE DEF IInv
<1> DEFINE copy == poll[p].copy
           shown == [t \in Tables |-> IF t \in DOMAIN copy THEN copy[t] ELSE view.copy[t]]
           older == {t \in DOMAIN copy : copy[t] < view.copy[t]}
<1>1. /\ poll[p] \in Polled /\ view.copy \in [Tables -> Nat] /\ view.ts \in Times \cup {Never}
      /\ poll \in [Polls -> Polled] /\ version \in [Tables -> Nat] /\ clock \in Times
      /\ stamp \in [Tables -> Times]
    BY DEF Types, ClientOK, DbOK
<1>2. copy \in Copies /\ DOMAIN copy \subseteq Tables /\ \A t \in DOMAIN copy : copy[t] \in Nat
    BY <1>1 DEF Polled, Copies
<1>3. /\ view' = [ts |-> poll[p].now, lastId |-> poll[p].answer, copy |-> shown]
      /\ unnoticed' = {t \in unnoticed \cup older : shown[t] # version[t]}
      /\ poll' = [poll EXCEPT ![p] = NoPoll]
      /\ UNCHANGED <<clock, version, stamp, events, lastId, writer>>
      /\ poll[p].pc = "answered" /\ poll[p].reads = {}
    BY DEF Receive, db, AllIsRead
<1>4. shown \in [Tables -> Nat] /\ older \subseteq Tables
    BY <1>1, <1>2
<1>5. \A t \in Tables : shown[t] <= version[t] /\ view.copy[t] <= version[t]
    BY <1>1, <1>2 DEF InThePast
<1>6. \A t \in Tables : shown[t] >= view.copy[t] \/ t \in older
    BY <1>1, <1>2
<1> HIDE DEF copy, shown, older
<1>7. Types'
    <2>1. [ts |-> poll[p].now, lastId |-> poll[p].answer, copy |-> shown]
             \in [ts : Times \cup {Never}, lastId : LastIds, copy : [Tables -> Nat]]
        BY <1>1, <1>4 DEF Polled
    <2>2. unnoticed' \subseteq Tables
        BY <1>3, <1>4 DEF Types, DbOK
    <2>3. QED
        BY <1>3, <2>1, <2>2, Empty DEF Types, DbOK, ClientOK
<1>8. /\ poll'[p] = NoPoll /\ \A x \in Polls \ {p} : poll'[x] = poll[x]
      /\ view'.ts = poll[p].now /\ view'.copy = shown
    BY <1>1, <1>3
<1>9. ASSUME NEW t \in Tables, NEW time \in Times, Fine(t, time)
      PROVE  Fine(t, time)'
    <2>1. CASE shown[t] = version[t]
        BY <1>3, <1>8, <2>1 DEF Fine
    <2>2. CASE shown[t] # version[t] /\ (t \in unnoticed \/ t \in older)
        BY <1>3, <2>2 DEF Fine, Excused
    <2>3. CASE shown[t] # version[t] /\ t \notin unnoticed /\ t \notin older
        <3>1. view.copy[t] # version[t]
            BY <1>1, <1>4, <1>5, <1>6, <2>3
        <3>2. stamp[t] >= time \/ Unstamped(t)
            BY <1>9, <2>3, <3>1 DEF Fine, Excused
        <3>3. Excused(t, time)'
            BY <1>3, <3>2 DEF Excused, Unstamped
        <3>4. QED
            BY <3>3 DEF Fine
    <2>4. QED
        BY <2>1, <2>2, <2>3
<1>10. InThePast'
    BY <1>1, <1>3, <1>5, <1>8, Empty DEF InThePast, NoPoll, Times
<1>11. ViewIsFine'
    <2>1. PICK now \in Times : now = poll[p].now
        BY <1>1 DEF Polled
    <2>2. ASSUME NEW t \in Tables PROVE Fine(t, now)'
        <3>1. CASE t \notin DOMAIN copy
            <4>1. Fine(t, now)
                BY <1>3, <2>1, <3>1 DEF SkippedIsFine, Queried, copy
            <4>2. QED
                BY <1>9, <4>1
        <3>2. CASE t \in DOMAIN copy
            <4>1. shown[t] = copy[t]
                BY <3>2 DEF shown
            <4>2. t \in older \/ shown[t] = version[t] \/ Excused(t, now)
                BY <1>1, <2>1, <3>2, <4>1 DEF ReadIsFine, older, copy
            <4>3. QED
                BY <1>3, <1>8, <4>2 DEF Fine, Excused, Unstamped
        <3>3. QED
            BY <3>1, <3>2
    <2>3. QED
        BY <1>8, <2>1, <2>2 DEF ViewIsFine, Fine, Excused, Unstamped
<1>12. SentIsFine' /\ SkippedIsFine'
    <2>1. ASSUME NEW x \in Polls, poll'[x].pc # "none", poll'[x].ts # Never, NEW t \in Tables
          PROVE  Fine(t, poll[x].ts)'
        <3>1. x # p /\ poll'[x] = poll[x]
            BY <1>8, <2>1, Empty
        <3>2. PICK time \in Times : time = poll[x].ts
            BY <1>1, <2>1, <3>1 DEF Polled
        <3>3. Fine(t, time)
            BY <2>1, <3>1, <3>2 DEF SentIsFine
        <3>4. Fine(t, time)'
            BY <1>9, <3>3
        <3>5. QED
            BY <3>1, <3>2, <3>4 DEF Fine, Excused, Unstamped
    <2>2. ASSUME NEW x \in Polls, Queried(x)', NEW t \in Tables,
                 t \notin poll'[x].reads, t \notin DOMAIN poll'[x].copy
          PROVE  Fine(t, poll[x].now)'
        <3>1. x # p /\ poll'[x] = poll[x]
            BY <1>8, <2>2, Empty DEF Queried
        <3>2. PICK time \in Times : time = poll[x].now
            BY <1>1 DEF Polled
        <3>3. Fine(t, time)
            BY <2>2, <3>1, <3>2 DEF SkippedIsFine, Queried
        <3>4. Fine(t, time)'
            BY <1>9, <3>3
        <3>5. QED
            BY <3>1, <3>2, <3>4 DEF Fine, Excused, Unstamped
    <2>3. QED
        BY <2>1, <2>2 DEF SentIsFine, SkippedIsFine
<1>13. ReadIsFine'
    <2>1. ASSUME NEW x \in Polls, NEW t \in DOMAIN poll'[x].copy
          PROVE  \/ poll'[x].copy[t] < shown[t]
                 \/ poll'[x].copy[t] = version[t]
                 \/ Excused(t, poll[x].now)'
        <3>1. x # p /\ poll'[x] = poll[x]
            BY <1>8, Empty
        <3>2. t \in Tables /\ poll[x].copy[t] \in Nat /\ poll[x].copy[t] <= version[t]
            BY <1>1, <3>1 DEF Polled, Copies, InThePast
        <3>3. CASE poll[x].copy[t] = version[t]
            BY <3>1, <3>3
        <3>4. CASE poll[x].copy[t] < view.copy[t] /\ t \notin older
            BY <1>1, <1>4, <1>6, <3>1, <3>2, <3>4
        <3>5. CASE t \in older
            <4>1. shown[t] # version[t]
                BY <1>1, <1>5, <3>2, <3>5 DEF older, shown
            <4>2. QED
                BY <1>3, <3>5, <4>1 DEF Excused
        <3>6. CASE t \in unnoticed
            BY <1>1, <1>3, <1>4, <3>1, <3>2, <3>6 DEF Excused
        <3>7. CASE stamp[t] >= poll[x].now \/ Unstamped(t)
            BY <1>3, <3>1, <3>7 DEF Excused, Unstamped
        <3>8. QED
            BY <3>1, <3>3, <3>4, <3>5, <3>6, <3>7 DEF ReadIsFine, Excused
    <2>2. QED
        BY <1>3, <1>8, <2>1 DEF ReadIsFine
<1>14. AllIsRead' /\ NothingReadYet'
    BY <1>8, Empty DEF AllIsRead, NothingReadYet
<1>15. QED
    BY <1>7, <1>10, <1>11, <1>12, <1>13, <1>14

LEMMA LoseStep ==
    ASSUME IInv, NEW p \in Polls, Lose(p)
    PROVE  IInv'
<1> USE DEF IInv
<1>1. /\ view' = NoView /\ poll' = [q \in Polls |-> NoPoll] /\ unnoticed' = {}
      /\ UNCHANGED <<clock, version, stamp, events, lastId, writer>>
    BY DEF Lose, db
<1>2. clock \in Nat /\ version \in [Tables -> Nat]
    BY SyncAssumption DEF Types, DbOK, Times
<1>3. NoView \in [ts : Times \cup {Never}, lastId : LastIds, copy : [Tables -> Nat]]
    BY DEF NoView, LastIds
<1>4. Types'
    BY <1>1, <1>3, Empty DEF Types, DbOK, ClientOK
<1>5. \A q \in Polls : poll'[q] = NoPoll
    BY <1>1
<1>6. InThePast'
    BY <1>1, <1>2, <1>5, Empty DEF InThePast, NoView, NoPoll
<1>7. ViewIsFine'
    BY <1>1 DEF ViewIsFine, NoView
<1>8. SentIsFine' /\ SkippedIsFine' /\ ReadIsFine' /\ AllIsRead' /\ NothingReadYet'
    BY <1>5, Empty DEF SentIsFine, SkippedIsFine, Queried, ReadIsFine, AllIsRead, NothingReadYet
<1>9. QED
    BY <1>4, <1>6, <1>7, <1>8

\* Time passes, or nothing happens.
LEMMA TickStep ==
    ASSUME IInv, Tick \/ UNCHANGED vars
    PROVE  IInv'
<1> USE DEF IInv
<1>1. /\ UNCHANGED <<version, stamp, events, lastId, writer, view, poll, unnoticed>>
      /\ clock' \in Times /\ clock <= clock'
    BY SyncAssumption DEF Tick, vars, db, client, Types, Times
<1>2. \A t, time : Excused(t, time) <=> Excused(t, time)'
    BY <1>1 DEF Excused, Unstamped
<1>3. \A t, time : Fine(t, time) <=> Fine(t, time)'
    BY <1>1, <1>2 DEF Fine
<1>4. Types'
    BY <1>1 DEF Types, DbOK, ClientOK
<1>5. InThePast'
    BY <1>1, SyncAssumption DEF InThePast, Types, ClientOK, Polled, Times
<1>6. ViewIsFine' /\ SentIsFine' /\ SkippedIsFine'
    BY <1>1, <1>3 DEF ViewIsFine, SentIsFine, SkippedIsFine, Queried
<1>7. ReadIsFine'
    BY <1>1, <1>2 DEF ReadIsFine
<1>8. AllIsRead' /\ NothingReadYet'
    BY <1>1 DEF AllIsRead, NothingReadYet
<1>9. QED
    BY <1>4, <1>5, <1>6, <1>7, <1>8

-----------------------------------------------------------------------------
(* The theorem *)

LEMMA InvInit == Init => IInv
<1> SUFFICES ASSUME Init PROVE IInv
    OBVIOUS
<1>1. 0 \in Times /\ Idle \in Writing
    BY SyncAssumption DEF Times, Idle, Writing
<1>2. DbOK
    BY <1>1, SyncAssumption DEF Init, DbOK
<1>3. NoView \in [ts : Times \cup {Never}, lastId : LastIds, copy : [Tables -> Nat]]
    BY DEF NoView, LastIds
<1>4. Types
    BY <1>1, <1>2, <1>3, Empty DEF Init, Types, ClientOK
<1>5. \A q \in Polls : poll[q] = NoPoll
    BY DEF Init
<1>6. InThePast /\ ViewIsFine
    BY <1>5, Empty DEF Init, InThePast, ViewIsFine, NoView, NoPoll
<1>7. SentIsFine /\ SkippedIsFine /\ ReadIsFine /\ AllIsRead /\ NothingReadYet
    BY <1>5, Empty DEF SentIsFine, SkippedIsFine, Queried, ReadIsFine, AllIsRead, NothingReadYet
<1>8. QED
    BY <1>4, <1>6, <1>7 DEF IInv

LEMMA InvStep == IInv /\ [Next]_vars => IInv'
BY ChangesStep, PollSteps, ReceiveStep, LoseStep, TickStep DEF Next, Polling

LEMMA InvImplies == IInv => UpdatesAreSeen
BY DEF IInv, ViewIsFine, Fine, Excused, Unstamped, UpdatesAreSeen

\* What the interface shows of a table is what is in it, or the next poll fetches it, but
\* for the changes that EntityUpdateSubscriber does not show: with any number of requests
\* that change tables, and of polls whose answers come in any order.
THEOREM UpdatesGetThrough == Spec => []UpdatesAreSeen
BY InvInit, InvStep, InvImplies, PTL DEF Spec

-----------------------------------------------------------------------------
(* The tasks of a user *)

\* Who waits for a task has started it; what was taken off the list was removed by the user;
\* an export is forgotten because it, or a poll for it, has failed; and only uploads are registered.
TasksInv ==
    /\ task \in [Dialogs!Tasks -> {"none", "gone"} \cup Dialogs!Active \cup Dialogs!Ended]
    /\ watch \in [Dialogs!Tasks -> {"none", "wait", "sent"}]
    /\ \A t \in Dialogs!Tasks : watch[t] # "none" => task[t] # "none"
    /\ \A t \in ExportTasks :
         /\ <<t, "remove">> \in pending \/ <<t, "cancel">> \in pending => t \in removed
         /\ <<t, "forget">> \in pending => t \in failures \/ task[t] \in {"error", "gone"}
    /\ \A t \in Dialogs!Tasks : <<t, "service">> \in pending => t \in UploadTasks
    /\ ResultsAreKept

\* A callback forgets an export only if it was told that the export has failed.
LEMMA CalledBack ==
    ASSUME TasksInv, NEW t \in Dialogs!Tasks, NEW done \in BOOLEAN, Dialogs!Called(t, done),
           UNCHANGED <<task, downloaded, lost, removed>>, failures \subseteq failures',
           done \/ t \in failures' \/ task[t] \in {"error", "gone"}
    PROVE  TasksInv'
BY ListAssumption DEF TasksInv, ResultsAreKept, Dialogs!Called, Dialogs!ResultsAreKept

LEMMA TasksStep ==
    ASSUME TasksInv, [Dialogs!Next]_Dialogs!dialogVars
    PROVE  TasksInv'
<1> USE ListAssumption DEF TasksInv, ResultsAreKept, Dialogs!ResultsAreKept, Dialogs!serverVars,
        Dialogs!historyVars, Dialogs!Active, Dialogs!Ended
<1>0. ExportTasks \subseteq Dialogs!Tasks /\ \A u \in UploadTasks : Dialogs!Fill(u) \notin ExportTasks
    BY DEF Dialogs!Tasks, Dialogs!Fill
<1>1. ASSUME NEW t \in Dialogs!Tasks, Dialogs!UserActs(t) PROVE TasksInv'
    <2>1. CASE Dialogs!Start(t)
        BY <2>1 DEF Dialogs!Start
    <2>2. CASE Dialogs!Inspect(t)
        BY <2>2 DEF Dialogs!Inspect
    <2>3. CASE Dialogs!RemoveFromList(t)
        BY <2>3 DEF Dialogs!RemoveFromList, Dialogs!Ask
    <2>4. CASE Dialogs!DownloadFromList(t)
        BY <2>4 DEF Dialogs!DownloadFromList, Dialogs!Ask
    <2>5. QED
        BY <1>1, <2>1, <2>2, <2>3, <2>4 DEF Dialogs!UserActs
<1>2. ASSUME NEW t \in Dialogs!Tasks, Dialogs!Run(t) PROVE TasksInv'
    BY <1>2, <1>0 DEF Dialogs!Run
<1>3. ASSUME NEW t \in Dialogs!Tasks, Dialogs!ServerActs(t) PROVE TasksInv'
    <2>1. CASE Dialogs!ServeRemoval(t)
        BY <2>1, <1>0 DEF Dialogs!ServeRemoval, Dialogs!Request
    <2>2. CASE Dialogs!ServeDownload(t)
        BY <2>2, <1>0 DEF Dialogs!ServeDownload, Dialogs!Request
    <2>3. CASE Dialogs!ServeRegistration(t)
        <3>1. PICK what \in {"service", "firmware"} :
                /\ <<t, what>> \in pending
                /\ pending' = pending \ {<<t, what>>}
            BY <2>3 DEF Dialogs!ServeRegistration, Dialogs!Request
        <3>2. CASE what = "firmware" \/ task[t] # "done"
            BY <2>3, <3>1, <3>2, <1>0 DEF Dialogs!ServeRegistration
        <3>3. CASE what = "service" /\ task[t] = "done"
            <4>1. Dialogs!Fill(t) \in Dialogs!Tasks \ ExportTasks
                BY <3>1, <3>3, <1>0 DEF Dialogs!Tasks
            <4>2. /\ task' = [task EXCEPT ![t] = "gone", ![Dialogs!Fill(t)] = "scheduled"]
                  /\ watch' = [watch EXCEPT ![Dialogs!Fill(t)] = "wait"]
                BY <2>3, <3>1, <3>3 DEF Dialogs!ServeRegistration
            <4>3. UNCHANGED <<downloaded, lost, removed, failures>>
                BY <2>3 DEF Dialogs!ServeRegistration
            <4>4. \A u \in ExportTasks : task'[u] = task[u] \/ task'[u] = "gone"
                BY <4>1, <4>2, <1>0
            <4>5. task' \in [Dialogs!Tasks -> {"none", "gone"} \cup Dialogs!Active \cup Dialogs!Ended]
                BY <4>2
            <4>6. watch' \in [Dialogs!Tasks -> {"none", "wait", "sent"}]
                BY <4>2
            <4>7. \A u \in Dialogs!Tasks : watch'[u] # "none" => task'[u] # "none"
                BY <4>1, <4>2
            <4>8. QED
                BY <3>1, <4>3, <4>4, <4>5, <4>6, <4>7, <1>0
        <3>4. QED
            BY <3>1, <3>2, <3>3
    <2>4. QED
        BY <1>3, <2>1, <2>2, <2>3 DEF Dialogs!ServerActs
<1>4. ASSUME NEW t \in Dialogs!Tasks, Dialogs!Polls(t) PROVE TasksInv'
    <2>1. CASE Dialogs!Poll(t)
        BY <2>1 DEF Dialogs!Poll
    <2>2. CASE Dialogs!PollAnswered(t)
        BY <2>2, CalledBack DEF Dialogs!PollAnswered
    <2>3. CASE Dialogs!PollFails(t)
        BY <2>3, CalledBack DEF Dialogs!PollFails
    <2>4. QED
        BY <1>4, <2>1, <2>2, <2>3 DEF Dialogs!Polls
<1>5. ASSUME NEW what \in {"service", "firmware"}, Dialogs!Register(what) PROVE TasksInv'
    BY <1>5 DEF Dialogs!Register, Dialogs!Ask
<1>6. CASE Dialogs!Close
    BY <1>6 DEF Dialogs!Close
<1>7. CASE Dialogs!Cancel
    BY <1>7 DEF Dialogs!Cancel, Dialogs!Ask
<1>8. CASE Dialogs!Update
    BY <1>8 DEF Dialogs!Update
<1>9. CASE UNCHANGED Dialogs!dialogVars
    BY <1>9 DEF Dialogs!dialogVars
<1>10. QED
    BY <1>1, <1>2, <1>3, <1>4, <1>5, <1>6, <1>7, <1>8, <1>9 DEF Dialogs!Next

\* No result of an export is removed unread, but by its user or after a poll that has failed,
\* for any tasks and however dialogs, polls and removals interleave.
THEOREM NoResultIsLost == Dialogs!Spec => []ResultsAreKept
<1>1. Dialogs!Init => TasksInv
    BY DEF Dialogs!Init, TasksInv, ResultsAreKept, Dialogs!ResultsAreKept
<1>2. TasksInv => ResultsAreKept
    BY DEF TasksInv
<1>3. QED
    BY <1>1, <1>2, TasksStep, PTL DEF Dialogs!Spec

-----------------------------------------------------------------------------
(* The list of events *)

Questions == [source : Browser!Sources, status : Browser!Filters, page : Int]
Answers == [query : Questions, reset : BOOLEAN, late : BOOLEAN]
Places == Browser!Sources \X Browser!Ids
Kinds == {"edit", "remove"}
Scopes == {"one", "some", "page", "all"}
OpenDialogs == [kind : Kinds, scope : Scopes, chosen : SUBSET Places, seen : SUBSET Places,
                deaf : BOOLEAN, source : Browser!Sources, hasty : BOOLEAN]
Changes == [kind : Kinds, scope : Scopes, archive : BOOLEAN, done : BOOLEAN,
            ids : SUBSET Browser!Ids, status : Browser!Filters, source : Browser!Sources,
            seen : SUBSET Places, hasty : BOOLEAN]

ListTypes ==
    /\ query \in Questions /\ fetches \in Seq(Answers) /\ lagging \in BOOLEAN
    /\ Browser!Listed \subseteq Places
    /\ eventDialog \in {Browser!NoDialog} \cup OpenDialogs
    /\ changeRequests \subseteq Changes

\* If an answer is in time, then the last one is, and it is that to the present question.
LatestAsked ==
    \A i \in 1..Len(fetches) :
      ~fetches[i].late =>
        ~fetches[Len(fetches)].late /\ fetches[Len(fetches)].query = query

\* When no answer is to come but late ones, the rows are of the chosen table.
Settled ==
    (\A i \in 1..Len(fetches) : fetches[i].late) /\ ~lagging =>
        \A e \in Browser!Listed : e[1] = query.source

\* The table that a request of the dialog names.
SourceOf(d) == IF d.kind = "edit" THEN "live" ELSE d.source

\* A dialog holds events that were shown when it was opened, those of a page are still shown,
\* and they are in the table that a request will name.
DialogFits ==
    eventDialog # Browser!NoDialog =>
      LET d == eventDialog IN
      /\ d.chosen \subseteq d.seen
      /\ d.scope = "page" => d.chosen = d.seen /\ (d.hasty \/ Browser!Listed = d.seen)
      /\ ~d.hasty => \A e \in d.chosen : e[1] = SourceOf(d)

ListInv == ListTypes /\ LatestAsked /\ Settled /\ DialogFits /\ SentAsShown

\* A new question: its answer is the last one, and in time.
LEMMA Asks ==
    ASSUME ListTypes, NEW q \in Questions, NEW reset \in BOOLEAN, Browser!Fetch(q, reset)
    PROVE  /\ query' \in Questions /\ fetches' \in Seq(Answers)
           /\ LatestAsked'
           /\ Len(fetches') \in 1..Len(fetches') /\ ~fetches'[Len(fetches')].late
<1> DEFINE a == [query |-> q, reset |-> reset, late |-> FALSE]
<1>1. fetches' = Append(fetches, a) /\ query' = q
    BY DEF Browser!Fetch
<1>2. a \in Answers
    BY DEF Answers
<1>3. fetches' \in Seq(Answers) /\ Len(fetches') = Len(fetches) + 1 /\ fetches'[Len(fetches')] = a
    BY <1>1, <1>2, AppendProperties DEF ListTypes
<1>4. Len(fetches) \in Nat
    BY DEF ListTypes
<1>5. QED
    BY <1>1, <1>3, <1>4 DEF LatestAsked

\* An answer is taken out, and those before it are late.
LEMMA Taken ==
    ASSUME ListTypes, NEW i \in 1..Len(fetches)
    PROVE  LET rest == Browser!Remaining(i) IN
           /\ rest \in Seq(Answers) /\ Len(rest) = Len(fetches) - 1
           /\ \A j \in 1..Len(rest) :
                rest[j] = IF j < i THEN [fetches[j] EXCEPT !.late = TRUE] ELSE fetches[j + 1]
<1> DEFINE n == Len(fetches)
           all == [j \in DOMAIN fetches |-> [fetches[j] EXCEPT !.late = @ \/ j < i]]
           before == SubSeq(all, 1, i - 1)
           after == SubSeq(all, i + 1, n)
<1>1. n \in Nat /\ i \in 1..n /\ DOMAIN fetches = 1..n /\ \A j \in 1..n : fetches[j] \in Answers
    BY DEF ListTypes
<1>2. \A j \in 1..n : /\ [fetches[j] EXCEPT !.late = @ \/ j < i] \in Answers
                      /\ j < i => [fetches[j] EXCEPT !.late = @ \/ j < i]
                                    = [fetches[j] EXCEPT !.late = TRUE]
                      /\ j > i => [fetches[j] EXCEPT !.late = @ \/ j < i] = fetches[j]
    <2>1. TAKE j \in 1..n
    <2>2. PICK a \in Answers : a = fetches[j]
        BY <1>1
    <2>3. /\ [a EXCEPT !.late = @ \/ j < i] \in Answers
          /\ j < i => [a EXCEPT !.late = @ \/ j < i] = [a EXCEPT !.late = TRUE]
          /\ j > i => [a EXCEPT !.late = @ \/ j < i] = a
        <3>1. CASE j < i
            <4>1. (a.late \/ j < i) = TRUE
                BY <3>1
            <4>2. [a EXCEPT !.late = @ \/ j < i] = [a EXCEPT !.late = TRUE]
                BY <4>1
            <4>3. [a EXCEPT !.late = TRUE] \in Answers
                BY DEF Answers
            <4>4. QED
                BY <3>1, <4>2, <4>3, <1>1
        <3>2. CASE ~(j < i)
            <4>1. [a EXCEPT !.late = @ \/ j < i] = a
                BY <3>2 DEF Answers
            <4>2. QED
                BY <3>2, <4>1, <1>1
        <3>3. QED
            BY <3>1, <3>2
    <2>4. QED
        BY <2>2, <2>3
<1>3. all \in Seq(Answers) /\ Len(all) = n
    <2>1. all = [j \in 1..n |-> [fetches[j] EXCEPT !.late = @ \/ j < i]]
        BY <1>1
    <2>2. all \in [1..n -> Answers]
        BY <1>2, <2>1
    <2>3. QED
        BY <1>1, <2>2, LenProperties
<1>4. \A j \in 1..n : /\ j < i => all[j] = [fetches[j] EXCEPT !.late = TRUE]
                      /\ j > i => all[j] = fetches[j]
    BY <1>1, <1>2
<1>5. Browser!Remaining(i) = before \o after
    BY <1>3 DEF Browser!Remaining, Browser!RemoveAt
<1> HIDE DEF n, all
<1>6. before \in Seq(Answers) /\ Len(before) = i - 1 /\ \A j \in 1..i - 1 : before[j] = all[j]
    BY <1>1, <1>3, SubSeqProperties
<1>7. /\ after \in Seq(Answers) /\ Len(after) = n - i
      /\ \A j \in 1..n - i : after[j] = all[i + j]
    BY <1>1, <1>3, SubSeqProperties
<1> HIDE DEF before, after
<1>8. /\ before \o after \in Seq(Answers) /\ Len(before \o after) = n - 1
      /\ \A j \in 1..n - 1 : (before \o after)[j] = IF j < i THEN before[j] ELSE after[j - (i - 1)]
    <2>1. Len(before) + Len(after) = n - 1
        BY <1>1, <1>6, <1>7
    <2>2. \A j \in 1..n - 1 : j <= Len(before) <=> j < i
        BY <1>1, <1>6
    <2>3. /\ before \o after \in Seq(Answers)
          /\ Len(before \o after) = Len(before) + Len(after)
          /\ \A j \in 1..Len(before) + Len(after) :
               (before \o after)[j] = IF j <= Len(before) THEN before[j] ELSE after[j - Len(before)]
        BY <1>6, <1>7, ConcatProperties
    <2>4. Len(before) = i - 1
        BY <1>6
    <2>5. QED
        BY <2>1, <2>2, <2>3, <2>4
<1>9. \A j \in 1..n - 1 : j < i => before[j] = [fetches[j] EXCEPT !.late = TRUE]
    BY <1>1, <1>4, <1>6
<1>10. ASSUME NEW j \in 1..n - 1, ~(j < i) PROVE after[j - (i - 1)] = fetches[j + 1]
    <2>1. j - (i - 1) \in 1..n - i /\ i + (j - (i - 1)) = j + 1 /\ j + 1 \in 1..n /\ j + 1 > i
        BY <1>1, <1>10
    <2>2. after[j - (i - 1)] = all[i + (j - (i - 1))]
        BY <1>7, <2>1
    <2>3. QED
        BY <1>4, <2>1, <2>2
<1>11. QED
    BY <1>5, <1>8, <1>9, <1>10 DEF n

\* What is left is late, or the last of it is still the answer to the present question: an
\* answer in time that leaves only late ones was the last one.
LEMMA LatestStays ==
    ASSUME ListTypes, LatestAsked, NEW i \in 1..Len(fetches),
           fetches' = Browser!Remaining(i), query' = query
    PROVE  /\ fetches' \in Seq(Answers) /\ LatestAsked'
           /\ (\A j \in 1..Len(fetches') : fetches'[j].late) /\ ~fetches[i].late
                => fetches[i].query = query
<1> DEFINE n == Len(fetches)
<1>1. n \in Nat /\ i \in 1..n /\ \A j \in 1..n : fetches[j] \in Answers
    BY DEF ListTypes
<1>2. /\ fetches' \in Seq(Answers) /\ Len(fetches') = n - 1
      /\ \A j \in 1..n - 1 :
           fetches'[j] = IF j < i THEN [fetches[j] EXCEPT !.late = TRUE] ELSE fetches[j + 1]
    BY Taken
<1>3. \A j \in 1..n : ~fetches[j].late => ~fetches[n].late /\ fetches[n].query = query
    BY DEF LatestAsked
<1> HIDE DEF n
<1>4. ASSUME NEW j \in 1..n - 1, ~fetches'[j].late
      PROVE  ~fetches'[n - 1].late /\ fetches'[n - 1].query = query
    <2>1. ~(j < i)
        <3>1. SUFFICES ASSUME j < i PROVE FALSE
            OBVIOUS
        <3>2. fetches[j] \in Answers /\ fetches'[j] = [fetches[j] EXCEPT !.late = TRUE]
            BY <1>1, <1>2, <3>1
        <3>3. QED
            BY <1>4, <3>2 DEF Answers
    <2>2. j + 1 \in 1..n /\ fetches'[j] = fetches[j + 1]
        BY <1>1, <1>2, <2>1
    <2>3. n - 1 \in 1..n - 1 /\ ~(n - 1 < i) /\ (n - 1) + 1 = n
        BY <1>1, <2>1
    <2>4. fetches'[n - 1] = fetches[n]
        BY <1>2, <2>3
    <2>5. QED
        BY <1>3, <1>4, <2>2, <2>4
<1>5. LatestAsked'
    BY <1>2, <1>4 DEF LatestAsked
<1>6. ASSUME \A j \in 1..n - 1 : fetches'[j].late, ~fetches[i].late
      PROVE  fetches[i].query = query
    <2>1. CASE i = n
        BY <1>1, <1>3, <1>6, <2>1
    <2>2. CASE i # n
        <3>1. n - 1 \in 1..n - 1 /\ ~(n - 1 < i) /\ (n - 1) + 1 = n
            BY <1>1, <2>2
        <3>2. fetches'[n - 1] = fetches[n]
            BY <1>2, <3>1
        <3>3. QED
            BY <1>1, <1>3, <1>6, <3>1, <3>2
    <2>3. QED
        BY <2>1, <2>2
<1>7. QED
    BY <1>2, <1>5, <1>6

\* Steps of the server, and of others.
LEMMA Untouched ==
    ASSUME ListInv, UNCHANGED <<query, rows, fetches, lagging, eventDialog, changeRequests>>
    PROVE  ListInv'
BY DEF ListInv, ListTypes, LatestAsked, Settled, DialogFits, SentAsShown, Browser!SentAsShown,
       Browser!Listed

\* Whatever is asked, an answer in time is awaited.
LEMMA AskedAgain ==
    ASSUME ListInv, NEW q \in Questions, NEW reset \in BOOLEAN, Browser!Fetch(q, reset),
           UNCHANGED lagging,
           UNCHANGED rows \/ (rows' = {} /\ eventDialog = Browser!NoDialog),
           eventDialog' \in {eventDialog, Browser!NoDialog},
           changeRequests' \subseteq Changes, SentAsShown'
    PROVE  ListInv'
<1>1. /\ query' \in Questions /\ fetches' \in Seq(Answers) /\ LatestAsked'
      /\ Len(fetches') \in 1..Len(fetches') /\ ~fetches'[Len(fetches')].late
    BY Asks DEF ListInv
<1>2. Settled'
    BY <1>1 DEF Settled
<1>3. Browser!Listed' = Browser!Listed \/ (Browser!Listed' = {} /\ eventDialog = Browser!NoDialog)
    BY DEF Browser!Listed
<1>4. ListTypes'
    BY <1>1, <1>3 DEF ListInv, ListTypes
<1>5. DialogFits'
    BY <1>3 DEF ListInv, DialogFits
<1>6. QED
    BY <1>1, <1>2, <1>4, <1>5 DEF ListInv

\* The user chooses a filter or a page, or comes back; or events are announced.
LEMMA BrowseKeeps ==
    ASSUME ListInv,
           \/ \E s \in Browser!Filters : Browser!ChooseStatus(s)
           \/ \E s \in Browser!Sources : Browser!ChooseSource(s)
           \/ \E p \in 0..MaxEventId : Browser!TurnPage(p)
           \/ Browser!Reopen \/ Browser!EventsAnnounced
    PROVE  ListInv'
<1>1. query \in Questions /\ changeRequests \subseteq Changes
    BY DEF ListInv, ListTypes
<1>2. PICK q \in Questions, reset \in BOOLEAN : Browser!Fetch(q, reset)
    <2>1. ASSUME NEW s \in Browser!Filters, Browser!ChooseStatus(s)
          PROVE  \E q \in Questions, reset \in BOOLEAN : Browser!Fetch(q, reset)
        <3>1. [query EXCEPT !.status = s, !.page = 0] \in Questions
            <4>1. 0 \in Int
                OBVIOUS
            <4>2. QED
                BY <1>1, <4>1, Zenon DEF Questions
        <3>2. QED
            BY <2>1, <3>1 DEF Browser!ChooseStatus, Browser!Browse
    <2>2. ASSUME NEW s \in Browser!Sources, Browser!ChooseSource(s)
          PROVE  \E q \in Questions, reset \in BOOLEAN : Browser!Fetch(q, reset)
        <3>1. [source |-> s, page |-> 0, status |-> IF s = "archive" THEN "all" ELSE "open"]
                \in Questions
            BY DEF Questions, Browser!Filters
        <3>2. QED
            BY <2>2, <3>1 DEF Browser!ChooseSource, Browser!Browse
    <2>3. ASSUME NEW p \in 0..MaxEventId, Browser!TurnPage(p)
          PROVE  \E q \in Questions, reset \in BOOLEAN : Browser!Fetch(q, reset)
        <3>1. [query EXCEPT !.page = p] \in Questions
            BY <1>1, ListAssumption DEF Questions
        <3>2. QED
            BY <2>3, <3>1 DEF Browser!TurnPage, Browser!Browse
    <2>4. CASE Browser!Reopen
        <3>1. Browser!Start \in Questions
            BY DEF Questions, Browser!Start, Browser!Sources, Browser!Filters
        <3>2. QED
            BY <2>4, <3>1 DEF Browser!Reopen
    <2>5. CASE Browser!EventsAnnounced
        BY <1>1, <2>5 DEF Browser!EventsAnnounced
    <2>6. QED
        BY <2>1, <2>2, <2>3, <2>4, <2>5
<1>3. /\ UNCHANGED <<lagging, eventDialog, changeRequests>>
      /\ UNCHANGED rows \/ (rows' = {} /\ eventDialog = Browser!NoDialog)
    BY DEF Browser!ChooseStatus, Browser!ChooseSource, Browser!TurnPage, Browser!Browse,
           Browser!Reopen, Browser!EventsAnnounced, Browser!historyVars
<1>4. SentAsShown'
    BY <1>3 DEF ListInv, SentAsShown, Browser!SentAsShown
<1>5. QED
    BY <1>1, <1>2, <1>3, <1>4, AskedAgain

\* An answer replaces the rows, or makes the list lag behind.
LEMMA AnswerKeeps ==
    ASSUME ListInv, NEW i, Browser!FetchAnswered(i) \/ Browser!FetchFails(i)
    PROVE  ListInv'
<1>1. /\ i \in 1..Len(fetches) /\ fetches[i] \in Answers
      /\ fetches' = Browser!Remaining(i) /\ query' = query /\ changeRequests' = changeRequests
    BY DEF ListInv, ListTypes, Browser!FetchAnswered, Browser!FetchFails
<1>2. /\ fetches' \in Seq(Answers) /\ LatestAsked'
      /\ (\A j \in 1..Len(fetches') : fetches'[j].late) /\ ~fetches[i].late
           => fetches[i].query = query
    BY <1>1, LatestStays DEF ListInv
<1>3. SentAsShown'
    BY <1>1 DEF ListInv, SentAsShown, Browser!SentAsShown
<1>4. CASE UNCHANGED <<rows, eventDialog>> /\ lagging' = TRUE
    <2>1. Browser!Listed' = Browser!Listed
        BY <1>4 DEF Browser!Listed
    <2>2. QED
        BY <1>1, <1>2, <1>3, <1>4, <2>1 DEF ListInv, ListTypes, Settled, DialogFits
<1>5. CASE /\ rows' = Browser!PageOf(fetches[i].query) /\ lagging' = fetches[i].late
           /\ Browser!Replaced({<<r[1], r[2]>> : r \in Browser!PageOf(fetches[i].query)},
                               fetches[i].reset)
    <2>1. fetches[i].query.source \in Browser!Sources /\ fetches[i].late \in BOOLEAN
        BY <1>1 DEF Answers, Questions
    <2>2. \A e \in Browser!Listed' : e \in Places /\ e[1] = fetches[i].query.source
        <3>1. TAKE e \in Browser!Listed'
        <3>2. PICK r \in Browser!PageOf(fetches[i].query) : e = <<r[1], r[2]>>
            BY <1>5 DEF Browser!Listed
        <3>3. PICK id \in Browser!Ids :
                r = <<fetches[i].query.source, id, storedEvents[<<fetches[i].query.source, id>>]>>
            BY DEF Browser!PageOf, Browser!Matching
        <3>4. e = <<fetches[i].query.source, id>>
            BY <3>2, <3>3
        <3>5. QED
            BY <2>1, <3>4 DEF Places
    <2>3. Settled'
        BY <1>1, <1>2, <1>5, <2>2 DEF Settled
    <2>4. CASE eventDialog = Browser!NoDialog
        <3>1. eventDialog' = Browser!NoDialog
            BY <1>5, <2>4 DEF Browser!Replaced
        <3>2. QED
            BY <1>1, <1>2, <1>3, <1>5, <2>1, <2>2, <2>3, <3>1 DEF ListInv, ListTypes, DialogFits
    <2>5. CASE eventDialog # Browser!NoDialog
        <3>1. eventDialog \in OpenDialogs
            BY <2>5 DEF ListInv, ListTypes
        <3>2. PICK deaf \in BOOLEAN :
                eventDialog' = [eventDialog EXCEPT !.deaf = deaf, !.hasty = @ \/ eventDialog.scope = "page"]
            BY <1>5, <2>5 DEF Browser!Replaced
        <3>3. eventDialog' \in OpenDialogs
            BY <3>1, <3>2 DEF OpenDialogs
        <3>4. /\ eventDialog'.kind = eventDialog.kind /\ eventDialog'.scope = eventDialog.scope
              /\ eventDialog'.chosen = eventDialog.chosen /\ eventDialog'.seen = eventDialog.seen
              /\ eventDialog'.source = eventDialog.source
              /\ eventDialog'.hasty = (eventDialog.hasty \/ eventDialog.scope = "page")
            BY <3>1, <3>2 DEF OpenDialogs
        <3>5. DialogFits'
            BY <2>5, <3>4 DEF ListInv, DialogFits, SourceOf
        <3>6. ListTypes'
            BY <1>1, <1>2, <1>5, <2>1, <2>2, <3>3 DEF ListInv, ListTypes
        <3>7. QED
            BY <1>2, <1>3, <2>3, <3>5, <3>6 DEF ListInv
    <2>6. QED
        BY <2>4, <2>5
<1>6. QED
    BY <1>4, <1>5 DEF Browser!FetchAnswered, Browser!FetchFails

\* A dialog is opened for events that are shown.
LEMMA OpenKeeps ==
    ASSUME ListInv, NEW kind \in Kinds, NEW scope \in Scopes, NEW chosen \in SUBSET Browser!Listed,
           Browser!Open(kind, scope, chosen)
    PROVE  ListInv'
<1> DEFINE source == IF scope = "one" THEN (CHOOSE e \in chosen : TRUE)[1] ELSE query.source
           hasty == fetches # <<>> \/ lagging
           d == [kind |-> kind, scope |-> scope, chosen |-> chosen, seen |-> Browser!Listed,
                 deaf |-> FALSE, source |-> source, hasty |-> hasty]
<1>1. /\ eventDialog' = d /\ chosen \subseteq Browser!Listed
      /\ scope = "one" => Cardinality(chosen) = 1
      /\ scope = "page" => chosen = Browser!Listed
      /\ kind = "edit" => IF scope = "one" THEN \A e \in chosen : e[1] = "live"
                          ELSE query.source = "live"
      /\ UNCHANGED <<query, rows, fetches, lagging, changeRequests>>
    <2>1. eventDialog' = d
        BY DEF Browser!Open
    <2>2. /\ chosen \subseteq Browser!Listed
          /\ scope = "one" => Cardinality(chosen) = 1
          /\ scope = "page" => chosen = Browser!Listed
        <3>1. \A S : Browser!Cardinality(S) = Cardinality(S)
            BY DEF Browser!Cardinality, Cardinality
        <3>2. QED
            BY <3>1 DEF Browser!Open
    <2>3. kind = "edit" => IF scope = "one" THEN \A e \in chosen : e[1] = "live"
                           ELSE query.source = "live"
        BY DEF Browser!Open
    <2>4. UNCHANGED <<query, rows, fetches, lagging, changeRequests>>
        BY DEF Browser!Open, Browser!shownVars
    <2>5. QED
        BY <2>1, <2>2, <2>3, <2>4
<1>2. /\ query \in Questions /\ fetches \in Seq(Answers) /\ Browser!Listed \subseteq Places
      /\ lagging \in BOOLEAN
    BY DEF ListInv, ListTypes
<1>3. scope = "one" => \E e \in chosen : chosen = {e}
    <2>1. IsFiniteSet(Browser!Sources) /\ IsFiniteSet(Browser!Ids)
        <3>1. IsFiniteSet({"live"} \cup {"archive"})
            BY FS_Singleton, FS_AddElement
        <3>2. Browser!Sources = {"live"} \cup {"archive"}
            BY DEF Browser!Sources
        <3>3. IsFiniteSet(1..MaxEventId)
            BY ListAssumption, FS_Interval
        <3>4. QED
            BY <3>1, <3>2, <3>3 DEF Browser!Ids
    <2>2. IsFiniteSet(chosen)
        BY <1>1, <1>2, <2>1, FS_Product, FS_Subset DEF Places
    <2>3. QED
        BY <1>1, <2>2, FS_Singleton
<1>4. scope = "one" => \E e \in chosen : chosen = {e} /\ source = e[1]
    BY <1>3
<1>5. source \in Browser!Sources
    BY <1>1, <1>2, <1>4 DEF Places, Questions
<1>6. d \in OpenDialogs
    BY <1>1, <1>2, <1>5 DEF OpenDialogs
<1>7. ~hasty => \A e \in Browser!Listed : e[1] = query.source
    BY <1>2 DEF ListInv, Settled
<1>8. ~hasty => \A e \in chosen : e[1] = IF kind = "edit" THEN "live" ELSE source
    BY <1>1, <1>4, <1>7
<1> HIDE DEF source, hasty
<1>9. Browser!Listed' = Browser!Listed
    BY <1>1 DEF Browser!Listed
<1>10. DialogFits'
    BY <1>1, <1>8, <1>9 DEF DialogFits, SourceOf
<1>11. ListTypes'
    BY <1>1, <1>2, <1>6, <1>9 DEF ListInv, ListTypes
<1>12. QED
    BY <1>1, <1>9, <1>10, <1>11
       DEF ListInv, LatestAsked, Settled, SentAsShown, Browser!SentAsShown

\* A request names what its dialog holds, in the table that it is in.
LEMMA ConfirmKeeps ==
    ASSUME ListInv, NEW archive \in BOOLEAN, Browser!Confirm(archive)
    PROVE  ListInv'
<1> DEFINE r == Browser!Request(archive)
<1>1. /\ eventDialog # Browser!NoDialog /\ eventDialog \in OpenDialogs
      /\ query \in Questions /\ Browser!Listed \subseteq Places
      /\ changeRequests' = {r} /\ UNCHANGED <<rows, lagging, eventDialog>>
    BY DEF ListInv, ListTypes, Browser!Confirm
<1>2. Browser!Named \subseteq Browser!Ids
    BY <1>1 DEF Browser!Named, Places, OpenDialogs
<1>3. r \in Changes
    BY <1>1, <1>2 DEF Browser!Request, Changes, OpenDialogs, Questions, Browser!Sources
<1>4. ASSUME eventDialog.scope # "all", ~eventDialog.hasty, NEW id \in Browser!Named
      PROVE  <<SourceOf(eventDialog), id>> \in eventDialog.seen
    <2>1. PICK e \in eventDialog.chosen : id = e[2]
        BY <1>1, <1>4 DEF Browser!Named, ListInv, DialogFits
    <2>2. e \in Places /\ e \in eventDialog.seen /\ e[1] = SourceOf(eventDialog)
        BY <1>1, <1>4 DEF ListInv, DialogFits, OpenDialogs
    <2>3. e = <<e[1], e[2]>>
        BY <2>2 DEF Places
    <2>4. QED
        BY <2>1, <2>2, <2>3
<1>5. /\ r.scope = eventDialog.scope /\ r.hasty = eventDialog.hasty /\ r.seen = eventDialog.seen
      /\ r.source = SourceOf(eventDialog)
      /\ r.scope # "all" => r.ids = Browser!Named
    BY DEF Browser!Request, SourceOf
<1> HIDE DEF r
<1>6. SentAsShown'
    <2>1. SUFFICES ASSUME r.scope # "all", ~r.hasty, NEW id \in r.ids
                   PROVE  <<r.source, id>> \in r.seen
        BY <1>1, Zenon DEF SentAsShown, Browser!SentAsShown
    <2>2. eventDialog.scope # "all" /\ ~eventDialog.hasty /\ id \in Browser!Named
        BY <1>5, <2>1
    <2>3. <<SourceOf(eventDialog), id>> \in eventDialog.seen
        BY <1>4, <2>2
    <2>4. QED
        BY <1>5, <2>3
<1>7. CASE UNCHANGED <<query, fetches>>
    <2>1. Browser!Listed' = Browser!Listed
        BY <1>1 DEF Browser!Listed
    <2>2. QED
        BY <1>1, <1>3, <1>6, <1>7, <2>1
           DEF ListInv, ListTypes, LatestAsked, Settled, DialogFits
<1>8. CASE Browser!Fetch([query EXCEPT !.page = @ - 1], FALSE)
    <2>1. [query EXCEPT !.page = @ - 1] \in Questions
        BY <1>1 DEF Questions
    <2>2. QED
        BY <1>1, <1>3, <1>6, <1>8, <2>1, AskedAgain
<1>9. QED
    BY <1>7, <1>8 DEF Browser!Confirm

\* Requests are served, fail or are answered.
LEMMA RequestKeeps ==
    ASSUME ListInv, NEW r \in changeRequests,
           Browser!ServeRequest(r) \/ Browser!RequestAnswered(r) \/ Browser!RequestFails(r)
    PROVE  ListInv'
<1>1. r \in Changes /\ query \in Questions
    BY DEF ListInv, ListTypes
<1>2. CASE Browser!ServeRequest(r)
    <2>1. /\ changeRequests' = {[r EXCEPT !.done = TRUE]}
          /\ UNCHANGED <<query, rows, fetches, lagging, eventDialog>>
        BY <1>2 DEF Browser!ServeRequest, Browser!shownVars
    <2>2. [r EXCEPT !.done = TRUE] \in Changes
        BY <1>1 DEF Changes
    <2>3. SentAsShown'
        BY <1>1, <2>1 DEF ListInv, SentAsShown, Browser!SentAsShown, Changes
    <2>4. Browser!Listed' = Browser!Listed
        BY <2>1 DEF Browser!Listed
    <2>5. QED
        BY <2>1, <2>2, <2>3, <2>4 DEF ListInv, ListTypes, LatestAsked, Settled, DialogFits
<1>3. CASE Browser!RequestAnswered(r)
    <2>1. SentAsShown' /\ changeRequests' \subseteq Changes
        BY <1>3 DEF Browser!RequestAnswered, SentAsShown, Browser!SentAsShown
    <2>2. QED
        BY <1>1, <1>3, <2>1, AskedAgain DEF Browser!RequestAnswered
<1>4. CASE Browser!RequestFails(r)
    <2>1. changeRequests' = {} /\ UNCHANGED <<query, rows, fetches, lagging, eventDialog>>
        BY <1>4 DEF Browser!RequestFails, Browser!shownVars
    <2>2. Browser!Listed' = Browser!Listed
        BY <2>1 DEF Browser!Listed
    <2>3. QED
        BY <2>1, <2>2 DEF ListInv, ListTypes, LatestAsked, Settled, DialogFits, SentAsShown,
                          Browser!SentAsShown
<1>5. QED
    BY <1>2, <1>3, <1>4

LEMMA ListInit == Browser!Init => ListInv
<1> SUFFICES ASSUME Browser!Init PROVE ListInv
    OBVIOUS
<1>1. /\ query = Browser!Start /\ rows = {}
      /\ fetches = <<[query |-> Browser!Start, reset |-> FALSE, late |-> FALSE]>>
      /\ eventDialog = Browser!NoDialog /\ changeRequests = {} /\ lagging = FALSE
    BY DEF Browser!Init
<1>2. Browser!Start \in Questions
    BY DEF Browser!Start, Questions, Browser!Sources, Browser!Filters
<1>3. [query |-> Browser!Start, reset |-> FALSE, late |-> FALSE] \in Answers
    BY <1>2 DEF Answers
<1>4. Browser!Listed = {}
    BY <1>1 DEF Browser!Listed
<1>5. ListTypes
    <2>1. fetches \in Seq(Answers)
        BY <1>1, <1>3
    <2>2. QED
        BY <1>1, <1>2, <1>4, <2>1 DEF ListTypes
<1>6. LatestAsked /\ Settled
    BY <1>1, <1>4 DEF LatestAsked, Settled
<1>7. DialogFits /\ SentAsShown
    BY <1>1 DEF DialogFits, SentAsShown, Browser!SentAsShown
<1>8. QED
    BY <1>5, <1>6, <1>7 DEF ListInv

LEMMA ListStep ==
    ASSUME ListInv, [Browser!Next]_Browser!browserVars
    PROVE  ListInv'
<1>1. CASE Browser!EventArrives \/ \E id \in Browser!Ids : Browser!SomebodyRemoves(id)
    BY <1>1, Untouched DEF Browser!EventArrives, Browser!SomebodyRemoves, Browser!shownVars
<1>2. CASE Browser!Dismiss
    BY <1>2 DEF Browser!Dismiss, Browser!shownVars, ListInv, ListTypes, LatestAsked, Settled,
       DialogFits, SentAsShown, Browser!SentAsShown, Browser!Listed
<1>3. CASE UNCHANGED Browser!browserVars
    BY <1>3, Untouched DEF Browser!browserVars, Browser!shownVars
<1>4. QED
    BY <1>1, <1>2, <1>3, BrowseKeeps, AnswerKeeps, OpenKeeps, ConfirmKeeps, RequestKeeps
       DEF Browser!Next, Kinds, Scopes

\* A request for some of the events names those that the list showed when its dialog was opened,
\* in the table that they are in, whatever is fetched late, filtered, turned or removed meanwhile,
\* but for the lists that SentAsShown calls hasty.
THEOREM WhatIsShownIsSent == Browser!Spec => []SentAsShown
<1>1. ListInv => SentAsShown
    BY DEF ListInv
<1>2. QED
    BY <1>1, ListInit, ListStep, PTL DEF Browser!Spec

-----------------------------------------------------------------------------
(* A sensor in the web interface *)

Credentials == Sensors!Readable \cup {NoFile}
Attachments == PemFiles \cup {NoFile, NotSent}
Stages == {"none", "there"}
Switched == [Sensors!Sections -> BOOLEAN]

SensorRecords == [section : Switched, mode : Sensors!Modes, password : BOOLEAN,
                  ca : Credentials, client : Credentials, services : SUBSET ServiceChoices]
Models == [listed : BOOLEAN, section : Switched, mode : Sensors!Modes, services : SUBSET ServiceChoices,
           ca : {Fingerprint, NoFile, NotSent}, client : BOOLEAN]
SensorRequests == [kind : {"form", "toggle"}, object : Nat, section : Switched,
                   odd : SUBSET Sensors!Sections, mode : Sensors!Modes, password : BOOLEAN, ca : Attachments \cup {Fingerprint}, client : Attachments,
                   services : SUBSET ServiceChoices]
SensorForms == [phase : {"none", "form", "busy", "result"}, object : Nat, section : Switched,
                content : [Sensors!Sections -> {"empty", "good", "odd"}], mode : Sensors!Modes, password : BOOLEAN,
                shown : [Sensors!Fields -> {"empty", "print", "file", "error"}],
                attached : [Sensors!Fields -> Attachments]]

\* Forms and requests are about models that the page has had.
SensorTypes ==
    /\ stage \in Stages /\ sensor \in SensorRecords
    /\ objects \in Seq(Models) /\ Len(objects) \in Nat \ {0}
    /\ sensorForm \in SensorForms
    /\ sensorForm # Sensors!Closed => sensorForm.object \in 1..Len(objects)
    /\ sensorAsks \subseteq SensorRequests
    /\ \A r \in sensorAsks : r.object \in 1..Len(objects)
    /\ touched \subseteq ServiceChoices
    /\ fetching \in BOOLEAN /\ meddled \in BOOLEAN /\ sensorHasty \in BOOLEAN
    /\ sensorLacked \in BOOLEAN

-----------------------------------------------------------------------------
(* The services of a sensor *)

\* Two sets of services that differ in those only whose check box was clicked.
Agree(S, T) == \A s \in ServiceChoices : (s \in S) # (s \in T) => s \in touched

\* Whatever the page knows, and whatever it has sent, agrees with the server.
ServicesAgree ==
    ~meddled =>
      /\ \A i \in 1..Len(objects) : Agree(objects[i].services, sensor.services)
      /\ \A r \in sensorAsks : Agree(r.services, sensor.services)
      /\ stage = "none" => sensor.services = {}

-----------------------------------------------------------------------------
(* The credentials of a sensor *)

\* The server keeps the credentials that the mode of the sensor uses, and no others.
CredentialsFit ==
    /\ sensor.mode \in Sensors!NeedsPassword => sensor.password
    /\ sensor.client # NoFile <=> sensor.mode = "tls"
    /\ stage = "none" => sensor.mode = "off"

\* What the page has to know of them: the mode, and no certificate that is not there.
Knows(m) == m.mode = sensor.mode /\ (m.client => sensor.client # NoFile)

\* A file that a form shows has been attached to it; a fingerprint has not been touched.
ShownFits ==
    \A f \in {"cert", "key"} :
      /\ sensorForm.shown[f] = "file" => sensorForm.attached[f] \in PemFiles
      /\ sensorForm.shown[f] = "print" => sensorForm.attached[f] = NotSent

\* While nobody interferes: one request is under way at most, none while a form is filled in
\* or an update is awaited; the page knows the mode; and forms lack nothing.
Undisturbed ==
    /\ \A r, q \in sensorAsks : r = q
    /\ sensorForm.phase = "form" \/ fetching => sensorAsks = {}
    /\ sensorForm.phase = "form" =>
         /\ ~fetching /\ Knows(objects[sensorForm.object])
         /\ \A f \in {"cert", "key"} : sensorForm.shown[f] = "print" => sensor.client # NoFile
    /\ ~fetching => Knows(objects[Len(objects)])
    /\ \A r \in sensorAsks :
         IF r.kind = "form" THEN Sensors!Complete(r)
         ELSE r.mode = sensor.mode /\ r.client = NotSent

FormsInv ==
    /\ SensorTypes /\ ServicesAgree /\ CredentialsFit
    /\ (sensorForm.phase = "form" => ShownFits)
    /\ (~meddled /\ ~sensorHasty => Undisturbed)
    /\ NothingIsMissing

\* No form.
LEMMA ClosedTypes == Sensors!Closed \in SensorForms
<1>1. Sensors!Blank.section \in Switched
    BY DEF Sensors!Blank, Switched
<1>2. QED
    BY <1>1 DEF Sensors!Closed, SensorForms, Attachments, Sensors!Modes

\* A form is opened on the model of the list.
LEMMA Opened ==
    ASSUME SensorTypes, Sensors!Open
    PROVE  /\ sensorForm' \in SensorForms /\ sensorForm'.phase = "form"
           /\ sensorForm'.object = Len(objects)
           /\ \A f \in Sensors!Fields :
                /\ sensorForm'.attached[f] = NotSent
                /\ sensorForm'.shown[f] \in {"empty", "print"}
                /\ f # "ca" /\ sensorForm'.shown[f] = "print" => objects[Len(objects)].client
<1> DEFINE m == objects[Len(objects)]
           Shown(f) == IF (f = "ca" /\ m.mode \in Sensors!UsesCA /\ m.ca = Fingerprint)
                          \/ (f # "ca" /\ m.mode = "tls" /\ m.client) THEN "print" ELSE "empty"
           content == [x \in Sensors!Sections |-> IF m.section[x] THEN "good" ELSE "empty"]
           shown == [f \in Sensors!Fields |-> Shown(f)]
<1>1. m \in Models
    BY DEF SensorTypes
<1>2. sensorForm' = [Sensors!Closed EXCEPT !.phase = "form", !.object = Len(objects), !.mode = m.mode,
                       !.section = m.section, !.content = content, !.shown = shown]
    BY Zenon DEF Sensors!Open, Sensors!Listed
<1>3. /\ content \in [Sensors!Sections -> {"empty", "good", "odd"}]
      /\ shown \in [Sensors!Fields -> {"empty", "print", "file", "error"}]
      /\ \A f \in Sensors!Fields : /\ shown[f] \in {"empty", "print"}
                                   /\ f # "ca" /\ shown[f] = "print" => m.client
    OBVIOUS
<1>4. m.mode \in Sensors!Modes /\ m.section \in Switched /\ Len(objects) \in Nat
    BY <1>1 DEF Models, SensorTypes
<1> HIDE DEF m, content, shown
<1>5. [phase |-> "form", object |-> Len(objects), section |-> m.section, content |-> content,
       mode |-> m.mode, password |-> FALSE, shown |-> shown,
       attached |-> [f \in Sensors!Fields |-> NotSent]] = sensorForm'
    BY <1>2 DEF Sensors!Closed
<1>6. sensorForm' \in SensorForms
    BY <1>3, <1>4, <1>5 DEF SensorForms, Attachments
<1>7. QED
    BY <1>3, <1>5, <1>6 DEF m

\* Nothing but the form, or the counters, has changed.
Elsewhere == UNCHANGED <<sensor, stage, objects, sensorAsks, fetching, touched, meddled,
                         sensorLacked>>

\* What a change may make of a form.
FormChanged(new) ==
    /\ new \in SensorForms /\ new.phase = sensorForm.phase /\ new.object = sensorForm.object
    /\ \A f \in {"cert", "key"} :
         /\ new.shown[f] = "file" => new.attached[f] \in PemFiles
         /\ new.shown[f] = "print" => new.attached[f] = NotSent /\ sensorForm.shown[f] = "print"

\* Changes in a form: files are attached, or fields emptied.
LEMMA Edited ==
    ASSUME FormsInv, Sensors!Edits
    PROVE  /\ sensorForm.phase = "form" /\ Elsewhere /\ UNCHANGED sensorHasty
           /\ FormChanged(sensorForm')
<1>1. sensorForm \in SensorForms /\ (sensorForm.phase = "form" => ShownFits)
    BY DEF FormsInv, SensorTypes
<1>2. {"cert", "key"} \subseteq Sensors!Fields
    BY DEF Sensors!Fields
<1>3. ASSUME NEW new, Sensors!Editing(new), sensorForm.phase = "form" => FormChanged(new)
      PROVE  /\ sensorForm.phase = "form" /\ Elsewhere /\ UNCHANGED sensorHasty
             /\ FormChanged(sensorForm')
    <2>1. sensorForm' = new /\ sensorForm.phase = "form" /\ Elsewhere /\ UNCHANGED sensorHasty
        BY <1>3 DEF Sensors!Editing, Elsewhere
    <2>2. QED
        BY <1>3, <2>1
<1>4. ASSUME NEW x \in Sensors!Sections, Sensors!Switch(x) \/ \E c \in Sensors!Contents(x) : Sensors!Fill(x, c)
      PROVE  \E new : Sensors!Editing(new) /\ (sensorForm.phase = "form" => FormChanged(new))
    <2>1. CASE Sensors!Switch(x)
        <3> DEFINE on == ~sensorForm.section[x]
                   content == IF on /\ x \in KeptParts /\ objects[sensorForm.object].section[x]
                              THEN "good" ELSE "empty"
                   new == [sensorForm EXCEPT !.section[x] = on, !.content[x] = content]
        <3>1. Sensors!Editing(new)
            BY <2>1 DEF Sensors!Switch
        <3>2. on \in BOOLEAN /\ content \in {"empty", "good", "odd"}
            BY <1>1 DEF SensorForms
        <3>3. sensorForm.phase = "form" => FormChanged(new)
            BY <1>1, <1>2, <3>2 DEF FormChanged, SensorForms, Switched, ShownFits
        <3>4. QED
            BY <3>1, <3>3
    <2>2. ASSUME NEW c \in Sensors!Contents(x), Sensors!Fill(x, c)
          PROVE  \E new : Sensors!Editing(new) /\ (sensorForm.phase = "form" => FormChanged(new))
        <3> DEFINE new == [sensorForm EXCEPT !.content[x] = c]
        <3>1. Sensors!Editing(new)
            BY <2>2 DEF Sensors!Fill
        <3>2. sensorForm.phase = "form" => FormChanged(new)
            BY <1>1, <1>2, <2>2 DEF FormChanged, SensorForms, ShownFits, Sensors!Contents
        <3>3. QED
            BY <3>1, <3>2
    <2>3. QED
        BY <1>4, <2>1, <2>2
<1>5. ASSUME NEW mode \in Sensors!Modes, Sensors!ChooseMode(mode)
      PROVE  \E new : Sensors!Editing(new) /\ (sensorForm.phase = "form" => FormChanged(new))
    <2> DEFINE used == IF mode = "tls" THEN Sensors!Fields ELSE IF mode = "peap" THEN {"ca"} ELSE {}
               shown == [f \in Sensors!Fields |-> IF f \in used THEN "empty" ELSE sensorForm.shown[f]]
               new == [sensorForm EXCEPT !.mode = mode, !.shown = shown]
    <2>1. Sensors!Editing(new)
        BY <1>5 DEF Sensors!ChooseMode
    <2>2. /\ shown \in [Sensors!Fields -> {"empty", "print", "file", "error"}]
          /\ \A f \in Sensors!Fields : shown[f] \in {"empty", sensorForm.shown[f]}
        BY <1>1 DEF SensorForms
    <2> HIDE DEF shown
    <2>3. sensorForm.phase = "form" => FormChanged(new)
        BY <1>1, <1>2, <2>2 DEF FormChanged, SensorForms, ShownFits
    <2>4. QED
        BY <2>1, <2>3
<1>6. ASSUME NEW f \in Sensors!Fields,
             \/ \E file \in PemFiles : Sensors!ChooseFile(f, file)
             \/ Sensors!ChooseLargeFile(f) \/ Sensors!RemoveUpload(f)
      PROVE  \E new : Sensors!Editing(new) /\ (sensorForm.phase = "form" => FormChanged(new))
    <2>1. ASSUME NEW file \in PemFiles, Sensors!ChooseFile(f, file)
          PROVE  \E new : Sensors!Editing(new) /\ (sensorForm.phase = "form" => FormChanged(new))
        <3> DEFINE new == [sensorForm EXCEPT !.shown[f] = "file", !.attached[f] = file]
        <3>1. Sensors!Editing(new)
            BY <2>1 DEF Sensors!ChooseFile
        <3>2. sensorForm.phase = "form" => FormChanged(new)
            BY <1>1, <1>2 DEF FormChanged, SensorForms, ShownFits, Attachments
        <3>3. QED
            BY <3>1, <3>2
    <2>2. CASE Sensors!ChooseLargeFile(f)
        <3> DEFINE new == [sensorForm EXCEPT !.shown[f] = "error"]
        <3>1. Sensors!Editing(new)
            BY <2>2 DEF Sensors!ChooseLargeFile
        <3>2. sensorForm.phase = "form" => FormChanged(new)
            BY <1>1, <1>2 DEF FormChanged, SensorForms, ShownFits, Attachments
        <3>3. QED
            BY <3>1, <3>2
    <2>3. CASE Sensors!RemoveUpload(f)
        <3> DEFINE new == [sensorForm EXCEPT !.shown[f] = "empty", !.attached[f] = NoFile]
        <3>1. Sensors!Editing(new)
            BY <2>3 DEF Sensors!RemoveUpload
        <3>2. sensorForm.phase = "form" => FormChanged(new)
            BY <1>1, <1>2 DEF FormChanged, SensorForms, ShownFits, Attachments
        <3>3. QED
            BY <3>1, <3>2
    <2>4. QED
        BY <1>6, <2>1, <2>2, <2>3
<1>7. ASSUME Sensors!TypePassword
      PROVE  \E new : Sensors!Editing(new) /\ (sensorForm.phase = "form" => FormChanged(new))
    <2> DEFINE new == [sensorForm EXCEPT !.password = TRUE]
    <2>1. Sensors!Editing(new)
        BY <1>7 DEF Sensors!TypePassword
    <2>2. sensorForm.phase = "form" => FormChanged(new)
        BY <1>1, <1>2 DEF FormChanged, SensorForms, ShownFits
    <2>3. QED
        BY <2>1, <2>2
<1>8. \E new : Sensors!Editing(new) /\ (sensorForm.phase = "form" => FormChanged(new))
    BY <1>4, <1>5, <1>6, <1>7 DEF Sensors!Edits
<1>9. QED
    BY <1>3, <1>8

\* A form is filled in, or out of sight; what the page and the server have stays.
LEMMA FormSteps ==
    ASSUME FormsInv, Sensors!Open \/ Sensors!Edits \/ Sensors!CloseForm
    PROVE  FormsInv' /\ UNCHANGED sensor
<1>1. SensorTypes /\ objects[Len(objects)] \in Models
    BY DEF FormsInv, SensorTypes
<1>2. CASE Sensors!Open
    <2>1. Elsewhere /\ sensorHasty' = (sensorHasty \/ sensorAsks # {} \/ fetching)
        BY <1>2 DEF Sensors!Open, Sensors!Hasty, Elsewhere
    <2>2. /\ sensorForm' \in SensorForms /\ sensorForm'.phase = "form"
          /\ sensorForm'.object = Len(objects)
          /\ \A f \in Sensors!Fields :
               /\ sensorForm'.attached[f] = NotSent
               /\ sensorForm'.shown[f] \in {"empty", "print"}
               /\ f # "ca" /\ sensorForm'.shown[f] = "print" => objects[Len(objects)].client
        BY <1>1, <1>2, Opened
    <2>3. \A f \in {"cert", "key"} : f \in Sensors!Fields /\ f # "ca"
        BY DEF Sensors!Fields
    <2>4. SensorTypes'
        BY <1>1, <2>1, <2>2 DEF SensorTypes, Elsewhere
    <2>5. ShownFits'
        BY <2>2, <2>3 DEF ShownFits
    <2>6. ASSUME ~meddled', ~sensorHasty' PROVE Undisturbed'
        <3>1. Undisturbed /\ sensorAsks = {} /\ ~fetching
            BY <1>1, <2>1, <2>6 DEF FormsInv, SensorTypes, Elsewhere
        <3>2. Knows(objects[Len(objects)])
            BY <3>1 DEF Undisturbed
        <3>3. \A f \in {"cert", "key"} : sensorForm'.shown[f] = "print" => sensor.client # NoFile
            BY <2>2, <2>3, <3>2 DEF Knows
        <3>4. QED
            BY <2>1, <2>2, <3>1, <3>2, <3>3 DEF Undisturbed, Knows, Elsewhere
    <2>7. ServicesAgree' /\ CredentialsFit' /\ NothingIsMissing'
        BY <2>1 DEF FormsInv, ServicesAgree, Agree, CredentialsFit, NothingIsMissing,
                    Sensors!NothingIsMissing, Elsewhere
    <2>8. QED
        BY <2>1, <2>4, <2>5, <2>6, <2>7 DEF FormsInv, Elsewhere
<1>3. CASE Sensors!Edits
    <2>1. /\ sensorForm.phase = "form" /\ Elsewhere /\ UNCHANGED sensorHasty
          /\ FormChanged(sensorForm')
        BY <1>3, Edited
    <2>2. SensorTypes'
        <3>1. sensorForm # Sensors!Closed
            BY <2>1 DEF Sensors!Closed
        <3>2. QED
            BY <1>1, <2>1, <3>1 DEF SensorTypes, Elsewhere, FormChanged
    <2>3. ShownFits'
        BY <2>1 DEF ShownFits, FormChanged
    <2>4. ASSUME Undisturbed PROVE Undisturbed'
        BY <2>1, <2>4 DEF Undisturbed, Knows, FormChanged, Elsewhere, Sensors!Complete
    <2>5. ServicesAgree' /\ CredentialsFit' /\ NothingIsMissing'
        BY <2>1 DEF FormsInv, ServicesAgree, Agree, CredentialsFit, NothingIsMissing,
                    Sensors!NothingIsMissing, Elsewhere
    <2>6. QED
        BY <2>1, <2>2, <2>3, <2>4, <2>5 DEF FormsInv, Elsewhere
<1>4. CASE Sensors!CloseForm
    <2>1. /\ Elsewhere /\ UNCHANGED sensorHasty /\ sensorForm' = Sensors!Closed
        BY <1>4 DEF Sensors!CloseForm, Sensors!historyVars, Elsewhere
    <2>2. sensorForm' \in SensorForms /\ sensorForm'.phase = "none"
        BY <2>1, ClosedTypes DEF Sensors!Closed
    <2>3. SensorTypes'
        BY <1>1, <2>1, <2>2 DEF SensorTypes, Elsewhere
    <2>4. ASSUME Undisturbed PROVE Undisturbed'
        BY <2>1, <2>2, <2>4 DEF Undisturbed, Knows, Elsewhere, Sensors!Complete
    <2>5. ServicesAgree' /\ CredentialsFit' /\ NothingIsMissing'
        BY <2>1 DEF FormsInv, ServicesAgree, Agree, CredentialsFit, NothingIsMissing,
                    Sensors!NothingIsMissing, Elsewhere
    <2>6. QED
        BY <2>1, <2>2, <2>3, <2>4, <2>5 DEF FormsInv, Elsewhere
<1>5. QED
    BY <1>2, <1>3, <1>4

-----------------------------------------------------------------------------
(* What a form sends *)

\* Of the certificate and the key of a client both are sent, or neither.
LEMMA WhatIsSubmitted ==
    ASSUME FormsInv, Sensors!Submit
    PROVE  LET r == Sensors!Submitted IN
           /\ r \in SensorRequests /\ r.kind = "form" /\ r.object = sensorForm.object
           /\ r.services = objects[sensorForm.object].services
           /\ ~meddled /\ ~sensorHasty => Sensors!Complete(r)
<1> DEFINE r == Sensors!Submitted
           cert == sensorForm.attached["cert"]
           key == sensorForm.attached["key"]
           identity == Sensors!ClientSent
<1>1. /\ sensorForm \in SensorForms /\ sensorForm.phase = "form" /\ Sensors!Valid
      /\ objects[sensorForm.object] \in Models
    <2>1. sensorForm.phase = "form" /\ sensorForm # Sensors!Closed
        BY DEF Sensors!Submit, Sensors!Closed
    <2>2. QED
        BY <2>1 DEF FormsInv, SensorTypes, Sensors!Submit
<1>2. r = [kind |-> "form", object |-> sensorForm.object, section |-> sensorForm.section,
           odd |-> Sensors!OddSections, mode |-> sensorForm.mode, password |-> sensorForm.password,
           ca |-> sensorForm.attached["ca"], client |-> identity,
           services |-> objects[sensorForm.object].services]
    BY DEF Sensors!Submitted
<1>3. {"ca", "cert", "key"} = Sensors!Fields
    BY DEF Sensors!Fields
<1>4. sensorForm.attached["ca"] \in Attachments /\ cert \in Attachments /\ key \in Attachments
    BY <1>1, <1>3 DEF SensorForms
<1>5. /\ identity \in Attachments
      /\ NotSent \in {cert, key} => identity = NotSent
      /\ {cert, key} \subseteq PemFiles => identity \in PemFiles
    BY <1>4, SensorAssumption DEF Attachments, Sensors!ClientSent
<1>6. r \in SensorRequests
    <2>1. Sensors!OddSections \subseteq Sensors!Sections
        BY DEF Sensors!OddSections
    <2> HIDE DEF identity, r
    <2>2. QED
        BY <1>1, <1>2, <1>4, <1>5, <2>1 DEF SensorForms, Models, SensorRequests
<1>7. ASSUME ~meddled, ~sensorHasty PROVE Sensors!Complete(r)
    <2>1. Knows(objects[sensorForm.object]) /\ CredentialsFit /\ ShownFits
        BY <1>1, <1>7 DEF FormsInv, Undisturbed
    <2>2. \A f \in {"cert", "key"} : sensorForm.shown[f] = "print" => sensor.client # NoFile
        BY <1>1, <1>7 DEF FormsInv, Undisturbed
    <2>3. stage \in Stages
        BY DEF FormsInv, SensorTypes
    <2>4. r.mode \in Sensors!NeedsPassword => r.password \/ (stage = "there" /\ sensor.password)
        <3>1. r.mode = sensorForm.mode /\ r.password = sensorForm.password
            BY <1>2
        <3>2. sensorForm.mode \in Sensors!NeedsPassword /\ sensorForm.mode # sensor.mode
                => sensorForm.password
            BY <1>1, <2>1 DEF Sensors!Valid, Knows
        <3>3. QED
            BY <2>1, <2>3, <3>1, <3>2 DEF CredentialsFit, Sensors!NeedsPassword, Stages
    <2>5. r.mode = "tls" => r.client \in PemFiles
                            \/ (stage = "there" /\ r.client \in {NoFile, NotSent} /\ sensor.client # NoFile)
        <3>1. SUFFICES ASSUME sensorForm.mode = "tls"
                       PROVE  identity \in PemFiles
                              \/ (stage = "there" /\ identity = NotSent /\ sensor.client # NoFile)
            BY <1>2
        <3>2. \A f \in {"cert", "key"} : sensorForm.shown[f] \in {"print", "file"}
            BY <1>1, <1>3, <3>1 DEF Sensors!Valid, SensorForms
        <3>3. CASE \A f \in {"cert", "key"} : sensorForm.shown[f] = "file"
            BY <1>5, <2>1, <3>3 DEF ShownFits
        <3>4. CASE \E f \in {"cert", "key"} : sensorForm.shown[f] = "print"
            <4>1. NotSent \in {cert, key} /\ sensor.client # NoFile
                BY <2>1, <2>2, <3>4 DEF ShownFits
            <4>2. stage = "there"
                BY <2>1, <2>3, <4>1 DEF CredentialsFit, Stages
            <4>3. QED
                BY <1>5, <4>1, <4>2
        <3>5. QED
            BY <3>2, <3>3, <3>4
    <2>6. QED
        BY <2>4, <2>5 DEF Sensors!Complete
<1>8. QED
    BY <1>2, <1>6, <1>7

LEMMA SubmitStep ==
    ASSUME FormsInv, Sensors!Submit
    PROVE  FormsInv' /\ UNCHANGED sensor
<1> DEFINE i == sensorForm.object
           ca == IF sensorForm.attached["ca"] = NotSent THEN NotSent ELSE objects[i].ca
           known == objects[i].client /\ Sensors!ClientSent # NotSent
           n == [objects[i] EXCEPT !.ca = ca, !.client = known]
<1>1. /\ sensorForm \in SensorForms /\ sensorForm.phase = "form" /\ i \in 1..Len(objects)
      /\ objects \in Seq(Models) /\ objects[i] \in Models
    <2>1. sensorForm.phase = "form" /\ sensorForm # Sensors!Closed
        BY DEF Sensors!Submit, Sensors!Closed
    <2>2. QED
        BY <2>1 DEF FormsInv, SensorTypes
<1>2. PICK r \in SensorRequests :
        /\ r = Sensors!Submitted /\ r.kind = "form" /\ r.object = i
        /\ r.services = objects[i].services
        /\ ~meddled /\ ~sensorHasty => Sensors!Complete(r)
    BY WhatIsSubmitted
<1>3. /\ sensorAsks' = sensorAsks \cup {r}
      /\ sensorForm' = [sensorForm EXCEPT !.phase = "busy"]
      /\ objects' = [objects EXCEPT ![i].ca = ca, ![i].client = known]
      /\ UNCHANGED <<sensor, stage, fetching, touched, meddled, sensorHasty, sensorLacked>>
    BY <1>2, Zenon DEF Sensors!Submit, Sensors!historyVars
<1>4. ca \in {Fingerprint, NoFile, NotSent} /\ known \in BOOLEAN /\ (known => objects[i].client)
    BY <1>1 DEF Models
<1> HIDE DEF ca, known
<1>5. /\ objects' \in Seq(Models) /\ Len(objects') = Len(objects)
      /\ \A j \in 1..Len(objects) : /\ objects'[j].services = objects[j].services
                                    /\ objects'[j].mode = objects[j].mode
                                    /\ objects'[j].client => objects[j].client
    <2>1. /\ n \in Models /\ n.services = objects[i].services /\ n.mode = objects[i].mode
          /\ n.client => objects[i].client
        BY <1>1, <1>4 DEF Models
    <2>2. objects' = [objects EXCEPT ![i] = n]
        BY <1>1, <1>3
    <2> HIDE DEF n
    <2>3. /\ objects' \in Seq(Models) /\ Len(objects') = Len(objects)
          /\ \A j \in 1..Len(objects) : objects'[j] = IF j = i THEN n ELSE objects[j]
        BY <1>1, <2>1, <2>2, ExceptSeq
    <2>4. QED
        BY <2>1, <2>3
<1>6. /\ sensorForm' \in SensorForms /\ sensorForm'.phase = "busy"
      /\ sensorForm'.object = i
    BY <1>1, <1>3 DEF SensorForms
<1>7. SensorTypes'
    BY <1>1, <1>2, <1>3, <1>5, <1>6 DEF FormsInv, SensorTypes
<1>8. ServicesAgree'
    BY <1>1, <1>2, <1>3, <1>5 DEF FormsInv, ServicesAgree, Agree
<1>9. CredentialsFit' /\ NothingIsMissing'
    BY <1>3 DEF FormsInv, CredentialsFit, NothingIsMissing, Sensors!NothingIsMissing
<1>10. ASSUME ~meddled, ~sensorHasty PROVE Undisturbed'
    <2>1. /\ sensorAsks = {} /\ ~fetching /\ Sensors!Complete(r)
          /\ Knows(objects[Len(objects)]) /\ Len(objects) \in 1..Len(objects)
        BY <1>1, <1>2, <1>10 DEF FormsInv, Undisturbed, SensorTypes
    <2>2. sensorAsks' = {r}
        BY <1>3, <2>1
    <2>3. Sensors!Complete(r)'
        BY <1>3, <2>1 DEF Sensors!Complete
    <2>4. Knows(objects[Len(objects)])'
        BY <1>3, <1>5, <2>1 DEF Knows
    <2>5. QED
        BY <1>2, <1>3, <1>6, <2>1, <2>2, <2>3, <2>4 DEF Undisturbed
<1>11. QED
    BY <1>3, <1>6, <1>7, <1>8, <1>9, <1>10 DEF FormsInv

-----------------------------------------------------------------------------
(* The list *)

\* A check box sends the model of the list, with a service more or less.
LEMMA ToggleStep ==
    ASSUME FormsInv, NEW s \in ServiceChoices, Sensors!Toggle(s)
    PROVE  FormsInv' /\ UNCHANGED sensor
<1> DEFINE i == Len(objects)
           m == objects[i]
           services == IF s \notin m.services THEN m.services \cup {s} ELSE m.services \ {s}
           r == Sensors!Whole(services)
<1>1. i \in 1..i /\ objects \in Seq(Models) /\ m \in Models
    BY DEF FormsInv, SensorTypes
<1>2. /\ objects' = objects \/ objects' = [objects EXCEPT ![i].services = services]
      /\ sensorAsks' = sensorAsks \cup {r} /\ touched' = touched \cup {s}
      /\ sensorHasty' = (sensorHasty \/ sensorAsks # {} \/ fetching)
      /\ sensorForm = Sensors!Closed
      /\ UNCHANGED <<sensor, stage, sensorForm, fetching, meddled, sensorLacked>>
    BY DEF Sensors!Toggle, Sensors!Listed, Sensors!Hasty
<1>3. services \subseteq ServiceChoices
    BY <1>1 DEF Models
<1>4. /\ r \in SensorRequests /\ r.kind = "toggle" /\ r.object = i
      /\ r.services = services /\ r.mode = m.mode /\ r.client = NotSent
    <2>1. r = [kind |-> "toggle", object |-> i, section |-> m.section, odd |-> {}, mode |-> m.mode,
               password |-> FALSE, ca |-> m.ca, client |-> NotSent, services |-> services]
        BY DEF Sensors!Whole, Sensors!Listed
    <2> HIDE DEF r, services
    <2>2. QED
        BY <1>1, <1>3, <2>1 DEF Models, SensorRequests, Attachments
<1> HIDE DEF r
<1>5. /\ objects' \in Seq(Models) /\ Len(objects') = i
      /\ \A j \in 1..i : /\ objects'[j].services \in {objects[j].services, services}
                         /\ j # i => objects'[j] = objects[j]
                         /\ objects'[j].mode = objects[j].mode
                         /\ objects'[j].client = objects[j].client
    <2> DEFINE n == [m EXCEPT !.services = services]
    <2> HIDE DEF services
    <2>1. n \in Models /\ n.services = services /\ n.mode = m.mode /\ n.client = m.client
        BY <1>1, <1>3 DEF Models
    <2>2. CASE objects' = objects
        BY <1>1, <2>2
    <2>3. CASE objects' = [objects EXCEPT ![i] = n]
        <3> HIDE DEF n
        <3>1. /\ objects' \in Seq(Models) /\ Len(objects') = i
              /\ \A j \in 1..i : objects'[j] = IF j = i THEN n ELSE objects[j]
            BY <1>1, <2>1, <2>3, ExceptSeq
        <3>2. QED
            BY <2>1, <3>1
    <2>4. QED
        BY <1>1, <1>2, <2>2, <2>3
<1>6. SensorTypes'
    BY <1>1, <1>2, <1>4, <1>5 DEF FormsInv, SensorTypes
<1>7. ServicesAgree'
    <2>1. SUFFICES ASSUME ~meddled PROVE ServicesAgree'
        BY <1>2 DEF ServicesAgree
    <2>2. \A t \in ServiceChoices : (t \in services) # (t \in m.services) => t = s
        OBVIOUS
    <2> HIDE DEF services
    <2>3. \A t \in ServiceChoices : (t \in services) # (t \in sensor.services) => t \in touched'
        BY <1>1, <1>2, <2>1, <2>2 DEF FormsInv, ServicesAgree, Agree
    <2>4. QED
        BY <1>1, <1>2, <1>4, <1>5, <2>1, <2>3 DEF FormsInv, ServicesAgree, Agree
<1>8. CredentialsFit' /\ NothingIsMissing' /\ sensorForm'.phase # "form"
    BY <1>2 DEF FormsInv, CredentialsFit, NothingIsMissing, Sensors!NothingIsMissing, Sensors!Closed
<1>9. ASSUME ~meddled, ~sensorHasty' PROVE Undisturbed'
    <2>1. Undisturbed /\ sensorAsks = {} /\ ~fetching
        BY <1>2, <1>9 DEF FormsInv, SensorTypes
    <2>2. Knows(m)
        BY <2>1 DEF Undisturbed
    <2>3. sensorAsks' = {r} /\ r.mode = sensor.mode
        BY <1>2, <1>4, <2>1, <2>2 DEF Knows
    <2>4. Knows(objects'[i])
        BY <1>1, <1>5, <2>2 DEF Knows
    <2>5. QED
        BY <1>2, <1>4, <1>5, <1>8, <2>1, <2>3, <2>4 DEF Undisturbed, Knows
<1>10. QED
    BY <1>2, <1>6, <1>7, <1>8, <1>9 DEF FormsInv

-----------------------------------------------------------------------------
(* The server *)

\* A request that is accepted leaves the credentials that its mode uses, and changes no
\* service but those that it may.
LEMMA Storing ==
    ASSUME FormsInv, NEW r \in SensorRequests, Sensors!Accepts(r),
           sensor' = Sensors!Stored(r), stage' = "there"
    PROVE  /\ sensor' \in SensorRecords /\ sensor'.mode = r.mode
           /\ sensor'.services = IF stage = "none" THEN {} ELSE r.services
           /\ CredentialsFit'
           /\ r.client = NotSent /\ r.mode = sensor.mode => sensor'.client = sensor.client
<1> DEFINE new == r.mode = "tls" /\ r.client \in PemFiles
           password == CASE r.mode \in Sensors!NeedsPassword -> TRUE
                         [] r.mode = "off" \/ new -> FALSE
                         [] OTHER -> sensor.password
           ca == IF r.mode \in Sensors!UsesCA THEN (IF r.ca = NotSent THEN sensor.ca ELSE r.ca)
                 ELSE NoFile
           identity == IF new THEN r.client ELSE IF r.mode = "tls" THEN sensor.client ELSE NoFile
           services == IF stage = "none" THEN {} ELSE r.services
<1>1. sensor' = [section |-> r.section, mode |-> r.mode, password |-> password, ca |-> ca,
                 client |-> identity, services |-> services]
    BY DEF Sensors!Stored
<1>2. sensor \in SensorRecords /\ CredentialsFit
    BY DEF FormsInv, SensorTypes
<1>3. /\ r.section \in Switched /\ r.mode \in Sensors!Modes /\ r.services \subseteq ServiceChoices
      /\ r.ca \in Attachments \cup {Fingerprint} /\ r.client \in Attachments
    BY DEF SensorRequests
<1>4. password \in BOOLEAN /\ (r.mode \in Sensors!NeedsPassword => password)
    <2>1. CASE r.mode \in Sensors!NeedsPassword
        BY <2>1 DEF Sensors!NeedsPassword
    <2>2. CASE r.mode \notin Sensors!NeedsPassword /\ (r.mode = "off" \/ new)
        <3>1. password = FALSE
            BY <2>2
        <3>2. QED
            BY <2>2, <3>1
    <2>3. CASE r.mode \notin Sensors!NeedsPassword /\ ~(r.mode = "off" \/ new)
        <3>1. password = sensor.password
            BY <2>3
        <3>2. sensor.password \in BOOLEAN
            BY <1>2 DEF SensorRecords
        <3>3. QED
            BY <2>3, <3>1, <3>2
    <2>4. QED
        BY <2>1, <2>2, <2>3
<1>5. ca \in Credentials
    BY <1>2, <1>3 DEF SensorRecords, Sensors!Accepts, Sensors!WellFormed, Credentials
<1>6. identity \in Credentials /\ (identity # NoFile <=> r.mode = "tls")
    BY <1>2, <1>3, SensorAssumption
       DEF SensorRecords, Sensors!Accepts, Sensors!WellFormed, Sensors!Complete, Sensors!Readable,
           Credentials, CredentialsFit
<1>7. services \subseteq ServiceChoices
    BY <1>3
<1>8. r.client = NotSent /\ r.mode = sensor.mode => identity = sensor.client
    BY <1>2, SensorAssumption DEF CredentialsFit
<1> HIDE DEF password, ca, identity
<1>9. sensor' \in SensorRecords
    BY <1>1, <1>3, <1>4, <1>5, <1>6, <1>7 DEF SensorRecords
<1>10. CredentialsFit'
    BY <1>1, <1>4, <1>6 DEF CredentialsFit
<1>11. QED
    BY <1>1, <1>8, <1>9, <1>10

\* What the page learns of a sensor.
LEMMA ModelTypes ==
    ASSUME NEW s \in SensorRecords, NEW listed \in BOOLEAN
    PROVE  /\ Sensors!Model(s, listed) \in Models
           /\ Sensors!Model(s, listed).services = s.services
           /\ Sensors!Model(s, listed).mode = s.mode
           /\ Sensors!Model(s, listed).client = (s.client # NoFile)
<1> DEFINE ca == IF s.ca = NoFile THEN NoFile ELSE Fingerprint
           identity == s.client # NoFile
<1>1. ca \in {Fingerprint, NoFile, NotSent} /\ identity \in BOOLEAN
    OBVIOUS
<1>2. Sensors!Model(s, listed) = [listed |-> listed, section |-> s.section, mode |-> s.mode,
                                  services |-> s.services, ca |-> ca, client |-> identity]
    BY DEF Sensors!Model
<1> HIDE DEF ca, identity
<1>3. QED
    BY <1>1, <1>2 DEF Models, SensorRecords, identity

\* The answer to a request: the form that has waited shows it.
LEMMA Answered ==
    ASSUME SensorTypes, NEW r \in sensorAsks, Sensors!Serve(r)
    PROVE  /\ sensorForm' \in SensorForms /\ sensorForm'.object = sensorForm.object
           /\ sensorForm' # Sensors!Closed => sensorForm # Sensors!Closed
           /\ sensorForm'.phase = "form" => UNCHANGED sensorForm
<1>1. sensorForm \in SensorForms
    BY DEF SensorTypes
<1>2. \/ sensorForm' = sensorForm
      \/ sensorForm.phase = "busy" /\ sensorForm' = [sensorForm EXCEPT !.phase = "result"]
    BY DEF Sensors!Serve
<1>3. CASE sensorForm' = sensorForm
    BY <1>1, <1>3
<1>4. CASE sensorForm.phase = "busy" /\ sensorForm' = [sensorForm EXCEPT !.phase = "result"]
    <2>1. /\ sensorForm' \in SensorForms /\ sensorForm'.object = sensorForm.object
          /\ sensorForm'.phase = "result"
        BY <1>1, <1>4 DEF SensorForms
    <2>2. sensorForm # Sensors!Closed
        BY <1>4 DEF Sensors!Closed
    <2>3. QED
        BY <2>1, <2>2
<1>5. QED
    BY <1>2, <1>3, <1>4

LEMMA ServeStep ==
    ASSUME FormsInv, NEW r \in sensorAsks, Sensors!Serve(r)
    PROVE  /\ FormsInv'
           /\ ~meddled => Agree(sensor'.services, sensor.services)
<1> DEFINE accepted == Sensors!Accepts(r)
           i == r.object
           m == Sensors!Model(sensor', objects[i].listed)
<1>1. /\ SensorTypes /\ r \in SensorRequests /\ i \in 1..Len(objects)
      /\ objects \in Seq(Models) /\ objects[i] \in Models /\ objects[i].listed \in BOOLEAN
    <2>1. SensorTypes /\ r \in SensorRequests /\ i \in 1..Len(objects)
        BY DEF FormsInv, SensorTypes
    <2>2. objects \in Seq(Models) /\ objects[i] \in Models
        BY <2>1 DEF SensorTypes
    <2>3. QED
        BY <2>1, <2>2 DEF Models
<1>2. /\ sensorAsks' = sensorAsks \ {r}
      /\ IF accepted THEN sensor' = Sensors!Stored(r) /\ stage' = "there"
         ELSE UNCHANGED <<sensor, stage>>
      /\ sensorLacked' = (sensorLacked \/ (r.kind = "form" /\ ~Sensors!Complete(r)))
      /\ objects' = IF accepted \/ r.kind = "form" THEN [objects EXCEPT ![i] = m] ELSE objects
      /\ fetching' = (fetching \/ (accepted /\ r.kind = "form"))
      /\ UNCHANGED <<touched, meddled, sensorHasty>>
    BY DEF Sensors!Serve
<1>3. /\ sensorForm' \in SensorForms /\ sensorForm'.object = sensorForm.object
      /\ sensorForm' # Sensors!Closed => sensorForm # Sensors!Closed
      /\ sensorForm'.phase = "form" => UNCHANGED sensorForm
    BY <1>1, Answered
<1>4. /\ sensor' \in SensorRecords /\ CredentialsFit' /\ stage' \in Stages
      /\ accepted => /\ sensor'.mode = r.mode
                     /\ sensor'.services = IF stage = "none" THEN {} ELSE r.services
                     /\ r.client = NotSent /\ r.mode = sensor.mode => sensor'.client = sensor.client
    <2>1. CASE accepted
        BY <1>1, <1>2, <2>1, Storing DEF Stages
    <2>2. CASE ~accepted
        BY <1>1, <1>2, <2>2 DEF FormsInv, SensorTypes, CredentialsFit
    <2>3. QED
        BY <2>1, <2>2
<1>5. /\ m \in Models /\ m.services = sensor'.services /\ m.mode = sensor'.mode
      /\ m.client = (sensor'.client # NoFile)
    BY <1>1, <1>4, ModelTypes
<1> HIDE DEF m
<1>6. /\ objects' \in Seq(Models) /\ Len(objects') = Len(objects)
      /\ \A j \in 1..Len(objects) :
           objects'[j] = IF j = i /\ (accepted \/ r.kind = "form") THEN m ELSE objects[j]
    <2>1. CASE accepted \/ r.kind = "form"
        <3>1. objects' = [objects EXCEPT ![i] = m]
            BY <1>2, <2>1
        <3>2. QED
            BY <1>1, <1>5, <2>1, <3>1, ExceptSeq
    <2>2. CASE ~(accepted \/ r.kind = "form")
        BY <1>1, <1>2, <2>2
    <2>3. QED
        BY <2>1, <2>2
<1> HIDE DEF accepted
<1>7. SensorTypes'
    BY <1>1, <1>2, <1>3, <1>4, <1>6 DEF SensorTypes
<1>8. ASSUME ~meddled PROVE ServicesAgree' /\ Agree(sensor'.services, sensor.services)
    <2>1. /\ \A j \in 1..Len(objects) : Agree(objects[j].services, sensor.services)
          /\ \A q \in sensorAsks : Agree(q.services, sensor.services)
          /\ stage = "none" => sensor.services = {}
        BY <1>8 DEF FormsInv, ServicesAgree
    <2>2. sensor'.services = sensor.services \/ sensor'.services = r.services
        BY <1>2, <1>4, <2>1 DEF accepted
    <2>3. Agree(sensor'.services, sensor.services) /\ Agree(sensor.services, sensor'.services)
        BY <2>1, <2>2 DEF Agree
    <2>4. \A j \in 1..Len(objects) : Agree(objects'[j].services, sensor'.services)
        BY <1>5, <1>6, <2>1, <2>3 DEF Agree
    <2>5. \A q \in sensorAsks' : Agree(q.services, sensor'.services)
        BY <1>2, <2>1, <2>3 DEF Agree
    <2>6. stage' = "none" => sensor'.services = {}
        BY <1>2, <2>1 DEF accepted
    <2>7. QED
        BY <1>2, <1>6, <2>3, <2>4, <2>5, <2>6 DEF ServicesAgree, Agree
<1>9. ASSUME ~meddled, ~sensorHasty PROVE Undisturbed' /\ (sensorLacked' => sensorLacked)
    <2>0. \/ objects'[Len(objects')] = objects[Len(objects)]
          \/ /\ objects'[Len(objects')].mode = sensor'.mode
             /\ objects'[Len(objects')].client => sensor'.client # NoFile
        <3>1. objects'[Len(objects')] \in {m, objects[Len(objects)]}
            BY <1>1, <1>6 DEF SensorTypes
        <3>2. m.mode = sensor'.mode /\ (m.client => sensor'.client # NoFile)
            BY <1>5
        <3>3. QED
            BY <3>1, <3>2
    <2>1. /\ Undisturbed /\ sensorAsks' = {} /\ ~fetching /\ sensorForm.phase # "form"
        BY <1>1, <1>2, <1>9 DEF FormsInv, Undisturbed
    <2>2. sensorForm'.phase # "form"
        BY <1>3, <2>1
    <2>3. CASE r.kind = "form"
        <3>1. Sensors!Complete(r)
            BY <2>1, <2>3 DEF Undisturbed
        <3>2. sensorLacked' => sensorLacked
            BY <1>2, <2>3, <3>1, Zenon
        <3>3. CASE accepted
            <4>1. fetching'
                BY <1>2, <2>3, <3>3, Zenon
            <4>2. QED
                BY <2>1, <2>2, <3>2, <4>1 DEF Undisturbed
        <3>4. CASE ~accepted
            <4>1. Knows(objects[Len(objects)]) /\ sensor' = sensor
                BY <1>2, <2>1, <3>4 DEF Undisturbed
            <4>2. Knows(objects[Len(objects)])'
                BY <2>0, <4>1 DEF Knows
            <4>3. QED
                BY <2>1, <2>2, <3>2, <4>2 DEF Undisturbed
        <3>5. QED
            BY <3>3, <3>4
    <2>4. CASE r.kind = "toggle"
        <3>1. Knows(objects[Len(objects)]) /\ r.mode = sensor.mode /\ r.client = NotSent
            BY <2>1, <2>4 DEF Undisturbed
        <3>2. sensor'.mode = sensor.mode /\ sensor'.client = sensor.client
            BY <1>2, <1>4, <3>1 DEF accepted
        <3>3. Knows(objects[Len(objects)])'
            BY <2>0, <3>1, <3>2 DEF Knows
        <3>4. sensorLacked' => sensorLacked
            <4>1. r.kind # "form"
                BY <2>4
            <4>2. QED
                BY <1>2, <4>1, Zenon
        <3>5. QED
            BY <2>1, <2>2, <3>3, <3>4 DEF Undisturbed
    <2>5. QED
        BY <1>1, <2>3, <2>4 DEF SensorRequests
<1>10. NothingIsMissing'
    BY <1>1, <1>2, <1>9 DEF FormsInv, SensorTypes, NothingIsMissing, Sensors!NothingIsMissing
<1>11. sensorForm'.phase = "form" => ShownFits'
    BY <1>3 DEF FormsInv, ShownFits
<1>12. QED
    BY <1>2, <1>4, <1>7, <1>8, <1>9, <1>10, <1>11 DEF FormsInv, ServicesAgree

\* An update of the page, which may be one that was asked for.
LEMMA UpdateStep ==
    ASSUME FormsInv, Sensors!Update
    PROVE  FormsInv' /\ UNCHANGED sensor
<1> DEFINE m == Sensors!Model(sensor, TRUE)
<1>1. /\ sensor \in SensorRecords /\ objects \in Seq(Models) /\ Len(objects) \in Nat \ {0}
    BY DEF FormsInv, SensorTypes
<1>2. /\ objects' = Append(objects, m) /\ fetching' = FALSE
      /\ UNCHANGED <<sensor, stage, sensorForm, sensorAsks, touched, meddled, sensorHasty,
                     sensorLacked>>
    BY DEF Sensors!Update, Sensors!historyVars
<1>3. /\ m \in Models /\ m.services = sensor.services /\ m.mode = sensor.mode
      /\ m.client = (sensor.client # NoFile)
    BY <1>1, ModelTypes
<1> HIDE DEF m
<1>4. /\ objects' \in Seq(Models) /\ Len(objects') = Len(objects) + 1
      /\ objects'[Len(objects')] = m
      /\ \A j \in 1..Len(objects) : objects'[j] = objects[j]
      /\ \A j \in 1..Len(objects') : j \in 1..Len(objects) \/ j = Len(objects')
    BY <1>1, <1>2, <1>3, AppendProperties
<1>5. \A j : j \in 1..Len(objects) => j \in 1..Len(objects')
    BY <1>1, <1>4
<1>6. SensorTypes'
    <2>1. Len(objects') \in Nat \ {0}
        BY <1>1, <1>4
    <2>2. /\ sensorForm # Sensors!Closed => sensorForm.object \in 1..Len(objects')
          /\ \A r \in sensorAsks : r.object \in 1..Len(objects')
        BY <1>5 DEF FormsInv, SensorTypes
    <2>3. QED
        BY <1>2, <1>4, <2>1, <2>2 DEF FormsInv, SensorTypes
<1>7. ServicesAgree'
    <2>1. SUFFICES ASSUME ~meddled PROVE ServicesAgree'
        BY <1>2 DEF ServicesAgree
    <2>2. ASSUME NEW j \in 1..Len(objects') PROVE Agree(objects'[j].services, sensor.services)
        BY <1>3, <1>4, <2>1, <2>2 DEF FormsInv, ServicesAgree, Agree
    <2>3. QED
        BY <1>2, <2>1, <2>2 DEF FormsInv, ServicesAgree, Agree
<1>8. CredentialsFit' /\ NothingIsMissing' /\ (sensorForm.phase = "form" => ShownFits')
    BY <1>2 DEF FormsInv, CredentialsFit, NothingIsMissing, Sensors!NothingIsMissing, ShownFits
<1>9. ASSUME Undisturbed PROVE Undisturbed'
    <2>1. Knows(objects[Len(objects)])'
        BY <1>2, <1>3, <1>4 DEF Knows
    <2>2. ASSUME sensorForm.phase = "form" PROVE Knows(objects[sensorForm.object])'
        <3>1. sensorForm.object \in 1..Len(objects)
            BY <2>2 DEF FormsInv, SensorTypes, Sensors!Closed
        <3>2. Knows(objects[sensorForm.object])
            BY <1>9, <2>2 DEF Undisturbed
        <3>3. QED
            BY <1>2, <1>4, <3>1, <3>2 DEF Knows
    <2>3. \A r \in sensorAsks : Sensors!Complete(r)' = Sensors!Complete(r)
        BY <1>2 DEF Sensors!Complete
    <2>4. QED
        BY <1>2, <1>9, <2>1, <2>2, <2>3 DEF Undisturbed
<1>10. QED
    BY <1>2, <1>6, <1>7, <1>8, <1>9 DEF FormsInv

\* Another user switches EAP over LAN off, and assigns something else.
LEMMA MeddleStep ==
    ASSUME FormsInv, Sensors!Meddle
    PROVE  FormsInv' /\ meddled'
<1>1. PICK s \in ServiceChoices :
        sensor' = [Sensors!Blank EXCEPT !.section = sensor.section, !.services = ServiceChoices \ {s}]
    BY DEF Sensors!Meddle
<1>2. /\ UNCHANGED <<stage, objects, sensorForm, sensorAsks, fetching, touched, sensorHasty,
                     sensorLacked>>
      /\ stage = "there" /\ meddled' = TRUE
    BY DEF Sensors!Meddle
<1>3. sensor' = [section |-> sensor.section, mode |-> "off", password |-> FALSE, ca |-> NoFile,
                 client |-> NoFile, services |-> ServiceChoices \ {s}]
    BY <1>1 DEF Sensors!Blank
<1>4. sensor' \in SensorRecords
    BY <1>3 DEF FormsInv, SensorTypes, SensorRecords, Credentials, Sensors!Modes
<1>5. SensorTypes'
    BY <1>2, <1>4 DEF FormsInv, SensorTypes
<1>6. CredentialsFit'
    BY <1>2, <1>3 DEF CredentialsFit, Sensors!NeedsPassword
<1>7. QED
    BY <1>2, <1>5, <1>6 DEF FormsInv, ServicesAgree, ShownFits, NothingIsMissing,
                            Sensors!NothingIsMissing

-----------------------------------------------------------------------------
(* The theorems *)

LEMMA FormsInit == Sensors!Init => FormsInv
<1> SUFFICES ASSUME Sensors!Init PROVE FormsInv
    OBVIOUS
<1>1. /\ stage \in Stages /\ sensor \in SensorRecords
      /\ sensor.password = (sensor.mode = "md5") /\ (sensor.client # NoFile) = (sensor.mode = "tls")
      /\ sensor.mode \in {"off", "md5", "tls"}
      /\ stage = "none" => sensor = Sensors!Blank
    <2>1. Sensors!Blank.section \in Switched
        BY DEF Sensors!Blank, Switched
    <2>2. \A s \in [section : {Sensors!Blank.section}, mode : {"off", "md5", "tls"},
                    password : BOOLEAN, ca : Sensors!Readable \cup {NoFile},
                    client : Sensors!Readable \cup {NoFile},
                    services : {{}, AssignedAtFirst}] :
            s \in SensorRecords /\ s.mode \in {"off", "md5", "tls"}
        BY <2>1, SensorAssumption DEF SensorRecords, Credentials, Sensors!Modes
    <2>3. QED
        BY <2>2 DEF Sensors!Init, Stages
<1>2. CredentialsFit
    <2>1. sensor.mode \in Sensors!NeedsPassword => sensor.password
        BY <1>1 DEF Sensors!NeedsPassword
    <2>2. sensor.client # NoFile <=> sensor.mode = "tls"
        BY <1>1, Zenon
    <2>3. stage = "none" => sensor.mode = "off"
        BY <1>1 DEF Sensors!Blank
    <2>4. QED
        BY <2>1, <2>2, <2>3 DEF CredentialsFit
<1> DEFINE m == Sensors!Model(sensor, stage = "there")
<1>3. /\ objects = <<m>> /\ sensorForm = Sensors!Closed /\ sensorAsks = {} /\ fetching = FALSE
      /\ touched = {} /\ meddled = FALSE /\ sensorHasty = FALSE /\ sensorLacked = FALSE
    BY DEF Sensors!Init
<1>4. /\ m \in Models /\ m.services = sensor.services /\ m.mode = sensor.mode
      /\ m.client = (sensor.client # NoFile)
    BY <1>1, ModelTypes
<1> HIDE DEF m
<1>5. objects \in Seq(Models) /\ Len(objects) = 1 /\ objects[1] = m
    BY <1>3, <1>4
<1>6. SensorTypes /\ sensorForm.phase = "none"
    <2>1. sensorForm.phase = "none"
        BY <1>3 DEF Sensors!Closed
    <2>2. sensorForm \in SensorForms
        BY <1>3, ClosedTypes
    <2>3. Len(objects) \in Nat \ {0} /\ sensorAsks \subseteq SensorRequests
        BY <1>3, <1>5
    <2>4. QED
        BY <1>1, <1>3, <1>5, <2>1, <2>2, <2>3 DEF SensorTypes
<1>7. ServicesAgree
    BY <1>1, <1>3, <1>4, <1>5 DEF ServicesAgree, Agree, Sensors!Blank
<1>8. Undisturbed
    BY <1>3, <1>4, <1>5, <1>6 DEF Undisturbed, Knows
<1>9. QED
    BY <1>2, <1>3, <1>6, <1>7, <1>8 DEF FormsInv, NothingIsMissing, Sensors!NothingIsMissing

\* Every step keeps the invariant, and changes no service without an excuse.
LEMMA FormsStep ==
    ASSUME FormsInv, [Sensors!Next]_Sensors!formVars
    PROVE  /\ FormsInv'
           /\ \A s \in ServiceChoices :
                (s \in sensor.services) # (s \in sensor'.services) => s \in touched \/ meddled'
<1>1. CASE Sensors!Open \/ Sensors!Edits \/ Sensors!CloseForm
    BY <1>1, FormSteps
<1>2. CASE Sensors!Submit
    BY <1>2, SubmitStep
<1>3. ASSUME NEW s \in ServiceChoices, Sensors!Toggle(s)
      PROVE  FormsInv' /\ UNCHANGED sensor
    BY <1>3, ToggleStep
<1>4. ASSUME NEW r \in sensorAsks, Sensors!Serve(r)
      PROVE  FormsInv' /\ (~meddled => Agree(sensor'.services, sensor.services)) /\ UNCHANGED meddled
    BY <1>4, ServeStep DEF Sensors!Serve
<1>5. CASE Sensors!Update
    BY <1>5, UpdateStep
<1>6. CASE Sensors!Meddle
    BY <1>6, MeddleStep
<1>7. CASE UNCHANGED Sensors!formVars
    <2>1. Elsewhere /\ UNCHANGED <<sensorForm, sensorHasty>>
        BY <1>7 DEF Sensors!formVars, Sensors!historyVars, Elsewhere
    <2>2. QED
        BY <2>1 DEF FormsInv, SensorTypes, ServicesAgree, Agree, CredentialsFit, ShownFits,
                    Undisturbed, Knows, Sensors!Complete, NothingIsMissing,
                    Sensors!NothingIsMissing, Elsewhere
<1>8. QED
    BY <1>1, <1>2, <1>3, <1>4, <1>5, <1>6, <1>7 DEF Sensors!Next, Agree

\* The page asks for every credential that the server will miss, unless somebody else has
\* changed the sensor or requests overlap: for any files, parts of the form and bounds,
\* whatever mode the sensor had, and whatever was refused before.  It does not see what is in
\* the fields and files: the server refuses a form for that, and the statement allows it.
THEOREM FormsLackNothing == Sensors!Spec => []NothingIsMissing
<1>1. FormsInv => NothingIsMissing
    BY DEF FormsInv
<1>2. FormsInv /\ [Sensors!Next]_Sensors!formVars => FormsInv'
    BY FormsStep
<1>3. QED
    BY <1>1, <1>2, FormsInit, PTL DEF Sensors!Spec

\* Saving a form or clicking a check box, with any number of requests under way, assigns and
\* removes no service but those that were clicked, if nobody else changes the sensor.
THEOREM NoOtherIsAssigned == Sensors!Spec => OthersStayAssigned
<1>1. FormsInv /\ [Sensors!Next]_Sensors!formVars => FormsInv'
    BY FormsStep
<1>2. FormsInv /\ [Sensors!Next]_Sensors!formVars
        => [\A s \in ServiceChoices :
              (s \in sensor.services) # (s \in sensor'.services)
                 => s \in touched \/ meddled']_Sensors!formVars
    BY FormsStep
<1>3. QED
    BY <1>1, <1>2, FormsInit, PTL DEF Sensors!Spec, OthersStayAssigned, Sensors!OthersStayAssigned
=============================================================================
