-------------------------- MODULE ConfigSyncProofs --------------------------
(***************************************************************************)
(* Proofs about ConfigSync, for any credentials and bounds.  What sensors  *)
(* have in memory and in their directory can always be copied when it is   *)
(* archived, because an answer brings what its mode needs or else nothing  *)
(* that differs from the fingerprints the poll was sent with; between two  *)
(* updates the archive is what the sensor runs with; and a change of the   *)
(* network is on its way to the state worker until it is set up.           *)
(***************************************************************************)
EXTENDS ConfigSync, TLAPS

-----------------------------------------------------------------------------
(* The invariant *)

IsConfig(c) == DOMAIN c = {"params", "ca", "client"} /\ c.ca \in BOOLEAN /\ c.client \in BOOLEAN
IsFiles(f) == DOMAIN f = {"srv", "ca", "cert", "key"}
IsPoll(p) == DOMAIN p = {"pc", "fp", "params", "news", "changed"} /\ p.changed \in BOOLEAN
IsWorker(w) == DOMAIN w = {"pc", "seen"}
IsRow(s) == DOMAIN s = {"net", "plain", "mode", "password", "ca", "client"}

\* A configuration has the files it names.
Sound(c, f) ==
    /\ IsConfig(c) /\ IsFiles(f)
    /\ c.ca => f.ca # None
    /\ c.client => f.cert # None /\ f.key # None

ServerOK ==
    /\ IsRow(server)
    /\ server.client \in Clients \cup {None}
    /\ server.ca \in CAs \cup {None}
    /\ server.mode = "tls" => server.client # None

\* An archive that is complete can be applied.
ArchiveOK ==
    archive # Partial =>
        \E c, f : archive = [config |-> c, files |-> f] /\ Sound(c, f) /\ Copyable(c, f)

Waiting == {"idle", "sent", "answered"}

\* Between two updates that succeed the archive is what is there.
Resumes ==
    (poll.pc \in Waiting /\ ~failed) \/ poll.pc = "enqueue" =>
        archive = Snapshot /\ Copyable(config, files)

WorkerWaits == poll.pc = "down" => worker.pc = "idle" /\ state_queue = <<>>

\* An answer brings the client's credentials, unless the sensor has them.
AnswerOK ==
    /\ poll.pc = "sent" => poll.fp.cert = Fingerprint(config.client, files.cert)
    /\ poll.pc \in {"answered", "srv", "ca", "client"} =>
         /\ poll.news.ca \in SUBSET (CAs \cup {None})
         /\ \/ poll.news.client = {} /\ (poll.params.mode = "tls" => config.client)
            \/ \E c \in Clients \cup {None} : /\ poll.news.client = {c}
                                              /\ poll.params.mode = "tls" => c # None
    /\ poll.pc = "key" =>
         /\ \E c \in Clients : poll.news.client = {c}
         /\ files.cert # None /\ poll.changed
    /\ poll.pc \in {"srv", "ca", "client", "key"} => config.params.mode = poll.params.mode
    /\ poll.pc \in {"save", "archive"} => Copyable(config, files)

\* A change of the network that is on its way to the state worker.
OnItsWay ==
    \/ \E i \in DOMAIN state_queue : state_queue[i] = TRUE
    \/ worker.pc = "read"
    \/ Updating /\ poll.changed

Flagged ==
    \/ failed \/ poll.pc = "down" \/ worker.pc = "dead" \/ OnItsWay
    \/ IF worker.pc = "copy" THEN Setup(worker.seen, files) = Setup(config, files)
                             ELSE applied = Setup(config, files)

\* What the state worker has read can be copied.
WorkerOK ==
    /\ worker.pc = "copy" => failed \/ overlapped \/ Copyable(worker.seen, files)
    /\ worker.pc = "dead" => failed \/ overlapped

Shapes ==
    /\ IsPoll(poll) /\ IsWorker(worker) /\ state_queue \in Seq(BOOLEAN)
    /\ poll.pc \in Waiting \cup Writing \cup {"enqueue", "down"}

IInv ==
    /\ Shapes /\ Sound(config, files) /\ ServerOK /\ ArchiveOK /\ Resumes /\ WorkerWaits
    /\ AnswerOK /\ Flagged /\ WorkerOK

-----------------------------------------------------------------------------
LEMMA InvInit == Init => IInv
<1> SUFFICES ASSUME Init PROVE IInv
    OBVIOUS
<1>1. Shapes
    BY DEF Init, Shapes, Idle, WorkerIdle, IsPoll, IsWorker, Waiting
<1>2. Sound(config, files) /\ Copyable(config, files)
    BY DEF Init, Sound, IsConfig, IsFiles, Copyable, InitialConfig, InitialFiles, InitialParameters
<1>3. ServerOK
    BY DEF Init, ServerOK, IsRow
<1>4. archive = [config |-> config, files |-> files]
    BY DEF Init
<1>5. ArchiveOK
    BY <1>2, <1>4, Zenon DEF ArchiveOK
<1>6. poll.pc = "idle" /\ worker.pc = "idle"
    BY DEF Init, Idle, WorkerIdle
<1>7. Resumes /\ WorkerWaits /\ AnswerOK /\ WorkerOK
    BY <1>2, <1>4, <1>6 DEF Resumes, Snapshot, WorkerWaits, AnswerOK, WorkerOK
<1>8. applied = Setup(config, files)
    BY DEF Init
<1>9. QED
    BY <1>1, <1>2, <1>3, <1>5, <1>6, <1>7, <1>8 DEF IInv, Flagged

-----------------------------------------------------------------------------
(* The server *)

LEMMA RowChanges ==
    ASSUME NEW row, IsRow(row), row.client \in Clients \cup {None}, row.ca \in CAs \cup {None},
           NEW r \in Updated(row)
    PROVE  /\ IsRow(r) /\ r.client \in Clients \cup {None} /\ r.ca \in CAs \cup {None}
           /\ r.mode = "tls" => r.client # None
<1>1. CASE r = Disabled(row)
    BY <1>1 DEF Disabled, IsRow
<1>2. CASE \E p : r = MD5(row, p)
    BY <1>2 DEF MD5, IsRow
<1>3. CASE \E ca \in CAs \cup {None, Unset}, c \in Clients \cup {Unset} : r \in TLS(row, ca, c)
    <2>1. PICK ca \in CAs \cup {None, Unset}, c \in Clients \cup {Unset} : r \in TLS(row, ca, c)
        BY <1>3
    <2>2. PICK p : r = [row EXCEPT !.mode = "tls", !.ca = Given(ca, row.ca),
                                   !.client = Given(c, row.client), !.password = p]
        BY <2>1 DEF TLS
    <2>3. r.client # None
        BY <2>1 DEF TLS
    <2>4. IsRow(r) /\ r.client = Given(c, row.client) /\ r.ca = Given(ca, row.ca)
        BY <2>2 DEF IsRow
    <2>5. QED
        BY <2>3, <2>4 DEF Given
<1>4. CASE \E ca \in CAs \cup {None, Unset} : \E p : r = Tunnel(row, ca, p)
    <2>1. PICK ca \in CAs \cup {None, Unset} : \E p : r = Tunnel(row, ca, p)
        BY <1>4
    <2>2. IsRow(r) /\ r.client = None /\ r.ca = Given(ca, row.ca) /\ r.mode = "tunnel"
        BY <2>1 DEF Tunnel, IsRow
    <2>3. QED
        BY <2>2 DEF Given
<1>5. QED
    <2> DEFINE A == {Disabled(row)}
               B == {x \in {MD5(row, p) : p \in Passwords \cup {Unset}} : x.password # None}
               C == UNION {TLS(row, ca, c) : ca \in CAs \cup {None, Unset}, c \in Clients \cup {Unset}}
               P == Passwords \cup {None} \cup (IF row.password = None THEN {} ELSE {Unset})
               D == {Tunnel(row, ca, p) : ca \in CAs \cup {None, Unset}, p \in P}
    <2>1. Updated(row) = A \cup B \cup C \cup D
        BY DEF Updated
    <2>2. CASE r \in A \cup B
        BY <1>1, <1>2, <2>2
    <2>3. CASE r \in C
        BY <1>3, <2>3
    <2>4. CASE r \in D
        <3> HIDE DEF P
        <3>1. QED
            BY <1>4, <2>4
    <2> HIDE DEF A, B, C, D
    <2>5. QED
        BY <2>1, <2>2, <2>3, <2>4

LEMMA ServerSteps ==
    ASSUME IInv, Server
    PROVE  IInv'
<1>1. UNCHANGED <<archive, config, files, state_queue, worker, applied, poll, failed, overlapped>>
    BY DEF Server, UpdateSensor, RenewServerCert, sensorVars
<1>2. ServerOK'
    <2>1. CASE UpdateSensor
        <3>1. PICK s : server' \in Updated([server EXCEPT !.net = s.net, !.plain = s.plain])
            BY <2>1 DEF UpdateSensor
        <3>2. PICK row : row = [server EXCEPT !.net = s.net, !.plain = s.plain]
            OBVIOUS
        <3>3. IsRow(row) /\ row.client = server.client /\ row.ca = server.ca
            BY <3>2 DEF IInv, ServerOK, IsRow
        <3>4. QED
            BY <3>1, <3>2, <3>3, RowChanges DEF IInv, ServerOK
    <2>2. CASE RenewServerCert
        BY <2>2 DEF RenewServerCert, IInv, ServerOK
    <2>3. QED
        BY <2>1, <2>2 DEF Server
<1>3. QED
    BY <1>1, <1>2 DEF IInv, Shapes, ArchiveOK, Resumes, Snapshot, WorkerWaits, AnswerOK, Flagged,
                      OnItsWay, Updating, WorkerOK

-----------------------------------------------------------------------------
(* What the network is set up from, and what is copied *)

LEMMA SameSetup ==
    ASSUME NEW c, NEW d, NEW f, NEW g,
           NetworkParams(c.params) = NetworkParams(d.params), c.ca = d.ca,
           f.ca = g.ca, f.cert = g.cert, f.key = g.key
    PROVE  Setup(c, f) = Setup(d, g)
<1>1. /\ c.params.net = d.params.net /\ c.params.mode = d.params.mode
      /\ c.params.password = d.params.password /\ c.params.pass = d.params.pass
    BY DEF NetworkParams
<1>2. QED
    BY <1>1 DEF Setup

LEMMA SoundIsCopyable ==
    ASSUME NEW c, NEW f, Sound(c, f), c.params.mode = "tls" => c.client
    PROVE  Copyable(c, f)
BY DEF Sound, Copyable

\* An update that goes on while the state worker is at work is noted.
LEMMA WorkerIsMet ==
    ASSUME WorkerOK, Overlap, UNCHANGED worker, failed => failed'
    PROVE  WorkerOK'
<1>1. overlapped => overlapped'
    BY Zenon DEF Overlap
<1>2. worker.pc = "copy" => overlapped'
    BY DEF Overlap
<1>3. QED
    BY <1>1, <1>2 DEF WorkerOK

\* A step of an update that leaves alone what the network is set up from.
LEMMA StillFlagged ==
    ASSUME Flagged, UNCHANGED <<state_queue, worker, applied, failed>>,
           Setup(config, files)' = Setup(config, files),
           \A c : Setup(c, files') = Setup(c, files),
           Updating /\ poll.changed => Updating' /\ poll'.changed,
           poll'.pc = "down" <=> poll.pc = "down"
    PROVE  Flagged'
BY DEF Flagged, OnItsWay

-----------------------------------------------------------------------------
(* The polling thread: the request *)

LEMMA PollSends ==
    ASSUME IInv, PollSend \/ ServerAnswer \/ PollLost
    PROVE  IInv'
<1>1. UNCHANGED <<server, archive, config, files, state_queue, worker, applied, failed, overlapped>>
    BY DEF PollSend, ServerAnswer, PollLost, pollUnchanged, serverVars
<1>2. poll.pc \in Waiting /\ poll'.pc \in Waiting /\ IsPoll(poll')
    <2>1. CASE PollSend
        BY <2>1 DEF PollSend, Idle, IsPoll, Waiting
    <2>2. CASE ServerAnswer
        BY <2>2 DEF ServerAnswer, IsPoll, Waiting, IInv, Shapes
    <2>3. CASE PollLost
        BY <2>3 DEF PollLost, Idle, IsPoll, Waiting
    <2>4. QED
        BY <2>1, <2>2, <2>3
<1>3. AnswerOK'
    <2>1. CASE PollSend
        <3>1. poll'.pc = "sent" /\ poll'.fp.cert = Fingerprint(config.client, files.cert)
            BY <2>1 DEF PollSend, Idle
        <3>2. QED
            BY <1>1, <3>1 DEF AnswerOK
    <2>2. CASE ServerAnswer
        <3>1. /\ poll'.pc = "answered" /\ poll'.params.mode = server.mode
              /\ poll'.news = NewsFor(poll.fp)
              /\ poll.fp.cert = Fingerprint(config.client, files.cert)
            BY <2>2 DEF ServerAnswer, IInv, Shapes, IsPoll, ParametersOf, AnswerOK
        <3>2. poll'.news.ca \in SUBSET (CAs \cup {None})
            BY <3>1 DEF NewsFor, Differing, IInv, ServerOK
        <3>3. CASE CertOf(server) = poll.fp.cert
            <4>1. poll'.news.client = {}
                BY <3>1, <3>3 DEF NewsFor
            <4>2. server.mode = "tls" => server.client # None /\ CertOf(server) # None
                BY ConfigAssumption DEF IInv, ServerOK, CertOf
            <4>3. server.mode = "tls" => config.client
                BY <3>1, <3>3, <4>2 DEF Fingerprint
            <4>4. QED
                BY <1>1, <3>1, <3>2, <4>1, <4>3 DEF AnswerOK
        <3>4. CASE CertOf(server) # poll.fp.cert
            <4>1. poll'.news.client = {server.client}
                BY <3>1, <3>4 DEF NewsFor
            <4>2. server.client \in Clients \cup {None} /\ (server.mode = "tls" => server.client # None)
                BY DEF IInv, ServerOK
            <4>3. QED
                BY <3>1, <3>2, <4>1, <4>2 DEF AnswerOK
        <3>5. QED
            BY <3>3, <3>4
    <2>3. CASE PollLost
        BY <2>3 DEF PollLost, Idle, AnswerOK
    <2>4. QED
        BY <2>1, <2>2, <2>3
<1>4. Flagged'
    <2>1. ~Updating /\ ~Updating'
        BY <1>2 DEF Updating, Writing, Waiting
    <2>2. QED
        BY <1>1, <1>2, <2>1 DEF IInv, Flagged, OnItsWay, Waiting
<1>5. QED
    BY <1>1, <1>2, <1>3, <1>4
       DEF IInv, Shapes, ServerOK, ArchiveOK, Resumes, Snapshot, WorkerWaits, WorkerOK, Waiting

-----------------------------------------------------------------------------
(* The polling thread: the update *)

LEMMA UpdatesParams ==
    ASSUME IInv, UpdateParams
    PROVE  IInv'
<1>1. /\ UNCHANGED <<server, archive, files, state_queue, worker, applied, failed>> /\ Overlap
      /\ poll.pc = "answered" /\ config' = [config EXCEPT !.params = poll.params]
      /\ poll' = [poll EXCEPT !.pc = "srv",
                   !.changed = NetworkParams(poll.params) # NetworkParams(config.params)]
    BY DEF UpdateParams, pollUnchanged, serverVars
<1>2. /\ IsPoll(poll') /\ poll'.pc = "srv" /\ poll'.params = poll.params /\ poll'.news = poll.news
      /\ poll'.changed = (NetworkParams(poll.params) # NetworkParams(config.params))
    BY <1>1 DEF IInv, Shapes, IsPoll
<1>3. /\ IsConfig(config') /\ config'.params = poll.params
      /\ config'.ca = config.ca /\ config'.client = config.client
    BY <1>1 DEF IInv, Sound, IsConfig
<1>4. Sound(config, files)'
    BY <1>1, <1>3 DEF IInv, Sound
<1>5. AnswerOK'
    BY <1>1, <1>2, <1>3 DEF IInv, AnswerOK
<1>6. Flagged'
    <2>1. CASE NetworkParams(poll.params) # NetworkParams(config.params)
        <3>1. Updating' /\ poll'.changed
            BY <1>2, <2>1 DEF Updating, Writing
        <3>2. QED
            BY <3>1 DEF Flagged, OnItsWay
    <2>2. CASE NetworkParams(poll.params) = NetworkParams(config.params)
        <3>1. Setup(config', files) = Setup(config, files)
            BY <1>3, <2>2, SameSetup
        <3>2. ~Updating
            BY <1>1 DEF Updating, Writing
        <3>3. QED
            BY <1>1, <1>2, <3>1, <3>2, StillFlagged DEF IInv
    <2>3. QED
        BY <2>1, <2>2
<1>7. WorkerOK'
    BY <1>1, WorkerIsMet DEF IInv
<1>8. QED
    BY <1>1, <1>2, <1>4, <1>5, <1>6, <1>7
       DEF IInv, Shapes, ServerOK, ArchiveOK, Resumes, WorkerWaits, Waiting, Writing

\* An update that ends early; the archive is left as it is.
LEMMA UpdateEnds ==
    ASSUME IInv, UNCHANGED <<server, archive, state_queue, worker, applied>>, Overlap, failed',
           poll' = Idle, Sound(config, files)', poll.pc # "down"
    PROVE  IInv'
<1>1. IsPoll(poll') /\ poll'.pc = "idle"
    BY DEF Idle, IsPoll
<1>2. WorkerOK'
    BY WorkerIsMet DEF IInv
<1>3. QED
    BY <1>1, <1>2
       DEF IInv, Shapes, ServerOK, ArchiveOK, Resumes, WorkerWaits, AnswerOK, Flagged, Waiting

LEMMA UpdateBreaks ==
    ASSUME IInv, UpdateRefused \/ UpdateFails
    PROVE  IInv'
<1>1. CASE UpdateRefused
    <2>1. PICK q : config' = [config EXCEPT !.params = q]
        BY <1>1 DEF UpdateRefused
    <2>2. Sound(config, files)'
        BY <1>1, <2>1 DEF UpdateRefused, IInv, Sound, IsConfig
    <2>3. QED
        BY <1>1, <2>2, UpdateEnds DEF UpdateRefused, serverVars
<1>2. CASE UpdateFails
    <2>1. PICK file : files' = [f \in DOMAIN files |-> IF f = file THEN Partial ELSE files[f]]
        BY ZenonT(60), <1>2 DEF UpdateFails
    <2>2. IsFiles(files') /\ (files.ca # None => files'.ca # None)
          /\ (files.cert # None => files'.cert # None) /\ (files.key # None => files'.key # None)
        BY <2>1, ConfigAssumption DEF IInv, Sound, IsFiles
    <2>3. Sound(config, files)'
        BY <1>2, <2>2 DEF UpdateFails, IInv, Sound
    <2>4. poll.pc # "down"
        BY <1>2 DEF UpdateFails
    <2>5. QED
        BY <1>2, <2>3, <2>4, UpdateEnds DEF UpdateFails, serverVars
<1>3. QED
    BY <1>1, <1>2

\* A step from one part of an update to the next.
UpdateGoesOn(pc) ==
    /\ UNCHANGED <<server, state_queue, worker, applied, failed>> /\ Overlap
    /\ IsPoll(poll') /\ poll'.pc = pc /\ poll'.params = poll.params /\ poll'.news = poll.news
    /\ poll.changed => poll'.changed

LEMMA GoesOn ==
    ASSUME IInv, NEW pc, UpdateGoesOn(pc), pc \in Writing, poll.pc \in Writing,
           Sound(config, files)', ArchiveOK', AnswerOK', Flagged'
    PROVE  IInv'
<1>1. WorkerOK'
    BY WorkerIsMet DEF UpdateGoesOn, IInv
<1>2. poll'.pc \notin Waiting \cup {"enqueue", "down"}
    BY DEF UpdateGoesOn, Writing, Waiting
<1>3. QED
    BY <1>1, <1>2 DEF UpdateGoesOn, IInv, Shapes, ServerOK, Resumes, WorkerWaits

\* What is about to be set up from does not change, or the change is on its way.
LEMMA FlagStays ==
    ASSUME IInv, NEW pc, UpdateGoesOn(pc), pc \in Writing, poll.pc \in Writing,
           \/ poll'.changed
           \/ Setup(config, files)' = Setup(config, files) /\ \A c : Setup(c, files') = Setup(c, files)
    PROVE  Flagged'
<1>1. Updating /\ Updating' /\ (poll.pc = "down" <=> poll'.pc = "down")
    BY DEF UpdateGoesOn, Updating, Writing
<1>2. CASE poll'.changed
    BY <1>1, <1>2 DEF Flagged, OnItsWay
<1>3. CASE ~poll'.changed
    BY <1>1, <1>3, StillFlagged DEF UpdateGoesOn, IInv
<1>4. QED
    BY <1>2, <1>3

LEMMA WritesServerCert ==
    ASSUME IInv, WriteServerCert
    PROVE  IInv'
<1>1. UNCHANGED <<archive, config>> /\ poll.pc = "srv" /\ UpdateGoesOn("ca")
    BY DEF WriteServerCert, fileStepUnchanged, pollUnchanged, serverVars, UpdateGoesOn, IInv, Shapes,
           IsPoll
<1>2. IsFiles(files') /\ files'.ca = files.ca /\ files'.cert = files.cert /\ files'.key = files.key
    BY DEF WriteServerCert, IInv, Sound, IsFiles
<1>3. Sound(config, files)' /\ ArchiveOK'
    BY <1>1, <1>2 DEF IInv, Sound, ArchiveOK
<1>4. AnswerOK'
    BY <1>1, <1>2 DEF IInv, AnswerOK, UpdateGoesOn
<1>5. \A c : Setup(c, files') = Setup(c, files)
    BY <1>2, SameSetup
<1>6. Flagged'
    BY <1>1, <1>5, FlagStays DEF Writing
<1>7. QED
    BY <1>1, <1>3, <1>4, <1>6, GoesOn DEF Writing

LEMMA UpdatesCA ==
    ASSUME IInv, UpdateCA
    PROVE  IInv'
<1> DEFINE ca == Received(poll.news.ca, None)
<1>1. /\ UNCHANGED archive /\ poll.pc = "ca" /\ UpdateGoesOn("client")
      /\ poll.news.ca # {} => poll'.changed
    BY DEF UpdateCA, fileStepUnchanged, pollUnchanged, serverVars, UpdateGoesOn, IInv, Shapes, IsPoll
<1>2. /\ config'.params = config.params /\ config'.client = config.client
      /\ files'.cert = files.cert /\ files'.key = files.key
      /\ Sound(config, files)'
    <2>1. CASE poll.news.ca = {}
        BY <2>1 DEF UpdateCA, IInv, Sound
    <2>2. CASE poll.news.ca # {}
        <3>1. config' = [config EXCEPT !.ca = ca # None]
              /\ files' = [files EXCEPT !.ca = IF ca = None /\ ~config.ca THEN @ ELSE ca]
            BY <2>2 DEF UpdateCA
        <3>2. /\ IsConfig(config') /\ config'.params = config.params
              /\ config'.client = config.client /\ config'.ca = (ca # None)
            <4> HIDE DEF ca
            <4>1. QED
                BY <3>1 DEF IInv, Sound, IsConfig
        <3>3. /\ IsFiles(files') /\ files'.cert = files.cert /\ files'.key = files.key
              /\ ca # None => files'.ca = ca
            <4> HIDE DEF ca
            <4>1. QED
                BY <3>1 DEF IInv, Sound, IsFiles
        <3>4. QED
            BY <3>2, <3>3 DEF IInv, Sound
    <2>3. QED
        BY <2>1, <2>2
<1>3. AnswerOK'
    BY <1>1, <1>2 DEF IInv, AnswerOK, UpdateGoesOn
<1>4. Flagged'
    <2>1. CASE poll.news.ca = {}
        <3>1. UNCHANGED <<config, files>>
            BY <2>1 DEF UpdateCA
        <3>2. QED
            BY <1>1, <3>1, FlagStays DEF Writing
    <2>2. CASE poll.news.ca # {}
        BY <1>1, <2>2, FlagStays DEF Writing
    <2>3. QED
        BY <2>1, <2>2
<1>5. ArchiveOK'
    BY <1>1 DEF IInv, ArchiveOK
<1>6. QED
    BY <1>1, <1>2, <1>3, <1>4, <1>5, GoesOn DEF Writing

LEMMA UpdatesClientCert ==
    ASSUME IInv, UpdateClientCert
    PROVE  IInv'
<1>1. /\ UNCHANGED archive /\ poll.pc = "client"
      /\ UNCHANGED <<server, state_queue, worker, applied, failed>> /\ Overlap
    BY DEF UpdateClientCert, fileStepUnchanged, pollUnchanged, serverVars
<1>2. ArchiveOK'
    BY <1>1 DEF IInv, ArchiveOK
<1>3. /\ config.params.mode = poll.params.mode
      /\ \/ poll.news.client = {} /\ (poll.params.mode = "tls" => config.client)
         \/ \E c \in Clients \cup {None} : /\ poll.news.client = {c}
                                           /\ poll.params.mode = "tls" => c # None
    BY <1>1 DEF IInv, AnswerOK
<1>4. CASE poll.news.client = {}
    <2>1. UNCHANGED <<config, files>> /\ UpdateGoesOn("save")
        BY <1>1, <1>4 DEF UpdateClientCert, UpdateGoesOn, IInv, Shapes, IsPoll
    <2>2. Sound(config, files)' /\ Copyable(config, files)'
        BY <1>3, <1>4, <2>1, SoundIsCopyable DEF IInv
    <2>3. AnswerOK'
        BY <2>1, <2>2 DEF AnswerOK, UpdateGoesOn
    <2>4. Flagged'
        BY <1>1, <2>1, FlagStays DEF Writing
    <2>5. QED
        BY <1>1, <1>2, <2>1, <2>2, <2>3, <2>4, GoesOn DEF Writing
<1>5. CASE poll.news.client = {None}
    <2>1. Received(poll.news.client, None) = None
        BY <1>5 DEF Received
    <2>2. /\ config' = [config EXCEPT !.client = FALSE]
          /\ files' = IF config.client THEN [files EXCEPT !.cert = None, !.key = None] ELSE files
          /\ poll' = [poll EXCEPT !.pc = "save", !.changed = TRUE]
        BY <1>5, <2>1 DEF UpdateClientCert
    <2>3. UpdateGoesOn("save") /\ poll'.changed
        BY <1>1, <2>2 DEF UpdateGoesOn, IInv, Shapes, IsPoll
    <2>4. /\ IsConfig(config') /\ config'.params = config.params /\ config'.ca = config.ca
          /\ config'.client = FALSE
        BY <2>2 DEF IInv, Sound, IsConfig
    <2>5. IsFiles(files') /\ files'.ca = files.ca
        BY <2>2 DEF IInv, Sound, IsFiles
    <2>6. Sound(config, files)'
        BY <2>4, <2>5 DEF IInv, Sound
    <2>7. config.params.mode # "tls"
        BY <1>3, <1>5
    <2>8. Copyable(config', files')
        BY <2>4, <2>6, <2>7, SoundIsCopyable
    <2>9. AnswerOK'
        BY <2>3, <2>8 DEF AnswerOK, UpdateGoesOn
    <2>10. Flagged'
        BY <1>1, <2>3, FlagStays DEF Writing
    <2>11. QED
        BY <1>1, <1>2, <2>3, <2>6, <2>9, <2>10, GoesOn DEF Writing
<1>6. ASSUME NEW c \in Clients, poll.news.client = {c} PROVE IInv'
    <2>1. Received(poll.news.client, None) = c /\ c # None /\ c.cert # None
        BY <1>6, ConfigAssumption DEF Received
    <2>2. /\ files' = [files EXCEPT !.cert = c.cert]
          /\ poll' = [poll EXCEPT !.pc = "key", !.changed = TRUE]
          /\ UNCHANGED config
        BY <1>6, <2>1 DEF UpdateClientCert
    <2>3. UpdateGoesOn("key") /\ poll'.changed
        BY <1>1, <2>2 DEF UpdateGoesOn, IInv, Shapes, IsPoll
    <2>4. /\ IsFiles(files') /\ files'.ca = files.ca /\ files'.cert = c.cert
          /\ files'.key = files.key
        BY <2>2 DEF IInv, Sound, IsFiles
    <2>5. Sound(config, files)'
        BY <2>1, <2>2, <2>4 DEF IInv, Sound
    <2>6. AnswerOK'
        BY <1>3, <1>6, <2>1, <2>2, <2>3, <2>4 DEF AnswerOK, UpdateGoesOn
    <2>7. Flagged'
        BY <1>1, <2>3, FlagStays DEF Writing
    <2>8. QED
        BY <1>1, <1>2, <2>3, <2>5, <2>6, <2>7, GoesOn DEF Writing
<1>7. QED
    BY <1>3, <1>4, <1>5, <1>6

LEMMA WritesClientKey ==
    ASSUME IInv, WriteClientKey
    PROVE  IInv'
<1>1. UNCHANGED archive /\ poll.pc = "key" /\ UpdateGoesOn("save")
    BY DEF WriteClientKey, fileStepUnchanged, pollUnchanged, serverVars, UpdateGoesOn, IInv, Shapes,
           IsPoll
<1>2. PICK c \in Clients : poll.news.client = {c}
    BY <1>1 DEF IInv, AnswerOK
<1>3. Received(poll.news.client, None) = c /\ c.key # None
    BY <1>2, ConfigAssumption DEF Received
<1>4. files' = [files EXCEPT !.key = c.key] /\ config' = [config EXCEPT !.client = TRUE]
    BY <1>3 DEF WriteClientKey
<1>5. IsFiles(files') /\ files'.ca = files.ca /\ files'.cert = files.cert /\ files'.key = c.key
    BY <1>4 DEF IInv, Sound, IsFiles
<1>6. /\ IsConfig(config') /\ config'.params = config.params /\ config'.ca = config.ca
      /\ config'.client = TRUE
    BY <1>4 DEF IInv, Sound, IsConfig
<1>7. files.cert # None /\ poll.changed
    BY <1>1 DEF IInv, AnswerOK
<1>8. Sound(config, files)'
    BY <1>3, <1>5, <1>6, <1>7 DEF IInv, Sound
<1>9. Copyable(config', files')
    BY <1>6, <1>8, SoundIsCopyable
<1>10. AnswerOK'
    BY <1>1, <1>9 DEF AnswerOK, UpdateGoesOn
<1>11. Flagged'
    BY <1>1, <1>7, FlagStays DEF Writing, UpdateGoesOn
<1>12. ArchiveOK'
    BY <1>1 DEF IInv, ArchiveOK
<1>13. QED
    BY <1>1, <1>8, <1>10, <1>11, <1>12, GoesOn DEF Writing

LEMMA SavesConfig ==
    ASSUME IInv, SaveConfig
    PROVE  IInv'
<1>1. UNCHANGED <<config, files>> /\ poll.pc = "save" /\ UpdateGoesOn("archive") /\ archive' = Partial
    BY DEF SaveConfig, fileStepUnchanged, pollUnchanged, serverVars, UpdateGoesOn, IInv, Shapes, IsPoll
<1>2. Sound(config, files)' /\ ArchiveOK'
    BY <1>1 DEF IInv, Sound, ArchiveOK
<1>3. AnswerOK'
    BY <1>1 DEF IInv, AnswerOK, UpdateGoesOn
<1>4. Flagged'
    BY <1>1, FlagStays DEF Writing
<1>5. QED
    BY <1>1, <1>2, <1>3, <1>4, GoesOn DEF Writing

LEMMA WritesArchive ==
    ASSUME IInv, WriteArchive
    PROVE  IInv'
<1>1. /\ UNCHANGED <<config, files>> /\ poll.pc = "archive" /\ UpdateGoesOn("enqueue")
      /\ archive' = [config |-> config, files |-> files]
    BY DEF WriteArchive, fileStepUnchanged, pollUnchanged, serverVars, UpdateGoesOn, IInv, Shapes,
           IsPoll, Snapshot
<1>2. Sound(config, files) /\ Copyable(config, files)
    BY <1>1 DEF IInv, AnswerOK
<1>3. ArchiveOK'
    <2>1. \E c, f : archive' = [config |-> c, files |-> f] /\ Sound(c, f) /\ Copyable(c, f)
        BY <1>1, <1>2, Zenon
    <2>2. QED
        BY <2>1 DEF ArchiveOK
<1>4. Resumes'
    BY <1>1, <1>2 DEF Resumes, Snapshot
<1>5. WorkerOK'
    BY <1>1, WorkerIsMet DEF UpdateGoesOn, IInv
<1>6. Flagged'
    <2>1. Updating /\ Updating' /\ poll'.pc # "down" /\ poll.pc # "down"
        BY <1>1 DEF UpdateGoesOn, Updating, Writing
    <2>2. QED
        BY <1>1, <2>1, StillFlagged DEF UpdateGoesOn, IInv
<1>7. QED
    BY <1>1, <1>2, <1>3, <1>4, <1>5, <1>6
       DEF UpdateGoesOn, IInv, Shapes, ServerOK, WorkerWaits, AnswerOK

-----------------------------------------------------------------------------
(* The state worker *)

LEMMA QueueGrows ==
    ASSUME NEW q \in Seq(BOOLEAN), NEW b \in BOOLEAN
    PROVE  /\ Append(q, b) \in Seq(BOOLEAN)
           /\ b => \E i \in DOMAIN Append(q, b) : Append(q, b)[i] = TRUE
           /\ (\E i \in DOMAIN q : q[i] = TRUE) => \E i \in DOMAIN Append(q, b) : Append(q, b)[i] = TRUE
<1>1. Append(q, b) \in Seq(BOOLEAN) /\ Append(q, b)[Len(q) + 1] = b
      /\ Len(q) + 1 \in DOMAIN Append(q, b)
    OBVIOUS
<1>2. \A i \in DOMAIN q : i \in DOMAIN Append(q, b) /\ Append(q, b)[i] = q[i]
    OBVIOUS
<1>3. QED
    BY <1>1, <1>2

LEMMA QueueShrinks ==
    ASSUME NEW q \in Seq(BOOLEAN), q # <<>>
    PROVE  /\ Tail(q) \in Seq(BOOLEAN)
           /\ (\E i \in DOMAIN q : q[i] = TRUE) =>
                Head(q) = TRUE \/ \E i \in DOMAIN Tail(q) : Tail(q)[i] = TRUE
<1>1. Tail(q) \in Seq(BOOLEAN)
    OBVIOUS
<1>2. ASSUME NEW i \in DOMAIN q, q[i] = TRUE, Head(q) # TRUE
      PROVE  i - 1 \in DOMAIN Tail(q) /\ Tail(q)[i - 1] = TRUE
    <2>1. Head(q) = q[1] /\ i \in 1..Len(q) /\ Len(q) \in Nat
        OBVIOUS
    <2>2. i \in 2..Len(q)
        <3>1. i # 1
            BY <1>2, <2>1, Zenon
        <3>2. QED
            BY <2>1, <3>1
    <2>3. DOMAIN Tail(q) = 1..(Len(q) - 1) /\ Len(q) - 1 \in Nat
          /\ \A j \in 1..(Len(q) - 1) : Tail(q)[j] = q[j + 1]
        BY <2>1
    <2>4. i - 1 \in 1..(Len(q) - 1) /\ (i - 1) + 1 = i
        BY <2>1, <2>2
    <2>5. QED
        BY <1>2, <2>3, <2>4
<1>3. QED
    BY <1>1, <1>2

LEMMA Enqueues ==
    ASSUME IInv, Enqueue
    PROVE  IInv'
<1>1. /\ UNCHANGED <<server, archive, config, files, worker, applied, failed>> /\ Overlap
      /\ poll.pc = "enqueue" /\ poll' = Idle
      /\ state_queue' = IF worker.pc = "dead" THEN state_queue ELSE Append(state_queue, poll.changed)
    BY DEF Enqueue, pollUnchanged, serverVars
<1>2. IsPoll(poll') /\ poll'.pc = "idle"
    BY <1>1 DEF Idle, IsPoll
<1>3. state_queue \in Seq(BOOLEAN) /\ poll.changed \in BOOLEAN
    BY DEF IInv, Shapes, IsPoll
<1>4. Shapes'
    BY <1>1, <1>2, <1>3, QueueGrows DEF IInv, Shapes, Waiting
<1>5. WorkerOK'
    BY <1>1, WorkerIsMet DEF IInv
<1>6. Flagged'
    <2>1. CASE worker.pc = "dead"
        BY <1>1, <2>1 DEF Flagged
    <2>2. CASE worker.pc # "dead"
        <3>1. state_queue' = Append(state_queue, poll.changed)
            BY <1>1, <2>2
        <3>2. OnItsWay => OnItsWay'
            <4>1. CASE \E i \in DOMAIN state_queue : state_queue[i] = TRUE
                BY <1>3, <3>1, <4>1, QueueGrows DEF OnItsWay
            <4>2. CASE worker.pc = "read"
                BY <1>1, <4>2 DEF OnItsWay
            <4>3. CASE poll.changed
                BY <1>3, <3>1, <4>3, QueueGrows DEF OnItsWay
            <4>4. QED
                BY <4>1, <4>2, <4>3 DEF OnItsWay
        <3>3. QED
            BY <1>1, <1>2, <3>2 DEF IInv, Flagged
    <2>3. QED
        BY <2>1, <2>2
<1>7. QED
    BY <1>1, <1>2, <1>4, <1>5, <1>6
       DEF IInv, Sound, ServerOK, ArchiveOK, Resumes, Snapshot, WorkerWaits, AnswerOK

LEMMA WorkerSteps ==
    ASSUME IInv, StateWorker
    PROVE  IInv'
<1>1. UNCHANGED <<server, archive, config, files, poll, failed>>
    BY DEF StateWorker, TakeConfig, ReadConfig, SetUpNetwork, WorkerDies, ServicesApplied,
           workerUnchanged, serverVars
<1>2. ServerOK' /\ Sound(config, files)' /\ ArchiveOK' /\ Resumes' /\ AnswerOK'
    BY <1>1 DEF IInv, ServerOK, Sound, ArchiveOK, Resumes, Snapshot, AnswerOK
<1>3. poll.pc # "down"
    BY DEF StateWorker, TakeConfig, ReadConfig, SetUpNetwork, WorkerDies, ServicesApplied, IInv,
           WorkerWaits
<1>4. WorkerWaits'
    BY <1>1, <1>3 DEF WorkerWaits
<1>5. IsWorker(worker) /\ state_queue \in Seq(BOOLEAN)
    BY DEF IInv, Shapes
<1>6. CASE TakeConfig
    <2>1. /\ worker.pc = "idle" /\ state_queue # <<>> /\ state_queue' = Tail(state_queue)
          /\ worker' = [worker EXCEPT !.pc = IF Head(state_queue) THEN "read" ELSE "services"]
          /\ UNCHANGED <<applied, overlapped>>
        BY <1>6 DEF TakeConfig
    <2>2. IsWorker(worker') /\ worker'.pc = IF Head(state_queue) THEN "read" ELSE "services"
        BY <1>5, <2>1 DEF IsWorker
    <2>3. Shapes'
        BY <1>1, <1>5, <2>1, <2>2, QueueShrinks DEF IInv, Shapes
    <2>4. OnItsWay => OnItsWay'
        <3>1. CASE \E i \in DOMAIN state_queue : state_queue[i] = TRUE
            <4>1. CASE Head(state_queue) = TRUE
                BY <2>2, <4>1 DEF OnItsWay
            <4>2. CASE Head(state_queue) # TRUE
                BY <1>5, <2>1, <3>1, <4>2, QueueShrinks DEF OnItsWay
            <4>3. QED
                BY <4>1, <4>2
        <3>2. CASE Updating /\ poll.changed
            BY <1>1, <3>2 DEF OnItsWay, Updating
        <3>3. QED
            BY <2>1, <3>1, <3>2 DEF OnItsWay
    <2>5. Flagged'
        <3>1. worker'.pc = "read" => OnItsWay'
            BY DEF OnItsWay
        <3>2. worker'.pc \in {"read", "services"}
            BY <2>2
        <3>3. failed \/ OnItsWay \/ applied = Setup(config, files)
            BY <1>3, <2>1 DEF IInv, Flagged
        <3>4. failed' \/ OnItsWay' \/ applied' = Setup(config', files')
            BY <1>1, <2>1, <2>4, <3>3
        <3>5. QED
            BY <3>1, <3>2, <3>4 DEF Flagged
    <2>6. WorkerOK'
        BY <2>2 DEF WorkerOK
    <2>7. QED
        BY <1>2, <1>4, <2>3, <2>5, <2>6 DEF IInv
<1>7. CASE ReadConfig
    <2>1. worker' = [pc |-> "copy", seen |-> config] /\ Meets /\ UNCHANGED <<state_queue, applied>>
        BY <1>7 DEF ReadConfig
    <2>2. IsWorker(worker') /\ worker'.pc = "copy" /\ worker'.seen = config
        BY <2>1 DEF IsWorker
    <2>3. Shapes' /\ Flagged'
        BY <1>1, <2>1, <2>2 DEF IInv, Shapes, Flagged
    <2>4. failed \/ Updating \/ Copyable(config, files)
        <3>1. CASE poll.pc \in Waiting
            BY <3>1 DEF IInv, Resumes
        <3>2. CASE poll.pc \notin Waiting
            <4>1. CASE poll.pc \in {"srv", "ca", "client", "key", "save", "archive", "enqueue"}
                BY <4>1 DEF Updating, Writing
            <4>2. QED
                BY <1>3, <3>2, <4>1 DEF IInv, Shapes, Writing, Waiting
        <3>3. QED
            BY <3>1, <3>2
    <2>5. Updating => overlapped'
        BY <2>1 DEF Meets
    <2>6. WorkerOK'
        BY <1>1, <2>2, <2>4, <2>5 DEF WorkerOK
    <2>7. QED
        BY <1>2, <1>4, <2>3, <2>6 DEF IInv
<1>8. CASE SetUpNetwork
    <2>1. /\ worker.pc = "copy" /\ applied' = Setup(worker.seen, files)
          /\ worker' = [pc |-> "services", seen |-> InitialConfig] /\ UNCHANGED state_queue
        BY <1>8 DEF SetUpNetwork
    <2>2. IsWorker(worker') /\ worker'.pc = "services"
        BY <2>1 DEF IsWorker
    <2>3. OnItsWay => OnItsWay'
        BY <1>1, <2>1 DEF OnItsWay, Updating
    <2>4. Flagged'
        BY <1>1, <1>3, <2>1, <2>2, <2>3 DEF IInv, Flagged
    <2>5. QED
        BY <1>1, <1>2, <1>4, <2>1, <2>2, <2>4 DEF IInv, Shapes, WorkerOK
<1>9. CASE WorkerDies
    <2>1. /\ worker.pc = "copy" /\ ~Copyable(worker.seen, files) /\ Meets
          /\ worker' = [WorkerIdle EXCEPT !.pc = "dead"] /\ state_queue' = <<>>
        BY <1>9 DEF WorkerDies
    <2>2. IsWorker(worker') /\ worker'.pc = "dead"
        BY <2>1 DEF IsWorker, WorkerIdle
    <2>3. overlapped => overlapped'
        BY <2>1, Zenon DEF Meets
    <2>4. failed \/ overlapped
        BY <2>1 DEF IInv, WorkerOK
    <2>5. WorkerOK' /\ Flagged' /\ Shapes'
        BY <1>1, <2>1, <2>2, <2>3, <2>4 DEF WorkerOK, Flagged, IInv, Shapes
    <2>6. QED
        BY <1>2, <1>4, <2>5 DEF IInv
<1>10. CASE ServicesApplied
    <2>1. worker.pc = "services" /\ worker' = WorkerIdle /\ UNCHANGED <<state_queue, applied>>
        BY <1>10 DEF ServicesApplied
    <2>2. IsWorker(worker') /\ worker'.pc = "idle"
        BY <2>1 DEF IsWorker, WorkerIdle
    <2>3. OnItsWay => OnItsWay'
        BY <1>1, <2>1 DEF OnItsWay, Updating
    <2>4. Flagged'
        BY <1>1, <1>3, <2>1, <2>2, <2>3 DEF IInv, Flagged
    <2>5. QED
        BY <1>1, <1>2, <1>4, <2>1, <2>2, <2>4 DEF IInv, Shapes, WorkerOK
<1>11. QED
    BY <1>6, <1>7, <1>8, <1>9, <1>10 DEF StateWorker

-----------------------------------------------------------------------------
(* The process *)

LEMMA Ends ==
    ASSUME IInv, Crash
    PROVE  IInv'
<1>1. /\ UNCHANGED <<server, archive>> /\ poll' = [Idle EXCEPT !.pc = "down"]
      /\ config' = InitialConfig /\ files' = InitialFiles
      /\ state_queue' = <<>> /\ worker' = WorkerIdle
    BY DEF Crash, serverVars
<1>2. IsPoll(poll') /\ poll'.pc = "down"
    BY <1>1 DEF Idle, IsPoll
<1>3. IsWorker(worker') /\ worker'.pc = "idle"
    BY <1>1 DEF WorkerIdle, IsWorker
<1>4. Sound(config, files)'
    BY <1>1 DEF Sound, IsConfig, IsFiles, InitialConfig, InitialFiles
<1>5. ServerOK' /\ ArchiveOK'
    BY <1>1 DEF IInv, ServerOK, ArchiveOK
<1>6. QED
    BY <1>1, <1>2, <1>3, <1>4, <1>5
       DEF IInv, Shapes, Resumes, WorkerWaits, AnswerOK, Flagged, WorkerOK, Waiting

LEMMA Restarts ==
    ASSUME IInv, Restart
    PROVE  IInv'
<1>1. /\ UNCHANGED <<server, archive, state_queue, worker>> /\ poll.pc = "down" /\ archive # Partial
      /\ config' = archive.config /\ files' = archive.files
      /\ applied' = Setup(archive.config, archive.files) /\ poll' = Idle
    BY DEF Restart, serverVars
<1>2. PICK c, f : archive = [config |-> c, files |-> f] /\ Sound(c, f) /\ Copyable(c, f)
    BY <1>1 DEF IInv, ArchiveOK
<1>3. config' = c /\ files' = f /\ applied' = Setup(c, f)
    BY <1>1, <1>2
<1>4. IsPoll(poll') /\ poll'.pc = "idle"
    BY <1>1 DEF Idle, IsPoll
<1>5. worker'.pc = "idle"
    BY <1>1 DEF IInv, WorkerWaits
<1>6. Sound(config, files)' /\ Copyable(config, files)'
    BY <1>2, <1>3
<1>7. ServerOK' /\ ArchiveOK'
    BY <1>1 DEF IInv, ServerOK, ArchiveOK
<1>8. Shapes'
    BY <1>1, <1>4 DEF IInv, Shapes, Waiting
<1>9. Resumes'
    BY <1>1, <1>2, <1>3, <1>6 DEF Resumes, Snapshot
<1>10. WorkerWaits' /\ AnswerOK' /\ Flagged' /\ WorkerOK'
    BY <1>3, <1>4, <1>5 DEF WorkerWaits, AnswerOK, Flagged, WorkerOK
<1>11. QED
    BY <1>6, <1>7, <1>8, <1>9, <1>10 DEF IInv

-----------------------------------------------------------------------------
LEMMA InvStep == IInv /\ [Next]_vars => IInv'
<1> SUFFICES ASSUME IInv, [Next]_vars PROVE IInv'
    OBVIOUS
<1>1. CASE Server
    BY <1>1, ServerSteps
<1>2. CASE Polling \/ PollLost \/ UpdateFails
    BY <1>2, PollSends, UpdatesParams, UpdateBreaks, WritesServerCert, UpdatesCA, UpdatesClientCert,
       WritesClientKey, SavesConfig, WritesArchive, Enqueues DEF Polling
<1>3. CASE StateWorker
    BY <1>3, WorkerSteps
<1>4. CASE Crash \/ Restart
    BY <1>4, Ends, Restarts
<1>5. CASE UNCHANGED vars
    BY <1>5 DEF vars, serverVars, sensorVars, IInv, Shapes, Sound, ServerOK, ArchiveOK, Resumes,
        Snapshot, WorkerWaits, AnswerOK, Flagged, OnItsWay, Updating, WorkerOK
<1>6. QED
    BY <1>1, <1>2, <1>3, <1>4, <1>5 DEF Next

THEOREM Invariance == Spec => []IInv
BY InvInit, InvStep, PTL DEF Spec

\* The flag network_changed misses nothing, whichever part of an answer came and
\* whatever the state worker was at when it came.
THEOREM NothingDrifts == Spec => []NoDrift
<1>1. IInv => NoDrift
    BY DEF IInv, Flagged, OnItsWay, Updating, Writing, NoDrift
<1>2. QED
    BY <1>1, Invariance, PTL

\* Between two updates that succeed the archive is what the sensor runs with.
THEOREM ArchiveIsCurrent == Spec => []RestartResumes
<1>1. IInv => RestartResumes
    BY DEF IInv, Resumes, Waiting, RestartResumes
<1>2. QED
    BY <1>1, Invariance, PTL

\* No crash or failed write leaves an archive that can be read but not applied.
THEOREM ArchivesApply == Spec => []ArchiveApplies
<1>1. ASSUME IInv PROVE ArchiveApplies
    <2>1. SUFFICES ASSUME archive # Partial PROVE Copyable(archive.config, archive.files)
        BY DEF ArchiveApplies
    <2>2. PICK c, f : archive = [config |-> c, files |-> f] /\ Copyable(c, f)
        BY <1>1, <2>1 DEF IInv, ArchiveOK
    <2>3. archive.config = c /\ archive.files = f
        BY <2>2
    <2>4. QED
        BY <2>2, <2>3
<1>2. QED
    BY <1>1, Invariance, PTL

\* The state worker dies only of an update that failed or came while it was at work.
THEOREM WorkerLives == Spec => []WorkerSurvives
<1>1. IInv => WorkerSurvives
    BY DEF IInv, WorkerOK, WorkerSurvives
<1>2. QED
    BY <1>1, Invariance, PTL
=============================================================================
