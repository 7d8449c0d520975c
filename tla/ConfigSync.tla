----------------------------- MODULE ConfigSync -----------------------------
(***************************************************************************)
(* How a sensor gets its configuration.  Users edit it on the server; each *)
(* poll of the sensor sends the fingerprints of its certificates and gets  *)
(* the parameters, and the certificates that differ.  The polling thread   *)
(* changes the configuration in memory, writes certificates, saves the     *)
(* archive that survives a restart, and tells the state worker whether the *)
(* network has to be set up again; the state worker reads the same object. *)
(* Requests and answers get lost, writes fail, the process ends early.     *)
(***************************************************************************)
EXTENDS Naturals, Sequences

CONSTANTS
    Nets,           \* values of the server's host and the network settings
    Plains,         \* values of the settings that need no new network
    Settings,       \* the combinations of both that users choose from
    Passwords,      \* EAPOL passwords
    Unstorable,     \* those with a %, which configparser refuses to set
    CAs,            \* EAPOL CA certificates
    Certs, Keys, Phrases,
    Clients,        \* EAPOL client credentials: a certificate, its key, its passphrase
    ServerCerts,    \* the server's TLS certificates
    None, Unset,    \* no value; a parameter that a request leaves out
    Partial,        \* a file or an archive that was not written to its end
    InitialNet, InitialPlain, InitialServerCert,
    MaxEdits,       \* bound: changes on the server
    MaxFaults,      \* bound: lost polls, failed writes, crashes, together
    MaxQueue        \* bound: configurations waiting for the state worker

ASSUME ConfigAssumption ==
    /\ Settings \subseteq [net : Nets, plain : Plains]
    /\ Unstorable \subseteq Passwords
    /\ Clients \subseteq [cert : Certs, key : Keys, pass : Phrases \cup {None}]
    /\ InitialNet \in Nets /\ InitialPlain \in Plains /\ InitialServerCert \in ServerCerts
    /\ {None, Unset, Partial} \cap (Passwords \cup CAs \cup Certs \cup Keys \cup Phrases
                                    \cup Clients \cup ServerCerts) = {}
    /\ None # Unset /\ None # Partial /\ Unset # Partial
    /\ MaxEdits \in Nat /\ MaxFaults \in Nat /\ MaxQueue \in Nat \ {0}

VARIABLES
    server,         \* the sensor's row in the server's database
    server_crt,     \* the server's TLS certificate
    archive,        \* the sensor's configuration archive
    config,         \* the sensor's configuration object
    files,          \* the certificates in its configuration directory
    poll,           \* the polling thread
    state_queue,    \* network_changed of each configuration that waits
    worker,         \* the state worker
    applied,        \* what the network was last set up with
    failed,         \* an update has failed since the start
    overlapped,     \* the two threads have been at work at once since the start
    edits, faults

serverVars == <<server, server_crt, edits>>
sensorVars == <<config, files, state_queue, worker, applied>>
vars == <<serverVars, archive, sensorVars, poll, failed, overlapped, faults>>

\* PEAP and TTLS are `tunnel`.  Identities travel as the passwords do.
Modes == {"disabled", "md5", "tls", "tunnel"}

Optional(S) == S \cup {None}
Parameters == [net : Nets, plain : Plains, mode : Modes, password : Optional(Passwords),
               pass : Optional(Phrases)]
Rows == [net : Nets, plain : Plains, mode : Modes, password : Optional(Passwords),
         ca : Optional(CAs), client : Optional(Clients)]
Configs == [params : Parameters, ca : BOOLEAN, client : BOOLEAN]
Files == [srv : ServerCerts \cup {Partial}, ca : CAs \cup {None, Partial},
          cert : Certs \cup {None, Partial}, key : Keys \cup {None, Partial}]
Setups == [net : Nets, mode : Modes, password : Optional(Passwords), pass : Optional(Phrases),
           ca : CAs \cup {None, Partial}, cert : Certs \cup {None, Partial},
           key : Keys \cup {None, Partial}]

Passphrase(row) == IF row.client = None THEN None ELSE row.client.pass
ParametersOf(row) == [net |-> row.net, plain |-> row.plain, mode |-> row.mode,
                      password |-> row.password, pass |-> Passphrase(row)]

\* Where an answer is worked on; `srv` to `archive` are inside update_config().
Writing == {"srv", "ca", "client", "key", "save", "archive"}
Updating == poll.pc \in Writing \cup {"enqueue"}
Nothing == [srv |-> {}, ca |-> {}, client |-> {}]

TypeOK ==
    /\ server \in Rows /\ server_crt \in ServerCerts
    /\ archive \in [config : Configs, files : Files] \cup {Partial}
    /\ config \in Configs /\ files \in Files
    /\ poll.pc \in {"idle", "sent", "answered", "down"} \cup Writing \cup {"enqueue"}
    /\ poll.fp \in [srv : Optional(ServerCerts), ca : Optional(CAs), cert : Optional(Certs)]
    /\ poll.params \in Parameters
    /\ poll.changed \in BOOLEAN
    /\ poll.news.srv \subseteq ServerCerts
    /\ poll.news.ca \subseteq Optional(CAs) /\ poll.news.client \subseteq Optional(Clients)
    /\ state_queue \in Seq(BOOLEAN) /\ Len(state_queue) <= MaxQueue
    /\ worker.pc \in {"idle", "read", "copy", "services", "dead"}
    /\ worker.seen \in Configs
    /\ applied \in Setups
    /\ failed \in BOOLEAN /\ overlapped \in BOOLEAN
    /\ edits \in 0..MaxEdits /\ faults \in 0..MaxFaults

-----------------------------------------------------------------------------
(* The server: updateSensor() and the answer to a poll *)

\* A value that a request leaves out is kept.
Given(value, current) == IF value = Unset THEN current ELSE value

\* updateSensorFromParams(): the credentials by mode, and what the mode does
\* not use is reset.
Disabled(row) == [row EXCEPT !.mode = "disabled", !.password = None, !.ca = None, !.client = None]
MD5(row, password) ==
    [row EXCEPT !.mode = "md5", !.password = Given(password, row.password),
                !.ca = None, !.client = None]
TLS(row, ca, client) ==
    {r \in {[row EXCEPT !.mode = "tls", !.ca = Given(ca, row.ca),
                        !.client = Given(client, row.client),
                        !.password = IF client = Unset THEN row.password ELSE None]} :
       r.client # None}
Tunnel(row, ca, password) ==
    [row EXCEPT !.mode = "tunnel", !.ca = Given(ca, row.ca), !.client = None,
                !.password = Given(password, row.password)]

\* The rows an update may lead to: a request without a credential that is needed
\* and not there is refused.
Updated(row) ==
    {Disabled(row)}
    \cup {r \in {MD5(row, p) : p \in Passwords \cup {Unset}} : r.password # None}
    \cup (UNION {TLS(row, ca, c) : ca \in CAs \cup {None, Unset}, c \in Clients \cup {Unset}})
    \cup {Tunnel(row, ca, p) : ca \in CAs \cup {None, Unset},
                               p \in Passwords \cup {None} \cup (IF row.password = None THEN {} ELSE {Unset})}

UpdateSensor ==
    /\ edits < MaxEdits /\ edits' = edits + 1
    /\ \E s \in Settings :
         \E row \in Updated([server EXCEPT !.net = s.net, !.plain = s.plain]) : server' = row
    /\ UNCHANGED <<server_crt, archive, sensorVars, poll, failed, overlapped, faults>>

RenewServerCert ==
    /\ edits < MaxEdits /\ edits' = edits + 1
    /\ server_crt' \in ServerCerts
    /\ UNCHANGED <<server, archive, sensorVars, poll, failed, overlapped, faults>>

\* A fingerprint stands for what is in the file; there is none of half a file.
Fingerprint(there, file) == IF there /\ file # Partial THEN file ELSE None
Differing(current, fingerprint) == IF current = fingerprint THEN {} ELSE {current}
CertOf(row) == IF row.client = None THEN None ELSE row.client.cert

\* poll(): parameters always, certificates when the fingerprint differs; the
\* client's key goes with its certificate.
NewsFor(fp) ==
    [srv |-> Differing(server_crt, fp.srv),
     ca |-> Differing(server.ca, fp.ca),
     client |-> IF CertOf(server) = fp.cert THEN {} ELSE {server.client}]

-----------------------------------------------------------------------------
(* The sensor: configurations and what is set up from them *)

Snapshot == [config |-> config, files |-> files]

\* configure_eapol() uses what the mode needs; every mode but `disabled` takes
\* the CA certificate and the passphrase when they are there.
Setup(c, f) ==
    LET p == c.params
        For(modes, value) == IF p.mode \in modes THEN value ELSE None
        EAPOL == Modes \ {"disabled"}
    IN [net |-> p.net, mode |-> p.mode,
        password |-> For({"md5", "tunnel"}, p.password),
        pass |-> For(EAPOL, p.pass),
        ca |-> For(EAPOL, IF c.ca THEN f.ca ELSE None),
        cert |-> For({"tls"}, f.cert), key |-> For({"tls"}, f.key)]

\* Copying a certificate that is not there raises.
Copyable(c, f) ==
    /\ c.params.mode = "tls" => c.client /\ f.cert # None /\ f.key # None
    /\ c.params.mode # "disabled" /\ c.ca => f.ca # None

InitialParameters == [net |-> InitialNet, plain |-> InitialPlain, mode |-> "disabled",
                      password |-> None, pass |-> None]
InitialConfig == [params |-> InitialParameters, ca |-> FALSE, client |-> FALSE]
InitialFiles == [srv |-> InitialServerCert, ca |-> None, cert |-> None, key |-> None]

Idle == [pc |-> "idle", fp |-> [srv |-> None, ca |-> None, cert |-> None],
         params |-> InitialParameters, news |-> Nothing, changed |-> FALSE]
WorkerIdle == [pc |-> "idle", seen |-> InitialConfig]

\* The sensor starts with the archive that was made for it.
Init ==
    /\ server = [net |-> InitialNet, plain |-> InitialPlain, mode |-> "disabled",
                 password |-> None, ca |-> None, client |-> None]
    /\ server_crt = InitialServerCert
    /\ config = InitialConfig /\ files = InitialFiles
    /\ archive = [config |-> InitialConfig, files |-> InitialFiles]
    /\ poll = Idle /\ state_queue = <<>> /\ worker = WorkerIdle
    /\ applied = Setup(InitialConfig, InitialFiles)
    /\ failed = FALSE /\ overlapped = FALSE
    /\ edits = 0 /\ faults = 0

Fault == faults < MaxFaults /\ faults' = faults + 1

-----------------------------------------------------------------------------
(* The polling thread *)

pollUnchanged == <<serverVars, worker, applied, failed>>

\* Has the update that is going on met the state worker at work?
Overlap == overlapped' = (overlapped \/ worker.pc \in {"read", "copy"})

\* collect_data() and send_data(); without the server's certificate no request
\* gets through.
PollSend ==
    /\ poll.pc = "idle" /\ Len(state_queue) < MaxQueue
    /\ files.srv # Partial
    /\ poll' = [Idle EXCEPT !.pc = "sent",
                            !.fp = [srv |-> files.srv,
                                    ca |-> Fingerprint(config.ca, files.ca),
                                    cert |-> Fingerprint(config.client, files.cert)]]
    /\ UNCHANGED <<archive, config, files, state_queue, overlapped, faults, pollUnchanged>>

ServerAnswer ==
    /\ poll.pc = "sent"
    /\ poll' = [poll EXCEPT !.pc = "answered", !.params = ParametersOf(server),
                            !.news = NewsFor(poll.fp), !.fp = Idle.fp]
    /\ UNCHANGED <<archive, config, files, state_queue, overlapped, faults, pollUnchanged>>

\* The request or its answer is lost, or the server refuses it.
PollLost ==
    /\ poll.pc \in {"sent", "answered"}
    /\ Fault
    /\ poll' = Idle
    /\ UNCHANGED <<archive, config, files, state_queue, overlapped, pollUnchanged>>

\* Mutant: a new password does not count as a change of the network.
NetworkParamsNoPassword(p) == <<p.net, p.mode, p.pass>>
\* The parameters with trigger_network_change.
NetworkParams(p) == <<p.net, p.mode, p.password, p.pass>>

Refused == /\ poll.params.password \in Unstorable
           /\ poll.params.password # config.params.password

\* update_config_param() for every parameter of the answer.
UpdateParams ==
    /\ poll.pc = "answered" /\ ~Refused
    /\ config' = [config EXCEPT !.params = poll.params]
    /\ poll' = [poll EXCEPT !.pc = "srv",
                 !.changed = NetworkParams(poll.params) # NetworkParams(config.params)]
    /\ Overlap
    /\ UNCHANGED <<archive, files, state_queue, faults, pollUnchanged>>

\* A parameter is refused, after those before it were set: the update ends, and
\* so does every later one with this answer.
UpdateRefused ==
    /\ poll.pc = "answered" /\ Refused
    /\ config' = [config EXCEPT !.params = [poll.params EXCEPT !.password = config.params.password,
                                                              !.pass = config.params.pass]]
    /\ failed' = TRUE
    /\ poll' = Idle
    /\ Overlap
    /\ UNCHANGED <<archive, files, state_queue, faults, serverVars, worker, applied>>

\* What an answer brings, or what is there when it brings nothing.
Received(news, current) == IF news = {} THEN current ELSE CHOOSE x \in news : TRUE

fileStepUnchanged == <<state_queue, faults, pollUnchanged>>

WriteServerCert ==
    /\ poll.pc = "srv"
    /\ files' = [files EXCEPT !.srv = Received(poll.news.srv, @)]
    /\ poll' = [poll EXCEPT !.pc = "ca"]
    /\ Overlap
    /\ UNCHANGED <<archive, config, fileStepUnchanged>>

\* Mutant: the configuration keeps the name of a CA certificate that is removed.
UpdateCAKeepsName ==
    /\ poll.pc = "ca"
    /\ IF poll.news.ca = {} THEN UNCHANGED <<config, files>>
       ELSE /\ config' = [config EXCEPT !.ca = TRUE]
            /\ files' = [files EXCEPT !.ca = Received(poll.news.ca, None)]
    /\ poll' = [poll EXCEPT !.pc = "client", !.changed = @ \/ poll.news.ca # {}]
    /\ Overlap
    /\ UNCHANGED <<archive, fileStepUnchanged>>

\* A certificate that is not set any more is removed, one that is new is written.
UpdateCA ==
    /\ poll.pc = "ca"
    /\ LET ca == Received(poll.news.ca, None) IN
         IF poll.news.ca = {} THEN UNCHANGED <<config, files>>
         ELSE /\ config' = [config EXCEPT !.ca = ca # None]
              /\ files' = [files EXCEPT !.ca = IF ca = None /\ ~config.ca THEN @ ELSE ca]
    /\ poll' = [poll EXCEPT !.pc = "client", !.changed = @ \/ poll.news.ca # {}]
    /\ Overlap
    /\ UNCHANGED <<archive, fileStepUnchanged>>

\* The client's certificate; the key is written after it.
UpdateClientCert ==
    /\ poll.pc = "client"
    /\ LET client == Received(poll.news.client, None) IN
         CASE poll.news.client = {} ->
                /\ UNCHANGED <<config, files>>
                /\ poll' = [poll EXCEPT !.pc = "save"]
           [] poll.news.client # {} /\ client = None ->
                /\ config' = [config EXCEPT !.client = FALSE]
                /\ files' = IF config.client THEN [files EXCEPT !.cert = None, !.key = None]
                                             ELSE files
                /\ poll' = [poll EXCEPT !.pc = "save", !.changed = TRUE]
           [] OTHER ->
                /\ files' = [files EXCEPT !.cert = client.cert]
                /\ poll' = [poll EXCEPT !.pc = "key", !.changed = TRUE]
                /\ UNCHANGED config
    /\ Overlap
    /\ UNCHANGED <<archive, fileStepUnchanged>>

\* Mutant: the configuration does not get the names of the new files.
WriteClientKeyUnnamed ==
    /\ poll.pc = "key"
    /\ files' = [files EXCEPT !.key = Received(poll.news.client, None).key]
    /\ poll' = [poll EXCEPT !.pc = "save"]
    /\ Overlap
    /\ UNCHANGED <<archive, config, fileStepUnchanged>>

WriteClientKey ==
    /\ poll.pc = "key"
    /\ files' = [files EXCEPT !.key = Received(poll.news.client, None).key]
    /\ config' = [config EXCEPT !.client = TRUE]
    /\ poll' = [poll EXCEPT !.pc = "save"]
    /\ Overlap
    /\ UNCHANGED <<archive, fileStepUnchanged>>

\* The configuration file is saved and the archive opened, which empties it ...
SaveConfig ==
    /\ poll.pc = "save"
    /\ archive' = Partial
    /\ poll' = [poll EXCEPT !.pc = "archive"]
    /\ Overlap
    /\ UNCHANGED <<config, files, fileStepUnchanged>>

\* Mutant: the archive gets the certificates it had at the start.
WriteArchiveOld ==
    /\ poll.pc = "archive"
    /\ archive' = [Snapshot EXCEPT !.files = [InitialFiles EXCEPT !.srv = files.srv]]
    /\ poll' = [poll EXCEPT !.pc = "enqueue"]
    /\ Overlap
    /\ UNCHANGED <<config, files, fileStepUnchanged>>

\* ... and then written from the directory.
WriteArchive ==
    /\ poll.pc = "archive"
    /\ archive' = Snapshot
    /\ poll' = [poll EXCEPT !.pc = "enqueue"]
    /\ Overlap
    /\ UNCHANGED <<config, files, fileStepUnchanged>>

\* A write fails: the file may be left half written, the archive is, and the
\* exception ends the update before the state worker hears of it.
UpdateFails ==
    /\ \E file \in {"none", "srv", "ca", "cert", "key"} :
         /\ CASE poll.pc = "srv"    -> poll.news.srv # {} /\ file \in {"none", "srv"}
              [] poll.pc = "ca"     -> /\ poll.news.ca \notin {{}, {None}}
                                       /\ file \in {"none", "ca"}
              [] poll.pc = "client" -> /\ poll.news.client \notin {{}, {None}}
                                       /\ file \in {"none", "cert"}
              [] poll.pc = "key"    -> file \in {"none", "key"}
              [] OTHER              -> poll.pc \in {"save", "archive"} /\ file = "none"
         /\ files' = [f \in DOMAIN files |-> IF f = file THEN Partial ELSE files[f]]
    /\ Fault
    /\ failed' = TRUE
    /\ poll' = Idle
    /\ Overlap
    /\ UNCHANGED <<archive, config, state_queue, serverVars, worker, applied>>

\* The state worker is told.  Nobody reads the queue of a dead one.
Enqueue ==
    /\ poll.pc = "enqueue"
    /\ state_queue' = IF worker.pc = "dead" THEN state_queue
                                            ELSE Append(state_queue, poll.changed)
    /\ poll' = Idle
    /\ Overlap
    /\ UNCHANGED <<archive, config, files, faults, pollUnchanged>>

-----------------------------------------------------------------------------
(* The state worker *)

workerUnchanged == <<serverVars, archive, config, files, poll, failed, faults>>

\* Has the application that is going on met the polling thread at an update?
Meets == overlapped' = (overlapped \/ Updating)

\* run(): services are applied in any case (see ServiceManager).
TakeConfig ==
    /\ worker.pc = "idle" /\ state_queue # <<>>
    /\ state_queue' = Tail(state_queue)
    /\ worker' = [worker EXCEPT !.pc = IF Head(state_queue) THEN "read" ELSE "services"]
    /\ UNCHANGED <<applied, overlapped, workerUnchanged>>

\* The platform's apply_config() reads the configuration ...
ReadConfig ==
    /\ worker.pc = "read"
    /\ worker' = [pc |-> "copy", seen |-> config]
    /\ Meets
    /\ UNCHANGED <<state_queue, applied, workerUnchanged>>

\* ... copies the certificates and sets the network up.
SetUpNetwork ==
    /\ worker.pc = "copy" /\ Copyable(worker.seen, files)
    /\ applied' = Setup(worker.seen, files)
    /\ worker' = [pc |-> "services", seen |-> InitialConfig]
    /\ Meets
    /\ UNCHANGED <<state_queue, workerUnchanged>>

\* A missing file raises, and nothing in run() catches that.
WorkerDies ==
    /\ worker.pc = "copy" /\ ~Copyable(worker.seen, files)
    /\ worker' = [WorkerIdle EXCEPT !.pc = "dead"]
    /\ state_queue' = <<>>
    /\ Meets
    /\ UNCHANGED <<applied, workerUnchanged>>

ServicesApplied ==
    /\ worker.pc = "services"
    /\ worker' = WorkerIdle
    /\ UNCHANGED <<state_queue, applied, overlapped, workerUnchanged>>

-----------------------------------------------------------------------------
(* The process *)

\* It ends, and its configuration directory is lost.
Crash ==
    /\ poll.pc # "down"
    /\ Fault
    /\ poll' = [Idle EXCEPT !.pc = "down"]
    /\ config' = InitialConfig /\ files' = InitialFiles
    /\ state_queue' = <<>> /\ worker' = WorkerIdle
    /\ UNCHANGED <<serverVars, archive, applied, failed, overlapped>>

\* Mutant: the first configuration is applied without a reset of the network.
RestartWithoutReset ==
    /\ poll.pc = "down" /\ archive # Partial
    /\ config' = archive.config /\ files' = archive.files
    /\ poll' = Idle /\ failed' = FALSE /\ overlapped' = FALSE
    /\ UNCHANGED <<serverVars, archive, state_queue, worker, applied, faults>>

\* init_config() and start(): the archive is unpacked and the network set up from
\* it; without an archive to read, or certificates to copy, the manager does not run.
Restart ==
    /\ poll.pc = "down" /\ archive # Partial
    /\ Copyable(archive.config, archive.files)
    /\ config' = archive.config /\ files' = archive.files
    /\ applied' = Setup(archive.config, archive.files)
    /\ poll' = Idle /\ failed' = FALSE /\ overlapped' = FALSE
    /\ UNCHANGED <<serverVars, archive, state_queue, worker, faults>>

-----------------------------------------------------------------------------
Server == UpdateSensor \/ RenewServerCert
Polling == \/ PollSend \/ ServerAnswer \/ UpdateParams \/ UpdateRefused \/ WriteServerCert
           \/ UpdateCA \/ UpdateClientCert \/ WriteClientKey \/ SaveConfig \/ WriteArchive \/ Enqueue
StateWorker == TakeConfig \/ ReadConfig \/ SetUpNetwork \/ WorkerDies \/ ServicesApplied

Next == Server \/ Polling \/ PollLost \/ UpdateFails \/ StateWorker \/ Crash \/ Restart

Spec == Init /\ [][Next]_vars

\* The timer starts the next poll, the threads run, and the process is restarted.
Fairness == WF_vars(Polling) /\ WF_vars(StateWorker) /\ WF_vars(Restart)

FairSpec == Spec /\ Fairness

-----------------------------------------------------------------------------
(* Properties *)

\* network_changed (polling.py) misses nothing: when both threads are at rest the network is
\* set up from what the sensor has in memory and in its directory, unless a
\* failed update lost the flag.
NoDrift ==
    poll.pc = "idle" /\ worker.pc = "idle" /\ state_queue = <<>> /\ ~failed =>
        applied = Setup(config, files)

\* Between two polls the archive holds what the sensor runs with, so a restart
\* goes on from there.
RestartResumes == poll.pc = "idle" /\ ~failed => archive = Snapshot

\* The state worker is lost only to an update that failed, or to one that changed
\* the configuration it was about to apply.
WorkerSurvives == worker.pc = "dead" => failed \/ overlapped

\* Whatever of an interrupted or failed update was archived, a sensor that can
\* read its archive can also apply it: it does not fail at every start.
ArchiveApplies == archive # Partial => Copyable(archive.config, archive.files)

\* The sensor ends up with what users set on the server, unless a write failed,
\* its archive was cut off, or the state worker is gone.  (The key is another
\* matter: poll() sends it only with a certificate that is new, SensorsService.php:392.)
InSync ==
    /\ poll.pc # "down"
    /\ config.params = ParametersOf(server)
    /\ files.srv = server_crt
    /\ LET want == [net |-> server.net, mode |-> server.mode, password |-> server.password,
                    pass |-> Passphrase(server), ca |-> server.ca, cert |-> CertOf(server)]
       IN \A field \in DOMAIN want : applied[field] = want[field]

Converges ==
    <>[](InSync \/ failed \/ worker.pc = "dead" \/ (poll.pc = "down" /\ archive = Partial))
=============================================================================
