--------------------------- MODULE ServiceManager ---------------------------
(***************************************************************************)
(* The honeypot services of a sensor: how the StateWorker thread brings    *)
(* docker's containers, the services network and the netfilter redirection *)
(* in line with the configuration a poll has delivered, and how the        *)
(* collector thread follows the services network.                          *)
(*                                                                         *)
(* An action is one docker operation, or a few that nothing else can come  *)
(* between: containers stop by themselves, docker calls fail, the server's *)
(* assignment changes and the manager restarts between any two of them.    *)
(* Containers in raw network mode are not modelled.                        *)
(***************************************************************************)
EXTENDS Naturals, FiniteSets

CONSTANTS
    Services,       \* the service ids an administrator can assign
    Revisions,      \* the revisions of every service
    Choices,        \* the assignments an administrator chooses from
    CatchAll,       \* <<service, revision>> pairs that receive all remaining traffic
    NameIn,       \* <<s, t>>: the container name of s occurs in the one of t
    Subnets,        \* possible services networks
    IPs,            \* addresses docker assigns
    None,           \* no revision, container, address, service or network
    MaxAssigns,     \* bound: changes of the assignment
    MaxCrashes,     \* bound: containers that stop by themselves
    MaxFaults,      \* bound: failing docker calls
    MaxRestarts     \* bound: restarts of the manager

Assignments == [Services -> Revisions \cup {None}]

\* The container object at hand, which outlives the container when somebody else removes
\* that (`live`), in an entry of the registry, with the revision wanted.
References == [rev : Revisions, live : BOOLEAN]
Records == [rev : Revisions \cup {None}, container : References \cup {None}]

\* Docker's containers.  A container that stops loses its address.
Boxes == [rev : Revisions, ip : IPs \cup {None}]

ASSUME ServiceAssumption ==
    /\ Choices \subseteq Assignments
    /\ CatchAll \subseteq Services \X Revisions
    /\ NameIn \subseteq Services \X Services
    /\ \A s \in Services : <<s, s>> \in NameIn
    /\ None \notin Services \cup Revisions \cup Subnets \cup IPs
    /\ None \notin Assignments /\ None \notin References \cup Records \cup Boxes
    /\ MaxAssigns \in Nat /\ MaxCrashes \in Nat /\ MaxFaults \in Nat /\ MaxRestarts \in Nat

VARIABLES
    assigned,       \* server: the revision of each service to run, or None
    service_network,\* server: the subnet of the services network
    network_changed,\* server: network settings the sensor does not have yet
    config,         \* the configuration being applied
    worker,         \* where the StateWorker is
    pending,        \* services the current loop still has to visit
    current,        \* the service start() is working on
    services,      \* the registry: per service, unknown or its entry
    containers,     \* docker: per service name, None or the container
    images,         \* docker: the images at hand
    network,        \* docker: the subnet of the services network, or None
    chain,          \* netfilter: addresses that packets are redirected to
    catchall_target,
    forgotten,      \* history: those whose rule does not go with their container any more
    collector,      \* where the collector is
    bound,          \* the subnet the collector's address belongs to
    ev_restart,     \* the collector has been told to bind again
    assigns, crashes, faults, restarts    \* counters of the bounds

serverVars == <<assigned, service_network, network_changed>>
workerVars == <<config, worker, pending, current>>
dockerVars == <<containers, images, network>>
catchVars  == <<chain, catchall_target, forgotten>>
collectorVars == <<collector, bound, ev_restart>>
boundVars  == <<assigns, crashes, faults, restarts>>
vars == <<serverVars, workerVars, services, dockerVars, catchVars, collectorVars, boundVars>>

Entries == Records \cup {None}
Containers == Boxes \cup {None}

\* `services` is None when the manager applies its stored configuration.
Configs == [services : Assignments \cup {None}, subnet : Subnets, reset : BOOLEAN]

WorkerStates == {"idle", "network", "destroy", "apply", "start", "remove", "dead"}

TypeOK ==
    /\ assigned \in Assignments /\ service_network \in Subnets /\ network_changed \in BOOLEAN
    /\ config \in Configs /\ worker \in WorkerStates
    /\ pending \subseteq Services /\ current \in Services \cup {None}
    /\ services \in [Services -> Entries]
    /\ containers \in [Services -> Containers]
    /\ images \subseteq Services \X Revisions
    /\ network \in Subnets \cup {None}
    /\ chain \subseteq IPs /\ forgotten \subseteq IPs
    /\ catchall_target \in Services \cup {None}
    /\ collector \in {"off", "ready", "listening", "dead"}
    /\ bound \in Subnets \cup {None} /\ ev_restart \in BOOLEAN
    /\ assigns \in 0..MaxAssigns /\ crashes \in 0..MaxCrashes
    /\ faults \in 0..MaxFaults /\ restarts \in 0..MaxRestarts

Nothing == [s \in Services |-> None]

\* A sensor is installed: its configuration archive names a subnet, and no
\* container exists yet.  The manager is about to apply that configuration.
Init ==
    /\ assigned = Nothing
    /\ service_network \in Subnets /\ network_changed = FALSE
    /\ config = [services |-> None, subnet |-> service_network, reset |-> TRUE]
    /\ worker = "network" /\ pending = {} /\ current = None
    /\ services = Nothing /\ containers = Nothing /\ images = {} /\ network = None
    /\ chain = {} /\ catchall_target = None /\ forgotten = {}
    /\ collector = "off" /\ bound = None /\ ev_restart = FALSE
    /\ assigns = 0 /\ crashes = 0 /\ faults = 0 /\ restarts = 0

-----------------------------------------------------------------------------
(* The server and the containers *)

\* An administrator assigns, updates and removes services, changes the subnet, or also the
\* sensor's own network settings (d).
Assign(a, n, d) ==
    /\ assigns < MaxAssigns
    /\ <<assigned, service_network>> # <<a, n>>
    /\ network_changed' = (network_changed \/ d)
    /\ assigned' = a
    /\ service_network' = n
    /\ assigns' = assigns + 1
    /\ UNCHANGED <<workerVars, services, dockerVars, catchVars, collectorVars,
                   crashes, faults, restarts>>

Exists(s) == containers[s] # None
Running(s) == Exists(s) /\ containers[s].ip # None

Stopped(cs, S) == [s \in Services |-> IF s \in S /\ cs[s] # None
                                        THEN [cs[s] EXCEPT !.ip = None] ELSE cs[s]]

\* The redirections to containers of S.
RulesOf(S) == {containers[t].ip : t \in {x \in S : Running(x)}} \cap chain

\* A service exits by itself: its address is lost, its rule stays.
Crash(s) ==
    /\ crashes < MaxCrashes
    /\ Running(s)
    /\ containers' = Stopped(containers, {s})
    /\ crashes' = crashes + 1
    /\ forgotten' = forgotten \cup RulesOf({s})
    /\ UNCHANGED <<serverVars, workerVars, services, images, network, chain, catchall_target,
                   collectorVars, assigns, faults, restarts>>

-----------------------------------------------------------------------------
(* StateWorker.run() and apply_config() *)

\* Mutant: the target is forgotten, the rule stays.
DisableCatchallForgets(S, D) == catchall_target' = None /\ UNCHANGED <<chain, forgotten>>

\* disable_catchall_for() each of S: only the address the container has now is known.  The
\* containers of D go in the same step, under another service's name.
DisableCatchall(S, D) ==
    LET dropped == RulesOf({catchall_target} \cap S) IN
    /\ chain' = chain \ dropped
    /\ catchall_target' = IF catchall_target \in S THEN None ELSE catchall_target
    /\ forgotten' = (forgotten \cup RulesOf(D)) \ dropped

\* A poll has delivered a configuration.  When the network has changed, stop_all()
\* stops the services and enable_docker() restarts docker.
TakeConfig ==
    /\ worker = "idle"
    /\ config' = [services |-> assigned, subnet |-> service_network, reset |-> network_changed]
    /\ network_changed' = FALSE
    /\ worker' = "network"
    /\ IF network_changed
         THEN /\ containers' = Stopped(containers, Services)
              /\ DisableCatchall({s \in Services : Running(s) /\ services[s] # None
                                                     /\ services[s].container # None}, {})
         ELSE UNCHANGED <<containers, catchVars>>
    /\ UNCHANGED <<assigned, service_network, pending, current, services, images, network,
                   collectorVars, boundVars>>

\* The containers destroy() takes for the ones of s: a substring match.
Matching(s) == {t \in Services : <<s, t>> \in NameIn /\ Exists(t)}

\* References of the registry after the containers in D are gone; the one of s
\* is reset.
Released(s, D) ==
    [t \in Services |->
        CASE t = s /\ D # {} /\ services[t] # None
               -> [services[t] EXCEPT !.container = None]
          [] t # s /\ t \in D /\ services[t] # None /\ services[t].container # None
               -> [services[t] EXCEPT !.container.live = FALSE]
          [] OTHER -> services[t]]

Removed(D) == [t \in Services |-> IF t \in D THEN None ELSE containers[t]]

ImagesOf(D) == {<<t, containers[t].rev>> : t \in D}

\* The containers in D, at least one, go with their images.
Vanish(s, D) ==
    /\ containers' = Removed(D)
    /\ images' = images \ ImagesOf(D)
    /\ DisableCatchall({s}, D \ {s})
    /\ UNCHANGED <<network, faults>>

\* destroy(s): every container that matches is stopped and removed with its image.
Destroy(s) ==
    /\ services' = Released(s, Matching(s))
    /\ IF Matching(s) = {} THEN UNCHANGED <<dockerVars, catchVars, faults>>
                            ELSE Vanish(s, Matching(s))

\* The reference to the container of t, if there is one, after that has gone.
Stale(entries, t) == IF entries[t] = None \/ entries[t].container = None THEN entries
                     ELSE [entries EXCEPT ![t].container.live = FALSE]

\* destroy(s) fails at one container, when others are done: docker cannot remove it because
\* it still runs, or cannot remove its image.  Then its reference survives, unless it is the
\* one of s, which goes with the first container that is done.
DestroyFails(s) ==
    /\ faults < MaxFaults
    /\ faults' = faults + 1
    /\ \E t \in Matching(s) : \E done \in SUBSET (Matching(s) \ {t}) :
         /\ images' = images \ ImagesOf(done)
         /\ \/ /\ Running(t)
               /\ containers' = Removed(done)
               /\ services' = Released(s, done)
               /\ DisableCatchall({s}, done \ {s})
            \/ /\ containers' = Removed(done \cup {t})
               /\ services' = Stale(Released(s, done), t)
               /\ DisableCatchall({s}, (done \cup {t}) \ {s})
    /\ UNCHANGED network

-----------------------------------------------------------------------------
(* setup_networking() *)

Known == {s \in Services : services[s] # None}

\* The services network is up to date, or an outdated one is about to go.
CheckNetwork ==
    /\ worker = "network"
    /\ network # None
    /\ IF network = config.subnet
         THEN worker' = "apply" /\ UNCHANGED pending
         ELSE worker' = "destroy" /\ pending' = Known
    /\ UNCHANGED <<serverVars, config, current, services, dockerVars, catchVars,
                   collectorVars, boundVars>>

\* destroy_all(), one service: failures are logged and ignored.
DestroyNext(s) ==
    /\ worker = "destroy"
    /\ s \in pending
    /\ pending' = pending \ {s}
    /\ Destroy(s) \/ DestroyFails(s)
    /\ UNCHANGED <<serverVars, config, worker, current, collectorVars, assigns, crashes, restarts>>

\* Docker refuses to remove a network in use, and nothing catches that.
RemoveNetwork ==
    /\ worker = "destroy"
    /\ pending = {}
    /\ IF \E s \in Services : Running(s)
         THEN worker' = "dead" /\ UNCHANGED network
         ELSE worker' = "network" /\ network' = None
    /\ UNCHANGED <<serverVars, config, pending, current, services, containers, images,
                   catchVars, collectorVars, boundVars>>

\* The network is created, and ON_SERVICE_NETWORK_CHANGE makes a listening
\* collector bind again.
CreateNetwork ==
    /\ worker = "network"
    /\ network = None
    /\ network' = config.subnet
    /\ worker' = "apply"
    /\ ev_restart' = (ev_restart \/ collector = "listening")
    /\ UNCHANGED <<serverVars, config, pending, current, services, containers, images,
                   catchVars, collector, bound, boundVars>>

-----------------------------------------------------------------------------
(* applyservices() *)

\* The loop over the assigned services begins.  The stored configuration has no
\* services; with it the manager's start is complete and the collector follows.
ApplyServices ==
    /\ worker = "apply"
    /\ IF config.services = None
         THEN /\ worker' = "idle" /\ UNCHANGED pending
              /\ collector' = "ready"
         ELSE /\ worker' = "start"
              /\ pending' = {s \in Services : config.services[s] # None}
              /\ UNCHANGED collector
    /\ UNCHANGED <<serverVars, config, current, services, dockerVars, catchVars, bound,
                   ev_restart, boundVars>>

\* Mutant: an existing entry keeps its image.
NextServiceKeepsImage(s) ==
    /\ worker = "start"
    /\ current = None
    /\ s \in pending
    /\ current' = s
    /\ pending' = pending \ {s}
    /\ services' = [services EXCEPT ![s] =
                      IF s \in Known /\ services[s].rev # None THEN services[s]
                      ELSE [rev |-> config.services[s],
                            container |-> IF s \in Known THEN services[s].container ELSE None]]
    /\ UNCHANGED <<serverVars, config, worker, dockerVars, catchVars, collectorVars, boundVars>>

\* The entry of the next service is added or updated, and start() is called.
NextService(s) ==
    /\ worker = "start"
    /\ current = None
    /\ s \in pending
    /\ current' = s
    /\ pending' = pending \ {s}
    /\ services' = [services EXCEPT ![s] =
                       [rev |-> config.services[s],
                        container |-> IF s \in Known THEN services[s].container ELSE None]]
    /\ UNCHANGED <<serverVars, config, worker, dockerVars, catchVars, collectorVars, boundVars>>

Entry == services[current]
HasImage == <<current, Entry.container.rev>> \in images

Starting == worker = "start" /\ current # None

startUnchanged == <<serverVars, config, worker, pending, collectorVars, assigns, crashes, restarts>>

\* start(): the known container has another image and is destroyed.  The list of
\* containers was read before, so the search meets it again and raises because
\* its image is gone; only without a container does start() go on.
StartStale ==
    /\ Starting
    /\ Entry.container # None /\ HasImage /\ Entry.container.rev # Entry.rev
    /\ \/ /\ Matching(current) # {}
          /\ Destroy(current) \/ DestroyFails(current)
          /\ current' = None
       \/ /\ Matching(current) = {}
          /\ services' = [services EXCEPT ![current].container = None]
          /\ UNCHANGED <<current, dockerVars, catchVars, faults>>
    /\ UNCHANGED startUnchanged

\* start(): the known container is gone, and so is its image or docker's
\* container: an exception, at this and at every later poll.
StartRaises ==
    /\ Starting
    /\ Entry.container # None
    /\ ~HasImage \/ (Entry.container.rev = Entry.rev /\ ~Entry.container.live)
    /\ current' = None
    /\ UNCHANGED <<services, dockerVars, catchVars, faults, startUnchanged>>

Compatible(t) == t = current /\ containers[t].rev = Entry.rev

\* The reference that is left when a container is found compatible before destroy() is called.
Found == {None} \cup {[rev |-> containers[t].rev, live |-> FALSE] :
                          t \in {u \in Matching(current) : Compatible(u)}}

\* start(): an incompatible container makes destroy() remove every match.  The
\* loop over the old list then raises, or ends with nothing to adopt, or what it has found
\* before, which docker cannot start any more.
StartIncompatible ==
    /\ Starting
    /\ Entry.container = None
    /\ \E t \in Matching(current) : ~Compatible(t)
    /\ \/ \E found \in Found :
            /\ Vanish(current, Matching(current))
            /\ services' = [Released(current, Matching(current)) EXCEPT ![current].container = found]
            /\ current' = IF Cardinality(Matching(current)) = 1 THEN current ELSE None
       \/ DestroyFails(current) /\ current' = None
    /\ UNCHANGED startUnchanged

\* start(): the image is pulled and a container created from it, or one fails.  A
\* container that is there already, with the right image, would be adopted.
StartCreate ==
    /\ Starting
    /\ Entry.container = None
    /\ \A t \in Matching(current) : Compatible(t)
    /\ \/ /\ images' = images \cup {<<current, Entry.rev>>}
          /\ containers' = IF Exists(current) THEN containers
                           ELSE [containers EXCEPT ![current] = [rev |-> Entry.rev, ip |-> None]]
          /\ services' = [services EXCEPT ![current].container = [rev |-> Entry.rev, live |-> TRUE]]
          /\ UNCHANGED <<current, faults>>
       \/ /\ ~Exists(current)
          /\ faults < MaxFaults /\ faults' = faults + 1
          /\ current' = None
          /\ UNCHANGED <<images, containers, services>>
    /\ UNCHANGED <<network, catchVars, startUnchanged>>

FreeIPs == {ip \in IPs : \A s \in Services : Running(s) => containers[s].ip # ip}

\* enable_catchall_for(): the rule is there then.  A service that was the target before
\* stays redirected to, but is not known for it.
EnableCatchall(ip) ==
    /\ chain' = chain \cup {ip}
    /\ catchall_target' = current
    /\ forgotten' = (forgotten \cup RulesOf({catchall_target} \ {current, None})) \ {ip}

\* start(): the container is started unless it runs, with an address docker
\* picks, and a catch-all service has the remaining packets redirected to it.
StartLaunch ==
    /\ Starting
    /\ Entry.container # None /\ HasImage
    /\ Entry.container.rev = Entry.rev /\ Entry.container.live
    /\ current' = None
    /\ \/ \E ip \in IF Running(current) THEN {containers[current].ip} ELSE FreeIPs :
            /\ containers' = [containers EXCEPT ![current].ip = ip]
            /\ IF <<current, Entry.rev>> \in CatchAll THEN EnableCatchall(ip) ELSE UNCHANGED catchVars
            /\ UNCHANGED faults
       \/ /\ ~Running(current)
          /\ faults < MaxFaults /\ faults' = faults + 1
          /\ UNCHANGED <<containers, catchVars>>
    /\ UNCHANGED <<services, images, network, startUnchanged>>

\* All assigned services are done: the ones that are not assigned go next.
ServicesStarted ==
    /\ worker = "start" /\ current = None /\ pending = {}
    /\ worker' = "remove"
    /\ pending' = {s \in Known : config.services[s] = None}
    /\ UNCHANGED <<serverVars, config, current, services, dockerVars, catchVars,
                   collectorVars, boundVars>>

\* Mutant: the entry is removed first, whether destroy() succeeds or not.
RemoveServiceAnyway(s) ==
    /\ worker = "remove"
    /\ s \in pending
    /\ pending' = pending \ {s}
    /\ services' = [services EXCEPT ![s] = None]
    /\ \/ /\ containers' = Removed(Matching(s))
          /\ UNCHANGED faults
       \/ /\ faults < MaxFaults /\ faults' = faults + 1
          /\ UNCHANGED containers
    /\ DisableCatchall({s}, {})
    /\ UNCHANGED <<images, network>>
    /\ UNCHANGED <<serverVars, config, worker, current, collectorVars, assigns, crashes, restarts>>

\* A service that is not assigned any more is destroyed and, if that succeeds,
\* forgotten.
RemoveService(s) ==
    /\ worker = "remove"
    /\ s \in pending
    /\ pending' = pending \ {s}
    /\ \/ /\ services' = [Released(s, Matching(s)) EXCEPT ![s] = None]
          /\ IF Matching(s) = {} THEN UNCHANGED <<dockerVars, catchVars, faults>>
                                  ELSE Vanish(s, Matching(s))
       \/ DestroyFails(s)
    /\ UNCHANGED <<serverVars, config, worker, current, collectorVars, assigns, crashes, restarts>>

Finish ==
    /\ worker = "remove" /\ pending = {}
    /\ worker' = "idle"
    /\ UNCHANGED <<serverVars, config, pending, current, services, dockerVars, catchVars,
                   collectorVars, boundVars>>

-----------------------------------------------------------------------------
(* Collector.run() *)

\* The collector looks up the address of the services network and binds to it.
\* Without that interface a ValueError ends the thread.
CollectorBind ==
    /\ collector = "ready"
    /\ collector' = IF network = None THEN "dead" ELSE "listening"
    /\ bound' = network
    /\ UNCHANGED <<serverVars, workerVars, services, dockerVars, catchVars, ev_restart, boundVars>>

\* The collector leaves its inner loop, releases the address and starts over.
CollectorRestart ==
    /\ collector = "listening" /\ ev_restart
    /\ ev_restart' = FALSE
    /\ collector' = "ready" /\ bound' = None
    /\ UNCHANGED <<serverVars, workerVars, services, dockerVars, catchVars, boundVars>>

-----------------------------------------------------------------------------
(* Restarts *)

\* The manager ends at any point and starts again: init_firewall() flushes the
\* chain, enable_docker() restarts docker and registers what it finds there, and
\* the stored configuration is applied.
Restart ==
    /\ restarts < MaxRestarts
    /\ restarts' = restarts + 1
    /\ config' = [services |-> None, subnet |-> config.subnet, reset |-> TRUE]
    /\ worker' = "network" /\ pending' = {} /\ current' = None
    /\ containers' = Stopped(containers, Services)
    /\ services' = [s \in Services |->
                      IF Exists(s) THEN [rev |-> None,
                                         container |-> [rev |-> containers[s].rev, live |-> TRUE]]
                                   ELSE None]
    /\ chain' = {} /\ catchall_target' = None /\ forgotten' = {}
    /\ collector' = "off" /\ bound' = None /\ ev_restart' = FALSE
    /\ UNCHANGED <<serverVars, images, network, assigns, crashes, faults>>

-----------------------------------------------------------------------------
Start == \/ StartStale \/ StartRaises \/ StartIncompatible
         \/ StartCreate \/ StartLaunch

Worker ==
    \/ TakeConfig
    \/ CheckNetwork \/ RemoveNetwork \/ CreateNetwork \/ ApplyServices
    \/ \E s \in Services : DestroyNext(s) \/ NextService(s) \/ RemoveService(s)
    \/ Start \/ ServicesStarted \/ Finish

Environment ==
    \/ \E a \in Choices, n \in Subnets, d \in BOOLEAN : Assign(a, n, d)
    \/ \E s \in Services : Crash(s)

Next == Worker \/ CollectorBind \/ CollectorRestart \/ Environment \/ Restart

Spec == Init /\ [][Next]_vars

\* The threads run, and polls keep delivering the current configuration.
Fairness == WF_vars(Worker) /\ WF_vars(CollectorBind) /\ WF_vars(CollectorRestart)

FairSpec == Spec /\ Fairness

-----------------------------------------------------------------------------
(* Properties *)

\* No container runs behind the manager's back: whatever fails while a service
\* is updated or removed, its container stays in the registry, where later
\* configurations find it.
ManagedContainers == \A s \in Services : Exists(s) => s \in Known

\* Packets are redirected to running catch-all containers only: a rule goes with the
\* container it was made for, whatever fails and whenever the network is exchanged.  Left
\* out are the rules of containers that stopped by themselves, were removed under another
\* service's name, or are not the latest catch-all that was started.
NoStaleRules ==
    \A ip \in chain \ forgotten :
        \E s \in Services : /\ Running(s) /\ containers[s].ip = ip
                            /\ <<s, containers[s].rev>> \in CatchAll

\* The registry refers to a container that is gone, and the assignment still
\* asks for its revision: start() raises at every poll.
Stuck(s) == s \in Known /\ services[s].container # None /\ ~services[s].container.live

AsAssigned(s) == IF assigned[s] = None
                   THEN ~Exists(s)
                   ELSE Running(s) /\ containers[s].rev = assigned[s]

\* Once the assignment is stable and docker works, exactly the assigned services
\* run, with the assigned revision, on the configured network, and the collector
\* listens there: unless a thread has died or a container object is stale.
Converges ==
    <>[](\/ worker = "dead"
         \/ /\ network = service_network
            /\ collector = "dead" \/ (collector = "listening" /\ bound = network)
            /\ \A s \in Services : Stuck(s) \/ AsAssigned(s))
=============================================================================
