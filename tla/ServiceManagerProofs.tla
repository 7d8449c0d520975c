------------------------ MODULE ServiceManagerProofs ------------------------
(***************************************************************************)
(* Proofs about the services of a sensor: the types, that every container  *)
(* has an entry in the registry, and that a redirection  rule goes with    *)
(* its container, for any services, names, networks and bounds.            *)
(***************************************************************************)
EXTENDS ServiceManager, TLAPS

\* start() works on a service of the registry that is to run.
CurrentKnown ==
    current # None => /\ worker = "start" /\ config.services # None
                      /\ current \in Known /\ services[current].rev # None

\* The services still to be visited by the loop over the assigned ones are assigned.
PendingAssigned ==
    worker = "start" => /\ config.services # None
                        /\ \A s \in pending : config.services[s] # None

\* Every container has an entry in the registry, so that destroy_all() and a later
\* configuration find it.  The entry need not refer to it: a destroy() that fails may have
\* forgotten that.
EntryKept == \A s \in Services : Exists(s) => services[s] # None

HasRef(s) == services[s] # None /\ services[s].container # None

\* A container object that is not stale shows the image its container has.
RefTrue ==
    \A s \in Services :
        HasRef(s) /\ services[s].container.live
            => Exists(s) /\ containers[s].rev = services[s].container.rev

\* The rule is the one of the target that disable_catchall_for() compares with, and the
\* manager refers to the container of that, so that stop() finds it.
RulesOfTarget ==
    \A ip \in chain \ forgotten :
        /\ catchall_target \in Services /\ HasRef(catchall_target) /\ Running(catchall_target)
        /\ containers[catchall_target].ip = ip
        /\ <<catchall_target, containers[catchall_target].rev>> \in CatchAll

Position == CurrentKnown /\ PendingAssigned
Registry == EntryKept /\ RefTrue /\ RulesOfTarget

IInv == TypeOK /\ Position /\ Registry

-----------------------------------------------------------------------------
(* What the helpers do *)

\* Stopping containers takes nothing but their addresses.
LEMMA StoppedFacts ==
    ASSUME TypeOK, NEW S
    PROVE  /\ Stopped(containers, S) \in [Services -> Containers]
           /\ \A t \in Services :
                 /\ Exists(t) <=> Stopped(containers, S)[t] # None
                 /\ Exists(t) => Stopped(containers, S)[t].rev = containers[t].rev
                 /\ t \notin S => Stopped(containers, S)[t] = containers[t]
<1> USE ServiceAssumption
<1>1. \A t \in Services : containers[t] # None =>
         /\ [containers[t] EXCEPT !.ip = None] \in Boxes
         /\ [containers[t] EXCEPT !.ip = None].rev = containers[t].rev
  BY DEF TypeOK, Containers, Boxes
<1> QED BY <1>1 DEF Stopped, Exists, TypeOK, Containers

\* Containers that are removed leave a table of the same shape.
LEMMA RemovedFacts ==
    ASSUME TypeOK, NEW D
    PROVE  /\ Removed(D) \in [Services -> Containers]
           /\ \A t \in Services : Removed(D)[t] = IF t \in D THEN None ELSE containers[t]
  BY DEF Removed, TypeOK, Containers

\* destroy(s) resets the reference of s and makes the ones of other containers stale; the
\* entries stay, with the revisions wanted.
LEMMA ReleasedFacts ==
    ASSUME TypeOK, NEW s \in Services, NEW D
    PROVE  /\ Released(s, D) \in [Services -> Entries]
           /\ \A t \in Services :
                 /\ services[t] = None => Released(s, D)[t] = None
                 /\ services[t] # None => /\ Released(s, D)[t] # None
                                          /\ Released(s, D)[t].rev = services[t].rev
                 /\ t # s /\ t \notin D => Released(s, D)[t] = services[t]
                 /\ t # s /\ services[t] # None /\ services[t].container # None
                       => Released(s, D)[t].container # None
                 /\ t \in D /\ Released(s, D)[t] # None
                       => \/ Released(s, D)[t].container = None
                          \/ ~Released(s, D)[t].container.live
                 /\ D = {} => Released(s, D)[t] = services[t]
                 /\ D # {} /\ t = s /\ services[t] # None => Released(s, D)[t].container = None
<1> USE ServiceAssumption
<1>1. \A t \in Services : services[t] # None =>
         /\ [services[t] EXCEPT !.container = None] \in Records
         /\ [services[t] EXCEPT !.container = None].rev = services[t].rev
         /\ [services[t] EXCEPT !.container = None].container = None
  BY DEF TypeOK, Entries, Records
<1>2. \A t \in Services : services[t] # None /\ services[t].container # None =>
         /\ [services[t] EXCEPT !.container.live = FALSE] \in Records
         /\ [services[t] EXCEPT !.container.live = FALSE].rev = services[t].rev
         /\ [services[t] EXCEPT !.container.live = FALSE].container \in References
         /\ [services[t] EXCEPT !.container.live = FALSE].container.live = FALSE
  BY DEF TypeOK, Entries, Records, References
<1>3. None \notin Records /\ None \notin References
  OBVIOUS
<1>4. services \in [Services -> Records \cup {None}]
  BY DEF TypeOK, Entries
<1>5. \A t \in Services :
         Released(s, D)[t] = CASE t = s /\ D # {} /\ services[t] # None
                                    -> [services[t] EXCEPT !.container = None]
                               [] t # s /\ t \in D /\ services[t] # None
                                        /\ services[t].container # None
                                    -> [services[t] EXCEPT !.container.live = FALSE]
                               [] OTHER -> services[t]
  BY DEF Released
<1>6. Released(s, D) \in [Services -> Entries]
  BY <1>1, <1>2, <1>4 DEF Released, Entries
<1>7. ASSUME NEW t \in Services
      PROVE  /\ services[t] = None => Released(s, D)[t] = None
             /\ services[t] # None => /\ Released(s, D)[t] # None
                                      /\ Released(s, D)[t].rev = services[t].rev
             /\ t # s /\ t \notin D => Released(s, D)[t] = services[t]
             /\ t # s /\ services[t] # None /\ services[t].container # None
                   => Released(s, D)[t].container # None
             /\ t \in D /\ Released(s, D)[t] # None
                   => \/ Released(s, D)[t].container = None
                      \/ ~Released(s, D)[t].container.live
             /\ D = {} => Released(s, D)[t] = services[t]
             /\ D # {} /\ t = s /\ services[t] # None => Released(s, D)[t].container = None
  <2>1. CASE t = s /\ D # {} /\ services[t] # None
    BY <2>1, <1>1, <1>3, <1>5
  <2>2. CASE t # s /\ t \in D /\ services[t] # None /\ services[t].container # None
    <3>1. Released(s, D)[t] = [services[t] EXCEPT !.container.live = FALSE]
      BY <2>2, <1>5
    <3>2. /\ Released(s, D)[t] \in Records /\ Released(s, D)[t].rev = services[t].rev
          /\ Released(s, D)[t].container \in References
          /\ Released(s, D)[t].container.live = FALSE
      BY <2>2, <1>2, <3>1
    <3> QED BY <2>2, <3>2, <1>3
  <2>3. CASE /\ ~(t = s /\ D # {} /\ services[t] # None)
             /\ ~(t # s /\ t \in D /\ services[t] # None /\ services[t].container # None)
    <3>1. Released(s, D)[t] = services[t]
      BY <2>3, <1>5
    <3> QED BY <2>3, <3>1
  <2> QED BY <2>1, <2>2, <2>3
<1> QED BY <1>6, <1>7

\* Whatever happens to the containers of S and D, the rule that is left is still the one
\* of a target that runs.
LEMMA CatchallDisabled ==
    ASSUME TypeOK, RulesOfTarget, NEW S, NEW D, DisableCatchall(S, D),
           \A t \in Services : t \notin S \cup D => containers'[t] = containers[t],
           \A t \in Services : t \notin S /\ HasRef(t) => HasRef(t)'
    PROVE  /\ chain' \subseteq IPs /\ forgotten' \subseteq IPs
           /\ catchall_target' \in Services \cup {None}
           /\ RulesOfTarget'
<1>1. chain' \subseteq IPs /\ forgotten' \subseteq IPs /\ catchall_target' \in Services \cup {None}
  BY DEF TypeOK, DisableCatchall, RulesOf
<1>2. ASSUME NEW ip \in chain', ip \notin forgotten'
      PROVE  /\ catchall_target' \in Services /\ HasRef(catchall_target)'
             /\ Running(catchall_target)'
             /\ containers'[catchall_target'].ip = ip
             /\ <<catchall_target', containers'[catchall_target'].rev>> \in CatchAll
  <2> DEFINE t == catchall_target
  <2>1. ip \in chain /\ ip \notin RulesOf({t} \cap S)
    BY <1>2 DEF DisableCatchall
  <2>2. ip \notin forgotten /\ ip \notin RulesOf(D)
    BY <1>2, <2>1 DEF DisableCatchall
  <2>3. /\ t \in Services /\ HasRef(t) /\ Running(t) /\ containers[t].ip = ip
        /\ <<t, containers[t].rev>> \in CatchAll
    BY <2>1, <2>2 DEF RulesOfTarget
  <2>4. t \notin S
    BY <2>1, <2>3 DEF RulesOf
  <2>5. t \notin D
    BY <2>1, <2>2, <2>3 DEF RulesOf
  <2>6. catchall_target' = t /\ containers'[t] = containers[t]
    BY <2>3, <2>4, <2>5 DEF DisableCatchall
  <2>7. services'[t] # None /\ services'[t].container # None
    BY <2>3, <2>4 DEF HasRef
  <2> QED BY <2>3, <2>6, <2>7 DEF Running, Exists, HasRef
<1> QED BY <1>1, <1>2 DEF RulesOfTarget

\* The registry and the containers do not change.
LEMMA RegistryUnchanged ==
    ASSUME Registry, UNCHANGED <<services, containers, catchVars>>
    PROVE  Registry'
  BY DEF Registry, EntryKept, RefTrue, HasRef, RulesOfTarget, catchVars, Exists, Running
\* What destroy() leaves behind.
Entered == /\ services' \in [Services -> Entries] /\ containers' \in [Services -> Containers]
           /\ images' \subseteq Services \X Revisions
           /\ chain' \subseteq IPs /\ forgotten' \subseteq IPs
           /\ catchall_target' \in Services \cup {None}
           /\ faults' \in 0..MaxFaults /\ network' = network

SameEntries == \A t \in Services : services[t] # None => /\ services'[t] # None
                                                         /\ services'[t].rev = services[t].rev

\* What becomes of the entries when destroy(s) has removed the containers in D: only s may
\* lose its own or its reference, and references to what is gone are stale.
EntriesAfter(s, D) ==
    /\ services' \in [Services -> Entries]
    /\ \A t \in Services : t # s /\ services[t] # None => services'[t] # None
    /\ \A t \in Services : t # s /\ HasRef(t) => HasRef(t)'
    /\ \A t \in Services : HasRef(t)' /\ services'[t].container.live
                            => t \notin D /\ services'[t] = services[t]

\* destroy(s) removes containers and the references to them in step.
LEMMA GoneTogether ==
    ASSUME TypeOK, Registry, NEW s \in Services, NEW D \in SUBSET Services,
           containers' = Removed(D), images' \subseteq images, EntriesAfter(s, D),
           Exists(s) => s \in D \/ services'[s] # None,
           DisableCatchall({s}, D \ {s}) \/ (D = {} /\ UNCHANGED <<services, catchVars>>),
           network' = network, faults' \in 0..MaxFaults
    PROVE  Entered /\ Registry'
<1> USE ServiceAssumption
<1>1. \A t \in Services : containers'[t] = IF t \in D THEN None ELSE containers[t]
  BY RemovedFacts
<1>2. /\ chain' \subseteq IPs /\ forgotten' \subseteq IPs
      /\ catchall_target' \in Services \cup {None}
      /\ RulesOfTarget'
  <2>1. CASE D = {} /\ UNCHANGED <<services, catchVars>>
    <3>1. UNCHANGED <<services, catchVars>> /\ \A t \in Services : containers'[t] = containers[t]
      BY <2>1, <1>1
    <3> QED BY <3>1 DEF Registry, RulesOfTarget, catchVars, Running, Exists, HasRef, TypeOK
  <2>2. CASE DisableCatchall({s}, D \ {s})
    <3>1. \A t \in Services : t \notin {s} \cup (D \ {s}) => containers'[t] = containers[t]
      BY <1>1
    <3>2. \A t \in Services : t \notin {s} /\ HasRef(t) => HasRef(t)'
      BY DEF EntriesAfter
    <3> QED BY <2>2, <3>1, <3>2, CatchallDisabled DEF Registry
  <2> QED BY <2>1, <2>2
<1>3. Entered
  BY <1>2, RemovedFacts DEF Entered, EntriesAfter, TypeOK
<1>4. EntryKept'
  <2> SUFFICES ASSUME NEW t \in Services, containers'[t] # None
               PROVE  services'[t] # None
    BY DEF EntryKept, Exists
  <2>1. t \notin D /\ Exists(t)
    BY <1>1 DEF Exists
  <2>2. services[t] # None
    BY <2>1 DEF Registry, EntryKept
  <2> QED BY <2>1, <2>2 DEF EntriesAfter
<1>5. RefTrue'
  <2> SUFFICES ASSUME NEW t \in Services, HasRef(t)', services'[t].container.live
               PROVE  containers'[t] # None /\ containers'[t].rev = services'[t].container.rev
    BY DEF RefTrue, Exists
  <2>1. t \notin D /\ services'[t] = services[t] /\ HasRef(t)
    BY DEF EntriesAfter, HasRef
  <2>2. containers'[t] = containers[t]
    BY <2>1, <1>1
  <2> QED BY <2>1, <2>2 DEF Registry, RefTrue, HasRef, Exists
<1> QED BY <1>2, <1>3, <1>4, <1>5 DEF Registry

\* The references that are released are the ones to what has gone.
LEMMA ReleasedEntries ==
    ASSUME TypeOK, NEW s \in Services, NEW D, services' = Released(s, D)
    PROVE  EntriesAfter(s, D) /\ SameEntries
  BY ReleasedFacts DEF EntriesAfter, SameEntries, HasRef

\* destroy() that succeeds.
LEMMA DestroyKeeps ==
    ASSUME TypeOK, Registry, NEW s \in Services, Destroy(s)
    PROVE  Entered /\ SameEntries /\ Registry'
<1>1. Matching(s) \in SUBSET Services /\ (Exists(s) => s \in Matching(s))
  BY ServiceAssumption DEF Matching
<1>2. EntriesAfter(s, Matching(s)) /\ SameEntries
  BY ReleasedEntries DEF Destroy
<1>3. CASE Matching(s) = {}
  <2>1. services' = services
    BY <1>3, ReleasedFacts DEF Destroy, TypeOK, Released
  <2>2. Registry'
    BY <1>3, <2>1, RegistryUnchanged DEF Destroy, dockerVars
  <2> QED BY <1>2, <1>3, <2>1, <2>2 DEF Destroy, Entered, TypeOK, dockerVars, catchVars
<1>4. CASE Matching(s) # {}
  BY <1>1, <1>2, <1>4, GoneTogether DEF Destroy, Vanish, TypeOK
<1> QED BY <1>2, <1>3, <1>4

\* The reference to a container that has gone becomes stale, and no other.
LEMMA StaleFacts ==
    ASSUME NEW entries \in [Services -> Entries], NEW t \in Services
    PROVE  /\ Stale(entries, t) \in [Services -> Entries]
           /\ \A u \in Services :
                 /\ u # t => Stale(entries, t)[u] = entries[u]
                 /\ entries[u] # None => /\ Stale(entries, t)[u] # None
                                         /\ Stale(entries, t)[u].rev = entries[u].rev
                 /\ Stale(entries, t)[u] # None => entries[u] # None
                 /\ entries[u] # None => (entries[u].container # None
                                            <=> Stale(entries, t)[u].container # None)
           /\ Stale(entries, t)[t] # None /\ Stale(entries, t)[t].container # None
                 => ~Stale(entries, t)[t].container.live
<1> USE ServiceAssumption
<1>1. CASE entries[t] = None \/ entries[t].container = None
  BY <1>1 DEF Stale
<1>2. CASE ~(entries[t] = None \/ entries[t].container = None)
  <2>1. Stale(entries, t) = [entries EXCEPT ![t].container.live = FALSE]
    BY <1>2 DEF Stale
  <2>2. entries[t] \in Records /\ entries[t].container \in References
    BY <1>2 DEF Entries, Records
  <2> DEFINE e == [entries[t] EXCEPT !.container.live = FALSE]
  <2>3. /\ e \in Records /\ e.rev = entries[t].rev
        /\ e.container \in References /\ e.container.live = FALSE
    BY <2>2 DEF Records, References
  <2>4. Stale(entries, t) = [entries EXCEPT ![t] = e]
    BY <2>1
  <2> HIDE DEF e
  <2>5. Stale(entries, t)[t] = e
    BY <2>4
  <2>6. /\ Stale(entries, t) \in [Services -> Entries]
        /\ \A u \in Services : u # t => Stale(entries, t)[u] = entries[u]
        /\ Stale(entries, t)[t] \in Records /\ Stale(entries, t)[t].rev = entries[t].rev
        /\ Stale(entries, t)[t].container \in References
        /\ Stale(entries, t)[t].container.live = FALSE
    BY <2>3, <2>4, <2>5 DEF Entries
  <2>7. Stale(entries, t)[t] # None /\ Stale(entries, t)[t].container # None
    BY <2>6
  <2> HIDE DEF Stale
  <2> QED BY <1>2, <2>6, <2>7
<1> QED BY <1>1, <1>2

\* destroy() that fails: what was done before is gone, and a container that could not be
\* removed keeps its entry; the reference to one whose image is still there is stale.
LEMMA DestroyFailsKeeps ==
    ASSUME TypeOK, Registry, NEW s \in Services, DestroyFails(s)
    PROVE  Entered /\ SameEntries /\ Registry'
<1> USE ServiceAssumption
<1>1. faults' \in 0..MaxFaults /\ network' = network
  BY DEF DestroyFails, TypeOK
<1>2. PICK t \in Matching(s) : \E done \in SUBSET (Matching(s) \ {t}) :
         /\ images' = images \ ImagesOf(done)
         /\ \/ /\ containers' = Removed(done)
               /\ services' = Released(s, done)
               /\ DisableCatchall({s}, done \ {s})
            \/ /\ containers' = Removed(done \cup {t})
               /\ services' = Stale(Released(s, done), t)
               /\ DisableCatchall({s}, (done \cup {t}) \ {s})
  BY DEF DestroyFails
<1>3. PICK done \in SUBSET (Matching(s) \ {t}) :
         /\ images' = images \ ImagesOf(done)
         /\ \/ /\ containers' = Removed(done)
               /\ services' = Released(s, done)
               /\ DisableCatchall({s}, done \ {s})
            \/ /\ containers' = Removed(done \cup {t})
               /\ services' = Stale(Released(s, done), t)
               /\ DisableCatchall({s}, (done \cup {t}) \ {s})
  BY <1>2
<1>4. t \in Services /\ done \in SUBSET Services /\ images' \subseteq images
  BY <1>3 DEF Matching
<1>5. CASE /\ containers' = Removed(done)
           /\ services' = Released(s, done)
           /\ DisableCatchall({s}, done \ {s})
  <2>1. EntriesAfter(s, done) /\ SameEntries
    BY <1>5, ReleasedEntries
  <2>2. Exists(s) => services'[s] # None
    BY <2>1 DEF SameEntries, Registry, EntryKept
  <2> QED BY <1>1, <1>4, <1>5, <2>1, <2>2, GoneTogether
<1>6. CASE /\ containers' = Removed(done \cup {t})
           /\ services' = Stale(Released(s, done), t)
           /\ DisableCatchall({s}, (done \cup {t}) \ {s})
  <2> DEFINE entries == Released(s, done)
             D == done \cup {t}
  <2>1. entries \in [Services -> Entries]
    BY ReleasedFacts
  <2>2. \A u \in Services :
            /\ services[u] # None => entries[u] # None /\ entries[u].rev = services[u].rev
            /\ u # s /\ HasRef(u) => entries[u].container # None
            /\ entries[u] # None /\ entries[u].container # None /\ entries[u].container.live
                  => u \notin done /\ entries[u] = services[u]
    BY ReleasedEntries, ReleasedFacts DEF HasRef
  <2> HIDE DEF entries
  <2>3. services' = Stale(entries, t)
    BY <1>6 DEF entries
  <2>4. SameEntries
    BY <1>4, <2>1, <2>2, <2>3, StaleFacts DEF SameEntries
  <2>5. EntriesAfter(s, D)
    BY <1>4, <2>1, <2>2, <2>3, StaleFacts DEF EntriesAfter, HasRef
  <2>6. Exists(s) => services'[s] # None
    BY <2>4 DEF SameEntries, Registry, EntryKept
  <2>7. D \in SUBSET Services
    BY <1>4
  <2> HIDE DEF D
  <2>8. containers' = Removed(D) /\ DisableCatchall({s}, D \ {s})
    BY <1>6 DEF D
  <2> QED BY <1>1, <1>4, <2>4, <2>5, <2>6, <2>7, <2>8, GoneTogether
<1> QED BY <1>3, <1>5, <1>6

-----------------------------------------------------------------------------
(* The steps *)

\* The first states: nothing is there yet.
LEMMA Begin == Init => IInv
<1> USE ServiceAssumption
<1> SUFFICES ASSUME Init PROVE IInv
  OBVIOUS
<1>1. TypeOK
  <2>1. Nothing \in Assignments /\ Nothing \in [Services -> Entries \cap Containers]
    BY DEF Nothing, Assignments, Entries, Containers
  <2>2. config \in Configs
    BY DEF Init, Configs
  <2>3. services \in [Services -> Entries] /\ containers \in [Services -> Containers]
    BY <2>1 DEF Init
  <2>4. /\ 0 \in 0..MaxAssigns /\ 0 \in 0..MaxCrashes
        /\ 0 \in 0..MaxFaults /\ 0 \in 0..MaxRestarts
    OBVIOUS
  <2> QED BY <2>1, <2>2, <2>3, <2>4 DEF Init, TypeOK, WorkerStates
<1>2. Position /\ Registry
  BY DEF Init, Nothing, Position, CurrentKnown, PendingAssigned, Registry, EntryKept, RefTrue, HasRef,
         RulesOfTarget, Exists, Running
<1> QED BY <1>1, <1>2 DEF IInv

\* Steps of others, or of the StateWorker between two services.
LEMMA Others ==
    ASSUME IInv,
           \/ \E a \in Choices, n \in Subnets, d \in BOOLEAN : Assign(a, n, d)
           \/ CheckNetwork \/ RemoveNetwork \/ CreateNetwork \/ ServicesStarted \/ Finish
           \/ CollectorBind \/ CollectorRestart \/ ApplyServices \/ UNCHANGED vars
    PROVE  IInv'
<1> USE ServiceAssumption DEF IInv
<1>1. UNCHANGED <<services, containers, catchVars>>
  BY DEF Assign, CheckNetwork, RemoveNetwork, CreateNetwork, ServicesStarted, Finish,
         CollectorBind, CollectorRestart, ApplyServices, vars, dockerVars, collectorVars
<1>2. Registry'
  BY <1>1, RegistryUnchanged
<1>3. ASSUME NEW a \in Choices, NEW n \in Subnets, NEW d \in BOOLEAN, Assign(a, n, d)
      PROVE  TypeOK' /\ Position'
  <2>1. assigned' \in Assignments /\ assigns' \in 0..MaxAssigns
    BY <1>3 DEF Assign, TypeOK, Assignments
  <2> QED BY <1>3, <2>1 DEF Assign, TypeOK, Position, CurrentKnown, PendingAssigned, Known,
             workerVars, dockerVars, catchVars, collectorVars
<1>4. CASE CheckNetwork
  BY <1>1, <1>2, <1>4 DEF CheckNetwork, TypeOK, WorkerStates, Position, CurrentKnown,
     PendingAssigned, Known, serverVars, dockerVars, catchVars, collectorVars, boundVars
<1>5. CASE RemoveNetwork
  BY <1>1, <1>2, <1>5 DEF RemoveNetwork, TypeOK, WorkerStates, Position, CurrentKnown,
     PendingAssigned, Known, serverVars, dockerVars, catchVars, collectorVars, boundVars
<1>6. CASE CreateNetwork
  BY <1>1, <1>2, <1>6 DEF CreateNetwork, TypeOK, Configs, WorkerStates, Position, CurrentKnown,
     PendingAssigned, Known, serverVars, dockerVars, catchVars, collectorVars, boundVars
<1>7. CASE ServicesStarted
  BY <1>1, <1>2, <1>7 DEF ServicesStarted, TypeOK, WorkerStates, Position, CurrentKnown,
     PendingAssigned, Known, serverVars, dockerVars, catchVars, collectorVars, boundVars
<1>8. CASE Finish
  BY <1>1, <1>2, <1>8 DEF Finish, TypeOK, WorkerStates, Position, CurrentKnown,
     PendingAssigned, Known, serverVars, dockerVars, catchVars, collectorVars, boundVars
<1>9. CASE CollectorBind
  BY <1>1, <1>2, <1>9 DEF CollectorBind, TypeOK, Position, CurrentKnown, PendingAssigned, Known,
     serverVars, workerVars, dockerVars, catchVars, boundVars
<1>10. CASE CollectorRestart
  BY <1>1, <1>2, <1>10 DEF CollectorRestart, TypeOK, Position, CurrentKnown, PendingAssigned,
     Known, serverVars, workerVars, dockerVars, catchVars, boundVars
<1>11. CASE ApplyServices
  BY <1>1, <1>2, <1>11 DEF ApplyServices, TypeOK, WorkerStates, Position, CurrentKnown,
     PendingAssigned, Known, serverVars, dockerVars, catchVars, boundVars
<1>12. CASE UNCHANGED vars
  BY <1>1, <1>2, <1>12 DEF vars, TypeOK, Position, CurrentKnown, PendingAssigned, Known,
     serverVars, workerVars, dockerVars, catchVars, collectorVars, boundVars
<1> QED BY <1>2, <1>3, <1>4, <1>5, <1>6, <1>7, <1>8, <1>9, <1>10, <1>11, <1>12

\* A container that stops: its rule is forgotten if it had one.
LEMMA CrashKeeps == ASSUME IInv, NEW s \in Services, Crash(s) PROVE IInv'
<1> USE ServiceAssumption DEF IInv
<1>1. /\ containers' \in [Services -> Containers]
      /\ \A t \in Services : /\ Exists(t) <=> containers'[t] # None
                             /\ Exists(t) => containers'[t].rev = containers[t].rev
                             /\ t # s => containers'[t] = containers[t]
  BY StoppedFacts DEF Crash
<1>2. forgotten' \subseteq IPs /\ crashes' \in 0..MaxCrashes
  BY DEF Crash, RulesOf, TypeOK
<1>3. EntryKept' /\ RefTrue'
  BY <1>1 DEF Crash, Registry, EntryKept, RefTrue, HasRef, Exists
<1>4. RulesOfTarget'
  <2> SUFFICES ASSUME NEW ip \in chain, ip \notin forgotten'
               PROVE  /\ catchall_target \in Services /\ Running(catchall_target)'
                      /\ containers'[catchall_target].ip = ip
                      /\ <<catchall_target, containers'[catchall_target].rev>> \in CatchAll
    BY DEF Registry, RulesOfTarget, HasRef, Crash
  <2>1. /\ catchall_target \in Services /\ Running(catchall_target)
        /\ containers[catchall_target].ip = ip
        /\ <<catchall_target, containers[catchall_target].rev>> \in CatchAll
    BY DEF Registry, RulesOfTarget, Crash
  <2>2. catchall_target # s
    BY <2>1 DEF Crash, RulesOf
  <2> QED BY <1>1, <2>1, <2>2 DEF Running, Exists, Crash
<1>5. TypeOK'
  BY <1>1, <1>2 DEF Crash, TypeOK, serverVars, workerVars, collectorVars
<1> QED BY <1>3, <1>4, <1>5 DEF Registry, Crash, Position, CurrentKnown, PendingAssigned, Known,
           workerVars

\* A configuration arrives: when the network has changed, all known containers are stopped,
\* and a rule of the target goes.
LEMMA TakeConfigKeeps == ASSUME IInv, TakeConfig PROVE IInv'
<1> USE ServiceAssumption DEF IInv
<1> DEFINE S == {s \in Services : Running(s) /\ services[s] # None /\ services[s].container # None}
<1>1. config' \in Configs /\ network_changed' \in BOOLEAN /\ worker' \in WorkerStates
  BY DEF TakeConfig, TypeOK, Configs, WorkerStates
<1>2. Position'
  BY DEF TakeConfig, Position, CurrentKnown, PendingAssigned
<1>3. /\ containers' \in [Services -> Containers]
      /\ chain' \subseteq IPs /\ forgotten' \subseteq IPs
      /\ catchall_target' \in Services \cup {None} /\ Registry'
  <2>1. CASE network_changed
    <3>1. containers' = Stopped(containers, Services) /\ DisableCatchall(S, {})
      BY <2>1 DEF TakeConfig
    <3>2. services' = services
      BY DEF TakeConfig
    <3>3. EntryKept' /\ RefTrue'
      BY <3>1, <3>2, StoppedFacts DEF Registry, EntryKept, RefTrue, HasRef, Exists
    <3>4. /\ chain' \subseteq IPs /\ forgotten' \subseteq IPs
          /\ catchall_target' \in Services \cup {None}
      BY <3>1 DEF DisableCatchall, RulesOf, TypeOK
    <3>5. ASSUME NEW ip \in chain', ip \notin forgotten' PROVE FALSE
      <4>1. ip \in chain \ forgotten /\ ip \notin RulesOf({catchall_target} \cap S)
        BY <3>1, <3>5 DEF DisableCatchall
      <4>2. /\ catchall_target \in Services /\ Running(catchall_target)
            /\ containers[catchall_target].ip = ip
        BY <4>1 DEF Registry, RulesOfTarget
      <4>3. catchall_target \in S
        BY <4>1, <4>2 DEF Registry, RulesOfTarget, HasRef
      <4> QED BY <4>1, <4>2, <4>3 DEF RulesOf
    <3>6. RulesOfTarget'
      BY <3>5 DEF RulesOfTarget
    <3> QED BY <3>1, <3>3, <3>4, <3>6, StoppedFacts DEF Registry
  <2>2. CASE ~network_changed
    <3>1. UNCHANGED <<services, containers, catchVars>>
      BY <2>2 DEF TakeConfig
    <3> QED BY <3>1, RegistryUnchanged DEF TypeOK, catchVars
  <2> QED BY <2>1, <2>2 DEF TypeOK
<1>4. TypeOK'
  BY <1>1, <1>3 DEF TakeConfig, TypeOK, collectorVars, boundVars
<1> QED BY <1>2, <1>3, <1>4

\* destroy_all(), one service.
LEMMA DestroyNextKeeps == ASSUME IInv, NEW s \in Services, DestroyNext(s) PROVE IInv'
<1> USE ServiceAssumption DEF IInv
<1>1. Entered /\ SameEntries /\ Registry'
  BY DestroyKeeps, DestroyFailsKeeps DEF DestroyNext
<1>2. TypeOK'
  BY <1>1 DEF DestroyNext, Entered, TypeOK, serverVars, collectorVars
<1>3. Position'
  BY DEF DestroyNext, Position, CurrentKnown, PendingAssigned
<1> QED BY <1>1, <1>2, <1>3

\* An entry is added or gets a new revision: the container stays with it.
LEMMA NextServiceKeeps == ASSUME IInv, NEW s \in Services, NextService(s) PROVE IInv'
<1> USE ServiceAssumption DEF IInv
<1> DEFINE e == [rev |-> config.services[s],
                 container |-> IF s \in Known THEN services[s].container ELSE None]
<1>1. /\ worker = "start" /\ s \in pending /\ pending' = pending \ {s} /\ current' = s
      /\ services' = [services EXCEPT ![s] = e]
      /\ UNCHANGED <<serverVars, config, worker, dockerVars, catchVars, collectorVars, boundVars>>
  BY DEF NextService
<1>2. config.services # None /\ config.services[s] # None
  BY <1>1 DEF Position, PendingAssigned
<1>3. config.services \in Assignments
  BY <1>2 DEF TypeOK, Configs
<1>4. services[s] # None => services[s] \in Records
  BY DEF TypeOK, Entries
<1>5. e \in Records /\ e # None
  <2>1. e \in Records
    BY <1>3, <1>4 DEF Assignments, Records, Known
  <2> QED BY <2>1
<1>6. /\ services' \in [Services -> Entries] /\ services'[s] = e
      /\ \A t \in Services : t # s => services'[t] = services[t]
  BY <1>1, <1>5 DEF TypeOK, Entries
<1>7. TypeOK'
  BY <1>1, <1>6 DEF TypeOK, serverVars, dockerVars, catchVars, collectorVars, boundVars
<1>8. Position'
  <2>1. e.rev # None
    BY <1>2
  <2> QED BY <1>1, <1>2, <1>5, <1>6, <2>1 DEF Position, CurrentKnown, PendingAssigned, Known
<1>9. Registry'
  <2>1. EntryKept'
    BY <1>1, <1>5, <1>6 DEF Registry, EntryKept, Exists, Known, dockerVars
  <2>2. RefTrue'
    <3>1. e.container # None => services[s] # None /\ e.container = services[s].container
      BY DEF Known
    <3> HIDE DEF e
    <3> QED BY <1>1, <1>5, <1>6, <3>1 DEF Registry, RefTrue, HasRef, Exists, dockerVars
  <2>3. RulesOfTarget'
    <3>1. \A t \in Services : HasRef(t) => HasRef(t)'
      BY <1>1, <1>5, <1>6 DEF HasRef, Known
    <3> HIDE DEF e
    <3> QED BY <1>1, <3>1 DEF Registry, RulesOfTarget, Exists, Running, dockerVars, catchVars
  <2> QED BY <2>1, <2>2, <2>3 DEF Registry
<1> QED BY <1>7, <1>8, <1>9

\* start() ends, or goes on, with the entries and the containers as destroy() left them.
LEMMA DestroyedAtStart ==
    ASSUME IInv, Starting, Entered, SameEntries, Registry', current' \in {current, None},
           UNCHANGED startUnchanged
    PROVE  IInv'
<1> USE ServiceAssumption DEF IInv
<1>1. TypeOK'
  BY DEF startUnchanged, Entered, TypeOK, serverVars, collectorVars
<1>2. Position'
  <2>1. \A t \in Known : t \in Known' /\ services'[t].rev = services[t].rev
    BY DEF SameEntries, Known
  <2> QED BY <2>1 DEF Position, CurrentKnown, PendingAssigned, startUnchanged
<1> QED BY <1>1, <1>2

\* The steps of start() that destroy, raise, or drop a reference without a container.
LEMMA StartDestroyKeeps == ASSUME IInv, StartStale \/ StartRaises \/ StartIncompatible PROVE IInv'
<1> USE ServiceAssumption DEF IInv
<1>1. current \in Services /\ Starting /\ services[current] # None /\ UNCHANGED startUnchanged
  BY DEF StartStale, StartRaises, StartIncompatible, Starting, Position, CurrentKnown, Known
<1>2. current' \in {current, None}
  BY DEF StartStale, StartRaises, StartIncompatible
<1>3. CASE Destroy(current) \/ DestroyFails(current)
  BY <1>1, <1>2, <1>3, DestroyKeeps, DestroyFailsKeeps, DestroyedAtStart
<1>4. CASE /\ StartIncompatible
           /\ \E found \in Found :
                /\ Vanish(current, Matching(current))
                /\ services' = [Released(current, Matching(current)) EXCEPT ![current].container = found]
  <2> DEFINE D == Matching(current)
             entries == Released(current, D)
  <2>1. PICK found \in Found :
             Vanish(current, D) /\ services' = [entries EXCEPT ![current].container = found]
    BY <1>4
  <2>2. found = None \/ (found \in References /\ ~found.live)
    <3> SUFFICES ASSUME NEW t \in Matching(current), found = [rev |-> containers[t].rev, live |-> FALSE]
                 PROVE  found \in References /\ ~found.live
      BY DEF Found
    <3> QED BY DEF Matching, Exists, TypeOK, Containers, Boxes, References
  <2>3. /\ D \in SUBSET Services /\ D # {} /\ (Exists(current) => current \in D)
    BY <1>1, <1>4 DEF Matching, StartIncompatible
  <2> HIDE DEF D
  <2>4. /\ entries \in [Services -> Entries] /\ entries[current] # None
        /\ entries[current].rev = services[current].rev
        /\ \A t \in Services : services[t] # None => /\ entries[t] # None
                                                     /\ entries[t].rev = services[t].rev
        /\ \A t \in Services : t # current /\ HasRef(t) => entries[t] # None /\ entries[t].container # None
        /\ \A t \in Services : t # current /\ entries[t] # None /\ entries[t].container # None
                                /\ entries[t].container.live => t \notin D /\ entries[t] = services[t]
    BY <1>1, ReleasedFacts DEF HasRef
  <2> HIDE DEF entries
  <2>5. entries[current] \in Records
    BY <1>1, <2>4 DEF Entries
  <2>6. /\ services' \in [Services -> Entries]
        /\ \A t \in Services : t # current => services'[t] = entries[t]
        /\ services'[current] \in Records /\ services'[current].rev = services[current].rev
        /\ services'[current].container = found
    BY <1>1, <2>1, <2>2, <2>4, <2>5 DEF Entries, Records
  <2>7. services'[current] # None
    BY <2>6
  <2>8. EntriesAfter(current, D)
    BY <2>2, <2>4, <2>6, <2>7 DEF EntriesAfter, HasRef
  <2>9. SameEntries
    BY <2>4, <2>6, <2>7 DEF SameEntries
  <2>10. Entered /\ Registry'
    BY <1>1, <2>1, <2>3, <2>8, GoneTogether DEF Vanish, TypeOK
  <2> QED BY <1>1, <1>2, <2>9, <2>10, DestroyedAtStart
<1>5. CASE UNCHANGED <<services, dockerVars, catchVars, faults>>
  <2>1. Registry'
    BY <1>5, RegistryUnchanged DEF dockerVars
  <2> QED BY <1>1, <1>2, <1>5, <2>1, DestroyedAtStart DEF Entered, SameEntries, TypeOK,
             dockerVars, catchVars
<1>6. CASE /\ StartStale /\ Matching(current) = {}
           /\ services' = [services EXCEPT ![current].container = None]
           /\ UNCHANGED <<current, dockerVars, catchVars, faults>>
  <2>1. services[current] \in Records
    BY <1>1 DEF TypeOK, Entries
  <2>2. /\ services' \in [Services -> Entries]
        /\ \A t \in Services : t # current => services'[t] = services[t]
        /\ services'[current] \in Records /\ services'[current].rev = services[current].rev
        /\ services'[current].container = None
    BY <1>1, <1>6, <2>1 DEF TypeOK, Entries, Records
  <2>3. services'[current] # None
    BY <2>2
  <2>4. ~Exists(current)
    BY <1>1, <1>6 DEF Matching
  <2>5. Registry'
    BY <1>6, <2>2, <2>3, <2>4 DEF Registry, EntryKept, RefTrue, HasRef, RulesOfTarget, Exists, Running,
       dockerVars, catchVars
  <2>6. Entered /\ SameEntries
    BY <1>6, <2>2, <2>3 DEF Entered, SameEntries, TypeOK, dockerVars, catchVars
  <2> QED BY <1>1, <1>2, <2>5, <2>6, DestroyedAtStart
<1> QED BY <1>3, <1>5, <1>6, <1>4 DEF StartStale, StartRaises, StartIncompatible

\* A container is created, or met, and becomes the one of the entry.
LEMMA StartCreateKeeps == ASSUME IInv, StartCreate PROVE IInv'
<1> USE ServiceAssumption DEF IInv
<1>1. /\ current \in Services /\ services[current] # None /\ services[current].rev # None
      /\ worker = "start" /\ UNCHANGED startUnchanged /\ network' = network
      /\ UNCHANGED catchVars /\ Starting
  BY DEF StartCreate, Starting, Position, CurrentKnown, Known
<1>2. services[current] \in Records /\ services[current].rev \in Revisions
  BY <1>1 DEF TypeOK, Entries, Records
<1>3. CASE /\ images' = images \cup {<<current, Entry.rev>>}
           /\ containers' = IF Exists(current) THEN containers
                            ELSE [containers EXCEPT ![current] = [rev |-> Entry.rev, ip |-> None]]
           /\ services' = [services EXCEPT ![current].container = [rev |-> Entry.rev, live |-> TRUE]]
           /\ UNCHANGED <<current, faults>>
  <2> DEFINE r == [rev |-> Entry.rev, live |-> TRUE]
             b == [rev |-> Entry.rev, ip |-> None]
  <2>1. r \in References /\ r.rev = Entry.rev /\ r # None
    <3>1. r \in References /\ r.rev = Entry.rev
      BY <1>2 DEF Entry, References
    <3> QED BY <3>1
  <2>2. b \in Boxes /\ b.rev = Entry.rev /\ b # None
    <3>1. b \in Boxes /\ b.rev = Entry.rev
      BY <1>2 DEF Entry, Boxes
    <3> QED BY <3>1
  <2> HIDE DEF r, b
  <2>3. services' = [services EXCEPT ![current].container = r]
    BY <1>3 DEF r
  <2>4. /\ services' \in [Services -> Entries]
        /\ \A t \in Services : t # current => services'[t] = services[t]
        /\ services'[current] \in Records /\ services'[current].rev = services[current].rev
        /\ services'[current].container = r
    BY <1>1, <1>2, <2>1, <2>3 DEF TypeOK, Entries, Records
  <2>5. services'[current] # None
    BY <2>4
  <2>6. /\ containers' \in [Services -> Containers] /\ containers'[current] # None
        /\ containers'[current].rev = Entry.rev
        /\ \A t \in Services : Exists(t) => containers'[t] = containers[t]
        /\ \A t \in Services : t # current => containers'[t] = containers[t]
    <3>1. CASE Exists(current)
      <4>1. Compatible(current)
        BY <1>1, <3>1 DEF StartCreate, Matching
      <4> QED BY <3>1, <4>1, <1>3, <1>1 DEF Compatible, Exists, TypeOK
    <3>2. CASE ~Exists(current)
      <4>1. containers' = [containers EXCEPT ![current] = b]
        BY <3>2, <1>3 DEF b
      <4> QED BY <3>2, <4>1, <1>1, <2>2 DEF Exists, TypeOK, Containers
    <3> QED BY <3>1, <3>2
  <2>7. EntryKept' /\ RefTrue'
    BY <2>1, <2>4, <2>5, <2>6 DEF Registry, EntryKept, RefTrue, HasRef, Exists
  <2>8. RulesOfTarget'
    <3>1. \A t \in Services : HasRef(t) => HasRef(t)'
      BY <2>1, <2>4, <2>5 DEF HasRef
    <3> QED BY <1>1, <2>6, <3>1 DEF Registry, RulesOfTarget, Running, Exists, catchVars
  <2>9. Entered
    BY <1>1, <1>2, <1>3, <2>4, <2>6 DEF Entered, TypeOK, catchVars, Entry
  <2>10. SameEntries
    BY <2>4, <2>5 DEF SameEntries
  <2> QED BY <1>1, <1>3, <2>7, <2>8, <2>9, <2>10, DestroyedAtStart DEF Registry
<1>4. CASE /\ faults < MaxFaults /\ faults' = faults + 1 /\ current' = None
           /\ UNCHANGED <<images, containers, services>>
  <2>1. Registry'
    BY <1>1, <1>4, RegistryUnchanged
  <2>2. faults' \in 0..MaxFaults
    BY <1>4 DEF TypeOK
  <2> QED BY <1>1, <1>4, <2>1, <2>2, DestroyedAtStart DEF Entered, SameEntries, TypeOK, catchVars
<1> QED BY <1>3, <1>4 DEF StartCreate

\* A container is started; a catch-all service becomes the target.
LEMMA StartLaunchKeeps == ASSUME IInv, StartLaunch PROVE IInv'
<1> USE ServiceAssumption DEF IInv
<1> DEFINE c == current
<1>1. /\ c \in Services /\ services[c] # None /\ services[c].container # None
      /\ services[c].container.live /\ services[c].container.rev = services[c].rev
      /\ Starting /\ current' = None /\ UNCHANGED startUnchanged
      /\ UNCHANGED <<services, images, network>>
  BY DEF StartLaunch, Starting, Position, CurrentKnown, Known, Entry
<1>2. containers[c] # None /\ containers[c].rev = services[c].rev /\ containers[c] \in Boxes
  BY <1>1 DEF Registry, RefTrue, HasRef, Exists, TypeOK, Containers
<1>3. SameEntries
  BY <1>1 DEF SameEntries
<1>4. ASSUME NEW ip \in IPs, Running(c) => ip = containers[c].ip,
             containers' = [containers EXCEPT ![c].ip = ip],
             IF <<c, Entry.rev>> \in CatchAll THEN EnableCatchall(ip) ELSE UNCHANGED catchVars,
             UNCHANGED faults
      PROVE  IInv'
  <2>1. /\ containers' \in [Services -> Containers]
        /\ \A t \in Services : t # c => containers'[t] = containers[t]
        /\ containers'[c] \in Boxes /\ containers'[c].rev = containers[c].rev
        /\ containers'[c].ip = ip
    BY <1>1, <1>2, <1>4 DEF TypeOK, Containers, Boxes
  <2>2. containers'[c] # None /\ ip # None
    BY <2>1
  <2>3. EntryKept' /\ RefTrue'
    BY <1>1, <1>2, <2>1, <2>2 DEF Registry, EntryKept, RefTrue, HasRef, Exists
  <2>4. /\ chain' \subseteq IPs /\ forgotten' \subseteq IPs
        /\ catchall_target' \in Services \cup {None}
    BY <1>1, <1>4 DEF TypeOK, EnableCatchall, RulesOf, catchVars
  <2>5. RulesOfTarget'
    <3> SUFFICES ASSUME NEW p \in chain', p \notin forgotten'
                 PROVE  /\ catchall_target' \in Services /\ HasRef(catchall_target)'
                        /\ Running(catchall_target)'
                        /\ containers'[catchall_target'].ip = p
                        /\ <<catchall_target', containers'[catchall_target'].rev>> \in CatchAll
      BY DEF RulesOfTarget
    <3>1. CASE <<c, Entry.rev>> \in CatchAll
      <4>1. EnableCatchall(ip)
        BY <3>1, <1>4
      <4>2. p = ip
        <5> SUFFICES ASSUME p # ip PROVE FALSE
          OBVIOUS
        <5>1. p \in chain \ forgotten /\ p \notin RulesOf({catchall_target} \ {c, None})
          BY <4>1 DEF EnableCatchall
        <5>2. /\ catchall_target \in Services /\ Running(catchall_target)
              /\ containers[catchall_target].ip = p
          BY <5>1 DEF Registry, RulesOfTarget
        <5>3. catchall_target # c
          BY <5>2, <1>4
        <5> QED BY <5>1, <5>2, <5>3 DEF RulesOf
      <4>3. catchall_target' = c
        BY <4>1 DEF EnableCatchall
      <4> QED BY <3>1, <4>2, <4>3, <1>1, <1>2, <2>1, <2>2 DEF HasRef, Running, Exists, Entry
    <3>2. CASE <<c, Entry.rev>> \notin CatchAll
      <4>1. UNCHANGED catchVars
        BY <3>2, <1>4
      <4>2. /\ catchall_target \in Services /\ HasRef(catchall_target) /\ Running(catchall_target)
            /\ containers[catchall_target].ip = p
            /\ <<catchall_target, containers[catchall_target].rev>> \in CatchAll
        BY <4>1 DEF catchVars, Registry, RulesOfTarget
      <4> QED BY <1>1, <4>1, <4>2, <1>4, <2>1, <2>2 DEF catchVars, HasRef, Running, Exists
    <3> QED BY <3>1, <3>2
  <2>6. Entered
    BY <1>1, <1>4, <2>1, <2>4 DEF Entered, TypeOK
  <2> QED BY <1>1, <1>3, <2>3, <2>5, <2>6, DestroyedAtStart DEF Registry
<1>5. CASE /\ faults < MaxFaults /\ faults' = faults + 1
           /\ UNCHANGED <<containers, catchVars>>
  <2>1. Registry'
    BY <1>1, <1>5, RegistryUnchanged
  <2>2. faults' \in 0..MaxFaults
    BY <1>5 DEF TypeOK
  <2> QED BY <1>1, <1>3, <1>5, <2>1, <2>2, DestroyedAtStart DEF Entered, TypeOK, catchVars
<1>6. CASE \E ip \in IF Running(c) THEN {containers[c].ip} ELSE FreeIPs :
              /\ containers' = [containers EXCEPT ![c].ip = ip]
              /\ IF <<c, Entry.rev>> \in CatchAll THEN EnableCatchall(ip) ELSE UNCHANGED catchVars
              /\ UNCHANGED faults
  <2>1. PICK ip \in IF Running(c) THEN {containers[c].ip} ELSE FreeIPs :
              /\ containers' = [containers EXCEPT ![c].ip = ip]
              /\ IF <<c, Entry.rev>> \in CatchAll THEN EnableCatchall(ip) ELSE UNCHANGED catchVars
              /\ UNCHANGED faults
    BY <1>6
  <2>2. ip \in IPs
    <3>1. CASE Running(c)
      BY <3>1, <2>1, <1>2 DEF Running, Boxes
    <3>2. CASE ~Running(c)
      BY <3>2, <2>1 DEF FreeIPs
    <3> QED BY <3>1, <3>2
  <2>3. Running(c) => ip = containers[c].ip
    BY <2>1
  <2> HIDE DEF c
  <2> QED BY <1>4, <2>1, <2>2, <2>3
<1> QED BY <1>5, <1>6 DEF StartLaunch

\* A service that is not assigned any more: the entry goes with the container, or stays.
LEMMA RemoveServiceKeeps == ASSUME IInv, NEW s \in Services, RemoveService(s) PROVE IInv'
<1> USE ServiceAssumption DEF IInv
<1>1. Entered /\ Registry'
  <2>1. CASE DestroyFails(s)
    BY <2>1, DestroyFailsKeeps
  <2>2. CASE /\ services' = [Released(s, Matching(s)) EXCEPT ![s] = None]
             /\ IF Matching(s) = {} THEN UNCHANGED <<dockerVars, catchVars, faults>>
                                     ELSE Vanish(s, Matching(s))
    <3>1. Matching(s) \in SUBSET Services /\ (Exists(s) => s \in Matching(s))
      BY DEF Matching
    <3>2. /\ Released(s, Matching(s)) \in [Services -> Entries] /\ None \in Entries
          /\ services' \in [Services -> Entries] /\ services'[s] = None
          /\ \A t \in Services : t # s => services'[t] = Released(s, Matching(s))[t]
      BY <2>2, ReleasedFacts DEF Entries
    <3>3. EntriesAfter(s, Matching(s))
      BY <3>2, ReleasedFacts DEF EntriesAfter, HasRef
    <3>4. CASE Matching(s) = {}
      <4>1. \A t \in Services : t # s => services'[t] = services[t]
        BY <3>2, <3>4, ReleasedFacts
      <4>2. ~Exists(s) /\ UNCHANGED <<dockerVars, catchVars, faults>>
        BY <2>2, <3>1, <3>4
      <4>3. Registry'
        BY <3>2, <4>1, <4>2 DEF Registry, EntryKept, RefTrue, RulesOfTarget, HasRef, Exists, Running,
           dockerVars, catchVars
      <4> QED BY <3>2, <4>2, <4>3 DEF Entered, TypeOK, dockerVars, catchVars
    <3>5. CASE Matching(s) # {}
      BY <2>2, <3>1, <3>3, <3>5, GoneTogether DEF Vanish, TypeOK
    <3> QED BY <3>4, <3>5
  <2> QED BY <2>1, <2>2 DEF RemoveService
<1>2. TypeOK'
  BY <1>1 DEF RemoveService, Entered, TypeOK, serverVars, collectorVars
<1>3. Position'
  BY DEF RemoveService, Position, CurrentKnown, PendingAssigned
<1> QED BY <1>1, <1>2, <1>3

\* The manager starts again and registers the containers it finds.
LEMMA RestartKeeps == ASSUME IInv, Restart PROVE IInv'
<1> USE ServiceAssumption DEF IInv
<1>1. /\ containers' \in [Services -> Containers]
      /\ \A t \in Services : /\ Exists(t) <=> containers'[t] # None
                             /\ Exists(t) => containers'[t].rev = containers[t].rev
  BY StoppedFacts DEF Restart
<1>2. \A t \in Services : Exists(t) =>
         /\ [rev |-> containers[t].rev, live |-> TRUE] \in References
         /\ [rev |-> None, container |-> [rev |-> containers[t].rev, live |-> TRUE]] \in Records
  BY DEF Exists, TypeOK, Containers, Boxes, References, Records
<1>3. services' = [t \in Services |->
                     IF Exists(t) THEN [rev |-> None,
                                        container |-> [rev |-> containers[t].rev, live |-> TRUE]]
                                  ELSE None]
  BY DEF Restart
<1>4. services' \in [Services -> Entries]
  BY <1>2, <1>3 DEF Entries
<1>5. \A t \in Services :
         /\ ~Exists(t) => services'[t] = None
         /\ Exists(t) => /\ services'[t] # None /\ services'[t].container # None
                         /\ services'[t].container.rev = containers[t].rev
  BY <1>2, <1>3
<1>6. Registry'
  BY <1>1, <1>5 DEF Restart, Registry, EntryKept, RefTrue, HasRef, RulesOfTarget, Exists
<1>7. config' \in Configs /\ restarts' \in 0..MaxRestarts
  BY DEF Restart, TypeOK, Configs
<1>8. TypeOK'
  BY <1>1, <1>4, <1>7 DEF Restart, TypeOK, WorkerStates, serverVars
<1> QED BY <1>6, <1>8 DEF Restart, Position, CurrentKnown, PendingAssigned

LEMMA Step == IInv /\ [Next]_vars => IInv'
<1> SUFFICES ASSUME IInv, [Next]_vars PROVE IInv'
  OBVIOUS
<1>1. CASE Worker
  <2>1. CASE \E s \in Services : DestroyNext(s) \/ NextService(s) \/ RemoveService(s)
    BY <2>1, DestroyNextKeeps, NextServiceKeeps, RemoveServiceKeeps
  <2>2. CASE Start
    BY <2>2, StartDestroyKeeps, StartCreateKeeps, StartLaunchKeeps DEF Start
  <2> QED BY <1>1, <2>1, <2>2, TakeConfigKeeps, Others DEF Worker
<1>2. CASE Environment
  BY <1>2, Others, CrashKeeps DEF Environment
<1> QED BY <1>1, <1>2, Others, RestartKeeps DEF Next

-----------------------------------------------------------------------------
LEMMA Always == Spec => []IInv
  BY Begin, Step, PTL DEF Spec

\* The state of the manager, of docker and of the collector keeps its types, whatever the
\* server assigns and whatever fails.
THEOREM TypeCorrect == Spec => []TypeOK
<1>1. IInv => TypeOK
  BY DEF IInv
<1> QED BY <1>1, Always, PTL

\* Whatever fails while services are updated, removed or exchange their network, and
\* however their names overlap, no container escapes the registry.
THEOREM NoneEscapes == Spec => []ManagedContainers
<1>1. IInv => ManagedContainers
  BY DEF IInv, Registry, EntryKept, ManagedContainers, Known
<1> QED BY <1>1, Always, PTL

\* A redirection rule that is not forgotten leads to a running catch-all container.
THEOREM RulesLeadSomewhere == Spec => []NoStaleRules
<1>1. IInv => NoStaleRules
  BY DEF IInv, Registry, RulesOfTarget, NoStaleRules
<1> QED BY <1>1, Always, PTL
=============================================================================
