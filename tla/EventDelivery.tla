--------------------------- MODULE EventDelivery ---------------------------
(***************************************************************************)
(* What HoneySens promises about the events its honeypot services report:  *)
(* a sensor that has taken an event over keeps it until the server has     *)
(* processed it at least once, or drops it; it never forgets an event that *)
(* is neither, and the server never sees an event nobody reported.         *)
(*                                                                         *)
(* This is the abstract specification that EventPipeline implements.       *)
(***************************************************************************)
EXTENDS Naturals

CONSTANT Events         \* the events the services of one sensor report

VARIABLES phase,        \* where each event is, seen from the sensor
          deliveries    \* how often the server has processed each event

vars == <<phase, deliveries>>

Phases == {"new", "held", "released", "dropped"}

TypeOK == /\ phase \in [Events -> Phases]
          /\ deliveries \in [Events -> Nat]

Init == /\ phase = [e \in Events |-> "new"]
        /\ deliveries = [e \in Events |-> 0]

\* Moves every event of S to phase p.
Move(S, p) == phase' = [e \in Events |-> IF e \in S THEN p ELSE phase[e]]

\* The sensor takes over an event from a service.
Collect(e) == /\ phase[e] = "new"
              /\ Move({e}, "held")
              /\ UNCHANGED deliveries

\* The server processes a batch of events the sensor sent at some time.
Deliver(S) == /\ \A e \in S : phase[e] # "new"
              /\ deliveries' = [e \in Events |-> IF e \in S THEN deliveries[e] + 1
                                                            ELSE deliveries[e]]
              /\ UNCHANGED phase

\* The sensor forgets a batch: only what the server has processed.
Release(S) == /\ \A e \in S : phase[e] = "held" /\ deliveries[e] > 0
              /\ Move(S, "released")
              /\ UNCHANGED deliveries

\* Events leave the sensor unseen: a full buffer or a restart.
Drop(S) == /\ \A e \in S : phase[e] = "held"
           /\ Move(S, "dropped")
           /\ UNCHANGED deliveries

Next == \/ \E e \in Events : Collect(e)
        \/ \E S \in SUBSET Events : Deliver(S) \/ Release(S) \/ Drop(S)

Spec == Init /\ [][Next]_vars

=============================================================================
