----------------------------- MODULE MCWebForms -----------------------------
(***************************************************************************)
(* The forms of accounts, sensors and event filters on small instances.    *)
(* As in MCWebPages they share no variable: one part moves, the others     *)
(* stay as they are.                                                       *)
(***************************************************************************)
EXTENDS Accounts, SensorViews, FilterRecords

CONSTANTS ada, bob, d1, d2

VARIABLE part   \* the part that moves

MCUsers == {ada, bob}
MCDivisions == {d1, d2}

Parts == {"accounts", "sensors", "filters"}
formsVars == <<part, accountVars, sensorVars, filterVars>>

\* A part that does not move starts in one state only.
FormsInit ==
    /\ part \in Parts
    /\ Init /\ Sensors!Init /\ EventFilters!Init
    /\ part # "accounts" => Known = {Admin}
    /\ part # "sensors" => stage = "none"

FormsNext ==
    \/ part = "accounts" /\ Next /\ UNCHANGED <<part, sensorVars, filterVars>>
    \/ part = "sensors" /\ Sensors!Next /\ UNCHANGED <<part, accountVars, filterVars>>
    \/ part = "filters" /\ EventFilters!Next /\ UNCHANGED <<part, accountVars, sensorVars>>

FormsSpec == FormsInit /\ [][FormsNext]_formsVars
=============================================================================
