---------------------------- MODULE SensorViews ----------------------------
(***************************************************************************)
(* A sensor in the web interface: its form, its line in the list, and what *)
(* the server makes of their requests, for any parts that the form has.    *)
(***************************************************************************)
CONSTANTS
    ServiceChoices, AssignedAtFirst,
    KeptParts, ClearedParts,        \* of the form
    LooseParts,                     \* those of which the page lets through what the server refuses
    PemFiles, TornFiles,            \* certificates and keys, and those that cannot be read
    NoFile,                         \* an empty field, an option that is off
    NotSent,                        \* an attribute that the request does not have
    Fingerprint,
    MaxModels, MaxSensorForms, MaxChanges, MaxBoxes, MaxSensorAsks      \* bounds

\* A fingerprint is not readable as a certificate, and what stands for none is no file.
ASSUME SensorAssumption ==
    /\ LooseParts \subseteq KeptParts \cup ClearedParts /\ TornFiles \subseteq PemFiles
    /\ AssignedAtFirst \subseteq ServiceChoices
    /\ Fingerprint \notin PemFiles \cup {NoFile, NotSent}
    /\ NoFile \notin PemFiles /\ NotSent \notin PemFiles

VARIABLES
    sensor, stage, objects, sensorForm, sensorAsks, fetching,       \* SensorForm
    sensorForms, sensorEdits, ticks, touched, meddled, sensorHasty, sensorLacked

sensorVars == <<sensor, stage, objects, sensorForm, sensorAsks, fetching, sensorForms, sensorEdits,
                ticks, touched, meddled, sensorHasty, sensorLacked>>

Sensors == INSTANCE SensorForm WITH
    Services <- ServiceChoices, Assigned <- AssignedAtFirst, Kept <- KeptParts,
    Cleared <- ClearedParts, Loose <- LooseParts, Files <- PemFiles, Broken <- TornFiles,
    None <- NoFile, Unset <- NotSent,
    MaxObjects <- MaxModels, MaxForms <- MaxSensorForms, MaxEdits <- MaxChanges,
    MaxToggles <- MaxBoxes, MaxAsks <- MaxSensorAsks,
    form <- sensorForm, asks <- sensorAsks, forms <- sensorForms, edits <- sensorEdits,
    hasty <- sensorHasty, lacked <- sensorLacked

-----------------------------------------------------------------------------
(* Properties *)

\* A form lacks no credential that the server needs, with the exceptions that SensorForm names.
NothingIsMissing == Sensors!NothingIsMissing

\* A form or a check box changes no service but those that were clicked.
OthersStayAssigned == Sensors!OthersStayAssigned
=============================================================================
