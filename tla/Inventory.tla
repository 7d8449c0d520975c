----------------------------- MODULE Inventory -----------------------------
(***************************************************************************)
(* What the server offers to sensors: the firmware of a platform, and the  *)
(* services with their images.  Both are lists of revisions with a default *)
(* one, which administrators change from their pages, and neither knows of *)
(* the other.                                                              *)
(***************************************************************************)
EXTENDS Naturals

CONSTANTS
    Administrators,     \* each has a page
    Devices,            \* sensors of the platform
    FirmwareVersions,   \* of firmware archives
    ServiceNames, RevisionNames,
    ServiceArchives,    \* pairs of a name and a revision
    Absent,             \* no firmware, service or revision
    MaxFirmware, MaxEntries,    \* bounds: rows
    MaxAsked,           \* bound: requests
    MaxFailures         \* bound: requests that end early, tasks that fail, outages

\* Ids are numbers; nothing else stands for a missing one.
ASSUME InventoryAssumption ==
    /\ Absent \notin Nat /\ Absent \notin RevisionNames
    /\ ServiceArchives \subseteq ServiceNames \X RevisionNames

VARIABLES
    firmware, lastFirmware, defaultFirmware, choice, files, firmwareUploads,    \* FirmwareStore
    firmwareRequest, listed, offered, firmwareClicks, firmwareFaults,
    sharedFirmware, harmedFirmware,
    services, default, revisions, lastId, tags, filling, online,    \* ServiceRegistry
    serviceUploads, serviceRequest, disabled, details, serviceClicks, serviceFaults, sharedNames, harmedRevisions

platformVars == <<firmware, lastFirmware, defaultFirmware, choice, files, firmwareUploads,
                  firmwareRequest, listed, offered, firmwareClicks, firmwareFaults,
                  sharedFirmware, harmedFirmware>>
registryVars == <<services, default, revisions, lastId, tags, filling, online, serviceUploads,
                  serviceRequest, disabled, details, serviceClicks, serviceFaults, sharedNames,
                  harmedRevisions>>
inventoryVars == <<platformVars, registryVars>>

Platforms == INSTANCE FirmwareStore WITH
    Pages <- Administrators, Sensors <- Devices, Versions <- FirmwareVersions, None <- Absent,
    MaxClicks <- MaxAsked, MaxFaults <- MaxFailures,
    lastId <- lastFirmware, default <- defaultFirmware, uploads <- firmwareUploads,
    request <- firmwareRequest, clicks <- firmwareClicks, faults <- firmwareFaults,
    shared <- sharedFirmware, harmed <- harmedFirmware

Services == INSTANCE ServiceRegistry WITH
    Pages <- Administrators, Names <- ServiceNames, Revisions <- RevisionNames,
    Archives <- ServiceArchives, None <- Absent,
    MaxId <- MaxEntries, MaxClicks <- MaxAsked, MaxFaults <- MaxFailures,
    images <- tags, uploads <- serviceUploads, request <- serviceRequest, clicks <- serviceClicks,
    faults <- serviceFaults, shared <- sharedNames, harmed <- harmedRevisions

-----------------------------------------------------------------------------
(* Properties *)

\* What sensors are told to install can be downloaded, with the exceptions that
\* FirmwareStore names.
FirmwareHasFile == Platforms!FirmwareHasFile

\* What sensors are told to run can be pulled, with those that ServiceRegistry names.
DefaultCanBePulled == Services!DefaultCanBePulled
=============================================================================
