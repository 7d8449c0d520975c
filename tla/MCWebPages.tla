----------------------------- MODULE MCWebPages -----------------------------
(***************************************************************************)
(* The regions of a page, the dialogs of tasks, the list of events, and    *)
(* the lists of platforms and services with what they change at the server *)
(* on small instances.  They share no variable, so that a behaviour of the *)
(* page shows to each of them a behaviour of that part alone: here one     *)
(* part moves and the others stay.                                         *)
(***************************************************************************)
EXTENDS ViewRegions, ListViews, Inventory

CONSTANTS v1, v2, v3, v4, e1, u1, m1

VARIABLE part       \* the part that moves

MCViews == {v1, v2, v3, v4}
MCExports == {e1}
MCUploads == {u1}
MCMails == {m1}
MCAdministrators == {"one", "two"}
MCDevices == {"sensor"}
MCVersions == {"1.0", "1.1"}
MCServices == {"dionaea", "cowrie"}
MCRevisions == {"old", "new"}
MCArchives == {<<"dionaea", "new">>, <<"cowrie", "old">>}

Parts == {"regions", "dialogs", "browser", "platforms", "services"}
pagesVars == <<part, regionVars, taskVars, listVars, inventoryVars>>

\* A part that does not move starts in one state only.  Which service was first, and which
\* of its revisions is the default, makes no difference.
PagesInit ==
    /\ part \in Parts
    /\ RegionsInit /\ Dialogs!Init /\ Browser!Init /\ Platforms!Init /\ Services!Init
    /\ part # "browser" => \A e \in DOMAIN storedEvents : storedEvents[e] = "none"
    /\ part # "platforms" => firmware = <<>>
    /\ services[1] = "dionaea" /\ default[1] = "old"
    /\ part # "services" => DOMAIN services = {1}

DialogsOnly(A) ==
    part = "dialogs" /\ A /\ UNCHANGED <<part, regionVars, listVars, inventoryVars>>

PagesNext ==
    \/ part = "regions" /\ RegionsNext /\ UNCHANGED <<part, taskVars, listVars, inventoryVars>>
    \/ DialogsOnly(Dialogs!Next)
    \/ part = "browser" /\ Browser!Next /\ UNCHANGED <<part, regionVars, taskVars, inventoryVars>>
    \/ part = "platforms" /\ Platforms!Next
       /\ UNCHANGED <<part, regionVars, taskVars, listVars, registryVars>>
    \/ part = "services" /\ Services!Next
       /\ UNCHANGED <<part, regionVars, taskVars, listVars, platformVars>>

\* The fairness of TaskDialogs.
PagesSpec ==
    /\ PagesInit /\ [][PagesNext]_pagesVars
    /\ \A t \in Dialogs!Tasks : /\ WF_pagesVars(DialogsOnly(Dialogs!Run(t)))
                                /\ WF_pagesVars(DialogsOnly(Dialogs!Polls(t)))

\* The dialog of an export closes by itself, unless the export or a poll fails.
ExportsArrive == Dialogs!ExportsArrive
=============================================================================
