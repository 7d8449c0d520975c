----------------------------- MODULE SensorForm -----------------------------
(***************************************************************************)
(* The form of a sensor, the check boxes of its services in the list, and  *)
(* the part of the server that takes their requests.  Both send the whole  *)
(* model that the page has of the sensor: a form what was typed into it    *)
(* and the services of the model, a check box the services and all of the  *)
(* rest.  Updates of the page bring new models while forms and requests    *)
(* keep the ones that they were made with.                                 *)
(***************************************************************************)
EXTENDS Naturals, FiniteSets, Sequences

CONSTANTS
    Services, Assigned,     \* what can be assigned to a sensor, and what is at first
    Kept, Cleared,  \* parts of a form that can be switched on, by what they hold then
    Loose,          \* parts with a field of which the page lets through what the server refuses
    Files, Broken,  \* the files that users may upload, and those that openssl cannot read: no
                    \* certificate, no key, or a key with another passphrase than the one typed
    None,           \* nothing: an option that is off, an empty field
    Unset,          \* an attribute that the request does not have
    Fingerprint,    \* the fingerprint of a certificate, which stands for it in the page
    MaxObjects, MaxForms, MaxEdits, MaxToggles, MaxAsks    \* bounds: of models of the
                    \* sensor, forms, changes in them, clicks, requests

Sections == Kept \cup Cleared
Fields == {"ca", "cert", "key"}
Modes == {"off", "md5", "peap", "tls"}
NeedsPassword == {"md5", "peap"}
UsesCA == {"peap", "tls"}

VARIABLES
    sensor,         \* at the server: section, mode, password, ca, client, services
    stage,          \* of the sensor: "none" or "there"
    objects,        \* the models that the page has had of it, the last one is in the list
    form,           \* the form that is open
    asks,           \* requests under way
    fetching,       \* an update of the page, asked for because a form was saved
    forms, edits, ticks,    \* counters of forms, of changes in them, and of clicked check boxes
    touched,        \* history: services whose check box was clicked
    meddled,        \* history: somebody else has changed the sensor
    hasty,          \* history: a form or a check box was used while a request was under way
    lacked          \* history: a form was sent without a credential that the server needed

historyVars == <<forms, edits, ticks, touched, meddled, hasty, lacked>>
formVars == <<sensor, stage, objects, form, asks, fetching, historyVars>>

\* What the page knows of a sensor.
Model(s, listed) == [listed |-> listed, section |-> s.section, mode |-> s.mode, services |-> s.services,
                     ca |-> IF s.ca = None THEN None ELSE Fingerprint, client |-> s.client # None]

\* The files that openssl can read.
Readable == Files \ Broken

Blank == [section |-> [x \in Sections |-> FALSE], mode |-> "off", password |-> FALSE,
          ca |-> None, client |-> None, services |-> {}]

Closed == [phase |-> "none", object |-> 0, section |-> Blank.section,
           content |-> [x \in Sections |-> "empty"], mode |-> "off", password |-> FALSE,
           shown |-> [f \in Fields |-> "empty"], attached |-> [f \in Fields |-> Unset]]

Init ==
    /\ stage \in {"none", "there"}
    /\ sensor \in {s \in [section : {Blank.section}, mode : {"off", "md5", "tls"},
                          password : BOOLEAN, ca : Readable \cup {None}, client : Readable \cup {None},
                          services : {{}, Assigned}] :
                     /\ s.password = (s.mode = "md5") /\ (s.client # None) = (s.mode = "tls")
                     /\ s.ca # None => s.mode = "tls"
                     /\ IF stage = "none" THEN s = Blank ELSE s.services = Assigned}
    /\ objects = <<Model(sensor, stage = "there")>>
    /\ form = Closed /\ asks = {} /\ fetching = FALSE
    /\ forms = 0 /\ edits = 0 /\ ticks = 0 /\ touched = {}
    /\ meddled = FALSE /\ hasty = FALSE /\ lacked = FALSE

Listed == Len(objects)
InList == objects[Listed].listed
Hasty == hasty \/ asks # {} \/ fetching

-----------------------------------------------------------------------------
(* The form *)

\* sensors:add and sensors:edit.  Key and certificate of a client are shown by the same
\* fingerprint.
Open ==
    LET m == objects[Listed]
        Shown(f) == IF (f = "ca" /\ m.mode \in UsesCA /\ m.ca = Fingerprint)
                        \/ (f # "ca" /\ m.mode = "tls" /\ m.client) THEN "print" ELSE "empty"
    IN
    /\ form = Closed /\ forms < MaxForms /\ forms' = forms + 1
    /\ IF stage = "none" THEN asks = {} ELSE InList
    /\ form' = [Closed EXCEPT !.phase = "form", !.object = Listed, !.mode = m.mode,
                    !.section = m.section,
                    !.content = [x \in Sections |-> IF m.section[x] THEN "good" ELSE "empty"],
                    !.shown = [f \in Fields |-> Shown(f)]]
    /\ hasty' = Hasty
    /\ UNCHANGED <<sensor, stage, objects, asks, fetching, edits, ticks, touched, meddled, lacked>>

Editing(changed) ==
    /\ form.phase = "form" /\ form' = changed
    /\ edits < MaxEdits /\ edits' = edits + 1
    /\ UNCHANGED <<sensor, stage, objects, asks, fetching, forms, ticks, touched, meddled, hasty, lacked>>

\* Switches of the address, the proxy, ...: what is switched on shows the value that the
\* model has, or nothing at all.
Switch(x) ==
    LET on == ~form.section[x] IN
    Editing([form EXCEPT !.section[x] = on,
                !.content[x] = IF on /\ x \in Kept /\ objects[form.object].section[x]
                               THEN "good" ELSE "empty"])

\* What is typed matches the pattern of its field.  The server may refuse it all the same:
\* 999.999.999.999 as an address, several MAC addresses in one field.
Contents(x) == IF x \in Loose THEN {"good", "odd"} ELSE {"good"}

Fill(x, c) == form.section[x] /\ Editing([form EXCEPT !.content[x] = c])

\* refreshNetworkEAPOL(): the fields that are used in the mode are emptied, but not what
\* has been attached in them.
ChooseMode(m) ==
    LET used == IF m = "tls" THEN Fields ELSE IF m = "peap" THEN {"ca"} ELSE {} IN
    /\ m # form.mode
    /\ Editing([form EXCEPT !.mode = m,
                   !.shown = [f \in Fields |-> IF f \in used THEN "empty" ELSE @[f]]])

TypePassword == Editing([form EXCEPT !.password = TRUE])

InUse(f) == IF f = "ca" THEN form.mode \in UsesCA ELSE form.mode = "tls"

\* A file is read in the background, and then attached, whatever is in it; one that is too
\* large leaves a message in the field, and what has been attached before.
ChooseFile(f, file) ==
    InUse(f) /\ Editing([form EXCEPT !.shown[f] = "file", !.attached[f] = file])

ChooseLargeFile(f) == InUse(f) /\ Editing([form EXCEPT !.shown[f] = "error"])

RemoveUpload(f) ==
    InUse(f) /\ Editing([form EXCEPT !.shown[f] = "empty", !.attached[f] = None])

\* Mutant: a mode that was chosen asks for no password.
ValidWithoutPassword ==
    /\ \A x \in Sections : form.section[x] => form.content[x] # "empty"
    /\ form.mode = "tls" => form.shown["cert"] # "empty" /\ form.shown["key"] # "empty"
    /\ \A f \in Fields : form.shown[f] # "error"

\* What refreshValidators() asks of the fields: that they are not empty.  Files must not be
\* too large.
Valid ==
    /\ \A x \in Sections : form.section[x] => form.content[x] # "empty"
    /\ form.mode \in NeedsPassword /\ form.mode # objects[form.object].mode => form.password
    /\ form.mode = "tls" => form.shown["cert"] # "empty" /\ form.shown["key"] # "empty"
    /\ \A f \in Fields : form.shown[f] # "error"

\* Key and certificate of a client are sent together.  They are no better than the worse of both.
ClientSent ==
    LET cert == form.attached["cert"]
        key == form.attached["key"]
    IN
    IF Unset \in {cert, key} THEN Unset ELSE IF None \in {cert, key} THEN None
    ELSE IF key \in Broken THEN key ELSE cert

OddSections == {x \in Sections : form.section[x] /\ form.content[x] = "odd"}

\* Mutant: forms send what they show, which is no services.
SubmittedWithoutServices ==
    [kind |-> "form", object |-> form.object, section |-> form.section, odd |-> OddSections,
     mode |-> form.mode, password |-> form.password, ca |-> form.attached["ca"],
     client |-> ClientSent,
     services |-> {}]

\* The request of a form.  Certificates that were not attached are not in it, those of a
\* client only if both parts were.
Submitted ==
    [kind |-> "form", object |-> form.object, section |-> form.section, odd |-> OddSections,
     mode |-> form.mode, password |-> form.password, ca |-> form.attached["ca"],
     client |-> ClientSent,
     services |-> objects[form.object].services]

\* The request leaves when the form has slid out of sight; small files are read by then.  The
\* model loses the certificates that are not sent.
Submit ==
    /\ form.phase = "form" /\ Valid
    /\ asks' = asks \cup {Submitted}
    /\ form' = [form EXCEPT !.phase = "busy"]
    /\ objects' = [objects EXCEPT
           ![form.object].ca = IF form.attached["ca"] = Unset THEN Unset ELSE @,
           ![form.object].client = @ /\ ClientSent # Unset]
    /\ UNCHANGED <<sensor, stage, fetching, historyVars>>

\* The cancel button, or the button below the result.
CloseForm ==
    /\ form # Closed /\ form' = Closed
    /\ UNCHANGED <<sensor, stage, objects, asks, fetching, historyVars>>

-----------------------------------------------------------------------------
(* The list *)

\* The model of the list with the services it shall have.  Certificates are sent as the
\* fingerprints that the page has, and the server asks for a key before it looks at those
\* of clients.
Whole(services) ==
    LET m == objects[Listed] IN
    [kind |-> "toggle", object |-> Listed, section |-> m.section, odd |-> {}, mode |-> m.mode,
     password |-> FALSE, ca |-> m.ca, client |-> Unset, services |-> services]

\* Those of the model are added to in place, but taken away from a copy.
Toggle(s) ==
    LET on == s \notin objects[Listed].services
        services == IF on THEN objects[Listed].services \cup {s} ELSE objects[Listed].services \ {s}
    IN
    /\ form = Closed /\ InList /\ ticks < MaxToggles
    /\ Cardinality(asks) < MaxAsks
    /\ objects' = IF on THEN [objects EXCEPT ![Listed].services = services] ELSE objects
    /\ asks' = asks \cup {Whole(services)}
    /\ ticks' = ticks + 1 /\ touched' = touched \cup {s} /\ hasty' = Hasty
    /\ UNCHANGED <<sensor, stage, form, fetching, forms, edits, meddled, lacked>>

-----------------------------------------------------------------------------
(* The server *)

\* validateSensorParams(), verifyCertificate() and verifyKey(), for what a request has.  Parts
\* that are switched off and files that the mode does not use are not looked at.
WellFormed(r) ==
    /\ r.odd = {}
    /\ r.mode \in UsesCA => r.ca \in Readable \cup {None, Unset}
    /\ r.mode = "tls" => r.client \notin Broken

\* validateSensorParams() and updateSensorFromParams(), for what may be missing in a request.
Complete(r) ==
    /\ r.mode \in NeedsPassword => r.password \/ (stage = "there" /\ sensor.password)
    /\ r.mode = "tls" => r.client \in Files
                         \/ (stage = "there" /\ r.client \in {None, Unset} /\ sensor.client # None)

Accepts(r) == WellFormed(r) /\ Complete(r)

\* updateSensorFromParams(): credentials that the mode does not use are dropped.
Stored(r) ==
    LET new == r.mode = "tls" /\ r.client \in Files IN
    [section |-> r.section, mode |-> r.mode,
     password |-> CASE r.mode \in NeedsPassword -> TRUE
                    [] r.mode = "off" \/ new -> FALSE
                    [] OTHER -> sensor.password,
     ca |-> IF r.mode \in UsesCA THEN (IF r.ca = Unset THEN sensor.ca ELSE r.ca) ELSE None,
     client |-> IF new THEN r.client ELSE IF r.mode = "tls" THEN sensor.client ELSE None,
     services |-> IF stage = "none" THEN {} ELSE r.services]

\* The model takes over what the server has, and so does the one of a form that was refused,
\* which is fetched; a check box stays as it is if its request fails.
Serve(r) ==
    LET accepted == Accepts(r) IN
    /\ r \in asks
    /\ asks' = asks \ {r}
    /\ IF accepted THEN sensor' = Stored(r) /\ stage' = "there" ELSE UNCHANGED <<sensor, stage>>
    /\ lacked' = (lacked \/ (r.kind = "form" /\ ~Complete(r)))
    /\ objects' = IF accepted \/ r.kind = "form"
                  THEN [objects EXCEPT ![r.object] = Model(sensor', objects[r.object].listed)]
                  ELSE objects
    /\ form' = IF r.kind = "form" /\ form.phase = "busy" THEN [form EXCEPT !.phase = "result"] ELSE form
    /\ fetching' = (fetching \/ (accepted /\ r.kind = "form"))
    /\ UNCHANGED <<forms, edits, ticks, touched, meddled, hasty>>

\* sensors.fullCollection.reset()
Update ==
    /\ stage = "there" /\ (fetching \/ Listed < MaxObjects)
    /\ objects' = Append(objects, Model(sensor, TRUE)) /\ fetching' = FALSE
    /\ UNCHANGED <<sensor, stage, form, asks, historyVars>>

\* Another user switches EAP over LAN off, and assigns something else.
Meddle ==
    /\ stage = "there" /\ ~meddled
    /\ meddled' = TRUE
    /\ \E s \in Services :
        sensor' = [Blank EXCEPT !.section = sensor.section, !.services = Services \ {s}]
    /\ UNCHANGED <<stage, objects, form, asks, fetching, forms, edits, ticks, touched, hasty, lacked>>

Edits ==
    \/ \E x \in Sections : Switch(x) \/ \E c \in Contents(x) : Fill(x, c)
    \/ \E m \in Modes : ChooseMode(m)
    \/ \E f \in Fields : \/ \E file \in Files : ChooseFile(f, file)
                         \/ ChooseLargeFile(f) \/ RemoveUpload(f)
    \/ TypePassword

Next ==
    \/ Open \/ Edits \/ Submit \/ CloseForm
    \/ \E s \in Services : Toggle(s)
    \/ \E r \in asks : Serve(r)
    \/ Update \/ Meddle

Spec == Init /\ [][Next]_formVars

-----------------------------------------------------------------------------
(* Properties *)

TypeOK ==
    /\ stage \in {"none", "there"}
    /\ sensor \in [section : [Sections -> BOOLEAN], mode : Modes, password : BOOLEAN,
                   ca : Readable \cup {None}, client : Readable \cup {None}, services : SUBSET Services]
    /\ \A i \in 1..Listed :
        objects[i] \in [listed : BOOLEAN, section : [Sections -> BOOLEAN], mode : Modes,
                        ca : {Fingerprint, None, Unset}, client : BOOLEAN, services : SUBSET Services]
    /\ form.object \in 0..Listed /\ form.mode \in Modes
    /\ form.phase \in {"none", "form", "busy", "result"}
    /\ touched \subseteq Services /\ {meddled, hasty, lacked} \subseteq BOOLEAN

\* A form that the page lets through lacks no credential that the server needs for its mode,
\* unless somebody else has changed the sensor, or requests overlap.  What is in its fields
\* and files is another matter: the page looks at patterns and sizes only, and the server
\* refuses what is not WellFormed.
NothingIsMissing == lacked => meddled \/ hasty

\* Forms and check boxes send all services of a sensor, and yet they change no service but
\* those that were clicked, if nobody else changes the sensor.
OthersStayAssigned ==
    [][\A s \in Services :
         (s \in sensor.services) # (s \in sensor'.services) => s \in touched \/ meddled']_formVars
=============================================================================
