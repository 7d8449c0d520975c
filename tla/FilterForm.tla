----------------------------- MODULE FilterForm -----------------------------
(***************************************************************************)
(* Event filters in the web interface and at the server: the list, the     *)
(* switch that enables a filter, the form with its table of conditions,    *)
(* removal, and what the service makes of a request.  A new filter is in   *)
(* the list before the server knows it, requests without an error handler  *)
(* leave the form as it is, and lists are replaced under an open form.     *)
(***************************************************************************)
EXTENDS Naturals, Sequences, FiniteSets, SequencesExt, Subsequences

CONSTANTS
    Filters,        \* filters that may exist
    Existing,       \* those that exist at the start
    ChosenFields,   \* fields of a condition whose value is selected: classification, protocol
    TypedFields,    \* fields whose value is typed: source, target
    None,           \* no form, no filter, no value
    MaxConditions,  \* bound: conditions of a filter
    MaxForms,       \* bound: forms that the user opens
    MaxEdits,       \* bound: changes in a form
    MaxClicks       \* bound: toggles, removals, and saves of another user

Fields == ChosenFields \cup TypedFields

VARIABLES
    store,          \* the filters of the server, with their conditions in the order of ids
    nextId,         \* the id of the next condition
    list,           \* the collection of the page: the attributes of each filter, or None
    orphan,         \* a model of the list that has no id: its attributes, or None
    form,           \* FilterEdit, or None
    removal,        \* the filter that ModalFilterRemove asks about, or None
    requests,       \* under way
    forms, edits, clicks    \* counters for the bounds

pageVars == <<list, orphan, form, removal>>
counters == <<forms, edits, clicks>>
filterVars == <<store, nextId, pageVars, requests, counters>>

\* A test is the type and the value of a condition; it suits one field.
Tests == Fields \X {1, 2}
Blank(field) == IF field \in ChosenFields THEN <<field, 1>> ELSE None
Fresh == CHOOSE field \in TypedFields : TRUE        \* default of EventFilterCondition: source

Attributes(enabled, conditions) == [enabled |-> enabled, conditions |-> conditions]
Condition(id, field, test) == [id |-> id, field |-> field, test |-> test]

Init ==
    /\ store = [f \in Filters |->
                  IF f \in Existing
                  THEN Attributes(TRUE, [i \in 1..MaxConditions |->
                         LET field == SetToSeq(Fields)[1 + (i % Cardinality(Fields))] IN
                         Condition(i, field, <<field, 1>>)])
                  ELSE None]
    /\ nextId = MaxConditions + 1
    /\ list = store /\ orphan = None /\ form = None /\ removal = None /\ requests = {}
    /\ forms = 0 /\ edits = 0 /\ clicks = 0

-----------------------------------------------------------------------------
(* The form *)

\* "add" makes a model, "edit" takes one of the list, and the form stays with it.
Open(f, attributes, inList) ==
    /\ form = None /\ removal = None /\ forms < MaxForms
    /\ forms' = forms + 1
    /\ form' = [filter |-> f, inList |-> inList, busy |-> FALSE,
                enabled |-> attributes.enabled, conditions |-> attributes.conditions]
    /\ UNCHANGED <<store, nextId, list, orphan, removal, requests, edits, clicks>>

OpenNew == Open(None, Attributes(TRUE, <<>>), FALSE)
OpenListed(f) == list[f] # None /\ Open(f, list[f], TRUE)
OpenOrphan == orphan # None /\ Open(None, orphan, TRUE)

CloseForm ==
    /\ form # None /\ form' = None
    /\ UNCHANGED <<store, nextId, list, orphan, removal, requests, counters>>

Edit(conditions) ==
    /\ edits < MaxEdits /\ edits' = edits + 1
    /\ form' = [form EXCEPT !.conditions = conditions]
    /\ UNCHANGED <<store, nextId, list, orphan, removal, requests, forms, clicks>>

Editing == form # None /\ ~form.busy

AddCondition == /\ Editing /\ Len(form.conditions) < MaxConditions
                /\ Edit(Append(form.conditions, Condition(None, Fresh, Blank(Fresh))))

RemoveCondition(i) == /\ Editing /\ i \in DOMAIN form.conditions
                      /\ Edit(RemoveAt(form.conditions, i))

\* changeAttribute(): other inputs appear, empty or with their first option.
ChangeAttribute(i, field) ==
    /\ Editing /\ i \in DOMAIN form.conditions /\ field # form.conditions[i].field
    /\ Edit([form.conditions EXCEPT ![i].field = field, ![i].test = Blank(field)])

ChangeValue(i, test) ==
    /\ Editing /\ i \in DOMAIN form.conditions
    /\ test[1] = form.conditions[i].field /\ test # form.conditions[i].test
    /\ Edit([form.conditions EXCEPT ![i].test = test])

-----------------------------------------------------------------------------
(* Requests of the page *)

Send(what, f, attributes, inList, closes) ==
    requests' = requests \cup {[what |-> what, filter |-> f, inList |-> inList, closes |-> closes,
                                enabled |-> attributes.enabled, conditions |-> attributes.conditions]}

\* The models take the values of valid inputs.  A new filter joins the list before it is
\* saved, and save() sets the attributes of the model at once.
Save ==
    LET attributes == Attributes(form.enabled, form.conditions) IN
    /\ Editing
    /\ \A i \in DOMAIN form.conditions : form.conditions[i].test # None
    /\ form' = [form EXCEPT !.busy = TRUE, !.inList = @ \/ form.filter = None]
    /\ IF form.filter = None
       THEN /\ orphan' = attributes /\ UNCHANGED list
            /\ Send("create", None, attributes, TRUE, TRUE)
       ELSE /\ list' = IF form.inList THEN [list EXCEPT ![form.filter] = attributes] ELSE list
            /\ Send("update", form.filter, attributes, form.inList, TRUE)
            /\ UNCHANGED orphan
    /\ UNCHANGED <<store, nextId, removal, counters>>

\* events:filters:toggle sends the whole model, and waits with the change of the flag.
Click == form = None /\ removal = None /\ clicks < MaxClicks /\ clicks' = clicks + 1

Toggle(f) ==
    /\ Click /\ list[f] # None
    /\ Send("update", f, Attributes(~list[f].enabled, list[f].conditions), TRUE, FALSE)
    /\ UNCHANGED <<store, nextId, pageVars, forms, edits>>

ToggleOrphan ==
    /\ Click /\ orphan # None
    /\ Send("create", None, Attributes(~orphan.enabled, orphan.conditions), TRUE, FALSE)
    /\ UNCHANGED <<store, nextId, pageVars, forms, edits>>

AskRemoval(f) ==
    /\ Click /\ list[f] # None
    /\ removal' = f
    /\ UNCHANGED <<store, nextId, list, orphan, form, requests, forms, edits>>

ConfirmRemoval ==
    /\ removal # None
    /\ Send("remove", removal, Attributes(FALSE, <<>>), TRUE, FALSE)
    /\ UNCHANGED <<store, nextId, pageVars, counters>>

CancelRemoval ==
    /\ removal # None /\ removal' = None
    /\ UNCHANGED <<store, nextId, list, orphan, form, requests, counters>>

-----------------------------------------------------------------------------
(* EventFiltersService *)

Ids(conditions) == {conditions[i].id : i \in DOMAIN conditions} \ {None}
Added(conditions) ==
    LET new == Part(conditions, {i \in DOMAIN conditions : conditions[i].id = None}) IN
    [i \in DOMAIN new |-> [new[i] EXCEPT !.id = nextId + i - 1]]

\* Mutant: conditions that were not sent stay, too.
UpdatedKeepsAll(stored, sent) ==
    [i \in DOMAIN stored |->
        LET same == {j \in DOMAIN sent : sent[j].id = stored[i].id} IN
        IF same = {} THEN stored[i]
        ELSE Condition(stored[i].id, sent[CHOOSE j \in same : TRUE].field, Last(sent).test)] \o Added(sent)

\* updateEventFilter(): conditions whose id was sent stay, the others go, and those without an
\* id are added.  The loop over what was sent has no braces: the field is the one sent for
\* the condition, the type and the value are those of the last condition that was sent.
Updated(stored, sent) ==
    LET kept == Part(stored, {i \in DOMAIN stored : stored[i].id \in Ids(sent)})
        field(c) == sent[CHOOSE i \in DOMAIN sent : sent[i].id = c.id].field IN
    [i \in DOMAIN kept |-> Condition(kept[i].id, field(kept[i]), Last(sent).test)] \o Added(sent)

\* createEventFilter(): the flag is not among its parameters.
Created(sent) == Attributes(TRUE, Added(sent))

Unused == {f \in Filters \ Existing : store[f] = None /\ list[f] = None}

Stored(r, f, attributes) ==
    /\ store' = [store EXCEPT ![f] = attributes]
    /\ nextId' = nextId + Len(Added(r.conditions))

\* What the page does with the answer: the model of the request takes it over, an orphan gets
\* its id, also for a form that holds it; the handler of a form closes the form that is open.
Heard(r, f, attributes) ==
    /\ IF r.inList
       THEN /\ list' = [list EXCEPT ![f] = attributes]
            /\ orphan' = IF r.what = "create" THEN None ELSE orphan
       ELSE UNCHANGED <<list, orphan>>
    /\ form' = IF r.closes \/ form = None THEN None
               ELSE IF r.what = "create" /\ r.inList /\ form.inList /\ form.filter = None
               THEN [form EXCEPT !.filter = f] ELSE form
    /\ removal' = IF r.what = "remove" THEN None ELSE removal

Accepted(r, f, attributes, heard) ==
    /\ Stored(r, f, attributes)
    /\ requests' = requests \ {r}
    /\ IF heard THEN Heard(r, f, attributes) ELSE UNCHANGED pageVars
    /\ UNCHANGED counters

ServeCreate(r, heard) ==
    /\ r.what = "create" /\ Unused # {}
    /\ Accepted(r, CHOOSE f \in Unused : TRUE, Created(r.conditions), heard)

ServeUpdate(r, heard) ==
    /\ r.what = "update" /\ store[r.filter] # None
    /\ Accepted(r, r.filter, Attributes(r.enabled, Updated(store[r.filter].conditions, r.conditions)), heard)

ServeRemove(r, heard) ==
    /\ r.what = "remove" /\ store[r.filter] # None
    /\ Accepted(r, r.filter, None, heard)

\* No handler of errors: buttons stay disabled, an orphan stays in the list.
Refused(r) ==
    /\ requests' = requests \ {r}
    /\ UNCHANGED <<store, nextId, pageVars, counters>>

\* A fetch or an update replaces the list; what forms and requests hold is detached.
Refresh ==
    /\ list' = store /\ orphan' = None
    /\ form' = IF form = None THEN None ELSE [form EXCEPT !.inList = FALSE]
    /\ requests' = {[r EXCEPT !.inList = FALSE] : r \in requests}
    /\ UNCHANGED <<store, nextId, removal, counters>>

\* Another user removes a filter, or its first condition.
SomebodySaves(f) ==
    /\ store[f] # None /\ clicks < MaxClicks /\ clicks' = clicks + 1
    /\ store' = [store EXCEPT ![f] = IF store[f].conditions = <<>> THEN None
                                     ELSE Attributes(store[f].enabled, Tail(store[f].conditions))]
    /\ UNCHANGED <<nextId, pageVars, requests, forms, edits>>

Serve(r) == \E heard \in BOOLEAN : ServeCreate(r, heard) \/ ServeUpdate(r, heard) \/ ServeRemove(r, heard)

Next ==
    \/ OpenNew \/ OpenOrphan \/ CloseForm \/ AddCondition \/ Save
    \/ ToggleOrphan \/ ConfirmRemoval \/ CancelRemoval \/ Refresh
    \/ \E f \in Filters : OpenListed(f) \/ Toggle(f) \/ AskRemoval(f) \/ SomebodySaves(f)
    \/ \E i \in 1..MaxConditions : \/ RemoveCondition(i)
                                   \/ \E field \in Fields : ChangeAttribute(i, field)
                                   \/ \E test \in Tests : ChangeValue(i, test)
    \/ \E r \in requests : Serve(r) \/ Refused(r)

Spec == Init /\ [][Next]_filterVars

-----------------------------------------------------------------------------
(* Properties *)

Conditions == [id : Nat \cup {None}, field : Fields, test : Tests \cup {None}]
MaybeFilter == {None} \cup [enabled : BOOLEAN, conditions : Seq(Conditions)]

TypeOK ==
    /\ \A f \in Filters : store[f] \in MaybeFilter /\ list[f] \in MaybeFilter
    /\ orphan \in MaybeFilter /\ removal \in Filters \cup {None}
    /\ form # None => form.filter \in Filters \cup {None} /\ form.conditions \in Seq(Conditions)
    /\ \A f \in Filters : store[f] # None => None \notin Range([i \in DOMAIN store[f].conditions |-> store[f].conditions[i].id])

\* An update leaves as many conditions as were sent, with their fields and in their order,
\* and the last of them as it was sent - if no condition has been removed by someone else.
StoredAsSent ==
    [][\A r \in requests \ requests' :
         r.what = "update" /\ store[r.filter] # None /\ store' # store
            /\ Ids(r.conditions) \subseteq Ids(store[r.filter].conditions) =>
         LET result == store'[r.filter].conditions IN
         /\ Len(result) = Len(r.conditions)
         /\ \A i \in DOMAIN result : result[i].field = r.conditions[i].field
         /\ result # <<>> => Last(result).test = Last(r.conditions).test]_filterVars

\* "Array specifying a list of filter conditions.  Each item is another array specifying
\* condition data": a condition has a test for its field.  Does not hold.
OwnTest ==
    \A f \in Filters : store[f] # None =>
        \A i \in DOMAIN store[f].conditions :
            store[f].conditions[i].test[1] = store[f].conditions[i].field
=============================================================================
