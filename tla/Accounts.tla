------------------------------ MODULE Accounts ------------------------------
(***************************************************************************)
(* Users and divisions: the lists and forms of the web interface, and what *)
(* the services make of their requests.  Membership is part of both a user *)
(* and a division, and of the page's copies of the two, which are renewed  *)
(* for different reasons: by answers, by fetches of one list, and by the   *)
(* updates of the page, which hold the tables whose timestamp is new.      *)
(***************************************************************************)
EXTENDS Naturals, FiniteSets

CONSTANTS
    Users, Admin,   \* users, and the first of them, who is logged in
    Divisions,
    None,           \* nothing: no form, no such user or division, no contact
    Unset,          \* "** select **"
    MaxClicks,      \* bound: forms that are opened, changes in them, removals, and changes by
                    \* another administrator
    MaxAsks         \* bound: requests under way

ASSUME AccountAssumption ==
    /\ MaxClicks \in Nat /\ MaxAsks \in Nat
    /\ None \notin Divisions
    /\ None \notin [domain : {"local", "ldap"}, divisions : SUBSET Divisions]

VARIABLES
    account,        \* at the server: "local", "ldap", or None
    division,       \* at the server: members and the user who is told of events, or None
    spent,          \* ids that were given
    stamps,         \* tables that have changed since the last update of the page
    users, divs, contacts, orphan,  \* the collections of the page, and a division in
                    \* the list that has no id
    form,
    asks,
    clicks,         \* counter for the bound
    dropped, added, \* history: members removed in forms, or by somebody else, or added so
    refused,        \* history: the server has missed a password
    hasty           \* history: a form was opened while answers were awaited, or when
                    \* the page did not know of the latest accounts

serverVars == <<account, division, spent, stamps>>
pageVars == <<users, divs, contacts, orphan>>
historyVars == <<clicks, dropped, added, refused, hasty>>
accountVars == <<serverVars, pageVars, form, asks, historyVars>>

\* What the server answers when it is asked for a list.
MembersOf(d) == IF division[d] = None THEN {} ELSE division[d].members
AllUsers == [u \in Users |-> IF account[u] = None THEN None
                             ELSE [domain |-> account[u], divisions |-> {d \in Divisions : u \in MembersOf(d)}]]
AllDivisions == [d \in Divisions |-> IF division[d] = None THEN None ELSE division[d].members]
AllContacts == [d \in Divisions |-> IF division[d] = None THEN None ELSE division[d].contact]

Init ==
    /\ \E U \in {S \in SUBSET Users : Admin \in S}, domain \in {"local", "ldap"} :
         LET first == CHOOSE d \in Divisions : TRUE IN
         /\ account = [u \in Users |-> IF u = Admin THEN "local" ELSE IF u \in U THEN domain ELSE None]
         /\ division = [d \in Divisions |-> IF d = first THEN [members |-> U, contact |-> Admin] ELSE None]
         /\ spent = U \cup {first}
    /\ stamps = {} /\ users = AllUsers /\ divs = AllDivisions /\ contacts = AllContacts
    /\ orphan = None /\ form = None /\ asks = {}
    /\ clicks = 0 /\ dropped = {} /\ added = {}
    /\ refused = FALSE /\ hasty = FALSE

-----------------------------------------------------------------------------
(* Forms *)

Click == clicks < MaxClicks /\ clicks' = clicks + 1

Known == {u \in Users : users[u] # None}

\* A form that is opened while an answer is awaited may be replaced by it.
Open(new) ==
    /\ form = None /\ Click
    /\ form' = [new EXCEPT !.n = clicks']
    /\ hasty' = (hasty \/ asks # {} \/ \E u \in Known : users[u].domain # account[u])
    /\ UNCHANGED <<serverVars, pageVars, asks, dropped, added, refused>>

\* Mutant: a form starts without members.
DivisionFormEmpty(d, members, contact) ==
    [kind |-> "division", n |-> 0, busy |-> FALSE, id |-> d, members |-> {}, contact |-> None]

\* getUserCollection() leaves out users that the page does not know; a contact can only be
\* one of those that are left.
DivisionForm(d, members, contact) ==
    [kind |-> "division", n |-> 0, busy |-> FALSE, id |-> d, members |-> members \cap Known,
     contact |-> IF contact \in (members \cap Known) \cup {None} THEN contact ELSE Unset]

OpenDivision(d) == divs[d] # None /\ Open(DivisionForm(d, divs[d], contacts[d]))
OpenOrphan == orphan # None /\ Open(DivisionForm(None, orphan, None))
NewDivision == orphan = None /\ Open(DivisionForm(None, {}, None))

\* Mutant: an account that exists has one.
LocalOrNot(u) == u # None

\* refreshPasswordFields(): a password is asked for unless the account has one.
Local(u) == u # None /\ users[u] # None /\ users[u].domain = "local"
UserForm(u, domain) ==
    [kind |-> "user", n |-> 0, busy |-> FALSE, id |-> u, domain |-> domain,
     password |-> FALSE, required |-> ~Local(u)]

\* getDivisionList() takes the names of the divisions, which have to be known.
OpenUser(u) == /\ u \in Known /\ \A d \in users[u].divisions : divs[d] # None
               /\ Open(UserForm(u, users[u].domain))
NewUser == Open(UserForm(None, "local"))

Edit(kind, changed) ==
    /\ form # None /\ form.kind = kind /\ ~form.busy
    /\ Click
    /\ form' = changed
    /\ UNCHANGED <<serverVars, pageVars, asks, added, refused, hasty>>

\* A member who leaves is no option for the contact any more.
AddMember(u) ==
    /\ Edit("division", [form EXCEPT !.members = @ \cup {u}]) /\ UNCHANGED dropped
    /\ u \in Known \ form.members
\* Mutant: the contact stays selected.
RemoveMemberOnly(u) ==
    /\ Edit("division", [form EXCEPT !.members = @ \ {u}])
    /\ u \in form.members /\ dropped' = dropped \cup {<<form.id, u>>}

RemoveMember(u) ==
    /\ Edit("division", [form EXCEPT !.members = @ \ {u}, !.contact = IF @ = u THEN Unset ELSE @])
    /\ u \in form.members /\ dropped' = dropped \cup {<<form.id, u>>}

\* A contact is added, chosen again, or removed.
ChooseContact(c) ==
    /\ Edit("division", [form EXCEPT !.contact = c]) /\ UNCHANGED dropped
    /\ c \in (form.members \cup {None}) \ {form.contact}

ChooseDomain(domain) ==
    /\ Edit("user", [form EXCEPT !.domain = domain, !.required = ~Local(form.id),
                                 !.password = @ /\ domain = "local"])
    /\ UNCHANGED dropped /\ form.id # Admin /\ domain # form.domain
TypePassword ==
    /\ Edit("user", [form EXCEPT !.password = TRUE]) /\ UNCHANGED dropped
    /\ form.domain = "local" /\ ~form.password

\* The cancel button, or the menu while the buttons are disabled.
Leave == form # None /\ form' = None /\ UNCHANGED <<serverVars, pageVars, asks, historyVars>>

-----------------------------------------------------------------------------
(* Requests *)

Ask(request) == Cardinality(asks) < MaxAsks /\ asks' = asks \cup {request}

\* A new division joins the list before it is saved, and save() sets the attributes of the
\* model at once.
SaveDivision ==
    /\ form # None /\ form.kind = "division" /\ ~form.busy /\ form.contact # Unset
    /\ Ask([what |-> "division", n |-> form.n, id |-> form.id, members |-> form.members,
            contact |-> form.contact])
    /\ orphan' = IF form.id = None THEN form.members ELSE orphan
    /\ divs' = [d \in Divisions |-> IF d = form.id /\ divs[d] # None THEN form.members ELSE divs[d]]
    /\ form' = [form EXCEPT !.busy = TRUE]
    /\ UNCHANGED <<serverVars, users, contacts, historyVars>>

SaveUser ==
    /\ form # None /\ form.kind = "user" /\ ~form.busy
    /\ form.domain = "local" /\ form.required => form.password
    /\ Ask([what |-> "user", n |-> form.n, id |-> form.id, domain |-> form.domain,
            password |-> form.password])
    /\ form' = [form EXCEPT !.busy = TRUE]
    /\ UNCHANGED <<serverVars, pageVars, historyVars>>

\* Dialogs, confirmed.  The list may have got new models since the one of a user was opened.
RemoveUser(u, listed) ==
    /\ form = None /\ u \in Known \ {Admin} /\ Click
    /\ Ask([what |-> "removeUser", n |-> 0, id |-> u, listed |-> listed])
    /\ UNCHANGED <<serverVars, pageVars, form, dropped, added, refused, hasty>>

RemoveDivision(d) ==
    /\ form = None /\ divs[d] # None /\ Click
    /\ Ask([what |-> "removeDivision", n |-> 0, id |-> d])
    /\ UNCHANGED <<serverVars, pageVars, form, dropped, added, refused, hasty>>

-----------------------------------------------------------------------------
(* The services, and what the page does with their answers *)

\* EntityUpdateSubscriber: members are a part of users.
Stamps(d, old, new, renamed) ==
    (IF renamed THEN {"divisions"} ELSE {})
    \cup (IF old.members # new.members THEN {"users"} ELSE {})
    \cup (IF old.contact # new.contact THEN {"contacts"} ELSE {})

Nobody == [members |-> {}, contact |-> None]
Exist(S) == {u \in S : account[u] # None}

Stored(r, d, old, renamed) ==
    LET new == [members |-> Exist(r.members), contact |-> r.contact] IN
    /\ division' = [division EXCEPT ![d] = new]
    /\ stamps' = stamps \cup Stamps(d, old, new, renamed)
    /\ spent' = spent \cup {d}
    /\ asks' = asks \ {r}
    /\ form' = None                         \* accounts:show
    /\ UNCHANGED <<account, users, contacts, historyVars>>

\* createDivision() refuses users that do not exist, updateDivision() skips them; both
\* refuse such a contact.  The model of the request takes over the answer.
CreateDivision(r) ==
    /\ r.what = "division" /\ r.id = None /\ r.contact \in Exist(Users) \cup {None}
    /\ r.members = Exist(r.members)
    /\ Divisions \ spent # {}
    /\ LET d == CHOOSE d \in Divisions \ spent : TRUE IN
       /\ Stored(r, d, Nobody, TRUE)
       /\ divs' = IF orphan # None THEN [divs EXCEPT ![d] = r.members] ELSE divs
    /\ orphan' = None

UpdateDivision(r, renamed) ==
    /\ r.what = "division" /\ r.id # None /\ r.contact \in Exist(Users) \cup {None}
    /\ division[r.id] # None
    /\ Stored(r, r.id, division[r.id], renamed)
    /\ divs' = [divs EXCEPT ![r.id] = IF @ = None THEN None ELSE Exist(r.members)]
    /\ UNCHANGED orphan

\* A local account needs a password: if none is sent, the one it has.
HasPassword(r) == r.domain = "ldap" \/ r.password \/ (r.id # None /\ account[r.id] = "local")

Exists(u) == u # None => account[u] # None

\* On success the list of users is fetched, and the form is left only then.
UserSaved(r) ==
    LET u == IF r.id # None THEN r.id ELSE CHOOSE u \in Users \ spent : TRUE IN
    /\ r.what = "user" /\ HasPassword(r)
    /\ Exists(r.id) /\ (r.id = None => Users \ spent # {})
    /\ account' = [account EXCEPT ![u] = r.domain]
    /\ spent' = spent \cup {u} /\ stamps' = stamps \cup {"users"}
    /\ asks' = (asks \ {r}) \cup {[what |-> "fetchUsers", n |-> r.n]}
    /\ UNCHANGED <<division, pageVars, form, historyVars>>

UsersFetched(r) ==
    /\ r.what = "fetchUsers"
    /\ users' = AllUsers /\ asks' = asks \ {r} /\ form' = None
    /\ UNCHANGED <<serverVars, divs, contacts, orphan, historyVars>>

\* A user goes with what refers to him; the page forgets the model, wherever it is.
UserRemoved(r) ==
    LET u == r.id
        without(d) == [members |-> division[d].members \ {u},
                       contact |-> IF division[d].contact = u THEN None ELSE division[d].contact] IN
    /\ r.what = "removeUser" /\ account[r.id] # None
    /\ account' = [account EXCEPT ![u] = None]
    /\ division' = [d \in Divisions |-> IF division[d] = None THEN None ELSE without(d)]
    /\ stamps' = stamps \cup {"users"}
                        \cup IF AllContacts' # AllContacts THEN {"contacts"} ELSE {}
    /\ users' = IF r.listed THEN [users EXCEPT ![u] = None] ELSE users
    /\ form' = IF r.listed /\ form # None /\ form.kind = "division"
               THEN [form EXCEPT !.members = @ \ {u}, !.contact = IF @ = u THEN Unset ELSE @]
               ELSE form
    /\ asks' = asks \ {r}
    /\ UNCHANGED <<spent, divs, contacts, orphan, historyVars>>

\* deleteDivision() touches no user.  The list is fetched, without what has no id.
DivisionRemoved(r) ==
    /\ r.what = "removeDivision" /\ division[r.id] # None
    /\ division' = [division EXCEPT ![r.id] = None]
    /\ stamps' = stamps \cup {"divisions"}
                        \cup IF division[r.id].contact # None THEN {"contacts"} ELSE {}
    /\ asks' = (asks \ {r}) \cup {[what |-> "fetchDivisions", n |-> 0]}
    /\ UNCHANGED <<account, spent, pageVars, form, historyVars>>

DivisionsFetched(r) ==
    /\ r.what = "fetchDivisions"
    /\ divs' = AllDivisions /\ orphan' = None /\ asks' = asks \ {r}
    /\ UNCHANGED <<serverVars, users, contacts, form, historyVars>>

\* A name that exists, a password that is missing, a connection that breaks: forms can be
\* sent again, and lists stay as they are.
Fails(r) ==
    /\ asks' = asks \ {r}
    /\ form' = IF form # None /\ form.n = r.n /\ r.what # "fetchUsers"
               THEN [form EXCEPT !.busy = FALSE] ELSE form
    /\ refused' = (refused \/ (r.what = "user" /\ Exists(r.id) /\ ~HasPassword(r)))
    /\ UNCHANGED <<serverVars, pageVars, clicks, dropped, added, hasty>>

\* fetchUpdates: collections take over what has changed.
Update ==
    /\ stamps # {} /\ stamps' = {}
    /\ users' = IF "users" \in stamps THEN AllUsers ELSE users
    /\ divs' = IF "divisions" \in stamps THEN AllDivisions ELSE divs
    /\ orphan' = IF "divisions" \in stamps THEN None ELSE orphan
    /\ contacts' = IF "contacts" \in stamps THEN AllContacts ELSE contacts
    /\ UNCHANGED <<account, division, spent, form, asks, historyVars>>

\* Another administrator lets a user join or leave a division.
SomebodyAssigns(d, u) ==
    /\ Click
    /\ division[d] # None /\ account[u] # None
    /\ LET joins == u \notin division[d].members IN
       /\ division' = [division EXCEPT ![d] =
                         [members |-> IF joins THEN @.members \cup {u} ELSE @.members \ {u},
                          contact |-> IF @.contact = u THEN None ELSE @.contact]]
       /\ added' = IF joins THEN added \cup {<<d, u>>} ELSE added
       /\ dropped' = IF joins THEN dropped ELSE dropped \cup {<<d, u>>}
       /\ stamps' = stamps \cup Stamps(d, division[d], division'[d], FALSE)
    /\ UNCHANGED <<account, spent, pageVars, form, asks, refused, hasty>>

Serve(r) ==
    \/ CreateDivision(r) \/ UserSaved(r) \/ UsersFetched(r) \/ UserRemoved(r)
    \/ DivisionRemoved(r) \/ DivisionsFetched(r) \/ Fails(r)
    \/ \E renamed \in BOOLEAN : UpdateDivision(r, renamed)

Next ==
    \/ OpenOrphan \/ NewDivision \/ NewUser \/ TypePassword \/ Leave
    \/ SaveDivision \/ SaveUser \/ Update
    \/ \E d \in Divisions : OpenDivision(d) \/ RemoveDivision(d)
    \/ \E u \in Users : OpenUser(u) \/ AddMember(u) \/ RemoveMember(u)
    \/ \E u \in Users, listed \in BOOLEAN : RemoveUser(u, listed)
    \/ \E c \in Users \cup {None} : ChooseContact(c)
    \/ \E domain \in {"local", "ldap"} : ChooseDomain(domain)
    \/ \E r \in asks : Serve(r)
    \/ \E d \in Divisions, u \in Users : SomebodyAssigns(d, u)

Spec == Init /\ [][Next]_accountVars

-----------------------------------------------------------------------------
(* Properties *)

TypeOK ==
    /\ account \in [Users -> {"local", "ldap", None}]
    /\ division \in [Divisions -> {None} \cup [members : SUBSET Users, contact : Users \cup {None}]]
    /\ stamps \subseteq {"users", "divisions", "contacts"}
    /\ users \in [Users -> {None} \cup [domain : {"local", "ldap"}, divisions : SUBSET Divisions]]
    /\ divs \in [Divisions -> {None} \cup SUBSET Users]
    /\ clicks \in 0..MaxClicks /\ {refused, hasty} \subseteq BOOLEAN

\* Forms send all members of a division.  Nobody loses his membership for it, but those who
\* were removed in a form or by somebody else, and those whom somebody else has added: the
\* page is not told of them.  Of two forms that overlap, the one that is served last wins.
MembersStay ==
    [][\A d \in Divisions, u \in Users :
         (division[d] # None /\ u \in division[d].members /\ division'[d] # None /\ account'[u] # None
            /\ u \notin division'[d].members)
         => hasty \/ <<d, u>> \in dropped' \cup added]_accountVars

\* Events of a division are told to members only.
ContactsAreMembers ==
    \A d \in Divisions : division[d] # None => division[d].contact \in division[d].members \cup {None}

\* The forms ask for each password that the server will miss, unless they are opened while
\* other requests are under way, or when the page has missed an answer.
PasswordsAreAsked == refused => hasty
=============================================================================
