--------------------------- MODULE AccountsProofs ---------------------------
(***************************************************************************)
(* Proofs about Accounts, for any users, divisions and bounds: types, that *)
(* the contact of a division is one of its members, that forms ask for the *)
(* passwords which the server will miss, and that saving a form takes      *)
(* nobody's membership by mistake.                                         *)
(***************************************************************************)
EXTENDS Accounts, TLAPS

DivisionForms == [kind : {"division"}, n : Nat, busy : BOOLEAN, id : Divisions \cup {None},
                  members : SUBSET Users, contact : Users \cup {None, Unset}]
UserForms == [kind : {"user"}, n : Nat, busy : BOOLEAN, id : Users \cup {None},
              domain : {"local", "ldap"}, password : BOOLEAN, required : BOOLEAN]

DivisionRequests == [what : {"division"}, n : Nat, id : Divisions \cup {None},
                     members : SUBSET Users, contact : Users \cup {None}]
UserRequests == [what : {"user"}, n : Nat, id : Users \cup {None},
                 domain : {"local", "ldap"}, password : BOOLEAN]
UserRemovals == [what : {"removeUser"}, n : Nat, id : Users, listed : BOOLEAN]
DivisionRemovals == [what : {"removeDivision"}, n : Nat, id : Divisions]
Fetches == [what : {"fetchUsers", "fetchDivisions"}, n : Nat]

\* Types of what TypeOK leaves out.
FormOK == form # None => form \in DivisionForms \cup UserForms
AsksOK == asks \subseteq DivisionRequests \cup UserRequests \cup UserRemovals
                           \cup DivisionRemovals \cup Fetches

Types == TypeOK /\ FormOK /\ AsksOK /\ (orphan # None => orphan \subseteq Users)

\* A contact is chosen among the members, and is sent with them.
FormContact ==
    form # None /\ form.kind = "division" => form.contact \in form.members \cup {None, Unset}
AskedContacts ==
    \A r \in asks : r.what = "division" => r.contact \in r.members \cup {None}

IInv == Types /\ FormContact /\ AskedContacts /\ ContactsAreMembers

-----------------------------------------------------------------------------
(* Forms and requests *)

\* The kind of a form and what a request asks for tell which fields it has.
LEMMA Kinds ==
    ASSUME Types
    PROVE  /\ form # None /\ form.kind = "division" => form \in DivisionForms
           /\ form # None /\ form.kind = "user" => form \in UserForms
           /\ \A r \in asks : /\ r.what = "division" => r \in DivisionRequests
                              /\ r.what = "user" => r \in UserRequests
                              /\ r.what = "removeUser" => r \in UserRemovals
                              /\ r.what = "removeDivision" => r \in DivisionRemovals
                              /\ r.n \in Nat
BY DEF Types, FormOK, AsksOK, DivisionForms, UserForms, DivisionRequests, UserRequests,
       UserRemovals, DivisionRemovals, Fetches

\* The answers of the server.
LEMMA Lists ==
    ASSUME TypeOK
    PROVE  /\ AllUsers \in [Users -> {None} \cup [domain : {"local", "ldap"}, divisions : SUBSET Divisions]]
           /\ AllDivisions \in [Divisions -> {None} \cup SUBSET Users]
<1>1. \A u \in Users : account[u] # None => account[u] \in {"local", "ldap"}
    BY DEF TypeOK
<1>2. QED
    BY <1>1 DEF TypeOK, AllUsers, AllDivisions

\* Steps that only open, change or leave a form.
LEMMA OpenStep ==
    ASSUME IInv, NEW new, Open(new),
           new \in DivisionForms \cup UserForms,
           new.kind = "division" => new.contact \in new.members \cup {None, Unset}
    PROVE  IInv'
<1>1. clicks' \in 0..MaxClicks
    BY AccountAssumption DEF Open, Click, IInv, Types, TypeOK
<1>2. form' \in DivisionForms \cup UserForms
    BY <1>1 DEF Open, DivisionForms, UserForms
<1>3. form'.kind = new.kind /\ (new.kind = "division" => form'.contact = new.contact /\ form'.members = new.members)
    BY DEF Open, DivisionForms, UserForms
<1>4. hasty' \in BOOLEAN
    BY DEF Open, IInv, Types, TypeOK
<1>5. Types'
    BY <1>1, <1>2, <1>4 DEF Open, IInv, Types, TypeOK, FormOK, AsksOK, serverVars, pageVars
<1>6. FormContact' /\ AskedContacts' /\ ContactsAreMembers'
    BY <1>2, <1>3 DEF Open, IInv, FormContact, AskedContacts, ContactsAreMembers, serverVars
<1>7. QED
    BY <1>5, <1>6 DEF IInv

LEMMA OpenDivisionForm ==
    ASSUME IInv, NEW d \in Divisions \cup {None}, NEW members, NEW contact,
           Open(DivisionForm(d, members, contact))
    PROVE  IInv'
<1> DEFINE new == DivisionForm(d, members, contact)
<1>1. new \in DivisionForms /\ new.kind = "division"
    BY DEF DivisionForm, DivisionForms, Known
<1>2. new.contact \in new.members \cup {None, Unset}
    BY DEF DivisionForm
<1>3. QED
    BY <1>1, <1>2, OpenStep

LEMMA OpenUserForm ==
    ASSUME IInv, NEW u \in Users \cup {None}, NEW domain \in {"local", "ldap"},
           Open(UserForm(u, domain))
    PROVE  IInv'
<1>1. Local(u) \in BOOLEAN
    BY DEF Local
<1>2. UserForm(u, domain) \in UserForms /\ UserForm(u, domain).kind = "user"
    BY <1>1 DEF UserForm, UserForms
<1>3. QED
    BY <1>2, OpenStep

LEMMA Opens ==
    ASSUME IInv,
           \/ OpenOrphan \/ NewDivision \/ NewUser
           \/ \E d \in Divisions : OpenDivision(d)
           \/ \E u \in Users : OpenUser(u)
    PROVE  IInv'
<1>1. ASSUME NEW u \in Users, OpenUser(u) PROVE IInv'
    <2>1. users[u].domain \in {"local", "ldap"}
        BY <1>1 DEF OpenUser, Known, IInv, Types, TypeOK
    <2>2. QED
        BY <1>1, <2>1, OpenUserForm DEF OpenUser
<1>2. QED
    BY <1>1, OpenDivisionForm, OpenUserForm DEF OpenOrphan, NewDivision, NewUser, OpenDivision

\* Changes of a form keep the kind of it, and its contact a member.
LEMMA EditStep ==
    ASSUME IInv, NEW kind, NEW changed, Edit(kind, changed),
           changed \in DivisionForms \cup UserForms,
           changed.kind = "division" => changed.contact \in changed.members \cup {None, Unset}
    PROVE  IInv'
<1>1. clicks' \in 0..MaxClicks
    BY AccountAssumption DEF Edit, Click, IInv, Types, TypeOK
<1>2. Types'
    BY <1>1 DEF Edit, IInv, Types, TypeOK, FormOK, AsksOK, serverVars, pageVars
<1>3. FormContact' /\ AskedContacts' /\ ContactsAreMembers'
    BY DEF Edit, IInv, FormContact, AskedContacts, ContactsAreMembers, serverVars
<1>4. QED
    BY <1>2, <1>3 DEF IInv

LEMMA Edits ==
    ASSUME IInv,
           \/ TypePassword
           \/ \E u \in Users : AddMember(u) \/ RemoveMember(u)
           \/ \E c \in Users \cup {None} : ChooseContact(c)
           \/ \E domain \in {"local", "ldap"} : ChooseDomain(domain)
    PROVE  IInv'
<1> USE Kinds DEF IInv
<1>1. ASSUME NEW u \in Users, AddMember(u) PROVE IInv'
    <2> DEFINE new == [form EXCEPT !.members = @ \cup {u}]
    <2>1. form \in DivisionForms /\ form.kind = "division"
        BY <1>1 DEF AddMember, Edit
    <2>2. new \in DivisionForms /\ new.contact = form.contact /\ new.members = form.members \cup {u}
        BY <2>1 DEF DivisionForms
    <2>3. QED
        BY <1>1, <2>1, <2>2, EditStep DEF AddMember, FormContact, Edit
<1>2. ASSUME NEW u \in Users, RemoveMember(u) PROVE IInv'
    <2> DEFINE new == [form EXCEPT !.members = @ \ {u}, !.contact = IF @ = u THEN Unset ELSE @]
    <2>1. form \in DivisionForms /\ form.kind = "division"
        BY <1>2 DEF RemoveMember, Edit
    <2>2. /\ new \in DivisionForms /\ new.members = form.members \ {u}
          /\ new.contact = IF form.contact = u THEN Unset ELSE form.contact
        BY <2>1 DEF DivisionForms
    <2>3. QED
        BY <1>2, <2>1, <2>2, EditStep DEF RemoveMember, FormContact, Edit
<1>3. ASSUME NEW c \in Users \cup {None}, ChooseContact(c) PROVE IInv'
    <2> DEFINE new == [form EXCEPT !.contact = c]
    <2>1. form \in DivisionForms /\ form.kind = "division"
        BY <1>3 DEF ChooseContact, Edit
    <2>2. new \in DivisionForms /\ new.members = form.members /\ new.contact = c
        BY <2>1 DEF DivisionForms
    <2>3. QED
        BY <1>3, <2>1, <2>2, EditStep DEF ChooseContact
<1>4. ASSUME NEW domain \in {"local", "ldap"}, ChooseDomain(domain) PROVE IInv'
    <2> DEFINE new == [form EXCEPT !.domain = domain, !.required = ~Local(form.id),
                                   !.password = @ /\ domain = "local"]
    <2>1. form \in UserForms /\ form.kind = "user"
        BY <1>4 DEF ChooseDomain, Edit
    <2>2. (form.password /\ domain = "local") \in BOOLEAN
        BY <2>1, SMT DEF UserForms
    <2>3. (~Local(form.id)) \in BOOLEAN
        BY SMT DEF Local
    <2>4. new \in UserForms /\ new.kind = "user"
        BY <2>1, <2>2, <2>3, Zenon DEF UserForms
    <2>5. QED
        BY <1>4, <2>4, EditStep DEF ChooseDomain
<1>5. CASE TypePassword
    <2> DEFINE new == [form EXCEPT !.password = TRUE]
    <2>1. form \in UserForms /\ form.kind = "user"
        BY <1>5 DEF TypePassword, Edit
    <2>2. new \in UserForms /\ new.kind = "user"
        BY <2>1, Zenon DEF UserForms
    <2>3. QED
        BY <1>5, <2>2, EditStep DEF TypePassword
<1>6. QED
    BY <1>1, <1>2, <1>3, <1>4, <1>5

-----------------------------------------------------------------------------
(* Requests *)

LEMMA Asks ==
    ASSUME IInv,
           \/ SaveDivision \/ SaveUser \/ \E d \in Divisions : RemoveDivision(d)
           \/ \E u \in Users, listed \in BOOLEAN : RemoveUser(u, listed)
    PROVE  IInv'
<1> USE Kinds DEF IInv
<1>1. CASE SaveDivision
    <2> DEFINE r == [what |-> "division", n |-> form.n, id |-> form.id, members |-> form.members,
                     contact |-> form.contact]
    <2>1. /\ form \in DivisionForms /\ form.kind = "division" /\ asks' = asks \cup {r}
          /\ form.contact \in form.members \cup {None} /\ form.contact # Unset
        BY <1>1 DEF SaveDivision, FormContact, Ask
    <2>2. r \in DivisionRequests /\ r.what = "division" /\ r.contact \in r.members \cup {None}
        BY <2>1 DEF DivisionForms, DivisionRequests
    <2>3. form' \in DivisionForms /\ form'.contact = form.contact /\ form'.members = form.members
        BY <1>1, <2>1, Zenon DEF SaveDivision, DivisionForms
    <2>4. orphan' # None => orphan' \subseteq Users
        BY <1>1, <2>1 DEF SaveDivision, DivisionForms, Types
    <2>5. divs' \in [Divisions -> {None} \cup SUBSET Users]
        BY <1>1, <2>1 DEF SaveDivision, DivisionForms, Types, TypeOK
    <2>6. Types'
        BY <1>1, <2>1, <2>2, <2>3, <2>4, <2>5
           DEF SaveDivision, Types, TypeOK, FormOK, AsksOK, serverVars, historyVars
    <2>7. FormContact' /\ AskedContacts' /\ ContactsAreMembers'
        BY <1>1, <2>1, <2>2, <2>3
           DEF SaveDivision, FormContact, AskedContacts, ContactsAreMembers, serverVars
    <2>8. QED
        BY <2>6, <2>7
<1>2. CASE SaveUser
    <2> DEFINE r == [what |-> "user", n |-> form.n, id |-> form.id, domain |-> form.domain,
                     password |-> form.password]
    <2>1. form \in UserForms /\ form.kind = "user" /\ asks' = asks \cup {r}
        BY <1>2 DEF SaveUser, Ask
    <2>2. r \in UserRequests /\ r.what = "user"
        BY <2>1 DEF UserForms, UserRequests
    <2>3. form' \in UserForms /\ form'.kind = "user"
        BY <1>2, <2>1, Zenon DEF SaveUser, UserForms
    <2>4. Types'
        BY <1>2, <2>1, <2>2, <2>3
           DEF SaveUser, Types, TypeOK, FormOK, AsksOK, serverVars, pageVars, historyVars
    <2>5. FormContact' /\ AskedContacts' /\ ContactsAreMembers'
        BY <1>2, <2>1, <2>2, <2>3
           DEF SaveUser, FormContact, AskedContacts, ContactsAreMembers, serverVars
    <2>6. QED
        BY <2>4, <2>5
<1>3. ASSUME NEW r \in UserRemovals \cup DivisionRemovals, Click, Ask(r),
             UNCHANGED <<serverVars, pageVars, form, dropped, added, refused, hasty>>
      PROVE  IInv'
    <2>1. asks' = asks \cup {r} /\ r.what # "division"
        BY <1>3 DEF Ask, UserRemovals, DivisionRemovals
    <2>2. clicks' \in 0..MaxClicks
        BY <1>3, AccountAssumption DEF Click, Types, TypeOK
    <2>3. Types'
        BY <1>3, <2>1, <2>2 DEF Types, TypeOK, FormOK, AsksOK, serverVars, pageVars
    <2>4. FormContact' /\ AskedContacts' /\ ContactsAreMembers'
        BY <1>3, <2>1 DEF FormContact, AskedContacts, ContactsAreMembers, serverVars
    <2>5. QED
        BY <2>3, <2>4
<1>4. ASSUME NEW u \in Users, NEW listed \in BOOLEAN, RemoveUser(u, listed) PROVE IInv'
    <2>1. [what |-> "removeUser", n |-> 0, id |-> u, listed |-> listed] \in UserRemovals
        BY DEF UserRemovals
    <2>2. QED
        BY <1>3, <1>4, <2>1 DEF RemoveUser
<1>5. ASSUME NEW d \in Divisions, RemoveDivision(d) PROVE IInv'
    <2>1. [what |-> "removeDivision", n |-> 0, id |-> d] \in DivisionRemovals
        BY DEF DivisionRemovals
    <2>2. QED
        BY <1>3, <1>5, <2>1 DEF RemoveDivision
<1>6. QED
    BY <1>1, <1>2, <1>4, <1>5

-----------------------------------------------------------------------------
(* The services *)

\* What is stored has a contact among those members that exist.
LEMMA StoredStep ==
    ASSUME IInv, NEW r \in DivisionRequests, r \in asks, NEW d \in Divisions, NEW old, NEW renamed,
           r.what = "division", r.contact \in Exist(Users) \cup {None},
           Stored(r, d, old, renamed),
           divs' \in [Divisions -> {None} \cup SUBSET Users],
           orphan' # None => orphan' \subseteq Users
    PROVE  IInv'
<1> DEFINE new == [members |-> Exist(r.members), contact |-> r.contact]
<1>1. new.contact \in new.members \cup {None}
    <2>1. r.contact \in r.members \cup {None}
        BY DEF IInv, AskedContacts
    <2>2. QED
        BY <2>1 DEF Exist
<1>2. new \in [members : SUBSET Users, contact : Users \cup {None}]
    BY DEF DivisionRequests, Exist
<1>3. /\ division' = [division EXCEPT ![d] = new]
      /\ asks' \subseteq asks /\ form' = None
    BY DEF Stored
<1>4. \A e \in Divisions : division'[e] = division[e] \/ division'[e] = new
    BY <1>3 DEF IInv, Types, TypeOK
<1>5. division' \in [Divisions -> {None} \cup [members : SUBSET Users, contact : Users \cup {None}]]
    BY <1>2, <1>3 DEF IInv, Types, TypeOK
<1>6. stamps' \subseteq {"users", "divisions", "contacts"}
    BY DEF Stored, Stamps, IInv, Types, TypeOK
<1>7. Types'
    BY <1>3, <1>5, <1>6 DEF Stored, IInv, Types, TypeOK, FormOK, AsksOK, historyVars
<1>8. FormContact' /\ AskedContacts' /\ ContactsAreMembers'
    BY <1>1, <1>3, <1>4 DEF IInv, FormContact, AskedContacts, ContactsAreMembers
<1>9. QED
    BY <1>7, <1>8 DEF IInv

LEMMA DivisionSaved ==
    ASSUME IInv, NEW r \in asks,
           CreateDivision(r) \/ \E renamed \in BOOLEAN : UpdateDivision(r, renamed)
    PROVE  IInv'
<1>1. CASE CreateDivision(r)
    <2> DEFINE d == CHOOSE d \in Divisions \ spent : TRUE
    <2>1. d \in Divisions /\ Stored(r, d, Nobody, TRUE)
        BY <1>1 DEF CreateDivision
    <2>2. r \in DivisionRequests
        BY <1>1, Kinds DEF CreateDivision, IInv
    <2>3. divs' \in [Divisions -> {None} \cup SUBSET Users]
        <3>1. divs' = divs \/ divs' = [divs EXCEPT ![d] = r.members]
            BY <1>1 DEF CreateDivision
        <3>2. r.members \in SUBSET Users
            BY <2>2 DEF DivisionRequests
        <3>3. QED
            BY <3>1, <3>2 DEF IInv, Types, TypeOK
    <2>4. QED
        BY <1>1, <2>1, <2>2, <2>3, StoredStep DEF CreateDivision
<1>2. ASSUME NEW renamed \in BOOLEAN, UpdateDivision(r, renamed) PROVE IInv'
    <2>1. r \in DivisionRequests /\ r.id \in Divisions
        BY <1>2, Kinds DEF UpdateDivision, IInv, DivisionRequests
    <2>2. divs' \in [Divisions -> {None} \cup SUBSET Users]
        BY <1>2, <2>1 DEF UpdateDivision, DivisionRequests, Exist, IInv, Types, TypeOK
    <2>3. orphan' # None => orphan' \subseteq Users
        BY <1>2 DEF UpdateDivision, IInv, Types
    <2>4. QED
        BY <1>2, <2>1, <2>2, <2>3, StoredStep DEF UpdateDivision
<1>3. QED
    BY <1>1, <1>2

LEMMA UsersServed ==
    ASSUME IInv, NEW r \in asks, UserSaved(r) \/ UsersFetched(r) \/ UserRemoved(r)
    PROVE  IInv'
<1> USE DEF IInv
<1>1. CASE UserSaved(r)
    <2> DEFINE u == IF r.id # None THEN r.id ELSE CHOOSE u \in Users \ spent : TRUE
               fetch == [what |-> "fetchUsers", n |-> r.n]
    <2>1. r \in UserRequests
        BY <1>1, Kinds DEF UserSaved
    <2>2. fetch \in Fetches /\ fetch.what # "division" /\ asks' \subseteq asks \cup {fetch}
        BY <1>1, <2>1 DEF UserSaved, UserRequests, Fetches
    <2>3. account' \in [Users -> {"local", "ldap", None}]
        BY <1>1, <2>1 DEF UserSaved, UserRequests, Types, TypeOK
    <2>4. Types'
        BY <1>1, <2>2, <2>3 DEF UserSaved, Types, TypeOK, FormOK, AsksOK, pageVars, historyVars
    <2>5. FormContact' /\ AskedContacts' /\ ContactsAreMembers'
        BY <1>1, <2>2 DEF UserSaved, FormContact, AskedContacts, ContactsAreMembers
    <2>6. QED
        BY <2>4, <2>5
<1>2. CASE UsersFetched(r)
    <2>1. Types'
        BY <1>2, Lists DEF UsersFetched, Types, TypeOK, FormOK, AsksOK, serverVars, historyVars
    <2>2. FormContact' /\ AskedContacts' /\ ContactsAreMembers'
        BY <1>2 DEF UsersFetched, FormContact, AskedContacts, ContactsAreMembers, serverVars
    <2>3. QED
        BY <2>1, <2>2
<1>3. CASE UserRemoved(r)
    <2> DEFINE without(d) ==
                 [members |-> division[d].members \ {r.id},
                  contact |-> IF division[d].contact = r.id THEN None ELSE division[d].contact]
    <2>1. r \in UserRemovals /\ r.id \in Users
        BY <1>3, Kinds DEF UserRemoved, UserRemovals
    <2>2. account' \in [Users -> {"local", "ldap", None}]
        BY <1>3 DEF UserRemoved, Types, TypeOK
    <2>3. \A d \in Divisions : division[d] # None =>
            /\ without(d) \in [members : SUBSET Users, contact : Users \cup {None}]
            /\ without(d).contact \in without(d).members \cup {None}
        BY DEF Types, TypeOK, ContactsAreMembers
    <2>4. division' = [d \in Divisions |-> IF division[d] = None THEN None ELSE without(d)]
        BY <1>3 DEF UserRemoved
    <2>5. division' \in [Divisions -> {None} \cup [members : SUBSET Users, contact : Users \cup {None}]]
        BY <2>3, <2>4
    <2>6. ContactsAreMembers'
        BY <2>3, <2>4 DEF ContactsAreMembers
    <2>7. stamps' \subseteq {"users", "divisions", "contacts"}
        BY <1>3 DEF UserRemoved, Types, TypeOK
    <2>8. users' \in [Users -> {None} \cup [domain : {"local", "ldap"}, divisions : SUBSET Divisions]]
        BY <1>3 DEF UserRemoved, Types, TypeOK
    <2>9. FormOK' /\ FormContact'
        <3>1. CASE form # None /\ form.kind = "division" /\ r.listed
            <4>1. form \in DivisionForms
                BY <3>1, Kinds
            <4>2. form' = [form EXCEPT !.members = @ \ {r.id},
                                       !.contact = IF @ = r.id THEN Unset ELSE @]
                BY <1>3, <3>1 DEF UserRemoved
            <4>3. /\ form' \in DivisionForms /\ form'.members = form.members \ {r.id}
                  /\ form'.contact = IF form.contact = r.id THEN Unset ELSE form.contact
                BY <4>1, <4>2 DEF DivisionForms
            <4>4. QED
                BY <3>1, <4>3 DEF FormOK, FormContact
        <3>2. CASE ~(form # None /\ form.kind = "division" /\ r.listed)
            BY <1>3, <3>2 DEF UserRemoved, Types, FormOK, FormContact
        <3>3. QED
            BY <3>1, <3>2
    <2>10. Types'
        BY <1>3, <2>2, <2>5, <2>7, <2>8, <2>9 DEF UserRemoved, Types, TypeOK, AsksOK, historyVars
    <2>11. AskedContacts'
        BY <1>3 DEF UserRemoved, AskedContacts
    <2>12. QED
        BY <2>6, <2>9, <2>10, <2>11
<1>4. QED
    BY <1>1, <1>2, <1>3

LEMMA DivisionsServed ==
    ASSUME IInv, NEW r \in asks, DivisionRemoved(r) \/ DivisionsFetched(r) \/ Fails(r)
    PROVE  IInv'
<1> USE DEF IInv
<1>1. CASE DivisionRemoved(r)
    <2> DEFINE fetch == [what |-> "fetchDivisions", n |-> 0]
    <2>1. fetch \in Fetches /\ fetch.what # "division" /\ asks' \subseteq asks \cup {fetch}
        BY <1>1 DEF DivisionRemoved, Fetches
    <2>2. division' \in [Divisions -> {None} \cup [members : SUBSET Users, contact : Users \cup {None}]]
        BY <1>1 DEF DivisionRemoved, Types, TypeOK
    <2>3. Types'
        BY <1>1, <2>1, <2>2 DEF DivisionRemoved, Types, TypeOK, FormOK, AsksOK, pageVars, historyVars
    <2>4. FormContact' /\ AskedContacts' /\ ContactsAreMembers'
        BY <1>1, <2>1
           DEF DivisionRemoved, FormContact, AskedContacts, ContactsAreMembers, Types, TypeOK
    <2>5. QED
        BY <2>3, <2>4
<1>2. CASE DivisionsFetched(r)
    <2>1. Types'
        BY <1>2, Lists DEF DivisionsFetched, Types, TypeOK, FormOK, AsksOK, serverVars, historyVars
    <2>2. FormContact' /\ AskedContacts' /\ ContactsAreMembers'
        BY <1>2 DEF DivisionsFetched, FormContact, AskedContacts, ContactsAreMembers, serverVars
    <2>3. QED
        BY <2>1, <2>2
<1>3. CASE Fails(r)
    <2>1. FormOK' /\ FormContact'
        <3>1. CASE form' = form
            BY <3>1 DEF Types, FormOK, FormContact
        <3>2. CASE form # None /\ form' = [form EXCEPT !.busy = FALSE]
            <4>1. CASE form \in DivisionForms
                <5>1. form' \in DivisionForms
                    BY <3>2, <4>1, Zenon DEF DivisionForms
                <5>2. form'.contact = form.contact /\ form'.members = form.members
                    BY <3>2, <4>1 DEF DivisionForms
                <5>3. form.kind = "division"
                    BY <4>1 DEF DivisionForms
                <5>4. QED
                    BY <3>2, <5>1, <5>2, <5>3 DEF FormOK, FormContact
            <4>2. CASE form \in UserForms
                <5>1. form' \in UserForms
                    BY <3>2, <4>2, Zenon DEF UserForms
                <5>2. form'.kind = "user"
                    BY <5>1 DEF UserForms
                <5>3. QED
                    BY <5>1, <5>2 DEF FormOK, FormContact
            <4>3. QED
                BY <3>2, <4>1, <4>2 DEF Types, FormOK
        <3>3. QED
            BY <1>3, <3>1, <3>2 DEF Fails
    <2>2. refused' \in BOOLEAN
        BY <1>3 DEF Fails, Types, TypeOK
    <2>3. Types'
        BY <1>3, <2>1, <2>2 DEF Fails, Types, TypeOK, AsksOK, serverVars, pageVars
    <2>4. AskedContacts' /\ ContactsAreMembers'
        BY <1>3 DEF Fails, AskedContacts, ContactsAreMembers, serverVars
    <2>5. QED
        BY <2>1, <2>3, <2>4
<1>4. QED
    BY <1>1, <1>2, <1>3

LEMMA PageSteps ==
    ASSUME IInv, Update \/ Leave \/ UNCHANGED accountVars
    PROVE  IInv'
<1> USE DEF IInv
<1>1. CASE Update
    <2>1. /\ users' \in [Users -> {None} \cup [domain : {"local", "ldap"}, divisions : SUBSET Divisions]]
          /\ divs' \in [Divisions -> {None} \cup SUBSET Users]
        BY <1>1, Lists DEF Update, Types, TypeOK
    <2>2. Types'
        BY <1>1, <2>1 DEF Update, Types, TypeOK, FormOK, AsksOK, historyVars
    <2>3. QED
        BY <1>1, <2>2 DEF Update, FormContact, AskedContacts, ContactsAreMembers
<1>2. CASE Leave
    BY <1>2 DEF Leave, Types, TypeOK, FormOK, AsksOK, FormContact, AskedContacts,
                ContactsAreMembers, serverVars, pageVars, historyVars
<1>3. CASE UNCHANGED accountVars
    BY <1>3 DEF Types, TypeOK, FormOK, AsksOK, FormContact, AskedContacts,
                ContactsAreMembers, accountVars, serverVars, pageVars, historyVars
<1>4. QED
    BY <1>1, <1>2, <1>3

LEMMA OthersStep ==
    ASSUME IInv, NEW d \in Divisions, NEW u \in Users, SomebodyAssigns(d, u)
    PROVE  IInv'
<1> USE DEF IInv
<1> DEFINE members == IF u \notin division[d].members THEN division[d].members \cup {u}
                                                     ELSE division[d].members \ {u}
           contact == IF division[d].contact = u THEN None ELSE division[d].contact
<1>1. /\ division[d] \in [members : SUBSET Users, contact : Users \cup {None}]
      /\ division[d].contact \in division[d].members \cup {None}
    BY DEF SomebodyAssigns, Types, TypeOK, ContactsAreMembers
<1>2. division' = [division EXCEPT ![d] = [members |-> members, contact |-> contact]]
    BY DEF SomebodyAssigns
<1>3. /\ [members |-> members, contact |-> contact]
            \in [members : SUBSET Users, contact : Users \cup {None}]
      /\ contact \in members \cup {None}
    BY <1>1
<1>4. division' \in [Divisions -> {None} \cup [members : SUBSET Users, contact : Users \cup {None}]]
    BY <1>2, <1>3 DEF Types, TypeOK
<1>5. ContactsAreMembers'
    BY <1>2, <1>3, Zenon DEF ContactsAreMembers, Types, TypeOK
<1>6. stamps' \subseteq {"users", "divisions", "contacts"} /\ clicks' \in 0..MaxClicks
    BY AccountAssumption DEF SomebodyAssigns, Stamps, Click, Types, TypeOK
<1>7. Types'
    BY <1>4, <1>6 DEF SomebodyAssigns, Types, TypeOK, FormOK, AsksOK, pageVars
<1>8. FormContact' /\ AskedContacts'
    BY DEF SomebodyAssigns, FormContact, AskedContacts, pageVars
<1>9. QED
    BY <1>5, <1>7, <1>8

-----------------------------------------------------------------------------
(* Theorems *)

LEMMA InvInit == Init => IInv
<1> SUFFICES ASSUME Init PROVE IInv
    OBVIOUS
<1>1. PICK U \in {S \in SUBSET Users : Admin \in S}, domain \in {"local", "ldap"} :
        LET first == CHOOSE d \in Divisions : TRUE IN
        /\ account = [u \in Users |-> IF u = Admin THEN "local" ELSE IF u \in U THEN domain ELSE None]
        /\ division = [d \in Divisions |-> IF d = first THEN [members |-> U, contact |-> Admin] ELSE None]
    BY DEF Init
<1>2. account \in [Users -> {"local", "ldap", None}]
    BY <1>1
<1>3. /\ division \in [Divisions -> {None} \cup [members : SUBSET Users, contact : Users \cup {None}]]
      /\ ContactsAreMembers
    BY <1>1 DEF ContactsAreMembers
<1>4. AllUsers \in [Users -> {None} \cup [domain : {"local", "ldap"}, divisions : SUBSET Divisions]]
    BY <1>2, <1>3 DEF AllUsers
<1>5. AllDivisions \in [Divisions -> {None} \cup SUBSET Users]
    BY <1>3 DEF AllDivisions
<1>6. /\ stamps = {} /\ users = AllUsers /\ divs = AllDivisions
      /\ orphan = None /\ form = None /\ asks = {} /\ clicks = 0
      /\ refused = FALSE /\ hasty = FALSE
    BY DEF Init
<1>8. TypeOK
    <2>1. clicks \in 0..MaxClicks
        BY <1>6, AccountAssumption
    <2>2. QED
        BY <1>2, <1>3, <1>4, <1>5, <1>6, <2>1 DEF TypeOK
<1>9. FormOK /\ AsksOK
    BY <1>6 DEF FormOK, AsksOK
<1>10. Types
    BY <1>6, <1>8, <1>9 DEF Types
<1>11. QED
    BY <1>3, <1>6, <1>10 DEF IInv, FormContact, AskedContacts

LEMMA InvStep == IInv /\ [Next]_accountVars => IInv'
<1>1. ASSUME IInv, NEW r \in asks, Serve(r) PROVE IInv'
    BY <1>1, DivisionSaved, UsersServed, DivisionsServed DEF Serve
<1>2. QED
    BY <1>1, Opens, Edits, Asks, PageSteps, OthersStep DEF Next

\* The server and the page hold what the services and the forms put there.
THEOREM TypeCorrect == Spec => []TypeOK
BY InvInit, InvStep, PTL DEF Spec, IInv, Types

\* Nobody gets the events of a division but its members: not by forms that lose a member
\* or its contact, by overlapping saves, or by removals.
THEOREM ContactsStayMembers == Spec => []ContactsAreMembers
BY InvInit, InvStep, PTL DEF Spec, IInv

-----------------------------------------------------------------------------
(* Passwords *)

\* The list of users tells the kinds of the accounts.
ListTells == \A u \in Known : users[u].domain = account[u]

\* A request without a password is for an account that has one, or is gone by now.
NeedsNone(u) == u # None /\ account[u] \in {"local", None}

AskedFor ==
    /\ \A r, s \in asks : r.what = "user" /\ s.what = "user" => r = s
    /\ \A r \in asks :
         r.what = "user" /\ r.domain = "local" /\ ~r.password => NeedsNone(r.id)

\* A user's form that can still be sent: it was not yet, or may fail.
Sendable == ~form.busy \/ \E r \in asks : r.what = "user"

\* While the form of a user is open, there is no request but its own.
UserFormAsks ==
    form # None /\ form.kind = "user" =>
      /\ \A r, s \in asks : r = s
      /\ \A r \in asks : r.what \in {"user", "fetchUsers"}
      /\ ~form.busy => asks = {}
      /\ Sendable => ListTells /\ (~form.required => NeedsNone(form.id))

PasswordInv == ~hasty => ~refused /\ AskedFor /\ UserFormAsks

\* Steps that change none of this.
LEMMA SamePasswords ==
    ASSUME PasswordInv, UNCHANGED <<account, users, form, asks, refused, hasty>>
    PROVE  PasswordInv'
BY DEF PasswordInv, AskedFor, UserFormAsks, Sendable, ListTells, NeedsNone, Known

\* Other forms than those of users have nothing to do with passwords.
LEMMA OtherForms ==
    ASSUME PasswordInv, UNCHANGED <<account, refused, hasty>>,
           \A r \in asks' : r \in asks \/ r.what # "user",
           form' # None => form'.kind # "user"
    PROVE  PasswordInv'
BY DEF PasswordInv, AskedFor, UserFormAsks, NeedsNone

\* A form that is opened when nothing is awaited finds a list that is right.
LEMMA OpenAsks ==
    ASSUME Types, PasswordInv,
           \/ OpenOrphan \/ NewDivision \/ NewUser
           \/ \E d \in Divisions : OpenDivision(d)
           \/ \E u \in Users : OpenUser(u)
    PROVE  PasswordInv'
<1>1. ASSUME NEW new, Open(new),
             new.kind = "user" /\ ListTells => (~new.required => NeedsNone(new.id)),
             new \in DivisionForms \cup UserForms
      PROVE  PasswordInv'
    <2> SUFFICES ASSUME ~hasty' PROVE (~refused /\ AskedFor /\ UserFormAsks)'
        BY DEF PasswordInv
    <2>1. ~hasty /\ asks = {} /\ ListTells
        BY <1>1 DEF Open, ListTells, Types, TypeOK
    <2>2. /\ form'.kind = new.kind
          /\ new.kind = "user" => form'.required = new.required /\ form'.id = new.id
        BY <1>1 DEF Open, DivisionForms, UserForms
    <2>3. UNCHANGED <<account, users, asks, refused>>
        BY <1>1 DEF Open, serverVars, pageVars
    <2>4. (~refused /\ AskedFor)'
        BY <2>1, <2>3 DEF AskedFor, PasswordInv
    <2>5. ListTells' /\ \A u : NeedsNone(u)' = NeedsNone(u)
        BY <2>1, <2>3 DEF ListTells, Known, NeedsNone
    <2>6. UserFormAsks'
        <3> SUFFICES ASSUME form' # None, form'.kind = "user"
                     PROVE  asks' = {} /\ (ListTells /\ (~form.required => NeedsNone(form.id)))'
            BY DEF UserFormAsks
        <3>1. ~new.required => NeedsNone(new.id)
            BY <1>1, <2>1, <2>2
        <3>2. NeedsNone(form.id)' = NeedsNone(new.id)
            BY <2>2, <2>3 DEF NeedsNone
        <3>3. QED
            BY <2>1, <2>2, <2>3, <2>5, <3>1, <3>2
    <2>7. QED
        BY <2>4, <2>6
<1>2. ASSUME NEW u \in Users \cup {None}, NEW domain \in {"local", "ldap"},
             Open(UserForm(u, domain))
      PROVE  PasswordInv'
    <2>1. UserForm(u, domain) \in UserForms
        <3>1. (~Local(u)) \in BOOLEAN
            BY DEF Local
        <3>2. QED
            BY <3>1 DEF UserForm, UserForms
    <2>2. UserForm(u, domain).required = ~Local(u) /\ UserForm(u, domain).id = u
        BY DEF UserForm
    <2>3. ListTells /\ Local(u) => NeedsNone(u)
        BY DEF ListTells, Local, NeedsNone, Known
    <2>4. QED
        BY <1>1, <1>2, <2>1, <2>2, <2>3
<1>3. ASSUME NEW d, NEW members, NEW contact, d \in Divisions \cup {None},
             Open(DivisionForm(d, members, contact))
      PROVE  PasswordInv'
    <2>1. /\ DivisionForm(d, members, contact) \in DivisionForms
          /\ DivisionForm(d, members, contact).kind # "user"
        BY <1>3 DEF DivisionForm, DivisionForms, Known
    <2>2. QED
        BY <1>1, <1>3, <2>1
<1>4. ASSUME NEW u \in Users, OpenUser(u) PROVE PasswordInv'
    <2>1. users[u].domain \in {"local", "ldap"}
        BY <1>4 DEF OpenUser, Known, Types, TypeOK
    <2>2. QED
        BY <1>2, <1>4, <2>1 DEF OpenUser
<1>5. QED
    BY <1>2, <1>3, <1>4 DEF OpenOrphan, NewDivision, NewUser, OpenDivision

\* Changes of a form: choosing the kind of account asks for the password again.
LEMMA EditAsks ==
    ASSUME Types, PasswordInv,
           \/ TypePassword
           \/ \E u \in Users : AddMember(u) \/ RemoveMember(u)
           \/ \E c \in Users \cup {None} : ChooseContact(c)
           \/ \E domain \in {"local", "ldap"} : ChooseDomain(domain)
    PROVE  PasswordInv'
<1>1. ASSUME NEW changed, Edit("division", changed), changed.kind = "division"
      PROVE  PasswordInv'
    BY <1>1, OtherForms DEF Edit, serverVars
<1>2. ASSUME NEW changed, Edit("user", changed), changed.kind = "user", changed.busy = form.busy,
             ListTells => (~changed.required => NeedsNone(changed.id))
      PROVE  PasswordInv'
    <2> SUFFICES ASSUME ~hasty' PROVE (~refused /\ AskedFor /\ UserFormAsks)'
        BY DEF PasswordInv
    <2>1. UNCHANGED <<account, users, asks, refused, hasty>>
        BY <1>2 DEF Edit, serverVars, pageVars
    <2>2. /\ ~refused /\ AskedFor /\ asks = {} /\ ListTells
        BY <1>2, <2>1 DEF Edit, PasswordInv, UserFormAsks, Sendable
    <2>3. (~refused /\ AskedFor)' /\ ListTells'
        BY <2>1, <2>2 DEF AskedFor, ListTells, Known
    <2>4. form' = changed
        BY <1>2 DEF Edit
    <2>5. UserFormAsks'
        BY <1>2, <2>1, <2>2, <2>3, <2>4 DEF UserFormAsks, NeedsNone
    <2>6. QED
        BY <2>3, <2>5
<1>3. ASSUME NEW u \in Users, AddMember(u) PROVE PasswordInv'
    <2>1. form \in DivisionForms
        BY <1>3, Kinds DEF AddMember, Edit
    <2>2. [form EXCEPT !.members = @ \cup {u}].kind = "division"
        BY <2>1 DEF DivisionForms
    <2>3. QED
        BY <1>1, <1>3, <2>2 DEF AddMember
<1>4. ASSUME NEW u \in Users, RemoveMember(u) PROVE PasswordInv'
    <2>1. form \in DivisionForms
        BY <1>4, Kinds DEF RemoveMember, Edit
    <2>2. [form EXCEPT !.members = @ \ {u}, !.contact = IF @ = u THEN Unset ELSE @].kind = "division"
        BY <2>1 DEF DivisionForms
    <2>3. QED
        BY <1>1, <1>4, <2>2 DEF RemoveMember
<1>5. ASSUME NEW c \in Users \cup {None}, ChooseContact(c) PROVE PasswordInv'
    <2>1. form \in DivisionForms
        BY <1>5, Kinds DEF ChooseContact, Edit
    <2>2. [form EXCEPT !.contact = c].kind = "division"
        BY <2>1 DEF DivisionForms
    <2>3. QED
        BY <1>1, <1>5, <2>2 DEF ChooseContact
<1>6. ASSUME NEW domain \in {"local", "ldap"}, ChooseDomain(domain) PROVE PasswordInv'
    <2> DEFINE new == [form EXCEPT !.domain = domain, !.required = ~Local(form.id),
                                   !.password = @ /\ domain = "local"]
    <2>1. form \in UserForms /\ Edit("user", new)
        BY <1>6, Kinds DEF ChooseDomain, Edit
    <2>2. /\ new.kind = "user" /\ new.busy = form.busy
          /\ new.required = ~Local(form.id) /\ new.id = form.id /\ form.id \in Users \cup {None}
        BY <2>1 DEF UserForms
    <2>3. ListTells /\ Local(form.id) => NeedsNone(form.id)
        BY <2>2 DEF ListTells, Local, NeedsNone, Known
    <2> HIDE DEF new
    <2>4. QED
        BY <1>2, <2>1, <2>2, <2>3
<1>7. CASE TypePassword
    <2> DEFINE new == [form EXCEPT !.password = TRUE]
    <2>1. form \in UserForms /\ Edit("user", new) /\ ~form.busy /\ form # None /\ form.kind = "user"
        BY <1>7, Kinds DEF TypePassword, Edit
    <2>2. /\ new.kind = "user" /\ new.busy = form.busy
          /\ new.required = form.required /\ new.id = form.id
        BY <2>1 DEF UserForms
    <2>3. CASE ~hasty
        <3>1. ~form.required => NeedsNone(form.id)
            BY <2>1, <2>3 DEF PasswordInv, UserFormAsks, Sendable
        <3>2. QED
            BY <1>2, <2>1, <2>2, <3>1
    <2>4. CASE hasty
        BY <2>1, <2>4 DEF Edit, PasswordInv
    <2>5. QED
        BY <2>3, <2>4
<1>8. QED
    BY <1>3, <1>4, <1>5, <1>6, <1>7

\* A form without a password is sent only if the account needs none.
LEMMA SaveUserAsks ==
    ASSUME Types, PasswordInv, SaveUser
    PROVE  PasswordInv'
<1> SUFFICES ASSUME ~hasty' PROVE (~refused /\ AskedFor /\ UserFormAsks)'
    BY DEF PasswordInv
<1> DEFINE r == [what |-> "user", n |-> form.n, id |-> form.id, domain |-> form.domain,
                 password |-> form.password]
<1>1. /\ UNCHANGED <<account, users, refused, hasty>>
      /\ form \in UserForms /\ form # None /\ form.kind = "user" /\ ~form.busy
      /\ asks' = asks \cup {r} /\ form' = [form EXCEPT !.busy = TRUE]
      /\ form.domain = "local" /\ form.required => form.password
    BY Kinds DEF SaveUser, Ask, serverVars, pageVars, historyVars
<1>2. ~refused /\ asks = {} /\ ListTells /\ (~form.required => NeedsNone(form.id))
    BY <1>1 DEF PasswordInv, UserFormAsks, Sendable
<1>3. asks' = {r} /\ r.what = "user" /\ r.domain = form.domain /\ r.password = form.password /\ r.id = form.id
    BY <1>1, <1>2
<1>4. /\ form'.kind = "user" /\ form'.busy = TRUE /\ form'.required = form.required
      /\ form'.id = form.id
    BY <1>1 DEF UserForms
<1> HIDE DEF r
<1>5. (~refused)' /\ AskedFor'
    BY <1>1, <1>2, <1>3 DEF AskedFor, NeedsNone
<1>6. ListTells'
    BY <1>1, <1>2 DEF ListTells, Known
<1>7. UserFormAsks'
    BY <1>1, <1>2, <1>3, <1>4, <1>6 DEF UserFormAsks, NeedsNone
<1>8. QED
    BY <1>5, <1>7

\* The answers.  Nothing but the form's own request changes an account while it is open.
LEMMA ServedAsks ==
    ASSUME Types, PasswordInv, NEW r \in asks, Serve(r)
    PROVE  PasswordInv'
<1>1. CASE CreateDivision(r) \/ \E renamed \in BOOLEAN : UpdateDivision(r, renamed)
    BY <1>1, OtherForms DEF CreateDivision, UpdateDivision, Stored, historyVars
<1>2. CASE UserSaved(r)
    <2> SUFFICES ASSUME ~hasty' PROVE (~refused /\ AskedFor /\ UserFormAsks)'
        BY DEF PasswordInv
    <2> DEFINE fetch == [what |-> "fetchUsers", n |-> r.n]
    <2>1. /\ UNCHANGED <<form, users, refused, hasty>> /\ r.what = "user"
          /\ asks' = (asks \ {r}) \cup {fetch} /\ fetch.what = "fetchUsers"
        BY <1>2 DEF UserSaved, pageVars, historyVars
    <2> HIDE DEF fetch
    <2>2. ~refused /\ AskedFor /\ UserFormAsks
        BY <2>1 DEF PasswordInv
    <2>3. \A q \in asks' : q.what # "user"
        BY <2>1, <2>2 DEF AskedFor
    <2>4. (~refused /\ AskedFor)'
        BY <2>1, <2>2, <2>3 DEF AskedFor
    <2>5. UserFormAsks'
        BY <2>1, <2>2, <2>3 DEF UserFormAsks, Sendable
    <2>6. QED
        BY <2>4, <2>5
<1>3. CASE UsersFetched(r) \/ (DivisionsFetched(r) /\ (form # None => form.kind # "user"))
    BY <1>3, OtherForms DEF UsersFetched, DivisionsFetched, serverVars, historyVars
<1>4. CASE DivisionRemoved(r) /\ (form # None => form.kind # "user")
    <2>1. \A q \in asks' : q \in asks \/ q.what # "user"
        BY <1>4 DEF DivisionRemoved
    <2>2. QED
        BY <1>4, <2>1, OtherForms DEF DivisionRemoved, pageVars, historyVars
<1>5. CASE UserRemoved(r) /\ (form # None => form.kind # "user")
    <2>1. /\ UNCHANGED <<refused, hasty>> /\ asks' = asks \ {r}
          /\ \A u : NeedsNone(u) /\ u \in Users => NeedsNone(u)'
        BY <1>5 DEF UserRemoved, historyVars, NeedsNone, Types, TypeOK
    <2>2. form' # None => form'.kind # "user"
        <3>1. CASE form # None /\ form.kind = "division"
            <4>1. form \in DivisionForms
                BY <3>1, Kinds
            <4>2. /\ [form EXCEPT !.members = @ \ {r.id},
                                  !.contact = IF @ = r.id THEN Unset ELSE @].kind = "division"
                BY <4>1 DEF DivisionForms
            <4>3. QED
                BY <1>5, <3>1, <4>2 DEF UserRemoved
        <3>2. CASE ~(form # None /\ form.kind = "division")
            BY <1>5, <3>2 DEF UserRemoved
        <3>3. QED
            BY <3>1, <3>2
    <2>3. \A q \in asks : q.what = "user" => q.id \in Users \cup {None}
        BY Kinds DEF UserRequests
    <2>4. ~hasty => AskedFor'
        BY <2>1, <2>3 DEF PasswordInv, AskedFor, NeedsNone
    <2>5. QED
        BY <2>1, <2>2, <2>4 DEF PasswordInv, UserFormAsks
<1>6. CASE Fails(r)
    <2> SUFFICES ASSUME ~hasty' PROVE (~refused /\ AskedFor /\ UserFormAsks)'
        BY DEF PasswordInv
    <2>1. /\ UNCHANGED <<account, users, hasty>> /\ asks' = asks \ {r}
          /\ refused' = (refused \/ (r.what = "user" /\ Exists(r.id) /\ ~HasPassword(r)))
        BY <1>6 DEF Fails, serverVars, pageVars
    <2>2. ~refused /\ AskedFor /\ UserFormAsks
        BY <2>1 DEF PasswordInv
    <2>3. ~(r.what = "user" /\ Exists(r.id) /\ ~HasPassword(r))
        <3> SUFFICES ASSUME r.what = "user", Exists(r.id), ~HasPassword(r) PROVE FALSE
            OBVIOUS
        <3>1. r \in UserRequests
            BY Kinds
        <3>2. r.domain = "local" /\ ~r.password /\ ~(r.id # None /\ account[r.id] = "local")
            BY <3>1 DEF UserRequests, HasPassword
        <3>3. QED
            BY <2>2, <3>2 DEF AskedFor, NeedsNone, Exists
    <2>4. (~refused /\ AskedFor)'
        BY <2>1, <2>2, <2>3 DEF AskedFor, NeedsNone
    <2>5. UserFormAsks'
        <3> SUFFICES ASSUME form' # None, form'.kind = "user" PROVE UserFormAsks'
            BY DEF UserFormAsks
        <3>1. /\ form # None /\ form.kind = "user" /\ form'.id = form.id
              /\ form'.required = form.required
              /\ form' = form \/ r.what # "fetchUsers"
            <4>1. form # None
                BY <1>6 DEF Fails
            <4>2. CASE form' = form
                BY <4>1, <4>2
            <4>3. CASE form' = [form EXCEPT !.busy = FALSE] /\ form' # form
                <5>1. form \in DivisionForms \cup UserForms
                    BY <4>1 DEF Types, FormOK
                <5>2. form'.kind = form.kind
                    BY <4>3, <5>1 DEF DivisionForms, UserForms
                <5>3. form \in UserForms
                    BY <4>1, <5>2, Kinds
                <5>4. form'.id = form.id /\ form'.required = form.required
                    BY <4>3, <5>3 DEF UserForms
                <5>5. QED
                    BY <1>6, <4>1, <4>3, <5>2, <5>4 DEF Fails
            <4>4. QED
                BY <1>6, <4>2, <4>3 DEF Fails
        <3>2. asks' = {} /\ \A q \in asks : q = r
            BY <2>1, <2>2, <3>1 DEF UserFormAsks
        <3>3. CASE form' = form
            <4>1. (Sendable)' => Sendable
                BY <3>2, <3>3 DEF Sendable
            <4>2. QED
                BY <2>1, <2>2, <3>1, <3>2, <3>3, <4>1 DEF UserFormAsks, ListTells, Known, NeedsNone
        <3>4. CASE form' # form
            <4>1. r.what = "user"
                BY <2>2, <3>1, <3>4 DEF UserFormAsks
            <4>2. Sendable
                BY <4>1 DEF Sendable
            <4>3. ListTells /\ (~form.required => NeedsNone(form.id))
                BY <2>2, <3>1, <4>2 DEF UserFormAsks
            <4>4. QED
                BY <2>1, <3>1, <3>2, <4>3 DEF UserFormAsks, ListTells, Known, NeedsNone
        <3>5. QED
            BY <3>3, <3>4
    <2>6. QED
        BY <2>4, <2>5
<1>7. CASE /\ DivisionsFetched(r) \/ DivisionRemoved(r) \/ UserRemoved(r)
           /\ form # None /\ form.kind = "user"
    <2>1. hasty' = hasty /\ r.what \notin {"user", "fetchUsers"}
        BY <1>7 DEF DivisionsFetched, DivisionRemoved, UserRemoved, historyVars
    <2>2. hasty
        BY <1>7, <2>1 DEF PasswordInv, UserFormAsks
    <2>3. QED
        BY <2>1, <2>2 DEF PasswordInv
<1>8. QED
    BY <1>1, <1>2, <1>3, <1>4, <1>5, <1>6, <1>7 DEF Serve

LEMMA PasswordStep ==
    ASSUME IInv, PasswordInv, [Next]_accountVars
    PROVE  PasswordInv'
<1>0. Types
    BY DEF IInv
<1>1. ASSUME NEW d \in Divisions, NEW u \in Users, SomebodyAssigns(d, u) PROVE PasswordInv'
    BY <1>1, SamePasswords DEF SomebodyAssigns, pageVars
<1>2. CASE UNCHANGED accountVars
    BY <1>2, SamePasswords DEF accountVars, serverVars, pageVars, historyVars
<1>3. CASE Update
    <2>1. UNCHANGED <<account, form, asks, refused, hasty>> /\ users' \in {AllUsers, users}
        BY <1>3 DEF Update, historyVars
    <2>2. ListTells => ListTells'
        <3>1. CASE users' = users
            BY <2>1, <3>1 DEF ListTells, Known
        <3>2. CASE users' = AllUsers
            BY <2>1, <3>2 DEF ListTells, Known, AllUsers
        <3>3. QED
            BY <2>1, <3>1, <3>2
    <2>3. QED
        BY <2>1, <2>2 DEF PasswordInv, AskedFor, UserFormAsks, Sendable, NeedsNone
<1>4. CASE Leave
    BY <1>4, OtherForms DEF Leave, serverVars, historyVars
<1>5. CASE SaveDivision
    <2>1. form \in DivisionForms
        BY <1>0, <1>5, Kinds DEF SaveDivision
    <2>2. [form EXCEPT !.busy = TRUE].kind = "division"
        BY <2>1 DEF DivisionForms
    <2>3. \A q \in asks' : q \in asks \/ q.what # "user"
        BY <1>5 DEF SaveDivision, Ask
    <2>4. QED
        BY <1>5, <2>2, <2>3, OtherForms DEF SaveDivision, serverVars, historyVars
<1>6. ASSUME NEW u \in Users, NEW listed \in BOOLEAN, RemoveUser(u, listed) PROVE PasswordInv'
    <2>1. \A q \in asks' : q \in asks \/ q.what # "user"
        BY <1>6 DEF RemoveUser, Ask
    <2>2. QED
        BY <1>6, <2>1, OtherForms DEF RemoveUser, serverVars
<1>7. ASSUME NEW d \in Divisions, RemoveDivision(d) PROVE PasswordInv'
    <2>1. \A q \in asks' : q \in asks \/ q.what # "user"
        BY <1>7 DEF RemoveDivision, Ask
    <2>2. QED
        BY <1>7, <2>1, OtherForms DEF RemoveDivision, serverVars
<1>8. QED
    BY <1>0, <1>1, <1>2, <1>3, <1>4, <1>5, <1>6, <1>7, OpenAsks, EditAsks, SaveUserAsks, ServedAsks
       DEF Next

\* The forms ask for each password that the server will miss, unless they are opened while
\* other requests are under way, or when the page has missed an answer.
THEOREM PasswordsAreNotMissed == Spec => []PasswordsAreAsked
<1>1. Init => PasswordInv
    BY DEF Init, PasswordInv, AskedFor, UserFormAsks
<1>2. PasswordInv => PasswordsAreAsked
    BY DEF PasswordInv, PasswordsAreAsked
<1>3. QED
    BY <1>1, <1>2, InvInit, InvStep, PasswordStep, PTL DEF Spec

-----------------------------------------------------------------------------
(* Members *)

\* The membership of u in d which no form and nobody else has touched.
Stays(d, u) == /\ division[d] # None /\ u \in division[d].members /\ account[u] # None
               /\ <<d, u>> \notin dropped \cup added

\* Ids are given once, so that whom the page knows and what it sends has been there before.
Accounted == \A u \in Users : account[u] # None \/ users[u] # None => u \in spent

\* The page knows all members but those whom somebody else has added.
MembersKnown ==
    \A d \in Divisions : division[d] # None =>
      /\ d \in spent
      /\ \A u \in division[d].members :
           u \in spent /\ (account[u] # None /\ users[u] = None => <<d, u>> \in added)

\* Lists of the page, forms and requests lack nobody who stays; forms and requests name
\* nobody whom the page does not know.
ListKeeps ==
    \A d \in Divisions : divs[d] # None =>
      d \in spent /\ (~hasty => \A u \in Users : Stays(d, u) => u \in divs[d])

Keeps(id, members) ==
    /\ members \subseteq spent
    /\ \A u \in Users : account[u] # None /\ users[u] = None => u \notin members
    /\ ~hasty => \A d \in Divisions, u \in Users : id = d /\ Stays(d, u) => u \in members

FormKeeps == form # None /\ form.kind = "division" => Keeps(form.id, form.members)
RequestsKeep == \A r \in asks : r.what = "division" => Keeps(r.id, r.members)

\* There is one request of a division's form at most, and no other while the form is open.
OneAtATime ==
    ~hasty =>
      /\ \A r, s \in asks : r.what = "division" /\ s.what = "division" => r = s
      /\ form # None /\ form.kind = "division" =>
           (\A r \in asks : r.what = "division") /\ (~form.busy => asks = {})

MembersInv == Accounted /\ MembersKnown /\ ListKeeps /\ FormKeeps /\ RequestsKeep /\ OneAtATime

\* A step after which nobody stays who did not stay before, and the page knows everybody it
\* knew, but for new users.
Calm ==
    /\ spent \subseteq spent' /\ (hasty => hasty')
    /\ \A u \in Users : account'[u] # None /\ users'[u] = None =>
         (account[u] # None /\ users[u] = None) \/ u \notin spent
    /\ \A d \in Divisions, u \in Users : Stays(d, u)' => Stays(d, u)

LEMMA CalmKeeps ==
    ASSUME Calm, NEW id, NEW members, Keeps(id, members)
    PROVE  Keeps(id, members)'
BY DEF Calm, Keeps

LEMMA CalmLists == ASSUME Calm, ListKeeps, divs' = divs PROVE ListKeeps'
BY DEF Calm, ListKeeps

LEMMA CalmRequests ==
    ASSUME Calm, RequestsKeep, \A r \in asks' : r \in asks \/ r.what # "division"
    PROVE  RequestsKeep'
BY CalmKeeps DEF RequestsKeep

\* Steps of forms change nothing at the server and nothing that the page knows of users.
LEMMA PageCalm ==
    ASSUME MembersInv, UNCHANGED <<account, division, spent, users, added>>,
           dropped \subseteq dropped', hasty => hasty'
    PROVE  Calm /\ Accounted' /\ MembersKnown'
BY DEF MembersInv, Accounted, MembersKnown, Calm, Stays

LEMMA OpenMembers ==
    ASSUME Types, MembersInv,
           \/ OpenOrphan \/ NewDivision \/ NewUser
           \/ \E d \in Divisions : OpenDivision(d)
           \/ \E u \in Users : OpenUser(u)
    PROVE  MembersInv'
<1>1. ASSUME NEW new, Open(new), new \in DivisionForms \cup UserForms,
             new.kind = "division" => Keeps(new.id, new.members)
      PROVE  MembersInv'
    <2>1. /\ UNCHANGED <<account, division, spent, users, divs, asks, dropped, added>>
          /\ hasty => hasty'
          /\ ~hasty' => asks = {}
        BY <1>1 DEF Open, serverVars, pageVars
    <2>2. Calm /\ Accounted' /\ MembersKnown'
        BY <2>1, PageCalm
    <2>3. ListKeeps' /\ RequestsKeep'
        BY <2>1, <2>2, CalmLists, CalmRequests DEF MembersInv
    <2>4. /\ form'.kind = new.kind
          /\ new.kind = "division" => form'.id = new.id /\ form'.members = new.members
        BY <1>1 DEF Open, DivisionForms, UserForms
    <2>5. FormKeeps'
        <3> SUFFICES ASSUME form'.kind = "division" PROVE Keeps(form.id, form.members)'
            BY DEF FormKeeps
        <3>1. Keeps(new.id, new.members)'
            BY <1>1, <2>2, <2>4, CalmKeeps
        <3>2. QED
            BY <2>4, <3>1 DEF Keeps
    <2>6. OneAtATime'
        BY <2>1 DEF OneAtATime
    <2>7. QED
        BY <2>2, <2>3, <2>5, <2>6 DEF MembersInv
<1>2. ASSUME NEW d \in Divisions \cup {None}, NEW members, NEW contact,
             Open(DivisionForm(d, members, contact)), d = None \/ (divs[d] # None /\ members = divs[d])
      PROVE  MembersInv'
    <2> DEFINE new == DivisionForm(d, members, contact)
    <2>1. new \in DivisionForms /\ new.id = d /\ new.members = members \cap Known
        BY DEF DivisionForm, DivisionForms, Known
    <2>2. \A u \in Users : Stays(d, u) /\ d \in Divisions => u \in Known
        BY DEF Stays, MembersInv, MembersKnown, Known
    <2>3. d \in Divisions /\ ~hasty => \A u \in Users : Stays(d, u) => u \in members
        BY <1>2, AccountAssumption DEF MembersInv, ListKeeps
    <2>4. Keeps(d, members \cap Known)
        BY <2>2, <2>3 DEF Keeps, Known, MembersInv, Accounted
    <2>5. QED
        BY <1>1, <1>2, <2>1, <2>4
<1>3. ASSUME NEW u \in Users \cup {None}, NEW domain \in {"local", "ldap"},
             Open(UserForm(u, domain))
      PROVE  MembersInv'
    <2>1. (~Local(u)) \in BOOLEAN
        BY DEF Local
    <2>2. UserForm(u, domain) \in UserForms /\ UserForm(u, domain).kind # "division"
        BY <2>1 DEF UserForm, UserForms
    <2>3. QED
        BY <1>1, <1>3, <2>2
<1>4. ASSUME NEW u \in Users, OpenUser(u) PROVE MembersInv'
    <2>1. users[u].domain \in {"local", "ldap"}
        BY <1>4 DEF OpenUser, Known, Types, TypeOK
    <2>2. QED
        BY <1>3, <1>4, <2>1 DEF OpenUser
<1>5. QED
    BY <1>2, <1>3, <1>4 DEF OpenOrphan, NewDivision, NewUser, OpenDivision

\* Who is removed in a form does not stay; who is added is known.
LEMMA EditMembers ==
    ASSUME Types, MembersInv,
           \/ TypePassword
           \/ \E u \in Users : AddMember(u) \/ RemoveMember(u)
           \/ \E c \in Users \cup {None} : ChooseContact(c)
           \/ \E domain \in {"local", "ldap"} : ChooseDomain(domain)
    PROVE  MembersInv'
<1>1. ASSUME NEW kind, NEW changed, Edit(kind, changed), dropped \subseteq dropped',
             changed.kind = kind, kind = "division" => Keeps(changed.id, changed.members)'
      PROVE  MembersInv'
    <2>1. /\ UNCHANGED <<account, division, spent, users, divs, asks, added, hasty>>
          /\ form' = changed /\ form # None /\ form.kind = kind /\ ~form.busy
        BY <1>1 DEF Edit, serverVars, pageVars
    <2>2. Calm /\ Accounted' /\ MembersKnown'
        BY <1>1, <2>1, PageCalm
    <2>3. ListKeeps' /\ RequestsKeep'
        BY <2>1, <2>2, CalmLists, CalmRequests DEF MembersInv
    <2>4. FormKeeps'
        BY <1>1, <2>1 DEF FormKeeps, Keeps
    <2>5. OneAtATime'
        BY <1>1, <2>1 DEF OneAtATime, MembersInv
    <2>6. QED
        BY <2>2, <2>3, <2>4, <2>5 DEF MembersInv
<1>2. ASSUME NEW kind, NEW changed, Edit(kind, changed) PROVE dropped \subseteq dropped' => Calm
    BY <1>2, PageCalm DEF Edit, serverVars, pageVars
<1>3. ASSUME NEW u \in Users, AddMember(u) PROVE MembersInv'
    <2>1. PICK new : new = [form EXCEPT !.members = @ \cup {u}]
        OBVIOUS
    <2>2. Edit("division", new) /\ form \in DivisionForms /\ dropped' = dropped /\ u \in Known
        BY <1>3, <2>1, Kinds DEF AddMember, Edit
    <2>3. new.kind = "division" /\ new.id = form.id /\ new.members = form.members \cup {u}
        BY <2>1, <2>2 DEF DivisionForms
    <2>4. Keeps(form.id, form.members) /\ u \in spent
        BY <2>2 DEF Edit, MembersInv, FormKeeps, Accounted, Known
    <2>5. Keeps(new.id, new.members)
        BY <2>2, <2>3, <2>4 DEF Keeps, Known
    <2>6. QED
        BY <1>1, <1>2, <2>2, <2>3, <2>5, CalmKeeps
<1>4. ASSUME NEW u \in Users, RemoveMember(u) PROVE MembersInv'
    <2>1. PICK new : new = [form EXCEPT !.members = @ \ {u}, !.contact = IF @ = u THEN Unset ELSE @]
        OBVIOUS
    <2>2. /\ Edit("division", new) /\ form \in DivisionForms
          /\ dropped' = dropped \cup {<<form.id, u>>}
        BY <1>4, <2>1, Kinds DEF RemoveMember, Edit
    <2>3. new.kind = "division" /\ new.id = form.id /\ new.members = form.members \ {u}
        BY <2>1, <2>2 DEF DivisionForms
    <2>4. PICK members : members = form.members
        OBVIOUS
    <2>5. Keeps(new.id, members)
        BY <2>2, <2>3, <2>4 DEF Edit, MembersInv, FormKeeps
    <2>6. Keeps(new.id, members)'
        BY <1>2, <2>2, <2>5, CalmKeeps
    <2>7. \A d \in Divisions : Stays(d, u)' => d # new.id
        BY <2>2, <2>3 DEF Stays
    <2>8. Keeps(new.id, new.members)'
        BY <2>3, <2>4, <2>6, <2>7 DEF Keeps
    <2>9. QED
        BY <1>1, <2>2, <2>3, <2>8
<1>5. ASSUME NEW c \in Users \cup {None}, ChooseContact(c) PROVE MembersInv'
    <2>1. PICK new : new = [form EXCEPT !.contact = c]
        OBVIOUS
    <2>2. Edit("division", new) /\ form \in DivisionForms /\ dropped' = dropped
        BY <1>5, <2>1, Kinds DEF ChooseContact, Edit
    <2>3. new.kind = "division" /\ new.id = form.id /\ new.members = form.members
        BY <2>1, <2>2 DEF DivisionForms
    <2>4. Keeps(new.id, new.members)
        BY <2>2, <2>3 DEF Edit, MembersInv, FormKeeps
    <2>5. QED
        BY <1>1, <1>2, <2>2, <2>3, <2>4, CalmKeeps
<1>6. ASSUME NEW changed, Edit("user", changed), changed.kind = "user", dropped' = dropped
      PROVE  MembersInv'
    BY <1>1, <1>6
<1>7. ASSUME NEW domain \in {"local", "ldap"}, ChooseDomain(domain) PROVE MembersInv'
    <2> DEFINE new == [form EXCEPT !.domain = domain, !.required = ~Local(form.id),
                                   !.password = @ /\ domain = "local"]
    <2>1. form \in UserForms /\ Edit("user", new) /\ dropped' = dropped
        BY <1>7, Kinds DEF ChooseDomain, Edit
    <2>2. new.kind = "user"
        BY <2>1 DEF UserForms
    <2>3. QED
        BY <1>6, <2>1, <2>2
<1>8. CASE TypePassword
    <2> DEFINE new == [form EXCEPT !.password = TRUE]
    <2>1. form \in UserForms /\ Edit("user", new) /\ dropped' = dropped
        BY <1>8, Kinds DEF TypePassword, Edit
    <2>2. new.kind = "user"
        BY <2>1 DEF UserForms
    <2>3. QED
        BY <1>6, <2>1, <2>2
<1>9. QED
    BY <1>3, <1>4, <1>5, <1>7, <1>8

\* Requests are sent, and forms are left, without a change at the server.
LEMMA AskMembers ==
    ASSUME Types, MembersInv,
           \/ SaveDivision \/ SaveUser \/ Leave
           \/ \E d \in Divisions : RemoveDivision(d)
           \/ \E u \in Users, listed \in BOOLEAN : RemoveUser(u, listed)
    PROVE  MembersInv'
<1>1. ASSUME NEW r, asks' \subseteq asks \cup {r}, r.what # "division",
             form' = None \/ (form # None /\ form.kind = "user" /\ form'.kind = "user"),
             UNCHANGED <<account, division, spent, users, divs, dropped, added, hasty>>
      PROVE  MembersInv'
    <2>1. Calm /\ Accounted' /\ MembersKnown'
        BY <1>1, PageCalm
    <2>2. ListKeeps' /\ RequestsKeep' /\ FormKeeps'
        BY <1>1, <2>1, CalmLists, CalmRequests DEF MembersInv, FormKeeps
    <2>3. OneAtATime'
        BY <1>1 DEF OneAtATime, MembersInv
    <2>4. QED
        BY <2>1, <2>2, <2>3 DEF MembersInv
<1>2. CASE SaveDivision
    <2>1. PICK r : r = [what |-> "division", n |-> form.n, id |-> form.id,
                        members |-> form.members, contact |-> form.contact]
        OBVIOUS
    <2>2. /\ UNCHANGED <<account, division, spent, users, dropped, added, hasty>>
          /\ form # None /\ form.kind = "division" /\ ~form.busy /\ form \in DivisionForms
          /\ form' = [form EXCEPT !.busy = TRUE] /\ asks' = asks \cup {r}
          /\ divs' = [d \in Divisions |-> IF d = r.id /\ divs[d] # None THEN r.members ELSE divs[d]]
        BY <1>2, <2>1, Kinds DEF SaveDivision, Ask, serverVars, historyVars
    <2>3. /\ form'.kind = "division" /\ form'.id = r.id /\ form'.members = r.members
          /\ form'.busy = TRUE
        BY <2>1, <2>2 DEF DivisionForms
    <2>4. Calm /\ Accounted' /\ MembersKnown'
        BY <2>2, PageCalm
    <2>5. Keeps(r.id, r.members) /\ r.what = "division"
        BY <2>1, <2>2 DEF MembersInv, FormKeeps
    <2>6. Keeps(r.id, r.members)'
        BY <2>4, <2>5, CalmKeeps
    <2>7. FormKeeps' /\ RequestsKeep'
        <3>1. FormKeeps'
            BY <2>3, <2>6 DEF FormKeeps, Keeps
        <3>2. ASSUME NEW q \in asks', q.what = "division" PROVE Keeps(q.id, q.members)'
            <4>1. CASE q \in asks
                BY <2>4, <3>2, <4>1, CalmKeeps DEF MembersInv, RequestsKeep
            <4>2. CASE q = r
                BY <2>6, <4>2
            <4>3. QED
                BY <2>2, <4>1, <4>2
        <3>3. QED
            BY <3>1, <3>2 DEF RequestsKeep
    <2>8. ListKeeps'
        <3> SUFFICES ASSUME NEW d \in Divisions, divs'[d] # None
                     PROVE  d \in spent' /\ (~hasty' => \A u \in Users : Stays(d, u)' => u \in divs'[d])
            BY DEF ListKeeps
        <3>1. divs[d] # None
            BY <2>2
        <3>2. CASE d = r.id
            BY <2>2, <2>6, <3>1, <3>2 DEF Keeps, MembersInv, ListKeeps
        <3>3. CASE d # r.id
            BY <2>2, <2>4, <3>1, <3>3 DEF Calm, MembersInv, ListKeeps
        <3>4. QED
            BY <3>2, <3>3
    <2>9. OneAtATime'
        <3> SUFFICES ASSUME ~hasty' PROVE asks = {}
            BY <2>2, <2>3, <2>5 DEF OneAtATime
        <3>1. QED
            BY <2>2 DEF MembersInv, OneAtATime
    <2>10. QED
        BY <2>4, <2>7, <2>8, <2>9 DEF MembersInv
<1>3. CASE SaveUser
    <2>1. form \in UserForms /\ form.kind = "user"
        BY <1>3, Kinds DEF SaveUser
    <2>2. [form EXCEPT !.busy = TRUE].kind = "user"
        BY <2>1 DEF UserForms
    <2>3. PICK r : r = [what |-> "user", n |-> form.n, id |-> form.id, domain |-> form.domain,
                        password |-> form.password]
        OBVIOUS
    <2>4. r.what # "division"
        BY <2>3
    <2>5. /\ asks' = asks \cup {r} /\ form # None /\ form'.kind = "user"
          /\ UNCHANGED <<account, division, spent, users, divs, dropped, added, hasty>>
        BY <1>3, <2>2, <2>3 DEF SaveUser, Ask, serverVars, pageVars, historyVars
    <2>6. QED
        BY <1>1, <2>1, <2>4, <2>5
<1>4. CASE Leave
    <2>1. PICK r : r = [what |-> "none"]
        OBVIOUS
    <2>2. QED
        BY <1>1, <1>4, <2>1 DEF Leave, serverVars, pageVars, historyVars
<1>5. ASSUME NEW d \in Divisions, RemoveDivision(d) PROVE MembersInv'
    <2>1. PICK r : r = [what |-> "removeDivision", n |-> 0, id |-> d]
        OBVIOUS
    <2>2. r.what # "division"
        BY <2>1
    <2>3. /\ asks' = asks \cup {r} /\ form' = None
          /\ UNCHANGED <<account, division, spent, users, divs, dropped, added, hasty>>
        BY <1>5, <2>1 DEF RemoveDivision, Ask, serverVars, pageVars
    <2>4. QED
        BY <1>1, <2>2, <2>3
<1>6. ASSUME NEW u \in Users, NEW listed \in BOOLEAN, RemoveUser(u, listed) PROVE MembersInv'
    <2>1. PICK r : r = [what |-> "removeUser", n |-> 0, id |-> u, listed |-> listed]
        OBVIOUS
    <2>2. r.what # "division"
        BY <2>1
    <2>3. /\ asks' = asks \cup {r} /\ form' = None
          /\ UNCHANGED <<account, division, spent, users, divs, dropped, added, hasty>>
        BY <1>6, <2>1 DEF RemoveUser, Ask, serverVars, pageVars
    <2>4. QED
        BY <1>1, <2>2, <2>3
<1>7. QED
    BY <1>2, <1>3, <1>4, <1>5, <1>6

\* A division is stored with those whom its request names, which is the only one.
LEMMA StoredMembers ==
    ASSUME Types, MembersInv, NEW r \in asks, r.what = "division", r \in DivisionRequests,
           NEW d \in Divisions, NEW old, NEW renamed, Stored(r, d, old, renamed),
           \A e \in Divisions \ {d} : divs'[e] = divs[e],
           divs'[d] # None => divs'[d] = Exist(r.members)
    PROVE  MembersInv'
<1> DEFINE new == [members |-> Exist(r.members), contact |-> r.contact]
<1>1. /\ division' = [division EXCEPT ![d] = new] /\ spent' = spent \cup {d}
      /\ asks' = asks \ {r} /\ form' = None
      /\ UNCHANGED <<account, users, dropped, added, hasty>>
    BY DEF Stored, historyVars
<1>2. \A e \in Divisions \ {d} : division'[e] = division[e]
    BY <1>1 DEF Types, TypeOK
<1>3. division'[d] = new /\ new.members = Exist(r.members) /\ Exist(r.members) \subseteq Users
    BY <1>1 DEF Types, TypeOK, Exist, DivisionRequests
<1> HIDE DEF new
<1>4. Keeps(r.id, r.members)
    BY DEF MembersInv, RequestsKeep
<1>5. Accounted'
    BY <1>1 DEF MembersInv, Accounted
<1>6. MembersKnown'
    <2> SUFFICES ASSUME NEW e \in Divisions, division'[e] # None
                 PROVE  /\ e \in spent'
                        /\ \A u \in division'[e].members :
                             u \in spent' /\ (account'[u] # None /\ users'[u] = None => <<e, u>> \in added')
        BY DEF MembersKnown
    <2>1. CASE e = d
        BY <1>1, <1>3, <1>4, <2>1 DEF Keeps, Exist
    <2>2. CASE e # d
        BY <1>1, <1>2, <2>2 DEF MembersInv, MembersKnown
    <2>3. QED
        BY <2>1, <2>2
<1>7. ListKeeps'
    <2> SUFFICES ASSUME NEW e \in Divisions, divs'[e] # None
                 PROVE  e \in spent' /\ (~hasty' => \A u \in Users : Stays(e, u)' => u \in divs'[e])
        BY DEF ListKeeps
    <2>1. CASE e = d
        BY <1>1, <1>3, <2>1 DEF Stays
    <2>2. CASE e # d
        <3>1. \A u \in Users : Stays(e, u)' => Stays(e, u)
            BY <1>1, <1>2, <2>2 DEF Stays
        <3>2. QED
            BY <1>1, <2>2, <3>1 DEF MembersInv, ListKeeps
    <2>3. QED
        BY <2>1, <2>2
<1>8. FormKeeps' /\ OneAtATime'
    BY <1>1 DEF FormKeeps, MembersInv, OneAtATime
<1>9. RequestsKeep'
    <2> SUFFICES ASSUME NEW q \in asks', q.what = "division" PROVE Keeps(q.id, q.members)'
        BY DEF RequestsKeep
    <2>1. q \in asks /\ Keeps(q.id, q.members) /\ hasty
        BY <1>1 DEF MembersInv, RequestsKeep, OneAtATime
    <2>2. QED
        BY <1>1, <2>1 DEF Keeps
<1>10. QED
    BY <1>5, <1>6, <1>7, <1>8, <1>9 DEF MembersInv

LEMMA DivisionSavedMembers ==
    ASSUME Types, MembersInv, NEW r \in asks,
           CreateDivision(r) \/ \E renamed \in BOOLEAN : UpdateDivision(r, renamed)
    PROVE  MembersInv'
<1>1. CASE CreateDivision(r)
    <2>1. PICK d : d = CHOOSE x \in Divisions \ spent : TRUE
        OBVIOUS
    <2>2. d \in Divisions /\ d \notin spent /\ Stored(r, d, Nobody, TRUE)
        BY <1>1, <2>1 DEF CreateDivision
    <2>3. r \in DivisionRequests /\ r.what = "division" /\ r.members = Exist(r.members)
        BY <1>1, Kinds DEF CreateDivision
    <2>4. divs[d] = None
        BY <2>2 DEF MembersInv, ListKeeps
    <2>5. divs' = divs \/ divs' = [divs EXCEPT ![d] = r.members]
        BY <1>1, <2>1 DEF CreateDivision
    <2>6. /\ \A e \in Divisions \ {d} : divs'[e] = divs[e]
          /\ divs'[d] # None => divs'[d] = Exist(r.members)
        BY <2>2, <2>3, <2>4, <2>5 DEF Types, TypeOK
    <2>7. QED
        BY <2>2, <2>3, <2>6, StoredMembers
<1>2. ASSUME NEW renamed \in BOOLEAN, UpdateDivision(r, renamed) PROVE MembersInv'
    <2>1. r \in DivisionRequests /\ r.id \in Divisions /\ r.what = "division"
        BY <1>2, Kinds DEF UpdateDivision, DivisionRequests
    <2>2. /\ \A e \in Divisions \ {r.id} : divs'[e] = divs[e]
          /\ divs'[r.id] # None => divs'[r.id] = Exist(r.members)
        BY <1>2, <2>1 DEF UpdateDivision, Types, TypeOK
    <2>3. QED
        BY <1>2, <2>1, <2>2, StoredMembers DEF UpdateDivision
<1>3. QED
    BY <1>1, <1>2

\* The form stays, and if a request is served, it is none of a division's form.
LEMMA SameForm ==
    ASSUME Types, MembersInv, Calm, Accounted', MembersKnown', ListKeeps',
           form' = form, hasty' = hasty,
           \A q \in asks' : q \in asks \/ q.what # "division",
           asks' = asks \/ \E r \in asks : r.what # "division"
    PROVE  MembersInv'
<1>1. RequestsKeep'
    BY CalmRequests DEF MembersInv
<1>2. FormKeeps'
    <2> SUFFICES ASSUME form # None, form.kind = "division" PROVE Keeps(form.id, form.members)'
        BY DEF FormKeeps
    <2>1. PICK id : id = form.id
        OBVIOUS
    <2>2. PICK members : members = form.members
        OBVIOUS
    <2>3. Keeps(id, members)'
        BY <2>1, <2>2, CalmKeeps DEF MembersInv, FormKeeps
    <2>4. QED
        BY <2>1, <2>2, <2>3 DEF Keeps
<1>3. OneAtATime'
    BY DEF MembersInv, OneAtATime
<1>4. QED
    BY <1>1, <1>2, <1>3 DEF MembersInv

\* The list of all users, and that of all divisions.
LEMMA AllKnown ==
    ASSUME Types, MembersInv, users' = AllUsers, hasty => hasty',
           UNCHANGED <<account, division, spent, dropped, added>>
    PROVE  Calm /\ Accounted' /\ MembersKnown'
<1>1. \A u \in Users : users'[u] = None <=> account[u] = None
    <2> SUFFICES ASSUME NEW u \in Users PROVE users'[u] = None <=> account[u] = None
        OBVIOUS
    <2>1. CASE account[u] \in {"local", "ldap"}
        BY <2>1, AccountAssumption DEF AllUsers
    <2>2. CASE account[u] = None
        BY <2>2 DEF AllUsers
    <2>3. QED
        BY <2>1, <2>2 DEF Types, TypeOK
<1>2. \A d \in Divisions : division[d] # None => division[d].members \subseteq Users
    BY DEF Types, TypeOK
<1>3. Accounted' /\ MembersKnown'
    BY <1>1, <1>2 DEF MembersInv, Accounted, MembersKnown
<1>4. Calm
    BY <1>1 DEF Calm, Stays
<1>5. QED
    BY <1>3, <1>4

LEMMA AllListed ==
    ASSUME MembersInv, divs' = AllDivisions,
           UNCHANGED <<account, division, spent, dropped, added>>
    PROVE  ListKeeps'
BY DEF AllDivisions, MembersInv, MembersKnown, ListKeeps, Stays

\* What else the server and others do.
LEMMA ServedMembers ==
    ASSUME Types, MembersInv, NEW r \in asks,
           UserSaved(r) \/ UsersFetched(r) \/ UserRemoved(r) \/ DivisionRemoved(r) \/ DivisionsFetched(r)
    PROVE  MembersInv'
<1>1. CASE UserSaved(r)
    <2>1. PICK u : u = IF r.id # None THEN r.id ELSE CHOOSE x \in Users \ spent : TRUE
        OBVIOUS
    <2>2. PICK fetch : fetch = [what |-> "fetchUsers", n |-> r.n]
        OBVIOUS
    <2>3. fetch.what # "division" /\ r.what = "user" /\ r.id \in Users \cup {None}
        BY <1>1, <2>2, Kinds DEF UserSaved, UserRequests
    <2>4. u \in Users /\ (account[u] # None \/ u \notin spent)
        BY <1>1, <2>1, <2>3 DEF UserSaved, Exists
    <2>5. /\ account' = [account EXCEPT ![u] = r.domain] /\ spent' = spent \cup {u}
          /\ asks' = (asks \ {r}) \cup {fetch}
          /\ UNCHANGED <<division, users, divs, form, dropped, added, hasty>>
        BY <1>1, <2>1, <2>2 DEF UserSaved, pageVars, historyVars
    <2>6. \A v \in Users \ {u} : account'[v] = account[v]
        BY <2>5 DEF Types, TypeOK
    <2>7. \A d \in Divisions : division[d] # None => (u \in division[d].members => account[u] # None)
        BY <2>4 DEF MembersInv, MembersKnown
    <2>8. Accounted'
        BY <2>5, <2>6 DEF MembersInv, Accounted
    <2>9. MembersKnown'
        <3> SUFFICES ASSUME NEW d \in Divisions, division[d] # None, NEW v \in division[d].members,
                            account'[v] # None, users[v] = None
                     PROVE  <<d, v>> \in added
            BY <2>5 DEF MembersInv, MembersKnown
        <3>1. v \in Users
            BY DEF Types, TypeOK
        <3>2. account[v] # None
            BY <2>6, <2>7, <3>1
        <3>3. QED
            BY <3>2 DEF MembersInv, MembersKnown
    <2>10. Calm
        <3>1. \A d \in Divisions, v \in Users : Stays(d, v)' => Stays(d, v)
            BY <2>5, <2>6, <2>7 DEF Stays
        <3>2. \A v \in Users : account'[v] # None => account[v] # None \/ v \notin spent
            BY <2>4, <2>6
        <3>3. QED
            BY <2>5, <3>1, <3>2 DEF Calm
    <2>11. ListKeeps'
        BY <2>5, <2>10, CalmLists DEF MembersInv
    <2>12. QED
        BY <2>3, <2>5, <2>8, <2>9, <2>10, <2>11, SameForm
<1>2. CASE UsersFetched(r)
    <2>1. /\ users' = AllUsers /\ asks' = asks \ {r} /\ form' = None
          /\ UNCHANGED <<account, division, spent, divs, dropped, added, hasty>>
        BY <1>2 DEF UsersFetched, serverVars, historyVars
    <2>2. Calm /\ Accounted' /\ MembersKnown'
        BY <2>1, AllKnown
    <2>3. ListKeeps' /\ RequestsKeep' /\ FormKeeps' /\ OneAtATime'
        BY <2>1, <2>2, CalmLists, CalmRequests DEF MembersInv, FormKeeps, OneAtATime
    <2>4. QED
        BY <2>2, <2>3 DEF MembersInv
<1>3. CASE UserRemoved(r)
    <2>1. r \in UserRemovals /\ r.what = "removeUser"
        BY <1>3, Kinds DEF UserRemoved
    <2>2. /\ account' = [account EXCEPT ![r.id] = None] /\ asks' = asks \ {r}
          /\ users' = users \/ users' = [users EXCEPT ![r.id] = None]
          /\ UNCHANGED <<spent, divs, dropped, added, hasty>>
        BY <1>3 DEF UserRemoved, historyVars
    <2>3. /\ r.id \in Users /\ account'[r.id] = None
          /\ \A u \in Users \ {r.id} : account'[u] = account[u] /\ users'[u] = users[u]
          /\ \A u \in Users : users'[u] # None => users[u] # None
        BY <2>1, <2>2 DEF UserRemovals, Types, TypeOK
    <2>4. \A d \in Divisions : division'[d] # None =>
            division[d] # None /\ division'[d].members = division[d].members \ {r.id}
        BY <1>3 DEF UserRemoved
    <2>5. Accounted'
        BY <2>2, <2>3 DEF MembersInv, Accounted
    <2>6. MembersKnown'
        <3> SUFFICES ASSUME NEW d \in Divisions, division'[d] # None, NEW u \in division'[d].members
                     PROVE  /\ d \in spent /\ u \in spent
                            /\ account'[u] # None /\ users'[u] = None => <<d, u>> \in added
            BY <2>2, <2>4 DEF MembersKnown, MembersInv
        <3>1. division[d] # None /\ u \in division[d].members /\ u \in Users \ {r.id}
            BY <2>4 DEF Types, TypeOK
        <3>2. QED
            BY <2>3, <3>1 DEF MembersInv, MembersKnown
    <2>7. Calm
        <3>1. \A d \in Divisions, u \in Users : Stays(d, u)' => Stays(d, u)
            BY <2>2, <2>3, <2>4 DEF Stays
        <3>2. QED
            BY <2>2, <2>3, <3>1 DEF Calm
    <2>8. ListKeeps' /\ RequestsKeep'
        BY <2>2, <2>7, CalmLists, CalmRequests DEF MembersInv
    <2>9. /\ form' # None /\ form'.kind = "division" =>
               /\ form # None /\ form.kind = "division" /\ form'.id = form.id
               /\ form'.members \in {form.members, form.members \ {r.id}}
          /\ (form # None => form.kind # "division") => form' = form
        <3>1. CASE form # None /\ form.kind = "division" /\ r.listed
            <4>1. form \in DivisionForms
                BY <3>1, Kinds
            <4>2. form' = [form EXCEPT !.members = @ \ {r.id},
                                       !.contact = IF @ = r.id THEN Unset ELSE @]
                BY <1>3, <3>1 DEF UserRemoved
            <4>3. form'.id = form.id /\ form'.members = form.members \ {r.id}
                BY <4>1, <4>2 DEF DivisionForms
            <4>4. QED
                BY <3>1, <4>3
        <3>2. CASE ~(form # None /\ form.kind = "division" /\ r.listed)
            BY <1>3, <3>2 DEF UserRemoved
        <3>3. QED
            BY <3>1, <3>2
    <2>10. FormKeeps'
        <3> SUFFICES ASSUME form' # None, form'.kind = "division" PROVE Keeps(form.id, form.members)'
            BY DEF FormKeeps
        <3>1. PICK id : id = form.id
            OBVIOUS
        <3>2. PICK members : members = form.members
            OBVIOUS
        <3>3. Keeps(id, members)'
            BY <2>7, <2>9, <3>1, <3>2, CalmKeeps DEF MembersInv, FormKeeps
        <3>4. \A d \in Divisions : ~Stays(d, r.id)'
            BY <2>3 DEF Stays
        <3>5. QED
            BY <2>9, <3>1, <3>2, <3>3, <3>4 DEF Keeps
    <2>11. OneAtATime'
        BY <2>1, <2>2, <2>9 DEF MembersInv, OneAtATime
    <2>12. QED
        BY <2>5, <2>6, <2>7, <2>8, <2>10, <2>11 DEF MembersInv
<1>4. CASE DivisionRemoved(r)
    <2>1. PICK fetch : fetch = [what |-> "fetchDivisions", n |-> 0]
        OBVIOUS
    <2>2. /\ division' = [division EXCEPT ![r.id] = None]
          /\ asks' = (asks \ {r}) \cup {fetch} /\ fetch.what # "division"
          /\ r.what = "removeDivision"
          /\ UNCHANGED <<account, spent, users, divs, form, dropped, added, hasty>>
        BY <1>4, <2>1 DEF DivisionRemoved, pageVars, historyVars
    <2>3. \A d \in Divisions : division'[d] # None => division'[d] = division[d]
        BY <2>2 DEF Types, TypeOK
    <2>4. Accounted' /\ MembersKnown' /\ Calm
        BY <2>2, <2>3 DEF MembersInv, Accounted, MembersKnown, Calm, Stays
    <2>5. ListKeeps'
        BY <2>2, <2>4, CalmLists DEF MembersInv
    <2>6. QED
        BY <2>2, <2>4, <2>5, SameForm
<1>5. CASE DivisionsFetched(r)
    <2>1. /\ divs' = AllDivisions /\ asks' = asks \ {r} /\ r.what # "division"
          /\ UNCHANGED <<account, division, spent, users, form, dropped, added, hasty>>
        BY <1>5 DEF DivisionsFetched, serverVars, historyVars
    <2>2. Calm /\ Accounted' /\ MembersKnown'
        BY <2>1, PageCalm
    <2>3. ListKeeps'
        BY <2>1, AllListed
    <2>4. QED
        BY <2>1, <2>2, <2>3, SameForm
<1>6. QED
    BY <1>1, <1>2, <1>3, <1>4, <1>5

\* A form that was sent can be sent again.
LEMMA FailsMembers ==
    ASSUME Types, MembersInv, NEW r \in asks, Fails(r)
    PROVE  MembersInv'
<1>1. /\ UNCHANGED <<account, division, spent, users, divs, dropped, added, hasty>>
      /\ asks' = asks \ {r}
    BY DEF Fails, serverVars, pageVars
<1>2. Calm /\ Accounted' /\ MembersKnown'
    BY <1>1, PageCalm
<1>3. ListKeeps' /\ RequestsKeep'
    BY <1>1, <1>2, CalmLists, CalmRequests DEF MembersInv
<1>4. form' # None /\ form'.kind = "division" =>
        /\ form # None /\ form.kind = "division"
        /\ form'.id = form.id /\ form'.members = form.members
    <2>1. CASE form' = form
        BY <2>1
    <2>2. CASE form # None /\ form' = [form EXCEPT !.busy = FALSE]
        <3>1. CASE form \in DivisionForms
            BY <2>2, <3>1 DEF DivisionForms
        <3>2. CASE form \in UserForms
            BY <2>2, <3>2 DEF UserForms
        <3>3. QED
            BY <2>2, <3>1, <3>2 DEF Types, FormOK
    <2>3. QED
        BY <2>1, <2>2 DEF Fails
<1>5. FormKeeps'
    <2> SUFFICES ASSUME form' # None, form'.kind = "division" PROVE Keeps(form.id, form.members)'
        BY DEF FormKeeps
    <2>1. PICK id : id = form.id
        OBVIOUS
    <2>2. PICK members : members = form.members
        OBVIOUS
    <2>3. Keeps(id, members)'
        BY <1>2, <1>4, <2>1, <2>2, CalmKeeps DEF MembersInv, FormKeeps
    <2>4. QED
        BY <1>4, <2>1, <2>2, <2>3 DEF Keeps
<1>6. OneAtATime'
    BY <1>1, <1>4 DEF MembersInv, OneAtATime
<1>7. QED
    BY <1>2, <1>3, <1>5, <1>6 DEF MembersInv

LEMMA UpdateMembers ==
    ASSUME Types, MembersInv, Update
    PROVE  MembersInv'
<1>1. /\ UNCHANGED <<account, division, spent, form, asks, dropped, added, hasty>>
      /\ users' = users \/ users' = AllUsers
      /\ divs' = divs \/ divs' = AllDivisions
    BY DEF Update, historyVars
<1>2. Calm /\ Accounted' /\ MembersKnown'
    BY <1>1, PageCalm, AllKnown
<1>3. ListKeeps'
    BY <1>1, <1>2, CalmLists, AllListed DEF MembersInv
<1>4. QED
    BY <1>1, <1>2, <1>3, SameForm

LEMMA OthersMembers ==
    ASSUME Types, MembersInv, NEW d \in Divisions, NEW u \in Users, SomebodyAssigns(d, u)
    PROVE  MembersInv'
<1>1. /\ UNCHANGED <<account, spent, users, divs, form, asks, hasty>>
      /\ division[d] # None /\ account[u] # None
      /\ dropped \subseteq dropped' /\ added \subseteq added'
    BY DEF SomebodyAssigns, pageVars
<1>2. \A e \in Divisions \ {d} : division'[e] = division[e]
    BY DEF SomebodyAssigns, Types, TypeOK
<1>3. \/ /\ division'[d].members = division[d].members \cup {u} /\ <<d, u>> \in added'
      \/ division'[d].members = division[d].members \ {u}
    BY DEF SomebodyAssigns, Types, TypeOK
<1>4. Accounted'
    BY <1>1 DEF MembersInv, Accounted
<1>5. MembersKnown'
    <2>1. \A e \in Divisions : division'[e] # None => e \in spent'
        BY <1>1, <1>2 DEF MembersInv, MembersKnown
    <2> SUFFICES ASSUME NEW e \in Divisions, division'[e] # None, NEW v \in division'[e].members
                 PROVE  v \in spent' /\ (account'[v] # None /\ users'[v] = None => <<e, v>> \in added')
        BY <2>1 DEF MembersKnown
    <2>2. CASE e = d /\ v = u
        BY <1>1, <1>3, <2>2 DEF MembersInv, MembersKnown, Accounted
    <2>3. CASE ~(e = d /\ v = u)
        <3>1. division[e] # None /\ v \in division[e].members
            BY <1>1, <1>2, <1>3, <2>3
        <3>2. QED
            BY <1>1, <3>1 DEF MembersInv, MembersKnown
    <2>4. QED
        BY <2>2, <2>3
<1>6. Calm
    <2>1. \A e \in Divisions, v \in Users : Stays(e, v)' => Stays(e, v)
        BY <1>1, <1>2, <1>3 DEF Stays
    <2>2. QED
        BY <1>1, <2>1 DEF Calm
<1>7. ListKeeps'
    BY <1>1, <1>6, CalmLists DEF MembersInv
<1>8. QED
    BY <1>1, <1>4, <1>5, <1>6, <1>7, SameForm

LEMMA MembersInit == Init => MembersInv
<1> SUFFICES ASSUME Init PROVE MembersInv
    OBVIOUS
<1>1. PICK U \in {S \in SUBSET Users : Admin \in S}, domain \in {"local", "ldap"} :
        LET first == CHOOSE d \in Divisions : TRUE IN
        /\ account = [u \in Users |-> IF u = Admin THEN "local" ELSE IF u \in U THEN domain ELSE None]
        /\ division = [d \in Divisions |-> IF d = first THEN [members |-> U, contact |-> Admin] ELSE None]
        /\ spent = U \cup {first}
    BY DEF Init
<1>2. /\ users = AllUsers /\ divs = AllDivisions /\ form = None /\ asks = {}
    BY DEF Init
<1>3. \A u \in Users : /\ account[u] # None => u \in U /\ users[u] # None
                       /\ users[u] # None => account[u] # None
    BY <1>1, <1>2, AccountAssumption DEF AllUsers
<1>4. Accounted
    BY <1>1, <1>3 DEF Accounted
<1>5. MembersKnown
    BY <1>1, <1>3 DEF MembersKnown
<1>6. ListKeeps
    BY <1>1, <1>2 DEF ListKeeps, AllDivisions, Stays
<1>7. FormKeeps /\ RequestsKeep /\ OneAtATime
    BY <1>2 DEF FormKeeps, RequestsKeep, OneAtATime
<1>8. QED
    BY <1>4, <1>5, <1>6, <1>7 DEF MembersInv

LEMMA MembersStep ==
    ASSUME Types, MembersInv, [Next]_accountVars
    PROVE  MembersInv'
<1>1. CASE UNCHANGED accountVars
    <2>1. UNCHANGED <<account, division, spent, users, divs, form, asks, dropped, added, hasty>>
        BY <1>1 DEF accountVars, serverVars, pageVars, historyVars
    <2>2. Calm /\ Accounted' /\ MembersKnown'
        BY <2>1, PageCalm
    <2>3. QED
        BY <2>1, <2>2, CalmLists, SameForm DEF MembersInv
<1>2. ASSUME NEW r \in asks, Serve(r) PROVE MembersInv'
    BY <1>2, DivisionSavedMembers, ServedMembers, FailsMembers DEF Serve
<1>3. ASSUME NEW d \in Divisions, NEW u \in Users, SomebodyAssigns(d, u) PROVE MembersInv'
    BY <1>3, OthersMembers
<1>4. QED
    BY <1>1, <1>2, <1>3, OpenMembers, EditMembers, AskMembers, UpdateMembers DEF Next

\* A save that is served takes nobody away who stays.
LEMMA SaveTakesNobody ==
    ASSUME Types, MembersInv, NEW r \in asks,
           CreateDivision(r) \/ \E renamed \in BOOLEAN : UpdateDivision(r, renamed),
           NEW d \in Divisions, NEW u \in Users, Stays(d, u), ~hasty
    PROVE  u \in division'[d].members
<1>1. r.what = "division" /\ r \in DivisionRequests /\ Keeps(r.id, r.members)
    BY Kinds DEF CreateDivision, UpdateDivision, MembersInv, RequestsKeep
<1>2. ASSUME NEW e \in Divisions, NEW old, NEW renamed, Stored(r, e, old, renamed), e # d \/ r.id = d
      PROVE  u \in division'[d].members
    <2>1. division' = [division EXCEPT ![e] = [members |-> Exist(r.members), contact |-> r.contact]]
        BY <1>2 DEF Stored
    <2>2. CASE e # d
        BY <2>1, <2>2 DEF Stays, Types, TypeOK
    <2>3. CASE e = d
        <3>1. u \in Exist(r.members)
            BY <1>1, <1>2, <2>3 DEF Keeps, Exist, Stays
        <3>2. QED
            BY <2>1, <2>3, <3>1 DEF Types, TypeOK
    <2>4. QED
        BY <2>2, <2>3
<1>3. CASE CreateDivision(r)
    <2>1. PICK e : e = CHOOSE x \in Divisions \ spent : TRUE
        OBVIOUS
    <2>2. e \in Divisions \ spent /\ Stored(r, e, Nobody, TRUE)
        BY <1>3, <2>1 DEF CreateDivision
    <2>3. d \in spent
        BY DEF Stays, MembersInv, MembersKnown
    <2>4. QED
        BY <1>2, <2>2, <2>3
<1>4. ASSUME NEW renamed \in BOOLEAN, UpdateDivision(r, renamed)
      PROVE  u \in division'[d].members
    <2>1. r.id \in Divisions /\ Stored(r, r.id, division[r.id], renamed)
        BY <1>1, <1>4 DEF UpdateDivision, DivisionRequests
    <2>2. PICK e : e = r.id
        OBVIOUS
    <2>3. PICK old : old = division[e]
        OBVIOUS
    <2>4. QED
        BY <1>2, <2>1, <2>2, <2>3
<1>5. QED
    BY <1>3, <1>4

\* Whoever loses a membership of a division that stays was removed in a form or by somebody
\* else, or added by somebody else, unless a form was opened at the wrong time: saving a
\* form takes nobody else's membership, however long it was open.
THEOREM NobodyIsDropped == Spec => MembersStay
<1>1. Types /\ MembersInv /\ [Next]_accountVars =>
        [\A d \in Divisions, u \in Users :
           (division[d] # None /\ u \in division[d].members /\ division'[d] # None /\ account'[u] # None
              /\ u \notin division'[d].members)
           => hasty \/ <<d, u>> \in dropped' \cup added]_accountVars
    <2> SUFFICES ASSUME Types, MembersInv, Next, NEW d \in Divisions, NEW u \in Users,
                        division[d] # None, u \in division[d].members, division'[d] # None,
                        account'[u] # None, u \notin division'[d].members,
                        ~hasty, <<d, u>> \notin dropped' \cup added
                 PROVE  FALSE
        OBVIOUS
    <2>1. ASSUME NEW e \in Divisions, NEW v \in Users, SomebodyAssigns(e, v) PROVE FALSE
        BY <2>1 DEF SomebodyAssigns, Types, TypeOK
    <2>2. ASSUME NEW r \in asks, UserRemoved(r) PROVE FALSE
        <3>1. r.id \in Users
            BY <2>2, Kinds DEF UserRemoved, UserRemovals
        <3>2. u = r.id /\ account'[r.id] = None
            BY <2>2, <3>1 DEF UserRemoved, Types, TypeOK
        <3>3. QED
            BY <3>2
    <2>3. ASSUME NEW r \in asks, CreateDivision(r) \/ \E renamed \in BOOLEAN : UpdateDivision(r, renamed)
          PROVE  FALSE
        <3>1. account' = account /\ dropped' = dropped
            BY <2>3 DEF CreateDivision, UpdateDivision, Stored, historyVars
        <3>2. Stays(d, u)
            BY <3>1 DEF Stays
        <3>3. QED
            BY <2>3, <3>2, SaveTakesNobody
    <2>4. ASSUME NEW r \in asks, DivisionRemoved(r) PROVE FALSE
        BY <2>4 DEF DivisionRemoved, Types, TypeOK
    <2>5. ASSUME division' = division PROVE FALSE
        BY <2>5
    <2>6. ASSUME NEW r \in asks, Serve(r) PROVE FALSE
        BY <2>2, <2>3, <2>4, <2>5, <2>6
           DEF Serve, UserSaved, UsersFetched, DivisionsFetched, Fails, serverVars
    <2>7. CASE \/ OpenOrphan \/ NewDivision \/ NewUser
               \/ \E e \in Divisions : OpenDivision(e)
               \/ \E v \in Users : OpenUser(v)
        BY <2>5, <2>7 DEF OpenOrphan, NewDivision, NewUser, OpenDivision, OpenUser, Open, serverVars
    <2>8. CASE \/ TypePassword
               \/ \E v \in Users : AddMember(v) \/ RemoveMember(v)
               \/ \E c \in Users \cup {None} : ChooseContact(c)
               \/ \E domain \in {"local", "ldap"} : ChooseDomain(domain)
        BY <2>5, <2>8 DEF TypePassword, AddMember, RemoveMember, ChooseContact, ChooseDomain, Edit,
                          serverVars
    <2>9. CASE \/ Leave \/ SaveDivision \/ SaveUser \/ Update
               \/ \E e \in Divisions : RemoveDivision(e)
               \/ \E v \in Users, listed \in BOOLEAN : RemoveUser(v, listed)
        BY <2>5, <2>9 DEF Leave, SaveDivision, SaveUser, Update, RemoveDivision, RemoveUser, serverVars
    <2>10. QED
        BY <2>1, <2>6, <2>7, <2>8, <2>9 DEF Next
<1>2. IInv => Types
    BY DEF IInv
<1>3. QED
    BY <1>1, <1>2, InvInit, InvStep, MembersInit, MembersStep, PTL DEF Spec, MembersStay

=============================================================================
