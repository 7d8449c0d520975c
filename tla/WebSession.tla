---------------------------- MODULE WebSession ----------------------------
(***************************************************************************)
(* The session of a user, as the page of the web interface and the server  *)
(* see it.  The page asks for the state when it is loaded and decides      *)
(* then what to show: the setup, the form for a password that has to be    *)
(* changed, the login form, or the application with the loop of counter    *)
(* and poll that keeps it up to date.  All of this is driven by answers    *)
(* and by routes: requests of a session that has ended may still be under  *)
(* way, the session may run out at the server, the page may be reloaded.   *)
(* The page is a record, and what handlers do with it are operators on it. *)
(***************************************************************************)
EXTENDS Integers, FiniteSets

CONSTANTS
    Users,          \* users that may log in
    NewUsers,       \* those of them whose password was given to them
    Guest,          \* who is not logged in
    Requests,       \* bound: requests of the page that may be under way
    MaxLogins       \* bound: logins until the page is loaded anew

ASSUME SessionAssumption ==
    /\ Guest \notin Users /\ NewUsers \subseteq Users
    /\ IsFiniteSet(Requests) /\ MaxLogins \in Nat

VARIABLES
    session,        \* at the server: whose it is, whether it must change the password
    mustChange,     \* users that have to change their password
    setup,          \* the server is not set up yet
    page,
    req,
    past            \* history: what has happened since the page was loaded

vars == <<session, mustChange, setup, page, req, past>>

Kinds == {"none", "init", "login", "state", "poll", "save", "logout", "password", "install"}
Hashes == {"", "setup", "changepw", "logout"}
Links == {"", "logout"}
Modules == {"none", "dashboard", "setup", "controller"}
Steps == {"landing", "admin", "endpoint", "division", "final", "error", "changepw"}

NoSession == [user |-> Guest, must |-> FALSE, live |-> TRUE]

NoRequest == [kind |-> "none", pc |-> "none", user |-> Guest, must |-> FALSE,
              setup |-> FALSE, status |-> "ok", restart |-> FALSE, valid |-> TRUE,
              old |-> FALSE]

\* Request `old` was sent before the page has seen a logout.
Sent(k) == [NoRequest EXCEPT !.kind = k, !.pc = "sent"]

\* A page that has just been loaded: models.js and app.js have made empty models.
NewPage(h) == [phase |-> "loading", hash |-> h, user |-> Guest, must |-> FALSE,
               setup |-> FALSE, held |-> {}, ts |-> TRUE, layout |-> "none",
               module |-> "none", view |-> "landing", modal |-> "none", counters |-> 0]

\* `stray`: a login was sent, served or answered, or another answer came, at the wrong time:
\* after a logout, or next to another login.
NoPast == [stray |-> FALSE, swallowed |-> FALSE, logins |-> 0]

\* Requests are interchangeable: any one will do.
First == CHOOSE r \in Requests : TRUE
OnlyInit == [r \in Requests |-> IF r = First THEN Sent("init") ELSE NoRequest]

Init ==
    /\ session \in {NoSession} \cup [user : Users \ NewUsers, must : {FALSE}, live : {TRUE}]
    /\ mustChange = NewUsers
    /\ setup \in (IF session = NoSession THEN BOOLEAN ELSE {FALSE})
    /\ \E h \in Hashes : page = NewPage(h)
    /\ req = OnlyInit
    /\ past = NoPast

Free == {r \in Requests : req[r] = NoRequest}
Put(r, q) == req' = [req EXCEPT ![r] = q]

Send(q) == Free # {} /\ Put(CHOOSE r \in Free : TRUE, q)

ServerUnchanged == UNCHANGED <<session, mustChange, setup>>

Reload == page' = NewPage(page.hash) /\ req' = OnlyInit /\ past' = NoPast

-----------------------------------------------------------------------------
(* The parts of the page *)

\* startModule(): the setup replaces the layout, other modules are shown within it.
StartModule(p, m) ==
    IF p.module = m THEN p
    ELSE [p EXCEPT !.module = m, !.layout = IF m = "setup" THEN "setup" ELSE @]

\* Mutant: no counter listens to the logout.
LoggedOutCounts(p) == [p EXCEPT !.module = "none", !.layout = "login", !.view = "landing",
                                !.hash = IF p.phase = "ready" THEN "" ELSE @]

\* The handlers of `logout:success`, stopCounter() of each counter among them.
LoggedOut(p) == [p EXCEPT !.module = "none", !.layout = "login", !.counters = 0,
                          !.view = "landing", !.hash = IF p.phase = "ready" THEN "" ELSE @]

InitLayout(p) == [p EXCEPT !.layout = "app", !.view = "landing", !.counters = @ + 1]

\* The route handlers, and the guard that all modules share.
Routed(p, h) ==
    LET q == [p EXCEPT !.hash = h] IN
    CASE h = "setup" -> [StartModule(q, "setup") EXCEPT !.view = "landing"]
      [] h = "changepw" -> [StartModule(q, "setup") EXCEPT
                              !.view = IF p.must THEN "changepw" ELSE @]
      [] h = "logout" -> StartModule(q, "controller")
      [] OTHER -> IF p.user = Guest \/ p.setup THEN q ELSE StartModule(q, "dashboard")

\* ... and whether the route makes the page ask for a logout.
LogsOut(p, h) == h = "logout" \/ (h = "changepw" /\ ~p.must)

\* Mutant: guests see the application.
FinalizedForGuests(p) ==
    IF p.setup THEN [p EXCEPT !.hash = "setup"]
    ELSE IF p.must THEN [p EXCEPT !.hash = "changepw"]
    ELSE InitLayout(p)

\* init:finalize: where a page goes that has got its state, before the router starts.
Finalized(p) ==
    IF p.setup THEN [p EXCEPT !.hash = "setup"]
    ELSE IF p.must THEN [p EXCEPT !.hash = "changepw"]
    ELSE IF p.user # Guest THEN InitLayout(p)
    ELSE LoggedOut(p)

-----------------------------------------------------------------------------
(* What the user and the counters do *)

\* A link is followed.  The addresses of the setup have none: the page is opened with them.
Route(h) ==
    /\ page.phase = "ready" /\ h # page.hash
    /\ page' = Routed(page, h)
    /\ IF LogsOut(page, h) THEN Send(Sent("logout")) ELSE UNCHANGED req
    /\ UNCHANGED past /\ ServerUnchanged

\* A click on the button of the login form: it fades out only when a login has succeeded,
\* so that a second one may follow, a double click for instance.
Login(u) ==
    /\ page.phase = "ready" /\ page.layout = "login" /\ past.logins < MaxLogins
    /\ \A r \in Requests : req[r].kind = "state" => req[r].old
    /\ Send([Sent("login") EXCEPT !.user = u])
    /\ past' = [past EXCEPT !.logins = @ + 1,
                            !.stray = @ \/ \E r \in Requests : req[r].kind = "login" /\ ~req[r].old]
    /\ UNCHANGED page /\ ServerUnchanged

\* A form is saved, one at a time: if that succeeds, it asks for updates at once.
Save == /\ page.layout = "app" /\ page.modal = "none"
        /\ \A r \in Requests : req[r].kind # "save" /\ (req[r].kind = "poll" => req[r].restart)
        /\ Send(Sent("save"))
        /\ UNCHANGED <<page, past>> /\ ServerUnchanged

\* Mutant: the answer to the poll does not start the counter again.
CounterEndsForGood ==
    /\ page.counters > 0
    /\ page' = [page EXCEPT !.counters = @ - 1]
    /\ Send([Sent("poll") EXCEPT !.valid = page.ts])
    /\ UNCHANGED past /\ ServerUnchanged

\* eventCounter has reached zero.
CounterEnds ==
    /\ page.counters > 0
    /\ page' = [page EXCEPT !.counters = @ - 1]
    /\ Send([Sent("poll") EXCEPT !.restart = TRUE, !.valid = page.ts])
    /\ UNCHANGED past /\ ServerUnchanged

\* The steps of the installation, of which the last one sends the data.
Shows(from, to) ==
    /\ page.layout = "setup" /\ page.view = from /\ page.setup
    /\ page' = [page EXCEPT !.view = to]
    /\ UNCHANGED <<req, past>> /\ ServerUnchanged

AskAdmin == Shows("landing", "admin")
AskEndpoint == Shows("admin", "endpoint")
AskDivision == Shows("endpoint", "division")

Install ==
    /\ page.layout = "setup" /\ page.view = "division" /\ page.setup
    /\ \A r \in Requests : req[r].kind # "install"
    /\ Send(Sent("install"))
    /\ UNCHANGED <<page, past>> /\ ServerUnchanged

FinishInstall ==
    /\ page.layout = "setup" /\ page.view = "final"
    /\ page' = LoggedOut(page)
    /\ req' = [r \in Requests |-> [req[r] EXCEPT !.old = req[r] # NoRequest]]
    /\ UNCHANGED past /\ ServerUnchanged

\* The form for the own password: submitted, or cancelled.
ChangePassword ==
    /\ page.layout = "setup" /\ page.view = "changepw" /\ page.modal = "none"
    /\ \/ Send(Sent("password")) \/ Send(Sent("logout"))
    /\ UNCHANGED <<page, past>> /\ ServerUnchanged

CloseModal ==
    \/ page.modal = "lost" /\ Reload /\ ServerUnchanged
    \/ /\ page.modal = "expired" /\ page' = [page EXCEPT !.modal = "none"]
       /\ Send(Sent("logout")) /\ UNCHANGED past /\ ServerUnchanged

\* A page that has stayed empty.
UserReload == page.phase = "blank" /\ Reload /\ ServerUnchanged

-----------------------------------------------------------------------------
(* The server *)

\* SessionMiddleware: nothing has been heard of the session for too long.
Expire == /\ session.user # Guest /\ session.live
          /\ session' = [session EXCEPT !.live = FALSE]
          /\ UNCHANGED <<mustChange, setup, page, req, past>>

\* A failure, of which all but two handlers learn nothing more.
Failure(k, s) == IF k \in {"init", "password"} THEN s ELSE "failed"

Answer(r, s) ==
    LET q == [req[r] EXCEPT !.pc = "answered"] IN
    Put(r, IF s = "ok" THEN q
           ELSE [q EXCEPT !.status = Failure(q.kind, s), !.user = Guest, !.valid = TRUE])

\* The middleware destroys a session that has run out with the first request that shows it.
Refuse(r) ==
    /\ req[r].pc = "sent" /\ ~session.live
    /\ session' = NoSession
    /\ Answer(r, "forbidden")
    /\ past' = [past EXCEPT !.swallowed = @ \/ req[r].kind \in {"save", "login", "state", "install"}]
    /\ UNCHANGED <<mustChange, setup, page>>

\* A request does not get through, or the server rejects its data.
Fail(r) == /\ req[r].pc = "sent" /\ Answer(r, "failed")
           /\ UNCHANGED <<page, past>> /\ ServerUnchanged

Handles(r, kinds) == req[r].pc = "sent" /\ session.live /\ req[r].kind \in kinds

\* getState() tells the session's user and setup if it is asked for all, or the changes.
ServeState(r) ==
    /\ Handles(r, {"init", "state", "poll"})
    /\ IF req[r].kind = "poll" /\ ~req[r].valid THEN Answer(r, "failed")
       ELSE Put(r, [req[r] EXCEPT !.pc = "answered", !.user = session.user, !.valid = TRUE,
                                  !.must = session.must, !.setup = setup])
    /\ UNCHANGED <<page, past>> /\ ServerUnchanged

\* createSession()
ServeLogin(r) ==
    LET u == req[r].user IN
    /\ Handles(r, {"login"})
    /\ IF setup THEN Answer(r, "forbidden") /\ UNCHANGED session
       ELSE /\ session' = [user |-> u, must |-> u \in mustChange, live |-> TRUE]
            /\ Put(r, [req[r] EXCEPT !.pc = "answered", !.must = u \in mustChange])
    /\ past' = [past EXCEPT !.stray = @ \/ (req[r].old /\ ~setup)]
    /\ UNCHANGED <<mustChange, setup, page>>

\* deleteSession(), which a guest may not call.
ServeLogout(r) ==
    /\ Handles(r, {"logout"})
    /\ session' = NoSession
    /\ Answer(r, IF session.user = Guest THEN "forbidden" ELSE "ok")
    /\ UNCHANGED <<mustChange, setup, page, past>>

\* updatePassword(), for who is to change it only.
ServePassword(r) ==
    LET allowed == session.must /\ session.user \in mustChange IN
    /\ Handles(r, {"password"})
    /\ mustChange' = IF allowed THEN mustChange \ {session.user} ELSE mustChange
    /\ Answer(r, IF allowed THEN "ok" ELSE "forbidden")
    /\ UNCHANGED <<session, setup, page, past>>

\* install(), and what is saved by others than guests.
ServeOther(r) ==
    /\ Handles(r, {"install", "save"})
    /\ IF req[r].kind = "install" /\ setup THEN setup' = FALSE /\ Answer(r, "ok")
       ELSE /\ Answer(r, IF req[r].kind = "save" /\ session.user # Guest THEN "ok" ELSE "forbidden")
            /\ UNCHANGED setup
    /\ UNCHANGED <<session, mustChange, page, past>>

-----------------------------------------------------------------------------
(* Answers *)

Has(r, kind) == req[r].pc = "answered" /\ req[r].kind = kind
Ok(r) == req[r].status = "ok"
Late(r) == past' = [past EXCEPT !.stray = @ \/ req[r].old]
Done(r) == Put(r, NoRequest)

\* The page has its first state: it shows what fits, and then follows its address.
Loaded(r) ==
    LET p == Finalized([page EXCEPT !.user = req[r].user, !.must = req[r].must,
                                    !.setup = req[r].setup, !.held = {req[r].user} \ {Guest}])
        q == [p EXCEPT !.phase = "ready"]
    IN
    /\ Has(r, "init") /\ Ok(r)
    /\ page' = Routed(q, q.hash)
    /\ Put(r, IF LogsOut(q, q.hash) THEN Sent("logout") ELSE NoRequest)
    /\ UNCHANGED past /\ ServerUnchanged

\* It is loaded anew if the session had run out; other failures leave it empty.
LoadFails(r) ==
    /\ Has(r, "init") /\ ~Ok(r)
    /\ \/ req[r].status = "forbidden" /\ Reload
       \/ req[r].status = "failed" /\ page' = [page EXCEPT !.phase = "blank"] /\ Done(r)
          /\ UNCHANGED past
    /\ ServerUnchanged

\* Success of the login: the own password first, or the state that the user may see.
LoggedIn(r) ==
    LET p == [page EXCEPT !.user = req[r].user, !.must = req[r].must] IN
    /\ Has(r, "login")
    /\ IF ~Ok(r) THEN UNCHANGED <<page, past>> /\ Done(r)
       ELSE IF ~p.must
       THEN page' = p /\ Late(r) /\ Put(r, [Sent("state") EXCEPT !.old = req[r].old])
       ELSE /\ page' = IF page.hash = "changepw" THEN p ELSE Routed(p, "changepw")
            /\ Late(r) /\ Done(r)
    /\ ServerUnchanged

\* The state after a login.  Nobody listens to its failure.
GotState(r) ==
    LET p == [page EXCEPT !.setup = req[r].setup, !.ts = TRUE,
                          !.held = {req[r].user} \ {Guest}] IN
    /\ Has(r, "state") /\ Done(r)
    /\ IF Ok(r) THEN page' = Routed(InitLayout(p), "") /\ Late(r) ELSE UNCHANGED <<page, past>>
    /\ ServerUnchanged

\* Mutant: a poll that fails starts the counter again, as if nothing had happened.
GotUpdatesAnyway(r) ==
    /\ Has(r, "poll") /\ Done(r)
    /\ page' = [page EXCEPT !.counters = IF req[r].restart THEN @ + 1 ELSE @]
    /\ Late(r) /\ ServerUnchanged

\* fetchUpdates: what has changed replaces what the page holds.
GotUpdates(r) ==
    /\ Has(r, "poll") /\ Done(r)
    /\ IF Ok(r)
       THEN \E h \in {page.held, page.held \cup ({req[r].user} \ {Guest})} :
              /\ page' = [page EXCEPT !.ts = TRUE, !.held = h,
                                      !.counters = IF req[r].restart THEN @ + 1 ELSE @]
              /\ Late(r)
       ELSE page' = [page EXCEPT !.modal = "lost"] /\ UNCHANGED past
    /\ ServerUnchanged

\* The answer to a form that was saved.
Saved(r) ==
    /\ Has(r, "save")
    /\ Put(r, IF Ok(r) THEN [Sent("poll") EXCEPT !.valid = page.ts, !.old = req[r].old]
              ELSE NoRequest)
    /\ UNCHANGED <<page, past>> /\ ServerUnchanged

\* The models are emptied, listeners to `logout:success` do the rest.
LogoutAnswered(r) ==
    /\ Has(r, "logout")
    /\ IF Ok(r)
       THEN /\ page' = [LoggedOut(page) EXCEPT !.user = Guest, !.must = FALSE, !.held = {},
                                               !.ts = FALSE]
            /\ req' = [q \in Requests |-> IF q = r THEN NoRequest
                                          ELSE [req[q] EXCEPT !.old = req[q] # NoRequest]]
            /\ UNCHANGED past
       ELSE Reload
    /\ ServerUnchanged

\* The own password has been changed: a logout follows, half a second later.  Another
\* message that takes the place of that of the lost connection closes it.
PasswordAnswered(r) ==
    /\ Has(r, "password")
    /\ \/ Ok(r) /\ Put(r, Sent("logout")) /\ UNCHANGED <<page, past>>
       \/ /\ req[r].status = "forbidden"
          /\ IF page.modal = "lost" THEN Reload
             ELSE page' = [page EXCEPT !.modal = "expired"] /\ Done(r) /\ UNCHANGED past
       \/ req[r].status = "failed" /\ Done(r) /\ UNCHANGED <<page, past>>
    /\ ServerUnchanged

InstallAnswered(r) ==
    /\ Has(r, "install") /\ Done(r)
    /\ page' = [page EXCEPT !.view = IF page.layout # "setup" THEN @
                                     ELSE IF Ok(r) THEN "final" ELSE "error"]
    /\ UNCHANGED past /\ ServerUnchanged

Answers(r) ==
    \/ Loaded(r) \/ LoadFails(r) \/ LoggedIn(r) \/ GotState(r) \/ GotUpdates(r)
    \/ Saved(r) \/ LogoutAnswered(r) \/ PasswordAnswered(r) \/ InstallAnswered(r)

Serve(r) ==
    \/ Refuse(r) \/ Fail(r) \/ ServeState(r) \/ ServeLogin(r) \/ ServeLogout(r)
    \/ ServePassword(r) \/ ServeOther(r)

Next ==
    \/ \E h \in Links : Route(h)
    \/ \E u \in Users : Login(u)
    \/ Save \/ CounterEnds \/ AskAdmin \/ AskEndpoint \/ AskDivision
    \/ Install \/ FinishInstall \/ ChangePassword
    \/ CloseModal \/ UserReload \/ Expire
    \/ \E r \in Requests : Serve(r) \/ Answers(r)

\* A request is answered at last, users need not do anything.  A counter runs down,
\* whatever else is under way: it is the bound on requests only that makes it wait.
Fairness ==
    /\ \A r \in Requests : WF_vars(Serve(r)) /\ WF_vars(Answers(r))
    /\ SF_vars(CounterEnds)

Spec == Init /\ [][Next]_vars /\ Fairness

-----------------------------------------------------------------------------
(* Properties *)

Anybody == Users \cup {Guest}

Pages == [phase : {"loading", "ready", "blank"}, hash : Hashes, user : Anybody, must : BOOLEAN,
          setup : BOOLEAN, held : SUBSET Users, ts : BOOLEAN,
          layout : {"none", "login", "setup", "app"}, module : Modules, view : Steps,
          modal : {"none", "lost", "expired"}, counters : Nat]

Asked == [kind : Kinds, pc : {"none", "sent", "answered"}, user : Anybody, must : BOOLEAN,
          setup : BOOLEAN, status : {"ok", "forbidden", "failed"}, restart : BOOLEAN,
          valid : BOOLEAN, old : BOOLEAN]

TypeOK ==
    /\ session \in [user : Anybody, must : BOOLEAN, live : BOOLEAN]
    /\ mustChange \subseteq Users /\ setup \in BOOLEAN
    /\ page \in Pages /\ req \in [Requests -> Asked]
    /\ past \in [stray : BOOLEAN, swallowed : BOOLEAN, logins : 0..MaxLogins]

\* A poll that will start the counter again when it is answered, or complain.
Continues(r) == req[r].kind = "poll" /\ req[r].restart

Running == {r \in Requests : Continues(r) /\ ~req[r].old}

\* While the application is shown, something keeps it up to date, or the page has said
\* that the connection is lost.
AppIsUpdated ==
    page.layout = "app" =>
      page.counters > 0 \/ (\E r \in Requests : Continues(r)) \/ page.modal = "lost"

\* A session has one loop at most: a logout ends it, unless it is waiting for an answer
\* that comes after that of the logout, or a user has logged in twice.
OneLoop == ~past.stray => page.counters + Cardinality(Running) <= 1

\* What is shown was given to the user that is shown as logged in, with the same
\* exceptions: a late answer of the former session fills the models anew, a late login
\* puts another user in the session.
OwnData == ~past.stray /\ page.layout = "app" =>
             page.user # Guest /\ page.held \subseteq {page.user}

\* A page that shows the application notices that its session has run out, unless the
\* first answer to show it was that to a form, which nobody draws the conclusion from.
LossIsNoticed ==
    page.layout = "app" /\ ~session.live
      ~> page.layout # "app" \/ page.modal # "none" \/ past.swallowed
=============================================================================
