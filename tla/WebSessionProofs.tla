--------------------------- MODULE WebSessionProofs -------------------------
(***************************************************************************)
(* Proofs about WebSession, for any users, requests and number of logins:  *)
(* types, and that the application is kept up to date while it is shown.   *)
(* The operators on the page never take its counter away, but that of a    *)
(* logout, and of the requests only an answer to a poll ends one.  There   *)
(* is one such loop, and what is shown belongs to the user of the session, *)
(* unless something came at the wrong time: a loop begins with the only    *)
(* login there is, when nothing is left of the one before.                 *)
(*                                                                         *)
(* And about ViewRegions, for any views and outlets: no view is left in    *)
(* the page when it has slid out, was replaced or lost its dialog.         *)
(***************************************************************************)
EXTENDS WebSession, ViewRegions, FiniteSetTheorems, TLAPS

IInv == TypeOK /\ AppIsUpdated

\* Page q shows the application for the first time, with a counter, or as p did.
Keeps(p, q) ==
    q.layout = "app" =>
      \/ q.counters > 0
      \/ p.layout = "app" /\ q.counters = p.counters /\ q.modal = p.modal

\* Requests that go on with the loop still do so.
LoopGoesOn == \A r \in Requests : Continues(r) => Continues(r)'

-----------------------------------------------------------------------------
(* Operators on the page *)

LEMMA Started ==
    ASSUME NEW p \in Pages, NEW m \in Modules
    PROVE  StartModule(p, m) \in Pages /\ Keeps(p, StartModule(p, m))
<1>1. [p EXCEPT !.module = m] \in Pages
    BY DEF Pages
<1>2. [p EXCEPT !.module = m, !.layout = "setup"] \in Pages
    BY DEF Pages
<1>3. QED
    BY ZenonT(60), <1>1, <1>2 DEF StartModule, Keeps, Pages

LEMMA KeepsIsTransitive ==
    ASSUME NEW p, NEW q, NEW s, Keeps(p, q), Keeps(q, s)
    PROVE  Keeps(p, s)
BY DEF Keeps

LEMMA RoutedKeeps ==
    ASSUME NEW p \in Pages, NEW h \in Hashes
    PROVE  Routed(p, h) \in Pages /\ Keeps(p, Routed(p, h))
<1> DEFINE q == [p EXCEPT !.hash = h]
<1>1. q \in Pages /\ Keeps(p, q) /\ q.must = p.must
    BY DEF Pages, Keeps
<1>2. ASSUME NEW s \in Pages, NEW v \in Steps
      PROVE  [s EXCEPT !.view = v] \in Pages /\ Keeps(s, [s EXCEPT !.view = v])
    BY DEF Pages, Keeps
<1>3. \A m \in Modules : StartModule(q, m) \in Pages /\ Keeps(p, StartModule(q, m))
    BY <1>1, Started, KeepsIsTransitive
<1> DEFINE s == StartModule(q, "setup")
<1>4. s \in Pages /\ s.view \in Steps /\ Keeps(p, s)
    BY <1>3 DEF Modules, Pages
<1>5. \A v \in Steps : [s EXCEPT !.view = v] \in Pages /\ Keeps(p, [s EXCEPT !.view = v])
    BY <1>2, <1>4, KeepsIsTransitive
<1> HIDE DEF s
<1>6. [s EXCEPT !.view = "landing"] \in Pages /\ Keeps(p, [s EXCEPT !.view = "landing"])
    BY <1>5 DEF Steps
<1>7. LET t == [s EXCEPT !.view = IF p.must THEN "changepw" ELSE @] IN
        t \in Pages /\ Keeps(p, t)
    BY <1>4, <1>5 DEF Steps
<1> USE DEF s
<1> HIDE DEF q
<1>8. CASE h = "setup"
    BY <1>6, <1>8 DEF Routed, q, s
<1>9. CASE h = "changepw"
    BY <1>7, <1>9 DEF Routed, q, s
<1>10. CASE h = "logout"
    BY <1>3, <1>10 DEF Routed, q, Modules
<1>11. CASE h = ""
    BY <1>1, <1>3, <1>11 DEF Routed, q, Modules
<1>12. QED
    BY <1>8, <1>9, <1>10, <1>11 DEF Hashes

LEMMA LoggedOutPage ==
    ASSUME NEW p \in Pages
    PROVE  LoggedOut(p) \in Pages /\ LoggedOut(p).layout = "login"
BY ZenonT(60) DEF LoggedOut, Pages, Modules, Steps, Hashes

LEMMA LaidOutPage ==
    ASSUME NEW p \in Pages
    PROVE  InitLayout(p) \in Pages /\ Keeps(p, InitLayout(p))
<1>1. p.counters + 1 \in Nat /\ p.counters + 1 > 0
    BY DEF Pages
<1>2. \A n \in Nat : [p EXCEPT !.layout = "app", !.view = "landing", !.counters = n] \in Pages
    BY DEF Pages, Steps
<1>3. InitLayout(p).counters = p.counters + 1
    BY DEF InitLayout, Pages
<1>4. QED
    BY <1>1, <1>2, <1>3 DEF InitLayout, Keeps

LEMMA FinalizedPage ==
    ASSUME NEW p \in Pages
    PROVE  Finalized(p) \in Pages /\ Keeps(p, Finalized(p))
<1>1. \A h \in Hashes : [p EXCEPT !.hash = h] \in Pages /\ Keeps(p, [p EXCEPT !.hash = h])
    BY DEF Pages, Keeps
<1>2. LoggedOut(p) \in Pages /\ Keeps(p, LoggedOut(p))
    BY LoggedOutPage DEF Keeps
<1>3. QED
    BY <1>1, <1>2, LaidOutPage DEF Finalized, Hashes

LEMMA LoadedPage ==
    ASSUME NEW h \in Hashes
    PROVE  NewPage(h) \in Pages /\ NewPage(h).layout = "none"
BY SessionAssumption DEF NewPage, Pages, Modules, Steps, Anybody

-----------------------------------------------------------------------------
(* Requests *)

LEMMA Requested ==
    /\ NoRequest \in Asked
    /\ \A k \in Kinds : Sent(k) \in Asked /\ Sent(k).kind = k
<1>1. NoRequest \in Asked
    BY DEF NoRequest, Asked, Kinds, Anybody
<1>2. QED
    BY <1>1 DEF Sent, Asked

LEMMA Putting ==
    ASSUME TypeOK, NEW r \in Requests, NEW q \in Asked, Put(r, q),
           Continues(r) => q.kind = "poll" /\ q.restart
    PROVE  req' \in [Requests -> Asked] /\ LoopGoesOn
BY DEF TypeOK, Put, LoopGoesOn, Continues

LEMMA Sending ==
    ASSUME TypeOK, NEW q \in Asked, Send(q)
    PROVE  req' \in [Requests -> Asked] /\ LoopGoesOn
<1>1. PICK r \in Free : Put(r, q)
    BY DEF Send
<1>2. r \in Requests /\ ~Continues(r)
    BY <1>1 DEF Free, NoRequest, Continues
<1>3. QED
    BY <1>1, <1>2, Putting

LEMMA Aged ==
    ASSUME NEW q \in Asked, NEW b \in BOOLEAN
    PROVE  /\ [q EXCEPT !.old = b] \in Asked
           /\ [q EXCEPT !.old = b].kind = q.kind
           /\ [q EXCEPT !.old = b].restart = q.restart
BY DEF Asked

\* It is enough that the page and the requests keep what they have.
LEMMA Kept ==
    ASSUME AppIsUpdated, Keeps(page, page'), LoopGoesOn
    PROVE  AppIsUpdated'
BY DEF AppIsUpdated, Keeps, LoopGoesOn

LEMMA Reloaded ==
    ASSUME TypeOK, Reload
    PROVE  page' \in Pages /\ req' \in [Requests -> Asked] /\ page'.layout = "none"
           /\ past' \in [stray : BOOLEAN, swallowed : BOOLEAN, logins : 0..MaxLogins]
<1>1. page.hash \in Hashes
    BY DEF TypeOK, Pages
<1>2. OnlyInit \in [Requests -> Asked]
    BY Requested DEF OnlyInit, Kinds
<1>3. NoPast \in [stray : BOOLEAN, swallowed : BOOLEAN, logins : 0..MaxLogins]
    BY SessionAssumption DEF NoPast
<1>4. QED
    BY <1>1, <1>2, <1>3, LoadedPage DEF Reload

-----------------------------------------------------------------------------
(* Steps *)

PastOK == past \in [stray : BOOLEAN, swallowed : BOOLEAN, logins : 0..MaxLogins]
ServerOK == /\ session \in [user : Anybody, must : BOOLEAN, live : BOOLEAN]
            /\ mustChange \subseteq Users /\ setup \in BOOLEAN

\* Most steps do no more to the page and to the requests than this.
Ordinary == page' \in Pages /\ Keeps(page, page') /\ req' \in [Requests -> Asked] /\ LoopGoesOn

LEMMA Ordinarily ==
    ASSUME IInv, Ordinary, PastOK', ServerOK'
    PROVE  IInv'
BY Kept DEF IInv, TypeOK, Ordinary, PastOK, ServerOK

LEMMA Unchanged ==
    /\ IInv /\ UNCHANGED page => page' \in Pages /\ Keeps(page, page')
    /\ IInv /\ UNCHANGED req => req' \in [Requests -> Asked] /\ LoopGoesOn
    /\ IInv /\ UNCHANGED past => PastOK'
    /\ IInv /\ ServerUnchanged => ServerOK'
BY DEF IInv, TypeOK, Keeps, LoopGoesOn, Continues, PastOK, ServerOK, ServerUnchanged

LEMMA Reloads ==
    ASSUME IInv, Reload, ServerUnchanged
    PROVE  IInv'
BY Reloaded, Unchanged DEF IInv, TypeOK, AppIsUpdated, PastOK, ServerOK

LEMMA UserSteps ==
    ASSUME IInv
    PROVE  /\ \A h \in Links : Route(h) => IInv'
           /\ \A u \in Users : Login(u) => IInv'
           /\ Save \/ AskAdmin \/ AskEndpoint \/ AskDivision \/ Install => IInv'
           /\ FinishInstall \/ ChangePassword \/ CloseModal \/ UserReload => IInv'
<1> USE DEF IInv
<1>1. page \in Pages /\ req \in [Requests -> Asked]
    BY DEF TypeOK
<1>2. ASSUME NEW h \in Links, Route(h) PROVE IInv'
    <2>1. page' \in Pages /\ Keeps(page, page')
        BY <1>1, <1>2, RoutedKeeps DEF Route, Links, Hashes
    <2>2. req' \in [Requests -> Asked] /\ LoopGoesOn
        BY <1>2, Requested, Sending, Unchanged DEF Route, Kinds
    <2>3. QED
        BY <1>2, <2>1, <2>2, Ordinarily, Unchanged DEF Route, Ordinary
<1>3. ASSUME NEW u \in Users, Login(u) PROVE IInv'
    <2> DEFINE q == [Sent("login") EXCEPT !.user = u]
    <2>1. q \in Asked
        BY Requested DEF Asked, Kinds, Anybody
    <2> HIDE DEF q
    <2>2. req' \in [Requests -> Asked] /\ LoopGoesOn
        BY <1>3, <2>1, Sending DEF Login, q
    <2>3. past.logins + 1 \in 0..MaxLogins
        BY <1>3, SessionAssumption DEF Login, TypeOK
    <2>4. PICK b \in BOOLEAN : past' = [past EXCEPT !.logins = past.logins + 1, !.stray = b]
        BY <1>3 DEF Login, TypeOK
    <2>5. PastOK'
        BY <2>3, <2>4 DEF TypeOK, PastOK
    <2>6. QED
        BY <1>3, <2>2, <2>5, Ordinarily, Unchanged DEF Login, Ordinary
<1>4. ASSUME Save \/ Install \/ ChangePassword PROVE IInv'
    <2>1. \E k \in Kinds : Send(Sent(k))
        BY <1>4 DEF Save, Install, ChangePassword, Kinds
    <2>2. req' \in [Requests -> Asked] /\ LoopGoesOn
        BY <2>1, Requested, Sending
    <2>3. QED
        BY <1>4, <2>2, Ordinarily, Unchanged DEF Save, Install, ChangePassword, Ordinary
<1>5. ASSUME AskAdmin \/ AskEndpoint \/ AskDivision PROVE IInv'
    <2>1. PICK from, to \in Steps : Shows(from, to)
        BY <1>5 DEF AskAdmin, AskEndpoint, AskDivision, Steps
    <2>2. page' \in Pages /\ Keeps(page, page')
        BY <1>1, <2>1 DEF Shows, Pages, Keeps
    <2>3. QED
        BY <2>1, <2>2, Ordinarily, Unchanged DEF Shows, Ordinary
<1>6. ASSUME FinishInstall PROVE IInv'
    <2>1. page' \in Pages /\ Keeps(page, page')
        BY <1>1, <1>6, LoggedOutPage DEF FinishInstall, Keeps
    <2>2. req' \in [Requests -> Asked] /\ LoopGoesOn
        BY ZenonT(60), <1>1, <1>6, Aged DEF FinishInstall, LoopGoesOn, Continues
    <2>3. QED
        BY <1>6, <2>1, <2>2, Ordinarily, Unchanged DEF FinishInstall, Ordinary
<1>7. ASSUME CloseModal PROVE IInv'
    <2>1. CASE Reload /\ ServerUnchanged
        BY <2>1, Reloads
    <2>2. CASE /\ page.modal = "expired" /\ page' = [page EXCEPT !.modal = "none"]
               /\ Send(Sent("logout")) /\ UNCHANGED past /\ ServerUnchanged
        <3>1. page' \in Pages
            BY <1>1, <2>2 DEF Pages
        <3>2. req' \in [Requests -> Asked] /\ LoopGoesOn
            BY <2>2, Requested, Sending DEF Kinds
        <3>3. AppIsUpdated'
            BY <1>1, <2>2, <3>2 DEF AppIsUpdated, LoopGoesOn, Pages
        <3>4. QED
            BY <2>2, <3>1, <3>2, <3>3, Unchanged DEF TypeOK, PastOK, ServerOK
    <2>3. QED
        BY <1>7, <2>1, <2>2 DEF CloseModal
<1>8. ASSUME UserReload PROVE IInv'
    BY <1>8, Reloads DEF UserReload
<1>9. QED
    BY <1>2, <1>3, <1>4, <1>5, <1>6, <1>7, <1>8

LEMMA CounterStep == IInv /\ CounterEnds => IInv'
<1> SUFFICES ASSUME IInv, CounterEnds PROVE IInv'
    OBVIOUS
<1> USE DEF IInv
<1> DEFINE q == [Sent("poll") EXCEPT !.restart = TRUE, !.valid = page.ts]
<1>1. page \in Pages
    BY DEF TypeOK
<1>2. q \in Asked /\ q.kind = "poll" /\ q.restart
    BY ZenonT(60), <1>1, Requested DEF Asked, Kinds, Pages
<1> HIDE DEF q
<1>3. Send(q)
    BY DEF CounterEnds, q
<1>4. PICK r \in Free : Put(r, q)
    BY <1>3 DEF Send
<1>5. Continues(r)' /\ r \in Requests
    BY <1>2, <1>4 DEF Put, Continues, TypeOK, Free
<1>6. page' \in Pages
    <2>1. page.counters - 1 \in Nat
        BY <1>1 DEF CounterEnds, Pages
    <2>2. \A n \in Nat : [page EXCEPT !.counters = n] \in Pages
        BY <1>1 DEF Pages
    <2>3. QED
        BY <2>1, <2>2 DEF CounterEnds
<1>7. AppIsUpdated'
    BY <1>5 DEF AppIsUpdated
<1>8. req' \in [Requests -> Asked]
    BY <1>2, <1>3, Sending
<1>9. QED
    BY <1>6, <1>7, <1>8, Unchanged DEF CounterEnds, TypeOK, PastOK, ServerOK

\* What the server answers to a request leaves it what it is.
LEMMA Answering ==
    ASSUME IInv, NEW r \in Requests, NEW s \in {"ok", "forbidden", "failed"}, Answer(r, s)
    PROVE  req' \in [Requests -> Asked] /\ LoopGoesOn
<1>1. req[r] \in Asked
    BY DEF IInv, TypeOK
<1> DEFINE q == [req[r] EXCEPT !.pc = "answered"]
<1>2. q \in Asked /\ q.kind = req[r].kind /\ q.restart = req[r].restart
    BY <1>1 DEF Asked
<1> HIDE DEF q
<1>3. \A f \in {"ok", "forbidden", "failed"} :
        LET a == [q EXCEPT !.status = f, !.user = Guest, !.valid = TRUE]
        IN  a \in Asked /\ a.kind = q.kind /\ a.restart = q.restart
    BY <1>2 DEF Asked, Anybody
<1>4. Failure(q.kind, s) \in {"ok", "forbidden", "failed"}
    BY DEF Failure
<1>5. PICK a \in Asked : Put(r, a) /\ a.kind = req[r].kind /\ a.restart = req[r].restart
    BY <1>2, <1>3, <1>4 DEF Answer, q
<1>6. QED
    BY <1>5, Putting DEF Continues, IInv

LEMMA ServerSteps ==
    ASSUME IInv, NEW r \in Requests
    PROVE  Serve(r) => IInv'
<1>1. /\ req[r] \in Asked /\ session.user \in Anybody /\ session.must \in BOOLEAN /\ setup \in BOOLEAN
      /\ NoSession \in [user : Anybody, must : BOOLEAN, live : BOOLEAN]
    BY DEF IInv, TypeOK, NoSession, Anybody
<1>3. CASE Refuse(r)
    <2>1. req' \in [Requests -> Asked] /\ LoopGoesOn
        BY <1>3, Answering DEF Refuse
    <2>2. PICK b \in BOOLEAN : past' = [past EXCEPT !.swallowed = b]
        BY <1>3 DEF Refuse, IInv, TypeOK
    <2>3. PastOK'
        BY <2>2 DEF PastOK, IInv, TypeOK
    <2>4. ServerOK'
        BY <1>1, <1>3 DEF Refuse, ServerOK, IInv, TypeOK
    <2>5. QED
        BY <1>3, <2>1, <2>3, <2>4, Ordinarily, Unchanged DEF Refuse, Ordinary
<1>4. CASE Fail(r)
    BY <1>4, Answering, Ordinarily, Unchanged DEF Fail, Ordinary
<1>5. CASE ServeState(r)
    <2> DEFINE q == [req[r] EXCEPT !.pc = "answered", !.user = session.user, !.valid = TRUE,
                                   !.must = session.must, !.setup = setup]
    <2>1. q \in Asked /\ q.kind = req[r].kind /\ q.restart = req[r].restart
        BY <1>1 DEF Asked
    <2> HIDE DEF q
    <2>2. Answer(r, "failed") \/ Put(r, q)
        BY <1>5 DEF ServeState, q
    <2>3. req' \in [Requests -> Asked] /\ LoopGoesOn
        BY <2>1, <2>2, Answering, Putting DEF Continues, IInv
    <2>4. QED
        BY <1>5, <2>3, Ordinarily, Unchanged DEF ServeState, Ordinary
<1>6. CASE ServeLogin(r)
    <2> DEFINE q == [req[r] EXCEPT !.pc = "answered", !.must = req[r].user \in mustChange]
    <2>1. q \in Asked /\ q.kind = req[r].kind /\ q.restart = req[r].restart
        <3>1. \A b \in BOOLEAN : LET a == [req[r] EXCEPT !.pc = "answered", !.must = b] IN
                a \in Asked /\ a.kind = req[r].kind /\ a.restart = req[r].restart
            BY <1>1 DEF Asked
        <3>2. (req[r].user \in mustChange) \in BOOLEAN
            OBVIOUS
        <3>3. QED
            BY <3>1, <3>2
    <2>2. [user |-> req[r].user, must |-> req[r].user \in mustChange, live |-> TRUE]
            \in [user : Anybody, must : BOOLEAN, live : BOOLEAN]
        BY <1>1 DEF Asked
    <2> HIDE DEF q
    <2>3. Answer(r, "forbidden") \/ Put(r, q)
        BY <1>6 DEF ServeLogin, q
    <2>4. req' \in [Requests -> Asked] /\ LoopGoesOn
        BY <2>1, <2>3, Answering, Putting DEF Continues, IInv
    <2>5. ServerOK'
        BY <1>6, <2>2 DEF ServeLogin, ServerOK, IInv, TypeOK
    <2>6. PastOK'
        <3>1. \E b \in BOOLEAN : past' = [past EXCEPT !.stray = b] \/ UNCHANGED past
            BY <1>1, <1>6 DEF ServeLogin, IInv, TypeOK, Asked
        <3>2. QED
            BY <3>1 DEF PastOK, IInv, TypeOK
    <2>7. QED
        BY <1>6, <2>4, <2>5, <2>6, Ordinarily, Unchanged DEF ServeLogin, Ordinary
<1>7. CASE ServeLogout(r)
    <2>1. req' \in [Requests -> Asked] /\ LoopGoesOn
        BY <1>7, Answering DEF ServeLogout
    <2>2. ServerOK'
        BY <1>1, <1>7 DEF ServeLogout, ServerOK, IInv, TypeOK
    <2>3. QED
        BY <1>7, <2>1, <2>2, Ordinarily, Unchanged DEF ServeLogout, Ordinary
<1>8. CASE ServePassword(r)
    <2>1. req' \in [Requests -> Asked] /\ LoopGoesOn
        BY <1>8, Answering DEF ServePassword
    <2>2. ServerOK'
        BY <1>8 DEF ServePassword, ServerOK, IInv, TypeOK
    <2>3. QED
        BY <1>8, <2>1, <2>2, Ordinarily, Unchanged DEF ServePassword, Ordinary
<1>9. CASE ServeOther(r)
    <2>1. \E s \in {"ok", "forbidden"} : Answer(r, s)
        BY <1>9 DEF ServeOther
    <2>2. req' \in [Requests -> Asked] /\ LoopGoesOn
        BY <2>1, Answering
    <2>3. ServerOK'
        BY <1>9 DEF ServeOther, ServerOK, IInv, TypeOK
    <2>4. QED
        BY <1>9, <2>2, <2>3, Ordinarily, Unchanged DEF ServeOther, Ordinary
<1>10. QED
    BY <1>3, <1>4, <1>5, <1>6, <1>7, <1>8, <1>9 DEF Serve

-----------------------------------------------------------------------------
(* Answers *)

\* An answer that is no poll's ends no loop.
LEMMA Answered ==
    ASSUME IInv, NEW r \in Requests, req[r].kind # "poll", NEW q \in Asked, Put(r, q)
    PROVE  req' \in [Requests -> Asked] /\ LoopGoesOn
BY Putting DEF IInv, Continues

LEMMA Lately ==
    ASSUME IInv, NEW r \in Requests, Late(r)
    PROVE  PastOK'
<1>1. PICK b \in BOOLEAN : past' = [past EXCEPT !.stray = b]
    BY DEF Late, IInv, TypeOK, Asked
<1>2. QED
    BY <1>1 DEF PastOK, IInv, TypeOK

LEMMA PollAnswered ==
    ASSUME IInv, NEW r \in Requests, GotUpdates(r)
    PROVE  IInv'
<1> USE DEF IInv
<1>1. page \in Pages /\ page.counters \in Nat /\ req[r] \in Asked
    BY DEF TypeOK, Pages
<1>2. req' \in [Requests -> Asked] /\ \A s \in Requests : s # r /\ Continues(s) => Continues(s)'
    BY Requested DEF GotUpdates, Done, Put, TypeOK, Continues
<1>3. CASE Ok(r)
    <2>1. PICK h \in {page.held, page.held \cup ({req[r].user} \ {Guest})} :
            /\ page' = [page EXCEPT !.ts = TRUE, !.held = h,
                                    !.counters = IF req[r].restart THEN page.counters + 1
                                                 ELSE page.counters]
            /\ Late(r)
        BY <1>3 DEF GotUpdates
    <2>1a. h \subseteq Users
        BY <1>1 DEF Pages, Asked, Anybody
    <2> DEFINE n == IF req[r].restart THEN page.counters + 1 ELSE page.counters
    <2>2. n \in Nat /\ (req[r].restart => n > 0) /\ (page.counters > 0 => n > 0)
        BY <1>1
    <2> HIDE DEF n
    <2>3. page' = [page EXCEPT !.ts = TRUE, !.held = h, !.counters = n]
        BY <2>1 DEF n
    <2>4. /\ page' \in Pages /\ page'.counters = n
          /\ page'.layout = page.layout /\ page'.modal = page.modal
        BY <1>1, <2>2, <2>3, <2>1a DEF Pages
    <2>5. AppIsUpdated'
        BY <1>2, <2>2, <2>4 DEF AppIsUpdated, Continues
    <2>6. QED
        BY <1>2, <2>1, <2>4, <2>5, Lately, Unchanged DEF GotUpdates, TypeOK, PastOK, ServerOK
<1>4. CASE ~Ok(r)
    <2>1. page' = [page EXCEPT !.modal = "lost"]
        BY <1>4 DEF GotUpdates
    <2>2. page' \in Pages /\ page'.modal = "lost"
        BY <1>1, <2>1 DEF Pages
    <2>3. QED
        BY <1>2, <1>4, <2>2, Unchanged DEF GotUpdates, AppIsUpdated, TypeOK, PastOK, ServerOK
<1>5. QED
    BY <1>3, <1>4

LEMMA OtherAnswers ==
    ASSUME IInv, NEW r \in Requests
    PROVE  Answers(r) => IInv'
<1> USE DEF IInv
<1>1. page \in Pages /\ req \in [Requests -> Asked] /\ req[r] \in Asked
    BY DEF TypeOK
<1>2. NoRequest \in Asked /\ Sent("logout") \in Asked /\ Sent("state") \in Asked
    BY Requested DEF Kinds
<1>3. CASE Loaded(r)
    <2> DEFINE s == [page EXCEPT !.user = req[r].user, !.must = req[r].must,
                                 !.setup = req[r].setup, !.held = {req[r].user} \ {Guest}]
               p == Finalized(s)
               q == [p EXCEPT !.phase = "ready"]
    <2>1. s \in Pages /\ Keeps(page, s)
        BY <1>1 DEF Pages, Asked, Anybody, Keeps
    <2> HIDE DEF s
    <2>2. p \in Pages /\ Keeps(page, p)
        BY <2>1, FinalizedPage, KeepsIsTransitive
    <2> HIDE DEF p
    <2>3. q \in Pages /\ Keeps(page, q) /\ q.hash \in Hashes
        BY <2>2 DEF Pages, Keeps
    <2> HIDE DEF q
    <2>4. page' = Routed(q, q.hash)
        BY <1>3 DEF Loaded, p, q, s
    <2>5. page' \in Pages /\ Keeps(page, page')
        BY <2>3, <2>4, RoutedKeeps, KeepsIsTransitive
    <2>6. req' \in [Requests -> Asked] /\ LoopGoesOn
        BY <1>2, <1>3, Answered DEF Loaded, Has
    <2>1a. QED
        BY <1>3, <2>5, <2>6, Ordinarily, Unchanged DEF Loaded, Ordinary
<1>4. CASE LoadFails(r)
    <2>1. CASE Reload /\ ServerUnchanged
        BY <2>1, Reloads
    <2>2. CASE page' = [page EXCEPT !.phase = "blank"] /\ Done(r) /\ UNCHANGED past /\ ServerUnchanged
        <3>1. page' \in Pages /\ Keeps(page, page')
            BY <1>1, <2>2 DEF Pages, Keeps
        <3>2. req' \in [Requests -> Asked] /\ LoopGoesOn
            BY <1>2, <1>4, <2>2, Answered DEF LoadFails, Has, Done
        <3>3. QED
            BY <2>2, <3>1, <3>2, Ordinarily, Unchanged DEF Ordinary
    <2>3. QED
        BY <1>4, <2>1, <2>2 DEF LoadFails
<1>5. CASE LoggedIn(r)
    <2> DEFINE p == [page EXCEPT !.user = req[r].user, !.must = req[r].must]
               q == [Sent("state") EXCEPT !.old = req[r].old]
    <2>1. p \in Pages /\ Keeps(page, p)
        BY <1>1 DEF Pages, Asked, Keeps
    <2>2. q \in Asked
        BY <1>1, <1>2 DEF Asked
    <2> HIDE DEF p, q
    <2>3. /\ page' \in {page, p, Routed(p, "changepw")}
          /\ Put(r, q) \/ Done(r)
          /\ UNCHANGED past \/ Late(r)
        BY <1>5 DEF LoggedIn, p, q
    <2>4. page' \in Pages /\ Keeps(page, page')
        <3>1. Routed(p, "changepw") \in Pages /\ Keeps(page, Routed(p, "changepw"))
            BY <2>1, RoutedKeeps, KeepsIsTransitive DEF Hashes
        <3>2. Keeps(page, page)
            BY DEF Keeps
        <3>3. QED
            BY <1>1, <2>1, <2>3, <3>1, <3>2
    <2>5. req' \in [Requests -> Asked] /\ LoopGoesOn
        BY <1>2, <1>5, <2>2, <2>3, Answered DEF LoggedIn, Has, Done
    <2>6. QED
        BY <1>5, <2>3, <2>4, <2>5, Lately, Ordinarily, Unchanged DEF LoggedIn, Ordinary
<1>6. CASE GotState(r)
    <2> DEFINE p == [page EXCEPT !.setup = req[r].setup, !.ts = TRUE,
                                 !.held = {req[r].user} \ {Guest}]
    <2>1. p \in Pages /\ Keeps(page, p)
        BY <1>1 DEF Pages, Asked, Anybody, Keeps
    <2> HIDE DEF p
    <2>2. page' \in {page, Routed(InitLayout(p), "")} /\ (UNCHANGED past \/ Late(r))
        BY <1>6 DEF GotState, p
    <2>3. page' \in Pages /\ Keeps(page, page')
        <3>1. InitLayout(p) \in Pages /\ Keeps(page, InitLayout(p))
            BY <2>1, LaidOutPage, KeepsIsTransitive
        <3>2. Routed(InitLayout(p), "") \in Pages /\ Keeps(page, Routed(InitLayout(p), ""))
            BY <3>1, RoutedKeeps, KeepsIsTransitive DEF Hashes
        <3>3. Keeps(page, page)
            BY DEF Keeps
        <3>4. QED
            BY <1>1, <2>2, <3>2, <3>3
    <2>4. req' \in [Requests -> Asked] /\ LoopGoesOn
        BY <1>2, <1>6, Answered DEF GotState, Has, Done
    <2>5. QED
        BY <1>6, <2>2, <2>3, <2>4, Lately, Ordinarily, Unchanged DEF GotState, Ordinary
<1>7. CASE Saved(r)
    <2>1. [Sent("poll") EXCEPT !.valid = page.ts, !.old = req[r].old] \in Asked
        BY ZenonT(60), <1>1, Requested DEF Asked, Kinds, Pages
    <2>2. req' \in [Requests -> Asked] /\ LoopGoesOn
        BY <1>2, <1>7, <2>1, Answered DEF Saved, Has
    <2>3. QED
        BY <1>7, <2>2, Ordinarily, Unchanged DEF Saved, Ordinary
<1>8. CASE LogoutAnswered(r)
    <2>1. CASE Reload /\ ServerUnchanged
        BY <2>1, Reloads
    <2>2. CASE Ok(r)
        <3> DEFINE p == LoggedOut(page)
        <3>1. p \in Pages /\ p.layout = "login"
            BY <1>1, LoggedOutPage
        <3> HIDE DEF p
        <3>2. page' = [p EXCEPT !.user = Guest, !.must = FALSE, !.held = {}, !.ts = FALSE]
            BY <1>8, <2>2 DEF LogoutAnswered, p
        <3>3. page' \in Pages /\ Keeps(page, page')
            BY <3>1, <3>2 DEF Pages, Anybody, Keeps
        <3>4. req' = [q \in Requests |-> IF q = r THEN NoRequest
                                         ELSE [req[q] EXCEPT !.old = req[q] # NoRequest]]
            BY <1>8, <2>2 DEF LogoutAnswered
        <3>5. req[r].kind = "logout"
            BY <1>8 DEF LogoutAnswered, Has
        <3>6. ASSUME NEW q \in Requests
              PROVE  req'[q] \in Asked /\ (Continues(q) => Continues(q)')
            <4>1. CASE q = r
                BY <1>2, <3>4, <3>5, <4>1 DEF Continues
            <4>2. CASE q # r
                <5>1. req'[q] = [req[q] EXCEPT !.old = (req[q] # NoRequest)]
                    BY <3>4, <4>2
                <5>2. (req[q] # NoRequest) \in BOOLEAN /\ req[q] \in Asked
                    BY <1>1
                <5>3. /\ req'[q] \in Asked /\ req'[q].kind = req[q].kind
                      /\ req'[q].restart = req[q].restart
                    BY <5>1, <5>2, Aged
                <5>4. QED
                    BY <5>3 DEF Continues
            <4>3. QED
                BY <4>1, <4>2
        <3>7. req' \in [Requests -> Asked] /\ LoopGoesOn
            BY <3>4, <3>6 DEF LoopGoesOn
        <3>8. QED
            BY <1>8, <2>2, <3>3, <3>7, Ordinarily, Unchanged DEF LogoutAnswered, Ordinary
    <2>3. QED
        BY <1>8, <2>1, <2>2 DEF LogoutAnswered
<1>9. CASE PasswordAnswered(r)
    <2>1. CASE Reload /\ ServerUnchanged
        BY <2>1, Reloads
    <2>2. CASE /\ page.modal # "lost" /\ page' = [page EXCEPT !.modal = "expired"]
               /\ Done(r) /\ UNCHANGED past /\ ServerUnchanged
        <3>1. page' \in Pages /\ page'.counters = page.counters /\ page'.layout = page.layout
            BY <1>1, <2>2 DEF Pages
        <3>2. req' \in [Requests -> Asked] /\ LoopGoesOn
            BY <1>2, <1>9, <2>2, Answered DEF PasswordAnswered, Has, Done
        <3>3. AppIsUpdated'
            BY <2>2, <3>1, <3>2 DEF AppIsUpdated, LoopGoesOn
        <3>4. QED
            BY <2>2, <3>1, <3>2, <3>3, Unchanged DEF TypeOK, PastOK, ServerOK
    <2>3. CASE /\ UNCHANGED <<page, past>> /\ ServerUnchanged
               /\ Put(r, Sent("logout")) \/ Done(r)
        <3>1. req' \in [Requests -> Asked] /\ LoopGoesOn
            BY <1>2, <1>9, <2>3, Answered DEF PasswordAnswered, Has, Done
        <3>2. QED
            BY <2>3, <3>1, Ordinarily, Unchanged DEF Ordinary
    <2>4. QED
        BY <1>9, <2>1, <2>2, <2>3 DEF PasswordAnswered
<1>10. CASE InstallAnswered(r)
    <2>1. PICK v \in Steps : page' = [page EXCEPT !.view = v]
        BY <1>1, <1>10 DEF InstallAnswered, Steps, Pages
    <2>2. page' \in Pages /\ Keeps(page, page')
        BY <1>1, <2>1 DEF Pages, Keeps
    <2>3. req' \in [Requests -> Asked] /\ LoopGoesOn
        BY <1>2, <1>10, Answered DEF InstallAnswered, Has, Done
    <2>4. QED
        BY <1>10, <2>2, <2>3, Ordinarily, Unchanged DEF InstallAnswered, Ordinary
<1>11. QED
    BY <1>3, <1>4, <1>5, <1>6, <1>7, <1>8, <1>9, <1>10, PollAnswered DEF Answers

-----------------------------------------------------------------------------
(* Theorems *)

LEMMA InvInit == Init => IInv
<1> SUFFICES ASSUME Init PROVE IInv
    OBVIOUS
<1>1. page \in Pages /\ page.layout = "none"
    BY LoadedPage DEF Init
<1>2. req \in [Requests -> Asked]
    BY Requested DEF Init, OnlyInit, Kinds
<1>3. past \in [stray : BOOLEAN, swallowed : BOOLEAN, logins : 0..MaxLogins]
    BY SessionAssumption DEF Init, NoPast
<1>4. mustChange \subseteq Users /\ setup \in BOOLEAN
    BY SessionAssumption DEF Init
<1>5. session \in [user : Anybody, must : BOOLEAN, live : BOOLEAN]
    <2>1. NoSession \in [user : Anybody, must : BOOLEAN, live : BOOLEAN]
        BY DEF NoSession, Anybody
    <2>2. [user : Users \ NewUsers, must : {FALSE}, live : {TRUE}]
            \subseteq [user : Anybody, must : BOOLEAN, live : BOOLEAN]
        BY DEF Anybody
    <2>3. session \in {NoSession} \cup [user : Users \ NewUsers, must : {FALSE}, live : {TRUE}]
        BY DEF Init
    <2>4. QED
        BY <2>1, <2>2, <2>3
<1>6. QED
    BY <1>1, <1>2, <1>3, <1>4, <1>5 DEF IInv, TypeOK, AppIsUpdated

LEMMA InvStep == IInv /\ [Next]_vars => IInv'
<1>1. ASSUME IInv, UNCHANGED vars PROVE IInv'
    BY <1>1 DEF vars, IInv, TypeOK, AppIsUpdated, Continues
<1>2. ASSUME IInv, Expire PROVE IInv'
    <2>1. ServerOK'
        BY <1>2 DEF Expire, IInv, TypeOK, ServerOK
    <2>2. QED
        BY <1>2, <2>1, Ordinarily, Unchanged DEF Expire, Ordinary
<1>3. QED
    BY <1>1, <1>2, UserSteps, CounterStep, ServerSteps, OtherAnswers DEF Next

\* The session, the page and its requests are what the operators on them make of them.
THEOREM TypeCorrect == Spec => []TypeOK
BY InvInit, InvStep, PTL DEF Spec, IInv

\* Answers in any order, failures, logouts and sessions that run out: as long as the
\* application is shown, a counter or a poll of checkForUpdates() keeps it up to date, or
\* the page has said that it has lost its connection.
THEOREM AppStaysUpdated == Spec => []AppIsUpdated
BY InvInit, InvStep, PTL DEF Spec, IInv

-----------------------------------------------------------------------------
(* One loop, and the own data *)

Fresh(x, kinds) == req[x].kind \in kinds /\ ~req[x].old
Told(x) == req[x].pc = "answered" /\ req[x].status = "ok"
IsOwn(u) == u \in {Guest, page.user}

\* Before the page is ready it asks for its state, and does nothing else.
Loading ==
    /\ page.phase # "ready" =>
         /\ page.layout = "none" /\ page.modal = "none" /\ page.counters = 0
         /\ \A x \in Requests : req[x] = NoRequest \/ Fresh(x, {"init"})
    /\ page.phase = "ready" => \A x \in Requests : req[x].kind # "init"
    /\ \A x, y \in Requests : req[x].kind = "init" /\ req[y].kind = "init" => x = y
    /\ \A x \in Requests : req[x].kind = "init" /\ Told(x) => req[x].user = session.user

Named == \A x \in Requests :
    req[x].kind = "login" /\ req[x].status = "ok" => req[x].user \in Users

\* A loop begins with a login, of which there is one, and nothing of a loop is left then.
Loops ==
    /\ page.layout = "login" =>
         page.counters = 0 /\ \A x \in Requests : ~Fresh(x, {"poll", "save"})
    /\ \A x \in Requests : Fresh(x, {"login", "state"}) =>
         /\ page.layout = "login"
         /\ \A y \in Requests : Fresh(y, {"login", "state"}) => x = y
    /\ page.counters <= 1
    /\ \A x \in Running : page.counters = 0 /\ \A y \in Running : x = y

\* From the answer to the login on, the session is that of the user whom the page shows.
Own ==
    /\ page.layout = "app" \/ (\E x \in Requests : Fresh(x, {"state"})) =>
         /\ page.user # Guest /\ IsOwn(session.user)
         /\ \A x \in Requests : Fresh(x, {"state", "poll"}) /\ Told(x) => IsOwn(req[x].user)
    /\ \A x \in Requests : Fresh(x, {"login"}) /\ Told(x) => session.user \in {Guest, req[x].user}
    /\ page.layout = "app" => page.held \subseteq {page.user}

LoopInv == Loading /\ Named /\ (~past.stray => Loops /\ Own)

-----------------------------------------------------------------------------
\* A request is put in its place, others stay.
LEMMA Putted ==
    ASSUME IInv, NEW r \in Requests, NEW q, Put(r, q)
    PROVE  req'[r] = q /\ \A x \in Requests \ {r} : req'[x] = req[x]
BY DEF Put, IInv, TypeOK

LEMMA NoRequestIsNone ==
    NoRequest.kind = "none" /\ NoRequest.old = FALSE /\ NoRequest.pc = "none"
BY DEF NoRequest

LEMMA SentIsFresh ==
    \A k : /\ Sent(k).kind = k /\ Sent(k).pc = "sent" /\ Sent(k).old = FALSE
           /\ Sent(k).restart = FALSE /\ Sent(k).status = "ok" /\ Sent(k).user = Guest
BY DEF Sent, NoRequest

\* Steps of the server.
LEMMA ServedLoop ==
    ASSUME IInv, LoopInv, NEW r \in Requests, NEW q, Put(r, q), req[r].pc = "sent", UNCHANGED page,
           q.kind = req[r].kind, q.old = req[r].old, q.restart = req[r].restart,
           ~past'.stray => ~past.stray,
           \/ session'.user \in {Guest, session.user}
           \/ /\ q.kind = "login" /\ session'.user = req[r].user
              /\ ~past'.stray => ~q.old,
           q.status = "ok" => /\ q.kind \in {"init", "state", "poll"} => q.user = session'.user
                              /\ q.kind = "login" => /\ q.user = req[r].user /\ req[r].status = "ok"
                                                     /\ session'.user = q.user
    PROVE  LoopInv'
<1>1. req'[r] = q /\ \A x \in Requests \ {r} : req'[x] = req[x]
    BY Putted
<1>2. \A x \in Requests : /\ req'[x].kind = req[x].kind /\ req'[x].old = req[x].old
                          /\ req'[x].restart = req[x].restart
    BY <1>1
<1>3. \A x, k : x \in Requests => (Fresh(x, k)' <=> Fresh(x, k))
    BY <1>2 DEF Fresh
<1>5. Loading'
    <2>1. req[r] # NoRequest
        BY NoRequestIsNone
    <2>2. ASSUME NEW x \in Requests, req'[x].kind = "init", Told(x)'
          PROVE  req'[x].user = session'.user
        <3>1. CASE x = r
            BY <1>1, <2>2, <3>1 DEF Told
        <3>2. CASE x # r
            BY <1>1, <1>2, <2>1, <2>2, <3>2 DEF LoopInv, Loading, Fresh
        <3>3. QED
            BY <3>1, <3>2
    <2>3. QED
        BY <1>1, <1>2, <1>3, <2>1, <2>2 DEF LoopInv, Loading, Fresh
<1>6. Named'
    BY <1>1 DEF LoopInv, Named
<1>7. ASSUME ~past'.stray PROVE Loops' /\ Own'
    <2>1. Loops /\ Own
        BY <1>7 DEF LoopInv
    <2>2. Running' = Running
        BY <1>2 DEF Running, Continues
    <2>3. Loops'
        BY <1>3, <2>1, <2>2 DEF Loops
    <2>4. ASSUME page.layout = "app" \/ \E x \in Requests : Fresh(x, {"state"})
          PROVE  /\ page.user # Guest /\ IsOwn(session'.user)
                 /\ \A x \in Requests : Fresh(x, {"state", "poll"}) /\ Told(x)' => IsOwn(req'[x].user)
        <3>1. page.user # Guest /\ IsOwn(session.user)
            BY <2>1, <2>4 DEF Own
        <3>2. q.kind = "login" => past'.stray \/ q.old
            <4>1. SUFFICES ASSUME q.kind = "login", ~q.old PROVE FALSE
                OBVIOUS
            <4>2. Fresh(r, {"login", "state"}) /\ ~Fresh(r, {"state"})
                BY <4>1 DEF Fresh
            <4>3. \A x : Fresh(x, {"state"}) => Fresh(x, {"login", "state"})
                BY DEF Fresh
            <4>4. page.layout = "login"
                BY <2>1, <4>2 DEF Loops
            <4>5. QED
                BY <2>1, <2>4, <4>2, <4>3, <4>4 DEF Loops
        <3>3. IsOwn(session'.user)
            BY <1>7, <3>1, <3>2 DEF IsOwn
        <3>4. ASSUME NEW x \in Requests, Fresh(x, {"state", "poll"}), Told(x)'
              PROVE  IsOwn(req'[x].user)
            <4>1. CASE x = r
                BY <1>1, <3>3, <3>4, <4>1 DEF Told, Fresh
            <4>2. CASE x # r
                BY <1>1, <2>1, <2>4, <3>4, <4>2 DEF Told, Own
            <4>3. QED
                BY <4>1, <4>2
        <3>5. QED
            BY <3>1, <3>3, <3>4
    <2>5. ASSUME NEW x \in Requests, Fresh(x, {"login"}), Told(x)'
          PROVE  session'.user \in {Guest, req'[x].user}
        <3>1. CASE x = r
            BY <1>1, <2>5, <3>1 DEF Told, Fresh
        <3>2. CASE x # r
            <4>1. session.user \in {Guest, req[x].user} /\ req'[x] = req[x]
                BY <1>1, <2>1, <2>5, <3>2 DEF Told, Own
            <4>2. Fresh(x, {"login", "state"})
                BY <2>5 DEF Fresh
            <4>3. ~Fresh(r, {"login", "state"})
                BY <2>1, <3>2, <4>2 DEF Loops
            <4>4. ~(q.kind = "login" /\ ~q.old)
                BY <4>3 DEF Fresh
            <4>5. QED
                BY <1>7, <4>1, <4>4
        <3>3. QED
            BY <3>1, <3>2
    <2>6. Own'
        BY <1>3, <2>1, <2>4, <2>5 DEF Own, IsOwn
    <2>7. QED
        BY <2>3, <2>6
<1>8. QED
    BY <1>5, <1>6, <1>7 DEF LoopInv

\* What the server makes of a request.
LEMMA AnswerIs ==
    ASSUME IInv, NEW r \in Requests, NEW s \in {"ok", "forbidden", "failed"}, Answer(r, s)
    PROVE  \E q : /\ Put(r, q) /\ q.kind = req[r].kind /\ q.old = req[r].old
                  /\ q.restart = req[r].restart /\ (s # "ok" => q.status # "ok")
<1>1. req[r] \in Asked
    BY DEF IInv, TypeOK
<1>2. PICK f : f = Failure(req[r].kind, s) /\ (s # "ok" => f # "ok")
    BY DEF Failure
<1>3. LET q == [req[r] EXCEPT !.pc = "answered"]
          a == [q EXCEPT !.status = f, !.user = Guest, !.valid = TRUE] IN
        /\ q.kind = req[r].kind /\ q.old = req[r].old /\ q.restart = req[r].restart
        /\ a.kind = req[r].kind /\ a.old = req[r].old /\ a.restart = req[r].restart /\ a.status = f
    BY <1>1 DEF Asked
<1>4. [req[r] EXCEPT !.pc = "answered"].kind = req[r].kind
    BY <1>1 DEF Asked
<1>5. CASE s = "ok"
    BY <1>3, <1>5 DEF Answer
<1>6. CASE s # "ok"
    BY <1>2, <1>3, <1>4, <1>6 DEF Answer
<1>7. QED
    BY <1>5, <1>6

LEMMA ServerLoop ==
    ASSUME IInv, LoopInv, NEW r \in Requests, Serve(r)
    PROVE  LoopInv'
<1>1. /\ UNCHANGED page /\ req[r].pc = "sent" /\ req[r] \in Asked
      /\ past \in [stray : BOOLEAN, swallowed : BOOLEAN, logins : 0..MaxLogins]
    BY DEF Serve, Refuse, Fail, ServeState, ServeLogin, ServeLogout, ServePassword, ServeOther,
           Handles, IInv, TypeOK
<1>2. NoSession.user = Guest
    BY DEF NoSession
<1>3. CASE Refuse(r)
    <2>1. session' = NoSession /\ Answer(r, "forbidden") /\ past'.stray = past.stray
        BY <1>1, <1>3 DEF Refuse
    <2>2. QED
        BY <1>1, <1>2, <2>1, AnswerIs, ServedLoop
<1>4. CASE Fail(r)
    <2>1. UNCHANGED <<session, past>> /\ Answer(r, "failed")
        BY <1>4 DEF Fail, ServerUnchanged
    <2>2. QED
        BY <1>1, <2>1, AnswerIs, ServedLoop
<1>5. CASE ServeState(r)
    <2>1. UNCHANGED <<session, past>> /\ req[r].kind \in {"init", "state", "poll"}
        BY <1>5 DEF ServeState, ServerUnchanged, Handles
    <2>2. CASE Answer(r, "failed")
        BY <1>1, <2>1, <2>2, AnswerIs, ServedLoop
    <2>3. CASE Put(r, [req[r] EXCEPT !.pc = "answered", !.user = session.user, !.valid = TRUE,
                                     !.must = session.must, !.setup = setup])
        <3>1. PICK q : q = [req[r] EXCEPT !.pc = "answered", !.user = session.user, !.valid = TRUE,
                                     !.must = session.must, !.setup = setup]
            OBVIOUS
        <3>2. /\ q.kind = req[r].kind /\ q.old = req[r].old /\ q.restart = req[r].restart
              /\ q.user = session.user
            BY <1>1, <3>1 DEF Asked
        <3>3. QED
            BY <1>1, <2>1, <2>3, <3>1, <3>2, ServedLoop
    <2>4. QED
        BY <1>5, <2>2, <2>3 DEF ServeState
<1>6. CASE ServeLogin(r)
    <2>1. req[r].kind = "login" /\ past'.stray = (past.stray \/ (req[r].old /\ ~setup))
        BY <1>1, <1>6 DEF ServeLogin, Handles
    <2>2. CASE setup
        <3>1. Answer(r, "forbidden") /\ UNCHANGED session
            BY <1>6, <2>2 DEF ServeLogin
        <3>2. QED
            BY <1>1, <2>1, <3>1, AnswerIs, ServedLoop
    <2>3. CASE ~setup
        <3>1. PICK b : b = (req[r].user \in mustChange)
            OBVIOUS
        <3>2. PICK q : q = [req[r] EXCEPT !.pc = "answered", !.must = b]
            OBVIOUS
        <3>3. session' = [user |-> req[r].user, must |-> b, live |-> TRUE] /\ Put(r, q)
            BY <1>6, <2>3, <3>1, <3>2 DEF ServeLogin
        <3>4. /\ q.kind = req[r].kind /\ q.old = req[r].old /\ q.restart = req[r].restart
              /\ q.user = req[r].user /\ q.status = req[r].status /\ session'.user = req[r].user
            BY <1>1, <3>2, <3>3 DEF Asked
        <3>5. QED
            BY <1>1, <2>1, <2>3, <3>3, <3>4, ServedLoop
    <2>4. QED
        BY <2>2, <2>3
<1>7. CASE ServeLogout(r)
    <2>1. session' = NoSession /\ UNCHANGED past /\ req[r].kind = "logout"
        BY <1>7 DEF ServeLogout, Handles
    <2>2. Answer(r, "ok") \/ Answer(r, "forbidden")
        BY <1>7 DEF ServeLogout
    <2>3. QED
        BY <1>1, <1>2, <2>1, <2>2, AnswerIs, ServedLoop
<1>8. CASE ServePassword(r) \/ ServeOther(r)
    <2>1. UNCHANGED <<session, past>> /\ req[r].kind \in {"password", "install", "save"}
        BY <1>8 DEF ServePassword, ServeOther, Handles
    <2>2. Answer(r, "ok") \/ Answer(r, "forbidden")
        BY <1>8 DEF ServePassword, ServeOther
    <2>3. QED
        BY <1>1, <2>1, <2>2, AnswerIs, ServedLoop
<1>9. QED
    BY <1>3, <1>4, <1>5, <1>6, <1>7, <1>8 DEF Serve

-----------------------------------------------------------------------------
(* What the operators on the page leave, and steps of a page that is ready *)

\* What a route leaves as it is.
Leaves(p, q) == /\ q.phase = p.phase /\ q.counters = p.counters /\ q.user = p.user /\ q.held = p.held
                /\ q.layout \in {p.layout, "setup"}

LEMMA LeavesIsTransitive ==
    ASSUME NEW p, NEW q, NEW s, Leaves(p, q), Leaves(q, s)
    PROVE  Leaves(p, s)
BY DEF Leaves

LEMMA StartedLeaves ==
    ASSUME NEW p \in Pages, NEW m \in Modules
    PROVE  /\ Leaves(p, StartModule(p, m))
           /\ m # "setup" => StartModule(p, m).layout = p.layout
<1>1. \A l : LET q == [p EXCEPT !.module = m, !.layout = l] IN
        q.phase = p.phase /\ q.counters = p.counters /\ q.user = p.user /\ q.held = p.held /\ q.layout = l
    BY DEF Pages
<1>2. CASE p.module = m
    BY <1>2 DEF StartModule, Leaves
<1>3. CASE p.module # m /\ m = "setup"
    BY <1>1, <1>3 DEF StartModule, Leaves
<1>4. CASE p.module # m /\ m # "setup"
    <2>1. [p EXCEPT !.module = m, !.layout = IF m = "setup" THEN "setup" ELSE @] =
          [p EXCEPT !.module = m, !.layout = p.layout]
        BY <1>4
    <2>2. QED
        BY <1>1, <1>4, <2>1 DEF StartModule, Leaves
<1>5. QED
    BY <1>2, <1>3, <1>4

LEMMA RoutedLeaves ==
    ASSUME NEW p \in Pages, NEW h \in Hashes
    PROVE  /\ Leaves(p, Routed(p, h))
           /\ h \in Links => Routed(p, h).layout = p.layout
<1>1. PICK q : q = [p EXCEPT !.hash = h]
    OBVIOUS
<1>2. q \in Pages /\ Leaves(p, q) /\ q.layout = p.layout
    BY <1>1 DEF Pages, Leaves
<1>3. \A m \in Modules : /\ Leaves(p, StartModule(q, m)) /\ StartModule(q, m) \in Pages
                         /\ m # "setup" => StartModule(q, m).layout = p.layout
    BY <1>2, StartedLeaves, Started, LeavesIsTransitive
<1>4. PICK s : s = StartModule(q, "setup")
    OBVIOUS
<1>5. s \in Pages /\ Leaves(p, s)
    BY <1>3, <1>4 DEF Modules
<1>6. \A v : Leaves(p, [s EXCEPT !.view = v])
    BY <1>5 DEF Pages, Leaves
<1>7. CASE h = "setup"
    BY <1>1, <1>4, <1>6, <1>7 DEF Routed, Links
<1>8. CASE h = "changepw"
    <2>1. \E v : Routed(p, h) = [s EXCEPT !.view = v]
        BY <1>1, <1>4, <1>8, Zenon DEF Routed
    <2>2. QED
        BY <1>6, <1>8, <2>1 DEF Links
<1>9. CASE h = "logout"
    BY <1>1, <1>3, <1>9 DEF Routed, Modules
<1>10. CASE h = ""
    BY <1>1, <1>2, <1>3, <1>10 DEF Routed, Modules
<1>11. QED
    BY <1>7, <1>8, <1>9, <1>10 DEF Hashes

LEMMA LoggedOutHas ==
    ASSUME NEW p \in Pages
    PROVE  LET q == LoggedOut(p) IN
           q.layout = "login" /\ q.counters = 0 /\ q.phase = p.phase /\ q.user = p.user /\ q.held = p.held
<1>1. \A h : LET q == [p EXCEPT !.module = "none", !.layout = "login", !.counters = 0,
                          !.view = "landing", !.hash = h] IN
           q.layout = "login" /\ q.counters = 0 /\ q.phase = p.phase /\ q.user = p.user /\ q.held = p.held
    BY DEF Pages
<1>2. \E h : LoggedOut(p) = [p EXCEPT !.module = "none", !.layout = "login", !.counters = 0,
                          !.view = "landing", !.hash = h]
    BY Zenon DEF LoggedOut
<1>3. QED
    BY <1>1, <1>2

LEMMA LaidOutHas ==
    ASSUME NEW p \in Pages
    PROVE  LET q == InitLayout(p) IN
           /\ q.layout = "app" /\ q.counters = p.counters + 1
           /\ q.phase = p.phase /\ q.user = p.user /\ q.held = p.held
BY DEF InitLayout, Pages

\* Steps of a page that is ready.
LEMMA ReadyLoop ==
    ASSUME IInv, LoopInv, page.phase = "ready", page'.phase = "ready", UNCHANGED session,
           \A x \in Requests :
              /\ req'[x].kind # "init"
              /\ req'[x].kind = "login" /\ req'[x].status = "ok" => req'[x].user \in Users,
           ~past'.stray => ~past.stray,
           ~past'.stray => Loops' /\ Own'
    PROVE  LoopInv'
BY DEF LoopInv, Loading, Named, Told

\* A request that has nothing to do with the loop.
Harmless(q) ==
    /\ q.kind \notin {"init", "login", "state"}
    /\ q.kind \in {"poll", "save"} =>
         q.pc = "sent" /\ ~q.restart /\ (past.stray \/ q.old \/ page.layout # "login")

LEMMA HarmlessLoop ==
    ASSUME IInv, LoopInv, page.phase = "ready", UNCHANGED session, past'.stray = past.stray,
           page'.phase = "ready", page'.layout = page.layout, page'.counters = page.counters,
           page'.user = page.user, page'.held = page.held,
           \A x \in Requests : req'[x] = req[x] \/ Harmless(req'[x])
    PROVE  LoopInv'
<1>1. \A x \in Requests :
              /\ req'[x].kind # "init"
              /\ req'[x].kind = "login" /\ req'[x].status = "ok" => req'[x].user \in Users
    BY DEF LoopInv, Loading, Named, Harmless
<1>2. ASSUME ~past.stray PROVE Loops' /\ Own'
    <2>1. Loops /\ Own
        BY <1>2 DEF LoopInv
    <2>2. \A x \in Requests : Fresh(x, {"login", "state"})' => Fresh(x, {"login", "state"})
        BY DEF Harmless, Fresh
    <2>3. Running' \subseteq Running
        BY DEF Harmless, Running, Continues
    <2>4. \A x \in Requests :
            page.layout = "login" => (Fresh(x, {"poll", "save"})' => Fresh(x, {"poll", "save"}))
        BY <1>2 DEF Harmless, Fresh
    <2>5. Loops'
        BY <2>1, <2>2, <2>3, <2>4 DEF Loops
    <2>6. \A x \in Requests : Fresh(x, {"state"})' => Fresh(x, {"state"})
        BY DEF Harmless, Fresh
    <2>7. \A x \in Requests :
            Fresh(x, {"state", "poll"})' /\ Told(x)' =>
              Fresh(x, {"state", "poll"}) /\ Told(x) /\ req'[x] = req[x]
        BY DEF Harmless, Fresh, Told
    <2>8. \A x \in Requests :
            Fresh(x, {"login"})' /\ Told(x)' => Fresh(x, {"login"}) /\ Told(x) /\ req'[x] = req[x]
        BY DEF Harmless, Fresh, Told
    <2>9. Own'
        BY <2>1, <2>6, <2>7, <2>8 DEF Own, IsOwn
    <2>10. QED
        BY <2>5, <2>9
<1>3. QED
    BY <1>1, <1>2, ReadyLoop

LEMMA NoRequestIsHarmless == Harmless(NoRequest) /\ NoRequest.kind = "none"
BY NoRequestIsNone DEF Harmless

LEMMA SendingOne ==
    ASSUME IInv, NEW q, Send(q)
    PROVE  \E r \in Requests : req[r] = NoRequest /\ Put(r, q) /\ req'[r] = q
                               /\ \A x \in Requests \ {r} : req'[x] = req[x]
<1>1. PICK r \in Free : Put(r, q)
    BY DEF Send
<1>2. QED
    BY <1>1, Putted DEF Free

\* A logout: what is under way is of the former session.
LEMMA LogoutLoop ==
    ASSUME IInv, LoopInv, page.phase = "ready", UNCHANGED <<session, past>>,
           page'.phase = "ready", page'.layout = "login", page'.counters = 0,
           \A x \in Requests :
             \/ req'[x] = NoRequest
             \/ /\ req'[x].old /\ req'[x].kind = req[x].kind
                /\ req'[x].status = req[x].status /\ req'[x].user = req[x].user
    PROVE  LoopInv'
<1>1. \A x \in Requests :
              /\ req'[x].kind # "init"
              /\ req'[x].kind = "login" /\ req'[x].status = "ok" => req'[x].user \in Users
    BY NoRequestIsNone DEF LoopInv, Loading, Named
<1>2. \A x \in Requests : req'[x].old \/ req'[x].kind = "none"
    BY NoRequestIsNone
<1>3. Loops' /\ Own'
    BY <1>2 DEF Loops, Own, Fresh, Running, Continues
<1>4. QED
    BY <1>1, <1>3, ReadyLoop

LEMMA OldOnes ==
    ASSUME IInv, NEW x \in Requests
    PROVE  LET q == [req[x] EXCEPT !.old = req[x] # NoRequest] IN
           q = NoRequest \/ (q.old /\ q.kind = req[x].kind /\ q.status = req[x].status /\ q.user = req[x].user)
<1>1. req[x] \in Asked
    BY DEF IInv, TypeOK
<1>2. CASE req[x] = NoRequest
    <2>1. [NoRequest EXCEPT !.old = FALSE] = NoRequest
        BY Requested, NoRequestIsNone DEF Asked
    <2>2. QED
        BY <1>2, <2>1
<1>3. CASE req[x] # NoRequest
    BY <1>1, <1>3 DEF Asked
<1>4. QED
    BY <1>2, <1>3

LEMMA ReloadLoop ==
    ASSUME IInv, Reload, ServerUnchanged
    PROVE  LoopInv'
<1>1. \A h : LET p == NewPage(h) IN p.phase = "loading" /\ p.layout = "none" /\ p.modal = "none" /\ p.counters = 0
    BY DEF NewPage
<1>2. page'.phase = "loading" /\ page'.layout = "none" /\ page'.modal = "none" /\ page'.counters = 0
    BY <1>1 DEF Reload
<1>3. \A x \in Requests : req'[x] = NoRequest \/ (req'[x] = Sent("init") /\ x = First)
    BY DEF Reload, OnlyInit
<1>4. \A x \in Requests : /\ req'[x].kind \in {"none", "init"}
                          /\ req'[x].kind = "init" => x = First
                          /\ req'[x].pc # "answered"
                          /\ req'[x] = NoRequest \/ Fresh(x, {"init"})'
    BY <1>3, NoRequestIsNone, SentIsFresh DEF Fresh
<1>5. Loading'
    BY <1>2, <1>4 DEF Loading, Told
<1>6. Named' /\ Loops' /\ Own'
    BY <1>2, <1>4 DEF Named, Loops, Own, Fresh, Running, Continues
<1>7. QED
    BY <1>5, <1>6 DEF LoopInv

\* Steps of the user that have nothing to do with the loop.
LEMMA UserLoop ==
    ASSUME IInv, LoopInv,
           \/ \E h \in Links : Route(h)
           \/ Save \/ AskAdmin \/ AskEndpoint \/ AskDivision \/ Install \/ ChangePassword
    PROVE  LoopInv'
<1>1. page \in Pages
    BY DEF IInv, TypeOK
<1>2. page.layout # "none" => page.phase = "ready"
    BY DEF LoopInv, Loading
<1>3. ASSUME NEW k \in {"save", "install", "password", "logout"}, Send(Sent(k)), k = "save" => page.layout = "app"
      PROVE  \A x \in Requests : req'[x] = req[x] \/ Harmless(req'[x])
    <2>1. Harmless(Sent(k))
        BY <1>3, SentIsFresh DEF Harmless
    <2>2. QED
        BY <1>3, <2>1, SendingOne
<1>4. ASSUME NEW h \in Links, Route(h) PROVE LoopInv'
    <2>1. Leaves(page, page') /\ page'.layout = page.layout /\ page.phase = "ready" /\ UNCHANGED <<session, past>>
        BY <1>1, <1>4, RoutedLeaves DEF Route, ServerUnchanged, Links, Hashes
    <2>2. \A x \in Requests : req'[x] = req[x] \/ Harmless(req'[x])
        BY <1>3, <1>4 DEF Route
    <2>3. QED
        BY <2>1, <2>2, HarmlessLoop DEF Leaves
<1>5. CASE Save \/ Install \/ ChangePassword
    <2>1. /\ page.phase = "ready" /\ UNCHANGED <<page, session, past>>
          /\ \/ Send(Sent("save")) /\ page.layout = "app"
             \/ Send(Sent("install")) \/ Send(Sent("password")) \/ Send(Sent("logout"))
        BY <1>2, <1>5 DEF Save, Install, ChangePassword, ServerUnchanged
    <2>2. \A x \in Requests : req'[x] = req[x] \/ Harmless(req'[x])
        BY <1>3, <2>1
    <2>3. QED
        BY <2>1, <2>2, HarmlessLoop
<1>6. CASE AskAdmin \/ AskEndpoint \/ AskDivision
    <2>1. PICK from, to : Shows(from, to)
        BY <1>6 DEF AskAdmin, AskEndpoint, AskDivision
    <2>2. /\ page.phase = "ready" /\ UNCHANGED <<req, session, past>>
          /\ page'.phase = page.phase /\ page'.layout = page.layout /\ page'.counters = page.counters
          /\ page'.user = page.user /\ page'.held = page.held
        BY <1>1, <1>2, <2>1 DEF Shows, ServerUnchanged, Pages
    <2>3. QED
        BY <2>2, HarmlessLoop
<1>7. QED
    BY <1>4, <1>5, <1>6

LEMMA CloseLoop ==
    ASSUME IInv, LoopInv, CloseModal \/ UserReload \/ FinishInstall
    PROVE  LoopInv'
<1>1. page \in Pages
    BY DEF IInv, TypeOK
<1>2. CASE Reload /\ ServerUnchanged
    BY <1>2, ReloadLoop
<1>3. CASE /\ page.modal = "expired" /\ page' = [page EXCEPT !.modal = "none"]
           /\ Send(Sent("logout")) /\ UNCHANGED past /\ ServerUnchanged
    <2>1. /\ UNCHANGED <<session, past>>
          /\ page'.phase = page.phase /\ page'.layout = page.layout /\ page'.counters = page.counters
          /\ page'.user = page.user /\ page'.held = page.held
        BY <1>1, <1>3 DEF ServerUnchanged, Pages
    <2>2. Harmless(Sent("logout"))
        BY SentIsFresh DEF Harmless
    <2>3. \A x \in Requests : req'[x] = req[x] \/ Harmless(req'[x])
        BY <1>3, <2>2, SendingOne
    <2>4. page.phase = "ready"
        BY <1>3 DEF LoopInv, Loading
    <2>5. QED
        BY <2>1, <2>3, <2>4, HarmlessLoop
<1>4. CASE FinishInstall
    <2>1. /\ page.phase = "ready" /\ page' = LoggedOut(page) /\ UNCHANGED <<session, past>>
          /\ req' = [x \in Requests |-> [req[x] EXCEPT !.old = req[x] # NoRequest]]
        BY <1>4 DEF FinishInstall, ServerUnchanged, LoopInv, Loading
    <2>2. page'.layout = "login" /\ page'.counters = 0 /\ page'.phase = "ready"
        BY <1>1, <2>1, LoggedOutHas
    <2>3. \A x \in Requests :
             \/ req'[x] = NoRequest
             \/ /\ req'[x].old /\ req'[x].kind = req[x].kind
                /\ req'[x].status = req[x].status /\ req'[x].user = req[x].user
        BY <2>1, OldOnes
    <2>4. QED
        BY <2>1, <2>2, <2>3, LogoutLoop
<1>5. QED
    BY <1>2, <1>3, <1>4 DEF CloseModal, UserReload

\* A login: there is none yet, or it is stray, and the page has no counter.
LEMMA LoginLoop ==
    ASSUME IInv, LoopInv, NEW u \in Users, Login(u)
    PROVE  LoopInv'
<1>1. PICK q : q = [Sent("login") EXCEPT !.user = u]
    OBVIOUS
<1>2. q.kind = "login" /\ q.old = FALSE /\ q.pc = "sent" /\ q.user = u
    BY <1>1 DEF Sent, NoRequest
<1>3. PICK r \in Requests :
        /\ req[r] = NoRequest /\ req'[r] = q /\ \A x \in Requests \ {r} : req'[x] = req[x]
    BY <1>1, SendingOne DEF Login
<1>4. /\ page.phase = "ready" /\ page.layout = "login" /\ UNCHANGED <<page, session>>
      /\ \A x \in Requests : req[x].kind = "state" => req[x].old
    BY DEF Login, ServerUnchanged
<1>5. past'.stray = (past.stray \/ \E x \in Requests : req[x].kind = "login" /\ ~req[x].old)
    BY DEF Login, IInv, TypeOK
<1>6. \A x \in Requests :
              /\ req'[x].kind # "init"
              /\ req'[x].kind = "login" /\ req'[x].status = "ok" => req'[x].user \in Users
    BY <1>2, <1>3, <1>4 DEF LoopInv, Loading, Named
<1>7. ASSUME ~past'.stray PROVE Loops' /\ Own'
    <2>1. Loops /\ Own
        BY <1>5, <1>7 DEF LoopInv
    <2>2. \A x \in Requests : ~Fresh(x, {"login", "state"})
        BY <1>4, <1>5, <1>7 DEF Fresh
    <2>3. \A x \in Requests : Fresh(x, {"login", "state"})' => x = r
        BY <1>3, <2>2 DEF Fresh
    <2>4. \A x \in Requests : ~Fresh(x, {"poll", "save"})'
        BY <1>2, <1>3, <1>4, <2>1 DEF Fresh, Loops
    <2>5. Running' = {}
        BY <2>4 DEF Running, Continues, Fresh
    <2>6. Loops'
        BY <1>4, <2>1, <2>3, <2>4, <2>5 DEF Loops
    <2>7. \A x \in Requests : ~Fresh(x, {"state"})'
        BY <1>2, <1>3, <1>4 DEF Fresh
    <2>8. \A x \in Requests : ~(Fresh(x, {"login"})' /\ Told(x)')
        BY <1>2, <1>3, <2>2 DEF Fresh, Told
    <2>9. Own'
        BY <1>4, <2>7, <2>8 DEF Own
    <2>10. QED
        BY <2>6, <2>9
<1>8. QED
    BY <1>4, <1>5, <1>6, <1>7, ReadyLoop

\* The counter hands the loop over to the request.
LEMMA CounterLoop ==
    ASSUME IInv, LoopInv, CounterEnds
    PROVE  LoopInv'
<1>1. page \in Pages /\ page.counters \in Nat /\ page.counters > 0
    BY DEF IInv, TypeOK, Pages, CounterEnds
<1>2. PICK q : q = [Sent("poll") EXCEPT !.restart = TRUE, !.valid = page.ts]
    OBVIOUS
<1>3. q.kind = "poll" /\ q.old = FALSE /\ q.pc = "sent"
    BY <1>2 DEF Sent, NoRequest
<1>4. PICK r \in Requests :
        /\ req[r] = NoRequest /\ req'[r] = q /\ \A x \in Requests \ {r} : req'[x] = req[x]
    BY <1>2, SendingOne DEF CounterEnds
<1>5. /\ page'.phase = page.phase /\ page'.layout = page.layout /\ page'.counters = page.counters - 1
      /\ page'.user = page.user /\ page'.held = page.held /\ UNCHANGED <<session, past>>
    BY <1>1 DEF CounterEnds, Pages, ServerUnchanged
<1>6. page.phase = "ready"
    BY <1>1 DEF LoopInv, Loading
<1>7. \A x \in Requests :
              /\ req'[x].kind # "init"
              /\ req'[x].kind = "login" /\ req'[x].status = "ok" => req'[x].user \in Users
    BY <1>3, <1>4, <1>6 DEF LoopInv, Loading, Named
<1>8. ASSUME ~past.stray PROVE Loops' /\ Own'
    <2>1. Loops /\ Own
        BY <1>8 DEF LoopInv
    <2>2. page.layout # "login" /\ page.counters = 1 /\ Running = {}
        BY <1>1, <2>1 DEF Loops
    <2>3. \A x \in Requests : Fresh(x, {"login", "state"})' <=> Fresh(x, {"login", "state"})
        BY <1>3, <1>4, NoRequestIsNone DEF Fresh
    <2>4. Running' \subseteq {r}
        BY <1>4, <2>2 DEF Running, Continues
    <2>5. page'.counters = 0
        BY <1>5, <2>2
    <2>6. Loops'
        BY <1>5, <2>1, <2>2, <2>3, <2>4, <2>5 DEF Loops
    <2>7. \A x \in Requests : Fresh(x, {"state"})' <=> Fresh(x, {"state"})
        BY <1>3, <1>4, NoRequestIsNone DEF Fresh
    <2>8. \A x \in Requests : Told(x)' => req'[x] = req[x]
        BY <1>3, <1>4 DEF Told
    <2>9. Own'
        BY <1>5, <2>1, <2>7, <2>8 DEF Own, IsOwn, Fresh, Told
    <2>10. QED
        BY <2>6, <2>9
<1>9. QED
    BY <1>5, <1>6, <1>7, <1>8, ReadyLoop

\* Answers.
LEMMA AnswersAreReady ==
    ASSUME LoopInv, NEW r \in Requests, req[r].kind \notin {"none", "init"}
    PROVE  page.phase = "ready"
BY NoRequestIsNone DEF LoopInv, Loading, Fresh

LEMMA LatelyIs ==
    ASSUME IInv, NEW r \in Requests, Late(r)
    PROVE  past'.stray = (past.stray \/ req[r].old)
BY DEF Late, IInv, TypeOK

\* The page goes from nothing to what fits the session.
LEMMA LoadedLoop ==
    ASSUME IInv, LoopInv, NEW r \in Requests, Loaded(r)
    PROVE  LoopInv'
<1>1. page \in Pages /\ req[r] \in Asked
    BY DEF IInv, TypeOK
<1>2. PICK s : s = [page EXCEPT !.user = req[r].user, !.must = req[r].must,
                                !.setup = req[r].setup, !.held = {req[r].user} \ {Guest}]
    OBVIOUS
<1>3. /\ s \in Pages /\ s.user = req[r].user /\ s.held = {req[r].user} \ {Guest}
      /\ s.layout = page.layout /\ s.counters = page.counters
    BY <1>1, <1>2 DEF Pages, Asked, Anybody
<1>4. PICK p : p = Finalized(s)
    OBVIOUS
<1>5. PICK q : q = [p EXCEPT !.phase = "ready"]
    OBVIOUS
<1>6. /\ page' = Routed(q, q.hash) /\ Has(r, "init") /\ Ok(r) /\ UNCHANGED <<session, past>>
      /\ Put(r, Sent("logout")) \/ Put(r, NoRequest)
    BY <1>2, <1>4, <1>5 DEF Loaded, ServerUnchanged
<1>7. page.layout = "none" /\ page.counters = 0 /\ \A x \in Requests \ {r} : req[x] = NoRequest
    BY <1>6, NoRequestIsNone DEF LoopInv, Loading, Has, Fresh
<1>8. /\ p \in Pages /\ p.user = s.user /\ p.held = s.held
      /\ \/ p.layout = "none" /\ p.counters = 0
         \/ p.layout = "login" /\ p.counters = 0
         \/ p.layout = "app" /\ p.counters = 1 /\ p.user # Guest
    <2>1. \A h : LET v == [s EXCEPT !.hash = h] IN
            v.user = s.user /\ v.held = s.held /\ v.layout = s.layout /\ v.counters = s.counters
        BY <1>3 DEF Pages
    <2>2. p \in Pages
        BY <1>3, <1>4, FinalizedPage
    <2>3. QED
        BY <1>3, <1>4, <1>7, <2>1, <2>2, LoggedOutHas, LaidOutHas DEF Finalized
<1>9. /\ q \in Pages /\ q.hash \in Hashes /\ q.phase = "ready" /\ q.user = p.user /\ q.held = p.held
      /\ q.layout = p.layout /\ q.counters = p.counters
    BY <1>5, <1>8 DEF Pages
<1>10. Leaves(q, page')
    BY <1>6, <1>9, RoutedLeaves
<1>11. /\ page'.phase = "ready" /\ page'.user = req[r].user /\ page'.held = {req[r].user} \ {Guest}
       /\ page'.counters <= 1
       /\ page'.layout = "login" => page'.counters = 0
       /\ page'.layout = "app" => page'.user # Guest
    BY <1>3, <1>8, <1>9, <1>10 DEF Leaves
<1>12. \A x \in Requests : req'[x] = NoRequest \/ req'[x] = Sent("logout")
    BY <1>6, <1>7, Putted
<1>13. \A x \in Requests : req'[x].kind \in {"none", "logout"}
    BY <1>12, NoRequestIsNone, SentIsFresh
<1>14. session'.user = page'.user
    BY <1>6, <1>11 DEF LoopInv, Loading, Has, Ok, Told
<1>15. Loading' /\ Named'
    BY <1>11, <1>13 DEF Loading, Named
<1>16. Loops'
    BY <1>11, <1>13 DEF Loops, Fresh, Running, Continues
<1>17. Own'
    BY <1>11, <1>13, <1>14 DEF Own, IsOwn, Fresh
<1>18. QED
    BY <1>15, <1>16, <1>17 DEF LoopInv

LEMMA LoadFailsLoop ==
    ASSUME IInv, LoopInv, NEW r \in Requests, LoadFails(r)
    PROVE  LoopInv'
<1>1. CASE Reload
    BY <1>1, ReloadLoop DEF LoadFails
<1>2. CASE page' = [page EXCEPT !.phase = "blank"] /\ Done(r) /\ UNCHANGED past
    <2>1. /\ page'.phase = "blank" /\ page'.layout = page.layout /\ page'.modal = page.modal
          /\ page'.counters = page.counters
        BY <1>2 DEF IInv, TypeOK, Pages
    <2>2. /\ page.layout = "none" /\ page.modal = "none" /\ page.counters = 0
          /\ \A x \in Requests \ {r} : req[x] = NoRequest
        BY NoRequestIsNone DEF LoopInv, Loading, LoadFails, Has, Fresh
    <2>3. \A x \in Requests : req'[x] = NoRequest
        BY <1>2, <2>2, Putted DEF Done
    <2>4. Loading' /\ Named'
        BY <2>1, <2>2, <2>3, NoRequestIsNone DEF Loading, Named
    <2>5. Loops' /\ Own'
        BY <2>1, <2>2, <2>3, NoRequestIsNone DEF Loops, Own, Fresh, Running, Continues
    <2>6. QED
        BY <2>4, <2>5 DEF LoopInv
<1>3. QED
    BY <1>1, <1>2 DEF LoadFails

\* The only login is over: the page shows the user whose session it is.
LEMMA LoggedInLoop ==
    ASSUME IInv, LoopInv, NEW r \in Requests, LoggedIn(r)
    PROVE  LoopInv'
<1>1. /\ page \in Pages /\ req[r] \in Asked /\ page.phase = "ready" /\ req[r].kind = "login"
      /\ UNCHANGED session /\ past \in [stray : BOOLEAN, swallowed : BOOLEAN, logins : 0..MaxLogins]
    BY AnswersAreReady DEF IInv, TypeOK, LoggedIn, Has, ServerUnchanged
<1>2. CASE ~Ok(r)
    <2>1. UNCHANGED <<page, past>> /\ Put(r, NoRequest)
        BY <1>2 DEF LoggedIn, Done
    <2>2. \A x \in Requests : req'[x] = req[x] \/ Harmless(req'[x])
        BY <2>1, Putted, NoRequestIsHarmless
    <2>3. QED
        BY <1>1, <2>1, <2>2, HarmlessLoop
<1>3. CASE Ok(r)
    <2>1. PICK p : p = [page EXCEPT !.user = req[r].user, !.must = req[r].must]
        OBVIOUS
    <2>2. /\ p \in Pages /\ p.user = req[r].user /\ p.phase = "ready" /\ p.layout = page.layout
          /\ p.counters = page.counters
        BY <1>1, <2>1 DEF Pages, Asked
    <2>3. PICK q : q = [Sent("state") EXCEPT !.old = req[r].old]
        OBVIOUS
    <2>4. q.kind = "state" /\ q.old = req[r].old /\ q.pc = "sent"
        BY <2>3 DEF Sent, NoRequest
    <2>5. /\ Late(r)
          /\ \/ page' = p /\ Put(r, q)
             \/ page' \in {p, Routed(p, "changepw")} /\ Put(r, NoRequest)
        BY <1>3, <2>1, <2>3 DEF LoggedIn, Done
    <2>6. past'.stray = (past.stray \/ req[r].old)
        BY <2>5, LatelyIs
    <2>7. Leaves(p, page')
        BY <2>2, <2>5, RoutedLeaves DEF Leaves, Hashes
    <2>8. /\ page'.phase = "ready" /\ page'.user = req[r].user /\ page'.counters = page.counters
          /\ page'.layout \in {page.layout, "setup"}
        BY <2>2, <2>7 DEF Leaves
    <2>9. \A x \in Requests \ {r} : req'[x] = req[x]
        BY <2>5, Putted
    <2>10. req'[r] = NoRequest \/ (req'[r] = q /\ page' = p)
        BY <2>5, Putted
    <2>11. req'[r].kind \in {"none", "state"} /\ req'[r].pc # "answered"
        BY <2>4, <2>10, NoRequestIsNone
    <2>12. \A x \in Requests :
              /\ req'[x].kind # "init"
              /\ req'[x].kind = "login" /\ req'[x].status = "ok" => req'[x].user \in Users
        BY <1>1, <2>9, <2>11 DEF LoopInv, Loading, Named
    <2>13. ASSUME ~past'.stray PROVE Loops' /\ Own'
        <3>1. Loops /\ Own /\ ~req[r].old
            BY <2>6, <2>13 DEF LoopInv
        <3>2. Fresh(r, {"login", "state"}) /\ Fresh(r, {"login"}) /\ Told(r)
            BY <1>1, <1>3, <3>1 DEF Fresh, Told, Ok, LoggedIn, Has
        <3>3. /\ page.layout = "login" /\ page.counters = 0
              /\ \A x \in Requests : ~Fresh(x, {"poll", "save"})
              /\ \A x \in Requests : Fresh(x, {"login", "state"}) => x = r
            BY <3>1, <3>2 DEF Loops
        <3>4. \A x \in Requests : Fresh(x, {"login", "state"})' => x = r
            BY <2>9, <3>3 DEF Fresh
        <3>5. \A x \in Requests : ~Fresh(x, {"poll", "save"})'
            BY <2>9, <2>11, <3>3 DEF Fresh
        <3>6. Fresh(r, {"login", "state"})' => page'.layout = "login"
            BY <2>2, <2>10, <3>3, NoRequestIsNone DEF Fresh
        <3>7. Running' = {}
            BY <3>5 DEF Running, Continues, Fresh
        <3>8. Loops'
            BY <2>8, <3>3, <3>4, <3>5, <3>6, <3>7 DEF Loops
        <3>9. page'.layout # "app"
            BY <2>8, <3>3
        <3>10. page'.user # Guest /\ session.user \in {Guest, page'.user}
            BY <1>1, <1>3, <2>8, <3>1, <3>2, SessionAssumption DEF LoopInv, Named, Own, Ok
        <3>11. \A x \in Requests : ~(Fresh(x, {"state", "poll"})' /\ Told(x)')
            BY <2>11, <3>4, <3>5 DEF Fresh, Told
        <3>12. \A x \in Requests : ~Fresh(x, {"login"})'
            BY <2>11, <3>4 DEF Fresh
        <3>13. Own'
            BY <1>1, <3>9, <3>10, <3>11, <3>12 DEF Own, IsOwn
        <3>14. QED
            BY <3>8, <3>13
    <2>14. ~past'.stray => ~past.stray
        BY <2>6
    <2>15. QED
        BY <1>1, <2>8, <2>12, <2>13, <2>14, ReadyLoop
<1>4. QED
    BY <1>2, <1>3

\* The application is laid out, with a counter of its own.
LEMMA GotStateLoop ==
    ASSUME IInv, LoopInv, NEW r \in Requests, GotState(r)
    PROVE  LoopInv'
<1>1. /\ page \in Pages /\ req[r] \in Asked /\ page.phase = "ready" /\ req[r].kind = "state"
      /\ UNCHANGED session /\ Put(r, NoRequest)
    BY AnswersAreReady DEF IInv, TypeOK, GotState, Has, Done, ServerUnchanged
<1>2. req'[r] = NoRequest /\ \A x \in Requests \ {r} : req'[x] = req[x]
    BY <1>1, Putted
<1>3. CASE ~Ok(r)
    <2>1. UNCHANGED <<page, past>>
        BY <1>3 DEF GotState
    <2>2. \A x \in Requests : req'[x] = req[x] \/ Harmless(req'[x])
        BY <1>2, NoRequestIsHarmless
    <2>3. QED
        BY <1>1, <2>1, <2>2, HarmlessLoop
<1>4. CASE Ok(r)
    <2>1. PICK p : p = [page EXCEPT !.setup = req[r].setup, !.ts = TRUE,
                                    !.held = {req[r].user} \ {Guest}]
        OBVIOUS
    <2>2. /\ p \in Pages /\ p.user = page.user /\ p.phase = "ready" /\ p.counters = page.counters
          /\ p.held = {req[r].user} \ {Guest}
        BY <1>1, <2>1 DEF Pages, Asked, Anybody
    <2>3. PICK v : v = InitLayout(p)
        OBVIOUS
    <2>4. /\ v \in Pages /\ v.layout = "app" /\ v.counters = page.counters + 1 /\ v.phase = "ready"
          /\ v.user = page.user /\ v.held = {req[r].user} \ {Guest}
        BY <2>2, <2>3, LaidOutPage, LaidOutHas
    <2>5. page' = Routed(v, "") /\ Late(r)
        BY <1>4, <2>1, <2>3 DEF GotState
    <2>6. Leaves(v, page') /\ page'.layout = "app"
        BY <2>4, <2>5, RoutedLeaves DEF Links, Hashes
    <2>7. /\ page'.phase = "ready" /\ page'.user = page.user /\ page'.counters = page.counters + 1
          /\ page'.held = {req[r].user} \ {Guest}
        BY <2>4, <2>6 DEF Leaves
    <2>8. past'.stray = (past.stray \/ req[r].old)
        BY <2>5, LatelyIs
    <2>9. \A x \in Requests :
              /\ req'[x].kind # "init"
              /\ req'[x].kind = "login" /\ req'[x].status = "ok" => req'[x].user \in Users
        BY <1>1, <1>2, NoRequestIsNone DEF LoopInv, Loading, Named
    <2>10. ASSUME ~past'.stray PROVE Loops' /\ Own'
        <3>1. Loops /\ Own /\ ~req[r].old
            BY <2>8, <2>10 DEF LoopInv
        <3>2. Fresh(r, {"login", "state"}) /\ Fresh(r, {"state"}) /\ Fresh(r, {"state", "poll"}) /\ Told(r)
            BY <1>1, <1>4, <3>1 DEF Fresh, Told, Ok, GotState, Has
        <3>3. /\ page.layout = "login" /\ page.counters = 0
              /\ \A x \in Requests : ~Fresh(x, {"poll", "save"})
              /\ \A x \in Requests : Fresh(x, {"login", "state"}) => x = r
            BY <3>1, <3>2 DEF Loops
        <3>4. \A x \in Requests : ~Fresh(x, {"login", "state"})'
            BY <1>2, <3>3, NoRequestIsNone DEF Fresh
        <3>5. \A x \in Requests : ~Fresh(x, {"poll", "save"})'
            BY <1>2, <3>3, NoRequestIsNone DEF Fresh
        <3>6. Running' = {}
            BY <3>5 DEF Running, Continues, Fresh
        <3>7. Loops'
            BY <2>6, <2>7, <3>3, <3>4, <3>5, <3>6 DEF Loops
        <3>8. page.user # Guest /\ IsOwn(session.user) /\ IsOwn(req[r].user)
            BY <3>1, <3>2 DEF Own
        <3>9. \A x \in Requests : ~Fresh(x, {"state", "poll"})' /\ ~Fresh(x, {"login"})'
            BY <3>4, <3>5 DEF Fresh
        <3>10. Own'
            BY <1>1, <2>7, <3>8, <3>9 DEF Own, IsOwn
        <3>11. QED
            BY <3>7, <3>10
    <2>11. ~past'.stray => ~past.stray
        BY <2>8
    <2>12. QED
        BY <1>1, <2>7, <2>9, <2>10, <2>11, ReadyLoop
<1>5. QED
    BY <1>3, <1>4

\* A counter starts again when the request that went on with the loop is done.
LEMMA UpdatesLoop ==
    ASSUME IInv, LoopInv, NEW r \in Requests, GotUpdates(r)
    PROVE  LoopInv'
<1>1. /\ page \in Pages /\ req[r] \in Asked /\ page.phase = "ready" /\ req[r].kind = "poll"
      /\ UNCHANGED session /\ Put(r, NoRequest)
    BY AnswersAreReady DEF IInv, TypeOK, GotUpdates, Has, Done, ServerUnchanged
<1>2. req'[r] = NoRequest /\ \A x \in Requests \ {r} : req'[x] = req[x]
    BY <1>1, Putted
<1>3. CASE ~Ok(r)
    <2>1. page' = [page EXCEPT !.modal = "lost"] /\ UNCHANGED past
        BY <1>3 DEF GotUpdates
    <2>2. /\ page'.phase = page.phase /\ page'.layout = page.layout /\ page'.counters = page.counters
          /\ page'.user = page.user /\ page'.held = page.held
        BY <1>1, <2>1 DEF Pages
    <2>3. \A x \in Requests : req'[x] = req[x] \/ Harmless(req'[x])
        BY <1>2, NoRequestIsHarmless
    <2>4. QED
        BY <1>1, <2>1, <2>2, <2>3, HarmlessLoop
<1>4. CASE Ok(r)
    <2>1. PICK n : n = IF req[r].restart THEN page.counters + 1 ELSE page.counters
        OBVIOUS
    <2>2. PICK h \in {page.held, page.held \cup ({req[r].user} \ {Guest})} :
            page' = [page EXCEPT !.ts = TRUE, !.held = h, !.counters = n] /\ Late(r)
        BY <1>4, <2>1 DEF GotUpdates
    <2>3. /\ page'.phase = page.phase /\ page'.layout = page.layout /\ page'.counters = n
          /\ page'.user = page.user /\ page'.held = h
        BY <1>1, <2>2 DEF Pages
    <2>4. past'.stray = (past.stray \/ req[r].old)
        BY <2>2, LatelyIs
    <2>5. \A x \in Requests :
              /\ req'[x].kind # "init"
              /\ req'[x].kind = "login" /\ req'[x].status = "ok" => req'[x].user \in Users
        BY <1>1, <1>2, NoRequestIsNone DEF LoopInv, Loading, Named
    <2>6. ASSUME ~past'.stray PROVE Loops' /\ Own'
        <3>1. Loops /\ Own /\ ~req[r].old
            BY <2>4, <2>6 DEF LoopInv
        <3>2. Fresh(r, {"poll", "save"}) /\ Fresh(r, {"state", "poll"}) /\ Told(r)
            BY <1>1, <1>4, <3>1 DEF Fresh, Told, Ok, GotUpdates, Has
        <3>3. page.layout # "login"
            BY <3>1, <3>2 DEF Loops
        <3>4. \A x \in Requests : Fresh(x, {"login", "state"})' => Fresh(x, {"login", "state"})
            BY <1>2, NoRequestIsNone DEF Fresh
        <3>5. Running' = Running \ {r}
            BY <1>2, NoRequestIsNone DEF Running, Continues
        <3>6. req[r].restart => r \in Running
            BY <1>1, <3>1 DEF Running, Continues
        <3>7. n <= 1 /\ \A x \in Running \ {r} : n = 0
            BY <2>1, <3>1, <3>6 DEF Loops
        <3>8. Loops'
            BY <2>3, <3>1, <3>3, <3>4, <3>5, <3>7 DEF Loops
        <3>9. \A x \in Requests : Fresh(x, {"state"})' => Fresh(x, {"state"})
            BY <1>2, NoRequestIsNone DEF Fresh
        <3>10. \A x \in Requests : Told(x)' => req'[x] = req[x]
            BY <1>2, NoRequestIsNone DEF Told
        <3>11. page.layout = "app" => h \subseteq {page.user}
            BY <2>2, <3>1, <3>2 DEF Own, IsOwn
        <3>12. Own'
            BY <1>1, <2>3, <3>1, <3>9, <3>10, <3>11 DEF Own, IsOwn, Fresh, Told
        <3>13. QED
            BY <3>8, <3>12
    <2>7. ~past'.stray => ~past.stray
        BY <2>4
    <2>8. QED
        BY <1>1, <2>3, <2>5, <2>6, <2>7, ReadyLoop
<1>5. QED
    BY <1>3, <1>4

\* Answers that have nothing to do with the loop.
LEMMA FormsLoop ==
    ASSUME IInv, LoopInv, NEW r \in Requests,
           Saved(r) \/ PasswordAnswered(r) \/ InstallAnswered(r) \/ LogoutAnswered(r)
    PROVE  LoopInv'
<1>1. /\ page \in Pages /\ req[r] \in Asked /\ page.phase = "ready" /\ UNCHANGED session
      /\ req[r].kind \in {"save", "password", "install", "logout"}
    BY AnswersAreReady
    DEF IInv, TypeOK, Saved, PasswordAnswered, InstallAnswered, LogoutAnswered, Has, ServerUnchanged
<1>2. ASSUME NEW q, Put(r, q), Harmless(q) PROVE \A x \in Requests : req'[x] = req[x] \/ Harmless(req'[x])
    BY <1>2, Putted
<1>3. CASE Saved(r)
    <2>1. PICK q : q = [Sent("poll") EXCEPT !.valid = page.ts, !.old = req[r].old]
        OBVIOUS
    <2>2. q.kind = "poll" /\ q.pc = "sent" /\ q.restart = FALSE /\ q.old = req[r].old
        BY <2>1 DEF Sent, NoRequest
    <2>3. past.stray \/ req[r].old \/ page.layout # "login"
        BY <1>3 DEF LoopInv, Loops, Fresh, Saved, Has
    <2>4. Harmless(q)
        BY <2>2, <2>3 DEF Harmless
    <2>5. (Put(r, q) \/ Put(r, NoRequest)) /\ UNCHANGED <<page, past>>
        BY <1>3, <2>1 DEF Saved
    <2>6. QED
        BY <1>1, <1>2, <2>4, <2>5, NoRequestIsHarmless, HarmlessLoop
<1>4. CASE PasswordAnswered(r) \/ InstallAnswered(r)
    <2>1. Harmless(Sent("logout"))
        BY SentIsFresh DEF Harmless
    <2>3. CASE Reload
        BY <1>4, <2>3, ReloadLoop DEF PasswordAnswered, InstallAnswered
    <2>4. CASE /\ Put(r, Sent("logout")) \/ Put(r, NoRequest)
               /\ UNCHANGED past
               /\ \/ UNCHANGED page \/ page' = [page EXCEPT !.modal = "expired"]
                  \/ \E v : page' = [page EXCEPT !.view = v]
        <3>1. \A x \in Requests : req'[x] = req[x] \/ Harmless(req'[x])
            BY <1>2, <2>1, <2>4, NoRequestIsHarmless
        <3>2. /\ page'.phase = page.phase /\ page'.layout = page.layout /\ page'.held = page.held
              /\ page'.counters = page.counters /\ page'.user = page.user
            <4>1. CASE UNCHANGED page
                BY <4>1
            <4>2. CASE page' = [page EXCEPT !.modal = "expired"]
                BY <1>1, <4>2 DEF Pages
            <4>3. ASSUME NEW v, page' = [page EXCEPT !.view = v]
                  PROVE  /\ page'.phase = page.phase /\ page'.layout = page.layout
                         /\ page'.held = page.held
                         /\ page'.counters = page.counters /\ page'.user = page.user
                BY <1>1, <4>3 DEF Pages
            <4>4. QED
                BY <2>4, <4>1, <4>2, <4>3
        <3>3. QED
            BY <1>1, <2>4, <3>1, <3>2, HarmlessLoop
    <2>5. QED
        BY <1>4, <2>3, <2>4, Zenon DEF PasswordAnswered, InstallAnswered, Done
<1>5. CASE LogoutAnswered(r)
    <2>1. CASE Reload
        BY <1>5, <2>1, ReloadLoop DEF LogoutAnswered
    <2>2. CASE Ok(r)
        <3>1. PICK p : p = LoggedOut(page)
            OBVIOUS
        <3>2. p \in Pages /\ p.layout = "login" /\ p.counters = 0 /\ p.phase = "ready"
            BY <1>1, <3>1, LoggedOutPage, LoggedOutHas
        <3>3. /\ page' = [p EXCEPT !.user = Guest, !.must = FALSE, !.held = {}, !.ts = FALSE]
              /\ req' = [q \in Requests |-> IF q = r THEN NoRequest
                                            ELSE [req[q] EXCEPT !.old = req[q] # NoRequest]]
              /\ UNCHANGED past
            BY <1>5, <2>2, <3>1 DEF LogoutAnswered
        <3>4. page'.layout = "login" /\ page'.counters = 0 /\ page'.phase = "ready"
            BY <3>2, <3>3 DEF Pages
        <3>5. \A x \in Requests :
                \/ req'[x] = NoRequest
                \/ /\ req'[x].old /\ req'[x].kind = req[x].kind
                   /\ req'[x].status = req[x].status /\ req'[x].user = req[x].user
            BY <3>3, OldOnes
        <3>6. QED
            BY <1>1, <3>3, <3>4, <3>5, LogoutLoop
    <2>3. QED
        BY <1>5, <2>1, <2>2 DEF LogoutAnswered
<1>6. QED
    BY <1>3, <1>4, <1>5

LEMMA LoopInit == Init => LoopInv
<1> SUFFICES ASSUME Init PROVE LoopInv
    OBVIOUS
<1>1. \A h : LET p == NewPage(h) IN
        p.phase = "loading" /\ p.layout = "none" /\ p.modal = "none" /\ p.counters = 0
    BY DEF NewPage
<1>2. page.phase = "loading" /\ page.layout = "none" /\ page.modal = "none" /\ page.counters = 0
    BY <1>1 DEF Init
<1>3. \A x \in Requests : req[x] = NoRequest \/ (req[x] = Sent("init") /\ x = First)
    BY DEF Init, OnlyInit
<1>4. \A x \in Requests : /\ req[x].kind \in {"none", "init"}
                          /\ req[x].kind = "init" => x = First
                          /\ req[x].pc # "answered"
                          /\ req[x] = NoRequest \/ Fresh(x, {"init"})
    BY <1>3, NoRequestIsNone, SentIsFresh DEF Fresh
<1>5. Loading
    BY <1>2, <1>4 DEF Loading, Told
<1>6. Named /\ Loops /\ Own
    BY <1>2, <1>4 DEF Named, Loops, Own, Fresh, Running, Continues
<1>7. QED
    BY <1>5, <1>6 DEF LoopInv

LEMMA LoopStep == IInv /\ LoopInv /\ [Next]_vars => LoopInv'
<1> SUFFICES ASSUME IInv, LoopInv, [Next]_vars PROVE LoopInv'
    OBVIOUS
<1>1. CASE Expire
    <2>1. UNCHANGED <<page, req, past>> /\ session'.user = session.user
        BY <1>1 DEF Expire, IInv, TypeOK
    <2>2. QED
        BY <2>1 DEF LoopInv, Loading, Named, Loops, Own, Fresh, Told, IsOwn, Running, Continues
<1>2. CASE UNCHANGED vars
    BY <1>2 DEF vars, LoopInv, Loading, Named, Loops, Own, Fresh, Told, IsOwn, Running, Continues
<1>3. CASE \E r \in Requests : Serve(r) \/ Answers(r)
    BY <1>3, ServerLoop, LoadedLoop, LoadFailsLoop, LoggedInLoop, GotStateLoop, UpdatesLoop, FormsLoop
    DEF Answers
<1>4. QED
    BY <1>1, <1>2, <1>3, UserLoop, CloseLoop, LoginLoop, CounterLoop DEF Next

\* A session has one loop of counter and poll at most: it begins with the answer to the
\* only login, when nothing of another loop is left, and then it is handed from the counter
\* to the request and back.
THEOREM NoSecondLoop == Spec => []OneLoop
<1>1. IInv /\ LoopInv => OneLoop
    <2> SUFFICES ASSUME IInv, LoopInv, ~past.stray PROVE page.counters + Cardinality(Running) <= 1
        BY DEF OneLoop
    <2>1. Loops /\ page.counters \in Nat
        BY DEF LoopInv, IInv, TypeOK, Pages
    <2>2. CASE Running = {}
        BY <2>1, <2>2, FS_EmptySet DEF Loops
    <2>3. CASE Running # {}
        <3>1. PICK x : Running = {x}
            BY <2>1, <2>3 DEF Loops
        <3>2. Cardinality(Running) = 1
            BY <3>1, FS_Singleton
        <3>3. QED
            BY <2>1, <2>3, <3>2 DEF Loops
    <2>4. QED
        BY <2>2, <2>3
<1>2. QED
    BY <1>1, InvInit, InvStep, LoopInit, LoopStep, PTL DEF Spec

\* What the application shows was given to the user that it shows as logged in: from the
\* answer to a login on, the session is that user's or nobody's.
THEOREM NoOthersData == Spec => []OwnData
<1>1. IInv /\ LoopInv => OwnData
    BY DEF LoopInv, Own, OwnData
<1>2. QED
    BY <1>1, InvInit, InvStep, LoopInit, LoopStep, PTL DEF Spec

-----------------------------------------------------------------------------
(* The regions of the page *)

LEMMA LivesType ==
    ASSUME RegionsTypeOK, NEW shown, NEW gone
    PROVE  Lives(shown, gone) \in [Views -> {"new", "shown", "destroyed"}]
BY DEF RegionsTypeOK, Lives

LEMMA TypeInit == RegionsInit => RegionsTypeOK
BY RegionAssumption DEF RegionsInit, RegionsTypeOK, Maybe

LEMMA ContentTypes ==
    ASSUME RegionsTypeOK,
           ContentAnimated \/ \E v \in Views, animated \in BOOLEAN : ShowContent(v, animated)
    PROVE  RegionsTypeOK'
<1>1. CASE ContentAnimated
    <2>1. CASE content.queued = None
        <3>1. content' = [content EXCEPT !.animating = FALSE, !.old = None]
            BY <1>1, <2>1 DEF ContentAnimated
        <3>2. content' \in [view : Maybe, old : Maybe, queued : Maybe, animating : BOOLEAN]
            BY <3>1, Zenon DEF RegionsTypeOK, Maybe
        <3>3. QED
            BY <1>1, <2>1, <3>2, LivesType DEF ContentAnimated, RegionsTypeOK
    <2>2. CASE content.queued # None
        <3>1. content' = [view |-> content.queued, old |-> None, queued |-> None,
                          animating |-> FALSE]
            BY <1>1, <2>2 DEF ContentAnimated
        <3>2. content' \in [view : Maybe, old : Maybe, queued : Maybe, animating : BOOLEAN]
            BY <3>1, Zenon DEF RegionsTypeOK, Maybe
        <3>3. QED
            BY <1>1, <2>2, <3>2, LivesType DEF ContentAnimated, RegionsTypeOK
    <2>3. QED
        BY <2>1, <2>2
<1>2. ASSUME NEW v \in Views, NEW animated \in BOOLEAN, ShowContent(v, animated)
      PROVE  RegionsTypeOK'
    BY <1>2, LivesType DEF ShowContent, Swap, RegionsTypeOK, Maybe
<1>3. QED
    BY <1>1, <1>2

LEMMA OverlayTypes ==
    ASSUME RegionsTypeOK,
           \/ OverlayClosed \/ \E byListener \in BOOLEAN : CloseOverlay(byListener)
           \/ \E v \in Views : ShowOverlay(v)
    PROVE  RegionsTypeOK'
<1>1. CASE OverlayClosed
    <2>1. overlay.closing - 1 \in 0..MaxClosing
        BY <1>1, RegionAssumption DEF OverlayClosed, RegionsTypeOK
    <2>2. overlay' \in [view : Maybe, closing : 0..MaxClosing, listens : BOOLEAN]
        BY <1>1, <2>1 DEF OverlayClosed, RegionsTypeOK, Maybe
    <2>3. QED
        BY <1>1, <2>2, LivesType DEF OverlayClosed, RegionsTypeOK
<1>2. ASSUME NEW byListener \in BOOLEAN, CloseOverlay(byListener) PROVE RegionsTypeOK'
    <2>1. overlay.closing + 1 \in 0..MaxClosing
        BY <1>2, RegionAssumption DEF CloseOverlay, RegionsTypeOK
    <2>2. overlay' \in [view : Maybe, closing : 0..MaxClosing, listens : BOOLEAN]
        BY <1>2, <2>1 DEF CloseOverlay, Closing, RegionsTypeOK, Maybe
    <2>3. QED
        BY <1>2, <2>2 DEF CloseOverlay, RegionsTypeOK, Maybe
<1>3. ASSUME NEW v \in Views, ShowOverlay(v) PROVE RegionsTypeOK'
    BY <1>3, RegionAssumption, LivesType DEF ShowOverlay, Hurried, RegionsTypeOK, Maybe
<1>4. QED
    BY <1>1, <1>2, <1>3

LEMMA ModalTypes ==
    ASSUME RegionsTypeOK,
           DismissModal \/ EmptyModal \/ ModalHidden \/ \E v \in Views : ShowModal(v)
    PROVE  RegionsTypeOK'
<1>1. CASE DismissModal
    BY <1>1 DEF DismissModal, RegionsTypeOK, Maybe
<1>2. CASE EmptyModal
    BY <1>2, LivesType DEF EmptyModal, RegionsTypeOK, Maybe
<1>3. CASE ModalHidden
    BY <1>3, LivesType DEF ModalHidden, RegionsTypeOK, Maybe
<1>4. ASSUME NEW v \in Views, ShowModal(v) PROVE RegionsTypeOK'
    BY <1>4, LivesType DEF ShowModal, Hurried, RegionsTypeOK, Maybe
<1>5. QED
    BY <1>1, <1>2, <1>3, <1>4

LEMMA TypeStep == RegionsTypeOK /\ [RegionsNext]_regionVars => RegionsTypeOK'
<1>1. RegionsTypeOK /\ UNCHANGED regionVars => RegionsTypeOK'
    BY DEF RegionsTypeOK, regionVars
<1>2. QED
    BY <1>1, ContentTypes, OverlayTypes, ModalTypes DEF RegionsNext

-----------------------------------------------------------------------------
(* The regions of the page: what slides out is destroyed *)

\* A view that is shown after a step was so before, or is the one that is shown now.
LEMMA ShownBefore ==
    ASSUME RegionsTypeOK, NEW shown, NEW gone, life' = Lives(shown, gone)
    PROVE  Shown' \subseteq (Shown \cup shown) \ gone
BY DEF Lives, Shown, RegionsTypeOK

LEMMA LeftStep ==
    ASSUME RegionsTypeOK, NothingIsLeft, [RegionsNext]_regionVars
    PROVE  NothingIsLeft'
<1> USE RegionAssumption DEF RegionsTypeOK, Maybe, NothingIsLeft
<1>0. Shown \subseteq Views
    BY DEF Shown
<1>1. ASSUME NEW v \in Views, NEW animated \in BOOLEAN, ShowContent(v, animated)
      PROVE  NothingIsLeft'
    <2>1. CASE content.animating
        BY <1>1, <2>1 DEF ShowContent, Shown
    <2>2. CASE ~content.animating
        <3>1. Shown' \subseteq (Shown \cup {v}) \ (IF animated THEN {} ELSE {content.view})
            BY <1>1, <2>2, ShownBefore DEF ShowContent, Swap
        <3>2. content' = [view |-> v, queued |-> None, animating |-> animated,
                          old |-> IF animated THEN content.view ELSE None]
            BY <1>1, <2>2 DEF ShowContent, Swap
        <3>3. /\ content'.view = v /\ content'.queued = None
              /\ content'.animating = animated
              /\ content'.old = IF animated THEN content.view ELSE None
            BY <3>2, Zenon
        <3>4. UNCHANGED <<overlay, modal, asked, hurried>>
            BY <1>1 DEF ShowContent
        <3>5. QED
            BY <1>0, <2>2, <3>1, <3>3, <3>4
    <2>3. QED
        BY <2>1, <2>2
<1>2. CASE ContentAnimated
    <2>1. CASE content.queued = None
        <3>1. Shown' \subseteq Shown \ {content.old}
            BY <1>2, <2>1, ShownBefore DEF ContentAnimated
        <3>2. content' = [content EXCEPT !.animating = FALSE, !.old = None]
            BY <1>2, <2>1 DEF ContentAnimated
        <3>3. content'.view = content.view /\ content'.old = None /\ content'.queued = None
            BY <2>1, <3>2, Zenon
        <3>4. UNCHANGED <<overlay, modal, asked, hurried>>
            BY <1>2 DEF ContentAnimated
        <3>5. QED
            BY <3>1, <3>3, <3>4
    <2>2. CASE content.queued # None
        <3>1. Shown' \subseteq (Shown \cup {content.queued}) \ {content.old, content.view}
            BY <1>2, <2>2, ShownBefore DEF ContentAnimated
        <3>2. QED
            BY <1>2, <2>2, <3>1 DEF ContentAnimated
    <2>3. QED
        BY <2>1, <2>2
<1>3. ASSUME NEW v \in Views, ShowOverlay(v) PROVE NothingIsLeft'
    <2>1. Shown' \subseteq Shown \cup {v}
        BY <1>3, ShownBefore DEF ShowOverlay
    <2>2. QED
        BY <1>0, <1>3, <2>1 DEF ShowOverlay, Hurried
<1>4. ASSUME NEW byListener \in BOOLEAN, CloseOverlay(byListener) PROVE NothingIsLeft'
    BY <1>4 DEF CloseOverlay, Closing, Shown
<1>5. CASE OverlayClosed
    <2>1. Shown' \subseteq Shown \ {overlay.view}
        BY <1>5, ShownBefore DEF OverlayClosed
    <2>2. QED
        BY <1>5, <2>1 DEF OverlayClosed
<1>6. ASSUME NEW v \in Views, ShowModal(v) PROVE NothingIsLeft'
    <2>1. Shown' \subseteq (Shown \cup {v}) \ {modal.view}
        BY <1>6, ShownBefore DEF ShowModal
    <2>2. QED
        BY <1>6, <2>1 DEF ShowModal, Hurried
<1>7. CASE DismissModal
    BY <1>7 DEF DismissModal, Shown
<1>8. CASE EmptyModal
    <2>1. Shown' \subseteq Shown \ {modal.view}
        BY <1>8, ShownBefore DEF EmptyModal
    <2>2. QED
        BY <1>8, <2>1 DEF EmptyModal
<1>9. CASE ModalHidden
    <2>1. Shown' \subseteq Shown \ {modal.view}
        BY <1>9, ShownBefore DEF ModalHidden
    <2>2. QED
        BY <1>9, <2>1 DEF ModalHidden
<1>10. CASE UNCHANGED regionVars
    BY <1>10 DEF regionVars, Shown
<1>11. QED
    BY <1>1, <1>2, <1>3, <1>4, <1>5, <1>6, <1>7, <1>8, <1>9, <1>10 DEF RegionsNext

\* Each view has a life, each region its views, and the overlay closes within its bound.
THEOREM RegionsTypeCorrect == RegionsSpec => []RegionsTypeOK
BY TypeInit, TypeStep, PTL DEF RegionsSpec

\* No view that slid out, was replaced or lost its dialog stays in the page, however shows,
\* animations and closings interleave, but those that NothingIsLeft names.
THEOREM NoViewIsLeft == RegionsSpec => []NothingIsLeft
<1>1. RegionsInit => NothingIsLeft
    BY DEF RegionsInit, NothingIsLeft, Shown
<1>2. QED
    BY <1>1, LeftStep, RegionsTypeCorrect, PTL DEF RegionsSpec
=============================================================================
