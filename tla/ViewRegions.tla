---------------------------- MODULE ViewRegions ----------------------------
(***************************************************************************)
(* The regions that the pages of the web interface are put into: the       *)
(* content of the accounts and dashboard pages, whose views may slide in   *)
(* and out, the overlay for forms and details, and the modal dialog.       *)
(* Animations take their time, and handlers run when they end: by then     *)
(* another view may have been shown, or is waiting to be.                  *)
(***************************************************************************)
EXTENDS Naturals, FiniteSets

CONSTANTS
    Views,          \* the views that are made, each of them is shown once
    None,           \* no view
    MaxClosing      \* bound: animations that take the overlay away at the same time

ASSUME RegionAssumption == None \notin Views /\ MaxClosing \in Nat

VARIABLES
    life,           \* of each view: "new", "shown" or "destroyed"
    content,        \* the transition region
    overlay, modal,
    asked,          \* history: views that were to be closed
    hurried         \* history: views that were shown before an earlier one had gone

regionVars == <<life, content, overlay, modal, asked, hurried>>

RegionsInit ==
    /\ life = [v \in Views |-> "new"]
    /\ content = [view |-> None, old |-> None, queued |-> None, animating |-> FALSE]
    /\ overlay = [view |-> None, closing |-> 0, listens |-> FALSE]
    /\ modal = [view |-> None, hiding |-> FALSE]
    /\ asked = {} /\ hurried = {}

\* What views become, given those that are shown and destroyed now.
Lives(shown, gone) ==
    [v \in Views |-> IF v \in gone THEN "destroyed" ELSE IF v \in shown THEN "shown" ELSE life[v]]

-----------------------------------------------------------------------------
(* Content: one view slides in while the other slides out *)

\* show() while nothing moves: with an animation the old view stays until it has ended,
\* animateIn(), otherwise _onTransitionIn() follows at once.
Swap(v, animated) ==
    /\ content' = [view |-> v, queued |-> None, animating |-> animated,
                   old |-> IF animated THEN content.view ELSE None]
    /\ life' = Lives({v}, IF animated THEN {} ELSE {content.view})

\* A request handler of a module shows a view.  Of those that wait the last one wins.
ShowContent(v, animated) ==
    /\ life[v] = "new" /\ v # content.queued
    /\ IF content.animating
       THEN content' = [content EXCEPT !.queued = v] /\ UNCHANGED life
       ELSE Swap(v, animated)
    /\ UNCHANGED <<overlay, modal, asked, hurried>>

\* Mutant: the view that slid out is forgotten when another one is waiting.
ContentAnimatedForgets ==
    LET v == content.queued IN
    /\ content.animating
    /\ IF v = None
       THEN /\ content' = [content EXCEPT !.animating = FALSE, !.old = None]
            /\ life' = Lives({}, {content.old})
       ELSE /\ content' = [view |-> v, old |-> None, queued |-> None, animating |-> FALSE]
            /\ life' = Lives({v}, {content.view})
    /\ UNCHANGED <<overlay, modal, asked, hurried>>

\* _onTransitionIn(), and showQueue(), which has lost the options and does not animate.
ContentAnimated ==
    LET v == content.queued IN
    /\ content.animating
    /\ IF v = None
       THEN /\ content' = [content EXCEPT !.animating = FALSE, !.old = None]
            /\ life' = Lives({}, {content.old})
       ELSE /\ content' = [view |-> v, old |-> None, queued |-> None, animating |-> FALSE]
            /\ life' = Lives({v}, {content.old, content.view})
    /\ UNCHANGED <<overlay, modal, asked, hurried>>

-----------------------------------------------------------------------------
(* Overlay *)

\* empty(): the view slides out.
Closing == [overlay EXCEPT !.closing = @ + 1, !.listens = FALSE]

Hurried(v, region) == hurried' = IF region THEN hurried \cup {v} ELSE hurried

\* show(): if there is a view, empty() is called on the way.
ShowOverlay(v) ==
    /\ life[v] = "new" /\ v # content.queued
    /\ overlay.view = None \/ overlay.closing < MaxClosing
    /\ overlay' = [view |-> v, listens |-> TRUE,
                   closing |-> overlay.closing + IF overlay.view = None THEN 0 ELSE 1]
    /\ life' = Lives({v}, {})
    /\ Hurried(v, overlay.closing > 0 \/ overlay.view # None)
    /\ asked' = asked \cup ({overlay.view} \ {None})
    /\ UNCHANGED <<content, modal>>

\* A button of the view, or, while the region listens, the escape key or another route.
CloseOverlay(byListener) ==
    /\ overlay.view # None /\ overlay.closing < MaxClosing
    /\ byListener => overlay.listens
    /\ overlay' = Closing
    /\ asked' = asked \cup {overlay.view}
    /\ UNCHANGED <<life, content, modal, hurried>>

\* The end of an animation empties the region, whatever it shows.
OverlayClosed ==
    /\ overlay.closing > 0
    /\ overlay' = [overlay EXCEPT !.view = None, !.closing = @ - 1]
    /\ life' = Lives({}, {overlay.view})
    /\ UNCHANGED <<content, modal, asked, hurried>>

-----------------------------------------------------------------------------
(* Modal dialog *)

\* show() destroys the present view and hides the dialog, onShow() opens it again.
ShowModal(v) ==
    /\ life[v] = "new" /\ v # content.queued
    /\ modal' = [view |-> v, hiding |-> modal.hiding \/ modal.view # None]
    /\ life' = Lives({v}, {modal.view})
    /\ asked' = asked \cup ({modal.view} \ {None})
    /\ Hurried(v, modal.hiding \/ modal.view # None)
    /\ UNCHANGED <<content, overlay>>

\* The user dismisses it: the dialog fades, and then hidden.bs.modal empties the region.
DismissModal ==
    /\ modal.view # None /\ ~modal.hiding
    /\ modal' = [modal EXCEPT !.hiding = TRUE]
    /\ asked' = asked \cup {modal.view}
    /\ UNCHANGED <<life, content, overlay, hurried>>

\* empty() by the handler of an answer, or the view destroys itself.
EmptyModal ==
    /\ modal.view # None
    /\ modal' = [view |-> None, hiding |-> TRUE]
    /\ life' = Lives({}, {modal.view})
    /\ asked' = asked \cup {modal.view}
    /\ UNCHANGED <<content, overlay, hurried>>

ModalHidden ==
    /\ modal.hiding
    /\ modal' = [view |-> None, hiding |-> FALSE]
    /\ life' = Lives({}, {modal.view})
    /\ UNCHANGED <<content, overlay, asked, hurried>>

RegionsNext ==
    \/ \E v \in Views : \/ \E animated \in BOOLEAN : ShowContent(v, animated)
                        \/ ShowOverlay(v) \/ ShowModal(v)
    \/ ContentAnimated
    \/ \E byListener \in BOOLEAN : CloseOverlay(byListener)
    \/ OverlayClosed \/ DismissModal \/ EmptyModal \/ ModalHidden

RegionsSpec == RegionsInit /\ [][RegionsNext]_regionVars /\ WF_regionVars(ContentAnimated)

-----------------------------------------------------------------------------
(* Properties *)

Maybe == Views \cup {None}
Shown == {v \in Views : life[v] = "shown"}

RegionsTypeOK ==
    /\ life \in [Views -> {"new", "shown", "destroyed"}]
    /\ content \in [view : Maybe, old : Maybe, queued : Maybe, animating : BOOLEAN]
    /\ overlay \in [view : Maybe, closing : 0..MaxClosing, listens : BOOLEAN]
    /\ modal \in [view : Maybe, hiding : BOOLEAN]
    /\ asked \subseteq Views /\ hurried \subseteq Views

\* A view that has slid out is destroyed, and nothing else is: what is not the content,
\* the one that slides out, the overlay or the dialog has been asked to go.
NothingIsLeft ==
    /\ ~content.animating => content.old = None /\ content.queued = None
    /\ Shown \subseteq {content.view, content.old, overlay.view, modal.view} \cup asked \cup hurried
=============================================================================
