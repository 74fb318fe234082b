---------------------------- MODULE AuthorGuard ----------------------------
(***************************************************************************)
(* The browser behind an author session (capture/playwright_author.go,     *)
(* playwright_author_interception.go, network_guard.go): one protocol      *)
(* thread calls Execute, Observe and Close, while the browser's events     *)
(* (a paused request, a finished response, a popup, a closed page, a       *)
(* dialog) are handled concurrently under the mutexes of the network guard *)
(* and of the session.                                                     *)
(*                                                                         *)
(* A critical section is an action.  A call of the protocol thread is the  *)
(* sequence of its critical sections; the browser may do anything between  *)
(* them.  Violations are one flag: their codes differ only in wording.     *)
(***************************************************************************)
EXTENDS Naturals, FiniteSets

CONSTANTS
    Origin,        \* exact origins
    Approved,      \* origins approved when the browser is opened
    PolicyOrigin,  \* the origin authorpolicy.Policy keeps blocked, or None
    Request,       \* requests the pages may have under way
    Kind,          \* what requests may be
    Popup,         \* pages the pages may open
    Budget,        \* POST budgets of clicks
    Size,          \* body sizes of responses
    MaxBytes,      \* guard.core.maxResponseBytes
    MaxRequests,   \* guard.core.maxRequests
    Slots,         \* capacity of authorInterception.slots
    MaxCalls,      \* bound on the model: calls of Execute
    None           \* no policy origin

KindType == [origin: Origin, method: {"GET", "HEAD", "POST", "other"}, navigation: BOOLEAN, script: BOOLEAN]

ASSUME GuardAssumption ==
    /\ Approved \subseteq Origin
    /\ PolicyOrigin \in Origin \cup {None}
    /\ None \notin Origin
    /\ Kind \subseteq KindType /\ Kind # {}
    /\ Budget \subseteq Nat
    /\ Size \subseteq Nat
    /\ {MaxBytes, MaxRequests, Slots, MaxCalls} \subseteq Nat

VARIABLES
    origins,           \* guard.origins
    violation,         \* guard.core.violation # nil
    requests,          \* guard.core.requests
    bytes,             \* guard.core.responseBytes
    postActive, postBudget, postObserved, navigationActive, closing,  \* guard
    done,              \* interception.done is closed
    fate,              \* where each request is
    kind,              \* what each request is
    popup,             \* "none", "open", "closed" (its close not handled yet) or "gone"
    unseen,            \* popups whose page event has not been handled
    watched,           \* popups with the surface policy installed
    registered,        \* session.pageIDs, the main page aside
    expectingPopup,    \* session.expectingPopup
    popupEvents,       \* session.popupEvents
    thread,            \* where the protocol thread is
    before,            \* Execute: the pages there were before the click
    opened,            \* Execute: the popups of the click's window
    settled,           \* Execute: the click succeeded and its pages loaded
    observed,          \* Execute: the POSTs of the click's window
    calls,             \* calls of Execute so far
    admitted,          \* history: POSTs the guard let through
    reported,          \* history: POSTs successful clicks reported
    contacts           \* history: how many requests the guard let through

windows  == <<postActive, postBudget, postObserved, navigationActive>>
guard    == <<origins, violation, requests, bytes, windows, closing, done>>
traffic  == <<fate, kind>>
pages    == <<popup, unseen, watched, registered, expectingPopup, popupEvents>>
locals   == <<before, opened, settled, observed>>
program  == <<thread, locals, calls>>
history  == <<admitted, reported, contacts>>
vars == <<guard, traffic, pages, program, history>>

Thread == {"open", "opening", "idle", "goto", "expect", "click", "shut", "compare", "register",
           "failed", "undo", "closing", "closed_clean", "closed_error"}
Fate == {"none", "paused", "granted", "denied", "continued", "stranded"}

TypeOK ==
    /\ origins \subseteq Origin
    /\ {violation, postActive, navigationActive, closing, done, expectingPopup, settled} \subseteq BOOLEAN
    /\ requests \in Nat
    /\ bytes \in 0..MaxBytes
    /\ postBudget \in Budget \cup {0}
    /\ postObserved \in 0..postBudget
    /\ fate \in [Request -> Fate]
    /\ Cardinality({r \in Request : fate[r] \in {"granted", "denied"}}) <= Slots
    /\ kind \in [Request -> KindType]
    /\ popup \in [Popup -> {"none", "open", "closed", "gone"}]
    /\ unseen \cup watched \cup registered \cup popupEvents \cup before \cup opened \subseteq Popup
    /\ thread \in Thread
    /\ calls \in 0..MaxCalls
    /\ {admitted, reported, observed, contacts} \subseteq Nat

\* The kind of a request that is not made yet.
AnyKind == CHOOSE k \in Kind : TRUE

Init ==
    /\ origins = Approved
    /\ violation = FALSE /\ requests = 0 /\ bytes = 0
    /\ postActive = FALSE /\ postBudget = 0 /\ postObserved = 0
    /\ navigationActive = FALSE /\ closing = FALSE /\ done = FALSE
    /\ fate = [r \in Request |-> "none"]
    /\ kind = [r \in Request |-> AnyKind]
    /\ popup = [p \in Popup |-> "none"]
    /\ unseen = {} /\ watched = {} /\ registered = {}
    /\ expectingPopup = FALSE /\ popupEvents = {}
    /\ thread = "open" /\ calls = 0
    /\ before = {} /\ opened = {} /\ settled = FALSE /\ observed = 0
    /\ admitted = 0 /\ reported = 0 /\ contacts = 0

Ended == thread \in {"closed_clean", "closed_error"}
OpenPages == {p \in Popup : popup[p] = "open"}

\* block: the first violation poisons the session, unless it is closing.
Block == violation' = (violation \/ ~closing)
-----------------------------------------------------------------------------
(* Requests.  A request passes the context's route unless it is a redirect, *)
(* then pauses at the browser-wide interception.                            *)

\* A bound on the model: once the session is poisoned its pages start nothing
\* new; what they started goes on.
Sound == ~violation

\* The request is out of the model's account.
Forget(r) == kind' = [kind EXCEPT ![r] = AnyKind]

\* A redirect skips the context's route; any other request passes through it
\* (resumeUnmodifiedRoute) and is aborted at once, or continues, or is stuck
\* because the command to continue failed.  As many requests as exceed the
\* limit (a bound on the model).
Issue(r) ==
    /\ fate[r] = "none" /\ requests <= MaxRequests /\ Sound
    /\ \/ /\ fate' = [fate EXCEPT ![r] = "paused"]
          /\ \E k \in Kind : kind' = [kind EXCEPT ![r] = k]
          /\ UNCHANGED violation
       \/ /\ ~closing /\ ~violation
          /\ fate' = [fate EXCEPT ![r] = "stranded"]
          /\ Block
          /\ UNCHANGED kind
    /\ UNCHANGED <<origins, requests, bytes, windows, closing, done, pages, program, history>>

PolicyMatches(k) == k.origin = PolicyOrigin /\ k.method = "GET" /\ k.script /\ ~k.navigation
AllowedURL(o) == o \in origins /\ o # PolicyOrigin

\* Slip: the limit is compared before the request is counted.
WithinLimitLate == requests <= MaxRequests

WithinLimit == requests < MaxRequests

\* What allowRequest refuses for good.
Acceptable(k) ==
    /\ AllowedURL(k.origin)
    /\ k.navigation => navigationActive
    /\ k.method = "POST" => postActive /\ postObserved < postBudget
    /\ k.method # "other"

\* allowRequest: nothing while closing; counted; nothing after a violation; a
\* policy match is denied without harm; anything else outside the session's
\* authority is a violation.
AllowRequest(r) ==
    LET k == kind[r]
        admit == ~closing /\ ~violation /\ WithinLimit /\ ~PolicyMatches(k) /\ Acceptable(k)
        harmless == closing \/ violation \/ (WithinLimit /\ PolicyMatches(k))
    IN  /\ requests' = IF closing THEN requests ELSE requests + 1
        /\ fate' = [fate EXCEPT ![r] = IF admit THEN "granted" ELSE "denied"]
        /\ violation' = (violation \/ ~(admit \/ harmless))
        /\ kind' = IF admit THEN [kind EXCEPT ![r] = AnyKind] ELSE kind
        /\ contacts' = IF admit THEN contacts + 1 ELSE contacts
        /\ IF admit /\ k.method = "POST"
           THEN postObserved' = postObserved + 1 /\ admitted' = admitted + 1
           ELSE UNCHANGED <<postObserved, admitted>>

\* Slip: the channel is unbounded.
SlotFreeAlways == TRUE

SlotFree == Cardinality({r \in Request : fate[r] \in {"granted", "denied"}}) < Slots

\* paused: ignored once interception is done; an unreadable event or a
\* saturated channel leaves the request where it is and poisons the session.
Paused(r) ==
    /\ fate[r] = "paused"
    /\ \E readable \in BOOLEAN :
       IF ~done /\ SlotFree /\ readable
       THEN AllowRequest(r)
       ELSE /\ fate' = [fate EXCEPT ![r] = "stranded"]
            /\ Forget(r)
            /\ IF done THEN UNCHANGED violation ELSE Block
            /\ UNCHANGED <<requests, postObserved, admitted, contacts>>
    /\ UNCHANGED <<origins, bytes, postActive, postBudget, navigationActive, closing, done,
                   pages, program, reported>>

\* Slip: a failed command is not reported.
CommandFailsQuietly == UNCHANGED violation

\* fail: no violation once interception is done.
CommandFails == IF done THEN UNCHANGED violation ELSE Block

\* The command of a paused request succeeds, or fails or times out and
\* leaves the request paused.
Answer(r) ==
    /\ fate[r] \in {"granted", "denied"}
    /\ \/ /\ fate' = [fate EXCEPT ![r] = IF @ = "granted" THEN "continued" ELSE "none"]
          /\ UNCHANGED violation
       \/ /\ fate' = [fate EXCEPT ![r] = "stranded"]
          /\ CommandFails
    /\ Forget(r)
    /\ UNCHANGED <<origins, requests, bytes, windows, closing, done, pages, program, history>>

\* OnResponse and OnRequestFinished: an unreadable size blocks, a size past
\* the limit is a violation even while closing.
Finish(r) ==
    /\ fate[r] = "continued"
    /\ fate' = [fate EXCEPT ![r] = "none"]
    /\ Forget(r)
    /\ \/ Block /\ UNCHANGED bytes
       \/ \E size \in Size :
             IF bytes + size > MaxBytes
             THEN violation' = TRUE /\ UNCHANGED bytes
             ELSE bytes' = bytes + size /\ UNCHANGED violation
    /\ UNCHANGED <<origins, requests, windows, closing, done, pages, program, history>>

\* The interception's own channel closes: the session is poisoned, and from
\* then on nothing is admitted.
ChannelCloses ==
    /\ ~done
    /\ Block
    /\ closing' = TRUE
    /\ done' = TRUE
    /\ UNCHANGED <<origins, requests, bytes, windows, traffic, pages, program, history>>
-----------------------------------------------------------------------------
(* Pages.  The page is listed, or no longer listed, by the context before   *)
(* the handler of its event runs.                                           *)

OpenPopup(p) ==
    /\ popup[p] = "none" /\ Sound
    /\ popup' = [popup EXCEPT ![p] = "open"]
    /\ unseen' = unseen \cup {p}
    /\ UNCHANGED <<guard, traffic, watched, registered, expectingPopup, popupEvents, program, history>>

\* OnPage, recordPopupEvent: a popup outside a click's window is closed, if
\* the browser can, and poisons the session.
PopupEvent(p) ==
    /\ p \in unseen
    /\ unseen' = unseen \ {p}
    /\ IF expectingPopup
       THEN /\ popupEvents' = popupEvents \cup {p}
            /\ watched' = watched \cup {p}
            /\ UNCHANGED <<popup, violation>>
       ELSE /\ Block
            /\ popup' \in {popup, [popup EXCEPT ![p] = IF @ = "open" THEN "closed" ELSE @]}
            /\ UNCHANGED <<popupEvents, watched>>
    /\ UNCHANGED <<origins, requests, bytes, windows, closing, done, traffic, registered,
                   expectingPopup, program, history>>

PopupCloses(p) ==
    /\ popup[p] = "open"
    /\ popup' = [popup EXCEPT ![p] = "closed"]
    /\ UNCHANGED <<guard, traffic, unseen, watched, registered, expectingPopup, popupEvents,
                   program, history>>

\* page.OnClose, installed on watched pages
CloseEvent(p) ==
    /\ popup[p] = "closed" /\ p \in watched
    /\ popup' = [popup EXCEPT ![p] = "gone"]
    /\ registered' = registered \ {p}
    /\ watched' = watched \ {p}
    /\ IF p \in registered THEN Block ELSE UNCHANGED violation
    /\ UNCHANGED <<origins, requests, bytes, windows, closing, done, traffic, unseen,
                   expectingPopup, popupEvents, program, history>>

\* A dialog, a download, a file chooser, a crash, a WebSocket, or the end of
\* the main page.
Trouble ==
    /\ ~violation /\ ~closing
    /\ Block
    /\ UNCHANGED <<origins, requests, bytes, windows, closing, done, traffic, pages, program, history>>
-----------------------------------------------------------------------------
(* The protocol thread.                                                     *)

NoLocals == before' = {} /\ opened' = {} /\ settled' = FALSE /\ observed' = 0

\* Slip: the result is returned without a last look at the guard.
ReturnUnchecked == thread' = "idle"

\* Return to the caller, with the health of the session as the last word.
Return == thread' = IF violation THEN "failed" ELSE "idle"

Fail == thread' = "failed" /\ NoLocals

\* beginNavigation
BeginNavigation == ~navigationActive /\ navigationActive' = TRUE

\* Open: the pages' guard is installed, the first navigation begins.
Open ==
    /\ thread = "open"
    /\ IF violation
       THEN thread' = "undo" /\ UNCHANGED navigationActive
       ELSE thread' = "opening" /\ BeginNavigation
    /\ UNCHANGED <<origins, violation, requests, bytes, postActive, postBudget, postObserved,
                   closing, done, traffic, pages, locals, calls, history>>

\* Slip: only the successful navigation ends its window.
EndNavigationOnSuccess(outcome) ==
    navigationActive' = (navigationActive /\ outcome # "idle")

\* endNavigation
EndNavigation(outcome) == navigationActive' = FALSE

\* Goto returns, with an error or without.
Navigated ==
    /\ thread \in {"opening", "goto"}
    /\ thread' \in {IF thread = "opening" THEN "undo" ELSE "failed"}
                   \cup (IF violation THEN {} ELSE {"idle"})
    /\ EndNavigation(thread')
    /\ UNCHANGED <<origins, violation, requests, bytes, postActive, postBudget, postObserved,
                   closing, done, traffic, pages, locals, calls, history>>

\* Execute navigate_get
ExecuteNavigate ==
    /\ thread = "idle" /\ calls < MaxCalls
    /\ calls' = calls + 1
    /\ \/ ~violation /\ BeginNavigation /\ thread' = "goto"
       \/ thread' = "failed" /\ UNCHANGED navigationActive
    /\ UNCHANGED <<origins, violation, requests, bytes, postActive, postBudget, postObserved,
                   closing, done, traffic, pages, locals, history>>

\* Execute click: the candidate is resolved, then the popup window opens.
ExecuteClick ==
    /\ thread = "idle" /\ calls < MaxCalls
    /\ calls' = calls + 1
    /\ \/ /\ ~violation
          /\ thread' = "expect"
          /\ before' = registered
          /\ expectingPopup' = TRUE
          /\ popupEvents' = {}
       \/ /\ thread' = "failed"
          /\ UNCHANGED <<before, expectingPopup, popupEvents>>
    /\ UNCHANGED <<guard, traffic, popup, unseen, watched, registered, opened, settled, observed,
                   history>>

\* beginPOST, and setExpectingPopup(false) when it fails
BeginPOST ==
    /\ thread = "expect"
    /\ IF violation \/ postActive \/ navigationActive
       THEN /\ Fail
            /\ expectingPopup' = FALSE
            /\ popupEvents' = {}
            /\ UNCHANGED windows
       ELSE /\ thread' = "click"
            /\ postActive' = TRUE
            /\ postBudget' \in Budget
            /\ postObserved' = 0
            /\ navigationActive' = TRUE
            /\ UNCHANGED <<locals, expectingPopup, popupEvents>>
    /\ UNCHANGED <<origins, violation, requests, bytes, closing, done, traffic, popup, unseen,
                   watched, registered, calls, history>>

\* The click and settleApprovedClick are over, well or not; endPopupWindow.
EndPopupWindow ==
    /\ thread = "click"
    /\ thread' = "shut"
    /\ settled' \in BOOLEAN
    /\ opened' = popupEvents
    /\ popupEvents' = {}
    /\ expectingPopup' = FALSE
    /\ UNCHANGED <<guard, traffic, popup, unseen, watched, registered, before, observed, calls,
                   history>>

\* Slip: the POSTs are read after the window's reset.
TallyAfterReset == postObserved'

Tally == postObserved

\* endPOST
EndPOST ==
    /\ thread = "shut"
    /\ postActive' = FALSE /\ postBudget' = 0 /\ postObserved' = 0 /\ navigationActive' = FALSE
    /\ IF settled /\ ~violation
       THEN /\ thread' = "compare"
            /\ observed' = Tally
            /\ UNCHANGED <<before, opened, settled>>
       ELSE Fail
    /\ UNCHANGED <<origins, violation, requests, bytes, closing, done, traffic, pages, calls, history>>

NewPages == OpenPages \ before

\* Slip: one page and one event are taken for the same popup.
SamePagesByCount == Cardinality(NewPages) = Cardinality(opened)

SamePages == NewPages = opened

\* The pages the click opened are those whose events were recorded, at most
\* one; otherwise they are closed, as far as the browser can.
ComparePages ==
    /\ thread = "compare"
    /\ IF Cardinality(NewPages) <= 1 /\ Cardinality(opened) <= 1 /\ SamePages
       THEN /\ thread' = "register"
            /\ opened' = NewPages
            /\ UNCHANGED <<popup, before, settled, observed>>
       ELSE /\ Fail
            /\ \E closed \in SUBSET NewPages :
                  popup' = [p \in Popup |-> IF p \in closed THEN "closed" ELSE popup[p]]
    /\ UNCHANGED <<guard, traffic, unseen, watched, registered, expectingPopup, popupEvents,
                   calls, history>>

\* registerPopup: the page has an approved location, or it is closed; then
\* the call's result.
RegisterPopup ==
    /\ thread = "register"
    /\ NoLocals
    /\ \/ /\ registered' = registered \cup opened
          /\ Return
          /\ reported' = IF thread' = "idle" THEN reported + observed ELSE reported
          /\ UNCHANGED popup
       \/ /\ opened # {}
          /\ popup' = [p \in Popup |-> IF p \in opened /\ popup[p] = "open" THEN "closed" ELSE popup[p]]
          /\ thread' = "failed"
          /\ UNCHANGED <<registered, reported>>
    /\ UNCHANGED <<guard, traffic, unseen, watched, expectingPopup, popupEvents, calls, admitted,
                   contacts>>

\* Observe and Focus: they change nothing, and fail for the session's
\* violation, a closed page or the backend's own reasons.
LookFails ==
    /\ thread = "idle"
    /\ thread' = "failed"
    /\ UNCHANGED <<guard, traffic, pages, locals, calls, history>>

\* AddOrigin
AddOrigin(o) ==
    /\ thread = "idle" /\ o \notin origins
    /\ IF violation \/ o = PolicyOrigin
       THEN thread' = "failed" /\ UNCHANGED origins
       ELSE origins' = origins \cup {o} /\ UNCHANGED thread
    /\ UNCHANGED <<violation, requests, bytes, windows, closing, done, traffic, pages, locals, calls,
                   history>>

\* The cleanup of a failed Open: nobody asks the guard any more.
Undo ==
    /\ thread = "undo"
    /\ thread' = "closed_error"
    /\ closing' = TRUE
    /\ done' = TRUE
    /\ UNCHANGED <<origins, violation, requests, bytes, windows, traffic, pages, locals, calls, history>>

\* Close: nothing is admitted from now on; the context is closed.
BeginClose ==
    /\ thread \in {"idle", "failed"}
    /\ thread' = "closing"
    /\ closing' = TRUE
    /\ done' = TRUE
    /\ UNCHANGED <<origins, violation, requests, bytes, windows, traffic, pages, locals, calls, history>>

\* The context is closed, or fails to close; then the guard's verdict.
EndClose ==
    /\ thread = "closing"
    /\ thread' \in {"closed_error"} \cup (IF violation THEN {} ELSE {"closed_clean"})
    /\ UNCHANGED <<guard, traffic, pages, locals, calls, history>>
-----------------------------------------------------------------------------
Protocol ==
    \/ Open \/ Navigated \/ ExecuteNavigate \/ ExecuteClick \/ BeginPOST \/ EndPopupWindow
    \/ EndPOST \/ ComparePages \/ RegisterPopup \/ LookFails \/ Undo \/ BeginClose \/ EndClose
    \/ \E o \in Origin : AddOrigin(o)

Browser ==
    /\ ~Ended
    /\ \/ \E r \in Request : Issue(r) \/ Paused(r) \/ Answer(r) \/ Finish(r)
       \/ \E p \in Popup : OpenPopup(p) \/ PopupEvent(p) \/ PopupCloses(p) \/ CloseEvent(p)
       \/ Trouble
       \/ ChannelCloses

Next == Protocol \/ Browser

Spec == Init /\ [][Next]_vars
-----------------------------------------------------------------------------
\* Between calls, and after a failed one, no window of authority is left
\* open, whichever of the call's paths was taken.
WindowsShut ==
    thread \in {"idle", "failed", "closed_clean", "closed_error"} =>
        ~postActive /\ ~navigationActive /\ ~expectingPopup /\ popupEvents = {}

\* Every POST let through belongs to a click, and the number the clicks
\* reported is the number that was let through: none slips between the
\* click's end and its count, or after it.
PostsAreAccounted == thread = "idle" => admitted = reported

\* Between calls of a healthy session every open popup is one the session
\* registered and watches, or one whose event is still to be handled; no
\* page is registered under another page's event.
PagesAreKnown ==
    thread = "idle" =>
        /\ registered \cap OpenPages \subseteq watched
        /\ \A p \in OpenPages : violation \/ p \in registered \cup unseen

\* Whatever the call did and however it ended, nothing of it is left between
\* calls: no window, no POST nobody counted, and no page nobody watches.
NothingLeftOpen == TypeOK /\ WindowsShut /\ PostsAreAccounted /\ PagesAreKnown

\* A request the browser could not answer, or was told to fail, has poisoned
\* the session, unless it was closing or the request matched the policy: no
\* page waits, or goes on without a resource, in a session that looks healthy.
NothingLostSilently ==
    \A r \in Request :
        fate[r] \in {"denied", "stranded"} =>
            violation \/ closing \/ PolicyMatches(kind[r])

\* What the guard lets through is of an approved origin the policy does not
\* block, a navigation only while the protocol thread navigates or clicks, a
\* POST only during a click and within its budget, and never more than the
\* session's request limit.
RequestsWithinAuthority ==
    [][/\ contacts' <= MaxRequests
       /\ \A r \in Request :
            fate[r] = "paused" /\ fate'[r] = "granted" =>
            /\ kind[r].origin \in origins \ {PolicyOrigin}
            /\ kind[r].navigation => thread \in {"opening", "goto", "click", "shut"}
            /\ kind[r].method = "POST" =>
                  thread \in {"click", "shut"} /\ admitted' - reported <= postBudget]_vars

\* After a violation no request is let through, no origin is added and no
\* call succeeds, even one that was under way.
PoisonIsFinal ==
    [][violation => /\ violation'
                    /\ UNCHANGED <<contacts, origins, reported>>
                    /\ thread' = "idle" => thread = "idle"
                    /\ thread' # "closed_clean"]_vars
=============================================================================
