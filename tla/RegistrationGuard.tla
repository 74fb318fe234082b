------------------------- MODULE RegistrationGuard -------------------------
(***************************************************************************)
(* The network guard of the no-submit registration browser                 *)
(* (capture/playwright_registration.go, playwright_registration_           *)
(* verification.go): what it does with each event the browser reports, on  *)
(* the goroutines of the browser, while the session's own goroutine opens  *)
(* and closes navigation windows, approves a verification provider and     *)
(* shuts the browser down (RegistrationSession).                           *)
(*                                                                         *)
(* Every event is decided under the guard's mutex, so it is one action;    *)
(* the fetch of a provider's answer lies between two of them.  A URL is    *)
(* reduced to where it leads, a response to whether it is admissible.      *)
(***************************************************************************)
EXTENDS Naturals, FiniteSets, Sequences

CONSTANTS
    Protocol,       \* versions of the protocol a session may speak
    MaxRequests,    \* the session's bound on application requests
    Authority,      \* verification authorities an operator may approve
    Policy,         \* [Authority -> [provider, requests, bytes]]
    Provider,       \* verification providers
    Fetch,          \* provider fetches that may be under way at once
    None            \* an absent value

ASSUME GuardAssumption ==
    /\ Protocol \subseteq {"v1", "v2", "v3", "v4"}
    /\ MaxRequests \in Nat \ {0}
    /\ Policy \in [Authority -> [provider: Provider, requests: Nat \ {0}, bytes: Nat \ {0}]]
    /\ None \notin Authority \cup Provider
    /\ \A a \in Authority : Policy[a] # None

VARIABLES
    protocol,   \* of the session
    net,        \* the guard's own state
    fetch,      \* the provider of each fetch that is under way, or None
    sent,       \* what has left the browser (a ghost)
    attempted   \* whether a page tried what no session may do (a ghost)

guardVars == <<net, fetch, sent, attempted>>

Counters == 0 .. MaxRequests + 1
Net == [up: BOOLEAN, violated: BOOLEAN, closing: BOOLEAN, navigating: BOOLEAN,
        requests: Counters, gets: Counters, heads: Counters,
        authority: Authority \cup {None}, phaseOver: BOOLEAN,
        provided: Nat, posted: Nat, bytes: Nat]

FreshNet == [up |-> FALSE, violated |-> FALSE, closing |-> FALSE, navigating |-> FALSE,
             requests |-> 0, gets |-> 0, heads |-> 0,
             authority |-> None, phaseOver |-> FALSE, provided |-> 0, posted |-> 0, bytes |-> 0]

Nothing == [app |-> 0, mutations |-> 0, provider |-> 0]

GuardInit ==
    /\ protocol \in Protocol
    /\ net = FreshNet
    /\ fetch = [f \in Fetch |-> None]
    /\ sent = Nothing
    /\ attempted = FALSE

----------------------------------------------------------------------------
(* The accounting core and the guard's answers *)

Violated(n) == [n EXCEPT !.violated = TRUE]

\* block: a report counts until the close has begun.
Blocked(n) == IF n.closing THEN n ELSE Violated(n)

\* beginRequest: counted whatever comes of it; past the bound it is a violation.
Counted(n) ==
    [n EXCEPT !.requests = n.requests + 1,
              !.violated = n.violated \/ n.requests + 1 > MaxRequests]

\* An application request: its method, whether it is a navigation, a
\* persistent resource or an ordinary one, and where it leads.
Request == [method: {"GET", "HEAD", "POST"}, kind: {"navigation", "resource", "persistent"},
            leads: {"approved", "elsewhere", "nowhere"}]

CountedMethod(n, r) ==
    CASE r.method = "GET" -> [n EXCEPT !.gets = n.gets + 1]
      [] r.method = "HEAD" -> [n EXCEPT !.heads = n.heads + 1]
      [] OTHER -> Violated(n)

Offends(n, r) ==
    \/ r.method \notin {"GET", "HEAD"}
    \/ r.kind = "persistent"
    \/ r.kind = "navigation" /\ (r.leads # "approved" \/ ~n.navigating)
    \/ r.kind = "resource" /\ r.leads = "nowhere"

\* allowBrowser: a closing guard answers no and counts nothing; an ordinary
\* resource of another origin is refused without a violation.
Allow(n, r) ==
    LET counted == Counted(n) IN
    IF n.closing THEN [net |-> n, through |-> FALSE]
    ELSE IF counted.violated THEN [net |-> counted, through |-> FALSE]
    ELSE IF Offends(n, r) THEN [net |-> Violated(CountedMethod(counted, r)), through |-> FALSE]
    ELSE [net |-> CountedMethod(counted, r), through |-> r.leads = "approved"]

----------------------------------------------------------------------------
(* Events the browser reports *)

\* MaxRequests + 1 counted requests are enough: the guard is poisoned by then.
Countable == net.up /\ net.requests <= MaxRequests

AppRequest ==
    /\ Countable
    /\ \E r \in Request :
        LET answer == Allow(net, r) IN
        /\ net' = answer.net
        /\ sent' = IF ~answer.through THEN sent
                   ELSE [sent EXCEPT !.app = @ + 1,
                                     !.mutations = @ + (IF r.method = "POST" THEN 1 ELSE 0)]
        /\ attempted' = (attempted \/ (~net.closing /\ Offends(net, r)))
    /\ UNCHANGED <<protocol, fetch>>

\* A v4 page's child frame that no approved provider explains: the first
\* navigation of a known provider's frame is counted and refused, anything
\* else is a violation.
FrameRequest ==
    /\ Countable /\ protocol = "v4"
    /\ \E known \in BOOLEAN :
        net' = IF known /\ net.authority = None
               THEN Allow(net, [method |-> "GET", kind |-> "resource", leads |-> "elsewhere"]).net
               ELSE Blocked(net)
    /\ UNCHANGED <<protocol, fetch, sent, attempted>>

\* A popup, dialog, download, file chooser, crash, WebSocket, a response past
\* the byte bounds, or a command of the route that failed.
SurfaceEvent ==
    /\ net.up
    /\ net' = Blocked(net)
    /\ UNCHANGED <<protocol, fetch, sent, attempted>>

----------------------------------------------------------------------------
(* Verification traffic of v4 *)

Limit == Policy[net.authority]

\* handleVerificationRoute, first half: the request is of the approved
\* provider; it is admitted within the phase and the count, or a violation -
\* while the guard closes, too.
Admits == ~net.closing /\ ~net.violated /\ ~net.phaseOver /\ net.provided < Limit.requests
\* Slip: the requests are counted when the answer arrives.
AdmitUncounted(post) == net
Admit(post) ==
    [net EXCEPT !.provided = @ + 1, !.posted = @ + (IF post THEN 1 ELSE 0)]

ProviderRequest(f) ==
    /\ net.up /\ net.authority # None /\ fetch[f] = None
    /\ \E post, bound \in BOOLEAN :
        IF Admits /\ bound
        THEN /\ net' = Admit(post)
             /\ fetch' = [fetch EXCEPT ![f] = Limit.provider]
             /\ sent' = [sent EXCEPT !.provider = @ + 1]
        ELSE net' = Violated(net) /\ UNCHANGED <<fetch, sent>>
    /\ UNCHANGED <<protocol, attempted>>

\* Without an approval a provider's request is an ordinary one and leads
\* elsewhere, or a frame's (AppRequest, FrameRequest).

\* Second half: the answer, of size one, is delivered within the bytes, or
\* refused; an inadmissible answer is a violation unless the guard closes.
ProviderAnswer(f) ==
    /\ fetch[f] # None
    /\ fetch' = [fetch EXCEPT ![f] = None]
    /\ \E good \in BOOLEAN :
        net' = IF good /\ net.bytes < Limit.bytes /\ ~net.phaseOver /\ ~net.violated
               THEN [net EXCEPT !.bytes = @ + 1]
               ELSE Blocked(net)
    /\ UNCHANGED <<protocol, sent, attempted>>

\* The phase an approval opens ends by itself.
PhaseEnds ==
    /\ net.authority # None /\ ~net.phaseOver
    /\ net' = [net EXCEPT !.phaseOver = TRUE]
    /\ UNCHANGED <<protocol, fetch, sent, attempted>>

BrowserEvent ==
    \/ AppRequest \/ FrameRequest \/ SurfaceEvent \/ PhaseEnds
    \/ \E f \in Fetch : ProviderRequest(f) \/ ProviderAnswer(f)

----------------------------------------------------------------------------
(* What the session's goroutine does to the guard *)

Healthy(n) == ~n.violated
MayNavigate(n) == ~n.closing /\ ~n.navigating /\ ~n.violated
WindowOpened(n) == [n EXCEPT !.navigating = TRUE]
WindowShut(n) == [n EXCEPT !.navigating = FALSE]

\* beginHEAD: the request of the session itself, counted before it is made.
HeadBegun(n) ==
    LET counted == Counted(n) IN
    IF counted.violated THEN counted ELSE [counted EXCEPT !.heads = n.heads + 1]

\* result: what Close returns once the browser is down.
Summary(n) == [requests |-> n.requests, gets |-> n.gets, heads |-> n.heads,
               provided |-> n.provided, posted |-> n.posted, bytes |-> n.bytes]
=============================================================================
