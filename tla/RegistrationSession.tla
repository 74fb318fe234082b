------------------------ MODULE RegistrationSession ------------------------
(***************************************************************************)
(* The registration author session (registrationauthorsession/session.go,  *)
(* inputs.go, verification.go): the server that reads a client's messages, *)
(* composed with its browser and the guard of its network.                 *)
(*                                                                         *)
(* The server is one goroutine: a message that needs the browser begins an *)
(* operation and ends it later, and the events of RegistrationGuard happen *)
(* in between.  A page is what an observation can say of it: its address   *)
(* and the controls it shows.  A reply that cannot be written ends the     *)
(* session like a failed message.                                          *)
(***************************************************************************)
EXTENDS RegistrationGuard, SequencesExt

CONSTANTS
    MaxObservations,    \* Bounds.MaxObservations
    MaxCandidates,      \* Bounds.MaxCandidates
    Page,               \* addresses of approved origins
    Name,               \* controls, by role and label
    Portable,           \* controls seen once, with a label fit for a recipe
    Shows,              \* [Page -> SUBSET Name]: what each page may show
    Previewable,        \* controls ValidatePreview accepts a click on
    Widget,             \* [Name -> provider of the widget in its form, or None]
    Flow                \* flows of profiles a client may send for review

ASSUME SessionAssumption ==
    /\ MaxObservations \in Nat \ {0} /\ MaxCandidates \in Nat \ {0}
    /\ Shows \in [Page -> SUBSET Name]
    /\ Previewable \subseteq Portable /\ Portable \subseteq Name
    /\ Widget \in [Name -> Provider \cup {None}]
    /\ \A flow \in Flow : Len(flow) \in Nat /\ DOMAIN flow = 1 .. Len(flow)

INSTANCE RegistrationEvidence

\* A candidate's identifier is made of its generation, role and label.
Candidate == [gen: 1 .. MaxObservations, name: Name]
Preview == [of: Candidate, next: 2 .. MaxObservations]
Observation == [page: Page, shows: SUBSET Name]
Typed == protocol \in {"v3", "v4"}

VARIABLES
    phase,          \* of the protocol
    closed,         \* server.closed
    held,           \* whether server.session is set
    candidates,     \* the candidates a message may name
    observations,   \* attempts, successful or not
    generation,     \* of the latest reduced observation
    history,        \* the observations kept for evidence (v3, v4)
    previews,       \* the previews kept for evidence (v3, v4)
    authority,      \* verificationAuthority
    review,         \* what was reviewed, or None
    completion,     \* what Serve has returned, or None
    cancelled,      \* whether the parent context is cancelled
    op,             \* the browser operation under way
    target,         \* the candidate of a preview, until its observation
    teardown,       \* how Close ended: "none", "clean" or "failed"
    seen,           \* every observation of the session (a ghost)
    fresh,          \* no navigation or act since the latest observation (a ghost)
    clicked         \* the previews the browser performed (a ghost)

evidenceVars == <<candidates, observations, generation, history, previews, seen, fresh, clicked>>
vars == <<protocol, guardVars, phase, closed, held, evidenceVars, authority, review,
          completion, cancelled, op, target, teardown>>

Ops == {"none", "open", "observe", "get", "head", "preview"}
CloseOps == {"finish", "close", "fail"}

Init ==
    /\ GuardInit
    /\ phase = "awaiting_start" /\ closed = FALSE /\ held = FALSE
    /\ candidates = {} /\ observations = 0 /\ generation = 0
    /\ history = <<>> /\ previews = <<>> /\ seen = <<>> /\ fresh = FALSE /\ clicked = {}
    /\ authority = None /\ review = None /\ completion = None
    /\ cancelled = FALSE /\ op = "none" /\ target = None /\ teardown = "none"

Idle == op = "none" /\ ~closed

----------------------------------------------------------------------------
(* The end of a session *)

\* closeSession: the session is let go of, and its guard begins to close.
CloseBegins(why, n, has) ==
    /\ op' = why
    /\ held' = FALSE
    /\ net' = IF has THEN [n EXCEPT !.closing = TRUE] ELSE n
    /\ teardown' = IF has THEN teardown ELSE "clean"

\* ValidateNetworkSummaryForProtocol
SummaryValid(s) ==
    /\ s.requests = s.gets + s.heads /\ s.requests <= MaxRequests
    /\ IF protocol = "v4" /\ authority # None
       THEN s.provided <= Policy[authority].requests /\ s.bytes <= Policy[authority].bytes
       ELSE s.provided = 0 /\ s.bytes = 0

\* Slip: the error of Close is dropped.
CleanWithoutGuard(failed) == ~failed

\* The guard's verdict is part of the error of Close.
CleanClose(failed) == ~failed /\ ~net.violated

CloseEnds ==
    /\ op \in CloseOps
    /\ \E failed, written, remains \in BOOLEAN :
        LET had == teardown = "none"
            clean == ~had \/ CleanClose(failed)
        IN
        /\ had \/ ~failed
        /\ remains => failed /\ had
        /\ teardown' = IF failed THEN "failed" ELSE "clean"
        /\ net' = IF had THEN [net EXCEPT !.up = remains] ELSE net
        /\ completion' = IF op = "finish" /\ clean /\ SummaryValid(Summary(net)) /\ written
                         THEN [network |-> Summary(net), verification |-> authority]
                         ELSE None
    /\ closed' = TRUE /\ phase' = "closed" /\ op' = "none" /\ target' = None
    /\ UNCHANGED <<protocol, fetch, sent, attempted, held, evidenceVars, authority, review, cancelled>>

\* The context of a call is over before it begins.
Unwilling(n) == cancelled \/ ~Healthy(n)

\* Any message that is malformed, out of place or invalid, the end of the
\* input, and a budget that is used up.
Fails ==
    /\ Idle
    /\ CloseBegins("fail", net, held)
    /\ UNCHANGED <<protocol, fetch, sent, attempted, phase, closed, evidenceVars, authority,
                   review, completion, cancelled, target>>

Cancel ==
    /\ ~closed /\ ~cancelled
    /\ cancelled' = TRUE
    /\ UNCHANGED <<protocol, guardVars, phase, closed, held, evidenceVars, authority, review,
                   completion, op, target, teardown>>

CloseMessage ==
    /\ Idle
    /\ CloseBegins("close", net, held)
    /\ UNCHANGED <<protocol, fetch, sent, attempted, phase, closed, evidenceVars, authority,
                   review, completion, cancelled, target>>

Finish ==
    /\ Idle /\ phase = "reviewed" /\ review # None
    /\ CloseBegins("finish", net, held)
    /\ UNCHANGED <<protocol, fetch, sent, attempted, phase, closed, evidenceVars, authority,
                   review, completion, cancelled, target>>

----------------------------------------------------------------------------
(* start *)

Start ==
    /\ Idle /\ phase = "awaiting_start" /\ ~cancelled
    /\ op' = "open"
    /\ net' = WindowOpened([net EXCEPT !.up = TRUE])
    /\ UNCHANGED <<protocol, fetch, sent, attempted, phase, closed, held, evidenceVars, authority,
                   review, completion, cancelled, target, teardown>>

\* Slip: a session that comes back too late is not kept.
KeepOnTime(late) == ~late

\* A session that comes back is kept, even when it is too late.
Keep(late) == TRUE

\* Open fails and cleans up after itself; or it returns a session, in time or
\* too late.
OpenEnds ==
    /\ op = "open"
    /\ \/ /\ op' = "fail" /\ teardown' = "clean"
          /\ net' = [net EXCEPT !.up = FALSE, !.closing = TRUE]
          /\ UNCHANGED <<phase, held>>
       \/ /\ Healthy(net)
          /\ \E late, written \in BOOLEAN :
              IF late \/ ~written
              THEN CloseBegins("fail", WindowShut(net), Keep(late)) /\ UNCHANGED phase
              ELSE /\ op' = "none" /\ phase' = "observing" /\ held' = TRUE
                   /\ net' = WindowShut(net) /\ UNCHANGED teardown
    /\ UNCHANGED <<protocol, fetch, sent, attempted, closed, evidenceVars, authority,
                   review, completion, cancelled, target>>

----------------------------------------------------------------------------
(* observe *)

\* The observation's number is taken whatever comes of it.
ObserveBegins(n) ==
    /\ observations' = observations + 1
    /\ IF observations = MaxObservations \/ Unwilling(n)
       THEN CloseBegins("fail", n, TRUE)
       ELSE op' = "observe" /\ net' = n /\ UNCHANGED <<held, teardown>>

Observe ==
    /\ Idle /\ phase = "observing"
    /\ ObserveBegins(net)
    /\ UNCHANGED <<protocol, fetch, sent, attempted, phase, closed, candidates, generation, history,
                   previews, seen, fresh, clicked, authority, review, completion, cancelled, target>>

\* Slip: the candidates of the observation before are not cleared.
Accumulated(shows) == candidates \cup {[gen |-> generation + 1, name |-> n] : n \in shows}

Replaced(shows) == {[gen |-> generation + 1, name |-> n] : n \in shows}

\* Slip: a preview is recorded before its observation.
RecordedEarly == IF target = None THEN previews
                 ELSE Append(previews, [of |-> target, next |-> generation])

\* A preview is recorded with the generation of the observation it led to.
Recorded == IF target = None THEN previews
            ELSE Append(previews, [of |-> target, next |-> generation + 1])

ObserveSucceeds ==
    /\ op = "observe" /\ Healthy(net)
    /\ \E page \in Page, written \in BOOLEAN : \E shows \in SUBSET Shows[page] :
        /\ Cardinality(shows) <= MaxCandidates
        /\ generation' = generation + 1
        /\ candidates' = Replaced(shows)
        /\ seen' = Append(seen, [page |-> page, shows |-> shows])
        /\ history' = IF Typed THEN Append(history, [page |-> page, shows |-> shows]) ELSE history
        /\ fresh' = TRUE
        /\ IF written
           THEN /\ op' = "none" /\ previews' = Recorded /\ UNCHANGED <<net, held, teardown>>
           ELSE /\ CloseBegins("fail", net, TRUE) /\ UNCHANGED previews
    /\ review' = None /\ target' = None
    /\ UNCHANGED <<protocol, fetch, sent, attempted, phase, closed, observations, clicked,
                   authority, completion, cancelled>>

\* The observation, or what reduces it, fails; so may any operation.
OperationFails ==
    /\ op \in {"observe", "get", "preview", "head"}
    /\ CloseBegins("fail", IF op = "head" THEN Blocked(net) ELSE WindowShut(net), TRUE)
    /\ UNCHANGED <<protocol, fetch, sent, attempted, phase, closed, evidenceVars, authority,
                   review, completion, cancelled, target>>

----------------------------------------------------------------------------
(* navigate *)

\* Slip: the candidates survive a navigation.
Kept == candidates
Dropped == {}

Navigate ==
    /\ Idle /\ phase = "observing"
    /\ candidates' = Dropped /\ review' = None /\ fresh' = FALSE
    /\ \E method \in {"get", "head"} :
        IF Unwilling(net) \/ ~MayNavigate(net)
        THEN CloseBegins("fail", net, TRUE) /\ UNCHANGED sent
        ELSE IF method = "get"
        THEN op' = "get" /\ net' = WindowOpened(net) /\ UNCHANGED <<held, teardown, sent>>
        ELSE LET begun == HeadBegun(net) IN
             IF begun.violated THEN CloseBegins("fail", begun, TRUE) /\ UNCHANGED sent
             ELSE /\ op' = "head" /\ net' = begun /\ UNCHANGED <<held, teardown>>
                  /\ sent' = [sent EXCEPT !.app = @ + 1]
    /\ UNCHANGED <<protocol, fetch, attempted, phase, closed, observations, generation, history,
                   previews, seen, clicked, authority, completion, cancelled, target>>

NavigateSucceeds ==
    /\ op \in {"get", "head"} /\ Healthy(net)
    /\ \E written \in BOOLEAN :
        IF written
        THEN op' = "none" /\ net' = WindowShut(net) /\ UNCHANGED <<held, teardown>>
        ELSE CloseBegins("fail", WindowShut(net), TRUE)
    /\ UNCHANGED <<protocol, fetch, sent, attempted, phase, closed, evidenceVars, authority,
                   review, completion, cancelled, target>>

----------------------------------------------------------------------------
(* preview: a click on a public control, and the observation it leads to *)

PreviewBegins ==
    /\ Idle /\ phase = "observing" /\ Typed
    /\ \E c \in candidates :
        /\ MayPreview(c)
        /\ ~Unwilling(net) /\ MayNavigate(net)
        /\ op' = "preview" /\ target' = c
        /\ net' = WindowOpened(net)
        /\ clicked' = clicked \cup {[of |-> c, next |-> Len(seen) + 1, current |-> fresh /\ c.gen = Len(seen)]}
    /\ fresh' = FALSE
    /\ UNCHANGED <<protocol, fetch, sent, attempted, phase, closed, held, candidates, observations,
                   generation, history, previews, seen, authority, review, completion, cancelled, teardown>>

PreviewSucceeds ==
    /\ op = "preview" /\ Healthy(net)
    /\ candidates' = {} /\ review' = None
    /\ ObserveBegins(WindowShut(net))
    /\ UNCHANGED <<protocol, fetch, sent, attempted, phase, closed, generation, history, previews,
                   seen, fresh, clicked, authority, completion, cancelled, target>>

----------------------------------------------------------------------------
(* approve_verification: the one authority of a v4 session *)

Approvable(a) ==
    /\ authority = None
    /\ \E c \in candidates : Widget[c.name] = Policy[a].provider

\* The guard takes the authority under its mutex; the server may still find
\* the call too late.
ApproveVerification ==
    /\ Idle /\ phase = "observing" /\ protocol = "v4" /\ ~Unwilling(net)
    /\ \E a \in Authority, late, written \in BOOLEAN :
        /\ Approvable(a) /\ net.authority = None
        /\ authority' = IF late THEN None ELSE a
        /\ IF late \/ ~written
           THEN CloseBegins("fail", [net EXCEPT !.authority = a], TRUE)
           ELSE op' = "none" /\ net' = [net EXCEPT !.authority = a] /\ UNCHANGED <<held, teardown>>
    /\ review' = None
    /\ UNCHANGED <<protocol, fetch, sent, attempted, phase, closed, evidenceVars, completion, cancelled, target>>

----------------------------------------------------------------------------
(* review *)

\* The bindings of a flow's steps to candidates of the history.
Bindings(flow) ==
    LET ids == UNION {{[gen |-> g, name |-> n] : n \in history[g].shows} : g \in DOMAIN history}
    IN [DOMAIN flow -> ids \cup {None}]

\* validateReviewedSubmit: one submit, and exactly one reviewed candidate it is.
OneSubmit(flow, selected) ==
    Cardinality(Submits(flow)) = 1 /\ Cardinality(SubmitCandidates(flow, selected)) = 1

ProviderOf(a) == IF a = None THEN None ELSE Policy[a].provider

Reviewable(flow, binding, selected, a) ==
    /\ candidates # {} /\ Cardinality(selected) <= MaxCandidates
    /\ OneSubmit(flow, selected)
    /\ \A c \in selected : c.name \in Portable
    /\ IF Typed
       THEN /\ TypedEvidence(protocol, history, previews, flow, binding, selected, ProviderOf(a))
            /\ protocol = "v4" => a = authority
       ELSE selected \subseteq candidates

Review ==
    /\ Idle /\ phase = "observing"
    /\ \E flow \in Flow, a \in Authority \cup {None}, written \in BOOLEAN :
       \E binding \in IF Typed THEN Bindings(flow) ELSE {[i \in DOMAIN flow |-> None]} :
       \E selected \in IF Typed THEN {Range(binding) \ {None}} ELSE SUBSET candidates :
        /\ protocol # "v4" => a = None
        /\ Reviewable(flow, binding, selected, a)
        /\ review' = [flow |-> flow, binding |-> binding, selected |-> selected, verification |-> a]
        /\ phase' = "reviewed"
        /\ IF written THEN UNCHANGED <<op, net, held, teardown>> ELSE CloseBegins("fail", net, TRUE)
    /\ UNCHANGED <<protocol, fetch, sent, attempted, closed, evidenceVars, authority, completion,
                   cancelled, target>>

----------------------------------------------------------------------------

Serve ==
    \/ Start \/ OpenEnds \/ Observe \/ ObserveSucceeds \/ OperationFails
    \/ Navigate \/ NavigateSucceeds \/ PreviewBegins \/ PreviewSucceeds
    \/ ApproveVerification \/ Review \/ Finish \/ CloseMessage \/ Fails \/ CloseEnds

Beside ==
    /\ BrowserEvent
    /\ UNCHANGED <<phase, closed, held, evidenceVars, authority, review, completion,
                   cancelled, op, target, teardown>>

Next == Serve \/ Cancel \/ Beside
Spec == Init /\ [][Next]_vars

----------------------------------------------------------------------------
(* What must hold *)

\* Every variable has its type; generations and observations stay within
\* their bound, and the history kept for evidence is all that was seen.
TypeOK ==
    /\ protocol \in Protocol /\ net \in Net
    /\ phase \in {"awaiting_start", "observing", "reviewed", "closed"}
    /\ op \in Ops \cup CloseOps /\ target \in Candidate \cup {None}
    /\ candidates \subseteq Candidate /\ generation \in 0 .. MaxObservations
    /\ observations \in 0 .. MaxObservations + 1 /\ generation <= observations
    /\ \A i \in DOMAIN previews : previews[i] \in Preview
    /\ Typed => history = seen

\* A review rests on evidence: the page it was given for has not been left
\* since its last observation; v1 and v2 name its candidates only; in v3 and v4
\* every click of the recipe was performed by the browser on a candidate that
\* was current, and the steps after it are bound to what that click led to.
ReviewIsEvidenced ==
    review # None =>
        /\ fresh
        /\ ~Typed => \A c \in review.selected : c.gen = generation
        /\ Typed => \A i \in DOMAIN review.flow : review.flow[i].do = "click" =>
            \E k \in clicked :
                /\ k.of = review.binding[i] /\ k.current
                /\ \A j \in DOMAIN review.flow :
                    /\ j > i /\ review.binding[j] # None
                    /\ \A m \in i + 1 .. j - 1 : review.flow[m].do \notin {"navigate", "click"}
                    => /\ review.binding[j].gen >= k.of.gen
                       /\ seen[review.binding[j].gen].page = seen[k.next].page

\* A completion rests on a browser that was closed cleanly, in whose pages
\* nothing forbidden was even tried, and its network summary accounts for
\* everything that left the browser, under the authority the review names.
CompletionIsClean ==
    completion # None =>
        /\ ~net.up /\ teardown = "clean" /\ ~attempted /\ sent.mutations = 0
        /\ sent.app <= completion.network.requests /\ completion.network.requests <= MaxRequests
        /\ sent.provider = completion.network.provided
        /\ review.verification = net.authority

\* No mutation leaves the browser, and provider traffic only in v4, under the
\* one authority that server and guard agree on, within its requests and bytes.
OnlyReviewedTraffic ==
    /\ sent.mutations = 0
    /\ sent.provider > 0 => /\ protocol = "v4" /\ net.authority # None
                            /\ sent.provider <= Policy[net.authority].requests
    /\ net.bytes > 0 => net.bytes <= Policy[net.authority].bytes
    /\ authority # None => authority = net.authority

\* Whatever ended the session, an Open that came back too late included, its
\* browser is down unless its teardown failed.
BrowserReleased ==
    /\ TypeOK
    /\ closed => ~held /\ (net.up => teardown = "failed")
=============================================================================
