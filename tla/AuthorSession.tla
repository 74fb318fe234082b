--------------------------- MODULE AuthorSession ---------------------------
(***************************************************************************)
(* The author-session protocol server (authorsession/session.go): a client *)
(* drives one headed browser through authentication and exploration, each  *)
(* click and each new origin is approved by the operator, and a result is  *)
(* written only for a goal the operator confirmed.                         *)
(*                                                                         *)
(* The server is single-threaded: Serve reads one message, runs its whole  *)
(* handler and reads the next, so a handler is one action.  What happens   *)
(* beside it is nondeterminism inside the action (a browser call fails or  *)
(* overruns its deadline, a write to the host fails) or an action of its   *)
(* own (the parent cancels, the input ends).                               *)
(*                                                                         *)
(* Pages are abstract: an observation says which candidates a page has and *)
(* whether it is the dashboard and shows the goal; a candidate is known by *)
(* its observation generation, its context and its shape.                  *)
(***************************************************************************)
EXTENDS Integers, Sequences, FiniteSets

CONSTANTS
    Origin,           \* exact web origins
    InitialOrigin,    \* origin of the start URL
    DashboardOrigin,  \* origin of the dashboard URL
    GoalOrigin,       \* origin of the goal predicate
    Child,            \* ids of popup and frame contexts, "main" not among them
    Parent,           \* [Child -> the context it is in]
    GoalContext,      \* context of the goal predicate
    Shape,            \* candidate shapes the pages may show
    Budget,           \* POST budgets a click may ask for
    MaxPost,          \* POSTs a browser may report
    MaxObservations,  \* bounds.MaxObservations
    MaxContexts,      \* MaxContexts
    MaxOutputs,       \* the lesser of bounds.MaxOutputs and maxSelectedOutputs
    MaxApprovals,     \* maxApprovalID
    MaxActions,       \* bound on the model: browser acts in one session
    MaxInputs,        \* bound on the model: human inputs in one session
    None              \* an absent value

Context == {"main"} \cup Child

\* What the state machine reads of a candidate: what human input it takes,
\* whether it matches once, where its link leads, whether its text may be
\* selected as an output.
ShapeType == [input: {"none", "credential", "otp", "mfa"}, unique: BOOLEAN,
              target: Origin \cup {None}, output: BOOLEAN]

CandidateId == [gen: 1..MaxObservations, ctx: Context, shape: Shape]
Click       == [action: {"click"}, cand: CandidateId, budget: Budget]
Navigation  == [action: {"navigate_get"}, origin: Origin, ctx: Context]
Message     == Click \cup Navigation
HumanInput  == [action: {"focus_human_input"}, cand: CandidateId]
Proof       == [gen: 1..MaxObservations, ctx: Context, at: 0..MaxActions]
Pending     == [id: 1..MaxApprovals, kind: {"origin", "origin_action", "action"},
                message: Message, origin: Origin \cup {None}]
PendingInput == [cand: CandidateId, phase: {"authentication", "exploration"}]
TraceStep   == [phase: {"authentication", "exploration"},
                message: Message \cup HumanInput, observed: 0..MaxPost]

ASSUME ConstantsAssumption ==
    /\ {InitialOrigin, DashboardOrigin, GoalOrigin} \subseteq Origin
    /\ IsFiniteSet(Child) \* an id has at most 64 characters
    /\ "main" \notin Child /\ Parent \in [Child -> Context]
    /\ GoalContext \in Context
    /\ Shape \subseteq ShapeType
    /\ MaxPost \in Nat
    /\ Budget \subseteq 0..MaxPost
    /\ {MaxObservations, MaxContexts, MaxOutputs, MaxApprovals, MaxActions, MaxInputs} \subseteq Nat

ASSUME NoneAssumption ==
    /\ None \notin Origin
    /\ None \notin Proof
    /\ None \notin Pending
    /\ None \notin PendingInput

VARIABLES
    phase,           \* server.phase
    closed,          \* server.closed
    returned,        \* Serve has returned
    session,         \* server.session # nil
    origins,         \* server.origins
    contexts,        \* server.contexts: origin of each known child context
    candidates,      \* server.candidates
    trace,           \* server.trace
    observations,    \* server.observations
    approvals,       \* server.approvalCounter
    pending,         \* server.pending
    pendingInput,    \* server.pendingInput
    goalProof,       \* server.goalProof (.at: acts performed when it was taken)
    authProof,       \* server.authProof (likewise)
    humanConfirmed,  \* server.humanConfirmed
    outputs,         \* server.outputSelections: the candidates selected
    artifact,        \* the private result file exists
    cancelled,       \* the parent cancelled the context
    live,            \* the browser: "none", "held" or "orphaned" (never closed)
    browserOrigins,  \* origins the browser admits
    performed,       \* acts handed to Session.Execute, in order
    granted          \* history: clicks the operator approved, in order

authority == <<origins, browserOrigins, approvals, granted>>
evidence  == <<observations, candidates, contexts, goalProof, authProof>>
decision  == <<humanConfirmed, outputs, artifact>>
progress  == <<phase, pending, pendingInput>>
acts      == <<trace, performed>>
lifetime  == <<closed, returned, session, live>>
vars == <<authority, evidence, decision, progress, acts, lifetime, cancelled>>

TypeOK ==
    /\ phase \in {"awaiting_start", "authentication", "human_input", "exploration", "completed"}
    /\ closed \in BOOLEAN /\ returned \in BOOLEAN /\ session \in BOOLEAN
    /\ humanConfirmed \in BOOLEAN /\ artifact \in BOOLEAN /\ cancelled \in BOOLEAN
    /\ origins \subseteq Origin
    /\ browserOrigins \subseteq Origin
    /\ contexts \in [Child -> Origin \cup {None}]
    /\ candidates \subseteq CandidateId
    /\ trace \in Seq(TraceStep)
    /\ performed \in Seq(Message)
    /\ Len(performed) <= MaxActions
    /\ granted \in Seq(Message)
    /\ observations \in 0..MaxObservations + 1
    /\ approvals \in 0..MaxApprovals
    /\ pending \in Pending \cup {None}
    /\ pendingInput \in PendingInput \cup {None}
    /\ goalProof \in Proof \cup {None}
    /\ authProof \in Proof \cup {None}
    /\ outputs \subseteq CandidateId
    /\ live \in {"none", "held", "orphaned"}

Init ==
    /\ phase = "awaiting_start"
    /\ closed = FALSE /\ returned = FALSE /\ session = FALSE
    /\ origins = {} /\ browserOrigins = {}
    /\ contexts = [c \in Child |-> None]
    /\ candidates = {}
    /\ trace = <<>> /\ performed = <<>> /\ granted = <<>>
    /\ observations = 0 /\ approvals = 0
    /\ pending = None /\ pendingInput = None
    /\ goalProof = None /\ authProof = None
    /\ humanConfirmed = FALSE /\ outputs = {} /\ artifact = FALSE
    /\ cancelled = FALSE
    /\ live = "none"
-----------------------------------------------------------------------------
(* What every handler shares. *)

PhaseMessages(p) == {"close"} \cup
    IF p = "awaiting_start" THEN {"start"}
    ELSE IF p = "authentication" THEN {"observe", "focus_human_input", "execute", "approve", "deny"}
    ELSE IF p = "human_input" THEN {"human_input_complete"}
    ELSE IF p = "exploration" THEN {"observe", "execute", "approve", "deny", "human_complete"}
    ELSE IF p = "completed" THEN {"finish"} ELSE {}

\* Slip: handle forgets the pending approval.
AnswersPendingNever(type) == TRUE

\* handle: while an approval is pending only its answer or close is accepted.
AnswersPending(type) == pending # None => type \in {"approve", "deny", "close"}

Admissible(type) ==
    /\ ~returned
    /\ AnswersPending(type)
    /\ type \in PhaseMessages(phase)

\* Slip: the session is forgotten without being closed.
ForgetSession == session' = FALSE /\ UNCHANGED live

\* closeSession: forget the session after telling the browser to close.
CloseSession ==
    /\ session' = FALSE
    /\ live' = IF session THEN "none" ELSE live

\* fail and cancel: tear down, mark closed, and Serve returns the error.
Fail ==
    /\ closed' = TRUE
    /\ returned' = TRUE
    /\ CloseSession

\* The handler's closing write.  Serve returns at once when it fails, and
\* nothing on that path closes the session.
Reply ==
    /\ returned' \in BOOLEAN
    /\ UNCHANGED <<closed, session, live>>

\* withActiveContext runs no browser call once the parent has cancelled.
BrowserAnswers == ~cancelled
-----------------------------------------------------------------------------
(* start *)

\* Open may return a session after the total deadline: withActiveContext then
\* reports an error and server.session is never assigned.
OpenPastDeadline ==
    /\ live' = "orphaned"
    /\ session' = FALSE
    /\ closed' = TRUE
    /\ returned' = TRUE

StartSession(requested) ==
    /\ Admissible("start")
    /\ origins' = requested
    /\ \/ /\ {InitialOrigin, DashboardOrigin, GoalOrigin} \subseteq requested
          /\ BrowserAnswers
          /\ browserOrigins' = requested
          /\ \/ /\ phase' = "authentication"
                /\ session' = TRUE
                /\ live' = "held"
                /\ returned' \in BOOLEAN
                /\ UNCHANGED closed
             \/ /\ OpenPastDeadline
                /\ UNCHANGED phase
       \/ Fail /\ UNCHANGED <<browserOrigins, phase>>
    /\ UNCHANGED <<approvals, granted, evidence, decision, pending, pendingInput, acts, cancelled>>
-----------------------------------------------------------------------------
(* observe *)

Known(inventory) == {c \in Child : inventory[c] # None}
KnownContext(ctx) == ctx \in {"main"} \cup Known(contexts)

\* What the browser may report of one context: any candidates, its inventory
\* of contexts, and what its URL and accessible content amount to.
\* A proof of the goal or of the dashboard rests on a unique candidate.
RawObservation ==
    {raw \in [origin: Origin, shapes: SUBSET Shape, inventory: [Child -> Origin \cup {None}],
              dashboard: BOOLEAN, goal: BOOLEAN, landmark: BOOLEAN] :
        /\ raw.goal \/ raw.landmark => \E s \in raw.shapes : s.unique
        /\ raw.dashboard => raw.origin = DashboardOrigin
        /\ raw.goal => raw.origin = GoalOrigin}

\* The context a context is in; at most four are on the way to the main page.
Above(ctx) == IF ctx = "main" THEN "main" ELSE Parent[ctx]
Shallow(ctx) == Above(Above(Above(Above(ctx)))) = "main"

\* addContext: a known parent and a bounded depth, so that no context is in
\* itself.
Placed(ctx, inventory) == Parent[ctx] \in {"main"} \cup Known(inventory) /\ Shallow(ctx)

\* addContexts: approved origins, unchanged identities, bounded inventory; a
\* context may be reported together with the one it is in.
Merged(inventory) == [c \in Child |-> IF inventory[c] = None THEN contexts[c] ELSE inventory[c]]
InventoryOK(inventory) ==
    /\ \A c \in Known(inventory) :
        /\ inventory[c] \in origins /\ contexts[c] \in {None, inventory[c]}
        /\ Placed(c, Merged(inventory))
    /\ Cardinality(Known(Merged(inventory))) <= MaxContexts

\* Slip: candidates of earlier observations stay.
GenerationKept(gen, ctx, shapes) ==
    candidates \cup {[gen |-> gen, ctx |-> ctx, shape |-> s] : s \in shapes}

\* One observation is one authority generation: the candidates of every
\* earlier one, of whatever context, expire.
Generation(gen, ctx, shapes) == {[gen |-> gen, ctx |-> ctx, shape |-> s] : s \in shapes}

ProofNow(gen, ctx) == [gen |-> gen, ctx |-> ctx, at |-> Len(performed)]
MatchGoal(gen, ctx, raw) == IF raw.goal /\ ctx = GoalContext THEN ProofNow(gen, ctx) ELSE None

Reduce(ctx, raw) ==
    LET gen == observations + 1
        arrives == phase = "authentication" /\ raw.dashboard
        proven == MatchGoal(gen, ctx, raw) # None \/ raw.landmark
    IN  /\ gen <= MaxObservations
        /\ BrowserAnswers
        /\ raw.origin \in origins
        /\ InventoryOK(raw.inventory)
        /\ arrives => proven
        /\ contexts' = Merged(raw.inventory)
        /\ candidates' = Generation(gen, ctx, raw.shapes)
        /\ goalProof' = MatchGoal(gen, ctx, raw)
        /\ IF arrives
           THEN authProof' = ProofNow(gen, ctx) /\ phase' = "exploration"
           ELSE UNCHANGED <<authProof, phase>>

Observe(ctx) ==
    /\ Admissible("observe")
    /\ \/ /\ KnownContext(ctx)
          /\ observations' = observations + 1
          /\ \E raw \in RawObservation : Reduce(ctx, raw)
          /\ Reply
       \/ /\ observations' = IF KnownContext(ctx) THEN observations + 1 ELSE observations
          /\ Fail
          /\ UNCHANGED <<candidates, contexts, goalProof, authProof, phase>>
    /\ UNCHANGED <<authority, decision, pending, pendingInput, acts, cancelled>>
-----------------------------------------------------------------------------
(* focus_human_input, human_input_complete *)

\* A non-input MFA candidate (a push, a passkey) is not focused.
Focusable(c) ==
    /\ c \in candidates
    /\ c.shape.input # "none"
    /\ c.shape.unique

Focus ==
    /\ Admissible("focus_human_input")
    /\ \/ \E c \in CandidateId :
             /\ Focusable(c)
             /\ Len(trace) < Len(performed) + MaxInputs
             /\ c.shape.input # "mfa" => BrowserAnswers
             /\ pendingInput' = [cand |-> c, phase |-> phase]
             /\ phase' = "human_input"
             /\ Reply
       \/ Fail /\ UNCHANGED <<pendingInput, phase>>
    /\ UNCHANGED <<authority, evidence, decision, pending, acts, cancelled>>

\* The client names the checkpoint's candidate, with no challenge kind for a
\* credential and a reviewed one for the other inputs; anything else fails.
CompleteHumanInput ==
    /\ Admissible("human_input_complete")
    /\ \/ /\ pendingInput # None
          /\ trace' = Append(trace, [phase |-> pendingInput.phase, observed |-> 0,
                 message |-> [action |-> "focus_human_input", cand |-> pendingInput.cand]])
          /\ pendingInput' = None
          /\ phase' = pendingInput.phase
          /\ Reply
       \/ Fail /\ UNCHANGED <<trace, pendingInput, phase>>
    /\ UNCHANGED <<authority, evidence, decision, pending, performed, cancelled>>
-----------------------------------------------------------------------------
(* execute, approve, deny *)

\* The act itself.  Goal evidence and confirmation are withdrawn before the
\* browser is called; the trace records the act only if it succeeded within
\* its POST budget.
Allowance(m) == IF m.action = "click" THEN m.budget ELSE 0

Opens(opened) ==
    \/ opened = contexts
    \/ \E c \in Child, o \in origins' :
         /\ contexts[c] \in {None, o} /\ Placed(c, contexts)
         /\ opened = [contexts EXCEPT ![c] = o]
         /\ Cardinality(Known(opened)) <= MaxContexts

\* Slip: an act withdraws the confirmation but not the goal evidence.
WithdrawConfirmation == humanConfirmed' = FALSE /\ UNCHANGED goalProof

WithdrawEvidence ==
    /\ goalProof' = None
    /\ humanConfirmed' = FALSE

\* Slip: a failed act is reported and the session goes on.
ActFailsSoftly == Reply

\* A browser error or an exceeded POST budget.
ActFails == Fail

Execute(m) ==
    /\ Len(performed) < MaxActions
    /\ WithdrawEvidence
    /\ \/ /\ BrowserAnswers
          /\ performed' = Append(performed, m)
          /\ \E observed \in 0..MaxPost :
                /\ observed <= Allowance(m)
                /\ trace' = Append(trace, [phase |-> phase, message |-> m, observed |-> observed])
          /\ \E opened \in [Child -> Origin \cup {None}] :
                /\ Opens(opened)
                /\ contexts' = opened
          /\ Reply
       \/ /\ performed' \in {performed} \cup (IF BrowserAnswers THEN {Append(performed, m)} ELSE {})
          /\ ActFails
          /\ UNCHANGED <<trace, contexts>>
    /\ UNCHANGED <<observations, candidates, authProof, outputs, artifact, phase, pendingInput, cancelled>>

\* Slip: the identifier bound is off by one.
RequireApprovalLate(kind, m, origin) ==
    /\ IF approvals > MaxApprovals
       THEN Fail /\ pending' = None /\ UNCHANGED approvals
       ELSE /\ approvals' = approvals + 1
            /\ pending' = [id |-> approvals + 1, kind |-> kind, message |-> m, origin |-> origin]
            /\ Reply
    /\ UNCHANGED <<evidence, decision, phase, pendingInput, acts, cancelled>>

RequireApproval(kind, m, origin) ==
    /\ IF approvals >= MaxApprovals
       THEN Fail /\ pending' = None /\ UNCHANGED approvals
       ELSE /\ approvals' = approvals + 1
            /\ pending' = [id |-> approvals + 1, kind |-> kind, message |-> m, origin |-> origin]
            /\ Reply
    /\ UNCHANGED <<evidence, decision, phase, pendingInput, acts, cancelled>>

\* Slip: a navigation is executed without looking at its origin.
NavigateAnywhere(m) ==
    /\ KnownContext(m.ctx)
    /\ Execute(m)
    /\ UNCHANGED <<approvals, pending>>

Navigate(m) ==
    /\ KnownContext(m.ctx)
    /\ IF m.origin \in origins
       THEN Execute(m) /\ UNCHANGED <<approvals, pending>>
       ELSE RequireApproval("origin", m, m.origin)

\* Slip: a click whose target origin is approved needs no approval of its own.
GateClickByOrigin(m, approved) ==
    LET target == m.cand.shape.target
    IN  /\ m.cand \in candidates
        /\ m.cand.shape.unique
        /\ IF target # None /\ target \notin approved
           THEN RequireApproval("origin_action", m, target)
           ELSE Execute(m) /\ pending' = None /\ UNCHANGED approvals

\* The two approvals a click may need: its unapproved target origin first.
GateClick(m, approved) ==
    LET target == m.cand.shape.target
    IN  /\ m.cand \in candidates
        /\ m.cand.shape.unique
        /\ IF target # None /\ target \notin approved
           THEN RequireApproval("origin_action", m, target)
           ELSE RequireApproval("action", m, None)

RefuseExecute ==
    /\ Fail
    /\ UNCHANGED <<approvals, pending, evidence, decision, phase, pendingInput, acts, cancelled>>

RequestExecute ==
    /\ Admissible("execute")
    /\ UNCHANGED <<origins, browserOrigins, granted>>
    /\ \/ \E m \in Navigation : Navigate(m)
       \/ \E m \in Click : GateClick(m, origins)
       \/ RefuseExecute

\* Slip: only the browser learns of the new origin.
AdmitInBrowserOnly(origin) ==
    /\ origins' = origins
    /\ browserOrigins' = browserOrigins \cup {origin}

\* AddOrigin extends the browser's authority, then the server's.
AdmitOrigin(origin) ==
    /\ origins' = origins \cup {origin}
    /\ browserOrigins' = browserOrigins \cup {origin}

RecordGrant(m) == granted' = IF m.action = "click" THEN Append(granted, m) ELSE granted

ApproveOrigin ==
    /\ pending.kind = "origin"
    /\ pending' = None
    /\ AdmitOrigin(pending.origin)
    /\ Execute(pending.message)
    /\ UNCHANGED <<approvals, granted>>

ApproveOriginOfClick ==
    /\ pending.kind = "origin_action"
    /\ AdmitOrigin(pending.origin)
    /\ GateClick(pending.message, origins')
    /\ UNCHANGED granted

ApproveAction ==
    /\ pending.kind = "action"
    /\ pending' = None
    /\ RecordGrant(pending.message)
    /\ UNCHANGED <<origins, browserOrigins, approvals>>
    /\ Execute(pending.message)

\* The browser refused AddOrigin.
ApprovalRefused ==
    /\ pending.kind # "action"
    /\ pending' = None
    /\ Fail
    /\ UNCHANGED <<authority, evidence, decision, phase, pendingInput, acts, cancelled>>

\* The client answers with an approval id; any id but the pending one fails.
Approve ==
    /\ Admissible("approve")
    /\ \/ /\ pending # None
          /\ ApproveOrigin \/ ApproveOriginOfClick \/ ApproveAction \/ ApprovalRefused
       \/ Fail /\ UNCHANGED <<authority, evidence, decision, progress, acts, cancelled>>

Deny ==
    /\ Admissible("deny")
    /\ pending' \in {pending, None}
    /\ Fail
    /\ UNCHANGED <<authority, evidence, decision, phase, pendingInput, acts, cancelled>>
-----------------------------------------------------------------------------
(* human_complete, finish, close *)

\* reviewOutputs: current, unique, readable candidates of the goal's context,
\* re-enumerated in the browser unless none was asked for.
Selectable(c) ==
    /\ c \in candidates
    /\ c.ctx = goalProof.ctx
    /\ c.shape.unique
    /\ c.shape.input = "none"
    /\ c.shape.output

Complete ==
    /\ Admissible("human_complete")
    /\ \/ /\ goalProof # None
          /\ \E selected \in SUBSET {c \in CandidateId : Selectable(c)} :
                /\ IsFiniteSet(selected) /\ Cardinality(selected) <= MaxOutputs
                /\ selected # {} => BrowserAnswers
                /\ outputs' = selected
          /\ humanConfirmed' = TRUE
          /\ phase' = "completed"
          /\ Reply
       \/ Fail /\ UNCHANGED <<outputs, humanConfirmed, phase>>
    /\ UNCHANGED <<authority, evidence, artifact, pending, pendingInput, acts, cancelled>>

\* The browser is closed first; a teardown error, an invalid envelope or a
\* failed exclusive write leaves no artifact.  The closing result message may
\* fail after the artifact is on disk.
Finish ==
    /\ Admissible("finish")
    /\ \/ /\ humanConfirmed /\ goalProof # None /\ authProof # None
          /\ artifact' \in BOOLEAN
       \/ UNCHANGED artifact
    /\ Fail
    /\ UNCHANGED <<authority, evidence, humanConfirmed, outputs, progress, acts, cancelled>>

CloseWithoutResult ==
    /\ Admissible("close")
    /\ Fail
    /\ UNCHANGED <<authority, evidence, decision, progress, acts, cancelled>>
-----------------------------------------------------------------------------
(* Everything else that ends the session. *)

\* A malformed line, another protocol, an unknown type, a type its phase or a
\* pending approval excludes, fields a handler rejects.
RefuseMessage ==
    /\ ~returned
    /\ Fail
    /\ UNCHANGED <<authority, evidence, decision, progress, acts, cancelled>>

\* The scanner stops: end of input, a line over the limit, or the input the
\* worker closed because the parent cancelled.
InputEnds ==
    /\ ~returned
    /\ Fail
    /\ UNCHANGED <<authority, evidence, decision, progress, acts, cancelled>>

\* The parent cancels.  Serve looks at the context only when the scanner has
\* no line left: lines already buffered are still handled.
Cancel ==
    /\ ~returned
    /\ ~cancelled
    /\ cancelled' = TRUE
    /\ UNCHANGED <<authority, evidence, decision, progress, acts, lifetime>>

Next ==
    \/ \E requested \in SUBSET Origin : StartSession(requested)
    \/ \E ctx \in Context : Observe(ctx)
    \/ Focus
    \/ CompleteHumanInput
    \/ RequestExecute
    \/ Approve
    \/ Deny
    \/ Complete
    \/ Finish
    \/ CloseWithoutResult
    \/ RefuseMessage
    \/ InputEnds
    \/ Cancel

Spec == Init /\ [][Next]_vars
-----------------------------------------------------------------------------
(* Properties *)

\* Goal evidence is never older than the page it speaks of: it comes from the
\* latest observation, no browser act has happened since, and nothing is
\* confirmed without it (execute clears goalProof and humanConfirmed, observe
\* replaces goalProof; session.go:471, 627).
EvidenceIsCurrent ==
    /\ goalProof # None /\ ~closed =>
          goalProof.gen = observations /\ goalProof.at = Len(performed)
    /\ humanConfirmed => goalProof # None /\ authProof # None /\ phase = "completed"
    /\ \A c \in outputs : c.gen = observations /\ goalProof # None /\ c.ctx = goalProof.ctx

\* What s has at the positions P, t begins with, in order.
Tells(t, s, P) == \A i \in P : t[Cardinality({j \in P : j <= i})] = s[i]

\* What a trace tells of, and which of it are acts, not human inputs.
Told == [i \in DOMAIN trace |-> trace[i].message]
ActsAt == {i \in DOMAIN trace : trace[i].message.action # "focus_human_input"}

\* A result exists only for a finished, torn-down session, and its trace is
\* exactly what the browser was told to do: an act the browser performed but
\* the trace lacks (it failed, it exceeded its POST budget) ends the session
\* before any result (execute appends after the checks; session.go:634-658).
ArtifactTellsAll ==
    artifact => /\ humanConfirmed /\ authProof # None /\ goalProof # None
                /\ authProof.at <= goalProof.at /\ goalProof.at = Len(performed)
                /\ closed /\ live = "none"
                /\ Len(performed) = Cardinality(ActsAt) /\ Tells(performed, Told, ActsAt)

IsClick(m) == m.action = "click"
ClicksAt == {i \in DOMAIN performed : IsClick(performed[i])}

\* One approval, one click: the clicks the browser performed are the clicks
\* the operator approved, in order; the last approved one may have failed
\* before the browser was reached (an approval cannot grant future authority;
\* approve clears pending before execute, session.go:595).
OneClickPerApproval ==
    /\ Len(granted) - Cardinality(ClicksAt) \in IF closed THEN {0, 1} ELSE {0}
    /\ Tells(granted, performed, ClicksAt)

\* Where an act leads: a click to its link's target, a navigation to its URL.
WithinOrigins(m) == IF IsClick(m) THEN m.cand.shape.target \in origins \cup {None}
                    ELSE m.origin \in origins

\* The server's idea of the approved origins and the browser's never drift
\* apart, every navigation went to an approved origin, every clicked link
\* led to one, and no known context lies outside them
\* (approve adds to both; requestExecute and addContext check; session.go:548).
OriginsAgree ==
    /\ phase # "awaiting_start" => browserOrigins = origins
    /\ \A i \in DOMAIN performed : WithinOrigins(performed[i])
    /\ \A c \in Child : contexts[c] # None => contexts[c] \in origins

\* Every candidate belongs to the latest observation, and the click waiting
\* for approval still names one of them: execute looks the candidate up again
\* and does not check that it is there (session.go:624).
AuthorityIsOneGeneration ==
    ~closed =>
        /\ \A c \in candidates : c.gen = observations
        /\ pending # None /\ IsClick(pending.message) =>
              pending.message.cand \in candidates /\ pending.message.cand.shape.unique

LeavesBrowserAlone ==
    /\ phase = "human_input" => UNCHANGED <<performed, observations, candidates>>
    /\ pending # None => /\ UNCHANGED <<observations, candidates>>
                         /\ performed' \in {performed, Append(performed, pending.message)}

\* While the operator types a credential or answers a challenge, and while an
\* approval is outstanding, the browser neither acts nor is observed, except
\* for the approved act itself (handle and phaseMessages; session.go:326, 1052).
HumanIsNotRaced == [][LeavesBrowserAlone]_vars

\* A server that closed its session has closed the browser it held
\* (fail, cancel, finish and close all end in closeSession; session.go:798).
\* The one browser that stays is that of an Open answered past the total
\* deadline, in which nothing was done (startSession; session.go:402).
ClosedReleasesBrowser ==
    /\ closed => ~session /\ live # "held"
    /\ session => live = "held"
    /\ live = "orphaned" => closed /\ phase = "awaiting_start"

\* The server implements the contract of AuthoringContract.
ActOf(m) == IF IsClick(m) THEN [click |-> TRUE, origin |-> m.cand.shape.target]
            ELSE [click |-> FALSE, origin |-> m.origin]
Status ==
    CASE artifact                         -> "delivered"
      [] returned /\ ~artifact            -> "ended"
      [] ~returned /\ phase = "completed" -> "confirmed"
      [] ~returned /\ phase = "awaiting_start" -> "idle"
      [] OTHER                            -> "authoring"

Asked == IF pending = None \/ Status = "ended" THEN None
         ELSE [kind |-> pending.kind, act |-> ActOf(pending.message)]
Done == [i \in DOMAIN performed |-> ActOf(performed[i])]
Evident == Status # "ended" /\ goalProof # None

Contract == INSTANCE AuthoringContract WITH
    status <- Status, allowed <- browserOrigins, asked <- Asked, done <- Done, evidence <- Evident
ASSUME QuestionAssumption == None \notin Contract!Question

ImplementsContract == Contract!Spec
=============================================================================
