---------------------------- MODULE AssistedAuth ----------------------------
(***************************************************************************)
(* Assisted authentication (authassist/assist.go, operator.go and          *)
(* capture/playwright_auth.go): Run walks the steps of every selected flow *)
(* in a browser context of its own, while a human signs in there and       *)
(* signals each finished step with an empty line.                          *)
(*                                                                         *)
(* Run is one goroutine.  Beside it are the human, who acts in the page    *)
(* and types lines at any time, the page, whose requests the guard decides *)
(* one by one under its mutex, the goroutine of LineOperator that reads    *)
(* the lines, and the total deadline.  A page is the origin it shows.      *)
(***************************************************************************)
EXTENDS Naturals, Sequences, FiniteSets

CONSTANTS
    Steps,          \* a sequence of flows; a flow is the sequence of its steps
    Success,        \* [DOMAIN Steps -> the origin of a flow's success predicate]
    Origins,        \* the approved origins
    Elsewhere,      \* any other origin, and the blank page
    MaxLines,       \* bound on the lines the human types
    MaxPosts        \* bound on the POSTs the pages of one context try

Kinds == {"navigate", "type_credential", "click", "challenge", "wait_for"}
Step == [kind: Kinds, locator: BOOLEAN, budget: Nat]
Interactive(step) == step.kind \in {"type_credential", "click", "challenge"}

\* normalizeRequest: a flow is selected; each begins with a navigation and has a step a human
\* completes; only such a step has a POST budget.
ValidFlow(flow) ==
    /\ flow # <<>> /\ flow[1].kind = "navigate"
    /\ \E i \in DOMAIN flow : Interactive(flow[i])
    /\ \A i \in DOMAIN flow : flow[i].budget > 0 => Interactive(flow[i])

ASSUME AssistAssumption ==
    /\ Steps \in Seq(Seq(Step)) /\ Steps # <<>> /\ \A f \in DOMAIN Steps : ValidFlow(Steps[f])
    /\ Success \in [DOMAIN Steps -> Origins]
    /\ Elsewhere \notin Origins
    /\ MaxLines \in Nat /\ MaxPosts \in Nat

Lines == {"empty", "text"}
End == MaxLines + 1     \* the end of the input
FreshGuard == [violated |-> FALSE, active |-> FALSE, budget |-> 0, observed |-> 0, closing |-> FALSE]

VARIABLES
    at,         \* where Run is
    flow,       \* the flow under observation
    step,       \* its step; one past the last is the success predicate
    matched,    \* locator matches before the interaction
    checks,     \* the checks of the flow's report
    reports,    \* the reports so far
    result,     \* what Run returned: "none" yet, "error", or the "bundle" of the reports
    expired,    \* whether the total deadline, or the caller, ended the context
    guard,      \* the network guard of the open context
    page,       \* the origin the page shows
    up,         \* whether the context is open
    lines,      \* the lines typed so far
    read,       \* how many of them the scanner has returned
    readers,    \* the Awaits whose goroutine is in Scan
    awaits,     \* how many Awaits there were
    ready,      \* what its scan gave the current Await: a line's number, End, or 0
    posts,      \* POSTs that left the page, by step of the flow (a ghost)
    tried,      \* POSTs the context's pages tried (a ghost bounding them)
    used,       \* the line each completed step was given (a ghost)
    dirty       \* flows whose context saw a violation before it was gone (a ghost)

pageVars == <<guard, page, posts, tried, dirty>>
humanVars == <<lines, read, readers, ready>>
vars == <<at, flow, step, matched, checks, reports, result, expired, up, awaits, used,
          pageVars, humanVars>>

Init ==
    /\ at = "open" /\ flow = 1 /\ step = 1 /\ matched = 0
    /\ checks = <<>> /\ reports = <<>> /\ result = "none" /\ expired = FALSE
    /\ guard = FreshGuard /\ page = Elsewhere /\ up = FALSE
    /\ lines = <<>> /\ read = 0 /\ readers = {} /\ awaits = 0 /\ ready = 0
    /\ posts = <<>> /\ tried = 0 /\ used = {} /\ dirty = {}

Running == result = "none"
Now == Steps[flow][step]
Last == Len(Steps[flow]) + 1
Violated(g) == [g EXCEPT !.violated = TRUE]

\* health: the context of the call, then the guard.
Healthy == ~expired /\ ~guard.violated

----------------------------------------------------------------------------
(* Run: the contexts *)

\* Open returns a session, or an error after it has cleaned up.
Open ==
    /\ at = "open" /\ Running
    /\ \/ /\ ~expired
          /\ up' = TRUE /\ at' = "step"
          /\ guard' = FreshGuard /\ page' = Elsewhere /\ tried' = 0
          /\ posts' = [i \in 1 .. Last |-> 0]
          /\ UNCHANGED <<result, dirty>>
       \/ result' = "error" /\ at' = "done" /\ UNCHANGED <<up, pageVars>>
    /\ UNCHANGED <<flow, step, matched, checks, reports, expired, awaits, used, humanVars>>

\* Every error of a flow goes to the deferred Close; so does its report.
Leave(reason) == at' = reason

CloseBegins ==
    /\ at \in {"fail", "report"}
    /\ ~guard.closing
    /\ guard' = [guard EXCEPT !.closing = TRUE]
    /\ UNCHANGED <<at, flow, step, matched, checks, reports, result, expired, up, awaits, used,
                   page, posts, tried, dirty, humanVars>>

\* Slip: a violation that races the teardown is lost.
CloseErrorOfCommands(failed) == failed

\* Close's error: a command that failed, or what the guard found until the
\* context was gone.
CloseError(failed) == failed \/ guard.violated

CloseEnds ==
    /\ at \in {"fail", "report"} /\ guard.closing
    /\ up' = FALSE
    /\ \E failed \in BOOLEAN :
        IF at = "fail" \/ CloseError(failed)
        THEN result' = "error" /\ at' = "done" /\ UNCHANGED <<flow, reports>>
        ELSE /\ reports' = Append(reports, checks)
             /\ IF flow = Len(Steps)
                THEN at' = "build" /\ UNCHANGED flow
                ELSE at' = "open" /\ flow' = flow + 1
             /\ UNCHANGED result
    /\ step' = 1 /\ checks' = <<>>
    /\ UNCHANGED <<matched, expired, awaits, used, pageVars, humanVars>>

\* Verify: one check for each step and one for the success, in order, each of
\* its step's kind, with the matches and the POSTs the step may have.
Expected(f, i) ==
    IF i > Len(Steps[f]) THEN [kind |-> "success", locator |-> TRUE, budget |-> 0] ELSE Steps[f][i]

Verify(rs) ==
    /\ Len(rs) = Len(Steps)
    /\ \A f \in DOMAIN rs :
        /\ Len(rs[f]) = Len(Steps[f]) + 1
        /\ \A i \in DOMAIN rs[f] :
            LET check == rs[f][i] IN
            /\ check.kind = Expected(f, i).kind
            /\ check.matches = (IF Expected(f, i).locator THEN 1 ELSE 0)
            /\ check.approved <= Expected(f, i).budget /\ check.observed <= check.approved
            /\ check.origin \in Origins
        /\ rs[f][Len(rs[f])].origin = Success[f]

Build ==
    /\ at = "build"
    /\ result' = IF Verify(reports) THEN "bundle" ELSE "error"
    /\ at' = "done"
    /\ UNCHANGED <<flow, step, matched, checks, reports, expired, up, awaits, used, pageVars, humanVars>>

----------------------------------------------------------------------------
(* Run: the steps *)

Checked(kind, matches, approved, observed) ==
    checks' = Append(checks, [kind |-> kind, origin |-> page, matches |-> matches,
                              approved |-> approved, observed |-> observed])

\* Observe: health, the origin, the matches, health again.
Observes(matches, locator) ==
    /\ Healthy /\ page \in Origins
    /\ matches = (IF locator THEN 1 ELSE 0)

\* Whatever does not go on fails: an error of the browser, an origin outside
\* the approved ones, a locator that does not match exactly once, the deadline.
StepFails ==
    /\ at \in {"step", "landed", "armed", "after"}
    /\ Leave("fail")
    /\ UNCHANGED <<flow, step, matched, checks, reports, result, expired, up, awaits, used,
                   pageVars, humanVars>>

\* Navigate: Goto takes the page to an approved origin, or a redirect elsewhere
\* is refused; the check that follows looks again.
Navigate ==
    /\ at = "step" /\ step < Last /\ Now.kind = "navigate" /\ Healthy
    /\ page' \in Origins
    /\ at' = "landed"
    /\ UNCHANGED <<flow, step, matched, checks, reports, result, expired, up, awaits, used,
                   guard, posts, tried, dirty, humanVars>>

Landed ==
    /\ at = "landed" /\ Observes(0, FALSE)
    /\ Checked("navigate", 0, 0, 0)
    /\ step' = step + 1 /\ at' = "step"
    /\ UNCHANGED <<flow, matched, reports, result, expired, up, awaits, used, pageVars, humanVars>>

WaitFor ==
    /\ at = "step" /\ step < Last /\ Now.kind = "wait_for" /\ Observes(1, TRUE)
    /\ Checked("wait_for", 1, 0, 0)
    /\ step' = step + 1
    /\ UNCHANGED <<at, flow, matched, reports, result, expired, up, awaits, used, pageVars, humanVars>>

\* The guard while a step may post, and after it; the count is returned then.
Armed(budget) == [guard EXCEPT !.active = TRUE, !.budget = budget, !.observed = 0]
Disarmed == [guard EXCEPT !.active = FALSE, !.budget = 0]

\* observeInteractive up to BeginAuthenticationInteraction.
Arm ==
    /\ at = "step" /\ step < Last /\ Interactive(Now)
    /\ \E m \in 0 .. 1 : Observes(m, Now.locator) /\ matched' = m
    /\ ~guard.active
    /\ guard' = Armed(Now.budget)
    /\ at' = "armed"
    /\ UNCHANGED <<flow, step, checks, reports, result, expired, up, awaits, used,
                   page, posts, tried, dirty, humanVars>>

\* Await prompts and starts a goroutine that scans one line.
Prompt ==
    /\ at = "armed"
    /\ awaits' = awaits + 1
    /\ readers' = readers \cup {awaits + 1}
    /\ ready' = 0
    /\ at' = "await"
    /\ UNCHANGED <<flow, step, matched, checks, reports, result, expired, up, used, pageVars,
                   lines, read>>

\* Slip: the wait does not listen to its context.
AwaitOutcomesUnbounded ==
    IF ready = 0 THEN {} ELSE {IF ready # End /\ lines[ready] = "empty" THEN "done" ELSE "error"}

\* Slip: whatever line comes completes the step.
AwaitOutcomesOfAnyLine ==
    (IF expired THEN {"error"} ELSE {}) \cup (IF ready \in DOMAIN lines THEN {"done"} ELSE {})

\* The select: the context is over, or the line is there and must be empty.
AwaitOutcomes ==
    (IF expired THEN {"error"} ELSE {}) \cup
    (IF ready = 0 THEN {} ELSE {IF ready # End /\ lines[ready] = "empty" THEN "done" ELSE "error"})

\* Await returns and EndAuthenticationInteraction follows at once.
Disarm ==
    /\ at = "await"
    /\ \E outcome \in AwaitOutcomes :
        /\ guard' = Disarmed
        /\ IF outcome = "done" /\ ~guard.violated
           THEN at' = "after" /\ used' = used \cup {[flow |-> flow, step |-> step, line |-> ready]}
           ELSE Leave("fail") /\ UNCHANGED used
    /\ UNCHANGED <<flow, step, matched, checks, reports, result, expired, up, awaits,
                   page, posts, tried, dirty, humanVars>>

After ==
    /\ at = "after" /\ Observes(0, FALSE)
    /\ Checked(Now.kind, matched, Now.budget, guard.observed)
    /\ step' = step + 1 /\ at' = "step"
    /\ UNCHANGED <<flow, matched, reports, result, expired, up, awaits, used, pageVars, humanVars>>

Succeed ==
    /\ at = "step" /\ step = Last
    /\ Observes(1, TRUE) /\ page = Success[flow]
    /\ Checked("success", 1, 0, 0)
    /\ Leave("report")
    /\ UNCHANGED <<flow, step, matched, reports, result, expired, up, awaits, used, pageVars, humanVars>>

----------------------------------------------------------------------------
(* The page *)

\* A POST leaves the page only within an armed step and its ceiling.
Permitted(g) == g.active /\ g.observed < g.budget

Posts ==
    /\ up /\ tried < MaxPosts
    /\ tried' = tried + 1
    /\ IF ~guard.violated /\ Permitted(guard)
       THEN /\ guard' = [guard EXCEPT !.observed = @ + 1]
            /\ posts' = [posts EXCEPT ![step] = @ + 1]
            /\ UNCHANGED dirty
       ELSE guard' = Violated(guard) /\ dirty' = dirty \cup {flow} /\ UNCHANGED posts
    /\ UNCHANGED <<at, flow, step, matched, checks, reports, result, expired, up, awaits, used,
                   page, humanVars>>

\* A request of any other origin, a child frame, a WebSocket, a popup, a dialog,
\* a download, a crash, or a bound: the guard is poisoned, while it closes too.
Trips ==
    /\ up
    /\ guard' = Violated(guard) /\ dirty' = dirty \cup {flow}
    /\ UNCHANGED <<at, flow, step, matched, checks, reports, result, expired, up, awaits, used,
                   page, posts, tried, humanVars>>

\* The human or the page goes to another approved origin.
Moves ==
    /\ up /\ ~guard.violated /\ page # Elsewhere
    /\ page' \in Origins
    /\ UNCHANGED <<at, flow, step, matched, checks, reports, result, expired, up, awaits, used,
                   guard, posts, tried, dirty, humanVars>>

----------------------------------------------------------------------------
(* The human's lines, and time *)

Types ==
    /\ Running /\ Len(lines) < MaxLines
    /\ \E line \in Lines : lines' = Append(lines, line)
    /\ UNCHANGED <<at, flow, step, matched, checks, reports, result, expired, up, awaits, used,
                   pageVars, read, readers, ready>>

\* A goroutine's Scan returns the next line, or the end of the input; only the
\* current Await still listens to its own.
ScanReturns ==
    /\ Running
    /\ \E r \in readers :
        \/ /\ read < Len(lines)
           /\ read' = read + 1
           /\ ready' = IF r = awaits THEN read + 1 ELSE ready
           /\ readers' = readers \ {r}
        \/ /\ read = Len(lines)
           /\ ready' = IF r = awaits THEN End ELSE ready
           /\ readers' = readers \ {r} /\ UNCHANGED read
    /\ UNCHANGED <<at, flow, step, matched, checks, reports, result, expired, up, awaits, used,
                   pageVars, lines>>

Expire ==
    /\ Running /\ ~expired
    /\ expired' = TRUE
    /\ UNCHANGED <<at, flow, step, matched, checks, reports, result, up, awaits, used, pageVars, humanVars>>

----------------------------------------------------------------------------

Observe == Navigate \/ Landed \/ WaitFor \/ Arm \/ After \/ Succeed \/ StepFails
Await == Prompt \/ Disarm
Close == CloseBegins \/ CloseEnds
Run == Open \/ Observe \/ Await \/ Close \/ Build

Next == Run \/ Posts \/ Trips \/ Moves \/ Types \/ ScanReturns \/ Expire

\* Run goes on, its browser calls being bounded, and the total deadline comes;
\* nobody promises that the human answers.
Spec == Init /\ [][Next]_vars /\ WF_vars(Run) /\ WF_vars(Expire)

----------------------------------------------------------------------------
(* What must hold *)

TypeOK ==
    /\ at \in {"open", "step", "landed", "armed", "await", "after", "fail", "report", "build", "done"}
    /\ flow \in DOMAIN Steps /\ step \in 1 .. Last /\ matched \in 0 .. 1
    /\ guard \in [violated: BOOLEAN, active: BOOLEAN, budget: Nat, observed: Nat, closing: BOOLEAN]
    /\ page \in Origins \cup {Elsewhere} /\ up \in BOOLEAN /\ expired \in BOOLEAN
    /\ result \in {"none", "error", "bundle"} /\ ready \in 0 .. End
    /\ read \in 0 .. Len(lines) /\ readers \subseteq 1 .. awaits

\* The operator's signals are not mixed up: no two goroutines ever scan the
\* input at once, though a cancelled Await leaves its own behind; a step is
\* completed by an empty line, and no line completes two steps.
SignalsAreNotShared ==
    /\ TypeOK
    /\ Cardinality(readers) <= 1
    /\ \A u \in used : lines[u.line] = "empty"
    /\ \A u, v \in used : u.line = v.line => u = v

\* A bundle is returned only when every context is gone and none of them saw a
\* violation, up to the end of its teardown; each interactive check reports
\* the POSTs that left during its step, and each was signalled by the human.
BundleIsObserved ==
    /\ \A i \in DOMAIN checks : checks[i].observed = posts[i] /\ posts[i] <= checks[i].approved
    /\ result = "bundle" =>
        /\ ~up /\ dirty = {}
        /\ \A f \in DOMAIN Steps : \A i \in DOMAIN Steps[f] :
            Interactive(Steps[f][i]) => \E u \in used : u.flow = f /\ u.step = i

\* Run ends with the deadline, whether or not the human ever answers, and has
\* closed the browser by then.
RunEnds == <>(result # "none" /\ ~up)
=============================================================================
