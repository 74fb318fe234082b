------------------------------ MODULE LiveCheck ------------------------------
(***************************************************************************)
(* Live checks of a profile (capture/check.go, capture/live.go,            *)
(* capture/playwright_live.go) and their comparison across engines         *)
(* (capture/portability.go): one engine after the other opens a browser of *)
(* its own, looks for what the selected actions declare, and never acts.   *)
(*                                                                         *)
(* The check is one goroutine.  Beside it are the page, whose requests the *)
(* guard decides one by one under its mutex, and the total deadline of the *)
(* acquisition under way.  What a probe finds is any number of matches the *)
(* page shows at that moment; values are never read.                       *)
(***************************************************************************)
EXTENDS Naturals, Sequences, FiniteSets, SequencesExt

CONSTANTS
    Actions,        \* the profile's actions, a sequence in the order of their names
    Selections,     \* the sets of actions a caller may select, by number
    EngineSets,     \* the sets of engines a caller may select
    MaxRequests,    \* requests one page may make
    MaxMatches      \* bound on the matches a page shows

Baseline == "chromium"
\* The selected engines in the order they are checked, the baseline first.
Order(set) ==
    CASE "firefox" \notin set -> <<Baseline, "webkit">>
      [] "webkit" \notin set -> <<Baseline, "firefox">>
      [] OTHER -> <<Baseline, "firefox", "webkit">>
Types == {"string", "array", "boolean"}
Failing == "failed"

\* normalizePortabilityEngines
ValidEngines(set) == set \subseteq {Baseline, "firefox", "webkit"} /\ Baseline \in set /\ Cardinality(set) > 1

ASSUME LiveCheckAssumption ==
    /\ \A set \in EngineSets : ValidEngines(set)
    /\ \A set \in Selections : set \subseteq DOMAIN Actions
    /\ MaxRequests \in Nat \ {0} /\ MaxMatches \in Nat \ {0}

----------------------------------------------------------------------------
(* buildCheckRequirements: one probe for each declared locator, wait and    *)
(* output of the selected actions, in order.                                *)

Probe(kind, declared) == [kind |-> kind, declared |-> declared]
WaitProbes(wait) ==
    CASE wait = "none"    -> <<>>
      [] wait = "locator" -> <<Probe("locator", wait)>>
      [] OTHER            -> <<Probe("navigation_wait", wait)>>
StepProbes(step) == (IF step.locator THEN <<Probe("locator", "target")>> ELSE <<>>) \o WaitProbes(step.wait)
OutputProbe(output) == <<Probe("output", output)>>
ActionProbes(action) ==
    FlattenSeq([i \in DOMAIN action.sequence |-> StepProbes(action.sequence[i])])
        \o FlattenSeq([i \in DOMAIN action.outputs |-> OutputProbe(action.outputs[i])])
Requirements(selection) ==
    FlattenSeq([i \in DOMAIN Actions |-> IF i \in selection THEN ActionProbes(Actions[i]) ELSE <<>>])

\* What flattening gives is a sequence.
ASSUME RequirementsAssumption == \A selection \in Selections :
    LET required == Requirements(selection) IN
    Len(required) \in Nat /\ DOMAIN required = 1 .. Len(required)

\* What a probe may find: matches, the JSON type they have, or a failure.
Finding(matches, type) == [matches |-> matches, type |-> type]
Failed(matches) == Finding(matches, Failing)
TextShape(matches) == CASE matches = 0 -> "none" [] matches = 1 -> "string" [] OTHER -> "array"

\* probeOutputShape
OutputFindings(output) ==
    CASE output.source = "a11y" ->
            {Finding(n, IF output.presence THEN "boolean" ELSE IF n > 0 THEN "string" ELSE "none") : n \in 0 .. MaxMatches}
      [] output.source = "jsonld" ->
            {Finding(0, "none")} \cup {Finding(n, type) : n \in 1 .. MaxMatches, type \in Types \cup {Failing}}
      [] OTHER -> {Finding(n, TextShape(n)) : n \in 0 .. MaxMatches}

Findings(probe) ==
    {Failed(0)} \cup
    CASE probe.kind = "locator" -> {Finding(n, "none") : n \in 0 .. MaxMatches}
      [] probe.kind = "navigation_wait" -> {Finding(1, "none")}
      [] OTHER -> OutputFindings(probe.declared)

\* assessProbe: exactly once, reached, or the declared count and type.
CountOK(output, n) == output.presence \/ IF output.type = "array" THEN n > 0 ELSE n = 1
ItemOK(probe, found) ==
    /\ found.type # Failing
    /\ IF probe.kind = "output" THEN CountOK(probe.declared, found.matches) /\ found.type = probe.declared.type
       ELSE found.matches = 1
Assess(probe, found) ==
    [probe |-> probe, ok |-> ItemOK(probe, found), matches |-> found.matches, type |-> found.type]
Checks(probes, findings) == [i \in DOMAIN probes |-> Assess(probes[i], findings[i])]
AllOK(checks) == \A i \in DOMAIN checks : checks[i].ok

----------------------------------------------------------------------------

VARIABLES
    engines,    \* the selected engines, in order
    probes,     \* the probes of the selected actions
    turn,       \* the engine being checked; past the last when all were
    stage,      \* where its acquisition is
    found,      \* what its probes found so far
    error,      \* the acquisition's error: "none", "unavailable" or "failed"
    final,      \* whether the final URL read is of an allowed origin
    expired,    \* whether its total deadline has passed
    guard,      \* its network guard
    up,         \* whether its browser context is open
    outcomes,   \* what the report says of the engines so far
    ok,         \* the report's verdict
    reported,   \* whether the report was returned
    dirty,      \* engines whose guard saw a violation while the context was open (a ghost)
    late,       \* engines whose deadline passed before Acquire returned (a ghost)
    lost        \* engines whose context, browser or driver failed to close (a ghost)

acquisition == <<stage, found, error, final>>
ghosts == <<dirty, late, lost>>
vars == <<engines, probes, turn, acquisition, expired, guard, up, outcomes, ok, reported, ghosts>>

FreshGuard == [violated |-> FALSE, requests |-> 0]
Engine == engines[turn]

Init ==
    /\ \E set \in EngineSets : engines = Order(set)
    /\ \E selection \in Selections :
        /\ probes = Requirements(selection)
        /\ probes # <<>>
    /\ turn = 1 /\ stage = "launch" /\ found = <<>> /\ error = "none" /\ final = TRUE
    /\ expired = FALSE /\ guard = FreshGuard /\ up = FALSE
    /\ outcomes = <<>> /\ ok = TRUE /\ reported = FALSE
    /\ dirty = {} /\ late = {} /\ lost = {}

Checking == turn <= Len(engines)

----------------------------------------------------------------------------
(* playwrightAcquirer.Acquire *)

\* Every error goes to the deferred closes.
Abandon(kind) == stage' = "teardown" /\ error' = kind
KeepRest == UNCHANGED <<engines, probes, turn, expired, outcomes, ok, reported>>

\* The driver and the browser start, or the engine is not there; then the
\* context and its policy.
Launch ==
    /\ Checking /\ stage = "launch"
    /\ \/ ~expired /\ stage' = "goto" /\ up' = TRUE /\ UNCHANGED error
       \/ Abandon("unavailable") /\ UNCHANGED up
       \/ Abandon("failed") /\ UNCHANGED up
    /\ UNCHANGED <<found, final, guard, ghosts>> /\ KeepRest

\* A step of the acquisition that can fail, by an error or by the deadline.
Step(from, to) ==
    /\ Checking /\ stage = from
    /\ \/ ~expired /\ stage' = to /\ UNCHANGED error
       \/ Abandon("failed")
    /\ UNCHANGED <<found, final, guard, up, ghosts>> /\ KeepRest

\* Goto, the guard's verdict so far, the response.
Goto == Step("goto", "read") /\ (guard.violated => error' = "failed")

\* The ARIA snapshot and the JSON-LD documents, within their sizes.
Read == Step("read", "probe")

\* runReadOnlyProbes: the next probe.
RunProbe ==
    /\ Checking /\ stage = "probe" /\ Len(found) < Len(probes) /\ ~expired
    /\ \E f \in Findings(probes[Len(found) + 1]) : found' = Append(found, f)
    /\ UNCHANGED <<stage, error, final, guard, up, ghosts>> /\ KeepRest

\* The context of the call is over before a probe, or while one waits.
ProbesEnd ==
    /\ Checking /\ stage = "probe" /\ Len(found) < Len(probes) /\ expired
    /\ Abandon("failed")
    /\ UNCHANGED <<found, final, guard, up, ghosts>> /\ KeepRest

\* The final URL.
Finish ==
    /\ Checking /\ stage = "probe" /\ Len(found) = Len(probes)
    /\ final' \in BOOLEAN
    /\ stage' = "close"
    /\ UNCHANGED <<found, error, guard, up, ghosts>> /\ KeepRest

\* The context closes, or fails to.
CloseContext ==
    /\ Checking /\ stage = "close"
    /\ \/ up' = FALSE /\ stage' = "verdict" /\ UNCHANGED <<error, lost>>
       \/ Abandon("failed") /\ lost' = lost \cup {Engine} /\ UNCHANGED up
    /\ UNCHANGED <<found, final, guard, dirty, late>> /\ KeepRest

\* Slip: what the guard saw after the navigation is not asked for.
VerdictOfNavigation == "none"

\* The guard's verdict when the context is gone.
Verdict == IF guard.violated THEN "failed" ELSE "none"

TakeVerdict ==
    /\ Checking /\ stage = "verdict"
    /\ error' = Verdict
    /\ stage' = "teardown"
    /\ UNCHANGED <<found, final, guard, up, ghosts>> /\ KeepRest

\* The deferred closes of context, browser and driver; one that fails is an
\* error of the acquisition, and an engine that was not there stays that.
Teardown ==
    /\ Checking /\ stage = "teardown"
    /\ stage' = "judge" /\ up' = FALSE
    /\ \/ UNCHANGED <<error, lost>>
       \/ /\ error' = (IF error = "none" THEN "failed" ELSE error)
          /\ lost' = lost \cup {Engine}
    /\ UNCHANGED <<found, final, guard, dirty, late>> /\ KeepRest

----------------------------------------------------------------------------
(* Acquire, Check and ComparePortability *)

Outcome(status, diagnostic, checks) == [status |-> status, diagnostic |-> diagnostic, checks |-> checks]

\* Acquire: an error, the deadline, or an observation outside what was asked.
Acquired == error = "none" /\ ~expired /\ final /\ guard.requests > 0

Judged ==
    LET checks == Checks(probes, found) IN
    CASE error = "unavailable" -> Outcome("unavailable", "engine_unavailable", <<>>)
      [] error # "unavailable" /\ ~Acquired -> Outcome("failed", "browser_observation_failed", <<>>)
      [] Acquired /\ ~AllOK(checks) -> Outcome("failed", "profile_check_failed", checks)
      [] OTHER -> Outcome("passed", "", checks)

Judge ==
    /\ Checking /\ stage = "judge"
    /\ outcomes' = Append(outcomes, Judged)
    /\ ok' = (ok /\ Judged.status = "passed")
    /\ turn' = turn + 1
    /\ stage' = "launch" /\ found' = <<>> /\ error' = "none" /\ final' = TRUE
    /\ expired' = FALSE /\ guard' = FreshGuard
    /\ UNCHANGED <<engines, probes, up, reported, ghosts>>

\* The baseline is the first engine, if it was checked at all.
BaselineReady == outcomes[1].checks # <<>>

\* Slip: without a baseline the others are left as they are.
ComparedToWhatThereIs(i) ==
    IF BaselineReady /\ outcomes[i].status = "passed" /\ outcomes[i].checks # outcomes[1].checks
    THEN [outcomes[i] EXCEPT !.status = "failed", !.diagnostic = "check_shape_mismatch"]
    ELSE outcomes[i]

\* An engine that passed stays passed only beside a baseline with its checks.
Compared(i) ==
    IF i = 1 \/ outcomes[i].status # "passed" THEN outcomes[i]
    ELSE IF ~BaselineReady
    THEN [outcomes[i] EXCEPT !.status = "failed", !.diagnostic = "chromium_baseline_unavailable"]
    ELSE IF outcomes[i].checks # outcomes[1].checks
    THEN [outcomes[i] EXCEPT !.status = "failed", !.diagnostic = "check_shape_mismatch"]
    ELSE outcomes[i]

Mismatched == \E i \in DOMAIN outcomes : Compared(i) # outcomes[i]

Report ==
    /\ ~Checking /\ ~reported
    /\ outcomes' = [i \in DOMAIN outcomes |-> Compared(i)]
    /\ ok' = (ok /\ BaselineReady /\ ~Mismatched)
    /\ reported' = TRUE
    /\ UNCHANGED <<engines, probes, turn, acquisition, expired, guard, up, ghosts>>

----------------------------------------------------------------------------
(* The page, and time *)

\* allowRequest: one request more; a violation ends every later one.
Facts == [approved: BOOLEAN, method: {"GET", "POST"}, child: BOOLEAN,
          type: {"document", "image", "eventsource"}]
Violates(facts) ==
    \/ guard.requests + 1 > MaxRequests
    \/ ~facts.approved \/ facts.method # "GET" \/ facts.child \/ facts.type = "eventsource"

\* The guard is poisoned by what the page did in an open context.
Poison == guard' = [guard EXCEPT !.violated = TRUE] /\ dirty' = dirty \cup {Engine}

Requests ==
    /\ up /\ ~guard.violated
    /\ \E facts \in Facts :
        IF Violates(facts) THEN Poison
        ELSE guard' = [guard EXCEPT !.requests = @ + 1] /\ UNCHANGED dirty
    /\ UNCHANGED <<acquisition, up, late, lost>> /\ KeepRest

\* A WebSocket, popup, dialog, download or file chooser, or a response too large.
Trips ==
    /\ up /\ ~guard.violated
    /\ Poison
    /\ UNCHANGED <<acquisition, up, late, lost>> /\ KeepRest

Expire ==
    /\ Checking /\ ~expired
    /\ expired' = TRUE /\ late' = late \cup {Engine}
    /\ UNCHANGED <<engines, probes, turn, acquisition, guard, up, outcomes, ok, reported, dirty, lost>>

----------------------------------------------------------------------------

Acquire ==
    \/ Launch \/ Goto \/ Read \/ RunProbe \/ ProbesEnd \/ Finish
    \/ CloseContext \/ TakeVerdict \/ Teardown
Compare == Judge \/ Report
Next == Acquire \/ Compare \/ Requests \/ Trips \/ Expire
Spec == Init /\ [][Next]_vars

----------------------------------------------------------------------------

TypeOK ==
    /\ turn \in 1 .. Len(engines) + 1 /\ Len(outcomes) = turn - 1
    /\ stage \in {"launch", "goto", "read", "probe", "close", "verdict", "teardown", "judge"}
    /\ error \in {"none", "unavailable", "failed"}
    /\ Len(found) <= Len(probes) /\ guard.requests <= MaxRequests
    /\ final \in BOOLEAN /\ expired \in BOOLEAN /\ up \in BOOLEAN
    /\ ok \in BOOLEAN /\ reported \in BOOLEAN

\* The checks of an engine that is said to have been observed come from a page
\* that did nothing a read-only context forbids up to the end of the context,
\* in time, and from a browser that was closed without an error
\* (playwright_live.go:40 and its deferred closes; live.go:84, check.go:84).
CheckIsObserved ==
    /\ TypeOK
    /\ \A i \in DOMAIN outcomes : outcomes[i].checks # <<>> =>
        /\ engines[i] \notin dirty \cup late \cup lost
        /\ Len(outcomes[i].checks) = Len(probes)

\* The report is about every engine asked for, and its verdict is the
\* engines': an engine passes only with every check right and only beside a
\* Chromium that passed with the same checks, so that no engine is missing
\* from a good report (portability.go:54).
ReportIsFair ==
    reported =>
        /\ Len(outcomes) = Len(engines)
        /\ ok <=> \A i \in DOMAIN outcomes : outcomes[i].status = "passed"
        /\ \A i \in DOMAIN outcomes : outcomes[i].status = "passed" =>
            /\ AllOK(outcomes[i].checks)
            /\ outcomes[1].status = "passed" /\ outcomes[i].checks = outcomes[1].checks
=============================================================================
