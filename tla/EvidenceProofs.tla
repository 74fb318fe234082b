--------------------------- MODULE EvidenceProofs ---------------------------
(***************************************************************************)
(* Theorems about the two ways evidence is used.                           *)
(*                                                                         *)
(* Of LiveCheck, for every profile, selection, set of engines and bounds:  *)
(* what a check reports was observed on a page that stayed within the      *)
(* policy, and the comparison of engines is fair.                          *)
(*                                                                         *)
(* Of GuidedAuthoring, for every catalog of evidence and every answer: the *)
(* wizard asks for all that Author needs, a bundle says only what its own  *)
(* evidence supports, and it verifies only as it was reviewed.             *)
(*                                                                         *)
(* The two share no state; the specification of guided authoring is        *)
(* GuideSpec, its invariant GuideInv.                                      *)
(***************************************************************************)
EXTENDS LiveCheck, GuidedAuthoring, FiniteSetTheorems, TLAPS


-----------------------------------------------------------------------------
(* What is planned is never changed.                                       *)

\* The engines are checked in a sequence without repetition, and there is a
\* probe to make.
Planned ==
    /\ engines \in Seq({Baseline, "firefox", "webkit"}) /\ engines # <<>>
    /\ \A i, j \in DOMAIN engines : engines[i] = engines[j] => i = j
    /\ Len(probes) \in Nat \ {0} /\ DOMAIN probes = 1 .. Len(probes)

LEMMA OrderIsPlanned ==
    ASSUME NEW set, NEW order, order = Order(set)
    PROVE  /\ order \in Seq({Baseline, "firefox", "webkit"}) /\ order # <<>>
           /\ \A i, j \in DOMAIN order : order[i] = order[j] => i = j
<1>1. CASE order = <<"chromium", "firefox", "webkit">> BY <1>1 DEF Baseline
<1>2. CASE order = <<"chromium", "firefox">> BY <1>2 DEF Baseline
<1>3. CASE order = <<"chromium", "webkit">> BY <1>3 DEF Baseline
<1> QED BY <1>1, <1>2, <1>3 DEF Order, Baseline

LEMMA InitPlanned == Init => Planned
<1> SUFFICES ASSUME Init PROVE Planned OBVIOUS
<1>1. PICK set \in EngineSets : engines = Order(set) BY DEF Init
<1>2. PICK selection \in Selections : probes = Requirements(selection) /\ probes # <<>> BY DEF Init
<1>3. Len(probes) \in Nat /\ DOMAIN probes = 1 .. Len(probes) BY <1>2, RequirementsAssumption
<1>4. Len(probes) # 0 BY <1>2, <1>3
<1> QED BY <1>1, <1>3, <1>4, OrderIsPlanned DEF Planned

-----------------------------------------------------------------------------
(* Types.                                                                  *)

TypeNames == {"none", "string", "array", "boolean", "failed"}
FindingSet == [matches: Nat, type: TypeNames]
CheckSet == [probe: {probes[i] : i \in DOMAIN probes}, ok: BOOLEAN, matches: Nat, type: TypeNames]
Diagnostics == {"", "engine_unavailable", "browser_observation_failed", "profile_check_failed",
                "chromium_baseline_unavailable", "check_shape_mismatch"}
OutcomeSet == [status: {"passed", "failed", "unavailable"}, diagnostic: Diagnostics, checks: Seq(CheckSet)]

TypeInv ==
    /\ TypeOK /\ turn \in Nat
    /\ found \in Seq(FindingSet) /\ outcomes \in Seq(OutcomeSet)
    /\ guard \in [violated: BOOLEAN, requests: Nat]

LEMMA FindingsTyped == ASSUME NEW probe, NEW f \in Findings(probe) PROVE f \in FindingSet
<1> USE DEF Finding, FindingSet, TypeNames
<1>1. MaxMatches \in Nat BY LiveCheckAssumption
<1>2. ASSUME NEW g \in OutputFindings(probe.declared) PROVE g \in FindingSet
  <2>1. CASE probe.declared.source = "a11y" BY <1>1, <1>2, <2>1 DEF OutputFindings
  <2>2. CASE probe.declared.source = "jsonld"
    BY <1>1, <1>2, <2>2 DEF OutputFindings, Types, Failing
  <2>3. CASE probe.declared.source \notin {"a11y", "jsonld"}
    BY <1>1, <1>2, <2>3 DEF OutputFindings, TextShape
  <2> QED BY <2>1, <2>2, <2>3
<1>3. CASE f = Failed(0) BY <1>3 DEF Failed, Failing
<1>4. CASE f # Failed(0) /\ probe.kind = "locator" BY <1>1, <1>4 DEF Findings
<1>5. CASE f # Failed(0) /\ probe.kind = "navigation_wait" BY <1>5 DEF Findings
<1>6. CASE f # Failed(0) /\ probe.kind \notin {"locator", "navigation_wait"}
  BY <1>2, <1>6 DEF Findings
<1> QED BY <1>3, <1>4, <1>5, <1>6

LEMMA ChecksTyped ==
    ASSUME Planned, found \in Seq(FindingSet), Len(found) = Len(probes)
    PROVE  /\ Checks(probes, found) \in Seq(CheckSet)
           /\ Len(Checks(probes, found)) = Len(probes)
           /\ Checks(probes, found) # <<>>
<1> DEFINE n == Len(probes)
<1>1. n \in Nat \ {0} /\ DOMAIN probes = 1 .. n BY DEF Planned
<1>2. ASSUME NEW i \in 1 .. n PROVE Assess(probes[i], found[i]) \in CheckSet
  <2>1. found[i] \in FindingSet BY <1>1, <1>2
  <2>2. ItemOK(probes[i], found[i]) \in BOOLEAN BY DEF ItemOK
  <2> QED BY <1>1, <1>2, <2>1, <2>2 DEF Assess, CheckSet, FindingSet
<1>3. Checks(probes, found) = [i \in 1 .. n |-> Assess(probes[i], found[i])] BY <1>1 DEF Checks
<1> HIDE DEF n
<1>4. Checks(probes, found) \in [1 .. n -> CheckSet] BY <1>2, <1>3
<1>5. Len(Checks(probes, found)) = n BY <1>1, <1>3
<1> QED BY <1>1, <1>4, <1>5 DEF n

LEMMA OutcomeTyped ==
    ASSUME NEW status \in {"passed", "failed", "unavailable"}, NEW diagnostic \in Diagnostics,
           NEW checks \in Seq(CheckSet)
    PROVE  Outcome(status, diagnostic, checks) \in OutcomeSet
BY DEF Outcome, OutcomeSet

\* What Check makes of an acquisition, branch by branch.
LEMMA JudgedCases ==
    /\ error = "unavailable" => Judged = Outcome("unavailable", "engine_unavailable", <<>>)
    /\ error # "unavailable" /\ ~Acquired => Judged = Outcome("failed", "browser_observation_failed", <<>>)
    /\ Acquired =>
        IF AllOK(Checks(probes, found)) THEN Judged = Outcome("passed", "", Checks(probes, found))
        ELSE Judged = Outcome("failed", "profile_check_failed", Checks(probes, found))
<1>1. Acquired => error # "unavailable" BY DEF Acquired
<1>2. CASE error = "unavailable" BY <1>1, <1>2 DEF Judged
<1>3. CASE error # "unavailable" /\ ~Acquired BY <1>3 DEF Judged
<1>4. CASE Acquired BY <1>1, <1>4 DEF Judged
<1> QED BY <1>2, <1>3, <1>4

LEMMA JudgedTyped ==
    ASSUME Planned, found \in Seq(FindingSet), error = "none" => Len(found) = Len(probes)
    PROVE  Judged \in OutcomeSet
<1>1. <<>> \in Seq(CheckSet) OBVIOUS
<1>2. {"", "engine_unavailable", "browser_observation_failed", "profile_check_failed"} \subseteq Diagnostics
  BY DEF Diagnostics
<1>3. CASE ~Acquired
  <2>1. Judged \in {Outcome("unavailable", "engine_unavailable", <<>>),
                    Outcome("failed", "browser_observation_failed", <<>>)}
    BY <1>3, JudgedCases
  <2> QED BY <1>1, <1>2, <2>1, OutcomeTyped
<1>4. CASE Acquired
  <2>1. Checks(probes, found) \in Seq(CheckSet) BY <1>4, ChecksTyped DEF Acquired
  <2>2. Judged \in {Outcome("passed", "", Checks(probes, found)),
                    Outcome("failed", "profile_check_failed", Checks(probes, found))}
    BY <1>4, JudgedCases
  <2> QED BY <1>2, <2>1, <2>2, OutcomeTyped
<1> QED BY <1>3, <1>4

-----------------------------------------------------------------------------
(* What is true of the acquisition under way.  The ghosts remember what it *)
(* must not forget: a poisoned guard, the deadline, a close that failed.   *)

Untouched(i) == engines[i] \notin dirty \cup late \cup lost

\* The acquisition knows what the ghosts know of its engine, and nothing
\* happened yet to the engines to come.
TurnIsTold ==
    /\ Checking => /\ Engine \in dirty => guard.violated
                   /\ Engine \in late => expired
                   /\ Engine \in lost => stage \in {"teardown", "judge"} /\ error # "none"
    /\ \A i \in DOMAIN engines : i > turn => Untouched(i)

\* An acquisition without an error is whole up to where it is, and after its
\* verdict the context is gone and the guard was clean to the end.
WholeUnlessError ==
    /\ stage \in {"launch", "goto", "read", "probe", "close", "verdict"} => error = "none"
    /\ stage \in {"close", "verdict"} => Len(found) = Len(probes)
    /\ stage \in {"launch", "verdict", "judge"} \/ ~Checking => ~up
    /\ stage \in {"teardown", "judge"} /\ error = "none" =>
        ~up /\ ~guard.violated /\ Len(found) = Len(probes)

AcquisitionInv == Planned /\ TypeInv /\ TurnIsTold /\ WholeUnlessError

LEMMA InitAcquisition == Init => AcquisitionInv
<1> SUFFICES ASSUME Init PROVE AcquisitionInv OBVIOUS
<1>1. Planned BY InitPlanned
<1>2. TypeInv
  <2>1. Len(engines) \in Nat \ {0} BY <1>1 DEF Planned
  <2>2. guard \in [violated: BOOLEAN, requests: Nat] /\ guard.requests <= MaxRequests
    BY LiveCheckAssumption DEF Init, FreshGuard
  <2>3. found \in Seq(FindingSet) /\ outcomes \in Seq(OutcomeSet) /\ Len(found) = 0 /\ Len(outcomes) = 0
    BY DEF Init
  <2>4. turn \in 1 .. Len(engines) + 1 /\ Len(outcomes) = turn - 1 /\ turn \in Nat BY <2>1, <2>3 DEF Init
  <2>5. Len(found) <= Len(probes) BY <1>1, <2>3 DEF Planned
  <2>6. /\ stage = "launch" /\ error = "none"
        /\ final \in BOOLEAN /\ expired \in BOOLEAN /\ up \in BOOLEAN /\ ok \in BOOLEAN /\ reported \in BOOLEAN
    BY DEF Init
  <2> QED BY <2>2, <2>3, <2>4, <2>5, <2>6 DEF TypeInv, TypeOK
<1> QED BY <1>1, <1>2 DEF Init, AcquisitionInv, TurnIsTold, WholeUnlessError, Untouched

LEMMA PlannedStays == ASSUME Planned, UNCHANGED <<engines, probes>> PROVE Planned'
BY DEF Planned

LEMMA OutcomesStay ==
    ASSUME outcomes \in Seq(OutcomeSet), UNCHANGED <<probes, outcomes>>
    PROVE  outcomes' \in Seq(OutcomeSet')
BY DEF OutcomeSet, CheckSet

LEMMA LaunchKeeps == ASSUME AcquisitionInv, Launch PROVE AcquisitionInv'
<1> USE DEF AcquisitionInv
<1>1. Planned' /\ outcomes' \in Seq(OutcomeSet')
  BY PlannedStays, OutcomesStay DEF Launch, KeepRest, TypeInv
<1>2. TypeInv' BY <1>1 DEF Launch, KeepRest, Abandon, TypeInv, TypeOK
<1> QED BY <1>1, <1>2 DEF Launch, KeepRest, Abandon, TurnIsTold, WholeUnlessError, Untouched,
                          ghosts, Checking, Engine, TypeInv, TypeOK

LEMMA StepKeeps ==
    ASSUME AcquisitionInv, NEW from, NEW to, Step(from, to),
           from \in {"goto", "read"}, to \in {"read", "probe"}
    PROVE  AcquisitionInv'
<1> USE DEF AcquisitionInv
<1>1. Planned' /\ outcomes' \in Seq(OutcomeSet')
  BY PlannedStays, OutcomesStay DEF Step, KeepRest, TypeInv
<1>2. TypeInv' BY <1>1 DEF Step, KeepRest, Abandon, TypeInv, TypeOK
<1> QED BY <1>1, <1>2 DEF Step, KeepRest, Abandon, TurnIsTold, WholeUnlessError, Untouched,
                          ghosts, Checking, Engine, TypeInv, TypeOK

LEMMA RunProbeKeeps == ASSUME AcquisitionInv, RunProbe PROVE AcquisitionInv'
<1> USE DEF AcquisitionInv
<1>1. Planned' /\ outcomes' \in Seq(OutcomeSet')
  BY PlannedStays, OutcomesStay DEF RunProbe, KeepRest, TypeInv
<1>2. found' \in Seq(FindingSet) /\ Len(found') = Len(found) + 1
  BY FindingsTyped DEF RunProbe, TypeInv
<1>3. TypeInv' BY <1>1, <1>2 DEF RunProbe, KeepRest, TypeInv, TypeOK, Planned
<1> QED BY <1>1, <1>3 DEF RunProbe, KeepRest, TurnIsTold, WholeUnlessError, Untouched,
                          ghosts, Checking, Engine, TypeInv, TypeOK

LEMMA EndingKeeps ==
    ASSUME AcquisitionInv, ProbesEnd \/ Finish \/ CloseContext \/ TakeVerdict \/ Teardown
    PROVE  AcquisitionInv'
<1> USE DEF AcquisitionInv
<1>1. Planned' /\ outcomes' \in Seq(OutcomeSet')
  BY PlannedStays, OutcomesStay
     DEF ProbesEnd, Finish, CloseContext, TakeVerdict, Teardown, KeepRest, TypeInv
<1>2. TypeInv'
  BY <1>1 DEF ProbesEnd, Finish, CloseContext, TakeVerdict, Teardown, KeepRest, Abandon, Verdict,
              TypeInv, TypeOK
<1>3. CASE ProbesEnd \/ Finish
  BY <1>1, <1>2, <1>3 DEF ProbesEnd, Finish, KeepRest, Abandon, TurnIsTold, WholeUnlessError,
                          Untouched, ghosts, Checking, Engine, TypeInv, TypeOK
<1>4. CASE CloseContext
  BY <1>1, <1>2, <1>4 DEF CloseContext, KeepRest, Abandon, TurnIsTold, WholeUnlessError,
                          Untouched, ghosts, Checking, Engine, TypeInv, TypeOK, Planned
<1>5. CASE TakeVerdict
  BY <1>1, <1>2, <1>5 DEF TakeVerdict, Verdict, KeepRest, TurnIsTold, WholeUnlessError,
                          Untouched, ghosts, Checking, Engine, TypeInv, TypeOK
<1>6. CASE Teardown
  BY <1>1, <1>2, <1>6 DEF Teardown, KeepRest, TurnIsTold, WholeUnlessError,
                          Untouched, ghosts, Checking, Engine, TypeInv, TypeOK, Planned
<1> QED BY <1>3, <1>4, <1>5, <1>6

LEMMA LaterEngines ==
    ASSUME AcquisitionInv, Checking
    PROVE  \A i \in DOMAIN engines : i # turn => engines[i] # Engine
<1>1. turn \in DOMAIN engines
  <2>1. Len(engines) \in Nat /\ DOMAIN engines = 1 .. Len(engines) BY DEF AcquisitionInv, Planned
  <2>2. turn \in 1 .. Len(engines) + 1 BY DEF AcquisitionInv, TypeInv, TypeOK
  <2> QED BY <2>1, <2>2 DEF Checking
<1> QED BY <1>1 DEF AcquisitionInv, Planned, Engine

LEMMA PageKeeps == ASSUME AcquisitionInv, Requests \/ Trips PROVE AcquisitionInv'
<1> USE DEF AcquisitionInv
<1>1. up /\ ~guard.violated /\ Checking BY DEF Requests, Trips, WholeUnlessError
<1>2. /\ UNCHANGED <<engines, probes, turn, expired, outcomes, ok, reported, stage, found, error, final,
                     up, late, lost>>
      /\ \/ guard' = [guard EXCEPT !.violated = TRUE] /\ dirty' = dirty \cup {Engine}
         \/ guard' = [guard EXCEPT !.requests = @ + 1] /\ dirty' = dirty /\ guard.requests + 1 <= MaxRequests
  <2>1. guard.requests \in Nat /\ MaxRequests \in Nat BY LiveCheckAssumption DEF TypeInv
  <2>2. CASE Trips BY <2>2 DEF Trips, Poison, acquisition, KeepRest
  <2>3. CASE Requests
    BY <2>1, <2>3 DEF Requests, Violates, Poison, acquisition, KeepRest
  <2> QED BY <2>2, <2>3
<1>3. Planned' /\ outcomes' \in Seq(OutcomeSet') BY <1>2, PlannedStays, OutcomesStay DEF TypeInv
<1>4. TypeInv'
  <2>1. guard \in [violated: BOOLEAN, requests: Nat] /\ guard.requests <= MaxRequests
    BY DEF TypeInv, TypeOK
  <2>2. CASE guard' = [guard EXCEPT !.violated = TRUE]
    <3>1. guard' \in [violated: BOOLEAN, requests: Nat] /\ guard'.requests <= MaxRequests BY <2>1, <2>2
    <3> QED BY <1>2, <1>3, <3>1 DEF TypeInv, TypeOK
  <2>3. CASE guard' = [guard EXCEPT !.requests = @ + 1] /\ guard.requests + 1 <= MaxRequests
    <3>1. guard' \in [violated: BOOLEAN, requests: Nat] /\ guard'.requests <= MaxRequests BY <2>1, <2>3
    <3> QED BY <1>2, <1>3, <3>1 DEF TypeInv, TypeOK
  <2> QED BY <1>2, <2>2, <2>3
<1>5. TurnIsTold'
  <2>1. \A i \in DOMAIN engines : i # turn => engines[i] # Engine BY <1>1, LaterEngines
  <2> QED BY <1>1, <1>2, <2>1 DEF TurnIsTold, Untouched, Checking, Engine, TypeInv
<1> QED BY <1>1, <1>2, <1>3, <1>4, <1>5 DEF WholeUnlessError, Checking

LEMMA ExpireKeeps == ASSUME AcquisitionInv, Expire PROVE AcquisitionInv'
<1> USE DEF AcquisitionInv
<1>1. Planned' /\ outcomes' \in Seq(OutcomeSet')
  BY PlannedStays, OutcomesStay DEF Expire, TypeInv
<1>2. TypeInv' BY <1>1 DEF Expire, acquisition, TypeInv, TypeOK
<1>3. \A i \in DOMAIN engines : i # turn => engines[i] # Engine BY LaterEngines DEF Expire
<1> QED BY <1>1, <1>2, <1>3 DEF Expire, acquisition, TurnIsTold, WholeUnlessError, Untouched, Checking, Engine

\* The comparison changes verdicts and diagnostics only.
LEMMA ComparedKeeps ==
    ASSUME outcomes \in Seq(OutcomeSet), NEW i \in DOMAIN outcomes
    PROVE  /\ Compared(i) \in OutcomeSet
           /\ Compared(i).checks = outcomes[i].checks
           /\ \/ Compared(i) = outcomes[i]
              \/ Compared(i).status = "failed" /\ outcomes[i].status = "passed"
           /\ Compared(i).status = "passed" => i = 1 \/ outcomes[i].checks = outcomes[1].checks
<1>1. outcomes[i] \in OutcomeSet OBVIOUS
<1>2. Compared(i) \in {outcomes[i],
        [outcomes[i] EXCEPT !.status = "failed", !.diagnostic = "chromium_baseline_unavailable"],
        [outcomes[i] EXCEPT !.status = "failed", !.diagnostic = "check_shape_mismatch"]}
  BY DEF Compared
<1>3. Compared(i) # outcomes[i] => outcomes[i].status = "passed" BY DEF Compared
<1>4. Compared(i).status = "passed" => i = 1 \/ outcomes[i].checks = outcomes[1].checks
  BY <1>1 DEF Compared, OutcomeSet
<1> QED BY <1>1, <1>2, <1>3, <1>4 DEF OutcomeSet, Diagnostics

LEMMA JudgeKeeps == ASSUME AcquisitionInv, Judge PROVE AcquisitionInv'
<1> USE DEF AcquisitionInv
<1>1. Planned' BY PlannedStays DEF Judge
<1>2. turn \in Nat /\ turn <= Len(engines) /\ turn' = turn + 1 /\ Len(engines) \in Nat
  BY DEF Judge, Checking, TypeInv, Planned
<1>3. Judged \in OutcomeSet
  BY JudgedTyped DEF Judge, TypeInv, WholeUnlessError
<1>4. outcomes' \in Seq(OutcomeSet) /\ Len(outcomes') = Len(outcomes) + 1
  BY <1>3 DEF Judge, TypeInv
<1>5. OutcomeSet' = OutcomeSet BY DEF Judge, OutcomeSet, CheckSet
<1>6. guard' \in [violated: BOOLEAN, requests: Nat] /\ guard'.requests <= MaxRequests
  BY LiveCheckAssumption DEF Judge, FreshGuard
<1>7. ok' \in BOOLEAN BY DEF Judge
<1>8. TypeInv'
  <2>1. turn' \in 1 .. Len(engines) + 1 /\ engines' = engines /\ turn' \in Nat
    BY <1>2 DEF Judge, TypeInv, TypeOK
  <2>2. Len(outcomes') = turn' - 1 BY <1>2, <1>4 DEF TypeInv, TypeOK
  <2>3. /\ found' = <<>> /\ stage' = "launch" /\ error' = "none" /\ final' = TRUE /\ expired' = FALSE
        /\ up' \in BOOLEAN /\ reported' \in BOOLEAN
    BY DEF Judge, TypeInv, TypeOK
  <2>4. found' \in Seq(FindingSet) /\ Len(found') <= Len(probes') BY <1>1, <2>3 DEF Planned
  <2> QED BY <1>4, <1>5, <1>6, <1>7, <2>1, <2>2, <2>3, <2>4 DEF TypeInv, TypeOK
<1>9. Untouched(turn + 1) \/ turn + 1 > Len(engines)
  BY <1>2 DEF TurnIsTold, Planned
<1>10. TurnIsTold'
  BY <1>1, <1>2, <1>9 DEF Judge, TurnIsTold, Untouched, ghosts, Checking, Engine, Planned
<1> QED BY <1>1, <1>8, <1>10 DEF Judge, WholeUnlessError, Checking

LEMMA ReportKeeps == ASSUME AcquisitionInv, Report PROVE AcquisitionInv'
<1> USE DEF AcquisitionInv
<1>1. Planned' BY PlannedStays DEF Report
<1>2. OutcomeSet' = OutcomeSet BY DEF Report, OutcomeSet, CheckSet
<1>3. outcomes' \in Seq(OutcomeSet) /\ Len(outcomes') = Len(outcomes)
  <2>1. outcomes \in Seq(OutcomeSet) BY DEF TypeInv
  <2>2. \A i \in DOMAIN outcomes : Compared(i) \in OutcomeSet BY <2>1, ComparedKeeps
  <2> QED BY <2>1, <2>2 DEF Report
<1>4. TypeInv' BY <1>1, <1>2, <1>3 DEF Report, acquisition, TypeInv, TypeOK
<1> QED BY <1>1, <1>4 DEF Report, acquisition, ghosts, TurnIsTold, WholeUnlessError, Untouched, Checking, Engine

LEMMA NextKeeps == ASSUME AcquisitionInv, [Next]_vars PROVE AcquisitionInv'
<1>1. CASE Launch BY <1>1, LaunchKeeps
<1>2. CASE Goto
  <2>1. Step("goto", "read") BY <1>2 DEF Goto
  <2> QED BY <2>1, StepKeeps
<1>3. CASE Read
  <2>1. Step("read", "probe") BY <1>3 DEF Read
  <2> QED BY <2>1, StepKeeps
<1>4. CASE RunProbe BY <1>4, RunProbeKeeps
<1>5. CASE ProbesEnd \/ Finish \/ CloseContext \/ TakeVerdict \/ Teardown BY <1>5, EndingKeeps
<1>6. CASE Judge BY <1>6, JudgeKeeps
<1>7. CASE Report BY <1>7, ReportKeeps
<1>8. CASE Requests \/ Trips BY <1>8, PageKeeps
<1>9. CASE Expire BY <1>9, ExpireKeeps
<1>10. CASE UNCHANGED vars
  <2>1. Planned' /\ outcomes' \in Seq(OutcomeSet')
    BY <1>10, PlannedStays, OutcomesStay DEF vars, AcquisitionInv, TypeInv
  <2> QED BY <1>10, <2>1 DEF vars, acquisition, ghosts, AcquisitionInv, TypeInv, TypeOK, TurnIsTold,
                             WholeUnlessError, Untouched, Checking, Engine
<1> QED BY <1>1, <1>2, <1>3, <1>4, <1>5, <1>6, <1>7, <1>8, <1>9, <1>10 DEF Next, Acquire, Compare

\* Every acquisition is whole or has an error, and knows what its page did:
\* the inductive invariant of the theorems below.
THEOREM Acquisitions == Spec => []AcquisitionInv
<1>1. Init => AcquisitionInv BY InitAcquisition
<1>2. AcquisitionInv /\ [Next]_vars => AcquisitionInv' BY NextKeeps
<1> QED BY <1>1, <1>2, PTL DEF Spec

-----------------------------------------------------------------------------
(* What is reported.                                                       *)

ChecksAreObserved ==
    \A i \in DOMAIN outcomes : outcomes[i].checks # <<>> =>
        Untouched(i) /\ Len(outcomes[i].checks) = Len(probes)

\* Only Judge and Report say anything, and Judge says it of an acquisition
\* that has no error.
LEMMA NewOutcome ==
    ASSUME AcquisitionInv, Judge
    PROVE  /\ outcomes' = Append(outcomes, Judged) /\ Len(outcomes) = turn - 1 /\ turn \in DOMAIN engines
           /\ Judged.checks # <<>> => Untouched(turn) /\ Len(Judged.checks) = Len(probes)
           /\ Judged.status = "passed" <=> Judged.checks # <<>> /\ AllOK(Judged.checks)
<1> USE DEF AcquisitionInv
<1>1. outcomes' = Append(outcomes, Judged) /\ Checking /\ stage = "judge" BY DEF Judge
<1>2. Len(outcomes) = turn - 1 BY DEF TypeInv, TypeOK
<1>3. turn \in DOMAIN engines BY <1>1 DEF TypeInv, TypeOK, Planned, Checking
<1>4. CASE ~Acquired
  <2>1. Judged \in {Outcome("unavailable", "engine_unavailable", <<>>),
                    Outcome("failed", "browser_observation_failed", <<>>)}
    BY <1>4, JudgedCases
  <2> QED BY <1>1, <1>2, <1>3, <2>1 DEF Outcome
<1>5. CASE Acquired
  <2>1. error = "none" /\ ~expired BY <1>5 DEF Acquired
  <2>2. Untouched(turn) BY <1>1, <2>1 DEF TurnIsTold, WholeUnlessError, Untouched, Engine
  <2>3. Len(Checks(probes, found)) = Len(probes) /\ Checks(probes, found) # <<>>
    BY <1>1, <2>1, ChecksTyped DEF WholeUnlessError, TypeInv
  <2>4. CASE AllOK(Checks(probes, found))
    <3>1. Judged = Outcome("passed", "", Checks(probes, found)) BY <1>5, <2>4, JudgedCases
    <3> QED BY <1>1, <1>2, <1>3, <2>2, <2>3, <2>4, <3>1 DEF Outcome
  <2>5. CASE ~AllOK(Checks(probes, found))
    <3>1. Judged = Outcome("failed", "profile_check_failed", Checks(probes, found)) BY <1>5, <2>5, JudgedCases
    <3> QED BY <1>1, <1>2, <1>3, <2>2, <2>3, <2>5, <3>1 DEF Outcome
  <2> QED BY <2>4, <2>5
<1> QED BY <1>4, <1>5

\* What happens to an engine is over when its turn is.
LEMMA PastIsPast ==
    ASSUME AcquisitionInv, [Next]_vars, NEW i \in DOMAIN outcomes, Untouched(i)
    PROVE  /\ engines' = engines /\ probes' = probes
           /\ Untouched(i)'
<1>1. i \in DOMAIN engines /\ i # turn
  BY DEF AcquisitionInv, TypeInv, TypeOK, Planned
<1>2. engines' = engines /\ probes' = probes
  BY DEF Next, Acquire, Compare, Launch, Goto, Read, Step, RunProbe, ProbesEnd, Finish, CloseContext,
         TakeVerdict, Teardown, Judge, Report, Requests, Trips, Expire, KeepRest, vars
<1>3. \/ UNCHANGED ghosts
      \/ Checking /\ dirty' \cup late' \cup lost' \subseteq dirty \cup late \cup lost \cup {Engine}
  <2>1. CASE Requests \/ Trips
    <3>1. Checking BY <2>1 DEF Requests, Trips, AcquisitionInv, WholeUnlessError
    <3> QED BY <2>1, <3>1 DEF Requests, Trips, Poison
  <2>2. CASE Launch \/ Goto \/ Read \/ RunProbe \/ ProbesEnd \/ Finish \/ TakeVerdict \/ Judge \/ Report
    BY <2>2 DEF Launch, Goto, Read, Step, RunProbe, ProbesEnd, Finish, TakeVerdict, Judge, Report
  <2>3. CASE CloseContext \/ Teardown BY <2>3 DEF CloseContext, Teardown
  <2>4. CASE Expire BY <2>4 DEF Expire
  <2>5. CASE UNCHANGED vars BY <2>5 DEF vars
  <2> QED BY <2>1, <2>2, <2>3, <2>4, <2>5 DEF Next, Acquire, Compare
<1>4. Checking => engines[i] # Engine BY <1>1, LaterEngines
<1> QED BY <1>1, <1>2, <1>3, <1>4 DEF Untouched, ghosts

\* A step adds what Judge says, compares, or says nothing.
LEMMA Saying ==
    ASSUME [Next]_vars
    PROVE  \/ Judge \/ Report
           \/ UNCHANGED <<outcomes, ok, reported, turn, engines, probes>>
BY DEF Next, Acquire, Compare, Launch, Goto, Read, Step, RunProbe, ProbesEnd, Finish, CloseContext,
       TakeVerdict, Teardown, Requests, Trips, Expire, KeepRest, vars

LEMMA ObservedKeeps ==
    ASSUME AcquisitionInv, ChecksAreObserved, [Next]_vars
    PROVE  ChecksAreObserved'
<1>1. outcomes \in Seq(OutcomeSet) BY DEF AcquisitionInv, TypeInv
<1>2. \A i \in DOMAIN outcomes : Untouched(i) => Untouched(i)' /\ probes' = probes BY PastIsPast
<1>3. CASE Judge
  <2>1. probes' = probes BY <1>3 DEF Judge
  <2>2. \A i \in DOMAIN engines : Untouched(i) => Untouched(i)' BY <1>3 DEF Judge, Untouched, ghosts
  <2>3. Judged \in OutcomeSet BY <1>3, JudgedTyped DEF Judge, AcquisitionInv, TypeInv, WholeUnlessError
  <2>4. /\ Len(outcomes) + 1 = turn /\ DOMAIN outcomes' = DOMAIN outcomes \cup {turn}
        /\ outcomes'[turn] = Judged /\ \A i \in DOMAIN outcomes : outcomes'[i] = outcomes[i]
    <3>1. outcomes' = Append(outcomes, Judged) /\ Len(outcomes) = turn - 1 BY <1>3, NewOutcome
    <3>2. turn \in Nat BY DEF AcquisitionInv, TypeInv
    <3> QED BY <1>1, <2>3, <3>1, <3>2
  <2>5. ASSUME NEW i \in DOMAIN outcomes', (outcomes[i].checks)' # <<>>
        PROVE  Untouched(i)' /\ Len((outcomes[i].checks)') = Len(probes)
    <3>1. CASE i \in DOMAIN outcomes BY <1>2, <2>4, <2>5, <3>1 DEF ChecksAreObserved
    <3>2. CASE i = turn BY <1>3, <2>2, <2>4, <2>5, <3>2, NewOutcome
    <3> QED BY <2>4, <3>1, <3>2
  <2> QED BY <2>1, <2>5 DEF ChecksAreObserved
<1>4. CASE Report
  <2>1. DOMAIN outcomes' = DOMAIN outcomes /\ probes' = probes BY <1>1, <1>4 DEF Report
  <2>2. \A i \in DOMAIN outcomes : outcomes'[i].checks = outcomes[i].checks
    BY <1>1, <1>4, ComparedKeeps DEF Report
  <2> QED BY <1>2, <2>1, <2>2 DEF ChecksAreObserved
<1>5. CASE UNCHANGED <<outcomes, ok, reported, turn, engines, probes>>
  BY <1>2, <1>5 DEF ChecksAreObserved
<1> QED BY <1>3, <1>4, <1>5, Saying

\* Checks that are reported were made on a page that stayed within the policy
\* to its end, in time, in a browser that closed.
THEOREM ObservedChecks == Spec => []CheckIsObserved
<1>1. Init => AcquisitionInv /\ ChecksAreObserved
  BY InitAcquisition DEF Init, ChecksAreObserved
<1>2. AcquisitionInv /\ ChecksAreObserved /\ [Next]_vars => AcquisitionInv' /\ ChecksAreObserved'
  BY NextKeeps, ObservedKeeps
<1>3. AcquisitionInv /\ ChecksAreObserved => CheckIsObserved
  BY DEF AcquisitionInv, TypeInv, ChecksAreObserved, CheckIsObserved, Untouched
<1> QED BY <1>1, <1>2, <1>3, PTL DEF Spec

-----------------------------------------------------------------------------
(* The verdict of the report.                                              *)

Passed(i) == outcomes[i].status = "passed"

\* A pass is earned, the running verdict is that of the engines so far, and a
\* report is made of all of them.
VerdictsAreEarned ==
    /\ \A i \in DOMAIN outcomes : Passed(i) => outcomes[i].checks # <<>> /\ AllOK(outcomes[i].checks)
    /\ ~reported => /\ ok <=> \A i \in DOMAIN outcomes : Passed(i)
                    /\ \A i \in DOMAIN outcomes :
                         outcomes[i].checks # <<>> /\ AllOK(outcomes[i].checks) => Passed(i)
    /\ reported => ~Checking /\ ReportIsFair

LEMMA EarnedKeeps ==
    ASSUME AcquisitionInv, VerdictsAreEarned, [Next]_vars
    PROVE  VerdictsAreEarned'
<1>1. /\ outcomes \in Seq(OutcomeSet) /\ Len(outcomes) = turn - 1 /\ turn \in 1 .. Len(engines) + 1
      /\ Len(engines) \in Nat \ {0} /\ ok \in BOOLEAN
  BY DEF AcquisitionInv, TypeInv, TypeOK, Planned
<1>2. CASE Judge
  <2>1. ~reported /\ reported' = reported BY <1>2 DEF Judge, VerdictsAreEarned
  <2>2. Judged \in OutcomeSet BY <1>2, JudgedTyped DEF Judge, AcquisitionInv, TypeInv, WholeUnlessError
  <2>3. /\ DOMAIN outcomes' = DOMAIN outcomes \cup {turn} /\ outcomes'[turn] = Judged
        /\ \A i \in DOMAIN outcomes : outcomes'[i] = outcomes[i]
    BY <1>1, <1>2, <2>2, NewOutcome
  <2>4. ok' = (ok /\ Judged.status = "passed") BY <1>2 DEF Judge
  <2>5. Judged.status = "passed" <=> Judged.checks # <<>> /\ AllOK(Judged.checks) BY <1>2, NewOutcome
  <2> QED BY <2>1, <2>3, <2>4, <2>5 DEF VerdictsAreEarned, Passed
<1>3. CASE Report
  <2>1. /\ ~reported /\ ~Checking /\ reported' /\ UNCHANGED <<turn, engines>>
        /\ ok' = (ok /\ BaselineReady /\ ~Mismatched)
        /\ DOMAIN outcomes' = DOMAIN outcomes /\ \A i \in DOMAIN outcomes : outcomes'[i] = Compared(i)
    BY <1>1, <1>3 DEF Report
  <2>2. Len(outcomes) = Len(engines) /\ Len(outcomes') = Len(engines) /\ 1 \in DOMAIN outcomes
    BY <1>1, <1>3, <2>1 DEF Checking, Report
  <2>3. \A i \in DOMAIN outcomes : Passed(i)' =>
          Passed(i) /\ Compared(i) = outcomes[i] /\ outcomes[i].checks = outcomes[1].checks
    BY <1>1, <2>1, ComparedKeeps DEF Passed
  <2>4. \A i \in DOMAIN outcomes : Passed(i)' => Passed(1)'
    <3> SUFFICES ASSUME NEW i \in DOMAIN outcomes, Passed(i)' PROVE Passed(1)' OBVIOUS
    <3>1. outcomes[1].checks # <<>> /\ AllOK(outcomes[1].checks) BY <2>3 DEF VerdictsAreEarned
    <3>2. Passed(1) BY <2>1, <2>2, <3>1 DEF VerdictsAreEarned
    <3>3. Compared(1) = outcomes[1] BY DEF Compared
    <3> QED BY <2>1, <2>2, <3>2, <3>3 DEF Passed
  <2>5. ok' <=> \A i \in DOMAIN outcomes : Passed(i)'
    <3>1. ASSUME ok' PROVE \A i \in DOMAIN outcomes : Passed(i)'
      <4>1. \A i \in DOMAIN outcomes : Passed(i) /\ Compared(i) = outcomes[i]
        BY <2>1, <3>1 DEF VerdictsAreEarned, Mismatched
      <4> QED BY <2>1, <4>1 DEF Passed
    <3>2. ASSUME \A i \in DOMAIN outcomes : Passed(i)' PROVE ok'
      <4>1. \A i \in DOMAIN outcomes : Passed(i) /\ Compared(i) = outcomes[i] BY <2>3, <3>2
      <4>2. ok /\ ~Mismatched BY <2>1, <4>1 DEF VerdictsAreEarned, Mismatched
      <4>3. BaselineReady BY <2>2, <4>1 DEF VerdictsAreEarned, BaselineReady
      <4> QED BY <2>1, <4>2, <4>3
    <3> QED BY <3>1, <3>2
  <2>6. \A i \in DOMAIN outcomes : Passed(i)' =>
          /\ outcomes'[i] = outcomes[i] /\ outcomes'[1] = outcomes[1]
          /\ outcomes[i].checks = outcomes[1].checks
          /\ outcomes[i].checks # <<>> /\ AllOK(outcomes[i].checks)
    <3>1. Compared(1) = outcomes[1] BY DEF Compared
    <3> QED BY <2>1, <2>2, <2>3, <3>1 DEF VerdictsAreEarned
  <2>7. ReportIsFair' BY <2>1, <2>2, <2>4, <2>5, <2>6 DEF ReportIsFair, Passed
  <2> QED BY <2>1, <2>6, <2>7 DEF VerdictsAreEarned, Checking, Passed
<1>4. CASE UNCHANGED <<outcomes, ok, reported, turn, engines, probes>>
  BY <1>4 DEF VerdictsAreEarned, ReportIsFair, Checking, Passed
<1> QED BY <1>2, <1>3, <1>4, Saying

\* The report is about every engine asked for, its verdict is theirs, and none
\* passes but beside a Chromium that passed with the same checks.
THEOREM FairReport == Spec => []ReportIsFair
<1>1. Init => AcquisitionInv /\ VerdictsAreEarned
  BY InitAcquisition DEF Init, VerdictsAreEarned
<1>2. AcquisitionInv /\ VerdictsAreEarned /\ [Next]_vars => AcquisitionInv' /\ VerdictsAreEarned'
  BY NextKeeps, EarnedKeeps
<1>3. VerdictsAreEarned => ReportIsFair BY DEF VerdictsAreEarned, ReportIsFair
<1> QED BY <1>1, <1>2, <1>3, PTL DEF Spec

-----------------------------------------------------------------------------
(* Guided authoring: what an answered action is.                           *)

Asking == {"profile", "evidence", "outputs", "declaration", "macros", "macro", "effects", "rationales"}
Detailed == {"outputs", "declaration", "macros", "macro", "effects", "rationales"}
Built == {"authored", "edited", "verified", "unverified"}

\* An identifier of the catalog, or the answer that names none.
Answer == LocatorByID \cup {Blank(NoLocator), Blank(NoWait), Blank(Navigation)}
MacroStep ==
    [kind : {"navigate", "click", "fill", "wait_for"}, target : Targets \cup {NoTarget},
     locator : Answer, wait : Answer]
Declaration == [hint : OutputByID, source : {"a11y", "jsonld"}, locator : Answer]
Action ==
    [evidence : SUBSET DOMAIN catalog, parameter : BOOLEAN, outputs : SUBSET OutputByID,
     declared : SUBSET Declaration, sequence : Seq(MacroStep), writes : BOOLEAN, confirmed : BOOLEAN,
     resolved : SUBSET LocatorByID]

\* What the wizard lets an operator answer about one action.
Asked(a) ==
    /\ a.evidence # {}
    /\ a.outputs \subseteq CandidateOutputs(a.evidence)
    /\ \A d \in a.declared :
        /\ d.hint \in UnboundOutputs(a.evidence)
        /\ d.source = "a11y" => d.locator \in CandidateLocators(a.evidence)
        /\ d.source # "a11y" => d.locator = Blank(NoLocator)
    /\ \A d, e \in a.declared : d.hint = e.hint => d = e
    /\ \A i \in DOMAIN a.sequence : a.sequence[i] \in Offered(a.evidence, a.parameter)

\* An action that was asked about to its end.
Answered(a) ==
    /\ a \in Action /\ Asked(a) /\ (a.writes => a.confirmed)
    /\ a.resolved = {id \in Used(a) : LocatorAmbiguous(a.evidence, id.loc)}

AnswersInv ==
    /\ catalog \in Catalogs /\ now \in 0..MaxTime /\ left \in 0..(MaxMacros + MaxOutputs)
    /\ at \in Asking \cup {"author", "refused"} \cup Built
    /\ intent.origins \subseteq {catalog[e].origin : e \in DOMAIN catalog}
    /\ DOMAIN intent = {"origins", "kind", "expiry", "count"} /\ intent.expiry \in Nat
    /\ actions \in Seq(Action) /\ action \in Action
    /\ \A i \in DOMAIN actions : Answered(actions[i])
    /\ at \in Detailed => Asked(action)
    /\ at = "rationales" => (action.writes => action.confirmed)
    /\ at \in {"declaration", "macro"} => left > 0
    /\ at \notin {"profile", "refused"} =>
            intent.origins # {} /\ intent.kind \in Kinds /\ intent.count \in 1..MaxActions
    /\ at \in {"profile", "refused"} => actions = <<>>
    /\ at = "evidence" \/ at \in Detailed => Len(actions) < intent.count
    /\ at = "author" \/ at \in Built => Len(actions) = intent.count

-----------------------------------------------------------------------------
(* The catalog of a questionnaire is never changed.                        *)

LEMMA CatalogKept ==
    ASSUME catalog' = catalog
    PROVE  /\ LocatorByID' = LocatorByID /\ OutputByID' = OutputByID
           /\ \A e : LocatorsOf(e)' = LocatorsOf(e)
           /\ \A S : CandidateLocators(S)' = CandidateLocators(S)
           /\ \A S : CandidateOutputs(S)' = CandidateOutputs(S)
           /\ \A S : UnboundOutputs(S)' = UnboundOutputs(S)
           /\ \A S, p : Offered(S, p)' = Offered(S, p)
           /\ \A a : Used(a)' = Used(a)
           /\ \A S, loc : LocatorAmbiguous(S, loc)' = LocatorAmbiguous(S, loc)
           /\ Action' = Action
<1>1. \A e : LocatorsOf(e)' = LocatorsOf(e) BY DEF LocatorsOf
<1>2. LocatorByID' = LocatorByID BY <1>1 DEF LocatorByID
<1>3. OutputByID' = OutputByID BY DEF OutputByID
<1>4. \A S : CandidateLocators(S)' = CandidateLocators(S) BY <1>1 DEF CandidateLocators
<1>5. \A S : CandidateOutputs(S)' = CandidateOutputs(S) BY <1>3 DEF CandidateOutputs
<1>6. \A S : UnboundOutputs(S)' = UnboundOutputs(S) BY <1>3 DEF UnboundOutputs
<1>7. \A S, p : Offered(S, p)' = Offered(S, p) BY <1>4 DEF Offered
<1>8. \A id : LocatorOfOutput(id)' = LocatorOfOutput(id) BY <1>1 DEF LocatorOfOutput
<1>9. \A a : UsedByOutputs(a)' = UsedByOutputs(a) BY <1>8 DEF UsedByOutputs
<1>10. \A a : Used(a)' = Used(a) BY <1>9 DEF Used
<1>11. \A S, loc : LocatorAmbiguous(S, loc)' = LocatorAmbiguous(S, loc) BY DEF LocatorAmbiguous
<1>12. Action' = Action BY <1>2, <1>3 DEF Action, Declaration, MacroStep, Answer
<1> QED BY <1>1, <1>2, <1>3, <1>4, <1>5, <1>6, <1>7, <1>10, <1>11, <1>12

LEMMA AnswersKept ==
    ASSUME catalog' = catalog
    PROVE  \A a : Asked(a)' = Asked(a) /\ Answered(a)' = Answered(a)
<1>1. \A a : Asked(a)' = Asked(a) BY CatalogKept DEF Asked
<1> QED BY <1>1, CatalogKept DEF Answered

LEMMA CatalogFacts ==
    ASSUME catalog \in Catalogs
    PROVE  /\ "none" \notin DOMAIN catalog
           /\ \A e \in DOMAIN catalog :
                /\ DOMAIN catalog[e] = {"origin", "kind", "at", "hint", "cands", "outputs"}
                /\ Normalized(catalog[e]) /\ catalog[e].at \in Nat /\ catalog[e].kind \in Kinds
                /\ \A x \in catalog[e].cands : x.loc # NoLocator
                /\ \A x \in catalog[e].cands \cup catalog[e].outputs : x.loc \notin {NoWait, Navigation}
BY GuideAssumption

\* The fields of an action, and what an answer puts in one of them.
LEMMA ActionFields ==
    ASSUME NEW a \in Action
    PROVE  /\ a.evidence \subseteq DOMAIN catalog /\ a.parameter \in BOOLEAN
           /\ a.outputs \subseteq OutputByID /\ a.declared \subseteq Declaration
           /\ a.sequence \in Seq(MacroStep) /\ a.writes \in BOOLEAN /\ a.confirmed \in BOOLEAN
           /\ a.resolved \subseteq LocatorByID
           /\ \A S \in SUBSET OutputByID : [a EXCEPT !.outputs = S] \in Action
           /\ \A d \in Declaration : [a EXCEPT !.declared = @ \cup {d}] \in Action
           /\ \A s \in MacroStep : [a EXCEPT !.sequence = Append(@, s)] \in Action
           /\ \A w, c \in BOOLEAN : [a EXCEPT !.writes = w, !.confirmed = c] \in Action
           /\ \A S \in SUBSET LocatorByID : [a EXCEPT !.resolved = S] \in Action
<1>1. a.sequence \in Seq(MacroStep) /\ a.declared \subseteq Declaration BY DEF Action
<1>2. \A s \in MacroStep : Append(a.sequence, s) \in Seq(MacroStep) BY <1>1
<1>3. \A s \in MacroStep : [a EXCEPT !.sequence = Append(@, s)] \in Action BY <1>2 DEF Action
<1>4. \A d \in Declaration : [a EXCEPT !.declared = @ \cup {d}] \in Action BY <1>1 DEF Action
<1> QED BY <1>1, <1>3, <1>4 DEF Action

LEMMA NoActionIsAction == NoAction \in Action
<1>1. <<>> \in Seq(MacroStep) OBVIOUS
<1> QED BY <1>1 DEF NoAction, Action

LEMMA InitAnswers == GuideInit => AnswersInv
<1> SUFFICES ASSUME GuideInit PROVE AnswersInv OBVIOUS
<1>1. now \in 0..MaxTime /\ 0 \in 0..(MaxMacros + MaxOutputs) BY GuideAssumption DEF GuideInit
<1>2. actions \in Seq(Action) /\ DOMAIN actions = {} /\ Len(actions) = 0 BY DEF GuideInit
<1>3. intent.origins = {} /\ DOMAIN intent = {"origins", "kind", "expiry", "count"} /\ intent.expiry \in Nat
  BY DEF GuideInit, NoIntent
<1> QED BY <1>1, <1>2, <1>3, NoActionIsAction DEF GuideInit, AnswersInv, Asking, Detailed, Built

\* Refusing drops every answer.
LEMMA RefuseKeeps ==
    ASSUME AnswersInv, NEW reasons, Refuse(reasons), UNCHANGED <<catalog, now>> PROVE AnswersInv'
<1>1. catalog' = catalog BY DEF Refuse
<1>2. Action' = Action BY <1>1, CatalogKept
<1>3. actions' \in Seq(Action)' /\ DOMAIN actions' = {} /\ Len(actions') = 0 /\ actions' = <<>>
  BY <1>2 DEF Refuse
<1>4. intent'.origins = {} /\ DOMAIN intent' = {"origins", "kind", "expiry", "count"} /\ intent'.expiry \in Nat
  BY DEF Refuse, NoIntent
<1>5. action' \in Action' BY <1>2, NoActionIsAction DEF Refuse
<1>6. left' \in 0..(MaxMacros + MaxOutputs) BY GuideAssumption DEF Refuse
<1>7. at' = "refused" BY DEF Refuse
<1> QED BY <1>3, <1>4, <1>5, <1>6, <1>7 DEF AnswersInv, Asking, Detailed, Built

\* The finished actions are answered still while the catalog stays.
LEMMA EarlierKept ==
    ASSUME AnswersInv, catalog' = catalog, actions' = actions
    PROVE  actions' \in Seq(Action)' /\ \A i \in DOMAIN actions' : Answered(actions[i])'
<1>1. actions \in Seq(Action) /\ \A i \in DOMAIN actions : Answered(actions[i]) BY DEF AnswersInv
<1>2. \A a : Answered(a)' = Answered(a) BY AnswersKept
<1>3. \A i \in DOMAIN actions : Answered(actions[i])' BY <1>1, <1>2
<1> QED BY <1>1, <1>3, CatalogKept

LEMMA ProfileKeeps == ASSUME AnswersInv, AnswerProfile PROVE AnswersInv'
<1>1. catalog' = catalog /\ actions' = actions /\ action' = action BY DEF AnswerProfile
<1>2. actions' \in Seq(Action)' /\ \A i \in DOMAIN actions' : Answered(actions[i])' BY <1>1, EarlierKept
<1>3. action' \in Action' BY <1>1, CatalogKept DEF AnswersInv
<1>4. PICK origins \in (SUBSET {catalog[e].origin : e \in DOMAIN catalog}) \ {{}},
           kind \in {catalog[e].kind : e \in DOMAIN catalog}, expiry \in Expiries, count \in 1..MaxActions :
            intent' = [origins |-> origins, kind |-> kind, expiry |-> expiry, count |-> count]
  BY DEF AnswerProfile
<1>5. /\ DOMAIN intent' = {"origins", "kind", "expiry", "count"} /\ intent'.expiry \in Nat
      /\ intent'.origins # {} /\ intent'.kind \in Kinds /\ intent'.count \in 1..MaxActions
      /\ intent'.origins \subseteq {catalog[e].origin : e \in DOMAIN catalog}
  BY <1>4, CatalogFacts, GuideAssumption DEF AnswersInv
<1>6. at' = "evidence" /\ left' = left /\ now' = now /\ actions = <<>> BY DEF AnswerProfile, AnswersInv
<1>7. Len(actions') < intent'.count BY <1>1, <1>5, <1>6, GuideAssumption
<1> QED BY <1>1, <1>2, <1>3, <1>5, <1>6, <1>7 DEF AnswersInv, Asking, Detailed, Built

\* A step of the wizard that fills in the action at hand.
LEMMA FillsIn ==
    ASSUME AnswersInv, catalog' = catalog, actions' = actions, intent' = intent, now' = now,
           at = "evidence" \/ at \in Detailed, at' \in Detailed, action' \in Action, Asked(action'),
           left' \in 0..(MaxMacros + MaxOutputs), at' \in {"declaration", "macro"} => left' > 0,
           at' = "rationales" => (action'.writes => action'.confirmed)
    PROVE  AnswersInv'
<1>1. actions' \in Seq(Action)' /\ \A i \in DOMAIN actions' : Answered(actions[i])' BY EarlierKept
<1>2. action' \in Action' BY CatalogKept
<1>3. \A a : Asked(a)' = Asked(a) BY AnswersKept
<1>4. Asked(action)' BY <1>3, CatalogKept DEF Asked
<1> QED BY <1>1, <1>2, <1>4 DEF AnswersInv, Asking, Detailed, Built

LEMMA EvidenceKeeps == ASSUME AnswersInv, AnswerEvidence PROVE AnswersInv'
<1>1. PICK evidence \in (SUBSET DOMAIN catalog) \ {{}}, parameter \in BOOLEAN :
        action' = [NoAction EXCEPT !.evidence = evidence, !.parameter = parameter]
  BY DEF AnswerEvidence
<1>2. /\ action'.evidence = evidence /\ action'.outputs = {} /\ action'.declared = {}
      /\ action'.sequence = <<>>
  BY <1>1 DEF NoAction
<1>3. action' \in Action BY <1>1, NoActionIsAction DEF Action
<1>4. Asked(action') BY <1>2 DEF Asked
<1>5. /\ catalog' = catalog /\ actions' = actions /\ intent' = intent /\ now' = now /\ left' = left
      /\ at = "evidence" /\ at' = "outputs"
  BY DEF AnswerEvidence
<1> QED BY <1>3, <1>4, <1>5, FillsIn DEF AnswersInv, Detailed

LEMMA OutputsKeep == ASSUME AnswersInv, AnswerOutputs PROVE AnswersInv'
<1>1. PICK outputs \in SUBSET CandidateOutputs(action.evidence), declarations \in 0..MaxOutputs :
        /\ action' = [action EXCEPT !.outputs = outputs] /\ left' = declarations
        /\ at' = IF declarations = 0 THEN "macros" ELSE "declaration"
  BY DEF AnswerOutputs
<1>2. at = "outputs" /\ catalog' = catalog /\ actions' = actions /\ intent' = intent /\ now' = now
  BY DEF AnswerOutputs
<1>3. action \in Action /\ Asked(action) BY <1>2 DEF AnswersInv, Detailed
<1>4. outputs \subseteq OutputByID BY DEF CandidateOutputs
<1>5. action' \in Action BY <1>1, <1>3, <1>4, ActionFields
<1>6. /\ action'.evidence = action.evidence /\ action'.outputs = outputs /\ action'.declared = action.declared
      /\ action'.sequence = action.sequence /\ action'.parameter = action.parameter
  BY <1>1, <1>3 DEF Action
<1>7. Asked(action') BY <1>3, <1>6 DEF Asked
<1>8. left' \in 0..(MaxMacros + MaxOutputs) BY <1>1, GuideAssumption
<1> QED BY <1>1, <1>2, <1>5, <1>7, <1>8, FillsIn DEF Detailed

LEMMA DeclarationKeeps == ASSUME AnswersInv, AnswerDeclaration PROVE AnswersInv'
<1>1. PICK hint \in UnboundOutputs(action.evidence) \ {d.hint : d \in action.declared},
           source \in {"a11y", "jsonld"} :
        \E locator \in IF source = "a11y" THEN CandidateLocators(action.evidence) ELSE {Blank(NoLocator)} :
            action' = [action EXCEPT !.declared =
                @ \cup {[hint |-> hint, source |-> source, locator |-> locator]}]
  BY DEF AnswerDeclaration
<1>2. PICK locator \in IF source = "a11y" THEN CandidateLocators(action.evidence) ELSE {Blank(NoLocator)} :
        action' = [action EXCEPT !.declared = @ \cup {[hint |-> hint, source |-> source, locator |-> locator]}]
  BY <1>1
<1> DEFINE d == [hint |-> hint, source |-> source, locator |-> locator]
<1>3. at = "declaration" /\ catalog' = catalog /\ actions' = actions /\ intent' = intent /\ now' = now
      /\ left' = left - 1 /\ at' = IF left = 1 THEN "macros" ELSE "declaration"
  BY DEF AnswerDeclaration
<1>4. action \in Action /\ Asked(action) /\ left > 0 /\ left \in 0..(MaxMacros + MaxOutputs)
  BY <1>3 DEF AnswersInv, Detailed
<1>5. locator \in Answer
  BY <1>4, ActionFields DEF Answer, CandidateLocators, LocatorByID
<1>6. d \in Declaration BY <1>5 DEF UnboundOutputs, Declaration
<1>7. d.hint = hint /\ d.source = source /\ d.locator = locator OBVIOUS
<1> HIDE DEF d
<1>8. action' = [action EXCEPT !.declared = @ \cup {d}] BY <1>2 DEF d
<1>9. action' \in Action BY <1>4, <1>6, <1>8, ActionFields
<1>10. /\ action'.evidence = action.evidence /\ action'.outputs = action.outputs
       /\ action'.declared = action.declared \cup {d}
       /\ action'.sequence = action.sequence /\ action'.parameter = action.parameter
  BY <1>4, <1>8 DEF Action
<1>11. /\ d.hint \in UnboundOutputs(action.evidence)
       /\ d.source = "a11y" => d.locator \in CandidateLocators(action.evidence)
       /\ d.source # "a11y" => d.locator = Blank(NoLocator)
       /\ \A e \in action.declared : e.hint # d.hint
  BY <1>7
<1>12. Asked(action') BY <1>4, <1>10, <1>11 DEF Asked
<1>13. left' \in 0..(MaxMacros + MaxOutputs) BY <1>3, <1>4, GuideAssumption
<1>14. at' \in {"declaration", "macro"} => left' > 0 BY <1>3, <1>4
<1> QED BY <1>3, <1>9, <1>12, <1>13, <1>14, FillsIn DEF Detailed

LEMMA MacrosKeep == ASSUME AnswersInv, AnswerMacros PROVE AnswersInv'
<1>1. /\ at = "macros" /\ at' = "macro" /\ left' \in 1..MaxMacros
      /\ catalog' = catalog /\ actions' = actions /\ intent' = intent /\ now' = now /\ action' = action
  BY DEF AnswerMacros
<1>2. action' \in Action /\ Asked(action') BY <1>1 DEF AnswersInv, Detailed
<1>3. left' \in 0..(MaxMacros + MaxOutputs) /\ left' > 0 BY <1>1, GuideAssumption
<1> QED BY <1>1, <1>2, <1>3, FillsIn DEF Detailed

LEMMA OfferedIsStep ==
    ASSUME NEW evidence \in SUBSET DOMAIN catalog, NEW parameter \in BOOLEAN
    PROVE  Offered(evidence, parameter) \subseteq MacroStep
<1>1. CandidateLocators(evidence) \subseteq LocatorByID BY DEF CandidateLocators, LocatorByID
<1> QED BY <1>1 DEF Offered, MacroStep, Answer, Macro

LEMMA MacroKeeps == ASSUME AnswersInv, AnswerMacro PROVE AnswersInv'
<1>1. PICK macro \in Offered(action.evidence, action.parameter) :
        action' = [action EXCEPT !.sequence = Append(@, macro)]
  BY DEF AnswerMacro
<1>2. at = "macro" /\ catalog' = catalog /\ actions' = actions /\ intent' = intent /\ now' = now
      /\ left' = left - 1 /\ at' = IF left = 1 THEN "effects" ELSE "macro"
  BY DEF AnswerMacro
<1>3. action \in Action /\ Asked(action) /\ left > 0 /\ left \in 0..(MaxMacros + MaxOutputs)
  BY <1>2 DEF AnswersInv, Detailed
<1>4. macro \in MacroStep BY <1>3, ActionFields, OfferedIsStep
<1>5. action' \in Action BY <1>1, <1>3, <1>4, ActionFields
<1>6. /\ action'.evidence = action.evidence /\ action'.outputs = action.outputs
      /\ action'.declared = action.declared /\ action'.parameter = action.parameter
      /\ action'.sequence = Append(action.sequence, macro)
  BY <1>1, <1>3 DEF Action
<1>7. \A i \in DOMAIN action'.sequence :
        action'.sequence[i] = macro \/ (i \in DOMAIN action.sequence /\ action'.sequence[i] = action.sequence[i])
  <2> DEFINE s == action.sequence
  <2>1. s \in Seq(MacroStep) BY <1>3, ActionFields
  <2> HIDE DEF s
  <2>2. \A i \in DOMAIN Append(s, macro) :
            Append(s, macro)[i] = macro \/ (i \in DOMAIN s /\ Append(s, macro)[i] = s[i])
    BY <1>4, <2>1
  <2> QED BY <1>6, <2>2 DEF s
<1>8. \A i \in DOMAIN action'.sequence : action'.sequence[i] \in Offered(action.evidence, action.parameter)
  BY <1>3, <1>7 DEF Asked
<1>9. Asked(action') BY <1>3, <1>6, <1>8 DEF Asked
<1>10. left' \in 0..(MaxMacros + MaxOutputs) BY <1>2, <1>3, GuideAssumption
<1>11. at' \in {"declaration", "macro"} => left' > 0 BY <1>2, <1>3
<1> QED BY <1>2, <1>5, <1>9, <1>10, <1>11, FillsIn DEF Detailed

LEMMA PolicyKeeps == ASSUME AnswersInv, AnswerPolicy PROVE AnswersInv'
<1>1. PICK writes \in BOOLEAN, confirmed \in BOOLEAN :
        IF writes /\ ~confirmed THEN Refuse({})
        ELSE /\ action' = [action EXCEPT !.writes = writes, !.confirmed = confirmed]
             /\ at' = "rationales"
             /\ UNCHANGED <<intent, actions, left, failure, bundle, hand>>
  BY DEF AnswerPolicy
<1>2. at = "effects" /\ UNCHANGED <<catalog, now>> BY DEF AnswerPolicy
<1>3. CASE writes /\ ~confirmed
  <2>1. Refuse({}) BY <1>1, <1>3
  <2> QED BY <1>2, <2>1, RefuseKeeps
<1>4. CASE ~(writes /\ ~confirmed)
  <2>1. action \in Action /\ Asked(action) BY <1>2 DEF AnswersInv, Detailed
  <2>2. action' = [action EXCEPT !.writes = writes, !.confirmed = confirmed] /\ at' = "rationales"
        /\ UNCHANGED <<intent, actions, left>>
    BY <1>1, <1>4
  <2>3. action' \in Action BY <2>1, <2>2, ActionFields
  <2>4. /\ action'.evidence = action.evidence /\ action'.outputs = action.outputs
        /\ action'.declared = action.declared /\ action'.parameter = action.parameter
        /\ action'.sequence = action.sequence
        /\ action'.writes = writes /\ action'.confirmed = confirmed
    BY <2>1, <2>2 DEF Action
  <2>5. Asked(action') BY <2>1, <2>4 DEF Asked
  <2>6. left' \in 0..(MaxMacros + MaxOutputs) BY <2>2 DEF AnswersInv
  <2> QED BY <1>2, <1>4, <2>2, <2>3, <2>4, <2>5, <2>6, FillsIn DEF Detailed
<1> QED BY <1>3, <1>4

\* Every identifier an answer names is of the evidence chosen for its action.
LEMMA UsedIsKnown ==
    ASSUME catalog \in Catalogs, NEW a \in Action, Asked(a)
    PROVE  /\ \A i \in DOMAIN a.sequence : StepUses(a.sequence[i]) \subseteq CandidateLocators(a.evidence)
           /\ \A id \in a.outputs : LocatorOfOutput(id) \subseteq CandidateLocators(a.evidence)
           /\ \A d \in a.declared : IDsAmong({d.locator}) \subseteq CandidateLocators(a.evidence)
           /\ Used(a) \subseteq CandidateLocators(a.evidence)
           /\ CandidateLocators(a.evidence) \subseteq LocatorByID
           /\ \A id \in CandidateLocators(a.evidence) : id.rec \in a.evidence /\ id.rec # "none"
                    /\ id \in LocatorsOf(id.rec)
<1>1. \A x : Blank(x).rec = "none" BY DEF Blank
<1>2. \A e : \A id \in LocatorsOf(e) : id.rec = e BY DEF LocatorsOf
<1>3. \A id \in CandidateLocators(a.evidence) : id.rec \in a.evidence /\ id.rec # "none"
                    /\ id \in LocatorsOf(id.rec)
  BY <1>2, CatalogFacts, ActionFields DEF CandidateLocators
<1>4. CandidateLocators(a.evidence) \subseteq LocatorByID
  BY ActionFields DEF CandidateLocators, LocatorByID
<1>5. ASSUME NEW i \in DOMAIN a.sequence
      PROVE  StepUses(a.sequence[i]) \subseteq CandidateLocators(a.evidence)
  <2>1. a.sequence[i] \in Offered(a.evidence, a.parameter) BY DEF Asked
  <2>2. \A k, t, l, w : Macro(k, t, l, w).locator = l /\ Macro(k, t, l, w).wait = w BY DEF Macro
  <2>3. /\ a.sequence[i].locator \in CandidateLocators(a.evidence) \cup {Blank(NoLocator)}
        /\ a.sequence[i].wait \in CandidateLocators(a.evidence) \cup {Blank(NoWait), Blank(Navigation)}
    BY <2>1, <2>2 DEF Offered
  <2> QED BY <1>1, <2>3 DEF StepUses, IDsAmong
<1>6. ASSUME NEW id \in a.outputs PROVE LocatorOfOutput(id) \subseteq CandidateLocators(a.evidence)
  <2>1. id.rec \in a.evidence BY DEF Asked, CandidateOutputs
  <2> QED BY <2>1 DEF LocatorOfOutput, CandidateLocators
<1>7. ASSUME NEW d \in a.declared PROVE IDsAmong({d.locator}) \subseteq CandidateLocators(a.evidence)
  BY <1>1 DEF Asked, IDsAmong
<1>8. UsedBySteps(a) \subseteq CandidateLocators(a.evidence) BY <1>5 DEF UsedBySteps
<1>9. UsedByOutputs(a) \subseteq CandidateLocators(a.evidence)
  <2>1. \A d \in a.declared : d.locator \in CandidateLocators(a.evidence) \/ d.locator.rec = "none"
    BY <1>1 DEF Asked
  <2>2. IDsAmong({d.locator : d \in a.declared}) \subseteq CandidateLocators(a.evidence)
    BY <2>1 DEF IDsAmong
  <2> QED BY <1>6, <2>2 DEF UsedByOutputs
<1> QED BY <1>3, <1>4, <1>5, <1>6, <1>7, <1>8, <1>9 DEF Used

LEMMA RationalesKeep == ASSUME AnswersInv, AnswerRationales PROVE AnswersInv'
<1> DEFINE needed == {id \in Used(action) : LocatorAmbiguous(action.evidence, id.loc)}
           a == [action EXCEPT !.resolved = needed]
<1>1. /\ at = "rationales" /\ actions' = Append(actions, a) /\ action' = NoAction
      /\ at' = IF Len(actions) + 1 = intent.count THEN "author" ELSE "evidence"
      /\ UNCHANGED <<catalog, intent, left, now>>
  BY DEF AnswerRationales, FinishAction
<1>2. action \in Action /\ Asked(action) /\ (action.writes => action.confirmed)
      /\ Len(actions) < intent.count /\ intent.count \in Nat
      /\ actions \in Seq(Action) /\ \A i \in DOMAIN actions : Answered(actions[i])
  BY <1>1, GuideAssumption DEF AnswersInv, Detailed
<1>3. Used(action) \subseteq LocatorByID
  <2>1. catalog \in Catalogs BY DEF AnswersInv
  <2> HIDE DEF needed, a
  <2> QED BY <1>2, <2>1, UsedIsKnown
<1>4. a \in Action BY <1>2, <1>3, ActionFields
<1>5. /\ a.evidence = action.evidence /\ a.outputs = action.outputs /\ a.declared = action.declared
      /\ a.parameter = action.parameter /\ a.sequence = action.sequence /\ a.writes = action.writes
      /\ a.confirmed = action.confirmed /\ a.resolved = needed
  BY <1>2 DEF Action
<1>6. Asked(a) BY <1>2, <1>5 DEF Asked
<1>7. Used(a) = Used(action) BY <1>5 DEF Used, UsedBySteps, UsedByOutputs
<1>8. Answered(a) BY <1>2, <1>4, <1>5, <1>6, <1>7 DEF Answered
<1> HIDE DEF needed, a
<1>9. actions' \in Seq(Action) /\ Len(actions') = Len(actions) + 1 BY <1>1, <1>2, <1>4
<1>10. \A i \in DOMAIN actions' : actions'[i] = a \/ (i \in DOMAIN actions /\ actions'[i] = actions[i])
  BY <1>1, <1>2, <1>4
<1>11. \A i \in DOMAIN actions' : Answered(actions[i])'
  <2>1. \A b : Answered(b)' = Answered(b) BY <1>1, AnswersKept
  <2> QED BY <1>2, <1>8, <1>10, <2>1
<1>12. Action' = Action BY <1>1, CatalogKept
<1>13. action' \in Action' /\ actions' \in Seq(Action)' BY <1>1, <1>9, <1>12, NoActionIsAction
<1>14. at' = "evidence" => Len(actions') < intent'.count BY <1>1, <1>2, <1>9
<1>15. at' = "author" => Len(actions') = intent'.count BY <1>1, <1>9
<1> QED BY <1>1, <1>11, <1>13, <1>14, <1>15 DEF AnswersInv, Asking, Detailed, Built

-----------------------------------------------------------------------------
(* What Author makes of the answers.                                       *)

\* Author accepts what the wizard let an operator answer, but for two choices.
LEMMA AnsweredIsAccepted ==
    ASSUME catalog \in Catalogs, NEW a, Answered(a), NEW origins
    PROVE  ActionErrors(a, origins) \subseteq {"navigate_target", "output_conflict"}
<1>1. a \in Action /\ Asked(a) /\ (a.writes => a.confirmed)
      /\ a.resolved = {id \in Used(a) : LocatorAmbiguous(a.evidence, id.loc)}
  BY DEF Answered
<1>2. \A id \in CandidateLocators(a.evidence) : KnownLocator(a, id)
  BY <1>1, UsedIsKnown DEF KnownLocator, Selected
<1>3. \A i \in DOMAIN a.sequence : StepErrors(a, a.sequence[i]) = {}
  <2> SUFFICES ASSUME NEW i \in DOMAIN a.sequence PROVE StepErrors(a, a.sequence[i]) = {} OBVIOUS
  <2>1. \A u \in StepUses(a.sequence[i]) : KnownLocator(a, u) BY <1>1, <1>2, UsedIsKnown
  <2>2. a.sequence[i] \in Offered(a.evidence, a.parameter) BY <1>1 DEF Asked
  <2>3. a.sequence[i].kind = "fill" => a.parameter BY <2>2 DEF Offered, Macro
  <2> QED BY <2>1, <2>3 DEF StepErrors
<1>4. OutputErrors(a) \subseteq {"output_conflict"}
  <2>1. \A id \in a.outputs : Selected(a, id) /\ Bound(id)
    BY <1>1 DEF Asked, CandidateOutputs, Selected
  <2>2. \A d \in a.declared : Selected(a, d.hint) /\ ~Bound(d.hint)
    BY <1>1 DEF Asked, UnboundOutputs, Selected
  <2>3. \A d, e \in a.declared : d.hint = e.hint => d = e BY <1>1 DEF Asked
  <2>4. \A d \in a.declared : IDsAmong({d.locator}) # {} => KnownLocator(a, d.locator)
    BY <1>1, <1>2, UsedIsKnown DEF IDsAmong
  <2>5. \A id \in a.outputs \cup {d.hint : d \in a.declared} : Selected(a, id) BY <2>1, <2>2
  <2>6. /\ {o \in a.outputs \cup {d.hint : d \in a.declared} : ~Selected(a, o)} = {}
        /\ {o \in a.outputs : ~Bound(o)} = {} /\ {e \in a.declared : Bound(e.hint)} = {}
        /\ {e \in a.declared : \E f \in a.declared : f # e /\ f.hint = e.hint} = {}
        /\ {e \in a.declared : IDsAmong({e.locator}) # {} /\ ~KnownLocator(a, e.locator)} = {}
    BY <2>1, <2>2, <2>3, <2>4, <2>5
  <2> QED BY <2>6 DEF OutputErrors
<1>5. DecisionErrors(a) = {} BY <1>1 DEF DecisionErrors
<1>6. TemplateErrors(a, origins) \subseteq {"navigate_target"} BY DEF TemplateErrors
<1>7. UNION {StepErrors(a, a.sequence[i]) : i \in DOMAIN a.sequence} = {} BY <1>3
<1> QED BY <1>1, <1>4, <1>5, <1>6, <1>7 DEF ActionErrors

\* A locator an action may use is one its evidence shows.
LEMMA LocatorSeen ==
    ASSUME NEW e, NEW id \in LocatorsOf(e)
    PROVE  \E c \in catalog[e].cands \cup OutputLocators(catalog[e]) : c.loc = id.loc
BY DEF LocatorsOf

\* The locator of a chosen accessibility output is one of its record.
LEMMA OutputLocated ==
    ASSUME catalog \in Catalogs, NEW id \in OutputByID, id.out.source = "a11y"
    PROVE  \E l \in LocatorOfOutput(id) : l.loc = id.out.loc
<1>1. PICK e \in DOMAIN catalog : \E o \in catalog[e].outputs : id = [rec |-> e, out |-> o]
  BY DEF OutputByID
<1>2. id.rec = e /\ id.out \in catalog[e].outputs BY <1>1
<1>3. id.out.loc # NoLocator BY <1>2, CatalogFacts DEF Normalized, ValidOutput
<1>4. id.out \in OutputLocators(catalog[e]) BY <1>2, <1>3 DEF OutputLocators
<1>5. \E l \in LocatorsOf(e) : l.loc = id.out.loc
  <2> DEFINE own == {c.loc : c \in catalog[e].cands}
             amb == \E o \in OutputLocators(catalog[e]) : o.loc = id.out.loc /\ o.amb
             l == [rec |-> e, loc |-> id.out.loc, amb |-> amb]
  <2>1. CASE id.out.loc \in own
    <3>1. PICK c \in catalog[e].cands : c.loc = id.out.loc BY <2>1
    <3>2. [rec |-> e, loc |-> c.loc, amb |-> c.amb] \in LocatorsOf(e) BY DEF LocatorsOf
    <3> QED BY <3>1, <3>2
  <2>2. CASE id.out.loc \notin own
    <3>1. id.out.loc \in {o.loc : o \in OutputLocators(catalog[e])} \ own BY <1>4, <2>2
    <3>2. l \in LocatorsOf(e) BY <3>1 DEF LocatorsOf
    <3>3. l.loc = id.out.loc OBVIOUS
    <3> QED BY <3>2, <3>3
  <2> QED BY <2>1, <2>2
<1> QED BY <1>2, <1>5 DEF LocatorOfOutput

\* What an action of the profile declares is what its answers used.
LEMMA DeclaredIsUsed ==
    ASSUME catalog \in Catalogs, NEW a \in Action, Asked(a),
           NEW built, built.sequence = [i \in DOMAIN a.sequence |-> BuildStep(a.sequence[i])],
           built.outputs = Chosen(a), NEW loc \in ActionLocators(built)
    PROVE  loc # NoLocator /\ \E id \in Used(a) : id.loc = loc
<1>1. CASE \E i \in DOMAIN built.sequence : loc \in StepLocators(built.sequence[i])
  <2>1. PICK i \in DOMAIN built.sequence : loc \in StepLocators(built.sequence[i]) BY <1>1
  <2>2. i \in DOMAIN a.sequence /\ built.sequence[i] = BuildStep(a.sequence[i]) BY <2>1
  <2>3. loc \in {a.sequence[i].locator.loc, a.sequence[i].wait.loc} /\ loc \notin {NoLocator, NoWait, Navigation}
    BY <2>1, <2>2 DEF StepLocators, BuildStep
  <2>4. a.sequence[i] \in MacroStep
    <3>1. a.sequence \in Seq(MacroStep) BY ActionFields
    <3> QED BY <2>2, <3>1
  <2>5. \A id \in Answer : id.loc \notin {NoLocator, NoWait, Navigation} => id.rec # "none"
    <3>1. \A id \in LocatorByID : id.rec # "none" BY CatalogFacts DEF LocatorByID, LocatorsOf
    <3> QED BY <3>1 DEF Answer, Blank
  <2>6. \E id \in StepUses(a.sequence[i]) : id.loc = loc
    BY <2>3, <2>4, <2>5 DEF MacroStep, StepUses, IDsAmong
  <2> QED BY <2>2, <2>3, <2>6 DEF Used, UsedBySteps
<1>2. CASE \E o \in Chosen(a) : o.source = "a11y" /\ loc = o.loc
  <2>1. PICK o \in Chosen(a) : o.source = "a11y" /\ loc = o.loc BY <1>2
  <2>2. CASE \E id \in a.outputs : o = ProfileOutput(id.out)
    <3>1. PICK id \in a.outputs : o = ProfileOutput(id.out) BY <2>2
    <3>2. id \in OutputByID /\ id.out.source = "a11y" /\ id.out.loc = loc
      BY <2>1, <3>1, ActionFields DEF ProfileOutput
    <3>3. PICK l \in LocatorOfOutput(id) : l.loc = loc BY <3>2, OutputLocated
    <3>4. loc # NoLocator BY <3>2, CatalogFacts DEF OutputByID, Normalized, ValidOutput
    <3> QED BY <3>1, <3>3, <3>4 DEF Used, UsedByOutputs
  <2>3. CASE \E d \in a.declared : o = [key |-> d.hint.out.key, source |-> d.source, loc |-> d.locator.loc]
    <3>1. PICK d \in a.declared : d.source = "a11y" /\ d.locator.loc = loc BY <2>1, <2>3
    <3>2. d.locator \in CandidateLocators(a.evidence) BY <3>1 DEF Asked
    <3>3. d.locator.rec # "none" /\ d.locator.rec \in a.evidence /\ d.locator \in LocatorsOf(d.locator.rec)
      BY <3>2, UsedIsKnown
    <3>4. d.locator \in UsedByOutputs(a) BY <3>1, <3>3 DEF UsedByOutputs, IDsAmong
    <3>5. loc # NoLocator
      <4>1. d.locator.rec \in DOMAIN catalog BY <3>3, ActionFields
      <4>2. PICK c \in catalog[d.locator.rec].cands \cup OutputLocators(catalog[d.locator.rec]) : c.loc = loc
        BY <3>1, <3>3, LocatorSeen
      <4> QED BY <4>1, <4>2, CatalogFacts DEF OutputLocators
    <3> QED BY <3>1, <3>4, <3>5 DEF Used
  <2> QED BY <2>1, <2>2, <2>3 DEF Chosen
<1>3. ActionLocators(built) = (UNION {StepLocators(built.sequence[i]) : i \in DOMAIN built.sequence})
            \cup {o.loc : o \in {p \in Chosen(a) : p.source = "a11y"}}
  BY DEF ActionLocators
<1> QED BY <1>1, <1>2, <1>3

-----------------------------------------------------------------------------
(* The greatest of some bounded numbers.                                   *)

\* A set of numbers has a least one: the intervals up to its members are finite
\* sets, and so one of them is minimal among them.
LEMMA Least ==
    ASSUME NEW T \in SUBSET Nat, T # {}
    PROVE  \E k \in T : \A j \in T : k <= j
<1> DEFINE Upto == {0 .. k : k \in T}
<1>1. Upto \subseteq FiniteSubsetsOf(Nat) /\ Upto # {}
  <2>1. \A k \in T : 0 .. k \in SUBSET Nat /\ IsFiniteSet(0 .. k) BY FS_Interval
  <2> QED BY <2>1 DEF FiniteSubsetsOf
<1>2. IsWellFoundedOn(StrictSubsetOrdering(Nat), FiniteSubsetsOf(Nat))
  BY FS_StrictSubsetOrderingWellFounded
<1>3. PICK S \in Upto : \A U \in Upto : ~(<<U, S>> \in StrictSubsetOrdering(Nat))
  <2> HIDE DEF Upto
  <2> QED BY <1>1, <1>2, WFMin
<1>4. PICK k \in T : S = 0 .. k BY <1>3
<1>5. ASSUME NEW j \in T PROVE k <= j
  <2>1. <<0 .. j, 0 .. k>> \notin StrictSubsetOrdering(Nat) BY <1>3, <1>4, <1>5
  <2>2. 0 .. j \subseteq 0 .. k => 0 .. j = 0 .. k
    BY <2>1, <1>4, <1>5 DEF StrictSubsetOrdering
  <2>3. k \in Nat /\ j \in Nat BY <1>4, <1>5
  <2>4. j < k => 0 .. j \subseteq 0 .. k /\ k \in 0 .. k /\ k \notin 0 .. j BY <2>3
  <2> QED BY <2>2, <2>3, <2>4
<1> QED BY <1>5

LEMMA Greatest ==
    ASSUME NEW n \in Nat, NEW S \in SUBSET (0 .. n), S # {}
    PROVE  Max(S) \in S /\ \A s \in S : s <= Max(S)
<1> DEFINE T == {n - s : s \in S}
<1>1. T \subseteq Nat /\ T # {} OBVIOUS
<1>2. PICK k \in T : \A j \in T : k <= j
  <2> HIDE DEF T
  <2> QED BY <1>1, Least
<1>3. PICK m \in S : k = n - m BY <1>2
<1>4. ASSUME NEW s \in S PROVE m >= s
  <2>1. n - m <= n - s BY <1>2, <1>3, <1>4
  <2>2. m \in 0 .. n /\ s \in 0 .. n BY <1>3, <1>4
  <2> QED BY <2>1, <2>2
<1>5. \E x \in S : \A y \in S : x >= y BY <1>3, <1>4
<1>6. Max(S) \in S /\ \A y \in S : Max(S) >= y BY <1>5 DEF Max
<1> QED BY <1>6

-----------------------------------------------------------------------------
(* What Author makes of all the answers.                                   *)

\* The evidence of a bundle is the records chosen for each action, under its name.
LEMMA EvidenceIsChosen ==
    ASSUME catalog \in Catalogs, actions \in Seq(Action)
    PROVE  /\ \A name \in DOMAIN actions : Supporting(name, Evidence) = EvidenceOf(name, actions[name])
           /\ \A name \in DOMAIN actions : \A r \in EvidenceOf(name, actions[name]) :
                \E e \in actions[name].evidence :
                    /\ e \in DOMAIN catalog /\ r.hint = name /\ r.cands = catalog[e].cands
                    /\ r.outputs = catalog[e].outputs /\ r.at = catalog[e].at
           /\ \A name \in DOMAIN actions : \A e \in actions[name].evidence :
                \E r \in EvidenceOf(name, actions[name]) :
                    r.cands = catalog[e].cands /\ r.outputs = catalog[e].outputs
           /\ \A r \in Evidence : Normalized(r) /\ r.at \in Nat
<1>1. ASSUME NEW name \in DOMAIN actions, NEW e \in actions[name].evidence
      PROVE  LET r == [catalog[e] EXCEPT !.hint = name] IN
             /\ e \in DOMAIN catalog /\ r.hint = name /\ r.cands = catalog[e].cands
             /\ r.outputs = catalog[e].outputs /\ r.at = catalog[e].at
  <2>1. e \in DOMAIN catalog
    <3>1. actions[name] \in Action OBVIOUS
    <3> QED BY <3>1, ActionFields
  <2> QED BY <2>1, CatalogFacts
<1>2. ASSUME NEW name \in DOMAIN actions, NEW r \in EvidenceOf(name, actions[name])
      PROVE  \E e \in actions[name].evidence :
                /\ e \in DOMAIN catalog /\ r.hint = name /\ r.cands = catalog[e].cands
                /\ r.outputs = catalog[e].outputs /\ r.at = catalog[e].at
  <2>1. PICK e \in actions[name].evidence : r = [catalog[e] EXCEPT !.hint = name] BY <1>2 DEF EvidenceOf
  <2> QED BY <1>1, <2>1
<1>3. \A name \in DOMAIN actions : Supporting(name, Evidence) = EvidenceOf(name, actions[name])
  BY <1>2 DEF Supporting, Evidence
<1>4. ASSUME NEW name \in DOMAIN actions, NEW e \in actions[name].evidence
      PROVE  \E r \in EvidenceOf(name, actions[name]) :
                r.cands = catalog[e].cands /\ r.outputs = catalog[e].outputs
  <2>1. [catalog[e] EXCEPT !.hint = name] \in EvidenceOf(name, actions[name]) BY <1>4 DEF EvidenceOf
  <2> QED BY <1>1, <1>4, <2>1
<1>5. ASSUME NEW r \in Evidence PROVE Normalized(r) /\ r.at \in Nat
  <2>1. PICK name \in DOMAIN actions : r \in EvidenceOf(name, actions[name]) BY <1>5 DEF Evidence
  <2>2. PICK e \in DOMAIN catalog : r.outputs = catalog[e].outputs /\ r.at = catalog[e].at BY <1>2, <2>1
  <2> QED BY <2>2, CatalogFacts DEF Normalized
<1> QED BY <1>2, <1>3, <1>4, <1>5

\* The evidence of an action calls a locator ambiguous if a record it was chosen from does.
LEMMA SameAmbiguity ==
    ASSUME catalog \in Catalogs, actions \in Seq(Action), NEW name \in DOMAIN actions, NEW loc
    PROVE  Ambiguous(loc, Supporting(name, Evidence)) <=> LocatorAmbiguous(actions[name].evidence, loc)
<1> DEFINE mine == EvidenceOf(name, actions[name])
           theirs == {catalog[e] : e \in actions[name].evidence}
           Offers(r) == r.cands \cup OutputLocators(r)
<1>1. \A r \in mine : \E q \in theirs : r.cands = q.cands /\ r.outputs = q.outputs
  BY EvidenceIsChosen
<1>2. \A q \in theirs : \E r \in mine : r.cands = q.cands /\ r.outputs = q.outputs
  BY EvidenceIsChosen
<1>3. \A S : Ambiguous(loc, S) <=> \E r \in S : \E c \in Offers(r) : c.loc = loc /\ c.amb
  BY DEF Ambiguous, Matching
<1>4. \A r, q : r.outputs = q.outputs => OutputLocators(r) = OutputLocators(q) BY DEF OutputLocators
<1> HIDE DEF mine, theirs
<1>5. Ambiguous(loc, mine) <=> Ambiguous(loc, theirs) BY <1>1, <1>2, <1>3, <1>4
<1>6. Supporting(name, Evidence) = mine BY EvidenceIsChosen DEF mine
<1>7. LocatorAmbiguous(actions[name].evidence, loc) <=> Ambiguous(loc, theirs)
  BY DEF LocatorAmbiguous, theirs
<1> QED BY <1>5, <1>6, <1>7

\* What an action of the profile is.
LEMMA ProfileActions ==
    ASSUME actions \in Seq(Action), NEW profile, profile = Draft(Evidence, SpecOf)
    PROVE  /\ DOMAIN profile.actions = DOMAIN actions
           /\ profile.expiresAfter = intent.expiry /\ profile.verifiedAt = Latest(Evidence)
           /\ profile.origins = intent.origins
           /\ \A name \in DOMAIN actions :
                /\ profile.actions[name].sequence =
                        [i \in DOMAIN actions[name].sequence |-> BuildStep(actions[name].sequence[i])]
                /\ profile.actions[name].outputs = Chosen(actions[name])
                /\ profile.actions[name].writes = actions[name].writes
                /\ profile.actions[name].confirmed = actions[name].confirmed
BY DEF Draft, SpecOf, DraftAction, BuildAction

\* Each locator of an action is shown by its evidence, and has a rationale if it needs one.
LEMMA ActionsSupported ==
    ASSUME catalog \in Catalogs, actions \in Seq(Action),
           NEW name \in DOMAIN actions, Answered(actions[name]),
           NEW loc \in ActionLocators(Draft(Evidence, SpecOf).actions[name])
    PROVE  /\ loc # NoLocator
           /\ \E e \in actions[name].evidence : \E id \in LocatorsOf(e) : id.loc = loc
           /\ Matching(loc, Supporting(name, Evidence)) # {}
           /\ Ambiguous(loc, Supporting(name, Evidence)) =>
                    /\ \E id \in actions[name].resolved : id.loc = loc
                    /\ HasDecision(name, loc, SpecOf.decisions)
<1> DEFINE a == actions[name]
<1>1. a \in Action /\ Asked(a) /\ a.resolved = {id \in Used(a) : LocatorAmbiguous(a.evidence, id.loc)}
  BY DEF Answered
<1>2. loc # NoLocator /\ \E id \in Used(a) : id.loc = loc
  <2> DEFINE built == Draft(Evidence, SpecOf).actions[name]
  <2>1. /\ built.sequence = [i \in DOMAIN a.sequence |-> BuildStep(a.sequence[i])]
        /\ built.outputs = Chosen(a)
    BY ProfileActions
  <2>2. loc \in ActionLocators(built) OBVIOUS
  <2> HIDE DEF built, a
  <2> QED BY <1>1, <2>1, <2>2, DeclaredIsUsed
<1>3. PICK id \in Used(a) : id.loc = loc BY <1>2
<1>4. id.rec \in a.evidence /\ id \in LocatorsOf(id.rec)
  <2> HIDE DEF a
  <2> QED BY <1>1, <1>3, UsedIsKnown
<1>5. PICK c \in catalog[id.rec].cands \cup OutputLocators(catalog[id.rec]) : c.loc = loc
  BY <1>3, <1>4, LocatorSeen
<1>6. PICK r \in EvidenceOf(name, a) : r.cands = catalog[id.rec].cands /\ r.outputs = catalog[id.rec].outputs
  BY <1>4, EvidenceIsChosen
<1>7. c \in r.cands \cup OutputLocators(r) BY <1>5, <1>6 DEF OutputLocators
<1>8. r \in Supporting(name, Evidence) BY <1>6, EvidenceIsChosen
<1>9. c \in Matching(loc, Supporting(name, Evidence)) BY <1>5, <1>7, <1>8 DEF Matching
<1>10. ASSUME Ambiguous(loc, Supporting(name, Evidence))
       PROVE  id \in a.resolved /\ HasDecision(name, loc, SpecOf.decisions)
  <2>1. id \in a.resolved BY <1>1, <1>3, <1>10, SameAmbiguity
  <2>2. [action |-> name, loc |-> loc] \in DecisionsOf(name, a) BY <1>3, <2>1 DEF DecisionsOf
  <2> QED BY <2>1, <2>2 DEF HasDecision, SpecOf
<1> QED BY <1>2, <1>3, <1>4, <1>9, <1>10

\* The checks of the draft and of the review leave only the operator's choices.
LEMMA ChecksLeaveChoices ==
    ASSUME catalog \in Catalogs, actions \in Seq(Action), \A i \in DOMAIN actions : Answered(actions[i]),
           NEW t
    PROVE  CheckAt(Draft(Evidence, SpecOf), Evidence, SpecOf.decisions, t) \subseteq OperatorChoices
<1> DEFINE profile == Draft(Evidence, SpecOf)
<1>1. CheckRecords(Evidence) = {} BY EvidenceIsChosen DEF CheckRecords
<1>2. ASSUME NEW name \in DOMAIN actions
      PROVE  CheckAction(profile, name, Evidence, SpecOf.decisions) = {}
  <2> DEFINE declared == ActionLocators(profile.actions[name])
             mine == Supporting(name, Evidence)
  <2>1. mine # {}
    <3>1. actions[name].evidence # {} BY DEF Answered, Asked
    <3> QED BY <3>1, EvidenceIsChosen
  <2>2. /\ {l \in declared : Matching(l, mine) = {}} = {}
        /\ {l \in declared : Ambiguous(l, mine) /\ ~HasDecision(name, l, SpecOf.decisions)} = {}
    BY ActionsSupported
  <2> QED BY <2>1, <2>2 DEF CheckAction
<1>3. CheckEvidence(profile, Evidence, SpecOf.decisions) = {}
  BY <1>2, ProfileActions DEF CheckEvidence
<1>4. /\ CheckProfile(profile) \subseteq {"invalid_profile"}
      /\ CheckOrigins(profile, Evidence) \subseteq {"origin_mismatch"}
      /\ CheckExpiry(profile, t) \subseteq {"expired"}
      /\ CheckSafeWaits(profile) \subseteq {"side_effect_no_safe_wait"}
  BY DEF CheckProfile, CheckOrigins, CheckExpiry, CheckSafeWaits
<1> HIDE DEF profile
<1>5. CheckAt(profile, Evidence, SpecOf.decisions, t) \subseteq OperatorChoices
  BY <1>1, <1>3, <1>4 DEF CheckAt, OperatorChoices
<1> QED BY <1>5 DEF profile

-----------------------------------------------------------------------------
(* The bundle.                                                             *)

\* A mutation waits after its last act.
LEMMA WaitsAreSafe ==
    ASSUME catalog \in Catalogs, actions \in Seq(Action), \A i \in DOMAIN actions : Answered(actions[i]),
           NEW name \in DOMAIN actions, CheckSafeWaits(Draft(Evidence, SpecOf)) = {}
    PROVE  SafeMutation(Draft(Evidence, SpecOf).actions[name])
<1> DEFINE built == Draft(Evidence, SpecOf).actions[name]
           a == actions[name]
<1>1. /\ a \in Action /\ Asked(a) /\ (a.writes => a.confirmed)
      /\ built.sequence = [i \in DOMAIN a.sequence |-> BuildStep(a.sequence[i])]
      /\ built.writes = a.writes /\ built.confirmed = a.confirmed
  BY ProfileActions DEF Answered
<1>2. built.writes => SafeWait(built) BY ProfileActions DEF CheckSafeWaits
<1> HIDE DEF built, a
<1> SUFFICES ASSUME built.writes
             PROVE  \E i \in DOMAIN built.sequence :
                        /\ built.sequence[i].wait # NoWait
                        /\ \A j \in (i + 1)..Len(built.sequence) : ~Acts(built.sequence[j])
  BY <1>1 DEF SafeMutation, built
<1> DEFINE n == Len(a.sequence)
           acting == {i \in DOMAIN built.sequence : Acts(built.sequence[i])}
           last == Max(acting)
<1>3. n \in Nat /\ DOMAIN a.sequence = 1 .. n /\ DOMAIN built.sequence = 1 .. n
  <2>1. a.sequence \in Seq(MacroStep) BY <1>1, ActionFields
  <2> QED BY <1>1, <2>1
<1>4. Len(built.sequence) = n
  <2>1. built.sequence \in Seq({built.sequence[i] : i \in 1 .. n}) BY <1>1, <1>3
  <2> QED BY <1>3, <2>1
<1>5. /\ acting # {} /\ \/ built.sequence[last].wait # NoWait
                        \/ last < Len(built.sequence) /\ built.sequence[last + 1].kind = "wait_for"
  BY <1>2 DEF SafeWait
<1>6. last \in acting /\ \A s \in acting : s <= last
  <2>1. acting \in SUBSET (0 .. n) BY <1>3
  <2> HIDE DEF acting
  <2> QED BY <1>3, <1>5, <2>1, Greatest
<1> HIDE DEF n, last
<1>7. last \in 1 .. n /\ \A j \in 1 .. n : j > last => ~Acts(built.sequence[j])
  BY <1>3, <1>6
<1>8. CASE built.sequence[last].wait # NoWait BY <1>3, <1>4, <1>7, <1>8
<1>9. CASE last < Len(built.sequence) /\ built.sequence[last + 1].kind = "wait_for"
  <2>1. last + 1 \in 1 .. n BY <1>3, <1>4, <1>7, <1>9
  <2> DEFINE step == a.sequence[last + 1]
  <2>2. step \in Offered(a.evidence, a.parameter) /\ step.kind = "wait_for"
        /\ built.sequence[last + 1].wait = step.wait.loc
    BY <1>1, <1>3, <1>9, <2>1 DEF Asked, BuildStep
  <2>3. step.wait \in {Blank(Navigation)} \cup CandidateLocators(a.evidence)
    <3>1. \A k, t, l, w : Macro(k, t, l, w).kind = k /\ Macro(k, t, l, w).wait = w BY DEF Macro
    <3> HIDE DEF step
    <3> QED BY <2>2, <3>1 DEF Offered
  <2>4. \A id \in CandidateLocators(a.evidence) : id.loc # NoWait
    <3> SUFFICES ASSUME NEW id \in CandidateLocators(a.evidence) PROVE id.loc # NoWait OBVIOUS
    <3>1. id.rec \in DOMAIN catalog /\ id \in LocatorsOf(id.rec) BY <1>1, UsedIsKnown, ActionFields
    <3>2. PICK c \in catalog[id.rec].cands \cup OutputLocators(catalog[id.rec]) : c.loc = id.loc
      BY <3>1, LocatorSeen
    <3> QED BY <3>1, <3>2, CatalogFacts DEF OutputLocators
  <2>5. built.sequence[last + 1].wait # NoWait 
    <3>1. Blank(Navigation).loc # NoWait BY DEF Blank, NoWait, Navigation
    <3> QED BY <2>2, <2>3, <2>4, <3>1
  <2>6. \A j \in (last + 1 + 1)..Len(built.sequence) : ~Acts(built.sequence[j]) BY <1>3, <1>4, <1>7
  <2> QED BY <1>3, <2>1, <2>5, <2>6
<1> QED BY <1>5, <1>8, <1>9

\* What the bundle has, and the review in it.
BundleInv ==
    at \in Built =>
        /\ bundle.review.evidence = bundle.evidence /\ bundle.evidence # {}
        /\ bundle.review.profile.verifiedAt = Latest(bundle.evidence)
        /\ bundle.review.profile.expiresAfter = intent.expiry
        /\ \A r \in bundle.evidence : r.at \in Nat /\ r.at <= now

GuideInv ==
    /\ AnswersInv /\ failure \subseteq OperatorChoices
    /\ BundleInv /\ BundleIsSound /\ VerifiedIsReviewed

LEMMA InitGuide == GuideInit => GuideInv
BY InitAnswers DEF GuideInit, GuideInv, BundleInv, Built, BundleIsSound, VerifiedIsReviewed

\* Author refuses only for the operator's choices, and what it accepts is sound.
LEMMA AuthorKeeps == ASSUME GuideInv, Author PROVE GuideInv'
<1> DEFINE profile == Draft(Evidence, SpecOf)
           reviewed == Review(profile, Evidence, SpecOf.decisions, now)
<1>1. /\ at = "author" /\ catalog' = catalog /\ now' = now /\ AnswersInv /\ failure \subseteq OperatorChoices
      /\ catalog \in Catalogs /\ actions \in Seq(Action) /\ \A i \in DOMAIN actions : Answered(actions[i])
      /\ intent.origins # {} /\ intent.kind \in Kinds /\ intent.count \in 1..MaxActions
      /\ intent.origins \subseteq {catalog[e].origin : e \in DOMAIN catalog}
      /\ Len(actions) = intent.count /\ now \in Nat
  BY GuideAssumption DEF Author, GuideInv, AnswersInv
<1>2. IntentErrors \subseteq OperatorChoices
  <2>1. ValidateIntent = {} BY <1>1 DEF ValidateIntent
  <2>2. \A name \in DOMAIN actions : ActionErrors(actions[name], intent.origins) \subseteq OperatorChoices
    BY <1>1, AnsweredIsAccepted DEF OperatorChoices
  <2>3. (UNION {ActionErrors(actions[name], intent.origins) : name \in DOMAIN actions}) \subseteq OperatorChoices
    BY <2>2
  <2>4. "kind_mismatch" \in OperatorChoices /\ "future_evidence" \in OperatorChoices BY DEF OperatorChoices
  <2> QED BY <2>1, <2>3, <2>4 DEF IntentErrors
<1>3. DraftDiagnostics(Evidence, SpecOf) \subseteq OperatorChoices
  BY <1>1, ChecksLeaveChoices DEF DraftDiagnostics
<1>4. reviewed.gaps = CheckAt(profile, Evidence, SpecOf.decisions, now)
      /\ reviewed.profile = profile /\ reviewed.evidence = Evidence
      /\ reviewed.decisions = SpecOf.decisions
  BY DEF Review
<1>5. reviewed.gaps \subseteq OperatorChoices BY <1>1, <1>4, ChecksLeaveChoices
<1>6. ASSUME NEW reasons, Refuse(reasons), reasons \subseteq OperatorChoices PROVE GuideInv'
  <2>1. AnswersInv' BY <1>1, <1>6, RefuseKeeps
  <2>2. at' = "refused" /\ failure' = reasons BY <1>6 DEF Refuse
  <2> QED BY <1>6, <2>1, <2>2 DEF GuideInv, BundleInv, Built, BundleIsSound, VerifiedIsReviewed
<1>7. CASE IntentErrors # {} BY <1>2, <1>6, <1>7 DEF Author
<1>8. CASE IntentErrors = {} /\ DraftDiagnostics(Evidence, SpecOf) # {} BY <1>3, <1>6, <1>8 DEF Author
<1>9. CASE IntentErrors = {} /\ DraftDiagnostics(Evidence, SpecOf) = {} /\ ~Promotable(reviewed)
  BY <1>5, <1>6, <1>9 DEF Author
<1>10. CASE IntentErrors = {} /\ DraftDiagnostics(Evidence, SpecOf) = {} /\ Promotable(reviewed)
  <2>1. Verify(reviewed, profile, Evidence, now) BY <1>4, <1>10 DEF Verify, Promotable
  <2>2. /\ bundle' = [spec |-> SpecOf, evidence |-> Evidence, review |-> reviewed]
        /\ at' = "authored" /\ UNCHANGED <<intent, actions, action, left, failure>>
    BY <1>10, <2>1 DEF Author
  <2>3. bundle'.evidence = Evidence /\ bundle'.review.profile = profile /\ bundle'.review.evidence = Evidence
    BY <1>4, <2>2
  <2> HIDE DEF profile, reviewed
  <2>4. \A r \in Evidence : r.kind = intent.kind /\ r.at <= now /\ r.at \in Nat /\ r.origin \in intent.origins
    <3>1. \A r \in Evidence : r.kind = intent.kind BY <1>10 DEF IntentErrors
    <3>2. \A r \in Evidence : ~(r.at > now) BY <1>10 DEF IntentErrors
    <3>3. \A r \in Evidence : r.at \in Nat BY <1>1, EvidenceIsChosen
    <3>4. CheckOrigins(profile, Evidence) = {} BY <1>4, <1>10 DEF Promotable, CheckAt
    <3>5. profile.origins = intent.origins BY <1>1, ProfileActions DEF profile
    <3>6. \A r \in Evidence : r.origin \in intent.origins BY <3>4, <3>5 DEF CheckOrigins
    <3> QED BY <1>1, <3>1, <3>2, <3>3, <3>6
  <2>5. Evidence # {}
    <3>1. 1 \in DOMAIN actions BY <1>1, GuideAssumption
    <3>2. actions[1].evidence # {} BY <1>1, <3>1 DEF Answered, Asked
    <3>3. EvidenceOf(1, actions[1]) # {} BY <3>2 DEF EvidenceOf
    <3> QED BY <3>1, <3>3 DEF Evidence
  <2>6. CheckSafeWaits(profile) = {} BY <1>4, <1>10 DEF Promotable, CheckAt
  <2>7. ASSUME NEW name \in DOMAIN actions
        PROVE  /\ \A loc \in ActionLocators(profile.actions[name]) :
                    /\ \E e \in actions[name].evidence : \E id \in LocatorsOf(e) : id.loc = loc
                    /\ (\E r \in {q \in Evidence : q.hint = name} :
                            \E c \in r.cands \cup r.outputs : c.loc = loc /\ c.amb)
                            => \E id \in actions[name].resolved : id.loc = loc
               /\ SafeMutation(profile.actions[name])
               /\ profile.actions[name].outputs = Chosen(actions[name])
    <3>1. ASSUME NEW loc \in ActionLocators(profile.actions[name]),
                 NEW r \in {q \in Evidence : q.hint = name},
                 NEW c \in r.cands \cup r.outputs, c.loc = loc, c.amb
          PROVE  \E id \in actions[name].resolved : id.loc = loc
      <4>1. loc # NoLocator BY <1>1, <3>1, ActionsSupported DEF profile
      <4>2. c \in r.cands \cup OutputLocators(r) BY <3>1, <4>1 DEF OutputLocators
      <4>3. r \in Supporting(name, Evidence) BY DEF Supporting
      <4>4. Ambiguous(loc, Supporting(name, Evidence)) BY <3>1, <4>2, <4>3 DEF Ambiguous, Matching
      <4> QED BY <1>1, <3>1, <4>4, ActionsSupported DEF profile
    <3>2. \A loc \in ActionLocators(profile.actions[name]) :
            \E e \in actions[name].evidence : \E id \in LocatorsOf(e) : id.loc = loc
      BY <1>1, ActionsSupported DEF profile
    <3>3. SafeMutation(profile.actions[name]) BY <1>1, <2>6, WaitsAreSafe DEF profile
    <3>4. profile.actions[name].outputs = Chosen(actions[name]) BY <1>1, ProfileActions DEF profile
    <3> QED BY <3>1, <3>2, <3>3, <3>4
  <2>8. BundleIsSound'
    <3>1. \A e : LocatorsOf(e)' = LocatorsOf(e) BY <1>1, CatalogKept
    <3>2. \A name \in DOMAIN actions' : Grounded(name, bundle.review.profile)'
      BY <2>2, <2>3, <2>7, <3>1 DEF Grounded
    <3> QED BY <2>2, <2>3, <2>4, <2>7, <3>2 DEF BundleIsSound
  <2>9. BundleInv'
    <3>1. profile.expiresAfter = intent.expiry /\ profile.verifiedAt = Latest(Evidence)
      BY <1>1, ProfileActions DEF profile
    <3> QED BY <1>1, <2>2, <2>3, <2>4, <2>5, <3>1 DEF BundleInv
  <2>10. AnswersInv'
    <3>1. actions' \in Seq(Action)' /\ \A i \in DOMAIN actions' : Answered(actions[i])'
      BY <1>1, <2>2, EarlierKept
    <3>2. action' \in Action' BY <1>1, <2>2, CatalogKept DEF AnswersInv
    <3> QED BY <1>1, <2>2, <3>1, <3>2 DEF AnswersInv, Asking, Detailed, Built
  <2> QED BY <1>1, <2>2, <2>8, <2>9, <2>10 DEF GuideInv, VerifiedIsReviewed
<1> QED BY <1>7, <1>8, <1>9, <1>10

\* What was built stays as it was.
LEMMA BuiltStays ==
    ASSUME GuideInv, at \in Built, at' \in Built, now' \in now..MaxTime,
           UNCHANGED <<catalog, intent, actions, action, left, failure, bundle>>
    PROVE  AnswersInv' /\ BundleInv' /\ BundleIsSound' /\ failure' \subseteq OperatorChoices
<1>1. actions' \in Seq(Action)' /\ \A i \in DOMAIN actions' : Answered(actions[i])'
  BY EarlierKept DEF GuideInv
<1>2. action' \in Action' BY CatalogKept DEF GuideInv, AnswersInv
<1>3. now \in 0..MaxTime /\ now' \in 0..MaxTime /\ now <= now'
  BY GuideAssumption DEF GuideInv, AnswersInv
<1>4. AnswersInv' BY <1>1, <1>2, <1>3 DEF GuideInv, AnswersInv, Asking, Detailed, Built
<1>5. BundleInv' BY <1>3 DEF GuideInv, BundleInv
<1>6. BundleIsSound'
  <2>1. \A e : LocatorsOf(e)' = LocatorsOf(e) BY CatalogKept
  <2>2. BundleIsSound BY DEF GuideInv
  <2>3. \A name \in DOMAIN actions' : Grounded(name, bundle.review.profile)'
    BY <2>1, <2>2 DEF BundleIsSound, Built, Grounded
  <2> QED BY <2>2, <2>3 DEF BundleIsSound, Built
<1> QED BY <1>4, <1>5, <1>6 DEF GuideInv

LEMMA EditKeeps == ASSUME GuideInv, Edit PROVE GuideInv'
<1>1. /\ at \in Built /\ at' = "edited" /\ now' = now
      /\ UNCHANGED <<catalog, intent, actions, action, left, failure, bundle>>
  BY DEF Edit, Built
<1>2. now' \in now..MaxTime BY <1>1, GuideAssumption DEF GuideInv, AnswersInv
<1>3. at' \in Built BY <1>1 DEF Built
<1> QED BY <1>1, <1>2, <1>3, BuiltStays DEF GuideInv, VerifiedIsReviewed

\* A profile verifies only before it expires: when some record of its evidence,
\* the latest, is not older than the expiry allows.
LEMMA VerifyKeeps == ASSUME GuideInv, VerifyBundle PROVE GuideInv'
<1>1. /\ at \in Built /\ now' \in now..MaxTime
      /\ at' = IF Verify(bundle.review, hand.profile, hand.evidence, now') THEN "verified" ELSE "unverified"
      /\ UNCHANGED <<catalog, intent, actions, action, left, failure, bundle, hand>>
  BY DEF VerifyBundle, Built
<1>2. at' \in Built BY <1>1 DEF Built
<1>3. AnswersInv' /\ BundleInv' /\ BundleIsSound' /\ failure' \subseteq OperatorChoices
  BY <1>1, <1>2, BuiltStays
<1>4. ASSUME at' = "verified"
      PROVE  /\ hand'.profile = bundle'.review.profile /\ hand'.evidence = bundle'.evidence
             /\ \E r \in bundle'.evidence : now' < r.at + intent'.expiry
             /\ \A r \in bundle'.evidence : r.at <= now'
  <2>1. Verify(bundle.review, hand.profile, hand.evidence, now') BY <1>1, <1>4
  <2>2. hand.profile = bundle.review.profile /\ hand.evidence = bundle.review.evidence
        /\ CheckAt(hand.profile, hand.evidence, bundle.review.decisions, now') = {}
    BY <2>1 DEF Verify
  <2>3. /\ bundle.review.evidence = bundle.evidence /\ bundle.evidence # {}
        /\ bundle.review.profile.verifiedAt = Latest(bundle.evidence)
        /\ bundle.review.profile.expiresAfter = intent.expiry
        /\ \A r \in bundle.evidence : r.at \in Nat /\ r.at <= now
    BY <1>1 DEF GuideInv, BundleInv
  <2>4. now' < Latest(bundle.evidence) + intent.expiry
    <3>1. CheckExpiry(bundle.review.profile, now') = {} BY <2>2 DEF CheckAt
    <3> QED BY <2>3, <3>1 DEF CheckExpiry, ExpiresAt
  <2>5. now \in Nat /\ now' \in Nat /\ now <= now' BY <1>1, GuideAssumption DEF GuideInv, AnswersInv
  <2>6. Latest(bundle.evidence) \in {r.at : r \in bundle.evidence}
    <3> DEFINE S == {r.at : r \in bundle.evidence}
    <3>1. S \in SUBSET (0 .. now) /\ S # {} BY <2>3, <2>5
    <3> HIDE DEF S
    <3>2. Max(S) \in S BY <2>5, <3>1, Greatest
    <3> QED BY <3>2 DEF Latest, S
  <2>7. PICK r \in bundle.evidence : r.at = Latest(bundle.evidence) BY <2>6
  <2>8. \A q \in bundle.evidence : q.at <= now' BY <2>3, <2>5
  <2> QED BY <1>1, <2>2, <2>3, <2>4, <2>7, <2>8
<1> QED BY <1>3, <1>4 DEF GuideInv, VerifiedIsReviewed

\* While questions are asked there is no bundle.
LEMMA WizardKeeps == ASSUME GuideInv, Wizard PROVE GuideInv'
<1>1. AnswersInv /\ failure \subseteq OperatorChoices BY DEF GuideInv
<1>2. AnswersInv'
  <2>1. CASE StreamEnds BY <1>1, <2>1, RefuseKeeps DEF StreamEnds
  <2> QED BY <1>1, <2>1, ProfileKeeps, EvidenceKeeps, OutputsKeep, DeclarationKeeps, MacrosKeep,
             MacroKeeps, PolicyKeeps, RationalesKeep DEF Wizard
<1>3. at' \notin Built /\ failure' \subseteq OperatorChoices
  <2>1. CASE AnswerProfile \/ AnswerEvidence \/ AnswerOutputs
    BY <1>1, <2>1 DEF AnswerProfile, AnswerEvidence, AnswerOutputs, Built
  <2>2. CASE AnswerDeclaration \/ AnswerMacros \/ AnswerMacro
    BY <1>1, <2>2 DEF AnswerDeclaration, AnswerMacros, AnswerMacro, Built
  <2>3. CASE AnswerPolicy BY <1>1, <2>3 DEF AnswerPolicy, Refuse, Built
  <2>4. CASE AnswerRationales BY <1>1, <2>4 DEF AnswerRationales, FinishAction, Built
  <2>5. CASE StreamEnds BY <2>5 DEF StreamEnds, Refuse, Built
  <2> QED BY <2>1, <2>2, <2>3, <2>4, <2>5 DEF Wizard
<1> QED BY <1>2, <1>3 DEF GuideInv, BundleInv, BundleIsSound, VerifiedIsReviewed, Built

LEMMA NextGuide == GuideInv /\ [GuideNext]_guideVars => GuideInv'
<1> SUFFICES ASSUME GuideInv, [GuideNext]_guideVars PROVE GuideInv' OBVIOUS
<1>1. CASE UNCHANGED guideVars
  <2>1. UNCHANGED <<catalog, at, intent, actions, action, left, failure, bundle, hand, now>>
    BY <1>1 DEF guideVars
  <2>2. actions' \in Seq(Action)' /\ \A i \in DOMAIN actions' : Answered(actions[i])'
    BY <2>1, EarlierKept DEF GuideInv
  <2>3. action' \in Action' BY <2>1, CatalogKept DEF GuideInv, AnswersInv
  <2>4. Asked(action)' <=> Asked(action) BY <2>1, CatalogKept DEF Asked
  <2>5. AnswersInv' BY <2>1, <2>2, <2>3, <2>4 DEF GuideInv, AnswersInv
  <2>6. CASE at \in Built
    <3>1. now' \in now..MaxTime BY <2>1, GuideAssumption DEF GuideInv, AnswersInv
    <3>2. BundleInv' /\ BundleIsSound' BY <2>1, <2>6, <3>1, BuiltStays
    <3> QED BY <2>1, <2>5, <3>2 DEF GuideInv, VerifiedIsReviewed
  <2>7. CASE at \notin Built
    BY <2>1, <2>5, <2>7 DEF GuideInv, BundleInv, BundleIsSound, VerifiedIsReviewed, Built
  <2> QED BY <2>6, <2>7
<1> QED BY <1>1, WizardKeeps, AuthorKeeps, EditKeeps, VerifyKeeps DEF GuideNext

-----------------------------------------------------------------------------
(* Theorems of guided authoring.                                           *)

\* Answers given to the end are refused only for what the wizard leaves to the
\* operator, never for something it offered or forgot to ask for.
THEOREM AnswersAreEnough == GuideSpec => []AnswersSuffice
<1>1. ASSUME GuideInv PROVE AnswersSuffice
  <2>1. Len(actions) <= MaxActions
    <3>1. CASE actions = <<>> BY <3>1, GuideAssumption
    <3>2. CASE actions # <<>>
      <4>1. intent.count \in 1..MaxActions /\ Len(actions) <= intent.count /\ Len(actions) \in Nat
        BY <1>1, <3>2, GuideAssumption DEF GuideInv, AnswersInv, Asking, Detailed
      <4> QED BY <4>1, GuideAssumption
    <3> QED BY <3>1, <3>2
  <2> QED BY <1>1, <2>1 DEF GuideInv, AnswersInv, AnswersSuffice, GuideTypeOK, Asking, Built
<1> QED BY <1>1, InitGuide, NextGuide, PTL DEF GuideSpec

\* A bundle says only what its own evidence and rationales support.
THEOREM SoundBundle == GuideSpec => []BundleIsSound
<1>1. GuideInv => BundleIsSound BY DEF GuideInv
<1> QED BY <1>1, InitGuide, NextGuide, PTL DEF GuideSpec

\* What verifies is what was reviewed, before it expires.
THEOREM ReviewedAsVerified == GuideSpec => []VerifiedIsReviewed
<1>1. GuideInv => VerifiedIsReviewed BY DEF GuideInv
<1> QED BY <1>1, InitGuide, NextGuide, PTL DEF GuideSpec
=============================================================================
