--------------------------- MODULE GuidedAuthoring ---------------------------
(***************************************************************************)
(* Guided authoring (guide/wizard.go, guide/guide.go): RunWizard asks an   *)
(* operator about normalized evidence, one question at a time, and Author  *)
(* turns the answers into a reviewed bundle, or refuses them.  Later the   *)
(* bundle is verified against the profile and evidence at hand.            *)
(*                                                                         *)
(* An answer the wizard does not accept is asked again and changes         *)
(* nothing; questions whose answers are free text nothing depends on       *)
(* (titles, names, descriptions, prompts, rationales) are left out.        *)
(***************************************************************************)
EXTENDS ProfileReview

CONSTANTS
    Catalogs,       \* the evidence: functions from record IDs to normalized records
    Targets,        \* navigate targets, [absolute, origin]
    Expiries,       \* the expiry durations an operator may give
    Assessments,    \* the times at which a questionnaire may be assessed
    MaxActions, MaxMacros, MaxOutputs, MaxEvidence, MaxParameters,
                    \* bounds on one questionnaire as a whole
    MaxTime         \* bound on the clock

Kinds == {"accessibility_snapshot", "dom_text"}

\* Records are normalized; "none", NoLocator, NoWait and Navigation stand for what
\* an answer leaves out or names instead, and are no record and no locator.
ASSUME GuideAssumption ==
    /\ \A c \in Catalogs : "none" \notin DOMAIN c
    /\ \A c \in Catalogs : \A e \in DOMAIN c :
            /\ DOMAIN c[e] = {"origin", "kind", "at", "hint", "cands", "outputs"}
            /\ Normalized(c[e]) /\ c[e].at \in Nat /\ c[e].kind \in Kinds
            /\ \A x \in c[e].cands : x.loc # NoLocator
            /\ \A x \in c[e].cands \cup c[e].outputs : x.loc \notin {NoWait, Navigation}
    /\ Expiries \subseteq Nat \ {0} /\ Assessments \subseteq 0..MaxTime
    /\ {MaxActions, MaxMacros, MaxOutputs, MaxEvidence, MaxParameters, MaxTime} \subseteq Nat

VARIABLES
    catalog,    \* the evidence the questionnaire is about
    at,         \* the question on screen, or how the authoring ended
    intent,     \* the answers about the profile: origins, kind, expiry, actions to come
    actions,    \* the answered actions, by number
    action,     \* the action being asked about
    left,       \* the declarations, macros or rationales still to ask for
    failure,    \* why Author refused: a set of reasons
    bundle,     \* the bundle Author returned
    hand,       \* the profile and the evidence at hand when it is verified
    now         \* assessedAt, and then the time of verification

guideVars == <<catalog, at, intent, actions, action, left, failure, bundle, hand, now>>

NoAction == [evidence |-> {}, parameter |-> FALSE, outputs |-> {}, declared |-> {},
             sequence |-> <<>>, writes |-> FALSE, confirmed |-> FALSE, resolved |-> {}]
NoIntent == [origins |-> {}, kind |-> "none", expiry |-> 0, count |-> 0]
NoBundle == [spec |-> {}, evidence |-> {}, review |-> {}]

-----------------------------------------------------------------------------
(* NewCatalog: the local IDs.  A locator or output ID names its record. *)

\* A record's own locators, and those of outputs it does not list already.
LocatorsOf(e) ==
    {[rec |-> e, loc |-> c.loc, amb |-> c.amb] : c \in catalog[e].cands}
        \cup {[rec |-> e, loc |-> l, amb |-> \E o \in OutputLocators(catalog[e]) : o.loc = l /\ o.amb] :
                l \in {o.loc : o \in OutputLocators(catalog[e])} \ {c.loc : c \in catalog[e].cands}}
LocatorByID == UNION {LocatorsOf(e) : e \in DOMAIN catalog}
OutputByID == UNION {{[rec |-> e, out |-> o] : o \in catalog[e].outputs} : e \in DOMAIN catalog}
Bound(id) == id.out.source # "unbound"
\* The last of a record's locators with the output's identity: a plain one, if any.
LocatorOfOutput(id) ==
    LET same == {l \in LocatorsOf(id.rec) : l.loc = id.out.loc}
        plain == {l \in same : ~l.amb} IN
    IF plain # {} THEN plain ELSE same

\* Slip: the wizard offers the locators of all records.
AllLocators(evidence) == LocatorByID

CandidateLocators(evidence) == UNION {LocatorsOf(e) : e \in evidence}
CandidateOutputs(evidence) == {id \in OutputByID : id.rec \in evidence /\ Bound(id)}
UnboundOutputs(evidence) == {id \in OutputByID : id.rec \in evidence /\ ~Bound(id)}
LocatorAmbiguous(evidence, loc) == Ambiguous(loc, {catalog[e] : e \in evidence})

\* The locators an action uses, by ID; an answer that names none is an ID of no record.
Blank(answer) == [rec |-> "none", loc |-> answer, amb |-> FALSE]
IDsAmong(answers) == {id \in answers : id.rec # "none"}
StepUses(step) == IDsAmong({step.locator, step.wait})
UsedBySteps(a) == UNION {StepUses(a.sequence[i]) : i \in DOMAIN a.sequence}
UsedByOutputs(a) == (UNION {LocatorOfOutput(id) : id \in a.outputs})
                        \cup IDsAmong({d.locator : d \in a.declared})
Used(a) == UsedBySteps(a) \cup UsedByOutputs(a)

GuideInit ==
    /\ catalog \in Catalogs /\ now \in Assessments
    /\ at = "profile" /\ left = 0 /\ failure = {}
    /\ intent = NoIntent /\ actions = <<>> /\ action = NoAction
    /\ bundle = NoBundle /\ hand = [profile |-> {}, evidence |-> {}]

-----------------------------------------------------------------------------
(* RunWizard *)

\* An error: nothing of the answers is kept.
Refuse(reasons) ==
    /\ at' = "refused" /\ failure' = reasons
    /\ intent' = NoIntent /\ actions' = <<>> /\ action' = NoAction /\ left' = 0
    /\ UNCHANGED <<bundle, hand>>

\* The questions about the profile as a whole; a kind no record has is not tried.
AnswerProfile ==
    /\ at = "profile"
    /\ \E origins \in (SUBSET {catalog[e].origin : e \in DOMAIN catalog}) \ {{}},
          kind \in {catalog[e].kind : e \in DOMAIN catalog}, expiry \in Expiries, count \in 1..MaxActions :
            intent' = [origins |-> origins, kind |-> kind, expiry |-> expiry, count |-> count]
    /\ at' = "evidence"
    /\ UNCHANGED <<catalog, actions, action, left, failure, bundle, hand, now>>

\* What a questionnaire used of a bound so far.
Size(a) ==
    [outputs |-> Cardinality(a.outputs) + Cardinality(a.declared), macros |-> Len(a.sequence),
     evidence |-> Cardinality(a.evidence), parameters |-> IF a.parameter THEN 1 ELSE 0]
Given(what) == Size(action)[what]
    + FoldFunctionOnSet(+, 0, [i \in DOMAIN actions |-> Size(actions[i])[what]], DOMAIN actions)

\* runActionQuestions: the supporting evidence, and whether it takes a parameter.
AnswerEvidence ==
    /\ at = "evidence"
    /\ \E evidence \in (SUBSET DOMAIN catalog) \ {{}}, parameter \in BOOLEAN :
            /\ Given("evidence") + Cardinality(evidence) <= MaxEvidence
            /\ parameter => Given("parameters") < MaxParameters
            /\ action' = [NoAction EXCEPT !.evidence = evidence, !.parameter = parameter]
            /\ at' = "outputs"
    /\ UNCHANGED <<catalog, intent, actions, left, failure, bundle, hand, now>>

\* The bound outputs, asked for only when the evidence has some, and then how
\* many of the unbound hints to declare.
AnswerOutputs ==
    /\ at = "outputs"
    /\ \E outputs \in SUBSET CandidateOutputs(action.evidence),
          declarations \in 0..MaxOutputs :
            /\ declarations <= Cardinality(UnboundOutputs(action.evidence))
            /\ Given("outputs") + Cardinality(outputs) + declarations <= MaxOutputs
            /\ action' = [action EXCEPT !.outputs = outputs]
            /\ left' = declarations
            /\ at' = IF declarations = 0 THEN "macros" ELSE "declaration"
    /\ UNCHANGED <<catalog, intent, actions, failure, bundle, hand, now>>

\* One declaration: a hint not declared yet gets a source.
AnswerDeclaration ==
    /\ at = "declaration"
    /\ \E hint \in UnboundOutputs(action.evidence) \ {d.hint : d \in action.declared} :
          \E source \in {"a11y", "jsonld"} :
            \E locator \in IF source = "a11y" THEN CandidateLocators(action.evidence) ELSE {Blank(NoLocator)} :
                action' = [action EXCEPT !.declared =
                    @ \cup {[hint |-> hint, source |-> source, locator |-> locator]}]
    /\ left' = left - 1
    /\ at' = IF left = 1 THEN "macros" ELSE "declaration"
    /\ UNCHANGED <<catalog, intent, actions, failure, bundle, hand, now>>

AnswerMacros ==
    /\ at = "macros"
    /\ left' \in 1..MaxMacros /\ Given("macros") + left' <= MaxMacros
    /\ at' = "macro"
    /\ UNCHANGED <<catalog, intent, actions, action, failure, bundle, hand, now>>

\* runStepQuestions: what the wizard lets an operator make of one macro.  A
\* click, check or uncheck is one kind, typing and selecting another.
Macro(kind, target, locator, wait) ==
    [kind |-> kind, target |-> target, locator |-> locator, wait |-> wait]
NoTarget == [absolute |-> FALSE, origin |-> "none"]
Offered(evidence, parameter) ==
    LET locators == CandidateLocators(evidence)
        waits == {Blank(Navigation)} \cup locators IN
    {Macro("navigate", target, Blank(NoLocator), Blank(NoWait)) : target \in Targets}
        \cup {Macro(kind, NoTarget, locator, wait) :
                kind \in {"click"} \cup (IF parameter THEN {"fill"} ELSE {}),
                locator \in locators, wait \in waits \cup {Blank(NoWait)}}
        \cup {Macro("wait_for", NoTarget, Blank(NoLocator), wait) : wait \in waits}
AnswerMacro ==
    /\ at = "macro"
    /\ \E macro \in Offered(action.evidence, action.parameter) :
            action' = [action EXCEPT !.sequence = Append(@, macro)]
    /\ left' = left - 1
    /\ at' = IF left = 1 THEN "effects" ELSE "macro"
    /\ UNCHANGED <<catalog, intent, actions, failure, bundle, hand, now>>

\* An action is complete: the next one, or Author.
FinishAction(a) ==
    /\ actions' = Append(actions, a) /\ action' = NoAction
    /\ at' = IF Len(actions) + 1 = intent.count THEN "author" ELSE "evidence"

\* The side effects and the confirmation; a mutation nobody confirms is refused.
AnswerPolicy ==
    /\ at = "effects"
    /\ \E writes, confirmed \in BOOLEAN :
            IF writes /\ ~confirmed THEN Refuse({})
            ELSE /\ action' = [action EXCEPT !.writes = writes, !.confirmed = confirmed]
                 /\ at' = "rationales"
                 /\ UNCHANGED <<intent, actions, left, failure, bundle, hand>>
    /\ UNCHANGED <<catalog, now>>

\* A rationale for every ambiguous locator the action uses, one after the other.
AnswerRationales ==
    /\ at = "rationales"
    /\ FinishAction([action EXCEPT !.resolved =
            {id \in Used(action) : LocatorAmbiguous(action.evidence, id.loc)}])
    /\ UNCHANGED <<catalog, intent, left, failure, bundle, hand, now>>

\* The end of the answers, or a choice with nothing to choose from.
StreamEnds ==
    /\ at \in {"profile", "evidence", "outputs", "declaration", "macros", "macro", "effects", "rationales"}
    /\ Refuse({})
    /\ UNCHANGED <<catalog, now>>

-----------------------------------------------------------------------------
(* Author *)

Selected(a, id) == id.rec \in a.evidence
KnownLocator(a, id) == id \in LocatorByID /\ Selected(a, id)

\* buildStep
StepErrors(a, step) ==
    {"outside_selection" : id \in {u \in StepUses(step) : ~KnownLocator(a, u)}}
        \cup (IF step.kind = "fill" /\ ~a.parameter THEN {"undeclared_parameter"} ELSE {})

\* The outputs of an action: the chosen ones and the declared ones.
Chosen(a) ==
    {ProfileOutput(id.out) : id \in a.outputs}
        \cup {[key |-> d.hint.out.key, source |-> d.source,
               loc |-> d.locator.loc] : d \in a.declared}
OutputErrors(a) ==
    {"outside_selection" : id \in {o \in a.outputs \cup {d.hint : d \in a.declared} : ~Selected(a, o)}}
        \cup {"unbound_output" : id \in {o \in a.outputs : ~Bound(o)}}
        \cup {"bound_hint" : d \in {e \in a.declared : Bound(e.hint)}}
        \cup {"duplicate_hint" : d \in {e \in a.declared : \E f \in a.declared : f # e /\ f.hint = e.hint}}
        \cup {"outside_selection" :
                d \in {e \in a.declared : IDsAmong({e.locator}) # {} /\ ~KnownLocator(a, e.locator)}}
        \cup {"output_conflict" : o \in {p \in Chosen(a) : \E q \in Chosen(a) : q.key = p.key /\ q # p}}

\* validateActionTemplates: an absolute target is on an approved origin, a
\* relative one has only one origin to be relative to.
TemplateErrors(a, origins) ==
    {"navigate_target" : i \in {j \in DOMAIN a.sequence :
        LET step == a.sequence[j] IN
        step.kind = "navigate"
            /\ IF step.target.absolute THEN step.target.origin \notin origins
               ELSE Cardinality(origins) # 1}}

\* buildDecisions: a rationale for each ambiguous locator used, and no other.
DecisionErrors(a) ==
    LET ambiguous == {id \in Used(a) : LocatorAmbiguous(a.evidence, id.loc)} IN
    {"ambiguity_undecided" : id \in ambiguous \ a.resolved}
        \cup {"unused_resolution" : id \in a.resolved \ ambiguous}

\* buildAction
ActionErrors(a, origins) ==
    (UNION {StepErrors(a, a.sequence[i]) : i \in DOMAIN a.sequence})
        \cup OutputErrors(a)
        \cup (IF a.writes /\ ~a.confirmed THEN {"unconfirmed_mutation"} ELSE {})
        \cup TemplateErrors(a, origins)
        \cup DecisionErrors(a)

EvidenceOf(name, a) == {[catalog[e] EXCEPT !.hint = name] : e \in a.evidence}
DecisionsOf(name, a) == {[action |-> name, loc |-> id.loc] : id \in a.resolved}
BuildStep(step) ==
    [kind |-> step.kind, target |-> step.target,
     loc |-> step.locator.loc, wait |-> step.wait.loc]

\* Slip: an action with no chosen output has none declared, and draft imports some.
BuildActionUndeclared(a) ==
    [sequence |-> [i \in DOMAIN a.sequence |-> BuildStep(a.sequence[i])],
     outputs |-> Chosen(a), import |-> Chosen(a) = {}, writes |-> a.writes, confirmed |-> a.confirmed]

BuildAction(a) ==
    [sequence |-> [i \in DOMAIN a.sequence |-> BuildStep(a.sequence[i])],
     outputs |-> Chosen(a), import |-> FALSE, writes |-> a.writes, confirmed |-> a.confirmed]

Evidence == UNION {EvidenceOf(name, actions[name]) : name \in DOMAIN actions}
SpecOf ==
    [origins |-> intent.origins, kind |-> intent.kind, expiresAfter |-> intent.expiry,
     actions |-> [name \in DOMAIN actions |-> BuildAction(actions[name])],
     decisions |-> UNION {DecisionsOf(name, actions[name]) : name \in DOMAIN actions}]

\* validateIntent, for what is not free text.
ValidateIntent ==
    (IF intent.origins # {} /\ intent.origins \subseteq {catalog[e].origin : e \in DOMAIN catalog}
     THEN {} ELSE {"unknown_origin"})
        \cup (IF intent.kind \in Kinds THEN {} ELSE {"unsupported_kind"})
        \cup (IF Len(actions) \in 1..MaxActions THEN {} ELSE {"action_count"})

\* What Author checks itself, of every action and of the evidence as a whole.
IntentErrors == ValidateIntent \cup
    (UNION {ActionErrors(actions[name], intent.origins) : name \in DOMAIN actions})
        \cup {"kind_mismatch" : r \in {s \in Evidence : s.kind # intent.kind}}
        \cup {"future_evidence" : r \in {s \in Evidence : s.at > now}}

Author ==
    /\ at = "author"
    /\ LET profile == Draft(Evidence, SpecOf)
           reviewed == Review(profile, Evidence, SpecOf.decisions, now) IN
       IF IntentErrors # {} THEN Refuse(IntentErrors)
       ELSE IF DraftDiagnostics(Evidence, SpecOf) # {} THEN Refuse(DraftDiagnostics(Evidence, SpecOf))
       ELSE IF ~Promotable(reviewed) THEN Refuse(reviewed.gaps)
       ELSE IF ~Verify(reviewed, profile, Evidence, now) THEN Refuse({"unverified"})
       ELSE /\ bundle' = [spec |-> SpecOf, evidence |-> Evidence, review |-> reviewed]
            /\ hand' = [profile |-> profile, evidence |-> Evidence]
            /\ at' = "authored"
            /\ UNCHANGED <<intent, actions, action, left, failure>>
    /\ UNCHANGED <<catalog, now>>

-----------------------------------------------------------------------------
(* After the bundle: the profile and the evidence at hand may be other ones, *)
(* and some time later they are verified against the review.                *)

Edit ==
    /\ at = "authored"
    /\ \/ hand' = [hand EXCEPT !.profile.expiresAfter = @ + 1]
       \/ \E r \in hand.evidence :
            hand' = [hand EXCEPT !.evidence = (@ \ {r}) \cup {[r EXCEPT !.at = @ + 1]}]
    /\ at' = "edited"
    /\ UNCHANGED <<catalog, intent, actions, action, left, failure, bundle, now>>

VerifyBundle ==
    /\ at \in {"authored", "edited"}
    /\ now' \in now..MaxTime
    /\ at' = IF Verify(bundle.review, hand.profile, hand.evidence, now') THEN "verified" ELSE "unverified"
    /\ UNCHANGED <<catalog, intent, actions, action, left, failure, bundle, hand>>

Wizard == AnswerProfile \/ AnswerEvidence \/ AnswerOutputs \/ AnswerDeclaration \/ AnswerMacros
    \/ AnswerMacro \/ AnswerPolicy \/ AnswerRationales \/ StreamEnds
GuideNext == Wizard \/ Author \/ Edit \/ VerifyBundle
GuideSpec == GuideInit /\ [][GuideNext]_guideVars

-----------------------------------------------------------------------------
(* Properties *)

GuideTypeOK ==
    /\ catalog \in Catalogs /\ now \in 0..MaxTime
    /\ at \in {"profile", "evidence", "outputs", "declaration", "macros", "macro", "effects",
               "rationales", "author", "refused", "authored", "edited", "verified", "unverified"}
    /\ Len(actions) <= MaxActions /\ left \in 0..(MaxMacros + MaxOutputs)

\* A questionnaire that was answered to its end is refused only for a choice the
\* wizard leaves to the operator: the origins, kind, times and keys of what was
\* chosen, where a navigation leads, and a mutation that does not wait.  It is
\* never refused for an identifier the wizard offered, a rationale it did not ask
\* for, or asked for in vain (the prompts of wizard.go against the checks of
\* guide.go, draft, revalidate and review).
OperatorChoices == {"origin_mismatch", "kind_mismatch", "future_evidence", "output_conflict",
    "expired", "navigate_target", "invalid_profile", "side_effect_no_safe_wait"}
AnswersSuffice == GuideTypeOK /\ failure \subseteq OperatorChoices

\* Every locator an action of the bundle declares was seen in evidence chosen for
\* that very action, and an operator gave that action a rationale when any of it
\* calls the locator ambiguous; its outputs are the chosen ones, none inferred; a
\* mutation is confirmed and nothing acts after its last wait; and the evidence is
\* of the profile's kind and origins, observed before the assessment, and not expired.
Grounded(name, profile) ==
    LET mine == {r \in bundle.evidence : r.hint = name} IN
    \A loc \in ActionLocators(profile.actions[name]) :
        /\ \E e \in actions[name].evidence : \E id \in LocatorsOf(e) : id.loc = loc
        /\ (\E r \in mine : \E c \in r.cands \cup r.outputs : c.loc = loc /\ c.amb)
                => \E id \in actions[name].resolved : id.loc = loc
SafeMutation(a) ==
    a.writes => /\ a.confirmed
                /\ \E i \in DOMAIN a.sequence :
                        /\ a.sequence[i].wait # NoWait
                        /\ \A j \in (i + 1)..Len(a.sequence) : ~Acts(a.sequence[j])
BundleIsSound ==
    at \in {"authored", "edited", "verified", "unverified"} =>
        LET profile == bundle.review.profile IN
        /\ \A name \in DOMAIN actions :
                /\ Grounded(name, profile)
                /\ SafeMutation(profile.actions[name])
                /\ profile.actions[name].outputs = Chosen(actions[name])
        /\ \A r \in bundle.evidence : r.origin \in intent.origins /\ r.kind = intent.kind

\* A profile and its evidence verify against the review exactly as they were
\* reviewed, and only before the profile expires, whatever was edited meanwhile.
VerifiedIsReviewed ==
    at = "verified" =>
        /\ hand.profile = bundle.review.profile /\ hand.evidence = bundle.evidence
        /\ \E r \in bundle.evidence : now < r.at + intent.expiry
        /\ \A r \in bundle.evidence : r.at <= now
=============================================================================
