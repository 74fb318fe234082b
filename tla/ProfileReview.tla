---------------------------- MODULE ProfileReview ----------------------------
(***************************************************************************)
(* Evidence, drafts, revalidation and reviews (evidence/, draft/,          *)
(* revalidate/, review/ and the semantic checks of profile/validate.go):   *)
(* pure operators over normalized records, typed profiles and decisions.   *)
(*                                                                         *)
(* A portable locator (role, name, text, value) is one value.  A digest is *)
(* the value it is taken of.  A diagnostic is its kind.                    *)
(***************************************************************************)
EXTENDS Naturals, Sequences, FiniteSets, FiniteSetsExt

NoLocator == "no locator"
NoWait == "no wait"
Here == "here"                  \* the host of a plain relative target
Navigation == "navigation"      \* a wait for load, domcontentloaded or networkidle

\* The locators a record offers: those it lists and those of its outputs.
OutputLocators(record) == {o \in record.outputs : o.loc # NoLocator}
Matching(loc, records) ==
    UNION {{c \in r.cands \cup OutputLocators(r) : c.loc = loc} : r \in records}
Ambiguous(loc, records) == \E c \in Matching(loc, records) : c.amb

\* Only an accessibility output carries a locator.
ValidOutput(o) ==
    /\ o.source \in {"unbound", "a11y", "jsonld", "microdata", "css"}
    /\ o.source = "a11y" <=> o.loc # NoLocator
\* What Normalize accepts; a record it accepted is a set of locators and outputs,
\* whatever their order.
Normalized(record) == \A o \in record.outputs : ValidOutput(o)

-----------------------------------------------------------------------------
(* The profile's own rules. *)

Acts(step) == step.kind \in {"click", "fill"}

\* Step.Locator and PostWait: a wait_for waits for its own locator.
StepLocators(step) == ({step.loc} \cup {step.wait}) \ {NoLocator, NoWait, Navigation}
ActionLocators(action) ==
    (UNION {StepLocators(action.sequence[i]) : i \in DOMAIN action.sequence})
        \cup {o.loc : o \in {p \in action.outputs : p.source = "a11y"}}

\* literalTargetAllowed: a relative target is resolved against the only origin;
\* one that names a host (//host/path) is relative and yet leaves it.
TargetAllowed(target, origins) ==
    IF target.absolute THEN target.origin \in origins
    ELSE Cardinality(origins) = 1 /\ target.origin \in origins \cup {Here}
\* Check
CheckProfile(profile) ==
    IF \E a \in DOMAIN profile.actions : \E i \in DOMAIN profile.actions[a].sequence :
            LET step == profile.actions[a].sequence[i] IN
            step.kind = "navigate" /\ ~TargetAllowed(step.target, profile.origins)
    THEN {"invalid_profile"} ELSE {}

-----------------------------------------------------------------------------
(* revalidate.CheckAt *)

CheckRecords(records) ==
    IF \A r \in records : Normalized(r) THEN {} ELSE {"invalid_evidence"}

CheckOrigins(profile, records) ==
    IF \A r \in records : r.origin \in profile.origins THEN {} ELSE {"origin_mismatch"}

HasDecision(name, loc, decisions) == [action |-> name, loc |-> loc] \in decisions

Supporting(name, records) == {r \in records : r.hint = name}

CheckAction(profile, name, records, decisions) ==
    LET mine == Supporting(name, records)
        declared == ActionLocators(profile.actions[name]) IN
    IF mine = {} THEN {"missing_evidence"}
    ELSE {"missing_locator" : loc \in {l \in declared : Matching(l, mine) = {}}}
            \cup {"ambiguous_locator" :
                    loc \in {l \in declared : Ambiguous(l, mine) /\ ~HasDecision(name, l, decisions)}}
CheckEvidence(profile, records, decisions) ==
    UNION {CheckAction(profile, name, records, decisions) : name \in DOMAIN profile.actions}

ExpiresAt(profile) == profile.verifiedAt + profile.expiresAfter
CheckExpiry(profile, now) == IF now < ExpiresAt(profile) THEN {} ELSE {"expired"}

\* checkSafeWaits: the last actionable macro waits, or the next one is a wait.
SafeWait(action) ==
    LET acting == {i \in DOMAIN action.sequence : Acts(action.sequence[i])}
        last == Max(acting) IN
    /\ acting # {}
    /\ \/ action.sequence[last].wait # NoWait
       \/ last < Len(action.sequence) /\ action.sequence[last + 1].kind = "wait_for"

CheckSafeWaits(profile) ==
    IF \A a \in DOMAIN profile.actions : profile.actions[a].writes => SafeWait(profile.actions[a])
    THEN {} ELSE {"side_effect_no_safe_wait"}

CheckAt(profile, records, decisions, now) ==
    CheckProfile(profile) \cup CheckRecords(records) \cup CheckOrigins(profile, records)
        \cup CheckEvidence(profile, records, decisions) \cup CheckExpiry(profile, now)
        \cup CheckSafeWaits(profile)

-----------------------------------------------------------------------------
(* draft.Build, review.Build and review.Verify *)

\* timeRange: the profile was verified when its latest evidence was observed.
Latest(records) == Max({r.at : r \in records})
\* candidateOutputs: what an action whose author gave no outputs takes from its
\* evidence, one output for each key.
ProfileOutput(o) == [key |-> o.key, source |-> o.source, loc |-> o.loc]
ImportedOutputs(name, records) ==
    LET bound == {o \in UNION {r.outputs : r \in Supporting(name, records)} : o.source # "unbound"} IN
    {ProfileOutput(CHOOSE o \in bound : o.key = k) : k \in {o.key : o \in bound}}
DraftAction(name, given, records) ==
    [sequence |-> given.sequence, writes |-> given.writes, confirmed |-> given.confirmed,
     outputs |-> IF given.import THEN ImportedOutputs(name, records) ELSE given.outputs]
Draft(records, spec) ==
    [origins |-> spec.origins, kind |-> spec.kind, expiresAfter |-> spec.expiresAfter,
     verifiedAt |-> Latest(records),
     actions |-> [a \in DOMAIN spec.actions |-> DraftAction(a, spec.actions[a], records)]]
DraftDiagnostics(records, spec) ==
    CheckAt(Draft(records, spec), records, spec.decisions, Latest(records))

Review(profile, records, decisions, now) ==
    [profile |-> profile, evidence |-> records, decisions |-> decisions,
     gaps |-> CheckAt(profile, records, decisions, now)]
Promotable(review) == review.gaps = {}

\* Slip: the verification trusts the review's own assessment.
VerifyStored(review, profile, records, now) ==
    /\ profile = review.profile
    /\ records = review.evidence
    /\ Promotable(review)

Verify(review, profile, records, now) ==
    /\ profile = review.profile
    /\ records = review.evidence
    /\ CheckAt(profile, records, review.decisions, now) = {}
    /\ Promotable(review)
=============================================================================
