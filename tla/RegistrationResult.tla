------------------------- MODULE RegistrationResult -------------------------
(***************************************************************************)
(* The private result of a registration session as a value                 *)
(* (registrationauthorresult/result.go, registrationreview,                *)
(* registrationprofile): how Build makes it of a completion, and how       *)
(* Verify makes it again of what a file says and compares.                 *)
(*                                                                         *)
(* Digests, canonical encodings and names are injective, so a digest is    *)
(* what it is of.  A profile has the one flow that was selected.  Titles,  *)
(* slots, checkpoints and diagnostics are left out: they are copied.       *)
(***************************************************************************)
EXTENDS RegistrationEvidence

CONSTANTS
    LimitRequests,      \* the largest Bounds.MaxRequests a result may state
    LimitObservations,  \* the largest Bounds.MaxObservations
    LimitCandidates     \* the largest Bounds.MaxCandidates

ASSUME ResultAssumption ==
    /\ LimitRequests \in Nat \ {0} /\ LimitObservations \in Nat \ {0}
    /\ LimitCandidates \in Nat \ {0}

Versions == {"v1", "v2", "v3", "v4"}
Typed34(version) == version \in {"v3", "v4"}
Cleanups == {"delete_separately", "retain_dedicated_test_identity"}

\* The profile schema a protocol's recipes have.
ProfileSchema(version) ==
    CASE version = "v4" -> "registration.1.2"
      [] version = "v3" -> "registration.1.1"
      [] OTHER -> "registration.1.0"

----------------------------------------------------------------------------
(* Profiles and their reviews *)

ExpiresAt(profile) == profile.verifiedAt + profile.lifetime

\* A profile verified after the assessment is not fresh, it is wrong.
VerifiedBy(profile, at) == profile.verifiedAt <= at

\* Stale from the instant of expiry on.
Expired(profile, at) == at >= ExpiresAt(profile)

CurrentAt(profile, at) == VerifiedBy(profile, at) /\ ~Expired(profile, at)

ReviewVersion(profile) ==
    CASE profile.schema = "registration.1.2" -> "review.v3"
      [] profile.schema = "registration.1.1" -> "review.v2"
      [] OTHER -> "review.v1"

\* registrationreview.Build, once the profile was verified by then.
ReviewOf(profile, at) ==
    [version |-> ReviewVersion(profile), profile |-> profile, assessedAt |-> at,
     expiresAt |-> ExpiresAt(profile), promotable |-> ~Expired(profile, at)]

\* registrationreview.Verify: what was assessed holds still.
ReviewVerifies(review, at) ==
    /\ review.assessedAt <= at
    /\ VerifiedBy(review.profile, review.assessedAt)
    /\ review = ReviewOf(review.profile, review.assessedAt)
    /\ CurrentAt(review.profile, at)
    /\ review.promotable

----------------------------------------------------------------------------
(* Build *)

\* The evidence a typed completion must have, and an older one must not.
EvidenceHolds(c) ==
    IF Typed34(c.protocol)
    THEN /\ Len(c.history) = c.observations
         /\ c.profile.schema = ProfileSchema(c.protocol)
         /\ TypedEvidence(c.protocol, c.history, c.previews, c.profile.flow, c.binding, c.selected,
                          IF c.profile.authority = None THEN None ELSE c.profile.authority.provider)
         /\ \A k \in c.selected : Observed(c.history, k)
    ELSE c.history = <<>> /\ c.previews = <<>> /\ c.binding = <<>>

\* canonicalReviewedCandidates: before v3, of the latest observation only.
CandidatesCanonical(c) ==
    /\ c.selected # {} /\ Cardinality(c.selected) <= c.bounds.candidates
    /\ \A k \in c.selected :
        /\ k.gen \in 1 .. c.observations
        /\ Typed34(c.protocol) \/ k.gen = c.observations
        /\ k.name \in Portable

\* validateCompletionBounds, with ValidateNetworkSummaryForProtocol.
BoundsHold(c) ==
    /\ c.bounds.requests \in 1 .. LimitRequests
    /\ c.bounds.observations \in 1 .. LimitObservations
    /\ c.bounds.candidates \in 1 .. LimitCandidates
    /\ c.observations \in 1 .. c.bounds.observations
    /\ c.network.requests = c.network.gets + c.network.heads
    /\ c.network.requests <= c.bounds.requests
    /\ IF c.protocol = "v4" /\ c.authority # None
       THEN /\ c.network.provided <= c.authority.requests
            /\ c.network.bytes <= c.authority.bytes
       ELSE c.network.provided = 0 /\ c.network.bytes = 0
    /\ c.protocol # "v4" => c.authority = None

\* buildFlowReview: a confirmed account creation whose one submit is bound to
\* one reviewed candidate.
FlowReviewable(c) ==
    /\ c.profile.confirmed
    /\ Cardinality(Submits(c.profile.flow)) = 1
    /\ Cardinality(SubmitCandidates(c.profile.flow, c.selected)) = 1

Buildable(c, at) ==
    /\ c.protocol \in Versions
    /\ EvidenceHolds(c)
    /\ c.observedAt <= at
    /\ c.cleanup \in Cleanups
    /\ c.source = c.profile
    /\ CurrentAt(c.profile, at)
    /\ c.protocol # "v1" => c.profile.safeUrls
    /\ c.profile.schema = ProfileSchema(c.protocol)
    /\ c.profile.snapshot
    /\ c.origins = c.profile.origins /\ c.origins # {}
    /\ BoundsHold(c)
    /\ FlowReviewable(c)
    /\ CandidatesCanonical(c)
    /\ c.protocol = "v4" => c.authority # None /\ c.authority = c.profile.authority

\* What a result says was done beyond looking: nothing.
Inert == [mutations |-> 0, submitted |-> FALSE, attempted |-> FALSE, established |-> FALSE]

\* The envelope Build returns.
Envelope(c, at) ==
    [schema |-> c.protocol, resultVersion |-> c.protocol, sessionVersion |-> c.protocol,
     createdAt |-> at, observedAt |-> c.observedAt, expiresAt |-> ExpiresAt(c.profile),
     origins |-> c.origins, profile |-> c.profile, review |-> ReviewOf(c.profile, at),
     selected |-> c.selected,
     submit |-> CHOOSE k \in SubmitCandidates(c.profile.flow, c.selected) : TRUE,
     cleanup |-> c.cleanup, bounds |-> c.bounds, observations |-> c.observations,
     network |-> c.network,
     methods |-> IF c.protocol = "v4" THEN {"GET", "HEAD", "POST"} ELSE {"GET", "HEAD"},
     claims |-> Inert, authority |-> c.authority,
     history |-> c.history, previews |-> c.previews, binding |-> c.binding]

----------------------------------------------------------------------------
(* Verify *)

\* A schema that its provenance does not repeat is read as the oldest.
ProtocolOf(e) ==
    IF e.schema \in Versions /\ e.resultVersion = e.schema /\ e.sessionVersion = e.schema
    THEN e.schema ELSE "v1"

CompletionOf(e) ==
    [protocol |-> ProtocolOf(e), profile |-> e.profile, source |-> e.profile,
     selected |-> e.selected, cleanup |-> e.cleanup, origins |-> e.origins,
     observedAt |-> e.observedAt, bounds |-> e.bounds, observations |-> e.observations,
     network |-> e.network, authority |-> e.authority,
     history |-> e.history, previews |-> e.previews, binding |-> e.binding]

\* Slip: what Build makes again is not compared.
RebuildsUncompared(e) == Buildable(CompletionOf(e), e.createdAt)

Rebuilds(e) ==
    /\ Buildable(CompletionOf(e), e.createdAt)
    /\ e = Envelope(CompletionOf(e), e.createdAt)

Verifies(e, at) == Rebuilds(e) /\ ReviewVerifies(e.review, at)

\* MarshalDeterministic: at its own creation.
Marshals(e) == Verifies(e, e.createdAt)
=============================================================================
