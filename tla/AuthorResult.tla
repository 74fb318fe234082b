---------------------------- MODULE AuthorResult ----------------------------
(***************************************************************************)
(* The private result of an author session as a value                      *)
(* (authorresult/result.go): what Build demands of the session's facts,    *)
(* and the authentication and the capability profile it makes of the       *)
(* trace.                                                                  *)
(*                                                                         *)
(* A digest is what it is of.  A context is a record of its kind, parent   *)
(* and origin; a control stands for its role and label.  URLs are reduced  *)
(* to their origins, titles and diagnostics are left out, and so are the   *)
(* reviews, which say what was built and when.                             *)
(***************************************************************************)
EXTENDS Naturals, Sequences, FiniteSets

CONSTANTS
    Marked,         \* controls whose label is "[redacted]" or "[untrusted-label]"
    LimitContexts,  \* contexts a result may have
    LimitOutputs,   \* outputs a result may select
    None            \* an absent value

----------------------------------------------------------------------------
\* What s has at the positions P, in order: the k-th is the one that has k of
\* them up to it.
Nth(P, k) == CHOOSE i \in P : Cardinality({j \in P : j <= i}) = k
Only(s, P) == [k \in 1 .. Cardinality(P) |-> s[Nth(P, k)]]

----------------------------------------------------------------------------
(* The graph of contexts: a function from some of Child. *)

KnownIn(contexts, ctx) == ctx = "main" \/ ctx \in DOMAIN contexts

\* The context a known one is in.  The walk up ends at the main page, or at a
\* context that is missing.
Up(contexts, ctx) == IF ctx \in DOMAIN contexts THEN contexts[ctx].parent ELSE ctx

\* Neither cyclic, nor more than four deep, nor in a missing one.
Rooted(contexts, ctx) ==
    LET u(c) == Up(contexts, c) IN u(u(u(u(ctx)))) = "main"

\* A context and those it is in.
Ancestry(contexts, ctx) ==
    LET u(c) == Up(contexts, c) IN {ctx, u(ctx), u(u(ctx)), u(u(u(ctx)))} \ {"main"}

SelectContexts(contexts, ids) ==
    (UNION {Ancestry(contexts, id) : id \in ids}) \cap DOMAIN contexts

----------------------------------------------------------------------------
(* validateBuildRequest *)

\* portableLocator
Locates(step) == step.on # None /\ step.on \notin Marked

HumanInputValid(step) ==
    \/ step.input = "credential" /\ step.challenge = None /\ Locates(step)
    \/ step.input = "otp" /\ step.challenge = "otp" /\ Locates(step)
    \/ step.input = "mfa" /\ step.challenge = "mfa"

StepValid(contexts, step) ==
    /\ KnownIn(contexts, step.ctx)
    /\ step.opens # None =>
         /\ step.do = "click" /\ step.opens \in DOMAIN contexts
         /\ contexts[step.opens].kind = "popup" /\ contexts[step.opens].parent = step.ctx
    /\ step.do = "focus_human_input" => HumanInputValid(step)

ContextsValid(contexts, origins) ==
    /\ Cardinality(DOMAIN contexts) <= LimitContexts
    /\ \A c \in DOMAIN contexts :
        /\ contexts[c].kind \in {"popup", "frame"} /\ contexts[c].origin \in origins
        /\ Rooted(contexts, c)

\* One observation, the goal's context, no control, each matched once.
SelectionsValid(r) ==
    /\ Cardinality(r.selections) <= r.bounds.outputs /\ Cardinality(r.selections) <= LimitOutputs
    /\ \A s, t \in r.selections : s.gen = t.gen /\ (s.on = t.on => s = t)
    /\ \A s \in r.selections :
        /\ s.gen \in 1 .. r.bounds.observations /\ s.ctx = r.goal.ctx /\ s.on \notin Marked
        /\ KnownIn(r.contexts, s.ctx) /\ ~s.control /\ s.unique

RequestValid(r) ==
    /\ r.origins # {} /\ {r.initial, r.dashboard, r.predicate.origin} \subseteq r.origins
    /\ r.authentication.origin = r.dashboard
    /\ SelectionsValid(r)
    /\ ContextsValid(r.contexts, r.origins)
    /\ KnownIn(r.contexts, r.predicate.ctx) /\ KnownIn(r.contexts, r.authentication.ctx)
    /\ \A i \in DOMAIN r.trace : StepValid(r.contexts, r.trace[i])

----------------------------------------------------------------------------
(* The profiles *)

\* Slip: navigations are taken for steps with a control.
IsOfAuthentication(step) == step.phase = "authentication"

IsAuthentication(step) == step.phase = "authentication" /\ step.do # "navigate"
IsExploration(step) == step.phase = "exploration"

Initial(r) == [do |-> "navigate", ctx |-> "main", opens |-> None, on |-> None]
ProfileStep(step) == [do |-> step.do, ctx |-> step.ctx, opens |-> step.opens, on |-> step.on]
ProfileSteps(steps) == [i \in DOMAIN steps |-> ProfileStep(steps[i])]
NamedIn(steps) == {steps[i].ctx : i \in DOMAIN steps} \cup {steps[i].opens : i \in DOMAIN steps}

\* buildAuthenticationProfile: the initial page, then what was typed, answered
\* and clicked up to the dashboard.  Its navigations are not repeated.
AuthenticationSteps(r) == Only(r.trace, {i \in DOMAIN r.trace : IsAuthentication(r.trace[i])})

AuthenticationBuilds(r) ==
    \A i \in DOMAIN AuthenticationSteps(r) :
        LET step == AuthenticationSteps(r)[i] IN step.input = "mfa" \/ Locates(step)

Authentication(r) ==
    LET steps == AuthenticationSteps(r)
        challenges == {i \in DOMAIN steps : steps[i].input \in {"otp", "mfa"}}
    IN  [schema |-> "authentication.1.1",
         steps |-> <<Initial(r)>> \o ProfileSteps(steps),
         contexts |-> SelectContexts(r.contexts, {r.authentication.ctx} \cup NamedIn(steps)),
         slots |-> Cardinality({i \in DOMAIN steps : steps[i].input = "credential"}),
         effects |-> IF challenges = {} THEN {"establishes_session"}
                     ELSE {"establishes_session", "sends_mfa_challenge"},
         ends |-> r.authentication.ctx]

\* buildCapabilityProfile: every exploration act, then the goal.
CapabilitySteps(r) == Only(r.trace, {i \in DOMAIN r.trace : IsExploration(r.trace[i])})

CapabilityBuilds(r) ==
    \A i \in DOMAIN CapabilitySteps(r) :
        LET step == CapabilitySteps(r)[i]
        IN step.do = "navigate" \/ (step.do = "click" /\ Locates(step))

\* The oldest schema that has what the profile needs.
CapabilitySchema(r) ==
    LET steps == CapabilitySteps(r)
    IN  CASE \E s \in r.selections : s.typed -> "browser.1.7"
          [] r.predicate.ctx # "main" \/ NamedIn(steps) \ {"main", None} # {} -> "browser.1.6"
          [] OTHER -> "browser.1.5"

Capability(r) ==
    LET steps == CapabilitySteps(r)
        named == {r.predicate.ctx} \cup NamedIn(steps)
    IN  [schema |-> CapabilitySchema(r),
         steps |-> ProfileSteps(steps),
         contexts |-> SelectContexts(r.contexts, named),
         outputs |-> {[ctx |-> r.predicate.ctx, on |-> None]} \* goal_present
                       \cup {[ctx |-> s.ctx, on |-> s.on] : s \in r.selections},
         ends |-> r.predicate.ctx]

Builds(r) ==
    /\ r.confirmed
    /\ r.goal.ctx = r.predicate.ctx /\ r.goal.origin = r.predicate.origin
    /\ RequestValid(r) /\ AuthenticationBuilds(r) /\ CapabilityBuilds(r)

----------------------------------------------------------------------------
(* What a profile must be to be run by itself *)

\* Every context it names is declared, with those it is in.
Declares(profile, contexts) ==
    LET named == NamedIn(profile.steps) \cup {profile.ends}
    IN \A id \in named \ {"main", None} :
        id \in profile.contexts /\ Ancestry(contexts, id) \subseteq profile.contexts

Opened(steps, n) == {steps[i].opens : i \in 1 .. n}

\* Every popup it uses was opened by one of its own clicks before.
OpensItsPopups(profile, contexts) ==
    LET needs(ctx) == {c \in Ancestry(contexts, ctx) \cap DOMAIN contexts : contexts[c].kind = "popup"}
        steps == profile.steps
    IN  /\ \A i \in DOMAIN steps : needs(steps[i].ctx) \subseteq Opened(steps, i - 1)
        /\ needs(profile.ends) \subseteq Opened(steps, Len(steps))
=============================================================================
