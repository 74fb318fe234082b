-------------------------- MODULE AuthorPromotion --------------------------
(***************************************************************************)
(* From an author session to its result: the session of AuthorSession, and *)
(* what authorresult.Build makes of it when finish is called.              *)
(*                                                                         *)
(* The trace of AuthorSession does not say which click opened a popup      *)
(* (TraceStep.OpensContext); opener remembers it beside the session.       *)
(***************************************************************************)
EXTENDS AuthorSession

CONSTANTS
    Popup,      \* the contexts that are popups; the others are frames
    Redacted    \* shapes whose label is reduced to a marker

ASSUME PromotionAssumption ==
    /\ Popup \subseteq Child /\ None \notin Child /\ None \notin Shape
    /\ Redacted \subseteq Shape /\ \A s \in Redacted : ~s.output
    /\ MaxContexts <= 64 /\ MaxOutputs <= 16

VARIABLE opener     \* which step of the trace opened a context, or 0

Result == INSTANCE AuthorResult WITH
    Marked <- Redacted, LimitContexts <- 64, LimitOutputs <- 16

PromotionInit == Init /\ opener = [c \in Child |-> 0]

\* execute: the context a click has opened is the trace step's own.
RecordOpener ==
    opener' = IF Len(trace') > Len(trace) /\ contexts' # contexts
              THEN [c \in Child |-> IF contexts'[c] # contexts[c] THEN Len(trace') ELSE opener[c]]
              ELSE opener

PromotionSpec == PromotionInit /\ [][Next /\ RecordOpener]_<<vars, opener>>

\* The browser's contexts: a popup is known by the click that opened it, in
\* the click's own context, and a frame by an observation of its page.
TopologyHolds ==
    \A c \in Known(contexts) :
        IF c \in Popup
        THEN /\ opener[c] \in DOMAIN trace /\ IsClick(trace[opener[c]].message)
             /\ trace[opener[c]].message.cand.ctx = Parent[c]
        ELSE opener[c] = 0

\* TraceStep, as Build reads it.
StepOf(i) ==
    LET message == trace[i].message
        opened == {c \in Child : opener[c] = i}
        human == message.action = "focus_human_input"
    IN  [do |-> IF message.action = "navigate_get" THEN "navigate" ELSE message.action,
         phase |-> trace[i].phase,
         ctx |-> IF message.action = "navigate_get" THEN message.ctx ELSE message.cand.ctx,
         on |-> IF message.action = "navigate_get" THEN None ELSE message.cand.shape,
         input |-> IF human THEN message.cand.shape.input ELSE "none",
         challenge |-> IF human /\ message.cand.shape.input # "credential"
                       THEN message.cand.shape.input ELSE None,
         opens |-> IF opened = {} THEN None ELSE CHOOSE c \in opened : TRUE]

\* The request finish makes of the session, with some outputs read as values.
Request(typed) ==
    [confirmed |-> humanConfirmed, origins |-> origins,
     initial |-> InitialOrigin, dashboard |-> DashboardOrigin,
     predicate |-> [origin |-> GoalOrigin, ctx |-> GoalContext],
     goal |-> [origin |-> GoalOrigin, ctx |-> goalProof.ctx],
     authentication |-> [origin |-> DashboardOrigin, ctx |-> authProof.ctx],
     contexts |-> [c \in Known(contexts) |->
        [kind |-> IF c \in Popup THEN "popup" ELSE "frame", parent |-> Parent[c], origin |-> contexts[c]]],
     bounds |-> [observations |-> MaxObservations, outputs |-> MaxOutputs],
     trace |-> [i \in DOMAIN trace |-> StepOf(i)],
     selections |-> {[gen |-> c.gen, ctx |-> c.ctx, on |-> c.shape, unique |-> c.shape.unique,
                      control |-> c.shape.input # "none", typed |-> c \in typed] : c \in outputs}]

Confirmed == phase = "completed" /\ TopologyHolds

\* The acts of a profile, as the browser was told to perform them.
IsProfileClick(step) == step.do = "click"
Controls(steps) == [i \in DOMAIN steps |-> steps[i].on]
ClicksOf(steps) == Controls(Result!Only(steps, {i \in DOMAIN steps : IsProfileClick(steps[i])}))
Clicked(messages) ==
    LET clicks == Result!Only(messages, {i \in DOMAIN messages : IsClick(messages[i])})
    IN [i \in DOMAIN clicks |-> clicks[i].cand.shape]

----------------------------------------------------------------------------
\* What the operator has confirmed can be promoted, unless the trace needs a
\* control that has no portable name: Build, which runs when the browser is
\* gone, refuses nothing else that the session let through.  Either profile
\* declares every context it names; the authentication profile has the clicks
\* up to the dashboard and opens each popup it uses itself, the capability
\* profile every act since (session.go:664 complete, 677 finish;
\* authorresult/result.go:190 Build).
CompletionIsPromotable ==
    Confirmed => \A typed \in SUBSET outputs :
        LET r == Request(typed)
            before == SubSeq(performed, 1, authProof.at)
            after == SubSeq(performed, authProof.at + 1, Len(performed))
            login == Result!Authentication(r)
            task == Result!Capability(r)
        IN  /\ Result!Builds(r) <=>
                 \A i \in DOMAIN trace : StepOf(i).input = "mfa" \/ StepOf(i).on \notin Redacted
            /\ Result!Declares(login, r.contexts) /\ Result!Declares(task, r.contexts)
            /\ Result!OpensItsPopups(login, r.contexts)
            /\ ClicksOf(login.steps) = Clicked(before)
            /\ Len(task.steps) = Len(after)
            /\ ClicksOf(task.steps) = Clicked(after)

\* Documented: "A popup is created only by one explicit approved click whose
\* `opensContext` names the declared child; automatic, missing, duplicate, or
\* multiple popups fail closed" (docs/authenticated-goal-authoring.md:324).
CapabilityOpensItsPopups ==
    Confirmed => LET r == Request({})
                 IN Result!Builds(r) => Result!OpensItsPopups(Result!Capability(r), r.contexts)
=============================================================================
