------------------------ MODULE RegistrationEvidence ------------------------
(***************************************************************************)
(* The evidence a registration recipe rests on                             *)
(* (registrationauthorsession/inputs.go, verification.go): the same checks *)
(* the session makes when a recipe is reviewed and the private result      *)
(* makes again when it is built and whenever it is verified.               *)
(*                                                                         *)
(* A candidate's identifier is made of its generation, role and label; a   *)
(* control is a name, which stands for a role and a label.  An observation *)
(* is a page, which stands for its origin and path, and what it shows.     *)
(***************************************************************************)
EXTENDS Naturals, FiniteSets, Sequences

CONSTANTS
    Name,               \* controls, by role and label
    Portable,           \* controls seen once, with a label fit for a recipe
    Previewable,        \* controls ValidatePreview accepts a click on
    Widget,             \* [Name -> provider of the widget in its form, or None]
    None                \* an absent value

ASSUME EvidenceAssumption ==
    /\ Portable \subseteq Name
    /\ Previewable \subseteq Portable
    /\ DOMAIN Widget = Name

\* ValidatePreview: a public control, unique, and none that only a human or
\* the registration itself may touch.
MayPreview(c) == c.name \in Previewable

Observed(history, c) ==
    /\ c # None
    /\ c.gen \in DOMAIN history
    /\ c.name \in history[c.gen].shows

\* The previews link a candidate to the observation after its own, in order.
PreviewsLinked(history, previews) ==
    \A i \in DOMAIN previews :
        /\ Observed(history, previews[i].of) /\ MayPreview(previews[i].of)
        /\ previews[i].next = previews[i].of.gen + 1 /\ previews[i].next <= Len(history)
        /\ i > 1 => previews[i].next > previews[i - 1].next

PreviewedTo(previews, c) == {previews[i].next : i \in {j \in DOMAIN previews : previews[j].of = c}}

\* Slip: a click needs no preview, and the steps after it may be on any page.
WalkUnpreviewed(history, previews, flow, binding) ==
    LET walk[i \in 0 .. Len(flow)] ==
        IF i = 0 THEN [ok |-> TRUE, gen |-> 0]
        ELSE LET was == walk[i - 1]
                 step == flow[i]
                 c == binding[i]
                 bound == Observed(history, c) /\ c.name = step.on /\ c.gen >= was.gen
             IN IF step.do \in {"navigate", "success"}
                THEN [was EXCEPT !.ok = was.ok /\ c = None]
                ELSE [ok |-> was.ok /\ bound, gen |-> IF bound THEN c.gen ELSE was.gen]
    IN walk[Len(flow)].ok

\* ValidateTypedEvidence's walk over the flow: where the recipe is, how far in
\* the history, and whether it has submitted.
WalkStart == [ok |-> TRUE, page |-> None, gen |-> 0, submitted |-> FALSE]

\* One step of it, bound to the candidate c or to none.
WalkStep(history, previews, step, c, was) ==
    LET bound == /\ Observed(history, c) /\ c.name = step.on /\ c.name \in Portable
                 /\ c.gen >= was.gen /\ history[c.gen].page = was.page
    IN CASE step.do = "navigate" -> [was EXCEPT !.ok = was.ok /\ c = None, !.page = step.on]
         [] step.do = "success" /\ was.submitted /\ c = None -> was
         [] step.do = "click" ->
              IF bound /\ PreviewedTo(previews, c) # {}
              THEN [was EXCEPT !.gen = c.gen,
                               !.page = history[CHOOSE g \in PreviewedTo(previews, c) : TRUE].page]
              ELSE [was EXCEPT !.ok = FALSE]
         [] OTHER ->
              IF bound
              THEN [was EXCEPT !.gen = c.gen, !.submitted = was.submitted \/ step.do = "submit"]
              ELSE [was EXCEPT !.ok = FALSE]

Walk(history, previews, flow, binding) ==
    LET walk[i \in 0 .. Len(flow)] ==
        IF i = 0 THEN WalkStart ELSE WalkStep(history, previews, flow[i], binding[i], walk[i - 1])
    IN walk[Len(flow)].ok

Submits(flow) == {i \in DOMAIN flow : flow[i].do = "submit"}

\* ValidateVerificationEvidence: the submit's candidate showed the widget.
WidgetBound(flow, binding, provider) ==
    /\ provider # None
    /\ \E i \in Submits(flow) : binding[i] # None /\ Widget[binding[i].name] = provider

\* ValidateTypedEvidence, with the provider the recipe names in v4.
TypedEvidence(protocol, history, previews, flow, binding, selected, provider) ==
    /\ history # <<>> /\ DOMAIN binding = DOMAIN flow /\ selected # {}
    /\ PreviewsLinked(history, previews)
    /\ Walk(history, previews, flow, binding)
    /\ selected = {binding[i] : i \in DOMAIN binding} \ {None}
    /\ protocol = "v4" => WidgetBound(flow, binding, provider)

\* The candidates a flow's one submit may be bound to.
SubmitCandidates(flow, selected) ==
    {c \in selected : \E i \in Submits(flow) : c.name = flow[i].on}
=============================================================================
