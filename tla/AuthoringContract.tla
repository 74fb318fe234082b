------------------------- MODULE AuthoringContract -------------------------
(***************************************************************************)
(* What an author session promises the operator who answers its questions, *)
(* with phases, contexts, candidates, the browser and the wire left out:   *)
(*                                                                         *)
(*   - the browser acts only on origins the operator allowed;              *)
(*   - a click, or a step to a new origin, happens only as the answer to   *)
(*     the one outstanding question that asked for exactly that act, and   *)
(*     one answer is worth one act;                                        *)
(*   - every act withdraws the goal evidence, and a result is delivered    *)
(*     only after the operator confirmed evidence no act has withdrawn.    *)
(*                                                                         *)
(* AuthorSession implements this module (property Contract there).         *)
(***************************************************************************)
EXTENDS Sequences, Naturals

CONSTANTS
    Origin,     \* exact web origins
    None        \* no origin / no outstanding question

VARIABLES
    status,     \* "idle", "authoring", "confirmed", "delivered" or "ended"
    allowed,    \* origins the operator approved
    asked,      \* the outstanding question, or None
    done,       \* the acts the browser was told to perform, in order
    evidence    \* has the goal been seen since the last act?

vars == <<status, allowed, asked, done, evidence>>

Act == [click: BOOLEAN, origin: Origin \cup {None}]
Question == [kind: {"origin", "origin_action", "action"}, act: Act]

Foreign(a) == a.origin # None /\ a.origin \notin allowed

Perform(a) ==
    /\ done' = Append(done, a)
    /\ evidence' = FALSE

Init ==
    /\ status = "idle"
    /\ allowed = {}
    /\ asked = None
    /\ done = <<>>
    /\ evidence = FALSE

\* The operator starts the session with a first set of origins.
Begin(origins) ==
    /\ status = "idle"
    /\ status' = "authoring"
    /\ allowed' = origins
    /\ UNCHANGED <<asked, done, evidence>>

\* The browser looks at a page: the goal is there or it is not.
Look(seen) ==
    /\ status = "authoring"
    /\ asked = None
    /\ evidence' = seen
    /\ UNCHANGED <<status, allowed, asked, done>>

\* Navigation inside the allowed origins needs no question.
Navigate(a) ==
    /\ status = "authoring"
    /\ asked = None
    /\ ~a.click
    /\ ~Foreign(a)
    /\ Perform(a)
    /\ UNCHANGED <<status, allowed, asked>>

\* Everything else is asked first, one question at a time.
Ask(a) ==
    /\ status = "authoring"
    /\ asked = None
    /\ a.click \/ Foreign(a)
    /\ asked' = [kind |-> CASE ~a.click                -> "origin"
                            [] a.click /\ Foreign(a)  -> "origin_action"
                            [] a.click /\ ~Foreign(a) -> "action",
                 act  |-> a]
    /\ UNCHANGED <<status, allowed, done, evidence>>

GrantOrigin ==
    /\ status = "authoring"
    /\ asked # None
    /\ asked.kind = "origin"
    /\ allowed' = allowed \cup {asked.act.origin}
    /\ asked' = None
    /\ Perform(asked.act)
    /\ UNCHANGED status

\* A click to a new origin is asked twice: the origin, then the click.
GrantOriginOfClick ==
    /\ status = "authoring"
    /\ asked # None
    /\ asked.kind = "origin_action"
    /\ allowed' = allowed \cup {asked.act.origin}
    /\ asked' = [kind |-> "action", act |-> asked.act]
    /\ UNCHANGED <<status, done, evidence>>

GrantClick ==
    /\ status = "authoring"
    /\ asked # None
    /\ asked.kind = "action"
    /\ asked' = None
    /\ Perform(asked.act)
    /\ UNCHANGED <<status, allowed>>

Confirm ==
    /\ status = "authoring"
    /\ asked = None
    /\ evidence
    /\ status' = "confirmed"
    /\ UNCHANGED <<allowed, asked, done, evidence>>

Deliver ==
    /\ status = "confirmed"
    /\ status' = "delivered"
    /\ UNCHANGED <<allowed, asked, done, evidence>>

\* The session may end without a result at any moment, in the middle of the
\* act it was performing, or in the very start, included; nothing else becomes
\* allowed by ending.
EndQuietly ==
    /\ status = "idle" \/ UNCHANGED allowed
    /\ allowed' \in SUBSET Origin
    /\ UNCHANGED done

EndInGrantedAct ==
    /\ asked # None
    /\ allowed' = IF asked.kind = "action" THEN allowed
                  ELSE allowed \cup {asked.act.origin}
    /\ done' \in {done} \cup (IF asked.kind = "origin_action" THEN {}
                              ELSE {Append(done, asked.act)})

EndInNavigation ==
    /\ asked = None
    /\ status = "authoring"
    /\ \E a \in Act : ~a.click /\ ~Foreign(a) /\ done' = Append(done, a)
    /\ UNCHANGED allowed

End ==
    /\ status \notin {"delivered", "ended"}
    /\ status' = "ended"
    /\ asked' = None
    /\ evidence' = FALSE
    /\ EndQuietly \/ EndInGrantedAct \/ EndInNavigation

Next ==
    \/ \E origins \in SUBSET Origin : Begin(origins)
    \/ \E seen \in BOOLEAN : Look(seen)
    \/ \E a \in Act : Navigate(a) \/ Ask(a)
    \/ GrantOrigin
    \/ GrantOriginOfClick
    \/ GrantClick
    \/ Confirm
    \/ Deliver
    \/ End

Spec == Init /\ [][Next]_vars
=============================================================================
