------------------------ MODULE AuthorSessionProofs ------------------------
(***************************************************************************)
(* Theorems about AuthorSession for every set of origins, contexts and     *)
(* candidate shapes and every bound: the types; that the browser is        *)
(* released; that goal evidence and the operator's confirmation are never  *)
(* older than the page; what the origins allow; that the operator is not   *)
(* raced; that the server implements AuthoringContract; that its two       *)
(* records, the clicks granted and the trace written, tell what the        *)
(* browser did; and, of AuthorPromotion, that what the operator confirmed  *)
(* can be promoted.                                                        *)
(***************************************************************************)
EXTENDS AuthorPromotion, FiniteSetTheorems, SequenceTheorems, TLAPS

\* The phase a message is accepted in, read off the phase table.
LEMMA PhaseTable ==
    ASSUME NEW type, Admissible(type)
    PROVE  /\ ~returned
           /\ pending # None => type \in {"approve", "deny", "close"}
           /\ type = "start" => phase = "awaiting_start"
           /\ type \in {"observe", "execute", "approve", "deny"} => phase \in {"authentication", "exploration"}
           /\ type = "focus_human_input" => phase = "authentication"
           /\ type = "human_input_complete" => phase = "human_input"
           /\ type = "human_complete" => phase = "exploration"
           /\ type = "finish" => phase = "completed"
BY DEF Admissible, AnswersPending, PhaseMessages

-----------------------------------------------------------------------------
(* Type correctness.                                                       *)
(*                                                                         *)
(* TypeOK is not inductive: the observation counter may pass its bound by  *)
(* one, but only in the step that ends the session, and a question about   *)
(* an origin names one.                                                    *)

OriginNamed == pending # None /\ pending.kind # "action" => pending.origin \in Origin

TypeInv ==
    /\ TypeOK
    /\ ~returned => observations <= MaxObservations
    /\ OriginNamed

\* The conjuncts of TypeOK on the variables of a handler's ending.
LifetimeOK == /\ closed \in BOOLEAN /\ returned \in BOOLEAN /\ session \in BOOLEAN
              /\ live \in {"none", "held", "orphaned"}

LEMMA FailEnds == ASSUME LifetimeOK, Fail
                  PROVE  LifetimeOK' /\ returned' /\ closed'
BY DEF LifetimeOK, Fail, CloseSession

LEMMA ReplyKeeps == ASSUME LifetimeOK, Reply
                    PROVE  LifetimeOK' /\ closed' = closed
BY DEF LifetimeOK, Reply

LEMMA InitTypeInv == Init => TypeInv
<1> SUFFICES ASSUME Init PROVE TypeInv OBVIOUS
<1>1. trace \in Seq(TraceStep) /\ performed \in Seq(Message) /\ granted \in Seq(Message)
  BY DEF Init
<1>2. Len(performed) <= MaxActions /\ observations <= MaxObservations
      /\ observations \in 0..MaxObservations + 1 /\ approvals \in 0..MaxApprovals
  BY ConstantsAssumption DEF Init
<1> QED BY <1>1, <1>2 DEF Init, TypeInv, TypeOK, OriginNamed

LEMMA StartType ==
    ASSUME TypeInv, NEW requested \in SUBSET Origin, StartSession(requested)
    PROVE  TypeInv'
<1>1. LifetimeOK /\ ~returned BY PhaseTable DEF TypeInv, TypeOK, LifetimeOK, StartSession
<1>2. LifetimeOK'
  <2>1. CASE Fail BY <1>1, <2>1, FailEnds
  <2>2. CASE ~Fail BY <1>1, <2>2 DEF StartSession, LifetimeOK, OpenPastDeadline
  <2> QED BY <2>1, <2>2
<1>3. /\ UNCHANGED <<approvals, granted, evidence, decision, pending, pendingInput, acts, cancelled>>
      /\ origins' = requested
      /\ browserOrigins' \in {requested, browserOrigins}
      /\ phase' \in {phase, "authentication"}
  BY DEF StartSession
<1> QED BY <1>1, <1>2, <1>3 DEF TypeInv, TypeOK, LifetimeOK, OriginNamed, evidence, decision, acts

LEMMA GenerationType ==
    ASSUME NEW gen \in 1..MaxObservations, NEW ctx \in Context, NEW shapes \in SUBSET Shape
    PROVE  Generation(gen, ctx, shapes) \subseteq CandidateId
BY DEF Generation, CandidateId

LEMMA ObserveType ==
    ASSUME TypeInv, NEW ctx \in Context, Observe(ctx)
    PROVE  TypeInv'
<1>1. LifetimeOK /\ ~returned /\ observations \in Nat /\ observations <= MaxObservations
  BY PhaseTable, ConstantsAssumption DEF TypeInv, TypeOK, LifetimeOK, Observe
<1>2. UNCHANGED <<authority, decision, pending, pendingInput, acts, cancelled>>
  BY DEF Observe
<1>3. CASE Fail /\ UNCHANGED <<candidates, contexts, goalProof, authProof, phase>>
                /\ observations' \in {observations, observations + 1}
  <2>1. LifetimeOK' /\ returned' BY <1>1, <1>3, FailEnds
  <2>2. observations' \in 0..MaxObservations + 1 BY <1>1, <1>3, ConstantsAssumption
  <2> QED BY <1>2, <1>3, <2>1, <2>2
          DEF TypeInv, TypeOK, LifetimeOK, OriginNamed, authority, decision, acts
<1>4. CASE /\ observations' = observations + 1
           /\ \E raw \in RawObservation : Reduce(ctx, raw)
           /\ Reply
  <2>1. PICK raw \in RawObservation : Reduce(ctx, raw) BY <1>4
  <2>2. raw.shapes \in SUBSET Shape /\ raw.inventory \in [Child -> Origin \cup {None}]
    BY DEF RawObservation
  <2>3. observations + 1 \in 1..MaxObservations
    BY <1>1, <2>1, ConstantsAssumption DEF Reduce
  <2>4. candidates' \subseteq CandidateId BY <2>1, <2>2, <2>3, GenerationType DEF Reduce
  <2>5. contexts' \in [Child -> Origin \cup {None}]
    BY <2>1, <2>2 DEF Reduce, Merged, TypeInv, TypeOK
  <2>6. ProofNow(observations + 1, ctx) \in Proof
    BY <2>3, ConstantsAssumption DEF ProofNow, Proof, TypeInv, TypeOK
  <2>7. goalProof' \in Proof \cup {None} BY <2>1, <2>6 DEF Reduce, MatchGoal
  <2>8. authProof' \in Proof \cup {None} /\ phase' \in {phase, "exploration"}
    BY <2>1, <2>6 DEF Reduce, TypeInv, TypeOK
  <2>9. LifetimeOK' BY <1>1, <1>4, ReplyKeeps
  <2> QED BY <1>2, <1>4, <2>3, <2>4, <2>5, <2>7, <2>8, <2>9, ConstantsAssumption
          DEF TypeInv, TypeOK, LifetimeOK, OriginNamed, authority, decision, acts
<1> QED BY <1>3, <1>4 DEF Observe

LEMMA FocusType == ASSUME TypeInv, Focus PROVE TypeInv'
<1>1. LifetimeOK /\ ~returned /\ phase = "authentication"
  BY PhaseTable DEF TypeInv, TypeOK, LifetimeOK, Focus
<1>2. UNCHANGED <<authority, evidence, decision, pending, acts, cancelled>> BY DEF Focus
<1>3. CASE Fail /\ UNCHANGED <<pendingInput, phase>>
  <2>1. LifetimeOK' BY <1>1, <1>3, FailEnds
  <2> QED BY <1>1, <1>2, <1>3, <2>1
          DEF TypeInv, TypeOK, LifetimeOK, OriginNamed, authority, evidence, decision, acts
<1>4. CASE \E c \in CandidateId :
             /\ pendingInput' = [cand |-> c, phase |-> phase]
             /\ phase' = "human_input"
             /\ Reply
  <2>1. pendingInput' \in PendingInput BY <1>1, <1>4 DEF PendingInput
  <2>2. LifetimeOK' BY <1>1, <1>4, ReplyKeeps
  <2> QED BY <1>1, <1>2, <1>4, <2>1, <2>2
          DEF TypeInv, TypeOK, LifetimeOK, OriginNamed, authority, evidence, decision, acts
<1> QED BY <1>3, <1>4 DEF Focus

LEMMA CompleteHumanInputType == ASSUME TypeInv, CompleteHumanInput PROVE TypeInv'
<1>1. LifetimeOK /\ ~returned
  BY PhaseTable DEF TypeInv, TypeOK, LifetimeOK, CompleteHumanInput
<1>2. UNCHANGED <<authority, evidence, decision, pending, performed, cancelled>>
  BY DEF CompleteHumanInput
<1>3. CASE Fail /\ UNCHANGED <<trace, pendingInput, phase>>
  <2>1. LifetimeOK' BY <1>1, <1>3, FailEnds
  <2> QED BY <1>1, <1>2, <1>3, <2>1
          DEF TypeInv, TypeOK, LifetimeOK, OriginNamed, authority, evidence, decision
<1>4. CASE ~(Fail /\ UNCHANGED <<trace, pendingInput, phase>>)
  <2> DEFINE step == [phase |-> pendingInput.phase, observed |-> 0,
                      message |-> [action |-> "focus_human_input", cand |-> pendingInput.cand]]
  <2>1. /\ pendingInput # None /\ pendingInput' = None
        /\ trace' = Append(trace, step)
        /\ phase' = pendingInput.phase
        /\ Reply
    BY <1>4 DEF CompleteHumanInput
  <2>2. pendingInput \in PendingInput BY <2>1 DEF TypeInv, TypeOK
  <2>3. step \in TraceStep
    BY <2>2, ConstantsAssumption DEF PendingInput, TraceStep, HumanInput
  <2> HIDE DEF step
  <2>4. trace' \in Seq(TraceStep) BY <2>1, <2>3 DEF TypeInv, TypeOK
  <2>5. LifetimeOK' BY <1>1, <2>1, ReplyKeeps
  <2>6. phase' \in {"authentication", "exploration"} BY <2>1, <2>2 DEF PendingInput
  <2> QED BY <1>1, <1>2, <2>1, <2>4, <2>5, <2>6
          DEF TypeInv, TypeOK, LifetimeOK, OriginNamed, authority, evidence, decision
<1> QED BY <1>3, <1>4

\* What the browser act leaves of the types, whichever message asked for it.
LEMMA ExecuteType ==
    ASSUME TypeInv, ~returned, phase \in {"authentication", "exploration"},
           NEW m \in Message, Execute(m)
    PROVE  /\ performed' \in Seq(Message) /\ Len(performed') <= MaxActions
           /\ trace' \in Seq(TraceStep)
           /\ contexts' \in [Child -> Origin \cup {None}]
           /\ goalProof' = None /\ humanConfirmed' = FALSE
           /\ LifetimeOK'
           /\ UNCHANGED <<observations, candidates, authProof, outputs, artifact,
                          phase, pendingInput, cancelled>>
<1>1. LifetimeOK BY DEF TypeInv, TypeOK, LifetimeOK
<1>2. /\ Append(performed, m) \in Seq(Message)
      /\ Len(Append(performed, m)) <= MaxActions
      /\ Len(performed) <= MaxActions /\ performed \in Seq(Message)
  BY ConstantsAssumption DEF TypeInv, TypeOK, Execute
<1>3. /\ goalProof' = None /\ humanConfirmed' = FALSE
      /\ UNCHANGED <<observations, candidates, authProof, outputs, artifact,
                     phase, pendingInput, cancelled>>
  BY DEF Execute, WithdrawEvidence
<1>4. CASE Fail /\ UNCHANGED <<trace, contexts>>
               /\ performed' \in {performed, Append(performed, m)}
  <2>1. LifetimeOK' BY <1>1, <1>4, FailEnds
  <2> QED BY <1>2, <1>3, <1>4, <2>1 DEF TypeInv, TypeOK
<1>5. CASE /\ performed' = Append(performed, m)
           /\ \E observed \in 0..MaxPost :
                 trace' = Append(trace, [phase |-> phase, message |-> m, observed |-> observed])
           /\ contexts' \in [Child -> Origin \cup {None}]
           /\ Reply
  <2>1. PICK observed \in 0..MaxPost :
             trace' = Append(trace, [phase |-> phase, message |-> m, observed |-> observed])
    BY <1>5
  <2>2. [phase |-> phase, message |-> m, observed |-> observed] \in TraceStep
    BY DEF TraceStep
  <2>3. trace' \in Seq(TraceStep) BY <2>1, <2>2 DEF TypeInv, TypeOK
  <2>4. LifetimeOK' BY <1>1, <1>5, ReplyKeeps
  <2> QED BY <1>2, <1>3, <1>5, <2>3, <2>4
<1> QED BY <1>4, <1>5 DEF Execute, ActFails

\* A handler that ends in Execute, its approval answered or never asked.
LEMMA ExecutedType ==
    ASSUME TypeInv, ~returned, phase \in {"authentication", "exploration"},
           NEW m \in Message, Execute(m),
           origins' \in SUBSET Origin, browserOrigins' \in SUBSET Origin,
           granted' \in Seq(Message), approvals' = approvals,
           pending' = pending \/ pending' = None
    PROVE  TypeInv'
<1>1. /\ performed' \in Seq(Message) /\ Len(performed') <= MaxActions
      /\ trace' \in Seq(TraceStep)
      /\ contexts' \in [Child -> Origin \cup {None}]
      /\ goalProof' = None /\ humanConfirmed' = FALSE
      /\ LifetimeOK'
      /\ UNCHANGED <<observations, candidates, authProof, outputs, artifact,
                     phase, pendingInput, cancelled>>
  BY ExecuteType
<1> QED BY <1>1 DEF TypeInv, TypeOK, LifetimeOK, OriginNamed

\* A handler that ends in a question.
LEMMA RequireApprovalType ==
    ASSUME TypeInv, ~returned,
           NEW kind \in {"origin", "origin_action", "action"}, NEW m \in Message,
           NEW origin \in Origin \cup {None}, kind # "action" => origin \in Origin,
           RequireApproval(kind, m, origin),
           origins' \in SUBSET Origin, browserOrigins' \in SUBSET Origin,
           granted' = granted
    PROVE  TypeInv'
<1>1. LifetimeOK /\ approvals \in 0..MaxApprovals BY DEF TypeInv, TypeOK, LifetimeOK
<1>2. UNCHANGED <<evidence, decision, phase, pendingInput, acts, cancelled>>
  BY DEF RequireApproval
<1>3. CASE approvals >= MaxApprovals
  <2>1. Fail /\ pending' = None /\ UNCHANGED approvals BY <1>3 DEF RequireApproval
  <2>2. LifetimeOK' BY <1>1, <2>1, FailEnds
  <2> QED BY <1>2, <2>1, <2>2
          DEF TypeInv, TypeOK, LifetimeOK, OriginNamed, evidence, decision, acts
<1>4. CASE ~(approvals >= MaxApprovals)
  <2>1. /\ approvals' = approvals + 1 /\ Reply
        /\ pending' = [id |-> approvals + 1, kind |-> kind, message |-> m, origin |-> origin]
    BY <1>4 DEF RequireApproval
  <2>2. approvals + 1 \in 1..MaxApprovals BY <1>1, <1>4, ConstantsAssumption
  <2>3. pending' \in Pending /\ (pending'.kind # "action" => pending'.origin \in Origin)
    BY <2>1, <2>2 DEF Pending
  <2>4. LifetimeOK' BY <1>1, <2>1, ReplyKeeps
  <2> QED BY <1>2, <2>1, <2>2, <2>3, <2>4
          DEF TypeInv, TypeOK, LifetimeOK, OriginNamed, evidence, decision, acts
<1> QED BY <1>3, <1>4

\* A handler that ends in the question a click needs.
LEMMA GateClickType ==
    ASSUME TypeInv, ~returned, NEW m \in Message, NEW approved, GateClick(m, approved),
           origins' \in SUBSET Origin, browserOrigins' \in SUBSET Origin,
           granted' = granted
    PROVE  TypeInv'
<1> DEFINE target == m.cand.shape.target
<1>1. m.cand \in CandidateId BY DEF GateClick, TypeInv, TypeOK
<1>2. target \in Origin \cup {None}
  BY <1>1, ConstantsAssumption DEF CandidateId, ShapeType
<1>3. \/ target # None /\ RequireApproval("origin_action", m, target)
      \/ RequireApproval("action", m, None)
  BY DEF GateClick
<1> HIDE DEF target
<1>4. CASE target # None /\ RequireApproval("origin_action", m, target)
  BY <1>2, <1>4, RequireApprovalType
<1>5. CASE RequireApproval("action", m, None)
  BY <1>5, RequireApprovalType
<1> QED BY <1>3, <1>4, <1>5

LEMMA RequestExecuteType == ASSUME TypeInv, RequestExecute PROVE TypeInv'
<1>1. /\ ~returned /\ phase \in {"authentication", "exploration"}
      /\ LifetimeOK
      /\ UNCHANGED <<origins, browserOrigins, granted>>
      /\ origins' \in SUBSET Origin /\ browserOrigins' \in SUBSET Origin
      /\ granted' \in Seq(Message)
  BY PhaseTable DEF RequestExecute, TypeInv, TypeOK, LifetimeOK
<1>2. ASSUME NEW m \in Navigation, Navigate(m) PROVE TypeInv'
  <2>1. m \in Message /\ m.origin \in Origin BY DEF Message, Navigation
  <2>2. \/ Execute(m) /\ UNCHANGED <<approvals, pending>>
        \/ RequireApproval("origin", m, m.origin)
    BY <1>2 DEF Navigate
  <2>3. CASE Execute(m) /\ UNCHANGED <<approvals, pending>>
    BY <1>1, <2>1, <2>3, ExecutedType
  <2>4. CASE RequireApproval("origin", m, m.origin)
    BY <1>1, <2>1, <2>4, RequireApprovalType
  <2> QED BY <2>2, <2>3, <2>4
<1>3. ASSUME NEW m \in Click, GateClick(m, origins) PROVE TypeInv'
  <2>1. m \in Message BY DEF Message
  <2> QED BY <1>1, <1>3, <2>1, GateClickType
<1>4. CASE RefuseExecute
  <2>1. LifetimeOK' BY <1>1, <1>4, FailEnds DEF RefuseExecute
  <2> QED BY <1>1, <1>4, <2>1
          DEF RefuseExecute, TypeInv, TypeOK, LifetimeOK, OriginNamed, evidence, decision, acts
<1> QED BY <1>2, <1>3, <1>4 DEF RequestExecute

\* A handler that only ends the session.
LEMMA EndsType ==
    ASSUME TypeInv, Fail, pending' = pending \/ pending' = None,
           UNCHANGED <<authority, evidence, humanConfirmed, outputs, phase, pendingInput, acts, cancelled>>,
           artifact' \in BOOLEAN
    PROVE  TypeInv'
<1>1. LifetimeOK BY DEF TypeInv, TypeOK, LifetimeOK
<1>2. LifetimeOK' /\ returned' BY <1>1, FailEnds
<1> QED BY <1>2 DEF TypeInv, TypeOK, LifetimeOK, OriginNamed, authority, evidence, acts

LEMMA ApproveType == ASSUME TypeInv, Approve PROVE TypeInv'
<1>1. ~returned /\ phase \in {"authentication", "exploration"}
  BY PhaseTable DEF Approve
<1>2. CASE Fail /\ UNCHANGED <<authority, evidence, decision, progress, acts, cancelled>>
  BY <1>2, EndsType DEF decision, progress, TypeInv, TypeOK
<1>3. CASE pending # None /\ (ApproveOrigin \/ ApproveOriginOfClick \/ ApproveAction \/ ApprovalRefused)
  <2>1. /\ pending.message \in Message
        /\ pending.kind # "action" => pending.origin \in Origin
        /\ origins \in SUBSET Origin /\ browserOrigins \in SUBSET Origin
        /\ granted \in Seq(Message)
    BY <1>3 DEF TypeInv, TypeOK, OriginNamed, Pending
  <2>2. CASE ApproveOrigin
    <3>1. origins' \in SUBSET Origin /\ browserOrigins' \in SUBSET Origin
      BY <2>1, <2>2 DEF ApproveOrigin, AdmitOrigin
    <3>2. /\ Execute(pending.message) /\ granted' = granted
          /\ approvals' = approvals /\ pending' = None
      BY <2>2 DEF ApproveOrigin
    <3> QED BY <1>1, <2>1, <3>1, <3>2, ExecutedType
  <2>3. CASE ApproveOriginOfClick
    <3>1. origins' \in SUBSET Origin /\ browserOrigins' \in SUBSET Origin
      BY <2>1, <2>3 DEF ApproveOriginOfClick, AdmitOrigin
    <3>2. GateClick(pending.message, origins') /\ granted' = granted
      BY <2>3 DEF ApproveOriginOfClick
    <3> QED BY <1>1, <2>1, <3>1, <3>2, GateClickType
  <2>4. CASE ApproveAction
    <3>1. /\ Execute(pending.message)
          /\ origins' = origins /\ browserOrigins' = browserOrigins
          /\ approvals' = approvals /\ pending' = None
      BY <2>4 DEF ApproveAction
    <3>2. granted' \in Seq(Message) BY <2>1, <2>4 DEF ApproveAction, RecordGrant
    <3> QED BY <1>1, <2>1, <3>1, <3>2, ExecutedType
  <2>5. CASE ApprovalRefused
    BY <2>5, EndsType DEF ApprovalRefused, decision, TypeInv, TypeOK
  <2> QED BY <1>3, <2>2, <2>3, <2>4, <2>5
<1> QED BY <1>2, <1>3 DEF Approve

LEMMA CompleteType == ASSUME TypeInv, Complete PROVE TypeInv'
<1>1. UNCHANGED <<authority, evidence, artifact, pending, pendingInput, acts, cancelled>>
  BY DEF Complete
<1>2. CASE Fail /\ UNCHANGED <<outputs, humanConfirmed, phase>>
  BY <1>1, <1>2, EndsType DEF TypeInv, TypeOK
<1>3. CASE ~(Fail /\ UNCHANGED <<outputs, humanConfirmed, phase>>)
  <2>1. /\ outputs' \subseteq CandidateId
        /\ humanConfirmed' = TRUE /\ phase' = "completed" /\ Reply
    BY <1>3 DEF Complete
  <2>2. LifetimeOK /\ ~returned BY PhaseTable DEF Complete, TypeInv, TypeOK, LifetimeOK
  <2>3. LifetimeOK' BY <2>1, <2>2, ReplyKeeps
  <2> QED BY <1>1, <2>1, <2>2, <2>3
          DEF TypeInv, TypeOK, LifetimeOK, OriginNamed, authority, evidence, acts
<1> QED BY <1>2, <1>3

LEMMA TypeStep == TypeInv /\ [Next]_vars => TypeInv'
<1> SUFFICES ASSUME TypeInv, [Next]_vars PROVE TypeInv' OBVIOUS
<1>1. ASSUME NEW requested \in SUBSET Origin, StartSession(requested) PROVE TypeInv'
  BY <1>1, StartType
<1>2. ASSUME NEW ctx \in Context, Observe(ctx) PROVE TypeInv' BY <1>2, ObserveType
<1>3. CASE Focus BY <1>3, FocusType
<1>4. CASE CompleteHumanInput BY <1>4, CompleteHumanInputType
<1>5. CASE RequestExecute BY <1>5, RequestExecuteType
<1>6. CASE Approve BY <1>6, ApproveType
<1>7. CASE Deny BY <1>7, EndsType DEF Deny, decision, TypeInv, TypeOK
<1>8. CASE Complete BY <1>8, CompleteType
<1>9. CASE Finish BY <1>9, EndsType DEF Finish, progress, TypeInv, TypeOK
<1>10. CASE CloseWithoutResult
  BY <1>10, EndsType DEF CloseWithoutResult, decision, progress, TypeInv, TypeOK
<1>11. CASE RefuseMessage
  BY <1>11, EndsType DEF RefuseMessage, decision, progress, TypeInv, TypeOK
<1>12. CASE InputEnds
  BY <1>12, EndsType DEF InputEnds, decision, progress, TypeInv, TypeOK
<1>13. CASE Cancel
  BY <1>13 DEF Cancel, TypeInv, TypeOK, OriginNamed,
               authority, evidence, decision, progress, acts, lifetime
<1>14. CASE UNCHANGED vars
  BY <1>14 DEF vars, TypeInv, TypeOK, OriginNamed,
               authority, evidence, decision, progress, acts, lifetime
<1> QED BY <1>1, <1>2, <1>3, <1>4, <1>5, <1>6, <1>7, <1>8, <1>9, <1>10,
           <1>11, <1>12, <1>13, <1>14 DEF Next

\* Every variable keeps its type, the observation and approval counters stay
\* within their bounds, for any number of origins, contexts and shapes.
THEOREM TypeCorrect == Spec => []TypeOK
<1>1. TypeInv => TypeOK BY DEF TypeInv
<1> QED BY InitTypeInv, TypeStep, <1>1, PTL DEF Spec

-----------------------------------------------------------------------------
(* The browser is released.                                                *)

\* A closed server has returned, and it holds a session exactly while the
\* browser is held.
ReleaseInv ==
    /\ closed => returned /\ ~session
    /\ session <=> live = "held"
    /\ live = "orphaned" => closed /\ phase = "awaiting_start"

LEMMA EndingRelease ==
    ASSUME TypeInv, ReleaseInv, ~returned, Fail \/ Reply
    PROVE  ReleaseInv'
BY DEF ReleaseInv, Fail, CloseSession, Reply, TypeInv, TypeOK

LEMMA ExecuteEnds == ASSUME NEW m, Execute(m) PROVE Fail \/ Reply
BY DEF Execute, ActFails

LEMMA GateClickEnds == ASSUME NEW m, NEW approved, GateClick(m, approved) PROVE Fail \/ Reply
BY DEF GateClick, RequireApproval

LEMMA ReleaseStep == TypeInv /\ ReleaseInv /\ [Next]_vars => ReleaseInv'
<1> SUFFICES ASSUME TypeInv, ReleaseInv, [Next]_vars PROVE ReleaseInv' OBVIOUS
<1>1. ASSUME NEW requested \in SUBSET Origin, StartSession(requested) PROVE ReleaseInv'
  <2>1. ~returned BY <1>1, PhaseTable DEF StartSession
  <2>2. CASE Fail BY <2>1, <2>2, EndingRelease
  <2>3. phase = "awaiting_start" BY <1>1, PhaseTable DEF StartSession
  <2>4. CASE ~Fail
    <3>1. CASE OpenPastDeadline /\ UNCHANGED phase
      BY <2>3, <3>1 DEF OpenPastDeadline, ReleaseInv
    <3>2. CASE session' = TRUE /\ live' = "held" /\ UNCHANGED closed
      BY <2>1, <3>2 DEF ReleaseInv
    <3> QED BY <1>1, <2>4, <3>1, <3>2 DEF StartSession
  <2> QED BY <2>2, <2>4
<1>2. ASSUME NEW ctx \in Context, Observe(ctx) PROVE ReleaseInv'
  BY <1>2, PhaseTable, EndingRelease DEF Observe
<1>3. CASE Focus BY <1>3, PhaseTable, EndingRelease DEF Focus
<1>4. CASE CompleteHumanInput BY <1>4, PhaseTable, EndingRelease DEF CompleteHumanInput
<1>5. CASE RequestExecute
  <2>1. ~returned BY <1>5, PhaseTable DEF RequestExecute
  <2>2. Fail \/ Reply
    BY <1>5, ExecuteEnds, GateClickEnds DEF RequestExecute, Navigate, RequireApproval, RefuseExecute
  <2> QED BY <2>1, <2>2, EndingRelease
<1>6. CASE Approve
  <2>1. ~returned BY <1>6, PhaseTable DEF Approve
  <2>2. Fail \/ Reply
    BY <1>6, ExecuteEnds, GateClickEnds
       DEF Approve, ApproveOrigin, ApproveOriginOfClick, ApproveAction, ApprovalRefused
  <2> QED BY <2>1, <2>2, EndingRelease
<1>7. CASE Deny BY <1>7, PhaseTable, EndingRelease DEF Deny
<1>8. CASE Complete BY <1>8, PhaseTable, EndingRelease DEF Complete
<1>9. CASE Finish BY <1>9, PhaseTable, EndingRelease DEF Finish
<1>10. CASE CloseWithoutResult BY <1>10, PhaseTable, EndingRelease DEF CloseWithoutResult
<1>11. CASE RefuseMessage BY <1>11, EndingRelease DEF RefuseMessage
<1>12. CASE InputEnds BY <1>12, EndingRelease DEF InputEnds
<1>13. CASE UNCHANGED <<lifetime, phase>> BY <1>13 DEF ReleaseInv, lifetime
<1> QED BY <1>1, <1>2, <1>3, <1>4, <1>5, <1>6, <1>7, <1>8, <1>9, <1>10,
           <1>11, <1>12, <1>13 DEF Next, vars, progress, Cancel

\* fail, cancel, finish and close all end in closeSession: a closed server
\* has told the browser it held to close, and an open session has one.  Only an
\* Open answered past the total deadline leaves a browser behind.
THEOREM BrowserReleased == Spec => []ClosedReleasesBrowser
<1>1. Init => ReleaseInv BY DEF Init, ReleaseInv
<1>2. ReleaseInv => ClosedReleasesBrowser BY DEF ReleaseInv, ClosedReleasesBrowser
<1> QED BY InitTypeInv, TypeStep, <1>1, ReleaseStep, <1>2, PTL DEF Spec

-----------------------------------------------------------------------------
(* Evidence and authority.                                                 *)
(*                                                                         *)
(* EvidenceIsCurrent is inductive once three facts about phases join it:   *)
(* past authentication there is an authentication proof, a human           *)
(* checkpoint returns to the authentication phase, and outputs exist only  *)
(* in the last phase; and the candidates outputs are chosen from are those *)
(* of the latest observation.                                              *)

PhaseInv ==
    /\ phase \in {"exploration", "completed"} => authProof # None
    /\ pendingInput # None => pendingInput.phase = "authentication"
    /\ phase # "completed" => outputs = {} /\ ~humanConfirmed

EvidenceInv == EvidenceIsCurrent /\ AuthorityIsOneGeneration /\ PhaseInv

LEMMA InitEvidenceInv == Init => EvidenceInv
BY DEF Init, EvidenceInv, EvidenceIsCurrent, AuthorityIsOneGeneration, PhaseInv

\* Ending the session disturbs nothing of it.
LEMMA EndsEvidence ==
    ASSUME EvidenceInv, Fail,
           UNCHANGED <<evidence, humanConfirmed, outputs, phase, pendingInput, performed>>
    PROVE  EvidenceInv'
BY DEF Fail, EvidenceInv, EvidenceIsCurrent, AuthorityIsOneGeneration, PhaseInv, evidence

LEMMA ObserveEvidence ==
    ASSUME TypeInv, EvidenceInv, NEW ctx \in Context, Observe(ctx)
    PROVE  EvidenceInv'
<1>1. /\ phase \in {"authentication", "exploration"} /\ pending = None
      /\ UNCHANGED <<decision, pending, pendingInput, acts>>
  BY PhaseTable DEF Observe
<1>2. CASE Fail /\ UNCHANGED <<candidates, contexts, goalProof, authProof, phase>>
  BY <1>1, <1>2 DEF Fail, EvidenceInv, EvidenceIsCurrent, AuthorityIsOneGeneration, PhaseInv,
                    decision, acts
<1>3. CASE /\ observations' = observations + 1
           /\ \E raw \in RawObservation : Reduce(ctx, raw)
           /\ Reply
  <2>1. PICK raw \in RawObservation : Reduce(ctx, raw) BY <1>3
  <2>2. ProofNow(observations + 1, ctx) # None
    <3>1. ProofNow(observations + 1, ctx) \in Proof
      BY <2>1, ConstantsAssumption DEF Reduce, ProofNow, Proof, TypeInv, TypeOK
    <3> QED BY <3>1, NoneAssumption
  <2>3. \A c \in candidates' : c.gen = observations'
    BY <1>3, <2>1 DEF Reduce, Generation
  <2>4. goalProof' # None => goalProof'.gen = observations' /\ goalProof'.at = Len(performed')
    BY <1>1, <1>3, <2>1 DEF Reduce, MatchGoal, ProofNow, acts
  <2>5. phase' \in {"authentication", "exploration"}
        /\ (phase' = "exploration" => authProof' # None)
    BY <1>1, <2>1, <2>2 DEF Reduce, EvidenceInv, PhaseInv
  <2>6. outputs' = {} /\ ~humanConfirmed' /\ pending' = None
    BY <1>1 DEF EvidenceInv, PhaseInv, decision
  <2> QED BY <1>1, <2>3, <2>4, <2>5, <2>6
          DEF EvidenceInv, EvidenceIsCurrent, AuthorityIsOneGeneration, PhaseInv
<1> QED BY <1>2, <1>3 DEF Observe

LEMMA ExecuteEvidence ==
    ASSUME EvidenceInv, phase \in {"authentication", "exploration"},
           NEW m, Execute(m), pending' = pending \/ pending' = None
    PROVE  EvidenceInv'
<1>1. /\ goalProof' = None /\ ~humanConfirmed'
      /\ UNCHANGED <<observations, candidates, authProof, outputs, phase, pendingInput>>
      /\ ~closed' => ~closed
  BY DEF Execute, WithdrawEvidence, ActFails, Fail, Reply
<1> QED BY <1>1 DEF EvidenceInv, EvidenceIsCurrent, AuthorityIsOneGeneration, PhaseInv

LEMMA RequireApprovalEvidence ==
    ASSUME TypeInv, EvidenceInv, NEW kind, NEW m \in Message, NEW origin,
           IsClick(m) => m.cand \in candidates /\ m.cand.shape.unique,
           RequireApproval(kind, m, origin)
    PROVE  EvidenceInv'
<1>1. UNCHANGED <<evidence, decision, phase, pendingInput, acts>> /\ (~closed' => ~closed)
  BY DEF RequireApproval, Fail, Reply
<1>2. pending' # None => pending'.message = m BY DEF RequireApproval
<1> QED BY <1>1, <1>2 DEF EvidenceInv, EvidenceIsCurrent, AuthorityIsOneGeneration, PhaseInv,
                          evidence, decision, acts

LEMMA GateClickEvidence ==
    ASSUME TypeInv, EvidenceInv, NEW m \in Message, NEW approved, GateClick(m, approved)
    PROVE  EvidenceInv'
BY RequireApprovalEvidence DEF GateClick

LEMMA RequestExecuteEvidence ==
    ASSUME TypeInv, EvidenceInv, RequestExecute PROVE EvidenceInv'
<1>1. phase \in {"authentication", "exploration"} BY PhaseTable DEF RequestExecute
<1>2. ASSUME NEW m \in Navigation, Navigate(m) PROVE EvidenceInv'
  <2>1. m \in Message /\ ~IsClick(m) BY DEF Message, Navigation, IsClick
  <2> QED BY <1>1, <1>2, <2>1, ExecuteEvidence, RequireApprovalEvidence DEF Navigate
<1>3. ASSUME NEW m \in Click, GateClick(m, origins) PROVE EvidenceInv'
  BY <1>3, GateClickEvidence DEF Message
<1>4. CASE RefuseExecute BY <1>4, EndsEvidence DEF RefuseExecute, decision, acts
<1> QED BY <1>2, <1>3, <1>4 DEF RequestExecute

LEMMA ApproveEvidence ==
    ASSUME TypeInv, EvidenceInv, Approve PROVE EvidenceInv'
<1>1. phase \in {"authentication", "exploration"} BY PhaseTable DEF Approve
<1>2. CASE Fail /\ UNCHANGED <<authority, evidence, decision, progress, acts, cancelled>>
  BY <1>2, EndsEvidence DEF decision, progress, acts
<1>3. CASE pending # None /\ (ApproveOrigin \/ ApproveOriginOfClick \/ ApproveAction \/ ApprovalRefused)
  <2>1. pending.message \in Message BY <1>3 DEF TypeInv, TypeOK, Pending
  <2>2. CASE ApproveOrigin BY <1>1, <2>2, ExecuteEvidence DEF ApproveOrigin
  <2>3. CASE ApproveOriginOfClick BY <2>1, <2>3, GateClickEvidence DEF ApproveOriginOfClick
  <2>4. CASE ApproveAction BY <1>1, <2>4, ExecuteEvidence DEF ApproveAction
  <2>5. CASE ApprovalRefused BY <2>5, EndsEvidence DEF ApprovalRefused, decision, acts
  <2> QED BY <1>3, <2>2, <2>3, <2>4, <2>5
<1> QED BY <1>2, <1>3 DEF Approve

LEMMA EvidenceStep == TypeInv /\ ReleaseInv /\ EvidenceInv /\ [Next]_vars => EvidenceInv'
<1> SUFFICES ASSUME TypeInv, ReleaseInv, EvidenceInv, [Next]_vars PROVE EvidenceInv' OBVIOUS
<1>1. ASSUME NEW requested \in SUBSET Origin, StartSession(requested) PROVE EvidenceInv'
  <2>1. /\ UNCHANGED <<evidence, decision, pending, pendingInput, acts>>
        /\ phase' \in {phase, "authentication"} /\ phase = "awaiting_start"
        /\ ~closed' => ~closed
    BY <1>1, PhaseTable DEF StartSession, Fail, OpenPastDeadline
  <2> QED BY <2>1 DEF EvidenceInv, EvidenceIsCurrent, AuthorityIsOneGeneration, PhaseInv,
                      evidence, decision, acts
<1>2. ASSUME NEW ctx \in Context, Observe(ctx) PROVE EvidenceInv' BY <1>2, ObserveEvidence
<1>3. CASE Focus
  <2>1. /\ UNCHANGED <<evidence, decision, pending, acts>>
        /\ phase = "authentication" /\ phase' \in {phase, "human_input"}
        /\ pendingInput' # None => pendingInput'.phase = "authentication"
        /\ ~closed' => ~closed
    BY <1>3, PhaseTable DEF Focus, Fail, Reply, EvidenceInv, PhaseInv
  <2> QED BY <2>1 DEF EvidenceInv, EvidenceIsCurrent, AuthorityIsOneGeneration, PhaseInv,
                      evidence, decision, acts
<1>4. CASE CompleteHumanInput
  <2>1. /\ UNCHANGED <<evidence, decision, pending, performed>>
        /\ phase = "human_input" /\ phase' \in {phase, "authentication"}
        /\ pendingInput' \in {None, pendingInput}
        /\ ~closed' => ~closed
    BY <1>4, PhaseTable DEF CompleteHumanInput, Fail, Reply, EvidenceInv, PhaseInv
  <2> QED BY <2>1 DEF EvidenceInv, EvidenceIsCurrent, AuthorityIsOneGeneration, PhaseInv,
                      evidence, decision
<1>5. CASE RequestExecute BY <1>5, RequestExecuteEvidence
<1>6. CASE Approve BY <1>6, ApproveEvidence
<1>7. CASE Deny BY <1>7, EndsEvidence DEF Deny, decision, acts
<1>8. CASE Complete
  <2>1. phase = "exploration" BY <1>8, PhaseTable DEF Complete
  <2>2. UNCHANGED <<evidence, artifact, pending, pendingInput, acts>> BY <1>8 DEF Complete
  <2>3. CASE Fail /\ UNCHANGED <<outputs, humanConfirmed, phase>>
    BY <2>2, <2>3, EndsEvidence DEF acts
  <2>4. CASE ~(Fail /\ UNCHANGED <<outputs, humanConfirmed, phase>>)
    <3>1. /\ goalProof # None /\ humanConfirmed' = TRUE /\ phase' = "completed" /\ Reply
          /\ \A c \in outputs' : Selectable(c)
      BY <1>8, <2>4 DEF Complete
    <3>2. \A c \in outputs' : c.gen = observations /\ c.ctx = goalProof.ctx
      BY <1>8, <3>1, PhaseTable DEF Complete, ReleaseInv, Selectable, EvidenceInv, AuthorityIsOneGeneration
    <3> QED BY <2>1, <2>2, <3>1, <3>2
            DEF EvidenceInv, EvidenceIsCurrent, AuthorityIsOneGeneration, PhaseInv,
                evidence, acts, Reply
  <2> QED BY <2>3, <2>4
<1>9. CASE Finish BY <1>9, EndsEvidence DEF Finish, progress, acts
<1>10. CASE CloseWithoutResult BY <1>10, EndsEvidence DEF CloseWithoutResult, decision, progress, acts
<1>11. CASE RefuseMessage BY <1>11, EndsEvidence DEF RefuseMessage, decision, progress, acts
<1>12. CASE InputEnds BY <1>12, EndsEvidence DEF InputEnds, decision, progress, acts
<1>13. CASE UNCHANGED <<authority, evidence, decision, progress, acts, lifetime>>
  BY <1>13 DEF EvidenceInv, EvidenceIsCurrent, AuthorityIsOneGeneration, PhaseInv,
               evidence, decision, progress, acts, lifetime
<1> QED BY <1>1, <1>2, <1>3, <1>4, <1>5, <1>6, <1>7, <1>8, <1>9, <1>10,
           <1>11, <1>12, <1>13 DEF Next, vars, Cancel

\* A goal proof is of the latest observation and of the page as it is now, and
\* nothing is confirmed or selected without one.
THEOREM EvidenceCurrent == Spec => []EvidenceIsCurrent
<1>1. Init => ReleaseInv BY DEF Init, ReleaseInv
<1>2. EvidenceInv => EvidenceIsCurrent BY DEF EvidenceInv
<1> QED BY InitTypeInv, TypeStep, <1>1, ReleaseStep, InitEvidenceInv, EvidenceStep, <1>2,
           PTL DEF Spec

\* Candidates never outlive their observation, and the click the operator is
\* asked about still names one of them when the answer comes.
THEOREM OneGeneration == Spec => []AuthorityIsOneGeneration
<1>1. Init => ReleaseInv BY DEF Init, ReleaseInv
<1>2. EvidenceInv => AuthorityIsOneGeneration BY DEF EvidenceInv
<1> QED BY InitTypeInv, TypeStep, <1>1, ReleaseStep, InitEvidenceInv, EvidenceStep, <1>2,
           PTL DEF Spec

-----------------------------------------------------------------------------
(* Origins.                                                                *)
(*                                                                         *)
(* OriginsAgree needs to know what a pending question is about: the act it *)
(* will release once its origin is approved leads exactly there.           *)

QuestionFits ==
    pending # None =>
        /\ pending.kind = "action" => IsClick(pending.message) /\ WithinOrigins(pending.message)
        /\ pending.kind = "origin_action" =>
              IsClick(pending.message) /\ pending.message.cand.shape.target = pending.origin
        /\ pending.kind = "origin" =>
              ~IsClick(pending.message) /\ pending.message.origin = pending.origin

NothingBeforeStart ==
    phase = "awaiting_start" =>
        performed = <<>> /\ pending = None /\ \A c \in Child : contexts[c] = None

OriginInv == OriginsAgree /\ QuestionFits /\ NothingBeforeStart

LEMMA InitOriginInv == Init => OriginInv
BY DEF Init, OriginInv, OriginsAgree, QuestionFits, NothingBeforeStart

\* Approved origins only grow, so what was within them stays within them.
LEMMA EndsOrigins ==
    ASSUME TypeInv, OriginInv, pending' = pending \/ pending' = None,
           UNCHANGED <<origins, browserOrigins, contexts, phase, performed>>
    PROVE  OriginInv'
BY DEF OriginInv, OriginsAgree, QuestionFits, NothingBeforeStart, WithinOrigins

LEMMA ExecuteOrigins ==
    ASSUME TypeInv, OriginInv, ~returned, phase \in {"authentication", "exploration"},
           NEW m \in Message, Execute(m), WithinOrigins(m)',
           origins \subseteq origins', browserOrigins' = origins',
           pending' = None \/ (pending' = pending /\ origins' = origins)
    PROVE  OriginInv'
<1>1. /\ phase' = phase
      /\ performed' \in {performed, Append(performed, m)}
      /\ \A c \in Child : contexts'[c] = contexts[c] \/ contexts'[c] \in origins'
  <2>1. contexts' = contexts \/ Opens(contexts') BY DEF Execute, ActFails
  <2>2. \A c \in Child : contexts'[c] = contexts[c] \/ contexts'[c] \in origins'
    BY <2>1 DEF Opens, TypeInv, TypeOK
  <2> QED BY <2>2 DEF Execute
<1>3. \A i \in DOMAIN performed' : WithinOrigins(performed[i])'
  <2>1. CASE performed' = performed
    BY <2>1 DEF OriginInv, OriginsAgree, WithinOrigins, IsClick
  <2>2. CASE performed' = Append(performed, m)
    <3>1. performed \in Seq(Message) BY DEF TypeInv, TypeOK
    <3>2. ASSUME NEW i \in DOMAIN performed' PROVE WithinOrigins(performed[i])'
      <4>1. CASE i \in DOMAIN performed
        BY <2>2, <3>1, <4>1 DEF OriginInv, OriginsAgree, WithinOrigins, IsClick
      <4>2. CASE i \notin DOMAIN performed
        <5>1. performed'[i] = m BY <2>2, <3>1, <3>2, <4>2
        <5> QED BY <5>1 DEF WithinOrigins, IsClick
      <4> QED BY <4>1, <4>2
    <3> QED BY <3>2
  <2> QED BY <1>1, <2>1, <2>2
<1>4. \A c \in Child : contexts'[c] # None => contexts'[c] \in origins'
  BY <1>1 DEF OriginInv, OriginsAgree
<1>5. QuestionFits' BY DEF OriginInv, QuestionFits, WithinOrigins
<1> QED BY <1>1, <1>3, <1>4, <1>5 DEF OriginInv, OriginsAgree, NothingBeforeStart

LEMMA RequireApprovalOrigins ==
    ASSUME TypeInv, OriginInv, phase \in {"authentication", "exploration"},
           NEW kind, NEW m \in Message, NEW origin, RequireApproval(kind, m, origin),
           origins \subseteq origins', browserOrigins' = origins',
           kind = "action" => IsClick(m) /\ WithinOrigins(m)',
           kind = "origin_action" => IsClick(m) /\ m.cand.shape.target = origin,
           kind = "origin" => ~IsClick(m) /\ m.origin = origin
    PROVE  OriginInv'
<1>1. UNCHANGED <<contexts, phase, performed>> BY DEF RequireApproval, evidence, acts
<1>2. pending' # None => /\ pending'.kind = kind /\ pending'.message = m
                         /\ pending'.origin = origin
  BY DEF RequireApproval
<1>3. OriginsAgree' BY <1>1 DEF OriginInv, OriginsAgree, WithinOrigins
<1>4. QuestionFits' BY <1>2 DEF QuestionFits, WithinOrigins, IsClick
<1> QED BY <1>1, <1>3, <1>4 DEF OriginInv, NothingBeforeStart

LEMMA GateClickOrigins ==
    ASSUME TypeInv, OriginInv, phase \in {"authentication", "exploration"},
           NEW m \in Message, IsClick(m), GateClick(m, origins'),
           origins \subseteq origins', browserOrigins' = origins'
    PROVE  OriginInv'
<1> DEFINE target == m.cand.shape.target
<1>1. CASE target # None /\ target \notin origins'
  <2>1. RequireApproval("origin_action", m, target) BY <1>1 DEF GateClick
  <2> QED BY <2>1, RequireApprovalOrigins
<1>2. CASE ~(target # None /\ target \notin origins')
  <2>1. RequireApproval("action", m, None) BY <1>2 DEF GateClick
  <2>2. WithinOrigins(m)' BY <1>2 DEF WithinOrigins, IsClick
  <2> QED BY <2>1, <2>2, RequireApprovalOrigins
<1> QED BY <1>1, <1>2

LEMMA RequestExecuteOrigins ==
    ASSUME TypeInv, OriginInv, RequestExecute PROVE OriginInv'
<1>1. /\ ~returned /\ pending = None /\ phase \in {"authentication", "exploration"}
      /\ UNCHANGED <<origins, browserOrigins>> /\ browserOrigins' = origins'
  BY PhaseTable DEF RequestExecute, OriginInv, OriginsAgree
<1>2. ASSUME NEW m \in Navigation, Navigate(m) PROVE OriginInv'
  <2>1. m \in Message /\ ~IsClick(m) BY DEF Message, Navigation, IsClick
  <2>2. CASE m.origin \in origins
    <3>1. Execute(m) /\ pending' = pending BY <1>2, <2>2 DEF Navigate
    <3>2. WithinOrigins(m)' BY <1>1, <2>1, <2>2 DEF WithinOrigins, IsClick
    <3> QED BY <1>1, <2>1, <3>1, <3>2, ExecuteOrigins
  <2>3. CASE m.origin \notin origins
    <3>1. RequireApproval("origin", m, m.origin) BY <1>2, <2>3 DEF Navigate
    <3> QED BY <1>1, <2>1, <3>1, RequireApprovalOrigins
  <2> QED BY <2>2, <2>3
<1>3. ASSUME NEW m \in Click, GateClick(m, origins) PROVE OriginInv'
  <2>1. m \in Message /\ IsClick(m) BY DEF Message, Click, IsClick
  <2>2. GateClick(m, origins') BY <1>1, <1>3
  <2> QED BY <1>1, <2>1, <2>2, GateClickOrigins
<1>4. CASE RefuseExecute
  BY <1>1, <1>4, EndsOrigins DEF RefuseExecute, evidence, acts
<1> QED BY <1>2, <1>3, <1>4 DEF RequestExecute

LEMMA ApproveOrigins ==
    ASSUME TypeInv, OriginInv, Approve PROVE OriginInv'
<1>1. /\ ~returned /\ phase \in {"authentication", "exploration"}
      /\ browserOrigins = origins
  BY PhaseTable DEF Approve, OriginInv, OriginsAgree
<1>2. CASE Fail /\ UNCHANGED <<authority, evidence, decision, progress, acts, cancelled>>
  BY <1>2, EndsOrigins DEF authority, evidence, progress, acts
<1>3. CASE pending # None /\ (ApproveOrigin \/ ApproveOriginOfClick \/ ApproveAction \/ ApprovalRefused)
  <2> DEFINE m == pending.message
  <2>1. m \in Message /\ QuestionFits
    BY <1>3 DEF TypeInv, TypeOK, Pending, OriginInv
  <2>2. CASE ApproveOrigin
    <3>1. /\ pending' = None /\ Execute(m)
          /\ origins' = origins \cup {pending.origin} /\ browserOrigins' = origins'
      BY <1>1, <2>2 DEF ApproveOrigin, AdmitOrigin
    <3>2. ~IsClick(m) /\ m.origin \in origins'
      BY <1>3, <2>1, <2>2, <3>1 DEF QuestionFits, ApproveOrigin
    <3>3. \A a \in Message : a = m => WithinOrigins(a)'
      BY <3>2 DEF WithinOrigins, IsClick
    <3>4. PICK a \in Message : a = m BY <2>1
    <3> QED BY <1>1, <3>1, <3>3, <3>4, ExecuteOrigins
  <2>3. CASE ApproveOriginOfClick
    <3>1. /\ GateClick(m, origins')
          /\ origins' = origins \cup {pending.origin} /\ browserOrigins' = origins'
      BY <1>1, <2>3 DEF ApproveOriginOfClick, AdmitOrigin
    <3>2. IsClick(m) BY <1>3, <2>1, <2>3 DEF QuestionFits, ApproveOriginOfClick
    <3>3. PICK a \in Message : a = m BY <2>1
    <3> QED BY <1>1, <3>1, <3>2, <3>3, GateClickOrigins
  <2>4. CASE ApproveAction
    <3>1. /\ pending' = None /\ Execute(m)
          /\ UNCHANGED <<origins, browserOrigins>>
      BY <2>4 DEF ApproveAction
    <3>2. IsClick(m) /\ WithinOrigins(m)
      BY <1>3, <2>1, <2>4 DEF QuestionFits, ApproveAction
    <3>3. \A a \in Message : a = m => WithinOrigins(a)'
      BY <3>1, <3>2 DEF WithinOrigins, IsClick
    <3>4. PICK a \in Message : a = m BY <2>1
    <3> QED BY <1>1, <3>1, <3>3, <3>4, ExecuteOrigins
  <2>5. CASE ApprovalRefused
    BY <2>5, EndsOrigins DEF ApprovalRefused, authority, evidence, acts
  <2> QED BY <1>3, <2>2, <2>3, <2>4, <2>5
<1> QED BY <1>2, <1>3 DEF Approve

LEMMA OriginStep == TypeInv /\ OriginInv /\ [Next]_vars => OriginInv'
<1> SUFFICES ASSUME TypeInv, OriginInv, [Next]_vars PROVE OriginInv' OBVIOUS
<1>1. ASSUME NEW requested \in SUBSET Origin, StartSession(requested) PROVE OriginInv'
  <2>1. /\ phase = "awaiting_start"
        /\ UNCHANGED <<evidence, pending, acts>> /\ phase' \in {phase, "authentication"}
        /\ phase' # "awaiting_start" => browserOrigins' = origins'
    BY <1>1, PhaseTable DEF StartSession, OpenPastDeadline
  <2> QED BY <2>1 DEF OriginInv, OriginsAgree, QuestionFits, NothingBeforeStart, evidence, acts
<1>2. ASSUME NEW ctx \in Context, Observe(ctx) PROVE OriginInv'
  <2>1. /\ pending = None /\ phase \in {"authentication", "exploration"}
        /\ UNCHANGED <<origins, browserOrigins, pending, performed>>
    BY <1>2, PhaseTable DEF Observe, authority, acts
  <2>2. /\ phase' \in {"authentication", "exploration"}
        /\ \A c \in Child : contexts'[c] # None => contexts'[c] \in origins
    BY <1>2, <2>1 DEF Observe, Reduce, Merged, InventoryOK, Known, RawObservation,
                      OriginInv, OriginsAgree
  <2> QED BY <2>1, <2>2 DEF OriginInv, OriginsAgree, QuestionFits, NothingBeforeStart, WithinOrigins
<1>3. CASE Focus
  <2>1. /\ phase = "authentication" /\ phase' \in {phase, "human_input"}
        /\ UNCHANGED <<origins, browserOrigins, pending, performed, contexts>>
    BY <1>3, PhaseTable DEF Focus, authority, acts, evidence
  <2> QED BY <2>1 DEF OriginInv, OriginsAgree, QuestionFits, NothingBeforeStart, WithinOrigins
<1>4. CASE CompleteHumanInput
  <2>1. /\ phase = "human_input" /\ phase' # "awaiting_start"
        /\ UNCHANGED <<origins, browserOrigins, pending, performed, contexts>>
    BY <1>4, PhaseTable DEF CompleteHumanInput, authority, evidence, TypeInv, TypeOK, PendingInput
  <2> QED BY <2>1 DEF OriginInv, OriginsAgree, QuestionFits, NothingBeforeStart, WithinOrigins
<1>5. CASE RequestExecute BY <1>5, RequestExecuteOrigins
<1>6. CASE Approve BY <1>6, ApproveOrigins
<1>7. CASE Deny BY <1>7, EndsOrigins DEF Deny, authority, evidence, acts
<1>8. CASE Complete
  <2>1. /\ phase = "exploration" /\ phase' # "awaiting_start"
        /\ UNCHANGED <<origins, browserOrigins, pending, performed, contexts>>
    BY <1>8, PhaseTable DEF Complete, authority, evidence, acts
  <2> QED BY <2>1 DEF OriginInv, OriginsAgree, QuestionFits, NothingBeforeStart, WithinOrigins
<1>9. CASE Finish BY <1>9, EndsOrigins DEF Finish, authority, evidence, progress, acts
<1>10. CASE CloseWithoutResult
  BY <1>10, EndsOrigins DEF CloseWithoutResult, authority, evidence, progress, acts
<1>11. CASE RefuseMessage BY <1>11, EndsOrigins DEF RefuseMessage, authority, evidence, progress, acts
<1>12. CASE InputEnds BY <1>12, EndsOrigins DEF InputEnds, authority, evidence, progress, acts
<1>13. CASE UNCHANGED <<authority, evidence, decision, progress, acts, lifetime>>
  BY <1>13, EndsOrigins DEF authority, evidence, progress, acts
<1> QED BY <1>1, <1>2, <1>3, <1>4, <1>5, <1>6, <1>7, <1>8, <1>9, <1>10,
           <1>11, <1>12, <1>13 DEF Next, vars, Cancel

\* The server and the browser agree on the approved origins, and everything
\* the browser did, and every context it knows, lies within them.
THEOREM OriginAuthority == Spec => []OriginsAgree
<1>1. OriginInv => OriginsAgree BY DEF OriginInv
<1> QED BY InitTypeInv, TypeStep, InitOriginInv, OriginStep, <1>1, PTL DEF Spec

-----------------------------------------------------------------------------
(* The human is not raced. *)

LEMMA RaceStep == TypeInv /\ [Next]_vars => [LeavesBrowserAlone]_vars
<1> SUFFICES ASSUME TypeInv, [Next]_vars PROVE LeavesBrowserAlone \/ UNCHANGED vars OBVIOUS
<1>1. ASSUME NEW ctx \in Context, Observe(ctx) PROVE LeavesBrowserAlone
  BY <1>1, PhaseTable DEF Observe, LeavesBrowserAlone
<1>2. CASE RequestExecute BY <1>2, PhaseTable DEF RequestExecute, LeavesBrowserAlone
<1>3. CASE Approve
  <2>1. phase # "human_input" BY <1>3, PhaseTable DEF Approve
  <2>2. CASE ApproveOrigin /\ pending # None
    BY <2>1, <2>2 DEF ApproveOrigin, Execute, LeavesBrowserAlone
  <2>3. CASE ApproveAction /\ pending # None
    BY <2>1, <2>3 DEF ApproveAction, Execute, LeavesBrowserAlone
  <2>4. CASE ApproveOriginOfClick
    BY <2>1, <2>4 DEF ApproveOriginOfClick, GateClick, RequireApproval, LeavesBrowserAlone,
                      evidence, acts
  <2>5. CASE UNCHANGED <<evidence, acts>>
    BY <2>1, <2>5 DEF LeavesBrowserAlone, evidence, acts
  <2> QED BY <1>3, <2>2, <2>3, <2>4, <2>5 DEF Approve, ApprovalRefused
<1>4. CASE UNCHANGED <<observations, candidates, performed>>
  BY <1>4 DEF LeavesBrowserAlone
<1>5. ASSUME NEW requested \in SUBSET Origin, StartSession(requested)
      PROVE UNCHANGED <<observations, candidates, performed>>
  BY <1>5 DEF StartSession, evidence, acts
<1>6. Focus \/ CompleteHumanInput \/ Deny \/ Complete \/ Finish \/ CloseWithoutResult
         \/ RefuseMessage \/ InputEnds \/ Cancel
         => UNCHANGED <<observations, candidates, performed>>
  BY DEF Focus, CompleteHumanInput, Deny, Complete, Finish, CloseWithoutResult, RefuseMessage,
         InputEnds, Cancel, evidence, acts
<1> QED BY <1>1, <1>2, <1>3, <1>4, <1>5, <1>6 DEF Next

\* At a human checkpoint nothing touches or reads the browser; while a
\* question is outstanding only the act it asks for may happen, once.
THEOREM HumanNotRaced == Spec => HumanIsNotRaced
BY InitTypeInv, TypeStep, RaceStep, PTL DEF Spec, HumanIsNotRaced

-----------------------------------------------------------------------------
(* The contract.                                                           *)
(*                                                                         *)
(* A step that leaves the session open maps to the contract's action of    *)
(* that name; one that ends it maps to End, whose disjunct says how far    *)
(* the act it was in the middle of had come.  The invariants above give    *)
(* the mapping what it needs: the two sets of origins are one, a pending   *)
(* question is about the act it will release, and nothing is written but   *)
(* by the step that ends the session.                                      *)

\* A result is written in the step that ends the session.
WrittenInv == artifact => returned

ContractInv == TypeInv /\ ReleaseInv /\ EvidenceInv /\ OriginInv /\ WrittenInv

LEMMA WrittenStep == TypeInv /\ WrittenInv /\ [Next]_vars => WrittenInv'
<1> SUFFICES ASSUME TypeInv, WrittenInv, [Next]_vars PROVE WrittenInv' OBVIOUS
<1>1. CASE Finish BY <1>1 DEF Finish, Fail, WrittenInv
<1>2. CASE UNCHANGED vars \/ Cancel
  BY <1>2 DEF Cancel, WrittenInv, vars, decision, lifetime
<1>3. CASE ~returned /\ UNCHANGED artifact BY <1>3 DEF WrittenInv
<1>4. ASSUME NEW requested \in SUBSET Origin, StartSession(requested) PROVE ~returned /\ UNCHANGED artifact
  BY <1>4, PhaseTable DEF StartSession, decision
<1>5. ASSUME NEW ctx \in Context, Observe(ctx) PROVE ~returned /\ UNCHANGED artifact
  BY <1>5, PhaseTable DEF Observe, decision
<1>6. RequestExecute \/ Approve => ~returned /\ UNCHANGED artifact
  BY PhaseTable DEF RequestExecute, Approve, Navigate, GateClick, Execute, RequireApproval, RefuseExecute,
                    ApproveOrigin, ApproveOriginOfClick, ApproveAction, ApprovalRefused, decision
<1>7. Focus \/ CompleteHumanInput \/ Deny \/ Complete \/ CloseWithoutResult \/ RefuseMessage \/ InputEnds
      => ~returned /\ UNCHANGED artifact
  BY PhaseTable DEF Focus, CompleteHumanInput, Deny, Complete, CloseWithoutResult, RefuseMessage, InputEnds,
                    decision
<1> QED BY <1>1, <1>2, <1>3, <1>4, <1>5, <1>6, <1>7 DEF Next

\* The mapping, of a session that has not returned.
LEMMA OpenStatus ==
    ASSUME ContractInv, ~returned
    PROVE  /\ ~artifact
           /\ phase = "awaiting_start" => Status = "idle"
           /\ phase \in {"authentication", "human_input", "exploration"} => Status = "authoring"
           /\ phase = "completed" => Status = "confirmed"
           /\ pending = None => Asked = None
           /\ pending # None => Asked = [kind |-> pending.kind, act |-> ActOf(pending.message)]
           /\ Evident <=> goalProof # None
<1>1. ~artifact BY DEF ContractInv, WrittenInv
<1>2. Status # "ended" BY <1>1 DEF Status
<1>3. /\ phase = "awaiting_start" => Status = "idle"
      /\ phase \in {"authentication", "human_input", "exploration"} => Status = "authoring"
      /\ phase = "completed" => Status = "confirmed"
  BY <1>1 DEF Status
<1> QED BY <1>1, <1>2, <1>3 DEF Asked, Evident

\* The same of the state a step leads to.
LEMMA OpenStatusNext ==
    ASSUME ~returned', ~artifact'
    PROVE  /\ phase' = "awaiting_start" => Status' = "idle"
           /\ phase' \in {"authentication", "human_input", "exploration"} => Status' = "authoring"
           /\ phase' = "completed" => Status' = "confirmed"
           /\ pending' = None => Asked' = None
           /\ pending' # None => Asked' = [kind |-> pending'.kind, act |-> ActOf(pending'.message)]
           /\ Evident' <=> goalProof' # None
<1>1. Status' # "ended" BY DEF Status
<1>2. /\ phase' = "awaiting_start" => Status' = "idle"
      /\ phase' \in {"authentication", "human_input", "exploration"} => Status' = "authoring"
      /\ phase' = "completed" => Status' = "confirmed"
  BY DEF Status
<1>3. /\ pending' = None => Asked' = None
      /\ pending' # None => Asked' = [kind |-> pending'.kind, act |-> ActOf(pending'.message)]
  BY <1>1 DEF Asked, ActOf, IsClick
<1> QED BY <1>1, <1>2, <1>3 DEF Evident

LEMMA EndedStatus ==
    ASSUME returned', ~artifact'
    PROVE  Status' = "ended" /\ Asked' = None /\ Evident' = FALSE
<1>1. Status' = "ended" BY DEF Status
<1> QED BY <1>1 DEF Asked, Evident

LEMMA ActType == ASSUME NEW m \in Message PROVE ActOf(m) \in Contract!Act
<1>1. CASE m \in Click
  <2>1. m.cand.shape.target \in Origin \cup {None} /\ m.action = "click"
    BY <1>1, ConstantsAssumption DEF Click, CandidateId, ShapeType
  <2> QED BY <2>1 DEF ActOf, IsClick, Contract!Act
<1>2. CASE m \in Navigation
  <2>1. m.origin \in Origin /\ m.action = "navigate_get" BY <1>2 DEF Navigation
  <2> QED BY <2>1 DEF ActOf, IsClick, Contract!Act
<1> QED BY <1>1, <1>2 DEF Message

LEMMA DoneAppends ==
    ASSUME TypeInv, NEW m \in Message, performed' = Append(performed, m)
    PROVE  Done' = Append(Done, ActOf(m))
<1>1. performed \in Seq(Message) BY DEF TypeInv, TypeOK
<1>2. DOMAIN performed = 1..Len(performed) /\ Len(performed) \in Nat BY <1>1
<1>3. DOMAIN Done = 1..Len(performed) /\ Done \in Seq(Contract!Act) /\ Len(Done) = Len(performed)
  <2>1. \A i \in 1..Len(performed) : ActOf(performed[i]) \in Contract!Act BY <1>1, <1>2, ActType
  <2> QED BY <1>2, <2>1 DEF Done
<1>4. DOMAIN performed' = 1..Len(performed) + 1 BY <1>1
<1>5. \A i \in 1..Len(performed) : performed'[i] = performed[i] BY <1>1
<1>6. performed'[Len(performed) + 1] = m BY <1>1
<1>7. Done' = [i \in DOMAIN performed' |-> ActOf(performed'[i])] BY DEF Done, ActOf, IsClick
<1>8. /\ Append(Done, ActOf(m)) \in Seq(Contract!Act) /\ Len(Append(Done, ActOf(m))) = Len(performed) + 1
      /\ \A i \in 1..Len(performed) : Append(Done, ActOf(m))[i] = Done[i]
      /\ Append(Done, ActOf(m))[Len(performed) + 1] = ActOf(m)
  BY <1>3, ActType, AppendProperties
<1>9. DOMAIN Append(Done, ActOf(m)) = 1..Len(performed) + 1 BY <1>8
<1>10. ASSUME NEW i \in 1..Len(performed) + 1 PROVE Done'[i] = Append(Done, ActOf(m))[i]
  <2>1. CASE i \in 1..Len(performed)
    <3>1. Done'[i] = ActOf(performed[i]) BY <1>2, <1>4, <1>5, <1>7, <2>1
    <3>2. Done[i] = ActOf(performed[i]) BY <1>2, <2>1 DEF Done
    <3> QED BY <1>8, <2>1, <3>1, <3>2
  <2>2. CASE i \notin 1..Len(performed)
    <3>1. i = Len(performed) + 1 BY <1>2, <2>2
    <3> QED BY <1>4, <1>6, <1>7, <1>8, <3>1
  <2> QED BY <2>1, <2>2
<1>11. Len(Done') = Len(performed) + 1 /\ Done' \in Seq(Contract!Act)
  <2>1. \A i \in 1..Len(performed) + 1 : Done'[i] \in Contract!Act BY <1>2, <1>8, <1>10
  <2> QED BY <1>2, <1>4, <1>7, <2>1
<1> QED BY <1>8, <1>10, <1>11, SeqEqual

\* A step that ends the session without a result or a further act.
LEMMA EndsContract ==
    ASSUME ContractInv, ~returned, returned', ~artifact', performed' = performed,
           \/ browserOrigins' = browserOrigins
           \/ phase = "awaiting_start" /\ browserOrigins' \in SUBSET Origin
    PROVE  Contract!Next
<1>1. Status \notin {"delivered", "ended"} BY OpenStatus DEF Status
<1>2. Status' = "ended" /\ Asked' = None /\ Evident' = FALSE BY EndedStatus
<1>3. Done' = Done BY DEF Done, ActOf, IsClick
<1>4. Contract!EndQuietly
  <2>1. browserOrigins \in SUBSET Origin BY DEF ContractInv, TypeInv, TypeOK
  <2>2. Status = "idle" \/ browserOrigins' = browserOrigins BY OpenStatus
  <2> QED BY <1>3, <2>1, <2>2 DEF Contract!EndQuietly
<1> QED BY <1>1, <1>2, <1>4 DEF Contract!Next, Contract!End

\* A handler that fails before it has done anything.
LEMMA FailsContract ==
    ASSUME ContractInv, ~returned, Fail, UNCHANGED <<browserOrigins, performed, artifact>>
    PROVE  Contract!Next
BY EndsContract DEF Fail, ContractInv, WrittenInv

LEMMA StartContract ==
    ASSUME ContractInv, NEW requested \in SUBSET Origin, StartSession(requested)
    PROVE  Contract!Next
<1>1. /\ ~returned /\ phase = "awaiting_start" /\ ~artifact' /\ performed' = performed
      /\ pending' = pending /\ goalProof' = goalProof
      /\ browserOrigins' \in {browserOrigins, requested}
  BY PhaseTable DEF StartSession, decision, acts, evidence, ContractInv, WrittenInv
<1>2. CASE returned' BY <1>1, <1>2, EndsContract
<1>3. CASE ~returned'
  <2>1. phase' = "authentication" /\ browserOrigins' = requested
    BY <1>3 DEF StartSession, Fail, OpenPastDeadline
  <2>2. Status = "idle" /\ Asked = None /\ Asked' = None
    BY <1>1, <1>3, OpenStatus, OpenStatusNext DEF ContractInv, OriginInv, NothingBeforeStart
  <2>3. Status' = "authoring" BY <1>1, <1>3, <2>1, OpenStatusNext
  <2>4. Evident' = Evident BY <1>1, <1>3, <2>2, <2>3 DEF Evident
  <2>5. Done' = Done BY <1>1 DEF Done, ActOf, IsClick
  <2> QED BY <2>1, <2>2, <2>3, <2>4, <2>5 DEF Contract!Next, Contract!Begin
<1> QED BY <1>2, <1>3

LEMMA ObserveContract ==
    ASSUME ContractInv, NEW ctx \in Context, Observe(ctx)
    PROVE  Contract!Next
<1>1. /\ ~returned /\ phase \in {"authentication", "exploration"} /\ pending = None
      /\ ~artifact' /\ performed' = performed /\ pending' = pending
      /\ browserOrigins' = browserOrigins
  BY PhaseTable DEF Observe, authority, decision, acts, ContractInv, WrittenInv
<1>2. CASE returned' BY <1>1, <1>2, EndsContract
<1>3. CASE ~returned'
  <2>1. phase' \in {"authentication", "exploration"}
    BY <1>1, <1>3 DEF Observe, Reduce, Fail
  <2>2. Status = "authoring" /\ Status' = "authoring" /\ Asked = None /\ Asked' = None
    BY <1>1, <1>3, <2>1, OpenStatus, OpenStatusNext
  <2>3. Done' = Done BY <1>1 DEF Done, ActOf, IsClick
  <2>4. Contract!Look(Evident') /\ Evident' \in BOOLEAN
    BY <1>1, <2>2, <2>3 DEF Contract!Look, Evident
  <2> QED BY <2>4 DEF Contract!Next
<1> QED BY <1>2, <1>3

\* Human input is none of the contract's business.
LEMMA HumanInputContract ==
    ASSUME ContractInv, Focus \/ CompleteHumanInput
    PROVE  Contract!Next \/ UNCHANGED Contract!vars
<1>1. /\ ~returned /\ phase \in {"authentication", "human_input"}
      /\ UNCHANGED <<browserOrigins, goalProof, artifact, pending, performed>>
  BY PhaseTable DEF Focus, CompleteHumanInput, authority, evidence, decision, acts
<1>2. ~artifact' BY <1>1 DEF ContractInv, WrittenInv
<1>3. CASE returned' BY <1>1, <1>2, <1>3, EndsContract
<1>4. CASE ~returned'
  <2>1. phase' \in {"authentication", "human_input", "exploration"}
    <3>1. CASE Focus BY <1>4, <3>1, PhaseTable DEF Focus, Fail
    <3>2. CASE CompleteHumanInput
      <4>1. pendingInput # None /\ phase' = pendingInput.phase
        BY <1>4, <3>2 DEF CompleteHumanInput, Fail
      <4> QED BY <4>1 DEF ContractInv, TypeInv, TypeOK, PendingInput
    <3> QED BY <3>1, <3>2
  <2>2. Status = "authoring" /\ Status' = "authoring"
    BY <1>1, <1>2, <1>4, <2>1, OpenStatus, OpenStatusNext
  <2>3. Asked' = Asked BY <1>1, <2>2 DEF Asked, ActOf, IsClick
  <2>4. Evident' = Evident BY <1>1, <2>2 DEF Evident
  <2>5. Done' = Done BY <1>1 DEF Done, ActOf, IsClick
  <2> QED BY <1>1, <2>2, <2>3, <2>4, <2>5 DEF Contract!vars
<1> QED BY <1>3, <1>4

\* What Execute is to the contract: the act is done and the session goes on,
\* or the session ends with the act done or not.
LEMMA ExecuteMaps ==
    ASSUME ContractInv, ~returned, phase \in {"authentication", "exploration"},
           NEW m \in Message, Execute(m), pending' = None
    PROVE  /\ ~artifact' /\ Status = "authoring"
           /\ \/ /\ Status' = "authoring" /\ Asked' = None /\ Evident' = FALSE
                 /\ Done' = Append(Done, ActOf(m))
              \/ /\ Status' = "ended" /\ Asked' = None /\ Evident' = FALSE
                 /\ Done' \in {Done, Append(Done, ActOf(m))}
<1>1. ~artifact' /\ Status = "authoring"
  <2>1. artifact' = artifact BY DEF Execute
  <2> QED BY <2>1, OpenStatus
<1>2. /\ phase' = phase /\ goalProof' = None
      /\ performed' \in {performed, Append(performed, m)}
      /\ ~returned' => performed' = Append(performed, m)
  BY DEF Execute, WithdrawEvidence, ActFails, Fail
<1>3. performed' = performed => Done' = Done BY DEF Done, ActOf, IsClick
<1>4. performed' = Append(performed, m) => Done' = Append(Done, ActOf(m))
  BY DoneAppends DEF ContractInv
<1>5. CASE returned' BY <1>1, <1>2, <1>3, <1>4, <1>5, EndedStatus
<1>6. CASE ~returned'
  <2>1. Status' = "authoring" /\ Asked' = None /\ Evident' = FALSE
    BY <1>1, <1>2, <1>6, OpenStatusNext
  <2> QED BY <1>1, <1>2, <1>4, <1>6, <2>1
<1> QED BY <1>5, <1>6

\* And a question: it is asked, or there are none left and the session ends.
LEMMA RequireApprovalMaps ==
    ASSUME ContractInv, ~returned, phase \in {"authentication", "exploration"},
           NEW kind \in {"origin", "origin_action", "action"}, NEW m \in Message,
           NEW origin \in Origin \cup {None}, RequireApproval(kind, m, origin)
    PROVE  /\ ~artifact' /\ Status = "authoring" /\ Done' = Done
           /\ \/ /\ Status' = "authoring" /\ Evident' = Evident
                 /\ Asked' = [kind |-> kind, act |-> ActOf(m)]
              \/ Status' = "ended" /\ Asked' = None /\ Evident' = FALSE
<1>1. /\ artifact' = artifact /\ phase' = phase /\ goalProof' = goalProof /\ performed' = performed
  BY DEF RequireApproval, evidence, decision, acts
<1>2. ~artifact' /\ Status = "authoring" BY <1>1, OpenStatus
<1>3. Done' = Done BY <1>1 DEF Done, ActOf, IsClick
<1>4. CASE returned' BY <1>2, <1>3, <1>4, EndedStatus
<1>5. CASE ~returned'
  <2>1. /\ approvals < MaxApprovals
        /\ pending' = [id |-> approvals + 1, kind |-> kind, message |-> m, origin |-> origin]
    <3>1. ~(approvals >= MaxApprovals) BY <1>5 DEF RequireApproval, Fail
    <3>2. approvals \in Nat /\ MaxApprovals \in Nat
      BY ConstantsAssumption DEF ContractInv, TypeInv, TypeOK
    <3> QED BY <3>1, <3>2 DEF RequireApproval
  <2>2. approvals + 1 \in 1..MaxApprovals
    BY <2>1, ConstantsAssumption DEF ContractInv, TypeInv, TypeOK
  <2>3. pending' \in Pending BY <2>1, <2>2 DEF Pending
  <2>4. pending' # None BY <2>3, NoneAssumption
  <2>5. Asked' = [kind |-> kind, act |-> ActOf(m)]
    BY <1>2, <1>5, <2>1, <2>4, OpenStatusNext
  <2>6. Status' = "authoring" BY <1>1, <1>2, <1>5, OpenStatusNext
  <2>7. Evident' = Evident BY <1>1, <1>2, <2>6 DEF Evident
  <2> QED BY <1>2, <1>3, <2>5, <2>6, <2>7
<1> QED BY <1>4, <1>5

\* A session that ends quietly while it authors.
LEMMA QuietEnd ==
    ASSUME ContractInv, Status = "authoring", Status' = "ended", Asked' = None, Evident' = FALSE,
           browserOrigins' = browserOrigins, Done' = Done
    PROVE  Contract!Next
<1>1. browserOrigins \in SUBSET Origin BY DEF ContractInv, TypeInv, TypeOK
<1> QED BY <1>1 DEF Contract!Next, Contract!End, Contract!EndQuietly

LEMMA NavigateContract ==
    ASSUME ContractInv, ~returned, phase \in {"authentication", "exploration"}, pending = None,
           NEW m \in Navigation, Navigate(m), browserOrigins' = browserOrigins
    PROVE  Contract!Next
<1> DEFINE a == ActOf(m)
<1>1. m \in Message /\ ~IsClick(m) /\ m.origin \in Origin BY DEF Message, Navigation, IsClick
<1>2. a \in Contract!Act /\ ~a.click /\ a.origin = m.origin BY <1>1, ActType DEF ActOf
<1>3. Asked = None /\ Status = "authoring" BY OpenStatus
<1>4. browserOrigins = origins
  BY DEF ContractInv, OriginInv, OriginsAgree
<1>5. m.origin # None BY <1>1, NoneAssumption
<1> HIDE DEF a
<1>6. CASE m.origin \in origins
  <2>1. Execute(m) /\ pending' = None BY <1>6 DEF Navigate
  <2>2. ~Contract!Foreign(a) BY <1>2, <1>4, <1>6 DEF Contract!Foreign
  <2>3. \/ /\ Status' = "authoring" /\ Asked' = None /\ Evident' = FALSE /\ Done' = Append(Done, a)
        \/ /\ Status' = "ended" /\ Asked' = None /\ Evident' = FALSE
           /\ Done' \in {Done, Append(Done, a)}
    BY <1>1, <2>1, ExecuteMaps DEF a
  <2>4. CASE Status' = "authoring"
    <3>1. Contract!Navigate(a)
      BY <1>2, <1>3, <2>2, <2>3, <2>4 DEF Contract!Navigate, Contract!Perform
    <3> QED BY <1>2, <3>1 DEF Contract!Next
  <2>5. CASE Status' = "ended" /\ Done' = Append(Done, a)
    <3>1. Contract!EndInNavigation BY <1>2, <1>3, <2>2, <2>5 DEF Contract!EndInNavigation
    <3> QED BY <1>3, <2>3, <2>5, <3>1 DEF Contract!Next, Contract!End
  <2>6. CASE Status' = "ended" /\ Done' = Done
    BY <1>3, <2>3, <2>6, QuietEnd
  <2> QED BY <2>3, <2>4, <2>5, <2>6
<1>7. CASE m.origin \notin origins
  <2>1. RequireApproval("origin", m, m.origin) BY <1>7 DEF Navigate
  <2>2. Contract!Foreign(a) BY <1>2, <1>4, <1>5, <1>7 DEF Contract!Foreign
  <2>3. /\ Done' = Done
        /\ \/ /\ Status' = "authoring" /\ Evident' = Evident
              /\ Asked' = [kind |-> "origin", act |-> a]
           \/ Status' = "ended" /\ Asked' = None /\ Evident' = FALSE
    BY <1>1, <2>1, RequireApprovalMaps DEF a
  <2>4. CASE Status' = "authoring"
    <3>1. Contract!Ask(a) BY <1>2, <1>3, <2>2, <2>3, <2>4 DEF Contract!Ask
    <3> QED BY <1>2, <3>1 DEF Contract!Next
  <2>5. CASE Status' = "ended" BY <1>3, <2>3, <2>5, QuietEnd
  <2> QED BY <2>3, <2>4, <2>5
<1> QED BY <1>6, <1>7

LEMMA ClickContract ==
    ASSUME ContractInv, ~returned, phase \in {"authentication", "exploration"}, pending = None,
           NEW m \in Click, GateClick(m, origins), browserOrigins' = browserOrigins
    PROVE  Contract!Next
<1> DEFINE a == ActOf(m)
           target == m.cand.shape.target
<1>1. m \in Message /\ IsClick(m) /\ target \in Origin \cup {None}
  BY ConstantsAssumption DEF Message, Click, IsClick, CandidateId, ShapeType
<1>2. a \in Contract!Act /\ a.click /\ a.origin = target BY <1>1, ActType DEF ActOf
<1>3. Asked = None /\ Status = "authoring" BY OpenStatus
<1>4. browserOrigins = origins
  BY DEF ContractInv, OriginInv, OriginsAgree
<1>5. Contract!Foreign(a) <=> target # None /\ target \notin origins
  BY <1>2, <1>4 DEF Contract!Foreign
<1>6. IF Contract!Foreign(a) THEN RequireApproval("origin_action", m, target)
                             ELSE RequireApproval("action", m, None)
  BY <1>5 DEF GateClick
<1> DEFINE kind == IF Contract!Foreign(a) THEN "origin_action" ELSE "action"
<1>7. /\ Done' = Done
      /\ \/ /\ Status' = "authoring" /\ Evident' = Evident
            /\ Asked' = [kind |-> kind, act |-> a]
         \/ Status' = "ended" /\ Asked' = None /\ Evident' = FALSE
  BY <1>1, <1>6, RequireApprovalMaps
<1> HIDE DEF a, target
<1>8. CASE Status' = "authoring"
  <2>1. Contract!Ask(a) BY <1>2, <1>3, <1>7, <1>8 DEF Contract!Ask
  <2> QED BY <1>2, <2>1 DEF Contract!Next
<1>9. CASE Status' = "ended" BY <1>3, <1>7, <1>9, QuietEnd
<1> QED BY <1>7, <1>8, <1>9

LEMMA RequestExecuteContract ==
    ASSUME ContractInv, RequestExecute PROVE Contract!Next
<1>1. /\ ~returned /\ phase \in {"authentication", "exploration"} /\ pending = None
      /\ browserOrigins' = browserOrigins
  BY PhaseTable DEF RequestExecute
<1>2. CASE RefuseExecute
  BY <1>1, <1>2, FailsContract DEF RefuseExecute, decision, acts
<1> QED BY <1>1, <1>2, NavigateContract, ClickContract DEF RequestExecute

\* What the operator is asked, seen by the contract.
LEMMA AskedNow ==
    ASSUME ContractInv, ~returned, phase \in {"authentication", "exploration"}, pending # None
    PROVE  /\ pending.message \in Message /\ Status = "authoring"
           /\ Asked # None /\ Asked.kind = pending.kind /\ Asked.act = ActOf(pending.message)
           /\ pending.kind \in {"origin", "origin_action", "action"}
<1>1. pending.message \in Message /\ pending.kind \in {"origin", "origin_action", "action"}
  BY DEF ContractInv, TypeInv, TypeOK, Pending
<1>2. Asked = [kind |-> pending.kind, act |-> ActOf(pending.message)] /\ Status = "authoring"
  BY OpenStatus
<1>3. Asked \in Contract!Question BY <1>1, <1>2, ActType DEF Contract!Question
<1> QED BY <1>1, <1>2, <1>3, QuestionAssumption

LEMMA ApproveOriginContract ==
    ASSUME ContractInv, ~returned, phase \in {"authentication", "exploration"}, pending # None,
           ApproveOrigin
    PROVE  Contract!Next
<1> DEFINE m == pending.message
           a == ActOf(m)
<1>1. /\ m \in Message /\ Status = "authoring" /\ Asked # None
      /\ Asked.kind = "origin" /\ Asked.act = a
  BY AskedNow DEF ApproveOrigin
<1>2. ~IsClick(m) /\ m.origin = pending.origin
  BY DEF ApproveOrigin, ContractInv, OriginInv, QuestionFits
<1>3. browserOrigins' = browserOrigins \cup {a.origin}
  BY <1>2 DEF ApproveOrigin, AdmitOrigin, ActOf
<1>4. \/ /\ Status' = "authoring" /\ Asked' = None /\ Evident' = FALSE /\ Done' = Append(Done, a)
      \/ /\ Status' = "ended" /\ Asked' = None /\ Evident' = FALSE
         /\ Done' \in {Done, Append(Done, a)}
  BY <1>1, ExecuteMaps DEF ApproveOrigin
<1> HIDE DEF a
<1>5. CASE Status' = "authoring"
  <2>1. Contract!GrantOrigin
    BY <1>1, <1>3, <1>4, <1>5 DEF Contract!GrantOrigin, Contract!Perform
  <2> QED BY <2>1 DEF Contract!Next
<1>6. CASE Status' = "ended"
  <2>1. Contract!EndInGrantedAct BY <1>1, <1>3, <1>4, <1>6 DEF Contract!EndInGrantedAct
  <2> QED BY <1>1, <1>4, <1>6, <2>1 DEF Contract!Next, Contract!End
<1> QED BY <1>4, <1>5, <1>6

LEMMA ApproveOriginOfClickContract ==
    ASSUME ContractInv, ~returned, phase \in {"authentication", "exploration"}, pending # None,
           ApproveOriginOfClick
    PROVE  Contract!Next
<1> DEFINE m == pending.message
           a == ActOf(m)
<1>1. /\ m \in Message /\ Status = "authoring" /\ Asked # None
      /\ Asked.kind = "origin_action" /\ Asked.act = a
  BY AskedNow DEF ApproveOriginOfClick
<1>2. IsClick(m) /\ m.cand.shape.target = pending.origin
  BY DEF ApproveOriginOfClick, ContractInv, OriginInv, QuestionFits
<1>3. /\ browserOrigins' = browserOrigins \cup {a.origin}
      /\ m.cand.shape.target \in origins'
  BY <1>2 DEF ApproveOriginOfClick, AdmitOrigin, ActOf
<1>4. RequireApproval("action", m, None)
  BY <1>3 DEF ApproveOriginOfClick, GateClick
<1>5. /\ Done' = Done
      /\ \/ /\ Status' = "authoring" /\ Evident' = Evident
            /\ Asked' = [kind |-> "action", act |-> a]
         \/ Status' = "ended" /\ Asked' = None /\ Evident' = FALSE
  BY <1>1, <1>4, RequireApprovalMaps
<1> HIDE DEF a
<1>6. CASE Status' = "authoring"
  <2>1. Contract!GrantOriginOfClick
    BY <1>1, <1>3, <1>5, <1>6 DEF Contract!GrantOriginOfClick
  <2> QED BY <2>1 DEF Contract!Next
<1>7. CASE Status' = "ended"
  <2>1. Contract!EndInGrantedAct BY <1>1, <1>3, <1>5, <1>7 DEF Contract!EndInGrantedAct
  <2> QED BY <1>1, <1>5, <1>7, <2>1 DEF Contract!Next, Contract!End
<1> QED BY <1>5, <1>6, <1>7

LEMMA ApproveActionContract ==
    ASSUME ContractInv, ~returned, phase \in {"authentication", "exploration"}, pending # None,
           ApproveAction
    PROVE  Contract!Next
<1> DEFINE m == pending.message
           a == ActOf(m)
<1>1. /\ m \in Message /\ Status = "authoring" /\ Asked # None
      /\ Asked.kind = "action" /\ Asked.act = a
  BY AskedNow DEF ApproveAction
<1>2. browserOrigins' = browserOrigins BY DEF ApproveAction
<1>3. \/ /\ Status' = "authoring" /\ Asked' = None /\ Evident' = FALSE /\ Done' = Append(Done, a)
      \/ /\ Status' = "ended" /\ Asked' = None /\ Evident' = FALSE
         /\ Done' \in {Done, Append(Done, a)}
  BY <1>1, ExecuteMaps DEF ApproveAction
<1> HIDE DEF a
<1>4. CASE Status' = "authoring"
  <2>1. Contract!GrantClick
    BY <1>1, <1>2, <1>3, <1>4 DEF Contract!GrantClick, Contract!Perform
  <2> QED BY <2>1 DEF Contract!Next
<1>5. CASE Status' = "ended"
  <2>1. Contract!EndInGrantedAct BY <1>1, <1>2, <1>3, <1>5 DEF Contract!EndInGrantedAct
  <2> QED BY <1>1, <1>3, <1>5, <2>1 DEF Contract!Next, Contract!End
<1> QED BY <1>3, <1>4, <1>5

LEMMA ApproveContract ==
    ASSUME ContractInv, Approve PROVE Contract!Next
<1>1. ~returned /\ phase \in {"authentication", "exploration"} BY PhaseTable DEF Approve
<1>2. CASE Fail /\ UNCHANGED <<authority, evidence, decision, progress, acts, cancelled>>
  BY <1>1, <1>2, FailsContract DEF authority, decision, acts
<1>3. CASE ApprovalRefused
  BY <1>1, <1>3, FailsContract DEF ApprovalRefused, authority, decision, acts
<1> QED BY <1>1, <1>2, <1>3, ApproveOriginContract, ApproveOriginOfClickContract,
           ApproveActionContract DEF Approve

LEMMA CompleteContract ==
    ASSUME ContractInv, Complete PROVE Contract!Next
<1>1. /\ ~returned /\ phase = "exploration" /\ pending = None
      /\ UNCHANGED <<browserOrigins, goalProof, artifact, pending, performed>>
  BY PhaseTable DEF Complete, authority, evidence, acts
<1>2. ~artifact' BY <1>1 DEF ContractInv, WrittenInv
<1>3. CASE returned' BY <1>1, <1>2, <1>3, EndsContract
<1>4. CASE ~returned'
  <2>1. goalProof # None /\ phase' = "completed" BY <1>4 DEF Complete, Fail
  <2>2. /\ Status = "authoring" /\ Asked = None /\ Evident
        /\ Status' = "confirmed" /\ Asked' = None
    BY <1>1, <1>2, <1>4, <2>1, OpenStatus, OpenStatusNext
  <2>3. Evident' = Evident BY <1>1, <2>2 DEF Evident
  <2>4. Done' = Done BY <1>1 DEF Done, ActOf, IsClick
  <2> QED BY <1>1, <2>2, <2>3, <2>4 DEF Contract!Next, Contract!Confirm
<1> QED BY <1>3, <1>4

LEMMA FinishContract ==
    ASSUME ContractInv, Finish PROVE Contract!Next
<1>1. /\ ~returned /\ returned' /\ phase = "completed" /\ pending = None
      /\ UNCHANGED <<browserOrigins, goalProof, pending, performed>>
  BY PhaseTable DEF Finish, Fail, authority, evidence, acts, progress
<1>2. CASE ~artifact' BY <1>1, <1>2, EndsContract
<1>3. CASE artifact'
  <2>1. Status = "confirmed" /\ Asked = None BY <1>1, OpenStatus
  <2>2. Status' = "delivered" BY <1>1, <1>3 DEF Status
  <2>3. Asked' = None BY <1>1 DEF Asked
  <2>4. Evident' = Evident BY <1>1, <2>1, <2>2 DEF Evident
  <2>5. Done' = Done BY <1>1 DEF Done, ActOf, IsClick
  <2> QED BY <1>1, <2>1, <2>2, <2>3, <2>4, <2>5 DEF Contract!Next, Contract!Deliver
<1> QED BY <1>2, <1>3

\* Every step of the server is a step of the contract, or none.
LEMMA ContractStep ==
    ContractInv /\ [Next]_vars => [Contract!Next]_(Contract!vars)
<1> SUFFICES ASSUME ContractInv, [Next]_vars
             PROVE  Contract!Next \/ UNCHANGED Contract!vars
  OBVIOUS
<1>1. CASE UNCHANGED vars \/ Cancel
  <2>1. UNCHANGED <<returned, phase, pending, goalProof, artifact, performed, browserOrigins>>
    BY <1>1 DEF Cancel, vars, authority, evidence, decision, progress, acts, lifetime
  <2> QED BY <2>1 DEF Contract!vars, Status, Asked, Done, Evident, ActOf, IsClick
<1>2. CASE Deny \/ CloseWithoutResult \/ RefuseMessage \/ InputEnds
  <2>1. ~returned /\ Fail /\ UNCHANGED <<browserOrigins, performed, artifact>>
    BY <1>2, PhaseTable DEF Deny, CloseWithoutResult, RefuseMessage, InputEnds, authority, decision, acts
  <2> QED BY <2>1, FailsContract
<1> QED BY <1>1, <1>2, StartContract, ObserveContract, HumanInputContract, RequestExecuteContract,
           ApproveContract, CompleteContract, FinishContract DEF Next

\* The server keeps the contract: whatever it does, and wherever a browser call,
\* a write or the parent stops it, the operator sees a behaviour of
\* AuthoringContract.
THEOREM SessionImplementsContract == Spec => ImplementsContract
<1>1. Init => Contract!Init
  BY DEF Init, Contract!Init, Status, Asked, Done, Evident
<1>2. Init => ContractInv
  <2>1. Init => ReleaseInv /\ WrittenInv BY DEF Init, ReleaseInv, WrittenInv
  <2> QED BY <2>1, InitTypeInv, InitEvidenceInv, InitOriginInv DEF ContractInv
<1>3. ContractInv /\ [Next]_vars => ContractInv'
  BY TypeStep, ReleaseStep, EvidenceStep, OriginStep, WrittenStep DEF ContractInv
<1> QED BY <1>1, <1>2, <1>3, ContractStep, PTL DEF Spec, ImplementsContract, Contract!Spec

-----------------------------------------------------------------------------
(* What the browser did and what the records say of it.                    *)
(*                                                                         *)
(* A sequence tells of the positions P of another: the k-th entry of the   *)
(* one is the entry of the other at the k-th position in P.  The lemmas    *)
(* say what an append to either does.                                      *)

Upto(P, i) == {j \in P : j <= i}
Extends(s2, s, n) == \A i \in 1..n : s2[i] = s[i]

\* t tells exactly of the positions P of s, which has n.
Whole(t, s, P, n) ==
    n \in Nat /\ P \in SUBSET (1..n) /\ Tells(t, s, P) /\ Len(t) = Cardinality(P)

LEMMA Positions ==
    ASSUME NEW n \in Nat, NEW P \in SUBSET (1..n)
    PROVE  /\ IsFiniteSet(P) /\ Cardinality(P) \in Nat
           /\ \A i \in P : Cardinality(Upto(P, i)) \in 1..Cardinality(P)
<1>1. IsFiniteSet(1..n) BY FS_Interval
<1>2. IsFiniteSet(P) BY <1>1, FS_Subset
<1>3. Cardinality(P) \in Nat BY <1>2, FS_CardinalityType
<1>4. ASSUME NEW i \in P PROVE Cardinality(Upto(P, i)) \in 1..Cardinality(P)
  <2>1. Upto(P, i) \in SUBSET P BY DEF Upto
  <2>2. IsFiniteSet(Upto(P, i)) /\ Cardinality(Upto(P, i)) <= Cardinality(P)
    BY <1>2, <2>1, FS_Subset
  <2>3. i \in Upto(P, i) BY DEF Upto
  <2>4. Cardinality(Upto(P, i)) \in Nat BY <2>2, FS_CardinalityType
  <2>5. Cardinality(Upto(P, i)) # 0 BY <2>2, <2>3, FS_EmptySet
  <2> QED BY <1>3, <2>2, <2>4, <2>5
<1> QED BY <1>2, <1>3, <1>4

\* Both grow by the same entry.
LEMMA TellsMore ==
    ASSUME NEW S, NEW t \in Seq(S), NEW e \in S, NEW n, NEW P, NEW s, NEW s2,
           Whole(t, s, P, n), Extends(s2, s, n), s2[n + 1] = e
    PROVE  Whole(Append(t, e), s2, P \cup {n + 1}, n + 1)
<1>0. n \in Nat /\ P \in SUBSET (1..n) /\ Tells(t, s, P) /\ Len(t) = Cardinality(P)
  BY DEF Whole
<1> DEFINE Q == P \cup {n + 1}
<1>1. IsFiniteSet(P) /\ \A i \in P : Cardinality(Upto(P, i)) \in 1..Len(t) BY <1>0, Positions
<1>2. n + 1 \notin P BY <1>0
<1>3. Cardinality(Q) = Len(t) + 1 BY <1>0, <1>1, <1>2, FS_AddElement
<1>4. Upto(Q, n + 1) = Q
  <2>1. \A j \in Q : j <= n + 1 BY <1>0
  <2> HIDE DEF Q
  <2> QED BY <2>1 DEF Upto
<1>5. \A i \in P : Upto(Q, i) = Upto(P, i) BY <1>0 DEF Upto
<1>6. /\ \A k \in 1..Len(t) : Append(t, e)[k] = t[k]
      /\ Append(t, e)[Len(t) + 1] = e
  BY AppendProperties
<1>7. ASSUME NEW i \in Q PROVE Append(t, e)[Cardinality(Upto(Q, i))] = s2[i]
  <2>1. CASE i = n + 1
    <3>1. Cardinality(Upto(Q, i)) = Len(t) + 1 BY <1>3, <1>4, <2>1
    <3> QED BY <1>6, <2>1, <3>1
  <2>2. CASE i \in P
    <3>1. t[Cardinality(Upto(P, i))] = s[i] BY <1>0, <2>2 DEF Tells, Upto
    <3>2. s2[i] = s[i] BY <1>0, <2>2 DEF Extends
    <3> QED BY <1>1, <1>5, <1>6, <2>2, <3>1, <3>2
  <2> QED BY <2>1, <2>2
<1>8. Tells(Append(t, e), s2, Q) BY <1>7 DEF Tells, Upto
<1>9. n + 1 \in Nat /\ Q \in SUBSET (1..n + 1) BY <1>0
<1>10. Len(Append(t, e)) = Len(t) + 1 BY AppendProperties
<1> QED BY <1>3, <1>8, <1>9, <1>10 DEF Whole

\* Either grows past what is told.
LEMMA TellsStill ==
    ASSUME NEW t, NEW t2, NEW m \in Nat, Extends(t2, t, m),
           NEW n \in Nat, NEW P \in SUBSET (1..n), Cardinality(P) <= m,
           NEW s, NEW s2, Extends(s2, s, n), Tells(t, s, P)
    PROVE  Tells(t2, s2, P)
<1>1. Cardinality(P) \in Nat /\ \A i \in P : Cardinality(Upto(P, i)) \in 1..Cardinality(P)
  BY Positions
<1>2. \A i \in P : Cardinality(Upto(P, i)) \in 1..m BY <1>1
<1>3. \A i \in P : s2[i] = s[i] BY DEF Extends
<1> QED BY <1>2, <1>3 DEF Tells, Upto, Extends

LEMMA InitOneClick == Init => OneClickPerApproval
<1> SUFFICES ASSUME Init PROVE OneClickPerApproval OBVIOUS
<1>1. ClicksAt = {} /\ Len(granted) = 0 /\ ~closed BY DEF Init, ClicksAt
<1> QED BY <1>1, FS_EmptySet DEF OneClickPerApproval, Tells

LEMMA SameClicks ==
    ASSUME TypeInv, OneClickPerApproval, closed => closed', UNCHANGED <<performed, granted>>
    PROVE  OneClickPerApproval'
<1>1. ClicksAt' = ClicksAt BY DEF ClicksAt, IsClick
<1> QED BY <1>1 DEF OneClickPerApproval, Tells, TypeInv, TypeOK

LEMMA ExecuteClicks ==
    ASSUME TypeInv, ReleaseInv, OneClickPerApproval, ~returned,
           NEW m \in Message, Execute(m), RecordGrant(m)
    PROVE  OneClickPerApproval'
<1>1. /\ performed \in Seq(Message) /\ granted \in Seq(Message) /\ Len(performed) \in Nat
      /\ Len(granted) \in Nat /\ DOMAIN performed = 1..Len(performed)
  BY DEF TypeInv, TypeOK
<1>2. /\ ClicksAt \in SUBSET (1..Len(performed))
      /\ Tells(granted, performed, ClicksAt) /\ Len(granted) = Cardinality(ClicksAt)
  <2>1. ~closed BY DEF ReleaseInv
  <2>2. ClicksAt \in SUBSET (1..Len(performed)) BY <1>1 DEF ClicksAt
  <2>3. Cardinality(ClicksAt) \in Nat BY <1>1, <2>2, Positions
  <2> QED BY <1>1, <2>1, <2>2, <2>3 DEF OneClickPerApproval
<1>3. granted' = IF IsClick(m) THEN Append(granted, m) ELSE granted
  BY DEF RecordGrant, IsClick
<1>4. CASE performed' = performed
  <2>1. closed'
    <3>1. Append(performed, m) # performed
      <4>1. Len(Append(performed, m)) = Len(performed) + 1 BY <1>1, AppendProperties
      <4>2. \A k \in Nat : k + 1 # k OBVIOUS
      <4> QED BY <1>1, <4>1, <4>2, Zenon
    <3> QED BY <1>4, <3>1 DEF Execute, ActFails, Fail
  <2>2. ClicksAt' = ClicksAt BY <1>4 DEF ClicksAt, IsClick
  <2>3. Extends(granted', granted, Len(granted))
    BY <1>1, <1>3, AppendProperties DEF Extends
  <2>4. Extends(performed', performed, Len(performed)) BY <1>4 DEF Extends
  <2>5. Len(granted') - Len(granted) \in {0, 1} BY <1>1, <1>3
  <2>6. Tells(granted', performed', ClicksAt)
    <3>1. Cardinality(ClicksAt) <= Len(granted) BY <1>1, <1>2
    <3> QED BY <1>1, <1>2, <2>3, <2>4, <3>1, TellsStill
  <2> QED BY <1>2, <2>1, <2>2, <2>5, <2>6 DEF OneClickPerApproval
<1>5. CASE performed' = Append(performed, m)
  <2> DEFINE n == Len(performed)
  <2>1. /\ DOMAIN performed' = 1..n + 1
        /\ \A i \in 1..n : performed'[i] = performed[i]
        /\ performed'[n + 1] = m
    BY <1>1, <1>5
  <2>2. Extends(performed', performed, n) BY <2>1 DEF Extends
  <2>3. CASE IsClick(m)
    <3>1. ClicksAt' = ClicksAt \cup {n + 1}
      BY <1>1, <1>2, <2>1, <2>3 DEF ClicksAt, IsClick
    <3>2. granted' = Append(granted, m) /\ Len(granted') = Len(granted) + 1
      BY <1>1, <1>3, <2>3
    <3>3. Whole(granted, performed, ClicksAt, n) BY <1>1, <1>2 DEF Whole
    <3>4. Whole(Append(granted, m), performed', ClicksAt \cup {n + 1}, n + 1)
      BY <1>1, <2>1, <2>2, <3>3, TellsMore
    <3> QED BY <1>1, <3>1, <3>2, <3>4 DEF OneClickPerApproval, Whole
  <2>4. CASE ~IsClick(m)
    <3>1. ClicksAt' = ClicksAt
      BY <1>1, <1>2, <2>1, <2>4 DEF ClicksAt, IsClick
    <3>2. granted' = granted BY <1>3, <2>4
    <3>3. Tells(granted, performed', ClicksAt)
      <4>1. Cardinality(ClicksAt) <= Len(granted) BY <1>1, <1>2
      <4>2. Extends(granted, granted, Len(granted)) BY DEF Extends
      <4> QED BY <1>1, <1>2, <2>2, <4>1, <4>2, TellsStill
    <3> QED BY <1>1, <1>2, <3>1, <3>2, <3>3 DEF OneClickPerApproval
  <2> QED BY <2>3, <2>4
<1> QED BY <1>4, <1>5 DEF Execute

LEMMA OneClickStep ==
    TypeInv /\ ReleaseInv /\ OriginInv /\ OneClickPerApproval /\ [Next]_vars => OneClickPerApproval'
<1> SUFFICES ASSUME TypeInv, ReleaseInv, OriginInv, OneClickPerApproval, [Next]_vars
             PROVE  OneClickPerApproval'
  OBVIOUS
<1>1. closed => closed'
  BY PhaseTable DEF ReleaseInv, Next, vars, lifetime, Cancel, StartSession, Observe, Focus,
        CompleteHumanInput, RequestExecute, Approve, Deny, Complete, Finish, CloseWithoutResult,
        RefuseMessage, InputEnds
<1>2. CASE UNCHANGED <<performed, granted>> BY <1>1, <1>2, SameClicks
<1>3. ASSUME NEW m \in Navigation, Navigate(m), UNCHANGED granted, ~returned PROVE OneClickPerApproval'
  <2>1. m \in Message /\ m.action # "click" BY DEF Message, Navigation
  <2>2. CASE Execute(m) BY <1>3, <2>1, <2>2, ExecuteClicks DEF RecordGrant
  <2>3. CASE ~Execute(m)
    BY <1>1, <1>3, <2>3, SameClicks DEF Navigate, RequireApproval, acts
  <2> QED BY <2>2, <2>3
<1>4. CASE RequestExecute
  <2>1. ~returned /\ UNCHANGED granted BY <1>4, PhaseTable DEF RequestExecute
  <2>2. ASSUME NEW m \in Click, GateClick(m, origins) PROVE UNCHANGED performed
    BY <2>2 DEF GateClick, RequireApproval, acts
  <2>3. RefuseExecute => UNCHANGED performed BY DEF RefuseExecute, acts
  <2> QED BY <1>2, <1>3, <1>4, <2>1, <2>2, <2>3 DEF RequestExecute
<1>5. CASE Approve
  <2>1. ~returned BY <1>5, PhaseTable DEF Approve
  <2>2. pending # None => pending.message \in Message BY DEF TypeInv, TypeOK, Pending
  <2>3. CASE pending # None /\ ApproveOrigin
    <3>1. pending.message.action # "click"
      BY <2>3 DEF OriginInv, QuestionFits, IsClick, ApproveOrigin
    <3> QED BY <2>1, <2>2, <2>3, <3>1, ExecuteClicks DEF ApproveOrigin, RecordGrant
  <2>4. CASE pending # None /\ ApproveAction
    BY <2>1, <2>2, <2>4, ExecuteClicks DEF ApproveAction
  <2>5. ApproveOriginOfClick => UNCHANGED <<performed, granted>>
    BY DEF ApproveOriginOfClick, GateClick, RequireApproval, acts
  <2>6. CASE ~(pending # None /\ (ApproveOrigin \/ ApproveAction))
    BY <1>2, <1>5, <2>5, <2>6 DEF Approve, ApprovalRefused, authority, acts
  <2> QED BY <2>3, <2>4, <2>6
<1>6. ASSUME NEW requested \in SUBSET Origin, StartSession(requested)
      PROVE UNCHANGED <<performed, granted>>
  BY <1>6 DEF StartSession, acts
<1>7. ASSUME NEW ctx \in Context, Observe(ctx) PROVE UNCHANGED <<performed, granted>>
  BY <1>7 DEF Observe, acts, authority
<1>8. Focus \/ CompleteHumanInput \/ Deny \/ Complete \/ Finish \/ CloseWithoutResult
         \/ RefuseMessage \/ InputEnds \/ Cancel \/ UNCHANGED vars
         => UNCHANGED <<performed, granted>>
  BY DEF Focus, CompleteHumanInput, Deny, Complete, Finish, CloseWithoutResult, RefuseMessage,
         InputEnds, Cancel, acts, authority, vars
<1> QED BY <1>2, <1>4, <1>5, <1>6, <1>7, <1>8 DEF Next

\* One approval, one click, whatever a browser call or a write does in between:
\* the clicks performed are the clicks granted, in order, and only the session's
\* last grant may go unused.
THEOREM OneApprovalOneClick == Spec => []OneClickPerApproval
<1>1. Init => ReleaseInv BY DEF Init, ReleaseInv
<1> QED BY InitTypeInv, TypeStep, <1>1, ReleaseStep, InitOriginInv, OriginStep, InitOneClick,
           OneClickStep, PTL DEF Spec

-----------------------------------------------------------------------------
(* The written trace.                                                      *)
(*                                                                         *)
(* While the session is open its trace tells exactly what the browser      *)
(* performed; a failed act breaks that and closes it in the same step, so  *)
(* finish always finds it whole, and nothing moves once a result exists.   *)

TraceInv ==
    ~closed => Len(performed) = Cardinality(ActsAt) /\ Tells(performed, Told, ActsAt)

AuthBound == authProof # None => authProof.at <= Len(performed)

TellInv == TraceInv /\ AuthBound /\ ArtifactTellsAll

LEMMA InitTellInv == Init => TellInv
<1> SUFFICES ASSUME Init PROVE TellInv OBVIOUS
<1>1. ActsAt = {} /\ Len(performed) = 0 /\ ~artifact /\ authProof = None BY DEF Init, ActsAt
<1> QED BY <1>1, FS_EmptySet DEF TellInv, TraceInv, AuthBound, ArtifactTellsAll, Tells

LEMMA SameTrace ==
    ASSUME TraceInv, closed => closed', UNCHANGED <<trace, performed>> PROVE TraceInv'
<1>1. ActsAt' = ActsAt /\ Told' = Told BY DEF ActsAt, Told
<1> QED BY <1>1 DEF TraceInv, Tells

\* What an entry appended to the trace adds.
LEMMA TraceGrows ==
    ASSUME TypeInv, NEW step \in TraceStep, trace' = Append(trace, step)
    PROVE  /\ Len(trace) \in Nat /\ ActsAt \in SUBSET (1..Len(trace))
           /\ Extends(Told', Told, Len(trace)) /\ Told'[Len(trace) + 1] = step.message
           /\ ActsAt' = IF step.message.action # "focus_human_input"
                        THEN ActsAt \cup {Len(trace) + 1} ELSE ActsAt
<1> DEFINE n == Len(trace)
<1>1. trace \in Seq(TraceStep) /\ n \in Nat /\ DOMAIN trace = 1..n BY DEF TypeInv, TypeOK
<1>2. /\ DOMAIN trace' = 1..n + 1
      /\ \A i \in 1..n : trace'[i] = trace[i]
      /\ trace'[n + 1] = step
  BY <1>1
<1>3. Extends(Told', Told, n) BY <1>1, <1>2 DEF Extends, Told
<1>4. Told'[n + 1] = step.message BY <1>1, <1>2 DEF Told
<1>5. ActsAt' = IF step.message.action # "focus_human_input" THEN ActsAt \cup {n + 1} ELSE ActsAt
  BY <1>1, <1>2 DEF ActsAt
<1> QED BY <1>1, <1>3, <1>4, <1>5 DEF ActsAt

LEMMA HumanInputTrace ==
    ASSUME TypeInv, ReleaseInv, TraceInv, CompleteHumanInput PROVE TraceInv'
<1> DEFINE step == [phase |-> pendingInput.phase, observed |-> 0,
                    message |-> [action |-> "focus_human_input", cand |-> pendingInput.cand]]
           n == Len(trace)
<1>1. ~returned /\ ~closed /\ performed' = performed
  BY PhaseTable DEF CompleteHumanInput, ReleaseInv
<1>2. CASE Fail BY <1>2 DEF Fail, TraceInv
<1>3. CASE ~Fail
  <2>1. pendingInput \in PendingInput /\ trace' = Append(trace, step)
    BY <1>3 DEF CompleteHumanInput, TypeInv, TypeOK
  <2>2. step \in TraceStep
    BY <2>1, ConstantsAssumption DEF PendingInput, TraceStep, HumanInput
  <2>3. step.message.action = "focus_human_input" OBVIOUS
  <2> HIDE DEF step
  <2>4. /\ n \in Nat /\ ActsAt \in SUBSET (1..n) /\ Extends(Told', Told, n) /\ ActsAt' = ActsAt
    BY <2>1, <2>2, <2>3, TraceGrows
  <2>5. performed \in Seq(Message) /\ Len(performed) \in Nat BY DEF TypeInv, TypeOK
  <2>6. Len(performed) = Cardinality(ActsAt) /\ Tells(performed, Told, ActsAt)
    BY <1>1 DEF TraceInv
  <2>7. Cardinality(ActsAt) <= Len(performed) BY <2>5, <2>6
  <2>8. Extends(performed, performed, Len(performed)) BY DEF Extends
  <2> HIDE DEF n
  <2>9. Tells(performed, Told', ActsAt) BY <2>4, <2>5, <2>6, <2>7, <2>8, TellsStill
  <2> QED BY <1>1, <2>4, <2>6, <2>9 DEF TraceInv
<1> QED BY <1>2, <1>3

LEMMA ExecuteTrace ==
    ASSUME TypeInv, ReleaseInv, TraceInv, ~returned, phase \in {"authentication", "exploration"},
           NEW m \in Message, Execute(m)
    PROVE  TraceInv'
<1> DEFINE n == Len(trace)
<1>1. CASE Fail BY <1>1 DEF Fail, TraceInv
<1>2. CASE ~Fail
  <2>1. PICK observed \in 0..MaxPost :
             /\ performed' = Append(performed, m)
             /\ trace' = Append(trace, [phase |-> phase, message |-> m, observed |-> observed])
    BY <1>2 DEF Execute, ActFails
  <2> DEFINE step == [phase |-> phase, message |-> m, observed |-> observed]
  <2>2. step \in TraceStep /\ step.message = m BY DEF TraceStep
  <2>3. m.action # "focus_human_input" BY DEF Message, Click, Navigation
  <2> HIDE DEF step
  <2>4. trace' = Append(trace, step) BY <2>1 DEF step
  <2>5. /\ n \in Nat /\ ActsAt \in SUBSET (1..n) /\ Extends(Told', Told, n)
        /\ ActsAt' = ActsAt \cup {n + 1} /\ Told'[n + 1] = m
    BY <2>2, <2>3, <2>4, TraceGrows
  <2>6. performed \in Seq(Message) BY DEF TypeInv, TypeOK
  <2>7. Len(performed) = Cardinality(ActsAt) /\ Tells(performed, Told, ActsAt)
    BY DEF TraceInv, ReleaseInv
  <2>8. Whole(performed, Told, ActsAt, n) BY <2>5, <2>7 DEF Whole
  <2>9. Whole(Append(performed, m), Told', ActsAt \cup {n + 1}, n + 1)
    BY <2>5, <2>6, <2>8, TellsMore
  <2> QED BY <2>1, <2>5, <2>9 DEF TraceInv, Whole
<1> QED BY <1>1, <1>2

\* A session that leaves its records alone and writes no result.
LEMMA SameTells ==
    ASSUME TypeInv, TellInv, WrittenInv, ~returned, closed => closed',
           UNCHANGED <<trace, performed, authProof, artifact>>
    PROVE  TellInv'
<1>1. TraceInv' BY SameTrace DEF TellInv
<1>2. ~artifact' BY DEF WrittenInv
<1> QED BY <1>1, <1>2 DEF TellInv, AuthBound, ArtifactTellsAll

LEMMA ExecuteTells ==
    ASSUME TypeInv, ReleaseInv, WrittenInv, TellInv, ~returned,
           phase \in {"authentication", "exploration"}, NEW m \in Message, Execute(m)
    PROVE  TellInv'
<1>1. TraceInv' BY ExecuteTrace DEF TellInv
<1>2. ~artifact' BY DEF WrittenInv, Execute
<1>3. AuthBound'
  <2>1. authProof' = authProof /\ performed' \in {performed, Append(performed, m)} BY DEF Execute
  <2>2. performed \in Seq(Message) /\ (authProof # None => authProof.at \in Nat)
    BY ConstantsAssumption DEF TypeInv, TypeOK, Proof
  <2>3. Len(performed') \in {Len(performed), Len(performed) + 1} /\ Len(performed) \in Nat
    BY <2>1, <2>2
  <2> QED BY <2>1, <2>2, <2>3 DEF AuthBound, TellInv
<1> QED BY <1>1, <1>2, <1>3 DEF TellInv, ArtifactTellsAll

LEMMA ObserveTells ==
    ASSUME TypeInv, ReleaseInv, WrittenInv, TellInv, NEW ctx \in Context, Observe(ctx)
    PROVE  TellInv'
<1>1. /\ ~returned /\ UNCHANGED <<trace, performed, artifact>> /\ (closed => closed')
  BY PhaseTable DEF Observe, ReleaseInv, acts, decision
<1>2. TraceInv' BY <1>1, SameTrace DEF TellInv
<1>3. ~artifact' BY <1>1 DEF WrittenInv
<1>4. authProof' = authProof \/ authProof'.at = Len(performed)
  BY DEF Observe, Reduce, ProofNow
<1>5. Len(performed) \in Nat BY DEF TypeInv, TypeOK
<1> QED BY <1>1, <1>2, <1>3, <1>4, <1>5 DEF TellInv, AuthBound, ArtifactTellsAll

LEMMA FinishTells ==
    ASSUME TypeInv, ReleaseInv, EvidenceInv, WrittenInv, TellInv, Finish
    PROVE  TellInv'
<1>1. /\ ~returned /\ ~closed /\ phase = "completed" /\ closed'
      /\ UNCHANGED <<trace, performed, goalProof, authProof, humanConfirmed>>
  BY PhaseTable DEF Finish, Fail, ReleaseInv, evidence, acts
<1>2. TraceInv' /\ AuthBound' BY <1>1 DEF TraceInv, AuthBound, TellInv
<1>3. CASE ~artifact' BY <1>2, <1>3 DEF TellInv, ArtifactTellsAll
<1>4. CASE artifact'
  <2>1. humanConfirmed /\ goalProof # None /\ authProof # None
    BY <1>1, <1>4 DEF Finish, WrittenInv
  <2>2. goalProof.at = Len(performed) BY <1>1, <2>1 DEF EvidenceInv, EvidenceIsCurrent
  <2>3. authProof.at <= goalProof.at BY <2>1, <2>2 DEF TellInv, AuthBound
  <2>4. live' = "none"
    BY <1>1 DEF Finish, Fail, CloseSession, ReleaseInv, TypeInv, TypeOK
  <2>5. Len(performed) = Cardinality(ActsAt) /\ Tells(performed, Told, ActsAt)
    BY <1>1 DEF TellInv, TraceInv
  <2>6. ActsAt' = ActsAt /\ Told' = Told BY <1>1 DEF ActsAt, Told
  <2>7. ArtifactTellsAll'
    BY <1>1, <2>1, <2>2, <2>3, <2>4, <2>5, <2>6 DEF ArtifactTellsAll, Tells
  <2> QED BY <1>2, <2>7 DEF TellInv
<1> QED BY <1>3, <1>4

LEMMA TellStep == ContractInv /\ TellInv /\ [Next]_vars => TellInv'
<1> SUFFICES ASSUME TypeInv, ReleaseInv, EvidenceInv, OriginInv, WrittenInv, TellInv, [Next]_vars
             PROVE  TellInv'
  BY DEF ContractInv
<1>1. CASE UNCHANGED vars \/ Cancel
  <2>1. /\ UNCHANGED <<trace, performed, authProof, goalProof, artifact, humanConfirmed, closed, live>>
    BY <1>1 DEF Cancel, vars, evidence, decision, acts, lifetime
  <2>2. ActsAt' = ActsAt /\ Told' = Told BY <2>1 DEF ActsAt, Told
  <2> QED BY <2>1, <2>2 DEF TellInv, TraceInv, AuthBound, ArtifactTellsAll, Tells
<1>2. CASE /\ ~returned /\ (closed => closed')
           /\ UNCHANGED <<trace, performed, authProof, artifact>>
  BY <1>2, SameTells
<1>3. ASSUME NEW requested \in SUBSET Origin, StartSession(requested)
      PROVE  ~returned /\ (closed => closed') /\ UNCHANGED <<trace, performed, authProof, artifact>>
  BY <1>3, PhaseTable DEF StartSession, ReleaseInv, acts, evidence, decision
<1>4. ASSUME Focus \/ Deny \/ Complete \/ CloseWithoutResult \/ RefuseMessage \/ InputEnds
      PROVE  ~returned /\ (closed => closed') /\ UNCHANGED <<trace, performed, authProof, artifact>>
  BY <1>4, PhaseTable DEF Focus, Deny, Complete, CloseWithoutResult, RefuseMessage, InputEnds,
        ReleaseInv, acts, evidence, decision
<1>5. CASE CompleteHumanInput
  <2>1. ~returned /\ UNCHANGED <<performed, authProof, artifact>>
    BY <1>5, PhaseTable DEF CompleteHumanInput, evidence, decision
  <2>2. TraceInv' BY <1>5, HumanInputTrace DEF TellInv
  <2> QED BY <2>1, <2>2 DEF TellInv, AuthBound, ArtifactTellsAll, WrittenInv
<1>6. ASSUME ~returned, ReleaseInv, NEW kind, NEW m, NEW origin, RequireApproval(kind, m, origin)
      PROVE  TellInv'
  BY <1>2, <1>6 DEF RequireApproval, ReleaseInv, acts, evidence, decision
<1>7. CASE RequestExecute
  <2>1. ~returned /\ phase \in {"authentication", "exploration"}
    BY <1>7, PhaseTable DEF RequestExecute
  <2>2. ASSUME NEW m \in Navigation, Navigate(m) PROVE TellInv'
    <3>1. m \in Message BY DEF Message
    <3> QED BY <1>6, <2>1, <2>2, <3>1, ExecuteTells DEF Navigate
  <2>3. ASSUME NEW m \in Click, GateClick(m, origins) PROVE TellInv'
    BY <1>6, <2>1, <2>3 DEF GateClick
  <2>4. CASE RefuseExecute
    BY <1>2, <2>1, <2>4 DEF RefuseExecute, ReleaseInv, acts, evidence, decision
  <2> QED BY <1>7, <2>2, <2>3, <2>4 DEF RequestExecute
<1>8. CASE Approve
  <2>1. ~returned /\ phase \in {"authentication", "exploration"} BY <1>8, PhaseTable DEF Approve
  <2>2. pending # None => pending.message \in Message BY DEF TypeInv, TypeOK, Pending
  <2>3. CASE pending # None /\ (ApproveOrigin \/ ApproveAction)
    BY <2>1, <2>2, <2>3, ExecuteTells DEF ApproveOrigin, ApproveAction
  <2>4. CASE ApproveOriginOfClick
    BY <1>6, <2>1, <2>4 DEF ApproveOriginOfClick, GateClick
  <2>5. CASE Fail /\ UNCHANGED <<trace, performed, authProof, artifact>>
    BY <1>2, <2>1, <2>5 DEF ReleaseInv
  <2> QED BY <1>8, <2>3, <2>4, <2>5 DEF Approve, ApprovalRefused, acts, evidence, decision
<1> QED BY <1>1, <1>2, <1>3, <1>4, <1>5, <1>7, <1>8, ObserveTells, FinishTells DEF Next

\* A result that exists tells exactly what the browser did, was confirmed on
\* evidence no act has withdrawn, and its session is closed and its browser gone.
THEOREM ResultTellsAll == Spec => []ArtifactTellsAll
<1>1. Init => ContractInv
  <2>1. Init => ReleaseInv /\ WrittenInv BY DEF Init, ReleaseInv, WrittenInv
  <2> QED BY <2>1, InitTypeInv, InitEvidenceInv, InitOriginInv DEF ContractInv
<1>2. ContractInv /\ [Next]_vars => ContractInv'
  BY TypeStep, ReleaseStep, EvidenceStep, OriginStep, WrittenStep DEF ContractInv
<1>3. TellInv => ArtifactTellsAll BY DEF TellInv
<1> QED BY <1>1, <1>2, <1>3, InitTellInv, TellStep, PTL DEF Spec

-----------------------------------------------------------------------------
(* Promotion (AuthorPromotion).                                            *)
(*                                                                         *)
(* First what Only does: positions counted in order, and the same          *)
(* positions seen through a function that keeps their order.               *)

Rank(P, i) == Cardinality(Upto(P, i))

\* The instance of AuthorResult counts as this module does.
LEMMA SameCardinality == \A S : Result!Cardinality(S) = Cardinality(S)
BY DEF Result!Cardinality, Cardinality

\* Ranks count the positions without a gap.
LEMMA Ranks ==
    ASSUME NEW n \in Nat, NEW P \in SUBSET (1..n)
    PROVE  /\ IsFiniteSet(P) /\ Cardinality(P) \in Nat
           /\ \A i \in P : Rank(P, i) \in 1..Cardinality(P)
           /\ \A i, j \in P : i < j => Rank(P, i) < Rank(P, j)
           /\ \A k \in 1..Cardinality(P) : \E i \in P : Rank(P, i) = k
<1> DEFINE c == Cardinality(P)
           f == [i \in P |-> Rank(P, i)]
<1>1. IsFiniteSet(P) /\ c \in Nat /\ \A i \in P : Rank(P, i) \in 1..c
  BY Positions DEF Rank
<1>2. ASSUME NEW i \in P, NEW j \in P, i < j PROVE Rank(P, i) < Rank(P, j)
  <2>1. Upto(P, i) \in SUBSET Upto(P, j) /\ j \in Upto(P, j) /\ j \notin Upto(P, i)
    <3>1. \A k \in P : k \in Int OBVIOUS
    <3>2. \A k \in P : k <= i => k <= j BY <1>2, <3>1
    <3>3. j <= j /\ ~(j <= i) BY <1>2, <3>1
    <3> QED BY <3>2, <3>3 DEF Upto
  <2>2. Upto(P, j) \in SUBSET P BY DEF Upto
  <2>3. IsFiniteSet(Upto(P, j)) BY <1>1, <2>2, FS_Subset
  <2>4. /\ Cardinality(Upto(P, i)) <= Cardinality(Upto(P, j))
        /\ Cardinality(Upto(P, j)) = Cardinality(Upto(P, i)) => Upto(P, j) = Upto(P, i)
    BY <2>1, <2>3, FS_Subset
  <2>5. Rank(P, i) \in Nat /\ Rank(P, j) \in Nat BY <1>1
  <2> QED BY <2>1, <2>4, <2>5 DEF Rank
<1> HIDE DEF c
<1>3. f \in Injection(P, 1..c)
  <2>1. f \in [P -> 1..c] BY <1>1
  <2>2. ASSUME NEW a \in P, NEW b \in P, f[a] = f[b] PROVE a = b
    <3>1. Rank(P, a) = Rank(P, b) BY <2>2
    <3>2. a \in Int /\ b \in Int /\ Rank(P, a) \in Int BY <1>1
    <3>3. ~(a < b) /\ ~(b < a) BY <1>2, <3>1, <3>2
    <3> QED BY <3>2, <3>3
  <2> QED BY <2>1, <2>2 DEF Injection, IsInjective
<1>4. IsFiniteSet(1..c) /\ Cardinality(1..c) = c
  <2>1. c = 0 \/ 1 <= c BY <1>1
  <2> QED BY <1>1, <2>1, FS_Interval
<1>5. f \in Surjection(P, 1..c) BY <1>3, <1>4, FS_Injection DEF c
<1>6. \A k \in 1..c : \E i \in P : Rank(P, i) = k BY <1>5 DEF Surjection
<1> QED BY <1>1, <1>2, <1>6 DEF c

\* Only, at the rank of a position, has what stands there.
LEMMA OnlyHas ==
    ASSUME NEW n \in Nat, NEW P \in SUBSET (1..n), NEW s
    PROVE  /\ Result!Only(s, P) = [k \in 1..Cardinality(P) |-> Result!Only(s, P)[k]]
           /\ Len(Result!Only(s, P)) = Cardinality(P)
           /\ DOMAIN Result!Only(s, P) = 1..Cardinality(P)
           /\ \A i \in P : Result!Nth(P, Rank(P, i)) = i
           /\ \A i \in P : Result!Only(s, P)[Rank(P, i)] = s[i]
<1>1. /\ Cardinality(P) \in Nat
      /\ \A i \in P : Rank(P, i) \in 1..Cardinality(P)
      /\ \A i, j \in P : i < j => Rank(P, i) < Rank(P, j)
  BY Ranks
<1>2. ASSUME NEW i \in P PROVE Result!Nth(P, Rank(P, i)) = i
  <2>1. \A j \in P : Rank(P, j) = Rank(P, i) => j = i
    <3>1. ASSUME NEW j \in P, Rank(P, j) = Rank(P, i) PROVE j = i
      <4>1. i \in Int /\ j \in Int /\ Rank(P, i) \in Int /\ Rank(P, j) \in Int BY <1>1
      <4>2. ~(i < j) /\ ~(j < i) BY <1>1, <3>1, <4>1
      <4> QED BY <4>1, <4>2
    <3> QED BY <3>1
  <2>2. Result!Nth(P, Rank(P, i)) = CHOOSE j \in P : Rank(P, j) = Rank(P, i)
    BY SameCardinality, Zenon DEF Result!Nth, Rank, Upto
  <2> QED BY <2>1, <2>2
<1>3. Result!Only(s, P) = [k \in 1..Cardinality(P) |-> s[Result!Nth(P, k)]] BY SameCardinality DEF Result!Only
<1>4. Len(Result!Only(s, P)) = Cardinality(P) BY <1>1, <1>3
<1> QED BY <1>1, <1>2, <1>3, <1>4

\* A function that keeps the order of positions keeps their number and ranks.
LEMMA ImageCount ==
    ASSUME NEW U, IsFiniteSet(U), NEW V, NEW g \in [U -> V],
           \A i, j \in U : g[i] = g[j] => i = j, \A v \in V : \E i \in U : g[i] = v
    PROVE  IsFiniteSet(V) /\ Cardinality(V) = Cardinality(U)
<1>1. g \in Bijection(U, V) BY DEF Bijection, Injection, Surjection, IsInjective
<1>2. ExistsBijection(U, V) BY <1>1 DEF ExistsBijection
<1> QED BY <1>2, FS_Bijection

\* A function that puts the positions T in order at some of the first m places,
\* and those that stand in a sequence where P does.
Rising(f, T, m) == m \in Nat /\ f \in [T -> 1..m] /\ \A i, j \in T : i < j => f[i] < f[j]
Stands(P, f, T) == P = {f[i] : i \in T}
Reads(part, s, f, T) ==
    /\ DOMAIN part = 1..Cardinality(T)
    /\ \A k \in 1..Cardinality(T) : part[k] = s[f[Result!Nth(T, k)]]

LEMMA RanksOfImage ==
    ASSUME NEW n \in Nat, NEW T \in SUBSET (1..n), NEW m, NEW f, Rising(f, T, m),
           NEW C, Stands(C, f, T)
    PROVE  /\ C \in SUBSET (1..m) /\ Cardinality(C) = Cardinality(T)
           /\ \A i \in T : Rank(C, f[i]) = Rank(T, i)
<1>0. /\ m \in Nat /\ f \in [T -> 1..m] /\ \A i, j \in T : i < j => f[i] < f[j]
      /\ C = {f[i] : i \in T}
  BY DEF Rising, Stands
<1>1. \A i \in T : i \in Int /\ f[i] \in Int
  <2>1. \A i \in T : f[i] \in 1..m BY <1>0
  <2> QED BY <2>1
<1>2. \A i, j \in T : f[i] <= f[j] <=> i <= j BY <1>0, <1>1
<1>3. \A i, j \in T : f[i] = f[j] => i = j BY <1>1, <1>2
<1>4. C \in SUBSET (1..m) BY <1>0
<1>5. IsFiniteSet(T) BY Ranks
<1>6. Cardinality(C) = Cardinality(T)
  <2>1. f \in [T -> C] /\ \A v \in C : \E i \in T : f[i] = v BY <1>0
  <2> QED BY <1>3, <1>5, <2>1, ImageCount
<1>7. ASSUME NEW i \in T PROVE Rank(C, f[i]) = Rank(T, i)
  <2> DEFINE U == Upto(T, i)
             V == Upto(C, f[i])
             g == [j \in U |-> f[j]]
  <2>1. U \in SUBSET T BY DEF Upto
  <2>2. IsFiniteSet(U) BY <1>5, <2>1, FS_Subset
  <2>3. g \in [U -> V] BY <1>0, <1>2 DEF Upto
  <2>4. \A v \in V : \E j \in U : g[j] = v BY <1>0, <1>2 DEF Upto
  <2>5. \A j, k \in U : g[j] = g[k] => j = k BY <1>3, <2>1
  <2> HIDE DEF U, V, g
  <2>6. Cardinality(V) = Cardinality(U) BY <2>2, <2>3, <2>4, <2>5, ImageCount
  <2> QED BY <2>6 DEF Rank, U, V
<1> QED BY <1>4, <1>6, <1>7

\* What stands at the images, in order.
LEMMA OnlyImage ==
    ASSUME NEW n \in Nat, NEW T \in SUBSET (1..n), NEW m, NEW f, Rising(f, T, m),
           NEW C, Stands(C, f, T), NEW s
    PROVE  Reads(Result!Only(s, C), s, f, T)
<1>0. /\ m \in Nat /\ f \in [T -> 1..m] /\ \A i, j \in T : i < j => f[i] < f[j]
      /\ C = {f[i] : i \in T}
  BY DEF Rising, Stands
<1>1. /\ C \in SUBSET (1..m) /\ Cardinality(C) = Cardinality(T)
      /\ \A i \in T : Rank(C, f[i]) = Rank(T, i)
  BY RanksOfImage
<1>2. ASSUME NEW k \in 1..Cardinality(T) PROVE Result!Nth(C, k) = f[Result!Nth(T, k)]
  <2>1. PICK i \in T : Rank(T, i) = k BY Ranks
  <2>2. Result!Nth(T, k) = i BY <2>1, OnlyHas
  <2>3. f[i] \in C /\ Rank(C, f[i]) = k BY <1>0, <1>1, <2>1
  <2>4. Result!Nth(C, k) = f[i] BY <1>0, <1>1, <2>3, OnlyHas
  <2> QED BY <2>2, <2>4
<1>3. Result!Only(s, C) = [k \in 1..Cardinality(C) |-> s[Result!Nth(C, k)]]
  BY SameCardinality DEF Result!Only
<1> QED BY <1>1, <1>2, <1>3 DEF Reads

-----------------------------------------------------------------------------
(* What a confirmed session amounts to. *)

\* The context of a message, and the contexts one is in, itself first.
ContextOf(m) == IF m.action = "navigate_get" THEN m.ctx ELSE m.cand.ctx
Lineage(ctx) == {ctx, Above(ctx), Above(Above(ctx)), Above(Above(Above(ctx)))} \ {"main"}

\* The graph of contexts is one that Build accepts, and whatever the session
\* holds of the pages is of a context it knows.
ContextsInv ==
    /\ Cardinality(Known(contexts)) <= MaxContexts
    /\ \A c \in Known(contexts) : Placed(c, contexts)

KnownInv ==
    /\ \A c \in candidates : KnownContext(c.ctx)
    /\ pendingInput # None => KnownContext(pendingInput.cand.ctx)
    /\ pending # None => KnownContext(ContextOf(pending.message))
    /\ goalProof # None => KnownContext(goalProof.ctx)
    /\ authProof # None => KnownContext(authProof.ctx)
    /\ \A i \in DOMAIN trace : KnownContext(ContextOf(trace[i].message))

\* What a session begins with and what it is completed with.
StartInv == phase # "awaiting_start" => {InitialOrigin, DashboardOrigin, GoalOrigin} \subseteq origins

CompletionInv ==
    /\ goalProof # None => goalProof.ctx = GoalContext
    /\ phase = "completed" => humanConfirmed
    /\ IsFiniteSet(outputs) /\ Cardinality(outputs) <= MaxOutputs
    /\ \A c \in outputs : c.shape.unique /\ c.shape.input = "none" /\ c.shape.output

\* The trace is of the authentication phase first, human inputs are of no
\* other, and only candidates that take an input are among them.
OrderInv ==
    /\ phase \in {"awaiting_start", "authentication", "human_input"} =>
          authProof = None /\ \A i \in DOMAIN trace : trace[i].phase = "authentication"
    /\ \A i, j \in DOMAIN trace :
          i < j /\ trace[j].phase = "authentication" => trace[i].phase = "authentication"
    /\ \A i \in DOMAIN trace : trace[i].message.action = "focus_human_input" =>
          trace[i].phase = "authentication" /\ trace[i].message.cand.shape.input # "none"
    /\ pendingInput # None => pendingInput.cand.shape.input # "none"

\* The acts of the trace are those performed, the ones up to the dashboard
\* those of the authentication phase.
ActsBefore == {i \in ActsAt : trace[i].phase = "authentication"}

TallyInv ==
    /\ ~closed \/ phase = "completed" =>
          Len(performed) = Cardinality(ActsAt) /\ Tells(performed, Told, ActsAt)
    /\ authProof # None => authProof.at = Cardinality(ActsBefore)

\* A step opens one context at most, and what a step, or the proof of the
\* dashboard, is in was open before.
OpenerInv ==
    /\ opener \in [Child -> 0..Len(trace)]
    /\ \A c \in Child \ Known(contexts) : opener[c] = 0
    /\ \A c, d \in Child : opener[c] = opener[d] /\ opener[c] # 0 => c = d
    /\ \A i \in DOMAIN trace : \A c \in Lineage(ContextOf(trace[i].message)) : opener[c] < i
    /\ authProof # None => \A c \in Lineage(authProof.ctx) :
          opener[c] # 0 => trace[opener[c]].phase = "authentication"

PromotionInv ==
    /\ TypeInv /\ EvidenceInv /\ OriginInv
    /\ ContextsInv /\ KnownInv /\ StartInv /\ CompletionInv /\ OrderInv /\ TallyInv /\ OpenerInv

\* A known context is in known contexts only.
LEMMA LineageIsKnown ==
    ASSUME ContextsInv, NEW ctx, KnownContext(ctx)
    PROVE  /\ KnownContext(Above(ctx)) /\ KnownContext(Above(Above(ctx)))
           /\ KnownContext(Above(Above(Above(ctx))))
           /\ Lineage(ctx) \in SUBSET Known(contexts)
           /\ Shallow(ctx)
<1>1. ASSUME NEW c, KnownContext(c) PROVE KnownContext(Above(c))
  BY <1>1 DEF ContextsInv, Placed, KnownContext, Above
<1>2. /\ KnownContext(Above(ctx)) /\ KnownContext(Above(Above(ctx)))
      /\ KnownContext(Above(Above(Above(ctx))))
  BY <1>1
<1>3. Lineage(ctx) \in SUBSET Known(contexts) BY <1>2 DEF Lineage, KnownContext
<1>4. Shallow(ctx)
  <2>1. CASE ctx = "main" BY <2>1 DEF Shallow, Above
  <2>2. CASE ctx \in Known(contexts) BY <2>2 DEF ContextsInv, Placed
  <2> QED BY <2>1, <2>2 DEF KnownContext
<1> QED BY <1>2, <1>3, <1>4

\* The fields of the request, one by one.
LEMMA RequestIs ==
    ASSUME NEW typed, NEW r, r = Request(typed)
    PROVE  /\ r.confirmed = humanConfirmed /\ r.origins = origins
           /\ r.initial = InitialOrigin /\ r.dashboard = DashboardOrigin
           /\ r.predicate.origin = GoalOrigin /\ r.predicate.ctx = GoalContext
           /\ r.goal.origin = GoalOrigin /\ r.goal.ctx = goalProof.ctx
           /\ r.authentication.origin = DashboardOrigin /\ r.authentication.ctx = authProof.ctx
           /\ r.contexts = [c \in Known(contexts) |->
                 [kind |-> IF c \in Popup THEN "popup" ELSE "frame",
                  parent |-> Parent[c], origin |-> contexts[c]]]
           /\ r.bounds.observations = MaxObservations /\ r.bounds.outputs = MaxOutputs
           /\ r.trace = [i \in DOMAIN trace |-> StepOf(i)]
           /\ r.selections =
                 {[gen |-> c.gen, ctx |-> c.ctx, on |-> c.shape, unique |-> c.shape.unique,
                   control |-> c.shape.input # "none", typed |-> c \in typed] : c \in outputs}
BY DEF Request

\* The graph of contexts as Build sees it is that of the session.
LEMMA GraphIs ==
    ASSUME ContextsInv, NEW typed, NEW r, r = Request(typed)
    PROVE  /\ DOMAIN r.contexts = Known(contexts)
           /\ \A ctx : KnownContext(ctx) <=> Result!KnownIn(r.contexts, ctx)
           /\ \A ctx : KnownContext(ctx) => Result!Ancestry(r.contexts, ctx) = Lineage(ctx)
           /\ \A c \in Known(contexts) :
                 /\ r.contexts[c].kind = IF c \in Popup THEN "popup" ELSE "frame"
                 /\ r.contexts[c].parent = Parent[c] /\ r.contexts[c].origin = contexts[c]
                 /\ Result!Rooted(r.contexts, c)
<1>1. r.contexts = [c \in Known(contexts) |->
                      [kind |-> IF c \in Popup THEN "popup" ELSE "frame",
                       parent |-> Parent[c], origin |-> contexts[c]]]
  BY RequestIs
<1>2. /\ DOMAIN r.contexts = Known(contexts)
      /\ \A c \in Known(contexts) :
            /\ r.contexts[c].kind = IF c \in Popup THEN "popup" ELSE "frame"
            /\ r.contexts[c].parent = Parent[c] /\ r.contexts[c].origin = contexts[c]
  BY <1>1
<1>3. "main" \notin Known(contexts) BY ConstantsAssumption DEF Known
<1>4. ASSUME NEW ctx, KnownContext(ctx) PROVE Result!Up(r.contexts, ctx) = Above(ctx)
  BY <1>2, <1>3, <1>4 DEF Result!Up, Above, KnownContext
<1>5. ASSUME NEW ctx, KnownContext(ctx)
      PROVE  Result!Ancestry(r.contexts, ctx) = Lineage(ctx)
  BY <1>4, <1>5, LineageIsKnown DEF Result!Ancestry, Lineage
<1>6. ASSUME NEW c \in Known(contexts) PROVE Result!Rooted(r.contexts, c)
  <2>1. KnownContext(c) BY DEF KnownContext
  <2> QED BY <1>4, <2>1, LineageIsKnown DEF Result!Rooted, Shallow
<1>7. \A ctx : KnownContext(ctx) <=> Result!KnownIn(r.contexts, ctx)
  BY <1>2 DEF KnownContext, Result!KnownIn
<1> QED BY <1>2, <1>5, <1>6, <1>7

\* An entry of the trace as Build reads it.
LEMMA EntryIs ==
    ASSUME TypeInv, NEW i \in DOMAIN trace, NEW m, m = trace[i].message
    PROVE  /\ trace[i].phase \in {"authentication", "exploration"}
           /\ \/ m.action = "navigate_get" /\ m \in Navigation /\ m \in Message
              \/ m.action = "click" /\ m \in Click /\ m \in Message /\ m.cand.shape \in Shape
              \/ m.action = "focus_human_input" /\ m \in HumanInput /\ m.cand.shape \in Shape
<1>1. trace \in Seq(TraceStep) BY DEF TypeInv, TypeOK
<1>2. trace[i] \in TraceStep BY <1>1
<1>3. m \in Message \cup HumanInput /\ trace[i].phase \in {"authentication", "exploration"}
  BY <1>2 DEF TraceStep
<1>4. CASE m \in Navigation BY <1>3, <1>4 DEF Navigation, Message
<1>5. CASE m \in Click BY <1>3, <1>5 DEF Click, Message, CandidateId
<1>6. CASE m \in HumanInput BY <1>3, <1>6 DEF HumanInput, CandidateId
<1> QED BY <1>3, <1>4, <1>5, <1>6 DEF Message

LEMMA StepIs ==
    ASSUME NEW i, NEW s, s = StepOf(i), NEW m, m = trace[i].message
    PROVE  /\ s.phase = trace[i].phase /\ s.ctx = ContextOf(m)
           /\ m.action = "navigate_get" => s.do = "navigate" /\ s.on = None /\ s.input = "none"
           /\ m.action = "click" => s.do = "click" /\ s.on = m.cand.shape /\ s.input = "none"
           /\ m.action = "focus_human_input" =>
                 /\ s.do = "focus_human_input" /\ s.on = m.cand.shape
                 /\ s.input = m.cand.shape.input
                 /\ s.challenge = IF s.input # "credential" THEN s.input ELSE None
BY DEF StepOf, ContextOf

\* The one context a step has opened.
LEMMA OpensIs ==
    ASSUME OpenerInv, NEW i \in DOMAIN trace, NEW s, s = StepOf(i), i # 0
    PROVE  /\ \A c \in Child : opener[c] = i => s.opens = c
           /\ s.opens # None => s.opens \in Child /\ opener[s.opens] = i
<1> DEFINE opened == {c \in Child : opener[c] = i}
<1>1. s.opens = IF opened = {} THEN None ELSE CHOOSE c \in opened : TRUE BY DEF StepOf
<1>2. \A c, d \in opened : c = d BY DEF OpenerInv
<1>3. opened # {} => s.opens \in opened BY <1>1
<1>4. opened = {} => s.opens = None BY <1>1
<1> QED BY <1>2, <1>3, <1>4

\* What Build demands of every step holds of them all.
LEMMA StepsAreValid ==
    ASSUME PromotionInv, TopologyHolds, NEW typed, NEW r, r = Request(typed), NEW i \in DOMAIN trace
    PROVE  Result!StepValid(r.contexts, StepOf(i)) <=>
              (StepOf(i).do = "focus_human_input" =>
                  StepOf(i).input = "mfa" \/ StepOf(i).on \notin Redacted)
<1> DEFINE m == trace[i].message
           s == StepOf(i)
<1>1. TypeInv /\ ContextsInv /\ KnownInv /\ OrderInv /\ OpenerInv BY DEF PromotionInv
<1>2. i # 0 /\ i \in Nat BY <1>1 DEF TypeInv, TypeOK
<1>3. Result!KnownIn(r.contexts, s.ctx) BY <1>1, GraphIs, StepIs DEF KnownInv
<1>4. ASSUME s.opens # None
      PROVE  /\ s.do = "click" /\ s.opens \in DOMAIN r.contexts
             /\ r.contexts[s.opens].kind = "popup" /\ r.contexts[s.opens].parent = s.ctx
  <2> DEFINE c == s.opens
  <2>1. c \in Child /\ opener[c] = i BY <1>1, <1>2, <1>4, OpensIs
  <2>2. c \in Known(contexts) BY <1>1, <1>2, <2>1 DEF OpenerInv
  <2>3. c \in Popup /\ IsClick(m) /\ m.cand.ctx = Parent[c]
    BY <1>2, <2>1, <2>2 DEF TopologyHolds
  <2>4. s.do = "click" /\ s.ctx = Parent[c] BY <2>3, StepIs DEF IsClick, ContextOf
  <2> QED BY <1>1, <2>2, <2>3, <2>4, GraphIs
<1>5. ASSUME s.do = "focus_human_input"
      PROVE  Result!HumanInputValid(s) <=> (s.input = "mfa" \/ s.on \notin Redacted)
  <2>1. m.action = "focus_human_input" /\ m \in HumanInput /\ m.cand.shape \in Shape
    BY <1>1, <1>5, EntryIs, StepIs
  <2>2. /\ s.on = m.cand.shape /\ s.input = m.cand.shape.input
        /\ s.challenge = IF s.input # "credential" THEN s.input ELSE None
    BY <2>1, StepIs
  <2>3. m.cand.shape.input \in {"credential", "otp", "mfa"}
    BY <1>1, <2>1, ConstantsAssumption DEF OrderInv, ShapeType
  <2>4. s.on # None BY <2>1, <2>2, PromotionAssumption
  <2> QED BY <2>2, <2>3, <2>4 DEF Result!HumanInputValid, Result!Locates
<1> QED BY <1>3, <1>4, <1>5 DEF Result!StepValid

\* The outputs the operator was shown are outputs Build accepts.
LEMMA SelectionsAreValid ==
    ASSUME PromotionInv, phase = "completed", NEW typed, NEW r, r = Request(typed)
    PROVE  Result!SelectionsValid(r)
<1> DEFINE pick(c) == [gen |-> c.gen, ctx |-> c.ctx, on |-> c.shape, unique |-> c.shape.unique,
                       control |-> c.shape.input # "none", typed |-> c \in typed]
<1>1. /\ r.selections = {pick(c) : c \in outputs}
      /\ r.bounds.observations = MaxObservations /\ r.bounds.outputs = MaxOutputs
      /\ r.goal.ctx = goalProof.ctx
  BY RequestIs
<1>2. /\ IsFiniteSet(outputs) /\ Cardinality(outputs) <= MaxOutputs
      /\ goalProof # None
      /\ \A c \in outputs : /\ c \in CandidateId /\ c.gen = observations /\ c.ctx = goalProof.ctx
                            /\ c.shape.unique /\ c.shape.input = "none" /\ c.shape.output
  BY DEF PromotionInv, CompletionInv, EvidenceInv, EvidenceIsCurrent, TypeInv, TypeOK
<1>3. \A c, d \in outputs : c.shape = d.shape => c = d BY <1>2 DEF CandidateId
<1>4. Cardinality(r.selections) <= MaxOutputs /\ Cardinality(r.selections) <= 16
  <2> DEFINE g == [c \in outputs |-> pick(c)]
             V == {pick(c) : c \in outputs}
  <2>1. g \in [outputs -> V] OBVIOUS
  <2>2. \A v \in V : \E c \in outputs : g[c] = v OBVIOUS
  <2>3. \A c, d \in outputs : g[c] = g[d] => c = d
    <3>1. \A c \in outputs : g[c].on = c.shape OBVIOUS
    <3> HIDE DEF g
    <3> QED BY <1>3, <3>1
  <2> HIDE DEF g, V, pick
  <2>4. Cardinality(V) = Cardinality(outputs) BY <1>2, <2>1, <2>2, <2>3, ImageCount
  <2>5. Cardinality(outputs) \in Nat BY <1>2, FS_CardinalityType
  <2> QED BY <1>1, <1>2, <2>4, <2>5, PromotionAssumption, ConstantsAssumption DEF V
<1>5. \A s, t \in r.selections : s.gen = t.gen /\ (s.on = t.on => s = t)
  <2>1. ASSUME NEW s \in r.selections, NEW t \in r.selections
        PROVE  s.gen = t.gen /\ (s.on = t.on => s = t)
    <3>1. PICK c \in outputs : s = pick(c) BY <1>1, <2>1
    <3>2. PICK d \in outputs : t = pick(d) BY <1>1, <2>1
    <3>3. s.gen = c.gen /\ t.gen = d.gen /\ s.on = c.shape /\ t.on = d.shape BY <3>1, <3>2
    <3> HIDE DEF pick
    <3> QED BY <1>2, <1>3, <3>1, <3>2, <3>3
  <2> QED BY <2>1
<1>6. ASSUME NEW s \in r.selections
      PROVE  /\ s.gen \in 1 .. MaxObservations /\ s.ctx = r.goal.ctx /\ s.on \notin Redacted
             /\ Result!KnownIn(r.contexts, s.ctx) /\ ~s.control /\ s.unique
  <2>1. PICK c \in outputs : s = pick(c) BY <1>1, <1>6
  <2>2. s.gen = c.gen /\ s.ctx = c.ctx /\ s.on = c.shape /\ s.unique = c.shape.unique
        /\ s.control = (c.shape.input # "none")
    BY <2>1
  <2>3. c.gen \in 1..MaxObservations BY <1>2 DEF CandidateId
  <2>4. c.shape \notin Redacted BY <1>2, PromotionAssumption
  <2>5. KnownContext(goalProof.ctx) BY <1>2 DEF PromotionInv, KnownInv
  <2>6. Result!KnownIn(r.contexts, goalProof.ctx) BY <2>5, GraphIs DEF PromotionInv
  <2> HIDE DEF pick
  <2> QED BY <1>1, <1>2, <2>2, <2>3, <2>4, <2>6
<1> QED BY <1>1, <1>4, <1>5, <1>6, SameCardinality DEF Result!SelectionsValid

\* What Build demands of a confirmed session, but for its steps.
LEMMA RequestIsValid ==
    ASSUME PromotionInv, Confirmed, NEW typed, NEW r, r = Request(typed)
    PROVE  Result!RequestValid(r) <=>
              \A i \in DOMAIN trace : StepOf(i).do = "focus_human_input" =>
                  StepOf(i).input = "mfa" \/ StepOf(i).on \notin Redacted
<1>1. phase = "completed" /\ TopologyHolds BY DEF Confirmed
<1>2. goalProof # None /\ authProof # None /\ goalProof.ctx = GoalContext
  BY <1>1 DEF PromotionInv, EvidenceInv, EvidenceIsCurrent, CompletionInv
<1>3. KnownContext(GoalContext) /\ KnownContext(authProof.ctx)
  BY <1>2 DEF PromotionInv, KnownInv
<1>4. {InitialOrigin, DashboardOrigin, GoalOrigin} \subseteq origins
  BY <1>1 DEF PromotionInv, StartInv
<1>5. Result!ContextsValid(r.contexts, origins)
  <2>1. Cardinality(Known(contexts)) <= 64
    <3>1. Cardinality(Known(contexts)) <= MaxContexts BY DEF PromotionInv, ContextsInv
    <3>2. Known(contexts) \in SUBSET Child BY DEF Known
    <3>3. Cardinality(Known(contexts)) \in Nat
      BY <3>2, ConstantsAssumption, FS_Subset, FS_CardinalityType
    <3> QED BY <3>1, <3>3, PromotionAssumption, ConstantsAssumption
  <2>2. \A c \in Known(contexts) : contexts[c] \in origins
    BY DEF PromotionInv, OriginInv, OriginsAgree, Known
  <2> QED BY <2>1, <2>2, GraphIs, SameCardinality DEF PromotionInv, Result!ContextsValid
<1>6. Result!SelectionsValid(r) BY <1>1, SelectionsAreValid
<1>7. /\ r.origins = origins /\ r.initial = InitialOrigin /\ r.dashboard = DashboardOrigin
      /\ r.predicate.origin = GoalOrigin /\ r.predicate.ctx = GoalContext
      /\ r.authentication.origin = DashboardOrigin /\ r.authentication.ctx = authProof.ctx
      /\ r.trace = [i \in DOMAIN trace |-> StepOf(i)]
  BY RequestIs
<1>8. Result!KnownIn(r.contexts, GoalContext) /\ Result!KnownIn(r.contexts, authProof.ctx)
  BY <1>3, GraphIs DEF PromotionInv
<1>9. (\A i \in DOMAIN r.trace : Result!StepValid(r.contexts, r.trace[i])) <=>
      \A i \in DOMAIN trace : StepOf(i).do = "focus_human_input" =>
                  StepOf(i).input = "mfa" \/ StepOf(i).on \notin Redacted
  BY <1>1, <1>7, StepsAreValid
<1> QED BY <1>4, <1>5, <1>6, <1>7, <1>8, <1>9 DEF Result!RequestValid

\* The entries of the trace the authentication profile is made of, and those
\* the capability profile is made of.
LoginAt == {i \in DOMAIN trace :
               trace[i].phase = "authentication" /\ trace[i].message.action # "navigate_get"}
TaskAt == {i \in DOMAIN trace : trace[i].phase = "exploration"}

\* A sequence has, in order, the steps of the trace at the positions P.
Selects(steps, P) ==
    /\ P \in SUBSET (1..Len(trace)) /\ Len(trace) \in Nat
    /\ Len(steps) = Cardinality(P) /\ DOMAIN steps = 1..Cardinality(P)
    /\ \A i \in P : Rank(P, i) \in DOMAIN steps /\ steps[Rank(P, i)] = StepOf(i)
    /\ \A k \in DOMAIN steps : \E i \in P : Rank(P, i) = k

LEMMA OnlySelects ==
    ASSUME TypeInv, NEW P \in SUBSET DOMAIN trace,
           NEW s, s = [i \in DOMAIN trace |-> StepOf(i)]
    PROVE  Selects(Result!Only(s, P), P)
<1>1. DOMAIN trace = 1..Len(trace) /\ Len(trace) \in Nat BY DEF TypeInv, TypeOK
<1>2. P \in SUBSET (1..Len(trace)) BY <1>1
<1>3. \A i \in P : s[i] = StepOf(i) OBVIOUS
<1>4. /\ Len(Result!Only(s, P)) = Cardinality(P)
      /\ DOMAIN Result!Only(s, P) = 1..Cardinality(P)
      /\ \A i \in P : Result!Only(s, P)[Rank(P, i)] = s[i]
  BY <1>1, <1>2, OnlyHas
<1>5. /\ \A i \in P : Rank(P, i) \in 1..Cardinality(P)
      /\ \A k \in 1..Cardinality(P) : \E i \in P : Rank(P, i) = k
  BY <1>1, <1>2, Ranks
<1> QED BY <1>1, <1>2, <1>3, <1>4, <1>5 DEF Selects

LEMMA StepsAre ==
    ASSUME TypeInv, NEW typed, NEW r, r = Request(typed)
    PROVE  /\ Selects(Result!AuthenticationSteps(r), LoginAt)
           /\ Selects(Result!CapabilitySteps(r), TaskAt)
<1>1. r.trace = [i \in DOMAIN trace |-> StepOf(i)] BY RequestIs
<1>2. \A i \in DOMAIN trace : Result!IsAuthentication(StepOf(i)) <=> i \in LoginAt
  <2>1. ASSUME NEW i \in DOMAIN trace
        PROVE  Result!IsAuthentication(StepOf(i)) <=> i \in LoginAt
    <3>1. /\ StepOf(i).phase = trace[i].phase
          /\ StepOf(i).do # "navigate" <=> trace[i].message.action # "navigate_get"
      BY EntryIs, StepIs
    <3> QED BY <3>1 DEF Result!IsAuthentication, LoginAt
  <2> QED BY <2>1
<1>3. \A i \in DOMAIN trace : Result!IsExploration(StepOf(i)) <=> i \in TaskAt
  BY StepIs DEF Result!IsExploration, TaskAt
<1>4. {i \in DOMAIN r.trace : Result!IsAuthentication(r.trace[i])} = LoginAt
  BY <1>1, <1>2 DEF LoginAt
<1>5. {i \in DOMAIN r.trace : Result!IsExploration(r.trace[i])} = TaskAt
  BY <1>1, <1>3 DEF TaskAt
<1>6. LoginAt \in SUBSET DOMAIN trace /\ TaskAt \in SUBSET DOMAIN trace BY DEF LoginAt, TaskAt
<1>7. Result!AuthenticationSteps(r) = Result!Only(r.trace, LoginAt)
  BY <1>4 DEF Result!AuthenticationSteps
<1>8. Result!CapabilitySteps(r) = Result!Only(r.trace, TaskAt)
  BY <1>5 DEF Result!CapabilitySteps
<1> QED BY <1>1, <1>6, <1>7, <1>8, OnlySelects

\* Build refuses a confirmed session for a control without a portable name
\* and for nothing else.
LEMMA BuildsWhenNamed ==
    ASSUME PromotionInv, Confirmed, NEW typed, NEW r, r = Request(typed)
    PROVE  Result!Builds(r) <=>
              \A i \in DOMAIN trace : StepOf(i).input = "mfa" \/ StepOf(i).on \notin Redacted
<1> DEFINE named(i) == StepOf(i).input = "mfa" \/ StepOf(i).on \notin Redacted
<1>0. TypeInv /\ OrderInv BY DEF PromotionInv
<1>1. r.confirmed /\ r.goal.ctx = r.predicate.ctx /\ r.goal.origin = r.predicate.origin
  BY RequestIs DEF Confirmed, PromotionInv, EvidenceInv, EvidenceIsCurrent, CompletionInv
<1>2. Result!RequestValid(r) <=>
         \A i \in DOMAIN trace : StepOf(i).do = "focus_human_input" => named(i)
  BY RequestIsValid
<1>3. None \notin Redacted BY PromotionAssumption
<1>4. ASSUME NEW i \in LoginAt
      PROVE  (StepOf(i).input = "mfa" \/ Result!Locates(StepOf(i))) <=> named(i)
  <2>1. i \in DOMAIN trace /\ trace[i].message.action # "navigate_get" BY DEF LoginAt
  <2>2. StepOf(i).on \in Shape BY <1>0, <2>1, EntryIs, StepIs
  <2> QED BY <2>2, PromotionAssumption DEF Result!Locates
<1>5. Result!AuthenticationBuilds(r) <=> \A i \in LoginAt : named(i)
  <2>1. Selects(Result!AuthenticationSteps(r), LoginAt) BY <1>0, StepsAre
  <2> HIDE DEF named
  <2> QED BY <1>4, <2>1 DEF Result!AuthenticationBuilds, Selects
<1>6. ASSUME NEW i \in TaskAt
      PROVE  /\ (StepOf(i).do = "navigate" \/ (StepOf(i).do = "click" /\ Result!Locates(StepOf(i))))
                  <=> named(i)
             /\ StepOf(i).do # "focus_human_input"
  <2>1. i \in DOMAIN trace /\ trace[i].phase = "exploration" BY DEF TaskAt
  <2>2. trace[i].message.action \in {"click", "navigate_get"} BY <1>0, <2>1, EntryIs DEF OrderInv
  <2>3. CASE trace[i].message.action = "navigate_get" BY <1>3, <2>3, StepIs
  <2>4. CASE trace[i].message.action = "click"
    <3>1. StepOf(i).do = "click" /\ StepOf(i).input = "none" /\ StepOf(i).on \in Shape
      BY <1>0, <2>1, <2>4, EntryIs, StepIs
    <3> QED BY <3>1, PromotionAssumption DEF Result!Locates
  <2> QED BY <2>2, <2>3, <2>4
<1>7. Result!CapabilityBuilds(r) <=> \A i \in TaskAt : named(i)
  <2>1. Selects(Result!CapabilitySteps(r), TaskAt) BY <1>0, StepsAre
  <2> HIDE DEF named
  <2> QED BY <1>6, <2>1 DEF Result!CapabilityBuilds, Selects
<1>8. ASSUME NEW i \in DOMAIN trace, i \notin LoginAt, i \notin TaskAt PROVE named(i)
  <2>1. trace[i].message.action = "navigate_get" BY <1>0, <1>8, EntryIs DEF LoginAt, TaskAt
  <2> QED BY <1>3, <2>1, StepIs
<1>9. \A i \in LoginAt \cup TaskAt : i \in DOMAIN trace BY DEF LoginAt, TaskAt
<1> HIDE DEF named
<1>10. Result!Builds(r) <=> \A i \in DOMAIN trace : named(i)
  BY <1>1, <1>2, <1>5, <1>7, <1>8, <1>9 DEF Result!Builds
<1> QED BY <1>10 DEF named

\* The steps of the two profiles.
LEMMA LoginIs ==
    ASSUME TypeInv, NEW typed, NEW r, r = Request(typed),
           NEW login, login = Result!Authentication(r)
    PROVE  /\ LoginAt \in SUBSET (1..Len(trace)) /\ Len(trace) \in Nat
           /\ Cardinality(LoginAt) \in Nat
           /\ DOMAIN login.steps = 1..Cardinality(LoginAt) + 1
           /\ Len(login.steps) = Cardinality(LoginAt) + 1
           /\ login.steps[1] = Result!Initial(r)
           /\ \A i \in LoginAt : /\ Rank(LoginAt, i) \in 1..Cardinality(LoginAt)
                                 /\ login.steps[Rank(LoginAt, i) + 1] = Result!ProfileStep(StepOf(i))
           /\ \A q \in DOMAIN login.steps :
                 q = 1 \/ \E i \in LoginAt : Rank(LoginAt, i) + 1 = q
           /\ login.ends = authProof.ctx
           /\ login.contexts = Result!SelectContexts(r.contexts,
                 {authProof.ctx} \cup Result!NamedIn(Result!AuthenticationSteps(r)))
<1> DEFINE steps == Result!AuthenticationSteps(r)
           k == Cardinality(LoginAt)
           first == <<Result!Initial(r)>>
           rest == Result!ProfileSteps(steps)
<1>1. Selects(steps, LoginAt) BY StepsAre
<1>2. /\ LoginAt \in SUBSET (1..Len(trace)) /\ Len(trace) \in Nat /\ k \in Nat
      /\ \A i \in LoginAt : Rank(LoginAt, i) \in 1..k
  BY <1>1, Ranks DEF Selects
<1>3. /\ login.steps = first \o rest
      /\ login.ends = authProof.ctx
      /\ login.contexts = Result!SelectContexts(r.contexts, {authProof.ctx} \cup Result!NamedIn(steps))
  BY RequestIs DEF Result!Authentication
<1>4. rest = [q \in 1..k |-> Result!ProfileStep(steps[q])]
  BY <1>1 DEF Result!ProfileSteps, Selects
<1> HIDE DEF steps, k, rest
<1> DEFINE Any == {Result!ProfileStep(steps[q]) : q \in 1..k} \cup {Result!Initial(r)}
<1>5. rest \in Seq(Any) /\ Len(rest) = k BY <1>2, <1>4
<1>6. first \in Seq(Any) /\ Len(first) = 1 /\ first[1] = Result!Initial(r) OBVIOUS
<1> HIDE DEF first, Any
<1>7. /\ Len(login.steps) = k + 1 /\ DOMAIN login.steps = 1..k + 1
      /\ login.steps[1] = Result!Initial(r)
      /\ \A q \in 1..k : login.steps[q + 1] = rest[q]
  <2>1. /\ first \o rest \in Seq(Any) /\ Len(first \o rest) = 1 + k
        /\ \A i \in 1..1 + k : (first \o rest)[i] = IF i <= 1 THEN first[i] ELSE rest[i - 1]
    <3>1. /\ first \o rest \in Seq(Any) /\ Len(first \o rest) = Len(first) + Len(rest)
          /\ \A i \in 1..Len(first) + Len(rest) :
                (first \o rest)[i] = IF i <= Len(first) THEN first[i] ELSE rest[i - Len(first)]
      BY <1>5, <1>6, ConcatProperties, Zenon
    <3>2. Len(first) = 1 /\ Len(rest) = k BY <1>5, <1>6
    <3> QED BY <3>1, <3>2, Zenon
  <2>2. 1 \in 1..1 + k /\ 1 + k = k + 1 BY <1>2
  <2>3. (first \o rest)[1] = Result!Initial(r) BY <1>6, <2>1, <2>2
  <2>4. ASSUME NEW q \in 1..k PROVE (first \o rest)[q + 1] = rest[q]
    <3>1. q + 1 \in 1..1 + k /\ ~(q + 1 <= 1) /\ (q + 1) - 1 = q BY <1>2, <2>4
    <3> QED BY <2>1, <3>1
  <2>5. DOMAIN (first \o rest) = 1..k + 1 BY <2>1, <2>2
  <2> QED BY <1>3, <2>1, <2>2, <2>3, <2>4, <2>5
<1>8. \A i \in LoginAt : login.steps[Rank(LoginAt, i) + 1] = Result!ProfileStep(StepOf(i))
  BY <1>1, <1>2, <1>4, <1>7 DEF Selects
<1>9. \A q \in DOMAIN login.steps : q = 1 \/ \E i \in LoginAt : Rank(LoginAt, i) + 1 = q
  <2>1. ASSUME NEW q \in 1..k + 1, q # 1 PROVE \E i \in LoginAt : Rank(LoginAt, i) + 1 = q
    <3>1. q - 1 \in 1..k BY <1>2, <2>1
    <3>2. PICK i \in LoginAt : Rank(LoginAt, i) = q - 1 BY <1>1, <3>1 DEF Selects, k
    <3> QED BY <2>1, <3>2
  <2> QED BY <1>7, <2>1
<1> QED BY <1>2, <1>3, <1>7, <1>8, <1>9 DEF k, steps

LEMMA TaskIs ==
    ASSUME TypeInv, NEW typed, NEW r, r = Request(typed),
           NEW task, task = Result!Capability(r)
    PROVE  /\ TaskAt \in SUBSET (1..Len(trace)) /\ Len(trace) \in Nat
           /\ Cardinality(TaskAt) \in Nat
           /\ DOMAIN task.steps = 1..Cardinality(TaskAt) /\ Len(task.steps) = Cardinality(TaskAt)
           /\ \A i \in TaskAt : /\ Rank(TaskAt, i) \in 1..Cardinality(TaskAt)
                                /\ task.steps[Rank(TaskAt, i)] = Result!ProfileStep(StepOf(i))
           /\ \A q \in DOMAIN task.steps : \E i \in TaskAt : Rank(TaskAt, i) = q
           /\ task.ends = GoalContext
           /\ task.contexts = Result!SelectContexts(r.contexts,
                 {GoalContext} \cup Result!NamedIn(Result!CapabilitySteps(r)))
<1> DEFINE steps == Result!CapabilitySteps(r)
           k == Cardinality(TaskAt)
<1>1. Selects(steps, TaskAt) BY StepsAre
<1>2. /\ TaskAt \in SUBSET (1..Len(trace)) /\ Len(trace) \in Nat /\ k \in Nat
      /\ \A i \in TaskAt : Rank(TaskAt, i) \in 1..k
  BY <1>1, Ranks DEF Selects
<1>3. /\ task.steps = Result!ProfileSteps(steps)
      /\ task.ends = GoalContext
      /\ task.contexts = Result!SelectContexts(r.contexts, {GoalContext} \cup Result!NamedIn(steps))
  BY RequestIs DEF Result!Capability
<1>4. task.steps = [q \in 1..k |-> Result!ProfileStep(steps[q])]
  BY <1>1, <1>3 DEF Result!ProfileSteps, Selects
<1> HIDE DEF steps
<1>5. Len(task.steps) = k /\ DOMAIN task.steps = 1..k BY <1>2, <1>4
<1>6. \A i \in TaskAt : task.steps[Rank(TaskAt, i)] = Result!ProfileStep(StepOf(i))
  BY <1>1, <1>2, <1>4 DEF Selects
<1>7. \A q \in DOMAIN task.steps : \E i \in TaskAt : Rank(TaskAt, i) = q
  BY <1>1, <1>5 DEF Selects
<1> QED BY <1>2, <1>3, <1>5, <1>6, <1>7 DEF steps

\* A profile that selects the contexts it names declares them.
LEMMA Declared ==
    ASSUME ContextsInv, NEW typed, NEW r, r = Request(typed), NEW profile, NEW ids,
           profile.contexts = Result!SelectContexts(r.contexts, ids),
           \A id \in Result!NamedIn(profile.steps) \cup {profile.ends} :
              id \in {"main", None} \/ (id \in ids /\ KnownContext(id))
    PROVE  Result!Declares(profile, r.contexts)
<1>1. ASSUME NEW id \in (Result!NamedIn(profile.steps) \cup {profile.ends}) \ {"main", None}
      PROVE  id \in profile.contexts /\ Result!Ancestry(r.contexts, id) \subseteq profile.contexts
  <2>1. id \in ids /\ KnownContext(id) /\ id # "main" OBVIOUS
  <2>2. Result!Ancestry(r.contexts, id) = Lineage(id) BY <2>1, GraphIs
  <2>3. Lineage(id) \in SUBSET DOMAIN r.contexts BY <2>1, GraphIs, LineageIsKnown
  <2>4. id \in Lineage(id) BY <2>1 DEF Lineage
  <2>5. Result!Ancestry(r.contexts, id) \subseteq profile.contexts
    BY <2>1, <2>2, <2>3 DEF Result!SelectContexts
  <2> QED BY <2>2, <2>4, <2>5
<1> QED BY <1>1 DEF Result!Declares

\* What the steps at the positions P name is known.
LEMMA NamedKnown ==
    ASSUME TypeInv, KnownInv, OpenerInv, NEW i \in DOMAIN trace
    PROVE  /\ KnownContext(StepOf(i).ctx)
           /\ StepOf(i).opens # None => KnownContext(StepOf(i).opens)
<1>1. i # 0 BY DEF TypeInv, TypeOK
<1>2. KnownContext(StepOf(i).ctx) BY StepIs DEF KnownInv
<1>3. ASSUME StepOf(i).opens # None PROVE KnownContext(StepOf(i).opens)
  <2>1. StepOf(i).opens \in Child /\ opener[StepOf(i).opens] = i BY <1>1, <1>3, OpensIs
  <2> QED BY <1>1, <2>1 DEF OpenerInv, KnownContext
<1> QED BY <1>2, <1>3

LEMMA ProfilesDeclare ==
    ASSUME PromotionInv, phase = "completed", NEW typed, NEW r, r = Request(typed)
    PROVE  /\ Result!Declares(Result!Authentication(r), r.contexts)
           /\ Result!Declares(Result!Capability(r), r.contexts)
<1>1. TypeInv /\ ContextsInv /\ KnownInv /\ OpenerInv BY DEF PromotionInv
<1>2. goalProof # None /\ authProof # None /\ goalProof.ctx = GoalContext
  BY DEF PromotionInv, EvidenceInv, EvidenceIsCurrent, CompletionInv
<1>3. KnownContext(authProof.ctx) /\ KnownContext(GoalContext) BY <1>1, <1>2 DEF KnownInv
<1>4. ASSUME NEW steps, NEW P, Selects(steps, P), NEW i \in P
      PROVE  /\ StepOf(i).ctx \in Result!NamedIn(steps) /\ StepOf(i).opens \in Result!NamedIn(steps)
             /\ KnownContext(StepOf(i).ctx)
             /\ StepOf(i).opens # None => KnownContext(StepOf(i).opens)
  <2>1. i \in DOMAIN trace BY <1>1, <1>4 DEF Selects, TypeInv, TypeOK
  <2> QED BY <1>1, <1>4, <2>1, NamedKnown DEF Selects, Result!NamedIn
<1>5. Result!Declares(Result!Authentication(r), r.contexts)
  <2> DEFINE login == Result!Authentication(r)
             ids == {authProof.ctx} \cup Result!NamedIn(Result!AuthenticationSteps(r))
  <2>1. Selects(Result!AuthenticationSteps(r), LoginAt) BY <1>1, StepsAre
  <2>2. ASSUME NEW q \in DOMAIN login.steps
        PROVE  /\ login.steps[q].ctx = "main" \/ (login.steps[q].ctx \in ids /\ KnownContext(login.steps[q].ctx))
               /\ login.steps[q].opens = None \/ (login.steps[q].opens \in ids /\ KnownContext(login.steps[q].opens))
    <3>1. CASE q = 1
      <4>1. login.steps[q] = Result!Initial(r) BY <1>1, <3>1, LoginIs
      <4> HIDE DEF login, ids
      <4>2. login.steps[q].ctx = "main" /\ login.steps[q].opens = None BY <4>1 DEF Result!Initial
      <4> QED BY <4>2
    <3>2. CASE q # 1
      <4>1. PICK i \in LoginAt : Rank(LoginAt, i) + 1 = q BY <1>1, <3>2, LoginIs
      <4>2. login.steps[q] = Result!ProfileStep(StepOf(i)) BY <1>1, <4>1, LoginIs
      <4>3. login.steps[q].ctx = StepOf(i).ctx /\ login.steps[q].opens = StepOf(i).opens
        BY <4>2 DEF Result!ProfileStep
      <4> QED BY <1>4, <2>1, <4>1, <4>3
    <3> QED BY <3>1, <3>2
  <2>3. login.ends \in ids /\ KnownContext(login.ends) BY <1>1, <1>3, LoginIs
  <2>4. login.contexts = Result!SelectContexts(r.contexts, ids) BY <1>1, LoginIs
  <2> HIDE DEF login, ids
  <2>5. \A id \in Result!NamedIn(login.steps) \cup {login.ends} :
           id \in {"main", None} \/ (id \in ids /\ KnownContext(id))
    BY <2>2, <2>3 DEF Result!NamedIn
  <2> QED BY <1>1, <2>4, <2>5, Declared DEF login
<1>6. Result!Declares(Result!Capability(r), r.contexts)
  <2> DEFINE task == Result!Capability(r)
             ids == {GoalContext} \cup Result!NamedIn(Result!CapabilitySteps(r))
  <2>1. Selects(Result!CapabilitySteps(r), TaskAt) BY <1>1, StepsAre
  <2>2. ASSUME NEW q \in DOMAIN task.steps
        PROVE  /\ task.steps[q].ctx \in ids /\ KnownContext(task.steps[q].ctx)
               /\ task.steps[q].opens = None \/ (task.steps[q].opens \in ids /\ KnownContext(task.steps[q].opens))
    <3>1. PICK i \in TaskAt : Rank(TaskAt, i) = q BY <1>1, TaskIs
    <3>2. task.steps[q] = Result!ProfileStep(StepOf(i)) BY <1>1, <3>1, TaskIs
    <3>3. task.steps[q].ctx = StepOf(i).ctx /\ task.steps[q].opens = StepOf(i).opens
      BY <3>2 DEF Result!ProfileStep
    <3> QED BY <1>4, <2>1, <3>1, <3>3
  <2>3. task.ends \in ids /\ KnownContext(task.ends) BY <1>1, <1>3, TaskIs
  <2>4. task.contexts = Result!SelectContexts(r.contexts, ids) BY <1>1, TaskIs
  <2> HIDE DEF task, ids
  <2>5. \A id \in Result!NamedIn(task.steps) \cup {task.ends} :
           id \in {"main", None} \/ (id \in ids /\ KnownContext(id))
    BY <2>2, <2>3 DEF Result!NamedIn
  <2> QED BY <1>1, <2>4, <2>5, Declared DEF task
<1> QED BY <1>5, <1>6

\* A popup that a step of the authentication phase has opened was opened by the
\* authentication profile's own click.
LEMMA LoginOpens ==
    ASSUME PromotionInv, TopologyHolds, NEW typed, NEW r, r = Request(typed),
           NEW login, login = Result!Authentication(r),
           NEW c \in Known(contexts), c \in Popup, trace[opener[c]].phase = "authentication"
    PROVE  /\ opener[c] \in LoginAt
           /\ Rank(LoginAt, opener[c]) + 1 \in DOMAIN login.steps
           /\ login.steps[Rank(LoginAt, opener[c]) + 1].opens = c
<1> DEFINE i == opener[c]
<1>1. TypeInv /\ OpenerInv BY DEF PromotionInv
<1>2. i \in DOMAIN trace /\ IsClick(trace[i].message) BY DEF TopologyHolds
<1>3. i \in LoginAt BY <1>2 DEF LoginAt, IsClick
<1>4. i # 0 /\ c \in Child BY <1>1, <1>2 DEF TypeInv, TypeOK, Known
<1>5. StepOf(i).opens = c BY <1>1, <1>2, <1>4, OpensIs
<1>6. login.steps[Rank(LoginAt, i) + 1] = Result!ProfileStep(StepOf(i)) BY <1>1, <1>3, LoginIs
<1>7. Result!ProfileStep(StepOf(i)).opens = c BY <1>5 DEF Result!ProfileStep
<1>8. Rank(LoginAt, i) + 1 \in 1..Cardinality(LoginAt) + 1
  <2>1. Rank(LoginAt, i) \in 1..Cardinality(LoginAt) /\ Cardinality(LoginAt) \in Nat
    BY <1>1, <1>3, LoginIs
  <2> QED BY <2>1
<1> QED BY <1>1, <1>3, <1>6, <1>7, <1>8, LoginIs

\* The popups a profile needs in a context.
PopupsOf(graph, ctx) ==
    {c \in Result!Ancestry(graph, ctx) \cap DOMAIN graph : graph[c].kind = "popup"}

LEMMA PopupsAre ==
    ASSUME ContextsInv, NEW typed, NEW r, r = Request(typed), NEW ctx, KnownContext(ctx)
    PROVE  PopupsOf(r.contexts, ctx) = {c \in Lineage(ctx) : c \in Popup}
<1>1. Result!Ancestry(r.contexts, ctx) = Lineage(ctx) BY GraphIs
<1>2. Lineage(ctx) \in SUBSET Known(contexts) BY LineageIsKnown
<1>3. DOMAIN r.contexts = Known(contexts) BY GraphIs
<1>4. \A c \in Known(contexts) : r.contexts[c].kind = "popup" <=> c \in Popup BY GraphIs
<1> QED BY <1>1, <1>2, <1>3, <1>4 DEF PopupsOf

\* The authentication profile opens every popup it uses.
LEMMA LoginOpensItsPopups ==
    ASSUME PromotionInv, TopologyHolds, phase = "completed", NEW typed, NEW r, r = Request(typed),
           NEW login, login = Result!Authentication(r)
    PROVE  Result!OpensItsPopups(login, r.contexts)
<1> DEFINE steps == login.steps
<1>1. TypeInv /\ ContextsInv /\ KnownInv /\ OpenerInv /\ OrderInv BY DEF PromotionInv
<1>2. authProof # None BY DEF PromotionInv, EvidenceInv, EvidenceIsCurrent, CompletionInv
<1>3. KnownContext(authProof.ctx) BY <1>1, <1>2 DEF KnownInv
<1>4. /\ LoginAt \in SUBSET (1..Len(trace)) /\ Len(trace) \in Nat /\ Cardinality(LoginAt) \in Nat
      /\ \A i \in LoginAt : Rank(LoginAt, i) \in 1..Cardinality(LoginAt)
      /\ DOMAIN steps = 1..Cardinality(LoginAt) + 1 /\ Len(steps) = Cardinality(LoginAt) + 1
  BY <1>1, LoginIs
<1>5. \A i, j \in LoginAt : i < j => Rank(LoginAt, i) < Rank(LoginAt, j) BY <1>4, Ranks
<1>6. ASSUME NEW q \in DOMAIN steps
      PROVE  PopupsOf(r.contexts, steps[q].ctx) \in SUBSET Result!Opened(steps, q - 1)
  <2>1. CASE q = 1
    <3>1. steps[q] = Result!Initial(r) BY <1>1, <2>1, LoginIs
    <3>2. steps[q].ctx = "main" BY <3>1 DEF Result!Initial
    <3>3. KnownContext("main") /\ Lineage("main") = {} BY DEF KnownContext, Lineage, Above
    <3>4. PopupsOf(r.contexts, "main") = {} BY <1>1, <3>3, PopupsAre
    <3> QED BY <3>2, <3>4
  <2>2. CASE q # 1
    <3>1. PICK i \in LoginAt : Rank(LoginAt, i) + 1 = q BY <1>1, <2>2, LoginIs
    <3>2. steps[q] = Result!ProfileStep(StepOf(i)) BY <1>1, <3>1, LoginIs
    <3>3. steps[q].ctx = ContextOf(trace[i].message) BY <3>2, StepIs DEF Result!ProfileStep
    <3>4. i \in DOMAIN trace /\ trace[i].phase = "authentication" BY DEF LoginAt
    <3>5. KnownContext(ContextOf(trace[i].message)) BY <1>1, <3>4 DEF KnownInv
    <3>6. ASSUME NEW c \in Lineage(ContextOf(trace[i].message)), c \in Popup
          PROVE  c \in Result!Opened(steps, q - 1)
      <4>1. c \in Known(contexts) BY <1>1, <3>5, <3>6, LineageIsKnown
      <4>2. opener[c] \in DOMAIN trace /\ opener[c] < i
        BY <1>1, <3>4, <3>6, <4>1 DEF TopologyHolds, OpenerInv
      <4>3. trace[opener[c]].phase = "authentication" BY <1>1, <3>4, <4>2 DEF OrderInv
      <4>4. /\ opener[c] \in LoginAt
            /\ steps[Rank(LoginAt, opener[c]) + 1].opens = c
        BY <3>6, <4>1, <4>3, LoginOpens
      <4>5. Rank(LoginAt, opener[c]) < Rank(LoginAt, i) BY <1>5, <4>2, <4>4
      <4>6. Rank(LoginAt, opener[c]) + 1 \in 1..q - 1
        <5>1. /\ Rank(LoginAt, opener[c]) \in 1..Cardinality(LoginAt)
              /\ Rank(LoginAt, i) \in 1..Cardinality(LoginAt)
          BY <1>4, <4>4
        <5> QED BY <1>4, <3>1, <4>5, <5>1
      <4> QED BY <4>4, <4>6 DEF Result!Opened
    <3>7. PopupsOf(r.contexts, steps[q].ctx) = {c \in Lineage(ContextOf(trace[i].message)) : c \in Popup}
      BY <1>1, <3>3, <3>5, PopupsAre
    <3> QED BY <3>6, <3>7
  <2> QED BY <2>1, <2>2
<1>7. PopupsOf(r.contexts, login.ends) \in SUBSET Result!Opened(steps, Len(steps))
  <2>1. login.ends = authProof.ctx BY <1>1, LoginIs
  <2>2. PopupsOf(r.contexts, login.ends) = {c \in Lineage(authProof.ctx) : c \in Popup}
    BY <1>1, <1>3, <2>1, PopupsAre
  <2>3. ASSUME NEW c \in Lineage(authProof.ctx), c \in Popup
        PROVE  c \in Result!Opened(steps, Len(steps))
    <3>1. c \in Known(contexts) BY <1>1, <1>3, <2>3, LineageIsKnown
    <3>2. opener[c] \in DOMAIN trace BY <2>3, <3>1 DEF TopologyHolds
    <3>3. opener[c] # 0 BY <1>1, <3>2 DEF TypeInv, TypeOK
    <3>4. trace[opener[c]].phase = "authentication" BY <1>1, <1>2, <2>3, <3>3 DEF OpenerInv
    <3>5. /\ Rank(LoginAt, opener[c]) + 1 \in DOMAIN steps
          /\ steps[Rank(LoginAt, opener[c]) + 1].opens = c
      BY <2>3, <3>1, <3>4, LoginOpens
    <3> QED BY <1>4, <3>5 DEF Result!Opened
  <2> QED BY <2>2, <2>3
<1> HIDE DEF steps
<1> QED BY <1>6, <1>7 DEF Result!OpensItsPopups, PopupsOf, steps

ProfileClicks(steps) == {q \in DOMAIN steps : IsProfileClick(steps[q])}
BrowserClicks(messages) == {q \in DOMAIN messages : IsClick(messages[q])}
SameControls(steps, f, messages, g, T) == \A i \in T : steps[f[i]].on = messages[g[i]].cand.shape

\* The clicks of two sequences are the same if the same clicks were made into
\* both, in order.
LEMMA SameClicked ==
    ASSUME NEW n \in Nat, NEW T \in SUBSET (1..n),
           NEW m, NEW f, Rising(f, T, m), NEW p, NEW g, Rising(g, T, p),
           NEW steps, Stands(ProfileClicks(steps), f, T),
           NEW messages, Stands(BrowserClicks(messages), g, T),
           SameControls(steps, f, messages, g, T)
    PROVE  ClicksOf(steps) = Clicked(messages)
<1> DEFINE k == Cardinality(T)
           A == Result!Only(steps, ProfileClicks(steps))
           B == Result!Only(messages, BrowserClicks(messages))
<1>1. Reads(A, steps, f, T) BY OnlyImage
<1>2. Reads(B, messages, g, T) BY OnlyImage
<1>3. ASSUME NEW q \in 1..k PROVE Result!Nth(T, q) \in T
  <2>1. PICK i \in T : Rank(T, i) = q BY Ranks
  <2> QED BY <2>1, OnlyHas
<1> HIDE DEF k, A, B
<1>4. [q \in DOMAIN A |-> A[q].on] = [q \in DOMAIN B |-> B[q].cand.shape]
  BY <1>1, <1>2, <1>3 DEF SameControls, Reads, k
<1> QED BY <1>4 DEF ClicksOf, Controls, Clicked, A, B, ProfileClicks, BrowserClicks

\* Two sets with nothing in common count together.
LEMMA Joined ==
    ASSUME NEW S, IsFiniteSet(S), NEW T, IsFiniteSet(T), \A i \in S : i \notin T,
           NEW U, U = S \cup T
    PROVE  Cardinality(U) = Cardinality(S) + Cardinality(T)
<1>1. S \cap T = {} OBVIOUS
<1>2. Cardinality(S \cap T) = 0 BY <1>1, FS_EmptySet
<1>3. Cardinality(S) \in Nat /\ Cardinality(T) \in Nat BY FS_CardinalityType
<1>4. Cardinality(U) = Cardinality(S) + Cardinality(T) - Cardinality(S \cap T) BY FS_Union
<1> QED BY <1>2, <1>3, <1>4

\* What a sequence has after its first positions.
Follows(rest, p, a, n) ==
    Len(rest) = n /\ DOMAIN rest = 1..n /\ \A k \in 1..n : rest[k] = p[a + k]

LEMMA RestOf ==
    ASSUME NEW S, NEW p \in Seq(S), NEW a \in Nat, NEW n \in Nat, Len(p) = a + n,
           NEW rest, rest = SubSeq(p, a + 1, Len(p))
    PROVE  Follows(rest, p, a, n)
<1> DEFINE b == a + 1
           q == a + n
<1>1. /\ b \in Int /\ q \in Int /\ q - b + 1 = n /\ (IF b <= q THEN q - b + 1 ELSE 0) = n
      /\ \A i \in b..q : p[i] \in S
  OBVIOUS
<1>2. rest = SubSeq(p, b, q) OBVIOUS
<1>3. \A k \in 1..n : b + k - 1 = a + k OBVIOUS
<1> HIDE DEF b, q
<1>4. /\ SubSeq(p, b, q) \in Seq(S)
      /\ Len(SubSeq(p, b, q)) = IF b <= q THEN q - b + 1 ELSE 0
      /\ \A i \in 1..q - b + 1 : SubSeq(p, b, q)[i] = p[b + i - 1]
  BY <1>1, SubSeqProperties
<1>5. rest \in Seq(S) /\ Len(rest) = n BY <1>1, <1>2, <1>4
<1>6. \A k \in 1..n : rest[k] = p[b + k - 1] BY <1>1, <1>2, <1>4
<1> QED BY <1>3, <1>5, <1>6 DEF Follows

\* The acts up to the dashboard, and those since.
LEMMA ActsSplit ==
    ASSUME PromotionInv, phase = "completed", NEW at, at = authProof.at
    PROVE  /\ at \in Nat /\ Cardinality(TaskAt) \in Nat
           /\ performed \in Seq(Message) /\ Len(performed) = at + Cardinality(TaskAt)
           /\ ActsBefore \in SUBSET (1..Len(trace)) /\ Len(trace) \in Nat
           /\ at = Cardinality(ActsBefore)
           /\ \A i \in ActsBefore : performed[Rank(ActsBefore, i)] = trace[i].message
           /\ TaskAt \in SUBSET (1..Len(trace))
           /\ \A i \in TaskAt : performed[at + Rank(TaskAt, i)] = trace[i].message
<1>1. TypeInv /\ OrderInv /\ TallyInv BY DEF PromotionInv
<1>2. authProof # None BY DEF PromotionInv, EvidenceInv, EvidenceIsCurrent, CompletionInv
<1>3. /\ Len(performed) = Cardinality(ActsAt) /\ Tells(performed, Told, ActsAt)
      /\ at = Cardinality(ActsBefore)
  BY <1>1, <1>2 DEF TallyInv
<1>4. DOMAIN trace = 1..Len(trace) /\ Len(trace) \in Nat /\ performed \in Seq(Message)
  BY <1>1 DEF TypeInv, TypeOK
<1>5. \A i \in DOMAIN trace : /\ i \in Int
                              /\ trace[i].phase \in {"authentication", "exploration"}
  BY <1>1, <1>4, EntryIs
<1>6. \A i \in TaskAt : trace[i].message.action # "focus_human_input"
  BY <1>1 DEF OrderInv, TaskAt
<1>7. /\ ActsBefore \in SUBSET (1..Len(trace)) /\ TaskAt \in SUBSET (1..Len(trace))
      /\ ActsAt \in SUBSET (1..Len(trace))
  BY <1>4 DEF ActsBefore, TaskAt, ActsAt
<1>8. /\ IsFiniteSet(ActsBefore) /\ Cardinality(ActsBefore) \in Nat
      /\ IsFiniteSet(TaskAt) /\ Cardinality(TaskAt) \in Nat
      /\ \A i \in TaskAt : Rank(TaskAt, i) \in 1..Cardinality(TaskAt)
  BY <1>4, <1>7, Ranks
<1>9. ActsAt = ActsBefore \cup TaskAt BY <1>5, <1>6 DEF ActsBefore, TaskAt, ActsAt
<1>10. \A i \in ActsBefore : i \notin TaskAt BY DEF ActsBefore, TaskAt
<1>11. \A i \in ActsBefore : \A j \in TaskAt : i < j
  <2>1. ASSUME NEW i \in ActsBefore, NEW j \in TaskAt PROVE i < j
    <3>1. /\ i \in DOMAIN trace /\ j \in DOMAIN trace
          /\ trace[i].phase = "authentication" /\ trace[j].phase = "exploration"
      BY DEF ActsBefore, ActsAt, TaskAt
    <3>2. ~(j < i) /\ i # j BY <1>1, <3>1 DEF OrderInv
    <3> QED BY <1>5, <3>1, <3>2
  <2> QED BY <2>1
<1>12. Cardinality(ActsAt) = Cardinality(ActsBefore) + Cardinality(TaskAt)
  BY <1>8, <1>9, <1>10, Joined
<1>13. ASSUME NEW i \in ActsBefore PROVE performed[Rank(ActsBefore, i)] = trace[i].message
  <2>1. Upto(ActsAt, i) = Upto(ActsBefore, i)
    <3>1. \A j \in TaskAt : ~(j <= i)
      <4>1. ASSUME NEW j \in TaskAt PROVE ~(j <= i)
        <5>1. i < j /\ i \in Int /\ j \in Int BY <1>4, <1>7, <1>11
        <5> QED BY <5>1
      <4> QED BY <4>1
    <3> QED BY <1>9, <3>1 DEF Upto
  <2>2. i \in ActsAt /\ i \in DOMAIN trace BY DEF ActsBefore, ActsAt
  <2>3. performed[Cardinality(Upto(ActsAt, i))] = Told[i] BY <1>3, <2>2 DEF Tells, Upto
  <2> QED BY <2>1, <2>2, <2>3 DEF Told, Rank
<1>14. ASSUME NEW i \in TaskAt PROVE performed[at + Rank(TaskAt, i)] = trace[i].message
  <2>1. Upto(ActsAt, i) = ActsBefore \cup Upto(TaskAt, i)
    <3>1. \A j \in ActsBefore : j <= i
      <4>1. ASSUME NEW j \in ActsBefore PROVE j <= i
        <5>1. j < i /\ i \in Int /\ j \in Int BY <1>4, <1>7, <1>11
        <5> QED BY <5>1
      <4> QED BY <4>1
    <3> QED BY <1>9, <3>1 DEF Upto
  <2>2. Upto(TaskAt, i) \in SUBSET TaskAt BY DEF Upto
  <2>3. IsFiniteSet(Upto(TaskAt, i)) BY <1>8, <2>2, FS_Subset
  <2>4. \A j \in ActsBefore : j \notin Upto(TaskAt, i) BY <1>10, <2>2
  <2>5. Cardinality(Upto(ActsAt, i)) = Cardinality(ActsBefore) + Cardinality(Upto(TaskAt, i))
    BY <1>8, <2>1, <2>3, <2>4, Joined
  <2>6. i \in ActsAt /\ i \in DOMAIN trace BY <1>9 DEF TaskAt
  <2>7. performed[Cardinality(Upto(ActsAt, i))] = Told[i] BY <1>3, <2>6 DEF Tells, Upto
  <2> QED BY <1>3, <2>5, <2>6, <2>7 DEF Told, Rank
<1> QED BY <1>3, <1>4, <1>7, <1>8, <1>12, <1>13, <1>14

\* The authentication profile has the clicks up to the dashboard.
LEMMA LoginClicks ==
    ASSUME PromotionInv, phase = "completed", NEW typed, NEW r, r = Request(typed),
           NEW login, login = Result!Authentication(r),
           NEW before, before = SubSeq(performed, 1, authProof.at)
    PROVE  ClicksOf(login.steps) = Clicked(before)
<1> DEFINE T == {i \in LoginAt : trace[i].message.action = "click"}
           n == Cardinality(LoginAt)
           at == authProof.at
           f == [i \in T |-> Rank(LoginAt, i) + 1]
           g == [i \in T |-> Rank(ActsBefore, i)]
           steps == login.steps
<1>1. TypeInv BY DEF PromotionInv
<1>2. /\ at \in Nat /\ Cardinality(TaskAt) \in Nat
      /\ performed \in Seq(Message) /\ Len(performed) = at + Cardinality(TaskAt)
      /\ ActsBefore \in SUBSET (1..Len(trace)) /\ Len(trace) \in Nat
      /\ at = Cardinality(ActsBefore)
      /\ \A i \in ActsBefore : performed[Rank(ActsBefore, i)] = trace[i].message
  BY ActsSplit
<1>3. /\ LoginAt \in SUBSET (1..Len(trace)) /\ n \in Nat
      /\ DOMAIN steps = 1..n + 1
      /\ steps[1] = Result!Initial(r)
      /\ \A i \in LoginAt : /\ Rank(LoginAt, i) \in 1..n
                            /\ steps[Rank(LoginAt, i) + 1] = Result!ProfileStep(StepOf(i))
      /\ \A q \in DOMAIN steps : q = 1 \/ \E i \in LoginAt : Rank(LoginAt, i) + 1 = q
  BY <1>1, LoginIs
<1>4. /\ \A i, j \in LoginAt : i < j => Rank(LoginAt, i) < Rank(LoginAt, j)
      /\ \A i, j \in ActsBefore : i < j => Rank(ActsBefore, i) < Rank(ActsBefore, j)
      /\ \A i \in ActsBefore : Rank(ActsBefore, i) \in 1..at
      /\ \A k \in 1..at : \E i \in ActsBefore : Rank(ActsBefore, i) = k
  BY <1>2, <1>3, Ranks
<1>5. \A i \in T : i \in LoginAt /\ i \in ActsBefore /\ IsClick(trace[i].message)
  BY DEF LoginAt, ActsBefore, ActsAt, IsClick
<1>6. \A i \in ActsBefore : IsClick(trace[i].message) => i \in T
  BY DEF LoginAt, ActsBefore, ActsAt, IsClick
<1>7. before \in Seq(Message) /\ Len(before) = at /\ \A k \in 1..at : before[k] = performed[k]
  BY <1>2
<1>8. DOMAIN before = 1..at BY <1>7
<1>9. /\ f \in [T -> 1..n + 1] /\ g \in [T -> 1..at] /\ T \in SUBSET (1..Len(trace))
      /\ n + 1 \in Nat
  <2>1. \A i \in T : Rank(LoginAt, i) + 1 \in 1..n + 1 BY <1>3, <1>5
  <2>2. \A i \in T : Rank(ActsBefore, i) \in 1..at BY <1>4, <1>5
  <2>3. T \in SUBSET (1..Len(trace)) BY <1>3
  <2> QED BY <1>3, <2>1, <2>2, <2>3
<1>10. \A i \in T : f[i] = Rank(LoginAt, i) + 1 /\ g[i] = Rank(ActsBefore, i) OBVIOUS
<1>11. ASSUME NEW i \in T
       PROVE  /\ steps[f[i]].do = "click" /\ steps[f[i]].on = trace[i].message.cand.shape
              /\ before[g[i]] = trace[i].message
  <2>1. steps[f[i]] = Result!ProfileStep(StepOf(i)) BY <1>3, <1>5, <1>10
  <2>2. StepOf(i).do = "click" /\ StepOf(i).on = trace[i].message.cand.shape BY <1>5, StepIs DEF IsClick
  <2>3. steps[f[i]].do = "click" /\ steps[f[i]].on = trace[i].message.cand.shape
    BY <2>1, <2>2 DEF Result!ProfileStep
  <2>4. before[g[i]] = trace[i].message BY <1>2, <1>4, <1>5, <1>7, <1>10
  <2> QED BY <2>3, <2>4
<1>12. ASSUME NEW q \in DOMAIN steps, IsProfileClick(steps[q]) PROVE \E i \in T : q = f[i]
  <2>1. q # 1
    <3>1. CASE q = 1
      <4>1. steps[q].do = "navigate" BY <1>3, <3>1 DEF Result!Initial
      <4> QED BY <1>12, <4>1 DEF IsProfileClick
    <3> QED BY <3>1
  <2>2. PICK i \in LoginAt : Rank(LoginAt, i) + 1 = q BY <1>3, <2>1
  <2>3. steps[q].do = StepOf(i).do
    <3>1. steps[q] = Result!ProfileStep(StepOf(i)) BY <1>3, <2>2
    <3>2. Result!ProfileStep(StepOf(i)).do = StepOf(i).do BY DEF Result!ProfileStep
    <3> QED BY <3>1, <3>2
  <2>4. i \in DOMAIN trace BY DEF LoginAt
  <2>5. trace[i].message.action = "click" BY <1>1, <1>12, <2>3, <2>4, EntryIs, StepIs DEF IsProfileClick
  <2> QED BY <1>10, <2>2, <2>5
<1>13. ASSUME NEW q \in DOMAIN before, IsClick(before[q]) PROVE \E i \in T : q = g[i]
  <2>1. PICK i \in ActsBefore : Rank(ActsBefore, i) = q BY <1>4, <1>8
  <2>2. before[q] = trace[i].message BY <1>2, <1>7, <1>8, <2>1
  <2> QED BY <1>6, <1>10, <1>13, <2>1, <2>2
<1>14. \A i, j \in T : i < j => f[i] < f[j] /\ g[i] < g[j]
  <2>1. ASSUME NEW i \in T, NEW j \in T, i < j PROVE f[i] < f[j] /\ g[i] < g[j]
    <3>1. Rank(LoginAt, i) < Rank(LoginAt, j) /\ g[i] < g[j] BY <1>4, <1>5, <1>10, <2>1
    <3>2. Rank(LoginAt, i) \in Int /\ Rank(LoginAt, j) \in Int BY <1>3, <1>5
    <3> QED BY <1>10, <3>1, <3>2
  <2> QED BY <2>1
<1> HIDE DEF T, f, g, n, at, steps
<1>15. {q \in DOMAIN steps : IsProfileClick(steps[q])} = {f[i] : i \in T}
  <2>1. \A i \in T : f[i] \in DOMAIN steps /\ IsProfileClick(steps[f[i]])
    BY <1>3, <1>9, <1>11 DEF IsProfileClick
  <2> QED BY <1>12, <2>1
<1>16. {q \in DOMAIN before : IsClick(before[q])} = {g[i] : i \in T}
  <2>1. \A i \in T : g[i] \in DOMAIN before /\ IsClick(before[g[i]])
    BY <1>5, <1>8, <1>9, <1>11
  <2> QED BY <1>13, <2>1
<1>17. ClicksOf(steps) = Clicked(before)
  <2>1. Rising(f, T, n + 1) /\ Rising(g, T, at) BY <1>2, <1>9, <1>14 DEF Rising
  <2>2. Stands(ProfileClicks(steps), f, T) BY <1>15 DEF Stands, ProfileClicks
  <2>3. Stands(BrowserClicks(before), g, T) BY <1>16 DEF Stands, BrowserClicks
  <2>4. SameControls(steps, f, before, g, T) BY <1>11 DEF SameControls
  <2>5. T \in SUBSET (1..Len(trace)) /\ Len(trace) \in Nat BY <1>2, <1>9
  <2> QED BY <2>1, <2>2, <2>3, <2>4, <2>5, SameClicked
<1> QED BY <1>17 DEF steps

\* The capability profile has every act since, and their clicks.
LEMMA TaskClicks ==
    ASSUME PromotionInv, phase = "completed", NEW typed, NEW r, r = Request(typed),
           NEW task, task = Result!Capability(r),
           NEW after, after = SubSeq(performed, authProof.at + 1, Len(performed))
    PROVE  Len(task.steps) = Len(after) /\ ClicksOf(task.steps) = Clicked(after)
<1> DEFINE T == {i \in TaskAt : trace[i].message.action = "click"}
           n == Cardinality(TaskAt)
           at == authProof.at
           f == [i \in T |-> Rank(TaskAt, i)]
           steps == task.steps
<1>1. TypeInv BY DEF PromotionInv
<1>2. /\ at \in Nat /\ n \in Nat
      /\ performed \in Seq(Message) /\ Len(performed) = at + n
      /\ TaskAt \in SUBSET (1..Len(trace)) /\ Len(trace) \in Nat
      /\ \A i \in TaskAt : performed[at + Rank(TaskAt, i)] = trace[i].message
  BY ActsSplit
<1>3. /\ DOMAIN steps = 1..n /\ Len(steps) = n
      /\ \A i \in TaskAt : /\ Rank(TaskAt, i) \in 1..n
                           /\ steps[Rank(TaskAt, i)] = Result!ProfileStep(StepOf(i))
      /\ \A q \in DOMAIN steps : \E i \in TaskAt : Rank(TaskAt, i) = q
  BY <1>1, TaskIs
<1>4. \A i, j \in TaskAt : i < j => Rank(TaskAt, i) < Rank(TaskAt, j) BY <1>2, Ranks
<1>5. \A i \in T : i \in TaskAt /\ IsClick(trace[i].message) BY DEF IsClick
<1>6. Len(after) = n /\ DOMAIN after = 1..n /\ \A k \in 1..n : after[k] = performed[at + k]
  <2>1. /\ performed \in Seq(Message) /\ at \in Nat /\ n \in Nat /\ Len(performed) = at + n
        /\ after = SubSeq(performed, at + 1, Len(performed))
    BY <1>2
  <2> HIDE DEF at, n
  <2>2. Follows(after, performed, at, n) BY <2>1, RestOf
  <2> QED BY <2>2 DEF Follows
<1>7. f \in [T -> 1..n] /\ T \in SUBSET (1..Len(trace))
  <2>1. \A i \in T : Rank(TaskAt, i) \in 1..n BY <1>3, <1>5
  <2> QED BY <1>2, <2>1
<1>8. \A i \in T : f[i] = Rank(TaskAt, i) OBVIOUS
<1>9. ASSUME NEW i \in TaskAt PROVE after[Rank(TaskAt, i)] = trace[i].message
  BY <1>2, <1>3, <1>6
<1>10. ASSUME NEW i \in T
       PROVE  /\ steps[f[i]].do = "click" /\ steps[f[i]].on = trace[i].message.cand.shape
              /\ after[f[i]] = trace[i].message
  <2>1. steps[f[i]] = Result!ProfileStep(StepOf(i)) BY <1>3, <1>5, <1>8
  <2>2. StepOf(i).do = "click" /\ StepOf(i).on = trace[i].message.cand.shape BY <1>5, StepIs DEF IsClick
  <2>3. steps[f[i]].do = "click" /\ steps[f[i]].on = trace[i].message.cand.shape
    BY <2>1, <2>2 DEF Result!ProfileStep
  <2> QED BY <1>5, <1>8, <1>9, <2>3
<1>11. ASSUME NEW q \in DOMAIN steps, IsProfileClick(steps[q]) PROVE \E i \in T : q = f[i]
  <2>1. PICK i \in TaskAt : Rank(TaskAt, i) = q BY <1>3
  <2>2. steps[q].do = StepOf(i).do
    <3>1. steps[q] = Result!ProfileStep(StepOf(i)) BY <1>3, <2>1
    <3>2. Result!ProfileStep(StepOf(i)).do = StepOf(i).do BY DEF Result!ProfileStep
    <3> QED BY <3>1, <3>2
  <2>3. i \in DOMAIN trace BY DEF TaskAt
  <2>4. trace[i].message.action = "click" BY <1>1, <1>11, <2>2, <2>3, EntryIs, StepIs DEF IsProfileClick
  <2> QED BY <1>8, <2>1, <2>4
<1>12. ASSUME NEW q \in DOMAIN after, IsClick(after[q]) PROVE \E i \in T : q = f[i]
  <2>1. PICK i \in TaskAt : Rank(TaskAt, i) = q BY <1>3, <1>6
  <2>2. after[q] = trace[i].message BY <1>9, <2>1
  <2> QED BY <1>8, <1>12, <2>1, <2>2 DEF IsClick
<1>13. \A i, j \in T : i < j => f[i] < f[j] BY <1>4, <1>5, <1>8
<1> HIDE DEF T, f, n, at, steps
<1>14. {q \in DOMAIN steps : IsProfileClick(steps[q])} = {f[i] : i \in T}
  <2>1. \A i \in T : f[i] \in DOMAIN steps /\ IsProfileClick(steps[f[i]])
    BY <1>3, <1>7, <1>10 DEF IsProfileClick
  <2> QED BY <1>11, <2>1
<1>15. {q \in DOMAIN after : IsClick(after[q])} = {f[i] : i \in T}
  <2>1. \A i \in T : f[i] \in DOMAIN after /\ IsClick(after[f[i]])
    BY <1>5, <1>6, <1>7, <1>10
  <2> QED BY <1>12, <2>1
<1>16. ClicksOf(steps) = Clicked(after)
  <2>1. Rising(f, T, n) /\ Rising(f, T, n) BY <1>2, <1>7, <1>13 DEF Rising
  <2>2. Stands(ProfileClicks(steps), f, T) BY <1>14 DEF Stands, ProfileClicks
  <2>3. Stands(BrowserClicks(after), f, T) BY <1>15 DEF Stands, BrowserClicks
  <2>4. SameControls(steps, f, after, f, T) BY <1>10 DEF SameControls
  <2>5. T \in SUBSET (1..Len(trace)) /\ Len(trace) \in Nat BY <1>2, <1>7
  <2> QED BY <2>1, <2>2, <2>3, <2>4, <2>5, SameClicked
<1> QED BY <1>3, <1>6, <1>16 DEF steps

\* What a confirmed session amounts to is what Build accepts.
LEMMA InvIsPromotable == PromotionInv => CompletionIsPromotable
<1> SUFFICES ASSUME PromotionInv, Confirmed, NEW typed \in SUBSET outputs
             PROVE  LET r == Request(typed)
                        before == SubSeq(performed, 1, authProof.at)
                        after == SubSeq(performed, authProof.at + 1, Len(performed))
                        login == Result!Authentication(r)
                        task == Result!Capability(r)
                    IN  /\ Result!Builds(r) <=>
                             \A i \in DOMAIN trace : StepOf(i).input = "mfa" \/ StepOf(i).on \notin Redacted
                        /\ Result!Declares(login, r.contexts) /\ Result!Declares(task, r.contexts)
                        /\ Result!OpensItsPopups(login, r.contexts)
                        /\ ClicksOf(login.steps) = Clicked(before)
                        /\ Len(task.steps) = Len(after)
                        /\ ClicksOf(task.steps) = Clicked(after)
  BY DEF CompletionIsPromotable
<1> DEFINE r == Request(typed)
           before == SubSeq(performed, 1, authProof.at)
           after == SubSeq(performed, authProof.at + 1, Len(performed))
           login == Result!Authentication(r)
           task == Result!Capability(r)
<1>1. phase = "completed" /\ TopologyHolds BY DEF Confirmed
<1>2. r = Request(typed) /\ login = Result!Authentication(r) /\ task = Result!Capability(r)
      /\ before = SubSeq(performed, 1, authProof.at)
      /\ after = SubSeq(performed, authProof.at + 1, Len(performed))
  OBVIOUS
<1> HIDE DEF r, login, task, before, after
<1>3. Result!Builds(r) <=>
         \A i \in DOMAIN trace : StepOf(i).input = "mfa" \/ StepOf(i).on \notin Redacted
  BY <1>2, BuildsWhenNamed
<1>4. Result!Declares(login, r.contexts) /\ Result!Declares(task, r.contexts)
  BY <1>1, <1>2, ProfilesDeclare
<1>5. Result!OpensItsPopups(login, r.contexts) BY <1>1, <1>2, LoginOpensItsPopups
<1>6. ClicksOf(login.steps) = Clicked(before) BY <1>1, <1>2, LoginClicks
<1>7. Len(task.steps) = Len(after) /\ ClicksOf(task.steps) = Clicked(after)
  BY <1>1, <1>2, TaskClicks
<1> QED BY <1>3, <1>4, <1>5, <1>6, <1>7, Zenon DEF r, login, task, before, after

-----------------------------------------------------------------------------
(* What a step may do to the records PromotionInv speaks of.               *)

\* Nothing, but for a new question, new origins, and an end.
Quiet ==
    /\ UNCHANGED <<phase, contexts, candidates, trace, performed, goalProof, authProof,
                   humanConfirmed, outputs, pendingInput>>
    /\ origins \subseteq origins'
    /\ pending' # None => KnownContext(ContextOf(pending'.message))
    /\ closed => closed'

Starts ==
    /\ ~closed /\ phase = "awaiting_start" /\ phase' \in {"awaiting_start", "authentication"}
    /\ phase' # "awaiting_start" => {InitialOrigin, DashboardOrigin, GoalOrigin} \subseteq origins'
    /\ UNCHANGED <<contexts, candidates, trace, performed, goalProof, authProof,
                   humanConfirmed, outputs, pending, pendingInput>>

Sees(ctx) ==
    /\ ~closed /\ phase \in {"authentication", "exploration"} /\ KnownContext(ctx)
    /\ \E inventory \in [Child -> Origin \cup {None}] :
          InventoryOK(inventory) /\ contexts' = Merged(inventory)
    /\ \A c \in candidates' : c.ctx = ctx
    /\ goalProof' # None => goalProof'.ctx = ctx /\ ctx = GoalContext
    /\ \/ UNCHANGED <<phase, authProof>>
       \/ /\ phase = "authentication" /\ phase' = "exploration"
          /\ authProof'.ctx = ctx /\ authProof'.at = Len(performed)
    /\ UNCHANGED <<origins, trace, performed, humanConfirmed, outputs, pending, pendingInput>>

Focuses ==
    /\ ~closed /\ phase = "authentication" /\ phase' = "human_input"
    /\ pendingInput'.cand \in candidates /\ pendingInput'.cand.shape.input # "none"
    /\ UNCHANGED <<origins, contexts, candidates, trace, performed, goalProof, authProof,
                   humanConfirmed, outputs, pending>>

Types ==
    /\ ~closed /\ phase = "human_input" /\ phase' = "authentication"
    /\ pendingInput # None /\ pendingInput' = None
    /\ trace' = Append(trace, [phase |-> "authentication", observed |-> 0,
                  message |-> [action |-> "focus_human_input", cand |-> pendingInput.cand]])
    /\ UNCHANGED <<origins, contexts, candidates, performed, goalProof, authProof,
                   humanConfirmed, outputs, pending>>

\* An act, or an attempt that ends the session.
ActsOn(m) ==
    /\ ~closed /\ phase \in {"authentication", "exploration"} /\ phase' = phase
    /\ KnownContext(ContextOf(m))
    /\ origins \subseteq origins' /\ goalProof' = None /\ (pending' = None \/ pending' = pending)
    /\ \/ /\ \E observed \in 0..MaxPost :
                trace' = Append(trace, [phase |-> phase, message |-> m, observed |-> observed])
          /\ Opens(contexts')
       \/ closed' /\ UNCHANGED <<trace, contexts>>
    /\ UNCHANGED <<candidates, authProof, outputs, pendingInput>>

Completes ==
    /\ ~closed /\ phase = "exploration" /\ phase' = "completed" /\ humanConfirmed'
    /\ IsFiniteSet(outputs') /\ Cardinality(outputs') <= MaxOutputs
    /\ \A c \in outputs' : c.shape.unique /\ c.shape.input = "none" /\ c.shape.output
    /\ UNCHANGED <<origins, contexts, candidates, trace, performed, goalProof, authProof,
                   pending, pendingInput>>

Moves ==
    \/ Quiet \/ Starts \/ Focuses \/ Types \/ Completes
    \/ \E ctx \in Context : Sees(ctx)
    \/ \E m \in Message : ActsOn(m)

LEMMA ContextIs ==
    /\ \A m \in Navigation : m.action = "navigate_get" /\ ContextOf(m) = m.ctx
    /\ \A m \in Click : m.action = "click" /\ ContextOf(m) = m.cand.ctx
BY DEF Navigation, Click, ContextOf

LEMMA QuestionsAsked ==
    ASSUME NEW kind, NEW m, NEW origin, RequireApproval(kind, m, origin), KnownContext(ContextOf(m)),
           ~closed, origins \subseteq origins'
    PROVE  Quiet
<1>1. pending' # None => pending'.message = m BY DEF RequireApproval
<1> QED BY <1>1 DEF RequireApproval, Quiet, evidence, decision, acts

LEMMA Performs ==
    ASSUME NEW m \in Message, Execute(m), KnownContext(ContextOf(m)), ~closed,
           phase \in {"authentication", "exploration"},
           origins \subseteq origins', pending' = None \/ pending' = pending
    PROVE  ActsOn(m)
BY DEF Execute, ActsOn, WithdrawEvidence, ActFails, Fail

LEMMA NextMoves ==
    ASSUME TypeInv, ReleaseInv, EvidenceInv, KnownInv, [Next]_vars PROVE Moves
<1>1. CASE UNCHANGED vars \/ Cancel
  <2>1. Quiet
    BY <1>1 DEF Cancel, vars, Quiet, KnownInv, authority, evidence, decision, progress, acts, lifetime
  <2> QED BY <2>1 DEF Moves
<1>2. ASSUME NEW requested \in SUBSET Origin, StartSession(requested) PROVE Moves
  <2>1. ~closed /\ phase = "awaiting_start" BY <1>2, PhaseTable DEF StartSession, ReleaseInv
  <2>2. Starts BY <1>2, <2>1 DEF StartSession, Starts, evidence, decision, acts, ReleaseInv
  <2> QED BY <2>2 DEF Moves
<1>3. ASSUME NEW ctx \in Context, Observe(ctx) PROVE Moves
  <2>1. /\ ~closed /\ phase \in {"authentication", "exploration"}
        /\ UNCHANGED <<origins, trace, performed, humanConfirmed, outputs, pending, pendingInput>>
    BY <1>3, PhaseTable DEF Observe, ReleaseInv, authority, decision, acts
  <2>2. CASE Fail /\ UNCHANGED <<candidates, contexts, goalProof, authProof, phase>>
    <3>1. Quiet BY <2>1, <2>2 DEF Quiet, KnownInv, Fail
    <3> QED BY <3>1 DEF Moves
  <2>3. CASE KnownContext(ctx) /\ \E raw \in RawObservation : Reduce(ctx, raw)
    <3>1. PICK raw \in RawObservation : Reduce(ctx, raw) BY <2>3
    <3>2. raw.inventory \in [Child -> Origin \cup {None}] BY DEF RawObservation
    <3>3. InventoryOK(raw.inventory) /\ contexts' = Merged(raw.inventory) BY <3>1 DEF Reduce
    <3>4. \A c \in candidates' : c.ctx = ctx BY <3>1 DEF Reduce, Generation
    <3>5. goalProof' # None => goalProof'.ctx = ctx /\ ctx = GoalContext
      BY <3>1 DEF Reduce, MatchGoal, ProofNow
    <3>6. \/ UNCHANGED <<phase, authProof>>
          \/ /\ phase = "authentication" /\ phase' = "exploration"
             /\ authProof'.ctx = ctx /\ authProof'.at = Len(performed)
      BY <3>1 DEF Reduce, ProofNow
    <3>7. Sees(ctx) BY <2>1, <2>3, <3>2, <3>3, <3>4, <3>5, <3>6 DEF Sees
    <3> QED BY <3>7 DEF Moves
  <2> QED BY <1>3, <2>2, <2>3 DEF Observe
<1>4. CASE Focus
  <2>1. /\ ~closed /\ phase = "authentication"
        /\ UNCHANGED <<origins, contexts, candidates, trace, performed, goalProof, authProof,
                       humanConfirmed, outputs, pending>>
    BY <1>4, PhaseTable DEF Focus, ReleaseInv, authority, evidence, decision, acts
  <2>2. CASE Fail /\ UNCHANGED <<pendingInput, phase>>
    <3>1. Quiet BY <2>1, <2>2 DEF Quiet, KnownInv, Fail
    <3> QED BY <3>1 DEF Moves
  <2>3. CASE ~(Fail /\ UNCHANGED <<pendingInput, phase>>)
    <3>1. PICK c \in CandidateId : /\ Focusable(c) /\ phase' = "human_input"
                                   /\ pendingInput' = [cand |-> c, phase |-> phase]
      BY <1>4, <2>3 DEF Focus
    <3>2. pendingInput'.cand = c BY <3>1
    <3>3. Focuses BY <2>1, <3>1, <3>2 DEF Focuses, Focusable
    <3> QED BY <3>3 DEF Moves
  <2> QED BY <2>2, <2>3
<1>5. CASE CompleteHumanInput
  <2>1. /\ ~closed /\ phase = "human_input"
        /\ UNCHANGED <<origins, contexts, candidates, performed, goalProof, authProof,
                       humanConfirmed, outputs, pending>>
    BY <1>5, PhaseTable DEF CompleteHumanInput, ReleaseInv, authority, evidence, decision
  <2>2. CASE Fail /\ UNCHANGED <<trace, pendingInput, phase>>
    <3>1. Quiet BY <2>1, <2>2 DEF Quiet, KnownInv, Fail
    <3> QED BY <3>1 DEF Moves
  <2>3. CASE ~(Fail /\ UNCHANGED <<trace, pendingInput, phase>>)
    <3>1. pendingInput # None /\ pendingInput.phase = "authentication"
      BY <1>5, <2>3 DEF CompleteHumanInput, EvidenceInv, PhaseInv
    <3>2. Types BY <1>5, <2>1, <2>3, <3>1 DEF CompleteHumanInput, Types
    <3> QED BY <3>2 DEF Moves
  <2> QED BY <2>2, <2>3
<1>6. CASE RequestExecute
  <2>1. ~closed /\ phase \in {"authentication", "exploration"} /\ UNCHANGED origins
    BY <1>6, PhaseTable DEF RequestExecute, ReleaseInv
  <2>2. ASSUME NEW m \in Navigation, Navigate(m) PROVE Moves
    <3>1. m \in Message /\ KnownContext(ContextOf(m)) BY <2>2, ContextIs DEF Message, Navigate
    <3>2. Quiet \/ ActsOn(m) BY <2>1, <2>2, <3>1, QuestionsAsked, Performs DEF Navigate
    <3> QED BY <3>1, <3>2 DEF Moves
  <2>3. ASSUME NEW m \in Click, GateClick(m, origins) PROVE Moves
    <3>1. KnownContext(ContextOf(m)) BY <2>3, ContextIs DEF GateClick, KnownInv
    <3>2. Quiet BY <2>1, <2>3, <3>1, QuestionsAsked DEF GateClick
    <3> QED BY <3>2 DEF Moves
  <2>4. CASE RefuseExecute
    <3>1. Quiet BY <2>1, <2>4 DEF RefuseExecute, Quiet, KnownInv, Fail, evidence, decision, acts
    <3> QED BY <3>1 DEF Moves
  <2> QED BY <1>6, <2>2, <2>3, <2>4 DEF RequestExecute
<1>7. CASE Approve
  <2>1. ~closed /\ phase \in {"authentication", "exploration"}
    BY <1>7, PhaseTable DEF Approve, ReleaseInv
  <2>2. pending # None => pending.message \in Message /\ KnownContext(ContextOf(pending.message))
    BY DEF TypeInv, TypeOK, Pending, KnownInv
  <2>3. CASE pending # None /\ (ApproveOrigin \/ ApproveAction)
    <3>1. Execute(pending.message) /\ pending' = None /\ origins \subseteq origins'
      BY <2>3 DEF ApproveOrigin, ApproveAction, AdmitOrigin
    <3>2. ActsOn(pending.message) BY <2>1, <2>2, <2>3, <3>1, Performs
    <3> QED BY <2>2, <2>3, <3>2 DEF Moves
  <2>4. CASE pending # None /\ ApproveOriginOfClick
    <3>1. GateClick(pending.message, origins') /\ origins \subseteq origins'
      BY <2>4 DEF ApproveOriginOfClick, AdmitOrigin
    <3>2. Quiet BY <2>1, <2>2, <2>4, <3>1, QuestionsAsked DEF GateClick
    <3> QED BY <3>2 DEF Moves
  <2>5. CASE (pending # None /\ ApprovalRefused)
             \/ (Fail /\ UNCHANGED <<authority, evidence, decision, progress, acts, cancelled>>)
    <3>1. Quiet
      BY <2>5 DEF ApprovalRefused, Quiet, KnownInv, Fail, authority, evidence, decision, progress, acts
    <3> QED BY <3>1 DEF Moves
  <2> QED BY <1>7, <2>3, <2>4, <2>5 DEF Approve
<1>8. CASE Complete
  <2>1. /\ ~closed /\ phase = "exploration"
        /\ UNCHANGED <<origins, contexts, candidates, trace, performed, goalProof, authProof,
                       pending, pendingInput>>
    BY <1>8, PhaseTable DEF Complete, ReleaseInv, authority, evidence, acts
  <2>2. CASE Fail /\ UNCHANGED <<outputs, humanConfirmed, phase>>
    <3>1. Quiet BY <2>1, <2>2 DEF Quiet, KnownInv, Fail
    <3> QED BY <3>1 DEF Moves
  <2>3. CASE ~(Fail /\ UNCHANGED <<outputs, humanConfirmed, phase>>)
    <3>1. PICK selected \in SUBSET {c \in CandidateId : Selectable(c)} :
               IsFiniteSet(selected) /\ Cardinality(selected) <= MaxOutputs /\ outputs' = selected
      BY <1>8, <2>3 DEF Complete
    <3>2. \A c \in outputs' : c.shape.unique /\ c.shape.input = "none" /\ c.shape.output
      BY <3>1 DEF Selectable
    <3>3. humanConfirmed' /\ phase' = "completed" BY <1>8, <2>3 DEF Complete
    <3>4. Completes BY <2>1, <3>1, <3>2, <3>3 DEF Completes
    <3> QED BY <3>4 DEF Moves
  <2> QED BY <2>2, <2>3
<1>9. CASE Deny \/ Finish \/ CloseWithoutResult \/ RefuseMessage \/ InputEnds
  <2>1. Quiet
    <3>1. CASE Finish
      <4>1. UNCHANGED <<trace, performed, goalProof, authProof, phase, contexts, candidates,
                        humanConfirmed, outputs, pending, pendingInput, origins>>
        BY <3>1 DEF Finish, authority, evidence, progress, acts
      <4> QED BY <3>1, <4>1 DEF Finish, Quiet, KnownInv, Fail
    <3>2. CASE Deny
      BY <3>2 DEF Deny, Quiet, KnownInv, Fail, authority, evidence, decision, acts
    <3>3. CASE CloseWithoutResult \/ RefuseMessage \/ InputEnds
      BY <3>3 DEF CloseWithoutResult, RefuseMessage, InputEnds, Quiet, KnownInv, Fail,
            authority, evidence, decision, progress, acts
    <3> QED BY <1>9, <3>1, <3>2, <3>3
  <2> QED BY <2>1 DEF Moves
<1> QED BY <1>1, <1>2, <1>3, <1>4, <1>5, <1>6, <1>7, <1>8, <1>9 DEF Next

\* Contexts are never forgotten, and the graph stays one Build accepts.
LEMMA ContextsGrow ==
    ASSUME TypeInv, ContextsInv, Moves
    PROVE  ContextsInv' /\ \A c \in Known(contexts) : c \in Known(contexts')
<1>1. contexts \in [Child -> Origin \cup {None}] BY DEF TypeInv, TypeOK
<1>2. CASE contexts' = contexts BY <1>2 DEF ContextsInv, Placed
<1>3. ASSUME Cardinality(Known(contexts')) <= MaxContexts,
             \A c \in Known(contexts) : c \in Known(contexts'),
             \A c \in Known(contexts') \ Known(contexts) : Placed(c, contexts) \/ Placed(c, contexts')
      PROVE  ContextsInv' /\ \A c \in Known(contexts) : c \in Known(contexts')
  <2>1. \A c \in Known(contexts) : Placed(c, contexts) BY DEF ContextsInv
  <2>2. \A c \in Known(contexts') : Placed(c, contexts') BY <1>3, <2>1 DEF Placed
  <2> QED BY <1>3, <2>2 DEF ContextsInv, Placed
<1>4. ASSUME NEW ctx \in Context, Sees(ctx)
      PROVE  ContextsInv' /\ \A c \in Known(contexts) : c \in Known(contexts')
  <2>1. PICK inventory \in [Child -> Origin \cup {None}] :
             InventoryOK(inventory) /\ contexts' = Merged(inventory)
    BY <1>4 DEF Sees
  <2>2. \A c \in Child : contexts'[c] = IF inventory[c] = None THEN contexts[c] ELSE inventory[c]
    BY <2>1 DEF Merged
  <2>3. \A c \in Known(contexts) : c \in Known(contexts') BY <2>2 DEF Known
  <2>4. \A c \in Known(contexts') \ Known(contexts) : c \in Known(inventory)
    BY <2>2 DEF Known
  <2>5. \A c \in Known(inventory) : Placed(c, contexts') BY <2>1 DEF InventoryOK
  <2>6. Cardinality(Known(contexts')) <= MaxContexts BY <2>1 DEF InventoryOK
  <2> QED BY <1>3, <2>3, <2>4, <2>5, <2>6
<1>5. ASSUME NEW m \in Message, ActsOn(m), contexts' # contexts
      PROVE  ContextsInv' /\ \A c \in Known(contexts) : c \in Known(contexts')
  <2>1. PICK c \in Child, o \in origins' :
             /\ contexts[c] \in {None, o} /\ Placed(c, contexts)
             /\ contexts' = [contexts EXCEPT ![c] = o]
             /\ Cardinality(Known(contexts')) <= MaxContexts
    BY <1>5 DEF ActsOn, Opens
  <2>2. o # None BY <1>1, <1>5, <2>1
  <2>3. \A d \in Known(contexts) : d \in Known(contexts') BY <1>1, <2>1, <2>2 DEF Known
  <2>4. \A d \in Known(contexts') \ Known(contexts) : d = c BY <1>1, <2>1 DEF Known
  <2> QED BY <1>3, <2>1, <2>3, <2>4
<1>6. Quiet \/ Starts \/ Focuses \/ Types \/ Completes => contexts' = contexts
  BY DEF Quiet, Starts, Focuses, Types, Completes
<1> QED BY <1>2, <1>4, <1>5, <1>6 DEF Moves

LEMMA KnownStep ==
    ASSUME TypeInv, ContextsInv, KnownInv, Moves PROVE KnownInv'
<1> DEFINE Near(ctx) == ctx \in {"main"} \cup Known(contexts')
<1>1. ASSUME NEW ctx, KnownContext(ctx) PROVE KnownContext(ctx)'
  BY <1>1, ContextsGrow DEF KnownContext
<1>2. trace \in Seq(TraceStep) BY DEF TypeInv, TypeOK
<1>3. ASSUME UNCHANGED <<trace, pendingInput, authProof>>,
             \A c \in candidates' : KnownContext(c.ctx),
             goalProof' # None => KnownContext(goalProof'.ctx),
             pending' # None => KnownContext(ContextOf(pending'.message))
      PROVE  KnownInv'
  BY <1>1, <1>3 DEF KnownInv
<1>4. CASE Quiet \/ Starts \/ Completes
  BY <1>3, <1>4 DEF Quiet, Starts, Completes, KnownInv
<1>5. CASE Focuses
  <2>1. KnownContext(pendingInput'.cand.ctx) BY <1>5 DEF Focuses, KnownInv
  <2> QED BY <1>1, <1>5, <2>1 DEF Focuses, KnownInv
<1>6. ASSUME NEW step, trace' = Append(trace, step), KnownContext(ContextOf(step.message))
      PROVE  \A i \in DOMAIN trace' : KnownContext(ContextOf(trace'[i].message))
  <2>1. \A i \in DOMAIN trace' : IF i \in DOMAIN trace THEN trace'[i] = trace[i] ELSE trace'[i] = step
    BY <1>2, <1>6
  <2> QED BY <1>6, <2>1 DEF KnownInv
<1>7. CASE Types
  <2> DEFINE step == [phase |-> "authentication", observed |-> 0,
                  message |-> [action |-> "focus_human_input", cand |-> pendingInput.cand]]
  <2>1. ContextOf(step.message) = pendingInput.cand.ctx BY DEF ContextOf
  <2>2. KnownContext(ContextOf(step.message)) BY <1>7, <2>1 DEF Types, KnownInv
  <2>3. trace' = Append(trace, step) BY <1>7 DEF Types
  <2> HIDE DEF step
  <2>4. \A i \in DOMAIN trace' : KnownContext(ContextOf(trace'[i].message)) BY <1>6, <2>2, <2>3
  <2>5. UNCHANGED <<contexts, candidates, goalProof, authProof, pending>> /\ pendingInput' = None
    BY <1>7 DEF Types
  <2> QED BY <1>1, <2>4, <2>5 DEF KnownInv
<1>8. ASSUME NEW ctx \in Context, Sees(ctx) PROVE KnownInv'
  <2>1. /\ KnownContext(ctx) /\ UNCHANGED <<trace, pending, pendingInput>>
        /\ \A c \in candidates' : c.ctx = ctx
        /\ goalProof' # None => goalProof'.ctx = ctx
        /\ authProof' = authProof \/ authProof'.ctx = ctx
    BY <1>8 DEF Sees
  <2> QED BY <1>1, <2>1 DEF KnownInv
<1>9. ASSUME NEW m \in Message, ActsOn(m) PROVE KnownInv'
  <2>1. /\ KnownContext(ContextOf(m)) /\ UNCHANGED <<candidates, authProof, pendingInput>>
        /\ goalProof' = None /\ (pending' = None \/ pending' = pending)
    BY <1>9 DEF ActsOn
  <2>2. \A i \in DOMAIN trace' : KnownContext(ContextOf(trace'[i].message))
    <3>1. CASE trace' = trace BY <3>1 DEF KnownInv
    <3>2. CASE trace' # trace
      <4>1. PICK observed \in 0..MaxPost :
              trace' = Append(trace, [phase |-> phase, message |-> m, observed |-> observed])
        BY <1>9, <3>2 DEF ActsOn
      <4> QED BY <1>6, <2>1, <4>1
    <3> QED BY <3>1, <3>2
  <2> QED BY <1>1, <2>1, <2>2 DEF KnownInv
<1> QED BY <1>4, <1>5, <1>7, <1>8, <1>9 DEF Moves

LEMMA StartStep == ASSUME StartInv, Moves PROVE StartInv'
<1>1. Quiet => StartInv' BY DEF Quiet, StartInv
<1>2. Starts => StartInv' BY DEF Starts, StartInv
<1>3. Focuses => StartInv' BY DEF Focuses, StartInv
<1>4. Types \/ Completes => StartInv' BY DEF Types, Completes, StartInv
<1>5. ASSUME NEW ctx \in Context, Sees(ctx) PROVE StartInv' BY <1>5 DEF Sees, StartInv
<1>6. ASSUME NEW m \in Message, ActsOn(m) PROVE StartInv' BY <1>6 DEF ActsOn, StartInv
<1> QED BY <1>1, <1>2, <1>3, <1>4, <1>5, <1>6 DEF Moves

LEMMA CompletionStep == ASSUME CompletionInv, Moves PROVE CompletionInv'
<1>1. Quiet => CompletionInv' BY DEF Quiet, CompletionInv
<1>2. Starts \/ Focuses \/ Types => CompletionInv' BY DEF Starts, Focuses, Types, CompletionInv
<1>3. Completes => CompletionInv' BY DEF Completes, CompletionInv
<1>4. ASSUME NEW ctx \in Context, Sees(ctx) PROVE CompletionInv' BY <1>4 DEF Sees, CompletionInv
<1>5. ASSUME NEW m \in Message, ActsOn(m) PROVE CompletionInv' BY <1>5 DEF ActsOn, CompletionInv
<1> QED BY <1>1, <1>2, <1>3, <1>4, <1>5 DEF Moves

\* An entry more.
LEMMA Longer ==
    ASSUME TypeInv, NEW step, trace' = Append(trace, step)
    PROVE  /\ Len(trace) \in Nat /\ DOMAIN trace = 1..Len(trace)
           /\ Len(trace') = Len(trace) + 1 /\ DOMAIN trace' = 1..Len(trace) + 1
           /\ trace'[Len(trace) + 1] = step
           /\ \A i \in DOMAIN trace : i \in DOMAIN trace' /\ trace'[i] = trace[i] /\ i < Len(trace) + 1
           /\ \A i \in DOMAIN trace' : i \in DOMAIN trace \/ i = Len(trace) + 1
BY DEF TypeInv, TypeOK

LEMMA OrderStep ==
    ASSUME TypeInv, EvidenceInv, OrderInv, Moves PROVE OrderInv'
<1>1. ASSUME UNCHANGED trace, UNCHANGED authProof, UNCHANGED pendingInput,
             phase' = phase \/ phase \in {"awaiting_start", "authentication", "human_input"}
                            \/ phase' = "completed"
      PROVE  OrderInv'
  <2>1. /\ \A i, j \in DOMAIN trace :
              i < j /\ trace[j].phase = "authentication" => trace[i].phase = "authentication"
        /\ \A i \in DOMAIN trace : trace[i].message.action = "focus_human_input" =>
              trace[i].phase = "authentication" /\ trace[i].message.cand.shape.input # "none"
        /\ pendingInput # None => pendingInput.cand.shape.input # "none"
    BY DEF OrderInv
  <2>2. phase' \in {"awaiting_start", "authentication", "human_input"} =>
           authProof = None /\ \A i \in DOMAIN trace : trace[i].phase = "authentication"
    BY <1>1 DEF OrderInv
  <2> QED BY <1>1, <2>1, <2>2 DEF OrderInv
<1>2. Quiet \/ Starts \/ Completes => OrderInv' BY <1>1 DEF Quiet, Starts, Completes
<1>3. CASE Focuses
  <2>1. /\ UNCHANGED <<trace, authProof>> /\ phase = "authentication"
        /\ pendingInput'.cand.shape.input # "none"
    BY <1>3 DEF Focuses
  <2> QED BY <2>1 DEF OrderInv
<1>4. ASSUME NEW ctx \in Context, Sees(ctx) PROVE OrderInv'
  <2>1. CASE UNCHANGED <<phase, authProof>> BY <1>1, <1>4, <2>1 DEF Sees
  <2>2. CASE phase' = "exploration"
    <3>1. UNCHANGED <<trace, pendingInput>> BY <1>4 DEF Sees
    <3> QED BY <2>2, <3>1 DEF OrderInv
  <2> QED BY <1>4, <2>1, <2>2 DEF Sees
<1>5. ASSUME NEW step, trace' = Append(trace, step), phase' = step.phase, UNCHANGED authProof,
             step.phase \in {"authentication", "exploration"},
             pendingInput' = None \/ pendingInput' = pendingInput,
             phase # "exploration" <=> step.phase = "authentication",
             phase \in {"authentication", "human_input", "exploration"},
             step.message.action = "focus_human_input" =>
                step.phase = "authentication" /\ step.message.cand.shape.input # "none"
      PROVE  OrderInv'
  <2> DEFINE n == Len(trace)
  <2>1. /\ n \in Nat /\ DOMAIN trace = 1..n /\ trace'[n + 1] = step
        /\ \A i \in DOMAIN trace : i \in DOMAIN trace' /\ trace'[i] = trace[i] /\ i < n + 1
        /\ \A i \in DOMAIN trace' : i \in DOMAIN trace \/ i = n + 1
    BY <1>5, Longer
  <2> HIDE DEF n
  <2>2. step.phase = "authentication" =>
           authProof = None /\ \A i \in DOMAIN trace : trace[i].phase = "authentication"
    BY <1>5 DEF OrderInv
  <2>3. phase' \in {"awaiting_start", "authentication", "human_input"} =>
           authProof' = None /\ \A i \in DOMAIN trace' : trace'[i].phase = "authentication"
    BY <1>5, <2>1, <2>2
  <2>4. ASSUME NEW i \in DOMAIN trace', NEW j \in DOMAIN trace', i < j,
               trace'[j].phase = "authentication"
        PROVE  trace'[i].phase = "authentication"
    <3>1. CASE j \in DOMAIN trace
      <4>1. i \in DOMAIN trace
        <5>1. i # n + 1 BY <2>1, <2>4, <3>1
        <5> QED BY <2>1, <5>1
      <4> QED BY <2>1, <2>4, <3>1, <4>1 DEF OrderInv
    <3>2. CASE j = n + 1
      <4>1. step.phase = "authentication" BY <2>1, <2>4, <3>2
      <4> QED BY <2>1, <2>2, <4>1
    <3> QED BY <2>1, <3>1, <3>2
  <2>5. \A i \in DOMAIN trace' : trace'[i].message.action = "focus_human_input" =>
           trace'[i].phase = "authentication" /\ trace'[i].message.cand.shape.input # "none"
    BY <1>5, <2>1 DEF OrderInv
  <2>6. pendingInput' # None => pendingInput'.cand.shape.input # "none" BY <1>5 DEF OrderInv
  <2> QED BY <2>3, <2>4, <2>5, <2>6 DEF OrderInv
<1>6. CASE Types
  <2> DEFINE step == [phase |-> "authentication", observed |-> 0,
                  message |-> [action |-> "focus_human_input", cand |-> pendingInput.cand]]
  <2>1. /\ step.phase = "authentication" /\ step.message.cand = pendingInput.cand
        /\ trace' = Append(trace, step) /\ phase = "human_input" /\ phase' = "authentication"
        /\ pendingInput # None /\ pendingInput' = None /\ UNCHANGED authProof
    BY <1>6 DEF Types
  <2>2. step.message.cand.shape.input # "none" BY <2>1 DEF OrderInv
  <2> HIDE DEF step
  <2> QED BY <1>5, <2>1, <2>2
<1>7. ASSUME NEW m \in Message, ActsOn(m) PROVE OrderInv'
  <2>1. CASE trace' = trace BY <1>1, <1>7, <2>1 DEF ActsOn
  <2>2. CASE trace' # trace
    <3>1. PICK observed \in 0..MaxPost :
            trace' = Append(trace, [phase |-> phase, message |-> m, observed |-> observed])
      BY <1>7, <2>2 DEF ActsOn
    <3> DEFINE step == [phase |-> phase, message |-> m, observed |-> observed]
    <3>2. step.phase = phase /\ step.message = m /\ trace' = Append(trace, step) BY <3>1
    <3>3. m.action # "focus_human_input" BY DEF Message, Click, Navigation
    <3>4. /\ phase \in {"authentication", "exploration"} /\ phase' = phase
          /\ UNCHANGED <<authProof, pendingInput>>
      BY <1>7 DEF ActsOn
    <3> HIDE DEF step
    <3> QED BY <1>5, <3>2, <3>3, <3>4
  <2> QED BY <2>1, <2>2
<1> QED BY <1>2, <1>3, <1>4, <1>6, <1>7 DEF Moves

LEMMA TallyStep ==
    ASSUME TypeInv, OrderInv, TallyInv, TraceInv', Moves PROVE TallyInv'
<1> DEFINE Whole1 == Len(performed) = Cardinality(ActsAt) /\ Tells(performed, Told, ActsAt)
<1>1. ASSUME UNCHANGED <<trace, performed>>, ~closed \/ phase = "completed" PROVE Whole1'
  <2>1. ActsAt' = ActsAt /\ Told' = Told BY <1>1 DEF ActsAt, Told
  <2> QED BY <1>1, <2>1 DEF TallyInv, Tells
<1>2. phase' = "completed" => UNCHANGED <<trace, performed>> /\ (~closed \/ phase = "completed")
  <2>1. Quiet \/ Completes => UNCHANGED <<trace, performed>> /\ (~closed \/ phase' = phase)
    BY DEF Quiet, Completes
  <2>2. Starts \/ Focuses \/ Types => phase' # "completed" BY DEF Starts, Focuses, Types
  <2>3. \A ctx \in Context : Sees(ctx) => phase' # "completed" BY DEF Sees
  <2>4. \A m \in Message : ActsOn(m) => phase' # "completed" BY DEF ActsOn
  <2> QED BY <2>1, <2>2, <2>3, <2>4 DEF Moves
<1>3. ~closed' \/ phase' = "completed" => Whole1'
  BY <1>1, <1>2 DEF TraceInv
<1>4. ASSUME authProof' # None PROVE authProof'.at = Cardinality(ActsBefore')
  <2>1. CASE UNCHANGED <<trace, authProof>>
    <3>1. ActsBefore' = ActsBefore BY <2>1 DEF ActsBefore, ActsAt
    <3> QED BY <1>4, <2>1, <3>1 DEF TallyInv
  <2>2. Quiet \/ Starts \/ Focuses \/ Completes => UNCHANGED <<trace, authProof>>
    BY DEF Quiet, Starts, Focuses, Completes
  <2>3. ~Types BY <1>4 DEF Types, OrderInv
  <2>4. ASSUME NEW ctx \in Context, Sees(ctx) PROVE authProof'.at = Cardinality(ActsBefore')
    <3>1. CASE UNCHANGED authProof BY <2>1, <2>4, <3>1 DEF Sees
    <3>2. CASE ~UNCHANGED authProof
      <4>1. /\ ~closed /\ phase = "authentication" /\ authProof'.at = Len(performed)
            /\ UNCHANGED trace
        BY <2>4, <3>2 DEF Sees
      <4>2. \A i \in DOMAIN trace : trace[i].phase = "authentication" BY <4>1 DEF OrderInv
      <4>3. ActsBefore' = ActsAt BY <4>1, <4>2 DEF ActsBefore, ActsAt
      <4> QED BY <4>1, <4>3 DEF TallyInv
    <3> QED BY <3>1, <3>2
  <2>5. ASSUME NEW m \in Message, ActsOn(m) PROVE authProof'.at = Cardinality(ActsBefore')
    <3>1. CASE trace' = trace BY <2>1, <2>5, <3>1 DEF ActsOn
    <3>2. CASE trace' # trace
      <4>1. PICK observed \in 0..MaxPost :
              trace' = Append(trace, [phase |-> phase, message |-> m, observed |-> observed])
        BY <2>5, <3>2 DEF ActsOn
      <4>2. authProof' = authProof /\ phase = "exploration"
        BY <1>4, <2>5 DEF ActsOn, OrderInv
      <4> DEFINE step == [phase |-> phase, message |-> m, observed |-> observed]
                 n == Len(trace)
      <4>3. step.phase = "exploration" BY <4>2
      <4> HIDE DEF step
      <4>4. trace' = Append(trace, step) BY <4>1 DEF step
      <4>5. /\ trace'[n + 1] = step
            /\ \A i \in DOMAIN trace : i \in DOMAIN trace' /\ trace'[i] = trace[i]
            /\ \A i \in DOMAIN trace' : i \in DOMAIN trace \/ i = n + 1
        BY <4>4, Longer
      <4> HIDE DEF n
      <4>6. ActsBefore' = ActsBefore BY <4>3, <4>5 DEF ActsBefore, ActsAt
      <4> QED BY <1>4, <4>2, <4>6 DEF TallyInv
    <3> QED BY <3>1, <3>2
  <2> QED BY <2>1, <2>2, <2>3, <2>4, <2>5 DEF Moves
<1> QED BY <1>3, <1>4 DEF TallyInv

\* OpenerInv, from what a step leaves of its parts.
LEMMA OpenerParts ==
    ASSUME opener' \in [Child -> 0..Len(trace')],
           \A c \in Child \ Known(contexts') : opener'[c] = 0,
           \A c, d \in Child : opener'[c] = opener'[d] /\ opener'[c] # 0 => c = d,
           \A i \in DOMAIN trace' : \A c \in Lineage(ContextOf(trace'[i].message)) : opener'[c] < i,
           authProof' # None => \A c \in Lineage(authProof'.ctx) :
              opener'[c] # 0 => trace'[opener'[c]].phase = "authentication"
    PROVE  OpenerInv'
BY DEF OpenerInv, Lineage, Above, ContextOf, Known

LEMMA OpenerStep ==
    ASSUME TypeInv, ContextsInv, KnownInv, OrderInv, OpenerInv, Moves, RecordOpener
    PROVE  OpenerInv'
<1> DEFINE n == Len(trace)
<1>1. /\ contexts \in [Child -> Origin \cup {None}]
      /\ trace \in Seq(TraceStep) /\ n \in Nat /\ DOMAIN trace = 1..n
  BY DEF TypeInv, TypeOK
<1>2. /\ opener \in [Child -> 0..n]
      /\ \A c \in Child \ Known(contexts) : opener[c] = 0
      /\ \A c, d \in Child : opener[c] = opener[d] /\ opener[c] # 0 => c = d
      /\ \A i \in DOMAIN trace : \A c \in Lineage(ContextOf(trace[i].message)) : opener[c] < i
  BY DEF OpenerInv
<1>3. \A c \in Known(contexts) : c \in Known(contexts') BY ContextsGrow
<1>4. Known(contexts) \in SUBSET Child BY DEF Known
<1>5. ASSUME NEW ctx, KnownContext(ctx) PROVE Lineage(ctx) \in SUBSET Known(contexts)
  BY <1>5, LineageIsKnown
<1>6. ASSUME UNCHANGED trace,
             \/ authProof' = authProof
             \/ /\ \A i \in DOMAIN trace : trace[i].phase = "authentication"
                /\ Lineage(authProof'.ctx) \in SUBSET Child
      PROVE  OpenerInv'
  <2>1. opener' = opener BY <1>1, <1>6 DEF RecordOpener
  <2>2. \A c \in Child \ Known(contexts') : opener[c] = 0 BY <1>2, <1>3
  <2>3. ASSUME authProof' # None, NEW c \in Lineage(authProof'.ctx), opener[c] # 0
        PROVE  trace[opener[c]].phase = "authentication"
    <3>1. CASE authProof' = authProof BY <2>3, <3>1 DEF OpenerInv
    <3>2. CASE authProof' # authProof
      <4>1. c \in Child /\ \A i \in DOMAIN trace : trace[i].phase = "authentication"
        BY <1>6, <2>3, <3>2
      <4>2. opener[c] \in 0..n BY <1>2, <4>1
      <4>3. opener[c] \in DOMAIN trace BY <1>1, <2>3, <4>2
      <4> QED BY <4>1, <4>3
    <3> QED BY <3>1, <3>2
  <2> QED BY <1>2, <1>6, <2>1, <2>2, <2>3, OpenerParts
\* An entry in a context known before, which may have made one more known.
<1>7. ASSUME NEW step, trace' = Append(trace, step), KnownContext(ContextOf(step.message)),
             UNCHANGED authProof, contexts' = contexts \/ Opens(contexts')
      PROVE  OpenerInv'
  <2>1. /\ Len(trace') = n + 1 /\ trace'[n + 1] = step
        /\ \A i \in DOMAIN trace : i \in DOMAIN trace' /\ trace'[i] = trace[i] /\ i < n + 1
        /\ \A i \in DOMAIN trace' : i \in DOMAIN trace \/ i = n + 1
    BY <1>7, Longer
  <2>2. \A c \in Known(contexts) : opener'[c] = opener[c]
    <3>1. CASE contexts' = contexts BY <3>1 DEF RecordOpener
    <3>2. CASE contexts' # contexts
      <4>1. opener' = [c \in Child |-> IF contexts'[c] # contexts[c] THEN n + 1 ELSE opener[c]]
        BY <1>1, <2>1, <3>2 DEF RecordOpener
      <4>2. \A c \in Known(contexts) : contexts'[c] = contexts[c]
        BY <1>1, <1>7, <3>2 DEF Opens, Known
      <4> QED BY <1>4, <4>1, <4>2
    <3> QED BY <3>1, <3>2
  <2>3. PICK new \in SUBSET Child :
          /\ \A c, d \in new : c = d
          /\ \A c \in new : c \notin Known(contexts) /\ c \in Known(contexts')
          /\ opener' = [c \in Child |-> IF c \in new THEN n + 1 ELSE opener[c]]
    <3>1. CASE contexts' = contexts
      <4>1. opener' = [c \in Child |-> IF c \in {} THEN n + 1 ELSE opener[c]]
        BY <1>2, <3>1 DEF RecordOpener
      <4> QED
        <5> WITNESS {} \in SUBSET Child
        <5> QED BY <4>1
    <3>2. CASE contexts' # contexts
      <4>1. opener' = [c \in Child |-> IF contexts'[c] # contexts[c] THEN n + 1 ELSE opener[c]]
        BY <1>1, <2>1, <3>2 DEF RecordOpener
      <4>2. PICK c \in Child, o \in origins' :
               contexts[c] \in {None, o} /\ contexts' = [contexts EXCEPT ![c] = o]
        BY <1>7, <3>2 DEF Opens
      <4>3. /\ contexts[c] = None /\ o # None /\ contexts'[c] = o
            /\ \A d \in Child : contexts'[d] # contexts[d] <=> d = c
        BY <1>1, <3>2, <4>2
      <4>4. opener' = [d \in Child |-> IF d \in {c} THEN n + 1 ELSE opener[d]]
        BY <4>1, <4>3
      <4>5. c \notin Known(contexts) /\ c \in Known(contexts') BY <4>3 DEF Known
      <4> QED BY <4>4, <4>5
    <3> QED BY <3>1, <3>2
  <2> HIDE DEF n
  <2>4. opener' \in [Child -> 0..n + 1]
    <3>1. \A c \in Child : opener[c] \in 0..n + 1
      <4>1. \A c \in Child : opener[c] \in 0..n BY <1>2
      <4> QED BY <1>1, <4>1
    <3>2. n + 1 \in 0..n + 1 BY <1>1
    <3> QED BY <2>3, <3>1, <3>2
  <2>5. \A c \in Child \ Known(contexts') : opener'[c] = 0
    BY <1>2, <1>3, <2>3
  <2>6. \A c, d \in Child : opener'[c] = opener'[d] /\ opener'[c] # 0 => c = d
    <3>1. \A c \in Child : opener[c] # n + 1
      <4>1. \A c \in Child : opener[c] \in 0..n BY <1>2
      <4> QED BY <1>1, <4>1
    <3> QED BY <1>2, <2>3, <3>1
  <2>7. ASSUME NEW i \in DOMAIN trace', NEW c \in Lineage(ContextOf(trace'[i].message))
        PROVE  opener'[c] < i
    <3>1. CASE i \in DOMAIN trace
      <4>1. KnownContext(ContextOf(trace[i].message)) /\ trace'[i] = trace[i]
        BY <2>1, <3>1 DEF KnownInv
      <4>2. c \in Known(contexts) BY <1>5, <2>7, <4>1
      <4> QED BY <1>2, <2>2, <2>7, <3>1, <4>1, <4>2
    <3>2. CASE i = n + 1
      <4>1. c \in Known(contexts) BY <1>5, <1>7, <2>1, <2>7, <3>2
      <4>2. opener'[c] = opener[c] /\ opener[c] \in 0..n BY <1>2, <1>4, <2>2, <4>1
      <4> QED BY <1>1, <3>2, <4>2
    <3> QED BY <2>1, <3>1, <3>2
  <2>8. ASSUME authProof' # None, NEW c \in Lineage(authProof'.ctx), opener'[c] # 0
        PROVE  trace'[opener'[c]].phase = "authentication"
    <3>1. authProof' = authProof /\ KnownContext(authProof.ctx) BY <1>7, <2>8 DEF KnownInv
    <3>2. c \in Known(contexts) /\ c \in Child BY <1>4, <1>5, <2>8, <3>1
    <3>3. opener'[c] = opener[c] BY <2>2, <3>2
    <3>4. trace[opener[c]].phase = "authentication" BY <2>8, <3>1, <3>3 DEF OpenerInv
    <3>5. opener[c] \in DOMAIN trace
      <4>1. opener[c] \in 0..n BY <1>2, <3>2
      <4> QED BY <1>1, <2>8, <3>3, <4>1
    <3> QED BY <2>1, <3>3, <3>4, <3>5
  <2> QED BY <2>1, <2>4, <2>5, <2>6, <2>7, <2>8, OpenerParts
<1>8. CASE Quiet \/ Starts \/ Focuses \/ Completes
  BY <1>6, <1>8 DEF Quiet, Starts, Focuses, Completes
<1>9. CASE Types
  <2> DEFINE step == [phase |-> "authentication", observed |-> 0,
                  message |-> [action |-> "focus_human_input", cand |-> pendingInput.cand]]
  <2>1. ContextOf(step.message) = pendingInput.cand.ctx BY DEF ContextOf
  <2>2. /\ trace' = Append(trace, step) /\ KnownContext(ContextOf(step.message))
        /\ UNCHANGED <<authProof, contexts>>
    BY <1>9, <2>1 DEF Types, KnownInv
  <2> HIDE DEF step
  <2> QED BY <1>7, <2>2
<1>10. ASSUME NEW ctx \in Context, Sees(ctx) PROVE OpenerInv'
  <2>1. UNCHANGED trace /\ KnownContext(ctx) BY <1>10 DEF Sees
  <2>2. CASE authProof' = authProof BY <1>6, <2>1, <2>2
  <2>3. CASE authProof' # authProof
    <3>1. phase = "authentication" /\ authProof'.ctx = ctx BY <1>10, <2>3 DEF Sees
    <3>2. \A i \in DOMAIN trace : trace[i].phase = "authentication" BY <3>1 DEF OrderInv
    <3>3. Lineage(authProof'.ctx) \in SUBSET Child BY <1>4, <1>5, <2>1, <3>1
    <3> QED BY <1>6, <2>1, <3>2, <3>3
  <2> QED BY <2>2, <2>3
<1>11. ASSUME NEW m \in Message, ActsOn(m) PROVE OpenerInv'
  <2>1. UNCHANGED authProof /\ KnownContext(ContextOf(m)) BY <1>11 DEF ActsOn
  <2>2. CASE trace' = trace BY <1>6, <2>1, <2>2
  <2>3. CASE trace' # trace
    <3>1. PICK observed \in 0..MaxPost :
            trace' = Append(trace, [phase |-> phase, message |-> m, observed |-> observed])
      BY <1>11, <2>3 DEF ActsOn
    <3>2. Opens(contexts') BY <1>11, <2>3 DEF ActsOn
    <3> QED BY <1>7, <2>1, <3>1, <3>2
  <2> QED BY <2>2, <2>3
<1> QED BY <1>8, <1>9, <1>10, <1>11 DEF Moves

\* All that the proofs above have shown of the session, and PromotionInv.
SessionInv == ContractInv /\ TellInv
WholeInv == SessionInv /\ PromotionInv

LEMMA InitPromotion == PromotionInit => PromotionInv
<1> SUFFICES ASSUME PromotionInit PROVE PromotionInv OBVIOUS
<1>1. Init /\ opener = [c \in Child |-> 0] BY DEF PromotionInit
<1>2. /\ phase = "awaiting_start" /\ contexts = [c \in Child |-> None] /\ candidates = {}
      /\ trace = <<>> /\ performed = <<>> /\ pending = None /\ pendingInput = None
      /\ goalProof = None /\ authProof = None /\ outputs = {}
  BY <1>1 DEF Init
<1>3. Known(contexts) = {} BY <1>2 DEF Known
<1>4. Cardinality({}) = 0 /\ IsFiniteSet({}) BY FS_EmptySet
<1>5. ContextsInv BY <1>3, <1>4, ConstantsAssumption DEF ContextsInv
<1>6. KnownInv BY <1>2 DEF KnownInv
<1>7. StartInv /\ CompletionInv BY <1>2, <1>4, ConstantsAssumption DEF StartInv, CompletionInv
<1>8. OrderInv BY <1>2 DEF OrderInv
<1>9. TallyInv
  <2>1. ActsAt = {} /\ Len(performed) = 0 BY <1>2 DEF ActsAt
  <2> QED BY <1>2, <1>4, <2>1 DEF TallyInv, Tells
<1>10. OpenerInv BY <1>1, <1>2 DEF OpenerInv
<1> QED BY <1>1, <1>5, <1>6, <1>7, <1>8, <1>9, <1>10, InitTypeInv, InitEvidenceInv, InitOriginInv
        DEF PromotionInv

LEMMA PromotionStep ==
    ASSUME SessionInv, SessionInv', PromotionInv, [Next /\ RecordOpener]_<<vars, opener>>
    PROVE  PromotionInv'
<1>1. [Next]_vars OBVIOUS
<1>2. /\ TypeInv /\ ReleaseInv /\ EvidenceInv
      /\ ContextsInv /\ KnownInv /\ StartInv /\ CompletionInv /\ OrderInv /\ TallyInv /\ OpenerInv
  BY DEF SessionInv, ContractInv, PromotionInv
<1>3. Moves BY <1>1, <1>2, NextMoves
<1>4. RecordOpener
  <2>1. CASE UNCHANGED <<vars, opener>>
    <3>1. trace' = trace /\ opener' = opener BY <2>1 DEF vars, acts
    <3>2. Len(trace) \in Nat BY <1>2 DEF TypeInv, TypeOK
    <3> QED BY <3>1, <3>2 DEF RecordOpener
  <2> QED BY <2>1
<1>5. ContextsInv' BY <1>2, <1>3, ContextsGrow
<1>6. KnownInv' BY <1>2, <1>3, KnownStep
<1>7. StartInv' /\ CompletionInv' BY <1>2, <1>3, StartStep, CompletionStep
<1>8. OrderInv' BY <1>2, <1>3, OrderStep
<1>9. TraceInv' BY DEF SessionInv, TellInv
<1>10. TallyInv' BY <1>2, <1>3, <1>9, TallyStep
<1>11. OpenerInv' BY <1>2, <1>3, <1>4, OpenerStep
<1>12. TypeInv' /\ EvidenceInv' /\ OriginInv' BY DEF SessionInv, ContractInv
<1> QED BY <1>5, <1>6, <1>7, <1>8, <1>10, <1>11, <1>12 DEF PromotionInv

\* What the operator has confirmed can be promoted, unless a control of the
\* trace has no portable name: Build refuses nothing else, whatever contexts
\* the pages open in one another, and the profiles declare what they name,
\* replay the clicks the browser made, and the login opens its own popups.
THEOREM ConfirmedIsPromotable == PromotionSpec => []CompletionIsPromotable
<1>1. Init => SessionInv
  <2>1. Init => ReleaseInv /\ WrittenInv BY DEF Init, ReleaseInv, WrittenInv
  <2> QED BY <2>1, InitTypeInv, InitEvidenceInv, InitOriginInv, InitTellInv DEF SessionInv, ContractInv
<1>2. SessionInv /\ [Next]_vars => SessionInv'
  BY TypeStep, ReleaseStep, EvidenceStep, OriginStep, WrittenStep, TellStep DEF SessionInv, ContractInv
<1>3. PromotionInit => WholeInv BY <1>1, InitPromotion DEF PromotionInit, WholeInv
<1>4. WholeInv /\ [Next /\ RecordOpener]_<<vars, opener>> => WholeInv'
  <2> SUFFICES ASSUME WholeInv, [Next /\ RecordOpener]_<<vars, opener>> PROVE WholeInv' OBVIOUS
  <2>1. SessionInv /\ PromotionInv /\ [Next]_vars BY DEF WholeInv
  <2>2. SessionInv' BY <1>2, <2>1
  <2>3. PromotionInv' BY <2>1, <2>2, PromotionStep
  <2> QED BY <2>2, <2>3 DEF WholeInv
<1>5. WholeInv => CompletionIsPromotable BY InvIsPromotable DEF WholeInv
<1> QED BY <1>3, <1>4, <1>5, PTL DEF PromotionSpec
=============================================================================
