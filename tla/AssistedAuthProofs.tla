------------------------- MODULE AssistedAuthProofs -------------------------
(***************************************************************************)
(* Theorems about AssistedAuth for any flows, lines, pages and bounds: no  *)
(* two steps share a signal of the human, and a bundle is what was         *)
(* observed.                                                               *)
(***************************************************************************)
EXTENDS AssistedAuth, FiniteSetTheorems, TLAPS

Places == {"open", "step", "landed", "armed", "await", "after", "fail", "report", "build", "done"}
\* Within a flow, its context being open.
Within == {"step", "landed", "armed", "await", "after", "fail", "report"}
Waiting == {"armed", "await", "after"}
Check == [kind: Kinds \cup {"success"}, origin: Origins \cup {Elsewhere}, matches: 0 .. 1,
          approved: Nat, observed: Nat]

TypeInv ==
    /\ TypeOK
    /\ lines \in Seq(Lines) /\ Len(lines) <= MaxLines
    /\ awaits \in Nat /\ checks \in Seq(Check)

\* Where Run is, and whether a context is open and a result returned.
RunInv ==
    /\ up <=> at \in Within
    /\ result = "none" <=> at # "done"
    /\ at \in Within => posts \in [1 .. Last -> Nat]
    /\ at = "landed" => step < Last /\ Now.kind = "navigate"
    /\ at \in Waiting => step < Last /\ Interactive(Now)
    /\ at \in Within \ {"report"} => Len(checks) = step - 1
    /\ at = "report" => step = Last /\ Len(checks) = Last
    /\ at \notin Within => checks = <<>> /\ step = 1
    /\ at = "build" \/ result = "bundle" => flow = Len(Steps)

\* At most the last Await's goroutine scans: an Await is left before its line
\* came only when Run is about to fail.
LineInv ==
    /\ readers \subseteq {awaits}
    /\ readers # {} => (at = "await" /\ ready = 0) \/ at \in {"fail", "done"}
    /\ \A u \in used : u.line \in 1 .. read /\ lines[u.line] = "empty"
    /\ \A u, v \in used : u.line = v.line => u = v
    /\ at = "await" /\ ready \notin {0, End} => ready \in 1 .. read /\ \A u \in used : u.line # ready

\* What left the page is what the guard counted, within the step's ceiling.
PostInv ==
    /\ at \in {"step", "landed", "after", "report"} => ~guard.active
    /\ at \in {"step", "landed"} => posts[step] = 0
    /\ at \in Waiting => posts[step] = guard.observed /\ guard.observed <= Now.budget
    /\ at \in {"armed", "await"} => guard.budget = Now.budget
    /\ at \in Within => \A i \in 1 .. Last : i > step => posts[i] = 0
    /\ \A i \in DOMAIN checks : checks[i].observed = posts[i] /\ posts[i] <= checks[i].approved

\* A violation is remembered by the guard until the context is gone, and then
\* by the result.
DirtyInv == dirty # {} => (up /\ guard.violated) \/ result = "error"

Passed(f, i) ==
    \/ f < flow
    \/ f = flow /\ (at = "build" \/ result = "bundle" \/ i < step \/ (i = step /\ at = "after"))

SignalInv ==
    \A f \in DOMAIN Steps : \A i \in DOMAIN Steps[f] :
        Interactive(Steps[f][i]) /\ Passed(f, i) => \E u \in used : u.flow = f /\ u.step = i

AssistInv == TypeInv /\ RunInv /\ LineInv /\ PostInv /\ DirtyInv /\ SignalInv

-----------------------------------------------------------------------------
(* The flows.                                                              *)

LEMMA Flows ==
    /\ Len(Steps) \in Nat /\ DOMAIN Steps = 1 .. Len(Steps)
    /\ \A f \in DOMAIN Steps :
          /\ Len(Steps[f]) \in Nat /\ DOMAIN Steps[f] = 1 .. Len(Steps[f])
          /\ \A i \in DOMAIN Steps[f] : Steps[f][i].kind \in Kinds /\ Steps[f][i].budget \in Nat
                                        /\ Steps[f][i].locator \in BOOLEAN
<1>1. Steps \in Seq(Seq(Step)) BY AssistAssumption
<1>2. Len(Steps) \in Nat /\ DOMAIN Steps = 1 .. Len(Steps) BY <1>1
<1>3. ASSUME NEW f \in DOMAIN Steps
      PROVE  /\ Len(Steps[f]) \in Nat /\ DOMAIN Steps[f] = 1 .. Len(Steps[f])
             /\ \A i \in DOMAIN Steps[f] : Steps[f][i] \in Step
  BY <1>1
<1> QED BY <1>2, <1>3 DEF Step

LEMMA HereTyped ==
    ASSUME TypeInv
    PROVE  /\ Last \in Nat /\ Last = Len(Steps[flow]) + 1 /\ step \in 1 .. Last /\ step \in Nat /\ flow \in Nat
           /\ step < Last => /\ step \in DOMAIN Steps[flow] /\ Now.kind \in Kinds /\ Now.budget \in Nat
                             /\ Now.locator \in BOOLEAN
BY Flows DEF TypeInv, TypeOK, Last, Now

LEMMA Appended ==
    ASSUME NEW S, NEW s \in Seq(S), NEW e \in S
    PROVE  /\ Append(s, e) \in Seq(S) /\ Len(Append(s, e)) = Len(s) + 1
           /\ \A i \in DOMAIN Append(s, e) :
                 (i \in DOMAIN s /\ Append(s, e)[i] = s[i]) \/ (i = Len(s) + 1 /\ Append(s, e)[i] = e)
OBVIOUS

LEMMA InitAssist == Init => AssistInv
<1> SUFFICES ASSUME Init PROVE AssistInv OBVIOUS
<1>1. 1 \in DOMAIN Steps BY Flows, AssistAssumption
<1>2. TypeOK
  <2>1. Len(Steps[1]) + 1 \in Nat /\ 1 \in 1 .. (Len(Steps[1]) + 1) BY <1>1, Flows
  <2>2. flow = 1 /\ step \in 1 .. Last BY <2>1 DEF Init, Last
  <2>3. /\ FreshGuard \in [violated: BOOLEAN, active: BOOLEAN, budget: Nat, observed: Nat, closing: BOOLEAN]
        /\ 0 \in 0 .. End
    BY AssistAssumption DEF FreshGuard, End
  <2>4. lines = <<>> /\ read = 0 /\ 0 \in 0 .. Len(lines) BY DEF Init
  <2>5. readers = {} /\ readers \subseteq 1 .. awaits BY DEF Init
  <2>6. at \in Places /\ matched = 0 /\ 0 \in 0 .. 1 /\ page = Elsewhere /\ up = FALSE /\ expired = FALSE
        /\ result = "none" /\ ready = 0 /\ guard = FreshGuard
    BY DEF Init, Places
  <2> QED BY <1>1, <2>2, <2>3, <2>4, <2>5, <2>6 DEF TypeOK, Places
<1>3. TypeInv
  <2>1. lines = <<>> /\ checks = <<>> /\ awaits = 0 BY DEF Init
  <2>2. Len(lines) <= MaxLines BY <2>1, AssistAssumption
  <2> QED BY <1>2, <2>1, <2>2 DEF TypeInv
<1>4. RunInv BY DEF Init, RunInv, Within, Waiting
<1>5. LineInv BY DEF Init, LineInv
<1>6. PostInv BY DEF Init, PostInv, Within, Waiting
<1>7. DirtyInv /\ SignalInv BY Flows DEF Init, DirtyInv, SignalInv, Passed
<1> QED BY <1>3, <1>4, <1>5, <1>6, <1>7 DEF AssistInv

-----------------------------------------------------------------------------
(* Run: the contexts.                                                      *)

LEMMA OpenKeeps == ASSUME AssistInv, Open PROVE AssistInv'
<1> USE DEF AssistInv
<1>1. /\ at = "open" /\ result = "none" /\ ~up /\ checks = <<>> /\ step = 1 /\ readers = {} /\ dirty = {}
      /\ UNCHANGED <<flow, step, matched, checks, reports, expired, awaits, used, humanVars>>
  BY DEF Open, RunInv, LineInv, DirtyInv, Running, Within
<1>2. CASE /\ up' = TRUE /\ at' = "step" /\ guard' = FreshGuard /\ page' = Elsewhere /\ tried' = 0
           /\ posts' = [i \in 1 .. Last |-> 0] /\ UNCHANGED <<result, dirty>>
  <2>1. Last' = Last /\ Last \in Nat BY <1>1, HereTyped DEF Last
  <2>2. TypeInv' BY <1>1, <1>2, <2>1 DEF TypeInv, TypeOK, FreshGuard, humanVars
  <2>3. RunInv' BY <1>1, <1>2, <2>1 DEF RunInv, Within, Waiting
  <2>4. LineInv' BY <1>1, <1>2 DEF LineInv, humanVars
  <2>5. PostInv'
    <3>1. 1 \in 1 .. Last BY <1>1, HereTyped
    <3> QED BY <1>1, <1>2, <2>1, <3>1 DEF PostInv, Within, Waiting, FreshGuard
  <2>6. DirtyInv' BY <1>1, <1>2 DEF DirtyInv
  <2>7. SignalInv' BY <1>1, <1>2 DEF SignalInv, Passed
  <2> QED BY <2>2, <2>3, <2>4, <2>5, <2>6, <2>7
<1>3. CASE result' = "error" /\ at' = "done" /\ UNCHANGED <<up, pageVars>>
  <2>1. TypeInv' BY <1>1, <1>3 DEF TypeInv, TypeOK, Last, humanVars, pageVars
  <2>2. RunInv' BY <1>1, <1>3 DEF RunInv, Within, Waiting, Last, Now
  <2>3. LineInv' BY <1>1, <1>3 DEF LineInv, humanVars
  <2>4. PostInv' BY <1>1, <1>3 DEF PostInv, Within, Waiting, pageVars
  <2>5. DirtyInv' BY <1>3 DEF DirtyInv
  <2>6. SignalInv' BY <1>1, <1>3 DEF SignalInv, Passed
  <2> QED BY <2>1, <2>2, <2>3, <2>4, <2>5, <2>6
<1> QED BY <1>2, <1>3 DEF Open

LEMMA CloseBeginsKeeps == ASSUME AssistInv, CloseBegins PROVE AssistInv'
<1> USE DEF AssistInv
<1>1. /\ guard' = [guard EXCEPT !.closing = TRUE]
      /\ UNCHANGED <<at, flow, step, matched, checks, reports, result, expired, up, awaits, used,
                     page, posts, tried, dirty, lines, read, readers, ready>>
  BY DEF CloseBegins, humanVars
<1>2. guard \in [violated: BOOLEAN, active: BOOLEAN, budget: Nat, observed: Nat, closing: BOOLEAN]
  BY DEF TypeInv, TypeOK
<1>3. /\ guard' \in [violated: BOOLEAN, active: BOOLEAN, budget: Nat, observed: Nat, closing: BOOLEAN]
      /\ guard'.active = guard.active /\ guard'.budget = guard.budget
      /\ guard'.observed = guard.observed /\ guard'.violated = guard.violated
  BY <1>1, <1>2
<1>4. TypeInv' BY <1>1, <1>3 DEF TypeInv, TypeOK, Last
<1>5. RunInv' /\ LineInv' BY <1>1 DEF RunInv, LineInv, Last, Now
<1>6. PostInv' BY <1>1, <1>3 DEF PostInv, Last, Now
<1>7. DirtyInv' /\ SignalInv' BY <1>1, <1>3 DEF DirtyInv, SignalInv, Passed
<1> QED BY <1>4, <1>5, <1>6, <1>7

LEMMA CloseEndsKeeps == ASSUME AssistInv, CloseEnds PROVE AssistInv'
<1> USE DEF AssistInv
<1>1. /\ at \in {"fail", "report"} /\ up' = FALSE /\ step' = 1 /\ checks' = <<>>
      /\ UNCHANGED <<matched, expired, awaits, used, guard, page, posts, tried, dirty,
                     lines, read, readers, ready>>
  BY DEF CloseEnds, pageVars, humanVars
<1>2. result = "none" BY <1>1 DEF RunInv
<1>3. <<>> \in Seq(Check) OBVIOUS
<1>4. CASE result' = "error" /\ at' = "done" /\ UNCHANGED <<flow, reports>>
  <2>1. Last' = Last /\ 1 \in 1 .. Last BY <1>4, HereTyped DEF Last
  <2>2. TypeInv' BY <1>1, <1>4, <1>3, <2>1 DEF TypeInv, TypeOK
  <2>3. RunInv' BY <1>1, <1>4 DEF RunInv, Within, Waiting
  <2>4. LineInv' BY <1>1, <1>4 DEF LineInv
  <2>5. PostInv' BY <1>1, <1>4 DEF PostInv, Within, Waiting
  <2>6. DirtyInv' BY <1>4 DEF DirtyInv
  <2>7. SignalInv' BY <1>1, <1>4, Flows DEF SignalInv, Passed
  <2> QED BY <2>2, <2>3, <2>4, <2>5, <2>6, <2>7
<1>5. CASE /\ at = "report" /\ ~guard.violated /\ result' = result
           /\ IF flow = Len(Steps) THEN at' = "build" /\ UNCHANGED flow ELSE at' = "open" /\ flow' = flow + 1
  <2>1. step = Last /\ readers = {} /\ dirty = {}
    BY <1>2, <1>5 DEF RunInv, LineInv, DirtyInv
  <2>2. flow' \in DOMAIN Steps /\ flow \in Nat /\ (at' = "build" => flow' = flow /\ flow = Len(Steps))
        /\ (at' = "open" => flow' = flow + 1) /\ at' \in {"build", "open"}
    BY <1>5, Flows, HereTyped DEF TypeInv, TypeOK
  <2>3. Len(Steps[flow']) \in Nat /\ Last' = Len(Steps[flow']) + 1 BY <2>2, Flows DEF Last
  <2>4. TypeInv'
    <3>1. step' \in 1 .. Last' BY <1>1, <2>3
    <3> QED BY <1>1, <1>2, <1>5, <1>3, <2>2, <3>1 DEF TypeInv, TypeOK
  <2>5. RunInv' BY <1>1, <1>2, <1>5, <2>2 DEF RunInv, Within, Waiting
  <2>6. LineInv' BY <1>1, <2>1, <2>2 DEF LineInv
  <2>7. PostInv' BY <1>1, <2>2 DEF PostInv, Within, Waiting
  <2>8. DirtyInv' BY <1>1, <2>1 DEF DirtyInv
  <2>9. ASSUME NEW f \in DOMAIN Steps, NEW i \in DOMAIN Steps[f], Interactive(Steps[f][i]), Passed(f, i)'
        PROVE  \E u \in used' : u.flow = f /\ u.step = i
    <3>1. f \in Nat /\ i \in Nat /\ i >= 1 /\ i < Len(Steps[f]) + 1 BY Flows
    <3>2. f < flow' \/ (f = flow' /\ at' = "build")
      BY <1>1, <1>2, <1>5, <2>2, <2>9, <3>1 DEF Passed
    <3>3. f <= flow BY <2>2, <3>1, <3>2
    <3>4. f = flow => i < step BY <2>1, <3>1 DEF Last
    <3>5. Passed(f, i) BY <2>2, <3>1, <3>4, <3>3 DEF Passed
    <3> QED BY <1>1, <2>9, <3>5 DEF SignalInv
  <2>10. SignalInv' BY <2>9 DEF SignalInv
  <2> QED BY <2>4, <2>5, <2>6, <2>7, <2>8, <2>10
<1>6. PICK failed \in BOOLEAN :
        IF at = "fail" \/ CloseError(failed)
        THEN result' = "error" /\ at' = "done" /\ UNCHANGED <<flow, reports>>
        ELSE /\ reports' = Append(reports, checks)
             /\ IF flow = Len(Steps) THEN at' = "build" /\ UNCHANGED flow
                ELSE at' = "open" /\ flow' = flow + 1
             /\ UNCHANGED result
  BY DEF CloseEnds
<1> QED BY <1>1, <1>4, <1>5, <1>6 DEF CloseError

LEMMA BuildKeeps == ASSUME AssistInv, Build PROVE AssistInv'
<1> USE DEF AssistInv
<1>1. /\ at = "build" /\ at' = "done" /\ result' \in {"bundle", "error"}
      /\ UNCHANGED <<flow, step, matched, checks, reports, expired, up, awaits, used, guard, page, posts,
                     tried, dirty, lines, read, readers, ready>>
  BY DEF Build, pageVars, humanVars
<1>2. result = "none" /\ ~up BY <1>1 DEF RunInv, Within
<1>3. TypeInv' BY <1>1 DEF TypeInv, TypeOK, Last
<1>4. RunInv' BY <1>1 DEF RunInv, Within, Waiting
<1>5. LineInv' BY <1>1 DEF LineInv
<1>6. PostInv' BY <1>1 DEF PostInv, Within, Waiting
<1>7. DirtyInv' BY <1>1, <1>2 DEF DirtyInv
<1>8. SignalInv' BY <1>1 DEF SignalInv, Passed
<1> QED BY <1>3, <1>4, <1>5, <1>6, <1>7, <1>8

-----------------------------------------------------------------------------
(* Run: the steps.                                                         *)

LEMMA StepFailsKeeps == ASSUME AssistInv, StepFails PROVE AssistInv'
<1> USE DEF AssistInv
<1>1. /\ at \in {"step", "landed", "armed", "after"} /\ at' = "fail"
      /\ UNCHANGED <<flow, step, matched, checks, reports, result, expired, up, awaits, used,
                     guard, page, posts, tried, dirty, lines, read, readers, ready>>
  BY DEF StepFails, Leave, pageVars, humanVars
<1>2. TypeInv' BY <1>1 DEF TypeInv, TypeOK, Last
<1>3. RunInv' BY <1>1 DEF RunInv, Within, Waiting, Last
<1>4. LineInv' BY <1>1 DEF LineInv
<1>5. PostInv' BY <1>1 DEF PostInv, Within, Waiting, Last
<1>6. DirtyInv' BY <1>1 DEF DirtyInv
<1>7. SignalInv' BY <1>1 DEF SignalInv, Passed
<1> QED BY <1>2, <1>3, <1>4, <1>5, <1>6, <1>7

LEMMA NavigateKeeps == ASSUME AssistInv, Navigate PROVE AssistInv'
<1> USE DEF AssistInv
<1>1. /\ at = "step" /\ at' = "landed" /\ step < Last /\ Now.kind = "navigate" /\ page' \in Origins
      /\ UNCHANGED <<flow, step, matched, checks, reports, result, expired, up, awaits, used,
                     guard, posts, tried, dirty, lines, read, readers, ready>>
  BY DEF Navigate, humanVars
<1>2. TypeInv' BY <1>1 DEF TypeInv, TypeOK, Last
<1>3. RunInv' BY <1>1 DEF RunInv, Within, Waiting, Last, Now
<1>4. LineInv' BY <1>1 DEF LineInv
<1>5. PostInv' BY <1>1 DEF PostInv, Within, Waiting, Last
<1>6. DirtyInv' BY <1>1 DEF DirtyInv
<1>7. SignalInv' BY <1>1 DEF SignalInv, Passed
<1> QED BY <1>2, <1>3, <1>4, <1>5, <1>6, <1>7

\* A step is passed: its check reports what left the page, and a human
\* signalled it if a human completes it.
LEMMA Advance ==
    ASSUME AssistInv, at \in {"step", "landed", "after"}, step < Last, ~guard.active,
           NEW check \in Check, check.observed = posts[step], posts[step] <= check.approved,
           Interactive(Now) => \E u \in used : u.flow = flow /\ u.step = step,
           checks' = Append(checks, check), step' = step + 1, at' = "step",
           UNCHANGED <<flow, matched, reports, result, expired, up, awaits, used,
                       guard, page, posts, tried, dirty, lines, read, readers, ready>>
    PROVE  AssistInv'
<1> USE DEF AssistInv
<1>1. /\ step \in Nat /\ Last \in Nat /\ Last' = Last /\ step + 1 \in 1 .. Last /\ step \in 1 .. Last
      /\ flow \in Nat /\ checks \in Seq(Check)
  BY HereTyped DEF TypeInv, Last
<1>2. Len(checks) = step - 1 /\ Len(checks') = step /\ checks' \in Seq(Check)
  BY <1>1 DEF RunInv, Within
<1>3. \A i \in DOMAIN checks' :
        (i \in DOMAIN checks /\ checks'[i] = checks[i]) \/ (i = step /\ checks'[i] = check)
  BY <1>1, <1>2, Appended
<1>4. TypeInv' BY <1>1, <1>2 DEF TypeInv, TypeOK
<1>5. RunInv' BY <1>1, <1>2 DEF RunInv, Within, Waiting
<1>6. LineInv' BY DEF LineInv
<1>7. PostInv'
  <2>1. posts[step + 1] = 0 BY <1>1 DEF PostInv, Within
  <2>2. \A i \in 1 .. Last : i > step + 1 => posts[i] = 0 BY <1>1 DEF PostInv, Within
  <2>3. \A i \in DOMAIN checks' : checks'[i].observed = posts[i] /\ posts[i] <= checks'[i].approved
    BY <1>3 DEF PostInv
  <2> QED BY <1>1, <2>1, <2>2, <2>3 DEF PostInv, Waiting
<1>8. DirtyInv' BY DEF DirtyInv
<1>9. ASSUME NEW f \in DOMAIN Steps, NEW i \in DOMAIN Steps[f], Interactive(Steps[f][i]), Passed(f, i)'
      PROVE  \E u \in used' : u.flow = f /\ u.step = i
  <2>1. i \in Nat BY Flows
  <2>2. Passed(f, i) \/ (f = flow /\ i = step) BY <1>1, <1>9, <2>1 DEF Passed
  <2> QED BY <1>9, <2>2 DEF SignalInv, Now
<1>10. SignalInv' BY <1>9 DEF SignalInv
<1> QED BY <1>4, <1>5, <1>6, <1>7, <1>8, <1>10

LEMMA Counts == 0 \in 0 .. 1 /\ 1 \in 0 .. 1 /\ 0 \in Nat
OBVIOUS

LEMMA LandedKeeps == ASSUME AssistInv, Landed PROVE AssistInv'
<1> DEFINE made == [kind |-> "navigate", origin |-> page, matches |-> 0, approved |-> 0, observed |-> 0]
<1>1. page \in Origins \cup {Elsewhere} BY DEF AssistInv, TypeInv, TypeOK
<1>2. PICK check \in Check : check = made BY <1>1, Counts DEF Check, Kinds
<1>3. at = "landed" /\ step < Last /\ ~guard.active /\ posts[step] = 0 /\ ~Interactive(Now)
  BY DEF Landed, AssistInv, RunInv, PostInv, Interactive
<1>4. checks' = Append(checks, check) BY <1>2 DEF Landed, Checked
<1> QED BY <1>2, <1>3, <1>4, Advance DEF Landed, pageVars, humanVars

LEMMA WaitForKeeps == ASSUME AssistInv, WaitFor PROVE AssistInv'
<1> DEFINE made == [kind |-> "wait_for", origin |-> page, matches |-> 1, approved |-> 0, observed |-> 0]
<1>1. page \in Origins \cup {Elsewhere} BY DEF AssistInv, TypeInv, TypeOK
<1>2. PICK check \in Check : check = made BY <1>1, Counts DEF Check, Kinds
<1>3. at = "step" /\ step < Last /\ ~guard.active /\ posts[step] = 0 /\ ~Interactive(Now)
  BY DEF WaitFor, AssistInv, PostInv, Interactive
<1>4. checks' = Append(checks, check) /\ at' = "step" BY <1>2, <1>3 DEF WaitFor, Checked
<1> QED BY <1>2, <1>3, <1>4, Advance DEF WaitFor, pageVars, humanVars

LEMMA AfterKeeps == ASSUME AssistInv, After PROVE AssistInv'
<1> DEFINE made == [kind |-> Now.kind, origin |-> page, matches |-> matched,
                    approved |-> Now.budget, observed |-> guard.observed]
<1>1. /\ page \in Origins \cup {Elsewhere} /\ matched \in 0 .. 1 /\ guard.observed \in Nat
      /\ flow \in DOMAIN Steps
  BY DEF AssistInv, TypeInv, TypeOK
<1>2. at = "after" /\ step < Last /\ Interactive(Now) /\ ~guard.active /\ posts[step] = guard.observed
      /\ posts[step] <= Now.budget
  BY DEF After, AssistInv, RunInv, PostInv, Waiting
<1>3. Now.kind \in Kinds /\ Now.budget \in Nat /\ step \in DOMAIN Steps[flow]
  BY <1>2, HereTyped DEF AssistInv
<1>4. PICK check \in Check : check = made BY <1>1, <1>3 DEF Check
<1>5. \E u \in used : u.flow = flow /\ u.step = step
  BY <1>1, <1>2, <1>3 DEF AssistInv, SignalInv, Passed, Now
<1>6. checks' = Append(checks, check) BY <1>4 DEF After, Checked
<1> QED BY <1>2, <1>4, <1>5, <1>6, Advance DEF After, pageVars, humanVars

LEMMA SucceedKeeps == ASSUME AssistInv, Succeed PROVE AssistInv'
<1> USE DEF AssistInv
<1>1. /\ at = "step" /\ at' = "report" /\ step = Last
      /\ UNCHANGED <<flow, step, matched, reports, result, expired, up, awaits, used,
                     guard, page, posts, tried, dirty, lines, read, readers, ready>>
  BY DEF Succeed, Leave, pageVars, humanVars
<1>2. page \in Origins \cup {Elsewhere} /\ checks \in Seq(Check) BY DEF TypeInv, TypeOK
<1>3. PICK check \in Check :
        check = [kind |-> "success", origin |-> page, matches |-> 1, approved |-> 0, observed |-> 0]
  BY <1>2, Counts DEF Check
<1>4. checks' = Append(checks, check) BY <1>3 DEF Succeed, Checked
<1>5. Last \in Nat /\ Last' = Last /\ step \in 1 .. Last /\ step \in Nat BY <1>1, HereTyped DEF Last
<1>6. Len(checks) = step - 1 /\ Len(checks') = step /\ checks' \in Seq(Check)
  BY <1>1, <1>2, <1>4, <1>5 DEF RunInv, Within
<1>7. \A i \in DOMAIN checks' :
        (i \in DOMAIN checks /\ checks'[i] = checks[i]) \/ (i = step /\ checks'[i] = check)
  BY <1>2, <1>4, <1>5, <1>6, Appended
<1>8. TypeInv' BY <1>1, <1>5, <1>6 DEF TypeInv, TypeOK
<1>9. RunInv' BY <1>1, <1>5, <1>6 DEF RunInv, Within, Waiting
<1>10. LineInv' BY <1>1 DEF LineInv
<1>11. PostInv'
  <2>1. posts[step] = 0 /\ ~guard.active BY <1>1 DEF PostInv
  <2>2. \A i \in DOMAIN checks' : checks'[i].observed = posts[i] /\ posts[i] <= checks'[i].approved
    BY <1>3, <1>7, <2>1 DEF PostInv
  <2>3. \A i \in 1 .. Last : i > step => posts[i] = 0 BY <1>1 DEF PostInv, Within
  <2> QED BY <1>1, <1>5, <2>1, <2>2, <2>3 DEF PostInv, Waiting
<1>12. DirtyInv' /\ SignalInv' BY <1>1 DEF DirtyInv, SignalInv, Passed
<1> QED BY <1>8, <1>9, <1>10, <1>11, <1>12

GuardType == [violated: BOOLEAN, active: BOOLEAN, budget: Nat, observed: Nat, closing: BOOLEAN]

LEMMA ArmKeeps == ASSUME AssistInv, Arm PROVE AssistInv'
<1> USE DEF AssistInv
<1>1. /\ at = "step" /\ at' = "armed" /\ step < Last /\ Interactive(Now) /\ matched' \in 0 .. 1
      /\ UNCHANGED <<flow, step, checks, reports, result, expired, up, awaits, used,
                     page, posts, tried, dirty, lines, read, readers, ready>>
  BY DEF Arm, humanVars
<1>2. Now.budget \in Nat /\ guard \in GuardType BY <1>1, HereTyped DEF TypeInv, TypeOK, GuardType
<1>3. /\ guard' \in GuardType /\ guard'.active = TRUE /\ guard'.budget = Now.budget /\ guard'.observed = 0
      /\ guard'.violated = guard.violated
  BY <1>2 DEF Arm, Armed, GuardType
<1>4. TypeInv' BY <1>1, <1>3 DEF TypeInv, TypeOK, Last, GuardType
<1>5. RunInv' BY <1>1 DEF RunInv, Within, Waiting, Last, Now
<1>6. LineInv' BY <1>1 DEF LineInv
<1>7. PostInv'
  <2>1. Last' = Last /\ Now' = Now BY <1>1 DEF Last, Now
  <2>2. posts[step] = 0 BY <1>1 DEF PostInv
  <2>3. 0 <= Now.budget BY <1>2
  <2> QED BY <1>1, <1>3, <2>1, <2>2, <2>3 DEF PostInv, Within, Waiting
<1>8. DirtyInv' BY <1>1, <1>3 DEF DirtyInv
<1>9. SignalInv' BY <1>1 DEF SignalInv, Passed
<1> QED BY <1>4, <1>5, <1>6, <1>7, <1>8, <1>9

LEMMA PromptKeeps == ASSUME AssistInv, Prompt PROVE AssistInv'
<1> USE DEF AssistInv
<1>1. /\ at = "armed" /\ at' = "await" /\ awaits' = awaits + 1 /\ readers' = readers \cup {awaits + 1}
      /\ ready' = 0
      /\ UNCHANGED <<flow, step, matched, checks, reports, result, expired, up, used, guard, page, posts,
                     tried, dirty, lines, read>>
  BY DEF Prompt, pageVars
<1>2. readers = {} /\ awaits \in Nat BY <1>1 DEF LineInv, TypeInv
<1>3. readers' = {awaits'} /\ awaits' \in Nat /\ readers' \subseteq 1 .. awaits' /\ ready' \in 0 .. End
  BY <1>1, <1>2, AssistAssumption DEF End
<1>4. TypeInv' BY <1>1, <1>3 DEF TypeInv, TypeOK, Last
<1>5. RunInv' BY <1>1 DEF RunInv, Within, Waiting, Last, Now
<1>6. LineInv' BY <1>1, <1>3 DEF LineInv
<1>7. PostInv' BY <1>1 DEF PostInv, Within, Waiting, Last, Now
<1>8. DirtyInv' BY <1>1 DEF DirtyInv
<1>9. SignalInv' BY <1>1 DEF SignalInv, Passed
<1> QED BY <1>4, <1>5, <1>6, <1>7, <1>8, <1>9

LEMMA DisarmKeeps == ASSUME AssistInv, Disarm PROVE AssistInv'
<1> USE DEF AssistInv
<1>1. /\ at = "await" /\ guard' = Disarmed
      /\ UNCHANGED <<flow, step, matched, checks, reports, result, expired, up, awaits,
                     page, posts, tried, dirty, lines, read, readers, ready>>
  BY DEF Disarm, humanVars
<1>2. guard \in GuardType BY DEF TypeInv, TypeOK, GuardType
<1>3. /\ guard' \in GuardType /\ guard'.active = FALSE /\ guard'.observed = guard.observed
      /\ guard'.violated = guard.violated
  BY <1>1, <1>2 DEF Disarmed, GuardType
<1>4. \/ at' = "fail" /\ used' = used
      \/ at' = "after" /\ "done" \in AwaitOutcomes
         /\ used' = used \cup {[flow |-> flow, step |-> step, line |-> ready]}
  BY DEF Disarm, Leave
<1>5. TypeInv' BY <1>1, <1>3, <1>4 DEF TypeInv, TypeOK, Last, GuardType
<1>6. RunInv' BY <1>1, <1>4 DEF RunInv, Within, Waiting, Last, Now
<1>7. PostInv' BY <1>1, <1>3, <1>4 DEF PostInv, Within, Waiting, Last, Now
<1>8. DirtyInv' BY <1>1, <1>3 DEF DirtyInv
<1>9. CASE at' = "fail" /\ used' = used
  <2>1. LineInv' BY <1>1, <1>9 DEF LineInv
  <2>2. SignalInv' BY <1>1, <1>9 DEF SignalInv, Passed
  <2> QED BY <1>5, <1>6, <1>7, <1>8, <2>1, <2>2
<1>10. CASE /\ at' = "after" /\ "done" \in AwaitOutcomes
            /\ used' = used \cup {[flow |-> flow, step |-> step, line |-> ready]}
  <2>1. ready \notin {0, End} /\ lines[ready] = "empty" BY <1>10 DEF AwaitOutcomes
  <2>2. ready \in 1 .. read /\ \A u \in used : u.line # ready BY <1>1, <2>1 DEF LineInv
  <2>3. readers = {} BY <1>1, <2>1 DEF LineInv
  <2>4. LineInv'
    <3> DEFINE new == [flow |-> flow, step |-> step, line |-> ready]
    <3>1. new.line = ready OBVIOUS
    <3>2. \A u \in used' : u \in used \/ u = new BY <1>10
    <3> HIDE DEF new
    <3>3. \A u \in used' : u.line \in 1 .. read /\ lines[u.line] = "empty"
      BY <2>1, <2>2, <3>1, <3>2 DEF LineInv
    <3>4. \A u, v \in used' : u.line = v.line => u = v BY <2>2, <3>1, <3>2 DEF LineInv
    <3> QED BY <1>1, <1>10, <2>3, <3>3, <3>4 DEF LineInv
  <2>5. ASSUME NEW f \in DOMAIN Steps, NEW i \in DOMAIN Steps[f], Interactive(Steps[f][i]), Passed(f, i)'
        PROVE  \E u \in used' : u.flow = f /\ u.step = i
    <3>1. Passed(f, i) \/ (f = flow /\ i = step) BY <1>1, <1>10, <2>5 DEF Passed
    <3>2. CASE Passed(f, i)
      <4>1. PICK u \in used : u.flow = f /\ u.step = i BY <2>5, <3>2 DEF SignalInv
      <4> QED BY <1>10, <4>1
    <3>3. CASE f = flow /\ i = step
      <4>1. PICK u : u = [flow |-> flow, step |-> step, line |-> ready] OBVIOUS
      <4>2. u \in used' /\ u.flow = flow /\ u.step = step BY <1>10, <4>1
      <4> QED BY <3>3, <4>2
    <3> QED BY <3>1, <3>2, <3>3
  <2>6. SignalInv' BY <2>5 DEF SignalInv
  <2> QED BY <1>5, <1>6, <1>7, <1>8, <2>4, <2>6
<1> QED BY <1>4, <1>9, <1>10

-----------------------------------------------------------------------------
(* The page, the lines, and time.                                          *)

LEMMA PostsKeeps == ASSUME AssistInv, Posts PROVE AssistInv'
<1> USE DEF AssistInv
<1>1. /\ up /\ at \in Within
      /\ UNCHANGED <<at, flow, step, matched, checks, reports, result, expired, up, awaits, used,
                     page, lines, read, readers, ready>>
  BY DEF Posts, humanVars, RunInv
<1>2. guard \in GuardType /\ posts \in [1 .. Last -> Nat] /\ step \in 1 .. Last /\ Last' = Last
  BY <1>1, HereTyped DEF TypeInv, TypeOK, GuardType, RunInv, Last
<1>3. LineInv' /\ SignalInv' BY <1>1 DEF LineInv, SignalInv, Passed
<1>4. CASE /\ Permitted(guard) /\ guard' = [guard EXCEPT !.observed = @ + 1]
           /\ posts' = [posts EXCEPT ![step] = @ + 1] /\ UNCHANGED dirty
  <2>1. /\ guard' \in GuardType /\ guard'.observed = guard.observed + 1 /\ guard'.active = guard.active
        /\ guard'.budget = guard.budget /\ guard'.violated = guard.violated
    BY <1>2, <1>4 DEF GuardType
  <2>2. /\ posts' \in [1 .. Last -> Nat] /\ posts'[step] = posts[step] + 1
        /\ \A i \in 1 .. Last : i # step => posts'[i] = posts[i]
    BY <1>2, <1>4
  <2>3. guard.active /\ guard.observed < guard.budget BY <1>4 DEF Permitted
  <2>4. at \in {"armed", "await", "fail"} BY <1>1, <2>3 DEF PostInv, Within
  <2>5. TypeInv' BY <1>1, <1>2, <2>1 DEF TypeInv, TypeOK, GuardType
  <2>6. RunInv' BY <1>1, <1>2, <2>2 DEF RunInv, Within, Waiting, Now
  <2>7. PostInv'
    <3>1. \A i \in DOMAIN checks : i \in 1 .. Last /\ i # step
      <4>1. Len(checks) = step - 1 /\ DOMAIN checks = 1 .. Len(checks)
        BY <2>4 DEF RunInv, Within, TypeInv
      <4> QED BY <1>2, <4>1, HereTyped
    <3>2. at \in {"armed", "await"} => /\ posts'[step] = guard'.observed /\ guard'.observed <= Now.budget
                                       /\ guard'.budget = Now.budget
      BY <1>2, <2>1, <2>2, <2>3 DEF PostInv, Waiting, GuardType
    <3>3. \A i \in 1 .. Last : i > step => posts'[i] = 0 BY <1>1, <1>2, <2>2, HereTyped DEF PostInv
    <3>4. \A i \in DOMAIN checks : checks[i].observed = posts'[i] /\ posts'[i] <= checks[i].approved
      BY <2>2, <3>1 DEF PostInv
    <3> QED BY <1>1, <1>2, <2>4, <3>2, <3>3, <3>4 DEF PostInv, Waiting, Now
  <2>8. DirtyInv' BY <1>1, <1>4, <2>1 DEF DirtyInv
  <2> QED BY <1>3, <2>5, <2>6, <2>7, <2>8
<1>5. CASE guard' = Violated(guard) /\ UNCHANGED posts
  <2>1. /\ guard' \in GuardType /\ guard'.violated /\ guard'.active = guard.active
        /\ guard'.budget = guard.budget /\ guard'.observed = guard.observed
    BY <1>2, <1>5 DEF Violated, GuardType
  <2>2. TypeInv' BY <1>1, <1>2, <2>1 DEF TypeInv, TypeOK, GuardType
  <2>3. RunInv' BY <1>1, <1>2, <1>5 DEF RunInv, Now
  <2>4. PostInv' BY <1>1, <1>2, <1>5, <2>1 DEF PostInv, Now
  <2>5. DirtyInv' BY <1>1, <2>1 DEF DirtyInv
  <2> QED BY <1>3, <2>2, <2>3, <2>4, <2>5
<1> QED BY <1>4, <1>5 DEF Posts

LEMMA TripsKeeps == ASSUME AssistInv, Trips PROVE AssistInv'
<1> USE DEF AssistInv
<1>1. /\ up /\ guard' = Violated(guard)
      /\ UNCHANGED <<at, flow, step, matched, checks, reports, result, expired, up, awaits, used,
                     page, posts, tried, lines, read, readers, ready>>
  BY DEF Trips, humanVars
<1>2. guard \in GuardType BY DEF TypeInv, TypeOK, GuardType
<1>3. /\ guard' \in GuardType /\ guard'.violated /\ guard'.active = guard.active
      /\ guard'.budget = guard.budget /\ guard'.observed = guard.observed
  BY <1>1, <1>2 DEF Violated, GuardType
<1>4. TypeInv' BY <1>1, <1>3 DEF TypeInv, TypeOK, Last, GuardType
<1>5. RunInv' /\ LineInv' BY <1>1 DEF RunInv, LineInv, Last, Now
<1>6. PostInv' BY <1>1, <1>3 DEF PostInv, Last, Now
<1>7. DirtyInv' /\ SignalInv' BY <1>1, <1>3 DEF DirtyInv, SignalInv, Passed
<1> QED BY <1>4, <1>5, <1>6, <1>7

LEMMA MovesKeeps == ASSUME AssistInv, Moves \/ Expire PROVE AssistInv'
<1> USE DEF AssistInv
<1>1. /\ page' \in Origins \cup {Elsewhere} /\ expired' \in BOOLEAN
      /\ UNCHANGED <<at, flow, step, matched, checks, reports, result, up, awaits, used,
                     guard, posts, tried, dirty, lines, read, readers, ready>>
  BY DEF Moves, Expire, pageVars, humanVars, TypeInv, TypeOK
<1>2. TypeInv' BY <1>1 DEF TypeInv, TypeOK, Last
<1>3. RunInv' /\ LineInv' BY <1>1 DEF RunInv, LineInv, Last, Now
<1>4. PostInv' BY <1>1 DEF PostInv, Last, Now
<1>5. DirtyInv' /\ SignalInv' BY <1>1 DEF DirtyInv, SignalInv, Passed
<1> QED BY <1>2, <1>3, <1>4, <1>5

\* Lines are only added, and each is read once: the next is no step's yet.
LEMMA TypesKeeps == ASSUME AssistInv, Types PROVE AssistInv'
<1> USE DEF AssistInv
<1>1. /\ Len(lines) < MaxLines
      /\ UNCHANGED <<at, flow, step, matched, checks, reports, result, expired, up, awaits, used,
                     guard, page, posts, tried, dirty, read, readers, ready>>
  BY DEF Types, pageVars
<1>2. PICK line \in Lines : lines' = Append(lines, line) BY DEF Types
<1>3. lines \in Seq(Lines) /\ read \in 0 .. Len(lines) /\ Len(lines) \in Nat BY DEF TypeInv, TypeOK
<1>4. /\ lines' \in Seq(Lines) /\ Len(lines') = Len(lines) + 1
      /\ \A i \in 1 .. Len(lines) : lines'[i] = lines[i]
  BY <1>2, <1>3
<1>5. Len(lines') <= MaxLines /\ read \in 0 .. Len(lines') BY <1>1, <1>3, <1>4, AssistAssumption
<1>6. TypeInv' BY <1>1, <1>4, <1>5 DEF TypeInv, TypeOK, Last
<1>7. RunInv' /\ PostInv' BY <1>1 DEF RunInv, PostInv, Last, Now
<1>8. LineInv'
  <2>1. \A u \in used : u.line \in 1 .. read /\ lines'[u.line] = "empty"
    <3> SUFFICES ASSUME NEW u \in used PROVE u.line \in 1 .. read /\ lines'[u.line] = "empty" OBVIOUS
    <3>1. u.line \in 1 .. read /\ lines[u.line] = "empty" BY DEF LineInv
    <3>2. u.line \in 1 .. Len(lines) BY <1>3, <3>1
    <3> QED BY <1>4, <3>1, <3>2
  <2> QED BY <1>1, <2>1 DEF LineInv
<1>9. DirtyInv' /\ SignalInv' BY <1>1 DEF DirtyInv, SignalInv, Passed
<1> QED BY <1>6, <1>7, <1>8, <1>9

LEMMA ScanKeeps == ASSUME AssistInv, ScanReturns PROVE AssistInv'
<1> USE DEF AssistInv
<1>1. UNCHANGED <<at, flow, step, matched, checks, reports, result, expired, up, awaits, used,
                  guard, page, posts, tried, dirty, lines>>
  BY DEF ScanReturns, pageVars
<1>2. PICK r \in readers :
        /\ readers' = readers \ {r}
        /\ \/ read < Len(lines) /\ read' = read + 1 /\ ready' = IF r = awaits THEN read + 1 ELSE ready
           \/ read = Len(lines) /\ ready' = (IF r = awaits THEN End ELSE ready) /\ read' = read
  BY DEF ScanReturns
<1>3. readers' = {} /\ r = awaits BY <1>2 DEF LineInv
<1>4. read \in 0 .. Len(lines) /\ Len(lines) \in Nat /\ Len(lines) <= MaxLines /\ MaxLines \in Nat
  BY AssistAssumption DEF TypeInv, TypeOK
<1>5. /\ read \in Nat /\ read' \in 0 .. Len(lines) /\ ready' \in 0 .. End /\ read' >= read
      /\ ready' # End => ready' = read + 1 /\ read' = read + 1
  BY <1>2, <1>3, <1>4 DEF End
<1>6. TypeInv' BY <1>1, <1>3, <1>5 DEF TypeInv, TypeOK, Last
<1>7. RunInv' /\ PostInv' BY <1>1 DEF RunInv, PostInv, Last, Now
<1>8. LineInv'
  <2>1. \A u \in used : u.line \in 1 .. read BY DEF LineInv
  <2>2. \A u \in used : u.line \in 1 .. read' BY <1>4, <1>5, <2>1
  <2>3. ready' # End => ready' \in 1 .. read' /\ \A u \in used : u.line # ready' BY <1>5, <2>1
  <2> QED BY <1>1, <1>3, <2>2, <2>3 DEF LineInv
<1>9. DirtyInv' /\ SignalInv' BY <1>1 DEF DirtyInv, SignalInv, Passed
<1> QED BY <1>6, <1>7, <1>8, <1>9

-----------------------------------------------------------------------------
(* Theorems.                                                               *)

LEMMA NextKeeps == ASSUME AssistInv, [Next]_vars PROVE AssistInv'
<1>1. CASE Run
  BY <1>1, OpenKeeps, NavigateKeeps, LandedKeeps, WaitForKeeps, ArmKeeps, AfterKeeps, SucceedKeeps,
     StepFailsKeeps, PromptKeeps, DisarmKeeps, CloseBeginsKeeps, CloseEndsKeeps, BuildKeeps
     DEF Run, Observe, Await, Close
<1>2. CASE Posts \/ Trips \/ Moves \/ Types \/ ScanReturns \/ Expire
  BY <1>2, PostsKeeps, TripsKeeps, MovesKeeps, TypesKeeps, ScanKeeps
<1>3. CASE UNCHANGED vars
  <2>1. UNCHANGED <<at, flow, step, matched, checks, reports, result, expired, up, awaits, used,
                    guard, page, posts, tried, dirty, lines, read, readers, ready>>
    BY <1>3 DEF vars, pageVars, humanVars
  <2> QED BY <2>1 DEF AssistInv, TypeInv, TypeOK, RunInv, LineInv, PostInv, DirtyInv, SignalInv, Passed,
                      Last, Now
<1> QED BY <1>1, <1>2, <1>3 DEF Next

\* At most one goroutine scans the input, every completed step had an empty
\* line, and a line of its own.
THEOREM SignalsOwned == Spec => []SignalsAreNotShared
<1>1. AssistInv => SignalsAreNotShared
  <2> SUFFICES ASSUME AssistInv PROVE SignalsAreNotShared OBVIOUS
  <2>1. readers = {} \/ readers = {awaits} BY DEF AssistInv, LineInv
  <2>2. CASE readers = {} BY <2>2, FS_EmptySet DEF AssistInv, TypeInv, LineInv, SignalsAreNotShared
  <2>3. CASE readers = {awaits}
    <3>1. Cardinality(readers) = 1 BY <2>3, FS_Singleton
    <3> QED BY <3>1 DEF AssistInv, TypeInv, LineInv, SignalsAreNotShared
  <2> QED BY <2>1, <2>2, <2>3
<1> QED BY <1>1, InitAssist, NextKeeps, PTL DEF Spec

\* A check reports what left the page; a bundle is returned with every context
\* gone, unviolated, and every interactive step signalled.
THEOREM BundleObserved == Spec => []BundleIsObserved
<1>1. AssistInv => BundleIsObserved
  <2> SUFFICES ASSUME AssistInv PROVE BundleIsObserved OBVIOUS
  <2>1. \A i \in DOMAIN checks : checks[i].observed = posts[i] /\ posts[i] <= checks[i].approved
    BY DEF AssistInv, PostInv
  <2>2. ASSUME result = "bundle"
        PROVE  /\ ~up /\ dirty = {}
               /\ \A f \in DOMAIN Steps : \A i \in DOMAIN Steps[f] :
                    Interactive(Steps[f][i]) => \E u \in used : u.flow = f /\ u.step = i
    <3>1. at = "done" /\ ~up /\ flow = Len(Steps) BY <2>2 DEF AssistInv, RunInv, Within
    <3>2. dirty = {} BY <2>2, <3>1 DEF AssistInv, DirtyInv
    <3>3. \A f \in DOMAIN Steps : \A i \in DOMAIN Steps[f] : Passed(f, i)
      BY <2>2, <3>1, Flows DEF Passed
    <3> QED BY <3>1, <3>2, <3>3 DEF AssistInv, SignalInv
  <2> QED BY <2>1, <2>2 DEF BundleIsObserved
<1> QED BY <1>1, InitAssist, NextKeeps, PTL DEF Spec
=============================================================================
