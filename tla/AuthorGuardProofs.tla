-------------------------- MODULE AuthorGuardProofs --------------------------
(***************************************************************************)
(* Theorems about AuthorGuard for any origins, requests, popups and        *)
(* limits: nothing is left open between calls, nothing lost silently,      *)
(* nothing let through without authority, and a violation is final.        *)
(***************************************************************************)
EXTENDS AuthorGuard, Integers, FiniteSetTheorems, TLAPS

\* The requests that hold a slot.
Busy == {r \in Request : fate[r] \in {"granted", "denied"}}
SlotInv == IsFiniteSet(Busy) /\ Cardinality(Busy) <= Slots

\* TypeOK but for the slots.
Types ==
    /\ origins \subseteq Origin
    /\ {violation, postActive, navigationActive, closing, done, expectingPopup, settled} \subseteq BOOLEAN
    /\ requests \in Nat
    /\ bytes \in 0..MaxBytes
    /\ postBudget \in Budget \cup {0}
    /\ postObserved \in 0..postBudget
    /\ fate \in [Request -> Fate]
    /\ kind \in [Request -> KindType]
    /\ popup \in [Popup -> {"none", "open", "closed", "gone"}]
    /\ unseen \cup watched \cup registered \cup popupEvents \cup before \cup opened \subseteq Popup
    /\ thread \in Thread
    /\ calls \in 0..MaxCalls
    /\ {admitted, reported, observed, contacts} \subseteq Nat

\* A window of authority is open in its own part of a call only.
WindowInv ==
    /\ postActive => thread \in {"click", "shut"}
    /\ navigationActive => thread \in {"opening", "goto", "click", "shut"}
    /\ expectingPopup => thread \in {"expect", "click"}
    /\ popupEvents # {} => thread \in {"expect", "click"}
    /\ opened # {} => thread \in {"shut", "compare", "register"}

\* The POSTs let through are those reported and those of the click at hand,
\* which its window counts first and its call later.
CountInv ==
    /\ thread \in {"open", "opening", "idle", "goto", "expect"} => admitted = reported
    /\ thread \in {"click", "shut"} => admitted = reported + postObserved
    /\ thread \in {"compare", "register"} => admitted = reported + observed
    /\ contacts <= requests /\ contacts <= MaxRequests

\* The threads of a session that may still succeed.
AtWork == {"open", "opening", "idle", "goto", "expect", "click", "shut", "compare", "register"}

\* Closing before Close is the loss of the channel.
ClosingInv == done = closing /\ (closing /\ thread \in AtWork \cup {"failed", "undo"} => violation)

\* An open page is registered, or on its way to be; on the way it is watched
\* from its event on, and it is on no way before it is there.
PageInv ==
    /\ \A p \in Popup : popup[p] = "none" => p \notin unseen \cup registered \cup popupEvents \cup opened
    /\ \A p \in Popup : popup[p] = "open" /\ p \in registered \cup popupEvents \cup opened => p \in watched
    /\ thread \in AtWork /\ ~violation =>
          \A p \in Popup : popup[p] = "open" => p \in registered \cup unseen \cup popupEvents \cup opened

GuardInv == Types /\ SlotInv /\ WindowInv /\ CountInv /\ ClosingInv /\ PageInv /\ NothingLostSilently

-----------------------------------------------------------------------------
(* What several actions leave alone.                                       *)

LEMMA AnyKindType == AnyKind \in KindType
BY GuardAssumption DEF AnyKind

LEMMA Limits == MaxBytes \in Nat /\ MaxRequests \in Nat /\ Slots \in Nat /\ MaxCalls \in Nat
BY GuardAssumption

\* A slot that is free can be taken by one more request.
LEMMA TakeSlot ==
    ASSUME Types, SlotInv, SlotFree, NEW r \in Request, NEW f, fate' = [fate EXCEPT ![r] = f]
    PROVE  SlotInv'
<1>1. Busy' \subseteq Busy \cup {r} BY DEF Busy, Types
<1>2. IsFiniteSet(Busy \cup {r}) /\ Cardinality(Busy \cup {r}) <= Cardinality(Busy) + 1
  <2>1. Cardinality(Busy) \in Nat BY FS_CardinalityType DEF SlotInv
  <2> QED BY <2>1, FS_AddElement DEF SlotInv
<1>3. IsFiniteSet(Busy') /\ Cardinality(Busy') <= Cardinality(Busy \cup {r}) BY <1>1, <1>2, FS_Subset
<1>4. Cardinality(Busy) \in Nat /\ Cardinality(Busy') \in Nat /\ Cardinality(Busy \cup {r}) \in Nat
  BY <1>2, <1>3, FS_CardinalityType DEF SlotInv
<1>5. Cardinality(Busy) < Slots BY DEF SlotFree, Busy
<1> QED BY <1>2, <1>3, <1>4, <1>5, GuardAssumption DEF SlotInv

\* And no other change of a request's fate takes one.
LEMMA KeepSlots ==
    ASSUME Types, SlotInv,
           \A r \in Request : fate'[r] \in {"granted", "denied"} => fate[r] \in {"granted", "denied"}
    PROVE  SlotInv'
<1>1. Busy' \subseteq Busy BY DEF Busy
<1>2. IsFiniteSet(Busy') /\ Cardinality(Busy') <= Cardinality(Busy) BY <1>1, FS_Subset DEF SlotInv
<1>3. Cardinality(Busy) \in Nat /\ Cardinality(Busy') \in Nat BY <1>2, FS_CardinalityType DEF SlotInv
<1> QED BY <1>2, <1>3, GuardAssumption DEF SlotInv

\* Who does not touch the requests loses none.
LEMMA TrafficKept ==
    ASSUME GuardInv, UNCHANGED traffic, violation => violation', closing => closing'
    PROVE  SlotInv' /\ NothingLostSilently'
<1>1. SlotInv' BY KeepSlots DEF GuardInv, traffic
<1>2. NothingLostSilently' BY DEF GuardInv, traffic, NothingLostSilently, PolicyMatches
<1> QED BY <1>1, <1>2

LEMMA InitGuard == Init => GuardInv
<1> SUFFICES ASSUME Init PROVE GuardInv OBVIOUS
<1>1. Types
  <2>1. 0 \in 0 .. MaxBytes /\ 0 \in 0 .. MaxCalls /\ 0 \in 0 .. 0 BY Limits
  <2>2. fate \in [Request -> Fate] /\ thread \in Thread BY DEF Init, Fate, Thread
  <2>3. kind \in [Request -> KindType] BY AnyKindType DEF Init
  <2>4. origins \subseteq Origin BY GuardAssumption DEF Init
  <2>5. {violation, postActive, navigationActive, closing, done, expectingPopup, settled} \subseteq BOOLEAN
    BY DEF Init
  <2>6. /\ popup \in [Popup -> {"none", "open", "closed", "gone"}]
        /\ unseen \cup watched \cup registered \cup popupEvents \cup before \cup opened \subseteq Popup
    BY DEF Init
  <2>7. /\ requests = 0 /\ bytes = 0 /\ postBudget = 0 /\ postObserved = 0 /\ calls = 0
        /\ admitted = 0 /\ reported = 0 /\ observed = 0 /\ contacts = 0
    BY DEF Init
  <2> QED BY <2>1, <2>2, <2>3, <2>4, <2>5, <2>6, <2>7 DEF Types
<1>2. SlotInv
  <2>1. Busy = {} BY DEF Init, Busy
  <2> QED BY <2>1, FS_EmptySet, GuardAssumption DEF SlotInv
<1>3. WindowInv /\ CountInv /\ ClosingInv
  <2>1. WindowInv /\ ClosingInv BY DEF Init, WindowInv, ClosingInv
  <2>2. thread = "open" /\ admitted = 0 /\ reported = 0 /\ contacts = 0 /\ requests = 0 BY DEF Init
  <2>3. CountInv BY <2>2, Limits DEF CountInv
  <2> QED BY <2>1, <2>3
<1>4. PageInv BY DEF Init, PageInv
<1>5. NothingLostSilently BY DEF Init, NothingLostSilently
<1> QED BY <1>1, <1>2, <1>3, <1>4, <1>5 DEF GuardInv
-----------------------------------------------------------------------------
(* Requests.                                                               *)

\* What a step of a request leaves alone but for the guard's accounts.
LEMMA ProgramKept ==
    ASSUME GuardInv, UNCHANGED <<postActive, navigationActive, done, closing, pages, program>>,
           violation => violation'
    PROVE  WindowInv' /\ ClosingInv' /\ PageInv'
<1>1. WindowInv' BY DEF GuardInv, WindowInv, pages, program, locals
<1>2. ClosingInv' BY DEF GuardInv, ClosingInv, program
<1>3. PageInv' BY DEF GuardInv, PageInv, pages, program, locals
<1> QED BY <1>1, <1>2, <1>3

LEMMA IssueKeeps ==
    ASSUME GuardInv, NEW r \in Request, Issue(r)
    PROVE  GuardInv'
<1>1. violation => violation' BY DEF Issue, Block
<1>2. Types'
  BY GuardAssumption DEF Issue, Block, GuardInv, Types, windows, pages, program, locals, history, Fate
<1>3. SlotInv' BY KeepSlots DEF Issue, GuardInv, Types
<1>4. WindowInv' /\ ClosingInv' /\ PageInv' BY <1>1, ProgramKept DEF Issue, windows
<1>5. CountInv' BY DEF Issue, GuardInv, CountInv, windows, program, locals, history
<1>6. NothingLostSilently'
  BY DEF Issue, Block, Sound, GuardInv, Types, NothingLostSilently, PolicyMatches
<1> QED BY <1>2, <1>3, <1>4, <1>5, <1>6 DEF GuardInv

LEMMA PausedKeeps ==
    ASSUME GuardInv, NEW r \in Request, Paused(r)
    PROVE  GuardInv'
<1>1. CASE AllowRequest(r) /\ SlotFree /\ ~done
  <2> DEFINE k == kind[r]
             admit == ~closing /\ ~violation /\ WithinLimit /\ ~PolicyMatches(k) /\ Acceptable(k)
  <2>1. violation => violation' BY <1>1 DEF AllowRequest
  <2>2. postObserved' \in 0..postBudget
    BY <1>1, GuardAssumption DEF AllowRequest, Acceptable, GuardInv, Types
  <2>3. Types'
    BY <1>1, <2>2, AnyKindType DEF Paused, AllowRequest, GuardInv, Types, pages, program, locals, Fate
  <2>4. SlotInv' BY <1>1, TakeSlot DEF AllowRequest, GuardInv
  <2>5. WindowInv' /\ ClosingInv' /\ PageInv' BY <2>1, ProgramKept DEF Paused
  <2>6. CountInv'
    <3>1. contacts' <= requests' /\ contacts' <= MaxRequests
      BY <1>1, GuardAssumption DEF AllowRequest, WithinLimit, GuardInv, Types, CountInv
    <3>2. CASE admit /\ k.method = "POST"
      <4>1. postActive BY <3>2 DEF Acceptable
      <4>2. thread \in {"click", "shut"} BY <4>1 DEF GuardInv, WindowInv
      <4>3. postObserved' = postObserved + 1 /\ admitted' = admitted + 1 BY <1>1, <3>2 DEF AllowRequest
      <4> QED BY <3>1, <4>2, <4>3 DEF Paused, GuardInv, Types, CountInv, program, locals
    <3>3. CASE ~(admit /\ k.method = "POST")
      <4>1. UNCHANGED <<postObserved, admitted>> BY <1>1, <3>3 DEF AllowRequest
      <4> QED BY <3>1, <4>1 DEF Paused, GuardInv, Types, CountInv, program, locals
    <3> QED BY <3>2, <3>3
  <2>7. NothingLostSilently'
    BY <1>1 DEF Paused, AllowRequest, GuardInv, Types, NothingLostSilently, PolicyMatches
  <2> QED BY <2>3, <2>4, <2>5, <2>6, <2>7 DEF GuardInv
<1>2. CASE /\ fate' = [fate EXCEPT ![r] = "stranded"]
           /\ Forget(r)
           /\ IF done THEN UNCHANGED violation ELSE Block
           /\ UNCHANGED <<requests, postObserved, admitted, contacts>>
  <2>1. violation => violation' BY <1>2 DEF Block
  <2>2. Types'
    BY <1>2, AnyKindType DEF Paused, Forget, Block, GuardInv, Types, pages, program, locals, Fate
  <2>3. SlotInv' BY <1>2, KeepSlots DEF GuardInv, Types
  <2>4. WindowInv' /\ ClosingInv' /\ PageInv' BY <2>1, ProgramKept DEF Paused
  <2>5. CountInv' BY <1>2 DEF Paused, GuardInv, CountInv, program, locals
  <2>6. NothingLostSilently'
    BY <1>2 DEF Paused, Forget, Block, GuardInv, Types, ClosingInv, NothingLostSilently, PolicyMatches
  <2> QED BY <2>2, <2>3, <2>4, <2>5, <2>6 DEF GuardInv
<1> QED BY <1>1, <1>2 DEF Paused

LEMMA AnswerKeeps ==
    ASSUME GuardInv, NEW r \in Request, Answer(r)
    PROVE  GuardInv'
<1>1. violation => violation' BY DEF Answer, CommandFails, Block
<1>2. Types'
  BY AnyKindType DEF Answer, CommandFails, Forget, Block, GuardInv, Types, windows, pages, program, locals,
                     history, Fate
<1>3. SlotInv' BY KeepSlots DEF Answer, GuardInv, Types
<1>4. WindowInv' /\ ClosingInv' /\ PageInv' BY <1>1, ProgramKept DEF Answer, windows
<1>5. CountInv' BY DEF Answer, GuardInv, CountInv, windows, program, locals, history
<1>6. NothingLostSilently'
  <2>1. ASSUME NEW q \in Request, q # r, fate'[q] \in {"denied", "stranded"}
        PROVE  violation' \/ closing' \/ PolicyMatches(kind[q])'
    <3>1. fate'[q] = fate[q] /\ kind'[q] = kind[q] BY <2>1 DEF Answer, Forget, GuardInv, Types
    <3> QED BY <1>1, <2>1, <3>1 DEF Answer, GuardInv, NothingLostSilently, PolicyMatches
  <2>2. ASSUME fate'[r] \in {"denied", "stranded"} PROVE violation' \/ closing'
    <3>1. CommandFails BY <2>2 DEF Answer, GuardInv, Types
    <3> QED BY <3>1 DEF Answer, CommandFails, Block, GuardInv, ClosingInv
  <2> QED BY <2>1, <2>2 DEF NothingLostSilently
<1> QED BY <1>2, <1>3, <1>4, <1>5, <1>6 DEF GuardInv

LEMMA FinishKeeps ==
    ASSUME GuardInv, NEW r \in Request, Finish(r)
    PROVE  GuardInv'
<1>1. violation => violation' BY DEF Finish, Block
<1>2. bytes' \in 0..MaxBytes
  <2>1. bytes \in 0..MaxBytes BY DEF GuardInv, Types
  <2>2. ASSUME NEW size \in Size, ~(bytes + size > MaxBytes), bytes' = bytes + size
        PROVE  bytes' \in 0..MaxBytes
    <3>1. size \in Nat BY GuardAssumption
    <3> QED BY <2>1, <2>2, <3>1, Limits
  <2> QED BY <2>1, <2>2 DEF Finish
<1>3. Types'
  BY <1>2, AnyKindType DEF Finish, Forget, Block, GuardInv, Types, windows, pages, program, locals,
                           history, Fate
<1>4. SlotInv' BY KeepSlots DEF Finish, GuardInv, Types
<1>5. WindowInv' /\ ClosingInv' /\ PageInv' BY <1>1, ProgramKept DEF Finish, windows
<1>6. CountInv' BY DEF Finish, GuardInv, CountInv, windows, program, locals, history
<1>7. NothingLostSilently'
  BY <1>1 DEF Finish, Forget, GuardInv, Types, NothingLostSilently, PolicyMatches
<1> QED BY <1>3, <1>4, <1>5, <1>6, <1>7 DEF GuardInv

LEMMA ChannelClosesKeeps ==
    ASSUME GuardInv, ChannelCloses
    PROVE  GuardInv'
<1>1. violation' BY DEF ChannelCloses, Block, GuardInv, ClosingInv
<1>2. Types' BY DEF ChannelCloses, Block, GuardInv, Types, windows, traffic, pages, program, locals, history
<1>3. SlotInv' /\ NothingLostSilently' BY <1>1, TrafficKept DEF ChannelCloses
<1>4. WindowInv' /\ CountInv'
  BY DEF ChannelCloses, GuardInv, WindowInv, CountInv, windows, pages, program, locals, history
<1>5. ClosingInv' BY <1>1 DEF ChannelCloses, ClosingInv
<1>6. PageInv' BY <1>1 DEF ChannelCloses, GuardInv, PageInv, pages, program, locals
<1> QED BY <1>2, <1>3, <1>4, <1>5, <1>6 DEF GuardInv
-----------------------------------------------------------------------------
(* Pages.                                                                  *)

\* Every step of a page takes it further, and none but OpenPopup opens it.
Onward(p) ==
    /\ popup'[p] = "open" => popup[p] = "open"
    /\ popup'[p] = "none" => popup[p] = "none"

\* What a step of a page leaves alone.
LEMMA AccountsKept ==
    ASSUME GuardInv, UNCHANGED <<origins, requests, bytes, windows, closing, done, traffic, program, history>>,
           violation => violation'
    PROVE  SlotInv' /\ CountInv' /\ ClosingInv' /\ NothingLostSilently'
<1>1. SlotInv' /\ NothingLostSilently' BY TrafficKept
<1>2. CountInv' BY DEF GuardInv, CountInv, windows, program, locals, history
<1>3. ClosingInv' BY DEF GuardInv, ClosingInv, program
<1> QED BY <1>1, <1>2, <1>3

LEMMA OpenPopupKeeps ==
    ASSUME GuardInv, NEW p \in Popup, OpenPopup(p)
    PROVE  GuardInv'
<1>1. SlotInv' /\ CountInv' /\ ClosingInv' /\ NothingLostSilently'
  BY AccountsKept DEF OpenPopup, guard
<1>2. Types' BY DEF OpenPopup, GuardInv, Types, guard, windows, traffic, program, locals, history
<1>3. WindowInv' BY DEF OpenPopup, GuardInv, WindowInv, guard, windows, program, locals
<1>4. PageInv'
  <2>1. \A q \in Popup \ {p} : popup'[q] = popup[q] BY DEF OpenPopup, GuardInv, Types
  <2>2. popup'[p] = "open" /\ popup[p] = "none" BY DEF OpenPopup, GuardInv, Types
  <2>3. p \notin registered \cup popupEvents \cup opened BY <2>2 DEF GuardInv, PageInv
  <2> QED BY <2>1, <2>2, <2>3 DEF OpenPopup, GuardInv, PageInv, guard, program, locals
<1> QED BY <1>1, <1>2, <1>3, <1>4 DEF GuardInv

LEMMA PopupEventKeeps ==
    ASSUME GuardInv, NEW p \in Popup, PopupEvent(p)
    PROVE  GuardInv'
<1>1. violation => violation' BY DEF PopupEvent, Block
<1>2. SlotInv' /\ CountInv' /\ ClosingInv' /\ NothingLostSilently'
  BY <1>1, AccountsKept DEF PopupEvent
<1>3. CASE expectingPopup
  <2>1. Types'
    BY <1>3 DEF PopupEvent, GuardInv, Types, windows, traffic, program, locals, history
  <2>2. WindowInv' BY <1>3 DEF PopupEvent, GuardInv, WindowInv, windows, program, locals
  <2>3. PageInv' BY <1>3 DEF Onward, PopupEvent, GuardInv, PageInv, program, locals
  <2> QED BY <1>2, <2>1, <2>2, <2>3 DEF GuardInv
<1>4. CASE ~expectingPopup
  <2>1. popup' \in [Popup -> {"none", "open", "closed", "gone"}]
    BY <1>4 DEF PopupEvent, GuardInv, Types
  <2>2. Types'
    BY <1>4, <2>1 DEF PopupEvent, Block, GuardInv, Types, windows, traffic, program, locals, history
  <2>3. WindowInv' BY <1>4 DEF PopupEvent, GuardInv, WindowInv, windows, program, locals
  <2>4. \A q \in Popup : Onward(q)
    BY <1>4 DEF Onward, PopupEvent, GuardInv, Types
  <2>5. violation' \/ thread \notin AtWork
    BY <1>4 DEF PopupEvent, Block, GuardInv, ClosingInv
  <2>6. PageInv' BY <1>4, <2>4, <2>5 DEF Onward, PopupEvent, GuardInv, PageInv, program, locals
  <2> QED BY <1>2, <2>2, <2>3, <2>6 DEF GuardInv
<1> QED BY <1>3, <1>4

LEMMA PopupClosesKeeps ==
    ASSUME GuardInv, NEW p \in Popup, PopupCloses(p)
    PROVE  GuardInv'
<1>1. SlotInv' /\ CountInv' /\ ClosingInv' /\ NothingLostSilently'
  BY AccountsKept DEF PopupCloses, guard
<1>2. Types' BY DEF PopupCloses, GuardInv, Types, guard, windows, traffic, program, locals, history
<1>3. WindowInv' BY DEF PopupCloses, GuardInv, WindowInv, guard, windows, program, locals
<1>4. \A q \in Popup : Onward(q) BY DEF Onward, PopupCloses, GuardInv, Types
<1>5. PageInv' BY <1>4 DEF Onward, PopupCloses, GuardInv, PageInv, guard, program, locals
<1> QED BY <1>1, <1>2, <1>3, <1>5 DEF GuardInv

LEMMA CloseEventKeeps ==
    ASSUME GuardInv, NEW p \in Popup, CloseEvent(p)
    PROVE  GuardInv'
<1>1. violation => violation' BY DEF CloseEvent, Block
<1>2. SlotInv' /\ CountInv' /\ ClosingInv' /\ NothingLostSilently'
  BY <1>1, AccountsKept DEF CloseEvent
<1>3. Types'
  BY DEF CloseEvent, Block, GuardInv, Types, windows, traffic, program, locals, history
<1>4. WindowInv' BY DEF CloseEvent, GuardInv, WindowInv, windows, program, locals
<1>5. \A q \in Popup : Onward(q) /\ (popup'[q] = "open" => q # p)
  BY DEF Onward, CloseEvent, GuardInv, Types
<1>6. PageInv' BY <1>1, <1>5 DEF Onward, CloseEvent, GuardInv, PageInv, program, locals
<1> QED BY <1>2, <1>3, <1>4, <1>6 DEF GuardInv

LEMMA TroubleKeeps ==
    ASSUME GuardInv, Trouble
    PROVE  GuardInv'
<1>1. violation' BY DEF Trouble, Block
<1>2. SlotInv' /\ CountInv' /\ ClosingInv' /\ NothingLostSilently'
  BY <1>1, AccountsKept DEF Trouble
<1>3. Types' BY DEF Trouble, Block, GuardInv, Types, windows, traffic, pages, program, locals, history
<1>4. WindowInv' /\ PageInv' BY <1>1, ProgramKept DEF Trouble, windows
<1> QED BY <1>2, <1>3, <1>4 DEF GuardInv

LEMMA BrowserKeeps ==
    ASSUME GuardInv, Browser
    PROVE  GuardInv'
BY IssueKeeps, PausedKeeps, AnswerKeeps, FinishKeeps, ChannelClosesKeeps, OpenPopupKeeps, PopupEventKeeps,
   PopupClosesKeeps, CloseEventKeeps, TroubleKeeps DEF Browser
-----------------------------------------------------------------------------
(* The protocol thread.                                                    *)

LEMMA NoLocalsTypes ==
    ASSUME NoLocals
    PROVE  settled' \in BOOLEAN /\ observed' \in Nat /\ before' \subseteq Popup /\ opened' \subseteq Popup
BY DEF NoLocals

LEMMA OpenKeeps ==
    ASSUME GuardInv, Open \/ Navigated \/ ExecuteNavigate
    PROVE  GuardInv'
<1>1. /\ UNCHANGED <<origins, violation, requests, bytes, postActive, postBudget, postObserved, closing,
                     done, traffic, pages, locals, history>>
      /\ navigationActive' \in BOOLEAN
      /\ navigationActive' => thread' \in {"opening", "goto"}
      /\ thread \in {"open", "opening", "goto", "idle"}
      /\ thread' \in {"opening", "goto", "idle", "failed", "undo"}
  <2>1. CASE Open BY <2>1 DEF Open, BeginNavigation, GuardInv, Types, WindowInv
  <2>2. CASE Navigated BY <2>2 DEF Navigated, EndNavigation
  <2>3. CASE ExecuteNavigate
    <3>1. navigationActive \in BOOLEAN /\ thread = "idle" /\ ~navigationActive
      BY <2>3 DEF ExecuteNavigate, GuardInv, Types, WindowInv
    <3>2. CASE BeginNavigation /\ thread' = "goto" BY <2>3, <3>1, <3>2 DEF ExecuteNavigate, BeginNavigation
    <3>3. CASE thread' = "failed" /\ UNCHANGED navigationActive
      <4>1. navigationActive' \in BOOLEAN /\ ~navigationActive' BY <3>1, <3>3
      <4> QED BY <2>3, <3>1, <3>3, <4>1 DEF ExecuteNavigate
    <3> QED BY <2>3, <3>2, <3>3 DEF ExecuteNavigate
  <2> QED BY <2>1, <2>2, <2>3
<1>2. calls' \in 0..MaxCalls
  BY Limits DEF Open, Navigated, ExecuteNavigate, GuardInv, Types
<1>3. Types' BY <1>1, <1>2 DEF GuardInv, Types, traffic, pages, locals, history, Thread
<1>4. SlotInv' /\ NothingLostSilently' BY <1>1, TrafficKept
<1>5. WindowInv' BY <1>1 DEF GuardInv, WindowInv, pages, locals
<1>6. CountInv' BY <1>1 DEF GuardInv, CountInv, history
<1>7. ClosingInv' BY <1>1 DEF GuardInv, ClosingInv, AtWork
<1>8. PageInv' BY <1>1 DEF GuardInv, PageInv, AtWork, pages, locals
<1> QED BY <1>3, <1>4, <1>5, <1>6, <1>7, <1>8 DEF GuardInv

LEMMA ExecuteClickKeeps ==
    ASSUME GuardInv, ExecuteClick
    PROVE  GuardInv'
<1>1. thread = "idle" /\ popupEvents = {} /\ ~expectingPopup
  BY DEF ExecuteClick, GuardInv, WindowInv
<1>2. calls' \in 0..MaxCalls BY Limits DEF ExecuteClick, GuardInv, Types
<1>3. Types'
  BY <1>2 DEF ExecuteClick, GuardInv, Types, guard, windows, traffic, history, Thread
<1>4. SlotInv' /\ NothingLostSilently' BY TrafficKept DEF ExecuteClick, guard
<1>5. popupEvents' = {} BY <1>1 DEF ExecuteClick
<1>6. WindowInv' BY <1>1, <1>5 DEF ExecuteClick, GuardInv, WindowInv, guard, windows
<1>7. CountInv' BY <1>1 DEF ExecuteClick, GuardInv, CountInv, guard, windows, history
<1>8. ClosingInv' BY <1>1 DEF ExecuteClick, GuardInv, ClosingInv, guard, AtWork
<1>9. PageInv' BY <1>1, <1>5 DEF ExecuteClick, GuardInv, PageInv, guard, AtWork
<1> QED BY <1>3, <1>4, <1>6, <1>7, <1>8, <1>9 DEF GuardInv

LEMMA BeginPOSTKeeps ==
    ASSUME GuardInv, BeginPOST
    PROVE  GuardInv'
<1>1. SlotInv' /\ NothingLostSilently' BY TrafficKept DEF BeginPOST
<1>2. opened = {} /\ thread = "expect" BY DEF BeginPOST, GuardInv, WindowInv
<1>3. CASE violation \/ postActive \/ navigationActive
  <2>1. /\ Fail /\ expectingPopup' = FALSE /\ popupEvents' = {} /\ UNCHANGED windows BY <1>3 DEF BeginPOST
  <2>2. Types'
    BY <2>1, NoLocalsTypes DEF BeginPOST, Fail, GuardInv, Types, windows, traffic, history, Thread
  <2>3. WindowInv'
    BY <1>2, <2>1 DEF BeginPOST, Fail, NoLocals, GuardInv, WindowInv, windows
  <2>4. CountInv' BY <2>1 DEF BeginPOST, Fail, GuardInv, CountInv, history
  <2>5. ClosingInv' BY <1>2, <2>1 DEF BeginPOST, Fail, GuardInv, ClosingInv, AtWork
  <2>6. PageInv' BY <2>1 DEF BeginPOST, Fail, NoLocals, GuardInv, PageInv, AtWork
  <2> QED BY <1>1, <2>2, <2>3, <2>4, <2>5, <2>6 DEF GuardInv
<1>4. CASE ~(violation \/ postActive \/ navigationActive)
  <2>1. /\ thread' = "click" /\ postActive' = TRUE /\ postBudget' \in Budget /\ postObserved' = 0
        /\ navigationActive' = TRUE /\ UNCHANGED <<locals, expectingPopup, popupEvents>>
    BY <1>4 DEF BeginPOST
  <2>2. postObserved' \in 0 .. postBudget' BY <2>1, GuardAssumption
  <2>3. Types'
    BY <2>1, <2>2 DEF BeginPOST, GuardInv, Types, traffic, locals, history, Thread
  <2>4. WindowInv' BY <1>2, <2>1 DEF GuardInv, WindowInv, locals
  <2>5. CountInv' BY <1>2, <2>1 DEF BeginPOST, GuardInv, Types, CountInv, history
  <2>6. ClosingInv' BY <1>2, <2>1 DEF BeginPOST, GuardInv, ClosingInv, AtWork
  <2>7. PageInv' BY <1>2, <2>1 DEF BeginPOST, GuardInv, PageInv, AtWork, locals
  <2> QED BY <1>1, <2>3, <2>4, <2>5, <2>6, <2>7 DEF GuardInv
<1> QED BY <1>3, <1>4

LEMMA EndPopupWindowKeeps ==
    ASSUME GuardInv, EndPopupWindow
    PROVE  GuardInv'
<1>1. SlotInv' /\ NothingLostSilently' BY TrafficKept DEF EndPopupWindow, guard
<1>2. opened = {} /\ thread = "click" BY DEF EndPopupWindow, GuardInv, WindowInv
<1>3. Types' BY DEF EndPopupWindow, GuardInv, Types, guard, windows, traffic, history, Thread
<1>4. WindowInv' BY DEF EndPopupWindow, GuardInv, WindowInv, guard, windows
<1>5. CountInv' BY <1>2 DEF EndPopupWindow, GuardInv, CountInv, guard, windows, history
<1>6. ClosingInv' BY <1>2 DEF EndPopupWindow, GuardInv, ClosingInv, AtWork, guard
<1>7. PageInv' BY <1>2 DEF EndPopupWindow, GuardInv, PageInv, AtWork, guard
<1> QED BY <1>1, <1>3, <1>4, <1>5, <1>6, <1>7 DEF GuardInv

LEMMA EndPOSTKeeps ==
    ASSUME GuardInv, EndPOST
    PROVE  GuardInv'
<1>1. SlotInv' /\ NothingLostSilently' BY TrafficKept DEF EndPOST
<1>2. /\ thread = "shut" /\ popupEvents = {} /\ ~expectingPopup
      /\ postActive' = FALSE /\ postBudget' = 0 /\ postObserved' = 0 /\ navigationActive' = FALSE
  BY DEF EndPOST, GuardInv, WindowInv
<1>3. postObserved \in Nat /\ postObserved' \in 0..postBudget'
  <2>1. postBudget \in Nat BY GuardAssumption DEF GuardInv, Types
  <2> QED BY <1>2, <2>1 DEF GuardInv, Types
<1>4. CASE settled /\ ~violation
  <2>1. thread' = "compare" /\ observed' = postObserved /\ UNCHANGED <<before, opened, settled>>
    BY <1>4 DEF EndPOST, Tally
  <2>2. Types'
    BY <1>2, <1>3, <2>1 DEF EndPOST, GuardInv, Types, traffic, pages, history, Thread
  <2>3. WindowInv' BY <1>2, <2>1 DEF EndPOST, GuardInv, WindowInv, pages
  <2>4. CountInv' BY <1>2, <2>1 DEF EndPOST, GuardInv, CountInv, history
  <2>5. ClosingInv' BY <1>2, <2>1 DEF EndPOST, GuardInv, ClosingInv, AtWork
  <2>6. PageInv' BY <1>2, <2>1 DEF EndPOST, GuardInv, PageInv, AtWork, pages
  <2> QED BY <1>1, <2>2, <2>3, <2>4, <2>5, <2>6 DEF GuardInv
<1>5. CASE ~(settled /\ ~violation)
  <2>1. Fail BY <1>5 DEF EndPOST
  <2>2. Types'
    BY <1>2, <1>3, <2>1, NoLocalsTypes DEF EndPOST, Fail, GuardInv, Types, traffic, pages, history, Thread
  <2>3. WindowInv' BY <1>2, <2>1 DEF EndPOST, Fail, NoLocals, GuardInv, WindowInv, pages
  <2>4. CountInv' BY <2>1 DEF EndPOST, Fail, GuardInv, CountInv, history
  <2>5. ClosingInv' BY <1>2, <2>1 DEF EndPOST, Fail, GuardInv, ClosingInv, AtWork
  <2>6. PageInv' BY <2>1 DEF EndPOST, Fail, NoLocals, GuardInv, PageInv, AtWork, pages
  <2> QED BY <1>1, <2>2, <2>3, <2>4, <2>5, <2>6 DEF GuardInv
<1> QED BY <1>4, <1>5

LEMMA ComparePagesKeeps ==
    ASSUME GuardInv, ComparePages
    PROVE  GuardInv'
<1>1. SlotInv' /\ NothingLostSilently' BY TrafficKept DEF ComparePages, guard
<1>2. thread = "compare" /\ popupEvents = {} BY DEF ComparePages, GuardInv, WindowInv
<1>3. CASE thread' = "register" /\ opened' = opened /\ UNCHANGED <<popup, before, settled, observed>>
  <2>1. Types' BY <1>3 DEF ComparePages, GuardInv, Types, guard, windows, traffic, history, Thread
  <2>2. WindowInv' BY <1>2, <1>3 DEF ComparePages, GuardInv, WindowInv, guard, windows
  <2>3. CountInv' BY <1>2, <1>3 DEF ComparePages, GuardInv, CountInv, guard, windows, history
  <2>4. ClosingInv' BY <1>2, <1>3 DEF ComparePages, GuardInv, ClosingInv, AtWork, guard
  <2>5. PageInv' BY <1>2, <1>3 DEF Onward, ComparePages, GuardInv, PageInv, AtWork, guard
  <2> QED BY <1>1, <2>1, <2>2, <2>3, <2>4, <2>5 DEF GuardInv
<1>4. ASSUME Fail, NEW closed \in SUBSET NewPages,
             popup' = [p \in Popup |-> IF p \in closed THEN "closed" ELSE popup[p]]
      PROVE  GuardInv'
  <2>1. /\ popup' \in [Popup -> {"none", "open", "closed", "gone"}]
        /\ \A p \in Popup : Onward(p)
    BY <1>4 DEF Onward, GuardInv, Types
  <2>2. Types'
    BY <1>4, <2>1, NoLocalsTypes DEF ComparePages, Fail, GuardInv, Types, guard, windows, traffic, history, Thread
  <2>3. WindowInv' BY <1>2, <1>4 DEF ComparePages, Fail, NoLocals, GuardInv, WindowInv, guard, windows
  <2>4. CountInv' BY <1>4 DEF ComparePages, Fail, GuardInv, CountInv, guard, windows, history
  <2>5. ClosingInv' BY <1>2, <1>4 DEF ComparePages, Fail, GuardInv, ClosingInv, AtWork, guard
  <2>6. PageInv' BY <1>4, <2>1 DEF Onward, ComparePages, Fail, NoLocals, GuardInv, PageInv, AtWork, guard
  <2> QED BY <1>1, <2>2, <2>3, <2>4, <2>5, <2>6 DEF GuardInv
<1> QED BY <1>3, <1>4 DEF ComparePages, SamePages

LEMMA RegisterPopupKeeps ==
    ASSUME GuardInv, RegisterPopup
    PROVE  GuardInv'
<1>1. SlotInv' /\ NothingLostSilently' BY TrafficKept DEF RegisterPopup, guard
<1>2. thread = "register" /\ popupEvents = {} /\ NoLocals BY DEF RegisterPopup, GuardInv, WindowInv
<1>3. CASE /\ registered' = registered \cup opened
           /\ Return
           /\ reported' = IF thread' = "idle" THEN reported + observed ELSE reported
           /\ UNCHANGED popup
  <2>1. thread' \in {"idle", "failed"} BY <1>3 DEF Return
  <2>2. Types'
    BY <1>2, <1>3, <2>1, NoLocalsTypes DEF RegisterPopup, GuardInv, Types, guard, windows, traffic, Thread
  <2>3. WindowInv'
    BY <1>2, <2>1 DEF RegisterPopup, NoLocals, GuardInv, WindowInv, guard, windows
  <2>4. CountInv' BY <1>2, <1>3, <2>1 DEF RegisterPopup, GuardInv, CountInv, guard, windows
  <2>5. ClosingInv' BY <1>2, <2>1 DEF RegisterPopup, GuardInv, ClosingInv, AtWork, guard
  <2>6. PageInv' BY <1>2, <1>3, <2>1 DEF Onward, RegisterPopup, NoLocals, GuardInv, PageInv, AtWork, guard
  <2> QED BY <1>1, <2>2, <2>3, <2>4, <2>5, <2>6 DEF GuardInv
<1>4. CASE /\ popup' = [p \in Popup |-> IF p \in opened /\ popup[p] = "open" THEN "closed" ELSE popup[p]]
           /\ thread' = "failed"
           /\ UNCHANGED <<registered, reported>>
  <2>1. /\ popup' \in [Popup -> {"none", "open", "closed", "gone"}]
        /\ \A p \in Popup : Onward(p)
    BY <1>4 DEF Onward, GuardInv, Types
  <2>2. Types'
    BY <1>2, <1>4, <2>1, NoLocalsTypes DEF RegisterPopup, GuardInv, Types, guard, windows, traffic, Thread
  <2>3. WindowInv' BY <1>2, <1>4 DEF RegisterPopup, NoLocals, GuardInv, WindowInv, guard, windows
  <2>4. CountInv' BY <1>4 DEF RegisterPopup, GuardInv, CountInv, guard, windows
  <2>5. ClosingInv' BY <1>2, <1>4 DEF RegisterPopup, GuardInv, ClosingInv, AtWork, guard
  <2>6. PageInv' BY <1>2, <1>4, <2>1 DEF Onward, RegisterPopup, NoLocals, GuardInv, PageInv, AtWork, guard
  <2> QED BY <1>1, <2>2, <2>3, <2>4, <2>5, <2>6 DEF GuardInv
<1> QED BY <1>3, <1>4 DEF RegisterPopup

\* LookFails, AddOrigin and the three steps of an end open no window.
LEMMA AddOriginKeeps ==
    ASSUME GuardInv, LookFails \/ \E o \in Origin : AddOrigin(o)
    PROVE  GuardInv'
<1>1. /\ UNCHANGED <<violation, requests, bytes, windows, closing, done, traffic, pages, locals, calls, history>>
      /\ origins' \subseteq Origin
      /\ thread = "idle" /\ thread' \in {"idle", "failed"}
  BY DEF LookFails, AddOrigin, GuardInv, Types, guard
<1>2. SlotInv' /\ NothingLostSilently' BY <1>1, TrafficKept
<1>3. Types' BY <1>1 DEF GuardInv, Types, windows, traffic, pages, locals, history, Thread
<1>4. WindowInv' BY <1>1 DEF GuardInv, WindowInv, windows, pages, locals
<1>5. CountInv' BY <1>1 DEF GuardInv, CountInv, windows, locals, history
<1>6. ClosingInv' BY <1>1 DEF GuardInv, ClosingInv, AtWork
<1>7. PageInv' BY <1>1 DEF GuardInv, PageInv, AtWork, pages, locals
<1> QED BY <1>2, <1>3, <1>4, <1>5, <1>6, <1>7 DEF GuardInv

LEMMA CloseKeeps ==
    ASSUME GuardInv, Undo \/ BeginClose \/ EndClose
    PROVE  GuardInv'
<1>1. /\ UNCHANGED <<origins, violation, requests, bytes, windows, traffic, pages, locals, calls, history>>
      /\ closing' \in BOOLEAN /\ done' \in BOOLEAN /\ closing' = done' /\ (closing => closing')
      /\ thread \in {"undo", "idle", "failed", "closing"}
      /\ thread' \in {"closing", "closed_clean", "closed_error"}
  <2>1. CASE Undo BY <2>1 DEF Undo
  <2>2. CASE BeginClose BY <2>2 DEF BeginClose
  <2>3. CASE EndClose BY <2>3 DEF EndClose, GuardInv, Types, ClosingInv, guard
  <2> QED BY <2>1, <2>2, <2>3
<1>2. SlotInv' /\ NothingLostSilently' BY <1>1, TrafficKept
<1>3. Types' BY <1>1 DEF GuardInv, Types, windows, traffic, pages, locals, history, Thread
<1>4. WindowInv' BY <1>1 DEF GuardInv, WindowInv, windows, pages, locals
<1>5. CountInv' BY <1>1 DEF GuardInv, CountInv, windows, locals, history
<1>6. ClosingInv' BY <1>1 DEF ClosingInv, AtWork
<1>7. PageInv' BY <1>1 DEF GuardInv, PageInv, AtWork, pages, locals
<1> QED BY <1>2, <1>3, <1>4, <1>5, <1>6, <1>7 DEF GuardInv

LEMMA NextGuard == GuardInv /\ [Next]_vars => GuardInv'
<1> SUFFICES ASSUME GuardInv, [Next]_vars PROVE GuardInv' OBVIOUS
<1>1. CASE Protocol
  BY <1>1, OpenKeeps, ExecuteClickKeeps, BeginPOSTKeeps, EndPopupWindowKeeps, EndPOSTKeeps, ComparePagesKeeps,
     RegisterPopupKeeps, AddOriginKeeps, CloseKeeps DEF Protocol
<1>2. CASE Browser BY <1>2, BrowserKeeps
<1>3. CASE UNCHANGED vars
  <2>1. SlotInv' /\ NothingLostSilently' BY <1>3, TrafficKept DEF vars, guard
  <2>2. Types' BY <1>3 DEF vars, GuardInv, Types, guard, windows, traffic, pages, program, locals, history
  <2>3. WindowInv' /\ ClosingInv' /\ PageInv' BY <1>3, ProgramKept DEF vars, guard, windows
  <2>4. CountInv' BY <1>3 DEF vars, GuardInv, CountInv, guard, windows, program, locals, history
  <2> QED BY <2>1, <2>2, <2>3, <2>4 DEF GuardInv
<1> QED BY <1>1, <1>2, <1>3 DEF Next
-----------------------------------------------------------------------------
(* The properties.                                                         *)

\* Between calls, and however a call ended, no window of authority, no POST
\* without a count and no page without a watch is left of it.
THEOREM LeavesNothingOpen == Spec => []NothingLeftOpen
<1>1. ASSUME GuardInv PROVE NothingLeftOpen
  <2>1. TypeOK BY <1>1 DEF GuardInv, Types, SlotInv, Busy, TypeOK
  <2>2. WindowsShut BY <1>1 DEF GuardInv, WindowInv, WindowsShut
  <2>3. PostsAreAccounted BY <1>1 DEF GuardInv, CountInv, PostsAreAccounted
  <2>4. PagesAreKnown
    BY <1>1 DEF GuardInv, Types, WindowInv, PageInv, AtWork, PagesAreKnown, OpenPages
  <2> QED BY <2>1, <2>2, <2>3, <2>4 DEF NothingLeftOpen
<1> QED BY <1>1, InitGuard, NextGuard, PTL DEF Spec

\* A request that hangs, or was refused without a policy match, has poisoned
\* the session, or the session was closing.
THEOREM LosesNothingSilently == Spec => []NothingLostSilently
<1>1. GuardInv => NothingLostSilently BY DEF GuardInv
<1> QED BY <1>1, InitGuard, NextGuard, PTL DEF Spec

\* Only AllowRequest lets a request through, and it counts what it lets.
LEMMA OnlyPausedAdmits ==
    ASSUME GuardInv, [Next]_vars,
           \/ \E r \in Request : fate[r] = "paused" /\ fate'[r] = "granted"
           \/ contacts' # contacts
    PROVE  \E r \in Request :
              /\ Paused(r) /\ AllowRequest(r) /\ fate' = [fate EXCEPT ![r] = "granted"]
              /\ ~closing /\ ~violation /\ WithinLimit /\ Acceptable(kind[r])
<1>1. ASSUME NEW r \in Request, Paused(r)
      PROVE  AllowRequest(r) /\ fate' = [fate EXCEPT ![r] = "granted"]
             /\ ~closing /\ ~violation /\ WithinLimit /\ Acceptable(kind[r])
  <2>1. CASE AllowRequest(r)
    <3> DEFINE admit == ~closing /\ ~violation /\ WithinLimit /\ ~PolicyMatches(kind[r]) /\ Acceptable(kind[r])
    <3>1. CASE admit BY <2>1, <3>1 DEF AllowRequest
    <3>2. CASE ~admit
      <4>1. fate' = [fate EXCEPT ![r] = "denied"] /\ contacts' = contacts BY <2>1, <3>2 DEF AllowRequest
      <4> QED BY <4>1 DEF GuardInv, Types
    <3> QED BY <3>1, <3>2
  <2>2. CASE fate' = [fate EXCEPT ![r] = "stranded"] /\ UNCHANGED contacts
    BY <2>2 DEF GuardInv, Types
  <2> QED BY <1>1, <2>1, <2>2 DEF Paused
<1>2. ASSUME NEW r \in Request, Issue(r) \/ Answer(r) \/ Finish(r) PROVE FALSE
  <2>1. contacts' = contacts BY <1>2 DEF Issue, Answer, Finish, history
  <2>2. \A q \in Request : fate[q] = "paused" => fate'[q] # "granted"
    BY <1>2 DEF Issue, Answer, Finish, GuardInv, Types
  <2> QED BY <2>1, <2>2
<1>3. ASSUME UNCHANGED <<fate, contacts>> PROVE FALSE BY <1>3
<1>4. CASE Protocol
  <2>1. CASE Open \/ Navigated \/ ExecuteNavigate \/ ExecuteClick \/ BeginPOST \/ EndPopupWindow
    BY <2>1, <1>3 DEF Open, Navigated, ExecuteNavigate, ExecuteClick, BeginPOST, EndPopupWindow, traffic, history
  <2>2. CASE EndPOST \/ ComparePages \/ RegisterPopup \/ LookFails \/ Undo \/ BeginClose \/ EndClose
    BY <2>2, <1>3
       DEF EndPOST, ComparePages, RegisterPopup, LookFails, Undo, BeginClose, EndClose, traffic, history
  <2>3. CASE \E o \in Origin : AddOrigin(o) BY <2>3, <1>3 DEF AddOrigin, traffic, history
  <2> QED BY <1>4, <2>1, <2>2, <2>3 DEF Protocol
<1>5. CASE Browser
  <2>1. CASE \E r \in Request : Paused(r) BY <2>1, <1>1
  <2>2. CASE \E r \in Request : Issue(r) \/ Answer(r) \/ Finish(r) BY <2>2, <1>2
  <2>3. CASE \E p \in Popup : OpenPopup(p) \/ PopupEvent(p) \/ PopupCloses(p) \/ CloseEvent(p)
    BY <2>3, <1>3 DEF OpenPopup, PopupEvent, PopupCloses, CloseEvent, traffic, history
  <2>4. CASE Trouble \/ ChannelCloses BY <2>4, <1>3 DEF Trouble, ChannelCloses, traffic, history
  <2> QED BY <1>5, <2>1, <2>2, <2>3, <2>4 DEF Browser
<1>6. CASE UNCHANGED vars BY <1>6, <1>3 DEF vars, traffic, history
<1> QED BY <1>4, <1>5, <1>6 DEF Next

\* What the guard lets through has authority of its own: origin, navigation,
\* POST and the number of requests.
THEOREM Authority == Spec => RequestsWithinAuthority
<1> DEFINE Authorised(r) ==
        /\ kind[r].origin \in origins \ {PolicyOrigin}
        /\ kind[r].navigation => thread \in {"opening", "goto", "click", "shut"}
        /\ kind[r].method = "POST" => thread \in {"click", "shut"} /\ admitted' - reported <= postBudget
<1>1. ASSUME GuardInv, [Next]_vars PROVE contacts' <= MaxRequests
  <2>1. GuardInv' BY <1>1, NextGuard
  <2> QED BY <2>1 DEF GuardInv, CountInv
<1>2. ASSUME GuardInv, [Next]_vars, NEW r \in Request, fate[r] = "paused", fate'[r] = "granted"
      PROVE  Authorised(r)
  <2>1. PICK q \in Request :
              /\ Paused(q) /\ AllowRequest(q) /\ fate' = [fate EXCEPT ![q] = "granted"]
              /\ ~closing /\ ~violation /\ WithinLimit /\ Acceptable(kind[q])
    BY <1>2, OnlyPausedAdmits
  <2>2. q = r BY <1>2, <2>1 DEF GuardInv, Types
  <2>3. kind[r].origin \in origins \ {PolicyOrigin} BY <2>1, <2>2 DEF Acceptable, AllowedURL
  <2>4. kind[r].navigation => thread \in {"opening", "goto", "click", "shut"}
    BY <1>2, <2>1, <2>2 DEF Acceptable, GuardInv, WindowInv
  <2>5. ASSUME kind[r].method = "POST"
        PROVE  thread \in {"click", "shut"} /\ admitted' - reported <= postBudget
    <3>1. postActive /\ postObserved < postBudget BY <2>1, <2>2, <2>5 DEF Acceptable
    <3>2. thread \in {"click", "shut"} BY <1>2, <3>1 DEF GuardInv, WindowInv
    <3>3. admitted = reported + postObserved BY <1>2, <3>2 DEF GuardInv, CountInv
    <3>4. admitted' = admitted \/ admitted' = admitted + 1 BY <2>1 DEF AllowRequest
    <3>5. postBudget \in Nat /\ postObserved \in Nat /\ reported \in Nat
      BY <1>2, GuardAssumption DEF GuardInv, Types
    <3>6. postObserved + 1 <= postBudget BY <3>1, <3>5
    <3>7. admitted' - reported <= postObserved + 1 BY <3>3, <3>4, <3>5
    <3>8. admitted' - reported \in Int BY <3>3, <3>4, <3>5
    <3> QED BY <3>2, <3>5, <3>6, <3>7, <3>8
  <2> QED BY <2>3, <2>4, <2>5
<1>3. GuardInv /\ [Next]_vars
      => [/\ contacts' <= MaxRequests
          /\ \A r \in Request : fate[r] = "paused" /\ fate'[r] = "granted" => Authorised(r)]_vars
  BY <1>1, <1>2
<1> QED BY <1>3, InitGuard, NextGuard, PTL DEF Spec, RequestsWithinAuthority

\* After a violation nothing more is let through, approved or reported, and no
\* call succeeds, not even one that was under way.
THEOREM PoisonStays == Spec => PoisonIsFinal
<1> DEFINE Final == /\ violation'
                    /\ UNCHANGED <<contacts, origins, reported>>
                    /\ thread' = "idle" => thread = "idle"
                    /\ thread' # "closed_clean"
<1>1. ASSUME GuardInv, [Next]_vars, violation PROVE violation'
  <2>1. CASE Protocol
    BY <1>1, <2>1 DEF Protocol, Open, Navigated, ExecuteNavigate, ExecuteClick, BeginPOST, EndPopupWindow,
       EndPOST, ComparePages, RegisterPopup, LookFails, Undo, BeginClose, EndClose, AddOrigin, guard
  <2>2. CASE Browser
    <3>1. CASE \E r \in Request : Issue(r) \/ Paused(r) \/ Answer(r) \/ Finish(r)
      BY <1>1, <3>1 DEF Issue, Paused, AllowRequest, Answer, CommandFails, Finish, Block
    <3>2. CASE \E p \in Popup : OpenPopup(p) \/ PopupEvent(p) \/ PopupCloses(p) \/ CloseEvent(p)
      BY <1>1, <3>2 DEF OpenPopup, PopupEvent, PopupCloses, CloseEvent, Block, guard
    <3>3. CASE Trouble \/ ChannelCloses BY <1>1, <3>3 DEF Trouble, ChannelCloses, Block
    <3> QED BY <2>2, <3>1, <3>2, <3>3 DEF Browser
  <2>3. CASE UNCHANGED vars BY <1>1, <2>3 DEF vars, guard
  <2> QED BY <1>1, <2>1, <2>2, <2>3 DEF Next
<1>2. ASSUME GuardInv, [Next]_vars, violation PROVE contacts' = contacts
  BY <1>1, <1>2, OnlyPausedAdmits
<1>3. ASSUME GuardInv, Next, violation
      PROVE  UNCHANGED <<origins, reported>> /\ (thread' = "idle" => thread = "idle") /\ thread' # "closed_clean"
  <2>1. CASE Protocol
    <3>1. CASE Open \/ Navigated \/ ExecuteNavigate \/ ExecuteClick \/ BeginPOST \/ EndPopupWindow
      BY <1>3, <3>1 DEF Open, Navigated, ExecuteNavigate, ExecuteClick, BeginPOST, Fail, EndPopupWindow,
         guard, history
    <3>2. CASE EndPOST \/ ComparePages \/ RegisterPopup
      BY <1>3, <3>2 DEF EndPOST, ComparePages, RegisterPopup, Return, Fail, guard, history
    <3>3. CASE LookFails \/ Undo \/ BeginClose \/ EndClose \/ \E o \in Origin : AddOrigin(o)
      BY <1>3, <3>3 DEF LookFails, Undo, BeginClose, EndClose, AddOrigin, guard, history
    <3> QED BY <2>1, <3>1, <3>2, <3>3 DEF Protocol
  <2>2. CASE Browser
    <3>1. UNCHANGED <<origins, reported, thread>>
      <4>1. CASE \E r \in Request : Issue(r) \/ Paused(r) \/ Answer(r) \/ Finish(r)
        BY <4>1 DEF Issue, Paused, Answer, Finish, program, history
      <4>2. CASE \E p \in Popup : OpenPopup(p) \/ PopupEvent(p) \/ PopupCloses(p) \/ CloseEvent(p)
        BY <4>2 DEF OpenPopup, PopupEvent, PopupCloses, CloseEvent, program, history, guard
      <4>3. CASE Trouble \/ ChannelCloses BY <4>3 DEF Trouble, ChannelCloses, program, history
      <4> QED BY <2>2, <4>1, <4>2, <4>3 DEF Browser
    <3> QED BY <2>2, <3>1 DEF Browser, Ended
  <2> QED BY <1>3, <2>1, <2>2 DEF Next
<1>4. GuardInv /\ [Next]_vars => [violation => Final]_vars BY <1>1, <1>2, <1>3
<1> QED BY <1>4, InitGuard, NextGuard, PTL DEF Spec, PoisonIsFinal
=============================================================================
