-------------------------- MODULE CacheStoreProofs --------------------------
(***************************************************************************)
(* Theorems about CacheStore for any calls, digests, manifests and bounds: *)
(* the cap, what may be partial, what may become of an entry, and whom a   *)
(* lease protects.                                                         *)
(***************************************************************************)
EXTENDS CacheStore, FiniteSetTheorems, WellFoundedInduction, TLAPS

-----------------------------------------------------------------------------
(* What is true of one call by itself.                                     *)

\* A put knows its digest and manifest, a delete its digest; who removes has
\* something to remove, who recovers has an attempt left to give up.
StateOK(s) ==
    /\ s.op = "put" => s.key \in Key /\ s.meta \in Metadata
    /\ s.op = "delete" => s.key \in Key
    /\ s.step \in {"stage", "commit"} => s.op = "put"
    /\ s.step \in {"remove_files", "remove_directory"} => s.todo # {}
    /\ s.step \in {"move_stale", "settle_stale"} => s.attempts > 0

TypeInv == TypeOK /\ \A c \in Call : StateOK(call[c])

LEMMA NoneIsNothing ==
    /\ None \notin Call \cup {Ghost} /\ Ghost \notin Call
    /\ \A e \in Entry : e # None
    /\ \A d \in LeaseDir : d # None
    /\ \A o \in Owner : o # None
BY CacheAssumption

\* A call changes its own state only.
LEMMA Moved ==
    ASSUME TypeInv, NEW c \in Call, NEW s \in CallState, StateOK(s), Becomes(c, s)
    PROVE  /\ call' \in [Call -> CallState] /\ \A d \in Call : StateOK(call'[d])
           /\ call'[c] = s /\ \A d \in Call \ {c} : call'[d] = call[d]
BY DEF Becomes, TypeInv, TypeOK

LEMMA IdleOK == Idle \in CallState /\ [Idle EXCEPT !.step = "over"] \in CallState /\ StateOK(Idle)
                /\ StateOK([Idle EXCEPT !.step = "over"])
<1>1. MaxAttempts \in 0..MaxAttempts /\ 0 \in Time BY CacheAssumption DEF Time
<1> QED BY <1>1 DEF Idle, CallState, StateOK

\* The steps that need no more than the call had.
LEMMA GotoMoves ==
    ASSUME TypeInv, NEW c \in Call,
           NEW step \in {"acquire", "move_stale", "settle_stale", "write_owner", "stage", "check",
                         "commit", "remove_files", "remove_directory", "release", "move_out", "settle_release"},
           step \in {"stage", "commit"} => call[c].op = "put",
           step \in {"remove_files", "remove_directory"} => call[c].todo # {},
           step \in {"move_stale", "settle_stale"} => call[c].attempts > 0,
           Goto(c, step)
    PROVE  /\ call' \in [Call -> CallState] /\ \A d \in Call : StateOK(call'[d])
           /\ call'[c] = [call[c] EXCEPT !.step = step] /\ \A d \in Call \ {c} : call'[d] = call[d]
<1>1. call[c] \in CallState /\ StateOK(call[c]) BY DEF TypeInv, TypeOK
<1>2. [call[c] EXCEPT !.step = step] \in CallState BY <1>1 DEF CallState
<1>3. StateOK([call[c] EXCEPT !.step = step]) BY <1>1 DEF CallState, StateOK
<1> QED BY <1>2, <1>3, Moved DEF Goto

LEMMA ReturnMoves ==
    ASSUME TypeInv, NEW c \in Call, Return(c)
    PROVE  /\ call' \in [Call -> CallState] /\ \A d \in Call : StateOK(call'[d])
           /\ call'[c] = [Idle EXCEPT !.step = "over"] /\ \A d \in Call \ {c} : call'[d] = call[d]
BY IdleOK, Moved DEF Return

LEMMA RetryMoves ==
    ASSUME TypeInv, NEW c \in Call, call[c].attempts > 0, Retry(c)
    PROVE  /\ call' \in [Call -> CallState] /\ \A d \in Call : StateOK(call'[d])
           /\ call'[c] = [call[c] EXCEPT !.step = "acquire", !.seen = None, !.attempts = @ - 1]
           /\ \A d \in Call \ {c} : call'[d] = call[d]
<1> DEFINE s == [call[c] EXCEPT !.step = "acquire", !.seen = None, !.attempts = @ - 1]
<1>1. call[c] \in CallState /\ StateOK(call[c]) BY DEF TypeInv, TypeOK
<1>2. call[c].attempts - 1 \in 0..MaxAttempts BY <1>1, CacheAssumption DEF CallState
<1>3. s \in CallState BY <1>1, <1>2 DEF CallState
<1>4. StateOK(s) BY <1>1 DEF CallState, StateOK
<1> QED BY <1>3, <1>4, Moved DEF Retry

\* A set of numbers has a least one: the intervals up to its members are finite
\* sets, and so one of them is minimal among them.
LEMMA Least ==
    ASSUME NEW T \in SUBSET Nat, T # {}
    PROVE  \E k \in T : \A j \in T : k <= j
<1> DEFINE Upto == {0 .. k : k \in T}
<1>1. Upto \subseteq FiniteSubsetsOf(Nat) /\ Upto # {}
  <2>1. \A k \in T : 0 .. k \in SUBSET Nat /\ IsFiniteSet(0 .. k) BY FS_Interval
  <2> QED BY <2>1 DEF FiniteSubsetsOf
<1>2. IsWellFoundedOn(StrictSubsetOrdering(Nat), FiniteSubsetsOf(Nat))
  BY FS_StrictSubsetOrderingWellFounded
<1>3. PICK S \in Upto : \A U \in Upto : ~(<<U, S>> \in StrictSubsetOrdering(Nat))
  <2> HIDE DEF Upto
  <2> QED BY <1>1, <1>2, WFMin
<1>4. PICK k \in T : S = 0 .. k BY <1>3
<1>5. ASSUME NEW j \in T PROVE k <= j
  <2>1. <<0 .. j, 0 .. k>> \notin StrictSubsetOrdering(Nat) BY <1>3, <1>4, <1>5
  <2>2. 0 .. j \subseteq 0 .. k => 0 .. j = 0 .. k
    BY <2>1, <1>4, <1>5 DEF StrictSubsetOrdering
  <2>3. k \in Nat /\ j \in Nat BY <1>4, <1>5
  <2>4. j < k => 0 .. j \subseteq 0 .. k /\ k \in 0 .. k /\ k \notin 0 .. j BY <2>3
  <2> QED BY <2>2, <2>3, <2>4
<1> QED BY <1>5

\* The first of what is left to remove is one of it.
LEMMA VictimIsTodo ==
    ASSUME TypeInv, NEW c \in Call, call[c].todo # {}
    PROVE  Victim(c) \in call[c].todo /\ Victim(c) \in Key
<1>1. call[c].todo \subseteq Nat /\ call[c].todo \subseteq Key
  BY CacheAssumption DEF TypeInv, TypeOK, CallState
<1>2. \E k \in call[c].todo : \A j \in call[c].todo : k <= j BY <1>1, Least
<1> QED BY <1>1, <1>2 DEF Victim
-----------------------------------------------------------------------------
(* Types.                                                                  *)

LEMMA InitTypes == Init => TypeInv
<1> SUFFICES ASSUME Init PROVE TypeInv OBVIOUS
<1>1. 0 \in Time BY CacheAssumption DEF Time
<1>2. Idle \in CallState /\ StateOK(Idle) BY IdleOK
<1>3. entries \in [Key -> Entry \cup {None}] BY DEF Init, Entry
<1>4. lock \in LeaseDir \cup {None} BY <1>1 DEF Init, LeaseDir, Owner
<1> QED BY <1>1, <1>2, <1>3, <1>4 DEF Init, TypeInv, TypeOK

LEMMA BeginTypes ==
    ASSUME TypeInv, NEW c \in Call,
           \/ \E k \in Key, m \in Metadata : PutBegin(c, k, m)
           \/ \E k \in Key : DeleteBegin(c, k)
           \/ PruneBegin(c)
    PROVE  TypeInv'
<1>1. MaxAttempts \in 0..MaxAttempts /\ clock \in Time BY CacheAssumption DEF TypeInv, TypeOK
<1>2. ASSUME NEW k \in Key, NEW m \in Metadata, PutBegin(c, k, m) PROVE TypeInv'
  <2> DEFINE s == [Idle EXCEPT !.step = "acquire", !.op = "put", !.at = clock, !.key = k, !.meta = m]
  <2>1. s \in CallState /\ StateOK(s) BY <1>1 DEF Idle, CallState, StateOK
  <2>2. Return(c) \/ Becomes(c, s) BY <1>2 DEF PutBegin
  <2>3. call' \in [Call -> CallState] /\ \A d \in Call : StateOK(call'[d])
    BY <2>1, <2>2, Moved, ReturnMoves
  <2> QED BY <1>2, <2>3 DEF PutBegin, TypeInv, TypeOK, history
<1>3. ASSUME NEW k \in Key, DeleteBegin(c, k) PROVE TypeInv'
  <2> DEFINE s == [Idle EXCEPT !.step = "acquire", !.op = "delete", !.at = clock, !.key = k]
  <2>1. s \in CallState /\ StateOK(s) BY <1>1 DEF Idle, CallState, StateOK
  <2>2. Becomes(c, s) BY <1>3 DEF DeleteBegin
  <2>3. call' \in [Call -> CallState] /\ \A d \in Call : StateOK(call'[d]) BY <2>1, <2>2, Moved
  <2> QED BY <1>3, <2>3 DEF DeleteBegin, TypeInv, TypeOK, history
<1>4. ASSUME PruneBegin(c) PROVE TypeInv'
  <2> DEFINE expired == {k \in Present : entries[k].meta.expired}
             s == [Idle EXCEPT !.step = "remove_files", !.op = "prune", !.todo = expired]
  <2>1. Becomes(c, s) /\ expired # {} BY <1>4 DEF PruneBegin
  <2>2. expired \subseteq Key BY DEF Present
  <2> HIDE DEF expired
  <2>3. 0 \in Time BY CacheAssumption DEF Time
  <2>4. s \in CallState /\ StateOK(s) BY <1>1, <2>1, <2>2, <2>3 DEF Idle, CallState, StateOK
  <2>5. call' \in [Call -> CallState] /\ \A d \in Call : StateOK(call'[d]) BY <2>1, <2>4, Moved
  <2> QED BY <1>4, <2>5 DEF PruneBegin, TypeInv, TypeOK, history
<1> QED BY <1>2, <1>3, <1>4

LEMMA AcquireTypes ==
    ASSUME TypeInv, NEW c \in Call, Mkdir(c) \/ InspectStale(c) \/ Exhausted(c) \/ WriteOwner(c)
    PROVE  TypeInv'
<1>1. call[c] \in CallState /\ StateOK(call[c]) /\ call[c].attempts \in Nat
  BY CacheAssumption DEF TypeInv, TypeOK, CallState
<1>2. CASE Mkdir(c)
  <2>1. call' \in [Call -> CallState] /\ \A d \in Call : StateOK(call'[d])
    BY <1>2, GotoMoves DEF Mkdir
  <2>2. lock' \in LeaseDir BY <1>2 DEF Mkdir, LeaseDir
  <2> QED BY <1>2, <2>1, <2>2 DEF Mkdir, TypeInv, TypeOK, history
<1>3. CASE InspectStale(c)
  <2> DEFINE s == [call[c] EXCEPT !.step = "move_stale", !.seen = lock.owner.by]
  <2>1. Return(c) \/ (Becomes(c, s) /\ lock # None /\ lock.owner # None) BY <1>3 DEF InspectStale
  <2>2. ASSUME Becomes(c, s), lock # None, lock.owner # None
        PROVE  call' \in [Call -> CallState] /\ \A d \in Call : StateOK(call'[d])
    <3>1. lock.owner.by \in Call \cup {Ghost} BY <2>2 DEF TypeInv, TypeOK, LeaseDir, Owner
    <3>2. s \in CallState BY <1>1, <3>1 DEF CallState
    <3>3. StateOK(s) BY <1>1, <1>3 DEF CallState, StateOK, InspectStale, AttemptsLeft
    <3> QED BY <2>2, <3>2, <3>3, Moved
  <2>3. call' \in [Call -> CallState] /\ \A d \in Call : StateOK(call'[d])
    BY <2>1, <2>2, Moved, ReturnMoves DEF TypeInv
  <2> QED BY <1>3, <2>3 DEF InspectStale, TypeInv, TypeOK, history
<1>4. CASE Exhausted(c)
  <2>1. call' \in [Call -> CallState] /\ \A d \in Call : StateOK(call'[d])
    BY <1>4, ReturnMoves DEF Exhausted
  <2> QED BY <1>4, <2>1 DEF Exhausted, TypeInv, TypeOK, history
<1>5. CASE WriteOwner(c)
  <2>1. call' \in [Call -> CallState] /\ \A d \in Call : StateOK(call'[d])
    <3>1. CASE lock # None /\ lock.owner = None
      <4>1. CASE call[c].op = "put" BY <1>5, <3>1, <4>1, GotoMoves DEF WriteOwner
      <4>2. CASE call[c].op # "put" BY <1>5, <3>1, <4>2, GotoMoves DEF WriteOwner
      <4> QED BY <4>1, <4>2
    <3>2. CASE ~(lock # None /\ lock.owner = None) BY <1>5, <3>2, ReturnMoves DEF WriteOwner
    <3> QED BY <3>1, <3>2
  <2>2. lock' \in LeaseDir \cup {None}
    BY <1>1, <1>5 DEF WriteOwner, TypeInv, TypeOK, LeaseDir, Owner, CallState
  <2> QED BY <1>5, <2>1, <2>2 DEF WriteOwner, TypeInv, TypeOK, history
<1> QED BY <1>2, <1>3, <1>4, <1>5

LEMMA MovingTypes ==
    ASSUME TypeInv, NEW c \in Call,
           MoveStale(c) \/ DiscardStale(c) \/ RestoreStale(c) \/ MoveOut(c) \/ SettleRelease(c)
    PROVE  TypeInv'
<1>1. call[c] \in CallState /\ StateOK(call[c]) BY DEF TypeInv, TypeOK
<1>2. CASE MoveStale(c)
  <2>1. Retry(c) \/ Goto(c, "settle_stale") BY <1>2 DEF MoveStale
  <2>2. call[c].attempts > 0 BY <1>1, <1>2 DEF StateOK, MoveStale, At
  <2>3. call' \in [Call -> CallState] /\ \A d \in Call : StateOK(call'[d])
    BY <2>1, <2>2, RetryMoves, GotoMoves
  <2>4. /\ lock' = None /\ aside' \in [Call -> LeaseDir \cup {None}] /\ misfired' \in BOOLEAN
        /\ UNCHANGED <<entries, clock, fenced>>
    BY <1>2 DEF MoveStale, TypeInv, TypeOK
  <2> QED BY <2>3, <2>4 DEF TypeInv, TypeOK
<1>3. CASE DiscardStale(c)
  <2>1. call[c].attempts > 0 BY <1>1, <1>3 DEF StateOK, DiscardStale, At
  <2>2. call' \in [Call -> CallState] /\ \A d \in Call : StateOK(call'[d])
    BY <1>3, <2>1, RetryMoves DEF DiscardStale
  <2> QED BY <1>3, <2>2 DEF DiscardStale, TypeInv, TypeOK
<1>4. CASE RestoreStale(c)
  <2>1. call' \in [Call -> CallState] /\ \A d \in Call : StateOK(call'[d])
    BY <1>4, ReturnMoves DEF RestoreStale
  <2> QED BY <1>4, <2>1 DEF RestoreStale, PutBack, TypeInv, TypeOK, history
<1>5. CASE MoveOut(c)
  <2>1. Return(c) \/ Goto(c, "settle_release") BY <1>5 DEF MoveOut
  <2>2. call' \in [Call -> CallState] /\ \A d \in Call : StateOK(call'[d])
    BY <2>1, ReturnMoves, GotoMoves
  <2>3. /\ lock' = None /\ aside' \in [Call -> LeaseDir \cup {None}] /\ misfired' \in BOOLEAN
        /\ UNCHANGED <<entries, clock, fenced>>
    BY <1>5 DEF MoveOut, TypeInv, TypeOK
  <2> QED BY <2>2, <2>3 DEF TypeInv, TypeOK
<1>6. CASE SettleRelease(c)
  <2>1. call' \in [Call -> CallState] /\ \A d \in Call : StateOK(call'[d])
    BY <1>6, ReturnMoves DEF SettleRelease
  <2> QED BY <1>6, <2>1 DEF SettleRelease, PutBack, TypeInv, TypeOK, history
<1> QED BY <1>2, <1>3, <1>4, <1>5, <1>6

LEMMA WithdrawnTypes == ASSUME TypeInv, NEW c \in Call PROVE Withdrawn(c) \in LeaseDir \cup {None}
BY DEF Withdrawn, TypeInv, TypeOK, LeaseDir

LEMMA PutTypes ==
    ASSUME TypeInv, NEW c \in Call, Stage(c) \/ CheckPut(c) \/ Commit(c) \/ Release(c)
    PROVE  TypeInv'
<1>1. call[c] \in CallState /\ StateOK(call[c]) BY DEF TypeInv, TypeOK
<1>2. Withdrawn(c) \in LeaseDir \cup {None} BY WithdrawnTypes
<1>3. CASE Stage(c)
  <2>1. Goto(c, "release") \/ Goto(c, "check") BY <1>3 DEF Stage
  <2>2. call' \in [Call -> CallState] /\ \A d \in Call : StateOK(call'[d]) BY <2>1, GotoMoves
  <2>3. lock' \in LeaseDir \cup {None} BY <1>3 DEF Stage, TypeInv, TypeOK, LeaseDir
  <2> QED BY <1>3, <2>2, <2>3 DEF Stage, TypeInv, TypeOK, history
<1>4. CASE CheckPut(c)
  <2>1. Goto(c, "release") \/ Goto(c, "commit") BY <1>4 DEF CheckPut
  <2>2. call[c].op = "put" BY <1>4 DEF CheckPut
  <2>3. call' \in [Call -> CallState] /\ \A d \in Call : StateOK(call'[d]) BY <2>1, <2>2, GotoMoves
  <2> QED BY <1>4, <2>3 DEF CheckPut, TypeInv, TypeOK, history
<1>5. CASE Commit(c)
  <2>1. call' \in [Call -> CallState] /\ \A d \in Call : StateOK(call'[d])
    BY <1>5, GotoMoves DEF Commit
  <2>2. call[c].key \in Key /\ call[c].meta \in Metadata BY <1>1, <1>5 DEF StateOK, Commit, At
  <2>3. entries' \in [Key -> Entry \cup {None}]
    <3>1. [meta |-> call[c].meta, whole |-> TRUE, by |-> c] \in Entry BY <2>2 DEF Entry
    <3>2. entries \in [Key -> Entry \cup {None}] BY DEF TypeInv, TypeOK
    <3> QED BY <1>5, <3>1, <3>2 DEF Commit
  <2>4. lock' \in LeaseDir \cup {None} BY <1>2, <1>5 DEF Commit, TypeInv, TypeOK
  <2> QED BY <1>5, <2>1, <2>3, <2>4 DEF Commit, TypeInv, TypeOK, history
<1>6. CASE Release(c)
  <2>1. Goto(c, "move_out") \/ Return(c) BY <1>6 DEF Release
  <2>2. call' \in [Call -> CallState] /\ \A d \in Call : StateOK(call'[d])
    BY <2>1, GotoMoves, ReturnMoves
  <2>3. lock' \in LeaseDir \cup {None} BY <1>2, <1>6 DEF Release, TypeInv, TypeOK
  <2> QED BY <1>6, <2>2, <2>3 DEF Release, TypeInv, TypeOK, history
<1> QED BY <1>3, <1>4, <1>5, <1>6

LEMMA RemovalTypes ==
    ASSUME TypeInv, NEW c \in Call, CheckDelete(c) \/ RemoveFiles(c) \/ RemoveDirectory(c) \/ Crash(c)
    PROVE  TypeInv'
<1>1. call[c] \in CallState /\ StateOK(call[c]) BY DEF TypeInv, TypeOK
<1>2. CASE CheckDelete(c)
  <2> DEFINE s == [call[c] EXCEPT !.step = "remove_files", !.todo = {call[c].key}]
  <2>1. Becomes(c, s) \/ Goto(c, "release") BY <1>2 DEF CheckDelete
  <2>2. call[c].key \in Key BY <1>1, <1>2 DEF StateOK, CheckDelete
  <2>3. s \in CallState /\ StateOK(s) BY <1>1, <1>2, <2>2 DEF StateOK, CallState, CheckDelete
  <2>4. call' \in [Call -> CallState] /\ \A d \in Call : StateOK(call'[d])
    BY <2>1, <2>3, GotoMoves, Moved
  <2> QED BY <1>2, <2>4 DEF CheckDelete, TypeInv, TypeOK, history
<1>3. CASE RemoveFiles(c)
  <2>1. call[c].todo # {} BY <1>1, <1>3 DEF StateOK, RemoveFiles, At
  <2>2. call' \in [Call -> CallState] /\ \A d \in Call : StateOK(call'[d])
    BY <1>3, <2>1, GotoMoves DEF RemoveFiles
  <2>3. entries' \in [Key -> Entry \cup {None}]
    BY <1>3 DEF RemoveFiles, TypeInv, TypeOK, Entry
  <2> QED BY <1>3, <2>2, <2>3 DEF RemoveFiles, TypeInv, TypeOK, history
<1>4. CASE RemoveDirectory(c)
  <2> DEFINE s == [call[c] EXCEPT !.step = "remove_files", !.todo = @ \ {Victim(c)}]
  <2>1. call[c].todo # {} BY <1>1, <1>4 DEF StateOK, RemoveDirectory, At
  <2>2. Return(c) \/ Goto(c, "release") \/ (Becomes(c, s) /\ call[c].todo # {Victim(c)})
    BY <1>4 DEF RemoveDirectory, AfterRemoval
  <2>3. call[c].todo # {Victim(c)} => s \in CallState /\ StateOK(s)
    BY <1>1, <2>1 DEF StateOK, CallState
  <2>4. call' \in [Call -> CallState] /\ \A d \in Call : StateOK(call'[d])
    BY <2>2, <2>3, GotoMoves, ReturnMoves, Moved
  <2>5. entries' \in [Key -> Entry \cup {None}] BY <1>4 DEF RemoveDirectory, TypeInv, TypeOK
  <2> QED BY <1>4, <2>4, <2>5 DEF RemoveDirectory, TypeInv, TypeOK, history
<1>5. CASE Crash(c)
  <2> DEFINE s == [Idle EXCEPT !.step = "over",
                      !.todo = IF At(c, "remove_directory") THEN {Victim(c)} ELSE {}]
  <2>1. At(c, "remove_directory") => Victim(c) \in Key
    BY <1>1, VictimIsTodo DEF StateOK, At
  <2>2. s \in CallState /\ StateOK(s)
    <3>1. MaxAttempts \in 0..MaxAttempts /\ 0 \in Time BY CacheAssumption DEF Time
    <3> QED BY <2>1, <3>1 DEF Idle, StateOK, CallState
  <2>3. call' \in [Call -> CallState] /\ \A d \in Call : StateOK(call'[d])
    BY <1>5, <2>2, Moved DEF Crash
  <2> QED BY <1>5, <2>3 DEF Crash, TypeInv, TypeOK, history
<1> QED BY <1>2, <1>3, <1>4, <1>5

LEMMA NextTypes == ASSUME TypeInv, [Next]_vars PROVE TypeInv'
<1>1. CASE Tick BY <1>1, CacheAssumption DEF Tick, TypeInv, TypeOK, Time, history
<1>2. CASE UNCHANGED vars BY <1>2 DEF vars, TypeInv, TypeOK, history
<1> QED BY <1>1, <1>2, BeginTypes, AcquireTypes, MovingTypes, PutTypes, RemovalTypes DEF Next
-----------------------------------------------------------------------------
(* Who owns which lease.                                                   *)

\* A call that has not signed an owner.json yet: no directory can name it.
Unsigned(c) == call[c].step \in {"idle", "acquire", "move_stale", "settle_stale", "write_owner"}

\* A call's owner.json is in one directory at most, in none before it is
\* written and in none after a recovery has discarded it.
LeaseInv ==
    /\ \A c \in Call : Unsigned(c) =>
        ~OwnedBy(c, lock) /\ \A d \in Call : ~OwnedBy(c, aside[d]) /\ call[d].seen # c
    /\ \A c, d \in Call : ~(OwnedBy(c, lock) /\ OwnedBy(c, aside[d]))
    /\ \A c, d, e \in Call : OwnedBy(c, aside[d]) /\ OwnedBy(c, aside[e]) => d = e
    /\ \A c \in fenced :
        ~Unsigned(c) /\ ~OwnedBy(c, lock) /\ \A d \in Call : ~OwnedBy(c, aside[d])

LEMMA NobodyOwnsNone ==
    /\ \A c : ~OwnedBy(c, None)
    /\ \A c, staged : ~OwnedBy(c, [owner |-> None, staged |-> staged])
BY DEF OwnedBy

LEMMA InitLeases == Init => LeaseInv
<1> SUFFICES ASSUME Init PROVE LeaseInv OBVIOUS
<1>1. \A c \in Call : ~OwnedBy(c, lock) BY CacheAssumption, NobodyOwnsNone DEF Init, OwnedBy
<1>2. \A c, d \in Call : ~OwnedBy(c, aside[d]) BY NobodyOwnsNone DEF Init
<1>3. \A c, d \in Call : call[d].seen # c BY NoneIsNothing DEF Init, Idle
<1> QED BY <1>1, <1>2, <1>3 DEF LeaseInv, Init

\* What a step of one call does to its own state, as far as leases go.
Advances(c) ==
    /\ \A d \in Call \ {c} : call'[d] = call[d]
    /\ Unsigned(c)' => Unsigned(c)
    /\ call'[c].seen \in {call[c].seen, None}

LEMMA BecomesAdvances ==
    ASSUME TypeInv, NEW c \in Call, NEW s, Becomes(c, s), s.seen \in {call[c].seen, None},
           s.step \in {"idle", "acquire", "move_stale", "settle_stale", "write_owner"} => Unsigned(c)
    PROVE  Advances(c)
<1>1. call'[c] = s /\ \A d \in Call \ {c} : call'[d] = call[d] BY DEF Becomes, TypeInv, TypeOK
<1> QED BY <1>1 DEF Advances, Unsigned

LEMMA GotoAdvances ==
    ASSUME TypeInv, NEW c \in Call, NEW step, Goto(c, step),
           step \in {"idle", "acquire", "move_stale", "settle_stale", "write_owner"} => Unsigned(c)
    PROVE  Advances(c)
<1>1. call[c] \in CallState BY DEF TypeInv, TypeOK
<1> DEFINE s == [call[c] EXCEPT !.step = step]
<1>2. s.step = step /\ s.seen = call[c].seen BY <1>1 DEF CallState
<1>3. Becomes(c, s) BY DEF Goto
<1> HIDE DEF s
<1> QED BY <1>2, <1>3, BecomesAdvances

LEMMA ReturnAdvances == ASSUME TypeInv, NEW c \in Call, Return(c) PROVE Advances(c)
<1> DEFINE s == [Idle EXCEPT !.step = "over"]
<1>1. s.step = "over" /\ s.seen = None BY DEF Idle
<1>2. Becomes(c, s) BY DEF Return
<1> HIDE DEF s
<1> QED BY <1>1, <1>2, BecomesAdvances

LEMMA RetryAdvances == ASSUME TypeInv, NEW c \in Call, Unsigned(c), Retry(c) PROVE Advances(c)
<1> DEFINE s == [call[c] EXCEPT !.step = "acquire", !.seen = None, !.attempts = @ - 1]
<1>1. call[c] \in CallState BY DEF TypeInv, TypeOK
<1>2. s.step = "acquire" /\ s.seen = None BY <1>1 DEF CallState
<1>3. Becomes(c, s) BY DEF Retry
<1> HIDE DEF s
<1> QED BY <1>2, <1>3, BecomesAdvances

\* Steps that move no lease and sign none.
LEMMA QuietLeases ==
    ASSUME LeaseInv, TypeInv, NEW c \in Call, Advances(c),
           \A d \in Call : OwnedBy(d, lock') => OwnedBy(d, lock), aside' = aside, fenced' = fenced
    PROVE  LeaseInv'
<1>1. \A d \in Call : Unsigned(d)' => Unsigned(d) BY DEF Advances, Unsigned
<1>2. \A d, e \in Call : call'[d].seen = e => call[d].seen = e BY NoneIsNothing DEF Advances
<1>3. \A d \in Call : OwnedBy(d, lock)' => OwnedBy(d, lock) BY DEF OwnedBy
<1>4. \A d, e \in Call : OwnedBy(d, aside[e])' <=> OwnedBy(d, aside[e]) BY DEF OwnedBy
<1>5. fenced \subseteq Call BY DEF TypeInv, TypeOK
<1> QED BY <1>1, <1>2, <1>3, <1>4, <1>5 DEF LeaseInv

\* The directory at the lease path moves to a private path of one call.
LEMMA MoveAsideLeases ==
    ASSUME LeaseInv, TypeInv, NEW c \in Call, Advances(c),
           lock' = None, aside' = [aside EXCEPT ![c] = lock], fenced' = fenced
    PROVE  LeaseInv'
<1>1. \A d \in Call : Unsigned(d)' => Unsigned(d) BY DEF Advances, Unsigned
<1>2. \A d, e \in Call : call'[d].seen = e => call[d].seen = e BY NoneIsNothing DEF Advances
<1>3. \A d : ~OwnedBy(d, lock)' BY NobodyOwnsNone DEF OwnedBy
<1>4. aside'[c] = lock /\ \A e \in Call \ {c} : aside'[e] = aside[e] BY DEF TypeInv, TypeOK
<1>5. \A d \in Call : OwnedBy(d, aside[c])' <=> OwnedBy(d, lock) BY <1>4 DEF OwnedBy
<1>6. \A d \in Call, e \in Call \ {c} : OwnedBy(d, aside[e])' <=> OwnedBy(d, aside[e])
  BY <1>4 DEF OwnedBy
<1>7. fenced \subseteq Call BY DEF TypeInv, TypeOK
<1> QED BY <1>1, <1>2, <1>3, <1>5, <1>6, <1>7 DEF LeaseInv

\* It moves back, or its new place is taken and it stays.
LEMMA PutBackLeases ==
    ASSUME LeaseInv, TypeInv, NEW c \in Call, Advances(c), PutBack(c), fenced' = fenced
    PROVE  LeaseInv'
<1>1. CASE UNCHANGED <<lock, aside>> BY <1>1, QuietLeases
<1>2. CASE lock = None /\ lock' = aside[c] /\ aside' = [aside EXCEPT ![c] = None]
  <2>1. \A d \in Call : Unsigned(d)' => Unsigned(d) BY DEF Advances, Unsigned
  <2>2. \A d, e \in Call : call'[d].seen = e => call[d].seen = e BY NoneIsNothing DEF Advances
  <2>3. \A d \in Call : OwnedBy(d, lock)' <=> OwnedBy(d, aside[c]) BY <1>2 DEF OwnedBy
  <2>4. aside'[c] = None /\ \A e \in Call \ {c} : aside'[e] = aside[e] BY <1>2 DEF TypeInv, TypeOK
  <2>5. \A d \in Call : ~OwnedBy(d, aside[c])' BY <2>4, NobodyOwnsNone DEF OwnedBy
  <2>6. \A d \in Call, e \in Call \ {c} : OwnedBy(d, aside[e])' <=> OwnedBy(d, aside[e])
    BY <2>4 DEF OwnedBy
  <2>7. fenced \subseteq Call BY DEF TypeInv, TypeOK
  <2> QED BY <2>1, <2>2, <2>3, <2>5, <2>6, <2>7 DEF LeaseInv
<1> QED BY <1>1, <1>2 DEF PutBack

\* What was moved is discarded, and its owner is fenced or done with it.
LEMMA DiscardLeases ==
    ASSUME LeaseInv, TypeInv, NEW c \in Call, Advances(c), lock' = lock,
           aside' = [aside EXCEPT ![c] = None],
           \A d \in fenced' \ fenced : d \in Call /\ OwnedBy(d, aside[c])
    PROVE  LeaseInv'
<1>1. \A d \in Call : Unsigned(d)' => Unsigned(d) BY DEF Advances, Unsigned
<1>2. \A d, e \in Call : call'[d].seen = e => call[d].seen = e BY NoneIsNothing DEF Advances
<1>3. \A d : OwnedBy(d, lock)' <=> OwnedBy(d, lock) BY DEF OwnedBy
<1>4. aside'[c] = None /\ \A e \in Call \ {c} : aside'[e] = aside[e] BY DEF TypeInv, TypeOK
<1>5. \A d \in Call : ~OwnedBy(d, aside[c])' BY <1>4, NobodyOwnsNone DEF OwnedBy
<1>6. \A d \in Call, e \in Call \ {c} : OwnedBy(d, aside[e])' <=> OwnedBy(d, aside[e])
  BY <1>4 DEF OwnedBy
<1>7. fenced \subseteq Call BY DEF TypeInv, TypeOK
<1>8. ASSUME NEW d \in fenced' \ fenced
      PROVE  ~Unsigned(d)' /\ ~OwnedBy(d, lock)' /\ \A e \in Call : ~OwnedBy(d, aside[e])'
  <2>1. d \in Call /\ OwnedBy(d, aside[c]) BY <1>8
  <2> QED BY <2>1, <1>1, <1>3, <1>5, <1>6 DEF LeaseInv
<1> QED BY <1>1, <1>2, <1>3, <1>5, <1>6, <1>7, <1>8 DEF LeaseInv

LEMMA BeginAdvances ==
    ASSUME TypeInv, NEW c \in Call,
           \/ \E k \in Key, m \in Metadata : PutBegin(c, k, m)
           \/ \E k \in Key : DeleteBegin(c, k)
           \/ PruneBegin(c)
    PROVE  Advances(c)
<1>1. Unsigned(c) BY DEF PutBegin, DeleteBegin, PruneBegin, At, Unsigned
<1>2. ASSUME NEW k \in Key, NEW m \in Metadata, PutBegin(c, k, m) PROVE Advances(c)
  <2> DEFINE s == [Idle EXCEPT !.step = "acquire", !.op = "put", !.at = clock, !.key = k, !.meta = m]
  <2>1. s.seen = None BY DEF Idle
  <2>2. Return(c) \/ Becomes(c, s) BY <1>2 DEF PutBegin
  <2> HIDE DEF s
  <2> QED BY <1>1, <2>1, <2>2, BecomesAdvances, ReturnAdvances
<1>3. ASSUME NEW k \in Key, DeleteBegin(c, k) PROVE Advances(c)
  <2> DEFINE s == [Idle EXCEPT !.step = "acquire", !.op = "delete", !.at = clock, !.key = k]
  <2>1. s.seen = None BY DEF Idle
  <2>2. Becomes(c, s) BY <1>3 DEF DeleteBegin
  <2> HIDE DEF s
  <2> QED BY <1>1, <2>1, <2>2, BecomesAdvances
<1>4. ASSUME PruneBegin(c) PROVE Advances(c)
  <2> DEFINE s == [Idle EXCEPT !.step = "remove_files", !.op = "prune",
                               !.todo = {k \in Present : entries[k].meta.expired}]
  <2>1. s.seen = None BY DEF Idle
  <2>2. Becomes(c, s) BY <1>4 DEF PruneBegin
  <2> HIDE DEF s
  <2> QED BY <1>1, <2>1, <2>2, BecomesAdvances
<1> QED BY <1>2, <1>3, <1>4

LEMMA AcquireLeases ==
    ASSUME TypeInv, LeaseInv, NEW c \in Call, Mkdir(c) \/ InspectStale(c) \/ Exhausted(c) \/ WriteOwner(c)
    PROVE  LeaseInv'
<1>1. CASE Mkdir(c)
  <2>1. Goto(c, "write_owner") /\ Unsigned(c) BY <1>1 DEF Mkdir, At, Unsigned
  <2>2. \A d \in Call : ~OwnedBy(d, lock') BY <1>1, NobodyOwnsNone DEF Mkdir
  <2> QED BY <1>1, <2>1, <2>2, GotoAdvances, QuietLeases DEF Mkdir, history
<1>2. CASE InspectStale(c) /\ Return(c)
  <2> QED BY <1>2, ReturnAdvances, QuietLeases DEF InspectStale, history
<1>3. CASE InspectStale(c) /\ ~Return(c)
  <2> DEFINE s == [call[c] EXCEPT !.step = "move_stale", !.seen = lock.owner.by]
  <2>1. Becomes(c, s) /\ lock # None /\ lock.owner # None /\ At(c, "acquire")
    BY <1>3 DEF InspectStale
  <2>2. call[c] \in CallState BY DEF TypeInv, TypeOK
  <2>3. s.step = "move_stale" /\ s.seen = lock.owner.by BY <2>2 DEF CallState
  <2>4. call'[c] = s /\ \A d \in Call \ {c} : call'[d] = call[d] BY <2>1 DEF Becomes, TypeInv, TypeOK
  <2>5. UNCHANGED <<lock, aside, fenced>> BY <1>3 DEF InspectStale, history
  <2> HIDE DEF s
  <2>6. \A d \in Call : Unsigned(d)' <=> Unsigned(d) BY <2>1, <2>3, <2>4 DEF At, Unsigned
  <2>7. OwnedBy(lock.owner.by, lock) BY <2>1 DEF OwnedBy
  <2>8. \A d \in Call : Unsigned(d) => s.seen # d BY <2>3, <2>7 DEF LeaseInv
  <2>9. \A d, e \in Call : Unsigned(d) => call'[e].seen # d BY <2>4, <2>8 DEF LeaseInv
  <2>10. \A d : OwnedBy(d, lock)' <=> OwnedBy(d, lock) BY <2>5
  <2>11. \A d, e \in Call : OwnedBy(d, aside[e])' <=> OwnedBy(d, aside[e]) BY <2>5
  <2>12. fenced \subseteq Call BY DEF TypeInv, TypeOK
  <2> QED BY <2>5, <2>6, <2>9, <2>10, <2>11, <2>12 DEF LeaseInv
<1>4. CASE Exhausted(c) BY <1>4, ReturnAdvances, QuietLeases DEF Exhausted, history
<1>5. CASE WriteOwner(c) /\ Return(c)
  <2>1. lock' = lock \/ lock' = None \/ Goto(c, "stage") \/ Goto(c, "check")
    BY <1>5 DEF WriteOwner
  <2>2. call'[c].step = "over" BY <1>5, ReturnMoves DEF Idle
  <2>3. call[c] \in CallState BY DEF TypeInv, TypeOK
  <2>4. ~Goto(c, "stage") /\ ~Goto(c, "check") BY <2>2, <2>3 DEF Goto, Becomes, TypeInv, TypeOK, CallState
  <2>5. \A d \in Call : OwnedBy(d, lock') => OwnedBy(d, lock) BY <2>1, <2>4, NobodyOwnsNone
  <2> QED BY <1>5, <2>5, ReturnAdvances, QuietLeases DEF WriteOwner, history
<1>6. CASE WriteOwner(c) /\ ~Return(c)
  <2>1. /\ lock # None /\ At(c, "write_owner")
        /\ lock' = [lock EXCEPT !.owner = [by |-> c, at |-> call[c].at]]
        /\ Goto(c, "stage") \/ Goto(c, "check")
        /\ UNCHANGED <<aside, fenced>>
    BY <1>6 DEF WriteOwner, history
  <2>2. PICK step \in {"stage", "check"} : Goto(c, step) BY <2>1
  <2>3. call'[c] = [call[c] EXCEPT !.step = step] /\ \A d \in Call \ {c} : call'[d] = call[d]
    BY <2>2 DEF Goto, Becomes, TypeInv, TypeOK
  <2>4. call[c] \in CallState BY DEF TypeInv, TypeOK
  <2>5. call'[c].step = step /\ call'[c].seen = call[c].seen BY <2>3, <2>4 DEF CallState
  <2>6. Unsigned(c) /\ ~Unsigned(c)' BY <2>1, <2>5 DEF At, Unsigned
  <2>7. \A d \in Call \ {c} : Unsigned(d)' <=> Unsigned(d) BY <2>3 DEF Unsigned
  <2>8. \A d \in Call : call'[d].seen = call[d].seen BY <2>3, <2>5
  <2>9. lock \in LeaseDir BY <2>1 DEF TypeInv, TypeOK
  <2>10. lock'.owner = [by |-> c, at |-> call[c].at] BY <2>1, <2>9 DEF LeaseDir
  <2>11. \A d : OwnedBy(d, lock)' => d = c BY <2>10 DEF OwnedBy
  <2>12. \A d, e \in Call : OwnedBy(d, aside[e])' <=> OwnedBy(d, aside[e]) BY <2>1
  <2>13. fenced \subseteq Call BY DEF TypeInv, TypeOK
  <2> QED BY <2>1, <2>6, <2>7, <2>8, <2>11, <2>12, <2>13 DEF LeaseInv
<1> QED BY <1>1, <1>2, <1>3, <1>4, <1>5, <1>6

LEMMA MovingLeases ==
    ASSUME TypeInv, LeaseInv, NEW c \in Call,
           MoveStale(c) \/ DiscardStale(c) \/ RestoreStale(c) \/ MoveOut(c) \/ SettleRelease(c)
    PROVE  LeaseInv'
<1>1. CASE MoveStale(c)
  <2>1. Unsigned(c) BY <1>1 DEF MoveStale, At, Unsigned
  <2>2. Advances(c) BY <1>1, <2>1, RetryAdvances, GotoAdvances DEF MoveStale
  <2>3. fenced' = fenced /\ lock' = None BY <1>1 DEF MoveStale
  <2>4. CASE lock = None BY <1>1, <2>2, <2>3, <2>4, QuietLeases DEF MoveStale
  <2>5. CASE lock # None BY <1>1, <2>2, <2>3, <2>5, MoveAsideLeases DEF MoveStale
  <2> QED BY <2>4, <2>5
<1>2. CASE DiscardStale(c)
  <2>1. Unsigned(c) BY <1>2 DEF DiscardStale, At, Unsigned
  <2>2. Advances(c) BY <1>2, <2>1, RetryAdvances DEF DiscardStale
  <2>3. aside[c] # None /\ aside[c].owner # None BY <1>2 DEF DiscardStale, IsStale, OwnedBy
  <2>4. \A d \in fenced' \ fenced : d \in Call /\ OwnedBy(d, aside[c])
    BY <1>2, <2>3 DEF DiscardStale, OwnedBy
  <2> QED BY <1>2, <2>2, <2>4, DiscardLeases DEF DiscardStale
<1>3. CASE RestoreStale(c)
  <2>1. Advances(c) BY <1>3, ReturnAdvances DEF RestoreStale
  <2> QED BY <1>3, <2>1, PutBackLeases DEF RestoreStale, history
<1>4. CASE MoveOut(c)
  <2>1. Advances(c) BY <1>4, ReturnAdvances, GotoAdvances DEF MoveOut
  <2>2. fenced' = fenced /\ lock' = None BY <1>4 DEF MoveOut
  <2>3. CASE lock = None BY <1>4, <2>1, <2>2, <2>3, QuietLeases DEF MoveOut
  <2>4. CASE lock # None BY <1>4, <2>1, <2>2, <2>4, MoveAsideLeases DEF MoveOut
  <2> QED BY <2>3, <2>4
<1>5. CASE SettleRelease(c)
  <2>1. Advances(c) BY <1>5, ReturnAdvances DEF SettleRelease
  <2>2. fenced' = fenced BY <1>5 DEF SettleRelease, history
  <2>3. CASE OwnedBy(c, aside[c])
    BY <1>5, <2>1, <2>2, <2>3, DiscardLeases DEF SettleRelease
  <2>4. CASE ~OwnedBy(c, aside[c])
    BY <1>5, <2>1, <2>2, <2>4, PutBackLeases DEF SettleRelease
  <2> QED BY <2>3, <2>4
<1> QED BY <1>1, <1>2, <1>3, <1>4, <1>5

\* Staging and withdrawing a transaction leave the owner of the lease.
LEMMA StagingKeepsOwner ==
    ASSUME TypeInv, NEW c \in Call, NEW d
    PROVE  /\ OwnedBy(d, Withdrawn(c)) <=> OwnedBy(d, lock)
           /\ lock # None => (OwnedBy(d, [lock EXCEPT !.staged = @ \cup {c}]) <=> OwnedBy(d, lock))
<1>1. CASE lock = None BY <1>1 DEF Withdrawn
<1>2. CASE lock # None
  <2>1. lock \in LeaseDir BY <1>2 DEF TypeInv, TypeOK
  <2>2. /\ [lock EXCEPT !.staged = @ \cup {c}] \in LeaseDir
        /\ [lock EXCEPT !.staged = @ \cup {c}].owner = lock.owner
        /\ [lock EXCEPT !.staged = @ \ {c}] \in LeaseDir
        /\ [lock EXCEPT !.staged = @ \ {c}].owner = lock.owner
    BY <2>1 DEF LeaseDir
  <2> QED BY <1>2, <2>1, <2>2, NoneIsNothing DEF OwnedBy, Withdrawn
<1> QED BY <1>1, <1>2

LEMMA QuietStepsLeases ==
    ASSUME TypeInv, LeaseInv, NEW c \in Call,
           Stage(c) \/ CheckPut(c) \/ Commit(c) \/ Release(c)
           \/ CheckDelete(c) \/ RemoveFiles(c) \/ RemoveDirectory(c) \/ Crash(c)
    PROVE  LeaseInv'
<1>1. call[c] \in CallState /\ call[c].seen \in {call[c].seen, None} BY DEF TypeInv, TypeOK
<1>2. Advances(c)
  <2>1. CASE Stage(c) BY <2>1, GotoAdvances DEF Stage
  <2>2. CASE CheckPut(c)
    <3>1. Goto(c, "commit") \/ Goto(c, "release") BY <2>2 DEF CheckPut
    <3> QED BY <3>1, GotoAdvances
  <2>3. CASE Commit(c) BY <2>3, GotoAdvances DEF Commit
  <2>4. CASE Release(c) BY <2>4, GotoAdvances, ReturnAdvances DEF Release
  <2>5. CASE CheckDelete(c)
    <3> DEFINE s == [call[c] EXCEPT !.step = "remove_files", !.todo = {call[c].key}]
    <3>1. Becomes(c, s) \/ Goto(c, "release") BY <2>5 DEF CheckDelete
    <3>2. s.step = "remove_files" /\ s.seen = call[c].seen BY <1>1 DEF CallState
    <3> HIDE DEF s
    <3> QED BY <3>1, <3>2, BecomesAdvances, GotoAdvances
  <2>6. CASE RemoveFiles(c) BY <2>6, GotoAdvances DEF RemoveFiles
  <2>7. CASE RemoveDirectory(c)
    <3> DEFINE s == [call[c] EXCEPT !.step = "remove_files", !.todo = @ \ {Victim(c)}]
    <3>1. Becomes(c, s) \/ Return(c) \/ Goto(c, "release") BY <2>7 DEF RemoveDirectory, AfterRemoval
    <3>2. s.step = "remove_files" /\ s.seen = call[c].seen BY <1>1 DEF CallState
    <3> HIDE DEF s
    <3> QED BY <3>1, <3>2, BecomesAdvances, GotoAdvances, ReturnAdvances
  <2>8. CASE Crash(c)
    <3> DEFINE s == [Idle EXCEPT !.step = "over",
                        !.todo = IF At(c, "remove_directory") THEN {Victim(c)} ELSE {}]
    <3>1. Becomes(c, s) BY <2>8 DEF Crash
    <3>2. s.step = "over" /\ s.seen = None BY DEF Idle
    <3> HIDE DEF s
    <3> QED BY <3>1, <3>2, BecomesAdvances
  <2> QED BY <2>1, <2>2, <2>3, <2>4, <2>5, <2>6, <2>7, <2>8
<1>3. \A d \in Call : OwnedBy(d, lock') => OwnedBy(d, lock)
  <2>1. \/ lock' = lock \/ lock' = Withdrawn(c)
        \/ lock # None /\ lock' = [lock EXCEPT !.staged = @ \cup {c}]
    BY DEF Stage, CheckPut, Commit, Release, CheckDelete, RemoveFiles, RemoveDirectory, Crash
  <2> QED BY <2>1, StagingKeepsOwner
<1>4. UNCHANGED <<aside, fenced>>
  BY DEF Stage, CheckPut, Commit, Release, CheckDelete, RemoveFiles, RemoveDirectory, Crash, history
<1> QED BY <1>2, <1>3, <1>4, QuietLeases

LEMMA BeginLeases ==
    ASSUME TypeInv, LeaseInv, NEW c \in Call,
           \/ \E k \in Key, m \in Metadata : PutBegin(c, k, m)
           \/ \E k \in Key : DeleteBegin(c, k)
           \/ PruneBegin(c)
    PROVE  LeaseInv'
<1>1. UNCHANGED <<lock, aside, fenced>> BY DEF PutBegin, DeleteBegin, PruneBegin, history
<1> QED BY <1>1, BeginAdvances, QuietLeases

LEMMA NextLeases == ASSUME TypeInv, LeaseInv, [Next]_vars PROVE LeaseInv'
<1>1. CASE Tick BY <1>1 DEF Tick, LeaseInv, Unsigned, history
<1>2. CASE UNCHANGED vars BY <1>2 DEF vars, LeaseInv, Unsigned, history
<1> QED BY <1>1, <1>2, BeginLeases, AcquireLeases, MovingLeases, QuietStepsLeases DEF Next

-----------------------------------------------------------------------------
(* What the lease is worth, while no call has moved away a directory it had *)
(* not read.                                                               *)

Capped == Cardinality(Present) <= MaxItems

\* The recovery at hand is of the lease that was read; a transaction that can
\* be committed is its owner's, and there is room for it; what a holder is
\* about to remove is private.
SoundFor(c) ==
    /\ At(c, "move_stale") /\ OwnedBy(call[c].seen, lock) => Expired(c, lock.owner)
    /\ At(c, "settle_stale") => IsStale(c)
    /\ At(c, "settle_release") => OwnedBy(c, aside[c])
    /\ At(c, "commit") /\ Reachable(c) => OwnedBy(c, lock) /\ Room
    /\ call[c].step \in {"remove_files", "remove_directory"} /\ call[c].op = "delete" /\ OwnedBy(c, lock) =>
        \A k \in call[c].todo \cap Present : entries[k].meta.private

SoundInv == ~misfired => Capped /\ \A c \in Call : SoundFor(c)

LEMMA InitSound == Init => SoundInv
<1> SUFFICES ASSUME Init PROVE SoundInv OBVIOUS
<1>1. Capped BY DEF Init, Capped
<1>2. \A c \in Call : call[c].step = "idle" BY DEF Init, Idle
<1> QED BY <1>1, <1>2 DEF SoundInv, SoundFor, At

\* With fewer entries there is room for as many.
LEMMA PresentFinite == IsFiniteSet(Present) /\ Cardinality(Present) \in Nat
<1>1. IsFiniteSet(Key) /\ Present \in SUBSET Key BY CacheAssumption DEF Present
<1>2. IsFiniteSet(Present) BY <1>1, FS_Subset
<1> QED BY <1>2, FS_CardinalityType

LEMMA FewerEntries ==
    ASSUME Present' \subseteq Present
    PROVE  (Room => Room') /\ (Capped => Capped')
<1>1. IsFiniteSet(Present) /\ Cardinality(Present) \in Nat BY PresentFinite
<1>2. IsFiniteSet(Present') /\ Cardinality(Present') <= Cardinality(Present) BY <1>1, FS_Subset
<1>3. Cardinality(Present') \in Nat BY <1>2, FS_CardinalityType
<1>4. MaxItems \in Nat BY CacheAssumption
<1> QED BY <1>1, <1>2, <1>3, <1>4 DEF Room, Capped

\* A step of one call leaves to the others what they rely on.
LeaseKept(d) ==
    /\ At(d, "move_stale") /\ OwnedBy(call[d].seen, lock') =>
        OwnedBy(call[d].seen, lock) /\ lock'.owner = lock.owner
    /\ Reachable(d)' => Reachable(d) /\ (OwnedBy(d, lock) => OwnedBy(d, lock'))
    /\ OwnedBy(d, lock') => OwnedBy(d, lock)
OthersKeep(c) == \A d \in Call \ {c} : call'[d] = call[d] /\ aside'[d] = aside[d] /\ LeaseKept(d)
EntriesShrink == \A k \in Present' : k \in Present /\ entries'[k].meta = entries[k].meta

LEMMA OthersSound ==
    ASSUME TypeInv, NEW c \in Call, Capped, \A d \in Call : SoundFor(d), OthersKeep(c), EntriesShrink
    PROVE  Capped' /\ \A d \in Call \ {c} : SoundFor(d)'
<1>1. Present' \subseteq Present BY DEF EntriesShrink
<1>2. Capped' /\ (Room => Room') BY <1>1, FewerEntries
<1>3. ASSUME NEW d \in Call \ {c} PROVE SoundFor(d)'
  <2>1. SoundFor(d) /\ call'[d] = call[d] /\ aside'[d] = aside[d] /\ LeaseKept(d)
    BY <1>3 DEF OthersKeep
  <2>2. At(d, "move_stale")' /\ OwnedBy(call[d].seen, lock)' => Expired(d, lock.owner)'
    BY <2>1 DEF SoundFor, LeaseKept, At, Expired, OwnedBy
  <2>3. At(d, "settle_stale")' => IsStale(d)' BY <2>1 DEF SoundFor, At, IsStale, OwnedBy, Expired
  <2>4. At(d, "settle_release")' => OwnedBy(d, aside[d])' BY <2>1 DEF SoundFor, At, OwnedBy
  <2>5. At(d, "commit")' /\ Reachable(d)' => OwnedBy(d, lock)' /\ Room'
    BY <1>2, <2>1 DEF SoundFor, LeaseKept, At, OwnedBy
  <2>6. OwnedBy(d, lock)' => OwnedBy(d, lock) BY <2>1 DEF LeaseKept, OwnedBy
  <2>7. call'[d].step \in {"remove_files", "remove_directory"} /\ call'[d].op = "delete" /\ OwnedBy(d, lock)' =>
            \A k \in call'[d].todo \cap Present' : entries'[k].meta.private
    BY <2>1, <2>6 DEF SoundFor, EntriesShrink
  <2> QED BY <2>1, <2>2, <2>3, <2>4, <2>5, <2>7 DEF SoundFor
<1> QED BY <1>2, <1>3

\* The lease is as it was, gone, new, or has a transaction more or less.
LEMMA SameLease ==
    ASSUME TypeInv, NEW c \in Call,
           \/ lock' = lock
           \/ lock' = None
           \/ lock' = [owner |-> None, staged |-> {}]
           \/ lock' = Withdrawn(c)
           \/ lock # None /\ lock' = [lock EXCEPT !.staged = @ \cup {c}]
    PROVE  \A d \in Call \ {c} : LeaseKept(d)
<1> SUFFICES ASSUME NEW d \in Call \ {c} PROVE LeaseKept(d) OBVIOUS
<1>1. CASE lock' = lock BY <1>1 DEF LeaseKept, Reachable
<1>2. CASE lock' = None BY <1>2, NobodyOwnsNone DEF LeaseKept, Reachable
<1>3. CASE lock' = [owner |-> None, staged |-> {}] BY <1>3, NobodyOwnsNone DEF LeaseKept, Reachable
<1>4. CASE /\ lock # None
           /\ lock' \in {[lock EXCEPT !.staged = @ \ {c}], [lock EXCEPT !.staged = @ \cup {c}]}
  <2>1. lock \in LeaseDir BY <1>4 DEF TypeInv, TypeOK
  <2>2. lock'.owner = lock.owner /\ (d \in lock'.staged <=> d \in lock.staged) /\ lock' \in LeaseDir
    BY <1>4, <2>1 DEF LeaseDir
  <2>3. lock' # None BY <2>2, NoneIsNothing
  <2>4. \A b : OwnedBy(b, lock') <=> OwnedBy(b, lock) BY <1>4, <2>2, <2>3 DEF OwnedBy
  <2>5. Reachable(d)' => Reachable(d) BY <1>4, <2>2, <2>3 DEF Reachable
  <2> QED BY <2>2, <2>4, <2>5 DEF LeaseKept
<1> QED BY <1>1, <1>2, <1>3, <1>4 DEF Withdrawn

\* A call that is in none of the places SoundFor speaks of.
LEMMA OwnQuiet ==
    ASSUME NEW c \in Call,
           call'[c].step \notin {"move_stale", "settle_stale", "settle_release", "commit",
                                 "remove_files", "remove_directory"}
    PROVE  SoundFor(c)'
BY DEF SoundFor, At

LEMMA OnlyOwn ==
    ASSUME TypeInv, NEW c \in Call, NEW s, Becomes(c, s)
    PROVE  call'[c] = s /\ \A d \in Call \ {c} : call'[d] = call[d]
BY DEF Becomes, TypeInv, TypeOK

LEMMA GotoStep ==
    ASSUME TypeInv, NEW c \in Call, NEW step, Goto(c, step)
    PROVE  /\ call'[c] = [call[c] EXCEPT !.step = step] /\ call'[c].step = step
           /\ call'[c].op = call[c].op /\ call'[c].seen = call[c].seen /\ call'[c].at = call[c].at
           /\ call'[c].todo = call[c].todo
           /\ \A d \in Call \ {c} : call'[d] = call[d]
<1>1. call[c] \in CallState BY DEF TypeInv, TypeOK
<1>2. call'[c] = [call[c] EXCEPT !.step = step] /\ \A d \in Call \ {c} : call'[d] = call[d]
  BY OnlyOwn DEF Goto
<1> QED BY <1>1, <1>2 DEF CallState

LEMMA ReturnStep ==
    ASSUME TypeInv, NEW c \in Call, Return(c)
    PROVE  call'[c].step = "over" /\ \A d \in Call \ {c} : call'[d] = call[d]
BY OnlyOwn DEF Return, Idle

LEMMA RetryStep ==
    ASSUME TypeInv, NEW c \in Call, Retry(c)
    PROVE  call'[c].step = "acquire" /\ \A d \in Call \ {c} : call'[d] = call[d]
<1> DEFINE s == [call[c] EXCEPT !.step = "acquire", !.seen = None, !.attempts = @ - 1]
<1>1. call[c] \in CallState BY DEF TypeInv, TypeOK
<1>2. s.step = "acquire" BY <1>1 DEF CallState
<1>3. Becomes(c, s) BY DEF Retry
<1> HIDE DEF s
<1> QED BY <1>2, <1>3, OnlyOwn

\* Nothing moved, no entry changed: the others have what they had.
LEMMA NothingMoved ==
    ASSUME TypeInv, SoundInv, ~misfired, NEW c \in Call,
           UNCHANGED <<entries, lock, aside>>, \A d \in Call \ {c} : call'[d] = call[d],
           SoundFor(c)'
    PROVE  SoundInv'
<1>1. \A d \in Call \ {c} : LeaseKept(d) BY SameLease
<1>2. OthersKeep(c) BY <1>1 DEF OthersKeep
<1>3. EntriesShrink BY DEF EntriesShrink, Present
<1>4. Capped /\ \A d \in Call : SoundFor(d) BY DEF SoundInv
<1> QED BY <1>2, <1>3, <1>4, OthersSound DEF SoundInv

\* The step of c, seen from all calls.
LEMMA StepSound ==
    ASSUME TypeInv, SoundInv, ~misfired, NEW c \in Call,
           OthersKeep(c), EntriesShrink, SoundFor(c)'
    PROVE  SoundInv'
<1>1. Capped /\ \A d \in Call : SoundFor(d) BY DEF SoundInv
<1> QED BY <1>1, OthersSound DEF SoundInv

LEMMA BeginSound ==
    ASSUME TypeInv, SoundInv, ~misfired, NEW c \in Call,
           \/ \E k \in Key, m \in Metadata : PutBegin(c, k, m)
           \/ \E k \in Key : DeleteBegin(c, k)
           \/ PruneBegin(c)
    PROVE  SoundInv'
<1>1. UNCHANGED <<entries, lock, aside>> BY DEF PutBegin, DeleteBegin, PruneBegin
<1>2. ASSUME NEW k \in Key, NEW m \in Metadata, PutBegin(c, k, m) PROVE SoundInv'
  <2> DEFINE s == [Idle EXCEPT !.step = "acquire", !.op = "put", !.at = clock, !.key = k, !.meta = m]
  <2>1. s.step = "acquire" BY DEF Idle
  <2>2. Return(c) \/ Becomes(c, s) BY <1>2 DEF PutBegin
  <2> HIDE DEF s
  <2>3. call'[c].step \in {"over", "acquire"} /\ \A d \in Call \ {c} : call'[d] = call[d]
    BY <2>1, <2>2, OnlyOwn, ReturnStep
  <2> QED BY <1>1, <2>3, OwnQuiet, NothingMoved
<1>3. ASSUME NEW k \in Key, DeleteBegin(c, k) PROVE SoundInv'
  <2> DEFINE s == [Idle EXCEPT !.step = "acquire", !.op = "delete", !.at = clock, !.key = k]
  <2>1. s.step = "acquire" BY DEF Idle
  <2>2. Becomes(c, s) BY <1>3 DEF DeleteBegin
  <2> HIDE DEF s
  <2> QED BY <1>1, <2>1, <2>2, OnlyOwn, OwnQuiet, NothingMoved
<1>4. ASSUME PruneBegin(c) PROVE SoundInv'
  <2> DEFINE s == [Idle EXCEPT !.step = "remove_files", !.op = "prune",
                               !.todo = {k \in Present : entries[k].meta.expired}]
  <2>1. s.step = "remove_files" /\ s.op = "prune" BY DEF Idle
  <2>2. Becomes(c, s) BY <1>4 DEF PruneBegin
  <2> HIDE DEF s
  <2>3. call'[c] = s /\ \A d \in Call \ {c} : call'[d] = call[d] BY <2>2, OnlyOwn
  <2>4. SoundFor(c)' BY <2>1, <2>3 DEF SoundFor, At
  <2> QED BY <1>1, <2>3, <2>4, NothingMoved
<1> QED BY <1>2, <1>3, <1>4

LEMMA AcquireSound ==
    ASSUME TypeInv, LeaseInv, SoundInv, ~misfired, NEW c \in Call,
           Mkdir(c) \/ InspectStale(c) \/ Exhausted(c) \/ WriteOwner(c)
    PROVE  SoundInv'
<1>0. UNCHANGED <<entries, aside>> BY DEF Mkdir, InspectStale, Exhausted, WriteOwner
<1>00. EntriesShrink BY <1>0 DEF EntriesShrink, Present
<1>1. CASE Mkdir(c)
  <2>1. call'[c].step = "write_owner" /\ \A d \in Call \ {c} : call'[d] = call[d]
    BY <1>1, GotoStep DEF Mkdir
  <2>2. \A d \in Call \ {c} : LeaseKept(d) BY <1>1, SameLease DEF Mkdir
  <2> QED BY <1>0, <1>00, <2>1, <2>2, OwnQuiet, StepSound DEF OthersKeep
<1>2. CASE InspectStale(c) /\ Return(c)
  <2>1. call'[c].step = "over" /\ \A d \in Call \ {c} : call'[d] = call[d] BY <1>2, ReturnStep
  <2> QED BY <1>0, <1>2, <2>1, OwnQuiet, NothingMoved DEF InspectStale
<1>3. CASE InspectStale(c) /\ ~Return(c)
  <2> DEFINE s == [call[c] EXCEPT !.step = "move_stale", !.seen = lock.owner.by]
  <2>1. Becomes(c, s) /\ Expired(c, lock.owner) BY <1>3 DEF InspectStale
  <2>2. call[c] \in CallState BY DEF TypeInv, TypeOK
  <2>3. s.step = "move_stale" /\ s.at = call[c].at BY <2>2 DEF CallState
  <2>4. lock' = lock BY <1>3 DEF InspectStale
  <2> HIDE DEF s
  <2>5. call'[c] = s /\ \A d \in Call \ {c} : call'[d] = call[d] BY <2>1, OnlyOwn
  <2>6. Expired(c, lock.owner)' BY <2>1, <2>3, <2>4, <2>5 DEF Expired
  <2>7. SoundFor(c)' BY <2>3, <2>5, <2>6 DEF SoundFor, At
  <2> QED BY <1>0, <2>4, <2>5, <2>7, NothingMoved
<1>4. CASE Exhausted(c)
  <2>1. call'[c].step = "over" /\ \A d \in Call \ {c} : call'[d] = call[d]
    BY <1>4, ReturnStep DEF Exhausted
  <2> QED BY <1>0, <1>4, <2>1, OwnQuiet, NothingMoved DEF Exhausted
<1>5. CASE WriteOwner(c) /\ lock' = None
  <2>1. Goto(c, "stage") \/ Goto(c, "check") \/ Return(c) BY <1>5 DEF WriteOwner
  <2>2. call'[c].step \in {"stage", "check", "over"} /\ \A d \in Call \ {c} : call'[d] = call[d]
    BY <2>1, GotoStep, ReturnStep
  <2>3. \A d \in Call \ {c} : LeaseKept(d) BY <1>5, SameLease
  <2> QED BY <1>0, <1>00, <2>2, <2>3, OwnQuiet, StepSound DEF OthersKeep
<1>6. CASE WriteOwner(c) /\ lock' # None
  <2>1. /\ lock # None /\ lock.owner = None /\ At(c, "write_owner")
        /\ lock' = [lock EXCEPT !.owner = [by |-> c, at |-> call[c].at]]
        /\ Goto(c, "stage") \/ Goto(c, "check")
    BY <1>6 DEF WriteOwner
  <2>2. call'[c].step \in {"stage", "check"} /\ \A d \in Call \ {c} : call'[d] = call[d]
    BY <2>1, GotoStep
  <2>3. lock \in LeaseDir BY <2>1 DEF TypeInv, TypeOK
  <2>4. lock'.owner.by = c /\ lock'.staged = lock.staged BY <2>1, <2>3 DEF LeaseDir
  <2>5. \A b : ~OwnedBy(b, lock) BY <2>1 DEF OwnedBy
  <2>6. \A b : OwnedBy(b, lock') => b = c BY <2>4 DEF OwnedBy
  <2>7. ASSUME NEW d \in Call \ {c} PROVE LeaseKept(d)
    <3>1. call[d].seen # c BY <2>1 DEF LeaseInv, Unsigned, At
    <3> QED BY <2>1, <2>4, <2>5, <2>6, <3>1 DEF LeaseKept, Reachable
  <2> QED BY <1>0, <1>00, <2>2, <2>7, OwnQuiet, StepSound DEF OthersKeep
<1> QED BY <1>1, <1>2, <1>3, <1>4, <1>5, <1>6

LEMMA MovingSound ==
    ASSUME TypeInv, LeaseInv, SoundInv, ~misfired', NEW c \in Call,
           MoveStale(c) \/ DiscardStale(c) \/ RestoreStale(c) \/ MoveOut(c) \/ SettleRelease(c)
    PROVE  SoundInv'
<1>0. ~misfired BY DEF MoveStale, DiscardStale, RestoreStale, MoveOut, SettleRelease, history
<1>1. SoundFor(c) /\ entries' = entries
  BY <1>0 DEF SoundInv, MoveStale, DiscardStale, RestoreStale, MoveOut, SettleRelease
<1>2. EntriesShrink BY <1>1 DEF EntriesShrink, Present
<1>3. CASE MoveStale(c)
  <2>1. /\ lock' = None /\ \A d \in Call \ {c} : aside'[d] = aside[d]
        /\ Retry(c) \/ Goto(c, "settle_stale")
    BY <1>3 DEF MoveStale, TypeInv, TypeOK
  <2>2. \A d \in Call \ {c} : LeaseKept(d) BY <2>1, SameLease
  <2>3. \A d \in Call \ {c} : call'[d] = call[d] BY <2>1, RetryStep, GotoStep
  <2>4. SoundFor(c)'
    <3>1. CASE lock = None BY <1>3, <3>1, RetryStep, OwnQuiet DEF MoveStale
    <3>2. CASE lock # None
      <4>1. /\ aside'[c] = lock /\ OwnedBy(call[c].seen, lock) /\ At(c, "move_stale")
            /\ Goto(c, "settle_stale")
        BY <1>3, <3>2 DEF MoveStale, TypeInv, TypeOK
      <4>2. Expired(c, lock.owner) BY <1>1, <4>1 DEF SoundFor
      <4>3. call'[c].step = "settle_stale" /\ call'[c].seen = call[c].seen /\ call'[c].at = call[c].at
        BY <4>1, GotoStep
      <4>4. IsStale(c)' BY <4>1, <4>2, <4>3 DEF IsStale, OwnedBy, Expired
      <4> QED BY <4>3, <4>4 DEF SoundFor, At
    <3> QED BY <3>1, <3>2
  <2> QED BY <1>0, <1>2, <2>1, <2>2, <2>3, <2>4, StepSound DEF OthersKeep
<1>4. CASE DiscardStale(c)
  <2>1. /\ lock' = lock /\ (\A d \in Call \ {c} : aside'[d] = aside[d]) /\ Retry(c)
    BY <1>4 DEF DiscardStale, TypeInv, TypeOK
  <2>2. \A d \in Call \ {c} : LeaseKept(d) BY <2>1, SameLease
  <2>3. call'[c].step = "acquire" /\ \A d \in Call \ {c} : call'[d] = call[d] BY <2>1, RetryStep
  <2> QED BY <1>0, <1>2, <2>1, <2>2, <2>3, OwnQuiet, StepSound DEF OthersKeep
<1>5. ~RestoreStale(c) BY <1>1 DEF RestoreStale, SoundFor
<1>6. CASE MoveOut(c)
  <2>1. /\ lock' = None /\ \A d \in Call \ {c} : aside'[d] = aside[d]
        /\ Return(c) \/ Goto(c, "settle_release")
    BY <1>6 DEF MoveOut, TypeInv, TypeOK
  <2>2. \A d \in Call \ {c} : LeaseKept(d) BY <2>1, SameLease
  <2>3. \A d \in Call \ {c} : call'[d] = call[d] BY <2>1, ReturnStep, GotoStep
  <2>4. SoundFor(c)'
    <3>1. CASE lock = None BY <1>6, <3>1, ReturnStep, OwnQuiet DEF MoveOut
    <3>2. CASE lock # None
      <4>1. aside'[c] = lock /\ OwnedBy(c, lock) /\ Goto(c, "settle_release")
        BY <1>6, <3>2 DEF MoveOut, TypeInv, TypeOK
      <4>2. call'[c].step = "settle_release" BY <4>1, GotoStep
      <4> QED BY <4>1, <4>2 DEF SoundFor, At, OwnedBy
    <3> QED BY <3>1, <3>2
  <2> QED BY <1>0, <1>2, <2>1, <2>2, <2>3, <2>4, StepSound DEF OthersKeep
<1>7. CASE SettleRelease(c)
  <2>1. OwnedBy(c, aside[c]) BY <1>1, <1>7 DEF SettleRelease, SoundFor
  <2>2. lock' = lock /\ (\A d \in Call \ {c} : aside'[d] = aside[d]) /\ Return(c)
    BY <1>7, <2>1 DEF SettleRelease, TypeInv, TypeOK
  <2>3. \A d \in Call \ {c} : LeaseKept(d) BY <2>2, SameLease
  <2>4. call'[c].step = "over" /\ \A d \in Call \ {c} : call'[d] = call[d] BY <2>2, ReturnStep
  <2> QED BY <1>0, <1>2, <2>2, <2>3, <2>4, OwnQuiet, StepSound DEF OthersKeep
<1> QED BY <1>3, <1>4, <1>5, <1>6, <1>7

LEMMA PutSound ==
    ASSUME TypeInv, SoundInv, ~misfired, NEW c \in Call, Stage(c) \/ CheckPut(c) \/ Release(c)
    PROVE  SoundInv'
<1>1. UNCHANGED <<entries, aside>> BY DEF Stage, CheckPut, Release
<1>2. EntriesShrink BY <1>1 DEF EntriesShrink, Present
<1>3. CASE Stage(c)
  <2>1. call'[c].step \in {"release", "check"} /\ \A d \in Call \ {c} : call'[d] = call[d]
    BY <1>3, GotoStep DEF Stage
  <2>2. \A d \in Call \ {c} : LeaseKept(d) BY <1>3, SameLease DEF Stage
  <2> QED BY <1>1, <1>2, <2>1, <2>2, OwnQuiet, StepSound DEF OthersKeep
<1>4. CASE CheckPut(c)
  <2>1. lock' = lock BY <1>4 DEF CheckPut
  <2>2. CASE Goto(c, "release")
    <3>1. call'[c].step = "release" /\ \A d \in Call \ {c} : call'[d] = call[d] BY <2>2, GotoStep
    <3> QED BY <1>1, <2>1, <3>1, OwnQuiet, NothingMoved
  <2>3. CASE ~Goto(c, "release")
    <3>1. Goto(c, "commit") /\ OwnedBy(c, lock) /\ Room BY <1>4, <2>3 DEF CheckPut
    <3>2. call'[c].step = "commit" /\ \A d \in Call \ {c} : call'[d] = call[d] BY <3>1, GotoStep
    <3>3. OwnedBy(c, lock)' /\ Room' BY <1>1, <2>1, <3>1 DEF OwnedBy, Room, Present
    <3>4. SoundFor(c)' BY <3>2, <3>3 DEF SoundFor, At
    <3> QED BY <1>1, <2>1, <3>2, <3>4, NothingMoved
  <2> QED BY <2>2, <2>3
<1>5. CASE Release(c)
  <2>1. call'[c].step \in {"move_out", "over"} /\ \A d \in Call \ {c} : call'[d] = call[d]
    BY <1>5, GotoStep, ReturnStep DEF Release
  <2>2. \A d \in Call \ {c} : LeaseKept(d) BY <1>5, SameLease DEF Release
  <2> QED BY <1>1, <1>2, <2>1, <2>2, OwnQuiet, StepSound DEF OthersKeep
<1> QED BY <1>3, <1>4, <1>5

\* The one who commits owns the lease, so nobody else is about to commit and
\* nobody who holds it is about to remove; and there was room.
LEMMA CommitSound ==
    ASSUME TypeInv, LeaseInv, SoundInv, ~misfired, NEW c \in Call, Commit(c)
    PROVE  SoundInv'
<1>1. call'[c].step = "release" /\ \A d \in Call \ {c} : call'[d] = call[d]
  BY GotoStep DEF Commit
<1>2. aside' = aside /\ SoundFor(c)' BY <1>1, OwnQuiet DEF Commit
<1>3. CASE UNCHANGED <<entries, lock>> BY <1>1, <1>2, <1>3, NothingMoved
<1>4. CASE ~UNCHANGED <<entries, lock>>
  <2> DEFINE k == call[c].key
             e == [meta |-> call[c].meta, whole |-> TRUE, by |-> c]
  <2>1. /\ At(c, "commit") /\ Reachable(c) /\ k \notin Present
        /\ entries' = [entries EXCEPT ![k] = e] /\ lock' = Withdrawn(c)
    BY <1>4 DEF Commit, NewName
  <2>2. OwnedBy(c, lock) /\ Room /\ Capped BY <2>1 DEF SoundInv, SoundFor
  <2>3. k \in Key /\ e \in Entry BY <2>1 DEF TypeInv, StateOK, At, Entry
  <2>4. Present' = Present \cup {k}
    <3>1. e # None BY <2>3, NoneIsNothing
    <3>2. entries \in [Key -> Entry \cup {None}] BY DEF TypeInv, TypeOK
    <3> HIDE DEF e, k
    <3> QED BY <2>1, <2>3, <3>1, <3>2 DEF Present
  <2>5. Capped'
    <3>1. Cardinality(Present') = Cardinality(Present) + 1 BY <2>1, <2>4, PresentFinite, FS_AddElement
    <3> QED BY <2>2, <3>1, PresentFinite, CacheAssumption DEF Room, Capped
  <2>6. ASSUME NEW d \in Call \ {c} PROVE SoundFor(d)'
    <3>1. SoundFor(d) /\ call'[d] = call[d] /\ aside'[d] = aside[d] BY <1>1, <1>2 DEF SoundInv
    <3>2. LeaseKept(d) BY <2>1, SameLease
    <3>3. ~OwnedBy(d, lock) BY <2>2 DEF OwnedBy
    <3>4. ~OwnedBy(d, lock)' BY <3>2, <3>3 DEF LeaseKept, OwnedBy
    <3>5. At(d, "move_stale")' /\ OwnedBy(call[d].seen, lock)' => Expired(d, lock.owner)'
      BY <3>1, <3>2 DEF SoundFor, LeaseKept, At, Expired, OwnedBy
    <3>6. At(d, "settle_stale")' => IsStale(d)' BY <3>1 DEF SoundFor, At, IsStale, OwnedBy, Expired
    <3>7. At(d, "settle_release")' => OwnedBy(d, aside[d])' BY <3>1 DEF SoundFor, At, OwnedBy
    <3>8. ~(At(d, "commit")' /\ Reachable(d)') BY <3>1, <3>2, <3>3 DEF SoundFor, LeaseKept, At
    <3> QED BY <3>4, <3>5, <3>6, <3>7, <3>8 DEF SoundFor
  <2> QED BY <1>2, <2>5, <2>6 DEF SoundInv
<1> QED BY <1>3, <1>4

\* What an entry that is there becomes of a removal.
LEMMA RemovalShrinks ==
    ASSUME TypeInv, NEW c \in Call, RemoveFiles(c) \/ RemoveDirectory(c)
    PROVE  EntriesShrink
<1>1. entries \in [Key -> Entry \cup {None}] BY DEF TypeInv, TypeOK
<1>2. CASE RemoveFiles(c)
  <2> SUFFICES ASSUME NEW k \in Present' PROVE k \in Present /\ entries'[k].meta = entries[k].meta
    BY DEF EntriesShrink
  <2>1. k \in Key /\ entries'[k] # None BY DEF Present
  <2>2. entries'[k] = entries[k] \/ (entries[k] # None /\ entries'[k] = [entries[k] EXCEPT !.whole = FALSE])
    BY <1>1, <1>2, <2>1 DEF RemoveFiles
  <2>3. entries[k] # None BY <2>1, <2>2
  <2>4. entries[k] \in Entry BY <1>1, <2>1, <2>3
  <2>5. [entries[k] EXCEPT !.whole = FALSE].meta = entries[k].meta BY <2>4 DEF Entry
  <2> QED BY <2>1, <2>2, <2>3, <2>5 DEF Present
<1>3. CASE RemoveDirectory(c)
  <2>1. \A k \in Key : entries'[k] = entries[k] \/ entries'[k] = None
    BY <1>1, <1>3 DEF RemoveDirectory
  <2> QED BY <2>1 DEF EntriesShrink, Present
<1> QED BY <1>2, <1>3

LEMMA RemovalSound ==
    ASSUME TypeInv, SoundInv, ~misfired, NEW c \in Call,
           CheckDelete(c) \/ RemoveFiles(c) \/ RemoveDirectory(c) \/ Crash(c)
    PROVE  SoundInv'
<1>1. UNCHANGED <<lock, aside>> BY DEF CheckDelete, RemoveFiles, RemoveDirectory, Crash
<1>2. \A d \in Call \ {c} : LeaseKept(d) BY <1>1, SameLease
<1>3. SoundFor(c) /\ call[c] \in CallState BY DEF SoundInv, TypeInv, TypeOK
<1>4. CASE CheckDelete(c)
  <2> DEFINE s == [call[c] EXCEPT !.step = "remove_files", !.todo = {call[c].key}]
  <2>1. entries' = entries BY <1>4 DEF CheckDelete
  <2>2. CASE Goto(c, "release")
    <3>1. call'[c].step = "release" /\ \A d \in Call \ {c} : call'[d] = call[d] BY <2>2, GotoStep
    <3> QED BY <1>1, <2>1, <3>1, OwnQuiet, NothingMoved
  <2>3. CASE ~Goto(c, "release")
    <3>1. Becomes(c, s) /\ entries[call[c].key].meta.private BY <1>4, <2>3 DEF CheckDelete, StillPrivate
    <3>2. s.step = "remove_files" /\ s.todo = {call[c].key} BY <1>3 DEF CallState
    <3> HIDE DEF s
    <3>3. call'[c] = s /\ \A d \in Call \ {c} : call'[d] = call[d] BY <3>1, OnlyOwn
    <3>4. SoundFor(c)' BY <2>1, <3>1, <3>2, <3>3 DEF SoundFor, At
    <3> QED BY <1>1, <2>1, <3>3, <3>4, NothingMoved
  <2> QED BY <2>2, <2>3
<1>5. CASE RemoveFiles(c)
  <2>1. EntriesShrink BY <1>5, RemovalShrinks
  <2>2. Goto(c, "remove_directory") /\ At(c, "remove_files") BY <1>5 DEF RemoveFiles
  <2>3. /\ call'[c].step = "remove_directory" /\ call'[c].op = call[c].op /\ call'[c].todo = call[c].todo
        /\ \A d \in Call \ {c} : call'[d] = call[d]
    BY <2>2, GotoStep
  <2>4. SoundFor(c)' BY <1>1, <1>3, <2>1, <2>2, <2>3 DEF SoundFor, At, OwnedBy, EntriesShrink
  <2> QED BY <1>1, <1>2, <2>1, <2>3, <2>4, StepSound DEF OthersKeep
<1>6. CASE RemoveDirectory(c)
  <2> DEFINE s == [call[c] EXCEPT !.step = "remove_files", !.todo = @ \ {Victim(c)}]
  <2>1. EntriesShrink BY <1>6, RemovalShrinks
  <2>2. Return(c) \/ Goto(c, "release") \/ Becomes(c, s) BY <1>6 DEF RemoveDirectory, AfterRemoval
  <2>3. s.step = "remove_files" /\ s.op = call[c].op /\ s.todo \subseteq call[c].todo BY <1>3 DEF CallState
  <2> HIDE DEF s
  <2>4. \A d \in Call \ {c} : call'[d] = call[d] BY <2>2, ReturnStep, GotoStep, OnlyOwn
  <2>5. SoundFor(c)'
    <3>1. CASE Return(c) \/ Goto(c, "release")
      <4>1. call'[c].step \in {"over", "release"} BY <3>1, ReturnStep, GotoStep
      <4> QED BY <4>1, OwnQuiet
    <3>2. CASE Becomes(c, s)
      <4>1. call'[c] = s /\ At(c, "remove_directory") BY <1>6, <3>2, OnlyOwn DEF RemoveDirectory
      <4> QED BY <1>1, <1>3, <2>1, <2>3, <4>1 DEF SoundFor, At, OwnedBy, EntriesShrink
    <3> QED BY <2>2, <3>1, <3>2
  <2> QED BY <1>1, <1>2, <2>1, <2>4, <2>5, StepSound DEF OthersKeep
<1>7. CASE Crash(c)
  <2> DEFINE s == [Idle EXCEPT !.step = "over",
                      !.todo = IF At(c, "remove_directory") THEN {Victim(c)} ELSE {}]
  <2>1. Becomes(c, s) /\ entries' = entries BY <1>7 DEF Crash
  <2>2. s.step = "over" BY DEF Idle
  <2> HIDE DEF s
  <2>3. call'[c] = s /\ \A d \in Call \ {c} : call'[d] = call[d] BY <2>1, OnlyOwn
  <2> QED BY <1>1, <2>1, <2>2, <2>3, OwnQuiet, NothingMoved
<1> QED BY <1>4, <1>5, <1>6, <1>7

LEMMA NextSound == ASSUME TypeInv, LeaseInv, SoundInv, [Next]_vars PROVE SoundInv'
<1> SUFFICES ASSUME ~misfired' PROVE SoundInv' BY DEF SoundInv
<1>1. ASSUME NEW c \in Call,
             MoveStale(c) \/ DiscardStale(c) \/ RestoreStale(c) \/ MoveOut(c) \/ SettleRelease(c)
      PROVE  SoundInv'
  BY <1>1, MovingSound
<1>2. ASSUME misfired' = misfired, NEW c \in Call,
             \/ \E k \in Key, m \in Metadata : PutBegin(c, k, m)
             \/ \E k \in Key : DeleteBegin(c, k)
             \/ PruneBegin(c)
             \/ Mkdir(c) \/ InspectStale(c) \/ Exhausted(c) \/ WriteOwner(c)
             \/ Stage(c) \/ CheckPut(c) \/ Release(c) \/ Commit(c)
             \/ CheckDelete(c) \/ RemoveFiles(c) \/ RemoveDirectory(c) \/ Crash(c)
      PROVE  SoundInv'
  BY <1>2, BeginSound, AcquireSound, PutSound, CommitSound, RemovalSound
<1>3. CASE Tick \/ UNCHANGED vars
  <2>1. UNCHANGED <<entries, lock, aside, call, misfired>> BY <1>3 DEF Tick, vars, history
  <2> QED BY <2>1 DEF SoundInv, SoundFor, Capped, Present, At, IsStale, Expired, OwnedBy, Reachable, Room
<1>4. ASSUME NEW c \in Call,
             \/ \E k \in Key, m \in Metadata : PutBegin(c, k, m)
             \/ \E k \in Key : DeleteBegin(c, k)
             \/ PruneBegin(c)
             \/ Mkdir(c) \/ InspectStale(c) \/ Exhausted(c) \/ WriteOwner(c)
             \/ Stage(c) \/ CheckPut(c) \/ Release(c) \/ Commit(c)
             \/ CheckDelete(c) \/ RemoveFiles(c) \/ RemoveDirectory(c) \/ Crash(c)
      PROVE  misfired' = misfired
  BY <1>4 DEF PutBegin, DeleteBegin, PruneBegin, Mkdir, InspectStale, Exhausted, WriteOwner, Stage,
              CheckPut, Release, Commit, CheckDelete, RemoveFiles, RemoveDirectory, Crash, history
<1> QED BY <1>1, <1>2, <1>3, <1>4 DEF Next

-----------------------------------------------------------------------------
(* Partial entries.                                                        *)

\* A removal of k is half done, and its call is still at it or crashed there.
HalfRemoved(c, k) ==
    \/ At(c, "remove_directory") /\ Victim(c) = k
    \/ At(c, "over") /\ call[c].todo = {k}

PartialInv == \A k \in Present : ~entries[k].whole => \E c \in Call : HalfRemoved(c, k)

LEMMA InitPartial == Init => PartialInv
BY DEF Init, PartialInv, Present

\* What only a removal or a commit does to an entry.
LEMMA EntriesStay ==
    ASSUME Next, \A c \in Call : ~RemoveFiles(c) /\ ~RemoveDirectory(c) /\ ~Commit(c)
    PROVE  entries' = entries
BY DEF Next, PutBegin, DeleteBegin, PruneBegin, Mkdir, InspectStale, Exhausted, MoveStale, DiscardStale,
       RestoreStale, WriteOwner, Stage, CheckPut, CheckDelete, Release, MoveOut, SettleRelease, Crash, Tick

\* No other step ends a removal that has begun.
LEMMA RemovalStays ==
    ASSUME TypeInv, Next, NEW c \in Call, NEW k, HalfRemoved(c, k), ~RemoveDirectory(c)
    PROVE  HalfRemoved(c, k)'
<1>1. CASE call'[c] = call[c] BY <1>1 DEF HalfRemoved, At, Victim
<1>2. CASE call'[c] # call[c]
  <2>1. PICK d \in Call :
           \/ \E j \in Key, m \in Metadata : PutBegin(d, j, m)
           \/ \E j \in Key : DeleteBegin(d, j)
           \/ PruneBegin(d)
           \/ Mkdir(d) \/ InspectStale(d) \/ Exhausted(d) \/ WriteOwner(d)
           \/ MoveStale(d) \/ DiscardStale(d) \/ RestoreStale(d) \/ MoveOut(d) \/ SettleRelease(d)
           \/ Stage(d) \/ CheckPut(d) \/ Commit(d) \/ Release(d)
           \/ CheckDelete(d) \/ RemoveFiles(d) \/ RemoveDirectory(d) \/ Crash(d)
    BY <1>2 DEF Next, Tick
  <2>2. \A e \in Call \ {d} : call'[e] = call[e]
    <3>1. CASE ~InspectStale(d)
      <4>1. \/ \E s : Becomes(d, s)
            \/ \E step : Goto(d, step)
            \/ Return(d) \/ Retry(d)
        BY <2>1, <3>1 DEF PutBegin, DeleteBegin, PruneBegin, Mkdir, Exhausted, WriteOwner,
              MoveStale, DiscardStale, RestoreStale, MoveOut, SettleRelease, Stage, CheckPut, Commit,
              Release, CheckDelete, RemoveFiles, RemoveDirectory, AfterRemoval, Crash
      <4> QED BY <4>1, OnlyOwn DEF Goto, Return, Retry
    <3>2. CASE InspectStale(d)
      <4>1. \E s : Becomes(d, s) BY <3>2 DEF InspectStale, Return
      <4> QED BY <4>1, OnlyOwn
    <3> QED BY <3>1, <3>2
  <2>3. d = c BY <1>2, <2>2
  <2>4. Crash(c) /\ At(c, "remove_directory") /\ Victim(c) = k
    BY <2>1, <2>3 DEF HalfRemoved, At, PutBegin, DeleteBegin, PruneBegin, Mkdir, InspectStale, Exhausted,
          WriteOwner, MoveStale, DiscardStale, RestoreStale, MoveOut, SettleRelease, Stage, CheckPut,
          Commit, Release, CheckDelete, RemoveFiles, Crash
  <2> DEFINE s == [Idle EXCEPT !.step = "over",
                      !.todo = IF At(c, "remove_directory") THEN {Victim(c)} ELSE {}]
  <2>5. Becomes(c, s) BY <2>4 DEF Crash
  <2>6. s.step = "over" /\ s.todo = {k} BY <2>4 DEF Idle
  <2> HIDE DEF s
  <2>7. call'[c] = s BY <2>5, OnlyOwn
  <2> QED BY <2>6, <2>7 DEF HalfRemoved, At
<1> QED BY <1>1, <1>2

LEMMA NextPartial == ASSUME TypeInv, PartialInv, [Next]_vars PROVE PartialInv'
<1>0. CASE UNCHANGED vars
  BY <1>0 DEF vars, PartialInv, Present, HalfRemoved, At, Victim
<1> SUFFICES ASSUME Next, NEW k \in Present', ~entries'[k].whole
             PROVE  \E c \in Call : HalfRemoved(c, k)'
  BY <1>0 DEF PartialInv
<1>1. k \in Key /\ entries'[k] # None /\ entries \in [Key -> Entry \cup {None}]
  BY DEF Present, TypeInv, TypeOK
<1>2. CASE k \in Present /\ ~entries[k].whole
  <2>1. PICK c \in Call : HalfRemoved(c, k) BY <1>2 DEF PartialInv
  <2>2. ~RemoveDirectory(c)
    <3> SUFFICES ASSUME RemoveDirectory(c) PROVE FALSE OBVIOUS
    <3>1. Victim(c) = k BY <2>1 DEF HalfRemoved, RemoveDirectory, At
    <3>2. ~Loads(k) BY <1>2 DEF Loads
    <3> QED BY <1>1, <3>1, <3>2 DEF RemoveDirectory
  <2> QED BY <2>1, <2>2, RemovalStays
<1>3. CASE ~(k \in Present /\ ~entries[k].whole)
  <2>1. entries'[k] # entries[k] BY <1>1, <1>3 DEF Present
  <2>2. PICK c \in Call : RemoveFiles(c) \/ RemoveDirectory(c) \/ Commit(c) BY <2>1, EntriesStay
  <2>3. ~RemoveDirectory(c) BY <1>1, <2>1 DEF RemoveDirectory
  <2>4. ~Commit(c)
    <3> SUFFICES ASSUME Commit(c) PROVE FALSE OBVIOUS
    <3>1. k = call[c].key /\ entries'[k] = [meta |-> call[c].meta, whole |-> TRUE, by |-> c]
      BY <1>1, <2>1 DEF Commit
    <3> QED BY <3>1
  <2>5. RemoveFiles(c) /\ Victim(c) = k BY <1>1, <2>1, <2>2, <2>3, <2>4 DEF RemoveFiles
  <2>6. call'[c].step = "remove_directory" /\ call'[c].todo = call[c].todo
    BY <2>5, GotoStep DEF RemoveFiles
  <2>7. HalfRemoved(c, k)' BY <2>5, <2>6 DEF HalfRemoved, At, Victim
  <2> QED BY <2>7
<1> QED BY <1>2, <1>3

-----------------------------------------------------------------------------
(* Theorems.                                                               *)

CacheInv == TypeInv /\ LeaseInv /\ SoundInv /\ PartialInv

LEMMA InitCache == Init => CacheInv
BY InitTypes, InitLeases, InitSound, InitPartial DEF CacheInv

LEMMA NextCache == CacheInv /\ [Next]_vars => CacheInv'
BY NextTypes, NextLeases, NextSound, NextPartial DEF CacheInv

\* However puts, removals, recoveries and crashes interleave, the cap on
\* entries holds as long as no call has moved away a lease it had not read.
THEOREM CapHolds == Spec => []CapKept
<1>1. CacheInv => CapKept BY DEF CacheInv, SoundInv, Capped, CapKept
<1> QED BY <1>1, InitCache, NextCache, PTL DEF Spec

\* A partial entry is the work of a removal, under way or crashed, never of a
\* put.
THEOREM PartialByRemoval == Spec => []OnlyRemovalsArePartial
<1>1. ASSUME CacheInv PROVE OnlyRemovalsArePartial
  <2>1. ASSUME NEW c \in Call, NEW k \in Present, HalfRemoved(c, k)
        PROVE  k \in call[c].todo /\ call[c].step \in {"remove_directory", "over"}
    <3>1. CASE At(c, "remove_directory") /\ Victim(c) = k
      <4>1. call[c].todo # {} BY <1>1, <3>1 DEF CacheInv, TypeInv, StateOK, At
      <4> QED BY <1>1, <3>1, <4>1, VictimIsTodo DEF CacheInv, At
    <3>2. CASE At(c, "over") /\ call[c].todo = {k} BY <3>2 DEF At
    <3> QED BY <2>1, <3>1, <3>2 DEF HalfRemoved
  <2> QED BY <1>1, <2>1 DEF CacheInv, TypeInv, PartialInv, OnlyRemovalsArePartial
<1> QED BY <1>1, InitCache, NextCache, PTL DEF Spec

\* Nothing replaces an entry, and a holder of the lease removes private
\* entries only.
THEOREM EntriesKept == Spec => EntriesAreKept
<1> DEFINE Same == \A k \in Present : entries'[k] \in {entries[k], [entries[k] EXCEPT !.whole = FALSE], None}
           Private == \A c \in Call : Deletes(c) /\ OwnedBy(c, lock) /\ ~misfired =>
                          \A k \in Present : entries'[k] # entries[k] => entries[k].meta.private
<1>1. ASSUME CacheInv, Next PROVE Same
  <2>1. entries \in [Key -> Entry \cup {None}] BY <1>1 DEF CacheInv, TypeInv, TypeOK
  <2>2. CASE entries' = entries BY <2>2
  <2>3. ASSUME NEW c \in Call, RemoveFiles(c) \/ RemoveDirectory(c) PROVE Same
    BY <2>1, <2>3 DEF RemoveFiles, RemoveDirectory, Present
  <2>4. ASSUME NEW c \in Call, Commit(c) PROVE Same
    <3>1. \A k \in Present : entries'[k] = entries[k] BY <2>1, <2>4 DEF Commit, NewName, Present
    <3> QED BY <3>1
  <2> QED BY <1>1, <2>2, <2>3, <2>4, EntriesStay
<1>2. ASSUME CacheInv, Next PROVE Private
  <2> SUFFICES ASSUME NEW c \in Call, Deletes(c), OwnedBy(c, lock), ~misfired,
                      NEW k \in Present, entries'[k] # entries[k]
               PROVE  entries[k].meta.private
    OBVIOUS
  <2>1. TypeInv /\ SoundFor(c) BY <1>2 DEF CacheInv, SoundInv
  <2>2. At(c, "remove_files") /\ call[c].op = "delete" /\ call'[c] # call[c] BY DEF Deletes
  <2>3. k \in call[c].todo
    <3>1. entries \in [Key -> Entry \cup {None}] /\ k \in Key BY <2>1 DEF TypeInv, TypeOK, Present
    <3>2. PICK d \in Call : RemoveFiles(d) \/ RemoveDirectory(d) \/ Commit(d) BY <1>2, EntriesStay
    <3>3. \A e \in Call \ {d} : call'[e] = call[e]
      <4>1. \/ \E s : Becomes(d, s)
            \/ \E step : Goto(d, step)
            \/ Return(d)
        BY <3>2 DEF RemoveFiles, RemoveDirectory, AfterRemoval, Commit
      <4> QED BY <2>1, <4>1, OnlyOwn DEF Goto, Return
    <3>4. d = c BY <2>2, <3>3
    <3>5. RemoveFiles(c) BY <2>2, <3>2, <3>4 DEF RemoveDirectory, Commit, At
    <3>6. k = Victim(c) BY <3>1, <3>5 DEF RemoveFiles
    <3>7. call[c].todo # {} BY <2>1, <2>2 DEF TypeInv, StateOK, At
    <3> QED BY <2>1, <3>6, <3>7, VictimIsTodo
  <2> QED BY <2>1, <2>2, <2>3 DEF SoundFor, At
<1>3. ASSUME CacheInv, UNCHANGED vars PROVE Same /\ Private
  BY <1>3 DEF vars, Deletes
<1>4. Spec => []CacheInv BY InitCache, NextCache, PTL DEF Spec
<1>5. Spec => Immutable BY <1>1, <1>3, <1>4, PTL DEF Spec, Immutable
<1>6. Spec => DeletesOnlyPrivate BY <1>2, <1>3, <1>4, PTL DEF Spec, DeletesOnlyPrivate
<1> QED BY <1>5, <1>6 DEF EntriesAreKept

\* A writer whose lease was discarded never commits, and only an expired lease
\* or one's own is discarded.
THEOREM LeaseProtects == Spec => LeasesProtect
<1> DEFINE Fenced == ~misfired => \A c \in fenced : ~Commits(c)
           Read == \A c \in Call : aside[c] # None /\ aside'[c] = None /\ lock' # aside[c] =>
                       OwnedBy(c, aside[c]) \/ (aside[c].owner # None /\ Expired(c, aside[c].owner))
<1>1. ASSUME CacheInv, Next PROVE Fenced
  <2> SUFFICES ASSUME ~misfired, NEW c \in fenced, Commits(c) PROVE FALSE OBVIOUS
  <2>1. c \in Call /\ TypeInv /\ SoundFor(c) /\ ~OwnedBy(c, lock)
    BY <1>1 DEF CacheInv, SoundInv, LeaseInv, TypeInv, TypeOK
  <2>2. ~Reachable(c) BY <2>1 DEF Commits, SoundFor
  <2>3. PICK d \in Call : RemoveFiles(d) \/ RemoveDirectory(d) \/ Commit(d)
    BY <1>1, EntriesStay DEF Commits
  <2>4. \A e \in Call \ {d} : call'[e] = call[e]
    <3>1. \/ \E s : Becomes(d, s)
          \/ \E step : Goto(d, step)
          \/ Return(d)
      BY <2>3 DEF RemoveFiles, RemoveDirectory, AfterRemoval, Commit
    <3> QED BY <2>1, <3>1, OnlyOwn DEF Goto, Return
  <2>5. d = c BY <2>1, <2>4 DEF Commits
  <2>6. Commit(c) BY <2>3, <2>5 DEF Commits, RemoveFiles, RemoveDirectory, At
  <2> QED BY <2>2, <2>6 DEF Commit, Commits
<1>2. ASSUME CacheInv, Next PROVE Read
  <2> SUFFICES ASSUME NEW c \in Call, aside[c] # None, aside'[c] = None, lock' # aside[c]
               PROVE  OwnedBy(c, aside[c]) \/ (aside[c].owner # None /\ Expired(c, aside[c].owner))
    OBVIOUS
  <2>1. aside \in [Call -> LeaseDir \cup {None}] BY <1>2 DEF CacheInv, TypeInv, TypeOK
  <2>2. PICK d \in Call : MoveStale(d) \/ DiscardStale(d) \/ RestoreStale(d) \/ MoveOut(d) \/ SettleRelease(d)
    BY <1>2 DEF Next, PutBegin, DeleteBegin, PruneBegin, Mkdir, InspectStale, Exhausted, WriteOwner, Stage,
                CheckPut, Commit, CheckDelete, RemoveFiles, RemoveDirectory, Release, Crash, Tick
  <2>3. d = c /\ ~MoveStale(d) /\ ~MoveOut(d)
    BY <2>1, <2>2 DEF MoveStale, DiscardStale, RestoreStale, MoveOut, SettleRelease, PutBack
  <2>4. CASE DiscardStale(c) BY <2>4 DEF DiscardStale, IsStale, OwnedBy
  <2>5. CASE RestoreStale(c) BY <2>5 DEF RestoreStale, PutBack
  <2>6. CASE SettleRelease(c) BY <2>6 DEF SettleRelease, PutBack
  <2> QED BY <2>2, <2>3, <2>4, <2>5, <2>6
<1>3. ASSUME CacheInv, UNCHANGED vars PROVE Fenced /\ Read
  BY <1>3 DEF vars, Commits
<1>4. Spec => []CacheInv BY InitCache, NextCache, PTL DEF Spec
<1>5. Spec => FencedNeverCommits BY <1>1, <1>3, <1>4, PTL DEF Spec, FencedNeverCommits
<1>6. Spec => DiscardsWhatItRead BY <1>2, <1>3, <1>4, PTL DEF Spec, DiscardsWhatItRead
<1> QED BY <1>5, <1>6 DEF LeasesProtect
=============================================================================
