--------------------------- MODULE RegistryProofs ---------------------------
(***************************************************************************)
(* Theorems about Registry for any writers, readers, releases and bundles: *)
(* the index is sound whatever fails or crashes where, readers need no     *)
(* lock, and the files implement the atomic Catalog.                       *)
(***************************************************************************)
EXTENDS Registry, FiniteSetTheorems, TLAPS

\* TypeOK but for the bound on the renames.
Types ==
    /\ index \in Index
    /\ file \in Nat
    /\ blobs \in [Digest -> {"none", "whole", "damaged"}]
    /\ lock \in Writer \cup {None}
    /\ writer \in [Writer -> WriterState]
    /\ reader \in [Reader -> ReaderState]

\* The steps a writer takes under the lock.
Locked == {"plan", "install", "commit", "undo", "unlock"}
LockHeld == \A w \in Writer : writer[w].step \in Locked => lock = w

Superseded(call) ==
    [index[call.supersedes] EXCEPT !.status = "superseded", !.assessed = call.at, !.successor = call.digest]

\* What a writer has decided still holds of the index: it is the only one to
\* write, and has not yet.
Publishes(call, next) ==
    LET c == Bundle[call.digest].coordinate
    IN  /\ call \in Publication
        /\ index[c] = None
        /\ call.supersedes # None => MaySupersede(call, c)
        /\ next = [x \in Coordinate |-> IF x = c THEN NewEntry(call)
                                        ELSE IF x = call.supersedes THEN Superseded(call)
                                        ELSE index[x]]

Assessed(call) ==
    [index[call.coordinate] EXCEPT !.status = call.status, !.assessed = call.at, !.successor = None]

Assesses(call, next) ==
    /\ call \in Assessment
    /\ index[call.coordinate] # None
    /\ index[call.coordinate].status \in Open
    /\ index[call.coordinate].status # call.status
    /\ call.at >= index[call.coordinate].assessed
    /\ next = [x \in Coordinate |-> IF x = call.coordinate THEN Assessed(call) ELSE index[x]]

Intent(w) ==
    LET me == writer[w]
    IN  /\ me.step \in {"start", "plan", "install"} => ~me.created
        /\ me.step = "plan" => me.call \in Publication \cup Assessment
        /\ me.step = "install" => Publishes(me.call, me.next)
        /\ me.step = "commit" =>
              \/ Publishes(me.call, me.next) /\ blobs[me.call.digest] # "none"
              \/ Assesses(me.call, me.next) /\ ~me.created
        /\ me.step \in {"install", "commit"} => Valid(me.next)
        /\ me.step \in {"commit", "undo"} /\ me.created =>
              me.call \in Publication /\ me.call.digest \notin DigestsOf(index)

\* A release that may still be assessed has no successor.
OpenHasNoSuccessor == \A c \in Named(index) : index[c].status \in Open => index[c].successor = None

Sound == Valid(index) /\ BlobsAreThere /\ NamesItsBundles /\ KeepsAHead /\ OpenHasNoSuccessor

WritersInv == Types /\ LockHeld /\ (\A w \in Writer : Intent(w)) /\ Sound

-----------------------------------------------------------------------------
(* Types.                                                                  *)

LEMMA Records ==
    /\ \A call \in Publication : call.op = "publish" /\ call.digest \in Digest /\ call.at \in Time
                                 /\ call.supersedes \in Coordinate \cup {None}
    /\ \A call \in Assessment : call.op = "assess" /\ call.coordinate \in Coordinate
                                /\ call.status \in {"stale", "revoked"} /\ call.at \in Time
    /\ \A e \in Entry : e # None /\ e.digest \in Digest /\ e.status \in Status /\ e.assessed \in Nat
                        /\ e.successor \in Digest \cup {None}
    /\ \A d \in Digest : Bundle[d].coordinate \in Coordinate
BY RegistryAssumption DEF Publication, Assessment, Entry, BundleFacts

LEMMA InitInv == Init => WritersInv
<1> SUFFICES ASSUME Init PROVE WritersInv OBVIOUS
<1>1. EmptyIndex \in Index BY DEF EmptyIndex, Index
<1>2. Named(index) = {} BY DEF Init, EmptyIndex, Named
<1>3. NoWrite \in WriterState BY <1>1 DEF NoWrite, WriterState, WriterSteps
<1>4. NoRead \in ReaderState BY <1>1 DEF NoRead, ReaderState, ReaderSteps
<1>5. Types BY <1>1, <1>3, <1>4 DEF Init, Types
<1>6. Sound BY <1>2 DEF Sound, Valid, BlobsAreThere, DigestsOf, NamesItsBundles, KeepsAHead, OpenHasNoSuccessor
<1>7. LockHeld /\ \A w \in Writer : Intent(w) BY DEF Init, LockHeld, Intent, NoWrite, Locked
<1> QED BY <1>5, <1>6, <1>7 DEF WritersInv

\* What PublishLocal and UpdateLifecycleLocal decide is well formed.
LEMMA PublicationTyped ==
    ASSUME index \in Index, NEW call, NEW next, Publishes(call, next)
    PROVE  next \in Index
<1>1. call \in Publication /\ call.digest \in Digest BY Records DEF Publishes
<1>2. NewEntry(call) \in Entry BY <1>1, Records DEF NewEntry, Entry, Status
<1>3. ASSUME NEW x \in Coordinate, x = call.supersedes PROVE Superseded(call) \in Entry
  <2>1. index[x] # None BY <1>3, RegistryAssumption DEF Publishes, MaySupersede
  <2>2. index[x] \in Entry BY <2>1 DEF Index
  <2> QED BY <1>1, <1>3, <2>2, Records DEF Superseded, Entry, Status
<1> QED BY <1>2, <1>3 DEF Publishes, Index

LEMMA AssessmentTyped ==
    ASSUME index \in Index, NEW call, NEW next, Assesses(call, next)
    PROVE  next \in Index
<1>1. call \in Assessment /\ call.coordinate \in Coordinate BY Records DEF Assesses
<1>2. index[call.coordinate] \in Entry BY <1>1 DEF Index, Assesses
<1>3. Assessed(call) \in Entry BY <1>1, <1>2, Records DEF Assessed, Entry, Status
<1> QED BY <1>3 DEF Assesses, Index

\* A plan is what it says it is.
LEMMA PlanDecides ==
    ASSUME index \in Index, NEW call
    PROVE  /\ call \in Publication => AfterPublication(call, Bundle[call.digest].coordinate) =
                 [x \in Coordinate |-> IF x = Bundle[call.digest].coordinate THEN NewEntry(call)
                                       ELSE IF x = call.supersedes THEN Superseded(call) ELSE index[x]]
           /\ call \in Assessment =>
                 [index EXCEPT ![call.coordinate] = [@ EXCEPT !.status = call.status, !.assessed = call.at,
                                                              !.successor = None]] =
                 [x \in Coordinate |-> IF x = call.coordinate THEN Assessed(call) ELSE index[x]]
<1>1. ASSUME call \in Publication
      PROVE  AfterPublication(call, Bundle[call.digest].coordinate) =
                 [x \in Coordinate |-> IF x = Bundle[call.digest].coordinate THEN NewEntry(call)
                                       ELSE IF x = call.supersedes THEN Superseded(call) ELSE index[x]]
  <2>1. call.supersedes \in Coordinate \cup {None} /\ None \notin Coordinate
    BY <1>1, Records, RegistryAssumption
  <2>2. CASE call.supersedes = None
    BY <2>1, <2>2 DEF AfterPublication, WithSuperseded, Index
  <2>3. CASE call.supersedes \in Coordinate
    BY <2>1, <2>3 DEF AfterPublication, WithSuperseded, Index, Superseded
  <2> QED BY <2>1, <2>2, <2>3
<1>2. ASSUME call \in Assessment
      PROVE  [index EXCEPT ![call.coordinate] = [@ EXCEPT !.status = call.status, !.assessed = call.at,
                                                              !.successor = None]] =
                 [x \in Coordinate |-> IF x = call.coordinate THEN Assessed(call) ELSE index[x]]
  BY DEF Index, Assessed
<1> QED BY <1>1, <1>2

-----------------------------------------------------------------------------
(* Writers keep the index sound.                                           *)

\* Whoever works under the lock is alone there.
LEMMA Alone ==
    ASSUME WritersInv, NEW w \in Writer, writer[w].step \in Locked, NEW v \in Writer, v # w
    PROVE  writer[v].step \notin Locked
BY DEF WritersInv, LockHeld

\* The others do not notice.
LEMMA OthersKeep ==
    ASSUME WritersInv, NEW w \in Writer, writer[w].step \in Locked,
           NEW v \in Writer, v # w, writer'[v] = writer[v]
    PROVE  Intent(v)'
<1>1. writer[v].step \notin Locked BY Alone
<1>2. Intent(v) BY DEF WritersInv
<1> QED BY <1>1, <1>2 DEF Intent, Locked

\* The index is as sound as before while it stays and what it names stays.
LEMMA SoundKept ==
    ASSUME Sound, index' = index, \A d \in DigestsOf(index) : blobs'[d] # "none"
    PROVE  Sound'
BY DEF Sound, Valid, BlobsAreThere, DigestsOf, Named, NamesItsBundles, KeepsAHead, OpenHasNoSuccessor

\* A call that is over has forgotten everything.
LEMMA EndsKeeps ==
    ASSUME WritersInv, NEW w \in Writer, NEW step \in {"unlock", "done", "crashed"}, Ends(w, step)
    PROVE  /\ writer' \in [Writer -> WriterState]
           /\ writer'[w].step = step /\ Intent(w)'
           /\ \A v \in Writer : v # w => writer'[v] = writer[v]
<1>1. EmptyIndex \in Index BY DEF EmptyIndex, Index
<1>2. [NoWrite EXCEPT !.step = step] \in WriterState /\ [NoWrite EXCEPT !.step = step].step = step
      /\ [NoWrite EXCEPT !.step = step].created = FALSE
  BY <1>1 DEF NoWrite, WriterState, WriterSteps
<1>3. writer' = [writer EXCEPT ![w] = [NoWrite EXCEPT !.step = step]] BY DEF Ends
<1>4. writer \in [Writer -> WriterState] BY DEF WritersInv, Types
<1>5. writer'[w].step = step /\ writer'[w].created = FALSE BY <1>2, <1>3, <1>4
<1>6. Intent(w)' BY <1>5 DEF Intent
<1> QED BY <1>2, <1>3, <1>4, <1>5, <1>6

LEMMA AcquireKeeps ==
    ASSUME WritersInv, NEW w \in Writer, NEW call \in Publication \cup Assessment, Acquire(w, call)
    PROVE  WritersInv'
<1>1. writer \in [Writer -> WriterState] BY DEF WritersInv, Types
<1>2. /\ writer'[w].step = "plan" /\ writer'[w].call = call /\ writer'[w].created = writer[w].created
      /\ writer' \in [Writer -> WriterState]
      /\ \A v \in Writer : v # w => writer'[v] = writer[v]
  BY <1>1 DEF Acquire, WriterState, WriterSteps
<1>3. ~writer[w].created BY DEF Acquire, At, WritersInv, Intent
<1>4. \A v \in Writer : writer[v].step \notin Locked
  BY RegistryAssumption DEF Acquire, WritersInv, LockHeld
<1>5. Types' BY <1>2 DEF Acquire, WritersInv, Types
<1>6. LockHeld' BY <1>2, <1>4 DEF Acquire, LockHeld
<1>7. ASSUME NEW v \in Writer PROVE Intent(v)'
  <2>1. CASE v = w BY <1>2, <1>3, <2>1 DEF Intent
  <2>2. CASE v # w
    <3>1. writer'[v] = writer[v] /\ Intent(v) /\ writer[v].step \notin Locked
      BY <1>2, <1>4, <2>2 DEF WritersInv
    <3> QED BY <3>1 DEF Intent, Locked
  <2> QED BY <2>1, <2>2
<1>8. Sound' BY SoundKept DEF Acquire, WritersInv, Sound, BlobsAreThere
<1> QED BY <1>5, <1>6, <1>7, <1>8 DEF WritersInv

LEMMA BusyKeeps == ASSUME WritersInv, NEW w \in Writer, Busy(w) PROVE WritersInv'
<1>1. Ends(w, "done") /\ UNCHANGED <<index, file, blobs, lock, reader>> BY DEF Busy
<1>2. /\ writer' \in [Writer -> WriterState] /\ writer'[w].step = "done" /\ Intent(w)'
      /\ \A v \in Writer : v # w => writer'[v] = writer[v]
  BY <1>1, EndsKeeps
<1>3. Types' BY <1>1, <1>2 DEF WritersInv, Types
<1>4. LockHeld' BY <1>1, <1>2 DEF WritersInv, LockHeld, Locked
<1>5. ASSUME NEW v \in Writer, v # w PROVE Intent(v)'
  <2>1. writer'[v] = writer[v] /\ Intent(v) BY <1>2, <1>5 DEF WritersInv
  <2> QED BY <1>1, <2>1 DEF Intent, Publishes, Assesses, MaySupersede, Superseded, Assessed, NewEntry,
                            Valid, DigestsOf, Named
<1>6. Sound' BY <1>1, SoundKept DEF WritersInv, Sound, BlobsAreThere
<1> QED BY <1>2, <1>3, <1>4, <1>5, <1>6 DEF WritersInv

\* A step under the lock that leaves the index alone and takes no named blob
\* away; what is left to show is what the writer intends now.
LEMMA LockedStepKeeps ==
    ASSUME WritersInv, NEW w \in Writer, writer[w].step \in Locked,
           writer' \in [Writer -> WriterState],
           \A v \in Writer : v # w => writer'[v] = writer[v],
           blobs' \in [Digest -> {"none", "whole", "damaged"}],
           \A d \in DigestsOf(index) : blobs'[d] # "none",
           UNCHANGED <<index, file, lock, reader>>,
           Intent(w)'
    PROVE  WritersInv'
<1>1. Types' BY DEF WritersInv, Types
<1>2. LockHeld' BY DEF WritersInv, LockHeld
<1>3. ASSUME NEW v \in Writer PROVE Intent(v)'
  <2>1. CASE v = w BY <2>1
  <2>2. CASE v # w BY <2>2, OthersKeep
  <2> QED BY <2>1, <2>2
<1>4. Sound' BY SoundKept DEF WritersInv
<1> QED BY <1>1, <1>2, <1>3, <1>4 DEF WritersInv

LEMMA ReturnsKeeps ==
    ASSUME WritersInv, NEW w \in Writer, writer[w].step \in Locked, Returns(w),
           blobs' \in [Digest -> {"none", "whole", "damaged"}],
           \A d \in DigestsOf(index) : blobs'[d] # "none",
           UNCHANGED <<index, file, lock, reader>>
    PROVE  WritersInv'
<1>1. /\ writer' \in [Writer -> WriterState] /\ writer'[w].step = "unlock" /\ Intent(w)'
      /\ \A v \in Writer : v # w => writer'[v] = writer[v]
  BY EndsKeeps DEF Returns
<1> QED BY <1>1, LockedStepKeeps

LEMMA PlanKeeps == ASSUME WritersInv, NEW w \in Writer, Plan(w) PROVE WritersInv'
<1>1. /\ writer[w].step = "plan" /\ writer[w].step \in Locked
      /\ writer[w].call \in Publication \cup Assessment /\ ~writer[w].created
      /\ UNCHANGED <<index, file, blobs, lock, reader>>
  BY DEF Plan, At, Locked, WritersInv, Intent
<1>2. /\ writer \in [Writer -> WriterState] /\ index \in Index
      /\ blobs' \in [Digest -> {"none", "whole", "damaged"}]
      /\ \A d \in DigestsOf(index) : blobs'[d] # "none"
  BY <1>1 DEF WritersInv, Types, Sound, BlobsAreThere
<1>3. CASE Returns(w) BY <1>1, <1>2, <1>3, ReturnsKeeps
<1>4. CASE PlanPublication(w, writer[w].call) /\ writer[w].call.op = "publish" /\ ~Returns(w)
  <2> DEFINE call == writer[w].call
             next == AfterPublication(call, Bundle[call.digest].coordinate)
  <2>1. call \in Publication BY <1>1, <1>4, Records
  <2>2. /\ index[Bundle[call.digest].coordinate] = None
        /\ call.supersedes # None => MaySupersede(call, Bundle[call.digest].coordinate)
        /\ Valid(next)
        /\ writer' = [writer EXCEPT ![w].step = "install", ![w].next = next]
    BY <1>4 DEF PlanPublication, Encodable
  <2>3. Publishes(call, next) BY <1>2, <2>1, <2>2, PlanDecides DEF Publishes
  <2>4. next \in Index BY <1>2, <2>3, PublicationTyped
  <2> HIDE DEF next
  <2>5. /\ writer'[w].step = "install" /\ writer'[w].call = call /\ writer'[w].next = next
        /\ writer'[w].created = writer[w].created
        /\ writer' \in [Writer -> WriterState]
        /\ \A v \in Writer : v # w => writer'[v] = writer[v]
    BY <1>2, <2>2, <2>4 DEF WriterState, WriterSteps
  <2>6. Publishes(writer[w].call, next) /\ Valid(next) BY <2>2, <2>3
  <2>7. Publishes(writer[w].call, writer[w].next)'
    BY <1>1, <2>5, <2>6 DEF Publishes, MaySupersede, Superseded, NewEntry
  <2>8. Valid(writer[w].next)' BY <1>1, <2>5, <2>6 DEF Valid, Named
  <2>9. Intent(w)' BY <1>1, <2>5, <2>7, <2>8 DEF Intent
  <2> QED BY <1>1, <1>2, <2>5, <2>9, LockedStepKeeps
<1>5. CASE PlanAssessment(w, writer[w].call) /\ writer[w].call.op = "assess" /\ ~Returns(w)
  <2> DEFINE call == writer[w].call
             next == [index EXCEPT ![call.coordinate] =
                        [@ EXCEPT !.status = call.status, !.assessed = call.at, !.successor = None]]
  <2>1. call \in Assessment BY <1>1, <1>5, Records
  <2>2. /\ index[call.coordinate] # None /\ index[call.coordinate].status \in Open
        /\ index[call.coordinate].status # call.status /\ call.at >= index[call.coordinate].assessed
        /\ Valid(next)
        /\ writer' = [writer EXCEPT ![w].step = "commit", ![w].next = next]
    BY <1>5 DEF PlanAssessment, Encodable
  <2>3. Assesses(call, next) BY <1>2, <2>1, <2>2, PlanDecides DEF Assesses
  <2>4. next \in Index BY <1>2, <2>3, AssessmentTyped
  <2> HIDE DEF next
  <2>5. /\ writer'[w].step = "commit" /\ writer'[w].call = call /\ writer'[w].next = next
        /\ writer'[w].created = writer[w].created
        /\ writer' \in [Writer -> WriterState]
        /\ \A v \in Writer : v # w => writer'[v] = writer[v]
    BY <1>2, <2>2, <2>4 DEF WriterState, WriterSteps
  <2>6. Assesses(writer[w].call, next) /\ Valid(next) BY <2>2, <2>3
  <2>7. Assesses(writer[w].call, writer[w].next)'
    BY <1>1, <2>5, <2>6 DEF Assesses, Assessed
  <2>8. Valid(writer[w].next)' BY <1>1, <2>5, <2>6 DEF Valid, Named
  <2>9. Intent(w)' BY <1>1, <2>5, <2>7, <2>8 DEF Intent
  <2> QED BY <1>1, <1>2, <2>5, <2>9, LockedStepKeeps
<1> QED BY <1>3, <1>4, <1>5 DEF Plan

LEMMA DigestsTyped == WritersInv => DigestsOf(index) \subseteq Digest
<1> SUFFICES ASSUME WritersInv, NEW c \in Named(index) PROVE index[c].digest \in Digest
  BY DEF DigestsOf
<1>1. index[c] \in Entry BY DEF WritersInv, Types, Index, Named
<1> QED BY <1>1, Records

LEMMA InstallKeeps == ASSUME WritersInv, NEW w \in Writer, Install(w) PROVE WritersInv'
<1> DEFINE me == writer[w]
           d == me.call.digest
<1>1. /\ me.step = "install" /\ me.step \in Locked /\ ~me.created /\ Publishes(me.call, me.next)
      /\ Valid(me.next) /\ UNCHANGED <<index, file, lock, reader>>
  BY DEF Install, At, Locked, WritersInv, Intent
<1>2. me.call \in Publication /\ d \in Digest BY <1>1, Records DEF Publishes
<1>3. /\ writer \in [Writer -> WriterState] /\ blobs \in [Digest -> {"none", "whole", "damaged"}]
      /\ \A x \in DigestsOf(index) : blobs[x] # "none"
  BY DEF WritersInv, Types, Sound, BlobsAreThere
<1>4. CASE Returns(w) /\ UNCHANGED blobs BY <1>1, <1>3, <1>4, ReturnsKeeps
<1>5. ASSUME writer'[w].step = "commit", writer'[w].call = me.call, writer'[w].next = me.next,
             writer' \in [Writer -> WriterState],
             \A v \in Writer : v # w => writer'[v] = writer[v],
             blobs' \in [Digest -> {"none", "whole", "damaged"}],
             \A x \in DigestsOf(index) : blobs'[x] # "none",
             blobs'[d] # "none", writer'[w].created => d \notin DigestsOf(index)
      PROVE  WritersInv'
  <2>1. Publishes(me.call, me.next)'
    BY <1>1, <1>5 DEF Publishes, MaySupersede, Superseded, NewEntry
  <2>2. Valid(me.next)' BY <1>1, <1>5 DEF Valid, Named
  <2>3. (me.created => me.call \in Publication /\ d \notin DigestsOf(index))'
    BY <1>1, <1>2, <1>5 DEF DigestsOf, Named
  <2>4. Intent(w)' BY <1>5, <2>1, <2>2, <2>3 DEF Intent
  <2> QED BY <1>1, <1>5, <2>4, LockedStepKeeps
<1>6. CASE /\ blobs[d] = "none" /\ blobs' = [blobs EXCEPT ![d] = "whole"]
           /\ writer' = [writer EXCEPT ![w].step = "commit", ![w].created = TRUE]
  <2>1. /\ writer'[w].step = "commit" /\ writer'[w].call = me.call /\ writer'[w].next = me.next
        /\ writer' \in [Writer -> WriterState]
        /\ \A v \in Writer : v # w => writer'[v] = writer[v]
    BY <1>3, <1>6 DEF WriterState, WriterSteps
  <2>2. /\ blobs' \in [Digest -> {"none", "whole", "damaged"}] /\ blobs'[d] # "none"
        /\ \A x \in DigestsOf(index) : blobs'[x] # "none"
    BY <1>2, <1>3, <1>6
  <2>3. d \notin DigestsOf(index) BY <1>3, <1>6
  <2> QED BY <1>5, <2>1, <2>2, <2>3
<1>7. CASE BlobVerifies(d) /\ Goto(w, "commit") /\ UNCHANGED blobs
  <2>1. /\ writer'[w].step = "commit" /\ writer'[w].call = me.call /\ writer'[w].next = me.next
        /\ writer'[w].created = me.created /\ writer' \in [Writer -> WriterState]
        /\ \A v \in Writer : v # w => writer'[v] = writer[v]
    BY <1>3, <1>7 DEF Goto, WriterState, WriterSteps
  <2> QED BY <1>1, <1>3, <1>5, <1>7, <2>1 DEF BlobVerifies
<1> QED BY <1>4, <1>6, <1>7 DEF Install

LEMMA UndoKeeps == ASSUME WritersInv, NEW w \in Writer, Undo(w) PROVE WritersInv'
<1>1. /\ writer[w].step = "undo" /\ writer[w].step \in Locked /\ Returns(w)
      /\ UNCHANGED <<index, file, lock, reader>>
  BY DEF Undo, At, Locked
<1>2. /\ blobs \in [Digest -> {"none", "whole", "damaged"}]
      /\ \A x \in DigestsOf(index) : blobs[x] # "none"
  BY DEF WritersInv, Types, Sound, BlobsAreThere
<1>3. CASE writer[w].created /\ blobs' = [blobs EXCEPT ![writer[w].call.digest] = "none"]
  <2>1. writer[w].call.digest \notin DigestsOf(index) BY <1>1, <1>3 DEF WritersInv, Intent
  <2>2. /\ blobs' \in [Digest -> {"none", "whole", "damaged"}]
        /\ \A x \in DigestsOf(index) : blobs'[x] = blobs[x]
    BY <1>2, <1>3, <2>1, DigestsTyped
  <2> QED BY <1>1, <1>2, <2>2, ReturnsKeeps
<1>4. CASE UNCHANGED blobs BY <1>1, <1>2, <1>4, ReturnsKeeps
<1> QED BY <1>3, <1>4 DEF Undo

LEMMA LeaveKeeps == ASSUME WritersInv, NEW w \in Writer, Unlock(w) \/ Crash(w) PROVE WritersInv'
<1>1. PICK step \in {"done", "crashed"} : Ends(w, step) BY DEF Unlock, Crash
<1>2. /\ writer' \in [Writer -> WriterState] /\ writer'[w].step = step /\ Intent(w)'
      /\ \A v \in Writer : v # w => writer'[v] = writer[v]
  BY <1>1, EndsKeeps
<1>3. writer[w].step \in Locked
  BY DEF Unlock, Crash, At, Locked, WritersInv, Types, WriterState, WriterSteps
<1>4. UNCHANGED <<index, file, blobs, reader>> /\ lock' \in {None, lock} BY DEF Unlock, Crash
<1>5. Types' BY <1>2, <1>4 DEF WritersInv, Types
<1>6. LockHeld' BY <1>2, <1>3, <1>4, Alone DEF LockHeld, Locked
<1>7. ASSUME NEW v \in Writer PROVE Intent(v)'
  <2>1. CASE v = w BY <1>2, <2>1
  <2>2. CASE v # w BY <1>2, <1>3, <2>2, OthersKeep
  <2> QED BY <2>1, <2>2
<1>8. Sound' BY <1>4, SoundKept DEF WritersInv, Sound, BlobsAreThere
<1> QED BY <1>5, <1>6, <1>7, <1>8 DEF WritersInv

LEMMA OperatorKeeps == ASSUME WritersInv, OperatorUnlocks PROVE WritersInv'
<1>1. UNCHANGED <<index, file, blobs, writer, reader>> /\ lock' = None /\ lock \in Writer
      /\ writer[lock].step \notin Locked
  BY DEF OperatorUnlocks, WritersInv, Types, Locked
<1>2. \A v \in Writer : writer[v].step \notin Locked BY <1>1 DEF WritersInv, LockHeld
<1>3. Types' BY <1>1 DEF WritersInv, Types
<1>4. LockHeld' BY <1>1, <1>2 DEF LockHeld
<1>5. ASSUME NEW v \in Writer PROVE Intent(v)' BY <1>1, <1>2 DEF WritersInv, Intent, Locked
<1>6. Sound' BY <1>1, SoundKept DEF WritersInv, Sound, BlobsAreThere
<1> QED BY <1>3, <1>4, <1>5, <1>6 DEF WritersInv

LEMMA DamageKeeps == ASSUME WritersInv, NEW d \in Digest, Damage(d) PROVE WritersInv'
<1>1. /\ UNCHANGED <<index, file, lock, writer, reader>> /\ blobs \in [Digest -> {"none", "whole", "damaged"}]
      /\ blobs[d] = "whole" /\ blobs' = [blobs EXCEPT ![d] = "damaged"]
  BY DEF Damage, WritersInv, Types
<1>2. \A x \in Digest : (blobs'[x] = "none") <=> (blobs[x] = "none") BY <1>1
<1>3. Types' BY <1>1 DEF WritersInv, Types
<1>4. LockHeld' BY <1>1 DEF WritersInv, LockHeld
<1>5. ASSUME NEW v \in Writer PROVE Intent(v)'
  <2>1. Intent(v) BY DEF WritersInv
  <2>2. Publishes(writer[v].call, writer[v].next) => writer[v].call.digest \in Digest
    BY Records DEF Publishes
  <2>3. Publishes(writer[v].call, writer[v].next)' <=> Publishes(writer[v].call, writer[v].next)
    BY <1>1 DEF Publishes, MaySupersede, Superseded, NewEntry
  <2>4. Assesses(writer[v].call, writer[v].next)' <=> Assesses(writer[v].call, writer[v].next)
    BY <1>1 DEF Assesses, Assessed
  <2>5. Valid(writer[v].next)' <=> Valid(writer[v].next) BY <1>1 DEF Valid, Named
  <2>6. DigestsOf(index)' = DigestsOf(index) BY <1>1 DEF DigestsOf, Named
  <2> QED BY <1>1, <1>2, <2>1, <2>2, <2>3, <2>4, <2>5, <2>6 DEF Intent
<1>6. \A x \in DigestsOf(index) : blobs'[x] # "none"
  BY <1>2, DigestsTyped DEF WritersInv, Sound, BlobsAreThere
<1>7. Sound' BY <1>1, <1>6, SoundKept DEF WritersInv
<1> QED BY <1>3, <1>4, <1>5, <1>7 DEF WritersInv

-----------------------------------------------------------------------------
(* The rename of the index.                                                *)

\* How an entry may change: it stays, and only moves on.
Onward(entry, now) ==
    /\ now # None /\ now.digest = entry.digest /\ now.assessed >= entry.assessed
    /\ Forward(entry.status, now.status)

LEMMA PublicationOnward ==
    ASSUME index \in Index, NEW call, NEW next, Publishes(call, next), NEW x \in Named(index)
    PROVE  /\ Onward(index[x], next[x]) /\ x # Bundle[call.digest].coordinate
           /\ x # call.supersedes => next[x] = index[x]
           /\ x = call.supersedes =>
                 /\ next[x].status = "superseded" /\ next[x].successor = call.digest
                 /\ Capability[x] = Capability[Bundle[call.digest].coordinate]
<1>1. x \in Coordinate /\ index[x] \in Entry /\ index[x] # None BY DEF Named, Index
<1>2. x # Bundle[call.digest].coordinate BY <1>1 DEF Publishes
<1>3. CASE x # call.supersedes
  <2>1. next[x] = index[x] BY <1>1, <1>2, <1>3 DEF Publishes
  <2> QED BY <1>1, <1>2, <1>3, <2>1, Records DEF Onward, Forward
<1>4. CASE x = call.supersedes
  <2>1. next[x] = Superseded(call) /\ MaySupersede(call, Bundle[call.digest].coordinate)
    BY <1>1, <1>2, <1>4, RegistryAssumption DEF Publishes
  <2>2. call.at \in Nat BY Records, RegistryAssumption DEF Publishes
  <2>3. /\ Superseded(call).digest = index[x].digest /\ Superseded(call).status = "superseded"
        /\ Superseded(call).successor = call.digest /\ Superseded(call).assessed = call.at
    BY <1>1, <1>4 DEF Superseded, Entry
  <2>4. call.digest \in Digest /\ call.at \in Time BY Records DEF Publishes
  <2>5. Superseded(call) \in Entry BY <1>1, <1>4, <2>4 DEF Superseded, Entry, Status
  <2>6. next[x] # None BY <2>1, <2>5, Records
  <2> QED BY <1>1, <1>2, <1>4, <2>1, <2>2, <2>3, <2>6 DEF Onward, Forward, MaySupersede, Open
<1> QED BY <1>3, <1>4

LEMMA AssessmentOnward ==
    ASSUME index \in Index, NEW call, NEW next, Assesses(call, next), NEW x \in Named(index)
    PROVE  /\ Onward(index[x], next[x])
           /\ x # call.coordinate => next[x] = index[x]
           /\ x = call.coordinate => next[x].status \in {"stale", "revoked"} /\ next[x].successor = None
<1>1. x \in Coordinate /\ index[x] \in Entry /\ index[x] # None BY DEF Named, Index
<1>2. CASE x # call.coordinate
  <2>1. next[x] = index[x] BY <1>1, <1>2 DEF Assesses
  <2> QED BY <1>1, <1>2, <2>1, Records DEF Onward, Forward
<1>3. CASE x = call.coordinate
  <2>1. next[x] = Assessed(call) BY <1>1, <1>3 DEF Assesses
  <2>2. call.at \in Nat /\ call.status \in {"stale", "revoked"}
    BY Records, RegistryAssumption DEF Assesses
  <2>3. /\ Assessed(call).digest = index[x].digest /\ Assessed(call).status = call.status
        /\ Assessed(call).successor = None /\ Assessed(call).assessed = call.at
    BY <1>1, <1>3 DEF Assessed, Entry
  <2>4. Assessed(call) \in Entry BY <1>1, <1>3, <2>2, Records DEF Assessed, Entry, Status, Assesses
  <2> QED BY <1>1, <1>3, <2>1, <2>2, <2>3, <2>4, Records DEF Onward, Forward, Assesses, Open
<1> QED BY <1>2, <1>3

\* A publication whose blob is there leaves a sound index.
LEMMA PublicationSound ==
    ASSUME index \in Index, Sound, NEW call, NEW next, Publishes(call, next), Valid(next),
           blobs[call.digest] # "none", index' = next, blobs' = blobs
    PROVE  Sound'
<1> DEFINE c == Bundle[call.digest].coordinate
<1>1. call \in Publication /\ call.digest \in Digest /\ c \in Coordinate BY Records DEF Publishes
<1>2. next \in Index BY PublicationTyped
<1>3. next[c] = NewEntry(call) BY <1>1 DEF Publishes
<1>4. next[c] # None BY <1>1, <1>3, Records DEF NewEntry, Entry, Status
<1>5. next[c].digest = call.digest /\ next[c].status = "active" /\ next[c].successor = None
  BY <1>3 DEF NewEntry
<1>6. \A x \in Named(next) : x = c \/ x \in Named(index)
  <2> SUFFICES ASSUME NEW x \in Coordinate, next[x] # None, x # c, index[x] = None PROVE FALSE
    BY DEF Named
  <2>1. x # call.supersedes BY RegistryAssumption DEF Publishes, MaySupersede
  <2> QED BY <2>1 DEF Publishes
<1>7. c \in Named(next) /\ \A x \in Named(index) : x \in Named(next) /\ x # c
  BY <1>1, <1>4, PublicationOnward DEF Named, Onward
<1>8. \A x \in Named(index) : next[x].digest = index[x].digest BY PublicationOnward DEF Onward
<1> HIDE DEF c
<1>9. \A x \in Named(next) : blobs[next[x].digest] # "none"
  BY <1>5, <1>6, <1>8 DEF Sound, BlobsAreThere, DigestsOf
<1>10. \A x \in Named(next) : Bundle[next[x].digest].coordinate = x
  BY <1>5, <1>6, <1>8 DEF Sound, NamesItsBundles, c
<1>11. \A x \in Named(next) : \E h \in Named(next) :
          Capability[h] = Capability[x] /\ next[h].status # "superseded"
  <2> SUFFICES ASSUME NEW x \in Named(next)
               PROVE  \E h \in Named(next) : Capability[h] = Capability[x] /\ next[h].status # "superseded"
    OBVIOUS
  <2>1. CASE Capability[x] = Capability[c] BY <1>5, <1>7, <2>1
  <2>2. CASE Capability[x] # Capability[c]
    <3>1. x \in Named(index) BY <1>6, <2>2
    <3>2. PICK h \in Named(index) : Capability[h] = Capability[x] /\ index[h].status # "superseded"
      BY <3>1 DEF Sound, KeepsAHead
    <3>3. h # call.supersedes BY <2>2, <3>2, PublicationOnward DEF c
    <3> QED BY <1>7, <3>2, <3>3, PublicationOnward
  <2> QED BY <2>1, <2>2
<1>12. \A x \in Named(next) : next[x].status \in Open => next[x].successor = None
  <2> SUFFICES ASSUME NEW x \in Named(next), next[x].status \in Open PROVE next[x].successor = None
    OBVIOUS
  <2>1. CASE x = c BY <1>5, <2>1
  <2>2. CASE x \in Named(index)
    <3>1. x # call.supersedes BY <2>2, PublicationOnward DEF Open
    <3> QED BY <2>2, <3>1, PublicationOnward DEF Sound, OpenHasNoSuccessor
  <2> QED BY <1>6, <2>1, <2>2
<1> QED BY <1>9, <1>10, <1>11, <1>12
       DEF Sound, Valid, BlobsAreThere, DigestsOf, Named, NamesItsBundles, KeepsAHead, OpenHasNoSuccessor

\* An assessment leaves a sound index.
LEMMA AssessmentSound ==
    ASSUME index \in Index, Sound, NEW call, NEW next, Assesses(call, next), Valid(next),
           index' = next, blobs' = blobs
    PROVE  Sound'
<1>1. Named(next) = Named(index)
  <2>1. \A x \in Named(index) : x \in Named(next) BY AssessmentOnward DEF Onward, Named
  <2>2. \A x \in Named(next) : x \in Named(index) BY DEF Named, Assesses
  <2> QED BY <2>1, <2>2
<1>2. \A x \in Named(index) : next[x].digest = index[x].digest BY AssessmentOnward DEF Onward
<1>3. \A x \in Named(index) : next[x].status = "superseded" => index[x].status = "superseded"
  BY AssessmentOnward
<1>4. \A x \in Named(index) : next[x].status \in Open => next[x].successor = None
  BY AssessmentOnward DEF Sound, OpenHasNoSuccessor
<1>5. \A x \in Named(next) : blobs[next[x].digest] # "none"
  BY <1>1, <1>2 DEF Sound, BlobsAreThere, DigestsOf
<1>6. \A x \in Named(next) : Bundle[next[x].digest].coordinate = x
  BY <1>1, <1>2 DEF Sound, NamesItsBundles
<1>7. \A x \in Named(next) : \E h \in Named(next) :
          Capability[h] = Capability[x] /\ next[h].status # "superseded"
  BY <1>1, <1>3 DEF Sound, KeepsAHead
<1> QED BY <1>1, <1>4, <1>5, <1>6, <1>7
       DEF Sound, Valid, BlobsAreThere, DigestsOf, Named, NamesItsBundles, KeepsAHead, OpenHasNoSuccessor

LEMMA CommitKeeps == ASSUME WritersInv, NEW w \in Writer, Commit(w) PROVE WritersInv'
<1> DEFINE me == writer[w]
<1>1. /\ me.step = "commit" /\ me.step \in Locked /\ Valid(me.next)
      /\ \/ Publishes(me.call, me.next) /\ blobs[me.call.digest] # "none"
         \/ Assesses(me.call, me.next) /\ ~me.created
      /\ me.created => me.call \in Publication /\ me.call.digest \notin DigestsOf(index)
      /\ UNCHANGED <<blobs, lock, reader>>
  BY DEF Commit, At, Locked, WritersInv, Intent
<1>2. /\ writer \in [Writer -> WriterState] /\ index \in Index /\ file \in Nat /\ Sound
      /\ blobs' \in [Digest -> {"none", "whole", "damaged"}]
      /\ \A x \in DigestsOf(index) : blobs'[x] # "none"
  BY <1>1 DEF WritersInv, Types, Sound, BlobsAreThere
<1>3. CASE index' = me.next /\ file' = file + 1 /\ Returns(w)
  <2>1. /\ writer' \in [Writer -> WriterState] /\ writer'[w].step = "unlock" /\ Intent(w)'
        /\ \A v \in Writer : v # w => writer'[v] = writer[v]
    BY <1>3, EndsKeeps DEF Returns
  <2>2. index' \in Index BY <1>1, <1>2, <1>3, PublicationTyped, AssessmentTyped
  <2>3. Types' BY <1>1, <1>2, <1>3, <2>1, <2>2 DEF WritersInv, Types
  <2>4. LockHeld' BY <1>1, <2>1 DEF WritersInv, LockHeld
  <2>5. ASSUME NEW v \in Writer PROVE Intent(v)'
    <3>1. CASE v = w BY <2>1, <3>1
    <3>2. CASE v # w BY <1>1, <2>1, <3>2, OthersKeep
    <3> QED BY <3>1, <3>2
  <2>6. CASE Publishes(me.call, me.next) /\ blobs[me.call.digest] # "none"
    <3>1. Sound' BY <1>1, <1>2, <1>3, <2>6, PublicationSound
    <3> QED BY <2>3, <2>4, <2>5, <3>1 DEF WritersInv
  <2>7. CASE Assesses(me.call, me.next)
    <3>1. Sound' BY <1>1, <1>2, <1>3, <2>7, AssessmentSound
    <3> QED BY <2>3, <2>4, <2>5, <3>1 DEF WritersInv
  <2> QED BY <1>1, <2>6, <2>7
<1>4. CASE Goto(w, "undo") /\ UNCHANGED <<index, file>>
  <2>1. /\ writer'[w].step = "undo" /\ writer'[w].call = me.call /\ writer'[w].created = me.created
        /\ writer' \in [Writer -> WriterState]
        /\ \A v \in Writer : v # w => writer'[v] = writer[v]
    BY <1>2, <1>4 DEF Goto, WriterState, WriterSteps
  <2>2. (me.created => me.call \in Publication /\ me.call.digest \notin DigestsOf(index))'
    BY <1>1, <1>4, <2>1 DEF DigestsOf, Named
  <2>3. Intent(w)' BY <2>1, <2>2 DEF Intent
  <2> QED BY <1>1, <1>2, <1>4, <2>1, <2>3, LockedStepKeeps
<1> QED BY <1>3, <1>4 DEF Commit

LEMMA WriterKeeps == ASSUME WritersInv, NEW w \in Writer, WriterStep(w) PROVE WritersInv'
BY AcquireKeeps, BusyKeeps, PlanKeeps, InstallKeeps, CommitKeeps, UndoKeeps, LeaveKeeps DEF WriterStep

-----------------------------------------------------------------------------
(* Readers.                                                                *)

\* A reader looks only for what its index names, and the index has only moved
\* on since.
Reads(r) ==
    LET me == reader[r]
    IN  /\ me.step = "open" => me.call \in Reading
        /\ me.step = "blobs" => me.todo \subseteq Named(me.snapshot)
        /\ \A c \in Named(me.snapshot) : Onward(me.snapshot[c], index[c])

LEMMA ReaderTyped ==
    ASSUME Types, NEW r \in Reader, Reads(r), ReaderStep(r)
    PROVE  /\ reader' \in [Reader -> ReaderState]
           /\ UNCHANGED <<index, file, blobs, lock, writer>>
<1>1. UNCHANGED <<index, file, blobs, lock, writer>>
  BY DEF ReaderStep, StatIndex, DownloadIndex, OpenIndex, ReadBlob, GiveUp
<1> SUFFICES reader' \in [Reader -> ReaderState] BY <1>1
<1>2. /\ reader \in [Reader -> ReaderState] /\ index \in Index /\ file \in Nat BY DEF Types
<1>3. EmptyIndex \in Index BY DEF EmptyIndex, Index
<1>4. ASSUME NEW step \in {"done", "failed"}, Over(r, step) PROVE reader' \in [Reader -> ReaderState]
  <2>1. [NoRead EXCEPT !.step = step] \in ReaderState BY <1>3 DEF NoRead, ReaderState, ReaderSteps
  <2> QED BY <1>2, <1>4, <2>1 DEF Over
<1>5. ASSUME NEW call \in Reading, Selects(r, call, index) PROVE reader' \in [Reader -> ReaderState]
  <2>1. CASE Over(r, "done") \/ Over(r, "failed") BY <1>4, <2>1
  <2>2. CASE reader' = [reader EXCEPT ![r] = [step |-> "blobs", call |-> call, seen |-> 0,
                                              snapshot |-> index, todo |-> Selected(call, index)]]
    <3>1. Selected(call, index) \in SUBSET Coordinate BY <1>5 DEF Selected, Reading, Named
    <3> QED BY <1>2, <2>2, <3>1 DEF ReaderState, ReaderSteps
  <2> QED BY <1>5, <2>1, <2>2 DEF Selects
<1>6. CASE \E call \in Reading : StatIndex(r, call)
  <2>1. PICK call \in Reading : StatIndex(r, call) BY <1>6
  <2>2. CASE Over(r, "done") \/ Over(r, "failed") BY <1>4, <2>2
  <2>3. CASE reader' = [reader EXCEPT ![r].step = "open", ![r].call = call, ![r].seen = file]
    <3> DEFINE opened == [reader[r] EXCEPT !.step = "open", !.call = call, !.seen = file]
    <3>1. reader[r] \in ReaderState BY <1>2
    <3>2. opened \in ReaderState BY <1>2, <3>1 DEF ReaderState, ReaderSteps
    <3>3. reader' = [reader EXCEPT ![r] = opened] BY <1>2, <2>3
    <3> QED BY <1>2, <3>2, <3>3
  <2> QED BY <2>1, <2>2, <2>3 DEF StatIndex
<1>7. CASE \E call \in Reading : DownloadIndex(r, call) BY <1>4, <1>5, <1>7 DEF DownloadIndex
<1>8. CASE OpenIndex(r) BY <1>4, <1>5, <1>8 DEF OpenIndex, ReaderAt, Reads
<1>9. CASE \E c \in Coordinate : ReadBlob(r, c)
  <2>1. PICK c \in Coordinate : ReadBlob(r, c) BY <1>9
  <2>2. CASE Over(r, "done") \/ Over(r, "failed") BY <1>4, <2>2
  <2>3. CASE reader' = [reader EXCEPT ![r].todo = reader[r].todo \ {c}]
    BY <1>2, <2>3 DEF ReaderState
  <2> QED BY <2>1, <2>2, <2>3 DEF ReadBlob
<1>10. CASE GiveUp(r) BY <1>4, <1>10 DEF GiveUp
<1> QED BY <1>1, <1>6, <1>7, <1>8, <1>9, <1>10 DEF ReaderStep

LEMMA OnwardTransitive ==
    ASSUME NEW a \in Entry, NEW b \in Entry, NEW c \in Entry, Onward(a, b), Onward(b, c)
    PROVE  Onward(a, c)
<1>1. a.assessed \in Nat /\ b.assessed \in Nat /\ c.assessed \in Nat BY Records
<1>2. c.assessed >= a.assessed BY <1>1 DEF Onward
<1>3. Forward(a.status, c.status) BY DEF Onward, Forward
<1> QED BY <1>2, <1>3 DEF Onward

LEMMA NamedEntries == ASSUME NEW i \in Index, NEW c \in Named(i) PROVE c \in Coordinate /\ i[c] \in Entry
BY DEF Named, Index

\* Whatever a writer does, entries only move on.
LEMMA IndexOnward ==
    ASSUME WritersInv, NEW w \in Writer, WriterStep(w), NEW x \in Named(index)
    PROVE  Onward(index[x], index'[x])
<1>1. index \in Index BY DEF WritersInv, Types
<1>2. index[x] \in Entry BY <1>1, NamedEntries
<1>3. CASE index' = index BY <1>2, <1>3, Records DEF Onward, Forward
<1>4. CASE Commit(w) /\ index' = writer[w].next
  <2>1. Publishes(writer[w].call, writer[w].next) \/ Assesses(writer[w].call, writer[w].next)
    BY <1>4 DEF Commit, At, WritersInv, Intent
  <2> QED BY <1>1, <1>4, <2>1, PublicationOnward, AssessmentOnward
<1> QED BY <1>3, <1>4 DEF WriterStep, Acquire, Busy, Plan, Install, Commit, Undo, Unlock, Crash

\* A reader that waits still follows the index.
LEMMA WaitingReads ==
    ASSUME Types, Types', NEW r \in Reader, Reads(r), reader'[r] = reader[r],
           \A x \in Named(index) : Onward(index[x], index'[x])
    PROVE  Reads(r)'
<1> DEFINE seen == reader[r].snapshot
<1>1. seen \in Index /\ index \in Index /\ index' \in Index BY DEF Types, ReaderState
<1>2. ASSUME NEW c \in Named(seen) PROVE Onward(seen[c], index'[c])
  <2>1. c \in Coordinate /\ seen[c] \in Entry BY <1>1, NamedEntries
  <2>2. Onward(seen[c], index[c]) BY DEF Reads
  <2>3. c \in Named(index) /\ index[c] \in Entry BY <1>1, <2>1, <2>2 DEF Onward, Named, Index
  <2>4. Onward(index[c], index'[c]) BY <2>3
  <2>5. index'[c] \in Entry BY <1>1, <2>1, <2>4 DEF Onward, Index
  <2> QED BY <2>1, <2>2, <2>3, <2>4, <2>5, OnwardTransitive
<1> QED BY <1>2 DEF Reads, Onward, Named

\* A reader's own step.
LEMMA ReaderReads ==
    ASSUME Types, NEW r \in Reader, Reads(r), ReaderStep(r)
    PROVE  Reads(r)'
<1>1. reader \in [Reader -> ReaderState] /\ index' = index /\ index \in Index BY ReaderTyped DEF Types
<1>2. \A x \in Named(index) : Onward(index[x], index[x])
  BY <1>1, NamedEntries, Records DEF Onward, Forward
<1>3. ASSUME NEW step \in {"done", "failed"}, Over(r, step) PROVE Reads(r)'
  <2>1. reader'[r] = [NoRead EXCEPT !.step = step] BY <1>1, <1>3 DEF Over
  <2>2. reader'[r].step = step /\ reader'[r].snapshot = EmptyIndex BY <2>1 DEF NoRead
  <2>3. Named(reader'[r].snapshot) = {} BY <2>2 DEF Named, EmptyIndex
  <2> QED BY <2>2, <2>3 DEF Reads, Named
<1>4. ASSUME NEW call \in Reading, Selects(r, call, index) PROVE Reads(r)'
  <2>1. CASE Over(r, "done") \/ Over(r, "failed") BY <1>3, <2>1
  <2>2. CASE reader' = [reader EXCEPT ![r] = [step |-> "blobs", call |-> call, seen |-> 0,
                                              snapshot |-> index, todo |-> Selected(call, index)]]
    <3>1. Selected(call, index) \subseteq Named(index) BY <1>4 DEF Selected, Reading
    <3>2. /\ reader'[r].step = "blobs" /\ reader'[r].snapshot = index
          /\ reader'[r].todo = Selected(call, index)
      BY <1>1, <2>2
    <3> QED BY <1>1, <1>2, <3>1, <3>2 DEF Reads, Named, Onward
  <2> QED BY <1>4, <2>1, <2>2 DEF Selects
<1>5. CASE \E call \in Reading : StatIndex(r, call)
  <2>1. PICK call \in Reading : StatIndex(r, call) BY <1>5
  <2>2. CASE Over(r, "done") \/ Over(r, "failed") BY <1>3, <2>2
  <2>3. CASE reader' = [reader EXCEPT ![r].step = "open", ![r].call = call, ![r].seen = file]
    <3>1. /\ reader'[r].step = "open" /\ reader'[r].call = call
          /\ reader'[r].snapshot = reader[r].snapshot
      BY <1>1, <2>3 DEF ReaderState
    <3> QED BY <1>1, <3>1 DEF Reads, Named, Onward
  <2> QED BY <2>1, <2>2, <2>3 DEF StatIndex
<1>6. CASE \E call \in Reading : DownloadIndex(r, call) BY <1>3, <1>4, <1>6 DEF DownloadIndex
<1>7. CASE OpenIndex(r) BY <1>3, <1>4, <1>7 DEF OpenIndex, ReaderAt, Reads
<1>8. CASE \E c \in Coordinate : ReadBlob(r, c)
  <2>1. PICK c \in Coordinate : ReadBlob(r, c) BY <1>8
  <2>2. CASE Over(r, "done") \/ Over(r, "failed") BY <1>3, <2>2
  <2>3. CASE reader' = [reader EXCEPT ![r].todo = reader[r].todo \ {c}] /\ ReaderAt(r, "blobs")
    <3>1. /\ reader'[r].step = "blobs" /\ reader'[r].todo = reader[r].todo \ {c}
          /\ reader'[r].snapshot = reader[r].snapshot
      BY <1>1, <2>3 DEF ReaderState, ReaderAt
    <3> QED BY <1>1, <2>3, <3>1 DEF Reads, ReaderAt, Named, Onward
  <2> QED BY <2>1, <2>2, <2>3 DEF ReadBlob
<1>9. CASE GiveUp(r) BY <1>3, <1>9 DEF GiveUp
<1> QED BY <1>5, <1>6, <1>7, <1>8, <1>9 DEF ReaderStep

LEMMA ReaderLeaves ==
    ASSUME NEW r \in Reader, ReaderStep(r), NEW q \in Reader, q # r, reader \in [Reader -> ReaderState]
    PROVE  reader'[q] = reader[q]
BY DEF ReaderStep, StatIndex, DownloadIndex, OpenIndex, ReadBlob, GiveUp, Selects, Over

\* Readers change nothing for the writers.
LEMMA ReadersAside ==
    ASSUME WritersInv, NEW r \in Reader, Reads(r), ReaderStep(r)
    PROVE  WritersInv'
<1>1. /\ reader' \in [Reader -> ReaderState]
      /\ UNCHANGED <<index, file, blobs, lock, writer>>
  BY ReaderTyped DEF WritersInv
<1>2. Types' BY <1>1 DEF WritersInv, Types
<1>3. LockHeld' BY <1>1 DEF WritersInv, LockHeld
<1>4. ASSUME NEW v \in Writer PROVE Intent(v)'
  <2>1. Intent(v) BY DEF WritersInv
  <2> QED BY <1>1, <2>1 DEF Intent, Publishes, Assesses, MaySupersede, Superseded, Assessed, NewEntry,
                            Valid, DigestsOf, Named
<1>5. Sound' BY <1>1, SoundKept DEF WritersInv, Sound, BlobsAreThere
<1> QED BY <1>2, <1>3, <1>4, <1>5 DEF WritersInv

-----------------------------------------------------------------------------
(* The catalog.                                                            *)

Stored == {d \in Digest : blobs[d] # "none"}

LEMMA CommitImplements ==
    ASSUME WritersInv, NEW w \in Writer, Commit(w), index' = writer[w].next
    PROVE  Abstract!Next
<1> DEFINE call == writer[w].call
           next == writer[w].next
<1>1. /\ index \in Index /\ OpenHasNoSuccessor /\ blobs' = blobs
      /\ (Publishes(call, next) /\ blobs[call.digest] # "none") \/ Assesses(call, next)
  BY DEF Commit, At, WritersInv, Types, Sound, Intent
<1>2. CASE Publishes(call, next) /\ blobs[call.digest] # "none"
  <2> DEFINE c == Bundle[call.digest].coordinate
  <2>1. /\ c \in Coordinate /\ call.digest \in Digest /\ call.at \in Time
        /\ call.supersedes \in Coordinate \cup {None} /\ None \notin Coordinate
    BY <1>2, Records, RegistryAssumption DEF Publishes
  <2>2. /\ index[c] = None /\ call.digest \in Stored
        /\ index' = [x \in Coordinate |-> IF x = c THEN NewEntry(call)
                                          ELSE IF x = call.supersedes THEN Superseded(call) ELSE index[x]]
    BY <1>2, <2>1 DEF Publishes, Stored
  <2>3. CASE call.supersedes = None
    <3>1. index' = [index EXCEPT ![c] = Abstract!New(call.digest, call.at)]
      BY <1>1, <2>1, <2>2, <2>3 DEF Index, NewEntry, Abstract!New
    <3>2. Abstract!Publish(c, call.digest, call.at)
      BY <1>1, <2>2, <3>1 DEF Abstract!Publish, Stored
    <3> QED BY <2>1, <3>2 DEF Abstract!Next
  <2>4. CASE call.supersedes \in Coordinate
    <3> DEFINE old == call.supersedes
    <3>1. MaySupersede(call, c) BY <1>2, <2>1, <2>4 DEF Publishes
    <3>2. index' = [index EXCEPT ![c] = Abstract!New(call.digest, call.at),
                                 ![old] = [@ EXCEPT !.status = "superseded", !.assessed = call.at,
                                                    !.successor = call.digest]]
      BY <1>1, <2>1, <2>2, <2>4, <3>1 DEF Index, NewEntry, Abstract!New, Superseded, MaySupersede
    <3>3. Abstract!Supersede(c, call.digest, call.at, old)
      BY <1>1, <2>2, <3>1, <3>2 DEF Abstract!Supersede, Stored, MaySupersede, Open, Abstract!Open
    <3> QED BY <2>1, <2>4, <3>3 DEF Abstract!Next
  <2> QED BY <2>1, <2>3, <2>4
<1>3. CASE Assesses(call, next)
  <2> DEFINE c == call.coordinate
  <2>1. c \in Coordinate /\ call.at \in Time /\ call.status \in {"stale", "revoked"}
    BY <1>3, Records DEF Assesses
  <2>2. /\ index[c] # None /\ index[c].status \in Open /\ index[c].status # call.status
        /\ call.at >= index[c].assessed /\ c \in Named(index)
        /\ index' = [x \in Coordinate |-> IF x = c THEN Assessed(call) ELSE index[x]]
    BY <1>3, <2>1 DEF Assesses, Named
  <2>3. index[c] \in Entry /\ index[c].successor = None
    BY <1>1, <2>2, NamedEntries DEF OpenHasNoSuccessor
  <2>4. Assessed(call) = [index[c] EXCEPT !.status = call.status, !.assessed = call.at]
    BY <2>3 DEF Assessed, Entry
  <2>5. index' = [index EXCEPT ![c] = [@ EXCEPT !.status = call.status, !.assessed = call.at]]
    BY <1>1, <2>1, <2>2, <2>4 DEF Index
  <2>6. <<index[c].status, call.status>> \in {<<"active", "stale">>, <<"active", "revoked">>,
                                              <<"stale", "revoked">>}
    BY <2>1, <2>2 DEF Open
  <2>7. index[c].assessed <= call.at BY <2>1, <2>2, <2>3, Records, RegistryAssumption
  <2>8. Abstract!Assess(c, call.status, call.at)
    BY <1>1, <2>2, <2>5, <2>6, <2>7 DEF Abstract!Assess
  <2> QED BY <2>1, <2>8 DEF Abstract!Next, Abstract!Status
<1> QED BY <1>1, <1>2, <1>3

\* Each step of the files is a step of the catalog, or none.
LEMMA StepImplements ==
    ASSUME WritersInv, \A r \in Reader : Reads(r), [Next]_vars
    PROVE  [Abstract!Next]_(Abstract!vars)
<1>1. ASSUME index' = index, Stored' = Stored PROVE [Abstract!Next]_(Abstract!vars)
  BY <1>1 DEF Stored, Abstract!vars
<1>2. ASSUME NEW w \in Writer, Install(w) PROVE [Abstract!Next]_(Abstract!vars)
  <2>1. PICK d \in Digest : d = writer[w].call.digest
    BY <1>2, Records DEF Install, At, WritersInv, Intent, Publishes
  <2>2. index' = index BY <1>2 DEF Install
  <2>3. CASE UNCHANGED blobs BY <1>1, <2>2, <2>3 DEF Stored
  <2>4. CASE blobs' = [blobs EXCEPT ![d] = "whole"]
    <3>1. \A x \in Digest : (blobs'[x] # "none") <=> (blobs[x] # "none" \/ x = d)
      BY <2>4 DEF WritersInv, Types
    <3>2. Stored' = Stored \cup {d} BY <3>1 DEF Stored
    <3>3. Abstract!Store(d) BY <2>2, <3>2 DEF Stored, Abstract!Store
    <3> QED BY <3>3 DEF Abstract!Next
  <2> QED BY <1>2, <2>1, <2>3, <2>4 DEF Install
<1>3. ASSUME NEW w \in Writer, Undo(w) PROVE [Abstract!Next]_(Abstract!vars)
  <2>1. index' = index BY <1>3 DEF Undo
  <2>2. CASE UNCHANGED blobs BY <1>1, <2>1, <2>2 DEF Stored
  <2>3. CASE writer[w].created /\ blobs' = [blobs EXCEPT ![writer[w].call.digest] = "none"]
    <3>1. PICK d \in Digest : d = writer[w].call.digest /\ d \notin DigestsOf(index)
      BY <1>3, <2>3, Records DEF Undo, At, WritersInv, Intent
    <3>2. \A x \in Digest : (blobs'[x] # "none") <=> (blobs[x] # "none" /\ x # d)
      BY <2>3, <3>1 DEF WritersInv, Types
    <3>3. Stored' = Stored \ {d} BY <3>2 DEF Stored
    <3>4. d \notin Abstract!Named BY <3>1 DEF Abstract!Named, DigestsOf, Named
    <3>5. Abstract!Withdraw(d) BY <2>1, <3>3, <3>4 DEF Stored, Abstract!Withdraw
    <3> QED BY <3>5 DEF Abstract!Next
  <2> QED BY <1>3, <2>2, <2>3 DEF Undo
<1>4. ASSUME NEW w \in Writer, Commit(w) PROVE [Abstract!Next]_(Abstract!vars)
  <2>1. CASE index' = writer[w].next BY <1>4, <2>1, CommitImplements
  <2>2. CASE UNCHANGED index BY <1>1, <1>4, <2>2 DEF Commit, Stored
  <2> QED BY <1>4, <2>1, <2>2 DEF Commit
<1>5. ASSUME NEW w \in Writer, WriterStep(w) PROVE [Abstract!Next]_(Abstract!vars)
  BY <1>1, <1>2, <1>3, <1>4, <1>5 DEF WriterStep, Acquire, Busy, Plan, Unlock, Crash, Stored
<1>6. ASSUME NEW r \in Reader, ReaderStep(r) PROVE [Abstract!Next]_(Abstract!vars)
  BY <1>1, <1>6, ReaderTyped DEF WritersInv, Stored
<1>7. ASSUME NEW d \in Digest, Damage(d) PROVE [Abstract!Next]_(Abstract!vars)
  <2>1. Stored' = Stored BY <1>7 DEF Damage, WritersInv, Types, Stored
  <2> QED BY <1>1, <1>7, <2>1 DEF Damage
<1>8. CASE OperatorUnlocks \/ UNCHANGED vars BY <1>1, <1>8 DEF OperatorUnlocks, vars, Stored
<1> QED BY <1>5, <1>6, <1>7, <1>8 DEF Next

-----------------------------------------------------------------------------
(* The renames of the index.                                               *)

\* Calls that may still replace the index: each does so once at most.
Pending == {w \in Writer : writer[w].step \in {"start", "plan", "install", "commit"}}
RenameInv == file + Cardinality(Pending) <= Cardinality(Writer)

LEMMA FinitePending ==
    ASSUME NEW S, S \subseteq Writer
    PROVE  IsFiniteSet(S) /\ Cardinality(S) \in Nat /\ Cardinality(S) <= Cardinality(Writer)
BY RegistryAssumption, FS_Subset, FS_CardinalityType

LEMMA StepRenames ==
    ASSUME Types, Types', RenameInv, NEW w \in Writer, WriterStep(w)
    PROVE  RenameInv'
<1>1. file \in Nat /\ writer \in [Writer -> WriterState] BY DEF Types
<1>2. ASSUME Pending' \subseteq Pending, file' = file PROVE RenameInv'
  <2>1. IsFiniteSet(Pending) /\ Pending \subseteq Writer /\ Pending' \subseteq Writer BY FinitePending DEF Pending
  <2>2. Cardinality(Pending') <= Cardinality(Pending) BY <1>2, <2>1, FS_Subset
  <2>3. Cardinality(Pending') \in Nat /\ Cardinality(Pending) \in Nat /\ Cardinality(Writer) \in Nat
    BY <2>1, FinitePending
  <2> QED BY <1>1, <1>2, <2>2, <2>3 DEF RenameInv
<1>3. ASSUME NEW step \in {"unlock", "done", "crashed"}, Ends(w, step)
      PROVE  Pending' = Pending \ {w}
  <2>1. writer' = [writer EXCEPT ![w] = [NoWrite EXCEPT !.step = step]] BY <1>3 DEF Ends
  <2>2. writer'[w].step = step /\ \A v \in Writer : v # w => writer'[v] = writer[v]
    BY <1>1, <2>1 DEF NoWrite
  <2> QED BY <2>2 DEF Pending
<1>4. CASE Commit(w) /\ file' = file + 1 /\ Returns(w)
  <2>1. w \in Pending BY <1>4 DEF Commit, At, Pending
  <2>2. Pending' = Pending \ {w} BY <1>3, <1>4 DEF Returns
  <2>3. IsFiniteSet(Pending) /\ Cardinality(Pending) \in Nat /\ Cardinality(Writer) \in Nat
    BY FinitePending DEF Pending
  <2>4. Cardinality(Pending') = Cardinality(Pending) - 1 BY <2>1, <2>2, <2>3, FS_RemoveElement
  <2> QED BY <1>1, <1>4, <2>3, <2>4 DEF RenameInv
<1>5. CASE file' = file
  <2>1. CASE Returns(w) \/ Ends(w, "done") \/ Ends(w, "crashed")
    BY <1>2, <1>3, <1>5, <2>1 DEF Returns
  <2>2. CASE w \in Pending /\ \A v \in Writer : v # w => writer'[v] = writer[v]
    <3>1. Pending' \subseteq Pending BY <2>2 DEF Pending
    <3> QED BY <1>2, <1>5, <3>1
  <2>3. \A v \in Writer : v # w => writer'[v] = writer[v]
    BY <1>1 DEF WriterStep, Acquire, Busy, Plan, PlanPublication, PlanAssessment, Install, Commit, Undo,
                Unlock, Crash, Goto, Returns, Ends
  <2>4. w \in Pending \/ Returns(w) \/ Ends(w, "done") \/ Ends(w, "crashed")
    BY DEF WriterStep, Acquire, Busy, Plan, Install, Commit, Undo, Unlock, Crash, At, Pending
  <2> QED BY <2>1, <2>2, <2>3, <2>4
<1>6. file' = file \/ (Commit(w) /\ file' = file + 1 /\ Returns(w))
  <2>1. CASE Commit(w) BY <2>1 DEF Commit
  <2>2. CASE ~Commit(w) BY <2>2 DEF WriterStep, Acquire, Busy, Plan, Install, Undo, Unlock, Crash
  <2> QED BY <2>1, <2>2
<1> QED BY <1>4, <1>5, <1>6

-----------------------------------------------------------------------------
(* Theorems.                                                               *)

RegistryInv == WritersInv /\ (\A r \in Reader : Reads(r)) /\ RenameInv

LEMMA InitRegistry == Init => RegistryInv
<1> SUFFICES ASSUME Init PROVE RegistryInv OBVIOUS
<1>1. WritersInv BY InitInv
<1>2. ASSUME NEW r \in Reader PROVE Reads(r)
  <2>1. reader[r].step = "start" /\ reader[r].snapshot = EmptyIndex BY DEF Init, NoRead
  <2>2. Named(reader[r].snapshot) = {} BY <2>1 DEF Named, EmptyIndex
  <2> QED BY <2>1, <2>2 DEF Reads
<1>3. RenameInv
  <2>1. file = 0 /\ Cardinality(Pending) \in Nat /\ Cardinality(Pending) <= Cardinality(Writer)
    BY FinitePending DEF Init, Pending
  <2> QED BY <2>1 DEF RenameInv
<1> QED BY <1>1, <1>2, <1>3 DEF RegistryInv

LEMMA NextKeeps == ASSUME RegistryInv, [Next]_vars PROVE RegistryInv'
<1> USE DEF RegistryInv
<1>1. Types BY DEF WritersInv
<1>2. ASSUME WritersInv', UNCHANGED reader, \A x \in Named(index) : Onward(index[x], index'[x]), RenameInv'
      PROVE  RegistryInv'
  <2>1. Types' BY <1>2 DEF WritersInv
  <2>2. ASSUME NEW r \in Reader PROVE Reads(r)' BY <1>1, <1>2, <2>1, WaitingReads
  <2> QED BY <1>2, <2>2
<1>3. ASSUME UNCHANGED index, NEW x \in Named(index) PROVE Onward(index[x], index'[x])
  <2>1. index[x] \in Entry BY <1>1, <1>3, NamedEntries DEF Types
  <2> QED BY <1>3, <2>1, Records DEF Onward, Forward
<1>4. ASSUME UNCHANGED <<file, writer>> PROVE RenameInv' BY <1>4 DEF RenameInv, Pending
<1>5. CASE \E w \in Writer : WriterStep(w)
  <2>1. PICK w \in Writer : WriterStep(w) BY <1>5
  <2>2. WritersInv' BY <2>1, WriterKeeps
  <2>3. Types' BY <2>2 DEF WritersInv
  <2>4. RenameInv' BY <1>1, <2>1, <2>3, StepRenames
  <2>5. UNCHANGED reader
    BY <2>1 DEF WriterStep, Acquire, Busy, Plan, Install, Commit, Undo, Unlock, Crash
  <2>6. \A x \in Named(index) : Onward(index[x], index'[x]) BY <2>1, IndexOnward
  <2> QED BY <1>2, <2>2, <2>4, <2>5, <2>6
<1>6. CASE \E r \in Reader : ReaderStep(r)
  <2>1. PICK r \in Reader : ReaderStep(r) BY <1>6
  <2>2. WritersInv' BY <2>1, ReadersAside
  <2>3. /\ UNCHANGED <<index, file, blobs, lock, writer>>
        /\ reader \in [Reader -> ReaderState]
    BY <1>1, <2>1, ReaderTyped DEF Types
  <2>4. ASSUME NEW q \in Reader PROVE Reads(q)'
    <3>1. CASE q = r BY <1>1, <2>1, <3>1, ReaderReads
    <3>2. CASE q # r
      <4>1. reader'[q] = reader[q] BY <2>1, <2>3, <3>2, ReaderLeaves
      <4>2. Types' BY <2>2 DEF WritersInv
      <4> QED BY <1>1, <1>3, <2>3, <4>1, <4>2, WaitingReads
    <3> QED BY <3>1, <3>2
  <2>5. RenameInv' BY <1>4, <2>3
  <2> QED BY <2>2, <2>4, <2>5
<1>7. CASE OperatorUnlocks
  <2>1. WritersInv' BY <1>7, OperatorKeeps
  <2>2. UNCHANGED <<index, file, writer, reader>> BY <1>7 DEF OperatorUnlocks
  <2> QED BY <1>2, <1>3, <1>4, <2>1, <2>2
<1>8. CASE \E d \in Digest : Damage(d)
  <2>1. WritersInv' BY <1>8, DamageKeeps
  <2>2. UNCHANGED <<index, file, writer, reader>> BY <1>8 DEF Damage
  <2> QED BY <1>2, <1>3, <1>4, <2>1, <2>2
<1>9. CASE UNCHANGED vars
  <2>1. UNCHANGED <<index, file, blobs, lock, writer, reader>> BY <1>9 DEF vars
  <2>2. Types' /\ LockHeld' BY <2>1 DEF WritersInv, Types, LockHeld
  <2>3. ASSUME NEW v \in Writer PROVE Intent(v)'
    <3>1. Intent(v) BY DEF WritersInv
    <3> QED BY <2>1, <3>1 DEF Intent, Publishes, Assesses, MaySupersede, Superseded, Assessed, NewEntry,
                              Valid, DigestsOf, Named
  <2>4. Sound' BY <2>1, SoundKept DEF WritersInv, Sound, BlobsAreThere
  <2>5. WritersInv' BY <2>2, <2>3, <2>4 DEF WritersInv
  <2> QED BY <1>2, <1>3, <1>4, <2>1, <2>5
<1> QED BY <1>5, <1>6, <1>7, <1>8, <1>9 DEF Next

\* Whichever writers fail, crash or meet the lock another left behind, the
\* index names only blobs that are there, is internally consistent, and keeps
\* a release of every capability that nothing supersedes.
THEOREM SoundIndex == Spec => []IndexIsSound
<1>1. RegistryInv => IndexIsSound
  <2> SUFFICES ASSUME RegistryInv PROVE IndexIsSound OBVIOUS
  <2>1. file \in Nat /\ Cardinality(Pending) \in Nat /\ Cardinality(Writer) \in Nat
        /\ file + Cardinality(Pending) <= Cardinality(Writer)
    BY FinitePending DEF RegistryInv, RenameInv, WritersInv, Types, Pending
  <2>2. file \in 0 .. Cardinality(Writer) BY <2>1
  <2>3. TypeOK BY <2>2 DEF RegistryInv, WritersInv, Types, TypeOK
  <2> QED BY <2>3 DEF RegistryInv, WritersInv, Sound, IndexIsSound
<1> QED BY <1>1, InitRegistry, NextKeeps, PTL DEF Spec

\* A reader that holds an older index, with no lock, still finds each blob it
\* is going to read, and the index has only moved on.
THEOREM LockFreeReaders == Spec => []ReadersNeedNoLock
<1>1. RegistryInv => ReadersNeedNoLock
  <2> SUFFICES ASSUME RegistryInv, NEW r \in Reader
               PROVE  /\ ReaderAt(r, "blobs") =>
                            \A c \in reader[r].todo : blobs[reader[r].snapshot[c].digest] # "none"
                      /\ \A c \in Named(reader[r].snapshot) : Onward(reader[r].snapshot[c], index[c])
    BY DEF ReadersNeedNoLock, Onward
  <2>1. Reads(r) BY DEF RegistryInv
  <2>2. ASSUME NEW c \in Named(reader[r].snapshot)
        PROVE  blobs[reader[r].snapshot[c].digest] # "none"
    <3>1. Onward(reader[r].snapshot[c], index[c]) BY <2>1 DEF Reads
    <3>2. c \in Named(index) BY <3>1 DEF Onward, Named
    <3> QED BY <3>1, <3>2 DEF Onward, RegistryInv, WritersInv, Sound, BlobsAreThere, DigestsOf
  <2> QED BY <2>1, <2>2 DEF Reads, ReaderAt
<1> QED BY <1>1, InitRegistry, NextKeeps, PTL DEF Spec

\* The files, the lock and the calls implement one atomic catalog.
THEOREM FilesImplementCatalog == Spec => ImplementsCatalog
<1>1. Init => Abstract!Init BY DEF Init, EmptyIndex, Abstract!Init
<1>2. RegistryInv /\ [Next]_vars => [Abstract!Next]_(Abstract!vars) BY StepImplements DEF RegistryInv
<1> QED BY <1>1, <1>2, InitRegistry, NextKeeps, PTL DEF Spec, ImplementsCatalog, Abstract!Spec
=============================================================================
