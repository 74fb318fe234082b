------------------------------ MODULE Registry ------------------------------
(***************************************************************************)
(* The static registry (registry/local.go, index.go, client.go): a         *)
(* directory with an index file, content-addressed blobs and a publish     *)
(* lock.  PublishLocal and UpdateLifecycleLocal are writers and take the   *)
(* lock; VerifyLocal and the client's Search and Pull are readers and take *)
(* none.  Remote readers fetch the same files over HTTPS.                  *)
(*                                                                         *)
(* A call is a process, and an operation on a path that another call can   *)
(* name is an action; the temporary files a writer links or renames are    *)
(* its own and left out.  The index is replaced by a rename, so a file     *)
(* that is open stays what it was: a reader holds a snapshot.  A crash     *)
(* ends a writer anywhere and leaves the directory as it is.               *)
(***************************************************************************)
EXTENDS Naturals, FiniteSets

CONSTANTS
    Writer,         \* calls of PublishLocal and UpdateLifecycleLocal
    Reader,         \* calls of VerifyLocal, Search and Pull
    Coordinate,     \* (capability, release) pairs
    Capability,     \* [Coordinate -> capability identifiers]
    Digest,         \* bundle digests
    Bundle,         \* [Digest -> [coordinate, published, expires]]
    Time,           \* instants callers may name
    MaxEntries,     \* DefaultMaxEntries
    None            \* an absent value

BundleFacts == [coordinate: Coordinate, published: Time, expires: Nat]

Status == {"active", "stale", "superseded", "revoked"}
Open == {"active", "stale"}
Entry == [digest: Digest, status: Status, assessed: Time, successor: Digest \cup {None}]

ASSUME RegistryAssumption ==
    /\ Time \subseteq Nat
    /\ MaxEntries \in Nat
    /\ IsFiniteSet(Writer)
    /\ Bundle \in [Digest -> BundleFacts]
    /\ None \notin Coordinate \cup Digest \cup Writer \cup Entry

Index == [Coordinate -> Entry \cup {None}]
EmptyIndex == [c \in Coordinate |-> None]

\* What the callers ask for.
Publication == [op: {"publish"}, digest: Digest, at: Time, supersedes: Coordinate \cup {None}]
Assessment == [op: {"assess"}, coordinate: Coordinate, status: {"stale", "revoked"}, at: Time]
Reading == [op: {"verify", "search"}] \cup [op: {"pull"}, want: Coordinate]

VARIABLES
    index,      \* the entries of index.json
    file,       \* which index file it is: 0 while there is none, then one more per rename
    blobs,      \* the blob of each digest: "none", "whole" or "damaged"
    lock,       \* the writer that made .publish.lock, or None
    writer,     \* the local state of each writer
    reader      \* the local state of each reader

vars == <<index, file, blobs, lock, writer, reader>>

WriterSteps == {"start", "plan", "install", "commit", "undo", "unlock", "done", "crashed"}
WriterState == [step: WriterSteps, call: Publication \cup Assessment \cup {None},
                next: Index, created: BOOLEAN]
ReaderSteps == {"start", "open", "blobs", "done", "failed"}
ReaderState == [step: ReaderSteps, call: Reading \cup {None}, seen: Nat, snapshot: Index,
                todo: SUBSET Coordinate]

\* A call that has begun nothing yet, or is over and has forgotten everything.
NoWrite == [step |-> "start", call |-> None, next |-> EmptyIndex, created |-> FALSE]
NoRead == [step |-> "start", call |-> None, seen |-> 0, snapshot |-> EmptyIndex, todo |-> {}]

TypeOK ==
    /\ index \in Index
    /\ file \in 0..Cardinality(Writer)
    /\ blobs \in [Digest -> {"none", "whole", "damaged"}]
    /\ lock \in Writer \cup {None}
    /\ writer \in [Writer -> WriterState]
    /\ reader \in [Reader -> ReaderState]

Init ==
    /\ index = EmptyIndex
    /\ file = 0
    /\ blobs = [d \in Digest |-> "none"]
    /\ lock = None
    /\ writer = [w \in Writer |-> NoWrite]
    /\ reader = [r \in Reader |-> NoRead]

Named(i) == {c \in Coordinate : i[c] # None}
DigestsOf(i) == {i[c].digest : c \in Named(i)}

\* The evidence module: an active assessment lapses at its expiry.  A new
\* assessment carries none, and is not active.
ActiveAt(entry, at) == entry.status = "active" /\ at < Bundle[entry.digest].expires

\* validateIndex: a superseded entry's successor is in the index and belongs to
\* the same capability.  A map keyed by coordinate has no duplicates.
Valid(i) ==
    \A c \in Named(i) : i[c].status = "superseded" =>
        \E s \in Named(i) : i[s].digest = i[c].successor /\ Capability[s] = Capability[c]

Encodable(i) == Cardinality(Named(i)) <= MaxEntries /\ Valid(i)
-----------------------------------------------------------------------------
(* Writers. *)

At(w, step) == writer[w].step = step
Goto(w, step) == writer' = [writer EXCEPT ![w].step = step]
Ends(w, step) == writer' = [writer EXCEPT ![w] = [NoWrite EXCEPT !.step = step]]
Returns(w) == Ends(w, "unlock")

\* acquirePublishLock: the lock file is created exclusively; a writer that finds
\* one gives up at once.
Acquire(w, call) ==
    /\ At(w, "start")
    /\ lock = None
    /\ lock' = w
    /\ writer' = [writer EXCEPT ![w].step = "plan", ![w].call = call]
    /\ UNCHANGED <<index, file, blobs, reader>>

Busy(w) ==
    /\ At(w, "start")
    /\ lock # None
    /\ Ends(w, "done")
    /\ UNCHANGED <<index, file, blobs, lock, reader>>

\* entryFromBundle, bundle.CanonicalJSON: a bundle is published at a time when
\* it has been assessed and has not expired.
Publishable(call) ==
    /\ Bundle[call.digest].published <= call.at
    /\ call.at < Bundle[call.digest].expires

\* Slip: the assessment takes the bundle's expiry for its time.
NewEntryExpiring(call) ==
    [digest |-> call.digest, status |-> "active", assessed |-> Bundle[call.digest].expires,
     successor |-> None]

NewEntry(call) ==
    [digest |-> call.digest, status |-> "active", assessed |-> call.at, successor |-> None]

\* Slip: any release may be superseded, terminal ones too.
MaySupersedeTerminal(call, c) ==
    LET old == call.supersedes
    IN  /\ old # c
        /\ index[old] # None
        /\ Capability[old] = Capability[c]
        /\ index[old].assessed <= call.at

\* May this publication end the lifecycle of the release it supersedes?
MaySupersede(call, c) ==
    LET old == call.supersedes
    IN  /\ old # c
        /\ index[old] # None
        /\ Capability[old] = Capability[c]
        /\ index[old].status \in Open
        /\ index[old].assessed <= call.at

WithSuperseded(call) ==
    IF call.supersedes = None THEN index
    ELSE [index EXCEPT ![call.supersedes] =
             [@ EXCEPT !.status = "superseded", !.assessed = call.at, !.successor = call.digest]]

AfterPublication(call, c) == [WithSuperseded(call) EXCEPT ![c] = NewEntry(call)]

\* Slip: publishing the same content again carries out its supersession.
PlanPublicationAgain(w, call) ==
    LET c == Bundle[call.digest].coordinate
        next == [WithSuperseded(call) EXCEPT ![c] = IF @ = None THEN NewEntry(call) ELSE @]
        wanted == /\ Publishable(call)
                  /\ call.supersedes # None => MaySupersede(call, c)
                  /\ Encodable(next)
    IN  IF (index[c] = None \/ (index[c] # None /\ index[c].digest = call.digest)) /\ wanted
        THEN writer' = [writer EXCEPT ![w].step = "install", ![w].next = next]
        ELSE Returns(w)

\* Everything PublishLocal decides under the lock before it writes.  A coordinate
\* that is there already is never changed: the same content is reported as
\* reused once its blob verifies, other content is a conflict.
PlanPublication(w, call) ==
    LET c == Bundle[call.digest].coordinate
        next == AfterPublication(call, c)
        wanted == /\ Publishable(call)
                  /\ call.supersedes # None => MaySupersede(call, c)
                  /\ Encodable(next)
    IN  IF index[c] = None /\ wanted
        THEN writer' = [writer EXCEPT ![w].step = "install", ![w].next = next]
        ELSE Returns(w)

\* Everything UpdateLifecycleLocal decides: stale again is a success that
\* changes nothing, superseded and revoked are terminal.
PlanAssessment(w, call) ==
    LET c == call.coordinate
        next == [index EXCEPT ![c] = [@ EXCEPT !.status = call.status, !.assessed = call.at,
                                               !.successor = None]]
        wanted == /\ index[c] # None
                  /\ index[c].status \in Open
                  /\ index[c].status # call.status
                  /\ call.at >= index[c].assessed
                  /\ Encodable(next)
    IN  IF wanted
        THEN writer' = [writer EXCEPT ![w].step = "commit", ![w].next = next]
        ELSE Returns(w)

\* loadLocalIndex and the decision: only the holder of the lock writes, so they
\* are one step.
Plan(w) ==
    /\ At(w, "plan")
    /\ \/ writer[w].call.op = "publish" /\ PlanPublication(w, writer[w].call)
       \/ writer[w].call.op = "assess" /\ PlanAssessment(w, writer[w].call)
    /\ UNCHANGED <<index, file, blobs, lock, reader>>

\* verifyBlobFile: the bytes have the size and digest of the descriptor.
BlobVerifies(d) == blobs[d] = "whole"

\* installBlob: a whole blob that is there is reused, anything else there is an
\* error; a new one is linked into place when it is complete.
Install(w) ==
    LET d == writer[w].call.digest
    IN  /\ At(w, "install")
        /\ \/ /\ blobs[d] = "none"
              /\ blobs' = [blobs EXCEPT ![d] = "whole"]
              /\ writer' = [writer EXCEPT ![w].step = "commit", ![w].created = TRUE]
           \/ BlobVerifies(d) /\ Goto(w, "commit") /\ UNCHANGED blobs
           \/ Returns(w) /\ UNCHANGED blobs      \* damaged, or a write fails
        /\ UNCHANGED <<index, file, lock, reader>>

\* Slip: the call does not note that it committed.
CommitUnmarked(w) ==
    /\ At(w, "commit")
    /\ \/ /\ index' = writer[w].next
          /\ file' = file + 1
       \/ UNCHANGED <<index, file>>
    /\ Goto(w, "undo")
    /\ UNCHANGED <<blobs, lock, reader>>

\* writeAtomic: the rename of the new index, or a failure before it.
Commit(w) ==
    /\ At(w, "commit")
    /\ \/ /\ index' = writer[w].next
          /\ file' = file + 1
          /\ Returns(w)
       \/ /\ Goto(w, "undo")
          /\ UNCHANGED <<index, file>>
    /\ UNCHANGED <<blobs, lock, reader>>

\* The deferred removal of a blob this call created and did not commit; an
\* error of the removal is ignored.
Undo(w) ==
    /\ At(w, "undo")
    /\ \/ /\ writer[w].created
          /\ blobs' = [blobs EXCEPT ![writer[w].call.digest] = "none"]
       \/ UNCHANGED blobs
    /\ Returns(w)
    /\ UNCHANGED <<index, file, lock, reader>>

\* The deferred unlock; an error of the removal is ignored, the lock stays.
Unlock(w) ==
    /\ At(w, "unlock")
    /\ Ends(w, "done")
    /\ lock' \in {None, lock}
    /\ UNCHANGED <<index, file, blobs, reader>>

Crash(w) ==
    /\ writer[w].step \notin {"start", "done", "crashed"}
    /\ Ends(w, "crashed")
    /\ UNCHANGED <<index, file, blobs, lock, reader>>

\* External: an operator removes a lock that no running call owns.
OperatorUnlocks ==
    /\ lock # None
    /\ writer[lock].step \in {"done", "crashed"}
    /\ lock' = None
    /\ UNCHANGED <<index, file, blobs, writer, reader>>

\* External: a blob's bytes change behind the registry's back.
Damage(d) ==
    /\ blobs[d] = "whole"
    /\ \A x \in Digest : blobs[x] # "damaged"       \* bound: one at a time
    /\ blobs' = [blobs EXCEPT ![d] = "damaged"]
    /\ UNCHANGED <<index, file, lock, writer, reader>>
-----------------------------------------------------------------------------
(* Readers. *)

ReaderAt(r, step) == reader[r].step = step
Over(r, step) == reader' = [reader EXCEPT ![r] = [NoRead EXCEPT !.step = step]]

\* The entries whose blobs this call must read, or {} if it has to fail.
Selected(call, i) ==
    CASE call.op = "verify" -> Named(i)
      [] call.op = "search" -> {}
      [] call.op = "pull"   -> Named(i) \cap {call.want}

\* An index has been read whole: choose what to do with it.  A pull of something
\* absent fails, and one of something inactive unless that was allowed; a
\* search needs no blob.
Selects(r, call, i) ==
    LET todo == Selected(call, i)
    IN  \/ /\ todo # {}
           /\ reader' = [reader EXCEPT ![r] = [step |-> "blobs", call |-> call, seen |-> 0,
                                              snapshot |-> i, todo |-> todo]]
        \/ /\ todo = {} /\ call.op # "pull"
           /\ Over(r, "done")
        \/ /\ call.op = "pull"
           /\ \A c \in todo : \E at \in Time : ~ActiveAt(i[c], at)
           /\ Over(r, "failed")

\* A local read looks at the index file before it opens it.  VerifyLocal takes
\* a missing index for an empty one, the client does not.
StatIndex(r, call) ==
    /\ ReaderAt(r, "start")
    /\ IF file > 0 THEN reader' = [reader EXCEPT ![r].step = "open", ![r].call = call,
                                                 ![r].seen = file]
       ELSE Over(r, IF call.op = "verify" THEN "done" ELSE "failed")
    /\ UNCHANGED <<index, file, blobs, lock, writer>>

\* readRegularBounded: the file that was opened must be the one looked at.
OpenIndex(r) ==
    /\ ReaderAt(r, "open")
    /\ IF file = reader[r].seen THEN Selects(r, reader[r].call, index)
       ELSE Over(r, "failed")
    /\ UNCHANGED <<index, file, blobs, lock, writer>>

\* client.download of the index: one file of a static host.
DownloadIndex(r, call) ==
    /\ ReaderAt(r, "start")
    /\ IF file > 0 THEN Selects(r, call, index) ELSE Over(r, "failed")
    /\ UNCHANGED <<index, file, blobs, lock, writer>>

\* verifyEntryBytes: the blob is the bundle the entry describes.
EntryVerifies(entry) == blobs[entry.digest] = "whole"

\* One blob is read and verified against its entry; the first that is missing
\* or wrong fails the call.
ReadBlob(r, c) ==
    LET verifies == EntryVerifies(reader[r].snapshot[c])
        left == reader[r].todo \ {c}
    IN  /\ ReaderAt(r, "blobs")
        /\ c \in reader[r].todo
        /\ \/ /\ verifies /\ left # {}
              /\ reader' = [reader EXCEPT ![r].todo = left]
           \/ /\ verifies /\ left = {}
              /\ Over(r, "done")
           \/ /\ ~verifies
              /\ Over(r, "failed")
        /\ UNCHANGED <<index, file, blobs, lock, writer>>

\* Cancellation, the deadline, a refusing network policy, a failed request.
GiveUp(r) ==
    /\ reader[r].step \in {"start", "open", "blobs"}
    /\ Over(r, "failed")
    /\ UNCHANGED <<index, file, blobs, lock, writer>>
-----------------------------------------------------------------------------
WriterStep(w) ==
    \/ \E call \in Publication \cup Assessment : Acquire(w, call)
    \/ Busy(w) \/ Plan(w) \/ Install(w) \/ Commit(w) \/ Undo(w) \/ Unlock(w) \/ Crash(w)

ReaderStep(r) ==
    \/ \E call \in Reading : StatIndex(r, call) \/ DownloadIndex(r, call)
    \/ OpenIndex(r)
    \/ \E c \in Coordinate : ReadBlob(r, c)
    \/ GiveUp(r)

Next ==
    \/ \E w \in Writer : WriterStep(w)
    \/ \E r \in Reader : ReaderStep(r)
    \/ OperatorUnlocks
    \/ \E d \in Digest : Damage(d)

Spec == Init /\ [][Next]_vars
-----------------------------------------------------------------------------
(* Properties. *)

\* The index never names a blob that is not there, whatever writer crashed or
\* failed where (PublishLocal installs before it commits and removes only what
\* it created and did not commit; local.go:145); a coordinate is that of its
\* bundle; and no chain of supersessions closes: every capability keeps an
\* entry that nothing supersedes.
BlobsAreThere == \A d \in DigestsOf(index) : blobs[d] # "none"
NamesItsBundles == \A c \in Named(index) : Bundle[index[c].digest].coordinate = c
KeepsAHead ==
    \A c \in Named(index) : \E h \in Named(index) :
        Capability[h] = Capability[c] /\ index[h].status # "superseded"
IndexIsSound == TypeOK /\ Valid(index) /\ BlobsAreThere /\ NamesItsBundles /\ KeepsAHead

Forward(before, now) ==
    \/ now = before
    \/ before = "active"
    \/ before = "stale" /\ now # "active"

\* A reader that follows an index it read earlier still finds every blob, and
\* finds the entry as it was or further along: it takes no lock because it
\* needs none (VerifyLocal, Client.Pull; local.go:234, client.go:142).
ReadersNeedNoLock ==
    \A r \in Reader :
        /\ ReaderAt(r, "blobs") => \A c \in reader[r].todo : blobs[reader[r].snapshot[c].digest] # "none"
        /\ \A c \in Named(reader[r].snapshot) :
              /\ index[c] # None
              /\ index[c].digest = reader[r].snapshot[c].digest
              /\ index[c].assessed >= reader[r].snapshot[c].assessed
              /\ Forward(reader[r].snapshot[c].status, index[c].status)

\* The files implement one atomic catalog.
Abstract == INSTANCE Catalog WITH catalog <- index,
                                  stored <- {d \in Digest : blobs[d] # "none"}
ImplementsCatalog == Abstract!Spec
=============================================================================
