----------------------------- MODULE CacheStore -----------------------------
(***************************************************************************)
(* The private cache (cache/cache.go): a directory of content-addressed    *)
(* entries, shared by any number of processes of one host and guarded only *)
(* by file-system operations.  Put and DeletePrivate take the put lease, a *)
(* directory at one fixed path; a lease whose holder crashed is recovered  *)
(* once it has expired.  Prune takes no lease.                             *)
(*                                                                         *)
(* A call of Put, DeletePrivate or Prune is a process, and one of its      *)
(* file-system operations is an action.  A call has its own lease nonce,   *)
(* so the call stands for the nonce.  Merged into one action are reads     *)
(* whose answers the call does not combine with what happens in between,   *)
(* and work on paths no other call can name.  A crash ends a call and      *)
(* leaves the file system as it is; a restarted process is another call.   *)
(***************************************************************************)
EXTENDS Naturals, FiniteSets

CONSTANTS
    Call,         \* calls of the store's operations
    Ghost,        \* an earlier call that crashed while it held the lease
    Key,          \* content digests, ordered as List orders them
    Metadata,     \* manifests callers may ask for
    MaxItems,     \* Store.maxItems
    MaxAttempts,  \* attempts of acquirePutLease
    Duration,     \* putLeaseDuration
    MaxClock,     \* bound on the model: the clock
    None          \* an absent value

Time == 0..MaxClock

\* An entry directory has its two files, or a removal has begun on it.  Of the
\* manifest matters whether DeletePrivate may remove the entry, and whether it
\* has expired at the time Prune is asked about.
Entry == [meta: Metadata, whole: BOOLEAN, by: Call \cup {Ghost}]

\* A lease directory: its owner.json, once written, and the prepared entries
\* inside, each named for the nonce of the call that staged it.
Owner == [by: Call \cup {Ghost}, at: Time]
LeaseDir == [owner: Owner \cup {None}, staged: SUBSET Call]

ASSUME CacheAssumption ==
    /\ Key \subseteq Nat /\ IsFiniteSet(Key)
    /\ Metadata \subseteq [private: BOOLEAN, expired: BOOLEAN]
    /\ {MaxItems, MaxAttempts, Duration, MaxClock} \subseteq Nat
    /\ Duration > 0
    /\ Ghost \notin Call
    /\ None \notin Call \cup {Ghost} \cup Entry \cup LeaseDir \cup Owner

\* What a call knows: where it is, what it was asked for, when it began to
\* acquire, the expired owner it read before it moved the lease, the attempts
\* it has left, the digests it still has to remove.
CallState ==
    [step: {"idle", "acquire", "move_stale", "settle_stale", "write_owner", "stage", "check",
            "commit", "remove_files", "remove_directory", "release", "move_out",
            "settle_release", "over"},
     op: {"put", "delete", "prune", "none"},
     key: Key \cup {None}, meta: Metadata \cup {None},
     at: Time, seen: Call \cup {Ghost, None}, attempts: 0..MaxAttempts, todo: SUBSET Key]

Idle == [step |-> "idle", op |-> "none", key |-> None, meta |-> None,
         at |-> 0, seen |-> None, attempts |-> MaxAttempts, todo |-> {}]

VARIABLES
    entries,   \* the entry directory of each digest, or None
    lock,      \* the directory at entries/.put-lock, or None
    aside,     \* the lease directory a call has moved to its own private path
    call,      \* the local state of each call
    clock,
    fenced,    \* history: calls whose lease a recovery has discarded
    misfired   \* history: a call moved away a lease directory it had not read

history == <<fenced, misfired>>
vars == <<entries, lock, aside, call, clock, history>>

TypeOK ==
    /\ entries \in [Key -> Entry \cup {None}]
    /\ lock \in LeaseDir \cup {None}
    /\ aside \in [Call -> LeaseDir \cup {None}]
    /\ call \in [Call -> CallState]
    /\ clock \in Time
    /\ fenced \subseteq Call
    /\ misfired \in BOOLEAN

Present == {k \in Key : entries[k] # None}

\* A cache somebody used before: entries within the cap, and perhaps the lease
\* of a call that crashed while it held it.
Init ==
    /\ entries \in [Key -> [meta: Metadata, whole: {TRUE}, by: {Ghost}] \cup {None}]
    /\ Cardinality(Present) <= MaxItems
    /\ lock \in {None, [owner |-> [by |-> Ghost, at |-> 0], staged |-> {}]}
    /\ aside = [c \in Call |-> None]
    /\ call = [c \in Call |-> Idle]
    /\ clock = 0
    /\ fenced = {}
    /\ misfired = FALSE

\* load: only an entry directory with both files verifies.
Loads(k) == entries[k] # None /\ entries[k].whole

At(c, step) == call[c].step = step
Becomes(c, state) == call' = [call EXCEPT ![c] = state]
Goto(c, step) == Becomes(c, [call[c] EXCEPT !.step = step])
Return(c) == Becomes(c, [Idle EXCEPT !.step = "over"])
-----------------------------------------------------------------------------
(* The calls begin. *)

\* Put before it acquires: an entry that is there is reused or refused,
\* otherwise the transaction is written to a directory of the call's own.
PutBegin(c, k, m) ==
    /\ At(c, "idle")
    /\ IF k \in Present
       THEN Return(c)
       ELSE Becomes(c, [Idle EXCEPT !.step = "acquire", !.op = "put", !.at = clock,
                                    !.key = k, !.meta = m])
    /\ UNCHANGED <<entries, lock, aside, clock, history>>

DeleteBegin(c, k) ==
    /\ At(c, "idle")
    /\ Loads(k)
    /\ entries[k].meta.private
    /\ Becomes(c, [Idle EXCEPT !.step = "acquire", !.op = "delete", !.at = clock, !.key = k])
    /\ UNCHANGED <<entries, lock, aside, clock, history>>

\* Prune lists first; one entry that does not verify, or one too many, fails
\* the listing and with it the call.
PruneBegin(c) ==
    LET expired == {k \in Present : entries[k].meta.expired}
    IN  /\ At(c, "idle")
        /\ \A k \in Present : Loads(k)
        /\ Cardinality(Present) <= MaxItems
        /\ expired # {}
        /\ Becomes(c, [Idle EXCEPT !.step = "remove_files", !.op = "prune", !.todo = expired])
        /\ UNCHANGED <<entries, lock, aside, clock, history>>
-----------------------------------------------------------------------------
(* acquirePutLease *)

\* Slip: one attempt too many.
AttemptsLeftLate(c) == call[c].attempts >= 0

AttemptsLeft(c) == call[c].attempts > 0

Mkdir(c) ==
    /\ At(c, "acquire")
    /\ AttemptsLeft(c)
    /\ lock = None
    /\ lock' = [owner |-> None, staged |-> {}]
    /\ Goto(c, "write_owner")
    /\ UNCHANGED <<entries, aside, clock, history>>

Expired(c, owner) == call[c].at >= owner.at + Duration
OwnedBy(c, dir) == dir # None /\ dir.owner # None /\ dir.owner.by = c

\* Mkdir failed: a lease that cannot be read or has not expired is respected.
InspectStale(c) ==
    /\ At(c, "acquire")
    /\ AttemptsLeft(c)
    /\ lock # None
    /\ IF lock.owner # None /\ Expired(c, lock.owner)
       THEN Becomes(c, [call[c] EXCEPT !.step = "move_stale", !.seen = lock.owner.by])
       ELSE Return(c)
    /\ UNCHANGED <<entries, lock, aside, clock, history>>

Exhausted(c) ==
    /\ At(c, "acquire")
    /\ ~AttemptsLeft(c)
    /\ Return(c)
    /\ UNCHANGED <<entries, lock, aside, clock, history>>

Retry(c) == Becomes(c, [call[c] EXCEPT !.step = "acquire", !.seen = None, !.attempts = @ - 1])

MoveStale(c) ==
    /\ At(c, "move_stale")
    /\ lock' = None
    /\ IF lock = None
       THEN Retry(c) /\ UNCHANGED <<aside, misfired>>
       ELSE /\ aside' = [aside EXCEPT ![c] = lock]
            /\ misfired' = (misfired \/ ~OwnedBy(call[c].seen, lock))
            /\ Goto(c, "settle_stale")
    /\ UNCHANGED <<entries, clock, fenced>>

\* Slip: what was moved is not looked at again.
IsStaleAlways(c) == aside[c].owner # None

\* What was moved is still the expired lease that was read.
IsStale(c) == OwnedBy(call[c].seen, aside[c]) /\ Expired(c, aside[c].owner)

DiscardStale(c) ==
    /\ At(c, "settle_stale")
    /\ IsStale(c)
    /\ fenced' = fenced \cup ({aside[c].owner.by} \cap Call)
    /\ aside' = [aside EXCEPT ![c] = None]
    /\ Retry(c)
    /\ UNCHANGED <<entries, lock, clock, misfired>>

\* A directory is not renamed onto another: a lease that was moved by mistake
\* stays aside when a new one has taken its place.
PutBack(c) ==
    IF lock = None
    THEN lock' = aside[c] /\ aside' = [aside EXCEPT ![c] = None]
    ELSE UNCHANGED <<lock, aside>>

RestoreStale(c) ==
    /\ At(c, "settle_stale")
    /\ ~IsStale(c)
    /\ PutBack(c)
    /\ Return(c)
    /\ UNCHANGED <<entries, clock, history>>

\* owner.json is created exclusively, by path: the directory there may have
\* been moved away or be another call's.  A failure removes what is there.
WriteOwner(c) ==
    /\ At(c, "write_owner")
    /\ IF lock # None /\ lock.owner = None
       THEN /\ lock' = [lock EXCEPT !.owner = [by |-> c, at |-> call[c].at]]
            /\ Goto(c, IF call[c].op = "put" THEN "stage" ELSE "check")
       ELSE lock' = None /\ Return(c)
    /\ UNCHANGED <<entries, aside, clock, history>>
-----------------------------------------------------------------------------
(* Put under the lease *)

\* The transaction moves into whatever directory is at the lease path.
Stage(c) ==
    /\ At(c, "stage")
    /\ IF lock = None
       THEN Goto(c, "release") /\ UNCHANGED lock
       ELSE lock' = [lock EXCEPT !.staged = @ \cup {c}] /\ Goto(c, "check")
    /\ UNCHANGED <<entries, aside, clock, history>>

\* Slip: the cap is compared off by one.
RoomForOneMore == Cardinality(Present) <= MaxItems

\* ensurePutCapacity
Room == Cardinality(Present) < MaxItems

\* assertOwned, no entry yet, ensurePutCapacity, and commit's assertOwned.
CheckPut(c) ==
    /\ At(c, "check")
    /\ call[c].op = "put"
    /\ Goto(c, IF OwnedBy(c, lock) /\ call[c].key \notin Present /\ Room
               THEN "commit" ELSE "release")
    /\ UNCHANGED <<entries, lock, aside, clock, history>>

\* Slip: the transaction is committed from the call's own directory.
ReachableOutside(c) == TRUE

\* commit renames from inside the lease directory, by path.
Reachable(c) == lock # None /\ c \in lock.staged

\* The lease directory without the call's transaction.
Withdrawn(c) == IF lock = None THEN None ELSE [lock EXCEPT !.staged = @ \ {c}]

\* Slip: the rename replaces what is there.
NewNameAlways(k) == TRUE

\* A directory is not renamed onto another.
NewName(k) == k \notin Present

\* Slip: the entry is written where it will be, one file after the other.
CommitInPlace(c) ==
    LET k == call[c].key
    IN  /\ At(c, "commit")
        /\ IF Reachable(c) /\ NewName(k)
           THEN /\ entries' = [entries EXCEPT ![k] = [meta |-> call[c].meta, whole |-> FALSE, by |-> c]]
                /\ UNCHANGED <<lock, call>>
           ELSE /\ entries' = [entries EXCEPT ![k] = IF @ = None THEN None ELSE [@ EXCEPT !.whole = TRUE]]
                /\ lock' = Withdrawn(c)
                /\ Goto(c, "release")
        /\ UNCHANGED <<aside, clock, history>>

Commit(c) ==
    /\ At(c, "commit")
    /\ IF Reachable(c) /\ NewName(call[c].key)
       THEN /\ entries' = [entries EXCEPT ![call[c].key] =
                              [meta |-> call[c].meta, whole |-> TRUE, by |-> c]]
            /\ lock' = Withdrawn(c)
       ELSE UNCHANGED <<entries, lock>>
    /\ Goto(c, "release")
    /\ UNCHANGED <<aside, clock, history>>
-----------------------------------------------------------------------------
(* Removal *)

\* Slip: the lookup before the lease is relied on.
StillPrivateAlready(k) == TRUE

\* The lookup under the lease.
StillPrivate(k) == Loads(k) /\ entries[k].meta.private

\* DeletePrivate under the lease: load again, then assertOwned.
CheckDelete(c) ==
    /\ At(c, "check")
    /\ call[c].op = "delete"
    /\ IF StillPrivate(call[c].key) /\ OwnedBy(c, lock)
       THEN Becomes(c, [call[c] EXCEPT !.step = "remove_files", !.todo = {call[c].key}])
       ELSE Goto(c, "release")
    /\ UNCHANGED <<entries, lock, aside, clock, history>>

\* Prune removes in the order of the listing, DeletePrivate its one entry.
Victim(c) == CHOOSE k \in call[c].todo : \A j \in call[c].todo : k <= j

\* RemoveAll(dir): first the files of the directory that is there now ...
RemoveFiles(c) ==
    /\ At(c, "remove_files")
    /\ entries' = [entries EXCEPT ![Victim(c)] =
                      IF @ = None THEN None ELSE [@ EXCEPT !.whole = FALSE]]
    /\ Goto(c, "remove_directory")
    /\ UNCHANGED <<lock, aside, clock, history>>

AfterRemoval(c) == IF call[c].op = "prune" THEN Return(c) ELSE Goto(c, "release")

\* ... then the directory, unless it has files again: an error that ends the
\* call.
RemoveDirectory(c) ==
    /\ At(c, "remove_directory")
    /\ IF Loads(Victim(c))
       THEN UNCHANGED entries /\ AfterRemoval(c)
       ELSE /\ entries' = [entries EXCEPT ![Victim(c)] = None]
            /\ IF call[c].todo = {Victim(c)}
               THEN AfterRemoval(c)
               ELSE Becomes(c, [call[c] EXCEPT !.step = "remove_files", !.todo = @ \ {Victim(c)}])
    /\ UNCHANGED <<lock, aside, clock, history>>
-----------------------------------------------------------------------------
(* releasePutLease *)

\* The owner is read before the lease is moved.  A call that lost its lease
\* still removes its transaction from whatever is at the lease path.
Release(c) ==
    /\ At(c, "release")
    /\ IF OwnedBy(c, lock)
       THEN Goto(c, "move_out") /\ UNCHANGED lock
       ELSE /\ lock' = Withdrawn(c)
            /\ Return(c)
    /\ UNCHANGED <<entries, aside, clock, history>>

MoveOut(c) ==
    /\ At(c, "move_out")
    /\ lock' = None
    /\ IF lock = None
       THEN Return(c) /\ UNCHANGED <<aside, misfired>>
       ELSE /\ aside' = [aside EXCEPT ![c] = lock]
            /\ misfired' = (misfired \/ ~OwnedBy(c, lock))
            /\ Goto(c, "settle_release")
    /\ UNCHANGED <<entries, clock, fenced>>

\* What was moved is discarded if it is the call's own lease, put back if not.
SettleRelease(c) ==
    /\ At(c, "settle_release")
    /\ IF OwnedBy(c, aside[c])
       THEN aside' = [aside EXCEPT ![c] = None] /\ UNCHANGED lock
       ELSE PutBack(c)
    /\ Return(c)
    /\ UNCHANGED <<entries, clock, history>>
-----------------------------------------------------------------------------
(* What happens to the calls. *)

\* The process stops; the removal it had begun stays as it is.
Crash(c) ==
    /\ call[c].step \notin {"idle", "over"}
    /\ Becomes(c, [Idle EXCEPT !.step = "over",
                      !.todo = IF At(c, "remove_directory") THEN {Victim(c)} ELSE {}])
    /\ UNCHANGED <<entries, lock, aside, clock, history>>

Tick ==
    /\ clock < MaxClock
    /\ clock' = clock + 1
    /\ UNCHANGED <<entries, lock, aside, call, history>>

Next ==
    \/ \E c \in Call, k \in Key, m \in Metadata : PutBegin(c, k, m)
    \/ \E c \in Call, k \in Key : DeleteBegin(c, k)
    \/ \E c \in Call : PruneBegin(c)
    \/ \E c \in Call : Mkdir(c)
    \/ \E c \in Call : InspectStale(c)
    \/ \E c \in Call : Exhausted(c)
    \/ \E c \in Call : MoveStale(c)
    \/ \E c \in Call : DiscardStale(c)
    \/ \E c \in Call : RestoreStale(c)
    \/ \E c \in Call : WriteOwner(c)
    \/ \E c \in Call : Stage(c)
    \/ \E c \in Call : CheckPut(c)
    \/ \E c \in Call : Commit(c)
    \/ \E c \in Call : CheckDelete(c)
    \/ \E c \in Call : RemoveFiles(c)
    \/ \E c \in Call : RemoveDirectory(c)
    \/ \E c \in Call : Release(c)
    \/ \E c \in Call : MoveOut(c)
    \/ \E c \in Call : SettleRelease(c)
    \/ \E c \in Call : Crash(c)
    \/ Tick

Spec == Init /\ [][Next]_vars
-----------------------------------------------------------------------------
(* Properties *)

\* The cap on entries holds under every interleaving of writers, recoveries
\* and crashes, unless a call moved away a lease directory it had not read
\* (ensurePutCapacity and the commit inside the lease; cache.go:193, 368).
CapKept == misfired \/ Cardinality(Present) <= MaxItems

Commits(c) == At(c, "commit") /\ call'[c] # call[c] /\ entries' # entries

\* A writer whose lease a recovery has discarded never commits again, wherever
\* it was suspended, unless a call moved away a lease directory it had not read
\* (lease.commit; cache.go:368, the test
\* TestExpiredPutLeaseFencesWriterThatAlreadyCheckedCapacity).
FencedNeverCommits == [][~misfired => \A c \in fenced : ~Commits(c)]_vars

\* An entry is immutable: under its name there is what was committed, then
\* less and less of it, and another entry only after it was gone; not even
\* writers that lost their lease replace one another's entries.
Immutable ==
    [][\A k \in Present : entries'[k] \in {entries[k], [entries[k] EXCEPT !.whole = FALSE], None}]_vars

\* A partial entry is what a removal left, finished or not: no crash of a
\* writer leaves one.
OnlyRemovalsArePartial ==
    /\ TypeOK
    /\ \A k \in Present : ~entries[k].whole =>
        \E c \in Call : k \in call[c].todo /\ call[c].step \in {"remove_directory", "over"}

Deletes(c) == At(c, "remove_files") /\ call[c].op = "delete" /\ call'[c] # call[c]

\* While its lease lasts, DeletePrivate never removes a derived entry, though
\* Prune may have removed the one it looked up, and another call put one in its
\* place (the load under the lease; cache.go:552).
DeletesOnlyPrivate ==
    [][\A c \in Call : Deletes(c) /\ OwnedBy(c, lock) /\ ~misfired =>
          \A k \in Present : entries'[k] # entries[k] => entries[k].meta.private]_vars

\* What was committed is kept until a removal that may remove it.
EntriesAreKept == Immutable /\ DeletesOnlyPrivate

\* A recovery destroys only a lease that has expired, and an unlock only its
\* own: not one that took its place after it was read (cache.go:329, 447).
DiscardsWhatItRead ==
    [][\A c \in Call : aside[c] # None /\ aside'[c] = None /\ lock' # aside[c] =>
          OwnedBy(c, aside[c]) \/ (aside[c].owner # None /\ Expired(c, aside[c].owner))]_vars

\* A lease protects its holder while it lasts, and nobody once it is gone.
LeasesProtect == FencedNeverCommits /\ DiscardsWhatItRead

\* Documented: "cache leases recover" (tabilet/docs/history/status-M24.md:33):
\* a lease nobody is about to sign can be read, and so be recovered in time.
LeaseIsRecoverable ==
    lock # None /\ lock.owner = None => \E c \in Call : At(c, "write_owner")
=============================================================================
