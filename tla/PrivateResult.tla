--------------------------- MODULE PrivateResult ---------------------------
(***************************************************************************)
(* The private persistence of a registration result                        *)
(* (registrationauthorresult/result.go: FinalizePrivate,                   *)
(* WritePrivateExclusive and the file operations under them).              *)
(*                                                                         *)
(* Attempts of any number of processes write to one private root, each     *)
(* file operation is an action and may fail, the root may be moved, opened *)
(* to others or edited by whoever owns it, and the machine may crash.  A   *)
(* result's name is its digest, so two attempts at one result meet.        *)
(***************************************************************************)
EXTENDS RegistrationResult

CONSTANTS
    Attempt,        \* calls of FinalizePrivate and WritePrivateExclusive
    Completion,     \* completions a session may hand over
    Dir,            \* directories that may be at the path of the private root
    Times,          \* instants
    MaxOutside,     \* how often an outsider interferes
    Outsider        \* who wrote a file that no attempt wrote

ASSUME PrivateAssumption ==
    /\ Times \subseteq Nat /\ MaxOutside \in Nat
    /\ Outsider \notin Attempt /\ None \notin Dir
    /\ \A c \in Completion : {c.profile.verifiedAt, c.profile.lifetime} \subseteq Nat

VARIABLES
    path,       \* the directory at the path of the private root, or None
    private,    \* the directories only their owner may enter
    files,      \* what is in the directories
    attempt,    \* what each attempt holds
    outside,    \* how often an outsider has interfered
    touched,    \* the results an outsider has touched (a ghost)
    crashed     \* whether the machine has crashed

privateVars == <<path, private, files, attempt, outside, touched, crashed>>

\* A file's name is the result it should hold, or the attempt it is the
\* temporary file of.
File(dir, name, value, whole, synced, by) ==
    [dir |-> dir, name |-> name, value |-> value, whole |-> whole, synced |-> synced, by |-> by]

Called(dir, name) == {f \in files : f.dir = dir /\ f.name = name}

Fresh == [pc |-> "idle", kind |-> None, result |-> None, before |-> None, dir |-> None,
          linked |-> FALSE, created |-> FALSE, stuck |-> FALSE]

PrivateInit ==
    /\ path \in Dir /\ private = Dir /\ files = {}
    /\ attempt = [a \in Attempt |-> Fresh]
    /\ outside = 0 /\ touched = {} /\ crashed = FALSE

Ended == {"ok", "failed", "crashed"}
At(a, pc) == attempt[a].pc = pc
Mine(a) == Called(attempt[a].dir, a)
Target(a) == Called(attempt[a].dir, attempt[a].result)

\* Where an attempt goes on, and the rest of what it holds unchanged.
Goes(a, pc) == attempt' = [attempt EXCEPT ![a].pc = pc]
Fails(a, stuck) == attempt' = [attempt EXCEPT ![a] = [Fresh EXCEPT !.pc = "failed", !.stuck = stuck]]
Elsewhere == UNCHANGED <<path, private, outside, touched, crashed>>

----------------------------------------------------------------------------
(* Before any file *)

\* FinalizePrivate builds, encodes and decodes at the assessment.
Finalize(a) ==
    /\ At(a, "idle")
    /\ \E c \in Completion, createdAt, assessmentAt \in Times :
        /\ attempt' = [attempt EXCEPT ![a] =
             IF /\ Buildable(c, createdAt)
                /\ Marshals(Envelope(c, createdAt))
                /\ Verifies(Envelope(c, createdAt), assessmentAt)
             THEN [Fresh EXCEPT !.kind = "finalize", !.pc = "lstat", !.result = Envelope(c, createdAt)]
             ELSE [Fresh EXCEPT !.pc = "failed"]]
    /\ UNCHANGED files /\ Elsewhere

\* What an outsider may make of a result.
Edited(e) ==
    {[e EXCEPT !.claims.submitted = TRUE],
     [e EXCEPT !.createdAt = @ + 1],
     [e EXCEPT !.expiresAt = @ + 1],
     [e EXCEPT !.observedAt = IF @ > 0 THEN @ - 1 ELSE @],
     [e EXCEPT !.schema = "v3"],
     [e EXCEPT !.network.provided = @ + 1],
     [e EXCEPT !.authority = None],
     [e EXCEPT !.submit.gen = 1],
     [e EXCEPT !.methods = @ \ {"POST"}]}

Built == UNION {{Envelope(c, t) : t \in {u \in Times : Buildable(c, u)}} : c \in Completion}

\* What a caller may have written: an envelope of Build, or one that claims more.
Given == Built \cup {[b EXCEPT !.claims.submitted = TRUE] : b \in Built}

\* A temporary file's name is no result's.
ASSUME NameAssumption == Given \cap Attempt = {}

\* WritePrivateExclusive is given an envelope, of Build or not, which it
\* encodes once the root is open.
Write(a) ==
    /\ At(a, "idle")
    /\ \E e \in Given :
        attempt' = [attempt EXCEPT ![a] = [Fresh EXCEPT !.kind = "write", !.pc = "lstat", !.result = e]]
    /\ UNCHANGED files /\ Elsewhere

----------------------------------------------------------------------------
(* openPrivateRoot *)

LstatRoot(a) ==
    /\ At(a, "lstat")
    /\ IF path # None /\ path \in private
       THEN attempt' = [attempt EXCEPT ![a].pc = "open", ![a].before = path]
       ELSE Fails(a, FALSE)
    /\ UNCHANGED files /\ Elsewhere

OpenRoot(a) ==
    /\ At(a, "open")
    /\ IF path # None
       THEN attempt' = [attempt EXCEPT ![a].pc = "recheck", ![a].dir = path]
       ELSE Fails(a, FALSE)
    /\ UNCHANGED files /\ Elsewhere

\* validateOpenedPrivateRoot
RootHolds(a) == path = attempt[a].dir /\ path \in private

RecheckRoot(a) ==
    /\ At(a, "recheck")
    /\ IF /\ attempt[a].before = attempt[a].dir /\ RootHolds(a)
          /\ attempt[a].kind = "write" => Marshals(attempt[a].result)
       THEN attempt' = [attempt EXCEPT ![a].pc = "create", ![a].before = None]
       ELSE Fails(a, FALSE)
    /\ UNCHANGED files /\ Elsewhere

----------------------------------------------------------------------------
(* writeExclusive *)

CreateTemporary(a) ==
    /\ At(a, "create")
    /\ \/ /\ files' = files \cup {File(attempt[a].dir, a, attempt[a].result, FALSE, FALSE, a)}
          /\ Goes(a, "write")
       \/ Fails(a, FALSE) /\ UNCHANGED files
    /\ Elsewhere

WriteTemporary(a) ==
    /\ At(a, "write")
    /\ \/ /\ files' = (files \ Mine(a)) \cup {[f EXCEPT !.whole = TRUE] : f \in Mine(a)}
          /\ Goes(a, "sync")
       \/ Goes(a, "drop") /\ UNCHANGED files
    /\ Elsewhere

\* Slip: the temporary file is not synced before it is published.
SyncedLate(a) == Mine(a)

Synced(a) == {[f EXCEPT !.synced = TRUE] : f \in Mine(a)}

SyncTemporary(a) ==
    /\ At(a, "sync")
    /\ \/ /\ files' = (files \ Mine(a)) \cup Synced(a)
          /\ Goes(a, "link")
       \/ Goes(a, "drop") /\ UNCHANGED files
    /\ Elsewhere

\* Link never replaces a name; Close and Link may fail.
LinkResult(a) ==
    /\ At(a, "link")
    /\ \/ /\ Target(a) = {}
          /\ files' = files \cup {[f EXCEPT !.name = attempt[a].result] : f \in Mine(a)}
          /\ attempt' = [attempt EXCEPT ![a].pc = "drop", ![a].linked = TRUE]
       \/ Goes(a, "drop") /\ UNCHANGED files
    /\ Elsewhere

\* The deferred removal of the temporary file, whose error is ignored.
DropTemporary(a) ==
    /\ At(a, "drop")
    /\ \E removed \in BOOLEAN :
        /\ files' = IF removed THEN files \ Mine(a) ELSE files
        /\ IF attempt[a].kind = "write" /\ ~attempt[a].linked
           THEN Fails(a, ~removed)
           ELSE attempt' = [attempt EXCEPT
                  ![a].stuck = ~removed,
                  ![a].created = attempt[a].linked,
                  ![a].pc = CASE attempt[a].kind = "write" -> "check"
                              [] attempt[a].linked -> "read"
                              [] OTHER -> "undo"]
    /\ Elsewhere

----------------------------------------------------------------------------
(* After the write *)

\* Slip: what is removed is not asked to be the attempt's own.
UndoneUncreated(a) == Target(a)

\* What an attempt that fails removes: by name, and only what it created.
Undone(a) == IF attempt[a].created THEN Target(a) ELSE {}

\* readPrivateExact, and the comparison with the bytes and the digest.
ReadBack(a) ==
    /\ At(a, "read")
    /\ \/ /\ \E f \in Target(a) : f.whole /\ f.value = attempt[a].result
          /\ Goes(a, "check")
       \/ Goes(a, "undo")
    /\ UNCHANGED files /\ Elsewhere

CheckRoot(a) ==
    /\ At(a, "check")
    /\ IF RootHolds(a) THEN Goes(a, "ok") ELSE Goes(a, "undo")
    /\ UNCHANGED files /\ Elsewhere

UndoResult(a) ==
    /\ At(a, "undo")
    /\ \E removed \in BOOLEAN :
        /\ files' = IF removed THEN files \ Undone(a) ELSE files
        /\ Fails(a, attempt[a].stuck \/ (~removed /\ Undone(a) # {}))
    /\ Elsewhere

----------------------------------------------------------------------------
(* What else happens *)

\* The owner of the root moves it, opens it to others, edits a result or
\* removes one.
Interfere ==
    /\ outside < MaxOutside /\ outside' = outside + 1
    /\ \/ /\ path' \in (Dir \cup {None}) \ {path}
          /\ UNCHANGED <<private, files, touched>>
       \/ /\ \E d \in Dir : private' = IF d \in private THEN private \ {d} ELSE private \cup {d}
          /\ UNCHANGED <<path, files, touched>>
       \/ /\ \E f \in {g \in files : g.name \notin Attempt} :
              /\ touched' = touched \cup {<<f.dir, f.name>>}
              /\ \/ files' = files \ {f}
                 \/ \E e \in Edited(f.value) :
                     files' = (files \ {f}) \cup {[f EXCEPT !.value = e, !.by = Outsider]}
          /\ UNCHANGED <<path, private>>
    /\ UNCHANGED <<attempt, crashed>>

\* A crash ends every attempt under way; what was not synced may be partial,
\* and a name that was not yet on disk may be gone.
Crash ==
    /\ ~crashed /\ crashed' = TRUE
    /\ \E kept \in SUBSET files :
        files' = {[f EXCEPT !.whole = f.whole /\ f.synced] : f \in kept}
    /\ attempt' = [a \in Attempt |-> IF attempt[a].pc \in Ended \cup {"idle"} THEN attempt[a]
                                     ELSE [Fresh EXCEPT !.pc = "crashed"]]
    /\ UNCHANGED <<path, private, outside, touched>>

Step(a) ==
    \/ Finalize(a) \/ Write(a) \/ LstatRoot(a) \/ OpenRoot(a) \/ RecheckRoot(a)
    \/ CreateTemporary(a) \/ WriteTemporary(a) \/ SyncTemporary(a) \/ LinkResult(a)
    \/ DropTemporary(a) \/ ReadBack(a) \/ CheckRoot(a) \/ UndoResult(a)

PrivateNext == (\E a \in Attempt : Step(a)) \/ Interfere \/ Crash
PrivateSpec == PrivateInit /\ [][PrivateNext]_privateVars

----------------------------------------------------------------------------
(* What must hold *)

\* Every variable has its type, and a directory has one file of a name.
PrivateTypeOK ==
    /\ path \in Dir \cup {None} /\ private \subseteq Dir
    /\ outside \in 0 .. MaxOutside /\ crashed \in BOOLEAN
    /\ \A f \in files : f.dir \in Dir /\ f.by \in Attempt \cup {Outsider}
    /\ \A f, g \in files : f.dir = g.dir /\ f.name = g.name => f = g
    /\ \A a \in Attempt : attempt[a].created => attempt[a].linked

\* A name holds the whole result it is the digest of, on disk, at every moment
\* an outsider has left it alone: no attempt publishes a file before it is
\* written and synced, so no crash leaves a partial one, and none replaces
\* another's.
NamesHoldWhole ==
    /\ PrivateTypeOK
    /\ \A f \in files : f.name \notin Attempt /\ <<f.dir, f.name>> \notin touched =>
           f.whole /\ f.synced /\ f.value = f.name

\* No attempt undoes another: a result that was returned stays until an
\* outsider or a crash takes it; and an attempt that failed leaves neither a
\* temporary file nor a result of its own, unless its removal failed.
EachOwnsItsResult ==
    \A a \in Attempt :
        /\ At(a, "ok") /\ ~crashed /\ <<attempt[a].dir, attempt[a].result>> \notin touched =>
            \E f \in Target(a) : f.by = a
        /\ At(a, "failed") /\ ~attempt[a].stuck => \A f \in files : f.by # a

\* Whatever is in a result's file, by an attempt or by an outsider, what
\* verifies is inert and fresh: it claims nothing was done, its provider
\* traffic has the reviewed authority, and its submit is a candidate that was
\* reviewed, and in v3 and v4 seen.
VerifiedIsInert ==
    \A f \in files, t \in Times :
        f.name \notin Attempt /\ f.whole /\ Verifies(f.value, t) =>
            LET e == f.value IN
            /\ e.observedAt <= e.createdAt /\ e.createdAt <= t
            /\ t < e.profile.verifiedAt + e.profile.lifetime
            /\ e.claims = Inert
            /\ e.network.provided > 0 => /\ e.authority # None /\ e.authority = e.profile.authority
                                         /\ "POST" \in e.methods
            /\ e.submit \in e.selected
            /\ e.schema \in {"v3", "v4"} => e.submit.name \in e.history[e.submit.gen].shows
=============================================================================
