---------------------------- MODULE WorkerProofs ----------------------------
(***************************************************************************)
(* Theorems about the two ends of a worker's run: the host that launches   *)
(* and joins it (WorkerHost), for any calls on the channel and any         *)
(* origins, and the private file its result is kept in (PrivateResult),    *)
(* for any attempts, completions, directories and interference.            *)
(*                                                                         *)
(* The two share nothing.  Of the host: the exchange is bound to what the  *)
(* caller asked for, what RunManaged returns is true, and no call succeeds *)
(* once the channel is shut.  Of the file: a name holds a whole result,    *)
(* attempts do not undo one another, and what verifies is inert.           *)
(***************************************************************************)
EXTENDS WorkerHost, PrivateResult, FiniteSetTheorems, TLAPS

-----------------------------------------------------------------------------
(* The host *)

Slices == {"caller", "own", "host"}
Running == {"launch", "exchange", "seal", "close", "join"}

\* TypeOK with the count of closes tied to the goroutine that makes them.
TypeInv == TypeOK /\ closes = (IF closer = "none" THEN 0 ELSE 1)

\* Nobody but RunManaged holds its slice, which is what the caller asked for.
OwnedAlone ==
    stage \in {"launch", "exchange"} =>
        owned = Copies /\ admitted \in Origins /\ slice["own"] = admitted

\* Where RunManaged is, and what it has secured by then.
Progress ==
    /\ stage = "entry" => result = {} /\ custody = "none"
    /\ stage \in {"entry", "launch"} => launch = Unset
    /\ stage \in {"exchange", "seal", "close", "join"} => launch # Unset
    /\ stage \in Running => custody = "held"
    /\ stage \in {"launch", "exchange"} => result = {}
    /\ launch # Unset /\ "ErrLaunch" \notin result => launch.channel
    /\ launch # Unset /\ stage \in {"close", "join", "done"} => runtime = "over"
    /\ launch = Unset => stage \in {"entry", "launch", "done"}
    /\ stage = "done" /\ launch = Unset => "ErrLaunch" \in result

\* A lent channel is shut and its close begun before RunManaged joins; after
\* that the close is over unless it is called unproved.
CloseInv ==
    /\ launch = Unset \/ ~launch.channel => closer = "none"
    /\ launch # Unset /\ launch.channel /\ stage \in {"close", "join", "done"} => closed /\ closer # "none"
    /\ stage \in {"join", "done"} => unproved \/ closer # "running"
    /\ stage \in {"join", "done"} /\ launch # Unset /\ launch.channel /\ "ErrTransport" \notin result =>
        closer = "done"

JoinInv ==
    stage = "done" /\ launch # Unset =>
        "ErrUnjoined" \in result \/ (custody = "joined" /\ ~unproved)

ManagedInv ==
    /\ TypeInv /\ OwnedAlone /\ Progress /\ CloseInv /\ JoinInv
    /\ stage = "exchange" => launch.origins = admitted

LEMMA InitManaged == Init => ManagedInv
<1> SUFFICES ASSUME Init PROVE ManagedInv OBVIOUS
<1>1. /\ stage = "entry" /\ result = {} /\ launch = Unset /\ closer = "none" /\ closes = 0 /\ custody = "none"
      /\ owned = [manager |-> "caller", host |-> "caller"] /\ slice \in [{"caller", "own", "host"} -> Origins]
      /\ call \in [Call -> {"idle", "inside", "answered", "ok", "error"}]
  BY DEF Init
<1>2. /\ stage \in Stages /\ result \subseteq Errors /\ admitted = Unset
      /\ runtime \in {"live", "over"} /\ teardown = "none" /\ closed = FALSE /\ unproved = FALSE
  BY DEF Init, Stages
<1>3. owned \in [manager: {"caller", "own"}, host: {"caller", "host", "own"}] BY <1>1
<1>4. closes \in 0 .. 1 BY <1>1
<1>5. TypeInv BY <1>1, <1>2, <1>3, <1>4 DEF TypeInv, TypeOK
<1> QED BY <1>1, <1>5 DEF ManagedInv, OwnedAlone, Progress, CloseInv, JoinInv, Running

\* RunManaged up to the exchange.
LEMMA EntryKeeps ==
    ASSUME ManagedInv, Refuse \/ Enter \/ Mutate
    PROVE  ManagedInv'
<1> USE DEF ManagedInv
<1>1. CASE Refuse
  BY <1>1 DEF Refuse, TypeInv, TypeOK, OwnedAlone, Progress, CloseInv, JoinInv, Stages, Errors, Running,
              sliceVars, channelVars
<1>2. CASE Enter
  <2>1. TypeInv' BY <1>2 DEF Enter, TypeInv, TypeOK, Stages, Copies, channelVars
  <2> QED BY <1>2, <2>1 DEF Enter, TypeInv, TypeOK, OwnedAlone, Progress, CloseInv, JoinInv, Running, channelVars
<1>3. CASE Mutate
  <2>1. PICK s \in {"caller", owned.host}, o \in Origins : slice' = [slice EXCEPT ![s] = o] BY <1>3 DEF Mutate
  <2>2. owned.host = "host" /\ s \in {"caller", "host"} BY <1>3, <2>1 DEF Mutate, OwnedAlone, Copies
  <2>3. slice' \in [Slices -> Origins] /\ slice'["own"] = slice["own"]
    BY <2>1, <2>2 DEF TypeInv, TypeOK, Slices
  <2> QED BY <1>3, <2>3 DEF Mutate, TypeInv, TypeOK, OwnedAlone, Progress, CloseInv, JoinInv, Slices, channelVars
<1> QED BY <1>1, <1>2, <1>3

LEMMA ExchangeKeeps ==
    ASSUME ManagedInv, LaunchReturns \/ ExchangeReturns
    PROVE  ManagedInv'
<1> USE DEF ManagedInv
<1>1. CASE LaunchReturns
  <2>1. PICK l \in Launched :
           /\ launch' = l
           /\ IF Exchanges(l) THEN stage' = "exchange" /\ UNCHANGED result
              ELSE stage' = "seal" /\ result' = {"ErrLaunch"}
    BY <1>1 DEF LaunchReturns
  <2>2. l # Unset BY WorkerHostAssumption
  <2> QED BY <1>1, <2>1, <2>2
         DEF LaunchReturns, Exchanges, ValidLaunch, Copies, TypeInv, TypeOK, OwnedAlone, Progress, CloseInv,
             JoinInv, Stages, Errors, Running, sliceVars, channelVars
<1>2. CASE ExchangeReturns
  BY <1>2 DEF ExchangeReturns, TypeInv, TypeOK, OwnedAlone, Progress, CloseInv, JoinInv, Stages, Errors, Running,
              sliceVars, channelVars
<1> QED BY <1>1, <1>2

LEMMA SealKeeps == ASSUME ManagedInv, Seal PROVE ManagedInv'
<1> USE DEF ManagedInv
<1>1. /\ stage' \in Stages /\ runtime' = "over" /\ teardown' = "live"
      /\ UNCHANGED <<result, sliceVars, launch, unproved, call, custody>>
  BY DEF Seal, Stages
<1>2. ASSUME launch.channel PROVE TypeInv'
  <2>1. closed' = TRUE /\ closer' # "none" /\ closer' \in {"none", "running", "done", "failed"}
    BY <1>2 DEF Seal, TypeInv, TypeOK
  <2>2. closes' = 1 BY <1>2 DEF Seal, TypeInv
  <2>3. closes' \in 0 .. 1 BY <2>2
  <2>4. closed' \in BOOLEAN BY <2>1
  <2>5. TypeOK' BY <1>1, <2>1, <2>3, <2>4 DEF TypeInv, TypeOK, sliceVars
  <2> QED BY <2>1, <2>2, <2>5 DEF TypeInv
<1>3. ASSUME ~launch.channel PROVE TypeInv'
  <2>1. UNCHANGED channelVars BY <1>3 DEF Seal
  <2>2. TypeOK' BY <1>1, <2>1 DEF TypeInv, TypeOK, sliceVars, channelVars
  <2> QED BY <2>1, <2>2 DEF TypeInv, channelVars
<1>4. TypeInv' BY <1>2, <1>3
<1> QED BY <1>4 DEF Seal, TypeInv, TypeOK, OwnedAlone, Progress, CloseInv, JoinInv, Running, sliceVars, channelVars

LEMMA CloseReturnsKeeps == ASSUME ManagedInv, CloseReturns PROVE ManagedInv'
<1> USE DEF ManagedInv
<1>1. PICK outcome \in CloseOutcomes(teardown) :
        /\ result' = result \cup (IF outcome = "error" THEN {"ErrTransport"} ELSE {})
        /\ unproved' = (outcome = "error" /\ teardown = "over")
  BY DEF CloseReturns
<1>2. \/ outcome = "closed" /\ closer = "done"
      \/ outcome = "error" /\ (closer = "failed" \/ teardown = "over")
  BY <1>1 DEF CloseOutcomes
<1>3. TypeInv' BY <1>1, <1>2 DEF CloseReturns, TypeInv, TypeOK, Stages, Errors, sliceVars, channelVars
<1> QED BY <1>1, <1>2, <1>3
       DEF CloseReturns, OwnedAlone, Progress, CloseInv, JoinInv, Running, sliceVars, channelVars

LEMMA JoinKeeps == ASSUME ManagedInv, JoinReturns PROVE ManagedInv'
<1> USE DEF ManagedInv
<1>1. PICK answer \in Joins :
        /\ result' = result \cup (IF Unjoined(answer) THEN {"ErrUnjoined"} ELSE {})
        /\ custody' = IF answer = "joined" THEN "joined" ELSE custody
  BY DEF JoinReturns
<1>2. TypeInv' BY <1>1 DEF JoinReturns, TypeInv, TypeOK, Stages, Errors, sliceVars, channelVars
<1> QED BY <1>1, <1>2
       DEF JoinReturns, Unjoined, OwnedAlone, Progress, CloseInv, JoinInv, Running, sliceVars, channelVars

\* The calls on the channel change nothing of RunManaged but that they may
\* begin the close.
LEMMA CallsKeep ==
    ASSUME ManagedInv, NEW c \in Call, CallBegins(c) \/ ChannelReturns(c) \/ CallEnds(c) \/ CloseCallEnds(c)
    PROVE  ManagedInv'
<1> USE DEF ManagedInv
<1>1. CASE CallBegins(c)
  <2>1. launch # Unset /\ launch.channel /\ stage # "launch" BY <1>1 DEF CallBegins, Lent
  <2>2. UNCHANGED <<stage, result, sliceVars, launch, runtime, teardown, unproved, custody>>
    BY <1>1 DEF CallBegins
  <2>3. call' \in [Call -> {"idle", "inside", "answered", "ok", "error"}]
    BY <1>1 DEF CallBegins, TypeInv, TypeOK
  <2>4. ASSUME Kind[c] = "close" PROVE TypeInv'
    <3>1. closed' = TRUE /\ closer' # "none" /\ closer' \in {"none", "running", "done", "failed"}
      BY <1>1, <2>4 DEF CallBegins, TypeInv, TypeOK
    <3>2. closes' = 1 BY <1>1, <2>4 DEF CallBegins, TypeInv
    <3>3. closes' \in 0 .. 1 BY <3>2
    <3>4. TypeOK' BY <2>2, <2>3, <3>1, <3>3 DEF TypeInv, TypeOK, sliceVars
    <3> QED BY <3>1, <3>2, <3>4 DEF TypeInv
  <2>5. ASSUME Kind[c] # "close" PROVE TypeInv'
    <3>1. UNCHANGED channelVars BY <1>1, <2>5 DEF CallBegins
    <3>2. TypeOK' BY <2>2, <2>3, <3>1 DEF TypeInv, TypeOK, sliceVars, channelVars
    <3> QED BY <3>1, <3>2 DEF TypeInv, channelVars
  <2>6. TypeInv' BY <2>4, <2>5
  <2> QED BY <1>1, <2>1, <2>6
         DEF CallBegins, TypeInv, TypeOK, OwnedAlone, Progress, CloseInv, JoinInv, Running, sliceVars, channelVars
<1>2. CASE ChannelReturns(c) \/ CallEnds(c) \/ CloseCallEnds(c)
  <2>1. call' \in [Call -> {"idle", "inside", "answered", "ok", "error"}]
    BY <1>2 DEF ChannelReturns, CallEnds, CloseCallEnds, TypeInv, TypeOK
  <2>2. UNCHANGED <<stage, result, sliceVars, launch, runtime, teardown, channelVars, unproved, custody>>
    BY <1>2 DEF ChannelReturns, CallEnds, CloseCallEnds
  <2> QED BY <2>1, <2>2
         DEF TypeInv, TypeOK, OwnedAlone, Progress, CloseInv, JoinInv, Running, sliceVars, channelVars
<1> QED BY <1>1, <1>2

LEMMA BesideKeeps == ASSUME ManagedInv, ChannelClosed \/ Expire \/ TeardownExpires PROVE ManagedInv'
<1> USE DEF ManagedInv
<1> QED BY DEF ChannelClosed, Expire, TeardownExpires, TypeInv, TypeOK, OwnedAlone, Progress, CloseInv,
               JoinInv, Running, sliceVars, channelVars

LEMMA NextKeeps == ASSUME ManagedInv, [Next]_vars PROVE ManagedInv'
<1>1. CASE Refuse \/ Enter \/ Mutate BY <1>1, EntryKeeps
<1>2. CASE LaunchReturns \/ ExchangeReturns BY <1>2, ExchangeKeeps
<1>3. CASE Seal BY <1>3, SealKeeps
<1>4. CASE CloseReturns BY <1>4, CloseReturnsKeeps
<1>5. CASE JoinReturns BY <1>5, JoinKeeps
<1>6. CASE \E c \in Call : CallBegins(c) \/ ChannelReturns(c) \/ CallEnds(c) \/ CloseCallEnds(c)
  BY <1>6, CallsKeep
<1>7. CASE ChannelClosed \/ Expire \/ TeardownExpires BY <1>7, BesideKeeps
<1>8. CASE UNCHANGED vars
  BY <1>8 DEF vars, ManagedInv, TypeInv, TypeOK, OwnedAlone, Progress, CloseInv, JoinInv, Running,
              sliceVars, channelVars
<1> QED BY <1>1, <1>2, <1>3, <1>4, <1>5, <1>6, <1>7, <1>8 DEF Next, RunManaged, Beside

-----------------------------------------------------------------------------
(* Theorems of the host.                                                   *)

\* A channel is lent for the origins the caller asked for, whoever writes to
\* the slices meanwhile.
THEOREM BoundExchange == Spec => []ExchangeIsBound
<1>1. ManagedInv => ExchangeIsBound BY DEF ManagedInv, TypeInv, ExchangeIsBound
<1> QED BY <1>1, InitManaged, NextKeeps, PTL DEF Spec

\* Without ErrUnjoined everything is joined; without an error everything is
\* closed and over as well.
THEOREM TrueReturn == Spec => []ReturnTellsTruth
<1>1. ManagedInv => ReturnTellsTruth
  BY DEF ManagedInv, Progress, CloseInv, JoinInv, ReturnTellsTruth
<1> QED BY <1>1, InitManaged, NextKeeps, PTL DEF Spec

\* A call that is under way when the channel is shut, or that begins later,
\* does not succeed.
THEOREM NoLateSuccess == Spec => NoSuccessAfterClose
<1> DEFINE Late == \A c \in Call : (closed \/ runtime = "over") /\ Kind[c] # "close" /\ call'[c] = "ok"
                                    => call[c] = "ok"
<1>1. ASSUME TypeOK, [Next]_vars PROVE [Late]_vars
  <2> SUFFICES ASSUME Next, NEW c \in Call, closed \/ runtime = "over", Kind[c] # "close", call'[c] = "ok"
               PROVE  call[c] = "ok"
    BY <1>1
  <2>1. CASE \E d \in Call : CallBegins(d) \/ ChannelReturns(d) \/ CallEnds(d) \/ CloseCallEnds(d)
    <3>1. PICK d \in Call : CallBegins(d) \/ ChannelReturns(d) \/ CallEnds(d) \/ CloseCallEnds(d) BY <2>1
    <3>2. d # c => call'[c] = call[c]
      BY <1>1, <3>1 DEF TypeOK, CallBegins, ChannelReturns, CallEnds, CloseCallEnds
    <3>3. CASE d = c
      <4>1. call'[c] # "ok"
        BY <1>1, <3>1, <3>3 DEF TypeOK, CallBegins, ChannelReturns, CallEnds, CloseCallEnds, Believed
      <4> QED BY <4>1
    <3> QED BY <3>2, <3>3
  <2>2. CASE RunManaged \/ ChannelClosed \/ Expire \/ TeardownExpires \/ Mutate
    BY <2>2 DEF RunManaged, Refuse, Enter, LaunchReturns, ExchangeReturns, Seal, CloseReturns, JoinReturns,
                ChannelClosed, Expire, TeardownExpires, Mutate
  <2> QED BY <2>1, <2>2 DEF Next, Beside
<1>2. ManagedInv => TypeOK BY DEF ManagedInv, TypeInv
<1> QED BY <1>1, <1>2, InitManaged, NextKeeps, PTL DEF Spec, NoSuccessAfterClose

-----------------------------------------------------------------------------
(* The private result.                                                     *)
(*                                                                         *)
(* What is said of a name that nobody touched is inductive only with what  *)
(* each attempt knows (StateOK), where its files are (Trace), how far its  *)
(* temporary file is (Draft) and that what it linked is its own (Owns).    *)
(* A step of one attempt keeps the other attempts' parts when it takes     *)
(* nothing that is theirs (Confined, OthersKept).                          *)

\* Once the root is open; while the temporary file is written; once it is gone.
Opened == {"recheck", "create", "write", "sync", "link", "drop", "read", "check", "undo", "ok"}
Writing == {"write", "sync", "link"}
Kept == {"read", "check", "undo", "ok"}
Steps == {"idle", "lstat", "open"} \cup Opened \cup {"failed", "crashed"}

State == [pc : Steps, kind : {None, "finalize", "write"}, result : Given \cup {None},
          before : Dir \cup {None}, dir : Dir \cup {None},
          linked : BOOLEAN, created : BOOLEAN, stuck : BOOLEAN]

\* Who is past the first look at the root has a result to write; who has opened
\* it has a directory; a result is linked in the last step of writing, and
\* created, as its attempt knows, after that.
StateOK(s) ==
    /\ s.pc \in {"lstat", "open"} \cup Opened => s.result \in Given
    /\ s.pc \in Opened => s.dir \in Dir
    /\ s.linked => s.pc \in {"drop"} \cup Kept
    /\ s.created <=> s.linked /\ s.pc \in Kept
    /\ s.pc \in {"read", "check", "ok"} => s.created
    /\ s.pc \in {"idle", "lstat", "open", "recheck", "create"} \cup Writing => ~s.stuck

\* A file is a record whose value says what it is a result of.
FileOK(f) ==
    /\ DOMAIN f = {"dir", "name", "value", "whole", "synced", "by"}
    /\ f.dir \in Dir /\ f.by \in Attempt \cup {Outsider} /\ f.whole \in BOOLEAN /\ f.synced \in BOOLEAN
    /\ "profile" \in DOMAIN f.value
    /\ f.value.profile.verifiedAt \in Nat /\ f.value.profile.lifetime \in Nat

OneOfAName == \A f, g \in files : f.dir = g.dir /\ f.name = g.name => f = g

\* PrivateTypeOK, with the states of the attempts and what the files hold.
Types ==
    /\ path \in Dir \cup {None} /\ private \subseteq Dir
    /\ outside \in 0 .. MaxOutside /\ crashed \in BOOLEAN
    /\ attempt \in [Attempt -> State] /\ \A a \in Attempt : StateOK(attempt[a])
    /\ \A f \in files : FileOK(f)
    /\ OneOfAName

\* What is left of an attempt in the directories is where the attempt looks
\* for it, or the attempt has told that it could not remove it.
Trace(a) ==
    \A f \in files : f.by = a =>
        /\ attempt[a].pc \in Writing \cup {"drop"} \cup Kept \cup {"failed", "crashed"}
        /\ attempt[a].pc \in Writing => f \in Mine(a)
        /\ attempt[a].pc = "drop" => f \in Mine(a) \/ (attempt[a].linked /\ f \in Target(a))
        /\ attempt[a].pc \in {"read", "check", "undo"} =>
               attempt[a].stuck \/ (attempt[a].created /\ f \in Target(a))
        /\ attempt[a].pc = "failed" => attempt[a].stuck

\* What an attempt writes is its result, whole before it is synced, synced
\* before it is linked.
Draft(a) ==
    attempt[a].pc \in Writing =>
        /\ Mine(a) # {}
        /\ \A f \in Mine(a) :
            /\ f.value = attempt[a].result
            /\ attempt[a].pc \in {"sync", "link"} => f.whole
            /\ attempt[a].pc = "link" => f.synced

\* What an attempt has linked is there, as its own.
Owns(a) ==
    attempt[a].linked /\ ~crashed /\ <<attempt[a].dir, attempt[a].result>> \notin touched =>
        \E f \in Target(a) : f.by = a

\* NamesHoldWhole, but for the types.
Whole ==
    \A f \in files : f.name \notin Attempt /\ <<f.dir, f.name>> \notin touched =>
        f.whole /\ f.synced /\ f.value = f.name

\* A temporary file is of the attempt it is named after.
Temporary == \A f \in files : f.name \in Attempt => f.by = f.name

PrivateInv ==
    /\ Types /\ Temporary /\ Whole
    /\ \A a \in Attempt : Trace(a) /\ Draft(a) /\ Owns(a)

LEMMA InitPrivate == PrivateInit => PrivateInv
<1> SUFFICES ASSUME PrivateInit PROVE PrivateInv OBVIOUS
<1>1. Fresh \in State /\ StateOK(Fresh)
  BY DEF Fresh, State, Steps, Opened, StateOK, Writing, Kept
<1>2. attempt \in [Attempt -> State] /\ \A a \in Attempt : attempt[a] = Fresh BY <1>1 DEF PrivateInit
<1>3. outside \in 0 .. MaxOutside BY PrivateAssumption DEF PrivateInit
<1>4. Types BY <1>1, <1>2, <1>3 DEF PrivateInit, Types, OneOfAName
<1> QED BY <1>2, <1>4
       DEF PrivateInit, PrivateInv, Temporary, Whole, Trace, Draft, Owns, Mine, Target, Called, Fresh, Writing

-----------------------------------------------------------------------------
(* One attempt's steps and the others.                                     *)

\* A step of a takes nothing that is another's, and makes nothing in its place.
Confined(a) ==
    /\ \A f \in files' \ files : f.by \in {a, Outsider} /\ f.name \notin Attempt \ {a}
    /\ \A f \in files \ files' :
        /\ f.name \notin Attempt \ {a}
        /\ f.by = a \/ crashed \/ <<f.dir, f.name>> \in touched

LEMMA OthersKept ==
    ASSUME PrivateInv, NEW a \in Attempt, NEW s \in State, StateOK(s),
           attempt' = [attempt EXCEPT ![a] = s], Elsewhere, Confined(a),
           \A f \in files' : FileOK(f), OneOfAName', Temporary', Whole',
           Trace(a)', Draft(a)', Owns(a)'
    PROVE  PrivateInv'
<1>1. \A b \in Attempt : attempt'[b] = IF b = a THEN s ELSE attempt[b] BY DEF PrivateInv, Types
<1>2. Types' BY <1>1 DEF PrivateInv, Types, Elsewhere
<1>3. ASSUME NEW b \in Attempt \ {a} PROVE Trace(b)' /\ Draft(b)' /\ Owns(b)'
  <2>1. attempt'[b] = attempt[b] BY <1>1, <1>3
  <2>2. Mine(b)' = Mine(b) BY <2>1 DEF Mine, Called, Confined
  <2>3. \A f \in files' : f.by = b => f \in files BY <1>3, PrivateAssumption DEF Confined
  <2>4. Trace(b)'
    BY <2>1, <2>2, <2>3 DEF PrivateInv, Trace, Target, Called
  <2>5. Draft(b)' BY <2>1, <2>2 DEF PrivateInv, Draft
  <2>6. Owns(b)'
    <3> SUFFICES ASSUME attempt[b].linked, ~crashed, <<attempt[b].dir, attempt[b].result>> \notin touched
                 PROVE  \E f \in Target(b)' : f.by = b
      BY <2>1 DEF Owns, Elsewhere
    <3>1. PICK f \in Target(b) : f.by = b BY DEF PrivateInv, Owns
    <3>2. f \in files' BY <1>3, <3>1 DEF Confined, Target, Called
    <3> QED BY <2>1, <3>1, <3>2 DEF Target, Called
  <2> QED BY <2>4, <2>5, <2>6
<1> QED BY <1>2, <1>3 DEF PrivateInv

\* A step that leaves the files alone.
LEMMA QuietKeeps ==
    ASSUME PrivateInv, NEW a \in Attempt, NEW s \in State, StateOK(s),
           attempt' = [attempt EXCEPT ![a] = s], UNCHANGED files, Elsewhere,
           Trace(a)', Draft(a)', Owns(a)'
    PROVE  PrivateInv'
<1>1. Confined(a) BY DEF Confined
<1>2. /\ \A f \in files' : FileOK(f)
      /\ OneOfAName' /\ Temporary' /\ Whole'
  BY DEF PrivateInv, Types, OneOfAName, Temporary, Whole, Elsewhere
<1> QED BY <1>1, <1>2, OthersKept

\* What is said of each file is said of those that stay.
LEMMA FewerFiles ==
    ASSUME PrivateInv, files' \subseteq files, UNCHANGED touched
    PROVE  (\A f \in files' : FileOK(f)) /\ OneOfAName' /\ Temporary' /\ Whole'
BY DEF PrivateInv, Types, OneOfAName, Temporary, Whole

\* An attempt that gives up leaves nothing, or is told to be stuck.
LEMMA FailsKeeps ==
    ASSUME PrivateInv, NEW a \in Attempt, NEW stuck \in BOOLEAN, Fails(a, stuck), Elsewhere,
           files' \subseteq files, Confined(a), stuck \/ \A f \in files' : f.by # a
    PROVE  PrivateInv'
<1> DEFINE s == [Fresh EXCEPT !.pc = "failed", !.stuck = stuck]
<1>1. s = [Fresh EXCEPT !.pc = "failed", !.stuck = stuck] OBVIOUS
<1>2. s \in State /\ StateOK(s) /\ s.pc = "failed" /\ s.stuck = stuck /\ ~s.linked
  BY DEF Fresh, State, Steps, Opened, StateOK, Writing, Kept
<1>3. attempt' = [attempt EXCEPT ![a] = s] BY DEF Fails
<1> HIDE DEF s
<1>4. attempt'[a] = s BY <1>3 DEF PrivateInv, Types
<1>5. Trace(a)' /\ Draft(a)' /\ Owns(a)' BY <1>2, <1>4 DEF Trace, Draft, Owns, Writing, Kept
<1> QED BY <1>2, <1>3, <1>5, FewerFiles, OthersKept DEF Elsewhere

-----------------------------------------------------------------------------
(* The steps *)

\* Whatever an attempt knows before it has written is nothing to the files.
LEMMA EarlyKeeps ==
    ASSUME PrivateInv, NEW a \in Attempt, NEW s \in State, StateOK(s),
           attempt[a].pc \in {"idle", "lstat", "open", "recheck"},
           s.pc \in {"lstat", "open", "recheck", "create", "failed"},
           attempt' = [attempt EXCEPT ![a] = s], UNCHANGED files, Elsewhere
    PROVE  PrivateInv'
<1>1. attempt'[a] = s BY DEF PrivateInv, Types
<1>2. \A f \in files : f.by # a BY DEF PrivateInv, Trace, Writing, Kept
<1>3. ~s.linked BY DEF StateOK, Kept
<1>4. Trace(a)' /\ Draft(a)' /\ Owns(a)' BY <1>1, <1>2, <1>3 DEF Trace, Draft, Owns, Writing
<1> QED BY <1>4, QuietKeeps

LEMMA AttemptType ==
    ASSUME PrivateInv, NEW a \in Attempt
    PROVE  attempt[a] \in State /\ StateOK(attempt[a])
BY DEF PrivateInv, Types

LEMMA FailedEarly ==
    ASSUME PrivateInv, NEW a \in Attempt, attempt[a].pc \in {"idle", "lstat", "open", "recheck", "create"},
           Fails(a, FALSE), UNCHANGED files, Elsewhere
    PROVE  PrivateInv'
<1>1. \A f \in files : f.by # a BY DEF PrivateInv, Trace, Writing, Kept
<1>2. Confined(a) BY DEF Confined
<1> QED BY <1>1, <1>2, FailsKeeps

LEMMA BuiltIsGiven ==
    ASSUME NEW c \in Completion, NEW t \in Times, Buildable(c, t) PROVE Envelope(c, t) \in Given
BY DEF Given, Built

\* What may be written has a profile of a completion's.
LEMMA GivenProfile ==
    ASSUME NEW e \in Given
    PROVE  "profile" \in DOMAIN e /\ e.profile.verifiedAt \in Nat /\ e.profile.lifetime \in Nat
<1>1. PICK b \in Built : e = b \/ e = [b EXCEPT !.claims.submitted = TRUE] BY DEF Given
<1>2. PICK c \in Completion, t \in Times : b = Envelope(c, t) BY <1>1 DEF Built
<1>3. "profile" \in DOMAIN b /\ b.profile = c.profile BY <1>2 DEF Envelope
<1>4. "profile" \in DOMAIN e /\ e.profile = c.profile BY <1>1, <1>3
<1> QED BY <1>4, PrivateAssumption

LEMMA BeginsKeep ==
    ASSUME PrivateInv, NEW a \in Attempt, Finalize(a) \/ Write(a) PROVE PrivateInv'
<1>1. ASSUME NEW e \in Given, NEW kind \in {"finalize", "write"},
             attempt' = [attempt EXCEPT ![a] = [Fresh EXCEPT !.kind = kind, !.pc = "lstat", !.result = e]],
             At(a, "idle"), UNCHANGED files, Elsewhere
      PROVE  PrivateInv'
  <2> DEFINE s == [Fresh EXCEPT !.kind = kind, !.pc = "lstat", !.result = e]
  <2>1. s \in State /\ StateOK(s) /\ s.pc = "lstat"
    BY DEF Fresh, State, Steps, Opened, StateOK, Writing, Kept
  <2>2. attempt' = [attempt EXCEPT ![a] = s] BY <1>1
  <2> HIDE DEF s
  <2> QED BY <1>1, <2>1, <2>2, EarlyKeeps DEF At
<1>2. CASE Finalize(a)
  <2>1. PICK c \in Completion, createdAt, assessmentAt \in Times :
          attempt' = [attempt EXCEPT ![a] =
             IF /\ Buildable(c, createdAt)
                /\ Marshals(Envelope(c, createdAt))
                /\ Verifies(Envelope(c, createdAt), assessmentAt)
             THEN [Fresh EXCEPT !.kind = "finalize", !.pc = "lstat", !.result = Envelope(c, createdAt)]
             ELSE [Fresh EXCEPT !.pc = "failed"]]
    BY <1>2 DEF Finalize
  <2>2. CASE attempt' = [attempt EXCEPT ![a] = [Fresh EXCEPT !.pc = "failed"]]
    <3> DEFINE s == [Fresh EXCEPT !.pc = "failed"]
    <3>1. s \in State /\ StateOK(s) /\ s.pc = "failed"
      BY DEF Fresh, State, Steps, Opened, StateOK, Writing, Kept
    <3>2. attempt' = [attempt EXCEPT ![a] = s] BY <2>2
    <3> HIDE DEF s
    <3> QED BY <1>2, <3>1, <3>2, EarlyKeeps DEF Finalize, At
  <2>3. CASE ~(attempt' = [attempt EXCEPT ![a] = [Fresh EXCEPT !.pc = "failed"]])
    <3>1. /\ Buildable(c, createdAt)
          /\ attempt' = [attempt EXCEPT ![a] =
                [Fresh EXCEPT !.kind = "finalize", !.pc = "lstat", !.result = Envelope(c, createdAt)]]
      BY <2>1, <2>3
    <3>2. Envelope(c, createdAt) \in Given BY <3>1, BuiltIsGiven
    <3> DEFINE e == Envelope(c, createdAt)
    <3>3. e \in Given /\ attempt' = [attempt EXCEPT ![a] =
                [Fresh EXCEPT !.kind = "finalize", !.pc = "lstat", !.result = e]] BY <3>1, <3>2
    <3> HIDE DEF e
    <3> QED BY <1>1, <1>2, <3>3 DEF Finalize
  <2> QED BY <2>2, <2>3
<1>3. CASE Write(a) BY <1>1, <1>3 DEF Write
<1> QED BY <1>2, <1>3

LEMMA OpensKeep ==
    ASSUME PrivateInv, NEW a \in Attempt, LstatRoot(a) \/ OpenRoot(a) \/ RecheckRoot(a) PROVE PrivateInv'
<1>1. attempt[a] \in State /\ StateOK(attempt[a]) BY AttemptType
<1>2. path \in Dir \cup {None} BY DEF PrivateInv, Types
<1>3. CASE Fails(a, FALSE) BY <1>3, FailedEarly DEF LstatRoot, OpenRoot, RecheckRoot, At
<1>4. CASE LstatRoot(a) /\ ~Fails(a, FALSE)
  <2> DEFINE s == [attempt[a] EXCEPT !.pc = "open", !.before = path]
  <2>1. attempt' = [attempt EXCEPT ![a] = s] BY <1>4 DEF LstatRoot, PrivateInv, Types
  <2>2. attempt[a].pc = "lstat" BY <1>4 DEF LstatRoot, At
  <2>3. s \in State /\ StateOK(s) /\ s.pc = "open"
    BY <1>1, <1>2, <2>2 DEF State, Steps, Opened, StateOK, Writing, Kept
  <2> HIDE DEF s
  <2> QED BY <1>4, <2>1, <2>2, <2>3, EarlyKeeps DEF LstatRoot
<1>5. CASE OpenRoot(a) /\ ~Fails(a, FALSE)
  <2> DEFINE s == [attempt[a] EXCEPT !.pc = "recheck", !.dir = path]
  <2>1. attempt' = [attempt EXCEPT ![a] = s] /\ path # None BY <1>5 DEF OpenRoot, PrivateInv, Types
  <2>2. attempt[a].pc = "open" BY <1>5 DEF OpenRoot, At
  <2>3. s \in State /\ StateOK(s) /\ s.pc = "recheck"
    BY <1>1, <1>2, <2>1, <2>2 DEF State, Steps, Opened, StateOK, Writing, Kept
  <2> HIDE DEF s
  <2> QED BY <1>5, <2>1, <2>2, <2>3, EarlyKeeps DEF OpenRoot
<1>6. CASE RecheckRoot(a) /\ ~Fails(a, FALSE)
  <2> DEFINE s == [attempt[a] EXCEPT !.pc = "create", !.before = None]
  <2>1. attempt' = [attempt EXCEPT ![a] = s] BY <1>6 DEF RecheckRoot, PrivateInv, Types
  <2>2. attempt[a].pc = "recheck" BY <1>6 DEF RecheckRoot, At
  <2>3. s \in State /\ StateOK(s) /\ s.pc = "create"
    BY <1>1, <2>2 DEF State, Steps, Opened, StateOK, Writing, Kept
  <2> HIDE DEF s
  <2> QED BY <1>6, <2>1, <2>2, <2>3, EarlyKeeps DEF RecheckRoot
<1> QED BY <1>3, <1>4, <1>5, <1>6

\* Where an attempt goes on, nothing else of it changed.
LEMMA GoesOn ==
    ASSUME PrivateInv, NEW a \in Attempt, NEW pc \in Steps, Goes(a, pc),
           \/ attempt[a].pc \in Writing \cup {"create"} /\ pc \in Writing \cup {"drop"}
           \/ attempt[a].pc \in {"read", "check"} /\ pc \in {"check", "undo", "ok"}
    PROVE  \E s \in State :
              /\ StateOK(s) /\ attempt' = [attempt EXCEPT ![a] = s] /\ attempt'[a] = s
              /\ s.pc = pc /\ s.dir = attempt[a].dir /\ s.result = attempt[a].result
              /\ s.linked = attempt[a].linked /\ s.created = attempt[a].created /\ s.stuck = attempt[a].stuck
<1> DEFINE s == [attempt[a] EXCEPT !.pc = pc]
<1>1. attempt[a] \in State /\ StateOK(attempt[a]) BY AttemptType
<1>2. s \in State BY <1>1 DEF State
<1>3. /\ s.pc = pc /\ s.dir = attempt[a].dir /\ s.result = attempt[a].result
      /\ s.linked = attempt[a].linked /\ s.created = attempt[a].created /\ s.stuck = attempt[a].stuck
  BY <1>1 DEF State
<1>4. attempt' = [attempt EXCEPT ![a] = s] /\ attempt'[a] = s BY DEF Goes, PrivateInv, Types
<1> HIDE DEF s
<1>5. StateOK(s) BY <1>1, <1>3 DEF StateOK, Opened, Writing, Kept
<1> QED BY <1>2, <1>3, <1>4, <1>5

\* What is written has no other name than its attempt.
LEMMA MineIsOwn ==
    ASSUME PrivateInv, NEW a \in Attempt
    PROVE  /\ Mine(a) \subseteq files
           /\ \A f \in Mine(a) : f.dir = attempt[a].dir /\ f.name = a /\ f.by = a /\ FileOK(f)
           /\ \A f, g \in Mine(a) : f = g
           /\ \A f \in files : f.dir = attempt[a].dir /\ f.name = a => f \in Mine(a)
BY DEF PrivateInv, Types, Temporary, OneOfAName, Mine, Called

LEMMA CreateKeeps == ASSUME PrivateInv, NEW a \in Attempt, CreateTemporary(a) PROVE PrivateInv'
<1>1. CASE Fails(a, FALSE) /\ UNCHANGED files BY <1>1, FailedEarly DEF CreateTemporary, At
<1>2. CASE Goes(a, "write") /\ files' = files \cup {File(attempt[a].dir, a, attempt[a].result, FALSE, FALSE, a)}
  <2>1. attempt[a].pc = "create" /\ Elsewhere BY <1>2 DEF CreateTemporary, At
  <2>2. PICK s \in State :
          /\ StateOK(s) /\ attempt' = [attempt EXCEPT ![a] = s] /\ attempt'[a] = s
          /\ s.pc = "write" /\ s.dir = attempt[a].dir /\ s.result = attempt[a].result
          /\ s.linked = attempt[a].linked /\ s.created = attempt[a].created /\ s.stuck = attempt[a].stuck
    BY <1>2, <2>1, GoesOn DEF Steps, Opened, Writing
  <2>3. s.dir \in Dir /\ s.result \in Given /\ ~s.linked BY <2>2 DEF StateOK, Opened, Kept
  <2> DEFINE n == File(s.dir, a, s.result, FALSE, FALSE, a)
  <2>4. files' = files \cup {n} BY <1>2, <2>2
  <2>5. n.dir = s.dir /\ n.name = a /\ n.by = a /\ n.value = s.result /\ FileOK(n)
    BY <2>3, GivenProfile DEF File, FileOK
  <2>6. \A f \in files : f.by # a /\ f.name # a
    BY <2>1 DEF PrivateInv, Trace, Temporary, Writing, Kept
  <2> HIDE DEF n
  <2>7. OneOfAName' BY <2>4, <2>5, <2>6 DEF OneOfAName, PrivateInv, Types
  <2>8. Confined(a) BY <2>4, <2>5 DEF Confined
  <2>9. /\ \A f \in files' : FileOK(f)
        /\ Temporary' /\ Whole'
    BY <2>1, <2>4, <2>5 DEF PrivateInv, Types, Temporary, Whole, Elsewhere
  <2>10. \A f \in files' : f.by = a => f = n BY <2>4, <2>6
  <2>11. Mine(a)' = {n} BY <2>2, <2>4, <2>5, <2>6 DEF Mine, Called
  <2>12. Trace(a)' /\ Draft(a)' /\ Owns(a)'
    BY <2>2, <2>3, <2>5, <2>10, <2>11 DEF Trace, Draft, Owns, Writing, Kept
  <2> QED BY <2>1, <2>2, <2>7, <2>8, <2>9, <2>12, OthersKept
<1> QED BY <1>1, <1>2 DEF CreateTemporary

\* A writing step that fails leaves its temporary file for the removal.
LEMMA GivesUpKeeps ==
    ASSUME PrivateInv, NEW a \in Attempt, attempt[a].pc \in Writing, Goes(a, "drop"), UNCHANGED files, Elsewhere
    PROVE  PrivateInv'
<1>1. PICK s \in State :
        /\ StateOK(s) /\ attempt' = [attempt EXCEPT ![a] = s] /\ attempt'[a] = s
        /\ s.pc = "drop" /\ s.dir = attempt[a].dir /\ s.linked = attempt[a].linked
  BY GoesOn DEF Steps, Opened
<1>2. ~s.linked BY <1>1, AttemptType DEF StateOK, Writing, Kept
<1>3. Mine(a)' = Mine(a) BY <1>1 DEF Mine, Called
<1>4. \A f \in files : f.by = a => f \in Mine(a) BY DEF PrivateInv, Trace
<1>5. Trace(a)' BY <1>1, <1>3, <1>4 DEF Trace, Writing, Kept
<1>6. Draft(a)' /\ Owns(a)' BY <1>1, <1>2 DEF Draft, Owns, Writing
<1> QED BY <1>1, <1>5, <1>6, QuietKeeps

\* The temporary file made further.
LEMMA RewriteKeeps ==
    ASSUME PrivateInv, NEW a \in Attempt, attempt[a].pc \in Writing, NEW pc \in {"sync", "link"}, Goes(a, pc),
           Elsewhere, NEW g, files' = (files \ Mine(a)) \cup {g}, FileOK(g),
           g.dir = attempt[a].dir, g.name = a, g.by = a, g.value = attempt[a].result,
           g.whole, pc = "link" => g.synced
    PROVE  PrivateInv'
<1>1. PICK s \in State :
        /\ StateOK(s) /\ attempt' = [attempt EXCEPT ![a] = s] /\ attempt'[a] = s
        /\ s.pc = pc /\ s.dir = attempt[a].dir /\ s.result = attempt[a].result
        /\ s.linked = attempt[a].linked /\ s.created = attempt[a].created /\ s.stuck = attempt[a].stuck
  BY GoesOn DEF Steps, Opened, Writing
<1>2. ~s.linked BY <1>1, AttemptType DEF StateOK, Writing, Kept
<1>3. OneOfAName' BY MineIsOwn DEF OneOfAName, PrivateInv, Types
<1>4. Confined(a) BY MineIsOwn DEF Confined
<1>5. /\ \A f \in files' : FileOK(f)
      /\ Temporary' /\ Whole'
  BY DEF PrivateInv, Types, Temporary, Whole, Elsewhere
<1>6. Mine(a)' = {g} BY <1>1, MineIsOwn DEF Mine, Called
<1>7. \A f \in files' : f.by = a => f = g
  <2>1. \A f \in files : f.by = a => f \in Mine(a) BY DEF PrivateInv, Trace
  <2> QED BY <2>1
<1>8. Trace(a)' BY <1>1, <1>6, <1>7 DEF Trace, Writing, Kept
<1>9. Draft(a)' BY <1>1, <1>6 DEF Draft
<1>10. Owns(a)' BY <1>1, <1>2 DEF Owns
<1> QED BY <1>1, <1>3, <1>4, <1>5, <1>8, <1>9, <1>10, OthersKept

LEMMA WritesKeep ==
    ASSUME PrivateInv, NEW a \in Attempt, WriteTemporary(a) \/ SyncTemporary(a)
    PROVE  PrivateInv'
<1>1. attempt[a].pc \in {"write", "sync"} /\ Elsewhere BY DEF WriteTemporary, SyncTemporary, At
<1>2. PICK m \in Mine(a) : TRUE BY <1>1 DEF PrivateInv, Draft, Writing
<1>3. /\ Mine(a) = {m} /\ m.dir = attempt[a].dir /\ m.name = a /\ m.by = a /\ FileOK(m)
      /\ m.value = attempt[a].result /\ (attempt[a].pc = "sync" => m.whole)
  BY <1>1, <1>2, MineIsOwn DEF PrivateInv, Draft, Writing
<1>4. CASE Goes(a, "drop") /\ UNCHANGED files BY <1>1, <1>4, GivesUpKeeps DEF Writing
<1>5. CASE WriteTemporary(a) /\ ~(Goes(a, "drop") /\ UNCHANGED files)
  <2> DEFINE g == [m EXCEPT !.whole = TRUE]
  <2>1. files' = (files \ Mine(a)) \cup {g} /\ Goes(a, "sync") BY <1>3, <1>5 DEF WriteTemporary
  <2>3. /\ g.dir = m.dir /\ g.name = m.name /\ g.by = m.by /\ g.value = m.value /\ g.synced = m.synced
        /\ g.whole = TRUE /\ DOMAIN g = DOMAIN m
    BY <1>3 DEF FileOK
  <2> HIDE DEF g
  <2>4. FileOK(g) BY <1>3, <2>3 DEF FileOK
  <2> QED BY <1>1, <1>3, <2>1, <2>3, <2>4, RewriteKeeps DEF Writing
<1>6. CASE SyncTemporary(a) /\ ~(Goes(a, "drop") /\ UNCHANGED files)
  <2> DEFINE g == [m EXCEPT !.synced = TRUE]
  <2>1. files' = (files \ Mine(a)) \cup {g} /\ Goes(a, "link") /\ attempt[a].pc = "sync"
    BY <1>3, <1>6 DEF SyncTemporary, Synced, At
  <2>3. /\ g.dir = m.dir /\ g.name = m.name /\ g.by = m.by /\ g.value = m.value /\ g.whole = m.whole
        /\ g.synced = TRUE /\ DOMAIN g = DOMAIN m
    BY <1>3 DEF FileOK
  <2> HIDE DEF g
  <2>4. FileOK(g) BY <1>3, <2>3 DEF FileOK
  <2> QED BY <1>1, <1>3, <2>1, <2>3, <2>4, RewriteKeeps DEF Writing
<1> QED BY <1>4, <1>5, <1>6

LEMMA LinkKeeps == ASSUME PrivateInv, NEW a \in Attempt, LinkResult(a) PROVE PrivateInv'
<1>1. attempt[a].pc = "link" /\ Elsewhere BY DEF LinkResult, At
<1>2. CASE Goes(a, "drop") /\ UNCHANGED files BY <1>1, <1>2, GivesUpKeeps DEF Writing
<1>3. CASE /\ Target(a) = {}
           /\ files' = files \cup {[f EXCEPT !.name = attempt[a].result] : f \in Mine(a)}
           /\ attempt' = [attempt EXCEPT ![a].pc = "drop", ![a].linked = TRUE]
  <2> DEFINE s == [attempt[a] EXCEPT !.pc = "drop", !.linked = TRUE]
  <2>1. attempt[a] \in State /\ StateOK(attempt[a]) BY AttemptType
  <2>2. attempt' = [attempt EXCEPT ![a] = s] /\ attempt'[a] = s BY <1>3 DEF PrivateInv, Types
  <2>3. /\ s \in State /\ s.pc = "drop" /\ s.linked
        /\ s.dir = attempt[a].dir /\ s.result = attempt[a].result
        /\ s.created = attempt[a].created /\ s.stuck = attempt[a].stuck
    BY <2>1 DEF State, Steps, Opened
  <2> HIDE DEF s
  <2>4. /\ s.dir \in Dir /\ s.result \in Given /\ s.result \notin Attempt /\ StateOK(s)
    BY <1>1, <2>1, <2>3, NameAssumption DEF StateOK, Opened, Writing, Kept
  <2>5. PICK m \in Mine(a) : TRUE BY <1>1 DEF PrivateInv, Draft, Writing
  <2>6. /\ Mine(a) = {m} /\ m.dir = s.dir /\ m.by = a /\ FileOK(m)
        /\ m.value = s.result /\ m.whole /\ m.synced
    BY <1>1, <2>3, <2>5, MineIsOwn DEF PrivateInv, Draft, Writing
  <2> DEFINE g == [m EXCEPT !.name = s.result]
  <2>7. files' = files \cup {g} BY <1>3, <2>3, <2>6
  <2>8. /\ g.dir = m.dir /\ g.by = m.by /\ g.value = m.value /\ g.whole = m.whole /\ g.synced = m.synced
        /\ g.name = s.result /\ DOMAIN g = DOMAIN m
    BY <2>6 DEF FileOK
  <2> HIDE DEF g
  <2>9. FileOK(g) BY <2>6, <2>8 DEF FileOK
  <2>10. \A f \in files : ~(f.dir = g.dir /\ f.name = g.name)
    BY <1>3, <2>3, <2>6, <2>8 DEF Target, Called
  <2>11. OneOfAName' BY <2>7, <2>10 DEF OneOfAName, PrivateInv, Types
  <2>12. Confined(a) BY <2>4, <2>6, <2>7, <2>8 DEF Confined
  <2>13. /\ \A f \in files' : FileOK(f)
         /\ Temporary' /\ Whole'
    BY <1>1, <2>4, <2>6, <2>7, <2>8, <2>9 DEF PrivateInv, Types, Temporary, Whole, Elsewhere
  <2>14. g \in Target(a)' /\ Mine(a) \subseteq Mine(a)'
    BY <2>2, <2>3, <2>6, <2>7, <2>8 DEF Target, Mine, Called
  <2>15. \A f \in files : f.by = a => f \in Mine(a) BY <1>1 DEF PrivateInv, Trace, Writing
  <2>16. Trace(a)' BY <2>2, <2>3, <2>7, <2>14, <2>15 DEF Trace, Writing, Kept
  <2>17. Draft(a)' /\ Owns(a)' BY <2>2, <2>3, <2>6, <2>8, <2>14 DEF Draft, Owns, Writing
  <2> QED BY <1>1, <2>2, <2>3, <2>4, <2>11, <2>12, <2>13, <2>16, <2>17, OthersKept
<1> QED BY <1>2, <1>3 DEF LinkResult

LEMMA DropKeeps == ASSUME PrivateInv, NEW a \in Attempt, DropTemporary(a) PROVE PrivateInv'
<1>1. PICK removed \in BOOLEAN :
        /\ files' = IF removed THEN files \ Mine(a) ELSE files
        /\ IF attempt[a].kind = "write" /\ ~attempt[a].linked
           THEN Fails(a, ~removed)
           ELSE attempt' = [attempt EXCEPT
                  ![a].stuck = ~removed,
                  ![a].created = attempt[a].linked,
                  ![a].pc = CASE attempt[a].kind = "write" -> "check"
                              [] attempt[a].linked -> "read"
                              [] OTHER -> "undo"]
  BY DEF DropTemporary
<1>2. attempt[a].pc = "drop" /\ Elsewhere BY DEF DropTemporary, At
<1>3. attempt[a] \in State /\ StateOK(attempt[a]) BY AttemptType
<1>4. Confined(a) BY <1>1, MineIsOwn DEF Confined
<1>5. files' \subseteq files BY <1>1
<1>6. \A f \in files : f.by = a => f \in Mine(a) \/ (attempt[a].linked /\ f \in Target(a))
  BY <1>2 DEF PrivateInv, Trace
<1>7. CASE attempt[a].kind = "write" /\ ~attempt[a].linked
  <2>1. Fails(a, ~removed) BY <1>1, <1>7
  <2>2. ~removed \/ \A f \in files' : f.by # a BY <1>1, <1>6, <1>7
  <2> QED BY <1>2, <1>4, <1>5, <2>1, <2>2, FailsKeeps
<1>8. CASE ~(attempt[a].kind = "write" /\ ~attempt[a].linked)
  <2> DEFINE next == CASE attempt[a].kind = "write" -> "check"
                       [] attempt[a].linked -> "read"
                       [] OTHER -> "undo"
             s == [attempt[a] EXCEPT !.stuck = ~removed, !.created = attempt[a].linked, !.pc = next]
  <2>1. next \in {"read", "check", "undo"} /\ (next \in {"read", "check"} => attempt[a].linked) BY <1>8
  <2>2. attempt' = [attempt EXCEPT ![a].stuck = ~removed, ![a].created = attempt[a].linked, ![a].pc = next]
    BY <1>1, <1>8
  <2> HIDE DEF next
  <2>3. attempt' = [attempt EXCEPT ![a] = s] /\ attempt'[a] = s BY <2>2 DEF PrivateInv, Types
  <2>4. /\ s \in State /\ s.pc = next /\ s.stuck = ~removed /\ s.created = attempt[a].linked
        /\ s.dir = attempt[a].dir /\ s.result = attempt[a].result /\ s.linked = attempt[a].linked
    BY <1>3, <2>1 DEF State, Steps, Opened
  <2> HIDE DEF s
  <2>5. StateOK(s) /\ s.result \notin Attempt
    BY <1>2, <1>3, <2>1, <2>4, NameAssumption DEF StateOK, Opened, Writing, Kept
  <2>6. Target(a)' = Target(a)
    BY <1>1, <2>3, <2>4, <2>5, MineIsOwn DEF Target, Called
  <2>7. Trace(a)'
    BY <1>1, <1>5, <1>6, <2>1, <2>3, <2>4, <2>6 DEF Trace, Writing, Kept
  <2>8. Draft(a)' BY <2>1, <2>3, <2>4 DEF Draft, Writing
  <2>9. Owns(a)' BY <1>2, <2>3, <2>4, <2>6 DEF PrivateInv, Owns, Elsewhere
  <2> QED BY <1>2, <1>4, <1>5, <2>3, <2>4, <2>5, <2>7, <2>8, <2>9, FewerFiles, OthersKept DEF Elsewhere
<1> QED BY <1>7, <1>8

LEMMA ChecksKeep == ASSUME PrivateInv, NEW a \in Attempt, ReadBack(a) \/ CheckRoot(a) PROVE PrivateInv'
<1>1. PICK pc \in {"check", "undo", "ok"} : Goes(a, pc) BY DEF ReadBack, CheckRoot
<1>2. attempt[a].pc \in {"read", "check"} /\ UNCHANGED files /\ Elsewhere BY DEF ReadBack, CheckRoot, At
<1>3. PICK s \in State :
        /\ StateOK(s) /\ attempt' = [attempt EXCEPT ![a] = s] /\ attempt'[a] = s
        /\ s.pc = pc /\ s.dir = attempt[a].dir /\ s.result = attempt[a].result
        /\ s.linked = attempt[a].linked /\ s.created = attempt[a].created /\ s.stuck = attempt[a].stuck
  BY <1>1, <1>2, GoesOn DEF Steps, Opened
<1>4. Target(a)' = Target(a) BY <1>2, <1>3 DEF Target, Called
<1>5. Trace(a)' BY <1>2, <1>3, <1>4 DEF PrivateInv, Trace, Writing, Kept
<1>6. Draft(a)' BY <1>3 DEF Draft, Writing
<1>7. Owns(a)' BY <1>2, <1>3, <1>4 DEF PrivateInv, Owns, Elsewhere
<1> QED BY <1>2, <1>3, <1>5, <1>6, <1>7, QuietKeeps

LEMMA UndoKeeps == ASSUME PrivateInv, NEW a \in Attempt, UndoResult(a) PROVE PrivateInv'
<1>1. PICK removed \in BOOLEAN :
        /\ files' = IF removed THEN files \ Undone(a) ELSE files
        /\ Fails(a, attempt[a].stuck \/ (~removed /\ Undone(a) # {}))
  BY DEF UndoResult
<1>2. attempt[a].pc = "undo" /\ Elsewhere BY DEF UndoResult, At
<1>3. attempt[a] \in State /\ StateOK(attempt[a]) BY AttemptType
<1> DEFINE stuck == attempt[a].stuck \/ (~removed /\ Undone(a) # {})
<1>4. stuck \in BOOLEAN /\ Fails(a, stuck) BY <1>1
<1>5. ASSUME NEW f \in Undone(a)
      PROVE  f.name \notin Attempt /\ (f.by = a \/ crashed \/ <<f.dir, f.name>> \in touched)
  <2>1. /\ attempt[a].created /\ f \in files /\ f.dir = attempt[a].dir /\ f.name = attempt[a].result
    BY <1>5 DEF Undone, Target, Called
  <2>2. attempt[a].linked /\ attempt[a].result \notin Attempt
    BY <1>2, <1>3, <2>1, NameAssumption DEF StateOK, Opened
  <2>3. ASSUME ~crashed, <<f.dir, f.name>> \notin touched PROVE f.by = a
    <3>1. PICK g \in Target(a) : g.by = a BY <2>1, <2>2, <2>3 DEF PrivateInv, Owns
    <3>2. g = f BY <2>1, <3>1 DEF PrivateInv, Types, OneOfAName, Target, Called
    <3> QED BY <3>1, <3>2
  <2> QED BY <2>1, <2>2, <2>3
<1>6. Confined(a) BY <1>1, <1>5 DEF Confined
<1>7. \A f \in files : f.by = a => attempt[a].stuck \/ f \in Undone(a)
  BY <1>2 DEF PrivateInv, Trace, Undone
<1>8. files' \subseteq files BY <1>1
<1>9. stuck \/ \A f \in files' : f.by # a BY <1>1, <1>7
<1> HIDE DEF stuck
<1> QED BY <1>2, <1>4, <1>6, <1>8, <1>9, FailsKeeps

-----------------------------------------------------------------------------
(* What else happens *)

\* No edit is of the profile.
LEMMA EditedProfile ==
    ASSUME NEW v, "profile" \in DOMAIN v, NEW e \in Edited(v)
    PROVE  "profile" \in DOMAIN e /\ e.profile = v.profile
BY DEF Edited

LEMMA InterfereKeeps == ASSUME PrivateInv, Interfere PROVE PrivateInv'
<1>1. attempt' = attempt /\ crashed' = crashed /\ outside' \in 0 .. MaxOutside
  <2>1. outside' = outside + 1 /\ outside < MaxOutside /\ UNCHANGED <<attempt, crashed>> BY DEF Interfere
  <2>2. outside \in 0 .. MaxOutside BY DEF PrivateInv, Types
  <2> QED BY <2>1, <2>2, PrivateAssumption
<1>2. ASSUME UNCHANGED <<files, touched>>, path' \in Dir \cup {None}, private' \subseteq Dir PROVE PrivateInv'
  <2>1. Types' BY <1>1, <1>2 DEF PrivateInv, Types, OneOfAName
  <2>2. \A a \in Attempt : Trace(a)' /\ Draft(a)' /\ Owns(a)'
    BY <1>1, <1>2 DEF PrivateInv, Trace, Draft, Owns, Mine, Target, Called
  <2> QED BY <1>2, <2>1, <2>2 DEF PrivateInv, Temporary, Whole
<1>3. ASSUME UNCHANGED <<path, private>>, NEW f \in files, f.name \notin Attempt,
             touched' = touched \cup {<<f.dir, f.name>>},
             NEW N, files' = (files \ {f}) \cup N,
             \A g \in N : FileOK(g) /\ g.dir = f.dir /\ g.name = f.name /\ g.by = Outsider,
             \A g, h \in N : g = h
      PROVE  PrivateInv'
  <2>1. OneOfAName' BY <1>3 DEF OneOfAName, PrivateInv, Types
  <2>2. Types' BY <1>1, <1>3, <2>1 DEF PrivateInv, Types
  <2>3. Temporary' /\ Whole' BY <1>3 DEF PrivateInv, Temporary, Whole
  <2>4. ASSUME NEW a \in Attempt PROVE Trace(a)' /\ Draft(a)' /\ Owns(a)'
    <3>1. Mine(a)' = Mine(a) BY <1>1, <1>3 DEF Mine, Called
    <3>2. \A h \in files' : h.by = a => h \in files BY <1>3, PrivateAssumption
    <3>3. Trace(a)' BY <1>1, <3>1, <3>2 DEF PrivateInv, Trace, Target, Called
    <3>4. Draft(a)' BY <1>1, <3>1 DEF PrivateInv, Draft
    <3>5. Owns(a)'
      <4> SUFFICES ASSUME attempt[a].linked, ~crashed, <<attempt[a].dir, attempt[a].result>> \notin touched'
                   PROVE  \E h \in Target(a)' : h.by = a
        BY <1>1 DEF Owns
      <4>1. PICK h \in Target(a) : h.by = a BY <1>3 DEF PrivateInv, Owns
      <4>2. h \in files' BY <1>3, <4>1 DEF Target, Called
      <4> QED BY <1>1, <4>1, <4>2 DEF Target, Called
    <3> QED BY <3>3, <3>4, <3>5
  <2> QED BY <2>2, <2>3, <2>4 DEF PrivateInv
<1>4. CASE path' \in (Dir \cup {None}) \ {path} /\ UNCHANGED <<private, files, touched>>
  BY <1>2, <1>4 DEF PrivateInv, Types
<1>5. CASE (\E d \in Dir : private' = IF d \in private THEN private \ {d} ELSE private \cup {d})
           /\ UNCHANGED <<path, files, touched>>
  BY <1>2, <1>5 DEF PrivateInv, Types
<1>6. ASSUME UNCHANGED <<path, private>>, NEW f \in files, f.name \notin Attempt,
             touched' = touched \cup {<<f.dir, f.name>>},
             \/ files' = files \ {f}
             \/ \E e \in Edited(f.value) :
                    files' = (files \ {f}) \cup {[f EXCEPT !.value = e, !.by = Outsider]}
      PROVE  PrivateInv'
  <2>1. CASE files' = files \ {f}
    <3> DEFINE N == {}
    <3>1. /\ files' = (files \ {f}) \cup N /\ \A h, k \in N : h = k
          /\ \A h \in N : FileOK(h) /\ h.dir = f.dir /\ h.name = f.name /\ h.by = Outsider
      BY <2>1
    <3> HIDE DEF N
    <3> QED BY <1>3, <1>6, <3>1
  <2>2. ASSUME NEW e \in Edited(f.value), files' = (files \ {f}) \cup {[f EXCEPT !.value = e, !.by = Outsider]}
        PROVE  PrivateInv'
    <3> DEFINE g == [f EXCEPT !.value = e, !.by = Outsider]
    <3>1. FileOK(f) BY DEF PrivateInv, Types
    <3>2. /\ g.dir = f.dir /\ g.name = f.name /\ g.by = Outsider /\ g.value = e
          /\ g.whole = f.whole /\ g.synced = f.synced /\ DOMAIN g = DOMAIN f
      BY <3>1 DEF FileOK
    <3>3. files' = (files \ {f}) \cup {g} BY <2>2
    <3> HIDE DEF g
    <3>4. "profile" \in DOMAIN e /\ e.profile = f.value.profile BY <3>1, EditedProfile DEF FileOK
    <3>5. FileOK(g) BY <3>1, <3>2, <3>4 DEF FileOK
    <3> DEFINE N == {g}
    <3>6. /\ files' = (files \ {f}) \cup N /\ \A h, k \in N : h = k
          /\ \A h \in N : FileOK(h) /\ h.dir = f.dir /\ h.name = f.name /\ h.by = Outsider
      BY <3>2, <3>3, <3>5
    <3> HIDE DEF N
    <3> QED BY <1>3, <1>6, <3>6
  <2> QED BY <1>6, <2>1, <2>2
<1> QED BY <1>4, <1>5, <1>6 DEF Interfere

LEMMA CrashKeeps == ASSUME PrivateInv, Crash PROVE PrivateInv'
<1>1. PICK kept \in SUBSET files : files' = {[f EXCEPT !.whole = f.whole /\ f.synced] : f \in kept}
  BY DEF Crash
<1>2. crashed' = TRUE /\ UNCHANGED <<path, private, outside, touched>> BY DEF Crash
<1>3. ASSUME NEW f \in files, NEW g, g = [f EXCEPT !.whole = f.whole /\ f.synced]
      PROVE  /\ FileOK(g) /\ g.dir = f.dir /\ g.name = f.name /\ g.by = f.by /\ g.value = f.value
             /\ g.synced = f.synced /\ (f.whole /\ f.synced => g.whole)
  <2>1. FileOK(f) BY DEF PrivateInv, Types
  <2>2. /\ g.dir = f.dir /\ g.name = f.name /\ g.by = f.by /\ g.value = f.value
        /\ g.whole = (f.whole /\ f.synced) /\ g.synced = f.synced /\ DOMAIN g = DOMAIN f
    BY <1>3, <2>1 DEF FileOK
  <2>3. g.whole \in BOOLEAN BY <2>2
  <2>4. FileOK(g) BY <2>1, <2>2, <2>3 DEF FileOK
  <2> QED BY <2>2, <2>4
<1>4. \A g \in files' : \E f \in files :
        /\ g = [f EXCEPT !.whole = f.whole /\ f.synced]
        /\ FileOK(g) /\ g.dir = f.dir /\ g.name = f.name /\ g.by = f.by /\ g.value = f.value
        /\ g.synced = f.synced /\ (f.whole /\ f.synced => g.whole)
  BY <1>1, <1>3
<1>5. \A a \in Attempt : \/ attempt'[a] = attempt[a] /\ attempt[a].pc \in Ended \cup {"idle"}
                         \/ attempt'[a] = [Fresh EXCEPT !.pc = "crashed"]
  BY DEF Crash
<1>6. [Fresh EXCEPT !.pc = "crashed"] \in State /\ StateOK([Fresh EXCEPT !.pc = "crashed"])
      /\ [Fresh EXCEPT !.pc = "crashed"].pc = "crashed"
  BY DEF Fresh, State, Steps, Opened, StateOK, Writing, Kept
<1>7. attempt' \in [Attempt -> State]
  <2>1. DOMAIN attempt' = Attempt /\ attempt' = [a \in Attempt |-> attempt'[a]] BY DEF Crash
  <2>2. \A a \in Attempt : attempt'[a] \in State BY <1>5, <1>6, AttemptType
  <2> QED BY <2>1, <2>2
<1>8. \A a \in Attempt : StateOK(attempt'[a]) BY <1>5, <1>6, AttemptType
<1>9. OneOfAName'
  <2> SUFFICES ASSUME NEW g \in files', NEW h \in files', g.dir = h.dir, g.name = h.name PROVE g = h
    BY DEF OneOfAName
  <2>1. PICK f \in files : g = [f EXCEPT !.whole = f.whole /\ f.synced] /\ g.dir = f.dir /\ g.name = f.name
    BY <1>4
  <2>2. PICK k \in files : h = [k EXCEPT !.whole = k.whole /\ k.synced] /\ h.dir = k.dir /\ h.name = k.name
    BY <1>4
  <2>3. f = k BY <2>1, <2>2 DEF PrivateInv, Types, OneOfAName
  <2> QED BY <2>1, <2>2, <2>3
<1>10. Types' BY <1>2, <1>4, <1>7, <1>8, <1>9 DEF PrivateInv, Types
<1>11. Temporary' /\ Whole'
  <2>1. Temporary' BY <1>4 DEF PrivateInv, Temporary
  <2>2. Whole' BY <1>2, <1>4 DEF PrivateInv, Whole
  <2> QED BY <2>1, <2>2
<1>12. ASSUME NEW a \in Attempt PROVE Trace(a)' /\ Draft(a)' /\ Owns(a)'
  <2>1. Owns(a)' BY <1>2 DEF Owns
  <2>2. attempt'[a].pc \in Ended \cup {"idle"} BY <1>5, <1>6 DEF Ended
  <2>3. Draft(a)' BY <2>2 DEF Draft, Ended, Writing
  <2>4. ASSUME NEW g \in files', g.by = a
        PROVE  attempt'[a].pc \in Ended /\ (attempt'[a].pc = "failed" => attempt'[a].stuck)
    <3>1. PICK f \in files : f.by = a BY <1>4, <2>4
    <3>2. CASE attempt'[a] = attempt[a]
      BY <2>2, <3>1, <3>2 DEF PrivateInv, Trace, Ended, Writing, Kept
    <3>3. CASE attempt'[a] = [Fresh EXCEPT !.pc = "crashed"] BY <1>6, <3>3 DEF Ended
    <3> QED BY <1>5, <3>2, <3>3
  <2>5. Trace(a)' BY <2>4 DEF Trace, Ended, Writing, Kept
  <2> QED BY <2>1, <2>3, <2>5
<1> QED BY <1>10, <1>11, <1>12 DEF PrivateInv

LEMMA NextPrivate == PrivateInv /\ [PrivateNext]_privateVars => PrivateInv'
<1> SUFFICES ASSUME PrivateInv, [PrivateNext]_privateVars PROVE PrivateInv' OBVIOUS
<1>1. ASSUME NEW a \in Attempt, Step(a) PROVE PrivateInv'
  BY <1>1, BeginsKeep, OpensKeep, CreateKeeps, WritesKeep, LinkKeeps, DropKeeps, ChecksKeep, UndoKeeps DEF Step
<1>2. CASE UNCHANGED privateVars
  <2>1. Types' BY <1>2 DEF privateVars, PrivateInv, Types, OneOfAName
  <2>2. \A a \in Attempt : Trace(a)' /\ Draft(a)' /\ Owns(a)'
    BY <1>2 DEF privateVars, PrivateInv, Trace, Draft, Owns, Mine, Target, Called
  <2> QED BY <1>2, <2>1, <2>2 DEF privateVars, PrivateInv, Temporary, Whole
<1> QED BY <1>1, <1>2, InterfereKeeps, CrashKeeps DEF PrivateNext

-----------------------------------------------------------------------------
(* Theorems of the private result.                                         *)

\* A name an outsider has left alone holds the whole result it is the digest
\* of, on disk, whatever fails and whenever the machine crashes.
THEOREM WholeNames == PrivateSpec => []NamesHoldWhole
<1>1. ASSUME PrivateInv PROVE NamesHoldWhole
  <2>1. PrivateTypeOK
    <3>1. \A a \in Attempt : attempt[a].created => attempt[a].linked BY <1>1, AttemptType DEF StateOK
    <3> QED BY <1>1, <3>1 DEF PrivateInv, Types, FileOK, OneOfAName, PrivateTypeOK
  <2> QED BY <1>1, <2>1 DEF PrivateInv, Whole, NamesHoldWhole
<1> QED BY <1>1, InitPrivate, NextPrivate, PTL DEF PrivateSpec

\* A returned result stays, and a failed attempt leaves nothing of its own.
THEOREM OwnResults == PrivateSpec => []EachOwnsItsResult
<1>1. ASSUME PrivateInv PROVE EachOwnsItsResult
  <2>1. ASSUME NEW a \in Attempt, At(a, "ok"), ~crashed, <<attempt[a].dir, attempt[a].result>> \notin touched
        PROVE  \E f \in Target(a) : f.by = a
    <3>1. attempt[a].linked BY <1>1, <2>1, AttemptType DEF StateOK, At
    <3> QED BY <1>1, <2>1, <3>1 DEF PrivateInv, Owns
  <2>2. ASSUME NEW a \in Attempt, At(a, "failed"), ~attempt[a].stuck PROVE \A f \in files : f.by # a
    BY <1>1, <2>2 DEF PrivateInv, Trace, At
  <2> QED BY <2>1, <2>2 DEF EachOwnsItsResult
<1> QED BY <1>1, InitPrivate, NextPrivate, PTL DEF PrivateSpec

\* What verifies is what Build makes of it, at its creation.
LEMMA Verified ==
    ASSUME NEW e, NEW t \in Times, Verifies(e, t),
           e.profile.verifiedAt \in Nat, e.profile.lifetime \in Nat
    PROVE  /\ e.observedAt <= e.createdAt /\ e.createdAt <= t
           /\ t < e.profile.verifiedAt + e.profile.lifetime
           /\ e.claims = Inert
           /\ e.network.provided > 0 => /\ e.authority # None /\ e.authority = e.profile.authority
                                        /\ "POST" \in e.methods
           /\ e.submit \in e.selected
           /\ e.schema \in {"v3", "v4"} => e.submit.name \in e.history[e.submit.gen].shows
<1> DEFINE c == CompletionOf(e)
<1>1. Buildable(c, e.createdAt) /\ e = Envelope(c, e.createdAt) /\ ReviewVerifies(e.review, t)
  BY DEF Verifies, Rebuilds
<1>2. /\ c.protocol = ProtocolOf(e) /\ c.profile = e.profile /\ c.selected = e.selected
      /\ c.observedAt = e.observedAt /\ c.network = e.network /\ c.authority = e.authority
      /\ c.history = e.history
  BY DEF CompletionOf
<1> HIDE DEF c
<1>3. /\ e.schema = c.protocol /\ e.claims = Inert
      /\ e.review = ReviewOf(c.profile, e.createdAt)
      /\ e.submit = CHOOSE k \in SubmitCandidates(c.profile.flow, c.selected) : TRUE
      /\ e.methods = IF c.protocol = "v4" THEN {"GET", "HEAD", "POST"} ELSE {"GET", "HEAD"}
  <2> DEFINE v == Envelope(c, e.createdAt)
  <2>1. /\ v.schema = c.protocol /\ v.claims = Inert
        /\ v.review = ReviewOf(c.profile, e.createdAt)
        /\ v.submit = CHOOSE k \in SubmitCandidates(c.profile.flow, c.selected) : TRUE
        /\ v.methods = IF c.protocol = "v4" THEN {"GET", "HEAD", "POST"} ELSE {"GET", "HEAD"}
    BY DEF Envelope
  <2>2. e = v BY <1>1
  <2> HIDE DEF v
  <2> QED BY <2>1, <2>2
<1>4. e.observedAt <= e.createdAt BY <1>1, <1>2 DEF Buildable
<1>5. e.review.assessedAt = e.createdAt /\ e.review.profile = e.profile
  BY <1>2, <1>3 DEF ReviewOf
<1>6. e.createdAt <= t /\ ~Expired(e.profile, t) BY <1>1, <1>5 DEF ReviewVerifies, CurrentAt
<1>7. t < e.profile.verifiedAt + e.profile.lifetime
  BY <1>6, PrivateAssumption DEF Expired, ExpiresAt
<1>8. SubmitCandidates(c.profile.flow, c.selected) # {}
  BY <1>1, FS_EmptySet DEF Buildable, FlowReviewable
<1>9. e.submit \in SubmitCandidates(c.profile.flow, c.selected) BY <1>3, <1>8
<1>10. e.submit \in e.selected BY <1>2, <1>9 DEF SubmitCandidates
<1>11. ASSUME e.schema \in {"v3", "v4"} PROVE e.submit.name \in e.history[e.submit.gen].shows
  BY <1>1, <1>2, <1>3, <1>10, <1>11 DEF Buildable, EvidenceHolds, Typed34, Observed
<1>12. ASSUME e.network.provided > 0
       PROVE  e.authority # None /\ e.authority = e.profile.authority /\ "POST" \in e.methods
  <2>1. c.protocol = "v4" /\ c.authority # None BY <1>1, <1>2, <1>12 DEF Buildable, BoundsHold
  <2> QED BY <1>1, <1>2, <1>3, <2>1 DEF Buildable
<1> QED BY <1>3, <1>4, <1>6, <1>7, <1>10, <1>11, <1>12

\* What verifies is inert and fresh, whoever wrote it.
THEOREM InertResults == PrivateSpec => []VerifiedIsInert
<1>1. ASSUME PrivateInv PROVE VerifiedIsInert
  <2> SUFFICES ASSUME NEW f \in files, NEW t \in Times, Verifies(f.value, t)
               PROVE  LET e == f.value IN
                      /\ e.observedAt <= e.createdAt /\ e.createdAt <= t
                      /\ t < e.profile.verifiedAt + e.profile.lifetime
                      /\ e.claims = Inert
                      /\ e.network.provided > 0 => /\ e.authority # None /\ e.authority = e.profile.authority
                                                   /\ "POST" \in e.methods
                      /\ e.submit \in e.selected
                      /\ e.schema \in {"v3", "v4"} => e.submit.name \in e.history[e.submit.gen].shows
    BY DEF VerifiedIsInert
  <2>1. f.value.profile.verifiedAt \in Nat /\ f.value.profile.lifetime \in Nat
    BY <1>1 DEF PrivateInv, Types, FileOK
  <2> QED BY <2>1, Verified
<1> QED BY <1>1, InitPrivate, NextPrivate, PTL DEF PrivateSpec
=============================================================================
