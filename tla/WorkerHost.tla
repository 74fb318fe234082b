----------------------------- MODULE WorkerHost -----------------------------
(***************************************************************************)
(* The managed capture boundary (workerhost/host.go): RunManaged launches  *)
(* a worker through a host, lends its channel to an exchange callback      *)
(* while the admitted deadline lasts, closes the channel, and has the host *)
(* join everything it started, whatever happened before.                   *)
(*                                                                         *)
(* RunManaged is one sequential process.  The calls on the guarded channel *)
(* run beside it, in goroutines of the callback that may outlive the       *)
(* callback; so do the two contexts, the goroutine that closes the channel *)
(* and whoever still holds the caller's or the host's copy of the          *)
(* origins.  The host, the channel and the callback are trusted code       *)
(* outside the repository: they may fail, be late or lie by mistake.       *)
(***************************************************************************)
EXTENDS Naturals, FiniteSets

CONSTANTS
    Call,           \* calls on the guarded channel
    Kind,           \* [Call -> {"send", "receive", "close"}]
    Origins,        \* values of LaunchSpec.Origins
    Unset           \* an absent value

\* What Launch returned: the partial custody, and with it whether there is a
\* channel, whether everything but the origins matches, and an error.
Launched == [origins: Origins, channel: BOOLEAN, matches: BOOLEAN, err: BOOLEAN]

ASSUME WorkerHostAssumption ==
    /\ Kind \in [Call -> {"send", "receive", "close"}]
    /\ Unset \notin Origins \cup Launched

Errors == {"ErrLaunch", "ErrExchange", "ErrTransport", "ErrUnjoined"}
Stages == {"entry", "launch", "exchange", "seal", "close", "join", "done"}

VARIABLES
    stage,      \* where RunManaged is
    result,     \* the errors joined so far
    slice,      \* the contents of each origins slice
    owned,      \* which slice RunManaged and the host hold
    admitted,   \* the origins the caller asked for (a ghost)
    launch,     \* what Launch returned, or Unset
    runtime,    \* the runtime context: "live" or "over"
    teardown,   \* the teardown context: "none", "live" or "over"
    closed,     \* guardedChannel.closed
    closer,     \* the goroutine of closeOnce: "none", "running", "done" or "failed"
    closes,     \* calls of the channel's own Close
    unproved,   \* closeUnproved
    call,       \* the state of each call on the guarded channel
    custody     \* what the host keeps running: "none", "held" or "joined"

channelVars == <<closed, closer, closes>>
sliceVars == <<slice, owned, admitted>>
vars == <<stage, result, slice, owned, admitted, launch, runtime, teardown,
          closed, closer, closes, unproved, call, custody>>

Init ==
    /\ stage = "entry" /\ result = {} /\ launch = Unset /\ admitted = Unset
    /\ slice \in [{"caller", "own", "host"} -> Origins]
    /\ owned = [manager |-> "caller", host |-> "caller"]
    /\ runtime \in {"live", "over"} /\ teardown = "none"
    /\ closed = FALSE /\ closer = "none" /\ closes = 0 /\ unproved = FALSE
    /\ call = [c \in Call |-> "idle"]
    /\ custody = "none"

----------------------------------------------------------------------------
(* RunManaged up to the exchange *)

\* Slip: the host is given RunManaged's own slice.
SharedCopies == [manager |-> "own", host |-> "own"]
\* slices.Clone, once for RunManaged and once for the host.
Copies == [manager |-> "own", host |-> "host"]

\* validSpec or the context refuses: nothing is launched.
Refuse ==
    /\ stage = "entry"
    /\ stage' = "done"
    /\ result' = {"ErrLaunch"}
    /\ UNCHANGED <<sliceVars, launch, runtime, teardown, channelVars, unproved, call, custody>>

\* The specification is valid: it is copied twice, and the host is called.
Enter ==
    /\ stage = "entry" /\ runtime = "live"
    /\ stage' = "launch"
    /\ admitted' = slice["caller"]
    /\ owned' = Copies
    /\ slice' = [s \in {"caller", "own", "host"} |-> slice["caller"]]
    /\ custody' = "held"
    /\ UNCHANGED <<result, launch, runtime, teardown, channelVars, unproved, call>>

ValidLaunch(l) ==
    /\ l.channel /\ l.matches
    /\ l.origins = slice[owned.manager]

Exchanges(l) == ~l.err /\ ValidLaunch(l) /\ runtime = "live"

\* The host launches what its copy says, or something else, and may be late.
LaunchReturns ==
    /\ stage = "launch"
    /\ \E l \in Launched :
        /\ launch' = l
        /\ IF Exchanges(l)
           THEN stage' = "exchange" /\ UNCHANGED result
           ELSE stage' = "seal" /\ result' = {"ErrLaunch"}
    /\ UNCHANGED <<sliceVars, runtime, teardown, channelVars, unproved, call, custody>>

\* The callback returns: an error, or a deadline that has passed meanwhile.
ExchangeReturns ==
    /\ stage = "exchange"
    /\ stage' = "seal"
    /\ \E err \in BOOLEAN :
        result' = IF err \/ runtime = "over" THEN {"ErrExchange"} ELSE {}
    /\ UNCHANGED <<sliceVars, launch, runtime, teardown, channelVars, unproved, call, custody>>

----------------------------------------------------------------------------
(* Teardown *)

\* Slip: the teardown closes again what the callback has closed.
SealTwice ==
    /\ stage = "seal"
    /\ runtime' = "over"
    /\ teardown' = "live"
    /\ IF launch.channel
       THEN stage' = "close" /\ closed' = TRUE /\ closer' = "running" /\ closes' = closes + 1
       ELSE stage' = "join" /\ UNCHANGED channelVars
    /\ UNCHANGED <<result, sliceVars, launch, unproved, call, custody>>

\* closed is stored, the runtime context cancelled, the teardown's one begun,
\* and the close asked for.
Seal ==
    /\ stage = "seal"
    /\ runtime' = "over"
    /\ teardown' = "live"
    /\ IF launch.channel
       THEN /\ stage' = "close" /\ closed' = TRUE
            /\ closer' = IF closer = "none" THEN "running" ELSE closer
            /\ closes' = IF closer = "none" THEN closes + 1 ELSE closes
       ELSE stage' = "join" /\ UNCHANGED channelVars
    /\ UNCHANGED <<result, sliceVars, launch, unproved, call, custody>>

\* Slip: the close waits for the channel alone.
CloseOutcomesUnbounded(ctx) ==
    (IF closer = "done" THEN {"closed"} ELSE {})
        \cup (IF closer = "failed" THEN {"error"} ELSE {})

\* close(ctx) selects among what has happened: the channel is closed, or the
\* context is over.
CloseOutcomes(ctx) ==
    (IF closer = "done" THEN {"closed"} ELSE {})
        \cup (IF closer = "failed" \/ ctx = "over" THEN {"error"} ELSE {})

CloseReturns ==
    /\ stage = "close"
    /\ \E outcome \in CloseOutcomes(teardown) :
        /\ result' = result \cup (IF outcome = "error" THEN {"ErrTransport"} ELSE {})
        /\ unproved' = (outcome = "error" /\ teardown = "over")
    /\ stage' = "join"
    /\ UNCHANGED <<sliceVars, launch, runtime, teardown, channelVars, call, custody>>

\* Join's answers for this nonce and custody; a mismatched one speaks of another.
Joins == {"joined", "mismatched", "uncertain", "error"}

\* Slip: Joined is believed whatever it names.
UnjoinedTrusts(answer) == unproved \/ teardown = "over" \/ answer \in {"uncertain", "error"}
Unjoined(answer) == unproved \/ teardown = "over" \/ answer # "joined"

JoinReturns ==
    /\ stage = "join"
    /\ stage' = "done"
    /\ \E answer \in Joins :
        /\ result' = result \cup (IF Unjoined(answer) THEN {"ErrUnjoined"} ELSE {})
        /\ custody' = IF answer = "joined" THEN "joined" ELSE custody
    /\ UNCHANGED <<sliceVars, launch, runtime, teardown, channelVars, unproved, call>>

----------------------------------------------------------------------------
(* Beside RunManaged: the guarded channel *)

Lent == launch # Unset /\ launch.channel /\ stage \notin {"launch"} /\ "ErrLaunch" \notin result

\* callContext, and for a Close the store and closeOnce.
CallBegins(c) ==
    /\ Lent /\ call[c] = "idle"
    /\ IF Kind[c] = "close"
       THEN /\ closed' = TRUE
            /\ closer' = IF closer = "none" THEN "running" ELSE closer
            /\ closes' = IF closer = "none" THEN closes + 1 ELSE closes
            /\ call' = [call EXCEPT ![c] = "inside"]
       ELSE /\ call' = [call EXCEPT ![c] = IF closed \/ runtime = "over" THEN "error" ELSE "inside"]
            /\ UNCHANGED channelVars
    /\ UNCHANGED <<stage, result, sliceVars, launch, runtime, teardown, unproved, custody>>

\* The channel's own Send or Receive returns: "answered" with no error (for a
\* Receive, with data of a legal size), or an error.
ChannelReturns(c) ==
    /\ call[c] = "inside" /\ Kind[c] # "close"
    /\ \E answer \in {"answered", "error"} : call' = [call EXCEPT ![c] = answer]
    /\ UNCHANGED <<stage, result, sliceVars, launch, runtime, teardown, channelVars, unproved, custody>>

\* Slip: no second look.
BelievedAnyway(c, callerGone) == ~callerGone

\* Send and Receive look again before they believe the channel; callerGone is
\* the context of the call itself.
Believed(c, callerGone) == ~closed /\ runtime = "live" /\ ~callerGone

CallEnds(c) ==
    /\ call[c] = "answered"
    /\ \E callerGone \in BOOLEAN :
        call' = [call EXCEPT ![c] = IF Believed(c, callerGone) THEN "ok" ELSE "error"]
    /\ UNCHANGED <<stage, result, sliceVars, launch, runtime, teardown, channelVars, unproved, custody>>

CloseCallEnds(c) ==
    /\ call[c] = "inside" /\ Kind[c] = "close"
    /\ \E outcome \in CloseOutcomes(runtime) :
        call' = [call EXCEPT ![c] = IF outcome = "closed" THEN "ok" ELSE "error"]
    /\ UNCHANGED <<stage, result, sliceVars, launch, runtime, teardown, channelVars, unproved, custody>>

\* The goroutine of closeOnce: the channel's own Close may never return.
ChannelClosed ==
    /\ closer = "running"
    /\ closer' \in {"done", "failed"}
    /\ UNCHANGED <<stage, result, sliceVars, launch, runtime, teardown, closed, closes, unproved, call, custody>>

----------------------------------------------------------------------------
(* Beside RunManaged: time, and the other holders of the origins *)

\* The admitted deadline passes, or the parent cancels.
Expire ==
    /\ stage \notin {"entry", "done"} /\ runtime = "live"
    /\ runtime' = "over"
    /\ UNCHANGED <<stage, result, sliceVars, launch, teardown, channelVars, unproved, call, custody>>

TeardownExpires ==
    /\ stage # "done" /\ teardown = "live"
    /\ teardown' = "over"
    /\ UNCHANGED <<stage, result, sliceVars, launch, runtime, channelVars, unproved, call, custody>>

\* The caller writes to its slice, or the host to the one it was given.
Mutate ==
    /\ stage = "launch"
    /\ \E s \in {"caller", owned.host}, o \in Origins : slice' = [slice EXCEPT ![s] = o]
    /\ UNCHANGED <<stage, result, owned, admitted, launch, runtime, teardown, channelVars, unproved, call, custody>>

----------------------------------------------------------------------------

RunManaged ==
    \/ Refuse \/ Enter \/ LaunchReturns \/ ExchangeReturns
    \/ Seal \/ CloseReturns \/ JoinReturns

Beside ==
    \/ \E c \in Call : CallBegins(c) \/ ChannelReturns(c) \/ CallEnds(c) \/ CloseCallEnds(c)
    \/ ChannelClosed \/ Expire \/ TeardownExpires \/ Mutate

Next == RunManaged \/ Beside

\* RunManaged's own steps run; both deadlines pass; Launch, the callback and
\* Join answer once their context is over, as Channel, RunManaged and Host
\* demand of them.  Nothing is assumed of the channel's Close.
Fairness ==
    /\ WF_vars(Refuse \/ Enter)
    /\ WF_vars(Expire) /\ WF_vars(TeardownExpires)
    /\ WF_vars(runtime = "over" /\ (LaunchReturns \/ ExchangeReturns))
    /\ WF_vars(Seal) /\ WF_vars(CloseReturns)
    /\ WF_vars(teardown = "over" /\ JoinReturns)

Spec == Init /\ [][Next]_vars /\ Fairness

----------------------------------------------------------------------------
(* What must hold *)

\* Every variable has its type; the channel's own Close, which the callback and
\* the teardown both ask for, is called once at most (closeOnce).
TypeOK ==
    /\ stage \in Stages /\ result \subseteq Errors
    /\ slice \in [{"caller", "own", "host"} -> Origins]
    /\ owned \in [manager: {"caller", "own"}, host: {"caller", "host", "own"}]
    /\ admitted \in Origins \cup {Unset} /\ launch \in Launched \cup {Unset}
    /\ runtime \in {"live", "over"} /\ teardown \in {"none", "live", "over"}
    /\ closed \in BOOLEAN /\ unproved \in BOOLEAN
    /\ closer \in {"none", "running", "done", "failed"} /\ closes \in 0 .. 1
    /\ call \in [Call -> {"idle", "inside", "answered", "ok", "error"}]
    /\ custody \in {"none", "held", "joined"}

\* A channel is lent only for the origins the caller asked for: neither the
\* host, which may write to the slice it was given and then attest it, nor the
\* caller can move the binding after RunManaged was entered.
ExchangeIsBound ==
    /\ TypeOK
    /\ stage = "exchange" => launch.origins = admitted

\* What RunManaged returns can be relied on: without ErrUnjoined nothing the
\* host started is still held and the channel's Close has returned; without any
\* error the channel was also closed cleanly and no call on it can still succeed.
ReturnTellsTruth ==
    stage = "done" /\ launch # Unset =>
        /\ "ErrUnjoined" \in result \/ (custody = "joined" /\ closer # "running")
        /\ result = {} => closer = "done" /\ closed /\ runtime = "over"

\* A send or receive that is under way when the channel closes or the deadline
\* passes never ends in success, and none that begins later does: the data and
\* the dispatch of a closed session are not attested.
NoSuccessAfterClose ==
    [][\A c \in Call : (closed \/ runtime = "over") /\ Kind[c] # "close" /\ call'[c] = "ok"
            => call[c] = "ok"]_vars

\* Whatever a launch came to - a channel and an error, a late answer, an
\* expired exchange, a channel whose Close never returns - the host is asked to
\* join it and RunManaged returns.
TeardownEnds == stage = "launch" ~> (stage = "done" /\ teardown # "none")
=============================================================================
