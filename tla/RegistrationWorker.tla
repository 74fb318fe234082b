------------------------- MODULE RegistrationWorker -------------------------
(***************************************************************************)
(* The registration author worker (registrationauthorworker/worker.go):    *)
(* the session of RegistrationSession, and after it the private result of  *)
(* RegistrationResult made of what the session returns.  Time stands       *)
(* still: the recipe is as current as it was when it was reviewed.         *)
(***************************************************************************)
EXTENDS RegistrationSession

Result == INSTANCE RegistrationResult WITH
    LimitRequests <- MaxRequests, LimitObservations <- MaxObservations,
    LimitCandidates <- MaxCandidates

\* What the guard enforces of an authority is what the recipe says of it.
AuthorityOf(a) == IF a = None THEN None ELSE Policy[a]

\* The recipe a client sends for review, of the schema the protocol demands;
\* the session has checked its dates, origins and addresses.
Recipe ==
    [schema |-> Result!ProfileSchema(protocol), flow |-> review.flow, verifiedAt |-> 0, lifetime |-> 1,
     origins |-> {"app"}, safeUrls |-> TRUE, snapshot |-> TRUE, confirmed |-> TRUE,
     authority |-> AuthorityOf(review.verification)]

\* The Completion that finish returns.
Completed ==
    [protocol |-> protocol, profile |-> Recipe, source |-> Recipe, selected |-> review.selected,
     cleanup |-> "delete_separately", origins |-> {"app"}, observedAt |-> 0,
     bounds |-> [requests |-> MaxRequests, observations |-> MaxObservations, candidates |-> MaxCandidates],
     observations |-> observations, network |-> completion.network,
     authority |-> AuthorityOf(completion.verification),
     history |-> history, previews |-> previews,
     binding |-> IF Typed THEN review.binding ELSE <<>>]

\* What the session returns is clean, and the worker can finalize it: every check that Build
\* makes of a completion has been made of the live session, so that no review
\* is lost after its browser is gone.
CompletionIsBuildable == CompletionIsClean /\ (completion # None => Result!Buildable(Completed, 0))
=============================================================================
