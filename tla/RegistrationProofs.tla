------------------------- MODULE RegistrationProofs -------------------------
(***************************************************************************)
(* Theorems about the registration author session (RegistrationSession),   *)
(* its guard and the completion its worker makes a result of               *)
(* (RegistrationWorker), for every value of the constants: every policy,   *)
(* every set of pages and recipes, every bound.                            *)
(*                                                                         *)
(* The inductive invariant Inv is a conjunction: GuardInv (the counters of *)
(* the guard and what has left the browser), LifeInv (who holds the        *)
(* browser when), AuthInv (the authority server and guard agree on),       *)
(* EvidenceInv and PreviewInv (what the server keeps is what was seen and  *)
(* done), ReviewInv (a review rests on it) and CompletionInv.  That a      *)
(* walk over a recipe says what ReviewIsEvidenced needs of it is proved    *)
(* of the walk's steps, the least step at which it could fail.             *)
(***************************************************************************)
EXTENDS RegistrationWorker, FiniteSetTheorems, WellFoundedInduction, SequenceTheorems, TLAPS

-----------------------------------------------------------------------------
(* The guard.                                                              *)
(*                                                                         *)
(* What its counters have to do with one another, with the authority it    *)
(* was given and with what has left the browser.                           *)

\* No request is counted past the bound but by a guard that is poisoned, and
\* provider traffic is within the authority's policy, or there is none.
NetOK(n) ==
    /\ n \in Net
    /\ n.gets + n.heads <= n.requests
    /\ n.requests > MaxRequests => n.violated
    /\ IF n.authority = None THEN n.provided = 0 /\ n.bytes = 0
       ELSE n.provided <= Policy[n.authority].requests /\ n.bytes <= Policy[n.authority].bytes

GuardInv ==
    /\ protocol \in Protocol
    /\ NetOK(net)
    /\ net.authority # None => protocol = "v4"
    /\ fetch \in [Fetch -> Provider \cup {None}]
    /\ net.authority = None => \A f \in Fetch : fetch[f] = None
    /\ sent \in [app: Nat, mutations: {0}, provider: Nat]
    /\ sent.app <= net.requests /\ sent.provider = net.provided
    /\ attempted \in BOOLEAN
    /\ attempted => net.violated

\* A net that differs in its windows, its verdict and its end only.
SameCounts(n, m) ==
    /\ m \in Net
    /\ n.violated => m.violated
    /\ m.requests = n.requests /\ m.gets = n.gets /\ m.heads = n.heads
    /\ m.authority = n.authority /\ m.provided = n.provided /\ m.bytes = n.bytes

LEMMA SameCountsOK ==
    ASSUME NEW n, NetOK(n), NEW m, SameCounts(n, m) PROVE NetOK(m)
BY DEF NetOK, SameCounts

LEMMA GuardKept ==
    ASSUME GuardInv, SameCounts(net, net'), UNCHANGED <<protocol, fetch, sent, attempted>>
    PROVE  GuardInv'
<1>1. NetOK(net') BY SameCountsOK DEF GuardInv
<1>2. NetOK(net)' BY <1>1 DEF NetOK
<1> QED BY <1>2 DEF GuardInv, SameCounts

LEMMA SmallNets ==
    ASSUME NEW n \in Net
    PROVE  /\ SameCounts(n, Violated(n)) /\ Violated(n).violated
           /\ Violated(n).up = n.up /\ Violated(n).closing = n.closing
           /\ SameCounts(n, Blocked(n)) /\ Blocked(n).up = n.up /\ Blocked(n).closing = n.closing
           /\ SameCounts(n, WindowOpened(n)) /\ WindowOpened(n).up = n.up
           /\ SameCounts(n, WindowShut(n)) /\ WindowShut(n).up = n.up
           /\ \A b \in BOOLEAN : SameCounts(n, [n EXCEPT !.closing = b]) /\ [n EXCEPT !.closing = b].up = n.up
           /\ \A b \in BOOLEAN : SameCounts(n, [n EXCEPT !.up = b]) /\ [n EXCEPT !.up = b].up = b
           /\ SameCounts(n, [n EXCEPT !.phaseOver = TRUE]) /\ [n EXCEPT !.phaseOver = TRUE].up = n.up
BY DEF Net, SameCounts, Violated, Blocked, WindowOpened, WindowShut

LEMMA CountedOK ==
    ASSUME NEW n, NetOK(n), n.requests <= MaxRequests
    PROVE  /\ NetOK(Counted(n)) /\ Counted(n).requests = n.requests + 1
           /\ Counted(n).gets = n.gets /\ Counted(n).heads = n.heads
           /\ n.violated => Counted(n).violated
           /\ n.requests + 1 > MaxRequests => Counted(n).violated
           /\ Counted(n).up = n.up /\ Counted(n).authority = n.authority
           /\ Counted(n).provided = n.provided
<1> DEFINE k == n.requests + 1
          v == n.violated \/ n.requests + 1 > MaxRequests
          m == [n EXCEPT !.requests = k, !.violated = v]
<1>1. /\ n \in Net /\ k \in Counters /\ v \in BOOLEAN
      /\ n.requests \in Nat /\ n.gets \in Nat /\ n.heads \in Nat
  BY GuardAssumption DEF NetOK, Net, Counters
<1>2. n.gets + n.heads <= k /\ (k > MaxRequests => v)
      /\ (n.violated => v) /\ (n.requests + 1 > MaxRequests => v)
  BY <1>1 DEF NetOK
<1>3. Counted(n) = m BY DEF Counted
<1> HIDE DEF k, v
<1>4. /\ m \in Net /\ m.requests = k /\ m.violated = v /\ m.gets = n.gets /\ m.heads = n.heads
      /\ m.up = n.up /\ m.authority = n.authority /\ m.provided = n.provided /\ m.bytes = n.bytes
  BY <1>1 DEF Net
<1> HIDE DEF m
<1>5. NetOK(m) BY <1>2, <1>4 DEF NetOK
<1> QED BY <1>2, <1>3, <1>4, <1>5 DEF k

\* What one application request makes of the guard.
LEMMA AllowOK ==
    ASSUME NEW n, NetOK(n), n.requests <= MaxRequests, NEW r \in Request
    PROVE  LET a == Allow(n, r) IN
           /\ NetOK(a.net)
           /\ a.net.up = n.up /\ a.net.authority = n.authority /\ a.net.provided = n.provided
           /\ n.violated => a.net.violated
           /\ n.requests <= a.net.requests
           /\ a.through => r.method # "POST" /\ a.net.requests = n.requests + 1
           /\ ~n.closing /\ Offends(n, r) => a.net.violated
<1> DEFINE counted == Counted(n)
<1>0. n.requests \in Nat /\ n.gets \in Nat /\ n.heads \in Nat /\ n \in Net
  BY GuardAssumption DEF NetOK, Net, Counters
<1>1. /\ NetOK(counted) /\ counted.requests = n.requests + 1
      /\ counted.gets = n.gets /\ counted.heads = n.heads
      /\ n.violated => counted.violated
      /\ counted.up = n.up /\ counted.authority = n.authority /\ counted.provided = n.provided
  BY CountedOK
<1>2. CASE n.closing BY <1>0, <1>2 DEF Allow
<1>3. CASE ~n.closing /\ counted.violated BY <1>0, <1>1, <1>3 DEF Allow
<1>4. CASE ~n.closing /\ ~counted.violated
  <2> DEFINE m == CountedMethod(counted, r)
  <2>1. r.method \in {"GET", "HEAD", "POST"} BY DEF Request
  <2>2. /\ NetOK(m) /\ m.requests = n.requests + 1
        /\ m.up = n.up /\ m.authority = n.authority /\ m.provided = n.provided
        /\ n.violated => m.violated
    <3>1. counted \in Net /\ counted.gets + 1 \in Counters /\ counted.heads + 1 \in Counters
          /\ counted.gets + counted.heads + 1 <= counted.requests
      BY <1>0, <1>1, GuardAssumption DEF NetOK, Net, Counters
    <3>2. CASE r.method = "GET"
      <4> DEFINE k == n.gets + 1
                 c == [counted EXCEPT !.gets = k]
      <4>1. m = c BY <1>1, <3>2 DEF CountedMethod
      <4>2. k \in Counters /\ k + counted.heads <= counted.requests BY <1>0, <1>1, <3>1
      <4> HIDE DEF k, counted
      <4>3. /\ c \in Net /\ c.gets = k /\ c.heads = counted.heads /\ c.requests = counted.requests
            /\ c.violated = counted.violated /\ c.up = counted.up /\ c.authority = counted.authority
            /\ c.provided = counted.provided /\ c.bytes = counted.bytes
        BY <3>1, <4>2 DEF Net
      <4> HIDE DEF c, m
      <4>4. NetOK(c) BY <1>1, <4>2, <4>3 DEF NetOK
      <4> QED BY <1>1, <4>1, <4>3, <4>4
    <3>3. CASE r.method = "HEAD"
      <4> DEFINE k == n.heads + 1
                 c == [counted EXCEPT !.heads = k]
      <4>1. m = c BY <1>1, <3>3 DEF CountedMethod
      <4>2. k \in Counters /\ counted.gets + k <= counted.requests BY <1>0, <1>1, <3>1
      <4> HIDE DEF k, counted
      <4>3. /\ c \in Net /\ c.heads = k /\ c.gets = counted.gets /\ c.requests = counted.requests
            /\ c.violated = counted.violated /\ c.up = counted.up /\ c.authority = counted.authority
            /\ c.provided = counted.provided /\ c.bytes = counted.bytes
        BY <3>1, <4>2 DEF Net
      <4> HIDE DEF c, m
      <4>4. NetOK(c) BY <1>1, <4>2, <4>3 DEF NetOK
      <4> QED BY <1>1, <4>1, <4>3, <4>4
    <3>4. CASE r.method = "POST"
      <4>1. m = Violated(counted) BY <3>4 DEF CountedMethod
      <4> HIDE DEF m, counted
      <4>2. SameCounts(counted, Violated(counted)) /\ Violated(counted).violated
            /\ Violated(counted).up = counted.up
        BY <3>1, SmallNets
      <4>3. NetOK(Violated(counted)) BY <1>1, <4>2, SameCountsOK
      <4> QED BY <1>1, <4>1, <4>2, <4>3 DEF SameCounts
    <3> QED BY <2>1, <3>2, <3>3, <3>4
  <2>3. CASE Offends(n, r)
    <3>1. Allow(n, r) = [net |-> Violated(m), through |-> FALSE] BY <1>4, <2>3 DEF Allow
    <3>2. m \in Net BY <2>2 DEF NetOK
    <3> HIDE DEF m
    <3>3. SameCounts(m, Violated(m)) /\ Violated(m).violated /\ Violated(m).up = m.up BY <3>2, SmallNets
    <3>4. NetOK(Violated(m)) BY <2>2, <3>3, SameCountsOK
    <3> QED BY <1>0, <2>2, <3>1, <3>3, <3>4 DEF SameCounts
  <2>4. CASE ~Offends(n, r)
    <3>1. Allow(n, r) = [net |-> m, through |-> r.leads = "approved"] BY <1>4, <2>4 DEF Allow
    <3>2. r.method # "POST" BY <2>4 DEF Offends
    <3> HIDE DEF m
    <3> QED BY <1>0, <2>2, <2>4, <3>1, <3>2
  <2> QED BY <2>3, <2>4
<1> QED BY <1>2, <1>3, <1>4

\* A net of which only the end of the session, the windows and the verdict
\* may differ.
SameEnds == net'.up = net.up /\ net'.authority = net.authority

LEMMA AppRequestKeeps ==
    ASSUME GuardInv, AppRequest PROVE GuardInv' /\ SameEnds
<1>1. PICK r \in Request :
        /\ net' = Allow(net, r).net
        /\ sent' = IF ~Allow(net, r).through THEN sent
                   ELSE [sent EXCEPT !.app = @ + 1,
                                     !.mutations = @ + (IF r.method = "POST" THEN 1 ELSE 0)]
        /\ attempted' = (attempted \/ (~net.closing /\ Offends(net, r)))
  BY DEF AppRequest
<1>2. NetOK(net) /\ net.requests <= MaxRequests /\ UNCHANGED <<protocol, fetch>>
  BY DEF AppRequest, Countable, GuardInv
<1>3. /\ NetOK(Allow(net, r).net)
      /\ Allow(net, r).net.up = net.up /\ Allow(net, r).net.authority = net.authority
      /\ Allow(net, r).net.provided = net.provided
      /\ net.violated => Allow(net, r).net.violated
      /\ net.requests <= Allow(net, r).net.requests
      /\ Allow(net, r).through => r.method # "POST" /\ Allow(net, r).net.requests = net.requests + 1
      /\ ~net.closing /\ Offends(net, r) => Allow(net, r).net.violated
  BY <1>2, AllowOK
<1>4. net.requests \in Nat /\ net'.requests \in Nat
  BY <1>1, <1>2, <1>3, GuardAssumption DEF NetOK, Net, Counters
<1>5. /\ sent' \in [app: Nat, mutations: {0}, provider: Nat]
      /\ sent'.app <= net'.requests /\ sent'.provider = sent.provider
  <2>1. sent \in [app: Nat, mutations: {0}, provider: Nat] /\ sent.app <= net.requests BY DEF GuardInv
  <2>2. CASE ~Allow(net, r).through BY <1>1, <1>3, <1>4, <2>1, <2>2
  <2>3. CASE Allow(net, r).through
    <3>1. r.method # "POST" /\ net'.requests = net.requests + 1 BY <1>1, <1>3, <2>3
    <3>2. sent' = [sent EXCEPT !.app = @ + 1, !.mutations = @ + 0] BY <1>1, <2>3, <3>1
    <3>3. sent' = [app |-> sent.app + 1, mutations |-> sent.mutations + 0, provider |-> sent.provider]
      BY <2>1, <3>2
    <3>4. sent.app \in Nat /\ sent.mutations = 0 /\ sent.provider \in Nat BY <2>1
    <3>5. sent' = [app |-> sent.app + 1, mutations |-> 0, provider |-> sent.provider] BY <3>3, <3>4
    <3> QED BY <1>4, <2>1, <3>1, <3>4, <3>5
  <2> QED BY <2>2, <2>3
<1>6. attempted' \in BOOLEAN /\ (attempted' => net'.violated) BY <1>1, <1>3 DEF GuardInv
<1> QED BY <1>1, <1>2, <1>3, <1>5, <1>6 DEF GuardInv, NetOK, SameEnds

LEMMA ProviderRequestKeeps ==
    ASSUME GuardInv, NEW f \in Fetch, ProviderRequest(f) PROVE GuardInv' /\ SameEnds
<1>1. NetOK(net) /\ net.authority # None /\ UNCHANGED <<protocol, attempted>>
  BY DEF ProviderRequest, GuardInv
<1>2. net \in Net /\ Policy[net.authority].requests \in Nat /\ Policy[net.authority].provider \in Provider
  BY <1>1, GuardAssumption DEF NetOK, Net
<1>3. CASE net' = Violated(net) /\ UNCHANGED <<fetch, sent>>
  <2>1. SameCounts(net, net') /\ net'.up = net.up BY <1>2, <1>3, SmallNets
  <2>2. GuardInv' BY <1>1, <1>3, <2>1, GuardKept
  <2> QED BY <2>1, <2>2 DEF SameCounts, SameEnds
<1>4. CASE /\ Admits
           /\ \E post \in BOOLEAN : net' = Admit(post)
           /\ fetch' = [fetch EXCEPT ![f] = Limit.provider]
           /\ sent' = [sent EXCEPT !.provider = @ + 1]
  <2>1. PICK post \in BOOLEAN : net' = Admit(post) BY <1>4
  <2>2. /\ net' \in Net /\ net'.provided = net.provided + 1
        /\ net'.up = net.up /\ net'.violated = net.violated /\ net'.requests = net.requests
        /\ net'.gets = net.gets /\ net'.heads = net.heads /\ net'.authority = net.authority
        /\ net'.bytes = net.bytes
    <3> DEFINE k == net.provided + 1
               j == net.posted + (IF post THEN 1 ELSE 0)
    <3>1. k \in Nat /\ j \in Nat BY <1>2 DEF Net
    <3>2. net' = [net EXCEPT !.provided = k, !.posted = j] BY <2>1 DEF Admit
    <3> HIDE DEF k, j
    <3>3. /\ net' \in Net /\ net'.provided = k
          /\ net'.up = net.up /\ net'.violated = net.violated /\ net'.requests = net.requests
          /\ net'.gets = net.gets /\ net'.heads = net.heads /\ net'.authority = net.authority
          /\ net'.bytes = net.bytes
      BY <1>2, <3>1, <3>2 DEF Net
    <3> QED BY <3>3 DEF k
  <2>3. net.provided \in Nat /\ net.provided < Policy[net.authority].requests
    BY <1>2, <1>4 DEF Admits, Limit, Net
  <2>4. NetOK(net') BY <1>1, <1>2, <2>2, <2>3 DEF NetOK
  <2>5. fetch' \in [Fetch -> Provider \cup {None}] BY <1>2, <1>4 DEF GuardInv, Limit
  <2>6. sent' \in [app: Nat, mutations: {0}, provider: Nat] /\ sent'.app = sent.app
        /\ sent'.provider = sent.provider + 1
    BY <1>4 DEF GuardInv
  <2>7. sent'.app <= net'.requests /\ sent'.provider = net'.provided
    BY <2>2, <2>6 DEF GuardInv
  <2> QED BY <1>1, <2>2, <2>4, <2>5, <2>6, <2>7 DEF GuardInv, NetOK, SameEnds
<1> QED BY <1>3, <1>4 DEF ProviderRequest

LEMMA ProviderAnswerKeeps ==
    ASSUME GuardInv, NEW f \in Fetch, ProviderAnswer(f) PROVE GuardInv' /\ SameEnds
<1>1. NetOK(net) /\ fetch[f] # None /\ fetch' = [fetch EXCEPT ![f] = None]
      /\ UNCHANGED <<protocol, sent, attempted>>
  BY DEF ProviderAnswer, GuardInv
<1>2. net.authority # None BY <1>1 DEF GuardInv
<1>3. net \in Net /\ Policy[net.authority].bytes \in Nat
  BY <1>1, <1>2, GuardAssumption DEF NetOK, Net
<1>4. /\ NetOK(net') /\ net'.up = net.up /\ net'.authority = net.authority
      /\ net'.requests = net.requests /\ net'.provided = net.provided
      /\ net.violated => net'.violated
  <2>1. CASE net' = Blocked(net)
    <3>1. SameCounts(net, net') /\ net'.up = net.up BY <1>3, <2>1, SmallNets
    <3> QED BY <1>1, <3>1, SameCountsOK DEF SameCounts
  <2>2. CASE net.bytes < Limit.bytes /\ net' = [net EXCEPT !.bytes = @ + 1]
    <3>1. /\ net' \in Net /\ net'.provided = net.provided
          /\ net'.up = net.up /\ net'.violated = net.violated /\ net'.requests = net.requests
          /\ net'.gets = net.gets /\ net'.heads = net.heads /\ net'.authority = net.authority
          /\ net'.bytes = net.bytes + 1
      BY <1>3, <2>2 DEF Net
    <3>2. net.bytes \in Nat /\ net.bytes < Policy[net.authority].bytes BY <1>3, <2>2 DEF Net, Limit
    <3> QED BY <1>1, <1>2, <1>3, <3>1, <3>2 DEF NetOK
  <2> QED BY <2>1, <2>2 DEF ProviderAnswer
<1>5. fetch' \in [Fetch -> Provider \cup {None}] BY <1>1 DEF GuardInv
<1> QED BY <1>1, <1>2, <1>4, <1>5 DEF GuardInv, NetOK, SameEnds

\* What the browser reports keeps the guard sound, and neither ends the
\* browser nor changes the authority.
LEMMA BrowserKeeps ==
    ASSUME GuardInv, BrowserEvent PROVE GuardInv' /\ SameEnds
<1>0. net \in Net /\ NetOK(net) BY DEF GuardInv, NetOK
<1>1. CASE AppRequest BY <1>1, AppRequestKeeps
<1>2. CASE FrameRequest
  <2> DEFINE frame == [method |-> "GET", kind |-> "resource", leads |-> "elsewhere"]
  <2>1. UNCHANGED <<protocol, fetch, sent, attempted>> /\ net.requests <= MaxRequests
    BY <1>2 DEF FrameRequest, Countable
  <2>2. CASE net' = Allow(net, frame).net
    <3>1. frame \in Request BY DEF Request
    <3> HIDE DEF frame
    <3>2. /\ NetOK(net') /\ SameEnds /\ net'.provided = net.provided
          /\ net.violated => net'.violated
          /\ net.requests <= net'.requests
      BY <1>0, <2>1, <2>2, <3>1, AllowOK DEF SameEnds
    <3>3. net.requests \in Nat /\ net'.requests \in Nat
      BY <1>0, <3>2, GuardAssumption DEF NetOK, Net, Counters
    <3>4. sent.app <= net'.requests BY <3>2, <3>3 DEF GuardInv
    <3> QED BY <2>1, <3>2, <3>4 DEF GuardInv, NetOK, SameEnds
  <2>3. CASE net' = Blocked(net)
    <3>1. SameCounts(net, net') /\ net'.up = net.up BY <1>0, <2>3, SmallNets
    <3> QED BY <2>1, <3>1, GuardKept DEF SameCounts, SameEnds
  <2> QED BY <1>2, <2>2, <2>3 DEF FrameRequest
<1>3. CASE SurfaceEvent
  <2>1. SameCounts(net, net') /\ net'.up = net.up BY <1>0, <1>3, SmallNets DEF SurfaceEvent
  <2> QED BY <1>3, <2>1, GuardKept DEF SurfaceEvent, SameCounts, SameEnds
<1>4. CASE PhaseEnds
  <2>1. SameCounts(net, net') /\ net'.up = net.up BY <1>0, <1>4, SmallNets DEF PhaseEnds
  <2> QED BY <1>4, <2>1, GuardKept DEF PhaseEnds, SameCounts, SameEnds
<1>5. ASSUME NEW f \in Fetch, ProviderRequest(f) PROVE GuardInv' /\ SameEnds
  BY <1>5, ProviderRequestKeeps
<1>6. ASSUME NEW f \in Fetch, ProviderAnswer(f) PROVE GuardInv' /\ SameEnds
  BY <1>6, ProviderAnswerKeeps
<1> QED BY <1>1, <1>2, <1>3, <1>4, <1>5, <1>6 DEF BrowserEvent

-----------------------------------------------------------------------------
(* The guard under the steps of the server *)

LEMMA SameCountsTrans ==
    ASSUME NEW l, NEW m, NEW n, SameCounts(l, m), SameCounts(m, n) PROVE SameCounts(l, n)
BY DEF SameCounts

\* A close leaves the guard as it was, but for the mark that it has begun.
LEMMA CloseBeginsNet ==
    ASSUME NEW n \in Net, NEW why, NEW has, CloseBegins(why, n, has)
    PROVE  SameCounts(n, net') /\ net'.up = n.up
<1>1. SameCounts(n, n) BY DEF SameCounts
<1> QED BY <1>1, SmallNets DEF CloseBegins

LEMMA ObserveBeginsNet ==
    ASSUME NEW n \in Net, ObserveBegins(n) PROVE SameCounts(n, net') /\ net'.up = n.up
<1>1. SameCounts(n, n) BY DEF SameCounts
<1>2. CASE CloseBegins("fail", n, TRUE) BY <1>2, CloseBeginsNet
<1>3. CASE net' = n BY <1>1, <1>3
<1> QED BY <1>2, <1>3 DEF ObserveBegins

\* The one request of the session itself.
LEMMA HeadBegunOK ==
    ASSUME NEW n, NetOK(n), n.requests <= MaxRequests
    PROVE  /\ NetOK(HeadBegun(n)) /\ HeadBegun(n).requests = n.requests + 1
           /\ n.violated => HeadBegun(n).violated
           /\ HeadBegun(n).up = n.up /\ HeadBegun(n).authority = n.authority
           /\ HeadBegun(n).provided = n.provided
<1> DEFINE counted == Counted(n)
<1>0. n.requests \in Nat /\ n.gets \in Nat /\ n.heads \in Nat /\ n.gets + n.heads <= n.requests
  BY GuardAssumption DEF NetOK, Net, Counters
<1>1. /\ NetOK(counted) /\ counted.requests = n.requests + 1
      /\ counted.gets = n.gets /\ counted.heads = n.heads
      /\ n.violated => counted.violated
      /\ counted.up = n.up /\ counted.authority = n.authority /\ counted.provided = n.provided
  BY CountedOK
<1>2. CASE counted.violated BY <1>1, <1>2 DEF HeadBegun
<1>3. CASE ~counted.violated
  <2> DEFINE k == n.heads + 1
             c == [counted EXCEPT !.heads = k]
  <2>1. HeadBegun(n) = c BY <1>3 DEF HeadBegun
  <2>2. k \in Counters /\ counted.gets + k <= counted.requests
    BY <1>0, <1>1, GuardAssumption DEF NetOK, Net, Counters
  <2> HIDE DEF k, counted
  <2>3. counted \in Net BY <1>1 DEF NetOK
  <2>4. /\ c \in Net /\ c.heads = k /\ c.gets = counted.gets /\ c.requests = counted.requests
        /\ c.violated = counted.violated /\ c.up = counted.up /\ c.authority = counted.authority
        /\ c.provided = counted.provided /\ c.bytes = counted.bytes
    BY <2>2, <2>3 DEF Net
  <2> HIDE DEF c
  <2>5. NetOK(c) BY <1>1, <2>2, <2>4 DEF NetOK
  <2> QED BY <1>1, <2>1, <2>4, <2>5
<1> QED BY <1>2, <1>3

\* A step that leaves the counts of the guard alone.
QuietStep == SameCounts(net, net') /\ UNCHANGED <<protocol, fetch, sent, attempted>>

LEMMA QuietKeeps ==
    ASSUME GuardInv, QuietStep PROVE GuardInv' /\ net'.authority = net.authority
BY GuardKept DEF QuietStep, SameCounts

LEMMA NavigateKeeps ==
    ASSUME GuardInv, Navigate PROVE GuardInv' /\ SameEnds
<1>0. net \in Net /\ NetOK(net) /\ SameCounts(net, net) /\ UNCHANGED <<protocol, fetch, attempted>>
  BY DEF GuardInv, NetOK, SameCounts, Navigate
<1>1. CASE CloseBegins("fail", net, TRUE) /\ UNCHANGED sent
  <2>1. SameCounts(net, net') /\ net'.up = net.up BY <1>0, <1>1, CloseBeginsNet
  <2> QED BY <1>0, <1>1, <2>1, QuietKeeps DEF QuietStep, SameEnds
<1>2. CASE net' = WindowOpened(net) /\ UNCHANGED sent
  <2>1. SameCounts(net, net') /\ net'.up = net.up BY <1>0, <1>2, SmallNets
  <2> QED BY <1>0, <1>2, <2>1, QuietKeeps DEF QuietStep, SameEnds
<1>3. CASE /\ MayNavigate(net)
           /\ \/ CloseBegins("fail", HeadBegun(net), TRUE) /\ UNCHANGED sent
              \/ net' = HeadBegun(net) /\ sent' = [sent EXCEPT !.app = @ + 1]
  <2> DEFINE begun == HeadBegun(net)
  <2>1. net.requests <= MaxRequests BY <1>0, <1>3, GuardAssumption DEF MayNavigate, NetOK, Net, Counters
  <2>2. /\ NetOK(begun) /\ begun.requests = net.requests + 1
        /\ net.violated => begun.violated
        /\ begun.up = net.up /\ begun.authority = net.authority /\ begun.provided = net.provided
    BY <1>0, <2>1, HeadBegunOK
  <2>3. begun \in Net /\ SameCounts(begun, begun) BY <2>2 DEF NetOK, SameCounts
  <2>4. SameCounts(begun, net') /\ net'.up = begun.up
    <3> HIDE DEF begun
    <3>1. CASE CloseBegins("fail", begun, TRUE) BY <2>3, <3>1, CloseBeginsNet
    <3>2. CASE net' = begun BY <2>3, <3>2
    <3> QED BY <1>3, <3>1, <3>2 DEF begun
  <2>5. NetOK(net') BY <2>2, <2>4, SameCountsOK
  <2>6. /\ sent' \in [app: Nat, mutations: {0}, provider: Nat]
        /\ sent'.app <= sent.app + 1 /\ sent'.provider = sent.provider
    <3>1. sent \in [app: Nat, mutations: {0}, provider: Nat] BY DEF GuardInv
    <3>2. CASE UNCHANGED sent BY <3>1, <3>2
    <3>3. CASE sent' = [sent EXCEPT !.app = @ + 1] BY <3>1, <3>3
    <3> QED BY <1>3, <3>2, <3>3
  <2>7. sent'.app <= net'.requests
    <3>1. sent.app \in Nat /\ net.requests \in Nat /\ sent.app <= net.requests /\ sent'.app \in Nat
      BY <1>0, <2>6, GuardAssumption DEF GuardInv, Net, Counters
    <3> QED BY <2>2, <2>4, <2>6, <3>1 DEF SameCounts
  <2> HIDE DEF begun
  <2> QED BY <1>0, <2>2, <2>4, <2>5, <2>6, <2>7 DEF GuardInv, NetOK, SameCounts, SameEnds
<1>4. PICK method \in {"get", "head"} :
        IF Unwilling(net) \/ ~MayNavigate(net)
        THEN CloseBegins("fail", net, TRUE) /\ UNCHANGED sent
        ELSE IF method = "get"
        THEN op' = "get" /\ net' = WindowOpened(net) /\ UNCHANGED <<held, teardown, sent>>
        ELSE LET begun == HeadBegun(net) IN
             IF begun.violated THEN CloseBegins("fail", begun, TRUE) /\ UNCHANGED sent
             ELSE /\ op' = "head" /\ net' = begun /\ UNCHANGED <<held, teardown>>
                  /\ sent' = [sent EXCEPT !.app = @ + 1]
  BY Zenon DEF Navigate
<1>5. CASE Unwilling(net) \/ ~MayNavigate(net) BY <1>1, <1>4, <1>5
<1>6. CASE ~(Unwilling(net) \/ ~MayNavigate(net)) /\ method = "get" BY <1>2, <1>4, <1>6
<1>7. CASE ~(Unwilling(net) \/ ~MayNavigate(net)) /\ method # "get" BY <1>3, <1>4, <1>7
<1> QED BY <1>5, <1>6, <1>7

LEMMA ApproveKeeps ==
    ASSUME GuardInv, ApproveVerification PROVE GuardInv' /\ net'.up = net.up
<1>0. /\ net \in Net /\ NetOK(net) /\ net.authority = None /\ protocol = "v4"
      /\ UNCHANGED <<protocol, fetch, sent, attempted>>
  BY DEF GuardInv, NetOK, ApproveVerification
<1>1. PICK a \in Authority, late \in BOOLEAN, written \in BOOLEAN :
        IF late \/ ~written
        THEN CloseBegins("fail", [net EXCEPT !.authority = a], TRUE)
        ELSE op' = "none" /\ net' = [net EXCEPT !.authority = a] /\ UNCHANGED <<held, teardown>>
  BY DEF ApproveVerification
<1> DEFINE m == [net EXCEPT !.authority = a]
<1>2. /\ m \in Net /\ m.authority = a /\ m.up = net.up /\ m.violated = net.violated
      /\ m.requests = net.requests /\ m.gets = net.gets /\ m.heads = net.heads
      /\ m.provided = net.provided /\ m.bytes = net.bytes
  BY <1>0 DEF Net
<1>3. Policy[a].requests \in Nat /\ Policy[a].bytes \in Nat /\ a # None
  BY GuardAssumption
<1> HIDE DEF m
<1>4. NetOK(m) BY <1>0, <1>2, <1>3 DEF NetOK
<1>5. SameCounts(m, net') /\ net'.up = m.up
  <2>1. CASE late \/ ~written BY <1>1, <1>2, <2>1, CloseBeginsNet DEF m
  <2>2. CASE ~(late \/ ~written)
    <3>1. net' = m BY <1>1, <2>2 DEF m
    <3> QED BY <1>2, <3>1 DEF SameCounts
  <2> QED BY <2>1, <2>2
<1>6. NetOK(net') BY <1>4, <1>5, SameCountsOK
<1> QED BY <1>0, <1>2, <1>3, <1>5, <1>6 DEF GuardInv, NetOK, SameCounts

LEMMA OpenKeeps ==
    ASSUME GuardInv, OpenEnds
    PROVE  /\ GuardInv' /\ net'.authority = net.authority
           /\ \/ op' = "fail" /\ teardown' = "clean" /\ ~net'.up /\ UNCHANGED <<phase, held>>
              \/ op' = "fail" /\ ~held' /\ UNCHANGED <<phase, teardown>>
              \/ op' = "none" /\ phase' = "observing" /\ held' /\ UNCHANGED teardown
<1>0. net \in Net /\ UNCHANGED <<protocol, fetch, sent, attempted>>
  BY DEF GuardInv, NetOK, OpenEnds
<1>1. CASE /\ op' = "fail" /\ teardown' = "clean"
           /\ net' = [net EXCEPT !.up = FALSE, !.closing = TRUE]
           /\ UNCHANGED <<phase, held>>
  <2>1. /\ net' \in Net /\ ~net'.up /\ net'.violated = net.violated
        /\ net'.requests = net.requests /\ net'.gets = net.gets /\ net'.heads = net.heads
        /\ net'.authority = net.authority /\ net'.provided = net.provided /\ net'.bytes = net.bytes
    BY <1>0, <1>1 DEF Net
  <2>2. QuietStep BY <1>0, <2>1 DEF QuietStep, SameCounts
  <2> QED BY <1>1, <2>1, <2>2, QuietKeeps
<1>2. CASE \E late, written \in BOOLEAN :
              IF late \/ ~written
              THEN CloseBegins("fail", WindowShut(net), Keep(late)) /\ UNCHANGED phase
              ELSE /\ op' = "none" /\ phase' = "observing" /\ held' = TRUE
                   /\ net' = WindowShut(net) /\ UNCHANGED teardown
  <2>1. WindowShut(net) \in Net /\ SameCounts(net, WindowShut(net))
    BY <1>0, SmallNets DEF SameCounts
  <2>2. CASE CloseBegins("fail", WindowShut(net), TRUE) /\ UNCHANGED phase
    <3>1. SameCounts(WindowShut(net), net') BY <2>1, <2>2, CloseBeginsNet
    <3>2. QuietStep BY <1>0, <2>1, <3>1, SameCountsTrans DEF QuietStep
    <3> QED BY <2>2, <3>2, QuietKeeps DEF CloseBegins
  <2>3. CASE /\ op' = "none" /\ phase' = "observing" /\ held' = TRUE
             /\ net' = WindowShut(net) /\ UNCHANGED teardown
    <3>1. QuietStep BY <1>0, <2>1, <2>3 DEF QuietStep
    <3> QED BY <2>3, <3>1, QuietKeeps
  <2> QED BY <1>2, <2>2, <2>3 DEF Keep
<1> QED BY <1>1, <1>2 DEF OpenEnds

LEMMA StartKeeps ==
    ASSUME GuardInv, Start PROVE GuardInv' /\ net'.authority = net.authority
<1>0. net \in Net /\ UNCHANGED <<protocol, fetch, sent, attempted>>
  BY DEF GuardInv, NetOK, Start
<1>1. SameCounts(net, [net EXCEPT !.up = TRUE]) BY <1>0, SmallNets
<1>2. SameCounts([net EXCEPT !.up = TRUE], net') BY <1>1, SmallNets DEF Start, SameCounts
<1> QED BY <1>0, <1>1, <1>2, SameCountsTrans, QuietKeeps DEF QuietStep

\* How a close ends.
LEMMA CloseEndsKeeps ==
    ASSUME GuardInv, CloseEnds
    PROVE  /\ GuardInv' /\ net'.authority = net.authority
           /\ net'.provided = net.provided /\ Summary(net') = Summary(net)
           /\ teardown = "none" => (net'.up => teardown' = "failed")
           /\ teardown # "none" => net'.up = net.up
           /\ completion' # None =>
                /\ op = "finish" /\ SummaryValid(Summary(net))
                /\ completion' = [network |-> Summary(net), verification |-> authority]
                /\ teardown = "none" => teardown' = "clean" /\ ~net'.up /\ ~net.violated
<1>0. net \in Net /\ UNCHANGED <<protocol, fetch, sent, attempted>>
  BY DEF GuardInv, NetOK, CloseEnds
<1>1. PICK failed \in BOOLEAN, written \in BOOLEAN, remains \in BOOLEAN :
        LET had == teardown = "none"
            clean == ~had \/ CleanClose(failed)
        IN
        /\ had \/ ~failed
        /\ remains => failed /\ had
        /\ teardown' = IF failed THEN "failed" ELSE "clean"
        /\ net' = IF had THEN [net EXCEPT !.up = remains] ELSE net
        /\ completion' = IF op = "finish" /\ clean /\ SummaryValid(Summary(net)) /\ written
                         THEN [network |-> Summary(net), verification |-> authority]
                         ELSE None
  BY DEF CloseEnds
<1>2. SameCounts(net, [net EXCEPT !.up = remains]) /\ SameCounts(net, net)
      /\ [net EXCEPT !.up = remains].up = remains
  <2>1. \A b \in BOOLEAN : SameCounts(net, [net EXCEPT !.up = b]) /\ [net EXCEPT !.up = b].up = b
    BY <1>0, SmallNets
  <2>2. SameCounts(net, net) BY <1>0 DEF SameCounts
  <2> QED BY <2>1, <2>2
<1>3. SameCounts(net, net') BY <1>1, <1>2
<1>4. GuardInv' BY <1>0, <1>3, QuietKeeps DEF QuietStep
<1>5. net'.posted = net.posted BY <1>0, <1>1 DEF Net
<1>6. CASE teardown = "none"
  <2>1. net'.up = remains /\ (remains => failed) /\ teardown' = IF failed THEN "failed" ELSE "clean"
    BY <1>1, <1>2, <1>6
  <2>2. completion' # None =>
            /\ op = "finish" /\ SummaryValid(Summary(net)) /\ CleanClose(failed)
            /\ completion' = [network |-> Summary(net), verification |-> authority]
    BY <1>1, <1>6
  <2> QED BY <1>3, <1>4, <1>5, <1>6, <2>1, <2>2 DEF SameCounts, Summary, CleanClose
<1>7. CASE teardown # "none"
  <2>1. net' = net BY <1>1, <1>7
  <2>2. completion' # None =>
            /\ op = "finish" /\ SummaryValid(Summary(net))
            /\ completion' = [network |-> Summary(net), verification |-> authority]
    BY <1>1, <1>7
  <2> QED BY <1>4, <1>7, <2>1, <2>2
<1> QED BY <1>6, <1>7

\* The other steps of the server count nothing, and end nothing.
LEMMA OthersKeep ==
    ASSUME GuardInv,
           \/ Observe \/ ObserveSucceeds \/ OperationFails \/ NavigateSucceeds
           \/ PreviewBegins \/ PreviewSucceeds \/ Review \/ Finish \/ CloseMessage \/ Fails
    PROVE  GuardInv' /\ SameEnds
<1>0. net \in Net /\ SameCounts(net, net) BY DEF GuardInv, NetOK, SameCounts
<1>1. SUFFICES /\ SameCounts(net, net') /\ net'.up = net.up
               /\ UNCHANGED <<protocol, fetch, sent, attempted>>
  BY QuietKeeps DEF QuietStep, SameEnds
<1> DEFINE shut == WindowShut(net)
           blocked == Blocked(net)
<1>2. /\ shut \in Net /\ SameCounts(net, shut) /\ shut.up = net.up
      /\ blocked \in Net /\ SameCounts(net, blocked) /\ blocked.up = net.up
      /\ SameCounts(net, WindowOpened(net)) /\ WindowOpened(net).up = net.up
  BY <1>0, SmallNets DEF SameCounts
<1>3. UNCHANGED <<protocol, fetch, sent, attempted>>
  BY DEF Observe, ObserveSucceeds, OperationFails, NavigateSucceeds, PreviewBegins, PreviewSucceeds,
         Review, Finish, CloseMessage, Fails
<1> HIDE DEF shut, blocked
<1>4. \A n \in Net : ObserveBegins(n) => SameCounts(n, net') /\ net'.up = n.up
  BY ObserveBeginsNet
<1>5. \A n \in Net : \A why, has : CloseBegins(why, n, has) => SameCounts(n, net') /\ net'.up = n.up
  BY CloseBeginsNet
<1>6. CASE Observe BY <1>0, <1>3, <1>4, <1>6 DEF Observe
<1>7. CASE ObserveSucceeds BY <1>0, <1>3, <1>5, <1>7 DEF ObserveSucceeds
<1>8. CASE OperationFails
  <2>1. CloseBegins("fail", shut, TRUE) \/ CloseBegins("fail", blocked, TRUE)
    BY <1>8 DEF OperationFails, shut, blocked
  <2>2. \/ SameCounts(shut, net') /\ net'.up = shut.up
        \/ SameCounts(blocked, net') /\ net'.up = blocked.up
    BY <1>2, <1>5, <2>1
  <2> QED BY <1>2, <1>3, <2>2, SameCountsTrans
<1>9. CASE NavigateSucceeds
  <2>1. CloseBegins("fail", shut, TRUE) \/ net' = shut BY <1>9 DEF NavigateSucceeds, shut
  <2>2. CASE net' = shut BY <1>2, <1>3, <2>2
  <2>3. CASE CloseBegins("fail", shut, TRUE)
    <3>1. SameCounts(shut, net') /\ net'.up = shut.up BY <1>2, <1>5, <2>3
    <3> QED BY <1>2, <1>3, <3>1, SameCountsTrans
  <2> QED BY <2>1, <2>2, <2>3
<1>10. CASE PreviewBegins BY <1>2, <1>3, <1>10 DEF PreviewBegins
<1>11. CASE PreviewSucceeds
  <2>1. ObserveBegins(shut) BY <1>11 DEF PreviewSucceeds, shut
  <2>2. SameCounts(shut, net') /\ net'.up = shut.up BY <1>2, <1>4, <2>1
  <2> QED BY <1>2, <1>3, <2>2, SameCountsTrans
<1>12. CASE Review
  <2>1. net' = net \/ CloseBegins("fail", net, TRUE) BY <1>12 DEF Review
  <2> QED BY <1>0, <1>3, <1>5, <2>1
<1>13. CASE Finish BY <1>0, <1>3, <1>5, <1>13 DEF Finish
<1>14. CASE CloseMessage BY <1>0, <1>3, <1>5, <1>14 DEF CloseMessage
<1>15. CASE Fails BY <1>0, <1>3, <1>5, <1>15 DEF Fails
<1> QED BY <1>6, <1>7, <1>8, <1>9, <1>10, <1>11, <1>12, <1>13, <1>14, <1>15

-----------------------------------------------------------------------------
(* The life of a session *)

\* The server holds its browser from the end of Open until a close begins; a
\* browser nobody holds is down, or is being closed, or its close has failed.
LifeInv ==
    /\ phase \in {"awaiting_start", "observing", "reviewed", "closed"}
    /\ op \in Ops \cup CloseOps
    /\ teardown \in {"none", "clean", "failed"}
    /\ closed => op = "none" /\ ~held /\ (net.up => teardown = "failed")
    /\ op \in CloseOps => ~held /\ (teardown # "none" => ~net.up)
    /\ ~closed /\ op \notin CloseOps => teardown = "none"
    /\ op = "none" /\ ~closed =>
        /\ ~held => phase = "awaiting_start" /\ ~net.up
        /\ held => phase \in {"observing", "reviewed"}
    /\ op = "open" => ~held /\ phase = "awaiting_start"
    /\ op \in {"observe", "get", "head", "preview"} => held /\ phase = "observing"
    /\ op = "finish" => teardown = "none" /\ phase = "reviewed"

LEMMA LifeInit == ASSUME Init PROVE LifeInv
BY DEF Init, GuardInit, LifeInv, Ops, CloseOps, FreshNet

LEMMA LifeStep ==
    ASSUME GuardInv, LifeInv, Next PROVE LifeInv'
<1> USE DEF LifeInv, Ops, CloseOps
<1>1. CASE Start BY <1>1 DEF Start, Idle
<1>2. CASE OpenEnds
  <2>1. op = "open" /\ UNCHANGED closed BY <1>2 DEF OpenEnds
  <2>2. \/ op' = "fail" /\ teardown' = "clean" /\ ~net'.up /\ UNCHANGED <<phase, held>>
        \/ op' = "fail" /\ ~held' /\ UNCHANGED <<phase, teardown>>
        \/ op' = "none" /\ phase' = "observing" /\ held' /\ UNCHANGED teardown
    BY <1>2, OpenKeeps
  <2>3. ~closed /\ ~held /\ phase = "awaiting_start" /\ teardown = "none" BY <2>1
  <2> QED BY <2>1, <2>2, <2>3
<1>3. CASE Observe BY <1>3, OthersKeep DEF Observe, Idle, ObserveBegins, CloseBegins, SameEnds
<1>4. CASE ObserveSucceeds
  <2>1. /\ op = "observe" /\ UNCHANGED <<phase, closed>>
        /\ \/ op' = "none" /\ UNCHANGED <<held, teardown>>
           \/ op' = "fail" /\ ~held' /\ UNCHANGED teardown
    BY <1>4 DEF ObserveSucceeds, CloseBegins
  <2>2. net'.up = net.up BY <1>4, OthersKeep DEF SameEnds
  <2> QED BY <2>1, <2>2
<1>5. CASE OperationFails BY <1>5, OthersKeep DEF OperationFails, CloseBegins, SameEnds
<1>6. CASE Navigate
  <2>1. /\ op = "none" /\ ~closed /\ phase = "observing" /\ UNCHANGED <<phase, closed>>
        /\ net'.up = net.up
    BY <1>6, NavigateKeeps DEF Navigate, Idle, SameEnds
  <2>2. \/ op' = "fail" /\ ~held' /\ UNCHANGED teardown
        \/ op' \in {"get", "head"} /\ UNCHANGED <<held, teardown>>
    BY <1>6 DEF Navigate, CloseBegins
  <2> QED BY <2>1, <2>2
<1>7. CASE NavigateSucceeds
  <2>1. /\ op \in {"get", "head"} /\ UNCHANGED <<phase, closed>>
        /\ \/ op' = "none" /\ UNCHANGED <<held, teardown>>
           \/ op' = "fail" /\ ~held' /\ UNCHANGED teardown
    BY <1>7 DEF NavigateSucceeds, CloseBegins
  <2>2. net'.up = net.up BY <1>7, OthersKeep DEF SameEnds
  <2> QED BY <2>1, <2>2
<1>8. CASE PreviewBegins BY <1>8, OthersKeep DEF PreviewBegins, Idle, SameEnds
<1>9. CASE PreviewSucceeds BY <1>9, OthersKeep DEF PreviewSucceeds, ObserveBegins, CloseBegins, SameEnds
<1>10. CASE ApproveVerification
  <2>1. op = "none" /\ ~closed /\ phase = "observing" /\ UNCHANGED <<phase, closed>>
    BY <1>10 DEF ApproveVerification, Idle
  <2>2. \/ op' = "fail" /\ ~held' /\ UNCHANGED teardown
        \/ op' = "none" /\ UNCHANGED <<held, teardown>>
    BY <1>10 DEF ApproveVerification, CloseBegins
  <2> QED BY <1>10, <2>1, <2>2, ApproveKeeps
<1>11. CASE Review
  <2>1. op = "none" /\ ~closed /\ phase = "observing" /\ phase' = "reviewed" /\ UNCHANGED closed
    BY <1>11 DEF Review, Idle
  <2>2. \/ op' = "fail" /\ ~held' /\ UNCHANGED teardown
        \/ op' = "none" /\ UNCHANGED <<held, teardown>>
    BY <1>11, <2>1 DEF Review, CloseBegins
  <2> QED BY <1>11, <2>1, <2>2, OthersKeep DEF SameEnds
<1>12. CASE Finish BY <1>12, OthersKeep DEF Finish, Idle, CloseBegins, SameEnds
<1>13. CASE CloseMessage BY <1>13, OthersKeep DEF CloseMessage, Idle, CloseBegins, SameEnds
<1>14. CASE Fails BY <1>14, OthersKeep DEF Fails, Idle, CloseBegins, SameEnds
<1>15. CASE CloseEnds
  <2>1. /\ op \in CloseOps /\ closed' = TRUE /\ phase' = "closed" /\ op' = "none" /\ UNCHANGED held
        /\ teardown' \in {"clean", "failed"}
    BY <1>15 DEF CloseEnds
  <2> QED BY <1>15, <2>1, CloseEndsKeeps
<1>16. CASE Cancel BY <1>16 DEF Cancel, guardVars
<1>17. CASE Beside BY <1>17, BrowserKeeps DEF Beside, SameEnds
<1> QED BY <1>1, <1>2, <1>3, <1>4, <1>5, <1>6, <1>7, <1>8, <1>9, <1>10, <1>11, <1>12, <1>13, <1>14,
           <1>15, <1>16, <1>17 DEF Next, Serve

LEMMA GuardInitInv == ASSUME Init PROVE GuardInv
<1>1. 0 \in Counters BY GuardAssumption DEF Counters
<1>2. NetOK(net) BY <1>1, GuardAssumption DEF Init, GuardInit, FreshNet, NetOK, Net
<1>3. /\ net.requests = 0 /\ net.authority = None /\ net.provided = 0
      /\ sent = [app |-> 0, mutations |-> 0, provider |-> 0] /\ attempted = FALSE
      /\ protocol \in Protocol /\ fetch = [f \in Fetch |-> None]
  BY DEF Init, GuardInit, Nothing, FreshNet
<1>4. sent \in [app: Nat, mutations: {0}, provider: Nat] BY <1>3
<1>5. fetch \in [Fetch -> Provider \cup {None}] /\ (\A f \in Fetch : fetch[f] = None) BY <1>3
<1>6. sent.app <= net.requests /\ sent.provider = net.provided BY <1>3
<1>7. attempted \in BOOLEAN /\ ~attempted BY <1>3
<1> QED BY <1>2, <1>3, <1>4, <1>5, <1>6, <1>7 DEF GuardInv

LEMMA GuardStep == ASSUME GuardInv, Next PROVE GuardInv'
<1>1. CASE Cancel BY <1>1 DEF Cancel, guardVars, GuardInv, NetOK
<1>2. CASE Beside BY <1>2, BrowserKeeps DEF Beside
<1>3. CASE Serve
  BY <1>3, StartKeeps, OpenKeeps, OthersKeep, NavigateKeeps, ApproveKeeps, CloseEndsKeeps DEF Serve
<1> QED BY <1>1, <1>2, <1>3 DEF Next

\* A step keeps the guard's authority, but for an approval.
LEMMA AuthorityKept ==
    ASSUME GuardInv, Next, ~ApproveVerification PROVE net'.authority = net.authority
<1>1. CASE Cancel BY <1>1 DEF Cancel, guardVars
<1>2. CASE Beside BY <1>2, BrowserKeeps DEF Beside, SameEnds
<1>3. CASE Serve
  BY <1>3, StartKeeps, OpenKeeps, OthersKeep, NavigateKeeps, CloseEndsKeeps DEF Serve, SameEnds
<1> QED BY <1>1, <1>2, <1>3 DEF Next

-----------------------------------------------------------------------------
(* The authority server and guard agree on *)

\* An authority the server knows is the guard's; the guard may have taken one
\* that came too late for the server only when the session is failing.
AuthInv ==
    /\ authority # None => authority = net.authority
    /\ ~closed /\ op \notin {"close", "fail"} => authority = net.authority

LEMMA AuthStep ==
    ASSUME GuardInv, LifeInv, AuthInv, Next PROVE AuthInv'
<1>1. CASE ApproveVerification
  <2>1. PICK a \in Authority, late \in BOOLEAN, written \in BOOLEAN :
          /\ authority' = IF late THEN None ELSE a
          /\ IF late \/ ~written
             THEN CloseBegins("fail", [net EXCEPT !.authority = a], TRUE)
             ELSE op' = "none" /\ net' = [net EXCEPT !.authority = a] /\ UNCHANGED <<held, teardown>>
    BY <1>1 DEF ApproveVerification
  <2>2. net'.authority = a
    <3> DEFINE m == [net EXCEPT !.authority = a]
    <3>1. m \in Net /\ m.authority = a BY DEF GuardInv, NetOK, Net
    <3>2. CASE late \/ ~written
      <4>1. CloseBegins("fail", m, TRUE) BY <2>1, <3>2
      <4> HIDE DEF m
      <4> QED BY <3>1, <4>1, CloseBeginsNet DEF SameCounts
    <3>3. CASE ~(late \/ ~written) BY <2>1, <3>1, <3>3
    <3> QED BY <3>2, <3>3
  <2>3. CASE late \/ ~written BY <2>1, <2>2, <2>3 DEF CloseBegins, AuthInv
  <2>4. CASE ~(late \/ ~written) BY <2>1, <2>2, <2>4 DEF AuthInv
  <2> QED BY <2>3, <2>4
<1>2. CASE ~ApproveVerification
  <2>1. net'.authority = net.authority BY <1>2, AuthorityKept
  <2>2. UNCHANGED authority
    BY <1>2 DEF Next, Serve, Start, OpenEnds, Observe, ObserveSucceeds, OperationFails, Navigate,
        NavigateSucceeds, PreviewBegins, PreviewSucceeds, Review, Finish, CloseMessage, Fails, CloseEnds,
        Cancel, Beside
  <2>3. (~closed' /\ op' \notin {"close", "fail"}) => (~closed /\ op \notin {"close", "fail"})
    BY <1>2 DEF Next, Serve, Start, OpenEnds, Observe, ObserveSucceeds, OperationFails, Navigate,
        NavigateSucceeds, PreviewBegins, PreviewSucceeds, Review, Finish, CloseMessage, Fails, CloseEnds,
        Cancel, Beside, Idle, guardVars, evidenceVars
  <2> QED BY <2>1, <2>2, <2>3 DEF AuthInv
<1> QED BY <1>1, <1>2

-----------------------------------------------------------------------------
(* The evidence *)

\* The server counts its observations, keeps what the latest one showed, and
\* in v3 and v4 all that was seen.
EvidenceInv ==
    /\ generation \in 0 .. MaxObservations /\ observations \in Nat
    /\ generation <= observations /\ observations <= MaxObservations + 1
    /\ ~closed /\ op \notin CloseOps \cup {"observe"} => observations = generation
    /\ op = "finish" => observations = generation
    /\ op = "observe" => observations = generation + 1 /\ observations <= MaxObservations
    /\ candidates \subseteq Candidate
    /\ \A c \in candidates : c.gen = generation
    /\ seen \in Seq(Observation) /\ Len(seen) = generation
    /\ history = IF Typed THEN seen ELSE <<>>

\* The browser performed a click on c, when c was current, and what it led to
\* is observation g.
Clicked(c, g) == \E k \in clicked : k.of = c /\ k.next = g /\ k.current

\* Every preview kept for evidence, and the one under way, is of a click the
\* browser performed on a current candidate; a candidate is current
\* until a click begins.
PreviewInv ==
    /\ previews \in Seq(Preview)
    /\ ~Typed => previews = <<>>
    /\ \A i \in DOMAIN previews : Clicked(previews[i].of, previews[i].next)
    /\ target # None =>
        /\ Typed /\ target \in Candidate /\ target.gen = generation
        /\ Clicked(target, generation + 1)
        /\ op \in {"preview", "observe"} \cup CloseOps
    /\ candidates # {} /\ ~closed /\ op \notin CloseOps \cup {"preview"} => fresh

LEMMA EvidenceInit == ASSUME Init PROVE EvidenceInv /\ PreviewInv
<1>1. MaxObservations \in Nat BY SessionAssumption
<1>2. /\ candidates = {} /\ observations = 0 /\ generation = 0 /\ history = <<>> /\ previews = <<>>
      /\ seen = <<>> /\ target = None /\ op = "none"
  BY DEF Init
<1>3. seen \in Seq(Observation) /\ Len(seen) = 0 /\ previews \in Seq(Preview) /\ DOMAIN previews = {}
  BY <1>2
<1> QED BY <1>1, <1>2, <1>3 DEF EvidenceInv, PreviewInv, CloseOps

\* A session that begins to fail leaves the evidence as it is.
LEMMA EvidenceFails ==
    ASSUME EvidenceInv, PreviewInv, UNCHANGED <<protocol, evidenceVars, target>>,
           op' \in {"close", "fail"}
    PROVE  EvidenceInv' /\ PreviewInv'
<1>1. UNCHANGED Typed BY DEF Typed
<1>2. EvidenceInv' BY <1>1 DEF EvidenceInv, CloseOps, evidenceVars
<1> QED BY <1>1, <1>2 DEF PreviewInv, Clicked, CloseOps, evidenceVars

\* So does a step between two observations.
LEMMA EvidenceStays ==
    ASSUME EvidenceInv, PreviewInv, UNCHANGED <<protocol, evidenceVars, target>>,
           ~closed, op \notin CloseOps \cup {"observe", "preview"}, op' # "observe"
    PROVE  EvidenceInv' /\ PreviewInv'
<1>1. UNCHANGED Typed BY DEF Typed
<1>2. EvidenceInv' BY <1>1 DEF EvidenceInv, evidenceVars
<1>3. target = None BY DEF PreviewInv
<1> QED BY <1>1, <1>2, <1>3 DEF PreviewInv, Clicked, evidenceVars

\* The beginning of an observation takes its number.
LEMMA EvidenceBegins ==
    ASSUME EvidenceInv, PreviewInv, NEW n, ObserveBegins(n), ~closed, op \in {"none", "preview"},
           UNCHANGED <<protocol, closed, generation, history, previews, seen, fresh, clicked, target>>,
           candidates' = {} \/ (candidates' = candidates /\ op = "none")
    PROVE  EvidenceInv' /\ PreviewInv'
<1>1. UNCHANGED Typed BY DEF Typed
<1>2. /\ observations' = observations + 1
      /\ op' # "fail" => op' = "observe" /\ observations # MaxObservations
  BY DEF ObserveBegins, CloseBegins
<1>3. observations = generation /\ MaxObservations \in Nat
  BY SessionAssumption DEF EvidenceInv, CloseOps
<1>4. EvidenceInv' BY <1>1, <1>2, <1>3 DEF EvidenceInv, CloseOps
<1>5. candidates' # {} => fresh' BY DEF PreviewInv, CloseOps
<1> QED BY <1>1, <1>2, <1>4, <1>5 DEF PreviewInv, Clicked, CloseOps

LEMMA EvidenceSucceeds ==
    ASSUME EvidenceInv, PreviewInv, LifeInv, ObserveSucceeds PROVE EvidenceInv' /\ PreviewInv'
<1>1. op = "observe" /\ ~closed /\ ~closed' /\ observations = generation + 1
      /\ observations <= MaxObservations
  BY DEF ObserveSucceeds, EvidenceInv, LifeInv, CloseOps
<1> DEFINE Saw(page, shows) ==
        /\ generation' = generation + 1
        /\ candidates' = {[gen |-> generation + 1, name |-> n] : n \in shows}
        /\ seen' = Append(seen, [page |-> page, shows |-> shows])
        /\ history' = IF Typed THEN Append(history, [page |-> page, shows |-> shows]) ELSE history
        /\ fresh' = TRUE
        /\ \/ op' = "none" /\ previews' = Recorded
           \/ op' = "fail" /\ previews' = previews
<1>a. \E page \in Page : \E shows \in SUBSET Shows[page] : Saw(page, shows)
  BY DEF ObserveSucceeds, Replaced, CloseBegins
<1>b. PICK page \in Page : \E shows \in SUBSET Shows[page] : Saw(page, shows) BY <1>a
<1>2. PICK shows \in SUBSET Shows[page] : Saw(page, shows) BY <1>b
<1>3. UNCHANGED <<protocol, observations, clicked>> /\ target' = None BY DEF ObserveSucceeds
<1>4. UNCHANGED Typed BY <1>3 DEF Typed
<1>5. generation \in Nat /\ MaxObservations \in Nat BY SessionAssumption DEF EvidenceInv
<1>6. generation' \in 1 .. MaxObservations /\ observations' = generation' BY <1>1, <1>2, <1>3, <1>5
<1>7. [page |-> page, shows |-> shows] \in Observation BY SessionAssumption DEF Observation
<1>8. seen' \in Seq(Observation) /\ Len(seen') = generation' BY <1>2, <1>7 DEF EvidenceInv
<1>9. history' = IF Typed THEN seen' ELSE <<>> BY <1>2 DEF EvidenceInv
<1>10. candidates' \subseteq Candidate /\ \A c \in candidates' : c.gen = generation'
  <2>1. \A n \in shows : n \in Name BY SessionAssumption
  <2> QED BY <1>2, <1>6, <2>1 DEF Candidate
<1>11. EvidenceInv'
  BY <1>1, <1>2, <1>3, <1>4, <1>5, <1>6, <1>8, <1>9, <1>10 DEF EvidenceInv, CloseOps
<1>12. /\ previews' \in Seq(Preview) /\ (~Typed => previews' = <<>>)
       /\ \A i \in DOMAIN previews' : Clicked(previews'[i].of, previews'[i].next)
  <2>1. CASE previews' = previews BY <2>1 DEF PreviewInv
  <2>2. CASE target # None /\ previews' = Append(previews, [of |-> target, next |-> generation + 1])
    <3> DEFINE p == [of |-> target, next |-> generation + 1]
    <3>1. Typed /\ target \in Candidate /\ target.gen = generation /\ Clicked(target, generation + 1)
      BY <2>2 DEF PreviewInv
    <3>2. generation + 1 \in 2 .. MaxObservations BY <1>1, <1>2, <1>5, <1>6, <3>1 DEF Candidate
    <3>3. p \in Preview BY <3>1, <3>2 DEF Preview
    <3>4. Clicked(p.of, p.next) BY <3>1
    <3> HIDE DEF p
    <3>5. previews \in Seq(Preview) BY DEF PreviewInv
    <3>6. previews' = Append(previews, p) BY <2>2 DEF p
    <3>7. previews' \in Seq(Preview) BY <3>3, <3>5, <3>6
    <3>8. ASSUME NEW i \in DOMAIN previews' PROVE Clicked(previews'[i].of, previews'[i].next)
      <4>1. i \in 1 .. Len(previews) + 1 BY <3>5, <3>6, <3>8
      <4>2. CASE i = Len(previews) + 1
        <5>1. previews'[i] = p BY <3>5, <3>6, <4>2
        <5> QED BY <3>4, <5>1
      <4>3. CASE i # Len(previews) + 1
        <5>1. i \in DOMAIN previews /\ previews'[i] = previews[i] BY <3>5, <3>6, <4>1, <4>3
        <5> QED BY <5>1 DEF PreviewInv
      <4> QED BY <4>2, <4>3
    <3> QED BY <3>1, <3>7, <3>8
  <2> QED BY <1>2, <2>1, <2>2 DEF Recorded
<1> QED BY <1>2, <1>3, <1>4, <1>11, <1>12 DEF PreviewInv, Clicked

LEMMA EvidenceStep ==
    ASSUME EvidenceInv, PreviewInv, LifeInv, Next PROVE EvidenceInv' /\ PreviewInv'
<1>1. CASE Start BY <1>1, EvidenceStays DEF Start, Idle, CloseOps
<1>2. CASE OpenEnds
  <2>1. ~closed /\ op = "open" /\ op' # "observe" /\ UNCHANGED <<protocol, evidenceVars, target>>
    BY <1>2 DEF OpenEnds, LifeInv, CloseBegins
  <2> QED BY <2>1, EvidenceStays DEF CloseOps
<1>3. CASE Observe
  <2>1. ObserveBegins(net) /\ op = "none" /\ ~closed
        /\ UNCHANGED <<protocol, closed, candidates, generation, history, previews, seen, fresh, clicked, target>>
    BY <1>3 DEF Observe, Idle
  <2> QED BY <2>1, EvidenceBegins
<1>4. CASE ObserveSucceeds BY <1>4, EvidenceSucceeds
<1>5. CASE OperationFails BY <1>5, EvidenceFails DEF OperationFails, CloseBegins
<1>6. CASE Navigate
  <2>1. /\ op = "none" /\ ~closed /\ candidates' = {} /\ UNCHANGED closed
        /\ UNCHANGED <<protocol, observations, generation, history, previews, seen, clicked, target>>
    BY <1>6 DEF Navigate, Idle, Dropped
  <2>2. op' \in {"fail", "get", "head"} BY <1>6 DEF Navigate, CloseBegins
  <2>3. UNCHANGED Typed BY <2>1 DEF Typed
  <2>4. EvidenceInv' BY <2>1, <2>2, <2>3 DEF EvidenceInv, CloseOps
  <2>5. target = None BY <2>1 DEF PreviewInv, CloseOps
  <2> QED BY <2>1, <2>2, <2>3, <2>4, <2>5 DEF PreviewInv, Clicked
<1>7. CASE NavigateSucceeds
  <2>1. ~closed /\ op \in {"get", "head"} /\ op' # "observe" /\ UNCHANGED <<protocol, evidenceVars, target>>
    BY <1>7 DEF NavigateSucceeds, LifeInv, CloseBegins
  <2> QED BY <2>1, EvidenceStays DEF CloseOps
<1>8. CASE PreviewBegins
  <2>1. /\ op = "none" /\ ~closed /\ Typed /\ op' = "preview"
        /\ UNCHANGED <<protocol, closed, candidates, observations, generation, history, previews, seen>>
    BY <1>8 DEF PreviewBegins, Idle
  <2>2. PICK c \in candidates :
          /\ target' = c
          /\ clicked' = clicked \cup
                {[of |-> c, next |-> Len(seen) + 1, current |-> fresh /\ c.gen = Len(seen)]}
    BY <1>8 DEF PreviewBegins
  <2>3. c \in Candidate /\ c.gen = generation /\ Len(seen) = generation BY DEF EvidenceInv
  <2>4. fresh BY <2>1 DEF PreviewInv, CloseOps
  <2>5. Clicked(c, generation + 1)'
    <3> DEFINE k == [of |-> c, next |-> Len(seen) + 1, current |-> fresh /\ c.gen = Len(seen)]
    <3>1. k \in clicked' /\ k.of = c /\ k.next = generation + 1 /\ k.current BY <2>2, <2>3, <2>4
    <3>2. generation' = generation BY <2>1
    <3> HIDE DEF k
    <3> QED BY <3>1, <3>2 DEF Clicked
  <2>6. \A d, g : Clicked(d, g) => \E k \in clicked' : k.of = d /\ k.next = g /\ k.current
    BY <2>2 DEF Clicked
  <2>7. UNCHANGED Typed BY <2>1 DEF Typed
  <2>8. EvidenceInv' BY <2>1, <2>7 DEF EvidenceInv, CloseOps
  <2>9. \A i \in DOMAIN previews : \E k \in clicked' :
            k.of = previews[i].of /\ k.next = previews[i].next /\ k.current
    BY <2>6 DEF PreviewInv
  <2> QED BY <2>1, <2>2, <2>3, <2>5, <2>7, <2>8, <2>9 DEF PreviewInv, Clicked
<1>9. CASE PreviewSucceeds
  <2>1. ObserveBegins(WindowShut(net)) /\ op = "preview" /\ ~closed /\ candidates' = {}
        /\ UNCHANGED <<protocol, closed, generation, history, previews, seen, fresh, clicked, target>>
    BY <1>9 DEF PreviewSucceeds, LifeInv
  <2> QED BY <2>1, EvidenceBegins
<1>10. CASE ApproveVerification
  <2>1. ~closed /\ op = "none" /\ op' # "observe" /\ UNCHANGED <<protocol, evidenceVars, target>>
    BY <1>10 DEF ApproveVerification, Idle, CloseBegins
  <2> QED BY <2>1, EvidenceStays DEF CloseOps
<1>11. CASE Review
  <2>1. ~closed /\ op = "none" /\ op' # "observe" /\ UNCHANGED <<protocol, evidenceVars, target>>
    BY <1>11 DEF Review, Idle, CloseBegins
  <2> QED BY <2>1, EvidenceStays DEF CloseOps
<1>12. CASE Finish BY <1>12, EvidenceStays DEF Finish, Idle, CloseBegins, CloseOps
<1>13. CASE CloseMessage BY <1>13, EvidenceFails DEF CloseMessage, CloseBegins
<1>14. CASE Fails BY <1>14, EvidenceFails DEF Fails, CloseBegins
<1>15. CASE CloseEnds
  <2>1. closed' = TRUE /\ op' = "none" /\ target' = None /\ UNCHANGED <<protocol, evidenceVars>>
    BY <1>15 DEF CloseEnds
  <2>2. UNCHANGED Typed BY <2>1 DEF Typed
  <2>3. EvidenceInv' BY <2>1, <2>2 DEF EvidenceInv, evidenceVars
  <2> QED BY <2>1, <2>2, <2>3 DEF PreviewInv, Clicked, evidenceVars
<1>16. CASE UNCHANGED <<protocol, evidenceVars, target, closed, op>>
  <2>1. UNCHANGED Typed BY <1>16 DEF Typed
  <2>2. EvidenceInv' BY <1>16, <2>1 DEF EvidenceInv, evidenceVars
  <2> QED BY <1>16, <2>1, <2>2 DEF PreviewInv, Clicked, evidenceVars
<1>17. Cancel => UNCHANGED <<protocol, evidenceVars, target, closed, op>> BY DEF Cancel
<1>18. Beside => UNCHANGED <<protocol, evidenceVars, target, closed, op>>
  BY DEF Beside, BrowserEvent, AppRequest, FrameRequest, SurfaceEvent, PhaseEnds, ProviderRequest, ProviderAnswer
<1> QED BY <1>1, <1>2, <1>3, <1>4, <1>5, <1>6, <1>7, <1>8, <1>9, <1>10, <1>11, <1>12, <1>13, <1>14,
           <1>15, <1>16, <1>17, <1>18 DEF Next, Serve

\* A set of numbers has a least one: the intervals up to its members are finite
\* sets, and so one of them is minimal among them.
LEMMA Least ==
    ASSUME NEW T \in SUBSET Nat, T # {}
    PROVE  \E k \in T : \A j \in T : k <= j
<1> DEFINE Upto == {0 .. k : k \in T}
<1>1. Upto \subseteq FiniteSubsetsOf(Nat) /\ Upto # {}
  <2>1. \A k \in T : 0 .. k \in SUBSET Nat /\ IsFiniteSet(0 .. k) BY FS_Interval
  <2> QED BY <2>1 DEF FiniteSubsetsOf
<1>2. IsWellFoundedOn(StrictSubsetOrdering(Nat), FiniteSubsetsOf(Nat))
  BY FS_StrictSubsetOrderingWellFounded
<1>3. PICK S \in Upto : \A U \in Upto : ~(<<U, S>> \in StrictSubsetOrdering(Nat))
  <2> HIDE DEF Upto
  <2> QED BY <1>1, <1>2, WFMin
<1>4. PICK k \in T : S = 0 .. k BY <1>3
<1>5. ASSUME NEW j \in T PROVE k <= j
  <2>1. <<0 .. j, 0 .. k>> \notin StrictSubsetOrdering(Nat) BY <1>3, <1>4, <1>5
  <2>2. 0 .. j \subseteq 0 .. k => 0 .. j = 0 .. k
    BY <2>1, <1>4, <1>5 DEF StrictSubsetOrdering
  <2>3. k \in Nat /\ j \in Nat BY <1>4, <1>5
  <2>4. j < k => 0 .. j \subseteq 0 .. k /\ k \in 0 .. k /\ k \notin 0 .. j BY <2>3
  <2> QED BY <2>2, <2>3, <2>4
<1> QED BY <1>5


-----------------------------------------------------------------------------
(* The walk over a recipe *)

IsWalk(s) ==
    /\ s = [ok |-> s.ok, page |-> s.page, gen |-> s.gen, submitted |-> s.submitted]
    /\ s.ok \in BOOLEAN /\ s.submitted \in BOOLEAN /\ s.gen \in Nat

WalkOf(w, seq, clicks, flow, binding) ==
    w = [i \in 0 .. Len(flow) |->
            IF i = 0 THEN WalkStart ELSE WalkStep(seq, clicks, flow[i], binding[i], w[i - 1])]

\* The walk is a function: there is one that begins at its start and takes a
\* step for each step of the recipe.
LEMMA WalkExists ==
    ASSUME NEW seq, NEW clicks, NEW flow, NEW binding, Len(flow) \in Nat
    PROVE  \E w : WalkOf(w, seq, clicks, flow, binding)
<1> DEFINE Next1(i, s) == WalkStep(seq, clicks, flow[i], binding[i], s)
           Upto(n, w) == w = [i \in 0 .. n |-> IF i = 0 THEN WalkStart ELSE Next1(i, w[i - 1])]
           Without == {n \in Nat : ~\E w : Upto(n, w)}
<1> HIDE DEF Next1
<1>1. Without = {}
  <2> SUFFICES ASSUME Without # {} PROVE FALSE OBVIOUS
  <2>1. PICK n \in Without : \A j \in Without : n <= j
    <3>1. Without \in SUBSET Nat OBVIOUS
    <3> HIDE DEF Without
    <3> QED BY <3>1, Least
  <2>2. n \in Nat /\ ~\E w : Upto(n, w) OBVIOUS
  <2>3. n # 0
    <3> SUFFICES ASSUME n = 0 PROVE FALSE OBVIOUS
    <3>1. Upto(0, [i \in 0 .. 0 |-> WalkStart]) OBVIOUS
    <3> QED BY <2>2, <3>1
  <2>4. n - 1 \in Nat /\ n - 1 \notin Without
    <3> HIDE DEF Without, Upto
    <3> QED BY <2>1, <2>2, <2>3
  <2>5. PICK v : Upto(n - 1, v) BY <2>4
  <2> DEFINE w == [i \in 0 .. n |-> IF i = n THEN Next1(n, v[n - 1]) ELSE v[i]]
  <2>6. w = [i \in 0 .. n |-> IF i = 0 THEN WalkStart ELSE Next1(i, w[i - 1])]
    <3>1. ASSUME NEW i \in 0 .. n PROVE w[i] = IF i = 0 THEN WalkStart ELSE Next1(i, w[i - 1])
      <4>1. CASE i = n BY <2>2, <2>3, <4>1
      <4>2. CASE i # n
        <5>1. i \in 0 .. n - 1 /\ (i # 0 => i - 1 \in 0 .. n - 1 /\ i - 1 # n) BY <2>2, <4>2
        <5>2. v[i] = IF i = 0 THEN WalkStart ELSE Next1(i, v[i - 1]) BY <2>5, <5>1
        <5>3. w[i] = v[i] /\ (i # 0 => w[i - 1] = v[i - 1]) BY <2>2, <4>2, <5>1
        <5> QED BY <5>2, <5>3
      <4> QED BY <4>1, <4>2
    <3>2. w = [i \in 0 .. n |-> w[i]] OBVIOUS
    <3> HIDE DEF w
    <3> QED BY <3>1, <3>2
  <2>7. Upto(n, w)
    <3> HIDE DEF w
    <3> QED BY <2>6
  <2> QED BY <2>2, <2>7
<1>2. \E w : Upto(Len(flow), w) BY <1>1
<1> QED BY <1>2 DEF Next1, WalkOf

\* One step of the walk.
LEMMA WalkStepOK ==
    ASSUME NEW seq, DOMAIN seq \subseteq Nat, NEW clicks, NEW step, NEW c, NEW was, IsWalk(was)
    PROVE  LET n == WalkStep(seq, clicks, step, c, was) IN
           /\ IsWalk(n)
           /\ n.ok => was.ok
           /\ was.gen <= n.gen
           /\ n.ok /\ step.do = "click" =>
                /\ PreviewedTo(clicks, c) # {} /\ n.gen = c.gen
                /\ n.page = seq[CHOOSE g \in PreviewedTo(clicks, c) : TRUE].page
           /\ n.ok /\ step.do \notin {"navigate", "click"} => n.page = was.page
           /\ n.ok /\ c # None => c.gen \in Nat /\ c.gen >= was.gen /\ seq[c.gen].page = was.page
<1> DEFINE bound == /\ Observed(seq, c) /\ c.name = step.on /\ c.name \in Portable
                    /\ c.gen >= was.gen /\ seq[c.gen].page = was.page
           n == WalkStep(seq, clicks, step, c, was)
           led == seq[CHOOSE g \in PreviewedTo(clicks, c) : TRUE].page
<1>0. was = [ok |-> was.ok, page |-> was.page, gen |-> was.gen, submitted |-> was.submitted]
      /\ was.ok \in BOOLEAN /\ was.submitted \in BOOLEAN /\ was.gen \in Nat
  BY DEF IsWalk
<1>1. CASE step.do = "navigate"
  <2> DEFINE b == was.ok /\ c = None
  <2>1. n = [was EXCEPT !.ok = b, !.page = step.on] BY <1>1 DEF WalkStep
  <2>2. b \in BOOLEAN /\ (b => was.ok /\ c = None) OBVIOUS
  <2> HIDE DEF b, n
  <2>3. n = [ok |-> b, page |-> step.on, gen |-> was.gen, submitted |-> was.submitted] BY <1>0, <2>1
  <2>4. n.ok = b /\ n.page = step.on /\ n.gen = was.gen /\ n.submitted = was.submitted BY <2>3
  <2>5. IsWalk(n) BY <1>0, <2>2, <2>3, <2>4 DEF IsWalk
  <2> QED BY <1>0, <1>1, <2>2, <2>4, <2>5 DEF n
<1>2. CASE step.do = "success" /\ was.submitted /\ c = None
  <2>1. n = was BY <1>2 DEF WalkStep
  <2> HIDE DEF n
  <2> QED BY <1>0, <1>2, <2>1 DEF n
<1>3. CASE step.do = "click" /\ bound /\ PreviewedTo(clicks, c) # {}
  <2>1. n = [was EXCEPT !.gen = c.gen, !.page = led] BY <1>3 DEF WalkStep
  <2>2. c.gen \in Nat /\ c.gen >= was.gen /\ seq[c.gen].page = was.page BY <1>3 DEF Observed
  <2> HIDE DEF n, led
  <2>3. n = [ok |-> was.ok, page |-> led, gen |-> c.gen, submitted |-> was.submitted] BY <1>0, <2>1
  <2>4. n.ok = was.ok /\ n.page = led /\ n.gen = c.gen /\ n.submitted = was.submitted BY <2>3
  <2>5. IsWalk(n) BY <1>0, <2>2, <2>3, <2>4 DEF IsWalk
  <2> QED BY <1>0, <1>3, <2>2, <2>4, <2>5 DEF n, led
<1>4. CASE n = [was EXCEPT !.ok = FALSE]
  <2> HIDE DEF n
  <2>1. n = [ok |-> FALSE, page |-> was.page, gen |-> was.gen, submitted |-> was.submitted] BY <1>0, <1>4
  <2>2. IsWalk(n) /\ ~n.ok /\ n.gen = was.gen BY <1>0, <2>1 DEF IsWalk
  <2> QED BY <1>0, <2>2 DEF n
<1>5. CASE /\ step.do \notin {"navigate", "click"} /\ bound
           /\ ~(step.do = "success" /\ was.submitted /\ c = None)
  <2> DEFINE b == was.submitted \/ step.do = "submit"
  <2>1. n = [was EXCEPT !.gen = c.gen, !.submitted = b] BY <1>5 DEF WalkStep
  <2>2. c.gen \in Nat /\ c.gen >= was.gen /\ seq[c.gen].page = was.page BY <1>5 DEF Observed
  <2>3. b \in BOOLEAN OBVIOUS
  <2> HIDE DEF n, b
  <2>4. n = [ok |-> was.ok, page |-> was.page, gen |-> c.gen, submitted |-> b] BY <1>0, <2>1
  <2>5. n.ok = was.ok /\ n.page = was.page /\ n.gen = c.gen /\ n.submitted = b BY <2>4
  <2>6. IsWalk(n) BY <1>0, <2>2, <2>3, <2>4, <2>5 DEF IsWalk
  <2> QED BY <1>0, <1>5, <2>2, <2>5, <2>6 DEF n
<1>6. \/ step.do = "navigate"
      \/ step.do = "success" /\ was.submitted /\ c = None
      \/ step.do = "click" /\ bound /\ PreviewedTo(clicks, c) # {}
      \/ n = [was EXCEPT !.ok = FALSE]
      \/ /\ step.do \notin {"navigate", "click"} /\ bound
         /\ ~(step.do = "success" /\ was.submitted /\ c = None)
  BY DEF WalkStep
<1> QED BY <1>1, <1>2, <1>3, <1>4, <1>5, <1>6

\* Up to the next navigation or click, what is bound after click i is bound to
\* the page that click led to, and not to what was seen before it.
ClickLeads(seq, clicks, flow, binding, i) ==
    \E led \in PreviewedTo(clicks, binding[i]) : \A j \in 1 .. Len(flow) :
        /\ j > i /\ binding[j] # None
        /\ \A m \in i + 1 .. j - 1 : flow[m].do \notin {"navigate", "click"}
        => binding[j].gen >= binding[i].gen /\ seq[binding[j].gen].page = seq[led].page

\* A walk that succeeds says so of every click of the recipe.
LEMMA WalkSays ==
    ASSUME NEW seq, DOMAIN seq \subseteq Nat, NEW clicks, NEW flow, NEW binding,
           Len(flow) \in Nat, Walk(seq, clicks, flow, binding),
           NEW i \in 1 .. Len(flow), flow[i].do = "click"
    PROVE  ClickLeads(seq, clicks, flow, binding, i)
<1> DEFINE Walked(w) == WalkOf(w, seq, clicks, flow, binding)
          Led(k) == seq[CHOOSE g \in PreviewedTo(clicks, binding[k]) : TRUE].page
<1>1. PICK w : Walked(w) /\ w[Len(flow)].ok
  <2>1. \E w : Walked(w) BY WalkExists
  <2> DEFINE c == CHOOSE w : Walked(w)
  <2>2. Walked(c)
    <3> HIDE DEF Walked
    <3> QED BY <2>1
  <2>3. Walk(seq, clicks, flow, binding) = c[Len(flow)].ok BY Zenon DEF Walk, WalkOf
  <2> HIDE DEF c, Walked
  <2> QED BY <2>2, <2>3
<1>2. w[0] = WalkStart BY <1>1 DEF WalkOf
<1>3. \A k \in 1 .. Len(flow) : w[k] = WalkStep(seq, clicks, flow[k], binding[k], w[k - 1])
  BY <1>1 DEF WalkOf
<1> HIDE DEF Walked, Led
\* Every state of the walk is one, ...
<1>4. \A k \in 0 .. Len(flow) : IsWalk(w[k])
  <2> DEFINE Bad == {k \in 0 .. Len(flow) : ~IsWalk(w[k])}
  <2> SUFFICES ASSUME Bad # {} PROVE FALSE OBVIOUS
  <2>1. PICK k \in Bad : \A j \in Bad : k <= j
    <3>1. Bad \in SUBSET Nat OBVIOUS
    <3> HIDE DEF Bad
    <3> QED BY <3>1, Least
  <2>2. k \in 0 .. Len(flow) /\ ~IsWalk(w[k]) OBVIOUS
  <2>3. k # 0
    <3>1. IsWalk(WalkStart) BY DEF IsWalk, WalkStart
    <3> QED BY <1>2, <2>2, <3>1
  <2>4. k \in 1 .. Len(flow) /\ k - 1 \in 0 .. Len(flow) BY <2>2, <2>3
  <2>5. k - 1 \notin Bad
    <3> HIDE DEF Bad
    <3> QED BY <2>1, <2>2
  <2>6. IsWalk(w[k - 1]) BY <2>4, <2>5
  <2>7. IsWalk(WalkStep(seq, clicks, flow[k], binding[k], w[k - 1])) BY <2>6, WalkStepOK
  <2>8. IsWalk(w[k]) BY <1>3, <2>4, <2>7
  <2> QED BY <2>2, <2>8
<1>5. ASSUME NEW k \in 1 .. Len(flow)
      PROVE  /\ w[k].ok => w[k - 1].ok
             /\ w[k - 1].gen <= w[k].gen
             /\ w[k].ok /\ flow[k].do = "click" =>
                  /\ PreviewedTo(clicks, binding[k]) # {} /\ w[k].gen = binding[k].gen
                  /\ w[k].page = Led(k)
             /\ w[k].ok /\ flow[k].do \notin {"navigate", "click"} => w[k].page = w[k - 1].page
             /\ w[k].ok /\ binding[k] # None =>
                  /\ binding[k].gen \in Nat /\ binding[k].gen >= w[k - 1].gen
                  /\ seq[binding[k].gen].page = w[k - 1].page
  <2> DEFINE was == w[k - 1]
             n == WalkStep(seq, clicks, flow[k], binding[k], was)
  <2>1. k - 1 \in 0 .. Len(flow) OBVIOUS
  <2>2. w[k] = n BY <1>3
  <2>3. IsWalk(was) BY <1>4, <2>1
  <2> HIDE DEF was
  <2>4. /\ n.ok => was.ok
        /\ was.gen <= n.gen
        /\ n.ok /\ flow[k].do = "click" =>
             /\ PreviewedTo(clicks, binding[k]) # {} /\ n.gen = binding[k].gen
             /\ n.page = Led(k)
        /\ n.ok /\ flow[k].do \notin {"navigate", "click"} => n.page = was.page
        /\ n.ok /\ binding[k] # None =>
             /\ binding[k].gen \in Nat /\ binding[k].gen >= was.gen
             /\ seq[binding[k].gen].page = was.page
    BY <2>3, WalkStepOK DEF Led
  <2> HIDE DEF n
  <2> QED BY <2>2, <2>4 DEF was
\* ... and none has failed.
<1>6. \A k \in 0 .. Len(flow) : w[k].ok
  <2> DEFINE Bad == {k \in 0 .. Len(flow) : ~w[Len(flow) - k].ok}
  <2>1. Bad = {}
    <3> SUFFICES ASSUME Bad # {} PROVE FALSE OBVIOUS
    <3>1. PICK k \in Bad : \A j \in Bad : k <= j
      <4>1. Bad \in SUBSET Nat OBVIOUS
      <4> HIDE DEF Bad
      <4> QED BY <4>1, Least
    <3>2. k \in 0 .. Len(flow) /\ ~w[Len(flow) - k].ok OBVIOUS
    <3>3. k # 0 BY <1>1, <3>2
    <3>4. k - 1 \in 0 .. Len(flow) /\ Len(flow) - k + 1 \in 1 .. Len(flow) BY <3>2, <3>3
    <3>5. k - 1 \notin Bad
      <4> HIDE DEF Bad
      <4> QED BY <3>1, <3>2
    <3>6. w[Len(flow) - (k - 1)].ok BY <3>4, <3>5
    <3>7. Len(flow) - (k - 1) = Len(flow) - k + 1 /\ Len(flow) - k + 1 - 1 = Len(flow) - k BY <3>2
    <3> DEFINE n == Len(flow) - k + 1
    <3>8. n \in 1 .. Len(flow) /\ w[n].ok BY <3>4, <3>6, <3>7
    <3>9. w[n - 1].ok
      <4> HIDE DEF n
      <4> QED BY <1>5, <3>8
    <3>10. w[Len(flow) - k].ok BY <3>7, <3>9
    <3> QED BY <3>2, <3>10
  <2>2. ASSUME NEW k \in 0 .. Len(flow) PROVE w[k].ok
    <3>1. Len(flow) - k \in 0 .. Len(flow) /\ Len(flow) - (Len(flow) - k) = k OBVIOUS
    <3>2. Len(flow) - k \notin Bad
      <4> HIDE DEF Bad
      <4> QED BY <2>1
    <3> QED BY <3>1, <3>2
  <2> QED BY <2>2
<1>7. /\ PreviewedTo(clicks, binding[i]) # {} /\ w[i].gen = binding[i].gen
      /\ w[i].page = Led(i)
  <2>1. w[i].ok BY <1>6
  <2> QED BY <1>5, <2>1
<1>8. ASSUME NEW j \in 1 .. Len(flow), j > i, binding[j] # None,
             \A m \in i + 1 .. j - 1 : flow[m].do \notin {"navigate", "click"}
      PROVE  binding[j].gen >= binding[i].gen /\ seq[binding[j].gen].page = w[i].page
  \* Between the two nothing leaves the page.
  <2> DEFINE Bad == {k \in i .. j - 1 : ~(w[k].page = w[i].page /\ w[i].gen <= w[k].gen)}
  <2>0. \A k \in 0 .. Len(flow) : w[k].gen \in Nat BY <1>4 DEF IsWalk
  <2>1. Bad = {}
    <3> SUFFICES ASSUME Bad # {} PROVE FALSE OBVIOUS
    <3>1. PICK k \in Bad : \A n \in Bad : k <= n
      <4>1. Bad \in SUBSET Nat OBVIOUS
      <4> HIDE DEF Bad
      <4> QED BY <4>1, Least
    <3>2. k \in i .. j - 1 /\ ~(w[k].page = w[i].page /\ w[i].gen <= w[k].gen) OBVIOUS
    <3>3. k # i BY <2>0, <3>2
    <3>4. k - 1 \in i .. j - 1 /\ k \in i + 1 .. j - 1 /\ k \in 1 .. Len(flow) /\ k - 1 \in 0 .. Len(flow)
      BY <1>8, <3>2, <3>3
    <3>5. k - 1 \notin Bad
      <4> HIDE DEF Bad
      <4> QED BY <3>1, <3>2
    <3>6. w[k - 1].page = w[i].page /\ w[i].gen <= w[k - 1].gen BY <3>4, <3>5
    <3>7. flow[k].do \notin {"navigate", "click"} /\ w[k].ok BY <1>6, <1>8, <3>4
    <3>8. w[k].page = w[k - 1].page /\ w[k - 1].gen <= w[k].gen BY <1>5, <3>4, <3>7
    <3> QED BY <2>0, <3>2, <3>4, <3>6, <3>8
  <2>2. j - 1 \in i .. j - 1 /\ j - 1 \in 0 .. Len(flow) BY <1>8
  <2>3. w[j - 1].page = w[i].page /\ w[i].gen <= w[j - 1].gen BY <2>1, <2>2
  <2>4. /\ binding[j].gen \in Nat /\ binding[j].gen >= w[j - 1].gen
        /\ seq[binding[j].gen].page = w[j - 1].page
    <3>1. w[j].ok BY <1>6
    <3> QED BY <1>5, <1>8, <3>1
  <2>5. w[i].gen \in Nat /\ w[j - 1].gen \in Nat BY <2>0, <2>2
  <2> QED BY <1>7, <2>3, <2>4, <2>5
<1> DEFINE led == CHOOSE g \in PreviewedTo(clicks, binding[i]) : TRUE
<1>9. led \in PreviewedTo(clicks, binding[i]) /\ w[i].page = seq[led].page BY <1>7 DEF Led
<1> HIDE DEF led
<1> QED BY <1>8, <1>9 DEF ClickLeads

-----------------------------------------------------------------------------
(* The review *)

\* What was reviewed rests on the evidence as it is now.
ReviewHolds ==
    /\ fresh /\ generation \in 1 .. MaxObservations
    /\ review.flow \in Flow
    /\ Cardinality(review.selected) <= MaxCandidates
    /\ OneSubmit(review.flow, review.selected)
    /\ \A c \in review.selected : c.name \in Portable
    /\ IF Typed
       THEN /\ review.binding \in Bindings(review.flow)
            /\ TypedEvidence(protocol, history, previews, review.flow, review.binding, review.selected,
                             ProviderOf(review.verification))
       ELSE \A c \in review.selected : c.gen = generation
    /\ review.verification = IF protocol = "v4" THEN authority ELSE None

\* A review, once given, is of a session that does nothing more.
ReviewInv ==
    /\ review # None => phase \in {"reviewed", "closed"} /\ ReviewHolds
    /\ op = "finish" => review # None

LEMMA ReviewedQuiet ==
    ASSUME LifeInv, phase \in {"reviewed", "closed"}, Next
    PROVE  /\ UNCHANGED <<protocol, evidenceVars, authority, review>>
           /\ phase' \in {"reviewed", "closed"}
<1>1. CASE phase = "closed"
  <2>1. CASE closed
    <3>1. op = "none" BY <2>1 DEF LifeInv
    <3>2. Beside BY <2>1, <3>1 DEF Next, Serve, Start, OpenEnds, Observe, ObserveSucceeds, OperationFails,
        Navigate, NavigateSucceeds, PreviewBegins, PreviewSucceeds, ApproveVerification, Review, Finish,
        CloseMessage, Fails, CloseEnds, Cancel, Idle, CloseOps
    <3> QED BY <1>1, <3>2 DEF Beside, BrowserEvent, AppRequest, FrameRequest, SurfaceEvent, PhaseEnds,
        ProviderRequest, ProviderAnswer
  <2>2. CASE ~closed
    <3>1. \/ op \in CloseOps
          \/ op = "none" /\ ~held
      BY <1>1, <2>2 DEF LifeInv, Ops
    <3>2. op \in CloseOps BY <1>1, <2>2, <3>1 DEF LifeInv
    <3> QED BY <1>1, <2>2, <3>2 DEF Next, Serve, Start, OpenEnds, Observe, ObserveSucceeds, OperationFails,
        Navigate, NavigateSucceeds, PreviewBegins, PreviewSucceeds, ApproveVerification, Review, Finish,
        CloseMessage, Fails, CloseEnds, Cancel, Idle, CloseOps, Beside, BrowserEvent, AppRequest,
        FrameRequest, SurfaceEvent, PhaseEnds, ProviderRequest, ProviderAnswer
  <2> QED BY <2>1, <2>2
<1>2. CASE phase = "reviewed"
  <2>1. op \notin {"open", "observe", "get", "head", "preview"} BY <1>2 DEF LifeInv
  <2>2. \/ Finish \/ CloseMessage \/ Fails \/ CloseEnds \/ Cancel \/ Beside
    BY <1>2, <2>1 DEF Next, Serve, Start, OpenEnds, Observe, ObserveSucceeds, OperationFails, Navigate,
        NavigateSucceeds, PreviewBegins, PreviewSucceeds, ApproveVerification, Review
  <2> QED BY <1>2, <2>2 DEF Finish, CloseMessage, Fails, CloseEnds, Cancel, Beside, BrowserEvent, AppRequest,
        FrameRequest, SurfaceEvent, PhaseEnds, ProviderRequest, ProviderAnswer
<1> QED BY <1>1, <1>2

LEMMA ReviewGiven ==
    ASSUME GuardInv, EvidenceInv, PreviewInv, Review PROVE ReviewHolds'
<1>1. PICK flow \in Flow, a \in Authority \cup {None} :
       \E binding \in IF Typed THEN Bindings(flow) ELSE {[i \in DOMAIN flow |-> None]} :
       \E selected \in IF Typed THEN {Range(binding) \ {None}} ELSE SUBSET candidates :
        /\ protocol # "v4" => a = None
        /\ Reviewable(flow, binding, selected, a)
        /\ review' = [flow |-> flow, binding |-> binding, selected |-> selected, verification |-> a]
  BY DEF Review
<1>2. PICK binding \in IF Typed THEN Bindings(flow) ELSE {[i \in DOMAIN flow |-> None]} :
       \E selected \in IF Typed THEN {Range(binding) \ {None}} ELSE SUBSET candidates :
        /\ protocol # "v4" => a = None
        /\ Reviewable(flow, binding, selected, a)
        /\ review' = [flow |-> flow, binding |-> binding, selected |-> selected, verification |-> a]
  BY <1>1
<1>3. PICK selected \in IF Typed THEN {Range(binding) \ {None}} ELSE SUBSET candidates :
        /\ protocol # "v4" => a = None
        /\ Reviewable(flow, binding, selected, a)
        /\ review' = [flow |-> flow, binding |-> binding, selected |-> selected, verification |-> a]
  BY <1>2
<1>4. /\ review'.flow = flow /\ review'.binding = binding /\ review'.selected = selected
      /\ review'.verification = a
  BY <1>3
<1>5. op = "none" /\ ~closed /\ UNCHANGED <<protocol, evidenceVars, authority>> BY DEF Review, Idle
<1>6. UNCHANGED Typed BY <1>5 DEF Typed
<1>7. /\ candidates # {} /\ Cardinality(selected) <= MaxCandidates
      /\ OneSubmit(flow, selected)
      /\ \A c \in selected : c.name \in Portable
  BY <1>3 DEF Reviewable
<1>8. fresh /\ generation \in 1 .. MaxObservations
  <2>1. PICK c \in candidates : TRUE BY <1>7
  <2>2. c \in Candidate /\ c.gen = generation BY DEF EvidenceInv
  <2> QED BY <1>5, <1>7, <2>2 DEF PreviewInv, CloseOps, Candidate
<1>9. a = IF protocol = "v4" THEN authority ELSE None
  BY <1>3 DEF Reviewable, Typed
<1>10. CASE Typed
  <2>1. /\ binding \in Bindings(flow)
        /\ TypedEvidence(protocol, history, previews, flow, binding, selected, ProviderOf(a))
    BY <1>2, <1>3, <1>10 DEF Reviewable
  <2>2. (binding \in Bindings(flow))' BY <1>5, <2>1 DEF Bindings, evidenceVars
  <2> QED BY <1>4, <1>5, <1>6, <1>7, <1>8, <1>9, <1>10, <2>1, <2>2 DEF ReviewHolds, evidenceVars
<1>11. CASE ~Typed
  <2>1. \A c \in selected : c.gen = generation BY <1>3, <1>11 DEF EvidenceInv
  <2> QED BY <1>4, <1>5, <1>6, <1>7, <1>8, <1>9, <1>11, <2>1 DEF ReviewHolds, evidenceVars
<1> QED BY <1>10, <1>11

LEMMA ReviewStep ==
    ASSUME GuardInv, LifeInv, EvidenceInv, PreviewInv, ReviewInv, Next PROVE ReviewInv'
<1>1. CASE phase \in {"reviewed", "closed"}
  <2>1. /\ UNCHANGED <<protocol, evidenceVars, authority, review>>
        /\ phase' \in {"reviewed", "closed"}
    BY <1>1, ReviewedQuiet
  <2>2. ReviewHolds => ReviewHolds' BY <2>1 DEF ReviewHolds, evidenceVars, Typed, Bindings
  <2>3. op' = "finish" => op = "finish" \/ review # None
    BY <1>1 DEF Next, Serve, Start, OpenEnds, Observe, ObserveSucceeds, OperationFails, Navigate,
        NavigateSucceeds, PreviewBegins, PreviewSucceeds, ApproveVerification, Review, Finish, CloseMessage,
        Fails, CloseEnds, Cancel, Beside, CloseBegins, ObserveBegins
  <2> QED BY <2>1, <2>2, <2>3 DEF ReviewInv
<1>2. CASE phase \notin {"reviewed", "closed"} /\ ~Review
  <2>1. review = None BY <1>2 DEF ReviewInv
  <2>2. review' = None
    BY <1>2, <2>1 DEF Next, Serve, Start, OpenEnds, Observe, ObserveSucceeds, OperationFails, Navigate,
        NavigateSucceeds, PreviewBegins, PreviewSucceeds, ApproveVerification, Finish, CloseMessage,
        Fails, CloseEnds, Cancel, Beside
  <2>3. op' # "finish"
    <3>1. op # "finish" BY <1>2 DEF LifeInv
    <3> QED BY <1>2, <3>1 DEF Next, Serve, Start, OpenEnds, Observe, ObserveSucceeds, OperationFails, Navigate,
        NavigateSucceeds, PreviewBegins, PreviewSucceeds, ApproveVerification, Finish, CloseMessage,
        Fails, CloseEnds, Cancel, Beside, CloseBegins, ObserveBegins
  <2> QED BY <2>2, <2>3 DEF ReviewInv
<1>3. CASE Review
  <2>1. phase' = "reviewed" /\ op' # "finish" BY <1>3 DEF Review, CloseBegins, Idle
  <2> QED BY <1>3, <2>1, ReviewGiven DEF ReviewInv
<1> QED BY <1>1, <1>2, <1>3

-----------------------------------------------------------------------------
(* The completion *)

\* What Serve has returned is of a session that is over, whose browser is
\* down, and accounts for all that has left it.
CompletionInv ==
    completion # None =>
        /\ closed /\ ~net.up /\ teardown = "clean" /\ ~attempted /\ review # None
        /\ observations = generation
        /\ completion.verification = authority /\ authority = net.authority
        /\ SummaryValid(completion.network)
        /\ completion.network.requests \in Nat /\ sent.app <= completion.network.requests
        /\ completion.network.provided = sent.provider

\* A browser that is down sends nothing.
LEMMA DownIsSilent ==
    ASSUME BrowserEvent, ~net.up PROVE UNCHANGED <<protocol, sent, attempted>>
BY DEF BrowserEvent, AppRequest, FrameRequest, SurfaceEvent, PhaseEnds, ProviderRequest, ProviderAnswer,
       Countable

LEMMA CompletionStep ==
    ASSUME GuardInv, LifeInv, AuthInv, EvidenceInv, ReviewInv, CompletionInv, Next
    PROVE  CompletionInv'
<1>1. CASE CloseEnds
  <2> SUFFICES ASSUME completion' # None
               PROVE  /\ closed' /\ ~net'.up /\ teardown' = "clean" /\ ~attempted' /\ review' # None
                      /\ observations' = generation'
                      /\ completion'.verification = authority' /\ authority' = net'.authority
                      /\ SummaryValid(completion.network)'
                      /\ completion'.network.requests \in Nat /\ sent'.app <= completion'.network.requests
                      /\ completion'.network.provided = sent'.provider
    BY DEF CompletionInv, SummaryValid
  <2>1. /\ op = "finish" /\ SummaryValid(Summary(net)) /\ net'.authority = net.authority
        /\ completion' = [network |-> Summary(net), verification |-> authority]
        /\ teardown = "none" => teardown' = "clean" /\ ~net'.up /\ ~net.violated
    BY <1>1, CloseEndsKeeps
  <2>2. teardown' = "clean" /\ ~net'.up /\ ~net.violated /\ ~closed /\ review # None
    BY <2>1 DEF LifeInv, ReviewInv
  <2>3. /\ closed' = TRUE
        /\ UNCHANGED <<protocol, fetch, sent, attempted, evidenceVars, authority, review>>
    BY <1>1 DEF CloseEnds
  <2>4. ~attempted /\ sent.app <= net.requests /\ sent.provider = net.provided /\ net.requests \in Nat
    BY <2>2, GuardAssumption DEF GuardInv, NetOK, Net, Counters
  <2>5. authority = net.authority BY <2>1, <2>2 DEF AuthInv
  <2>6. observations = generation BY <2>1 DEF EvidenceInv
  <2>7. completion'.network = Summary(net) /\ completion'.verification = authority BY <2>1
  <2>8. Summary(net).requests = net.requests /\ Summary(net).provided = net.provided BY DEF Summary
  <2>9. SummaryValid(completion.network)' BY <2>1, <2>3, <2>7 DEF SummaryValid
  <2> QED BY <2>1, <2>2, <2>3, <2>4, <2>5, <2>6, <2>7, <2>8, <2>9 DEF evidenceVars
<1>2. CASE ~CloseEnds
  <2>1. UNCHANGED completion
    BY <1>2 DEF Next, Serve, Start, OpenEnds, Observe, ObserveSucceeds, OperationFails, Navigate,
        NavigateSucceeds, PreviewBegins, PreviewSucceeds, ApproveVerification, Review, Finish,
        CloseMessage, Fails, Cancel, Beside
  <2> SUFFICES ASSUME completion # None PROVE CompletionInv' BY <2>1 DEF CompletionInv
  <2>2. closed /\ op = "none" /\ ~net.up BY DEF CompletionInv, LifeInv
  <2>3. Beside
    BY <1>2, <2>2 DEF Next, Serve, Start, OpenEnds, Observe, ObserveSucceeds, OperationFails, Navigate,
        NavigateSucceeds, PreviewBegins, PreviewSucceeds, ApproveVerification, Review, Finish,
        CloseMessage, Fails, Cancel, Idle
  <2>4. UNCHANGED <<protocol, sent, attempted>> BY <2>2, <2>3, DownIsSilent DEF Beside
  <2>5. net'.up = net.up /\ net'.authority = net.authority BY <2>3, BrowserKeeps DEF Beside, SameEnds
  <2>6. UNCHANGED <<closed, teardown, review, evidenceVars, authority, completion>> BY <2>3 DEF Beside
  <2> QED BY <2>4, <2>5, <2>6 DEF CompletionInv, SummaryValid, evidenceVars
<1> QED BY <1>1, <1>2

-----------------------------------------------------------------------------
(* The inductive invariant *)

Inv ==
    /\ GuardInv /\ LifeInv /\ AuthInv /\ EvidenceInv /\ PreviewInv /\ ReviewInv /\ CompletionInv

LEMMA Invariant == Spec => []Inv
<1>1. Init => Inv
  <2> SUFFICES ASSUME Init PROVE Inv OBVIOUS
  <2>1. authority = None /\ net.authority = None /\ review = None /\ completion = None /\ op = "none"
    BY DEF Init, GuardInit, FreshNet
  <2>2. AuthInv /\ ReviewInv /\ CompletionInv BY <2>1 DEF AuthInv, ReviewInv, CompletionInv
  <2> QED BY <2>2, GuardInitInv, LifeInit, EvidenceInit DEF Inv
<1>2. Inv /\ [Next]_vars => Inv'
  <2> SUFFICES ASSUME Inv, [Next]_vars PROVE Inv' OBVIOUS
  <2>1. CASE Next
    BY <2>1, GuardStep, LifeStep, AuthStep, EvidenceStep, ReviewStep, CompletionStep DEF Inv
  <2>2. CASE UNCHANGED vars
    <3>1. UNCHANGED <<protocol, net, fetch, sent, attempted, phase, closed, held, candidates,
                      observations, generation, history, previews, seen, fresh, clicked, authority,
                      review, completion, op, target, teardown>>
      BY <2>2 DEF vars, guardVars, evidenceVars
    <3>2. GuardInv' /\ LifeInv' /\ AuthInv'
      BY <3>1 DEF Inv, GuardInv, NetOK, LifeInv, AuthInv
    <3>3. EvidenceInv' /\ PreviewInv' BY <3>1 DEF Inv, EvidenceInv, PreviewInv, Clicked, Typed
    <3>4. ReviewInv' BY <3>1 DEF Inv, ReviewInv, ReviewHolds, Typed, Bindings
    <3>5. CompletionInv' BY <3>1 DEF Inv, CompletionInv, SummaryValid
    <3> QED BY <3>2, <3>3, <3>4, <3>5 DEF Inv
  <2> QED BY <2>1, <2>2
<1> QED BY <1>1, <1>2, PTL DEF Spec

-----------------------------------------------------------------------------
(* What must hold *)

\* No mutation leaves the browser, and what it sends to a verification
\* provider is within the one authority that was approved.
THEOREM TrafficIsReviewed == Spec => []OnlyReviewedTraffic
<1>1. Inv => OnlyReviewedTraffic
  <2> SUFFICES ASSUME Inv PROVE OnlyReviewedTraffic OBVIOUS
  <2>1. GuardInv /\ NetOK(net) /\ net \in Net /\ AuthInv BY DEF Inv, GuardInv, NetOK
  <2>2. sent.mutations = 0 BY <2>1 DEF GuardInv
  <2>3. sent.provider > 0 => /\ protocol = "v4" /\ net.authority # None
                             /\ sent.provider <= Policy[net.authority].requests
    BY <2>1 DEF GuardInv, NetOK
  <2>4. net.bytes > 0 => net.bytes <= Policy[net.authority].bytes BY <2>1 DEF NetOK
  <2> QED BY <2>1, <2>2, <2>3, <2>4 DEF OnlyReviewedTraffic, AuthInv
<1> QED BY <1>1, Invariant, PTL

\* A session that is over holds no browser, and none is left up unless its
\* close failed; the session's state is well typed.
THEOREM BrowserIsReleased == Spec => []BrowserReleased
<1>1. Inv => BrowserReleased
  <2> SUFFICES ASSUME Inv PROVE BrowserReleased OBVIOUS
  <2>1. protocol \in Protocol /\ net \in Net BY DEF Inv, GuardInv, NetOK
  <2>2. target \in Candidate \cup {None} BY DEF Inv, PreviewInv
  <2>3. \A i \in DOMAIN previews : previews[i] \in Preview BY DEF Inv, PreviewInv
  <2>4. /\ candidates \subseteq Candidate /\ generation \in 0 .. MaxObservations
        /\ observations \in 0 .. MaxObservations + 1 /\ generation <= observations
        /\ Typed => history = seen
    BY SessionAssumption DEF Inv, EvidenceInv
  <2>5. /\ phase \in {"awaiting_start", "observing", "reviewed", "closed"}
        /\ op \in Ops \cup CloseOps
        /\ closed => ~held /\ (net.up => teardown = "failed")
    BY DEF Inv, LifeInv
  <2> QED BY <2>1, <2>2, <2>3, <2>4, <2>5 DEF BrowserReleased, TypeOK
<1> QED BY <1>1, Invariant, PTL

\* A completion is of a browser closed cleanly in which nothing forbidden was
\* tried, and its network summary accounts for all that left it.
LEMMA Clean == ASSUME Inv PROVE CompletionIsClean
<1> SUFFICES ASSUME completion # None
             PROVE  /\ ~net.up /\ teardown = "clean" /\ ~attempted /\ sent.mutations = 0
                    /\ sent.app <= completion.network.requests /\ completion.network.requests <= MaxRequests
                    /\ sent.provider = completion.network.provided
                    /\ review.verification = net.authority
  BY DEF CompletionIsClean
<1>1. /\ ~net.up /\ teardown = "clean" /\ ~attempted /\ review # None
      /\ completion.verification = authority /\ authority = net.authority
      /\ SummaryValid(completion.network)
      /\ sent.app <= completion.network.requests
      /\ completion.network.provided = sent.provider
  BY DEF Inv, CompletionInv
<1>2. sent.mutations = 0 BY DEF Inv, GuardInv
<1>3. completion.network.requests <= MaxRequests BY <1>1 DEF SummaryValid
<1>4. review.verification = IF protocol = "v4" THEN authority ELSE None
  BY <1>1 DEF Inv, ReviewInv, ReviewHolds
<1>5. protocol # "v4" => net.authority = None BY DEF Inv, GuardInv
<1> QED BY <1>1, <1>2, <1>3, <1>4, <1>5

\* The evidence is judged alike when a recipe is reviewed and when its result
\* is built.
LEMMA SameTypedEvidence ==
    ASSUME NEW version, NEW seq, NEW clicks, NEW flow, NEW binding, NEW selected, NEW provider
    PROVE  Result!TypedEvidence(version, seq, clicks, flow, binding, selected, provider)
             = TypedEvidence(version, seq, clicks, flow, binding, selected, provider)
<1>1. \A c : Result!Observed(seq, c) = Observed(seq, c) BY DEF Result!Observed, Observed
<1>2. \A c : Result!MayPreview(c) = MayPreview(c) BY DEF Result!MayPreview, MayPreview
<1>3. Result!PreviewsLinked(seq, clicks) = PreviewsLinked(seq, clicks)
  BY <1>1, <1>2 DEF Result!PreviewsLinked, PreviewsLinked
<1>4. Result!Walk(seq, clicks, flow, binding) = Walk(seq, clicks, flow, binding)
  BY Zenon DEF Result!Walk, Walk, Result!WalkStart, WalkStart, Result!WalkStep, WalkStep,
     Result!Observed, Observed, Result!PreviewedTo, PreviewedTo
<1>5. Result!WidgetBound(flow, binding, provider) = WidgetBound(flow, binding, provider)
  BY DEF Result!WidgetBound, WidgetBound, Result!Submits, Submits
<1> QED BY <1>3, <1>4, <1>5 DEF Result!TypedEvidence, TypedEvidence

LEMMA SameCardinality ==
    ASSUME NEW S PROVE Result!Cardinality(S) = Cardinality(S)
BY Zenon DEF Result!Cardinality, Cardinality

\* Of a recipe's one submit, that is bound.
LEMMA SameSubmits ==
    ASSUME NEW flow, NEW selected
    PROVE  /\ Result!Submits(flow) = Submits(flow)
           /\ Result!SubmitCandidates(flow, selected) = SubmitCandidates(flow, selected)
BY DEF Result!Submits, Submits, Result!SubmitCandidates, SubmitCandidates

\* What a v4 recipe is bound to is the provider of an authority.
LEMMA AuthorityNamed ==
    ASSUME protocol = "v4", review.verification \in Authority \cup {None},
           TypedEvidence(protocol, history, previews, review.flow, review.binding, review.selected,
                         ProviderOf(review.verification))
    PROVE  review.verification \in Authority
BY DEF TypedEvidence, WidgetBound, ProviderOf

\* Everything selected is a candidate that was observed.
LEMMA SelectedObserved ==
    ASSUME EvidenceInv, Typed, ReviewHolds, NEW c \in review.selected
    PROVE  Observed(history, c) /\ c.gen \in 1 .. generation
<1>1. /\ review.binding \in Bindings(review.flow)
      /\ review.selected = {review.binding[i] : i \in DOMAIN review.binding} \ {None}
  BY DEF ReviewHolds, TypedEvidence
<1> DEFINE ids == UNION {{[gen |-> g, name |-> n] : n \in history[g].shows} : g \in DOMAIN history}
<1>2. review.binding \in [DOMAIN review.flow -> ids \cup {None}] BY <1>1 DEF Bindings
<1>3. PICK i \in DOMAIN review.binding : c = review.binding[i] BY <1>1
<1>4. c # None /\ c \in ids
  <2> HIDE DEF ids
  <2> QED BY <1>1, <1>2, <1>3
<1>5. PICK g \in DOMAIN history : c \in {[gen |-> g, name |-> n] : n \in history[g].shows} BY <1>4
<1>6. PICK n \in history[g].shows : c = [gen |-> g, name |-> n] BY <1>5
<1>7. DOMAIN history = 1 .. generation BY DEF EvidenceInv
<1> QED BY <1>4, <1>6, <1>7 DEF Observed

\* Whatever the session returns can be made a private result.
LEMMA Builds == ASSUME Inv, completion # None PROVE Result!Buildable(Completed, 0)
<1> DEFINE c == Completed
<1>1. /\ review # None /\ observations = generation
      /\ completion.verification = authority /\ authority = net.authority
      /\ SummaryValid(completion.network)
  BY DEF Inv, CompletionInv
<1>2. ReviewHolds BY <1>1 DEF Inv, ReviewInv
<1>3. /\ EvidenceInv /\ PreviewInv /\ GuardInv /\ protocol \in {"v1", "v2", "v3", "v4"}
      /\ net.authority \in Authority \cup {None}
  BY GuardAssumption DEF Inv, GuardInv, NetOK, Net
<1>4. /\ c.protocol = protocol /\ c.profile = Recipe /\ c.source = Recipe
      /\ c.selected = review.selected /\ c.cleanup = "delete_separately" /\ c.origins = {"app"}
      /\ c.observedAt = 0 /\ c.observations = observations /\ c.network = completion.network
      /\ c.bounds = [requests |-> MaxRequests, observations |-> MaxObservations, candidates |-> MaxCandidates]
      /\ c.authority = AuthorityOf(authority) /\ c.history = history /\ c.previews = previews
      /\ c.binding = IF Typed THEN review.binding ELSE <<>>
  BY <1>1 DEF Completed
<1>5. /\ Recipe.schema = Result!ProfileSchema(protocol) /\ Recipe.flow = review.flow
      /\ Recipe.verifiedAt = 0 /\ Recipe.lifetime = 1 /\ Recipe.origins = {"app"} /\ Recipe.safeUrls
      /\ Recipe.snapshot /\ Recipe.confirmed /\ Recipe.authority = AuthorityOf(review.verification)
  BY DEF Recipe
<1> HIDE DEF c
<1>6. generation \in 1 .. MaxObservations /\ MaxObservations \in Nat \ {0} /\ MaxCandidates \in Nat \ {0}
      /\ MaxRequests \in Nat \ {0}
  BY <1>2, SessionAssumption, GuardAssumption DEF ReviewHolds
<1>7. review.verification = IF protocol = "v4" THEN authority ELSE None BY <1>2 DEF ReviewHolds
<1>8. protocol # "v4" => authority = None BY <1>1, <1>3 DEF GuardInv
<1>9. AuthorityOf(authority) = AuthorityOf(review.verification) BY <1>7, <1>8
<1>10. protocol = "v4" => authority \in Authority
  BY <1>1, <1>2, <1>3, <1>7, AuthorityNamed DEF ReviewHolds, Typed
<1>11. \A a \in Authority : AuthorityOf(a) # None /\ AuthorityOf(a) = Policy[a]
  BY GuardAssumption DEF AuthorityOf
<1>12. AuthorityOf(None) = None BY DEF AuthorityOf
<1>13. (IF Recipe.authority = None THEN None ELSE Recipe.authority.provider) = ProviderOf(review.verification)
  BY <1>1, <1>3, <1>5, <1>7, <1>11, <1>12 DEF ProviderOf
<1>14. Result!EvidenceHolds(c)
  <2>1. CASE Typed
    <3>1. Result!Typed34(c.protocol) BY <1>4, <2>1 DEF Result!Typed34, Typed
    <3>2. Len(c.history) = c.observations BY <1>1, <1>3, <1>4, <2>1 DEF EvidenceInv
    <3>3. TypedEvidence(protocol, history, previews, review.flow, review.binding, review.selected,
                        ProviderOf(review.verification))
      BY <1>2, <2>1 DEF ReviewHolds
    <3>4. Result!TypedEvidence(c.protocol, c.history, c.previews, c.profile.flow, c.binding, c.selected,
                               IF c.profile.authority = None THEN None ELSE c.profile.authority.provider)
      BY <1>4, <1>5, <1>13, <2>1, <3>3, SameTypedEvidence
    <3>5. \A k \in c.selected : Result!Observed(c.history, k)
      BY <1>2, <1>3, <1>4, <2>1, SelectedObserved DEF Result!Observed, Observed
    <3> QED BY <1>4, <1>5, <3>1, <3>2, <3>4, <3>5 DEF Result!EvidenceHolds
  <2>2. CASE ~Typed
    <3>1. ~Result!Typed34(c.protocol) BY <1>4, <2>2 DEF Result!Typed34, Typed
    <3> QED BY <1>3, <1>4, <2>2, <3>1 DEF Result!EvidenceHolds, EvidenceInv, PreviewInv
  <2> QED BY <2>1, <2>2
<1>15. Result!CurrentAt(c.profile, 0)
  BY <1>4, <1>5 DEF Result!CurrentAt, Result!VerifiedBy, Result!Expired, Result!ExpiresAt
<1>16. Result!BoundsHold(c)
  <2>1. /\ c.bounds.requests = MaxRequests /\ c.bounds.observations = MaxObservations
        /\ c.bounds.candidates = MaxCandidates
    BY <1>4
  <2>2. /\ c.network.requests = c.network.gets + c.network.heads /\ c.network.requests <= MaxRequests
        /\ IF protocol = "v4" /\ authority # None
           THEN c.network.provided <= Policy[authority].requests /\ c.network.bytes <= Policy[authority].bytes
           ELSE c.network.provided = 0 /\ c.network.bytes = 0
    BY <1>1, <1>4 DEF SummaryValid
  <2>3. (authority # None) = (c.authority # None) /\ (authority # None => c.authority = Policy[authority])
    BY <1>1, <1>3, <1>4, <1>11, <1>12
  <2>4. c.observations \in 1 .. MaxObservations BY <1>1, <1>4, <1>6
  <2> QED BY <1>4, <1>6, <1>8, <2>1, <2>2, <2>3, <2>4 DEF Result!BoundsHold
<1>17. OneSubmit(review.flow, review.selected) BY <1>2 DEF ReviewHolds
<1>18. Result!FlowReviewable(c)
  <2>1. c.profile.confirmed /\ c.profile.flow = review.flow /\ c.selected = review.selected BY <1>4, <1>5
  <2>2. Result!Submits(review.flow) = Submits(review.flow)
    BY SameSubmits
  <2>3. Result!SubmitCandidates(review.flow, review.selected)
          = SubmitCandidates(review.flow, review.selected)
    BY SameSubmits
  <2> QED BY <1>17, <2>1, <2>2, <2>3, SameCardinality DEF Result!FlowReviewable, OneSubmit
<1>19. Result!CandidatesCanonical(c)
  <2>1. c.selected # {}
    <3>1. CASE review.selected = {}
      <4>1. SubmitCandidates(review.flow, review.selected) = {} BY <3>1 DEF SubmitCandidates
      <4> QED BY <1>17, <4>1, FS_EmptySet DEF OneSubmit
    <3> QED BY <1>4, <3>1
  <2>2. Result!Cardinality(c.selected) <= c.bounds.candidates
    BY <1>2, <1>4, SameCardinality DEF ReviewHolds
  <2>3. ASSUME NEW k \in c.selected
        PROVE  /\ k.gen \in 1 .. c.observations
               /\ Result!Typed34(c.protocol) \/ k.gen = c.observations
               /\ k.name \in Portable
    <3>1. k \in review.selected /\ k.name \in Portable BY <1>2, <1>4 DEF ReviewHolds
    <3>2. CASE Typed
      <4>1. k.gen \in 1 .. generation BY <1>2, <1>3, <3>1, <3>2, SelectedObserved
      <4>2. Result!Typed34(c.protocol) BY <1>4, <3>2 DEF Result!Typed34, Typed
      <4> QED BY <1>1, <1>4, <3>1, <4>1, <4>2
    <3>3. CASE ~Typed
      <4>1. k.gen = generation BY <1>2, <3>1, <3>3 DEF ReviewHolds
      <4> QED BY <1>1, <1>4, <1>6, <3>1, <4>1
    <3> QED BY <3>2, <3>3
  <2> QED BY <2>1, <2>2, <2>3 DEF Result!CandidatesCanonical
<1> QED
  BY <1>3, <1>4, <1>5, <1>9, <1>10, <1>11, <1>14, <1>15, <1>16, <1>18, <1>19
  DEF Result!Buildable, Result!Versions, Result!Cleanups, c

\* A completion is clean, and what the session returns can be made a private
\* result: no review is lost after its browser is gone.
THEOREM CompletionIsGood == Spec => []CompletionIsBuildable
<1>1. Inv => CompletionIsBuildable BY Clean, Builds DEF CompletionIsBuildable
<1> QED BY <1>1, Invariant, PTL

\* What was reviewed is what the browser did and saw.
LEMMA Evidenced == ASSUME Inv PROVE ReviewIsEvidenced
<1> SUFFICES ASSUME review # None
             PROVE  /\ fresh
                    /\ ~Typed => \A c \in review.selected : c.gen = generation
                    /\ Typed => \A i \in DOMAIN review.flow : review.flow[i].do = "click" =>
                        \E k \in clicked :
                            /\ k.of = review.binding[i] /\ k.current
                            /\ \A j \in DOMAIN review.flow :
                                /\ j > i /\ review.binding[j] # None
                                /\ \A m \in i + 1 .. j - 1 : review.flow[m].do \notin {"navigate", "click"}
                                => /\ review.binding[j].gen >= k.of.gen
                                   /\ seen[review.binding[j].gen].page = seen[k.next].page
  BY DEF ReviewIsEvidenced
<1>1. ReviewHolds BY DEF Inv, ReviewInv
<1>2. EvidenceInv /\ PreviewInv BY DEF Inv
<1>3. fresh /\ (~Typed => \A c \in review.selected : c.gen = generation) BY <1>1 DEF ReviewHolds
<1>4. ASSUME Typed, NEW i \in DOMAIN review.flow, review.flow[i].do = "click"
      PROVE  \E k \in clicked :
                /\ k.of = review.binding[i] /\ k.current
                /\ \A j \in DOMAIN review.flow :
                    /\ j > i /\ review.binding[j] # None
                    /\ \A m \in i + 1 .. j - 1 : review.flow[m].do \notin {"navigate", "click"}
                    => /\ review.binding[j].gen >= k.of.gen
                       /\ seen[review.binding[j].gen].page = seen[k.next].page
  <2>1. Len(review.flow) \in Nat /\ DOMAIN review.flow = 1 .. Len(review.flow)
    BY <1>1, SessionAssumption DEF ReviewHolds
  <2>2. Walk(history, previews, review.flow, review.binding)
    BY <1>1, <1>4 DEF ReviewHolds, TypedEvidence
  <2>3. history = seen /\ DOMAIN seen \subseteq Nat BY <1>2, <1>4 DEF EvidenceInv
  <2>4. /\ DOMAIN history \subseteq Nat /\ i \in 1 .. Len(review.flow)
        /\ review.flow[i].do = "click"
    BY <1>4, <2>1, <2>3
  <2>5. PICK led \in PreviewedTo(previews, review.binding[i]) : \A j \in 1 .. Len(review.flow) :
            /\ j > i /\ review.binding[j] # None
            /\ \A m \in i + 1 .. j - 1 : review.flow[m].do \notin {"navigate", "click"}
            => /\ review.binding[j].gen >= review.binding[i].gen
               /\ history[review.binding[j].gen].page = history[led].page
    <3>1. ClickLeads(history, previews, review.flow, review.binding, i)
      BY <2>1, <2>2, <2>4, WalkSays
    <3> QED BY <3>1 DEF ClickLeads
  <2>7. PICK p \in DOMAIN previews : previews[p].of = review.binding[i] /\ previews[p].next = led
    BY DEF PreviewedTo
  <2>8. Clicked(review.binding[i], led) BY <1>2, <2>7 DEF PreviewInv
  <2>9. PICK k \in clicked : k.of = review.binding[i] /\ k.next = led /\ k.current BY <2>8 DEF Clicked
  <2> QED BY <2>1, <2>3, <2>5, <2>9
<1> QED BY <1>3, <1>4

\* A review is given only of what the browser did and saw: the page has not
\* been left since, and every click of the recipe was performed on a candidate
\* that was current, and led to the page the next steps are bound to.
THEOREM ReviewRests == Spec => []ReviewIsEvidenced
BY Invariant, Evidenced, PTL
=============================================================================
