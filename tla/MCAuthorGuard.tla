--------------------------- MODULE MCAuthorGuard ---------------------------
(* AuthorGuard with two popups and two requests in flight, one slot short of *)
(* both: one origin approved, one that can be added, one blocked by policy.  *)
EXTENDS AuthorGuard, TLC

CONSTANTS app, idp, ads, r1, r2, p1, p2

MCOrigin == {app, idp, ads}
MCApproved == {app}
MCRequest == {r1, r2}
MCPopup == {p1, p2}

get(o) == [origin |-> o, method |-> "GET", navigation |-> FALSE, script |-> TRUE]
MCKind == {get(idp), get(ads),
           [get(app) EXCEPT !.navigation = TRUE, !.script = FALSE],
           [get(app) EXCEPT !.method = "POST", !.script = FALSE]}

Symmetry == Permutations(MCRequest) \cup Permutations(MCPopup)
=============================================================================
