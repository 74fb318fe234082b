-------------------------- MODULE MCPrivateResult --------------------------
(***************************************************************************)
(* Two attempts, two directories, and completions of v2, v3 and v4 of      *)
(* which some cannot be built: their evidence is of another history, their *)
(* authority not the recipe's, their profile verified too late.            *)
(***************************************************************************)
EXTENDS PrivateResult, TLC

MCWidget == [n \in {"next", "submit"} |-> IF n = "submit" THEN "turnstile" ELSE None]

Key(g, n) == [gen |-> g, name |-> n]
Turnstile == [provider |-> "turnstile", requests |-> 1, bytes |-> 1]
Short == <<[do |-> "navigate", on |-> "p2"], [do |-> "submit", on |-> "submit"]>>
Long == <<[do |-> "navigate", on |-> "p1"], [do |-> "click", on |-> "next"],
          [do |-> "submit", on |-> "submit"], [do |-> "success", on |-> "done"]>>

Recipe(version, flow) ==
    [schema |-> ProfileSchema(version), flow |-> flow, verifiedAt |-> 1, lifetime |-> 1,
     origins |-> {"app"}, safeUrls |-> TRUE, snapshot |-> TRUE, confirmed |-> TRUE,
     authority |-> IF version = "v4" THEN Turnstile ELSE None]

Plain ==
    [protocol |-> "v2", profile |-> Recipe("v2", Short), source |-> Recipe("v2", Short),
     selected |-> {Key(2, "submit")}, cleanup |-> "delete_separately", origins |-> {"app"},
     observedAt |-> 1, bounds |-> [requests |-> 2, observations |-> 2, candidates |-> 2],
     observations |-> 2,
     network |-> [requests |-> 2, gets |-> 1, heads |-> 1, provided |-> 0, bytes |-> 0],
     authority |-> None, history |-> <<>>, previews |-> <<>>, binding |-> <<>>]

Typed(version) ==
    [Plain EXCEPT !.protocol = version,
                  !.profile = Recipe(version, Long), !.source = Recipe(version, Long),
                  !.selected = {Key(1, "next"), Key(2, "submit")},
                  !.authority = IF version = "v4" THEN Turnstile ELSE None,
                  !.network.provided = IF version = "v4" THEN 1 ELSE 0,
                  !.history = <<[page |-> "p1", shows |-> {"next"}], [page |-> "p2", shows |-> {"submit"}]>>,
                  !.previews = <<[of |-> Key(1, "next"), next |-> 2]>>,
                  !.binding = <<None, Key(1, "next"), Key(2, "submit"), None>>]

MCCompletion ==
    {Plain, Typed("v4"),
     [Typed("v3") EXCEPT !.observations = 1],
     [Typed("v4") EXCEPT !.authority.requests = 2],
     [Typed("v3") EXCEPT !.previews = <<>>],
     [Plain EXCEPT !.selected = {Key(1, "submit")}],
     [Plain EXCEPT !.profile.verifiedAt = 2, !.source.verifiedAt = 2]}

MCSymmetry == Permutations(Attempt) \cup Permutations(Dir)
=============================================================================
