-------------------------- MODULE MCAuthorSession --------------------------
(***************************************************************************)
(* A small instance of AuthorSession: the product's own origin and one     *)
(* that has to be approved, the main page and one popup, and pages made of *)
(* a password field and a link that leaves the approved origins and may be *)
(* selected as an output.                                                  *)
(***************************************************************************)
EXTENDS AuthorPromotion

CONSTANTS home, away, popup

Item(input, unique, target, output) ==
    [input |-> input, unique |-> unique, target |-> target, output |-> output]

MCOrigin == {home, away}
MCChild == {popup}
MCShape == {Item("credential", TRUE, None, FALSE),
            Item("none", TRUE, away, TRUE)}
MCParent == [c \in MCChild |-> "main"]
MCRedacted == {Item("credential", TRUE, None, FALSE)}
=============================================================================
