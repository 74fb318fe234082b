--------------------------- MODULE MCAssistedAuth ---------------------------
(***************************************************************************)
(* Two alternatives of one sign-in: a credential with one POST and a wait, *)
(* and a challenge without a locator or a POST.                            *)
(***************************************************************************)
EXTENDS AssistedAuth

Plain(kind) == [kind |-> kind, locator |-> kind = "wait_for", budget |-> 0]
MCSteps == <<
    <<Plain("navigate"), [kind |-> "type_credential", locator |-> TRUE, budget |-> 1], Plain("wait_for")>>,
    <<Plain("navigate"), [kind |-> "challenge", locator |-> FALSE, budget |-> 0]>> >>
MCSuccess == <<"o1", "o2">>
=============================================================================
