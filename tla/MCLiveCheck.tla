----------------------------- MODULE MCLiveCheck -----------------------------
(***************************************************************************)
(* A profile of three actions, of which one is checked: an array in the    *)
(* page's structured data, a wait and an output by presence, whose number  *)
(* of matches may differ between engines that both pass, and a click.      *)
(***************************************************************************)
EXTENDS LiveCheck

Click == [locator |-> TRUE, wait |-> "none"]
Wait == [locator |-> FALSE, wait |-> "navigation"]
Documented == [source |-> "jsonld", type |-> "array", presence |-> FALSE]
Present == [source |-> "a11y", type |-> "boolean", presence |-> TRUE]

MCActions == <<
    [sequence |-> <<>>, outputs |-> <<Documented>>],
    [sequence |-> <<Wait>>, outputs |-> <<Present>>],
    [sequence |-> <<Click>>, outputs |-> <<>>] >>
=============================================================================
