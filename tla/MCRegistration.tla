--------------------------- MODULE MCRegistration ---------------------------
(***************************************************************************)
(* Two pages: one shows a button that may be previewed and the submit, the *)
(* other the submit alone; two recipes; two verification authorities that  *)
(* differ in their bounds.                                                 *)
(***************************************************************************)
EXTENDS RegistrationWorker

MCShows == [p \in {"p1", "p2"} |-> IF p = "p1" THEN {"next"} ELSE {"submit"}]
MCWidget == [n \in {"next", "submit"} |-> IF n = "submit" THEN "turnstile" ELSE None]
MCPolicy == [a \in {"narrow", "wide"} |->
    [provider |-> "turnstile", requests |-> IF a = "wide" THEN 2 ELSE 1, bytes |-> 1]]
MCFlow == {<<[do |-> "navigate", on |-> "p1"], [do |-> "click", on |-> "next"],
             [do |-> "submit", on |-> "submit"], [do |-> "success", on |-> "done"]>>,
           <<[do |-> "navigate", on |-> "p2"], [do |-> "submit", on |-> "submit"]>>}
=============================================================================
