---------------------------- MODULE MCWorkerHost ----------------------------
(***************************************************************************)
(* One managed capture with a send, a receive and a close on its channel,  *)
(* each in a goroutine of its own, and two values of the origins.          *)
(***************************************************************************)
EXTENDS WorkerHost

MCCall == {"s", "r", "x"}
MCKind == [c \in MCCall |-> CASE c = "s" -> "send" [] c = "r" -> "receive" [] c = "x" -> "close"]
=============================================================================
