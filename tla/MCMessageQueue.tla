--------------------------- MODULE MCMessageQueue ---------------------------
(***************************************************************************)
(* TLC instances of MessageQueue: four entries through a queue that holds  *)
(* two, two consumers, so that drops, late wakeups and a shutdown with a   *)
(* consumer asleep all happen.                                             *)
(***************************************************************************)
EXTENDS MessageQueue, TLC

CONSTANTS c1, c2, a, b, c, d

MCConsumer == {c1, c2}
MCItem == {a, b, c, d}
=============================================================================
