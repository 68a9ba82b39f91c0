-------------------------- MODULE MCExecutionClient --------------------------
(***************************************************************************)
(* Small instances of ExecutionClient for TLC.                             *)
(***************************************************************************)
EXTENDS ExecutionClient

CONSTANTS t1, t2, o1, o2, o3

OneThread == {t1}
TwoThreads == {t1, t2}
TwoClients == {o1, o2}
ThreeClients == {o1, o2, o3}
=============================================================================
