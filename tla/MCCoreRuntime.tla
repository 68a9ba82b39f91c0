---------------------------- MODULE MCCoreRuntime ----------------------------
(***************************************************************************)
(* A small instance of CoreRuntime for TLC.                                *)
(***************************************************************************)
EXTENDS CoreRuntime

CONSTANTS t1, t2, h1, h2, machine

TwoThreads == {t1, t2}
TwoHandlers == {h1, h2}
OneGroup == {machine}
SomeStates == {"", "Startup"}
=============================================================================
