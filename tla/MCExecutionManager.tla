------------------------- MODULE MCExecutionManager -------------------------
(***************************************************************************)
(* Small instances of ExecutionManager for TLC.                            *)
(***************************************************************************)
EXTENDS ExecutionManager

CONSTANTS a, b, p1, p2

TwoApps == {a, b}
OneApp == {a}
OnePid == {p1}
TwoPids == {p1, p2}

\* The entry a is selected by both states, and so it is started twice.
StartedTwice == [Startup |-> <<a>>, Running |-> <<a, b>>]
OneRunning == [Startup |-> <<>>, Running |-> <<a>>]
=============================================================================
