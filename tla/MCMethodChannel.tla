--------------------------- MODULE MCMethodChannel ---------------------------
(***************************************************************************)
(* Small instances of MethodChannel for TLC.                               *)
(***************************************************************************)
EXTENDS MethodChannel

CONSTANTS c1, c2, s1

OneCaller == {c1}
TwoCallers == {c1, c2}
OneServer == {s1}

Anywhere == CallerLabels \cup ServerLabels
InsideSend == {"send_payload"}
=============================================================================
