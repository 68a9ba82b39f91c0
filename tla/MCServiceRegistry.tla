-------------------------- MODULE MCServiceRegistry ---------------------------
(***************************************************************************)
(* Small instances of ServiceRegistry for TLC.                             *)
(***************************************************************************)
EXTENDS ServiceRegistry, TLC

CONSTANTS p1, p2, k1, k2, s1, s2, s3, i1, i2, e1, e2

TwoProcesses == {p1, p2}
TwoKeys == {k1, k2}
ThreeSpecifiers == {s1, s2, s3}
TwoInstances == {i1, i2}
TwoEndpoints == {e1, e2}
Both == {"kIpc", "kDds"}

\* The strings that exceed their arrays.
SecondEndpoint == {e2}
OneOfEach == {s3, i2, e2}

Anywhere == Labels
OutsideSections == Labels \ Section

Symmetry == Permutations(Processes)
=============================================================================
