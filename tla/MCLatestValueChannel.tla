------------------------- MODULE MCLatestValueChannel -------------------------
(***************************************************************************)
(* Small instances of LatestValueChannel for TLC.                          *)
(***************************************************************************)
EXTENDS LatestValueChannel

CONSTANTS w1, w2, r1, r2

TwoWriters == {w1, w2}
TwoReaders == {r1, r2}

\* One kind of channel each, two channels in one region, and a reader of another kind.
EachKind == [Processes -> {"event"}] \cup [Processes -> {"oneway"}]
TwoChannels == [p \in Processes |-> IF p \in {w1, r1} THEN "event" ELSE "oneway"]
LoneReader == [p \in Processes |-> IF p = r2 THEN "oneway" ELSE "event"]
Collisions == EachKind \cup {TwoChannels, LoneReader}

Anywhere == WriterLabels \cup ReaderLabels
=============================================================================
