---------------------------- MODULE ConflatingFeed ----------------------------
(***************************************************************************)
(* What a latest-value channel promises: samples are published one after   *)
(* the other, and a reader that looks is given the newest one, once.  It   *)
(* may skip samples; it never gets one twice, an older one after a newer   *)
(* one, or a mixture of two, unless it starts again from nothing.          *)
(***************************************************************************)
EXTENDS Naturals, Sequences

CONSTANTS Readers, Samples

VARIABLES
    log,        \* the samples published so far
    cursor,     \* how much of the log each reader has passed
    cached,     \* the sample each reader got last
    delivered   \* how many samples each reader got since it started

feedVars == <<log, cursor, cached, delivered>>

NoSample == 0

Init ==
    /\ log = <<>>
    /\ cursor = [r \in Readers |-> 0]
    /\ cached = [r \in Readers |-> NoSample]
    /\ delivered = [r \in Readers |-> 0]

Publish(x) ==
    /\ log' = Append(log, x)
    /\ UNCHANGED <<cursor, cached, delivered>>

\* The reader jumps to the end of the log.
Deliver(r) ==
    /\ cursor[r] < Len(log)
    /\ cursor' = [cursor EXCEPT ![r] = Len(log)]
    /\ cached' = [cached EXCEPT ![r] = log[Len(log)]]
    /\ delivered' = [delivered EXCEPT ![r] = @ + 1]
    /\ UNCHANGED log

Restart(r) ==
    /\ cursor' = [cursor EXCEPT ![r] = 0]
    /\ cached' = [cached EXCEPT ![r] = NoSample]
    /\ delivered' = [delivered EXCEPT ![r] = 0]
    /\ UNCHANGED log

Next ==
    \/ \E x \in Samples : Publish(x)
    \/ \E r \in Readers : Deliver(r) \/ Restart(r)

Spec == Init /\ [][Next]_feedVars
=============================================================================
