--------------------------- MODULE RequestResponse ---------------------------
(***************************************************************************)
(* What a request/response channel promises to its callers, with nothing   *)
(* said about how the messages travel: a call ends with an answer only     *)
(* when the provider has taken this very request, and the answer is the    *)
(* answer to this request.  It may fail at any time, and a request may be  *)
(* served although its call failed or its caller is gone.                  *)
(***************************************************************************)
EXTENDS Naturals

CONSTANT Callers

VARIABLES
    issued,     \* how many requests were made; the n-th request is n
    open,       \* the callers that wait for the end of a call
    request,    \* the last request of each caller
    outcome,    \* how the last call of each caller ended
    served      \* the requests that a provider has taken

rrVars == <<issued, open, request, outcome, served>>

NoOutcome == [status |-> "none", payload |-> 0]
Failure   == [status |-> "failed", payload |-> 0]
Answer(r) == [status |-> "ok", payload |-> r]

Init ==
    /\ issued = 0
    /\ open = {}
    /\ request = [c \in Callers |-> 0]
    /\ outcome = [c \in Callers |-> NoOutcome]
    /\ served = {}

\* A call begins, or is refused before anything is sent.
Invoke(c) ==
    /\ c \notin open
    /\ issued' = issued + 1
    /\ request' = [request EXCEPT ![c] = issued + 1]
    /\ \/ open' = open \cup {c} /\ outcome' = [outcome EXCEPT ![c] = NoOutcome]
       \/ open' = open /\ outcome' = [outcome EXCEPT ![c] = Failure]
    /\ UNCHANGED served

\* A provider takes a request that some caller made.
Serve(r) ==
    /\ r \in 1..issued
    /\ served' = served \cup {r}
    /\ UNCHANGED <<issued, open, request, outcome>>

\* A call ends: with the answer to its own request, by failing, or with its
\* caller.
Finish(c) ==
    /\ c \in open
    /\ open' = open \ {c}
    /\ \/ /\ request[c] \in served
          /\ outcome' = [outcome EXCEPT ![c] = Answer(request[c])]
       \/ outcome' = [outcome EXCEPT ![c] = Failure]
       \/ outcome' = [outcome EXCEPT ![c] = NoOutcome]
    /\ UNCHANGED <<issued, request, served>>

Next ==
    \/ \E c \in Callers : Invoke(c) \/ Finish(c)
    \/ \E r \in 1..issued : Serve(r)

Spec == Init /\ [][Next]_rrVars
=============================================================================
