---------------------------- MODULE MethodChannel ----------------------------
(***************************************************************************)
(* SharedMemoryMethodChannel: one shared-memory region with one request    *)
(* slot and one response slot, one named semaphore, client processes that  *)
(* Call and provider processes that TakeRequest and SendResponse.          *)
(*                                                                         *)
(* The payload of a request is its number, and the payload of an answer is *)
(* the number of the request it answers, so that a wrong answer shows.  A  *)
(* section writes the region in two steps: what another process could see  *)
(* of a half-written region if the semaphore did not keep it out.          *)
(***************************************************************************)
EXTENDS NamedSemaphore

CONSTANTS
    Callers,        \* client processes that call the method
    Servers,        \* provider processes that serve it
    MaxCalls,       \* bound: calls made in a behaviour
    MaxFaults,      \* bound: kills and dropped answers in a behaviour
    CrashPoints     \* the control points at which a process may be killed

CallerLabels == {"idle", "post_wait", "post_id", "post_request", "check",
                 "poll_wait", "poll"}
ServerLabels == {"idle", "take_wait", "take", "respond", "send_wait",
                 "send_payload", "send_commit"}

\* The control points between sem_wait and sem_post.
Section == {"post_id", "post_request", "poll", "take", "send_payload",
            "send_commit"}

ASSUME ChannelAssumption ==
    /\ Callers \cap Servers = {}
    /\ MaxCalls \in Nat
    /\ MaxFaults \in Nat
    /\ CrashPoints \subseteq CallerLabels \cup ServerLabels

Processes == Callers \cup Servers

VARIABLES
    layout,                 \* the shared MethodLayout; magic: is it initialised
    pc,                     \* the control point of every process
    issued,                 \* how many calls were made
    request,                \* the request of each caller's last call
    correlation_id,         \* local to Call
    response_sequence,      \* local to Call: the sequence before the request
    expired,                \* has the deadline of the caller's call passed?
    result,                 \* what the last call of each caller returned
    last_seen_sequence,     \* each provider's last_method_sequence
    taken,                  \* the request each provider works on
    served,                 \* history: the requests some provider has taken
    faults                  \* how many faults have happened

memory == <<sem, layout>>
callerVars == <<issued, request, correlation_id, response_sequence, expired, result>>
serverVars == <<last_seen_sequence, taken, served>>
vars == <<memory, pc, callerVars, serverVars, faults>>

NoRequest == [id |-> 0, payload |-> 0]
NoOutcome == [status |-> "none", payload |-> 0]
Failure   == [status |-> "failed", payload |-> 0]
Answer(r) == [status |-> "ok", payload |-> r]

\* A fresh region: ftruncate fills it with zeros.
FreshLayout ==
    [magic |-> FALSE, request_sequence |-> 0, response_sequence |-> 0,
     correlation_id |-> 0, response_correlation_id |-> 0,
     request_payload |-> 0, response_payload |-> 0]

\* What a writer makes of the region before it writes: memset unless the
\* magic number is there.
Initialised ==
    IF layout.magic THEN layout ELSE [FreshLayout EXCEPT !.magic = TRUE]

Goto(p, from, to) == pc[p] = from /\ pc' = [pc EXCEPT ![p] = to]
Enter(p, from, to) == Goto(p, from, to) /\ SemWait
Leave(p, from, to) == Goto(p, from, to) /\ SemPost

Init ==
    /\ SemInit
    /\ layout = FreshLayout
    /\ pc = [p \in Processes |-> "idle"]
    /\ issued = 0
    /\ request = [c \in Callers |-> 0]
    /\ correlation_id = [c \in Callers |-> 0]
    /\ response_sequence = [c \in Callers |-> 0]
    /\ expired = [c \in Callers |-> FALSE]
    /\ result = [c \in Callers |-> NoOutcome]
    /\ last_seen_sequence = [s \in Servers |-> 0]
    /\ taken = [s \in Servers |-> NoRequest]
    /\ served = {}
    /\ faults = 0
-----------------------------------------------------------------------------
(* Call *)

\* The region and the semaphore are open, the deadline is set.
CallBegin(c) ==
    /\ issued < MaxCalls
    /\ Goto(c, "idle", "post_wait")
    /\ issued' = issued + 1
    /\ request' = [request EXCEPT ![c] = issued + 1]
    /\ expired' = [expired EXCEPT ![c] = FALSE]
    /\ result' = [result EXCEPT ![c] = NoOutcome]
    /\ UNCHANGED <<memory, correlation_id, response_sequence, serverVars, faults>>

\* The payload is too large, or the region or the semaphore does not open.
CallRefused(c) ==
    /\ issued < MaxCalls
    /\ pc[c] = "idle"
    /\ issued' = issued + 1
    /\ request' = [request EXCEPT ![c] = issued + 1]
    /\ result' = [result EXCEPT ![c] = Failure]
    /\ UNCHANGED <<memory, pc, correlation_id, response_sequence, expired, serverVars, faults>>

PostAcquire(c) ==
    /\ Enter(c, "post_wait", "post_id")
    /\ layout' = Initialised
    /\ UNCHANGED <<callerVars, serverVars, faults>>

\* Mutant: the correlation id is used before it is incremented.
SameCorrelationId == layout.correlation_id

NextCorrelationId == layout.correlation_id + 1

PostId(c) ==
    /\ Goto(c, "post_id", "post_request")
    /\ correlation_id' = [correlation_id EXCEPT ![c] = NextCorrelationId]
    /\ layout' = [layout EXCEPT !.correlation_id = NextCorrelationId]
    /\ UNCHANGED <<sem, issued, request, response_sequence, expired, result, serverVars, faults>>

\* Mutant: the sequence that the answer must exceed is the one it will have.
SequenceOfAnswer == layout.response_sequence + 1

SequenceBeforeAnswer == layout.response_sequence

PostRequest(c) ==
    /\ Leave(c, "post_request", "check")
    /\ layout' = [layout EXCEPT !.request_payload = request[c],
                                !.request_sequence = @ + 1]
    /\ response_sequence' = [response_sequence EXCEPT ![c] = SequenceBeforeAnswer]
    /\ UNCHANGED <<issued, request, correlation_id, expired, result, serverVars, faults>>

\* The deadline passes; the call looks at the clock only at "check".
Expire(c) ==
    /\ pc[c] # "idle"
    /\ ~expired[c]
    /\ expired' = [expired EXCEPT ![c] = TRUE]
    /\ UNCHANGED <<memory, pc, issued, request, correlation_id, response_sequence, result,
                   serverVars, faults>>

PollBegin(c) ==
    /\ ~expired[c]
    /\ Goto(c, "check", "poll_wait")
    /\ UNCHANGED <<memory, callerVars, serverVars, faults>>

PollAcquire(c) ==
    /\ Enter(c, "poll_wait", "poll")
    /\ UNCHANGED <<layout, callerVars, serverVars, faults>>

\* Mutant: any answer newer than the request is taken for its answer.
AnyAnswerArrived(c) ==
    layout.magic /\ layout.response_sequence > response_sequence[c]

AnswerArrived(c) ==
    /\ layout.magic
    /\ layout.response_sequence > response_sequence[c]
    /\ layout.response_correlation_id = correlation_id[c]

PollHit(c) ==
    /\ AnswerArrived(c)
    /\ Leave(c, "poll", "idle")
    /\ result' = [result EXCEPT ![c] = Answer(layout.response_payload)]
    /\ UNCHANGED <<layout, issued, request, correlation_id, response_sequence, expired,
                   serverVars, faults>>

\* Mutant: the loop goes on to sleep without releasing the semaphore.
PollMissHolding(c) ==
    /\ ~AnswerArrived(c)
    /\ Goto(c, "poll", "check")
    /\ UNCHANGED <<memory, callerVars, serverVars, faults>>

\* The semaphore is released, then the caller sleeps.
PollMiss(c) ==
    /\ ~AnswerArrived(c)
    /\ Leave(c, "poll", "check")
    /\ UNCHANGED <<layout, callerVars, serverVars, faults>>

\* The loop ends without a last look at the region.
CallTimeout(c) ==
    /\ expired[c]
    /\ Goto(c, "check", "idle")
    /\ result' = [result EXCEPT ![c] = Failure]
    /\ UNCHANGED <<memory, issued, request, correlation_id, response_sequence, expired,
                   serverVars, faults>>
-----------------------------------------------------------------------------
(* TakeRequest and SendResponse, called in turn by the provider's loop *)

TakeBegin(s) ==
    /\ Goto(s, "idle", "take_wait")
    /\ UNCHANGED <<memory, callerVars, serverVars, faults>>

TakeAcquire(s) ==
    /\ Enter(s, "take_wait", "take")
    /\ UNCHANGED <<layout, callerVars, serverVars, faults>>

\* Mutant: a request that was taken before is taken again.
NewRequestIfAny(s) == layout.magic /\ layout.request_sequence # 0

\* Mutant: off by one, a request waits for the next one.
NewRequestButLast(s) ==
    layout.magic /\ layout.request_sequence > last_seen_sequence[s] + 1

NewRequest(s) ==
    /\ layout.magic
    /\ layout.request_sequence # 0
    /\ layout.request_sequence # last_seen_sequence[s]

TakeRequest(s) ==
    /\ NewRequest(s)
    /\ Leave(s, "take", "respond")
    /\ last_seen_sequence' = [last_seen_sequence EXCEPT ![s] = layout.request_sequence]
    /\ taken' = [taken EXCEPT ![s] = [id |-> layout.correlation_id,
                                      payload |-> layout.request_payload]]
    /\ served' = served \cup {layout.request_payload}
    /\ UNCHANGED <<layout, callerVars, faults>>

TakeNothing(s) ==
    /\ ~NewRequest(s)
    /\ Leave(s, "take", "idle")
    /\ UNCHANGED <<layout, callerVars, serverVars, faults>>

\* The handler has run; SendResponse has opened the region.
SendBegin(s) ==
    /\ Goto(s, "respond", "send_wait")
    /\ UNCHANGED <<memory, callerVars, serverVars, faults>>

\* SendResponse fails before it writes, and the loop drops the answer.
SendRefused(s) ==
    /\ faults < MaxFaults
    /\ faults' = faults + 1
    /\ Goto(s, "respond", "idle")
    /\ taken' = [taken EXCEPT ![s] = NoRequest]
    /\ UNCHANGED <<memory, callerVars, last_seen_sequence, served>>

SendAcquire(s) ==
    /\ Enter(s, "send_wait", "send_payload")
    /\ layout' = Initialised
    /\ UNCHANGED <<callerVars, serverVars, faults>>

SendPayload(s) ==
    /\ Goto(s, "send_payload", "send_commit")
    /\ layout' = [layout EXCEPT !.response_payload = taken[s].payload]
    /\ UNCHANGED <<sem, callerVars, serverVars, faults>>

\* Mutant: the answer carries the id of the request in the slot now.
LatestCorrelation(s) == layout.correlation_id

AnsweredCorrelation(s) == taken[s].id

SendCommit(s) ==
    /\ Leave(s, "send_commit", "idle")
    /\ layout' = [layout EXCEPT !.response_correlation_id = AnsweredCorrelation(s),
                                !.response_sequence = @ + 1]
    /\ taken' = [taken EXCEPT ![s] = NoRequest]
    /\ UNCHANGED <<callerVars, last_seen_sequence, served, faults>>
-----------------------------------------------------------------------------
(* A process is killed and started again.  The region and the semaphore    *)
(* survive it as they are: nothing posts a semaphore it held.              *)

Crash(p) ==
    /\ pc[p] \in CrashPoints
    /\ faults < MaxFaults
    /\ faults' = faults + 1
    /\ pc' = [pc EXCEPT ![p] = "idle"]
    /\ UNCHANGED <<memory, issued, request, correlation_id, response_sequence, expired,
                   result, served>>

CallerCrash(c) ==
    /\ pc[c] # "idle"
    /\ Crash(c)
    /\ UNCHANGED <<last_seen_sequence, taken>>

\* The next incarnation starts from last_method_sequence = 0.
ServerCrash(s) ==
    /\ Crash(s)
    /\ last_seen_sequence' = [last_seen_sequence EXCEPT ![s] = 0]
    /\ taken' = [taken EXCEPT ![s] = NoRequest]
-----------------------------------------------------------------------------
CallerAcquire(c) == PostAcquire(c) \/ PollAcquire(c)
ServerAcquire(s) == TakeAcquire(s) \/ SendAcquire(s)

\* What a caller inside Call does with no help from the semaphore.
CallerStep(c) ==
    PostId(c) \/ PostRequest(c) \/ PollBegin(c) \/ PollHit(c) \/ PollMiss(c) \/ CallTimeout(c)

\* What the provider's loop does with no help from the semaphore.
ServerStep(s) ==
    \/ TakeBegin(s) \/ TakeRequest(s) \/ TakeNothing(s)
    \/ SendBegin(s) \/ SendPayload(s) \/ SendCommit(s)

CallerNext(c) ==
    \/ CallBegin(c) \/ CallRefused(c) \/ CallerAcquire(c) \/ CallerStep(c)
    \/ Expire(c) \/ CallerCrash(c)

ServerNext(s) ==
    ServerAcquire(s) \/ ServerStep(s) \/ SendRefused(s) \/ ServerCrash(s)

Next == (\E c \in Callers : CallerNext(c)) \/ (\E s \in Servers : ServerNext(s))

Spec == Init /\ [][Next]_vars

\* Every process is scheduled, and none waits for ever for a semaphore that
\* becomes free again and again: between two sections a poller sleeps 10 ms.
Progress ==
    /\ \A c \in Callers : WF_vars(CallerStep(c)) /\ SF_vars(CallerAcquire(c))
    /\ \A s \in Servers : WF_vars(ServerStep(s)) /\ SF_vars(ServerAcquire(s))

\* The clock of a call may stand still: what the system does if given time.
FairSpec == Spec /\ Progress
-----------------------------------------------------------------------------
(* Properties *)

\* Type invariant: every variable keeps its shape, and the semaphore is never
\* posted by a process that does not hold it.
TypeOK ==
    /\ sem \in {0, 1}
    /\ layout \in [magic : BOOLEAN, request_sequence : Nat, response_sequence : Nat,
                   correlation_id : Nat, response_correlation_id : Nat,
                   request_payload : Nat, response_payload : Nat]
    /\ pc \in [Processes -> CallerLabels \cup ServerLabels]
    /\ \A c \in Callers : pc[c] \in CallerLabels
    /\ \A s \in Servers : pc[s] \in ServerLabels
    /\ issued \in Nat
    /\ request \in [Callers -> Nat]
    /\ correlation_id \in [Callers -> Nat]
    /\ response_sequence \in [Callers -> Nat]
    /\ expired \in [Callers -> BOOLEAN]
    /\ result \in [Callers -> [status : {"none", "failed", "ok"}, payload : Nat]]
    /\ last_seen_sequence \in [Servers -> Nat]
    /\ taken \in [Servers -> [id : Nat, payload : Nat]]
    /\ served \subseteq Nat
    /\ faults \in Nat

\* One process at a time is between sem_wait and sem_post of SemaphoreGuard, and
\* the semaphore is then taken.
OneInSection ==
    \A p \in Processes : pc[p] \in Section =>
        sem = 0 /\ \A q \in Processes : pc[q] \in Section => p = q

\* A call that returns a value returns the answer to its own request: neither
\* the answer to another caller that shares the slot, nor the late answer to
\* an earlier call that timed out, nor a half-written one.
AnswersOwnRequest ==
    \A c \in Callers : result[c].status = "ok" => result[c].payload = request[c]

\* A call that has not ended has no result.
PendingInv == \A c \in Callers : pc[c] # "idle" => result[c] = NoOutcome

\* The callers that wait for an answer have correlation ids of their own.
InFlight(c) == pc[c] \in {"post_request", "check", "poll_wait", "poll"}

CorrelationInv ==
    /\ \A c \in Callers : InFlight(c) => correlation_id[c] \in 1..layout.correlation_id
    /\ \A c, d \in Callers : InFlight(c) /\ InFlight(d) /\ c # d =>
           correlation_id[c] # correlation_id[d]
    /\ \A c \in Callers : pc[c] = "post_request" => correlation_id[c] = layout.correlation_id
    /\ layout.response_correlation_id \leq layout.correlation_id
    /\ \A s \in Servers : taken[s].id \leq layout.correlation_id

\* A region without the magic number is as ftruncate made it, and every writer
\* has set the number before it writes.
MagicInv ==
    /\ ~layout.magic => layout = FreshLayout
    /\ \A p \in Processes : pc[p] \in Section \ {"poll", "take"} => layout.magic

\* Whoever can look at the request slot finds it written in full: false while a
\* caller writes it, and for ever after a caller is killed while it writes it.
RequestReadable ==
    sem = 1 \/ \E p \in Processes : pc[p] \in Section \ {"post_request"}

\* The request slot holds the request of the call that took the last id.
RequestInv ==
    /\ \A c \in Callers : pc[c] # "idle" => request[c] \in 1..issued
    /\ \A s \in Servers : last_seen_sequence[s] \leq layout.request_sequence
    /\ \A c \in Callers : pc[c] = "post_request" =>
          layout.correlation_id = layout.request_sequence + 1
    /\ RequestReadable =>
          /\ layout.request_sequence = layout.correlation_id
          /\ layout.request_sequence # 0 => layout.request_payload \in 1..issued
          /\ \A c \in Callers : InFlight(c) /\ correlation_id[c] = layout.correlation_id =>
                layout.request_payload = request[c]

\* A provider works on the request of the call whose correlation id it carries.
TakenInv ==
    /\ \A s \in Servers, c \in Callers : InFlight(c) /\ taken[s].id = correlation_id[c] =>
          taken[s].payload = request[c]
    /\ \A s \in Servers : pc[s] \in {"respond", "send_wait", "send_payload", "send_commit"} =>
          taken[s].payload \in served

ResponseReadable ==
    sem = 1 \/ \E p \in Processes : pc[p] \in Section \ {"send_commit"}

\* The response slot answers the call whose correlation id it carries.
ResponseInv ==
    /\ \A s \in Servers : pc[s] = "send_commit" => layout.response_payload = taken[s].payload
    /\ ResponseReadable => \A c \in Callers :
          InFlight(c) /\ layout.response_correlation_id = correlation_id[c] =>
              layout.response_payload = request[c] /\ request[c] \in served

\* The inductive invariant.
IInv ==
    /\ TypeOK
    /\ OneInSection
    /\ MagicInv
    /\ CorrelationInv
    /\ RequestInv
    /\ TakenInv
    /\ ResponseInv
    /\ PendingInv
    /\ AnswersOwnRequest

\* A provider that keeps running takes no request twice and none that is older
\* than one it took: the ids it works on grow from step to step.
TakesNewerRequests ==
    [][\A s \in Servers : taken'[s] # taken[s] /\ taken'[s] # NoRequest =>
          taken'[s].id > last_seen_sequence[s]]_vars

\* Seen from its callers, the channel is a request/response service: a call
\* ends with an answer only if its request was taken, and with that answer.
Service == INSTANCE RequestResponse WITH
    open <- {c \in Callers : pc[c] # "idle"}, outcome <- result

ImplementsRequestResponse == Service!Spec

\* A call whose deadline has passed returns, by an answer or by its timeout.
CallReturns == \A c \in Callers : pc[c] # "idle" /\ expired[c] ~> pc[c] = "idle"

\* Somebody was killed in the section, and the semaphore stays taken for ever.
Wedged == faults > 0 /\ sem = 0 /\ \A p \in Processes : pc[p] \notin Section

\* The same of a channel in whose section nobody was killed: who else is killed, and
\* which answers are dropped, keeps no call from returning.
CallReturnsUnlessWedged ==
    \A c \in Callers : pc[c] # "idle" /\ expired[c] ~> pc[c] = "idle" \/ Wedged

\* A call that nobody disturbs is answered, if only its deadline leaves the
\* time: with one caller and no fault nothing overwrites either slot, and the
\* polling loop finds the answer.
Undisturbed(c) == faults = 0 /\ \A d \in Callers \ {c} : pc[d] = "idle"

UndisturbedCallAnswered ==
    \A c \in Callers :
        []Undisturbed(c) => (pc[c] = "post_wait" ~> expired[c] \/ result[c].status = "ok")

\* Every provider catches up with the request slot: the last request of all is
\* taken, whichever requests it has overwritten and whoever is restarted.
ProvidersCatchUp ==
    \A s \in Servers : []<>(last_seen_sequence[s] = layout.request_sequence \/ Wedged)
=============================================================================
