----------------------------- MODULE TirePressure -----------------------------
(***************************************************************************)
(* The tire pressure application: one provider process and consumer        *)
(* processes over an event channel, a fire-and-forget channel, a method    *)
(* channel and the registry.  The channels are the abstract ones that      *)
(* LatestValueChannel and MethodChannel implement, so that this module is  *)
(* about what the two programs do with them.                               *)
(*                                                                         *)
(* Samples are numbered in the order in which the provider loads them; 0   *)
(* is the empty sample.  The alarm about a sample is the sample's number.  *)
(*                                                                         *)
(* Nothing clears keep_running in either program: the client that they     *)
(* get from ExecutionClient::Create does not hear SIGTERM (see             *)
(* ExecutionClient), which kills them instead.                             *)
(***************************************************************************)
EXTENDS Naturals, Sequences

CONSTANTS
    Consumers,      \* the consumer processes
    Provider,       \* the provider process
    LowSamples,     \* the samples with a pressure below the limit
    MaxSamples,     \* bound: samples loaded
    MaxCalls,       \* bound: method calls
    MaxStarts,      \* bound: starts of a consumer
    MaxFaults       \* bound: kills and failing operations

ASSUME ApplicationAssumption ==
    /\ Provider \notin Consumers
    /\ MaxSamples \in Nat /\ MaxCalls \in Nat
    /\ MaxStarts \in Nat /\ MaxFaults \in Nat
    /\ LowSamples \subseteq 1..MaxSamples

VARIABLES
    events, event_cursor, cached_sample, events_delivered,  \* the event channel
    alarms, alarm_cursor, alarm_taken, alarms_delivered,    \* fire-and-forget
    issued, open, request, outcome, served,                 \* the method channel
    mapped,         \* is the instance specifier in the registry
    offered,        \* is the service in the registry
    provider,       \* the control point of the provider
    loaded,         \* the sample the provider loaded last
    latest_sample,  \* the skeleton's latest_sample_
    taken,          \* the request that the provider answers next
    replies,        \* the samples that were sent in answer to each request
    consumer,       \* the control point of each consumer's main thread
    receiver,       \* the control point of each consumer's receiver thread
    running,        \* the proxy's running_
    starts,         \* how often a consumer was started
    answered,       \* request_result: no sample, or the one that was returned
    faults,         \* how many kills and failures happened
    wedged          \* the channels whose semaphore a killed process has kept

eventVars == <<events, event_cursor, cached_sample, events_delivered>>
alarmVars == <<alarms, alarm_cursor, alarm_taken, alarms_delivered>>
callVars == <<issued, open, request, outcome, served>>
registry == <<mapped, offered>>
skeleton == <<provider, loaded, latest_sample, taken>>
proxies == <<consumer, receiver, running, starts, answered>>
faultVars == <<faults, wedged>>
vars == <<eventVars, alarmVars, callVars, registry, skeleton, replies, proxies, faultVars>>

Samples == 1..MaxSamples

Events == INSTANCE ConflatingFeed WITH
    Readers <- Consumers, log <- events,
    cursor <- event_cursor, cached <- cached_sample, delivered <- events_delivered
Alarms == INSTANCE ConflatingFeed WITH
    Readers <- {Provider}, Samples <- LowSamples, log <- alarms,
    cursor <- alarm_cursor, cached <- alarm_taken, delivered <- alarms_delivered
Calls == INSTANCE RequestResponse WITH Callers <- Consumers

None == 0

Channels == {"events", "calls", "alarms", "registry"}
Serving == {"serve", "answer", "alarm"}
Loop == {"load", "publish"} \cup Serving
ProviderLabels == {"off", "register", "offer", "stop"} \cup Loop
ReceiverLabels == {"none", "loop", "read", "handler", "calling", "alert"}

Init ==
    /\ Events!Init /\ Alarms!Init /\ Calls!Init
    /\ mapped = FALSE /\ offered = FALSE
    /\ provider = "off" /\ loaded = 0 /\ latest_sample = None /\ taken = None
    /\ replies = [r \in 1..MaxCalls |-> {}]
    /\ consumer = [c \in Consumers |-> "off"]
    /\ receiver = [c \in Consumers |-> "none"]
    /\ running = [c \in Consumers |-> FALSE]
    /\ starts = 0
    /\ answered = [c \in Consumers |-> {}]
    /\ faults = 0 /\ wedged = {}

Fault == faults < MaxFaults /\ faults' = faults + 1

\* An operation may fail when it opens the region or the semaphore, before it
\* waits for the semaphore.
Fails == Fault /\ UNCHANGED wedged

\* An operation waits for the semaphore of its channel, and without a timeout.
Succeeds(channel) == channel \notin wedged /\ UNCHANGED faultVars

\* A process is killed; when it is so between sem_wait and sem_post, nobody
\* posts the semaphore again.
Killed(used) == Fault /\ wedged' \in {wedged, wedged \cup used}

ProviderUses(label) ==
    CASE label \in {"register", "offer", "stop"} -> {"registry"}
      [] label = "publish" -> {"events"}
      [] label \in {"serve", "answer"} -> {"calls"}
      [] label = "alarm" -> {"alarms"}
      [] OTHER -> {}

ReceiverUses(label) ==
    CASE label = "read" -> {"events"}
      [] label \in {"handler", "calling"} -> {"calls"}
      [] label = "alert" -> {"alarms"}
      [] OTHER -> {}
-----------------------------------------------------------------------------
(* The provider's main *)

ProviderGoto(from, to) == provider = from /\ provider' = to

ProviderStarts ==
    /\ ProviderGoto("off", "register")
    /\ UNCHANGED <<eventVars, alarmVars, callVars, registry, loaded, latest_sample, taken,
                   replies, proxies, faultVars>>

RegisterMapping ==
    /\ ProviderGoto("register", "offer")
    /\ Succeeds("registry")
    /\ mapped' = TRUE
    /\ UNCHANGED <<eventVars, alarmVars, callVars, offered, loaded, latest_sample, taken,
                   replies, proxies>>

OfferService ==
    /\ ProviderGoto("offer", "load")
    /\ Succeeds("registry")
    /\ offered' = TRUE
    /\ UNCHANGED <<eventVars, alarmVars, callVars, mapped, loaded, latest_sample, taken,
                   replies, proxies>>

LoadSample ==
    /\ loaded < MaxSamples
    /\ ProviderGoto("load", "publish")
    /\ loaded' = loaded + 1
    /\ UNCHANGED <<eventVars, alarmVars, callVars, registry, latest_sample, taken, replies,
                   proxies, faultVars>>

\* Bound: when the samples are used up, the loop goes on without new ones.
NoMoreSamples ==
    /\ loaded = MaxSamples /\ latest_sample # None
    /\ ProviderGoto("load", "serve")
    /\ UNCHANGED <<eventVars, alarmVars, callVars, registry, loaded, latest_sample, taken,
                   replies, proxies, faultVars>>

\* Mutant: the skeleton does not remember the sample.
PublishAndForget ==
    /\ ProviderGoto("publish", "serve")
    /\ Succeeds("events")
    /\ Events!Publish(loaded)
    /\ UNCHANGED <<alarmVars, callVars, registry, loaded, latest_sample, taken, replies,
                   proxies>>

\* Mutant: the skeleton remembers its first sample only.
PublishAndKeepFirst ==
    /\ ProviderGoto("publish", "serve")
    /\ Succeeds("events")
    /\ latest_sample' = IF latest_sample = None THEN loaded ELSE latest_sample
    /\ Events!Publish(loaded)
    /\ UNCHANGED <<alarmVars, callVars, registry, loaded, taken, replies, proxies>>

\* The skeleton remembers the sample before it publishes it.
Publish ==
    /\ ProviderGoto("publish", "serve")
    /\ Succeeds("events")
    /\ latest_sample' = loaded
    /\ Events!Publish(loaded)
    /\ UNCHANGED <<alarmVars, callVars, registry, loaded, taken, replies, proxies>>

PublishFails ==
    /\ ProviderGoto("publish", "stop")
    /\ Fails
    /\ latest_sample' = loaded
    /\ UNCHANGED <<eventVars, alarmVars, callVars, registry, loaded, taken, replies, proxies>>

TakeMethodCall ==
    /\ ProviderGoto("serve", "answer")
    /\ Succeeds("calls")
    /\ \E r \in 1..issued : taken' = r /\ Calls!Serve(r)
    /\ UNCHANGED <<eventVars, alarmVars, registry, loaded, latest_sample, replies, proxies>>

\* There is no new request, or the channel cannot be opened.
NoMethodCall ==
    /\ ProviderGoto("serve", "alarm")
    /\ Succeeds("calls") \/ Fails
    /\ UNCHANGED <<eventVars, alarmVars, callVars, registry, loaded, latest_sample, taken,
                   replies, proxies>>

SendMethodResponse ==
    /\ ProviderGoto("answer", "alarm")
    /\ Succeeds("calls")
    /\ replies' = [replies EXCEPT ![taken] = @ \cup {latest_sample}]
    /\ taken' = None
    /\ UNCHANGED <<eventVars, alarmVars, callVars, registry, loaded, latest_sample, proxies>>

\* main logs the failure and goes on.
ResponseFails ==
    /\ ProviderGoto("answer", "alarm")
    /\ Fails
    /\ taken' = None
    /\ UNCHANGED <<eventVars, alarmVars, callVars, registry, loaded, latest_sample, replies,
                   proxies>>

TakeAlarm ==
    /\ ProviderGoto("alarm", "load")
    /\ Succeeds("alarms")
    /\ Alarms!Deliver(Provider)
    /\ UNCHANGED <<eventVars, callVars, registry, loaded, latest_sample, taken, replies,
                   proxies>>

NoAlarm ==
    /\ ProviderGoto("alarm", "load")
    /\ \/ alarm_cursor[Provider] = Len(alarms) /\ Succeeds("alarms")
       \/ Fails
    /\ UNCHANGED <<eventVars, alarmVars, callVars, registry, loaded, latest_sample, taken,
                   replies, proxies>>

\* The process is gone, and its locals with it.
ProviderGone ==
    /\ provider' = "off" /\ latest_sample' = None /\ taken' = None
    /\ Alarms!Restart(Provider)
    /\ UNCHANGED <<eventVars, callVars, loaded, replies, proxies>>

\* After the loop; the result of StopOfferService is ignored.
StopOfferService ==
    /\ provider = "stop"
    /\ \/ offered' = FALSE /\ Succeeds("registry")
       \/ Fails /\ UNCHANGED offered
    /\ ProviderGone
    /\ UNCHANGED mapped

\* main returns 1 when it cannot register, offer or load, or the process is
\* killed: nobody stops what it offered.
ProviderDies ==
    /\ provider # "off"
    /\ Killed(ProviderUses(provider))
    /\ ProviderGone
    /\ UNCHANGED registry
-----------------------------------------------------------------------------
(* A consumer: its main thread and the receiver thread of its proxy *)

ReceiverGoto(c, from, to) ==
    receiver[c] = from /\ receiver' = [receiver EXCEPT ![c] = to]

\* Connect succeeds whatever it finds in the registry; Subscribe.
ConsumerStarts(c) ==
    /\ starts < MaxStarts /\ starts' = starts + 1
    /\ Succeeds("registry") \/ Fails
    /\ consumer[c] = "off"
    /\ consumer' = [consumer EXCEPT ![c] = "subscribed"]
    /\ running' = [running EXCEPT ![c] = TRUE]
    /\ ReceiverGoto(c, "none", "loop")
    /\ UNCHANGED <<eventVars, alarmVars, callVars, registry, skeleton, replies, answered>>

\* It is killed while it connects.
ConsumerDies(c) ==
    /\ starts < MaxStarts /\ starts' = starts + 1
    /\ consumer[c] = "off"
    /\ Killed({"registry"})
    /\ UNCHANGED <<eventVars, alarmVars, callVars, registry, skeleton, replies, consumer,
                   receiver, running, answered>>

\* Mutant: running_ is not cleared before the join.
StopRunning(c) ==
    /\ consumer[c] = "subscribed"
    /\ consumer' = [consumer EXCEPT ![c] = "joining"]
    /\ UNCHANGED <<eventVars, alarmVars, callVars, registry, skeleton, replies, receiver,
                   running, starts, answered, faultVars>>

\* After a minute the main thread stops the subscription, and then joins.
StopSubscription(c) ==
    /\ consumer[c] = "subscribed"
    /\ consumer' = [consumer EXCEPT ![c] = "joining"]
    /\ running' = [running EXCEPT ![c] = FALSE]
    /\ UNCHANGED <<eventVars, alarmVars, callVars, registry, skeleton, replies, receiver,
                   starts, answered, faultVars>>

\* Mutant: the receiver thread is detached.
Detached(c) ==
    /\ consumer[c] = "joining"
    /\ consumer' = [consumer EXCEPT ![c] = "off"]
    /\ answered' = [answered EXCEPT ![c] = {}]
    /\ Events!Restart(c)
    /\ UNCHANGED <<alarmVars, callVars, registry, skeleton, replies, receiver, running,
                   starts, faultVars>>

Joined(c) ==
    /\ consumer[c] = "joining" /\ receiver[c] = "none"
    /\ consumer' = [consumer EXCEPT ![c] = "off"]
    /\ answered' = [answered EXCEPT ![c] = {}]
    /\ Events!Restart(c)
    /\ UNCHANGED <<alarmVars, callVars, registry, skeleton, replies, receiver, running,
                   starts, faultVars>>

ConsumerKilled(c) ==
    /\ consumer[c] # "off"
    /\ Killed(ReceiverUses(receiver[c]))
    /\ consumer' = [consumer EXCEPT ![c] = "off"]
    /\ receiver' = [receiver EXCEPT ![c] = "none"]
    /\ running' = [running EXCEPT ![c] = FALSE]
    /\ answered' = [answered EXCEPT ![c] = {}]
    /\ Events!Restart(c)
    /\ \/ c \in open /\ Calls!Finish(c) /\ outcome'[c] = Calls!NoOutcome
       \/ c \notin open /\ UNCHANGED callVars
    /\ UNCHANGED <<alarmVars, registry, skeleton, replies, starts>>

ReceiverLoops(c) ==
    /\ IF running[c] THEN ReceiverGoto(c, "loop", "read") ELSE ReceiverGoto(c, "loop", "none")
    /\ UNCHANGED <<eventVars, alarmVars, callVars, registry, skeleton, replies, consumer,
                   running, starts, answered, faultVars>>

GetNewEvent(c) ==
    /\ ReceiverGoto(c, "read", "handler")
    /\ Succeeds("events")
    /\ Events!Deliver(c)
    /\ answered' = [answered EXCEPT ![c] = {}]
    /\ UNCHANGED <<alarmVars, callVars, registry, skeleton, replies, consumer, running, starts>>

NoNewEvent(c) ==
    /\ ReceiverGoto(c, "read", "loop")
    /\ \/ event_cursor[c] = Len(events) /\ Succeeds("events")
       \/ Fails
    /\ UNCHANGED <<eventVars, alarmVars, callVars, registry, skeleton, replies, consumer,
                   running, starts, answered>>

GetLatestByRequest(c) ==
    /\ issued < MaxCalls
    /\ Succeeds("calls")
    /\ ReceiverGoto(c, "handler", "calling")
    /\ Calls!Invoke(c) /\ c \in open'
    /\ UNCHANGED <<eventVars, alarmVars, registry, skeleton, replies, consumer, running,
                   starts, answered>>

\* The channel cannot be opened, or the bound on calls is reached.
CallRefused(c) ==
    /\ ReceiverGoto(c, "handler", "alert")
    /\ \/ issued = MaxCalls /\ UNCHANGED faultVars
       \/ Fails
    /\ UNCHANGED <<eventVars, alarmVars, callVars, registry, skeleton, replies, consumer,
                   running, starts, answered>>

CallAnswered(c) ==
    /\ ReceiverGoto(c, "calling", "alert")
    /\ Succeeds("calls")
    /\ Calls!Finish(c) /\ outcome'[c] = Calls!Answer(request[c])
    /\ \E x \in replies[request[c]] : answered' = [answered EXCEPT ![c] = {x}]
    /\ UNCHANGED <<eventVars, alarmVars, registry, skeleton, replies, consumer, running, starts>>

\* Mutant: the handler gives up.
CallFailsHandler(c) ==
    /\ ReceiverGoto(c, "calling", "loop")
    /\ Calls!Finish(c) /\ outcome'[c] = Calls!Failure
    /\ UNCHANGED <<eventVars, alarmVars, registry, skeleton, replies, consumer, running, starts,
                   answered, faultVars>>

\* The timeout expires.  The handler goes on with the sample it has.
CallFails(c) ==
    /\ ReceiverGoto(c, "calling", "alert")
    /\ Calls!Finish(c) /\ outcome'[c] = Calls!Failure
    /\ UNCHANGED <<eventVars, alarmVars, registry, skeleton, replies, consumer, running,
                   starts, answered, faultVars>>

HasLowTirePressure(x) == x \in LowSamples

SendLowPressureAlarm(c) ==
    /\ ReceiverGoto(c, "alert", "loop")
    /\ Succeeds("alarms")
    /\ HasLowTirePressure(cached_sample[c])
    /\ Alarms!Publish(cached_sample[c])
    /\ UNCHANGED <<eventVars, callVars, registry, skeleton, replies, consumer, running,
                   starts, answered>>

\* All pressures are within the safe range, or the alarm cannot be sent, the
\* result of which is ignored.
NoAlarmSent(c) ==
    /\ ReceiverGoto(c, "alert", "loop")
    /\ \/ ~HasLowTirePressure(cached_sample[c]) /\ UNCHANGED faultVars
       \/ Fails
    /\ UNCHANGED <<eventVars, alarmVars, callVars, registry, skeleton, replies, consumer,
                   running, starts, answered>>
-----------------------------------------------------------------------------
(* One turn of the provider; what it does when nothing disturbs it. *)
ProviderStep ==
    \/ RegisterMapping \/ OfferService \/ LoadSample \/ NoMoreSamples \/ Publish
    \/ TakeMethodCall \/ NoMethodCall \/ SendMethodResponse
    \/ TakeAlarm \/ NoAlarm \/ StopOfferService

ReceiverStep(c) ==
    \/ ReceiverLoops(c) \/ GetNewEvent(c) \/ NoNewEvent(c)
    \/ GetLatestByRequest(c) \/ CallRefused(c) \/ CallAnswered(c) \/ CallFails(c)
    \/ SendLowPressureAlarm(c) \/ NoAlarmSent(c)

Next ==
    \/ ProviderStarts \/ ProviderStep \/ PublishFails \/ ResponseFails \/ ProviderDies
    \/ \E c \in Consumers :
        \/ ConsumerStarts(c) \/ ConsumerDies(c) \/ StopSubscription(c) \/ Joined(c) \/ ConsumerKilled(c)
        \/ ReceiverStep(c)

Spec == Init /\ [][Next]_vars

\* The receiver's operation is on a channel that a killed process has wedged.
Blocked(c) == ReceiverUses(receiver[c]) \cap wedged # {}

\* The threads are scheduled, and an operation on a channel that is not wedged
\* returns.  Nothing is promised about one that is: the caller of a method may
\* still find its deadline passed, or wait for ever.  Nothing has to fail.
FairSpec ==
    /\ Spec
    /\ WF_vars(ProviderStep /\ UNCHANGED faults)
    /\ \A c \in Consumers :
        /\ WF_vars(ReceiverStep(c) /\ UNCHANGED faults /\ ~Blocked(c))
        /\ WF_vars(Joined(c))
-----------------------------------------------------------------------------
EventTypes ==
    /\ events \in Seq(Samples) /\ event_cursor \in [Consumers -> Nat]
    /\ cached_sample \in [Consumers -> 0..MaxSamples] /\ events_delivered \in [Consumers -> Nat]

AlarmTypes ==
    /\ alarms \in Seq(LowSamples) /\ alarm_cursor \in [{Provider} -> Nat]
    /\ alarm_taken \in [{Provider} -> 0..MaxSamples]
    /\ alarms_delivered \in [{Provider} -> Nat]

CallTypes ==
    /\ issued \in 0..MaxCalls /\ open \subseteq Consumers
    /\ request \in [Consumers -> 0..MaxCalls] /\ served \subseteq 1..MaxCalls
    /\ outcome \in [Consumers -> [status : {"none", "ok", "failed"}, payload : 0..MaxCalls]]

ProviderTypes ==
    /\ mapped \in BOOLEAN /\ offered \in BOOLEAN
    /\ provider \in ProviderLabels /\ loaded \in 0..MaxSamples
    /\ latest_sample \in 0..MaxSamples /\ taken \in 0..MaxCalls
    /\ replies \in [1..MaxCalls -> SUBSET Samples]

ConsumerTypes ==
    /\ consumer \in [Consumers -> {"off", "subscribed", "joining"}]
    /\ receiver \in [Consumers -> ReceiverLabels]
    /\ running \in [Consumers -> BOOLEAN] /\ starts \in 0..MaxStarts
    /\ answered \in [Consumers -> SUBSET Samples]

FaultTypes == faults \in 0..MaxFaults /\ wedged \subseteq Channels

TypeOK ==
    /\ EventTypes /\ AlarmTypes /\ CallTypes /\ ProviderTypes /\ ConsumerTypes
    /\ FaultTypes

\* The call by which the consumer validates an event never returns an older
\* sample than that event, nor the empty one: across two channels, restarts of
\* both programs, and late answers.  It rests on Publish remembering every
\* sample that it publishes, and on one provider at a time.
AnswerIsFresh ==
    \A c \in Consumers : \A x \in answered[c] : x >= cached_sample[c]

\* A low sample that a consumer got comes back to the provider as an alarm,
\* or a newer alarm does, if nothing fails: although the call may time out,
\* the subscription may be stopped, and consumers overwrite each other's
\* alarms.
LowPressureIsReported ==
    \A c \in Consumers : \A x \in LowSamples :
        (cached_sample[c] = x) ~> (faults > 0 \/ x \in {alarms[i] : i \in 1..alarm_cursor[Provider]})

\* StopSubscription returns: the receiver thread, which may be in a call when
\* running_ is cleared, ends and is joined, unless its own operation waits for
\* a semaphore that a killed process has kept.  Then nothing ends the join,
\* although the other channels may be intact.
SubscriptionEnds ==
    \A c \in Consumers : (consumer[c] = "joining") ~> (consumer[c] = "off" \/ Blocked(c))

\* What a consumer can know of was loaded.
KnownWasLoaded ==
    /\ \A i \in DOMAIN events : events[i] <= loaded
    /\ \A c \in Consumers : cached_sample[c] <= loaded

\* The provider answers with the sample it loaded last, which is published.
LatestIsLoaded ==
    /\ provider \in Serving => latest_sample = loaded /\ loaded # 0
    /\ provider \in {"off", "register", "offer"} => latest_sample = None
    /\ provider = "load" => latest_sample \in {None, loaded}
    /\ provider = "publish" => loaded # 0

\* A call is open while the handler waits for it; its request has only
\* answers that are newer than the event.
OpenCallsAreFresh ==
    /\ \A c \in Consumers : c \in open <=> receiver[c] = "calling"
    /\ \A c \in open : /\ request[c] \in 1..issued
                       /\ \A x \in replies[request[c]] : x >= cached_sample[c]
    /\ provider = "answer" => taken \in 1..issued
    /\ \A r \in 1..MaxCalls : r > issued => replies[r] = {}

\* A provider that serves can be found, and what is found can be resolved.
Findable ==
    /\ provider \in Loop => offered
    /\ offered \/ provider = "offer" => mapped

\* A thread runs exactly while its owner has not joined it.
ThreadsAreOwned ==
    \A c \in Consumers :
        /\ consumer[c] = "off" => receiver[c] = "none"
        /\ running[c] <=> consumer[c] = "subscribed"
        /\ running[c] => receiver[c] # "none"

\* The inductive invariant.
IInv ==
    /\ TypeOK /\ KnownWasLoaded /\ LatestIsLoaded /\ OpenCallsAreFresh
    /\ Findable /\ ThreadsAreOwned /\ AnswerIsFresh
=============================================================================
