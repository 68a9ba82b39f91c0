-------------------------- MODULE TirePressureProofs --------------------------
(***************************************************************************)
(* Proofs about TirePressure, for any number of consumers, samples, calls  *)
(* and restarts.                                                           *)
(***************************************************************************)
EXTENDS TirePressure, TLAPS

USE ApplicationAssumption DEF ApplicationAssumption

LEMMA LowAreSamples == LowSamples \subseteq Samples /\ Samples \subseteq 0..MaxSamples
BY DEF Samples

-----------------------------------------------------------------------------
(* What the programs do to each channel *)

\* The last element of a log.
LEMMA LastOfLog ==
    ASSUME NEW S, NEW s \in Seq(S), NEW n \in Nat, n < Len(s)
    PROVE  s[Len(s)] \in S /\ Len(s) \in Nat /\ Len(s) \in DOMAIN s
OBVIOUS

EventStep ==
    \/ UNCHANGED eventVars
    \/ provider = "publish" /\ Events!Publish(loaded)
    \/ \E c \in Consumers :
        \/ receiver[c] = "read" /\ receiver' = [receiver EXCEPT ![c] = "handler"]
           /\ Events!Deliver(c)
        \/ consumer'[c] = "off" /\ Events!Restart(c)

AlarmStep ==
    \/ UNCHANGED alarmVars
    \/ \E x \in LowSamples : Alarms!Publish(x)
    \/ Alarms!Deliver(Provider)
    \/ Alarms!Restart(Provider)

CallStep ==
    \/ UNCHANGED callVars
    \/ \E r \in 1..issued : Calls!Serve(r)
    \/ issued < MaxCalls /\ \E c \in Consumers : Calls!Invoke(c)
    \/ \E c \in Consumers : Calls!Finish(c)

LEMMA ChannelSteps ==
    ASSUME TypeOK, Next
    PROVE  EventStep /\ AlarmStep /\ CallStep
<1> USE DEF EventStep, AlarmStep, CallStep, registry, skeleton, proxies
<1>1. CASE ProviderStarts
  BY <1>1 DEF ProviderStarts
<1>2. CASE RegisterMapping \/ OfferService \/ LoadSample \/ NoMoreSamples
  BY <1>2 DEF RegisterMapping, OfferService, LoadSample, NoMoreSamples
<1>3. CASE Publish \/ PublishFails
  BY <1>3 DEF Publish, PublishFails, ProviderGoto
<1>4. CASE TakeMethodCall \/ NoMethodCall
  BY <1>4 DEF TakeMethodCall, NoMethodCall
<1>5. CASE SendMethodResponse \/ ResponseFails
  BY <1>5 DEF SendMethodResponse, ResponseFails
<1>6. CASE TakeAlarm \/ NoAlarm
  BY <1>6 DEF TakeAlarm, NoAlarm
<1>7. CASE StopOfferService \/ ProviderDies
  BY <1>7 DEF StopOfferService, ProviderDies, ProviderGone
<1>8. ASSUME NEW c \in Consumers, ConsumerStarts(c) \/ ConsumerDies(c) \/ StopSubscription(c)
      PROVE  EventStep /\ AlarmStep /\ CallStep
  BY <1>8 DEF ConsumerStarts, ConsumerDies, StopSubscription
<1>9. ASSUME NEW c \in Consumers, Joined(c) \/ ConsumerKilled(c)
      PROVE  EventStep /\ AlarmStep /\ CallStep
  <2>1. consumer'[c] = "off" /\ Events!Restart(c)
    BY <1>9 DEF Joined, ConsumerKilled, TypeOK, ConsumerTypes
  <2>2. EventStep
    BY <2>1
  <2>3. AlarmStep /\ CallStep
    BY <1>9 DEF Joined, ConsumerKilled
  <2> QED
    BY <2>2, <2>3
<1>10. ASSUME NEW c \in Consumers, ReceiverStep(c)
       PROVE  EventStep /\ AlarmStep /\ CallStep
  <2>1. CASE ReceiverLoops(c) \/ NoNewEvent(c) \/ CallRefused(c) \/ NoAlarmSent(c)
    BY <2>1 DEF ReceiverLoops, NoNewEvent, CallRefused, NoAlarmSent
  <2>2. CASE GetNewEvent(c)
    BY <2>2 DEF GetNewEvent, ReceiverGoto
  <2>3. CASE GetLatestByRequest(c)
    BY <2>3 DEF GetLatestByRequest
  <2>4. CASE CallAnswered(c) \/ CallFails(c)
    BY <2>4 DEF CallAnswered, CallFails
  <2>5. CASE SendLowPressureAlarm(c)
    BY <2>5 DEF SendLowPressureAlarm, HasLowTirePressure
  <2> QED
    BY <1>10, <2>1, <2>2, <2>3, <2>4, <2>5 DEF ReceiverStep
<1> QED
  BY <1>1, <1>2, <1>3, <1>4, <1>5, <1>6, <1>7, <1>8, <1>9, <1>10 DEF Next, ProviderStep
-----------------------------------------------------------------------------
(* Types *)

LEMMA InitInvariant == Init => IInv
<1> SUFFICES ASSUME Init PROVE IInv
  OBVIOUS
<1>1. EventTypes
  BY DEF Init, Events!Init, Events!NoSample, EventTypes
<1>2. AlarmTypes
  BY DEF Init, Alarms!Init, Alarms!NoSample, AlarmTypes
<1>3. CallTypes
  BY DEF Init, Calls!Init, Calls!NoOutcome, CallTypes
<1>4. ProviderTypes /\ ConsumerTypes
  <2>1. replies \in [1..MaxCalls -> SUBSET Samples]
    BY DEF Init
  <2>4. loaded \in 0..MaxSamples /\ latest_sample \in 0..MaxSamples /\ taken \in 0..MaxCalls
    BY DEF Init, None
  <2>5. ProviderTypes
    BY <2>1, <2>4 DEF Init, ProviderTypes, ProviderLabels
  <2>2. receiver \in [Consumers -> ReceiverLabels]
    BY DEF Init, ReceiverLabels
  <2>3. answered \in [Consumers -> SUBSET Samples]
    BY DEF Init
  <2> QED
    BY <2>2, <2>3, <2>5 DEF Init, ConsumerTypes
<1>8. FaultTypes
  BY DEF Init, FaultTypes, Channels
<1>5. KnownWasLoaded
  BY DEF Init, Events!Init, Events!NoSample, KnownWasLoaded
<1>6. LatestIsLoaded /\ Findable
  BY DEF Init, LatestIsLoaded, Findable, Loop, Serving
<1>7. OpenCallsAreFresh /\ ThreadsAreOwned /\ AnswerIsFresh
  BY DEF Init, Calls!Init, OpenCallsAreFresh, ThreadsAreOwned, AnswerIsFresh
<1> QED
  BY <1>1, <1>2, <1>3, <1>4, <1>5, <1>6, <1>7, <1>8 DEF IInv, TypeOK

LEMMA EventTypesKept ==
    ASSUME IInv, EventStep
    PROVE  EventTypes'
<1> USE DEF IInv, TypeOK, EventTypes
<1>1. CASE UNCHANGED eventVars
  BY <1>1 DEF eventVars
<1>2. CASE provider = "publish" /\ Events!Publish(loaded)
  <2>1. loaded \in Samples
    BY <1>2 DEF LatestIsLoaded, ProviderTypes, Samples
  <2>2. events' \in Seq(Samples)
    BY <1>2, <2>1 DEF Events!Publish
  <2> QED
    BY <1>2, <2>2 DEF Events!Publish
<1>3. ASSUME NEW c \in Consumers, Events!Deliver(c)
      PROVE  EventTypes'
  <2>1. events[Len(events)] \in Samples /\ Len(events) \in Nat
    BY <1>3, LastOfLog DEF Events!Deliver
  <2>2. cached_sample' \in [Consumers -> 0..MaxSamples]
    BY <1>3, <2>1 DEF Events!Deliver, Samples
  <2> QED
    BY <1>3, <2>1, <2>2 DEF Events!Deliver
<1>4. ASSUME NEW c \in Consumers, Events!Restart(c)
      PROVE  EventTypes'
  BY <1>4 DEF Events!Restart, Events!NoSample
<1> QED
  BY <1>1, <1>2, <1>3, <1>4 DEF EventStep

LEMMA AlarmTypesKept ==
    ASSUME TypeOK, AlarmStep
    PROVE  AlarmTypes'
<1> USE DEF TypeOK, AlarmTypes
<1>1. CASE UNCHANGED alarmVars
  BY <1>1 DEF alarmVars
<1>2. ASSUME NEW x \in LowSamples, Alarms!Publish(x)
      PROVE  AlarmTypes'
  BY <1>2 DEF Alarms!Publish
<1>3. CASE Alarms!Deliver(Provider)
  <2>1. alarms[Len(alarms)] \in LowSamples /\ Len(alarms) \in Nat
    BY <1>3, LastOfLog DEF Alarms!Deliver
  <2>2. alarms[Len(alarms)] \in 0..MaxSamples
    BY ONLY <2>1, LowAreSamples
  <2>3. alarm_taken' = [alarm_taken EXCEPT ![Provider] = alarms[Len(alarms)]]
    BY <1>3 DEF Alarms!Deliver
  <2>4. alarm_taken' \in [{Provider} -> 0..MaxSamples]
    BY ONLY <2>2, <2>3, AlarmTypes DEF AlarmTypes
  <2> QED
    BY <1>3, <2>1, <2>4 DEF Alarms!Deliver
<1>4. CASE Alarms!Restart(Provider)
  BY <1>4 DEF Alarms!Restart, Alarms!NoSample
<1> QED
  BY <1>1, <1>2, <1>3, <1>4 DEF AlarmStep

LEMMA CallTypesKept ==
    ASSUME TypeOK, CallStep
    PROVE  CallTypes'
<1> USE DEF TypeOK, CallTypes
<1>1. CASE UNCHANGED callVars
  BY <1>1 DEF callVars
<1>2. ASSUME NEW r \in 1..issued, Calls!Serve(r)
      PROVE  CallTypes'
  BY <1>2 DEF Calls!Serve
<1> DEFINE Outcome == [status : {"none", "ok", "failed"}, payload : 0..MaxCalls]
<1>3. ASSUME NEW c \in Consumers, issued < MaxCalls, Calls!Invoke(c)
      PROVE  CallTypes'
  <2>1. Calls!NoOutcome \in Outcome /\ Calls!Failure \in Outcome
    BY DEF Calls!NoOutcome, Calls!Failure
  <2>2. outcome' \in [Consumers -> Outcome]
    BY <1>3, <2>1 DEF Calls!Invoke
  <2>3. open' \subseteq Consumers
    BY <1>3 DEF Calls!Invoke
  <2>4. issued' \in 0..MaxCalls /\ request' \in [Consumers -> 0..MaxCalls]
    BY <1>3 DEF Calls!Invoke
  <2> QED
    BY <1>3, <2>2, <2>3, <2>4 DEF Calls!Invoke
<1>4. ASSUME NEW c \in Consumers, Calls!Finish(c)
      PROVE  CallTypes'
  <2>1. Calls!NoOutcome \in Outcome /\ Calls!Failure \in Outcome
    BY DEF Calls!NoOutcome, Calls!Failure
  <2>2. Calls!Answer(request[c]) \in Outcome
    BY DEF Calls!Answer
  <2>3. outcome' \in [Consumers -> Outcome]
    BY <1>4, <2>1, <2>2 DEF Calls!Finish
  <2> QED
    BY <1>4, <2>3 DEF Calls!Finish
<1> QED
  BY <1>1, <1>2, <1>3, <1>4 DEF CallStep

-----------------------------------------------------------------------------
(* What the provider keeps true *)

ProviderInv == ProviderTypes /\ LatestIsLoaded /\ Findable

\* A consumer does not touch it.
LEMMA ConsumersLeaveProvider ==
    ASSUME NEW c \in Consumers,
           \/ ConsumerStarts(c) \/ ConsumerDies(c) \/ StopSubscription(c) \/ Joined(c)
           \/ ConsumerKilled(c) \/ ReceiverStep(c)
    PROVE  UNCHANGED <<registry, skeleton, replies>>
BY DEF ConsumerStarts, ConsumerDies, StopSubscription, Joined, ConsumerKilled, ReceiverStep,
       ReceiverLoops, GetNewEvent, NoNewEvent, GetLatestByRequest, CallRefused,
       CallAnswered, CallFails, SendLowPressureAlarm, NoAlarmSent

LEMMA ProviderInvKept ==
    ASSUME IInv, Next
    PROVE  ProviderInv'
<1> USE DEF IInv, TypeOK, ProviderInv, ProviderTypes, LatestIsLoaded, Findable,
            ProviderGoto, ProviderLabels, Loop, Serving, None
<1>1. CASE ProviderStarts \/ RegisterMapping \/ OfferService
  <2>1. loaded' = loaded /\ latest_sample' = latest_sample /\ taken' = taken /\ replies' = replies
    BY <1>1 DEF ProviderStarts, RegisterMapping, OfferService
  <2>2. provider' \in {"register", "offer", "load"} /\ (provider' = "load" => provider = "offer")
    BY <1>1 DEF ProviderStarts, RegisterMapping, OfferService
  <2>3. mapped' \in BOOLEAN /\ offered' \in BOOLEAN
    BY <1>1 DEF ProviderStarts, RegisterMapping, OfferService, registry
  <2>4. ProviderTypes'
    BY <2>1, <2>2, <2>3
  <2>5. provider \in {"off", "register", "offer"}
    BY <1>1 DEF ProviderStarts, RegisterMapping, OfferService
  <2>7. latest_sample' = None
    BY <2>1, <2>5
  <2>8. LatestIsLoaded'
    BY <2>2, <2>7
  <2>6. Findable'
    <3>1. CASE ProviderStarts
      BY <3>1 DEF ProviderStarts, registry
    <3>2. CASE RegisterMapping
      BY <3>2 DEF RegisterMapping
    <3>3. CASE OfferService
      BY <3>3 DEF OfferService
    <3> QED
      BY <1>1, <3>1, <3>2, <3>3
  <2> QED
    BY <2>4, <2>6, <2>8
<1>2. CASE LoadSample \/ NoMoreSamples
  BY <1>2 DEF LoadSample, NoMoreSamples, registry
<1>3. CASE Publish \/ PublishFails
  BY <1>3 DEF Publish, PublishFails, registry
<1>4. CASE TakeMethodCall \/ NoMethodCall
  <2>1. taken' \in 0..MaxCalls
    BY <1>4 DEF TakeMethodCall, NoMethodCall, CallTypes
  <2> QED
    BY <1>4, <2>1 DEF TakeMethodCall, NoMethodCall, registry
<1>5. CASE SendMethodResponse \/ ResponseFails
  <2>1. latest_sample \in Samples
    BY <1>5 DEF SendMethodResponse, ResponseFails, Samples
  <2>2. replies' \in [1..MaxCalls -> SUBSET Samples]
    BY <1>5, <2>1 DEF SendMethodResponse, ResponseFails
  <2> QED
    BY <1>5, <2>2 DEF SendMethodResponse, ResponseFails, registry
<1>6. CASE TakeAlarm \/ NoAlarm
  BY <1>6 DEF TakeAlarm, NoAlarm, registry
<1>7. CASE StopOfferService \/ ProviderDies
  <2>1. provider' = "off" /\ loaded' = loaded /\ replies' = replies /\ mapped' = mapped
    BY <1>7 DEF StopOfferService, ProviderDies, ProviderGone, registry
  <2>2. latest_sample' = None /\ taken' = None
    BY <1>7 DEF StopOfferService, ProviderDies, ProviderGone
  <2>3. offered' = FALSE \/ offered' = offered
    BY <1>7 DEF StopOfferService, ProviderDies, ProviderGone, registry
  <2>4. LatestIsLoaded'
    BY <2>1, <2>2
  <2>5. Findable'
    BY <2>1, <2>3
  <2>6. mapped' \in BOOLEAN /\ offered' \in BOOLEAN
    BY <2>1, <2>3
  <2>7. latest_sample' \in 0..MaxSamples /\ taken' \in 0..MaxCalls
    BY ONLY <2>2, ApplicationAssumption DEF ApplicationAssumption, None
  <2>8. ProviderTypes'
    BY <2>1, <2>6, <2>7
  <2> QED
    BY <2>4, <2>5, <2>8
<1>8. CASE UNCHANGED <<registry, skeleton, replies>>
  BY <1>8 DEF registry, skeleton
<1> QED
  BY <1>1, <1>2, <1>3, <1>4, <1>5, <1>6, <1>7, <1>8, ConsumersLeaveProvider
  DEF Next, ProviderStep

-----------------------------------------------------------------------------
(* What the consumers keep true *)

ConsumerInv == ConsumerTypes /\ ThreadsAreOwned

\* The provider does not touch it.
ProviderActs ==
    ProviderStarts \/ ProviderStep \/ PublishFails \/ ResponseFails \/ ProviderDies

LEMMA ProviderLeavesConsumers ==
    ASSUME ProviderActs
    PROVE  UNCHANGED proxies
BY DEF ProviderActs, ProviderStep, ProviderStarts, RegisterMapping, OfferService,
       LoadSample, NoMoreSamples, Publish, PublishFails, TakeMethodCall, NoMethodCall,
       SendMethodResponse, ResponseFails, TakeAlarm, NoAlarm, StopOfferService,
       ProviderDies, ProviderGone

LEMMA ConsumerInvKept ==
    ASSUME IInv, Next
    PROVE  ConsumerInv'
<1> USE DEF IInv, TypeOK, ConsumerInv, ConsumerTypes, ThreadsAreOwned, ReceiverGoto,
            ReceiverLabels
<1>1. CASE ProviderActs
  BY <1>1, ProviderLeavesConsumers DEF proxies
<1>2. ASSUME NEW c \in Consumers, ConsumerStarts(c) \/ StopSubscription(c)
      PROVE  ConsumerInv'
  <2>1. /\ consumer' \in [Consumers -> {"off", "subscribed", "joining"}]
        /\ receiver' \in [Consumers -> ReceiverLabels]
        /\ running' \in [Consumers -> BOOLEAN]
        /\ answered' = answered
    BY <1>2 DEF ConsumerStarts, StopSubscription
  <2>5. starts' \in 0..MaxStarts
    BY <1>2 DEF ConsumerStarts, StopSubscription
  <2>2. \A d \in Consumers : d # c =>
          consumer'[d] = consumer[d] /\ receiver'[d] = receiver[d] /\ running'[d] = running[d]
    BY <1>2 DEF ConsumerStarts, StopSubscription
  <2>3. \/ consumer'[c] = "subscribed" /\ receiver'[c] = "loop" /\ running'[c] = TRUE
        \/ consumer'[c] = "joining" /\ running'[c] = FALSE
    BY <1>2 DEF ConsumerStarts, StopSubscription
  <2>4. ThreadsAreOwned'
    BY <2>2, <2>3
  <2> QED
    BY <2>1, <2>4, <2>5
<1>3. ASSUME NEW c \in Consumers, Joined(c) \/ ConsumerKilled(c)
      PROVE  ConsumerInv'
  <2>1. /\ consumer' \in [Consumers -> {"off", "subscribed", "joining"}]
        /\ receiver' \in [Consumers -> ReceiverLabels]
        /\ running' \in [Consumers -> BOOLEAN]
        /\ answered' \in [Consumers -> SUBSET Samples]
    BY <1>3 DEF Joined, ConsumerKilled
  <2>2. starts' = starts
    BY <1>3 DEF Joined, ConsumerKilled
  <2>3. \A d \in Consumers : d # c =>
          consumer'[d] = consumer[d] /\ receiver'[d] = receiver[d] /\ running'[d] = running[d]
    BY <1>3 DEF Joined, ConsumerKilled
  <2>4. running[c] = FALSE \/ running'[c] = FALSE
    BY <1>3 DEF Joined, ConsumerKilled
  <2>5. consumer'[c] = "off" /\ receiver'[c] = "none" /\ running'[c] = FALSE
    BY <1>3, <2>4 DEF Joined, ConsumerKilled
  <2>6. ThreadsAreOwned'
    BY <2>3, <2>5
  <2> QED
    BY <2>1, <2>2, <2>6
<1>4. ASSUME NEW c \in Consumers, ReceiverLoops(c) \/ NoNewEvent(c)
      PROVE  ConsumerInv'
  BY <1>4 DEF ReceiverLoops, NoNewEvent
<1>5. ASSUME NEW c \in Consumers, GetNewEvent(c)
      PROVE  ConsumerInv'
  BY <1>5 DEF GetNewEvent
<1>6. ASSUME NEW c \in Consumers, GetLatestByRequest(c) \/ CallRefused(c) \/ CallFails(c)
      PROVE  ConsumerInv'
  BY <1>6 DEF GetLatestByRequest, CallRefused, CallFails
<1>7. ASSUME NEW c \in Consumers, CallAnswered(c)
      PROVE  ConsumerInv'
  <2>1. request[c] \in 1..MaxCalls
    BY <1>7 DEF CallAnswered, Calls!Finish, OpenCallsAreFresh, CallTypes
  <2>2. PICK x \in replies[request[c]] : answered' = [answered EXCEPT ![c] = {x}]
    BY <1>7 DEF CallAnswered
  <2>3. x \in Samples
    BY <2>1, <2>2 DEF ProviderTypes
  <2>4. answered' \in [Consumers -> SUBSET Samples]
    BY <2>2, <2>3
  <2> QED
    BY <1>7, <2>4 DEF CallAnswered
<1>8. ASSUME NEW c \in Consumers, SendLowPressureAlarm(c) \/ NoAlarmSent(c)
      PROVE  ConsumerInv'
  BY <1>8 DEF SendLowPressureAlarm, NoAlarmSent
<1>9. ASSUME NEW c \in Consumers, ConsumerDies(c)
      PROVE  ConsumerInv'
  BY <1>9 DEF ConsumerDies
<1> QED
  BY <1>1, <1>2, <1>3, <1>4, <1>5, <1>6, <1>7, <1>8, <1>9
  DEF Next, ProviderActs, ReceiverStep

-----------------------------------------------------------------------------
(* What fails *)

\* What a step does to the faults.
FaultStep == UNCHANGED faultVars \/ Fails \/ \E used \in SUBSET Channels : Killed(used)

LEMMA UsesAreChannels ==
    \A label : ProviderUses(label) \subseteq Channels /\ ReceiverUses(label) \subseteq Channels
BY DEF ProviderUses, ReceiverUses, Channels

LEMMA FaultStepTypes ==
    ASSUME FaultTypes, FaultStep
    PROVE  FaultTypes'
BY DEF FaultTypes, FaultStep, Fails, Killed, Fault, faultVars

LEMMA FaultTypesKept ==
    ASSUME FaultTypes, Next
    PROVE  FaultTypes'
<1>1. CASE ProviderActs
  <2>1. FaultStep
    BY <1>1, UsesAreChannels
    DEF ProviderActs, ProviderStep, ProviderStarts, RegisterMapping, OfferService, LoadSample,
        NoMoreSamples, Publish, PublishFails, TakeMethodCall, NoMethodCall,
        SendMethodResponse, ResponseFails, TakeAlarm, NoAlarm, StopOfferService,
        ProviderDies, FaultStep, Succeeds
  <2> QED
    BY <2>1, FaultStepTypes
<1>2. ASSUME NEW c \in Consumers,
             \/ ConsumerStarts(c) \/ ConsumerDies(c) \/ StopSubscription(c) \/ Joined(c)
             \/ ConsumerKilled(c)
      PROVE  FaultTypes'
  <2>1. FaultStep
    BY <1>2, UsesAreChannels
    DEF ConsumerStarts, ConsumerDies, StopSubscription, Joined, ConsumerKilled, FaultStep,
        Succeeds, Channels
  <2> QED
    BY <2>1, FaultStepTypes
<1>3. ASSUME NEW c \in Consumers, ReceiverStep(c)
      PROVE  FaultTypes'
  <2>1. FaultStep
    BY <1>3
    DEF ReceiverStep, ReceiverLoops, GetNewEvent, NoNewEvent, GetLatestByRequest, CallRefused,
        CallAnswered, CallFails, SendLowPressureAlarm, NoAlarmSent, FaultStep, Succeeds
  <2> QED
    BY <2>1, FaultStepTypes
<1> QED
  BY <1>1, <1>2, <1>3 DEF Next, ProviderActs

-----------------------------------------------------------------------------
(* What was loaded, and how fresh the answers are *)

LEMMA LoadedGrows ==
    ASSUME TypeOK, Next
    PROVE  loaded \in Nat /\ loaded' \in Nat /\ loaded' >= loaded
<1> loaded \in Nat
  BY DEF TypeOK, ProviderTypes
<1>1. CASE LoadSample
  BY <1>1 DEF LoadSample
<1>2. CASE ~LoadSample
  <2>1. loaded' = loaded
    BY <1>2, ConsumersLeaveProvider
    DEF Next, ProviderStep, ProviderStarts, RegisterMapping, OfferService, NoMoreSamples,
        Publish, PublishFails, TakeMethodCall, NoMethodCall, SendMethodResponse,
        ResponseFails, TakeAlarm, NoAlarm, StopOfferService, ProviderDies, ProviderGone,
        skeleton
  <2> QED
    BY <2>1
<1> QED
  BY <1>1, <1>2

LEMMA KnownWasLoadedKept ==
    ASSUME IInv, Next
    PROVE  KnownWasLoaded'
<1> USE DEF IInv, TypeOK, EventTypes, KnownWasLoaded
<1>1. loaded \in Nat /\ loaded' \in Nat /\ loaded' >= loaded
  BY LoadedGrows
<1>2. EventStep
  BY ChannelSteps
<1>3. CASE UNCHANGED eventVars
  BY <1>1, <1>3 DEF eventVars, Samples
<1>4. CASE Events!Publish(loaded)
  <2>1. events' = Append(events, loaded) /\ cached_sample' = cached_sample
    BY <1>4 DEF Events!Publish
  <2>2. \A i \in DOMAIN events' : events'[i] = loaded \/ (i \in DOMAIN events /\ events'[i] = events[i])
    BY <2>1
  <2> QED
    BY <1>1, <2>1, <2>2 DEF Samples
<1>5. ASSUME NEW c \in Consumers, Events!Deliver(c)
      PROVE  KnownWasLoaded'
  <2>1. Len(events) \in DOMAIN events
    BY <1>5, LastOfLog DEF Events!Deliver
  <2>2. events' = events /\ cached_sample' = [cached_sample EXCEPT ![c] = events[Len(events)]]
    BY <1>5 DEF Events!Deliver
  <2> QED
    BY <1>1, <2>1, <2>2 DEF Samples
<1>6. ASSUME NEW c \in Consumers, Events!Restart(c)
      PROVE  KnownWasLoaded'
  <2>1. events' = events /\ cached_sample' = [cached_sample EXCEPT ![c] = 0]
    BY <1>6 DEF Events!Restart, Events!NoSample
  <2> QED
    BY <1>1, <2>1 DEF Samples
<1> QED
  BY <1>2, <1>3, <1>4, <1>5, <1>6 DEF EventStep

Freshness == OpenCallsAreFresh /\ AnswerIsFresh

\* The provider: it only adds an answer that is newer than every event.
LEMMA ProviderKeepsFreshness ==
    ASSUME IInv, Next, ProviderActs
    PROVE  Freshness'
<1> USE DEF IInv, TypeOK, Freshness, OpenCallsAreFresh, AnswerIsFresh, CallTypes
<1>1. receiver' = receiver /\ answered' = answered
  BY ProviderLeavesConsumers DEF proxies
<1>2. cached_sample' = cached_sample
  BY DEF ProviderActs, ProviderStep, ProviderStarts, RegisterMapping, OfferService,
         LoadSample, NoMoreSamples, Publish, PublishFails, TakeMethodCall, NoMethodCall,
         SendMethodResponse, ResponseFails, TakeAlarm, NoAlarm, StopOfferService,
         ProviderDies, ProviderGone, Events!Publish, eventVars
<1>3. AnswerIsFresh'
  BY <1>1, <1>2
<1>4. CASE TakeMethodCall
  <2>1. PICK r \in 1..issued : taken' = r /\ Calls!Serve(r)
    BY <1>4 DEF TakeMethodCall
  <2>2. issued' = issued /\ open' = open /\ request' = request /\ replies' = replies
    BY <1>4, <2>1 DEF TakeMethodCall, Calls!Serve
  <2> QED
    BY <1>1, <1>2, <1>3, <2>1, <2>2
<1>5. CASE SendMethodResponse
  <2>1. issued' = issued /\ open' = open /\ request' = request /\ provider' = "alarm"
    BY <1>5 DEF SendMethodResponse, callVars, ProviderGoto
  <2>2. replies' = [replies EXCEPT ![taken] = replies[taken] \cup {latest_sample}]
    BY <1>5 DEF SendMethodResponse
  <2>3. taken \in 1..issued /\ latest_sample = loaded
    BY <1>5 DEF SendMethodResponse, ProviderGoto, LatestIsLoaded, Serving
  <2>4. \A c \in Consumers : latest_sample >= cached_sample[c]
    BY <2>3 DEF KnownWasLoaded, EventTypes, ProviderTypes
  <2>5. \A r \in 1..MaxCalls : \A x \in replies'[r] : x \in replies[r] \/ (r = taken /\ x = latest_sample)
    BY <2>2 DEF ProviderTypes
  <2>6. \A c \in open' : request'[c] \in 1..issued' /\ \A x \in replies'[request'[c]] : x >= cached_sample'[c]
    BY <1>2, <2>1, <2>4, <2>5
  <2>7. \A r \in 1..MaxCalls : r > issued' => replies'[r] = {}
    <3> SUFFICES ASSUME NEW r \in 1..MaxCalls, r > issued PROVE replies'[r] = {}
      BY <2>1
    <3>1. r # taken
      BY <2>3
    <3> QED
      BY <2>2, <3>1 DEF ProviderTypes
  <2> QED
    BY <1>1, <1>3, <2>1, <2>6, <2>7
<1>6. CASE ~TakeMethodCall /\ ~SendMethodResponse
  <2>1. UNCHANGED callVars /\ replies' = replies /\ provider' # "answer"
    BY <1>6 DEF ProviderActs, ProviderStep, ProviderStarts, RegisterMapping, OfferService,
         LoadSample, NoMoreSamples, Publish, PublishFails, NoMethodCall,
         ResponseFails, TakeAlarm, NoAlarm, StopOfferService, ProviderDies, ProviderGone,
         ProviderGoto
  <2> QED
    BY <1>1, <1>2, <1>3, <2>1 DEF callVars
<1> QED
  BY <1>4, <1>5, <1>6

\* The receiver thread between two calls.
LEMMA IdleReceiverKeepsFreshness ==
    ASSUME IInv, NEW c \in Consumers,
           UNCHANGED callVars, UNCHANGED <<skeleton, replies>>,
           receiver[c] # "calling", receiver'[c] # "calling",
           \A d \in Consumers \ {c} :
               /\ receiver'[d] = receiver[d] /\ answered'[d] = answered[d]
               /\ cached_sample'[d] = cached_sample[d],
           answered'[c] = {} \/ (answered'[c] = answered[c] /\ cached_sample' = cached_sample)
    PROVE  Freshness'
<1> USE DEF IInv, TypeOK, Freshness, OpenCallsAreFresh, AnswerIsFresh, callVars, skeleton
<1>1. c \notin open
  OBVIOUS
<1>2. AnswerIsFresh'
  OBVIOUS
<1>3. \A d \in Consumers : d \in open' <=> receiver'[d] = "calling"
  BY <1>1
<1>4. \A d \in open' : /\ request'[d] \in 1..issued'
                       /\ \A x \in replies'[request'[d]] : x >= cached_sample'[d]
  BY <1>1 DEF CallTypes
<1> QED
  BY <1>2, <1>3, <1>4

\* A call begins with no answers, and ends with one of its own or with none.
LEMMA CallKeepsFreshness ==
    ASSUME IInv, NEW c \in Consumers,
           GetLatestByRequest(c) \/ CallAnswered(c) \/ CallFails(c)
    PROVE  Freshness'
<1> USE DEF IInv, TypeOK, Freshness, OpenCallsAreFresh, AnswerIsFresh, CallTypes,
            ConsumerTypes, ReceiverGoto, skeleton, eventVars
<1>1. cached_sample' = cached_sample /\ replies' = replies /\ UNCHANGED skeleton
  BY DEF GetLatestByRequest, CallAnswered, CallFails
<1>2. CASE GetLatestByRequest(c)
  <2>1. /\ issued' = issued + 1 /\ request' = [request EXCEPT ![c] = issued + 1]
        /\ issued < MaxCalls /\ answered' = answered /\ open' = open \cup {c}
    BY <1>2 DEF GetLatestByRequest, Calls!Invoke
  <2>2. receiver' = [receiver EXCEPT ![c] = "calling"] /\ c \notin open
    BY <1>2 DEF GetLatestByRequest
  <2>3. replies[issued + 1] = {} /\ issued + 1 \in 1..issued'
    BY <2>1
  <2>4. \A d \in open' : /\ request'[d] \in 1..issued'
                         /\ \A x \in replies'[request'[d]] : x >= cached_sample'[d]
    <3>1. request'[c] = issued + 1
      BY <2>1
    <3>2. \A d \in open : request'[d] = request[d] /\ request[d] \in 1..issued'
      BY <2>1, <2>2
    <3> QED
      BY <1>1, <2>1, <2>3, <3>1, <3>2
  <2>5. \A d \in Consumers : d \in open' <=> receiver'[d] = "calling"
    BY <2>1, <2>2
  <2>6. provider' = "answer" => taken' \in 1..issued'
    BY <1>1, <2>1
  <2>7. \A r \in 1..MaxCalls : r > issued' => replies'[r] = {}
    BY <1>1, <2>1
  <2> QED
    BY <1>1, <2>1, <2>4, <2>5, <2>6, <2>7
<1>3. CASE CallAnswered(c) \/ CallFails(c)
  <2>1. c \in open /\ open' = open \ {c} /\ request' = request /\ issued' = issued
    BY <1>3 DEF CallAnswered, CallFails, Calls!Finish
  <2>2. receiver' = [receiver EXCEPT ![c] = "alert"]
    BY <1>3 DEF CallAnswered, CallFails
  <2>3. \A d \in Consumers : d \in open' <=> receiver'[d] = "calling"
    BY <2>1, <2>2
  <2>4. AnswerIsFresh'
    <3>1. CASE CallAnswered(c)
      <4>1. PICK x \in replies[request[c]] : answered' = [answered EXCEPT ![c] = {x}]
        BY <3>1 DEF CallAnswered
      <4> QED
        BY <1>1, <2>1, <4>1
    <3>2. CASE CallFails(c)
      BY <1>1, <3>2 DEF CallFails
    <3> QED
      BY <1>3, <3>1, <3>2
  <2> QED
    BY <1>1, <2>1, <2>3, <2>4
<1> QED
  BY <1>2, <1>3

LEMMA ConsumerKeepsFreshness ==
    ASSUME IInv, NEW c \in Consumers,
           \/ ConsumerStarts(c) \/ ConsumerDies(c) \/ StopSubscription(c) \/ Joined(c)
           \/ ConsumerKilled(c) \/ ReceiverStep(c)
    PROVE  Freshness'
<1>1. CASE ConsumerStarts(c) \/ ReceiverLoops(c) \/ NoNewEvent(c) \/ CallRefused(c)
           \/ SendLowPressureAlarm(c) \/ NoAlarmSent(c)
  <2>1. UNCHANGED callVars /\ UNCHANGED <<skeleton, replies>> /\ UNCHANGED answered
        /\ UNCHANGED eventVars
    BY <1>1 DEF ConsumerStarts, ReceiverLoops, NoNewEvent, CallRefused,
                SendLowPressureAlarm, NoAlarmSent
  <2>2. /\ receiver[c] # "calling" /\ receiver'[c] # "calling"
        /\ \A d \in Consumers \ {c} : receiver'[d] = receiver[d]
    BY <1>1 DEF ConsumerStarts, ReceiverLoops, NoNewEvent, CallRefused, ReceiverGoto,
                SendLowPressureAlarm, NoAlarmSent, IInv, TypeOK, ConsumerTypes
  <2> QED
    BY <2>1, <2>2, IdleReceiverKeepsFreshness DEF eventVars
<1>2. CASE StopSubscription(c) \/ ConsumerDies(c)
  BY <1>2 DEF StopSubscription, ConsumerDies, eventVars, callVars, skeleton, IInv, Freshness,
              OpenCallsAreFresh, AnswerIsFresh
<1>3. CASE GetNewEvent(c) \/ Joined(c)
  <2>1. UNCHANGED callVars /\ UNCHANGED <<skeleton, replies>>
    BY <1>3 DEF GetNewEvent, Joined
  <2>2. /\ receiver[c] # "calling" /\ receiver'[c] # "calling" /\ answered'[c] = {}
        /\ \A d \in Consumers \ {c} : receiver'[d] = receiver[d] /\ answered'[d] = answered[d]
    BY <1>3 DEF GetNewEvent, Joined, ReceiverGoto, IInv, TypeOK, ConsumerTypes
  <2>3. \A d \in Consumers \ {c} : cached_sample'[d] = cached_sample[d]
    BY <1>3 DEF GetNewEvent, Joined, Events!Deliver, Events!Restart, IInv, TypeOK, EventTypes
  <2> QED
    BY <2>1, <2>2, <2>3, IdleReceiverKeepsFreshness
<1>4. CASE ConsumerKilled(c)
  <2>1. UNCHANGED <<skeleton, replies>> /\ issued' = issued /\ request' = request
        /\ open' = open \ {c}
    BY <1>4 DEF ConsumerKilled, Calls!Finish, callVars
  <2>2. /\ receiver'[c] = "none" /\ answered'[c] = {}
        /\ \A d \in Consumers \ {c} : receiver'[d] = receiver[d] /\ answered'[d] = answered[d]
    BY <1>4 DEF ConsumerKilled, IInv, TypeOK, ConsumerTypes
  <2>3. \A d \in Consumers \ {c} : cached_sample'[d] = cached_sample[d]
    BY <1>4 DEF ConsumerKilled, Events!Restart, IInv, TypeOK, EventTypes
  <2> QED
    BY <2>1, <2>2, <2>3 DEF IInv, TypeOK, CallTypes, Freshness, OpenCallsAreFresh,
                            AnswerIsFresh, skeleton
<1>5. CASE GetLatestByRequest(c) \/ CallAnswered(c) \/ CallFails(c)
  BY <1>5, CallKeepsFreshness
<1> QED
  BY <1>1, <1>2, <1>3, <1>4, <1>5 DEF ReceiverStep

-----------------------------------------------------------------------------
LEMMA NextInvariant == IInv /\ [Next]_vars => IInv'
<1> SUFFICES ASSUME IInv, [Next]_vars PROVE IInv'
  OBVIOUS
<1>1. CASE Next
  <2>1. TypeOK
    BY DEF IInv
  <2>2. EventTypes' /\ AlarmTypes' /\ CallTypes'
    BY <1>1, <2>1, ChannelSteps, EventTypesKept, AlarmTypesKept, CallTypesKept
  <2>3. ProviderInv' /\ ConsumerInv'
    BY <1>1, ProviderInvKept, ConsumerInvKept
  <2>4. KnownWasLoaded'
    BY <1>1, KnownWasLoadedKept
  <2>5. Freshness'
    BY <1>1, ProviderKeepsFreshness, ConsumerKeepsFreshness DEF Next, ProviderActs
  <2>6. FaultTypes'
    BY <1>1, <2>1, FaultTypesKept DEF TypeOK
  <2> QED
    BY <2>2, <2>3, <2>4, <2>5, <2>6 DEF IInv, TypeOK, ProviderInv, ConsumerInv, Freshness
<1>2. CASE UNCHANGED vars
  BY <1>2 DEF vars, eventVars, alarmVars, callVars, registry, skeleton, proxies, faultVars,
      IInv, TypeOK, FaultTypes, EventTypes, AlarmTypes, CallTypes, ProviderTypes, ConsumerTypes,
      KnownWasLoaded, LatestIsLoaded, OpenCallsAreFresh, Findable, ThreadsAreOwned,
      AnswerIsFresh
<1> QED
  BY <1>1, <1>2

\* The inductive invariant of the application: what the provider answers is the
\* sample it loaded last, and every open call was made after its caller's event.
THEOREM Invariance == Spec => []IInv
<1>1. Init => IInv
  BY InitInvariant
<1>2. IInv /\ [Next]_vars => IInv'
  BY NextInvariant
<1> QED
  BY <1>1, <1>2, PTL DEF Spec

\* The answer to a GetLatestPressure is never older than the event that made the
\* consumer ask, whatever is killed, restarted, lost or late.
THEOREM FreshAnswers == Spec => []AnswerIsFresh
<1>1. IInv => AnswerIsFresh
  BY DEF IInv
<1> QED
  BY <1>1, Invariance, PTL
=============================================================================
