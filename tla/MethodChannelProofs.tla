------------------------- MODULE MethodChannelProofs -------------------------
(***************************************************************************)
(* Proofs about MethodChannel, for every set of callers and providers, any *)
(* number of calls and faults, and any choice of the points at which a     *)
(* process may be killed.                                                  *)
(***************************************************************************)
EXTENDS MethodChannel, TLAPS

USE DEF Processes, Goto, Enter, Leave, SemWait, SemPost

-----------------------------------------------------------------------------
(* Type correctness, and mutual exclusion with it: the semaphore stays     *)
(* below two only because none but the process in a section posts it.      *)

TypeInv == TypeOK /\ OneInSection

LayoutType == [magic : BOOLEAN, request_sequence : Nat, response_sequence : Nat,
               correlation_id : Nat, response_correlation_id : Nat,
               request_payload : Nat, response_payload : Nat]

LEMMA TypeInit == Init => TypeInv
BY ChannelAssumption DEF Init, SemInit, TypeInv, TypeOK, OneInSection, FreshLayout,
   NoOutcome, NoRequest, CallerLabels, ServerLabels, Section

\* A writer finds an initialised region of the right type.
LEMMA InitialisedType ==
    ASSUME TypeOK
    PROVE  /\ Initialised \in [magic : BOOLEAN, request_sequence : Nat, response_sequence : Nat,
                               correlation_id : Nat, response_correlation_id : Nat,
                               request_payload : Nat, response_payload : Nat]
           /\ Initialised.magic
BY DEF TypeOK, Initialised, FreshLayout

\* A step of a caller keeps the types.
LEMMA CallerType ==
    ASSUME TypeInv, NEW c \in Callers, CallerNext(c)
    PROVE  TypeInv'
<1> USE ChannelAssumption DEF CallerLabels, ServerLabels, Section
<1>1. CASE CallBegin(c)
  BY <1>1 DEF TypeInv, TypeOK, OneInSection, CallBegin, memory, serverVars, NoOutcome
<1>2. CASE CallRefused(c)
  BY <1>2 DEF TypeInv, TypeOK, OneInSection, CallRefused, memory, serverVars, Failure
<1>3. CASE PostAcquire(c)
  BY <1>3, InitialisedType
     DEF TypeInv, TypeOK, OneInSection, PostAcquire, callerVars, serverVars
<1>4. CASE PollAcquire(c)
  BY <1>4 DEF TypeInv, TypeOK, OneInSection, PollAcquire, callerVars, serverVars
<1>5. CASE PostId(c)
  <2>1. layout' \in LayoutType
    BY <1>5 DEF TypeInv, TypeOK, PostId, NextCorrelationId, LayoutType
  <2>2. correlation_id' \in [Callers -> Nat]
    BY <1>5 DEF TypeInv, TypeOK, PostId, NextCorrelationId
  <2>3. TypeOK'
    BY <1>5, <2>1, <2>2 DEF TypeInv, TypeOK, PostId, serverVars, LayoutType
  <2>4. OneInSection'
    BY <1>5 DEF TypeInv, TypeOK, OneInSection, PostId
  <2> QED
    BY <2>3, <2>4 DEF TypeInv
<1>6. CASE PostRequest(c)
  <2>1. layout' \in LayoutType
    <3>1. request[c] \in Nat /\ layout.request_sequence + 1 \in Nat
      BY DEF TypeInv, TypeOK
    <3>2. layout \in LayoutType
      BY DEF TypeInv, TypeOK, LayoutType
    <3> QED
      BY <1>6, <3>1, <3>2 DEF PostRequest, LayoutType
  <2>2. TypeOK'
    BY <1>6, <2>1 DEF TypeInv, TypeOK, OneInSection, PostRequest, SequenceBeforeAnswer,
       serverVars, LayoutType
  <2>3. OneInSection'
    BY <1>6 DEF TypeInv, TypeOK, OneInSection, PostRequest
  <2> QED
    BY <2>2, <2>3 DEF TypeInv
<1>7. CASE PollBegin(c)
  BY <1>7 DEF TypeInv, TypeOK, OneInSection, PollBegin, memory, callerVars, serverVars
<1>8. CASE PollHit(c)
  BY <1>8 DEF TypeInv, TypeOK, OneInSection, PollHit, Answer, serverVars
<1>9. CASE PollMiss(c)
  BY <1>9 DEF TypeInv, TypeOK, OneInSection, PollMiss, callerVars, serverVars
<1>10. CASE CallTimeout(c)
  BY <1>10 DEF TypeInv, TypeOK, OneInSection, CallTimeout, memory, Failure, serverVars
<1>11. CASE Expire(c)
  BY <1>11 DEF TypeInv, TypeOK, OneInSection, Expire, memory, serverVars
<1>12. CASE CallerCrash(c)
  BY <1>12 DEF TypeInv, TypeOK, OneInSection, CallerCrash, Crash, memory
<1> QED
  BY <1>1, <1>2, <1>3, <1>4, <1>5, <1>6, <1>7, <1>8, <1>9, <1>10, <1>11, <1>12
     DEF CallerNext, CallerAcquire, CallerStep

\* A step of a provider keeps the types.
LEMMA ServerType ==
    ASSUME TypeInv, NEW s \in Servers, ServerNext(s)
    PROVE  TypeInv'
<1> USE ChannelAssumption DEF CallerLabels, ServerLabels, Section
<1>1. CASE TakeBegin(s)
  BY <1>1 DEF TypeInv, TypeOK, OneInSection, TakeBegin, memory, callerVars, serverVars
<1>2. CASE TakeAcquire(s)
  BY <1>2 DEF TypeInv, TypeOK, OneInSection, TakeAcquire, callerVars, serverVars
<1>3. CASE TakeRequest(s)
  <2>1. taken' \in [Servers -> [id : Nat, payload : Nat]]
    BY <1>3 DEF TypeInv, TypeOK, TakeRequest
  <2>2. /\ last_seen_sequence' \in [Servers -> Nat]
        /\ served' \subseteq Nat
    BY <1>3 DEF TypeInv, TypeOK, TakeRequest
  <2>3. TypeOK'
    BY <1>3, <2>1, <2>2 DEF TypeInv, TypeOK, OneInSection, TakeRequest, callerVars
  <2>4. OneInSection'
    BY <1>3 DEF TypeInv, TypeOK, OneInSection, TakeRequest
  <2> QED
    BY <2>3, <2>4 DEF TypeInv
<1>4. CASE TakeNothing(s)
  BY <1>4 DEF TypeInv, TypeOK, OneInSection, TakeNothing, callerVars, serverVars
<1>5. CASE SendBegin(s)
  BY <1>5 DEF TypeInv, TypeOK, OneInSection, SendBegin, memory, callerVars, serverVars
<1>6. CASE SendRefused(s)
  BY <1>6 DEF TypeInv, TypeOK, OneInSection, SendRefused, memory, callerVars, NoRequest
<1>7. CASE SendAcquire(s)
  BY <1>7, InitialisedType
     DEF TypeInv, TypeOK, OneInSection, SendAcquire, callerVars, serverVars
<1>8. CASE SendPayload(s)
  <2>1. layout' \in LayoutType
    BY <1>8 DEF TypeInv, TypeOK, SendPayload, LayoutType
  <2>2. TypeOK'
    BY <1>8, <2>1 DEF TypeInv, TypeOK, SendPayload, callerVars, serverVars, LayoutType
  <2>3. OneInSection'
    BY <1>8 DEF TypeInv, TypeOK, OneInSection, SendPayload
  <2> QED
    BY <2>2, <2>3 DEF TypeInv
<1>9. CASE SendCommit(s)
  <2>1. layout' \in LayoutType
    <3>1. taken[s].id \in Nat /\ layout.response_sequence + 1 \in Nat
      BY DEF TypeInv, TypeOK
    <3>2. layout \in LayoutType
      BY DEF TypeInv, TypeOK, LayoutType
    <3> QED
      BY <1>9, <3>1, <3>2 DEF SendCommit, AnsweredCorrelation, LayoutType
  <2>2. taken' \in [Servers -> [id : Nat, payload : Nat]]
    BY <1>9 DEF TypeInv, TypeOK, SendCommit, NoRequest
  <2>3. TypeOK'
    BY <1>9, <2>1, <2>2 DEF TypeInv, TypeOK, OneInSection, SendCommit, callerVars, LayoutType
  <2>4. OneInSection'
    BY <1>9 DEF TypeInv, TypeOK, OneInSection, SendCommit
  <2> QED
    BY <2>3, <2>4 DEF TypeInv
<1>10. CASE ServerCrash(s)
  BY <1>10 DEF TypeInv, TypeOK, OneInSection, ServerCrash, Crash, memory, NoRequest
<1> QED
  BY <1>1, <1>2, <1>3, <1>4, <1>5, <1>6, <1>7, <1>8, <1>9, <1>10
     DEF ServerNext, ServerAcquire, ServerStep

LEMMA TypeStep == TypeInv /\ [Next]_vars => TypeInv'
<1> SUFFICES ASSUME TypeInv, [Next]_vars PROVE TypeInv'
  OBVIOUS
<1>1. CASE UNCHANGED vars
  <2>1. TypeOK'
    BY <1>1 DEF vars, memory, callerVars, serverVars, TypeInv, TypeOK
  <2>2. OneInSection'
    BY <1>1 DEF vars, memory, TypeInv, OneInSection
  <2> QED
    BY <2>1, <2>2 DEF TypeInv
<1> QED
  BY <1>1, CallerType, ServerType DEF Next

\* Every reachable state has the types of TypeOK, and one process at a time is
\* between sem_wait and sem_post.
THEOREM TypeCorrect == Spec => [](TypeOK /\ OneInSection)
<1>1. Spec => []TypeInv
  BY TypeInit, TypeStep, PTL DEF Spec
<1> QED
  BY <1>1, PTL DEF TypeInv

-----------------------------------------------------------------------------
(* The inductive invariant.  The two slots are tied to the calls through   *)
(* their correlation ids; each tie holds only while nobody is half way     *)
(* through writing the slot, which is why the invariant speaks of          *)
(* RequestReadable and ResponseReadable and needs OneInSection.            *)

SlotInv == MagicInv /\ CorrelationInv /\ RequestInv /\ TakenInv /\ ResponseInv

\* The results of the calls: none while the call runs, and then its own answer.
ResultInv == PendingInv /\ AnswersOwnRequest

LEMMA SlotInit == Init => SlotInv /\ ResultInv
<1> SUFFICES ASSUME Init PROVE SlotInv /\ ResultInv
  OBVIOUS
<1> USE DEF Init, FreshLayout, NoRequest, NoOutcome, Section
<1>1. \A c \in Callers : pc[c] = "idle"
  OBVIOUS
<1>2. \A s \in Servers : pc[s] = "idle"
  OBVIOUS
<1>3. MagicInv
  BY <1>1, <1>2 DEF MagicInv
<1>4. CorrelationInv
  BY <1>1 DEF CorrelationInv, InFlight
<1>5. RequestInv
  BY <1>1 DEF RequestInv, InFlight
<1>6. TakenInv /\ ResponseInv
  BY <1>1, <1>2 DEF TakenInv, ResponseInv, InFlight
<1> QED
  BY <1>3, <1>4, <1>5, <1>6 DEF SlotInv, ResultInv, PendingInv, AnswersOwnRequest

\* A step that writes neither a slot nor the record of a call, and enters no
\* section that does, disturbs nothing.
LEMMA QuietStep ==
    ASSUME SlotInv,
           UNCHANGED <<layout, issued, request, correlation_id, last_seen_sequence, taken, served>>,
           \A c \in Callers : pc'[c] # "idle" => pc[c] # "idle",
           \A c \in Callers : InFlight(c)' => InFlight(c),
           \A c \in Callers : pc'[c] = "post_request" => pc[c] = "post_request",
           \A s \in Servers : pc'[s] \in {"respond", "send_wait", "send_payload", "send_commit"} =>
               pc[s] \in {"respond", "send_wait", "send_payload", "send_commit"},
           \A s \in Servers : pc'[s] = "send_commit" => pc[s] = "send_commit",
           \A p \in Processes : pc'[p] \in Section \ {"poll", "take"} =>
               pc[p] \in Section \ {"poll", "take"},
           RequestReadable' => RequestReadable,
           ResponseReadable' => ResponseReadable
    PROVE  SlotInv'
<1>1. MagicInv'
  BY DEF SlotInv, MagicInv
<1>2. CorrelationInv'
  BY DEF SlotInv, CorrelationInv
<1>3. RequestInv'
  BY DEF SlotInv, RequestInv
<1>4. TakenInv'
  BY DEF SlotInv, TakenInv
<1>5. ResponseInv'
  BY DEF SlotInv, ResponseInv
<1> QED
  BY <1>1, <1>2, <1>3, <1>4, <1>5 DEF SlotInv

\* The steps of a caller that are quiet.
LEMMA CallerQuiet ==
    ASSUME TypeInv, SlotInv, NEW c \in Callers,
           \/ PollAcquire(c) \/ PollBegin(c) \/ PollHit(c) \/ PollMiss(c)
           \/ CallTimeout(c) \/ Expire(c) \/ CallerCrash(c)
    PROVE  SlotInv'
<1> USE ChannelAssumption DEF TypeInv, TypeOK, OneInSection, Section, InFlight,
        RequestReadable, ResponseReadable, CallerLabels, ServerLabels
<1>1. CASE PollAcquire(c)
  BY <1>1, QuietStep DEF PollAcquire, callerVars, serverVars
<1>2. CASE PollBegin(c)
  BY <1>2, QuietStep DEF PollBegin, memory, callerVars, serverVars
<1>3. CASE PollHit(c)
  BY <1>3, QuietStep DEF PollHit, serverVars
<1>4. CASE PollMiss(c)
  BY <1>4, QuietStep DEF PollMiss, callerVars, serverVars
<1>5. CASE CallTimeout(c)
  BY <1>5, QuietStep DEF CallTimeout, memory, serverVars
<1>6. CASE Expire(c)
  BY <1>6, QuietStep DEF Expire, memory, serverVars
<1>7. CASE CallerCrash(c)
  BY <1>7, QuietStep DEF CallerCrash, Crash, memory
<1> QED
  BY <1>1, <1>2, <1>3, <1>4, <1>5, <1>6, <1>7

\* The steps of a provider that are quiet.
LEMMA ServerQuiet ==
    ASSUME TypeInv, SlotInv, NEW s \in Servers,
           TakeBegin(s) \/ TakeAcquire(s) \/ TakeNothing(s) \/ SendBegin(s)
    PROVE  SlotInv'
<1> USE ChannelAssumption DEF TypeInv, TypeOK, OneInSection, Section, InFlight,
        RequestReadable, ResponseReadable, CallerLabels, ServerLabels
<1>1. CASE TakeBegin(s)
  BY <1>1, QuietStep DEF TakeBegin, memory, callerVars, serverVars
<1>2. CASE TakeAcquire(s)
  BY <1>2, QuietStep DEF TakeAcquire, callerVars, serverVars
<1>3. CASE TakeNothing(s)
  BY <1>3, QuietStep DEF TakeNothing, callerVars, serverVars
<1>4. CASE SendBegin(s)
  BY <1>4, QuietStep DEF SendBegin, memory, callerVars, serverVars
<1> QED
  BY <1>1, <1>2, <1>3, <1>4

\* A call begins: its caller is in flight only when it has a correlation id.
LEMMA CallBeginSlot ==
    ASSUME TypeInv, TypeInv', SlotInv, NEW c \in Callers, CallBegin(c) \/ CallRefused(c)
    PROVE  SlotInv'
<1> USE ChannelAssumption DEF CallBegin, CallRefused, memory, serverVars
<1>1. /\ UNCHANGED <<sem, layout, correlation_id, last_seen_sequence, taken, served>>
      /\ issued' = issued + 1
      /\ request' = [request EXCEPT ![c] = issued + 1]
      /\ pc[c] = "idle" /\ pc'[c] \in {"idle", "post_wait"}
      /\ \A p \in Processes : p # c => pc'[p] = pc[p]
  BY DEF TypeInv, TypeOK
<1>2. \A d \in Callers : InFlight(d)' => InFlight(d) /\ d # c /\ request'[d] = request[d]
  BY <1>1 DEF InFlight, TypeInv, TypeOK
<1>3. /\ \A p \in Processes : pc'[p] \in Section <=> pc[p] \in Section
      /\ \A p \in Processes : pc'[p] \in Section => pc'[p] = pc[p]
  BY <1>1 DEF Section
<1>4. (RequestReadable' => RequestReadable) /\ (ResponseReadable' => ResponseReadable)
  BY <1>1, <1>3 DEF RequestReadable, ResponseReadable
<1>5. MagicInv'
  BY <1>1, <1>3 DEF SlotInv, MagicInv
<1>6. CorrelationInv'
  BY <1>1, <1>2 DEF SlotInv, CorrelationInv
<1>7. RequestInv'
  <2>1. \A d \in Callers : pc'[d] # "idle" => request'[d] \in 1..issued'
    BY <1>1 DEF SlotInv, RequestInv, TypeInv, TypeOK
  <2> QED
    BY <1>1, <1>2, <1>4, <2>1 DEF SlotInv, RequestInv, TypeInv, TypeOK
<1>8. TakenInv'
  BY <1>1, <1>2 DEF SlotInv, TakenInv
<1>9. ResponseInv'
  BY <1>1, <1>2, <1>4 DEF SlotInv, ResponseInv
<1> QED
  BY <1>5, <1>6, <1>7, <1>8, <1>9 DEF SlotInv

\* A writer's memset changes nothing but the magic number.
LEMMA InitialisedLayout ==
    ASSUME TypeOK, MagicInv
    PROVE  Initialised = [layout EXCEPT !.magic = TRUE]
BY DEF TypeOK, MagicInv, Initialised, FreshLayout

\* A writer enters its section.
LEMMA AcquireSlot ==
    ASSUME TypeInv, TypeInv', SlotInv,
           (\E c \in Callers : PostAcquire(c)) \/ (\E s \in Servers : SendAcquire(s))
    PROVE  SlotInv'
<1>1. PICK p \in Processes : (p \in Callers /\ PostAcquire(p)) \/ (p \in Servers /\ SendAcquire(p))
  OBVIOUS
<1>2. /\ sem = 1
      /\ layout' = [layout EXCEPT !.magic = TRUE]
      /\ UNCHANGED <<issued, request, correlation_id, last_seen_sequence, taken, served>>
      /\ pc[p] \in {"post_wait", "send_wait"} /\ pc'[p] \in {"post_id", "send_payload"}
      /\ p \in Callers => pc[p] # "idle"
      /\ p \in Servers => pc[p] = "send_wait"
      /\ \A q \in Processes : q # p => pc'[q] = pc[q]
  <2>1. Initialised = [layout EXCEPT !.magic = TRUE]
    BY InitialisedLayout DEF TypeInv, SlotInv
  <2>2. CASE p \in Callers /\ PostAcquire(p)
    BY <2>1, <2>2, ChannelAssumption DEF PostAcquire, callerVars, serverVars, TypeInv, TypeOK
  <2>3. CASE p \in Servers /\ SendAcquire(p)
    BY <2>1, <2>3, ChannelAssumption DEF SendAcquire, callerVars, serverVars, TypeInv, TypeOK
  <2> QED
    BY <1>1, <2>2, <2>3
<1>3. RequestReadable /\ ResponseReadable
  BY <1>2 DEF RequestReadable, ResponseReadable
<1>4. \A d \in Callers : InFlight(d)' => InFlight(d)
  BY <1>2 DEF InFlight
<1>5. /\ layout'.magic
      /\ layout'.request_sequence = layout.request_sequence
      /\ layout'.correlation_id = layout.correlation_id
      /\ layout'.response_correlation_id = layout.response_correlation_id
      /\ layout'.request_payload = layout.request_payload
      /\ layout'.response_payload = layout.response_payload
  BY <1>2 DEF TypeInv, TypeOK
<1>6. MagicInv'
  BY <1>5 DEF MagicInv
<1>7. CorrelationInv'
  BY <1>2, <1>4, <1>5 DEF SlotInv, CorrelationInv
<1>8. RequestInv'
  BY <1>2, <1>3, <1>4, <1>5 DEF SlotInv, RequestInv
<1>9. TakenInv'
  BY <1>2, <1>4 DEF SlotInv, TakenInv
<1>10. ResponseInv'
  BY <1>2, <1>3, <1>4, <1>5 DEF SlotInv, ResponseInv
<1> QED
  BY <1>6, <1>7, <1>8, <1>9, <1>10 DEF SlotInv

\* A caller takes the next correlation id, which no call and no provider has.
LEMMA PostIdSlot ==
    ASSUME TypeInv, TypeInv', SlotInv, NEW c \in Callers, PostId(c)
    PROVE  SlotInv'
<1>1. /\ UNCHANGED <<sem, issued, request, last_seen_sequence, taken, served>>
      /\ correlation_id' = [correlation_id EXCEPT ![c] = layout.correlation_id + 1]
      /\ layout' = [layout EXCEPT !.correlation_id = layout.correlation_id + 1]
      /\ pc[c] = "post_id" /\ pc'[c] = "post_request"
      /\ \A p \in Processes : p # c => pc'[p] = pc[p]
      /\ sem = 0
      /\ \A p \in Processes : p # c => pc[p] \notin Section
  BY DEF PostId, NextCorrelationId, serverVars, TypeInv, TypeOK, OneInSection, Section
<1>2. layout.magic
  BY <1>1 DEF SlotInv, MagicInv, Section
<1>3. /\ layout'.magic = layout.magic
      /\ layout'.correlation_id = layout.correlation_id + 1
      /\ layout'.request_sequence = layout.request_sequence
      /\ layout'.response_correlation_id = layout.response_correlation_id
      /\ layout'.response_payload = layout.response_payload
      /\ layout.correlation_id \in Nat
      /\ layout.response_correlation_id \in Nat
  BY <1>1 DEF TypeInv, TypeOK
<1>4. /\ InFlight(c)' /\ correlation_id'[c] = layout.correlation_id + 1
      /\ \A d \in Callers : d # c /\ InFlight(d)' =>
             InFlight(d) /\ correlation_id'[d] = correlation_id[d]
      /\ \A d \in Callers : correlation_id'[d] \in Nat /\ correlation_id[d] \in Nat
  BY <1>1 DEF InFlight, TypeInv, TypeOK
<1>5. ~RequestReadable'
  BY <1>1, ChannelAssumption DEF RequestReadable
<1>6. MagicInv'
  BY <1>2, <1>3 DEF MagicInv
<1>7. CorrelationInv'
  <2>1. \A d \in Callers : d # c => pc'[d] # "post_request"
    BY <1>1 DEF Section
  <2>2. \A s \in Servers : taken'[s].id = taken[s].id /\ taken[s].id \in Nat
    BY <1>1 DEF TypeInv, TypeOK
  <2> QED
    BY <1>3, <1>4, <2>1, <2>2 DEF SlotInv, CorrelationInv
<1>8. RequestInv'
  <2>1. RequestReadable
    BY <1>1 DEF RequestReadable, Section
  <2>2. \A d \in Callers : pc'[d] = "post_request" => d = c
    BY <1>1 DEF Section
  <2>3. \A d \in Callers : pc'[d] # "idle" => request'[d] \in 1..issued'
    BY <1>1 DEF SlotInv, RequestInv
  <2> QED
    BY <1>1, <1>3, <1>5, <2>1, <2>2, <2>3 DEF SlotInv, RequestInv
<1>9. TakenInv'
  <2>1. \A s \in Servers : taken[s].id # correlation_id'[c]
    BY <1>3, <1>4 DEF SlotInv, CorrelationInv, TypeInv, TypeOK
  <2>2. \A s \in Servers : pc'[s] \in {"respond", "send_wait", "send_payload", "send_commit"} =>
            pc[s] \in {"respond", "send_wait", "send_payload", "send_commit"}
    BY <1>1
  <2> QED
    BY <1>1, <1>4, <2>1, <2>2 DEF SlotInv, TakenInv
<1>10. ResponseInv'
  <2>1. layout.response_correlation_id # correlation_id'[c]
    BY <1>3, <1>4 DEF SlotInv, CorrelationInv
  <2>2. ResponseReadable
    BY <1>1 DEF ResponseReadable, Section
  <2>3. \A s \in Servers : pc'[s] # "send_commit"
    BY <1>1 DEF Section
  <2> QED
    BY <1>1, <1>3, <1>4, <2>1, <2>2, <2>3 DEF SlotInv, ResponseInv
<1> QED
  BY <1>6, <1>7, <1>8, <1>9, <1>10 DEF SlotInv

\* A caller fills the request slot: the slot agrees with the last id again.
LEMMA PostRequestSlot ==
    ASSUME TypeInv, TypeInv', SlotInv, NEW c \in Callers, PostRequest(c)
    PROVE  SlotInv'
<1>1. /\ UNCHANGED <<issued, request, correlation_id, last_seen_sequence, taken, served>>
      /\ layout' = [layout EXCEPT !.request_payload = request[c],
                                  !.request_sequence = layout.request_sequence + 1]
      /\ pc[c] = "post_request" /\ pc'[c] = "check"
      /\ \A p \in Processes : p # c => pc'[p] = pc[p]
      /\ \A p \in Processes : p # c => pc[p] \notin Section
  BY DEF PostRequest, serverVars, TypeInv, TypeOK, OneInSection, Section
<1>2. /\ layout'.magic = layout.magic
      /\ layout'.correlation_id = layout.correlation_id
      /\ layout'.request_sequence = layout.request_sequence + 1
      /\ layout'.request_payload = request[c]
      /\ layout'.response_correlation_id = layout.response_correlation_id
      /\ layout'.response_payload = layout.response_payload
      /\ layout.request_sequence \in Nat
  BY <1>1 DEF TypeInv, TypeOK
<1>3. \A p \in Processes : pc'[p] \notin Section
  BY <1>1 DEF Section
<1>4. \A d \in Callers : InFlight(d)' => InFlight(d)
  BY <1>1 DEF InFlight
<1>5. correlation_id[c] = layout.correlation_id /\ layout.correlation_id = layout.request_sequence + 1
  BY <1>1 DEF SlotInv, CorrelationInv, RequestInv
<1>6. ResponseReadable
  BY <1>1 DEF ResponseReadable, Section
<1>7. MagicInv'
  <2>1. layout.magic
    BY <1>1 DEF SlotInv, MagicInv, Section
  <2> QED
    BY <1>2, <2>1 DEF MagicInv
<1>8. CorrelationInv'
  BY <1>1, <1>2, <1>4 DEF SlotInv, CorrelationInv
<1>9. RequestInv'
  <2>1. \A d \in Callers : pc'[d] # "idle" => request'[d] \in 1..issued'
    BY <1>1 DEF SlotInv, RequestInv
  <2>2. \A s \in Servers : last_seen_sequence'[s] \leq layout'.request_sequence
    BY <1>1, <1>2 DEF SlotInv, RequestInv, TypeInv, TypeOK
  <2>3. \A d \in Callers : pc'[d] # "post_request"
    BY <1>3 DEF Section
  <2>4. \A d \in Callers : InFlight(d)' /\ correlation_id'[d] = layout'.correlation_id => d = c
    BY <1>1, <1>2, <1>4, <1>5 DEF SlotInv, CorrelationInv, InFlight
  <2>5. request[c] \in 1..issued
    BY <1>1 DEF SlotInv, RequestInv
  <2> QED
    BY <1>1, <1>2, <1>5, <2>1, <2>2, <2>3, <2>4, <2>5 DEF RequestInv
<1>10. TakenInv'
  BY <1>1, <1>4 DEF SlotInv, TakenInv
<1>11. ResponseInv'
  BY <1>1, <1>2, <1>4, <1>6 DEF SlotInv, ResponseInv
<1> QED
  BY <1>7, <1>8, <1>9, <1>10, <1>11 DEF SlotInv

\* A provider takes the request in the slot under the last correlation id.
LEMMA TakeRequestSlot ==
    ASSUME TypeInv, TypeInv', SlotInv, NEW s \in Servers, TakeRequest(s)
    PROVE  SlotInv'
<1>1. /\ UNCHANGED <<layout, issued, request, correlation_id>>
      /\ last_seen_sequence' = [last_seen_sequence EXCEPT ![s] = layout.request_sequence]
      /\ taken' = [taken EXCEPT ![s] = [id |-> layout.correlation_id,
                                        payload |-> layout.request_payload]]
      /\ served' = served \cup {layout.request_payload}
      /\ pc[s] = "take" /\ pc'[s] = "respond"
      /\ \A p \in Processes : p # s => pc'[p] = pc[p]
      /\ \A p \in Processes : p # s => pc[p] \notin Section
  BY DEF TakeRequest, callerVars, TypeInv, TypeOK, OneInSection, Section
<1>2. RequestReadable /\ ResponseReadable
  BY <1>1 DEF RequestReadable, ResponseReadable, Section
<1>3. \A p \in Processes : pc'[p] \notin Section
  BY <1>1 DEF Section
<1>4. \A d \in Callers : pc'[d] = pc[d] /\ pc[d] # "post_request"
  BY <1>1, ChannelAssumption DEF Section
<1>5. \A d \in Callers : InFlight(d)' <=> InFlight(d)
  BY <1>4 DEF InFlight
<1>6. /\ taken'[s].id = layout.correlation_id
      /\ taken'[s].payload = layout.request_payload
      /\ \A t \in Servers : t # s => taken'[t] = taken[t]
      /\ layout.request_sequence \in Nat /\ layout.correlation_id \in Nat
  BY <1>1 DEF TypeInv, TypeOK
<1>7. MagicInv'
  BY <1>1, <1>3 DEF SlotInv, MagicInv
<1>8. CorrelationInv'
  BY <1>1, <1>4, <1>5, <1>6 DEF SlotInv, CorrelationInv
<1>9. RequestInv'
  <2>1. \A t \in Servers : last_seen_sequence'[t] \leq layout.request_sequence
    BY <1>1, <1>6 DEF SlotInv, RequestInv, TypeInv, TypeOK
  <2> QED
    BY <1>1, <1>2, <1>4, <1>5, <2>1 DEF SlotInv, RequestInv
<1>10. TakenInv'
  <2>1. \A d \in Callers : InFlight(d)' /\ taken'[s].id = correlation_id'[d] =>
            taken'[s].payload = request'[d]
    BY <1>1, <1>2, <1>5, <1>6 DEF SlotInv, RequestInv
  <2>2. taken'[s].payload \in served' /\ served \subseteq served'
    BY <1>1, <1>6
  <2> QED
    BY <1>1, <1>5, <1>6, <2>1, <2>2 DEF SlotInv, TakenInv
<1>11. ResponseInv'
  <2>1. \A t \in Servers : pc'[t] # "send_commit"
    BY <1>3 DEF Section
  <2> QED
    BY <1>1, <1>2, <1>5, <2>1 DEF SlotInv, ResponseInv
<1> QED
  BY <1>7, <1>8, <1>9, <1>10, <1>11 DEF SlotInv

\* A provider writes the answer to the request it took into the slot.
LEMMA SendPayloadSlot ==
    ASSUME TypeInv, TypeInv', SlotInv, NEW s \in Servers, SendPayload(s)
    PROVE  SlotInv'
<1>1. /\ UNCHANGED <<sem, issued, request, correlation_id, last_seen_sequence, taken, served>>
      /\ layout' = [layout EXCEPT !.response_payload = taken[s].payload]
      /\ pc[s] = "send_payload" /\ pc'[s] = "send_commit"
      /\ \A p \in Processes : p # s => pc'[p] = pc[p]
      /\ \A p \in Processes : p # s => pc[p] \notin Section
      /\ sem = 0
  BY DEF SendPayload, callerVars, serverVars, TypeInv, TypeOK, OneInSection, Section
<1>2. /\ layout'.magic = layout.magic
      /\ layout'.correlation_id = layout.correlation_id
      /\ layout'.request_sequence = layout.request_sequence
      /\ layout'.request_payload = layout.request_payload
      /\ layout'.response_correlation_id = layout.response_correlation_id
      /\ layout'.response_payload = taken[s].payload
  BY <1>1 DEF TypeInv, TypeOK
<1>3. \A d \in Callers : pc'[d] = pc[d]
  BY <1>1, ChannelAssumption
<1>4. \A d \in Callers : InFlight(d)' <=> InFlight(d)
  BY <1>3 DEF InFlight
<1>5. RequestReadable /\ ~ResponseReadable'
  BY <1>1 DEF RequestReadable, ResponseReadable, Section
<1>6. MagicInv'
  <2>1. layout.magic
    BY <1>1 DEF SlotInv, MagicInv, Section
  <2> QED
    BY <1>2, <2>1 DEF MagicInv
<1>7. CorrelationInv'
  BY <1>1, <1>2, <1>3, <1>4 DEF SlotInv, CorrelationInv
<1>8. RequestInv'
  BY <1>1, <1>2, <1>3, <1>4, <1>5 DEF SlotInv, RequestInv
<1>9. TakenInv'
  BY <1>1, <1>4 DEF SlotInv, TakenInv
<1>10. ResponseInv'
  <2>1. \A t \in Servers : pc'[t] = "send_commit" => t = s
    BY <1>1 DEF Section
  <2> QED
    BY <1>1, <1>2, <1>5, <2>1 DEF ResponseInv
<1> QED
  BY <1>6, <1>7, <1>8, <1>9, <1>10 DEF SlotInv

\* A provider stamps the answer with the id of the request: whoever waits
\* under that id made the request that was taken.
LEMMA SendCommitSlot ==
    ASSUME TypeInv, TypeInv', SlotInv, NEW s \in Servers, SendCommit(s)
    PROVE  SlotInv'
<1>1. /\ UNCHANGED <<issued, request, correlation_id, last_seen_sequence, served>>
      /\ layout' = [layout EXCEPT !.response_correlation_id = taken[s].id,
                                  !.response_sequence = layout.response_sequence + 1]
      /\ taken' = [taken EXCEPT ![s] = NoRequest]
      /\ pc[s] = "send_commit" /\ pc'[s] = "idle"
      /\ \A p \in Processes : p # s => pc'[p] = pc[p]
      /\ \A p \in Processes : p # s => pc[p] \notin Section
  BY DEF SendCommit, AnsweredCorrelation, callerVars, TypeInv, TypeOK, OneInSection, Section
<1>2. /\ layout'.magic = layout.magic
      /\ layout'.correlation_id = layout.correlation_id
      /\ layout'.request_sequence = layout.request_sequence
      /\ layout'.request_payload = layout.request_payload
      /\ layout'.response_correlation_id = taken[s].id
      /\ layout'.response_payload = layout.response_payload
      /\ layout.correlation_id \in Nat
      /\ taken'[s] = NoRequest
      /\ \A t \in Servers : t # s => taken'[t] = taken[t]
  BY <1>1 DEF TypeInv, TypeOK
<1>3. \A d \in Callers : pc'[d] = pc[d]
  BY <1>1, ChannelAssumption
<1>4. \A d \in Callers : InFlight(d)' <=> InFlight(d)
  BY <1>3 DEF InFlight
<1>5. RequestReadable
  BY <1>1 DEF RequestReadable, Section
<1>6. \A p \in Processes : pc'[p] \notin Section
  BY <1>1 DEF Section
<1>7. \A d \in Callers : InFlight(d) => correlation_id[d] # 0
  BY DEF SlotInv, CorrelationInv, TypeInv, TypeOK
<1>8. MagicInv'
  <2>1. layout.magic
    BY <1>1 DEF SlotInv, MagicInv, Section
  <2> QED
    BY <1>2, <2>1 DEF MagicInv
<1>9. CorrelationInv'
  BY <1>1, <1>2, <1>3, <1>4 DEF SlotInv, CorrelationInv, NoRequest
<1>10. RequestInv'
  BY <1>1, <1>2, <1>3, <1>4, <1>5 DEF SlotInv, RequestInv
<1>11. TakenInv'
  BY <1>1, <1>2, <1>4, <1>7 DEF SlotInv, TakenInv, NoRequest
<1>12. ResponseInv'
  <2>1. \A t \in Servers : pc'[t] # "send_commit"
    BY <1>6 DEF Section
  <2>2. layout.response_payload = taken[s].payload /\ taken[s].payload \in served
    BY <1>1 DEF SlotInv, ResponseInv, TakenInv
  <2>3. \A d \in Callers : InFlight(d) /\ taken[s].id = correlation_id[d] =>
            taken[s].payload = request[d]
    BY DEF SlotInv, TakenInv
  <2> QED
    BY <1>1, <1>2, <1>4, <2>1, <2>2, <2>3 DEF ResponseInv
<1> QED
  BY <1>8, <1>9, <1>10, <1>11, <1>12 DEF SlotInv

\* A provider forgets the request it took.
LEMMA ForgetSlot ==
    ASSUME TypeInv, TypeInv', SlotInv, NEW s \in Servers, SendRefused(s) \/ ServerCrash(s)
    PROVE  SlotInv'
<1>1. /\ UNCHANGED <<sem, layout, issued, request, correlation_id, served>>
      /\ last_seen_sequence'[s] \in {0, last_seen_sequence[s]}
      /\ \A t \in Servers : t # s => last_seen_sequence'[t] = last_seen_sequence[t]
      /\ taken' = [taken EXCEPT ![s] = NoRequest]
      /\ pc'[s] = "idle"
      /\ \A p \in Processes : p # s => pc'[p] = pc[p]
  BY DEF SendRefused, ServerCrash, Crash, memory, callerVars, TypeInv, TypeOK
<1>2. /\ taken'[s] = NoRequest
      /\ \A t \in Servers : t # s => taken'[t] = taken[t]
      /\ layout.correlation_id \in Nat /\ layout.request_sequence \in Nat
  BY <1>1 DEF TypeInv, TypeOK
<1>3. \A d \in Callers : pc'[d] = pc[d]
  BY <1>1, ChannelAssumption
<1>4. \A d \in Callers : InFlight(d)' <=> InFlight(d)
  BY <1>3 DEF InFlight
<1>5. \A p \in Processes : pc'[p] \in Section => pc'[p] = pc[p]
  BY <1>1 DEF Section
<1>6. (RequestReadable' => RequestReadable) /\ (ResponseReadable' => ResponseReadable)
  BY <1>1, <1>5 DEF RequestReadable, ResponseReadable
<1>7. \A d \in Callers : InFlight(d) => correlation_id[d] # 0
  BY DEF SlotInv, CorrelationInv, TypeInv, TypeOK
<1>8. MagicInv'
  BY <1>1, <1>5 DEF SlotInv, MagicInv
<1>9. CorrelationInv'
  BY <1>1, <1>2, <1>3, <1>4 DEF SlotInv, CorrelationInv, NoRequest
<1>10. RequestInv'
  <2>1. \A t \in Servers : last_seen_sequence'[t] \leq layout.request_sequence
    BY <1>1, <1>2 DEF SlotInv, RequestInv
  <2> QED
    BY <1>1, <1>3, <1>4, <1>6, <2>1 DEF SlotInv, RequestInv
<1>11. TakenInv'
  BY <1>1, <1>2, <1>4, <1>7 DEF SlotInv, TakenInv, NoRequest
<1>12. ResponseInv'
  <2>1. \A t \in Servers : pc'[t] = "send_commit" => pc[t] = "send_commit" /\ t # s
    BY <1>1
  <2> QED
    BY <1>1, <1>2, <1>4, <1>6, <2>1 DEF SlotInv, ResponseInv
<1> QED
  BY <1>8, <1>9, <1>10, <1>11, <1>12 DEF SlotInv

LEMMA SlotStep == TypeInv /\ TypeInv' /\ SlotInv /\ [Next]_vars => SlotInv'
<1> SUFFICES ASSUME TypeInv, TypeInv', SlotInv, [Next]_vars PROVE SlotInv'
  OBVIOUS
<1>1. ASSUME NEW c \in Callers, CallerNext(c) PROVE SlotInv'
  BY <1>1, CallerQuiet, CallBeginSlot, AcquireSlot, PostIdSlot, PostRequestSlot
     DEF CallerNext, CallerAcquire, CallerStep
<1>2. ASSUME NEW s \in Servers, ServerNext(s) PROVE SlotInv'
  BY <1>2, ServerQuiet, AcquireSlot, TakeRequestSlot, SendPayloadSlot, SendCommitSlot, ForgetSlot
     DEF ServerNext, ServerAcquire, ServerStep
<1>3. CASE UNCHANGED vars
  BY <1>3, QuietStep DEF vars, memory, callerVars, serverVars, InFlight, RequestReadable,
     ResponseReadable
<1> QED
  BY <1>1, <1>2, <1>3 DEF Next

\* The results stay so: only PollHit returns an answer.
LEMMA ResultStep == TypeInv /\ SlotInv /\ ResultInv /\ [Next]_vars => ResultInv'
<1> SUFFICES ASSUME TypeInv, SlotInv, ResultInv, [Next]_vars PROVE ResultInv'
  OBVIOUS
<1> USE DEF ResultInv, PendingInv, AnswersOwnRequest
<1>1. ASSUME NEW c \in Callers, CallBegin(c) PROVE ResultInv'
  BY <1>1 DEF CallBegin, NoOutcome, TypeInv, TypeOK
<1>2. ASSUME NEW c \in Callers, CallRefused(c) \/ CallTimeout(c) PROVE ResultInv'
  <2>1. /\ result' = [result EXCEPT ![c] = Failure]
        /\ \A d \in Callers : d # c => request'[d] = request[d] /\ pc'[d] = pc[d]
        /\ pc'[c] = "idle"
    BY <1>2 DEF CallRefused, CallTimeout, TypeInv, TypeOK
  <2> QED
    BY <2>1 DEF Failure, TypeInv, TypeOK
<1>3. ASSUME NEW c \in Callers, PollHit(c) PROVE ResultInv'
  <2>1. InFlight(c) /\ ResponseReadable
    BY <1>3 DEF PollHit, InFlight, ResponseReadable, Section
  <2>2. layout.response_payload = request[c]
    BY <1>3, <2>1 DEF PollHit, AnswerArrived, SlotInv, ResponseInv
  <2> QED
    BY <1>3, <2>2 DEF PollHit, Answer, TypeInv, TypeOK
<1>4. CASE /\ UNCHANGED <<request, result>>
           /\ \A c \in Callers : pc'[c] # "idle" => pc[c] # "idle"
  BY <1>4
<1>5. ASSUME NEW c \in Callers,
             \/ CallerAcquire(c) \/ PostId(c) \/ PostRequest(c) \/ PollBegin(c)
             \/ PollMiss(c) \/ Expire(c) \/ CallerCrash(c)
      PROVE  /\ UNCHANGED <<request, result>>
             /\ \A d \in Callers : pc'[d] # "idle" => pc[d] # "idle"
  BY <1>5 DEF CallerAcquire, PostAcquire, PollAcquire, PostId, PostRequest, PollBegin, PollMiss,
     Expire, CallerCrash, Crash, callerVars, TypeInv, TypeOK
<1>6. ASSUME NEW s \in Servers, ServerNext(s)
      PROVE  /\ UNCHANGED <<request, result>>
             /\ \A d \in Callers : pc'[d] # "idle" => pc[d] # "idle"
  BY <1>6, ChannelAssumption DEF ServerNext, ServerAcquire, ServerStep, TakeBegin, TakeAcquire,
     TakeRequest, TakeNothing, SendBegin, SendRefused, SendAcquire, SendPayload, SendCommit,
     ServerCrash, Crash, callerVars, TypeInv, TypeOK
<1>7. CASE UNCHANGED vars
  BY <1>7 DEF vars, callerVars
<1> QED
  BY <1>1, <1>2, <1>3, <1>4, <1>5, <1>6, <1>7 DEF Next, CallerNext, CallerStep

\* The inductive invariant holds in every reachable state.
THEOREM Invariance == Spec => []IInv
<1>1. Init => TypeInv /\ SlotInv /\ ResultInv
  BY TypeInit, SlotInit
<1>2. TypeInv /\ SlotInv /\ ResultInv /\ [Next]_vars => (TypeInv /\ SlotInv /\ ResultInv)'
  BY TypeStep, SlotStep, ResultStep
<1>3. TypeInv /\ SlotInv /\ ResultInv => IInv
  BY DEF TypeInv, SlotInv, ResultInv, IInv
<1> QED
  BY <1>1, <1>2, <1>3, PTL DEF Spec

\* A call never returns the answer to another request, however many callers
\* and providers share the channel and wherever one of them is killed.
THEOREM AnswersAreOwn == Spec => []AnswersOwnRequest
<1>1. IInv => AnswersOwnRequest
  BY DEF IInv
<1> QED
  BY <1>1, Invariance, PTL

-----------------------------------------------------------------------------
(* What a step may not do *)

\* A provider that keeps running takes each request at most once, in order.
THEOREM TakesInOrder == Spec => TakesNewerRequests
<1> DEFINE Newer(s) == taken'[s] # taken[s] /\ taken'[s] # NoRequest =>
                         taken'[s].id > last_seen_sequence[s]
<1>1. ASSUME IInv, [Next]_vars, NEW s \in Servers PROVE Newer(s)
  <2>1. CASE TakeRequest(s)
    <3>1. RequestReadable
      BY <2>1 DEF TakeRequest, RequestReadable, Section
    <3>2. /\ layout.request_sequence = layout.correlation_id
          /\ last_seen_sequence[s] \leq layout.request_sequence
      BY <1>1, <3>1 DEF IInv, RequestInv
    <3>3. taken'[s].id = layout.correlation_id
      BY <1>1, <2>1 DEF IInv, TypeOK, TakeRequest
    <3>4. layout.request_sequence \in Nat /\ last_seen_sequence[s] \in Nat
      BY <1>1 DEF IInv, TypeOK
    <3> QED
      BY <2>1, <3>2, <3>3, <3>4 DEF TakeRequest, NewRequest
  <2>2. ASSUME NEW t \in Servers, t # s, TakeRequest(t) PROVE Newer(s)
    BY <1>1, <2>2 DEF IInv, TypeOK, TakeRequest
  <2>3. ASSUME NEW t \in Servers, SendRefused(t) \/ SendCommit(t) \/ ServerCrash(t) PROVE Newer(s)
    BY <1>1, <2>3 DEF IInv, TypeOK, SendRefused, SendCommit, ServerCrash
  <2>4. CASE UNCHANGED taken
    BY <2>4
  <2>5. ASSUME NEW t \in Servers,
               \/ ServerAcquire(t) \/ TakeBegin(t) \/ TakeNothing(t) \/ SendBegin(t)
               \/ SendPayload(t)
        PROVE  UNCHANGED taken
    BY <2>5 DEF ServerAcquire, TakeAcquire, SendAcquire, TakeBegin, TakeNothing, SendBegin,
       SendPayload, serverVars
  <2>6. ASSUME NEW c \in Callers, CallerNext(c) PROVE UNCHANGED taken
    BY <2>6 DEF CallerNext, CallerAcquire, CallerStep, CallBegin, CallRefused, PostAcquire,
       PollAcquire, PostId, PostRequest, PollBegin, PollHit, PollMiss, CallTimeout, Expire,
       CallerCrash, serverVars
  <2> QED
    BY <1>1, <2>1, <2>2, <2>3, <2>4, <2>5, <2>6 DEF Next, ServerNext, ServerStep, vars, serverVars
<1>2. IInv /\ [Next]_vars =>
         [\A s \in Servers : taken'[s] # taken[s] /\ taken'[s] # NoRequest =>
             taken'[s].id > last_seen_sequence[s]]_vars
  BY <1>1
<1> QED
  BY <1>2, Invariance, PTL DEF Spec, TakesNewerRequests

-----------------------------------------------------------------------------
(* MethodChannel implements RequestResponse: a call that is not idle is    *)
(* open, TakeRequest serves, and every other step inside a call is silent. *)

LEMMA ServiceInit == Init => Service!Init
BY ChannelAssumption DEF Init, NoOutcome, Service!Init, Service!NoOutcome

\* A caller's step begins a call, ends it, or is silent.
LEMMA ServiceCaller ==
    ASSUME IInv, NEW c \in Callers, CallerNext(c)
    PROVE  [Service!Next]_(Service!rrVars)
<1> DEFINE Open == {d \in Callers : pc[d] # "idle"}
<1>1. CASE CallBegin(c)
  <2>1. c \notin Open /\ Open' = Open \cup {c}
    BY <1>1, ChannelAssumption DEF CallBegin, IInv, TypeOK
  <2>2. Service!Invoke(c)
    BY <1>1, <2>1 DEF CallBegin, serverVars, NoOutcome, Service!Invoke, Service!NoOutcome
  <2> QED
    BY <2>2 DEF Service!Next
<1>2. CASE CallRefused(c)
  <2>1. c \notin Open /\ Open' = Open
    BY <1>2 DEF CallRefused
  <2>2. Service!Invoke(c)
    BY <1>2, <2>1 DEF CallRefused, serverVars, Failure, Service!Invoke, Service!Failure
  <2> QED
    BY <2>2 DEF Service!Next
<1>3. CASE PollHit(c)
  <2>1. c \in Open /\ Open' = Open \ {c}
    BY <1>3 DEF PollHit, IInv, TypeOK
  <2>2. layout.response_payload = request[c] /\ request[c] \in served
    BY <1>3 DEF PollHit, AnswerArrived, InFlight, ResponseReadable, Section, IInv, ResponseInv
  <2>3. Service!Finish(c)
    BY <1>3, <2>1, <2>2 DEF PollHit, serverVars, Answer, Service!Finish, Service!Answer
  <2> QED
    BY <2>3 DEF Service!Next
<1>4. CASE CallTimeout(c)
  <2>1. c \in Open /\ Open' = Open \ {c}
    BY <1>4 DEF CallTimeout, IInv, TypeOK
  <2>2. Service!Finish(c)
    BY <1>4, <2>1 DEF CallTimeout, serverVars, Failure, Service!Finish, Service!Failure
  <2> QED
    BY <2>2 DEF Service!Next
<1>5. CASE CallerCrash(c)
  <2>1. c \in Open /\ Open' = Open \ {c}
    BY <1>5 DEF CallerCrash, Crash, IInv, TypeOK
  <2>2. Service!Finish(c)
    <3>1. result' = [result EXCEPT ![c] = NoOutcome]
      BY <1>5, <2>1 DEF CallerCrash, Crash, IInv, PendingInv, TypeOK
    <3> QED
      BY <1>5, <2>1, <3>1 DEF CallerCrash, Crash, NoOutcome, Service!Finish, Service!NoOutcome
  <2> QED
    BY <2>2 DEF Service!Next
<1>6. ASSUME CallerAcquire(c) \/ PostId(c) \/ PostRequest(c) \/ PollBegin(c) \/ PollMiss(c) \/ Expire(c)
      PROVE  UNCHANGED Service!rrVars
  <2>1. Open' = Open
    BY <1>6 DEF CallerAcquire, PostAcquire, PollAcquire, PostId, PostRequest, PollBegin, PollMiss,
       Expire, IInv, TypeOK
  <2>2. UNCHANGED <<issued, request, result, served>>
    BY <1>6 DEF CallerAcquire, PostAcquire, PollAcquire, PostId, PostRequest, PollBegin, PollMiss,
       Expire, callerVars, serverVars
  <2> QED
    BY <2>1, <2>2 DEF Service!rrVars
<1> QED
  BY <1>1, <1>2, <1>3, <1>4, <1>5, <1>6 DEF CallerNext, CallerStep

\* A provider's step serves a request that was made, or is silent.
LEMMA ServiceServer ==
    ASSUME IInv, NEW s \in Servers, ServerNext(s)
    PROVE  [Service!Next]_(Service!rrVars)
<1> DEFINE Open == {d \in Callers : pc[d] # "idle"}
<1>1. \A d \in Callers : pc'[d] = pc[d]
  BY ChannelAssumption DEF ServerNext, ServerAcquire, ServerStep, TakeBegin, TakeAcquire,
     TakeRequest, TakeNothing, SendBegin, SendRefused, SendAcquire, SendPayload, SendCommit,
     ServerCrash, Crash, IInv, TypeOK
<1>2. Open' = Open
  BY <1>1
<1>3. UNCHANGED <<issued, request, result>>
  BY DEF ServerNext, ServerAcquire, ServerStep, TakeBegin, TakeAcquire, TakeRequest, TakeNothing,
     SendBegin, SendRefused, SendAcquire, SendPayload, SendCommit, ServerCrash, Crash, callerVars
<1>4. CASE TakeRequest(s)
  <2>1. layout.request_payload \in 1..issued
    BY <1>4 DEF TakeRequest, NewRequest, RequestReadable, Section, IInv, RequestInv
  <2>2. Service!Serve(layout.request_payload)
    BY <1>2, <1>3, <1>4, <2>1 DEF TakeRequest, Service!Serve
  <2> QED
    BY <2>1, <2>2 DEF Service!Next
<1>5. CASE ~TakeRequest(s)
  <2>1. UNCHANGED served
    BY <1>5 DEF ServerNext, ServerAcquire, ServerStep, TakeBegin, TakeAcquire, TakeNothing,
       SendBegin, SendRefused, SendAcquire, SendPayload, SendCommit, ServerCrash, Crash, serverVars
  <2> QED
    BY <1>2, <1>3, <2>1 DEF Service!rrVars
<1> QED
  BY <1>4, <1>5

\* The channel is a request/response service for its callers.
THEOREM Refinement == Spec => ImplementsRequestResponse
<1>1. IInv /\ [Next]_vars => [Service!Next]_(Service!rrVars)
  <2> SUFFICES ASSUME IInv, [Next]_vars PROVE [Service!Next]_(Service!rrVars)
    OBVIOUS
  <2>1. CASE UNCHANGED vars
    BY <2>1 DEF vars, callerVars, serverVars, Service!rrVars
  <2> QED
    BY <2>1, ServiceCaller, ServiceServer DEF Next
<1> QED
  BY <1>1, ServiceInit, Invariance, PTL DEF Spec, ImplementsRequestResponse, Service!Spec
=============================================================================
