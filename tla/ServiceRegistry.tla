--------------------------- MODULE ServiceRegistry ----------------------------
(***************************************************************************)
(* The registry of com_runtime_state.cpp: two tables of fixed size in one  *)
(* shared-memory region, guarded by one named semaphore.  Every operation  *)
(* enters the semaphore twice: once in OpenRegistry, which clears a region *)
(* without the magic number, and once for the scan and the update.         *)
(***************************************************************************)
EXTENDS NamedSemaphore, FiniteSets

CONSTANTS
    Processes,
    ServiceKeys,        \* pairs of a service and an instance identifier
    Specifiers,         \* instance specifiers
    Instances,          \* instance identifiers
    Endpoints,
    BindingTypes,       \* kIpc and kDds; one IpcBindingRuntime serves both
    TooLong,            \* the strings that exceed the array they are copied to
    kMaxRegistryEntries,
    MaxFaults,          \* bound: kills in a behaviour
    CrashPoints         \* the control points at which a process may be killed

CONSTANTS Nothing, Unknown      \* no operation, no answer; not in the registry

ServiceMetadata == [binding_type : BindingTypes, endpoint : Endpoints]
InstanceMapping ==
    [binding_type : BindingTypes, instance : Instances, endpoint : Endpoints]

Updates ==
    [kind : {"offer"}, key : ServiceKeys, data : ServiceMetadata] \cup
    [kind : {"register"}, key : Specifiers, data : InstanceMapping]
Searches ==
    [kind : {"stop", "find"}, key : ServiceKeys] \cup [kind : {"resolve"}, key : Specifiers]
Operations == Updates \cup Searches

Statuses ==
    {"ok", "kCommunicationFailure", "kMaxSamplesExceeded", "kServiceNotOffered",
     "kInstanceIDNotResolvable"}
Answers == [status : Statuses, found : (SUBSET ServiceMetadata) \cup (SUBSET Instances)]
Labels == {"idle", "open_wait", "open", "reset", "op_wait", "scan", "write", "release"}
Section == {"open", "reset", "scan", "write", "release"}

ASSUME RegistryAssumption ==
    /\ kMaxRegistryEntries \in Nat
    /\ MaxFaults \in Nat
    /\ CrashPoints \subseteq Labels
    /\ Nothing \notin Operations \cup Answers
    /\ Unknown \notin ServiceMetadata \cup InstanceMapping
    /\ \A key \in ServiceKeys \cup Specifiers, data \in ServiceMetadata \cup InstanceMapping :
            Unknown # [key |-> key, data |-> data]

VARIABLES
    magic,          \* has the region been cleared for use
    services,       \* the table of offers, an entry or Unknown per slot
    instances,      \* the table of instance mappings
    reach,          \* how much of the registry each process manages to open
    pc,             \* the control point of every process
    call,           \* the operation each process is in, or Nothing
    answer,         \* what the operation answered, or Nothing
    slot,           \* the slot the scan of each process stopped at, 0 for none
    faults          \* how many kills have happened

region == <<magic, services, instances>>
callVars == <<call, answer, slot>>
vars == <<sem, region, reach, pc, callVars, faults>>

Slots == 1..kMaxRegistryEntries
EmptyTable == [i \in Slots |-> Unknown]

Goto(p, from, to) == pc[p] = from /\ pc' = [pc EXCEPT ![p] = to]
Enter(p, from, to) == Goto(p, from, to) /\ SemWait
Leave(p, from, to) == Goto(p, from, to) /\ SemPost

Init ==
    /\ SemInit
    /\ magic = FALSE
    /\ services = EmptyTable
    /\ instances = EmptyTable
    /\ reach \in [Processes -> {"none", "region", "all"}]
    /\ pc = [p \in Processes |-> "idle"]
    /\ call = [p \in Processes |-> Nothing]
    /\ answer = [p \in Processes |-> Nothing]
    /\ slot = [p \in Processes |-> 0]
    /\ faults = 0
-----------------------------------------------------------------------------
(* OpenRegistry.  A process opens the region and the semaphore once, in    *)
(* static objects: what could not be opened the first time never will be.  *)

Status(status) == [status |-> status, found |-> {}]
Found(found) == [status |-> "ok", found |-> found]

Answer(p, value) == answer' = [answer EXCEPT ![p] = value]

Begin(p, op) ==
    /\ Goto(p, "idle", "open_wait")
    /\ call' = [call EXCEPT ![p] = op]
    /\ Answer(p, Nothing)
    /\ UNCHANGED <<sem, region, reach, slot, faults>>

\* The operation fails on a handle that could not be opened.
Refused(p) ==
    /\ \/ reach[p] = "none" /\ Goto(p, "open_wait", "idle")
       \/ reach[p] = "region" /\ Goto(p, "op_wait", "idle")
    /\ call' = [call EXCEPT ![p] = Nothing]
    /\ Answer(p, Status("kCommunicationFailure"))
    /\ UNCHANGED <<sem, region, reach, slot, faults>>

OpenAcquire(p) ==
    /\ reach[p] # "none"
    /\ Enter(p, "open_wait", "open")
    /\ UNCHANGED <<region, reach, callVars, faults>>

OpenInUse(p) ==
    /\ magic
    /\ Leave(p, "open", "op_wait")
    /\ UNCHANGED <<region, reach, callVars, faults>>

OpenFresh(p) ==
    /\ ~magic
    /\ Goto(p, "open", "reset")
    /\ UNCHANGED <<sem, region, reach, callVars, faults>>

Reset(p) ==
    /\ Leave(p, "reset", "op_wait")
    /\ magic' = TRUE
    /\ services' = EmptyTable
    /\ instances' = EmptyTable
    /\ UNCHANGED <<reach, callVars, faults>>

\* Mutant: the scan does not wait for the semaphore.
ScanUnguarded(p) ==
    /\ reach[p] = "all"
    /\ Goto(p, "op_wait", "scan")
    /\ UNCHANGED <<sem, region, reach, callVars, faults>>

OpAcquire(p) ==
    /\ reach[p] = "all"
    /\ Enter(p, "op_wait", "scan")
    /\ UNCHANGED <<region, reach, callVars, faults>>
-----------------------------------------------------------------------------
(* The scans: over the table for an entry with the key of the operation,   *)
(* and, for an update that finds none, over it again for a free slot.      *)

Table(op) == IF op.kind \in {"register", "resolve"} THEN instances ELSE services

Holding(table, key) == {i \in Slots : table[i] # Unknown /\ table[i].key = key}
Free(table) == {i \in Slots : table[i] = Unknown}

First(S) == IF S = {} THEN 0 ELSE CHOOSE i \in S : \A j \in S : i <= j

\* Mutant: an update takes the first slot that is free or holds the key.
FirstFit(table, key) == First(Holding(table, key) \cup Free(table))

SlotToUpdate(table, key) ==
    IF Holding(table, key) # {} THEN First(Holding(table, key)) ELSE First(Free(table))

ScanToUpdate(p) ==
    /\ Goto(p, "scan", "write")
    /\ call[p].kind \in {"offer", "register"}
    /\ slot' = [slot EXCEPT ![p] = SlotToUpdate(Table(call[p]), call[p].key)]
    /\ UNCHANGED <<sem, region, reach, call, answer, faults>>

ScanToStop(p) ==
    /\ Goto(p, "scan", "write")
    /\ call[p].kind = "stop"
    /\ slot' = [slot EXCEPT ![p] = First(Holding(services, call[p].key))]
    /\ UNCHANGED <<sem, region, reach, call, answer, faults>>

Find(p) ==
    /\ Goto(p, "scan", "release")
    /\ call[p].kind = "find"
    /\ Answer(p, Found({services[i].data : i \in Holding(services, call[p].key)}))
    /\ UNCHANGED <<sem, region, reach, call, slot, faults>>

Resolve(p) ==
    /\ Goto(p, "scan", "release")
    /\ call[p].kind = "resolve"
    /\ LET matches == Holding(instances, call[p].key) IN
        Answer(p, IF matches = {} THEN Status("kInstanceIDNotResolvable")
                  ELSE Found({instances[i].data.instance : i \in matches}))
    /\ UNCHANGED <<sem, region, reach, call, slot, faults>>
-----------------------------------------------------------------------------
(* The updates.  An entry in use is overwritten field by field until a     *)
(* string does not fit; a free slot is taken in use only if all of them do. *)

Fits(x) == x \notin TooLong

DataFits(op) ==
    /\ Fits(op.data.endpoint)
    /\ op.kind = "register" => Fits(op.data.instance)

\* What is left of the old data when the new one does not fit.
PartlyOverwritten(old, op) ==
    IF op.kind = "register" /\ Fits(op.data.instance)
    THEN [old EXCEPT !.binding_type = op.data.binding_type, !.instance = op.data.instance]
    ELSE [old EXCEPT !.binding_type = op.data.binding_type]

SetEntry(op, i, entry) ==
    IF op.kind = "register"
    THEN instances' = [instances EXCEPT ![i] = entry] /\ UNCHANGED services
    ELSE services' = [services EXCEPT ![i] = entry] /\ UNCHANGED instances

Writing(p) ==
    /\ Goto(p, "write", "release")
    /\ UNCHANGED <<sem, magic, reach, call, slot, faults>>

Overwrite(p) ==
    LET op == call[p]
        entry == Table(op)[slot[p]] IN
    /\ Writing(p)
    /\ op.kind \in {"offer", "register"} /\ slot[p] # 0 /\ entry # Unknown
    /\ IF DataFits(op)
       THEN SetEntry(op, slot[p], [entry EXCEPT !.data = op.data]) /\ Answer(p, Status("ok"))
       ELSE /\ SetEntry(op, slot[p], [entry EXCEPT !.data = PartlyOverwritten(entry.data, op)])
            /\ Answer(p, Status("kCommunicationFailure"))

\* Mutant: a key that does not fit is truncated.
InsertTruncated(p) ==
    LET op == call[p] IN
    /\ Writing(p)
    /\ op.kind \in {"offer", "register"} /\ slot[p] # 0 /\ Table(op)[slot[p]] = Unknown
    /\ IF DataFits(op)
       THEN /\ SetEntry(op, slot[p], [key |-> op.key, data |-> op.data])
            /\ Answer(p, Status("ok"))
       ELSE UNCHANGED <<services, instances>> /\ Answer(p, Status("kCommunicationFailure"))

Insert(p) ==
    LET op == call[p] IN
    /\ Writing(p)
    /\ op.kind \in {"offer", "register"} /\ slot[p] # 0 /\ Table(op)[slot[p]] = Unknown
    /\ IF Fits(op.key) /\ DataFits(op)
       THEN /\ SetEntry(op, slot[p], [key |-> op.key, data |-> op.data])
            /\ Answer(p, Status("ok"))
       ELSE UNCHANGED <<services, instances>> /\ Answer(p, Status("kCommunicationFailure"))

TableFull(p) ==
    /\ Writing(p)
    /\ call[p].kind \in {"offer", "register"} /\ slot[p] = 0
    /\ Answer(p, Status("kMaxSamplesExceeded"))
    /\ UNCHANGED <<services, instances>>

StopOffer(p) ==
    /\ Writing(p)
    /\ call[p].kind = "stop"
    /\ IF slot[p] = 0
       THEN UNCHANGED <<services, instances>> /\ Answer(p, Status("kServiceNotOffered"))
       ELSE SetEntry(call[p], slot[p], Unknown) /\ Answer(p, Status("ok"))

\* Mutant: an operation that fails returns without releasing the semaphore.
ReleaseOnSuccess(p) ==
    /\ Goto(p, "release", "idle")
    /\ IF answer[p].status = "ok" THEN SemPost ELSE UNCHANGED sem
    /\ call' = [call EXCEPT ![p] = Nothing]
    /\ slot' = [slot EXCEPT ![p] = 0]
    /\ UNCHANGED <<region, reach, answer, faults>>

Release(p) ==
    /\ Leave(p, "release", "idle")
    /\ call' = [call EXCEPT ![p] = Nothing]
    /\ slot' = [slot EXCEPT ![p] = 0]
    /\ UNCHANGED <<region, reach, answer, faults>>
-----------------------------------------------------------------------------
(* A process is killed and started again; the region and the semaphore stay. *)

Crash(p) ==
    /\ pc[p] \in CrashPoints
    /\ faults < MaxFaults
    /\ faults' = faults + 1
    /\ \E r \in {"none", "region", "all"} : reach' = [reach EXCEPT ![p] = r]
    /\ pc' = [pc EXCEPT ![p] = "idle"]
    /\ call' = [call EXCEPT ![p] = Nothing]
    /\ Answer(p, Nothing)
    /\ slot' = [slot EXCEPT ![p] = 0]
    /\ UNCHANGED <<sem, region>>
-----------------------------------------------------------------------------
OpenStep(p) == Refused(p) \/ OpenInUse(p) \/ OpenFresh(p) \/ Reset(p)
ScanStep(p) == ScanToUpdate(p) \/ ScanToStop(p) \/ Find(p) \/ Resolve(p)
WriteStep(p) == Overwrite(p) \/ Insert(p) \/ TableFull(p) \/ StopOffer(p) \/ Release(p)
Acquire(p) == OpenAcquire(p) \/ OpAcquire(p)
Step(p) == OpenStep(p) \/ ScanStep(p) \/ WriteStep(p)

Next ==
    \E p \in Processes :
        \/ \E op \in Operations : Begin(p, op)
        \/ Acquire(p) \/ Step(p) \/ Crash(p)

Spec == Init /\ [][Next]_vars

\* Every process is scheduled, and offers, stops and searches are rare: the
\* semaphore is free again and again while a process waits for it.
FairSpec ==
    /\ Spec
    /\ \A p \in Processes : WF_vars(Step(p)) /\ SF_vars(Acquire(p))
-----------------------------------------------------------------------------
(* Properties *)

Tables(keys, data) == [Slots -> [key : keys, data : data] \cup {Unknown}]

\* Type invariant.
TypeOK ==
    /\ sem \in {0, 1}
    /\ magic \in BOOLEAN
    /\ services \in Tables(ServiceKeys, ServiceMetadata)
    /\ instances \in Tables(Specifiers, InstanceMapping)
    /\ reach \in [Processes -> {"none", "region", "all"}]
    /\ pc \in [Processes -> Labels]
    /\ \A p \in Processes :
        IF pc[p] = "idle" THEN call[p] = Nothing ELSE call[p] \in Operations
    /\ call \in [Processes -> Operations \cup {Nothing}]
    /\ answer \in [Processes -> Answers \cup {Nothing}]
    /\ slot \in [Processes -> Slots \cup {0}]
    /\ faults \in Nat

\* One process at a time is between sem_wait and sem_post.
OneInSection ==
    \A p \in Processes : pc[p] \in Section =>
        sem = 0 /\ \A q \in Processes : pc[q] \in Section => p = q

Unique(table) ==
    \A i, j \in Slots :
        table[i] # Unknown /\ table[j] # Unknown /\ table[i].key = table[j].key => i = j

\* No service instance is listed twice, and no specifier: a stop takes the only
\* entry away, and an update changes the entry that searches read.
OneEntryPerKey == Unique(services) /\ Unique(instances)

\* A scan is still right when the slot it found is written.
ScanInv ==
    \A p \in Processes : pc[p] = "write" =>
        /\ call[p].kind \in {"offer", "register"} =>
               slot[p] = SlotToUpdate(Table(call[p]), call[p].key)
        /\ call[p].kind = "stop" => slot[p] = First(Holding(services, call[p].key))
        /\ call[p].kind \in {"offer", "register", "stop"}

\* The region is in use when a scan starts, and empty before its first use.
ResetInv ==
    /\ ~magic => services = EmptyTable /\ instances = EmptyTable
    /\ \A p \in Processes : pc[p] = "reset" => ~magic
    /\ \A p \in Processes : pc[p] \in {"op_wait", "scan", "write", "release"} => magic

\* An operation is answered at the end of its second section.
AnswerInv ==
    \A p \in Processes : pc[p] # "idle" => (answer[p] = Nothing <=> pc[p] # "release")

\* The inductive invariant.
IInv == TypeOK /\ OneInSection /\ OneEntryPerKey /\ ScanInv /\ ResetInv /\ AnswerInv

\* What the directory says of a key.
Entry(table, key) ==
    IF Holding(table, key) = {} THEN Unknown ELSE table[First(Holding(table, key))].data

\* What the directory makes of a table.
View(keys, table) == [k \in keys |-> Entry(table, k)]

\* Every operation takes effect at one moment, on a directory without slots.
Directory == INSTANCE ServiceDirectory WITH
    offers <- View(ServiceKeys, services),
    mappings <- View(Specifiers, instances),
    Capacity <- kMaxRegistryEntries

ImplementsServiceDirectory == Directory!Spec

\* Every operation returns, as long as nobody is killed inside the section.
OperationsReturn ==
    \A p \in Processes : call[p] # Nothing ~> call[p] = Nothing
=============================================================================
