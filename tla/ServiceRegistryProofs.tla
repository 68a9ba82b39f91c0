------------------------- MODULE ServiceRegistryProofs -------------------------
(***************************************************************************)
(* Proofs about ServiceRegistry, for every set of processes, keys and      *)
(* strings, tables of any size, and kills at any point.                    *)
(***************************************************************************)
EXTENDS ServiceRegistry, FiniteSetTheorems, WellFoundedInduction, TLAPS

USE DEF Goto, Enter, Leave, SemWait, SemPost

-----------------------------------------------------------------------------
(* The scans *)

\* A set of slots that is not empty has a first one.
LEMMA FirstInSet ==
    ASSUME NEW S \in SUBSET Slots, S # {}
    PROVE  First(S) \in S
<1> DEFINE Below == {pair \in Nat \X Nat : pair[1] < pair[2]}
<1>1. IsWellFoundedOn(Below, Nat)
  BY NatLessThanWellFounded DEF OpToRel
<1>2. S \subseteq Nat
  BY RegistryAssumption DEF Slots
<1>3. \A i, j \in Nat : <<j, i>> \notin Below => i <= j
  OBVIOUS
<1> HIDE DEF Below
<1>4. PICK i \in S : \A j \in S : ~ (<<j, i>> \in Below)
  BY <1>1, <1>2, WFMin
<1>5. \A j \in S : i <= j
  BY <1>2, <1>3, <1>4
<1> QED
  BY <1>5 DEF First

\* An update finds the entry of its key if there is one, else a free slot if there
\* is one, else none.
LEMMA SlotFound ==
    ASSUME NEW table, NEW key
    PROVE  \/ SlotToUpdate(table, key) \in Holding(table, key)
           \/ Holding(table, key) = {} /\ SlotToUpdate(table, key) \in Free(table)
           \/ /\ Holding(table, key) = {} /\ Free(table) = {}
              /\ SlotToUpdate(table, key) = 0
<1>1. Holding(table, key) \in SUBSET Slots /\ Free(table) \in SUBSET Slots
  BY DEF Holding, Free
<1>2. CASE Holding(table, key) # {}
  BY <1>1, <1>2, FirstInSet DEF SlotToUpdate
<1>3. CASE Holding(table, key) = {} /\ Free(table) # {}
  BY <1>1, <1>3, FirstInSet DEF SlotToUpdate
<1>4. CASE Holding(table, key) = {} /\ Free(table) = {}
  BY <1>4 DEF SlotToUpdate, First
<1> QED
  BY <1>2, <1>3, <1>4

\* A slot is found in the table or not at all.
LEMMA SlotsFound ==
    ASSUME NEW table, NEW key
    PROVE  /\ SlotToUpdate(table, key) \in Slots \cup {0}
           /\ First(Holding(table, key)) \in Slots \cup {0}
<1>1. Holding(table, key) \in SUBSET Slots /\ Free(table) \in SUBSET Slots
  BY DEF Holding, Free
<1>2. \A S \in SUBSET Slots : First(S) \in Slots \cup {0}
  BY FirstInSet DEF First
<1> QED
  BY <1>1, <1>2 DEF SlotToUpdate

\* Zero is no slot.
LEMMA ZeroIsNoSlot == 0 \notin Slots
BY RegistryAssumption DEF Slots

-----------------------------------------------------------------------------
(* Operations and tables *)

\* What an operation of each kind carries.
LEMMA OperationTypes ==
    ASSUME NEW op \in Operations
    PROVE  /\ op.kind \in {"offer", "register", "stop", "find", "resolve"}
           /\ op.kind = "offer" => op.key \in ServiceKeys /\ op.data \in ServiceMetadata
           /\ op.kind = "register" => op.key \in Specifiers /\ op.data \in InstanceMapping
           /\ op.kind \in {"stop", "find"} => op.key \in ServiceKeys
           /\ op.kind = "resolve" => op.key \in Specifiers
BY DEF Operations, Updates, Searches

\* A slot can be given an entry, or none.
LEMMA PutEntry ==
    ASSUME NEW K, NEW D, NEW table \in Tables(K, D), NEW i \in Slots,
           NEW e \in [key : K, data : D] \cup {Unknown}
    PROVE  [table EXCEPT ![i] = e] \in Tables(K, D)
BY DEF Tables

\* Emptying a slot, changing the data of an entry and filling a free slot with a
\* key that no other slot holds keep every key in one slot.
LEMMA StaysUnique ==
    ASSUME NEW K, NEW D, NEW table \in Tables(K, D), Unique(table), NEW i \in Slots
    PROVE  /\ Unique([table EXCEPT ![i] = Unknown])
           /\ table[i] # Unknown =>
                \A e : e.key = table[i].key => Unique([table EXCEPT ![i] = e])
           /\ \A e : Holding(table, e.key) = {} => Unique([table EXCEPT ![i] = e])
<1> DEFINE Put(e) == [table EXCEPT ![i] = e]
<1>1. \A e : Put(e)[i] = e /\ \A j \in Slots : j # i => Put(e)[j] = table[j]
  BY DEF Tables
<1>2. Unique(Put(Unknown))
  BY <1>1 DEF Unique
<1>3. ASSUME table[i] # Unknown, NEW e, e.key = table[i].key PROVE Unique(Put(e))
  BY <1>1, <1>3 DEF Unique
<1>4. ASSUME NEW e, Holding(table, e.key) = {} PROVE Unique(Put(e))
  BY <1>1, <1>4 DEF Unique, Holding
<1> QED
  BY <1>2, <1>3, <1>4

-----------------------------------------------------------------------------
(* Control: the semaphore and the control points *)

ControlType ==
    /\ sem \in {0, 1}
    /\ magic \in BOOLEAN
    /\ reach \in [Processes -> {"none", "region", "all"}]
    /\ pc \in [Processes -> Labels]
    /\ faults \in Nat

CallType ==
    /\ \A p \in Processes :
        IF pc[p] = "idle" THEN call[p] = Nothing ELSE call[p] \in Operations
    /\ call \in [Processes -> Operations \cup {Nothing}]
    /\ answer \in [Processes -> Answers \cup {Nothing}]
    /\ slot \in [Processes -> Slots \cup {0}]

TableType ==
    /\ services \in Tables(ServiceKeys, ServiceMetadata)
    /\ instances \in Tables(Specifiers, InstanceMapping)

LEMMA TypeParts == TypeOK <=> ControlType /\ CallType /\ TableType
BY DEF TypeOK, ControlType, CallType, TableType

ControlInv == ControlType /\ OneInSection

LEMMA ControlStep ==
    ASSUME ControlInv, [Next]_vars
    PROVE  ControlInv'
<1> USE RegistryAssumption DEF ControlInv, ControlType, OneInSection, Labels, Section
<1>1. CASE UNCHANGED vars
  BY <1>1 DEF vars, region
<1>2. ASSUME NEW p \in Processes, NEW op, Begin(p, op) PROVE ControlInv'
  BY <1>2 DEF Begin, region
<1>3. ASSUME NEW p \in Processes, OpenStep(p) PROVE ControlInv'
  <2>1. CASE Refused(p)
    BY <2>1 DEF Refused, region
  <2>2. CASE OpenInUse(p)
    BY <2>2 DEF OpenInUse, region
  <2>3. CASE OpenFresh(p)
    BY <2>3 DEF OpenFresh, region
  <2>4. CASE Reset(p)
    BY <2>4 DEF Reset
  <2> QED
    BY <1>3, <2>1, <2>2, <2>3, <2>4 DEF OpenStep
<1>4. ASSUME NEW p \in Processes, Acquire(p) PROVE ControlInv'
  BY <1>4 DEF Acquire, OpenAcquire, OpAcquire, region
<1>5. ASSUME NEW p \in Processes, ScanStep(p) PROVE ControlInv'
  BY <1>5 DEF ScanStep, ScanToUpdate, ScanToStop, Find, Resolve, region
<1>6. ASSUME NEW p \in Processes, WriteStep(p) PROVE ControlInv'
  <2>1. CASE Release(p)
    BY <2>1 DEF Release, region
  <2>2. CASE Writing(p)
    BY <2>2 DEF Writing
  <2> QED
    BY <1>6, <2>1, <2>2 DEF WriteStep, Overwrite, Insert, TableFull, StopOffer
<1>7. ASSUME NEW p \in Processes, Crash(p) PROVE ControlInv'
  BY <1>7 DEF Crash, region
<1>8. ASSUME NEW p \in Processes, Step(p) PROVE ControlInv'
  BY ONLY <1>3, <1>5, <1>6, <1>8, p \in Processes DEF Step
<1>9. CASE Next
  BY ONLY <1>2, <1>4, <1>7, <1>8, <1>9 DEF Next
<1> QED
  BY ONLY <1>1, <1>9, [Next]_vars

-----------------------------------------------------------------------------
(* The operations in progress *)

LEMMA AnswerTypes ==
    /\ \A status \in Statuses : Status(status) \in Answers
    /\ \A found \in SUBSET ServiceMetadata : Found(found) \in Answers
    /\ \A found \in SUBSET Instances : Found(found) \in Answers
BY DEF Answers, Status, Found, Statuses

LEMMA CallStep ==
    ASSUME ControlType, CallType, TableType, Next
    PROVE  CallType'
<1> USE DEF ControlType, CallType, Labels
<1>1. ASSUME NEW p \in Processes, NEW op \in Operations, Begin(p, op) PROVE CallType'
  BY <1>1 DEF Begin, Answer
<1>2. ASSUME NEW p \in Processes, Refused(p) PROVE CallType'
  <2>1. Status("kCommunicationFailure") \in Answers
    BY AnswerTypes DEF Statuses
  <2> QED
    BY <1>2, <2>1 DEF Refused, Answer
<1>3. ASSUME NEW p \in Processes,
             OpenInUse(p) \/ OpenFresh(p) \/ Reset(p) \/ Acquire(p)
      PROVE  CallType'
  BY <1>3 DEF OpenInUse, OpenFresh, Reset, Acquire, OpenAcquire, OpAcquire, callVars
<1>4. ASSUME NEW p \in Processes, ScanToUpdate(p) \/ ScanToStop(p) PROVE CallType'
  <2>1. slot' \in [Processes -> Slots \cup {0}]
    BY <1>4, SlotsFound DEF ScanToUpdate, ScanToStop
  <2> QED
    BY <1>4, <2>1 DEF ScanToUpdate, ScanToStop
<1>5. ASSUME NEW p \in Processes, Find(p) PROVE CallType'
  <2>1. {services[i].data : i \in Holding(services, call[p].key)} \in SUBSET ServiceMetadata
    BY DEF TableType, Tables, Holding
  <2>2. answer' \in [Processes -> Answers \cup {Nothing}]
    BY <1>5, <2>1, AnswerTypes DEF Find, Answer
  <2> QED
    BY <1>5, <2>2 DEF Find
<1>6. ASSUME NEW p \in Processes, Resolve(p) PROVE CallType'
  <2>1. {instances[i].data.instance : i \in Holding(instances, call[p].key)} \in SUBSET Instances
    BY DEF TableType, Tables, Holding, InstanceMapping
  <2>2. Status("kInstanceIDNotResolvable") \in Answers
    BY AnswerTypes DEF Statuses
  <2>3. answer' \in [Processes -> Answers \cup {Nothing}]
    BY <1>6, <2>1, <2>2, AnswerTypes DEF Resolve, Answer
  <2> QED
    BY <1>6, <2>3 DEF Resolve
<1>7. ASSUME NEW p \in Processes, WriteStep(p), ~ Release(p) PROVE CallType'
  <2>1. Writing(p)
    BY <1>7 DEF WriteStep, Overwrite, Insert, TableFull, StopOffer
  <2>2. \A status \in Statuses : Answer(p, Status(status)) =>
            answer' \in [Processes -> Answers \cup {Nothing}]
    BY AnswerTypes DEF Answer
  <2>3. \E status \in Statuses : Answer(p, Status(status))
    BY <1>7 DEF WriteStep, Overwrite, Insert, TableFull, StopOffer, Statuses
  <2> QED
    BY <2>1, <2>2, <2>3 DEF Writing
<1>8. ASSUME NEW p \in Processes, Release(p) PROVE CallType'
  BY <1>8 DEF Release
<1>9. ASSUME NEW p \in Processes, Crash(p) PROVE CallType'
  BY <1>9 DEF Crash, Answer
<1> QED
  BY <1>1, <1>2, <1>3, <1>4, <1>5, <1>6, <1>7, <1>8, <1>9
     DEF Next, Step, OpenStep, ScanStep, WriteStep

-----------------------------------------------------------------------------
(* The tables *)

\* The data an update leaves behind when a string does not fit.
LEMMA PartlyOverwrittenType ==
    ASSUME NEW op \in Operations
    PROVE  /\ op.kind = "offer" =>
                \A old \in ServiceMetadata : PartlyOverwritten(old, op) \in ServiceMetadata
           /\ op.kind = "register" =>
                \A old \in InstanceMapping : PartlyOverwritten(old, op) \in InstanceMapping
BY OperationTypes DEF PartlyOverwritten, ServiceMetadata, InstanceMapping

TableInv == TableType /\ OneEntryPerKey

\* An overwritten entry keeps its key, and its data keep their type.
LEMMA OverwriteTables ==
    ASSUME ControlType, CallType, TableInv, NEW p \in Processes, Overwrite(p)
    PROVE  TableInv'
<1> DEFINE op == call[p]
           i == slot[p]
           entry == Table(op)[i]
<1>1. op \in Operations
  BY DEF Overwrite, Writing, CallType
<1>2. i \in Slots /\ entry # Unknown /\ op.kind \in {"offer", "register"}
  BY DEF Overwrite, CallType
<1>3. CASE op.kind = "offer"
  <2>1. Table(op) = services
    BY <1>3 DEF Table
  <2>2. entry \in [key : ServiceKeys, data : ServiceMetadata]
    BY <1>2, <2>1 DEF TableInv, TableType, Tables
  <2>3. PICK data \in ServiceMetadata : SetEntry(op, i, [entry EXCEPT !.data = data])
    BY <1>1, <1>3, <2>2, OperationTypes, PartlyOverwrittenType DEF Overwrite
  <2> DEFINE new == [entry EXCEPT !.data = data]
  <2>4. new \in [key : ServiceKeys, data : ServiceMetadata] /\ new.key = entry.key
    BY <2>2
  <2>5. services' = [services EXCEPT ![i] = new] /\ instances' = instances
    BY <1>3, <2>3 DEF SetEntry
  <2> HIDE DEF new, op, i
  <2>6. TableType'
    BY <1>2, <2>4, <2>5, PutEntry DEF TableInv, TableType
  <2>7. Unique(services)'
    BY <1>2, <2>1, <2>4, <2>5, StaysUnique DEF TableInv, TableType, OneEntryPerKey, Unique
  <2>8. Unique(instances)'
    BY <2>5 DEF TableInv, OneEntryPerKey, Unique
  <2> QED
    BY <2>6, <2>7, <2>8 DEF TableInv, OneEntryPerKey
<1>4. CASE op.kind = "register"
  <2>1. Table(op) = instances
    BY <1>4 DEF Table
  <2>2. entry \in [key : Specifiers, data : InstanceMapping]
    BY <1>2, <2>1 DEF TableInv, TableType, Tables
  <2>3. PICK data \in InstanceMapping : SetEntry(op, i, [entry EXCEPT !.data = data])
    BY <1>1, <1>4, <2>2, OperationTypes, PartlyOverwrittenType DEF Overwrite
  <2> DEFINE new == [entry EXCEPT !.data = data]
  <2>4. new \in [key : Specifiers, data : InstanceMapping] /\ new.key = entry.key
    BY <2>2
  <2>5. instances' = [instances EXCEPT ![i] = new] /\ services' = services
    BY <1>4, <2>3 DEF SetEntry
  <2> HIDE DEF new, op, i
  <2>6. TableType'
    BY <1>2, <2>4, <2>5, PutEntry DEF TableInv, TableType
  <2>7. Unique(instances)'
    BY <1>2, <2>1, <2>4, <2>5, StaysUnique DEF TableInv, TableType, OneEntryPerKey, Unique
  <2>8. Unique(services)'
    BY <2>5 DEF TableInv, OneEntryPerKey, Unique
  <2> QED
    BY <2>6, <2>7, <2>8 DEF TableInv, OneEntryPerKey
<1> QED
  BY <1>2, <1>3, <1>4

\* A free slot is taken only for a key that no slot holds.
LEMMA InsertTables ==
    ASSUME ControlType, CallType, TableInv, ScanInv, NEW p \in Processes, Insert(p)
    PROVE  TableInv'
<1> DEFINE op == call[p]
           i == slot[p]
           new == [key |-> op.key, data |-> op.data]
<1>1. op \in Operations
  BY DEF Insert, Writing, CallType
<1>2. /\ i \in Slots /\ Table(op)[i] = Unknown /\ op.kind \in {"offer", "register"}
      /\ Holding(Table(op), op.key) = {}
  <2>1. /\ i \in Slots /\ i # 0 /\ Table(op)[i] = Unknown /\ op.kind \in {"offer", "register"}
        /\ i = SlotToUpdate(Table(op), op.key)
    BY ZeroIsNoSlot DEF Insert, Writing, CallType, ScanInv
  <2>2. i \notin Holding(Table(op), op.key)
    BY <2>1 DEF Holding
  <2> QED
    BY <2>1, <2>2, SlotFound
<1>3. CASE UNCHANGED <<services, instances>>
  BY <1>3 DEF TableInv, TableType, OneEntryPerKey, Unique
<1>4. CASE op.kind = "offer" /\ SetEntry(op, i, new)
  <2>1. Table(op) = services
    BY <1>4 DEF Table
  <2>2. new \in [key : ServiceKeys, data : ServiceMetadata] /\ new.key = op.key
    BY <1>1, <1>4, OperationTypes
  <2>3. services' = [services EXCEPT ![i] = new] /\ instances' = instances
    BY <1>4 DEF SetEntry
  <2> HIDE DEF new, op, i
  <2>4. TableType'
    BY <1>2, <2>2, <2>3, PutEntry DEF TableInv, TableType
  <2>5. Unique(services)'
    BY <1>2, <2>1, <2>2, <2>3, StaysUnique DEF TableInv, TableType, OneEntryPerKey, Unique
  <2>6. Unique(instances)'
    BY <2>3 DEF TableInv, OneEntryPerKey, Unique
  <2> QED
    BY <2>4, <2>5, <2>6 DEF TableInv, OneEntryPerKey
<1>5. CASE op.kind = "register" /\ SetEntry(op, i, new)
  <2>1. Table(op) = instances
    BY <1>5 DEF Table
  <2>2. new \in [key : Specifiers, data : InstanceMapping] /\ new.key = op.key
    BY <1>1, <1>5, OperationTypes
  <2>3. instances' = [instances EXCEPT ![i] = new] /\ services' = services
    BY <1>5 DEF SetEntry
  <2> HIDE DEF new, op, i
  <2>4. TableType'
    BY <1>2, <2>2, <2>3, PutEntry DEF TableInv, TableType
  <2>5. Unique(instances)'
    BY <1>2, <2>1, <2>2, <2>3, StaysUnique DEF TableInv, TableType, OneEntryPerKey, Unique
  <2>6. Unique(services)'
    BY <2>3 DEF TableInv, OneEntryPerKey, Unique
  <2> QED
    BY <2>4, <2>5, <2>6 DEF TableInv, OneEntryPerKey
<1> QED
  BY <1>2, <1>3, <1>4, <1>5 DEF Insert

LEMMA StopTables ==
    ASSUME ControlType, CallType, TableInv, NEW p \in Processes, StopOffer(p)
    PROVE  TableInv'
<1>1. CASE UNCHANGED <<services, instances>>
  BY <1>1 DEF TableInv, TableType, OneEntryPerKey, Unique
<1>2. CASE SetEntry(call[p], slot[p], Unknown) /\ slot[p] # 0
  <2>1. services' = [services EXCEPT ![slot[p]] = Unknown] /\ instances' = instances
    BY <1>2 DEF StopOffer, SetEntry
  <2>2. slot[p] \in Slots
    BY <1>2 DEF CallType
  <2>3. TableType'
    BY <2>1, <2>2, PutEntry DEF TableInv, TableType
  <2>4. Unique(services)'
    BY <2>1, <2>2, StaysUnique DEF TableInv, TableType, OneEntryPerKey, Unique
  <2>5. Unique(instances)'
    BY <2>1 DEF TableInv, OneEntryPerKey, Unique
  <2> QED
    BY <2>3, <2>4, <2>5 DEF TableInv, OneEntryPerKey
<1> QED
  BY <1>1, <1>2 DEF StopOffer

\* Clearing the region leaves two empty tables.
LEMMA EmptyTables == services' = EmptyTable /\ instances' = EmptyTable => TableInv'
BY DEF EmptyTable, TableInv, TableType, Tables, OneEntryPerKey, Unique

LEMMA TableStep ==
    ASSUME ControlType, CallType, TableInv, ScanInv, Next
    PROVE  TableInv'
<1>1. UNCHANGED <<services, instances>> => TableInv'
  BY DEF TableInv, TableType, OneEntryPerKey, Unique
<1>2. ASSUME NEW p \in Processes, Reset(p) PROVE TableInv'
  BY <1>2, EmptyTables DEF Reset
<1>3. ASSUME NEW p \in Processes, WriteStep(p) PROVE TableInv'
  BY <1>1, <1>3, OverwriteTables, InsertTables, StopTables
     DEF WriteStep, TableFull, Release, region
<1>4. ASSUME NEW p \in Processes,
             \/ Acquire(p) \/ Crash(p) \/ ScanStep(p)
             \/ Refused(p) \/ OpenInUse(p) \/ OpenFresh(p)
      PROVE  TableInv'
  BY <1>1, <1>4 DEF Acquire, OpenAcquire, OpAcquire, Crash, ScanStep, ScanToUpdate, ScanToStop,
     Find, Resolve, Refused, OpenInUse, OpenFresh, region
<1>5. ASSUME NEW p \in Processes, NEW op \in Operations, Begin(p, op) PROVE TableInv'
  BY <1>1, <1>5 DEF Begin, region
<1> QED
  BY <1>2, <1>3, <1>4, <1>5 DEF Next, Step, OpenStep

-----------------------------------------------------------------------------
(* What processes in the section know *)

KnowledgeInv == ScanInv /\ ResetInv /\ AnswerInv

\* A step that leaves the region alone disturbs only what the process that takes it
\* knows.
LEMMA QuietStep ==
    ASSUME ControlType, CallType, KnowledgeInv, NEW p \in Processes,
           UNCHANGED region,
           pc' \in [Processes -> Labels],
           \A q \in Processes : q # p =>
                /\ pc'[q] = pc[q] /\ call'[q] = call[q]
                /\ slot'[q] = slot[q] /\ answer'[q] = answer[q],
           pc'[p] = "write" =>
                /\ call'[p] = call[p] /\ call[p].kind \in {"offer", "register", "stop"}
                /\ call[p].kind \in {"offer", "register"} =>
                      slot'[p] = SlotToUpdate(Table(call[p]), call[p].key)
                /\ call[p].kind = "stop" =>
                      slot'[p] = First(Holding(services, call[p].key)),
           pc'[p] = "reset" => ~magic,
           pc'[p] \in {"op_wait", "scan", "write", "release"} => magic,
           pc'[p] # "idle" => (answer'[p] = Nothing <=> pc'[p] # "release")
    PROVE  KnowledgeInv'
<1>1. ScanInv'
  BY DEF KnowledgeInv, ScanInv, Table, region
<1>2. ResetInv'
  BY DEF KnowledgeInv, ResetInv, region
<1>3. AnswerInv'
  BY DEF KnowledgeInv, AnswerInv
<1> QED
  BY <1>1, <1>2, <1>3 DEF KnowledgeInv

\* A step in the section changes the region while no other process is there.
LEMMA LoneStep ==
    ASSUME ControlInv, CallType, KnowledgeInv, NEW p \in Processes,
           pc[p] \in Section, magic',
           UNCHANGED call,
           pc' \in [Processes -> Labels],
           \A q \in Processes : q # p => pc'[q] = pc[q] /\ answer'[q] = answer[q],
           pc'[p] \in {"op_wait", "release"},
           answer'[p] = Nothing <=> pc'[p] # "release"
    PROVE  KnowledgeInv'
<1>1. \A q \in Processes : pc'[q] \notin {"write", "reset"}
  BY DEF ControlInv, ControlType, OneInSection, Section
<1>2. AnswerInv'
  BY DEF KnowledgeInv, AnswerInv
<1> QED
  BY <1>1, <1>2 DEF KnowledgeInv, ScanInv, ResetInv

LEMMA KnowledgeStep ==
    ASSUME ControlInv, ControlInv', CallType, TableInv, KnowledgeInv, Next
    PROVE  KnowledgeInv'
<1> USE DEF ControlInv, ControlType, CallType
<1>a. /\ Nothing \notin Operations /\ Nothing \notin Answers
      /\ \A status \in Statuses : Status(status) # Nothing
  BY AnswerTypes, RegistryAssumption
<1>1. ASSUME NEW p \in Processes, NEW op \in Operations, Begin(p, op) PROVE KnowledgeInv'
  BY <1>1, QuietStep DEF Begin, Answer
<1>2. ASSUME NEW p \in Processes, Refused(p) PROVE KnowledgeInv'
  BY <1>2, QuietStep DEF Refused, Answer
<1>3. ASSUME NEW p \in Processes, OpenInUse(p) PROVE KnowledgeInv'
  BY <1>3, QuietStep DEF OpenInUse, callVars, KnowledgeInv, AnswerInv
<1>4. ASSUME NEW p \in Processes, OpenFresh(p) PROVE KnowledgeInv'
  BY <1>4, QuietStep DEF OpenFresh, callVars, KnowledgeInv, AnswerInv
<1>5. ASSUME NEW p \in Processes, Reset(p) PROVE KnowledgeInv'
  BY <1>5, LoneStep DEF Reset, callVars, KnowledgeInv, AnswerInv, Section
<1>6. ASSUME NEW p \in Processes, Acquire(p) PROVE KnowledgeInv'
  BY <1>6, QuietStep DEF Acquire, OpenAcquire, OpAcquire, callVars, KnowledgeInv, AnswerInv,
     ResetInv
<1>7. ASSUME NEW p \in Processes, ScanToUpdate(p) \/ ScanToStop(p) PROVE KnowledgeInv'
  BY <1>7, QuietStep, SlotsFound DEF ScanToUpdate, ScanToStop, Table, KnowledgeInv, AnswerInv,
     ResetInv
<1>8. ASSUME NEW p \in Processes, Find(p) \/ Resolve(p) PROVE KnowledgeInv'
  <2>1. answer'[p] \in Answers
    <3>1. CASE Find(p)
      <4>1. answer'[p] = Found({services[i].data : i \in Holding(services, call[p].key)})
        BY <3>1 DEF Find, Answer
      <4>2. {services[i].data : i \in Holding(services, call[p].key)} \in SUBSET ServiceMetadata
        BY DEF TableInv, TableType, Tables, Holding
      <4> QED
        BY <4>1, <4>2, AnswerTypes
    <3>2. CASE Resolve(p)
      <4>1. \/ answer'[p] = Status("kInstanceIDNotResolvable")
            \/ answer'[p] =
                 Found({instances[i].data.instance : i \in Holding(instances, call[p].key)})
        BY <3>2 DEF Resolve, Answer
      <4>2. {instances[i].data.instance : i \in Holding(instances, call[p].key)}
                \in SUBSET Instances
        BY DEF TableInv, TableType, Tables, Holding, InstanceMapping
      <4> QED
        BY <4>1, <4>2, AnswerTypes DEF Statuses
    <3> QED
      BY <1>8, <3>1, <3>2
  <2> QED
    BY <1>8, <2>1, <1>a, QuietStep DEF Find, Resolve, Answer, KnowledgeInv, AnswerInv, ResetInv
<1>9. ASSUME NEW p \in Processes, WriteStep(p), ~ Release(p) PROVE KnowledgeInv'
  <2>1. Writing(p)
    BY <1>9 DEF WriteStep, Overwrite, Insert, TableFull, StopOffer
  <2>2. \E status \in Statuses : Answer(p, Status(status))
    BY <1>9 DEF WriteStep, Overwrite, Insert, TableFull, StopOffer, Statuses
  <2>3. answer'[p] # Nothing /\ \A q \in Processes : q # p => answer'[q] = answer[q]
    BY <1>a, <2>2 DEF Answer
  <2>4. magic
    BY <2>1 DEF Writing, KnowledgeInv, ResetInv
  <2> QED
    BY <2>1, <2>3, <2>4, LoneStep DEF Writing, Section
<1>10. ASSUME NEW p \in Processes, Release(p) PROVE KnowledgeInv'
  BY <1>10, QuietStep DEF Release
<1>11. ASSUME NEW p \in Processes, Crash(p) PROVE KnowledgeInv'
  BY <1>11, QuietStep DEF Crash, Answer
<1> QED
  BY <1>1, <1>2, <1>3, <1>4, <1>5, <1>6, <1>7, <1>8, <1>9, <1>10, <1>11
     DEF Next, Step, OpenStep, ScanStep, WriteStep

-----------------------------------------------------------------------------
(* Theorems *)

LEMMA InvParts == IInv <=> ControlInv /\ CallType /\ TableInv /\ KnowledgeInv
BY TypeParts DEF IInv, ControlInv, TableInv, KnowledgeInv

LEMMA InvInit == Init => IInv
<1> SUFFICES ASSUME Init PROVE IInv
  OBVIOUS
<1>1. ControlInv
  BY RegistryAssumption DEF Init, SemInit, ControlInv, ControlType, OneInSection, Labels, Section
<1>2. CallType
  BY DEF Init, CallType
<1>3. TableInv
  BY DEF Init, EmptyTable, TableInv, TableType, Tables, OneEntryPerKey, Unique
<1>4. KnowledgeInv
  BY DEF Init, KnowledgeInv, ScanInv, ResetInv, AnswerInv
<1> QED
  BY <1>1, <1>2, <1>3, <1>4, InvParts

LEMMA InvStep == IInv /\ [Next]_vars => IInv'
<1> SUFFICES ASSUME IInv, [Next]_vars PROVE IInv'
  OBVIOUS
<1>1. ControlInv /\ CallType /\ TableInv /\ KnowledgeInv
  BY InvParts
<1>2. ControlInv'
  BY <1>1, ControlStep
<1>p. ControlInv' /\ CallType' /\ TableInv' /\ KnowledgeInv' => IInv'
  BY InvParts, PTL
<1>3. CASE UNCHANGED vars
  <2>1. CallType' /\ TableInv'
    BY ONLY <1>1, <1>3 DEF vars, region, callVars, CallType, TableInv, TableType, OneEntryPerKey,
       Unique
  <2>2. KnowledgeInv'
    BY <1>1, <1>3 DEF vars, region, callVars, KnowledgeInv, ScanInv, Table, ResetInv, AnswerInv
  <2> QED
    BY <1>2, <1>p, <2>1, <2>2
<1>4. CASE Next
  <2>1. CallType'
    BY ONLY <1>1, <1>4, CallStep DEF ControlInv, TableInv
  <2>2. TableInv'
    BY ONLY <1>1, <1>4, TableStep DEF ControlInv, KnowledgeInv
  <2>3. KnowledgeInv'
    BY ONLY <1>1, <1>2, <1>4, KnowledgeStep
  <2> QED
    BY <1>2, <1>p, <2>1, <2>2, <2>3
<1> QED
  BY <1>3, <1>4

\* The inductive invariant holds in every reachable state.
THEOREM Invariance == Spec => []IInv
BY InvInit, InvStep, PTL DEF Spec

\* The state of the registry stays within its types.
THEOREM TypeCorrect == Spec => []TypeOK
<1>1. IInv => TypeOK
  BY DEF IInv
<1> QED
  BY <1>1, Invariance, PTL

\* However many processes offer and stop the same service at the same time, the
\* table never lists it twice.
THEOREM NoDoubleEntry == Spec => []OneEntryPerKey
<1>1. IInv => OneEntryPerKey
  BY DEF IInv
<1> QED
  BY <1>1, Invariance, PTL
-----------------------------------------------------------------------------
(* The directory that the tables show *)

\* Entries are never mistaken for free slots, nor their data for the absence of a key.
Readable(keys, data) ==
    Unknown \notin data /\ Unknown \notin [key : keys, data : data]

LEMMA BothReadable ==
    Readable(ServiceKeys, ServiceMetadata) /\ Readable(Specifiers, InstanceMapping)
BY RegistryAssumption DEF Readable

\* In a table with one entry per key, an entry is what the directory says of its key.
LEMMA EntryOfSlot ==
    ASSUME NEW table, Unique(table), NEW i \in Slots, table[i] # Unknown
    PROVE  Holding(table, table[i].key) = {i} /\ Entry(table, table[i].key) = table[i].data
<1>1. Holding(table, table[i].key) = {i}
  BY DEF Unique, Holding
<1>2. First(Holding(table, table[i].key)) \in Holding(table, table[i].key)
  BY <1>1, FirstInSet DEF Holding
<1> QED
  BY <1>1, <1>2 DEF Entry

\* The directory knows the keys that some slot holds.
LEMMA KnownIsHeld ==
    ASSUME NEW K, NEW D, Readable(K, D), NEW table \in Tables(K, D), NEW k \in K
    PROVE  /\ Entry(table, k) # Unknown <=> Holding(table, k) # {}
           /\ Holding(table, k) # {} => Entry(table, k) \in D
<1>1. CASE Holding(table, k) = {}
  BY <1>1 DEF Entry
<1>2. CASE Holding(table, k) # {}
  <2>1. First(Holding(table, k)) \in Holding(table, k)
    BY <1>2, FirstInSet DEF Holding
  <2>2. Entry(table, k) \in D
    BY <1>2, <2>1 DEF Entry, Holding, Tables
  <2> QED
    BY <1>2, <2>2 DEF Readable
<1> QED
  BY <1>1, <1>2

\* Writing an entry for a key that no other slot holds changes what the directory says
\* of that key, and nothing else.
LEMMA ViewOfPut ==
    ASSUME NEW K, NEW D, Readable(K, D), NEW table \in Tables(K, D), Unique(table),
           NEW i \in Slots, NEW e \in [key : K, data : D],
           Holding(table, e.key) \subseteq {i}, table[i] = Unknown \/ table[i].key = e.key
    PROVE  View(K, [table EXCEPT ![i] = e]) = [View(K, table) EXCEPT ![e.key] = e.data]
<1> DEFINE new == [table EXCEPT ![i] = e]
<1>1. new[i] = e /\ e # Unknown /\ \A j \in Slots : j # i => new[j] = table[j]
  BY DEF Tables, Readable
<1>2. Unique(new)
  BY <1>1 DEF Unique, Holding
<1> HIDE DEF new
<1>3. Entry(new, e.key) = e.data
  BY <1>1, <1>2, EntryOfSlot
<1>4. ASSUME NEW k \in K, k # e.key PROVE Entry(new, k) = Entry(table, k)
  <2>1. Holding(new, k) = Holding(table, k) /\ i \notin Holding(table, k)
    BY <1>1, <1>4 DEF Holding
  <2>2. Holding(table, k) # {} =>
            First(Holding(table, k)) \in Slots /\ First(Holding(table, k)) # i
    BY <2>1, FirstInSet DEF Holding
  <2> QED
    BY <1>1, <2>1, <2>2 DEF Entry
<1>5. View(K, new) = [View(K, table) EXCEPT ![e.key] = e.data]
  BY <1>3, <1>4 DEF View
<1> QED
  BY <1>5 DEF new

\* Emptying a slot makes the directory forget its key.
LEMMA ViewOfRemove ==
    ASSUME NEW K, NEW D, Readable(K, D), NEW table \in Tables(K, D), Unique(table),
           NEW i \in Slots, table[i] # Unknown
    PROVE  View(K, [table EXCEPT ![i] = Unknown])
               = [View(K, table) EXCEPT ![table[i].key] = Unknown]
<1> DEFINE new == [table EXCEPT ![i] = Unknown]
           key == table[i].key
<1>1. new[i] = Unknown /\ \A j \in Slots : j # i => new[j] = table[j]
  BY DEF Tables
<1>2. Entry(new, key) = Unknown
  <2>1. Holding(table, key) = {i}
    BY EntryOfSlot
  <2>2. Holding(new, key) = {}
    BY <1>1, <2>1 DEF Holding
  <2> QED
    BY <2>2 DEF Entry
<1>3. ASSUME NEW k \in K, k # key PROVE Entry(new, k) = Entry(table, k)
  <2>1. Holding(new, k) = Holding(table, k) /\ i \notin Holding(table, k)
    BY <1>1, <1>3 DEF Holding
  <2>2. Holding(table, k) # {} =>
            First(Holding(table, k)) \in Slots /\ First(Holding(table, k)) # i
    BY <2>1, FirstInSet DEF Holding
  <2> HIDE DEF new, key
  <2> QED
    BY <1>1, <2>1, <2>2 DEF Entry
<1> HIDE DEF new, key
<1>4. View(K, new) = [View(K, table) EXCEPT ![key] = Unknown]
  BY <1>2, <1>3 DEF View
<1> QED
  BY <1>4 DEF new, key

\* There is room in the directory exactly when the table has a free slot: in a table with
\* one entry per key, used slots and known keys are equally many.
LEMMA RoomIsFreeSlot ==
    ASSUME NEW K, NEW D, Readable(K, D), NEW table \in Tables(K, D), Unique(table)
    PROVE  Directory!Room(View(K, table)) <=> Free(table) # {}
<1> DEFINE used == Slots \ Free(table)
           known == {k \in K : View(K, table)[k] # Unknown}
           keyOf == [i \in used |-> table[i].key]
<1>1. IsFiniteSet(Slots) /\ Cardinality(Slots) = kMaxRegistryEntries
  BY RegistryAssumption, FS_Interval DEF Slots
<1>2. Free(table) \in SUBSET Slots
  BY DEF Free
<1>3. IsFiniteSet(used) /\ used \in SUBSET Slots
  BY <1>1, FS_Subset
<1>4. keyOf \in Bijection(used, known)
  <2>1. \A i \in used : table[i] # Unknown /\ table[i] \in [key : K, data : D]
    BY DEF Tables, Free
  <2>2. \A i \in used : keyOf[i] \in known
    <3> SUFFICES ASSUME NEW i \in used PROVE table[i].key \in known
      OBVIOUS
    <3>1. table[i].key \in K /\ table[i].data \in D
      BY <2>1
    <3>2. Entry(table, table[i].key) = table[i].data
      BY <2>1, EntryOfSlot
    <3> QED
      BY <3>1, <3>2 DEF View, Readable
  <2>3. \A i, j \in used : keyOf[i] = keyOf[j] => i = j
    BY <2>1 DEF Unique
  <2>4. \A k \in known : \E i \in used : keyOf[i] = k
    <3> SUFFICES ASSUME NEW k \in known PROVE \E i \in used : table[i].key = k
      OBVIOUS
    <3>1. Holding(table, k) # {}
      BY KnownIsHeld DEF View
    <3> QED
      BY <3>1 DEF Holding, Free
  <2> HIDE DEF used, known
  <2>5. keyOf \in [used -> known]
    BY <2>2
  <2> HIDE DEF keyOf
  <2> QED
    BY <2>3, <2>4, <2>5 DEF Bijection, Injection, Surjection, IsInjective
<1>5. Cardinality(known) = Cardinality(used)
  BY <1>3, <1>4, FS_Bijection DEF ExistsBijection
<1>6. /\ Cardinality(used) <= Cardinality(Slots)
      /\ Cardinality(Slots) = Cardinality(used) => Slots = used
  BY <1>1, <1>3, FS_Subset
<1>7. Cardinality(used) \in Nat
  BY <1>3, FS_CardinalityType
<1>8. Cardinality(used) < kMaxRegistryEntries <=> Slots # used
  BY <1>1, <1>6, <1>7, RegistryAssumption
<1>9. Slots # used <=> Free(table) # {}
  BY <1>2
<1>10. Directory!Known(View(K, table)) = known
  BY DEF Directory!Known, View
<1>11. Directory!Cardinality(known) = Cardinality(known)
  BY DEF Directory!Cardinality, Cardinality
<1> HIDE DEF used, known
<1> QED
  BY <1>5, <1>8, <1>9, <1>10, <1>11 DEF Directory!Room

-----------------------------------------------------------------------------
(* The directory's steps *)

LEMMA DirectoryInit == Init => Directory!Init
<1>1. \A k : Entry(EmptyTable, k) = Unknown
  BY DEF Entry, Holding, EmptyTable
<1> QED
  BY <1>1 DEF Init, View, Directory!Init

\* What is known of the operation of a process that scans or writes.
Working(p) ==
    /\ p \in Processes
    /\ call[p] \in Operations
    /\ call[p] # Nothing /\ answer[p] = Nothing

LEMMA WhoWorks ==
    ASSUME IInv, NEW p \in Processes, pc[p] \notin {"idle", "release"}
    PROVE  Working(p)
BY RegistryAssumption DEF Working, IInv, TypeOK, AnswerInv

\* An update that finds its key overwrites the entry the directory shows.
LEMMA OverwrittenEntry ==
    ASSUME IInv, NEW p \in Processes, Overwrite(p)
    PROVE  /\ slot[p] \in Slots
           /\ Table(call[p])[slot[p]] # Unknown
           /\ Table(call[p])[slot[p]].key = call[p].key
<1>1. /\ slot[p] \in Slots /\ Table(call[p])[slot[p]] # Unknown
      /\ slot[p] = SlotToUpdate(Table(call[p]), call[p].key)
  BY DEF Overwrite, Writing, IInv, TypeOK, ScanInv
<1>2. slot[p] \in Holding(Table(call[p]), call[p].key)
  BY <1>1, SlotFound, ZeroIsNoSlot DEF Free
<1> QED
  BY <1>1, <1>2 DEF Holding

\* New data for an entry are new data for its key.
LEMMA ViewOfOverwrite ==
    ASSUME NEW K, NEW D, Readable(K, D), NEW table \in Tables(K, D), Unique(table),
           NEW i \in Slots, table[i] # Unknown, NEW d \in D
    PROVE  View(K, [table EXCEPT ![i] = [table[i] EXCEPT !.data = d]])
               = [View(K, table) EXCEPT ![table[i].key] = d]
<1> DEFINE new == [table[i] EXCEPT !.data = d]
<1>1. table[i] \in [key : K, data : D]
  BY DEF Tables
<1>2. new \in [key : K, data : D] /\ new.key = table[i].key /\ new.data = d
  BY <1>1
<1>3. Holding(table, table[i].key) = {i}
  BY EntryOfSlot
<1> HIDE DEF new
<1>4. View(K, [table EXCEPT ![i] = new]) = [View(K, table) EXCEPT ![new.key] = new.data]
  BY <1>2, <1>3, ViewOfPut
<1> QED
  BY <1>2, <1>4 DEF new

\* The operations of the directory answer as those of the registry do.
LEMMA SameAnswers ==
    ASSUME NEW p, NEW status, Answer(p, Status(status))
    PROVE  Directory!Answer(p, Directory!Status(status))
BY DEF Answer, Directory!Answer, Status, Directory!Status

LEMMA SameFits == \A x : Fits(x) <=> Directory!Fits(x)
BY DEF Fits, Directory!Fits

LEMMA TablesOfInv ==
    ASSUME IInv
    PROVE  /\ services \in Tables(ServiceKeys, ServiceMetadata) /\ Unique(services)
           /\ Readable(ServiceKeys, ServiceMetadata)
           /\ instances \in Tables(Specifiers, InstanceMapping) /\ Unique(instances)
           /\ Readable(Specifiers, InstanceMapping)
BY BothReadable DEF IInv, TypeOK, OneEntryPerKey

\* What an operation of each kind works on.
LEMMA OfferTypes ==
    ASSUME IInv, NEW p \in Processes, pc[p] \notin {"idle", "release"}, call[p].kind = "offer"
    PROVE  /\ call[p] \in Operations
           /\ call[p].key \in ServiceKeys /\ call[p].data \in ServiceMetadata
           /\ Table(call[p]) = services
BY WhoWorks, OperationTypes DEF Working, Table

LEMMA RegisterTypes ==
    ASSUME IInv, NEW p \in Processes, pc[p] \notin {"idle", "release"},
           call[p].kind = "register"
    PROVE  /\ call[p] \in Operations
           /\ call[p].key \in Specifiers /\ call[p].data \in InstanceMapping
           /\ Table(call[p]) = instances
BY WhoWorks, OperationTypes DEF Working, Table

LEMMA OverwriteOffer ==
    ASSUME IInv, NEW p \in Processes, Overwrite(p), call[p].kind = "offer"
    PROVE  Directory!Offer(p, call[p].key, call[p].data) /\ UNCHANGED instances
<1> DEFINE op == call[p]
           i == slot[p]
           entry == services[i]
           offers == View(ServiceKeys, services)
<1>1. /\ op \in Operations /\ op.key \in ServiceKeys /\ op.data \in ServiceMetadata
      /\ Table(op) = services
  BY OfferTypes DEF Overwrite, Writing
<1>2. i \in Slots /\ entry # Unknown /\ entry.key = op.key
  BY <1>1, OverwrittenEntry
<1>3. /\ Entry(services, op.key) = entry.data /\ Holding(services, op.key) # {}
      /\ entry.data \in ServiceMetadata
  BY <1>2, TablesOfInv, EntryOfSlot DEF Tables
<1>4. op.key \in Directory!Known(offers)
  BY <1>1, <1>3, TablesOfInv, KnownIsHeld DEF Directory!Known, View
<1>5. \A d \in ServiceMetadata :
        SetEntry(op, i, [entry EXCEPT !.data = d]) =>
            offers' = [offers EXCEPT ![op.key] = d] /\ instances' = instances
  <2> SUFFICES ASSUME NEW d \in ServiceMetadata, SetEntry(op, i, [entry EXCEPT !.data = d])
               PROVE  offers' = [offers EXCEPT ![op.key] = d] /\ instances' = instances
    OBVIOUS
  <2>1. services' = [services EXCEPT ![i] = [entry EXCEPT !.data = d]] /\ instances' = instances
    BY DEF SetEntry
  <2>2. View(ServiceKeys, services)' = View(ServiceKeys, services')
    OBVIOUS
  <2>3. View(ServiceKeys, [services EXCEPT ![i] = [entry EXCEPT !.data = d]])
            = [offers EXCEPT ![entry.key] = d]
    BY <1>2, TablesOfInv, ViewOfOverwrite
  <2> QED
    BY <1>2, <2>1, <2>2, <2>3
<1>6. CASE DataFits(op)
  <2>1. offers' = [offers EXCEPT ![op.key] = op.data] /\ instances' = instances
        /\ Answer(p, Status("ok"))
    BY <1>1, <1>5, <1>6 DEF Overwrite
  <2>2. Directory!Fits(op.data.endpoint)
    BY <1>6, SameFits DEF DataFits
  <2> QED
    BY <1>4, <2>1, <2>2, SameAnswers DEF Directory!Offer
<1>7. CASE ~DataFits(op)
  <2> DEFINE d == PartlyOverwritten(entry.data, op)
  <2>1. d \in ServiceMetadata
    BY <1>1, <1>3, PartlyOverwrittenType
  <2>2. offers' = [offers EXCEPT ![op.key] = d] /\ instances' = instances
        /\ Answer(p, Status("kCommunicationFailure"))
    BY <1>1, <1>5, <1>7, <2>1 DEF Overwrite
  <2>3. d = [offers[op.key] EXCEPT !.binding_type = op.data.binding_type]
    BY <1>1, <1>3 DEF PartlyOverwritten, View
  <2>4. offers' = [offers EXCEPT ![op.key].binding_type = op.data.binding_type]
    BY <2>2, <2>3
  <2>5. ~Directory!Fits(op.data.endpoint)
    BY <1>7, SameFits DEF DataFits
  <2> QED
    BY <1>4, <2>2, <2>4, <2>5, SameAnswers DEF Directory!Offer
<1> QED
  BY <1>6, <1>7

LEMMA OverwriteMapping ==
    ASSUME IInv, NEW p \in Processes, Overwrite(p), call[p].kind = "register"
    PROVE  Directory!Register(p, call[p].key, call[p].data) /\ UNCHANGED services
<1> DEFINE op == call[p]
           i == slot[p]
           entry == instances[i]
           mappings == View(Specifiers, instances)
<1>1. /\ op \in Operations /\ op.key \in Specifiers /\ op.data \in InstanceMapping
      /\ Table(op) = instances
  BY RegisterTypes DEF Overwrite, Writing
<1>2. i \in Slots /\ entry # Unknown /\ entry.key = op.key
  BY <1>1, OverwrittenEntry
<1>3. /\ Entry(instances, op.key) = entry.data /\ Holding(instances, op.key) # {}
      /\ entry.data \in InstanceMapping
  BY <1>2, TablesOfInv, EntryOfSlot DEF Tables
<1>4. op.key \in Directory!Known(mappings)
  BY <1>1, <1>3, TablesOfInv, KnownIsHeld DEF Directory!Known, View
<1>5. \A d \in InstanceMapping :
        SetEntry(op, i, [entry EXCEPT !.data = d]) =>
            mappings' = [mappings EXCEPT ![op.key] = d] /\ services' = services
  <2> SUFFICES ASSUME NEW d \in InstanceMapping, SetEntry(op, i, [entry EXCEPT !.data = d])
               PROVE  mappings' = [mappings EXCEPT ![op.key] = d] /\ services' = services
    OBVIOUS
  <2>1. instances' = [instances EXCEPT ![i] = [entry EXCEPT !.data = d]] /\ services' = services
    BY DEF SetEntry
  <2>2. View(Specifiers, instances)' = View(Specifiers, instances')
    OBVIOUS
  <2>3. View(Specifiers, [instances EXCEPT ![i] = [entry EXCEPT !.data = d]])
            = [mappings EXCEPT ![entry.key] = d]
    BY <1>2, TablesOfInv, ViewOfOverwrite
  <2> QED
    BY <1>2, <2>1, <2>2, <2>3
<1>6. CASE DataFits(op)
  <2>1. mappings' = [mappings EXCEPT ![op.key] = op.data] /\ services' = services
        /\ Answer(p, Status("ok"))
    BY <1>1, <1>5, <1>6 DEF Overwrite
  <2>2. Directory!Fits(op.data.endpoint) /\ Directory!Fits(op.data.instance)
    BY <1>6, SameFits DEF DataFits
  <2> QED
    BY <1>4, <2>1, <2>2, SameAnswers DEF Directory!Register
<1>7. CASE ~DataFits(op)
  <2> DEFINE d == PartlyOverwritten(entry.data, op)
  <2>1. d \in InstanceMapping
    BY <1>1, <1>3, PartlyOverwrittenType
  <2>2. mappings' = [mappings EXCEPT ![op.key] = d] /\ services' = services
        /\ Answer(p, Status("kCommunicationFailure"))
    BY <1>1, <1>5, <1>7, <2>1 DEF Overwrite
  <2>3. mappings[op.key] = entry.data
    BY <1>1, <1>3 DEF View
  <2>4. d = [entry.data EXCEPT
                !.binding_type = op.data.binding_type,
                !.instance = IF Directory!Fits(op.data.instance) THEN op.data.instance ELSE @]
    BY <1>3, SameFits DEF PartlyOverwritten, InstanceMapping
  <2>5. mappings' = [mappings EXCEPT
            ![op.key].binding_type = op.data.binding_type,
            ![op.key].instance = IF Directory!Fits(op.data.instance) THEN op.data.instance ELSE @]
    BY <1>1, <2>2, <2>3, <2>4 DEF View
  <2>6. ~Directory!Fits(op.data.instance) \/ ~Directory!Fits(op.data.endpoint)
    BY <1>7, SameFits DEF DataFits
  <2> QED
    BY <1>4, <2>2, <2>5, <2>6, SameAnswers DEF Directory!Register
<1> QED
  BY <1>6, <1>7

\* An update that finds no entry of its key finds a free slot, if there is one.
LEMMA UnheldKey ==
    ASSUME IInv, NEW p \in Processes, pc[p] = "write",
           call[p].kind \in {"offer", "register"},
           slot[p] = 0 \/ Table(call[p])[slot[p]] = Unknown
    PROVE  /\ Holding(Table(call[p]), call[p].key) = {}
           /\ slot[p] # 0 => slot[p] \in Free(Table(call[p]))
           /\ slot[p] = 0 => Free(Table(call[p])) = {}
<1>1. slot[p] = SlotToUpdate(Table(call[p]), call[p].key)
  BY DEF IInv, ScanInv
<1>2. slot[p] \notin Holding(Table(call[p]), call[p].key)
  BY ZeroIsNoSlot DEF Holding
<1> QED
  BY <1>1, <1>2, SlotFound, ZeroIsNoSlot DEF Free

\* A new entry is a new key of the directory.
LEMMA ViewOfInsert ==
    ASSUME NEW K, NEW D, Readable(K, D), NEW table \in Tables(K, D), Unique(table),
           NEW i \in Slots, table[i] = Unknown, NEW k \in K, NEW d \in D,
           Holding(table, k) = {}
    PROVE  View(K, [table EXCEPT ![i] = [key |-> k, data |-> d]]) = [View(K, table) EXCEPT ![k] = d]
<1> DEFINE e == [key |-> k, data |-> d]
<1>1. e \in [key : K, data : D] /\ e.key = k /\ e.data = d
  OBVIOUS
<1> HIDE DEF e
<1>2. View(K, [table EXCEPT ![i] = e]) = [View(K, table) EXCEPT ![e.key] = e.data]
  BY <1>1, ViewOfPut
<1> QED
  BY <1>1, <1>2 DEF e

LEMMA InsertOffer ==
    ASSUME IInv, NEW p \in Processes, Insert(p), call[p].kind = "offer"
    PROVE  Directory!Offer(p, call[p].key, call[p].data) /\ UNCHANGED instances
<1> DEFINE op == call[p]
           i == slot[p]
           offers == View(ServiceKeys, services)
<1>1. /\ op \in Operations /\ op.key \in ServiceKeys /\ op.data \in ServiceMetadata
      /\ Table(op) = services
  BY OfferTypes DEF Insert, Writing
<1>2. /\ Holding(services, op.key) = {} /\ Free(services) # {}
      /\ i \in Slots /\ services[i] = Unknown
  BY <1>1, UnheldKey DEF Insert, Writing, Free
<1>3. op.key \notin Directory!Known(offers) /\ Directory!Room(offers)
  BY <1>1, <1>2, TablesOfInv, KnownIsHeld, RoomIsFreeSlot DEF Directory!Known, View
<1>4. CASE Fits(op.key) /\ DataFits(op)
  <2>1. /\ services' = [services EXCEPT ![i] = [key |-> op.key, data |-> op.data]]
        /\ instances' = instances /\ Answer(p, Status("ok"))
    BY <1>4 DEF Insert, SetEntry
  <2>2. View(ServiceKeys, services)' = View(ServiceKeys, services')
    OBVIOUS
  <2>3. View(ServiceKeys, [services EXCEPT ![i] = [key |-> op.key, data |-> op.data]])
            = [offers EXCEPT ![op.key] = op.data]
    BY <1>1, <1>2, TablesOfInv, ViewOfInsert
  <2>4. offers' = [offers EXCEPT ![op.key] = op.data]
    BY <2>1, <2>2, <2>3
  <2>5. Directory!Fits(op.key) /\ Directory!Fits(op.data.endpoint)
    BY <1>4, SameFits DEF DataFits
  <2> QED
    BY <1>3, <2>1, <2>4, <2>5, SameAnswers DEF Directory!Offer
<1>5. CASE ~(Fits(op.key) /\ DataFits(op))
  <2>1. services' = services /\ instances' = instances /\ Answer(p, Status("kCommunicationFailure"))
    BY <1>5 DEF Insert
  <2>2. offers' = offers
    BY <2>1
  <2>3. ~Directory!Fits(op.key) \/ ~Directory!Fits(op.data.endpoint)
    BY <1>5, SameFits DEF DataFits
  <2> QED
    BY <1>3, <2>1, <2>2, <2>3, SameAnswers DEF Directory!Offer
<1> QED
  BY <1>4, <1>5

LEMMA InsertMapping ==
    ASSUME IInv, NEW p \in Processes, Insert(p), call[p].kind = "register"
    PROVE  Directory!Register(p, call[p].key, call[p].data) /\ UNCHANGED services
<1> DEFINE op == call[p]
           i == slot[p]
           mappings == View(Specifiers, instances)
<1>1. /\ op \in Operations /\ op.key \in Specifiers /\ op.data \in InstanceMapping
      /\ Table(op) = instances
  BY RegisterTypes DEF Insert, Writing
<1>2. /\ Holding(instances, op.key) = {} /\ Free(instances) # {}
      /\ i \in Slots /\ instances[i] = Unknown
  BY <1>1, UnheldKey DEF Insert, Writing, Free
<1>3. op.key \notin Directory!Known(mappings) /\ Directory!Room(mappings)
  BY <1>1, <1>2, TablesOfInv, KnownIsHeld, RoomIsFreeSlot DEF Directory!Known, View
<1>4. CASE Fits(op.key) /\ DataFits(op)
  <2>1. /\ instances' = [instances EXCEPT ![i] = [key |-> op.key, data |-> op.data]]
        /\ services' = services /\ Answer(p, Status("ok"))
    BY <1>4 DEF Insert, SetEntry
  <2>2. View(Specifiers, instances)' = View(Specifiers, instances')
    OBVIOUS
  <2>3. View(Specifiers, [instances EXCEPT ![i] = [key |-> op.key, data |-> op.data]])
            = [mappings EXCEPT ![op.key] = op.data]
    BY <1>1, <1>2, TablesOfInv, ViewOfInsert
  <2>4. mappings' = [mappings EXCEPT ![op.key] = op.data]
    BY <2>1, <2>2, <2>3
  <2>5. /\ Directory!Fits(op.key) /\ Directory!Fits(op.data.endpoint)
        /\ Directory!Fits(op.data.instance)
    BY <1>4, SameFits DEF DataFits
  <2> QED
    BY <1>3, <2>1, <2>4, <2>5, SameAnswers DEF Directory!Register
<1>5. CASE ~(Fits(op.key) /\ DataFits(op))
  <2>1. services' = services /\ instances' = instances /\ Answer(p, Status("kCommunicationFailure"))
    BY <1>5 DEF Insert
  <2>2. mappings' = mappings
    BY <2>1
  <2>3. \/ ~Directory!Fits(op.key) \/ ~Directory!Fits(op.data.endpoint)
        \/ ~Directory!Fits(op.data.instance)
    BY <1>5, SameFits DEF DataFits
  <2> QED
    BY <1>3, <2>1, <2>2, <2>3, SameAnswers DEF Directory!Register
<1> QED
  BY <1>4, <1>5

LEMMA FullDirectory ==
    ASSUME IInv, NEW p \in Processes, TableFull(p)
    PROVE  /\ UNCHANGED <<services, instances>>
           /\ call[p].kind \in {"offer", "register"}
           /\ call[p].kind = "offer" => Directory!Offer(p, call[p].key, call[p].data)
           /\ call[p].kind = "register" => Directory!Register(p, call[p].key, call[p].data)
<1> DEFINE op == call[p]
           offers == View(ServiceKeys, services)
           mappings == View(Specifiers, instances)
<1>1. /\ services' = services /\ instances' = instances
      /\ Answer(p, Status("kMaxSamplesExceeded"))
      /\ op.kind \in {"offer", "register"}
      /\ pc[p] = "write"
  BY DEF TableFull, Writing
<1>2. offers' = offers /\ mappings' = mappings
  BY <1>1
<1>3. Holding(Table(op), op.key) = {} /\ Free(Table(op)) = {}
  BY UnheldKey DEF TableFull, Writing
<1>4. CASE op.kind = "offer"
  <2>1. op.key \in ServiceKeys /\ Table(op) = services
    BY <1>1, <1>4, OfferTypes
  <2>2. op.key \notin Directory!Known(offers) /\ ~Directory!Room(offers)
    BY <1>3, <2>1, TablesOfInv, KnownIsHeld, RoomIsFreeSlot DEF Directory!Known, View
  <2> QED
    BY <1>1, <1>2, <1>4, <2>2, SameAnswers DEF Directory!Offer
<1>5. CASE op.kind = "register"
  <2>1. op.key \in Specifiers /\ Table(op) = instances
    BY <1>1, <1>5, RegisterTypes
  <2>2. op.key \notin Directory!Known(mappings) /\ ~Directory!Room(mappings)
    BY <1>3, <2>1, TablesOfInv, KnownIsHeld, RoomIsFreeSlot DEF Directory!Known, View
  <2> QED
    BY <1>1, <1>2, <1>5, <2>2, SameAnswers DEF Directory!Register
<1> QED
  BY <1>1, <1>4, <1>5

LEMMA StoppedOffer ==
    ASSUME IInv, NEW p \in Processes, StopOffer(p)
    PROVE  Directory!StopOffer(p, call[p].key) /\ UNCHANGED instances
<1> DEFINE op == call[p]
           i == slot[p]
           offers == View(ServiceKeys, services)
<1>1. op.key \in ServiceKeys /\ op.kind = "stop"
  BY WhoWorks, OperationTypes DEF StopOffer, Writing, Working
<1>2. i = First(Holding(services, op.key))
  BY <1>1 DEF StopOffer, Writing, IInv, ScanInv
<1>3. Holding(services, op.key) \in SUBSET Slots
  BY DEF Holding
<1>4. op.key \in Directory!Known(offers) <=> Holding(services, op.key) # {}
  BY <1>1, TablesOfInv, KnownIsHeld DEF Directory!Known, View
<1>5. CASE i = 0
  <2>1. Holding(services, op.key) = {}
    BY <1>2, <1>3, <1>5, FirstInSet, ZeroIsNoSlot
  <2>2. services' = services /\ instances' = instances /\ Answer(p, Status("kServiceNotOffered"))
    BY <1>5 DEF StopOffer
  <2>3. offers[op.key] = Unknown
    BY <1>1, <2>1 DEF View, Entry
  <2>4. offers' = offers
    BY <2>2
  <2>5. offers' = [offers EXCEPT ![op.key] = Unknown]
    BY <2>3, <2>4 DEF View
  <2> QED
    BY <1>4, <2>1, <2>2, <2>5, SameAnswers DEF Directory!StopOffer
<1>6. CASE i # 0
  <2>1. i \in Holding(services, op.key)
    BY <1>2, <1>3, <1>6, FirstInSet DEF First
  <2>2. i \in Slots /\ services[i] # Unknown /\ services[i].key = op.key
    BY <2>1 DEF Holding
  <2>3. /\ services' = [services EXCEPT ![i] = Unknown] /\ instances' = instances
        /\ Answer(p, Status("ok"))
    BY <1>1, <1>6 DEF StopOffer, SetEntry
  <2>4. View(ServiceKeys, services)' = View(ServiceKeys, services')
    OBVIOUS
  <2>5. View(ServiceKeys, [services EXCEPT ![i] = Unknown])
            = [offers EXCEPT ![services[i].key] = Unknown]
    BY <2>2, TablesOfInv, ViewOfRemove
  <2>6. offers' = [offers EXCEPT ![op.key] = Unknown]
    BY <2>2, <2>3, <2>4, <2>5
  <2> QED
    BY <1>4, <2>1, <2>3, <2>6, SameAnswers DEF Directory!StopOffer
<1> QED
  BY <1>5, <1>6

LEMMA FoundOffer ==
    ASSUME IInv, NEW p \in Processes, Find(p)
    PROVE  Directory!Find(p, call[p].key) /\ UNCHANGED <<services, instances>>
<1> DEFINE key == call[p].key
           offers == View(ServiceKeys, services)
           found == {services[i].data : i \in Holding(services, key)}
<1>1. key \in ServiceKeys
  BY WhoWorks, OperationTypes DEF Find, Working
<1>2. found = {offers[key]} \ {Unknown}
  <2>1. CASE Holding(services, key) = {}
    BY <1>1, <2>1 DEF View, Entry
  <2>2. CASE Holding(services, key) # {}
    <3>1. PICK i \in Slots : services[i] # Unknown /\ services[i].key = key
      BY <2>2 DEF Holding
    <3>2. Holding(services, key) = {i} /\ Entry(services, key) = services[i].data
      BY <3>1, TablesOfInv, EntryOfSlot
    <3>3. Entry(services, key) # Unknown
      BY <1>1, <2>2, TablesOfInv, KnownIsHeld
    <3> QED
      BY <1>1, <3>2, <3>3 DEF View
  <2> QED
    BY <2>1, <2>2
<1>3. Answer(p, Found(found)) /\ services' = services /\ instances' = instances
  BY DEF Find, region
<1>4. Directory!Answer(p, Directory!Found(found))
  BY <1>3 DEF Answer, Directory!Answer, Found, Directory!Found
<1>5. offers' = offers
  BY <1>3
<1> QED
  BY <1>2, <1>3, <1>4, <1>5 DEF Directory!Find

LEMMA ResolvedMapping ==
    ASSUME IInv, NEW p \in Processes, Resolve(p)
    PROVE  Directory!Resolve(p, call[p].key) /\ UNCHANGED <<services, instances>>
<1> DEFINE key == call[p].key
           mappings == View(Specifiers, instances)
           found == {instances[i].data.instance : i \in Holding(instances, key)}
<1>1. key \in Specifiers
  BY WhoWorks, OperationTypes DEF Resolve, Working
<1>2. services' = services /\ instances' = instances
  BY DEF Resolve, region
<1>3. mappings' = mappings
  BY <1>2
<1>4. key \in Directory!Known(mappings) <=> Holding(instances, key) # {}
  BY <1>1, TablesOfInv, KnownIsHeld DEF Directory!Known, View
<1>5. CASE Holding(instances, key) = {}
  <2>1. Answer(p, Status("kInstanceIDNotResolvable"))
    BY <1>5 DEF Resolve
  <2> QED
    BY <1>2, <1>3, <1>4, <1>5, <2>1, SameAnswers DEF Directory!Resolve
<1>6. CASE Holding(instances, key) # {}
  <2>1. PICK i \in Slots : instances[i] # Unknown /\ instances[i].key = key
    BY <1>6 DEF Holding
  <2>2. Holding(instances, key) = {i} /\ Entry(instances, key) = instances[i].data
    BY <2>1, TablesOfInv, EntryOfSlot
  <2>3. found = {mappings[key].instance}
    BY <1>1, <2>2 DEF View
  <2>4. Answer(p, Found(found))
    BY <1>6 DEF Resolve
  <2>5. Directory!Answer(p, Directory!Found({mappings[key].instance}))
    BY <2>3, <2>4 DEF Answer, Directory!Answer, Found, Directory!Found
  <2> QED
    BY <1>2, <1>3, <1>4, <1>6, <2>5 DEF Directory!Resolve
<1> QED
  BY <1>5, <1>6

\* An operation that scans or writes takes effect when its table is read or written.
LEMMA ApplyUpdate ==
    ASSUME IInv, NEW p \in Processes, Overwrite(p) \/ Insert(p) \/ TableFull(p)
    PROVE  Directory!Apply(p)
<1> DEFINE op == call[p]
<1>1. pc[p] = "write" /\ call' = call /\ op.kind \in {"offer", "register"}
  BY DEF Overwrite, Insert, TableFull, Writing
<1>2. Working(p)
  BY <1>1, WhoWorks
<1>3. /\ services' = services => View(ServiceKeys, services)' = View(ServiceKeys, services)
      /\ instances' = instances => View(Specifiers, instances)' = View(Specifiers, instances)
  OBVIOUS
<1>4. CASE op.kind = "offer"
  <2>1. Directory!Offer(p, op.key, op.data) /\ instances' = instances
    BY <1>4, OverwriteOffer, InsertOffer, FullDirectory
  <2> QED
    BY <1>1, <1>2, <1>3, <1>4, <2>1 DEF Working, Directory!Apply
<1>5. CASE op.kind = "register"
  <2>1. Directory!Register(p, op.key, op.data) /\ services' = services
    BY <1>5, OverwriteMapping, InsertMapping, FullDirectory
  <2> QED
    BY <1>1, <1>2, <1>3, <1>5, <2>1 DEF Working, Directory!Apply
<1> QED
  BY <1>1, <1>4, <1>5

LEMMA ApplySearch ==
    ASSUME IInv, NEW p \in Processes, StopOffer(p) \/ Find(p) \/ Resolve(p)
    PROVE  Directory!Apply(p)
<1> DEFINE op == call[p]
<1>1. pc[p] \notin {"idle", "release"} /\ call' = call
  BY DEF StopOffer, Find, Resolve, Writing
<1>2. Working(p)
  BY <1>1, WhoWorks
<1>3. /\ services' = services => View(ServiceKeys, services)' = View(ServiceKeys, services)
      /\ instances' = instances => View(Specifiers, instances)' = View(Specifiers, instances)
  OBVIOUS
<1>4. CASE StopOffer(p)
  <2>1. op.kind = "stop" /\ Directory!StopOffer(p, op.key) /\ instances' = instances
    BY <1>4, StoppedOffer DEF StopOffer
  <2> QED
    BY <1>1, <1>2, <1>3, <2>1 DEF Working, Directory!Apply
<1>5. CASE Find(p)
  <2>1. op.kind = "find" /\ Directory!Find(p, op.key) /\ instances' = instances
    BY <1>5, FoundOffer DEF Find
  <2> QED
    BY <1>1, <1>2, <1>3, <2>1 DEF Working, Directory!Apply
<1>6. CASE Resolve(p)
  <2>1. op.kind = "resolve" /\ Directory!Resolve(p, op.key) /\ services' = services
    BY <1>6, ResolvedMapping DEF Resolve
  <2> QED
    BY <1>1, <1>2, <1>3, <2>1 DEF Working, Directory!Apply
<1> QED
  BY <1>4, <1>5, <1>6

\* The directory is a view of the tables alone.
LEMMA SameDirectory ==
    UNCHANGED <<services, instances, call, answer>> => UNCHANGED Directory!directoryVars
<1>1. /\ services' = services => View(ServiceKeys, services)' = View(ServiceKeys, services)
      /\ instances' = instances => View(Specifiers, instances)' = View(Specifiers, instances)
  OBVIOUS
<1> QED
  BY <1>1 DEF Directory!directoryVars

\* The steps that only move a process towards its table, and the clearing of a region
\* whose tables are still empty, leave the directory alone.
HiddenStep(p) ==
    \/ Acquire(p) \/ OpenInUse(p) \/ OpenFresh(p) \/ Reset(p)
    \/ ScanToUpdate(p) \/ ScanToStop(p)

LEMMA HiddenSteps ==
    ASSUME IInv, NEW p \in Processes, HiddenStep(p)
    PROVE  UNCHANGED <<services, instances, call, answer>>
<1>1. CASE Acquire(p)
  BY <1>1 DEF Acquire, OpenAcquire, OpAcquire, region, callVars
<1>2. CASE OpenInUse(p) \/ OpenFresh(p)
  BY <1>2 DEF OpenInUse, OpenFresh, region, callVars
<1>3. CASE Reset(p)
  <2>1. services = EmptyTable /\ instances = EmptyTable
    BY <1>3 DEF Reset, IInv, ResetInv
  <2> QED
    BY <1>3, <2>1 DEF Reset, callVars
<1>4. CASE ScanToUpdate(p) \/ ScanToStop(p)
  BY <1>4 DEF ScanToUpdate, ScanToStop, region
<1> QED
  BY <1>1, <1>2, <1>3, <1>4 DEF HiddenStep

\* The calls, the returns and the kills are those of the directory.
LEMMA BeginIsInvoke ==
    ASSUME IInv, NEW p \in Processes, NEW op \in Operations, Begin(p, op)
    PROVE  Directory!Invoke(p, op)
<1>1. call[p] = Nothing
  BY DEF Begin, IInv, TypeOK
<1>2. UNCHANGED <<View(ServiceKeys, services), View(Specifiers, instances)>>
  BY DEF Begin, region
<1> QED
  BY <1>1, <1>2 DEF Begin, Answer, Directory!Invoke

LEMMA RefusedIsFail ==
    ASSUME IInv, NEW p \in Processes, Refused(p)
    PROVE  Directory!Fail(p)
<1>1. Working(p)
  BY WhoWorks DEF Refused
<1>2. Directory!Answer(p, Directory!Status("kCommunicationFailure"))
  BY SameAnswers DEF Refused
<1>3. UNCHANGED <<View(ServiceKeys, services), View(Specifiers, instances)>>
  BY DEF Refused, region
<1>4. call' = [call EXCEPT ![p] = Nothing]
  BY DEF Refused
<1> QED
  BY <1>1, <1>2, <1>3, <1>4 DEF Working, Directory!Fail

LEMMA ReleaseIsReturn ==
    ASSUME IInv, NEW p \in Processes, Release(p)
    PROVE  Directory!Return(p)
<1>1. pc[p] = "release"
  BY DEF Release
<1>2. call[p] \in Operations /\ answer[p] # Nothing
  BY <1>1 DEF IInv, TypeOK, AnswerInv
<1>3. UNCHANGED <<View(ServiceKeys, services), View(Specifiers, instances)>>
  BY DEF Release, region
<1> QED
  BY <1>2, <1>3, RegistryAssumption DEF Release, Directory!Return

LEMMA CrashIsRestart ==
    ASSUME NEW p \in Processes, Crash(p)
    PROVE  Directory!Restart(p)
<1>1. UNCHANGED <<View(ServiceKeys, services), View(Specifiers, instances)>>
  BY DEF Crash, region
<1> QED
  BY <1>1 DEF Crash, Answer, Directory!Restart, Directory!Answer

\* Every operation of the registry takes effect at one moment between its call and its
\* return, on a directory that knows nothing of slots, semaphores and regions.
THEOREM Refinement == Spec => ImplementsServiceDirectory
<1>1. IInv /\ [Next]_vars => [Directory!Next]_(Directory!directoryVars)
  <2> SUFFICES ASSUME IInv, [Next]_vars PROVE [Directory!Next]_(Directory!directoryVars)
    OBVIOUS
  <2>1. CASE UNCHANGED vars
    BY <2>1, SameDirectory DEF vars, region, callVars
  <2>2. ASSUME NEW p \in Processes, NEW op \in Operations, Begin(p, op) PROVE Directory!Next
    BY <2>2, BeginIsInvoke DEF Directory!Next
  <2>3. ASSUME NEW p \in Processes, Refused(p) \/ Release(p) \/ Crash(p) PROVE Directory!Next
    <3>1. Directory!Fail(p) \/ Directory!Return(p) \/ Directory!Restart(p)
      BY <2>3, RefusedIsFail, ReleaseIsReturn, CrashIsRestart
    <3> QED
      BY <3>1 DEF Directory!Next
  <2>4. ASSUME NEW p \in Processes,
               \/ Overwrite(p) \/ Insert(p) \/ TableFull(p)
               \/ StopOffer(p) \/ Find(p) \/ Resolve(p)
        PROVE  Directory!Next
    <3>1. Directory!Apply(p)
      BY <2>4, ApplyUpdate, ApplySearch
    <3> QED
      BY <3>1 DEF Directory!Next
  <2>5. ASSUME NEW p \in Processes, HiddenStep(p) PROVE UNCHANGED Directory!directoryVars
    BY <2>5, HiddenSteps, SameDirectory
  <2> QED
    BY <2>1, <2>2, <2>3, <2>4, <2>5
       DEF Next, Step, OpenStep, ScanStep, WriteStep, HiddenStep
<1>2. QED
  BY <1>1, DirectoryInit, Invariance, PTL DEF Spec, ImplementsServiceDirectory, Directory!Spec
=============================================================================
