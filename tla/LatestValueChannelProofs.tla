----------------------- MODULE LatestValueChannelProofs -----------------------
(***************************************************************************)
(* Proofs about LatestValueChannel, for every set of writers and readers,  *)
(* any number of samples and kills, any choice of the points at which a    *)
(* process may be killed, and any mixture of the two kinds of channel.     *)
(***************************************************************************)
EXTENDS LatestValueChannel, TLAPS

USE DEF Processes, Goto, Enter, Leave, SemWait, SemPost

-----------------------------------------------------------------------------
(* Type correctness and mutual exclusion *)

TypeInv == TypeOK /\ OneInSection

LEMMA TypeInit == Init => TypeInv
<1> SUFFICES ASSUME Init PROVE TypeInv
  OBVIOUS
<1>1. kind \in [Processes -> Kinds]
  BY ChannelAssumption DEF Init
<1>2. TypeOK
  BY <1>1, ChannelAssumption DEF Init, SemInit, TypeOK, FreshLayout, NoSample, WriterLabels,
     ReaderLabels
<1> QED
  BY <1>2 DEF Init, TypeInv, OneInSection, Section

LEMMA WriterType ==
    ASSUME TypeInv, NEW w \in Writers, WriterNext(w)
    PROVE  TypeInv'
<1> USE ChannelAssumption DEF WriterLabels, ReaderLabels, Section, TypeInv
<1>1. CASE PublishBegin(w)
  <2>1. handed' \in [Kinds -> SUBSET Nat]
    BY <1>1 DEF TypeOK, PublishBegin
  <2> QED
    BY <1>1, <2>1 DEF TypeOK, OneInSection, PublishBegin, memory, readerVars
<1>2. CASE PublishAcquire(w)
  <2>1. layout' \in [magic : Kinds \cup {"none"}, sequence : Nat, payload : Nat]
    BY <1>2 DEF PublishAcquire, Initialised, FreshLayout, NoSample, TypeOK
  <2>2. log' \in Seq(Nat)
    BY <1>2 DEF PublishAcquire, TypeOK
  <2> QED
    BY <1>2, <2>1, <2>2 DEF TypeOK, OneInSection, PublishAcquire, readerVars
<1>3. CASE WritePayload(w)
  <2>1. layout' \in [magic : Kinds \cup {"none"}, sequence : Nat, payload : Nat]
    BY <1>3 DEF WritePayload, TypeOK
  <2> QED
    BY <1>3, <2>1 DEF TypeOK, OneInSection, WritePayload, writerVars, readerVars
<1>4. CASE PublishCommit(w)
  <2>1. layout.sequence + 1 \in Nat
    BY DEF TypeOK
  <2>2. layout' \in [magic : Kinds \cup {"none"}, sequence : Nat, payload : Nat]
    BY <1>4, <2>1 DEF PublishCommit, NextSequence, TypeOK
  <2>3. sample[w] \in Nat /\ log \in Seq(Nat)
    BY DEF TypeOK
  <2>4. log' \in Seq(Nat)
    BY <1>4, <2>3 DEF PublishCommit
  <2>5. /\ sem' \in {0, 1}
        /\ pc' \in [Processes -> WriterLabels \cup ReaderLabels]
        /\ \A v \in Writers : pc'[v] \in WriterLabels
        /\ \A r \in Readers : pc'[r] \in ReaderLabels
    BY <1>4 DEF TypeOK, OneInSection, PublishCommit
  <2>6. UNCHANGED <<kind, issued, sample, handed, last_seen_sequence, cached, delivered, faults>>
    BY <1>4 DEF PublishCommit, readerVars
  <2>7. TypeOK'
    BY <2>2, <2>4, <2>5, <2>6 DEF TypeOK
  <2>8. OneInSection'
    BY <1>4 DEF TypeOK, OneInSection, PublishCommit
  <2> QED
    BY <2>7, <2>8
<1>5. CASE WriterCrash(w)
  BY <1>5 DEF TypeOK, OneInSection, WriterCrash, Crash, memory, writerVars, readerVars
<1> QED
  BY <1>1, <1>2, <1>3, <1>4, <1>5 DEF WriterNext, Publish, Send, Writes, WriterStep

LEMMA ReaderType ==
    ASSUME TypeInv, NEW r \in Readers, ReaderNext(r)
    PROVE  TypeInv'
<1> USE ChannelAssumption DEF WriterLabels, ReaderLabels, Section, TypeInv
<1>1. CASE ReadBegin(r)
  BY <1>1 DEF TypeOK, OneInSection, ReadBegin, memory, writerVars, readerVars
<1>2. CASE ReadAcquire(r)
  BY <1>2 DEF TypeOK, OneInSection, ReadAcquire, writerVars, readerVars
<1>3. CASE ReadNew(r)
  BY <1>3 DEF TypeOK, OneInSection, ReadNew, writerVars
<1>4. CASE ReadNothing(r)
  BY <1>4 DEF TypeOK, OneInSection, ReadNothing, writerVars, readerVars
<1>5. CASE ReaderCrash(r)
  BY <1>5 DEF TypeOK, OneInSection, ReaderCrash, Crash, memory, writerVars, NoSample
<1> QED
  BY <1>1, <1>2, <1>3, <1>4, <1>5 DEF ReaderNext, ReadIfNew, Take, Reads, ReaderStep

LEMMA TypeStep == TypeInv /\ [Next]_vars => TypeInv'
<1> SUFFICES ASSUME TypeInv, [Next]_vars PROVE TypeInv'
  OBVIOUS
<1>1. CASE UNCHANGED vars
  <2>1. TypeOK'
    BY <1>1 DEF vars, memory, writerVars, readerVars, TypeInv, TypeOK
  <2>2. OneInSection'
    BY <1>1 DEF vars, memory, TypeInv, OneInSection
  <2> QED
    BY <2>1, <2>2 DEF TypeInv
<1> QED
  BY <1>1, WriterType, ReaderType DEF Next

-----------------------------------------------------------------------------
(* Whose region it is, what it agrees with, and what readers hold *)

SampleInv == OwnerInv /\ RegionInv /\ CachedMatchesSequence /\ NoCrossTalk

LEMMA SampleInit == Init => SampleInv
<1> SUFFICES ASSUME Init PROVE SampleInv
  OBVIOUS
<1>1. OwnerInv /\ RegionInv
  BY ChannelAssumption DEF Init, OwnerInv, RegionInv, FreshLayout, NoSample, Section
<1>2. CachedMatchesSequence /\ NoCrossTalk
  BY ChannelAssumption DEF Init, CachedMatchesSequence, NoCrossTalk, NoSample
<1> QED
  BY <1>1, <1>2 DEF SampleInv

\* A step that writes no region, no log and no cache, and enters no section of
\* a writer, disturbs nothing.
LEMMA QuietStep ==
    ASSUME TypeInv, SampleInv,
           UNCHANGED <<layout, kind, log, readerVars>>,
           issued' \in Nat, issued' >= issued,
           \A k \in Kinds : handed[k] \subseteq handed'[k],
           \A w \in Writers : pc'[w] # "idle" =>
               \/ pc[w] # "idle" /\ sample'[w] = sample[w]
               \/ sample'[w] \in 1..issued' /\ sample'[w] \in handed'[kind[w]],
           \A w \in Writers : pc'[w] \in Section => pc'[w] = pc[w] /\ sample'[w] = sample[w],
           Readable' => Readable
    PROVE  SampleInv'
<1>0. /\ kind \in [Processes -> Kinds]
      /\ layout.magic \in Kinds \cup {"none"}
  BY DEF TypeInv, TypeOK
<1>1. \A w \in Writers : pc'[w] # "idle" =>
          sample'[w] \in 1..issued' /\ sample'[w] \in handed'[kind[w]]
  BY <1>0 DEF SampleInv, RegionInv, TypeInv, TypeOK
<1>2. \A w \in Writers : pc'[w] = "write_commit" => layout.payload = sample'[w]
  BY DEF SampleInv, RegionInv, Section
<1>3. log # <<>> => log[Len(log)] \in handed'[layout.magic]
  <2>1. log # <<>> => layout.magic # "none"
    BY DEF SampleInv, RegionInv, OwnerInv, FreshLayout, TypeInv, TypeOK
  <2> QED
    BY <1>0, <2>1 DEF SampleInv, RegionInv
<1>4. RegionInv'
  BY <1>1, <1>2, <1>3 DEF SampleInv, RegionInv
<1>5. OwnerInv'
  BY DEF SampleInv, OwnerInv, FreshLayout, NoSample
<1>6. CachedMatchesSequence'
  BY DEF SampleInv, CachedMatchesSequence, OneKind, readerVars
<1>7. NoCrossTalk'
  BY <1>0 DEF SampleInv, NoCrossTalk, readerVars
<1> QED
  BY <1>4, <1>5, <1>6, <1>7 DEF SampleInv

LEMMA WriterSample ==
    ASSUME TypeInv, TypeInv', SampleInv, NEW w \in Writers, WriterNext(w)
    PROVE  SampleInv'
<1> USE ChannelAssumption
<1>0. kind[w] \in Kinds /\ "none" \notin Kinds
  BY DEF TypeInv, TypeOK, Kinds
<1>1. CASE PublishBegin(w)
  <2>1. \A k \in Kinds : handed[k] \subseteq handed'[k]
    BY <1>1 DEF PublishBegin, TypeInv, TypeOK
  <2>2. sample'[w] \in 1..issued' /\ sample'[w] \in handed'[kind[w]]
    BY <1>0, <1>1 DEF PublishBegin, TypeInv, TypeOK
  <2>3. \A v \in Writers : v # w => pc'[v] = pc[v] /\ sample'[v] = sample[v]
    BY <1>1 DEF PublishBegin, TypeInv, TypeOK
  <2>4. /\ UNCHANGED <<sem, layout, kind, log, readerVars>>
        /\ issued' = issued + 1 /\ issued' \in Nat /\ pc'[w] = "write_wait"
    BY <1>1 DEF PublishBegin, memory, TypeInv, TypeOK
  <2>5. Readable' => Readable
    BY <1>1 DEF PublishBegin, memory, TypeInv, TypeOK, Readable
  <2>6. issued' >= issued
    BY <2>4 DEF TypeInv, TypeOK
  <2> QED
    BY <2>1, <2>2, <2>3, <2>4, <2>5, <2>6, QuietStep DEF Section
<1>2. CASE WriterCrash(w)
  BY <1>2, QuietStep DEF WriterCrash, Crash, memory, writerVars, TypeInv, TypeOK, Section, Readable
<1>3. CASE PublishAcquire(w)
  <2>1. /\ UNCHANGED <<kind, issued, sample, handed, readerVars>>
        /\ sem = 1 /\ pc[w] = "write_wait" /\ pc'[w] = "write_payload"
        /\ \A p \in Processes : p # w => pc'[p] = pc[p]
        /\ \A p \in Processes : pc[p] \notin Section
    BY <1>3 DEF PublishAcquire, TypeInv, TypeOK, OneInSection
  <2>2. Readable
    BY <2>1 DEF Readable
  <2>3. layout'.magic = kind[w]
    BY <1>3 DEF PublishAcquire, Initialised, FreshLayout, TypeInv, TypeOK
  <2>4. OwnerInv'
    BY <1>0, <2>1, <2>3 DEF OwnerInv, Section
  <2>5. CASE layout.magic = kind[w]
    <3>1. layout' = layout /\ log' = log
      BY <1>3, <2>5 DEF PublishAcquire, Initialised
    <3>2. RegionInv'
      BY <2>1, <2>2, <3>1 DEF SampleInv, RegionInv, Section
    <3>3. CachedMatchesSequence' /\ NoCrossTalk'
      BY <2>1, <3>1 DEF SampleInv, CachedMatchesSequence, OneKind, NoCrossTalk, readerVars
    <3> QED
      BY <2>4, <3>2, <3>3 DEF SampleInv
  <2>6. CASE layout.magic # kind[w]
    <3>1. log' = <<>> /\ layout'.sequence = 0
      BY <1>3, <2>6 DEF PublishAcquire, Initialised, FreshLayout
    <3>2. RegionInv'
      BY <2>1, <3>1 DEF SampleInv, RegionInv, Section
    <3>3. CachedMatchesSequence'
      <4>1. ASSUME OneKind PROVE log = <<>>
        <5>1. \A v \in Writers : kind[v] = kind[w]
          BY <4>1 DEF OneKind
        <5>2. layout.magic = "none"
          BY <2>6, <5>1 DEF SampleInv, OwnerInv
        <5> QED
          BY <5>2 DEF SampleInv, OwnerInv, RegionInv, FreshLayout, TypeInv, TypeOK
      <4>2. UNCHANGED <<kind, last_seen_sequence, cached>>
        BY <2>1 DEF readerVars
      <4> QED
        BY <3>1, <4>1, <4>2 DEF SampleInv, CachedMatchesSequence, OneKind
    <3>4. NoCrossTalk'
      BY <2>1 DEF SampleInv, NoCrossTalk, readerVars
    <3> QED
      BY <2>4, <3>2, <3>3, <3>4 DEF SampleInv
  <2> QED
    BY <2>5, <2>6
<1>4. CASE WritePayload(w)
  <2>1. /\ UNCHANGED <<sem, kind, issued, sample, handed, log, readerVars>>
        /\ layout' = [layout EXCEPT !.payload = sample[w]]
        /\ pc[w] = "write_payload" /\ pc'[w] = "write_commit"
        /\ \A p \in Processes : p # w => pc'[p] = pc[p]
        /\ \A p \in Processes : p # w => pc[p] \notin Section
        /\ sem = 0
    BY <1>4 DEF WritePayload, writerVars, TypeInv, TypeOK, OneInSection, Section
  <2>2. /\ layout'.magic = layout.magic
        /\ layout'.sequence = layout.sequence
        /\ layout'.payload = sample[w]
    BY <2>1 DEF TypeInv, TypeOK
  <2>3. ~Readable'
    BY <2>1 DEF Readable, Section
  <2>4. layout.magic = kind[w]
    BY <2>1 DEF SampleInv, OwnerInv, Section
  <2>5. \A v \in Writers : pc'[v] = "write_commit" => v = w
    BY <2>1 DEF Section
  <2>6. RegionInv'
    BY <2>1, <2>2, <2>3, <2>5 DEF SampleInv, RegionInv
  <2>7. OwnerInv'
    BY <1>0, <2>1, <2>2, <2>4 DEF SampleInv, OwnerInv, Section
  <2>8. CachedMatchesSequence' /\ NoCrossTalk'
    BY <2>1 DEF SampleInv, CachedMatchesSequence, OneKind, NoCrossTalk, readerVars
  <2> QED
    BY <2>6, <2>7, <2>8 DEF SampleInv
<1>5. CASE PublishCommit(w)
  <2>1. /\ UNCHANGED <<kind, issued, sample, handed, readerVars>>
        /\ layout' = [layout EXCEPT !.sequence = layout.sequence + 1]
        /\ log' = Append(log, sample[w])
        /\ pc[w] = "write_commit" /\ pc'[w] = "idle"
        /\ \A p \in Processes : p # w => pc'[p] = pc[p]
        /\ \A p \in Processes : p # w => pc[p] \notin Section
    BY <1>5 DEF PublishCommit, NextSequence, TypeInv, TypeOK, OneInSection, Section
  <2>2. /\ layout'.magic = layout.magic /\ layout.magic = kind[w]
        /\ layout'.sequence = Len(log) + 1
        /\ layout'.payload = sample[w]
    BY <2>1 DEF SampleInv, OwnerInv, RegionInv, Section, TypeInv, TypeOK
  <2>3. /\ log \in Seq(Nat) /\ sample[w] \in Nat
        /\ Len(log') = Len(log) + 1 /\ Len(log) \in Nat
        /\ log'[Len(log) + 1] = sample[w]
        /\ \A i \in 1..Len(log) : log'[i] = log[i]
    BY <2>1 DEF TypeInv, TypeOK
  <2>4. \A v \in Writers : pc'[v] \notin Section
    BY <2>1 DEF Section
  <2>5. \A v \in Writers : pc'[v] # "idle" =>
            sample'[v] \in 1..issued' /\ sample'[v] \in handed'[kind'[v]]
    BY <2>1 DEF SampleInv, RegionInv
  <2>6. log'[Len(log')] \in handed'[layout'.magic]
    BY <2>1, <2>2, <2>3 DEF SampleInv, RegionInv
  <2>7. RegionInv'
    BY <2>2, <2>3, <2>4, <2>5, <2>6 DEF RegionInv, Section
  <2>8. OwnerInv'
    BY <1>0, <2>1, <2>2, <2>4 DEF OwnerInv
  <2>9. CachedMatchesSequence'
    BY <2>1, <2>3 DEF SampleInv, CachedMatchesSequence, OneKind, readerVars, TypeInv, TypeOK
  <2>10. NoCrossTalk'
    BY <2>1 DEF SampleInv, NoCrossTalk, readerVars
  <2> QED
    BY <2>7, <2>8, <2>9, <2>10 DEF SampleInv
<1> QED
  BY <1>1, <1>2, <1>3, <1>4, <1>5 DEF WriterNext, Publish, Send, Writes, WriterStep

LEMMA ReaderSample ==
    ASSUME TypeInv, TypeInv', SampleInv, NEW r \in Readers, ReaderNext(r)
    PROVE  SampleInv'
<1> USE ChannelAssumption
<1>1. CASE ReadBegin(r)
  BY <1>1, QuietStep DEF ReadBegin, memory, writerVars, TypeInv, TypeOK, Section, Readable
<1>2. CASE ReadAcquire(r)
  BY <1>2, QuietStep DEF ReadAcquire, writerVars, TypeInv, TypeOK, Section, Readable
<1>3. CASE ReadNothing(r)
  BY <1>3, QuietStep DEF ReadNothing, writerVars, TypeInv, TypeOK, Section, Readable
<1>4. CASE ReadNew(r)
  <2>1. /\ UNCHANGED <<layout, kind, issued, sample, handed, log>>
        /\ last_seen_sequence' = [last_seen_sequence EXCEPT ![r] = layout.sequence]
        /\ cached' = [cached EXCEPT ![r] = layout.payload]
        /\ pc[r] = "read"
        /\ layout.sequence # 0
        /\ layout.magic = kind[r]
        /\ \A w \in Writers : pc'[w] = pc[w]
    BY <1>4 DEF ReadNew, IsNew, writerVars, TypeInv, TypeOK
  <2>2. Readable
    BY <2>1 DEF Readable
  <2>3. /\ layout.sequence = Len(log) /\ log # <<>>
        /\ layout.payload = log[Len(log)]
        /\ layout.payload \in handed[kind[r]]
    BY <2>1, <2>2 DEF SampleInv, RegionInv
  <2>4. RegionInv' /\ OwnerInv'
    BY <2>1, <2>2 DEF SampleInv, RegionInv, OwnerInv, FreshLayout
  <2>5. CachedMatchesSequence'
    BY <2>1, <2>3 DEF SampleInv, CachedMatchesSequence, OneKind, TypeInv, TypeOK
  <2>6. NoCrossTalk'
    BY <2>1, <2>3 DEF SampleInv, NoCrossTalk, TypeInv, TypeOK
  <2> QED
    BY <2>4, <2>5, <2>6 DEF SampleInv
<1>5. CASE ReaderCrash(r)
  <2>1. /\ UNCHANGED <<sem, layout, kind, issued, sample, handed, log>>
        /\ last_seen_sequence' = [last_seen_sequence EXCEPT ![r] = 0]
        /\ cached' = [cached EXCEPT ![r] = NoSample]
        /\ pc' = [pc EXCEPT ![r] = "idle"]
        /\ \A w \in Writers : pc'[w] = pc[w]
    BY <1>5 DEF ReaderCrash, Crash, memory, writerVars, TypeInv, TypeOK
  <2>2. Readable' => Readable
    BY <2>1 DEF Readable, TypeInv, TypeOK
  <2>3. RegionInv' /\ OwnerInv'
    BY <2>1, <2>2 DEF SampleInv, RegionInv, OwnerInv, FreshLayout
  <2>4. CachedMatchesSequence'
    BY <2>1 DEF SampleInv, CachedMatchesSequence, OneKind, TypeInv, TypeOK
  <2>5. NoCrossTalk'
    BY <2>1 DEF SampleInv, NoCrossTalk, TypeInv, TypeOK
  <2> QED
    BY <2>3, <2>4, <2>5 DEF SampleInv
<1> QED
  BY <1>1, <1>2, <1>3, <1>4, <1>5 DEF ReaderNext, ReadIfNew, Take, Reads, ReaderStep

\* The inductive invariant holds in every reachable state.
THEOREM Invariance == Spec => []IInv
<1>1. Init => TypeInv /\ SampleInv
  BY TypeInit, SampleInit
<1>2. TypeInv /\ TypeInv' /\ SampleInv /\ [Next]_vars => SampleInv'
  <2> SUFFICES ASSUME TypeInv, TypeInv', SampleInv, [Next]_vars PROVE SampleInv'
    OBVIOUS
  <2>1. CASE UNCHANGED vars
    BY <2>1, QuietStep DEF vars, memory, writerVars, TypeInv, TypeOK, Readable, Section
  <2> QED
    BY <2>1, WriterSample, ReaderSample DEF Next
<1>3. TypeInv /\ SampleInv => IInv
  BY DEF TypeInv, SampleInv, IInv
<1> QED
  BY <1>1, <1>2, <1>3, TypeStep, PTL DEF Spec

\* Every variable stays in its type.
THEOREM TypeCorrect == Spec => []TypeOK
<1>1. IInv => TypeOK
  BY DEF IInv
<1> QED
  BY <1>1, Invariance, PTL

\* One process at a time is between sem_wait and sem_post.
THEOREM Exclusion == Spec => []OneInSection
<1>1. IInv => OneInSection
  BY DEF IInv
<1> QED
  BY <1>1, Invariance, PTL

\* Whoever shares the region, a reader gets nothing of the other kind of channel.
THEOREM NeverTheOtherKind == Spec => []NoCrossTalk
<1>1. IInv => NoCrossTalk
  BY DEF IInv
<1> QED
  BY <1>1, Invariance, PTL

\* In a region used for one kind of channel, a reader holds, whole, the sample of the sequence number it remembers.
THEOREM NoTornSample == Spec => []CachedMatchesSequence
<1>1. IInv => CachedMatchesSequence
  BY DEF IInv
<1> QED
  BY <1>1, Invariance, PTL

-----------------------------------------------------------------------------
(* Refinement of the feed *)

\* Publishing takes effect when the sequence number is written, reading when it
\* is compared; every other step is a stutter of the feed.
LEMMA FeedStep == IInv /\ [Next]_vars => (OneKind => [Feed!Next]_(Feed!feedVars))
<1> SUFFICES ASSUME IInv, [Next]_vars, OneKind PROVE [Feed!Next]_(Feed!feedVars)
  OBVIOUS
<1> USE ChannelAssumption
<1> DEFINE Quiet == UNCHANGED <<log, last_seen_sequence, cached, delivered>>
<1>q. Quiet => UNCHANGED Feed!feedVars
  BY DEF Feed!feedVars
<1>1. CASE UNCHANGED vars
  BY <1>1, <1>q DEF vars, writerVars, readerVars
<1>2. ASSUME NEW w \in Writers, WriterNext(w) PROVE [Feed!Next]_(Feed!feedVars)
  <2>1. CASE PublishCommit(w)
    <3>1. sample[w] \in 1..MaxSamples
      BY <2>1 DEF PublishCommit, IInv, TypeOK, RegionInv
    <3>2. Feed!Publish(sample[w])
      BY <2>1 DEF PublishCommit, readerVars, Feed!Publish
    <3> QED
      BY <3>1, <3>2 DEF Feed!Next
  <2>2. CASE PublishAcquire(w)
    <3>1. layout.magic = kind[w] \/ log = <<>>
      <4>1. \A v \in Writers : kind[v] = kind[w]
        BY DEF OneKind
      <4> QED
        BY <4>1 DEF IInv, OwnerInv, RegionInv, FreshLayout, TypeOK
    <3> QED
      BY <2>2, <3>1, <1>q DEF PublishAcquire, readerVars
  <2>3. CASE PublishBegin(w) \/ WritePayload(w) \/ WriterCrash(w)
    BY <2>3, <1>q DEF PublishBegin, WritePayload, WriterCrash, Crash, writerVars, readerVars
  <2> QED
    BY <1>2, <2>1, <2>2, <2>3 DEF WriterNext, Publish, Send, Writes, WriterStep
<1>3. ASSUME NEW r \in Readers, ReaderNext(r) PROVE [Feed!Next]_(Feed!feedVars)
  <2>1. CASE ReadNew(r)
    <3>1. /\ layout.sequence = Len(log) /\ layout.sequence # last_seen_sequence[r]
          /\ last_seen_sequence[r] \in 0..Len(log) /\ Len(log) \in Nat
      BY <2>1 DEF ReadNew, IsNew, IInv, TypeOK, RegionInv, CachedMatchesSequence
    <3>2. layout.payload = log[Len(log)]
      <4>1. Readable
        BY <2>1 DEF ReadNew, Readable
      <4>2. log # <<>>
        BY <2>1, <3>1 DEF ReadNew, IsNew
      <4> QED
        BY <4>1, <4>2 DEF IInv, RegionInv
    <3>3. last_seen_sequence[r] < Len(log)
      BY <3>1
    <3>4. Feed!Deliver(r)
      BY <2>1, <3>1, <3>2, <3>3 DEF ReadNew, writerVars, Feed!Deliver
    <3> QED
      BY <3>4 DEF Feed!Next
  <2>2. CASE ReaderCrash(r)
    <3>1. Feed!Restart(r)
      BY <2>2 DEF ReaderCrash, Crash, writerVars, NoSample, Feed!Restart, Feed!NoSample
    <3> QED
      BY <3>1 DEF Feed!Next
  <2>3. CASE ReadAcquire(r) \/ ReadBegin(r) \/ ReadNothing(r)
    BY <2>3, <1>q DEF ReadAcquire, ReadBegin, ReadNothing, writerVars, readerVars
  <2> QED
    BY <1>3, <2>1, <2>2, <2>3 DEF ReaderNext, ReadIfNew, Take, Reads, ReaderStep
<1> QED
  BY <1>1, <1>2, <1>3 DEF Next

\* Whatever the interleaving and wherever processes are killed, readers see a
\* feed of whole samples in the order of their publication.
THEOREM Refinement == Spec => ImplementsConflatingFeed
<1>1. Init => Feed!Init
  BY DEF Init, Feed!Init, NoSample, Feed!NoSample
<1>2. IInv /\ [Next]_vars => [OneKind => [Feed!Next]_(Feed!feedVars)]_vars
  BY FeedStep
<1> QED
  BY <1>1, <1>2, Invariance, PTL DEF Spec, ImplementsConflatingFeed
=============================================================================
