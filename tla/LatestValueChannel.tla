-------------------------- MODULE LatestValueChannel --------------------------
(***************************************************************************)
(* One shared-memory region that holds a latest sample and its sequence    *)
(* number, with its named semaphore, and the processes that use it: as a   *)
(* SharedMemoryEventChannel (Publish, ReadIfNew) or, with the same code on *)
(* the same layout under another magic number, as a                        *)
(* SharedMemoryFireAndForgetChannel (Send, Take).  Names of channels lose  *)
(* their punctuation when they become names of regions, so that processes  *)
(* of both kinds may meet in one region.                                   *)
(*                                                                         *)
(* Samples are numbered in the order in which their publication starts.    *)
(***************************************************************************)
EXTENDS NamedSemaphore, Sequences

CONSTANTS
    Writers,        \* processes that publish
    Readers,        \* processes that read
    KindChoices,    \* which kind of channel each process takes the region for
    MaxSamples,     \* bound: samples published in a behaviour
    MaxFaults,      \* bound: kills in a behaviour
    CrashPoints     \* the control points at which a process may be killed

WriterLabels == {"idle", "write_wait", "write_payload", "write_commit"}
ReaderLabels == {"idle", "read_wait", "read"}
Section == {"write_payload", "write_commit", "read"}

Kinds == {"event", "oneway"}

ASSUME ChannelAssumption ==
    /\ Writers \cap Readers = {}
    /\ KindChoices \subseteq [Writers \cup Readers -> Kinds]
    /\ MaxSamples \in Nat
    /\ MaxFaults \in Nat
    /\ CrashPoints \subseteq WriterLabels \cup ReaderLabels

Processes == Writers \cup Readers

VARIABLES
    layout,                 \* the shared layout; magic: who initialised it
    kind,                   \* an element of KindChoices; it does not change
    pc,                     \* the control point of every process
    issued,                 \* how many samples were handed to Publish
    sample,                 \* the sample each writer publishes
    handed,                 \* history: the samples handed to each kind of channel
    log,                    \* history: the samples by sequence, since the last memset
    last_seen_sequence,     \* each reader's last_event_sequence
    cached,                 \* the sample each reader got last
    delivered,              \* history: how many samples each reader got
    faults                  \* how many kills have happened

memory == <<sem, layout, kind>>
writerVars == <<issued, sample, handed, log>>
readerVars == <<last_seen_sequence, cached, delivered>>
vars == <<memory, pc, writerVars, readerVars, faults>>

NoSample == 0

FreshLayout == [magic |-> "none", sequence |-> 0, payload |-> NoSample]

Initialised(w) ==
    IF layout.magic = kind[w] THEN layout ELSE [FreshLayout EXCEPT !.magic = kind[w]]

Goto(p, from, to) == pc[p] = from /\ pc' = [pc EXCEPT ![p] = to]
Enter(p, from, to) == Goto(p, from, to) /\ SemWait
Leave(p, from, to) == Goto(p, from, to) /\ SemPost

Init ==
    /\ SemInit
    /\ layout = FreshLayout
    /\ kind \in KindChoices
    /\ pc = [p \in Processes |-> "idle"]
    /\ issued = 0
    /\ sample = [w \in Writers |-> NoSample]
    /\ handed = [k \in Kinds |-> {}]
    /\ log = <<>>
    /\ last_seen_sequence = [r \in Readers |-> 0]
    /\ cached = [r \in Readers |-> NoSample]
    /\ delivered = [r \in Readers |-> 0]
    /\ faults = 0
-----------------------------------------------------------------------------
(* Publish and Send; when they fail they do so before they touch the region *)

PublishBegin(w) ==
    /\ issued < MaxSamples
    /\ Goto(w, "idle", "write_wait")
    /\ issued' = issued + 1
    /\ sample' = [sample EXCEPT ![w] = issued + 1]
    /\ handed' = [handed EXCEPT ![kind[w]] = @ \cup {issued + 1}]
    /\ UNCHANGED <<memory, log, readerVars, faults>>

PublishAcquire(w) ==
    /\ Enter(w, "write_wait", "write_payload")
    /\ layout' = Initialised(w)
    /\ log' = IF layout.magic = kind[w] THEN log ELSE <<>>
    /\ UNCHANGED <<kind, issued, sample, handed, readerVars, faults>>

\* Mutant: the semaphore is released between the payload and the sequence.
PayloadThenRelease(w) ==
    /\ Leave(w, "write_payload", "write_commit")
    /\ layout' = [layout EXCEPT !.payload = sample[w]]
    /\ UNCHANGED <<kind, writerVars, readerVars, faults>>

WritePayload(w) ==
    /\ Goto(w, "write_payload", "write_commit")
    /\ layout' = [layout EXCEPT !.payload = sample[w]]
    /\ UNCHANGED <<sem, kind, writerVars, readerVars, faults>>

\* Mutant: the sequence is not incremented.
SameSequence == layout.sequence

NextSequence == layout.sequence + 1

PublishCommit(w) ==
    /\ Leave(w, "write_commit", "idle")
    /\ layout' = [layout EXCEPT !.sequence = NextSequence]
    /\ log' = Append(log, sample[w])
    /\ UNCHANGED <<kind, issued, sample, handed, readerVars, faults>>
-----------------------------------------------------------------------------
(* ReadIfNew and Take *)

ReadBegin(r) ==
    /\ Goto(r, "idle", "read_wait")
    /\ UNCHANGED <<memory, writerVars, readerVars, faults>>

ReadAcquire(r) ==
    /\ Enter(r, "read_wait", "read")
    /\ UNCHANGED <<layout, kind, writerVars, readerVars, faults>>

\* Mutant: a sample is new although it was seen before.
IsThere(r) == layout.magic = kind[r] /\ layout.sequence # 0

\* Mutant: any region that was initialised will do, whatever its magic number.
IsInitialised(r) ==
    /\ layout.magic # "none"
    /\ layout.sequence # 0
    /\ layout.sequence # last_seen_sequence[r]

IsNew(r) ==
    /\ layout.magic = kind[r]
    /\ layout.sequence # 0
    /\ layout.sequence # last_seen_sequence[r]

ReadNew(r) ==
    /\ IsNew(r)
    /\ Leave(r, "read", "idle")
    /\ last_seen_sequence' = [last_seen_sequence EXCEPT ![r] = layout.sequence]
    /\ cached' = [cached EXCEPT ![r] = layout.payload]
    /\ delivered' = [delivered EXCEPT ![r] = @ + 1]
    /\ UNCHANGED <<layout, kind, writerVars, faults>>

ReadNothing(r) ==
    /\ ~IsNew(r)
    /\ Leave(r, "read", "idle")
    /\ UNCHANGED <<layout, kind, writerVars, readerVars, faults>>
-----------------------------------------------------------------------------
(* A process is killed and started again; the region survives it. *)

Crash(p) ==
    /\ pc[p] \in CrashPoints
    /\ faults < MaxFaults
    /\ faults' = faults + 1
    /\ pc' = [pc EXCEPT ![p] = "idle"]
    /\ UNCHANGED <<memory, writerVars>>

WriterCrash(w) ==
    /\ pc[w] # "idle"
    /\ Crash(w)
    /\ UNCHANGED readerVars

ReaderCrash(r) ==
    /\ Crash(r)
    /\ last_seen_sequence' = [last_seen_sequence EXCEPT ![r] = 0]
    /\ cached' = [cached EXCEPT ![r] = NoSample]
    /\ delivered' = [delivered EXCEPT ![r] = 0]
-----------------------------------------------------------------------------
WriterStep(w) == WritePayload(w) \/ PublishCommit(w)
ReaderStep(r) == ReadBegin(r) \/ ReadNew(r) \/ ReadNothing(r)

Writes(w) == PublishBegin(w) \/ PublishAcquire(w) \/ WriterStep(w)
Reads(r) == ReadAcquire(r) \/ ReaderStep(r)

Publish(w) == kind[w] = "event" /\ Writes(w)
Send(w) == kind[w] = "oneway" /\ Writes(w)
ReadIfNew(r) == kind[r] = "event" /\ Reads(r)
Take(r) == kind[r] = "oneway" /\ Reads(r)

WriterNext(w) == Publish(w) \/ Send(w) \/ WriterCrash(w)
ReaderNext(r) == ReadIfNew(r) \/ Take(r) \/ ReaderCrash(r)

Next == (\E w \in Writers : WriterNext(w)) \/ (\E r \in Readers : ReaderNext(r))

Spec == Init /\ [][Next]_vars

\* Every process is scheduled; a reader sleeps 100 ms between two looks, so the
\* semaphore is free again and again.
FairSpec ==
    /\ Spec
    /\ \A w \in Writers : WF_vars(WriterStep(w)) /\ SF_vars(PublishAcquire(w))
    /\ \A r \in Readers : WF_vars(ReaderStep(r)) /\ SF_vars(ReadAcquire(r))
-----------------------------------------------------------------------------
(* Properties *)

\* Type invariant.
TypeOK ==
    /\ sem \in {0, 1}
    /\ layout \in [magic : Kinds \cup {"none"}, sequence : Nat, payload : Nat]
    /\ kind \in [Processes -> Kinds]
    /\ pc \in [Processes -> WriterLabels \cup ReaderLabels]
    /\ \A w \in Writers : pc[w] \in WriterLabels
    /\ \A r \in Readers : pc[r] \in ReaderLabels
    /\ issued \in 0..MaxSamples
    /\ sample \in [Writers -> Nat]
    /\ handed \in [Kinds -> SUBSET Nat]
    /\ log \in Seq(Nat)
    /\ last_seen_sequence \in [Readers -> Nat]
    /\ cached \in [Readers -> Nat]
    /\ delivered \in [Readers -> Nat]
    /\ faults \in Nat

\* One process at a time is between sem_wait and sem_post.
OneInSection ==
    \A p \in Processes : pc[p] \in Section =>
        sem = 0 /\ \A q \in Processes : pc[q] \in Section => p = q

\* All processes take the region for the same kind of channel.
OneKind == \A p, q \in Processes : kind[p] = kind[q]

\* No reader is ever given what was handed to a channel of the other kind, although
\* both may use one region, and clear it when they find it in the other's hands.
NoCrossTalk == \A r \in Readers : cached[r] \in handed[kind[r]] \cup {NoSample}

\* The sample a reader holds is, whole, the one that was published under the
\* sequence number the reader remembers.
CachedMatchesSequence ==
    OneKind => \A r \in Readers :
        /\ last_seen_sequence[r] \in 0..Len(log)
        /\ cached[r] = IF last_seen_sequence[r] = 0 THEN NoSample ELSE log[last_seen_sequence[r]]

\* Whoever can look at the region finds it written in full: false while a writer
\* is in its section, and for ever after a writer is killed in it.
Readable == sem = 1 \/ \E p \in Processes : pc[p] \in {"write_payload", "read"}

\* A writer in its section has made the region its own.
OwnerInv ==
    /\ layout.magic = "none" => layout = FreshLayout
    /\ layout.magic # "none" => \E w \in Writers : layout.magic = kind[w]
    /\ \A w \in Writers : pc[w] \in Section => layout.magic = kind[w]

RegionInv ==
    /\ \A w \in Writers : pc[w] = "write_commit" => layout.payload = sample[w]
    /\ \A w \in Writers : pc[w] # "idle" =>
         sample[w] \in 1..issued /\ sample[w] \in handed[kind[w]]
    /\ layout.sequence = Len(log)
    /\ Readable /\ log # <<>> => layout.payload = log[Len(log)]
    /\ log # <<>> => log[Len(log)] \in handed[layout.magic]

\* The inductive invariant.
IInv == TypeOK /\ OneInSection /\ OwnerInv /\ RegionInv /\ CachedMatchesSequence /\ NoCrossTalk

\* Seen from its readers, a channel is a feed of the latest sample.
Feed == INSTANCE ConflatingFeed WITH
    cursor <- last_seen_sequence, Samples <- 1..MaxSamples

\* A region that is used for one kind of channel implements such a feed.
ImplementsConflatingFeed ==
    /\ OneKind => Feed!Init
    /\ [][OneKind => [Feed!Next]_(Feed!feedVars)]_vars

\* Every reader catches up with the latest sample, however many it has missed and
\* whoever is restarted, unless a process was killed while it held the semaphore.
ReadersCatchUp ==
    OneKind /\ []<>(sem = 1) => \A r \in Readers : []<>(last_seen_sequence[r] = Len(log))
=============================================================================
