----------------------------- MODULE CoreRuntime -----------------------------
(***************************************************************************)
(* What every process of the platform shares between its threads: the flag *)
(* of Initialize and Deinitialize, the handlers of Abort behind their      *)
(* mutex, and RuntimeState, which stands for the Execution Manager when    *)
(* there is none.                                                          *)
(*                                                                         *)
(* A thread runs the program's own code, and a handler of Abort does so    *)
(* too: it may register handlers and call Abort again.  What follows the   *)
(* call of Abort is never executed, so that of nested calls only the       *)
(* innermost goes on.                                                      *)
(***************************************************************************)
EXTENDS Naturals, Sequences, Functions

CONSTANTS
    Threads,
    NoThread,
    Main,       \* the thread whose return from main ends the process
    Handlers,   \* functions that may be registered as abort handlers
    Groups,     \* function groups
    States,     \* their states; "" is the empty name
    MaxDepth    \* bound: nested calls of Abort on a thread

ASSUME CoreAssumption ==
    /\ NoThread \notin Threads
    /\ Main \in Threads
    /\ MaxDepth \in Nat

VARIABLES
    status,         \* is the process running, or how has it ended?
    initialized,    \* IsInitialized()
    balance,        \* history: successful calls of Initialize, less those of Deinitialize
    reported,       \* execution_running_reported_
    accepted,       \* history: reports that were accepted
    function_groups,
    mutex,          \* who holds AbortHandlerMutex()
    handlers,       \* AbortHandlers()
    pc,             \* the control point of every thread
    adding,         \* the handler each thread registers
    depth,          \* how many calls of Abort are nested on each thread
    local_handlers, \* local to AbortImpl: the copy
    next,           \* local to AbortImpl: which of them comes next
    called,         \* history: the handlers that were called
    begun,          \* history: was Abort called?
    owed            \* history: the handlers registered when it was called first

runtimeVars == <<initialized, balance, reported, accepted, function_groups>>
abortVars == <<depth, local_handlers, next, called, begun, owed>>
vars == <<status, runtimeVars, mutex, handlers, pc, adding, abortVars>>

Labels == {"user", "handler", "add_lock", "search", "push", "copy_lock", "copy", "run"}
Section == {"search", "push", "copy"}

NoGroup == [known |-> FALSE, current_state |-> "Off", is_undefined |-> FALSE]

Init ==
    /\ status = "running"
    /\ initialized = FALSE
    /\ balance = 0
    /\ reported = FALSE
    /\ accepted = 0
    /\ function_groups = [g \in Groups |-> NoGroup]
    /\ mutex = NoThread
    /\ handlers = <<>>
    /\ pc = [t \in Threads |-> "user"]
    /\ adding = [t \in Threads |-> {}]
    /\ depth = [t \in Threads |-> 0]
    /\ local_handlers = [t \in Threads |-> <<>>]
    /\ next = [t \in Threads |-> 1]
    /\ called = {}
    /\ begun = FALSE
    /\ owed = {}
-----------------------------------------------------------------------------
(* Initialize, Deinitialize and RuntimeState.  The flag is exchanged       *)
(* atomically, and an operation of RuntimeState holds mutex_ from its      *)
(* first line to its last: each call is one step.                          *)

InProgram(t) == status = "running" /\ pc[t] \in {"user", "handler"}

KeepAbort == UNCHANGED <<status, mutex, handlers, pc, adding, abortVars>>

\* It fails, and changes nothing, if the flag is set.
Initialize(t) ==
    /\ InProgram(t)
    /\ initialized' = TRUE
    /\ balance' = IF initialized THEN balance ELSE balance + 1
    /\ KeepAbort /\ UNCHANGED <<reported, accepted, function_groups>>

Deinitialize(t) ==
    /\ InProgram(t)
    /\ initialized' = FALSE
    /\ balance' = IF initialized THEN balance - 1 ELSE balance
    /\ KeepAbort /\ UNCHANGED <<reported, accepted, function_groups>>

FirstReport == ~reported

ReportExecutionState(t) ==
    /\ InProgram(t)
    /\ FirstReport
    /\ reported' = TRUE
    /\ accepted' = accepted + 1
    /\ KeepAbort /\ UNCHANGED <<initialized, balance, function_groups>>

\* An empty state is refused; no operation makes a group undefined.
SetState(t, g, state) ==
    /\ InProgram(t)
    /\ state # ""
    /\ function_groups' = [function_groups EXCEPT
           ![g] = [known |-> TRUE, current_state |-> state, is_undefined |-> FALSE]]
    /\ KeepAbort /\ UNCHANGED <<initialized, balance, reported, accepted>>
-----------------------------------------------------------------------------
(* AddAbortHandler; of a null pointer it returns before it locks the mutex *)

Goto(t, from, to) ==
    /\ status = "running"
    /\ pc[t] = from
    /\ pc' = [pc EXCEPT ![t] = to]

Caller(t) == IF depth[t] = 0 THEN "user" ELSE "handler"

AddBegin(t, h) ==
    /\ Goto(t, Caller(t), "add_lock")
    /\ adding' = [adding EXCEPT ![t] = {h}]
    /\ UNCHANGED <<status, runtimeVars, mutex, handlers, abortVars>>

\* Mutant: no lock is taken.
AddUnlocked(t) ==
    /\ Goto(t, "add_lock", "search")
    /\ UNCHANGED <<status, runtimeVars, mutex, handlers, adding, abortVars>>

AddLock(t) ==
    /\ mutex = NoThread
    /\ mutex' = t
    /\ Goto(t, "add_lock", "search")
    /\ UNCHANGED <<status, runtimeVars, handlers, adding, abortVars>>

AddDuplicate(t) ==
    /\ Goto(t, "search", Caller(t))
    /\ adding[t] \subseteq Range(handlers)
    /\ adding' = [adding EXCEPT ![t] = {}]
    /\ mutex' = NoThread
    /\ UNCHANGED <<status, runtimeVars, handlers, abortVars>>

AddFound(t) ==
    /\ Goto(t, "search", "push")
    /\ adding[t] \cap Range(handlers) = {}
    /\ UNCHANGED <<status, runtimeVars, mutex, handlers, adding, abortVars>>

AddPush(t) ==
    /\ Goto(t, "push", Caller(t))
    /\ \E h \in adding[t] : handlers' = Append(handlers, h)
    /\ adding' = [adding EXCEPT ![t] = {}]
    /\ mutex' = NoThread
    /\ UNCHANGED <<status, runtimeVars, abortVars>>
-----------------------------------------------------------------------------
(* Abort *)

AbortBegin(t) ==
    /\ depth[t] < MaxDepth
    /\ Goto(t, Caller(t), "copy_lock")
    /\ depth' = [depth EXCEPT ![t] = @ + 1]
    /\ begun' = TRUE
    /\ owed' = IF begun THEN owed ELSE Range(handlers)
    /\ local_handlers' = [local_handlers EXCEPT ![t] = <<>>]
    /\ next' = [next EXCEPT ![t] = 1]
    /\ UNCHANGED <<status, runtimeVars, mutex, handlers, adding, called>>

CopyLock(t) ==
    /\ mutex = NoThread
    /\ mutex' = t
    /\ Goto(t, "copy_lock", "copy")
    /\ UNCHANGED <<status, runtimeVars, handlers, adding, abortVars>>

\* Mutant: the handlers are called under the mutex.
CopyAndKeep(t) ==
    /\ Goto(t, "copy", "run")
    /\ local_handlers' = [local_handlers EXCEPT ![t] = handlers]
    /\ UNCHANGED <<status, runtimeVars, mutex, handlers, adding, depth, next, called, begun, owed>>

Copy(t) ==
    /\ Goto(t, "copy", "run")
    /\ local_handlers' = [local_handlers EXCEPT ![t] = handlers]
    /\ mutex' = NoThread
    /\ UNCHANGED <<status, runtimeVars, handlers, adding, depth, next, called, begun, owed>>

\* Mutant: of two threads that abort, the second leaves the handlers to the first.
NoneLeftOrCalled(t) ==
    next[t] \in DOMAIN local_handlers[t] => local_handlers[t][next[t]] \in called

NoneLeft(t) == next[t] > Len(local_handlers[t])

CallHandler(t) ==
    /\ Goto(t, "run", "handler")
    /\ ~NoneLeft(t)
    /\ called' = called \cup {local_handlers[t][next[t]]}
    /\ next' = [next EXCEPT ![t] = @ + 1]
    /\ UNCHANGED <<status, runtimeVars, mutex, handlers, adding, depth, local_handlers, begun, owed>>

HandlerReturns(t) ==
    /\ Goto(t, "handler", "run")
    /\ UNCHANGED <<status, runtimeVars, mutex, handlers, adding, abortVars>>

\* std::abort ends all threads.
StdAbort(t) ==
    /\ status = "running"
    /\ pc[t] = "run"
    /\ NoneLeft(t)
    /\ status' = "aborted"
    /\ UNCHANGED <<runtimeVars, mutex, handlers, pc, adding, abortVars>>

\* main returns, whatever the other threads are doing.
MainReturns ==
    /\ status = "running"
    /\ pc[Main] = "user"
    /\ status' = "returned"
    /\ UNCHANGED <<runtimeVars, mutex, handlers, pc, adding, abortVars>>
-----------------------------------------------------------------------------
RuntimeNext(t) ==
    \/ Initialize(t) \/ Deinitialize(t) \/ ReportExecutionState(t)
    \/ \E g \in Groups, state \in States : SetState(t, g, state)

\* What a thread does in AddAbortHandler and in Abort, waiting for the mutex included.
AddStep(t) == AddLock(t) \/ AddDuplicate(t) \/ AddFound(t) \/ AddPush(t)
AbortStep(t) == CopyLock(t) \/ Copy(t) \/ CallHandler(t) \/ StdAbort(t)

ThreadNext(t) ==
    \/ RuntimeNext(t)
    \/ \E h \in Handlers : AddBegin(t, h)
    \/ AddStep(t) \/ AbortBegin(t) \/ AbortStep(t) \/ HandlerReturns(t)

Next == MainReturns \/ \E t \in Threads : ThreadNext(t)

Spec == Init /\ [][Next]_vars

\* Threads are scheduled, a mutex that is free again and again is granted, and a
\* handler, whatever else it does, returns in the end.
FairSpec ==
    /\ Spec
    /\ \A t \in Threads : SF_vars(AddStep(t) \/ AbortStep(t)) /\ SF_vars(HandlerReturns(t))
-----------------------------------------------------------------------------
(* Properties *)

\* Type invariant.
TypeOK ==
    /\ status \in {"running", "aborted", "returned"}
    /\ initialized \in BOOLEAN
    /\ reported \in BOOLEAN
    /\ balance \in Nat
    /\ accepted \in Nat
    /\ function_groups \in
         [Groups -> [known : BOOLEAN, current_state : States \cup {"Off"}, is_undefined : BOOLEAN]]
    /\ mutex \in Threads \cup {NoThread}
    /\ handlers \in Seq(Handlers)
    /\ pc \in [Threads -> Labels]
    /\ adding \in [Threads -> SUBSET Handlers]
    /\ depth \in [Threads -> Nat]
    /\ local_handlers \in [Threads -> Seq(Handlers)]
    /\ next \in [Threads -> Nat \ {0}]
    /\ called \subseteq Handlers
    /\ begun \in BOOLEAN
    /\ owed \subseteq Handlers

\* Whoever is between the lock and the unlock holds the mutex.
LockInv == \A t \in Threads : pc[t] \in Section <=> mutex = t

\* No handler is registered twice, so that no call of Abort calls one twice.
NoDuplicates ==
    /\ \A i, j \in DOMAIN handlers : handlers[i] = handlers[j] => i = j
    /\ \A t \in Threads : pc[t] = "push" => adding[t] \cap Range(handlers) = {}

\* A thread that has copied the handlers owes at least those that were there
\* when Abort was called first, and has called those it has passed.
Copied(t) == depth[t] > 0 /\ pc[t] \notin {"copy_lock", "copy"}

CopyInv ==
    /\ \A t \in Threads : depth[t] > 0 => begun
    /\ \A t \in Threads : pc[t] \in {"copy_lock", "copy", "run", "handler"} => depth[t] > 0
    /\ \A t \in Threads : pc[t] \in {"copy_lock", "copy"} => next[t] = 1
    /\ owed \subseteq Range(handlers)
    /\ \A t \in Threads : Copied(t) => owed \subseteq Range(local_handlers[t])
    /\ \A t \in Threads : \A i \in DOMAIN local_handlers[t] :
          i < next[t] => local_handlers[t][i] \in called

\* When the process has aborted, each handler that was registered when some thread
\* called Abort first has been called, by whichever threads aborted after it and
\* however often a handler has called Abort itself.
RegisteredAreTold == status = "aborted" => owed \subseteq called

\* Of the threads that initialise the process, or report kRunning, one succeeds.
OnceInv ==
    /\ balance = IF initialized THEN 1 ELSE 0
    /\ accepted = IF reported THEN 1 ELSE 0

\* The inductive invariant.
IInv ==
    /\ TypeOK
    /\ LockInv
    /\ NoDuplicates
    /\ CopyInv
    /\ OnceInv
    /\ RegisteredAreTold

\* A process in which Abort is called ends, though its handlers register others,
\* wait for the mutex and abort again.
AbortEnds == (\E t \in Threads : depth[t] > 0) ~> status # "running"
=============================================================================
