---------------------------- MODULE ExecutionClient ----------------------------
(***************************************************************************)
(* ara::exec::ExecutionClient as the owner of the process's SIGTERM:       *)
(* clients are constructed, moved and destroyed by the threads of one      *)
(* process, a global points into the client whose termination handler is   *)
(* to be called, and the signal handler interrupts any thread at any       *)
(* point.  The reports that a client sends are in ExecutionManager.        *)
(*                                                                         *)
(* Termination handlers are numbered in the order in which clients are     *)
(* constructed; NoHandler is an empty std::function.                       *)
(***************************************************************************)
EXTENDS Naturals

CONSTANTS
    Threads,        \* the threads of the process
    Clients,        \* storage in which a client may live
    Nobody,         \* no thread, no client
    MaxHandlers,    \* bound: clients constructed from a termination handler
    MaxMoves,       \* bound: moves that the program itself makes
    MaxSignals      \* bound: SIGTERMs sent to the process

ASSUME ClientAssumption ==
    /\ Nobody \notin Threads \cup Clients
    /\ MaxHandlers \in Nat
    /\ MaxMoves \in Nat
    /\ MaxSignals \in Nat

NoHandler == 0

VARIABLES
    client,     \* what each storage holds
    callback,   \* g_sigterm_callback: the client whose member it points to
    action,     \* the disposition of SIGTERM
    mutex,      \* the thread that holds g_sigterm_mutex
    pc,         \* the control point of each thread
    this,       \* the client each thread constructs or destroys or moves from
    target,     \* the client each thread moves to, when it moves
    handling,   \* the control point of the signal handler on each thread
    copy,       \* the handler's local copy of the function, on each thread
    pending,    \* is SIGTERM pending
    process,    \* has the process ended, and how
    told,       \* the termination handlers that a worker thread was started for
    made, moved, sent,  \* how often the bounded things happened
    displaced,  \* history: the termination handlers that a move carried away
    newest      \* history: the termination handler that was registered last

calls == <<pc, this, target>>
moves == <<moved, displaced, newest>>
signals == <<handling, copy, pending, told, sent>>
vars == <<client, callback, action, mutex, calls, signals, process, made, moves>>

Dead == [alive |-> FALSE, handler |-> NoHandler, owns |-> FALSE]

Handlers == 0..MaxHandlers
RegisterSection == {"register", "install", "registered"}
ReleaseSection == {"compare", "default", "forget", "forgotten"}
Moving == {"moving", "hand_over"}
CallLabels == {"idle", "construct", "release", "dying"} \cup Moving
                \cup RegisterSection \cup ReleaseSection
HandlingSection == {"check", "copy", "copied"}

Init ==
    /\ client = [o \in Clients |-> Dead]
    /\ callback = Nobody
    /\ action = "SIG_DFL"
    /\ mutex = Nobody
    /\ pc = [t \in Threads |-> "idle"]
    /\ this = [t \in Threads |-> Nobody]
    /\ target = [t \in Threads |-> Nobody]
    /\ handling = [t \in Threads |-> "no"]
    /\ copy = [t \in Threads |-> NoHandler]
    /\ pending = FALSE
    /\ process = "running"
    /\ told = {}
    /\ made = 0 /\ moved = 0 /\ sent = 0
    /\ displaced = {} /\ newest = NoHandler

\* Nobody works on the client: the program's duty, as for any C++ object.
Unused(o) == \A t \in Threads : o # this[t] /\ o # target[t]

\* The thread executes its own code and not the signal handler.
Runs(t) == process = "running" /\ handling[t] = "no"

Goto(t, from, to) ==
    /\ Runs(t)
    /\ pc[t] = from
    /\ pc' = [pc EXCEPT ![t] = to]

Lock(t) == mutex = Nobody /\ mutex' = t
Unlock == mutex' = Nobody
-----------------------------------------------------------------------------
(* Construction, and Create with its temporary *)

\* The member is there, and holds the function, before the constructor locks.
BeginConstruct(t, o) ==
    /\ made < MaxHandlers
    /\ ~client[o].alive /\ Unused(o)
    /\ Goto(t, "idle", "construct")
    /\ this' = [this EXCEPT ![t] = o]
    /\ client' = [client EXCEPT ![o] =
                    [alive |-> TRUE, handler |-> made + 1, owns |-> FALSE]]
    /\ made' = made + 1
    /\ UNCHANGED <<callback, action, mutex, signals, process, moves>>

\* A client that stays where it was constructed.
Construct(t, o) ==
    /\ BeginConstruct(t, o)
    /\ UNCHANGED target

\* Create constructs a temporary, moves it into the Result, and destroys it.
Create(t, temporary, o) ==
    /\ temporary # o /\ ~client[o].alive /\ Unused(o)
    /\ BeginConstruct(t, temporary)
    /\ target' = [target EXCEPT ![t] = o]

ConstructLock(t) ==
    /\ Goto(t, "construct", "register")
    /\ Lock(t)
    /\ UNCHANGED <<client, callback, action, this, target, signals, process, made, moves>>

\* Mutant: the first client keeps the registration.
RegisterFirst(t) ==
    /\ Goto(t, "register", "install")
    /\ callback' = IF callback = Nobody THEN this[t] ELSE callback
    /\ newest' = client[this[t]].handler
    /\ UNCHANGED <<client, action, mutex, this, target, signals, process, made, moved,
                   displaced>>

Register(t) ==
    /\ Goto(t, "register", "install")
    /\ callback' = this[t]
    /\ newest' = client[this[t]].handler
    /\ UNCHANGED <<client, action, mutex, this, target, signals, process, made, moved,
                   displaced>>

Install(t) ==
    /\ Goto(t, "install", "registered")
    /\ action' = "SigtermHandler"
    /\ client' = [client EXCEPT ![this[t]].owns = TRUE]
    /\ UNCHANGED <<callback, mutex, this, target, signals, process, made, moves>>

\* The constructor returns, to its caller or to Create.
ConstructUnlock(t) ==
    /\ Goto(t, "registered", IF target[t] = Nobody THEN "idle" ELSE "hand_over")
    /\ Unlock
    /\ this' = IF target[t] = Nobody THEN [this EXCEPT ![t] = Nobody] ELSE this
    /\ UNCHANGED <<client, callback, action, target, signals, process, made, moves>>
-----------------------------------------------------------------------------
(* The defaulted move constructor and move assignment: no lock *)

\* The program moves one client into another, or into fresh storage.
Move(t, from, to) ==
    /\ moved < MaxMoves
    /\ from # to /\ client[from].alive /\ Unused(from) /\ Unused(to)
    /\ Goto(t, "idle", "moving")
    /\ this' = [this EXCEPT ![t] = from]
    /\ target' = [target EXCEPT ![t] = to]
    /\ moved' = moved + 1
    /\ UNCHANGED <<client, callback, action, mutex, signals, process, made, displaced,
                   newest>>

\* Mutant: a move takes the ownership along with the function.
MovedOwner(source) == [source EXCEPT !.handler = NoHandler, !.owns = FALSE]

\* A moved std::function leaves an empty one behind, a moved flag its value.
MovedFrom(source) == [source EXCEPT !.handler = NoHandler]

\* A destructor returns early unless owns_sigterm_handler_ is set.
DestroyFrom(dying) == IF dying.owns THEN "release" ELSE "dying"

HandOver(t, from, to) ==
    /\ client' = [client EXCEPT ![to] = client[from], ![from] = MovedFrom(client[from])]
    /\ displaced' = displaced \cup {client[from].handler}
    /\ target' = [target EXCEPT ![t] = Nobody]
    /\ UNCHANGED <<callback, action, mutex, signals, process, made, moved, newest>>

EndMove(t) ==
    /\ Goto(t, "moving", "idle")
    /\ HandOver(t, this[t], target[t])
    /\ this' = [this EXCEPT ![t] = Nobody]

\* Create's temporary dies at the end of the return statement.
EndCreate(t) ==
    /\ Goto(t, "hand_over", DestroyFrom(MovedFrom(client[this[t]])))
    /\ HandOver(t, this[t], target[t])
    /\ UNCHANGED this
-----------------------------------------------------------------------------
(* Destruction *)

BeginDestroy(t, o) ==
    /\ client[o].alive /\ Unused(o)
    /\ Goto(t, "idle", DestroyFrom(client[o]))
    /\ this' = [this EXCEPT ![t] = o]
    /\ UNCHANGED <<client, callback, action, mutex, target, signals, process, made, moves>>

DestroyLock(t) ==
    /\ Goto(t, "release", "compare")
    /\ Lock(t)
    /\ UNCHANGED <<client, callback, action, this, target, signals, process, made, moves>>

\* Mutant: a destructor unregisters whoever is registered.
AnyRegistered(o) == callback # Nobody

IsRegistered(o) == callback = o

Compare(t) ==
    /\ Goto(t, "compare", IF IsRegistered(this[t]) THEN "default" ELSE "forgotten")
    /\ UNCHANGED <<client, callback, action, mutex, this, target, signals, process,
                   made, moves>>

\* Mutant: the destructor leaves SIGTERM ignored.
Ignore(t) ==
    /\ Goto(t, "default", "forget")
    /\ action' = "SIG_IGN"
    /\ UNCHANGED <<client, callback, mutex, this, target, signals, process, made, moves>>

Default(t) ==
    /\ Goto(t, "default", "forget")
    /\ action' = "SIG_DFL"
    /\ UNCHANGED <<client, callback, mutex, this, target, signals, process, made, moves>>

Forget(t) ==
    /\ Goto(t, "forget", "forgotten")
    /\ callback' = Nobody
    /\ UNCHANGED <<client, action, mutex, this, target, signals, process, made, moves>>

DestroyUnlock(t) ==
    /\ Goto(t, "forgotten", "dying")
    /\ Unlock
    /\ UNCHANGED <<client, callback, action, this, target, signals, process, made, moves>>

\* The members are destroyed after the destructor's body.
Die(t) ==
    /\ Goto(t, "dying", "idle")
    /\ client' = [client EXCEPT ![this[t]] = Dead]
    /\ this' = [this EXCEPT ![t] = Nobody]
    /\ UNCHANGED <<callback, action, mutex, target, signals, process, made, moves>>
-----------------------------------------------------------------------------
(* SIGTERM: sent to the process, taken by any thread, handled on it *)

\* A signal that is already pending is not counted twice.
Raise ==
    /\ process = "running" /\ sent < MaxSignals
    /\ pending' = TRUE
    /\ sent' = sent + 1
    /\ UNCHANGED <<client, callback, action, mutex, calls, handling, copy, told, process,
                   made, moves>>

Taken(t) == Runs(t) /\ pending /\ pending' = FALSE

DieOfSignal(t) ==
    /\ Taken(t)
    /\ action = "SIG_DFL"
    /\ process' = "killed"
    /\ UNCHANGED <<client, callback, action, mutex, calls, handling, copy, told, sent,
                   made, moves>>

\* SIGTERM is masked on the thread until the handler returns.
Interrupt(t) ==
    /\ Taken(t)
    /\ action = "SigtermHandler"
    /\ handling' = [handling EXCEPT ![t] = "lock"]
    /\ UNCHANGED <<client, callback, action, mutex, calls, copy, told, sent, process,
                   made, moves>>

HandlerGoto(t, from, to) ==
    /\ process = "running"
    /\ handling[t] = from
    /\ handling' = [handling EXCEPT ![t] = to]
    /\ UNCHANGED <<client, callback, action, calls, pending, sent, made, moves>>

HandlerLock(t) ==
    /\ HandlerGoto(t, "lock", "check")
    /\ Lock(t)
    /\ UNCHANGED <<copy, told, process>>

HandlerCheck(t) ==
    /\ HandlerGoto(t, "check", IF callback = Nobody THEN "copied" ELSE "copy")
    /\ UNCHANGED <<mutex, copy, told, process>>

Movers(o) == {t \in Threads : pc[t] \in Moving /\ o \in {this[t], target[t]}}

HandlerCopy(t) ==
    /\ Movers(callback) = {}
    /\ HandlerGoto(t, "copy", "copied")
    /\ copy' = [copy EXCEPT ![t] = client[callback].handler]
    /\ UNCHANGED <<mutex, told, process>>

\* A move takes no lock: the function that is copied may be in the middle of
\* one, by this thread or another.  The copy is empty, one of the two
\* functions, or the process crashes.
HandlerCopyInMove(t) ==
    /\ Movers(callback) # {}
    /\ HandlerGoto(t, "copy", "copied")
    /\ \/ \E f \in {NoHandler, client[callback].handler}
                      \cup {client[this[m]].handler : m \in Movers(callback)} :
            copy' = [copy EXCEPT ![t] = f] /\ UNCHANGED process
       \/ process' = "crashed" /\ UNCHANGED copy
    /\ UNCHANGED <<mutex, told>>

\* Mutant: the handler returns without unlocking.
HandlerKeepsLock(t) ==
    /\ HandlerGoto(t, "copied", "spawn")
    /\ UNCHANGED <<mutex, copy, told, process>>

HandlerUnlock(t) ==
    /\ HandlerGoto(t, "copied", "spawn")
    /\ Unlock
    /\ UNCHANGED <<copy, told, process>>

\* A detached thread calls the copy, unless it is empty.
HandlerReturn(t) ==
    /\ HandlerGoto(t, "spawn", "no")
    /\ told' = told \cup ({copy[t]} \ {NoHandler})
    /\ copy' = [copy EXCEPT ![t] = NoHandler]
    /\ UNCHANGED <<mutex, process>>
-----------------------------------------------------------------------------
\* What a thread does by itself once it is in a call.
CallLock(t) == ConstructLock(t) \/ DestroyLock(t)
CallStep(t) ==
    \/ CallLock(t) \/ Register(t) \/ Install(t) \/ ConstructUnlock(t)
    \/ EndMove(t) \/ EndCreate(t)
    \/ Compare(t) \/ Default(t) \/ Forget(t) \/ DestroyUnlock(t) \/ Die(t)

HandlerStep(t) ==
    \/ HandlerLock(t) \/ HandlerCheck(t) \/ HandlerCopy(t) \/ HandlerCopyInMove(t)
    \/ HandlerUnlock(t) \/ HandlerReturn(t)

SignalTaken == \E t \in Threads : DieOfSignal(t) \/ Interrupt(t)

\* What the program chooses to do.
NewCall(t) ==
    \E o \in Clients :
        \/ Construct(t, o) \/ BeginDestroy(t, o)
        \/ \E p \in Clients : Create(t, o, p) \/ Move(t, o, p)

Next ==
    \/ \E t \in Threads : NewCall(t) \/ CallStep(t) \/ HandlerStep(t)
    \/ Raise \/ SignalTaken

Spec == Init /\ [][Next]_vars

\* Threads are scheduled, a pending signal is delivered, and a thread that
\* waits for a mutex which is free again and again gets it.
FairSpec ==
    /\ Spec
    /\ WF_vars(SignalTaken)
    /\ \A t \in Threads :
        /\ WF_vars(CallStep(t)) /\ WF_vars(HandlerStep(t))
        /\ SF_vars(CallLock(t)) /\ SF_vars(HandlerLock(t))
-----------------------------------------------------------------------------
(* Properties *)

TypeOK ==
    /\ client \in [Clients -> [alive : BOOLEAN, handler : Handlers, owns : BOOLEAN]]
    /\ callback \in Clients \cup {Nobody}
    /\ action \in {"SIG_DFL", "SigtermHandler"}
    /\ mutex \in Threads \cup {Nobody}
    /\ pc \in [Threads -> CallLabels]
    /\ this \in [Threads -> Clients \cup {Nobody}]
    /\ target \in [Threads -> Clients \cup {Nobody}]
    /\ handling \in [Threads -> {"no", "lock", "spawn"} \cup HandlingSection]
    /\ copy \in [Threads -> Handlers]
    /\ pending \in BOOLEAN
    /\ process \in {"running", "killed", "crashed"}
    /\ told \subseteq Handlers
    /\ made \in 0..MaxHandlers /\ moved \in 0..MaxMoves /\ sent \in 0..MaxSignals
    /\ displaced \subseteq Handlers /\ newest \in Handlers

\* The address in the global is that of a client which is alive, whatever was
\* moved and destroyed, and the signal handler reads through it only then.
CallbackAlive ==
    /\ callback # Nobody => client[callback].alive
    /\ \A t \in Threads : handling[t] = "copy" => callback # Nobody

Settled(o) == client[o].alive /\ client[o].handler # NoHandler /\ Unused(o)

\* The client that registered last, if it stays where it was constructed, is the
\* one SIGTERM is for, whatever becomes of the others.
NewestRegistered ==
    \A o \in Clients :
        Settled(o) /\ client[o].handler = newest /\ newest \notin displaced =>
            callback = o /\ action = "SigtermHandler"

\* The inductive invariant, in parts.
MutexInv ==
    \A t \in Threads :
        /\ mutex = t <=> pc[t] \in RegisterSection \cup ReleaseSection
                            \/ handling[t] \in HandlingSection
        /\ pc[t] \in RegisterSection \cup ReleaseSection =>
                handling[t] \notin HandlingSection

\* What a thread's control point says of the clients it works on.
CallInv ==
    \A t \in Threads :
        /\ this[t] = Nobody <=> pc[t] = "idle"
        /\ this[t] # Nobody => client[this[t]].alive /\ this[t] # target[t]
        /\ pc[t] \in Moving => target[t] # Nobody
        /\ pc[t] \in {"idle", "release", "dying"} \cup ReleaseSection =>
                target[t] = Nobody

\* No two threads work on one client.
SeparateInv ==
    \A t, u \in Threads : t # u =>
        /\ this[t] # Nobody => this[t] # this[u] /\ this[t] # target[u]
        /\ target[t] # Nobody => target[t] # target[u]

\* Every client is the owner of the handler once it is constructed.
OwnsInv ==
    \A o \in Clients : client[o].alive =>
        \/ client[o].owns
        \/ \E t \in Threads : this[t] = o /\ pc[t] \in {"construct", "register", "install"}

CallbackInv ==
    /\ CallbackAlive
    /\ \A t \in Threads :
        /\ pc[t] \in {"install", "registered", "default", "forget"} => callback = this[t]
        /\ pc[t] \in {"forgotten", "dying"} => callback # this[t]
    /\ (callback # Nobody /\ \A t \in Threads : pc[t] \notin {"install", "forget"}) =>
            action = "SigtermHandler"

\* A termination handler is in one client at most.
HandlerInv ==
    /\ newest <= made
    /\ \A o \in Clients :
        /\ client[o].handler <= made
        /\ \A p \in Clients \ {o} :
                client[o].handler = client[p].handler => client[o].handler = NoHandler

IInv ==
    /\ TypeOK /\ MutexInv /\ CallInv /\ SeparateInv /\ OwnsInv /\ CallbackInv
    /\ HandlerInv /\ NewestRegistered

\* A thread waits in the signal handler for the mutex that it holds itself.
Wedged == \E t \in Threads : mutex = t /\ handling[t] = "lock"

\* The signal handler returns, except on a thread it interrupted while that
\* thread held the mutex.
HandlerReturns ==
    \A t \in Threads :
        handling[t] # "no" ~> handling[t] = "no" \/ process # "running" \/ Wedged

\* No call is in progress, and the newest client is settled where it was made.
NewestUndisturbed(n) ==
    /\ newest = n /\ n \notin displaced
    /\ \A t \in Threads : pc[t] = "idle"
    /\ \E o \in Clients : Settled(o) /\ client[o].handler = n

\* A SIGTERM that is sent while the newest client is left in peace makes its
\* termination handler run.
NewestIsTold ==
    \A n \in 1..MaxHandlers :
        pending /\ process = "running" /\ NewestUndisturbed(n)
            ~> n \in told \/ ~NewestUndisturbed(n)

\* A process that holds a client with a termination handler, and is not busy with
\* one, is not killed by SIGTERM: the applications end their loops, and clean up,
\* in that handler.
ToldNotKilled ==
    process = "killed" /\ (\A t \in Threads : pc[t] = "idle") =>
        \A o \in Clients : ~Settled(o)
=============================================================================
