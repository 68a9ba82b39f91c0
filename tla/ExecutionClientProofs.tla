------------------------- MODULE ExecutionClientProofs -------------------------
(***************************************************************************)
(* Safety of ExecutionClient, proved for any number of threads, clients,   *)
(* moves and signals.  There is one lemma for every part of the inductive  *)
(* invariant; the steps of the signal, which touch no client, are dealt    *)
(* with together.                                                          *)
(***************************************************************************)
EXTENDS ExecutionClient, TLAPS

\* What the signal and its handler leave alone.
LEMMA SignalFrame ==
    ASSUME Raise \/ SignalTaken \/ \E t \in Threads : HandlerStep(t)
    PROVE  UNCHANGED <<client, callback, action, calls, made, moves>>
  BY DEF SignalTaken, DieOfSignal, Interrupt, HandlerStep, HandlerGoto, Raise,
     HandlerLock, HandlerCheck, HandlerCopy, HandlerCopyInMove, HandlerUnlock, HandlerReturn

\* Calls leave the signal handler alone, and run only outside it.
LEMMA CallFrame ==
    ASSUME NEW t \in Threads, NewCall(t) \/ CallStep(t)
    PROVE  handling[t] = "no" /\ UNCHANGED <<signals, process>>
  BY DEF NewCall, Construct, Create, BeginConstruct, Move, BeginDestroy, CallStep, CallLock,
     ConstructLock, Register, Install, ConstructUnlock, EndMove, EndCreate, HandOver,
     DestroyLock, Compare, Default, Forget, DestroyUnlock, Die, Goto, Runs

-----------------------------------------------------------------------------
ClientType == [alive : BOOLEAN, handler : Handlers, owns : BOOLEAN]

LEMMA CallClientType ==
    ASSUME TypeOK, CallInv, NEW t \in Threads, NewCall(t) \/ CallStep(t)
    PROVE  client' \in [Clients -> ClientType]
<1> USE ClientAssumption DEF Handlers, NoHandler, ClientType, TypeOK
<1>1. ASSUME NEW o \in Clients, BeginConstruct(t, o)
      PROVE  client' \in [Clients -> ClientType]
  <2>1. [alive |-> TRUE, handler |-> made + 1, owns |-> FALSE] \in ClientType
    BY <1>1 DEF BeginConstruct
  <2> QED
    BY <1>1, <2>1 DEF BeginConstruct
<1>2. ASSUME pc[t] \in Moving, HandOver(t, this[t], target[t])
      PROVE  client' \in [Clients -> ClientType]
  <2>1. this[t] \in Clients /\ target[t] \in Clients
    BY <1>2 DEF CallInv, Moving
  <2>2. client[this[t]] \in ClientType /\ MovedFrom(client[this[t]]) \in ClientType
    BY <2>1 DEF MovedFrom
  <2> QED
    BY <1>2, <2>1, <2>2 DEF HandOver
<1>3. CASE Die(t)
  <2>1. Dead \in ClientType
    BY DEF Dead
  <2> QED
    BY <1>3, <2>1 DEF Die
<1>4. CASE Install(t)
  <2>1. this[t] \in Clients
    BY <1>4 DEF Install, Goto, CallInv
  <2>2. [client[this[t]] EXCEPT !.owns = TRUE] \in ClientType
    BY <2>1
  <2> QED
    BY <1>4, <2>1, <2>2 DEF Install
<1> QED
  BY <1>1, <1>2, <1>3, <1>4
     DEF NewCall, Construct, Create, Move, BeginDestroy, CallStep, CallLock, ConstructLock,
         Register, ConstructUnlock, EndMove, EndCreate, DestroyLock,
         Compare, Default, Forget, DestroyUnlock, Goto, Moving

LEMMA CallType ==
    ASSUME TypeOK, CallInv, NEW t \in Threads, NewCall(t) \/ CallStep(t)
    PROVE  TypeOK'
<1> USE ClientAssumption
<1>1. client' \in [Clients -> ClientType]
  BY CallClientType
<1>2. UNCHANGED <<signals, process>>
  BY CallFrame
<1>3. /\ pc' \in [Threads -> CallLabels]
      /\ this' \in [Threads -> Clients \cup {Nobody}]
      /\ target' \in [Threads -> Clients \cup {Nobody}]
  BY DEF TypeOK, CallLabels, RegisterSection, ReleaseSection, Moving, Goto,
     NewCall, Construct, Create, BeginConstruct, Move, BeginDestroy, DestroyFrom, CallStep,
     CallLock, ConstructLock, Register, Install, ConstructUnlock, EndMove, EndCreate, HandOver,
     DestroyLock, Compare, Default, Forget, DestroyUnlock, Die
<1>4. /\ callback' \in Clients \cup {Nobody}
      /\ action' \in {"SIG_DFL", "SigtermHandler"}
      /\ mutex' \in Threads \cup {Nobody}
  BY DEF TypeOK, NewCall, Construct, Create, BeginConstruct, Move, BeginDestroy, CallStep,
     CallLock, ConstructLock, Register, Install, ConstructUnlock, EndMove, EndCreate,
     HandOver, DestroyLock, Compare, Default, Forget, DestroyUnlock, Die,
     Lock, Unlock
<1>5. made' \in 0..MaxHandlers /\ moved' \in 0..MaxMoves
  BY DEF TypeOK, NewCall, Construct, Create, BeginConstruct, Move, BeginDestroy, CallStep,
     CallLock, ConstructLock, Register, Install, ConstructUnlock, EndMove, EndCreate,
     HandOver, DestroyLock, Compare, Default, Forget, DestroyUnlock, Die,
     moves
<1>6. displaced' \subseteq Handlers /\ newest' \in Handlers
  <2>1. \A o \in Clients : client[o].handler \in Handlers
    BY DEF TypeOK
  <2>2. pc[t] # "idle" => this[t] \in Clients
    BY DEF TypeOK, CallInv
  <2>3. CASE Register(t) \/ EndMove(t) \/ EndCreate(t)
    BY <2>1, <2>2, <2>3 DEF TypeOK, Register, EndMove, EndCreate, HandOver, Goto
  <2>4. CASE ~(Register(t) \/ EndMove(t) \/ EndCreate(t))
    <3>1. UNCHANGED <<displaced, newest>>
      BY <2>4 DEF NewCall, Construct, Create, BeginConstruct, Move, BeginDestroy, CallStep,
         CallLock, ConstructLock, Install, ConstructUnlock, DestroyLock,
         Compare, Default, Forget, DestroyUnlock, Die, moves
    <3> QED
      BY <3>1 DEF TypeOK
  <2> QED
    BY <2>3, <2>4
<1> QED
  BY <1>1, <1>2, <1>3, <1>4, <1>5, <1>6 DEF TypeOK, ClientType, signals

LEMMA HandlerType ==
    ASSUME TypeOK, CallInv, CallbackInv, NEW t \in Threads, HandlerStep(t)
    PROVE  TypeOK'
<1>1. UNCHANGED <<client, callback, action, calls, made, moves, pending, sent>>
  BY DEF HandlerStep, HandlerGoto, HandlerLock, HandlerCheck, HandlerCopy,
     HandlerCopyInMove, HandlerUnlock, HandlerReturn
<1>2. handling' \in [Threads -> {"no", "lock", "spawn"} \cup HandlingSection]
  BY DEF TypeOK, HandlerStep, HandlerGoto, HandlerLock, HandlerCheck, HandlerCopy,
     HandlerCopyInMove, HandlerUnlock, HandlerReturn, HandlingSection
<1>3. /\ mutex' \in Threads \cup {Nobody} /\ told' \subseteq Handlers
      /\ process' \in {"running", "killed", "crashed"}
  BY DEF TypeOK, HandlerStep, HandlerLock, HandlerCheck, HandlerCopy, HandlerCopyInMove,
     HandlerUnlock, HandlerReturn, Lock, Unlock
<1>4. NoHandler \in Handlers
  BY ClientAssumption DEF NoHandler, Handlers
<1>5. \A o \in Clients : client[o].handler \in Handlers
  BY DEF TypeOK
<1>6. handling[t] = "copy" => callback \in Clients
  BY DEF TypeOK, CallbackInv, CallbackAlive
<1>7. \A m \in Movers(callback) : client[this[m]].handler \in Handlers
  BY <1>5 DEF TypeOK, CallInv, Movers, Moving
<1>8. copy' \in [Threads -> Handlers]
  <2>1. CASE HandlerCopy(t)
    BY <2>1, <1>5, <1>6 DEF TypeOK, HandlerCopy, HandlerGoto
  <2>2. CASE HandlerCopyInMove(t)
    BY <2>2, <1>4, <1>5, <1>6, <1>7 DEF TypeOK, HandlerCopyInMove, HandlerGoto
  <2>3. CASE HandlerReturn(t)
    BY <2>3, <1>4 DEF TypeOK, HandlerReturn
  <2> QED
    BY <2>1, <2>2, <2>3 DEF HandlerStep, HandlerLock, HandlerCheck, HandlerUnlock, TypeOK
<1> QED
  BY <1>1, <1>2, <1>3, <1>8 DEF TypeOK, calls, moves

LEMMA TypeStep == TypeOK /\ CallInv /\ CallbackInv /\ [Next]_vars => TypeOK'
<1>1. UNCHANGED vars /\ TypeOK => TypeOK'
  BY DEF vars, calls, signals, moves, TypeOK
<1>2. Raise /\ TypeOK => TypeOK'
  BY ClientAssumption DEF Raise, calls, moves, TypeOK
<1>3. SignalTaken /\ TypeOK => TypeOK'
  BY DEF SignalTaken, DieOfSignal, Interrupt, Taken, calls, moves, TypeOK
<1> QED
  BY <1>1, <1>2, <1>3, CallType, HandlerType DEF Next
-----------------------------------------------------------------------------
(* Who holds the mutex *)

LEMMA MutexStep == TypeOK /\ MutexInv /\ [Next]_vars => MutexInv'
<1> SUFFICES ASSUME TypeOK, MutexInv, [Next]_vars PROVE MutexInv'
  OBVIOUS
<1> USE ClientAssumption
    DEF TypeOK, MutexInv, RegisterSection, ReleaseSection, HandlingSection
<1>1. CASE UNCHANGED vars \/ Raise \/ SignalTaken
  BY <1>1 DEF vars, calls, signals, Raise, SignalTaken, DieOfSignal, Interrupt, Taken, Runs
<1>2. ASSUME NEW t \in Threads, HandlerStep(t) PROVE MutexInv'
  BY <1>2 DEF HandlerStep, HandlerGoto, HandlerLock, HandlerCheck, HandlerCopy,
     HandlerCopyInMove, HandlerUnlock, HandlerReturn, Lock, Unlock, calls
<1>3. ASSUME NEW t \in Threads,
             NewCall(t) \/ EndMove(t) \/ EndCreate(t) \/ Die(t)
      PROVE  MutexInv'
  BY <1>3 DEF NewCall, Construct, Create, BeginConstruct, Move, BeginDestroy, DestroyFrom, EndMove,
     EndCreate, HandOver, Die, Goto, Runs, signals
<1>4. ASSUME NEW t \in Threads,
             ConstructLock(t) \/ Register(t) \/ Install(t) \/ ConstructUnlock(t)
      PROVE  MutexInv'
  BY <1>4 DEF ConstructLock, Register, Install, ConstructUnlock, Lock, Unlock, Goto, Runs,
     signals
<1>5. ASSUME NEW t \in Threads,
             DestroyLock(t) \/ Compare(t) \/ Default(t) \/ Forget(t) \/ DestroyUnlock(t)
      PROVE  MutexInv'
  BY <1>5 DEF DestroyLock, Compare, Default, Forget, DestroyUnlock, Lock, Unlock, Goto,
     Runs, signals
<1> QED
  BY <1>1, <1>2, <1>3, <1>4, <1>5 DEF Next, CallStep, CallLock

-----------------------------------------------------------------------------
(* What the threads work on *)

LEMMA CallsSeparate ==
    ASSUME TypeOK, CallInv, SeparateInv, NEW t \in Threads, NewCall(t) \/ CallStep(t)
    PROVE  SeparateInv'
<1> USE ClientAssumption DEF TypeOK, CallInv, SeparateInv
<1>1. ASSUME NEW o \in Clients, NEW p \in Clients,
             Construct(t, o) \/ Create(t, o, p) \/ Move(t, o, p) \/ BeginDestroy(t, o)
      PROVE  SeparateInv'
  BY <1>1 DEF Construct, Create, BeginConstruct, Move, BeginDestroy, DestroyFrom, Unused, Goto
<1>2. CASE CallStep(t)
  <2>1. \A u \in Threads \ {t} : this'[u] = this[u] /\ target'[u] = target[u]
    BY <1>2 DEF CallStep, CallLock, ConstructLock, Register, Install, ConstructUnlock,
       EndMove, EndCreate, HandOver, DestroyLock, Compare, Default, Forget,
       DestroyUnlock, Die
  <2>2. this'[t] \in {this[t], Nobody} /\ target'[t] \in {target[t], Nobody}
    BY <1>2 DEF CallStep, CallLock, ConstructLock, Register, Install, ConstructUnlock,
       EndMove, EndCreate, HandOver, DestroyLock, Compare, Default, Forget,
       DestroyUnlock, Die
  <2> QED
    BY <2>1, <2>2
<1> QED
  BY <1>1, <1>2 DEF NewCall

LEMMA CallsKnown ==
    ASSUME TypeOK, CallInv, SeparateInv, NEW t \in Threads, NewCall(t) \/ CallStep(t)
    PROVE  CallInv'
<1> USE ClientAssumption DEF TypeOK, CallInv, SeparateInv, Moving, ReleaseSection
<1>1. ASSUME NEW o \in Clients, NEW p \in Clients, Construct(t, o) \/ Create(t, o, p)
      PROVE  CallInv'
  BY <1>1 DEF Construct, Create, BeginConstruct, Unused, Goto
<1>2. ASSUME NEW o \in Clients, NEW p \in Clients, Move(t, o, p) \/ BeginDestroy(t, o)
      PROVE  CallInv'
  BY <1>2 DEF Move, BeginDestroy, DestroyFrom, Unused, Goto
<1>3. CASE ConstructLock(t) \/ Register(t) \/ Install(t) \/ ConstructUnlock(t)
  BY <1>3 DEF ConstructLock, Register, Install, ConstructUnlock, Goto
<1>4. CASE EndMove(t) \/ EndCreate(t)
  BY <1>4 DEF EndMove, EndCreate, HandOver, MovedFrom, DestroyFrom, Goto
<1>5. CASE Die(t)
  BY <1>5 DEF Die, Dead, Goto
<1>6. CASE \/ DestroyLock(t) \/ Compare(t)
           \/ Default(t) \/ Forget(t) \/ DestroyUnlock(t)
  BY <1>6 DEF DestroyLock, Compare, Default, Forget, DestroyUnlock, Goto
<1> QED
  BY <1>1, <1>2, <1>3, <1>4, <1>5, <1>6 DEF NewCall, CallStep, CallLock

\* After construction a client owns the handler, and so does what it is moved to.
LEMMA CallsOwned ==
    ASSUME TypeOK, CallInv, SeparateInv, OwnsInv, NEW t \in Threads, NewCall(t) \/ CallStep(t)
    PROVE  OwnsInv'
<1> USE ClientAssumption DEF TypeOK, CallInv, SeparateInv, OwnsInv
<1>1. ASSUME NEW o \in Clients, NEW p \in Clients, Construct(t, o) \/ Create(t, o, p)
      PROVE  OwnsInv'
  <2>1. pc[t] = "idle" /\ this[t] = Nobody
    BY <1>1 DEF Construct, Create, BeginConstruct, Goto
  <2>2. this'[t] = o /\ pc'[t] = "construct"
    BY <1>1 DEF Construct, Create, BeginConstruct, Goto
  <2>3. /\ \A u \in Threads \ {t} : this'[u] = this[u] /\ pc'[u] = pc[u]
        /\ \A q \in Clients \ {o} : client'[q] = client[q]
    BY <1>1 DEF Construct, Create, BeginConstruct, Goto
  <2> QED
    BY <2>1, <2>2, <2>3
<1>2. ASSUME NEW o \in Clients, NEW p \in Clients, Move(t, o, p) \/ BeginDestroy(t, o)
      PROVE  OwnsInv'
  BY <1>2 DEF Move, BeginDestroy, DestroyFrom, Unused, Goto
<1>3. CASE ConstructLock(t) \/ Register(t) \/ Install(t) \/ ConstructUnlock(t)
  BY <1>3 DEF ConstructLock, Register, Install, ConstructUnlock, Goto
<1>4. CASE EndMove(t) \/ EndCreate(t)
  <2> DEFINE from == this[t]  to == target[t]
  <2>1. from \in Clients /\ to \in Clients /\ from # to /\ client[from].alive /\ pc[t] \in Moving
    BY <1>4 DEF EndMove, EndCreate, Goto, Moving
  <2>2. client[from].owns
    BY <2>1 DEF Moving
  <2>3. client'[from].owns /\ client'[to].owns
    BY <1>4, <2>1, <2>2 DEF EndMove, EndCreate, HandOver, MovedFrom
  <2>4. \A q \in Clients \ {from, to} : client'[q] = client[q]
    BY <1>4, <2>1 DEF EndMove, EndCreate, HandOver
  <2>5. \A u \in Threads \ {t} : this'[u] = this[u] /\ pc'[u] = pc[u]
    BY <1>4 DEF EndMove, EndCreate, HandOver, DestroyFrom, Goto
  <2>6. ASSUME NEW q \in Clients \ {from, to}, client'[q].alive
        PROVE  \/ client'[q].owns
               \/ \E u \in Threads :
                     this'[u] = q /\ pc'[u] \in {"construct", "register", "install"}
    BY <2>4, <2>5, <2>6
  <2> QED
    BY <2>3, <2>6
<1>5. CASE Die(t)
  BY <1>5 DEF Die, Dead, Goto
<1>6. CASE \/ DestroyLock(t) \/ Compare(t)
           \/ Default(t) \/ Forget(t) \/ DestroyUnlock(t)
  BY <1>6 DEF DestroyLock, Compare, Default, Forget, DestroyUnlock, Goto
<1> QED
  BY <1>1, <1>2, <1>3, <1>4, <1>5, <1>6 DEF NewCall, CallStep, CallLock
-----------------------------------------------------------------------------
(* The global, and the function a client holds *)

\* Whoever is in the section of the mutex is alone there.
LEMMA Alone ==
    ASSUME MutexInv, NEW t \in Threads, pc[t] \in RegisterSection \cup ReleaseSection
    PROVE  \A u \in Threads \ {t} :
               /\ pc[u] \notin RegisterSection \cup ReleaseSection
               /\ handling[u] \notin HandlingSection
  BY DEF MutexInv

LEMMA CallsCallback ==
    ASSUME TypeOK, MutexInv, CallInv, SeparateInv, OwnsInv, CallbackInv,
           NEW t \in Threads, NewCall(t) \/ CallStep(t)
    PROVE  CallbackInv'
<1> USE ClientAssumption DEF TypeOK, CallInv, CallbackInv, CallbackAlive
<1>0. UNCHANGED handling
  BY CallFrame DEF signals
<1>1. ASSUME NEW o \in Clients, NEW p \in Clients, Construct(t, o) \/ Create(t, o, p)
      PROVE  CallbackInv'
  <2>1. /\ UNCHANGED <<callback, action>>
        /\ ~client[o].alive
        /\ \A q \in Clients \ {o} : client'[q] = client[q]
    BY <1>1 DEF Construct, Create, BeginConstruct
  <2>2. CallbackAlive'
    BY <1>0, <2>1
  <2>3. /\ pc[t] = "idle" /\ pc'[t] = "construct"
        /\ \A u \in Threads \ {t} : pc'[u] = pc[u] /\ this'[u] = this[u]
    BY <1>1 DEF Construct, Create, BeginConstruct, Goto
  <2> QED
    BY <2>1, <2>2, <2>3
<1>2. ASSUME NEW o \in Clients, NEW p \in Clients, Move(t, o, p) \/ BeginDestroy(t, o)
      PROVE  CallbackInv'
  <2>1. CASE Move(t, o, p)
    BY <1>0, <2>1 DEF Move, Unused, Goto
  <2>2. CASE BeginDestroy(t, o)
    <3>1. client[o].owns
      BY <2>2 DEF BeginDestroy, OwnsInv, Unused
    <3> QED
      BY <1>0, <2>2, <3>1 DEF BeginDestroy, DestroyFrom, Goto
  <2> QED
    BY <1>2, <2>1, <2>2
<1>3. CASE ConstructLock(t) \/ DestroyLock(t)
  BY <1>0, <1>3 DEF ConstructLock, DestroyLock, Goto
<1>4. CASE Register(t) \/ Install(t) \/ ConstructUnlock(t)
  BY <1>0, <1>4, Alone DEF Register, Install, ConstructUnlock, Goto, RegisterSection,
     ReleaseSection, SeparateInv
<1>5. CASE EndMove(t) \/ EndCreate(t)
  <2>1. this[t] \in Clients /\ target[t] \in Clients /\ pc[t] \in Moving
    BY <1>5 DEF EndMove, EndCreate, Goto, Moving
  <2>2. MovedFrom(client[this[t]]).owns
    <3>1. ~\E u \in Threads :
              this[u] = this[t] /\ pc[u] \in {"construct", "register", "install"}
      BY <2>1 DEF SeparateInv, Moving
    <3>2. client[this[t]].owns
      BY <2>1, <3>1 DEF OwnsInv
    <3> QED
      BY <2>1, <3>2 DEF MovedFrom
  <2>3. pc'[t] \in {"idle", "release"} /\ \A u \in Threads \ {t} : pc'[u] = pc[u]
    BY <1>5, <2>2 DEF EndMove, EndCreate, DestroyFrom, Goto
  <2>4. UNCHANGED <<callback, action>> /\ \A u \in Threads \ {t} : this'[u] = this[u]
    BY <1>5 DEF EndMove, EndCreate, HandOver
  <2>5. CallbackAlive'
    BY <1>0, <1>5, <2>1, <2>4 DEF EndMove, EndCreate, HandOver, MovedFrom
  <2> QED
    BY <2>1, <2>3, <2>4, <2>5 DEF Moving
<1>6. CASE Compare(t) \/ Default(t) \/ Forget(t)
  <2>1. \A u \in Threads \ {t} :
            /\ pc[u] \notin RegisterSection \cup ReleaseSection
            /\ handling[u] \notin HandlingSection
    BY <1>6, Alone DEF Compare, Default, Forget, Goto, ReleaseSection
  <2>2. handling[t] = "no"
    BY CallFrame
  <2>3. CASE Compare(t)
    BY <1>0, <2>1, <2>3 DEF Compare, IsRegistered, Goto
  <2>4. CASE Default(t)
    BY <1>0, <2>1, <2>4 DEF Default, Goto
  <2>5. CASE Forget(t)
    BY <1>0, <2>1, <2>2, <2>5 DEF Forget, Goto, RegisterSection, ReleaseSection,
       HandlingSection
  <2> QED
    BY <1>6, <2>3, <2>4, <2>5
<1>7. CASE DestroyUnlock(t) \/ Die(t)
  BY <1>0, <1>7 DEF DestroyUnlock, Die, Goto
<1> QED
  BY <1>1, <1>2, <1>3, <1>4, <1>5, <1>6, <1>7 DEF NewCall, CallStep, CallLock

LEMMA CallsHandler ==
    ASSUME TypeOK, CallInv, HandlerInv, NEW t \in Threads, NewCall(t) \/ CallStep(t)
    PROVE  HandlerInv'
<1> USE ClientAssumption DEF TypeOK, CallInv, HandlerInv, NoHandler, Handlers
<1>1. ASSUME NEW o \in Clients, NEW p \in Clients, Construct(t, o) \/ Create(t, o, p)
      PROVE  HandlerInv'
  <2>1. made' = made + 1 /\ newest' = newest /\ client'[o].handler = made + 1
    BY <1>1 DEF Construct, Create, BeginConstruct, moves
  <2>2. \A q \in Clients \ {o} : client'[q] = client[q]
    BY <1>1 DEF Construct, Create, BeginConstruct
  <2>3. \A q \in Clients \ {o} :
            client'[q].handler <= made /\ client'[q].handler # client'[o].handler
    BY <2>1, <2>2
  <2> QED
    BY <2>1, <2>2, <2>3
<1>2. ASSUME NEW o \in Clients, NEW p \in Clients, Move(t, o, p) \/ BeginDestroy(t, o)
      PROVE  HandlerInv'
  BY <1>2 DEF Move, BeginDestroy, moves
<1>3. CASE ConstructLock(t) \/ Register(t) \/ ConstructUnlock(t)
  BY <1>3 DEF ConstructLock, Register, ConstructUnlock, Goto, moves
<1>4. CASE Install(t)
  BY <1>4 DEF Install, Goto, moves
<1>5. CASE EndMove(t) \/ EndCreate(t)
  <2> DEFINE from == this[t]  to == target[t]
  <2>1. from \in Clients /\ to \in Clients /\ from # to
    BY <1>5 DEF EndMove, EndCreate, Goto, Moving
  <2>2. client'[to].handler = client[from].handler /\ client'[from].handler = NoHandler
    BY <1>5, <2>1 DEF EndMove, EndCreate, HandOver, MovedFrom
  <2>3. \A q \in Clients \ {from, to} : client'[q] = client[q]
    BY <1>5, <2>1 DEF EndMove, EndCreate, HandOver
  <2>4. UNCHANGED <<made, newest>>
    BY <1>5 DEF EndMove, EndCreate, HandOver
  <2>5. \A q \in Clients : client'[q].handler <= made
    BY <2>1, <2>2, <2>3
  <2>6. \A q \in Clients \ {from, to} :
            client'[q].handler = client[from].handler => client'[q].handler = NoHandler
    BY <2>1, <2>3
  <2>7. ASSUME NEW q \in Clients, NEW r \in Clients \ {q},
               client'[q].handler = client'[r].handler
        PROVE  client'[q].handler = NoHandler
    BY <2>2, <2>3, <2>6, <2>7
  <2> QED
    BY <2>4, <2>5, <2>7
<1>6. CASE Die(t)
  BY <1>6 DEF Die, Dead, Goto, moves
<1>7. CASE \/ DestroyLock(t) \/ Compare(t)
           \/ Default(t) \/ Forget(t) \/ DestroyUnlock(t)
  BY <1>7 DEF DestroyLock, Compare, Default, Forget, DestroyUnlock, moves
<1> QED
  BY <1>1, <1>2, <1>3, <1>4, <1>5, <1>6, <1>7 DEF NewCall, CallStep, CallLock

\* Registration overrules the others, destruction compares addresses, and a move
\* takes the function out of the property's sight.
LEMMA CallsNewest ==
    ASSUME IInv, NEW t \in Threads, NewCall(t) \/ CallStep(t)
    PROVE  NewestRegistered'
<1> USE ClientAssumption
    DEF IInv, TypeOK, CallInv, HandlerInv, NewestRegistered, Settled, Unused, NoHandler
<1>1. ASSUME NEW o \in Clients, NEW p \in Clients, Construct(t, o) \/ Create(t, o, p)
      PROVE  NewestRegistered'
  BY <1>1 DEF Construct, Create, BeginConstruct, Goto, moves
<1>2. ASSUME NEW o \in Clients, NEW p \in Clients, Move(t, o, p) \/ BeginDestroy(t, o)
      PROVE  NewestRegistered'
  BY <1>2 DEF Move, BeginDestroy, DestroyFrom, Goto, moves
<1>3. CASE ConstructLock(t) \/ DestroyLock(t) \/ Compare(t) \/ DestroyUnlock(t)
  BY <1>3 DEF ConstructLock, DestroyLock, Compare, DestroyUnlock, moves
<1>4. CASE Register(t)
  BY <1>4 DEF Register, Goto
<1>5. CASE Install(t)
  BY <1>5 DEF Install, Goto, moves
<1>6. CASE ConstructUnlock(t)
  BY <1>6, Alone DEF ConstructUnlock, Goto, moves, CallbackInv, RegisterSection,
     ReleaseSection
<1>7. CASE EndMove(t) \/ EndCreate(t)
  <2> DEFINE from == this[t]  to == target[t]
  <2>1. from \in Clients /\ to \in Clients /\ from # to
    BY <1>7 DEF EndMove, EndCreate, Goto, Moving
  <2>2. client'[to].handler = client[from].handler /\ client'[from].handler = NoHandler
    BY <1>7, <2>1 DEF EndMove, EndCreate, HandOver, MovedFrom
  <2>3. \A q \in Clients \ {from, to} : client'[q] = client[q]
    BY <1>7, <2>1 DEF EndMove, EndCreate, HandOver
  <2>4. /\ displaced' = displaced \cup {client[from].handler}
        /\ UNCHANGED <<callback, action, newest>>
    BY <1>7 DEF EndMove, EndCreate, HandOver
  <2>5. \A q \in Clients \ {from, to} : Unused(q)' => Unused(q)
    BY <1>7 DEF EndMove, EndCreate, HandOver
  <2> QED
    BY <2>1, <2>2, <2>3, <2>4, <2>5
<1>8. CASE Default(t) \/ Forget(t)
  BY <1>8 DEF Default, Forget, Goto, CallbackInv, moves
<1>9. CASE Die(t)
  BY <1>9 DEF Die, Dead, Goto, moves
<1> QED
  BY <1>1, <1>2, <1>3, <1>4, <1>5, <1>6, <1>7, <1>8, <1>9 DEF NewCall, CallStep, CallLock
-----------------------------------------------------------------------------
(* The invariant *)

LEMMA InvInit == Init => IInv
<1> SUFFICES ASSUME Init PROVE IInv
  OBVIOUS
<1> USE ClientAssumption
    DEF Init, Dead, NoHandler, Handlers, RegisterSection, ReleaseSection, HandlingSection,
        Moving, CallLabels
<1>1. TypeOK
  <2>1. Dead \in [alive : BOOLEAN, handler : Handlers, owns : BOOLEAN]
    OBVIOUS
  <2>2. client \in [Clients -> [alive : BOOLEAN, handler : Handlers, owns : BOOLEAN]]
    BY ONLY <2>1, Init DEF Init
  <2>3. newest \in Handlers /\ NoHandler \in Handlers
    OBVIOUS
  <2>4. copy \in [Threads -> Handlers]
    BY <2>3
  <2>5. /\ pc \in [Threads -> CallLabels]
        /\ handling \in [Threads -> {"no", "lock", "spawn"} \cup HandlingSection]
    OBVIOUS
  <2>6. /\ this \in [Threads -> Clients \cup {Nobody}]
        /\ target \in [Threads -> Clients \cup {Nobody}]
    OBVIOUS
  <2>7. /\ made \in 0..MaxHandlers /\ moved \in 0..MaxMoves /\ sent \in 0..MaxSignals
        /\ told \subseteq Handlers /\ displaced \subseteq Handlers
    OBVIOUS
  <2> QED
    BY ONLY <2>2, <2>3, <2>4, <2>5, <2>6, <2>7, Init DEF TypeOK, Init
<1>2. MutexInv /\ CallInv /\ SeparateInv
  BY DEF MutexInv, CallInv, SeparateInv
<1>3. OwnsInv /\ CallbackInv /\ HandlerInv /\ NewestRegistered
  BY DEF OwnsInv, CallbackInv, CallbackAlive, HandlerInv, NewestRegistered, Settled
<1> QED
  BY <1>1, <1>2, <1>3 DEF IInv

\* The handler finds the global set when it tests it, and nobody clears it
\* while the handler holds the mutex.
LEMMA SignalStep ==
    ASSUME IInv,
           Raise \/ SignalTaken \/ \E t \in Threads : HandlerStep(t)
    PROVE  CallInv' /\ SeparateInv' /\ OwnsInv' /\ CallbackInv' /\ HandlerInv'
              /\ NewestRegistered'
<1>1. UNCHANGED <<client, callback, action, pc, this, target, made, displaced, newest>>
  BY SignalFrame DEF calls, moves
<1>2. CallInv' /\ SeparateInv' /\ OwnsInv' /\ HandlerInv' /\ NewestRegistered'
  BY <1>1 DEF IInv, CallInv, SeparateInv, OwnsInv, HandlerInv, NewestRegistered, Settled,
     Unused
<1>3. \A t \in Threads : handling'[t] = "copy" => handling[t] = "copy" \/ callback # Nobody
  BY DEF IInv, TypeOK, Raise, SignalTaken, Interrupt, DieOfSignal, HandlerStep, HandlerGoto,
     HandlerLock, HandlerCheck, HandlerCopy, HandlerCopyInMove, HandlerUnlock, HandlerReturn
<1>4. CallbackInv'
  BY <1>1, <1>3 DEF IInv, CallbackInv, CallbackAlive
<1> QED
  BY <1>2, <1>4

LEMMA InvStep == IInv /\ [Next]_vars => IInv'
<1> SUFFICES ASSUME IInv, [Next]_vars PROVE IInv'
  OBVIOUS
<1>1. TypeOK' /\ MutexInv'
  BY TypeStep, MutexStep DEF IInv
<1>2. CASE UNCHANGED vars
  BY <1>1, <1>2 DEF vars, calls, signals, moves, IInv, CallInv, SeparateInv, OwnsInv,
     CallbackInv, CallbackAlive, HandlerInv, NewestRegistered, Settled, Unused
<1>3. CASE Raise \/ SignalTaken \/ \E t \in Threads : HandlerStep(t)
  BY <1>1, <1>3, SignalStep DEF IInv
<1>4. ASSUME NEW t \in Threads, NewCall(t) \/ CallStep(t) PROVE IInv'
  BY <1>1, <1>4, CallsKnown, CallsSeparate, CallsOwned, CallsCallback, CallsHandler,
     CallsNewest DEF IInv
<1> QED
  BY <1>2, <1>3, <1>4 DEF Next

\* Every reachable state satisfies the inductive invariant.
THEOREM Invariance == Spec => []IInv
<1> QED
  BY InvInit, InvStep, PTL DEF Spec

\* The signal handler never reads through a pointer to a dead client: whatever is
\* moved where, the client at the registered address owns the handler and
\* unregisters before it dies.
THEOREM NoDanglingCallback == Spec => []CallbackAlive
<1>1. IInv => CallbackAlive
  BY DEF IInv, CallbackInv
<1> QED
  BY <1>1, Invariance, PTL

\* Destroying or moving other clients never takes SIGTERM away from the one that
\* registered last.
THEOREM NewestKeepsSigterm == Spec => []NewestRegistered
<1>1. IInv => NewestRegistered
  BY DEF IInv
<1> QED
  BY <1>1, Invariance, PTL
=============================================================================
