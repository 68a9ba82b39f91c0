-------------------------- MODULE CoreRuntimeProofs --------------------------
(***************************************************************************)
(* Proofs about CoreRuntime, for any number of threads, handlers, function *)
(* groups and nested calls of Abort.                                       *)
(***************************************************************************)
EXTENDS CoreRuntime, TLAPS

USE CoreAssumption

-----------------------------------------------------------------------------
(* Types *)

LEMMA TypeInit == Init => TypeOK
<1> SUFFICES ASSUME Init PROVE TypeOK
  OBVIOUS
<1>1. function_groups \in
        [Groups -> [known : BOOLEAN, current_state : States \cup {"Off"}, is_undefined : BOOLEAN]]
  BY DEF Init, NoGroup
<1>2. local_handlers \in [Threads -> Seq(Handlers)] /\ next \in [Threads -> Nat \ {0}]
  BY DEF Init
<1>3. pc \in [Threads -> Labels]
  BY DEF Init, Labels
<1> QED
  BY <1>1, <1>2, <1>3 DEF Init, TypeOK

LEMMA CallerLabel ==
    ASSUME NEW t \in Threads
    PROVE  Caller(t) \in {"user", "handler"} /\ Caller(t) \in Labels
BY DEF Caller, Labels

LEMMA GotoType ==
    ASSUME TypeOK, NEW t \in Threads, NEW from, NEW to \in Labels, Goto(t, from, to)
    PROVE  pc' \in [Threads -> Labels]
BY DEF TypeOK, Goto

LEMMA RuntimeType ==
    ASSUME TypeOK, OnceInv, NEW t \in Threads, RuntimeNext(t)
    PROVE  TypeOK'
<1>0. UNCHANGED <<mutex, handlers, pc, adding, status, depth, local_handlers, next, called, begun, owed>>
  BY DEF RuntimeNext, Initialize, Deinitialize, ReportExecutionState, SetState, KeepAbort, abortVars
<1>1. CASE Initialize(t)
  BY <1>0, <1>1 DEF Initialize, TypeOK
<1>2. CASE Deinitialize(t)
  <2>1. balance' \in Nat
    BY <1>2 DEF Deinitialize, TypeOK, OnceInv
  <2> QED
    BY <1>0, <1>2, <2>1 DEF Deinitialize, TypeOK
<1>3. CASE ReportExecutionState(t)
  BY <1>0, <1>3 DEF ReportExecutionState, TypeOK
<1>4. ASSUME NEW g \in Groups, NEW state \in States, SetState(t, g, state) PROVE TypeOK'
  <2>1. function_groups' \in
          [Groups -> [known : BOOLEAN, current_state : States \cup {"Off"}, is_undefined : BOOLEAN]]
    BY <1>4 DEF SetState, TypeOK
  <2> QED
    BY <1>0, <1>4, <2>1 DEF SetState, TypeOK
<1> QED
  BY <1>1, <1>2, <1>3, <1>4 DEF RuntimeNext

LEMMA ThreadType ==
    ASSUME TypeOK, NEW t \in Threads,
           \/ \E h \in Handlers : AddBegin(t, h)
           \/ AddStep(t) \/ AbortBegin(t) \/ AbortStep(t) \/ HandlerReturns(t)
    PROVE  TypeOK'
<1> USE GotoType DEF runtimeVars, abortVars
<1>l. Caller(t) \in Labels
  BY CallerLabel
<1>m. {"add_lock", "search", "push", "copy_lock", "copy", "run", "handler"} \subseteq Labels
  BY DEF Labels
<1>1. ASSUME NEW h \in Handlers, AddBegin(t, h) PROVE TypeOK'
  <2>1. pc' \in [Threads -> Labels] /\ adding' \in [Threads -> SUBSET Handlers]
    BY <1>1, <1>l, <1>m DEF AddBegin, TypeOK
  <2> QED
    BY <1>1, <2>1 DEF AddBegin, TypeOK
<1>2. CASE AddLock(t)
  <2>1. pc' \in [Threads -> Labels]
    BY <1>2, <1>l, <1>m DEF AddLock
  <2> QED
    BY <1>2, <2>1 DEF AddLock, TypeOK
<1>3. CASE AddDuplicate(t)
  <2>1. pc' \in [Threads -> Labels] /\ adding' \in [Threads -> SUBSET Handlers]
    BY <1>3, <1>l, <1>m DEF AddDuplicate, TypeOK
  <2> QED
    BY <1>3, <2>1 DEF AddDuplicate, TypeOK
<1>4. CASE AddFound(t)
  <2>1. pc' \in [Threads -> Labels]
    BY <1>4, <1>l, <1>m DEF AddFound
  <2> QED
    BY <1>4, <2>1 DEF AddFound, TypeOK
<1>5. CASE AddPush(t)
  <2>1. pc' \in [Threads -> Labels] /\ adding' \in [Threads -> SUBSET Handlers]
    BY <1>5, <1>l, <1>m DEF AddPush, TypeOK
  <2>2. handlers' \in Seq(Handlers)
    BY <1>5, <1>l, <1>m DEF AddPush, TypeOK
  <2> QED
    BY <1>5, <2>1, <2>2 DEF AddPush, TypeOK
<1>6. CASE AbortBegin(t)
  <2>1. pc' \in [Threads -> Labels]
    BY <1>6, <1>l, <1>m DEF AbortBegin
  <2>2. /\ depth' \in [Threads -> Nat]
        /\ next' \in [Threads -> Nat \ {0}]
        /\ local_handlers' \in [Threads -> Seq(Handlers)]
    BY <1>6, <1>l, <1>m DEF AbortBegin, TypeOK
  <2>3. owed' \subseteq Handlers /\ begun' \in BOOLEAN
    BY <1>6 DEF AbortBegin, TypeOK, Range
  <2> QED
    BY <1>6, <2>1, <2>2, <2>3 DEF AbortBegin, TypeOK
<1>7. CASE CopyLock(t)
  <2>1. pc' \in [Threads -> Labels]
    BY <1>7, <1>l, <1>m DEF CopyLock
  <2> QED
    BY <1>7, <2>1 DEF CopyLock, TypeOK
<1>8. CASE Copy(t)
  <2>1. pc' \in [Threads -> Labels] /\ local_handlers' \in [Threads -> Seq(Handlers)]
    BY <1>8, <1>l, <1>m DEF Copy, TypeOK
  <2> QED
    BY <1>8, <2>1 DEF Copy, TypeOK
<1>9. CASE CallHandler(t)
  <2>1. pc' \in [Threads -> Labels] /\ next' \in [Threads -> Nat \ {0}]
    BY <1>9, <1>l, <1>m DEF CallHandler, TypeOK
  <2>2. called' \subseteq Handlers
    BY <1>9 DEF CallHandler, NoneLeft, TypeOK
  <2> QED
    BY <1>9, <2>1, <2>2 DEF CallHandler, TypeOK
<1>10. CASE HandlerReturns(t)
  <2>1. pc' \in [Threads -> Labels]
    BY <1>10, <1>l, <1>m DEF HandlerReturns
  <2> QED
    BY <1>10, <2>1 DEF HandlerReturns, TypeOK
<1>11. CASE StdAbort(t)
  BY <1>11 DEF StdAbort, TypeOK
<1> QED
  BY <1>1, <1>2, <1>3, <1>4, <1>5, <1>6, <1>7, <1>8, <1>9, <1>10, <1>11 DEF AddStep, AbortStep

-----------------------------------------------------------------------------
(* The mutex *)

LEMMA LockStep ==
    ASSUME TypeOK, LockInv, NEW t \in Threads, ThreadNext(t)
    PROVE  LockInv'
<1> USE CallerLabel DEF TypeOK, LockInv, Section, Goto, runtimeVars, abortVars
<1>1. CASE RuntimeNext(t)
  BY <1>1 DEF RuntimeNext, Initialize, Deinitialize, ReportExecutionState, SetState, KeepAbort
<1>2. CASE \/ \E h \in Handlers : AddBegin(t, h)
           \/ AbortBegin(t) \/ AddFound(t)
  BY <1>2 DEF AddBegin, AbortBegin, AddFound
<1>3. CASE AddLock(t) \/ CopyLock(t)
  BY <1>3 DEF AddLock, CopyLock
<1>4. CASE AddDuplicate(t) \/ AddPush(t) \/ Copy(t)
  BY <1>4 DEF AddDuplicate, AddPush, Copy
<1>5. CASE CallHandler(t) \/ HandlerReturns(t) \/ StdAbort(t)
  BY <1>5 DEF CallHandler, HandlerReturns, StdAbort
<1> QED
  BY <1>1, <1>2, <1>3, <1>4, <1>5 DEF ThreadNext, AddStep, AbortStep

-----------------------------------------------------------------------------
(* The handlers *)

\* What is appended is in the range, and whatever was there before still is.
LEMMA AppendRange ==
    ASSUME NEW s \in Seq(Handlers), NEW h \in Handlers
    PROVE  Range(Append(s, h)) = Range(s) \cup {h}
<1> DEFINE a == Append(s, h)
<1>1. /\ Len(s) \in Nat /\ DOMAIN s = 1..Len(s) /\ DOMAIN a = 1..(Len(s) + 1)
      /\ a[Len(s) + 1] = h /\ \A i \in 1..Len(s) : a[i] = s[i]
  OBVIOUS
<1>2. Range(a) \subseteq Range(s) \cup {h}
  BY <1>1 DEF Range
<1>3. \A i \in DOMAIN s : s[i] \in Range(a)
  <2> SUFFICES ASSUME NEW i \in DOMAIN s PROVE \E j \in DOMAIN a : s[i] = a[j]
    BY DEF Range
  <2>1. i \in DOMAIN a /\ s[i] = a[i]
    BY <1>1
  <2> QED
    BY <2>1
<1>4. h \in Range(a)
  <2>1. Len(s) + 1 \in DOMAIN a
    BY <1>1
  <2> QED
    BY <1>1, <2>1 DEF Range
<1> QED
  BY <1>2, <1>3, <1>4 DEF Range

LEMMA NoDuplicatesStep ==
    ASSUME TypeOK, LockInv, NoDuplicates, NEW t \in Threads, ThreadNext(t)
    PROVE  NoDuplicates'
<1> USE CallerLabel DEF Goto, runtimeVars, abortVars
<1>1. CASE AddPush(t)
  <2>1. PICK h \in adding[t] : handlers' = Append(handlers, h)
    BY <1>1 DEF AddPush
  <2>2. h \notin Range(handlers)
    BY <1>1, <2>1 DEF AddPush, NoDuplicates
  <2>3. handlers \in Seq(Handlers) /\ h \in Handlers
    BY <2>1 DEF TypeOK
  <2>4. \A i, j \in DOMAIN handlers' : handlers'[i] = handlers'[j] => i = j
    BY <2>1, <2>2, <2>3 DEF NoDuplicates, Range
  <2>5. \A u \in Threads : pc'[u] # "push"
    BY <1>1 DEF AddPush, LockInv, Section, TypeOK, Caller
  <2> QED
    BY <2>4, <2>5 DEF NoDuplicates
<1>2. CASE UNCHANGED handlers /\ \A u \in Threads : pc'[u] = "push" =>
               adding'[u] = adding[u] /\ (pc[u] = "push" \/ AddFound(u))
  BY <1>2 DEF NoDuplicates, AddFound
<1>3. CASE RuntimeNext(t)
  BY <1>2, <1>3 DEF RuntimeNext, Initialize, Deinitialize, ReportExecutionState, SetState, KeepAbort
<1>4. CASE \E h \in Handlers : AddBegin(t, h)
  BY <1>2, <1>4 DEF AddBegin, TypeOK
<1>5. CASE AddLock(t) \/ AddDuplicate(t) \/ AddFound(t)
  BY <1>2, <1>5 DEF AddLock, AddDuplicate, AddFound, TypeOK, Caller
<1>6. CASE AbortBegin(t) \/ CopyLock(t) \/ Copy(t)
  BY <1>2, <1>6 DEF AbortBegin, CopyLock, Copy, TypeOK
<1>7. CASE CallHandler(t) \/ HandlerReturns(t) \/ StdAbort(t)
  BY <1>2, <1>7 DEF CallHandler, HandlerReturns, StdAbort, TypeOK
<1> QED
  BY <1>1, <1>3, <1>4, <1>5, <1>6, <1>7 DEF ThreadNext, AddStep, AbortStep

\* A step that leaves the calls of Abort alone leaves what they owe alone.
LEMMA CopyQuiet ==
    ASSUME TypeOK, CopyInv,
           UNCHANGED <<depth, local_handlers, next, called, begun, owed>>,
           Range(handlers) \subseteq Range(handlers'),
           \A u \in Threads : pc'[u] \in {"copy_lock", "copy", "run", "handler"} => depth[u] > 0,
           \A u \in Threads : pc'[u] \in {"copy_lock", "copy"} => next[u] = 1,
           \A u \in Threads : Copied(u)' => Copied(u)
    PROVE  CopyInv'
BY DEF CopyInv

LEMMA CopyStep ==
    ASSUME TypeOK, LockInv, CopyInv, NEW t \in Threads, ThreadNext(t)
    PROVE  CopyInv'
<1> USE DEF Goto, runtimeVars, abortVars
<1>0. Caller(t) = IF depth[t] = 0 THEN "user" ELSE "handler"
  BY DEF Caller
<1>1. CASE RuntimeNext(t)
  <2>1. UNCHANGED <<handlers, pc, depth, local_handlers, next, called, begun, owed>>
    BY <1>1 DEF RuntimeNext, Initialize, Deinitialize, ReportExecutionState, SetState, KeepAbort
  <2> QED
    BY <2>1, CopyQuiet DEF CopyInv, Copied
<1>2. CASE \/ \E h \in Handlers : AddBegin(t, h)
           \/ AddLock(t) \/ AddDuplicate(t) \/ AddFound(t) \/ CopyLock(t) \/ HandlerReturns(t)
  <2>1. UNCHANGED <<handlers, depth, local_handlers, next, called, begun, owed>>
    BY <1>2 DEF AddBegin, AddLock, AddDuplicate, AddFound, CopyLock, HandlerReturns
  <2>2. \A u \in Threads : u # t => pc'[u] = pc[u]
    BY <1>2 DEF AddBegin, AddLock, AddDuplicate, AddFound, CopyLock, HandlerReturns, TypeOK
  <2>3. /\ pc'[t] \in {"copy_lock", "copy", "run", "handler"} => depth[t] > 0
        /\ pc'[t] \in {"copy_lock", "copy"} => next[t] = 1
    BY <1>0, <1>2 DEF AddBegin, AddLock, AddDuplicate, AddFound, CopyLock, HandlerReturns, TypeOK,
       CopyInv
  <2>4. Copied(t)' => Copied(t)
    BY <1>0, <1>2 DEF AddBegin, AddLock, AddDuplicate, AddFound, CopyLock, HandlerReturns, TypeOK,
       Copied
  <2> QED
    BY <2>1, <2>2, <2>3, <2>4, CopyQuiet DEF CopyInv, Copied
<1>3. CASE AddPush(t)
  <2>1. PICK h \in adding[t] : handlers' = Append(handlers, h)
    BY <1>3 DEF AddPush
  <2>2. Range(handlers) \subseteq Range(handlers')
    BY <2>1, AppendRange DEF TypeOK
  <2>3. UNCHANGED <<depth, local_handlers, next, called, begun, owed>>
    BY <1>3 DEF AddPush
  <2>4. \A u \in Threads : pc'[u] = pc[u] \/ (u = t /\ pc[t] = "push" /\ pc'[u] = Caller(t))
    BY <1>3 DEF AddPush, TypeOK
  <2>5. \A u \in Threads : Copied(u)' => Copied(u)
    BY <1>0, <2>3, <2>4 DEF Copied
  <2>6. \A u \in Threads :
            /\ pc'[u] \in {"copy_lock", "copy", "run", "handler"} => depth[u] > 0
            /\ pc'[u] \in {"copy_lock", "copy"} => next[u] = 1
    <3> SUFFICES ASSUME NEW u \in Threads PROVE
              /\ pc'[u] \in {"copy_lock", "copy", "run", "handler"} => depth[u] > 0
              /\ pc'[u] \in {"copy_lock", "copy"} => next[u] = 1
      OBVIOUS
    <3>1. CASE pc'[u] = pc[u]
      BY <3>1 DEF CopyInv
    <3>2. CASE u = t /\ pc'[u] = Caller(t)
      <4>1. depth[t] \in Nat
        BY DEF TypeOK
      <4>2. pc'[u] = "user" \/ (pc'[u] = "handler" /\ depth[u] > 0)
        BY <1>0, <3>2, <4>1
      <4> QED
        BY <4>2
    <3> QED
      BY <2>4, <3>1, <3>2
  <2> QED
    BY <2>2, <2>3, <2>5, <2>6, CopyQuiet
<1>4. CASE AbortBegin(t)
  <2>1. /\ depth' = [depth EXCEPT ![t] = depth[t] + 1] /\ begun' = TRUE
        /\ owed' = IF begun THEN owed ELSE Range(handlers)
        /\ local_handlers' = [local_handlers EXCEPT ![t] = <<>>]
        /\ pc' = [pc EXCEPT ![t] = "copy_lock"]
        /\ UNCHANGED <<handlers, called>>
    BY <1>4 DEF AbortBegin
  <2>2. next' = [next EXCEPT ![t] = 1]
    BY <1>4 DEF AbortBegin
  <2>3. \A u \in Threads : u # t => depth'[u] = depth[u] /\ pc'[u] = pc[u]
    BY <2>1 DEF TypeOK
  <2>4. \A u \in Threads :
            /\ pc'[u] \in {"copy_lock", "copy", "run", "handler"} => depth'[u] > 0
            /\ pc'[u] \in {"copy_lock", "copy"} => next'[u] = 1
    BY <2>1, <2>2, <2>3 DEF TypeOK, CopyInv
  <2>5. \A u \in Threads : Copied(u)' => u # t /\ begun /\ Copied(u)
    BY <2>1, <2>3 DEF TypeOK, CopyInv, Copied
  <2>6. \A u \in Threads : Copied(u)' => owed' \subseteq Range(local_handlers'[u])
    BY <2>1, <2>5 DEF TypeOK, CopyInv
  <2>7. \A u \in Threads : \A i \in DOMAIN local_handlers'[u] :
            i < next'[u] => local_handlers'[u][i] \in called'
    BY <2>1, <2>2 DEF TypeOK, CopyInv
  <2>8. owed' \subseteq Range(handlers')
    BY <2>1 DEF CopyInv
  <2>9. \A u \in Threads : depth'[u] > 0 => begun'
    BY <2>1
  <2> QED
    BY <2>4, <2>6, <2>7, <2>8, <2>9 DEF CopyInv
<1>5. CASE Copy(t)
  <2>1. /\ local_handlers' = [local_handlers EXCEPT ![t] = handlers]
        /\ pc[t] = "copy" /\ pc' = [pc EXCEPT ![t] = "run"]
        /\ UNCHANGED <<handlers, depth, next, called, begun, owed>>
    BY <1>5 DEF Copy
  <2>2. depth[t] > 0 /\ next[t] = 1
    BY <2>1 DEF CopyInv
  <2>3. /\ local_handlers'[t] = handlers
        /\ \A u \in Threads : u # t => local_handlers'[u] = local_handlers[u] /\ pc'[u] = pc[u]
    BY <2>1 DEF TypeOK
  <2>4. \A u \in Threads : Copied(u)' => owed' \subseteq Range(local_handlers'[u])
    BY <2>1, <2>3 DEF CopyInv, Copied
  <2>5. \A u \in Threads : \A i \in DOMAIN local_handlers'[u] :
            i < next'[u] => local_handlers'[u][i] \in called'
    BY <2>1, <2>2, <2>3 DEF TypeOK, CopyInv
  <2>6. \A u \in Threads :
            /\ pc'[u] \in {"copy_lock", "copy", "run", "handler"} => depth'[u] > 0
            /\ pc'[u] \in {"copy_lock", "copy"} => next'[u] = 1
    BY <2>1, <2>2, <2>3 DEF TypeOK, CopyInv
  <2> QED
    BY <2>1, <2>4, <2>5, <2>6 DEF CopyInv
<1>6. CASE CallHandler(t)
  <2>1. /\ next' = [next EXCEPT ![t] = next[t] + 1]
        /\ called' = called \cup {local_handlers[t][next[t]]}
        /\ pc[t] = "run" /\ pc' = [pc EXCEPT ![t] = "handler"]
        /\ UNCHANGED <<handlers, depth, local_handlers, begun, owed>>
    BY <1>6 DEF CallHandler
  <2>2. \A u \in Threads : \A i \in DOMAIN local_handlers'[u] :
            i < next'[u] => local_handlers'[u][i] \in called'
    BY <2>1 DEF TypeOK, CopyInv
  <2> QED
    BY <2>1, <2>2 DEF TypeOK, CopyInv, Copied
<1>7. CASE StdAbort(t)
  <2>1. UNCHANGED <<handlers, pc, depth, local_handlers, next, called, begun, owed>>
    BY <1>7 DEF StdAbort
  <2> QED
    BY <2>1, CopyQuiet DEF CopyInv, Copied
<1> QED
  BY <1>1, <1>2, <1>3, <1>4, <1>5, <1>6, <1>7 DEF ThreadNext, AddStep, AbortStep

-----------------------------------------------------------------------------
(* What the process owes, and the whole invariant *)

LEMMA OnceStep ==
    ASSUME TypeOK, OnceInv, NEW t \in Threads, ThreadNext(t)
    PROVE  OnceInv'
<1>1. CASE Initialize(t)
  BY <1>1 DEF Initialize, TypeOK, OnceInv
<1>2. CASE Deinitialize(t)
  BY <1>2 DEF Deinitialize, TypeOK, OnceInv
<1>3. CASE ReportExecutionState(t)
  BY <1>3 DEF ReportExecutionState, FirstReport, TypeOK, OnceInv
<1>4. ASSUME NEW g \in Groups, NEW state \in States, SetState(t, g, state)
      PROVE  OnceInv'
  <2>1. UNCHANGED <<initialized, balance, reported, accepted>>
    BY <1>4 DEF SetState
  <2> QED
    BY <2>1 DEF OnceInv
<1>5. CASE \/ \E h \in Handlers : AddBegin(t, h)
           \/ AddStep(t) \/ AbortBegin(t) \/ AbortStep(t) \/ HandlerReturns(t)
  <2>1. UNCHANGED runtimeVars
    BY <1>5 DEF AddBegin, AddStep, AddLock, AddDuplicate, AddFound, AddPush, AbortBegin, AbortStep,
       CopyLock, Copy, CallHandler, StdAbort, HandlerReturns
  <2> QED
    BY <2>1 DEF runtimeVars, OnceInv
<1> QED
  BY <1>1, <1>2, <1>3, <1>4, <1>5 DEF ThreadNext, RuntimeNext

LEMMA ToldStep ==
    ASSUME TypeOK, CopyInv, RegisteredAreTold, NEW t \in Threads, ThreadNext(t)
    PROVE  RegisteredAreTold'
<1>1. CASE StdAbort(t)
  <2>1. pc[t] = "run" /\ next[t] > Len(local_handlers[t]) /\ UNCHANGED <<owed, called>>
    BY <1>1 DEF StdAbort, NoneLeft, abortVars
  <2>2. owed \subseteq Range(local_handlers[t])
    BY <2>1 DEF CopyInv, Copied
  <2>3. \A i \in DOMAIN local_handlers[t] : local_handlers[t][i] \in called
    BY <2>1 DEF CopyInv, TypeOK
  <2> QED
    BY <2>1, <2>2, <2>3 DEF RegisteredAreTold, Range
<1>2. CASE ~StdAbort(t)
  <2>1. status = "running" /\ status' = status
    BY <1>2 DEF ThreadNext, RuntimeNext, Initialize, Deinitialize, ReportExecutionState, SetState,
       InProgram, KeepAbort, AddBegin, AddStep, AddLock, AddDuplicate, AddFound, AddPush, AbortBegin,
       AbortStep, CopyLock, Copy, CallHandler, HandlerReturns, Goto
  <2> QED
    BY <2>1 DEF RegisteredAreTold
<1> QED
  BY <1>1, <1>2

LEMMA InvInit == Init => IInv
<1> SUFFICES ASSUME Init PROVE IInv
  OBVIOUS
<1>1. LockInv /\ NoDuplicates /\ RegisteredAreTold
  BY DEF Init, LockInv, Section, NoDuplicates, RegisteredAreTold
<1>2. CopyInv
  BY DEF Init, CopyInv, Copied, Range
<1>3. OnceInv
  BY DEF Init, OnceInv
<1> QED
  BY <1>1, <1>2, <1>3, TypeInit DEF IInv

LEMMA InvStep == IInv /\ [Next]_vars => IInv'
<1> SUFFICES ASSUME IInv, [Next]_vars PROVE IInv'
  OBVIOUS
<1> USE DEF IInv
<1>1. ASSUME NEW t \in Threads, ThreadNext(t) PROVE IInv'
  <2>1. TypeOK'
    BY <1>1, RuntimeType, ThreadType DEF ThreadNext
  <2> QED
    BY <1>1, <2>1, LockStep, NoDuplicatesStep, CopyStep, OnceStep, ToldStep
<1>2. CASE MainReturns
  BY <1>2 DEF MainReturns, runtimeVars, abortVars, TypeOK, LockInv, NoDuplicates, CopyInv, Copied,
     OnceInv, RegisteredAreTold
<1>3. CASE UNCHANGED vars
  BY <1>3 DEF vars, runtimeVars, abortVars, TypeOK, LockInv, NoDuplicates, CopyInv, Copied,
     OnceInv, RegisteredAreTold
<1> QED
  BY <1>1, <1>2, <1>3 DEF Next

\* The inductive invariant holds in every reachable state: among others, no handler is
\* registered twice, and of the threads that initialise or report one succeeds.
THEOREM Invariance == Spec => []IInv
BY InvInit, InvStep, PTL DEF Spec

\* However many threads abort at once, register handlers meanwhile or abort again in a
\* handler: when the process has aborted, whoever had registered has been told.
THEOREM NobodyIsForgotten == Spec => []RegisteredAreTold
<1>1. IInv => RegisteredAreTold
  BY DEF IInv
<1> QED
  BY <1>1, Invariance, PTL
=============================================================================
