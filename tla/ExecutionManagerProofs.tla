------------------------ MODULE ExecutionManagerProofs ------------------------
(***************************************************************************)
(* Proofs about ExecutionManager, for every manifest, any number of        *)
(* children, any grace period, and a manager that may be killed or not.    *)
(***************************************************************************)
EXTENDS ExecutionManager, TLAPS

-----------------------------------------------------------------------------
(* Facts about the operators *)

\* The head and the tail of a queue that holds something.
LEMMA QueueParts ==
    ASSUME NEW S, NEW q \in Seq(S), q # <<>>
    PROVE  /\ Head(q) \in S /\ Tail(q) \in Seq(S)
           /\ Head(q) = q[1] /\ Len(q) \in Nat /\ Len(q) >= 1
           /\ Len(Tail(q)) = Len(q) - 1
           /\ \A i \in 1..Len(Tail(q)) : Tail(q)[i] = q[i + 1]
OBVIOUS

-----------------------------------------------------------------------------
(* Type correctness, with what it needs of the loop *)

TypeInv == TypeOK /\ LoopInv

LEMMA TypeInit == Init => TypeInv
<1> SUFFICES ASSUME Init PROVE TypeInv
  OBVIOUS
<1>1. DOMAIN managed \subseteq Pids /\ managed \in [DOMAIN managed -> Entry]
  BY DEF Init
<1>2. proc \in [Pids -> Alive \cup {"none", "zombie", "reaped"}]
  BY DEF Init
<1>3. reports \in Seq([pid : Pids, process : Apps]) /\ to_start \in Seq(Apps)
  BY DEF Init
<1>4. attempt \in 0..MaxAttempts
  BY ManagerAssumption DEF Init
<1>5. TypeOK
  BY <1>1, <1>2, <1>3, <1>4, ManagerAssumption DEF Init, TypeOK, EmLabels, StartStates
<1>6. LoopInv
  BY DEF Init, LoopInv
<1> QED
  BY <1>5, <1>6 DEF TypeInv

LEMMA StartUpType == TypeInv /\ StartUp => TypeInv'
<1> SUFFICES ASSUME TypeInv, StartUp PROVE TypeInv'
  OBVIOUS
<1> USE ManagerAssumption DEF TypeInv, LoopInv, At, Goto, EmLabels, Reaping, StartStates
<1>1. CASE SetupSignals
  BY <1>1 DEF SetupSignals, TypeOK, childVars, reportVars
<1>2. CASE StartProcess
  <2>1. Head(to_start) \in Apps /\ Tail(to_start) \in Seq(Apps)
    BY <1>2, QueueParts DEF StartProcess, TypeOK
  <2>2. PICK p \in Pids :
          /\ proc' = [proc EXCEPT ![p] = "forked"]
          /\ managed' = [q \in DOMAIN managed \cup {p} |->
                            IF q = p THEN NewlyStarted(Head(to_start)) ELSE managed[q]]
          /\ blocked' = IF em_blocks THEN blocked \cup {p} ELSE blocked
    BY <1>2 DEF StartProcess
  <2>3. managed' \in [DOMAIN managed \cup {p} -> Entry]
    BY <2>1, <2>2 DEF TypeOK, NewlyStarted, Entry
  <2>4. DOMAIN managed' \subseteq Pids /\ managed' \in [DOMAIN managed' -> Entry]
    BY <2>3 DEF TypeOK
  <2>5. proc' \in [Pids -> Alive \cup {"none", "zombie", "reaped"}]
    BY <2>2 DEF TypeOK, Alive
  <2>6. blocked' \subseteq Pids
    BY <2>2 DEF TypeOK
  <2> QED
    BY <1>2, <2>1, <2>4, <2>5, <2>6 DEF StartProcess, TypeOK, reportVars
<1>3. CASE StartFails
  <2>1. Tail(to_start) \in Seq(Apps)
    BY <1>3, QueueParts DEF StartFails, TypeOK
  <2> QED
    BY <1>3, <2>1 DEF StartFails, TypeOK, childVars, reportVars
<1>4. CASE TransitionToRunning
  BY <1>4 DEF TransitionToRunning, TypeOK, childVars, reportVars
<1>5. CASE EnterLoop
  BY <1>5 DEF EnterLoop, TypeOK, loopVars, childVars, reportVars
<1>6. CASE SetupFails
  BY <1>6 DEF SetupFails, TypeOK, loopVars, childVars, reportVars
<1> QED
  BY <1>1, <1>2, <1>3, <1>4, <1>5, <1>6 DEF StartUp

LEMMA LoopType == TypeInv /\ Loop => TypeInv'
<1> SUFFICES ASSUME TypeInv, Loop PROVE TypeInv'
  OBVIOUS
<1> USE ManagerAssumption DEF TypeInv, LoopInv, At, Goto, EmLabels, Reaping, StartStates
<1>1. CASE Poll
  BY <1>1 DEF Poll, TypeOK, childVars, reportVars
<1>2. CASE NoSignal
  BY <1>2 DEF NoSignal, TypeOK, loopVars, childVars, reportVars
<1>3. CASE HandleStopSignal
  BY <1>3 DEF HandleStopSignal, TypeOK, childVars, reportVars
<1>4. CASE HandleChildSignal
  BY <1>4 DEF HandleChildSignal, TypeOK, loopVars, childVars, reportVars
<1>5. CASE ReapChild
  <2>1. PICK p \in Pids : /\ proc' = [proc EXCEPT ![p] = "reaped"]
                          /\ managed' = [q \in DOMAIN managed \ {p} |-> managed[q]]
                          /\ late' = late \ {p}
    BY <1>5 DEF ReapChild, EraseEntry
  <2>2. DOMAIN managed' \subseteq Pids /\ managed' \in [DOMAIN managed' -> Entry]
    BY <2>1 DEF TypeOK
  <2>3. proc' \in [Pids -> Alive \cup {"none", "zombie", "reaped"}]
    BY <2>1 DEF TypeOK, Alive
  <2> QED
    BY <1>5, <2>2, <2>3 DEF ReapChild, TypeOK, loopVars, reportVars
<1>6. CASE EndReaping
  BY <1>6 DEF EndReaping, AfterReaping, NextAttempt, TypeOK, childVars, reportVars
<1>7. CASE NoReport
  BY <1>7 DEF NoReport, TypeOK, loopVars, childVars, reportVars
<1>8. CASE HandleExecutionReport
  <2>1. Tail(reports) \in Seq([pid : Pids, process : Apps])
    BY <1>8, QueueParts DEF HandleExecutionReport, TypeOK
  <2>2. managed' = [p \in DOMAIN managed |->
                      IF Concerns(p, Head(reports))
                      THEN [managed[p] EXCEPT !.running_reported = TRUE] ELSE managed[p]]
    BY <1>8 DEF HandleExecutionReport
  <2>3. DOMAIN managed \subseteq Pids /\ managed \in [DOMAIN managed -> Entry]
    BY DEF TypeOK
  <2>4. DOMAIN managed' \subseteq Pids /\ managed' \in [DOMAIN managed' -> Entry]
    BY ONLY <2>2, <2>3 DEF Entry
  <2>5. TypeOK'
    BY <1>8, <2>1, <2>4 DEF HandleExecutionReport, TypeOK, loopVars, childVars
  <2>6. LoopInv'
    BY <1>8 DEF HandleExecutionReport
  <2> QED
    BY <2>5, <2>6
<1>9. CASE CheckExecutionReportingTimeouts
  <2>1. managed' = [p \in DOMAIN managed |->
                      IF Overdue(p)
                      THEN [managed[p] EXCEPT !.reporting_timeout_logged = TRUE] ELSE managed[p]]
    BY <1>9 DEF CheckExecutionReportingTimeouts
  <2>2. DOMAIN managed \subseteq Pids /\ managed \in [DOMAIN managed -> Entry]
    BY DEF TypeOK
  <2>3. DOMAIN managed' \subseteq Pids /\ managed' \in [DOMAIN managed' -> Entry]
    BY ONLY <2>1, <2>2 DEF Entry
  <2>4. TypeOK'
    BY <1>9, <2>3 DEF CheckExecutionReportingTimeouts, TypeOK, loopVars, childVars, reportVars
  <2>5. LoopInv'
    BY <1>9 DEF CheckExecutionReportingTimeouts
  <2> QED
    BY <2>4, <2>5
<1>10. CASE PollFails
  BY <1>10 DEF PollFails, TypeOK, loopVars, childVars, reportVars
<1> QED
  BY <1>1, <1>2, <1>3, <1>4, <1>5, <1>6, <1>7, <1>8, <1>9, <1>10 DEF Loop

LEMMA ShutdownType == TypeInv /\ (Shutdown \/ Crash) => TypeInv'
<1> SUFFICES ASSUME TypeInv, Shutdown \/ Crash PROVE TypeInv'
  OBVIOUS
<1> USE ManagerAssumption DEF TypeInv, LoopInv, At, Goto, EmLabels, Reaping, StartStates
<1>1. CASE SendSigterm
  BY <1>1 DEF SendSigterm, TypeOK, reportVars
<1>2. CASE GraceAttempt
  BY <1>2 DEF GraceAttempt, TryAgain, TypeOK, loopVars, childVars, reportVars
<1>3. CASE GraceEnds
  BY <1>3 DEF GraceEnds, TypeOK, loopVars, childVars, reportVars
<1>4. CASE SendSigkill
  BY <1>4 DEF SendSigkill, RemainingChildren, TypeOK, reportVars
<1>5. CASE KillAttempt
  BY <1>5 DEF KillAttempt, TryAgain, TypeOK, loopVars, childVars, reportVars
<1>6. CASE Exit
  BY <1>6 DEF Exit, ParentDeathSignal, TypeOK, loopVars, reportVars
<1>7. CASE Crash
  BY <1>7 DEF Crash, ParentDeathSignal, TypeOK, loopVars, reportVars
<1> QED
  BY <1>1, <1>2, <1>3, <1>4, <1>5, <1>6, <1>7 DEF Shutdown

\* What the children, the kernel and the user do.
EnvironmentStep ==
    \/ \E p \in Pids : ChildStep(p) \/ ChildEnds(p) \/ SendReport(p) \/ TimeoutElapses(p)
    \/ RequestStop

LEMMA EnvironmentType == TypeInv /\ EnvironmentStep => TypeInv'
<1> SUFFICES ASSUME TypeInv, EnvironmentStep PROVE TypeInv'
  OBVIOUS
<1> USE DEF TypeInv, LoopInv
<1>1. ASSUME NEW p \in Pids, proc[p] \in Alive, Ends(p) PROVE TypeInv'
  BY <1>1 DEF Ends, TypeOK, Alive, loopVars, reportVars
<1>2. ASSUME NEW p \in Pids, ArmParentDeath(p) \/ ExecuteProgram(p) PROVE TypeInv'
  BY <1>2 DEF ArmParentDeath, ExecuteProgram, TypeOK, Alive, loopVars, reportVars
<1>3. ASSUME NEW p \in Pids, SendReport(p) PROVE TypeInv'
  <2>1. managed[p].process \in Apps
    BY <1>3 DEF SendReport, TypeOK, Entry
  <2>2. [pid |-> p, process |-> managed[p].process] \in [pid : Pids, process : Apps]
    BY <2>1
  <2>3. reports' \in Seq([pid : Pids, process : Apps]) /\ reports' # <<>>
    BY <1>3, <2>2 DEF SendReport, TypeOK
  <2> QED
    BY <1>3, <2>3 DEF SendReport, TypeOK, loopVars, childVars
<1>4. ASSUME NEW p \in Pids, TimeoutElapses(p) PROVE TypeInv'
  BY <1>4 DEF TimeoutElapses, TypeOK, loopVars, childVars
<1>5. CASE RequestStop
  BY <1>5 DEF RequestStop, TypeOK, loopVars, childVars, reportVars
<1> QED
  BY <1>1, <1>2, <1>3, <1>4, <1>5
     DEF EnvironmentStep, ChildStep, ParentIsGone, ChildEnds, SigtermEnds, SigkillEnds, Alive

LEMMA TypeStep == TypeInv /\ [Next]_vars => TypeInv'
<1> SUFFICES ASSUME TypeInv, [Next]_vars PROVE TypeInv'
  OBVIOUS
<1>1. CASE UNCHANGED vars
  BY <1>1 DEF vars, loopVars, childVars, reportVars, TypeInv, TypeOK, LoopInv
<1> QED
  BY <1>1, StartUpType, LoopType, ShutdownType, EnvironmentType
     DEF Next, EmStep, Environment, EnvironmentStep

\* Every reachable state has the types of TypeOK.
THEOREM TypeCorrect == Spec => []TypeOK
<1>1. TypeInv => TypeOK
  BY DEF TypeInv
<1> QED
  BY <1>1, TypeInit, TypeStep, PTL DEF Spec

-----------------------------------------------------------------------------
(* The table of the manager and the children of the kernel *)

\* Every step but these three leaves the table's pids and the set of children
\* that are to be waited for as they are.
LEMMA TableStep == TypeInv /\ TableListsChildren /\ [Next]_vars => TableListsChildren'
<1> SUFFICES ASSUME TypeInv, TableListsChildren, [Next]_vars PROVE TableListsChildren'
  OBVIOUS
<1> USE DEF TypeInv, TypeOK, TableListsChildren, Alive
<1>1. CASE StartProcess
  BY <1>1 DEF StartProcess
<1>2. CASE ReapChild
  BY <1>2 DEF ReapChild, EraseEntry
<1>3. CASE UNCHANGED <<managed, proc>>
  BY <1>3
<1>4. ASSUME DOMAIN managed' = DOMAIN managed, proc' = proc PROVE TableListsChildren'
  BY <1>4
<1>5. CASE HandleExecutionReport \/ CheckExecutionReportingTimeouts
  BY <1>4, <1>5 DEF HandleExecutionReport, CheckExecutionReportingTimeouts, childVars
<1>6. ASSUME NEW p \in Pids, proc[p] \in Alive, UNCHANGED managed,
             \E state \in Alive \cup {"zombie"} : proc' = [proc EXCEPT ![p] = state]
      PROVE  TableListsChildren'
  BY <1>6
<1>7. ASSUME NEW p \in Pids, ChildStep(p) \/ ChildEnds(p) PROVE TableListsChildren'
  BY <1>6, <1>7 DEF ChildStep, ChildEnds, ArmParentDeath, ExecuteProgram, ParentIsGone,
     SigtermEnds, SigkillEnds, Ends
<1>8. CASE StartUp /\ ~StartProcess
  BY <1>3, <1>8 DEF StartUp, SetupSignals, SetupFails, StartFails, TransitionToRunning, EnterLoop,
     childVars
<1>9. CASE \/ Poll \/ PollFails \/ NoSignal
           \/ HandleStopSignal \/ HandleChildSignal \/ EndReaping \/ NoReport
  BY <1>3, <1>9 DEF Poll, PollFails, NoSignal, HandleStopSignal, HandleChildSignal, EndReaping,
     NoReport, childVars
<1>10. CASE Shutdown \/ Crash
  BY <1>3, <1>10 DEF Shutdown, SendSigterm, GraceAttempt, GraceEnds, SendSigkill, KillAttempt,
     Exit, Crash, childVars
<1>11. CASE RequestStop \/ (\E p \in Pids : SendReport(p) \/ TimeoutElapses(p)) \/ UNCHANGED vars
  BY <1>3, <1>11 DEF RequestStop, SendReport, TimeoutElapses, vars, childVars
<1> QED
  BY <1>1, <1>2, <1>5, <1>7, <1>8, <1>9, <1>10, <1>11 DEF Next, EmStep, Loop, Environment

-----------------------------------------------------------------------------
(* No exit is forgotten *)

\* Only HandleChildSignal takes SIGCHLD away, and it goes on to reap; only
\* EndReaping stops to reap, and it leaves no zombie.
LEMMA ExitStep == TypeInv /\ NoForgottenExit /\ [Next]_vars => NoForgottenExit'
<1> SUFFICES ASSUME TypeInv, NoForgottenExit, [Next]_vars PROVE NoForgottenExit'
  OBVIOUS
<1> USE DEF NoForgottenExit, At, Goto, EmAlive, Reaping, Alive
<1>1. CASE StartUp
  BY <1>1 DEF StartUp, SetupSignals, SetupFails, StartProcess, StartFails, TransitionToRunning,
     EnterLoop, childVars, TypeInv, TypeOK
<1>2. CASE Poll \/ PollFails \/ NoSignal \/ HandleStopSignal \/ HandleChildSignal
  BY <1>2 DEF Poll, PollFails, NoSignal, HandleStopSignal, HandleChildSignal, childVars
<1>3. CASE ReapChild
  BY <1>3 DEF ReapChild
<1>4. CASE EndReaping
  BY <1>4 DEF EndReaping, NothingToReap, childVars
<1>5. CASE NoReport \/ HandleExecutionReport \/ CheckExecutionReportingTimeouts
  BY <1>5 DEF NoReport, HandleExecutionReport, CheckExecutionReportingTimeouts, childVars
<1>6. CASE Shutdown \/ Crash
  BY <1>6 DEF Shutdown, SendSigterm, GraceAttempt, GraceEnds, SendSigkill, KillAttempt, Exit,
     Crash, childVars
<1>7. ASSUME NEW p \in Pids, Ends(p) PROVE NoForgottenExit'
  BY <1>7 DEF Ends
<1>8. ASSUME NEW p \in Pids, ArmParentDeath(p) \/ ExecuteProgram(p) PROVE NoForgottenExit'
  BY <1>8 DEF ArmParentDeath, ExecuteProgram, TypeInv, TypeOK
<1>9. CASE RequestStop \/ (\E p \in Pids : SendReport(p) \/ TimeoutElapses(p)) \/ UNCHANGED vars
  BY <1>9 DEF RequestStop, SendReport, TimeoutElapses, vars, childVars
<1> QED
  BY <1>1, <1>2, <1>3, <1>4, <1>5, <1>6, <1>7, <1>8, <1>9
     DEF Next, EmStep, Loop, Environment, ChildStep, ChildEnds, ParentIsGone, SigtermEnds, SigkillEnds

-----------------------------------------------------------------------------
(* Reports *)

ReportInv == QueueInv /\ ReportedByItself

LEMMA ReportStep == TypeInv /\ ReportInv /\ [Next]_vars => ReportInv'
<1> SUFFICES ASSUME TypeInv, ReportInv, [Next]_vars PROVE ReportInv'
  OBVIOUS
<1> USE DEF ReportInv, QueueInv, ReportedByItself
<1>1. ASSUME UNCHANGED <<reports, sent>>,
             \A p \in DOMAIN managed' : managed'[p].running_reported =>
                 p \in DOMAIN managed /\ managed[p].running_reported
      PROVE  ReportInv'
  BY <1>1
<1>2. CASE StartProcess
  <2>1. UNCHANGED <<reports, sent>>
    BY <1>2 DEF StartProcess, reportVars
  <2>2. \A p \in DOMAIN managed' : managed'[p].running_reported =>
            p \in DOMAIN managed /\ managed[p].running_reported
    BY <1>2 DEF StartProcess, NewlyStarted
  <2> QED
    BY <1>1, <2>1, <2>2
<1>3. CASE ReapChild
  BY <1>1, <1>3 DEF ReapChild, EraseEntry, reportVars
<1>4. CASE HandleExecutionReport
  <2>1. reports # <<>> /\ reports \in Seq([pid : Pids, process : Apps])
    BY <1>4 DEF HandleExecutionReport, At, TypeInv, LoopInv, TypeOK
  <2>2. Head(reports).pid \in sent
    BY <2>1, QueueParts
  <2>3. \A i \in 1..Len(Tail(reports)) : Tail(reports)[i].pid \in sent
    BY <2>1, QueueParts
  <2>4. \A p \in DOMAIN managed : managed'[p].running_reported =>
            managed[p].running_reported \/ p = Head(reports).pid
    BY <1>4 DEF HandleExecutionReport, Concerns, TypeInv, TypeOK, Entry
  <2>5. DOMAIN managed' = DOMAIN managed /\ reports' = Tail(reports) /\ sent' = sent
    BY <1>4 DEF HandleExecutionReport
  <2> QED
    BY <2>2, <2>3, <2>4, <2>5
<1>5. CASE CheckExecutionReportingTimeouts
  <2>1. \A p \in DOMAIN managed : managed'[p].running_reported = managed[p].running_reported
    BY <1>5 DEF CheckExecutionReportingTimeouts, TypeInv, TypeOK, Entry
  <2> QED
    BY <1>1, <1>5, <2>1 DEF CheckExecutionReportingTimeouts, reportVars
<1>6. ASSUME NEW p \in Pids, SendReport(p) PROVE ReportInv'
  <2>1. /\ reports \in Seq([pid : Pids, process : Apps])
        /\ [pid |-> p, process |-> managed[p].process] \in [pid : Pids, process : Apps]
    BY <1>6 DEF SendReport, TypeInv, TypeOK, Entry
  <2>2. \A i \in 1..Len(reports') : \/ i \in 1..Len(reports) /\ reports'[i] = reports[i]
                                    \/ reports'[i] = [pid |-> p, process |-> managed[p].process]
    BY <1>6, <2>1 DEF SendReport
  <2> QED
    BY <1>6, <2>2 DEF SendReport
<1>7. CASE UNCHANGED <<managed, reports, sent>>
  BY <1>7
<1>8. CASE StartUp /\ ~StartProcess
  BY <1>7, <1>8 DEF StartUp, SetupSignals, SetupFails, StartFails, TransitionToRunning, EnterLoop,
     reportVars
<1>9. CASE \/ Poll \/ PollFails \/ NoSignal
           \/ HandleStopSignal \/ HandleChildSignal \/ EndReaping \/ NoReport
  BY <1>7, <1>9 DEF Poll, PollFails, NoSignal, HandleStopSignal, HandleChildSignal, EndReaping,
     NoReport, reportVars
<1>10. CASE Shutdown \/ Crash
  BY <1>7, <1>10 DEF Shutdown, SendSigterm, GraceAttempt, GraceEnds, SendSigkill, KillAttempt,
     Exit, Crash, reportVars
<1>11. CASE \/ \E p \in Pids : ChildStep(p) \/ ChildEnds(p) \/ TimeoutElapses(p)
            \/ RequestStop
            \/ UNCHANGED vars
  BY <1>7, <1>11 DEF ChildStep, ChildEnds, ArmParentDeath, ExecuteProgram, ParentIsGone,
     SigtermEnds, SigkillEnds, Ends, TimeoutElapses, RequestStop, vars, reportVars
<1> QED
  BY <1>2, <1>3, <1>4, <1>5, <1>6, <1>8, <1>9, <1>10, <1>11 DEF Next, EmStep, Loop, Environment

-----------------------------------------------------------------------------
(* Nobody survives Shutdown *)

LEMMA KillStep == TypeInv /\ TableListsChildren /\ KillInv /\ [Next]_vars => KillInv'
<1> SUFFICES ASSUME TypeInv, TableListsChildren, KillInv, [Next]_vars PROVE KillInv'
  OBVIOUS
<1> USE DEF KillInv, At, Goto, Alive, Reaping
<1>1. \A p \in Pids : proc[p] \in Alive => p \in DOMAIN managed
  BY DEF TableListsChildren, TypeInv, TypeOK
<1>2. CASE StartUp /\ ~SetupFails
  BY <1>2 DEF StartUp, SetupSignals, StartProcess, StartFails, TransitionToRunning, EnterLoop
<1>3. CASE SendSigkill
  BY <1>1, <1>3 DEF SendSigkill, RemainingChildren
<1>4. CASE Exit \/ SetupFails
  BY <1>1, <1>4 DEF Exit, SetupFails, TypeInv, LoopInv, childVars
<1>5. CASE SendSigterm \/ GraceAttempt \/ GraceEnds \/ KillAttempt \/ Crash
  BY <1>5 DEF SendSigterm, GraceAttempt, GraceEnds, KillAttempt, Crash, childVars
<1>6. CASE Loop /\ ~ReapChild
  BY <1>6 DEF Loop, Poll, PollFails, NoSignal, HandleStopSignal, HandleChildSignal, EndReaping,
     AfterReaping, NoReport, HandleExecutionReport, CheckExecutionReportingTimeouts, childVars
<1>7. CASE ReapChild
  BY <1>7 DEF ReapChild, TypeInv, TypeOK
<1>8. ASSUME NEW p \in Pids, ChildStep(p) \/ ChildEnds(p) PROVE KillInv'
  BY <1>8 DEF ChildStep, ChildEnds, ArmParentDeath, ExecuteProgram, ParentIsGone, SigtermEnds,
     SigkillEnds, Ends, TypeInv, TypeOK
<1>9. CASE RequestStop \/ (\E p \in Pids : SendReport(p) \/ TimeoutElapses(p)) \/ UNCHANGED vars
  BY <1>9 DEF RequestStop, SendReport, TimeoutElapses, vars, childVars
<1> QED
  BY <1>2, <1>3, <1>4, <1>5, <1>6, <1>7, <1>8, <1>9 DEF Next, EmStep, Shutdown, Environment

-----------------------------------------------------------------------------
(* The theorems *)

\* The inductive invariant holds in every reachable state.
THEOREM Invariance == Spec => []IInv
<1> DEFINE Inv == TypeInv /\ TableListsChildren /\ NoForgottenExit /\ ReportInv /\ KillInv
<1>1. Init => Inv
  <2> SUFFICES ASSUME Init PROVE Inv
    OBVIOUS
  <2>1. TableListsChildren /\ NoForgottenExit /\ KillInv
    BY DEF Init, TableListsChildren, NoForgottenExit, KillInv, Alive
  <2>2. ReportInv
    BY DEF Init, ReportInv, QueueInv, ReportedByItself
  <2> QED
    BY TypeInit, <2>1, <2>2
<1>2. Inv /\ [Next]_vars => Inv'
  BY TypeStep, TableStep, ExitStep, ReportStep, KillStep
<1>3. Inv => IInv
  BY DEF TypeInv, ReportInv, IInv
<1> QED
  BY <1>1, <1>2, <1>3, PTL DEF Spec

\* What Shutdown signals is a child that has not been waited for.
THEOREM TableIsExact == Spec => []TableListsChildren
<1>1. IInv => TableListsChildren
  BY DEF IInv
<1> QED
  BY <1>1, Invariance, PTL

\* No exit is forgotten, however many of them one SIGCHLD stands for.
THEOREM ExitsAreRemembered == Spec => []NoForgottenExit
<1>1. IInv => NoForgottenExit
  BY DEF IInv
<1> QED
  BY <1>1, Invariance, PTL

\* Only a child's own report records it as running.
THEOREM ReportsAreOwn == Spec => []ReportedByItself
<1>1. IInv => ReportedByItself
  BY DEF IInv
<1> QED
  BY <1>1, Invariance, PTL

\* A manager that shuts down leaves no child alive but those it has killed.
THEOREM ShutdownIsComplete == Spec => []NoSurvivor
<1>1. IInv => NoSurvivor
  BY DEF IInv, KillInv, NoSurvivor
<1> QED
  BY <1>1, Invariance, PTL

-----------------------------------------------------------------------------
(* The manager implements the supervision of processes *)

\* The processes that are watched are those of the table.
LEMMA WatchedAreListed ==
    ASSUME TypeOK, TableListsChildren
    PROVE  /\ Supervision!Watched = DOMAIN managed
           /\ Supervision!Living = {p \in Pids : proc[p] \in Alive}
BY DEF TypeOK, TableListsChildren, Supervision!Watched, Supervision!Living, Life, Alive

\* A step that changes nothing of a child but what it does next, and that stays
\* in its phase, is not seen.
LEMMA Unseen ==
    ASSUME UNCHANGED <<managed, sigterm, killed, sent, late>>, Phase' = Phase, Life' = Life
    PROVE  UNCHANGED Supervision!supervisionVars
BY DEF Supervision!supervisionVars, Expected, Known, Suspected

\* Initially nothing has been started.
LEMMA SupervisionInit == Init => Supervision!Init
<1> SUFFICES ASSUME Init PROVE Supervision!Init
  OBVIOUS
<1>1. Phase = "starting"
  BY DEF Init, Phase
<1>2. Life = [p \in Pids |-> "none"]
  BY DEF Init, Life, Alive
<1>3. Expected = {} /\ Known = {} /\ Suspected = {}
  BY DEF Init, Expected, Known, Suspected
<1> QED
  BY <1>1, <1>2, <1>3 DEF Init, Supervision!Init

\* Starting up starts processes, enters the loop, or gives up with none started.
LEMMA SupervisionStartUp ==
    ASSUME IInv, StartUp
    PROVE  [Supervision!Next]_(Supervision!supervisionVars)
<1> USE DEF At, Goto
<1>1. CASE SetupSignals \/ StartFails \/ TransitionToRunning
  <2>1. Phase' = Phase
    BY <1>1 DEF SetupSignals, StartFails, TransitionToRunning, Phase
  <2>2. UNCHANGED <<managed, childVars, reportVars>>
    BY <1>1 DEF SetupSignals, StartFails, TransitionToRunning
  <2>3. Life' = Life
    BY <2>2 DEF childVars, Life
  <2> QED
    BY <2>1, <2>2, <2>3, Unseen DEF childVars, reportVars
<1>2. CASE SetupFails
  <2>1. Phase = "starting" /\ Phase' = "down"
    BY <1>2 DEF SetupFails, Phase
  <2>2. Supervision!Watched = {}
    BY <1>2 DEF SetupFails, IInv, LoopInv, Supervision!Watched, Life, Alive
  <2>3. UNCHANGED <<Life, Expected, Known, Suspected, sigterm, killed, sent, late>>
    BY <1>2 DEF SetupFails, childVars, reportVars, Life, Expected, Known, Suspected
  <2>4. {} \in SUBSET Supervision!Living /\ sigterm' = sigterm \cup {}
    BY <2>3
  <2>5. Supervision!AskOrphans
    BY <2>4 DEF Supervision!AskOrphans
  <2>6. Supervision!Finish
    BY <2>1, <2>2, <2>3, <2>5 DEF Supervision!Finish
  <2> QED
    BY <2>6 DEF Supervision!Next
<1>3. CASE StartProcess
  <2>1. PICK p \in Pids :
          /\ proc[p] = "none"
          /\ proc' = [proc EXCEPT ![p] = "forked"]
          /\ managed' = [q \in DOMAIN managed \cup {p} |->
                            IF q = p THEN NewlyStarted(Head(to_start)) ELSE managed[q]]
    BY <1>3 DEF StartProcess
  <2>2. p \notin DOMAIN managed
    BY <2>1 DEF IInv, TableListsChildren
  <2>3. Phase = "starting" /\ Phase' = "starting"
    BY <1>3 DEF StartProcess, Phase
  <2>4. Life[p] = "none" /\ Life' = [Life EXCEPT ![p] = "alive"]
    BY <2>1 DEF IInv, TypeOK, Life, Alive
  <2>5. Expected' \in {Expected, Expected \cup {p}}
    <3>1. CASE Head(to_start) \in ReportingApps
      BY <2>1, <2>2, <3>1 DEF Expected, NewlyStarted
    <3>2. CASE Head(to_start) \notin ReportingApps
      BY <2>1, <2>2, <3>2 DEF Expected, NewlyStarted
    <3> QED
      BY <3>1, <3>2
  <2>6. Known' = Known
    BY <2>1, <2>2 DEF Known, NewlyStarted
  <2>7. Suspected' = Suspected
    BY <2>1, <2>2 DEF Suspected, NewlyStarted
  <2>8. UNCHANGED <<sigterm, killed, sent, late>>
    BY <1>3 DEF StartProcess, reportVars
  <2>9. Supervision!Start(p)
    BY <2>3, <2>4, <2>5, <2>6, <2>7, <2>8 DEF Supervision!Start
  <2> QED
    BY <2>9 DEF Supervision!Next
<1>4. CASE EnterLoop
  <2>1. Phase = "starting" /\ Phase' = "supervising"
    BY <1>4 DEF EnterLoop, Phase
  <2>2. UNCHANGED <<Life, Expected, Known, Suspected, sigterm, killed, sent, late>>
    BY <1>4 DEF EnterLoop, childVars, reportVars, Life, Expected, Known, Suspected
  <2>3. Supervision!Supervise
    BY <2>1, <2>2 DEF Supervision!Supervise
  <2> QED
    BY <2>3 DEF Supervision!Next
<1> QED
  BY <1>1, <1>2, <1>3, <1>4 DEF StartUp

\* A turn of the loop notices ends, learns from a report that was sent, and
\* suspects those that are overdue.
LEMMA SupervisionLoop ==
    ASSUME IInv, Loop
    PROVE  [Supervision!Next]_(Supervision!supervisionVars)
<1> USE DEF At, Goto, Reaping
<1>1. CASE \/ Poll \/ PollFails \/ NoSignal \/ HandleStopSignal \/ HandleChildSignal
           \/ EndReaping \/ NoReport
  <2>1. Phase' = Phase
    BY <1>1 DEF Poll, PollFails, NoSignal, HandleStopSignal, HandleChildSignal, EndReaping,
       AfterReaping, NoReport, Phase
  <2>2. UNCHANGED <<managed, childVars, reportVars>>
    BY <1>1 DEF Poll, PollFails, NoSignal, HandleStopSignal, HandleChildSignal, EndReaping, NoReport
  <2>3. Life' = Life
    BY <2>2 DEF childVars, Life
  <2> QED
    BY <2>1, <2>2, <2>3, Unseen DEF childVars, reportVars
<1>2. CASE ReapChild
  <2>1. PICK p \in Pids : /\ proc[p] = "zombie"
                          /\ proc' = [proc EXCEPT ![p] = "reaped"]
                          /\ managed' = [q \in DOMAIN managed \ {p} |-> managed[q]]
                          /\ late' = late \ {p}
    BY <1>2 DEF ReapChild, EraseEntry
  <2>2. Phase' = Phase /\ Phase \in {"supervising", "stopping"}
    BY <1>2 DEF ReapChild, Phase
  <2>3. Life[p] = "ended" /\ Life' = [Life EXCEPT ![p] = "noticed"]
    BY <2>1 DEF IInv, TypeOK, Life, Alive
  <2>4. /\ Expected' = Expected \ {p}
        /\ Known' = Known \ {p}
        /\ Suspected' = Suspected \ {p}
    BY <2>1 DEF Expected, Known, Suspected
  <2>5. UNCHANGED <<sigterm, killed, sent>>
    BY <1>2 DEF ReapChild
  <2>6. Supervision!Notice(p)
    BY <2>1, <2>2, <2>3, <2>4, <2>5 DEF Supervision!Notice
  <2> QED
    BY <2>6 DEF Supervision!Next
<1>3. CASE HandleExecutionReport
  <2> DEFINE report == Head(reports)
  <2>1. reports # <<>> /\ reports \in Seq([pid : Pids, process : Apps])
    BY <1>3 DEF HandleExecutionReport, IInv, LoopInv, TypeOK
  <2>2. report.pid \in Pids /\ report.pid \in sent
    <3>1. /\ report \in [pid : Pids, process : Apps]
          /\ report = reports[1] /\ Len(reports) \in Nat /\ Len(reports) >= 1
      BY <2>1, QueueParts
    <3>2. reports[1].pid \in sent
      BY <3>1 DEF IInv, QueueInv
    <3> QED
      BY <3>1, <3>2
  <2>3. managed' = [p \in DOMAIN managed |->
                      IF Concerns(p, report)
                      THEN [managed[p] EXCEPT !.running_reported = TRUE] ELSE managed[p]]
    BY <1>3 DEF HandleExecutionReport
  <2>4. managed \in [DOMAIN managed -> Entry]
    BY DEF IInv, TypeOK
  <2>5. Expected' = Expected
    BY <2>3, <2>4 DEF Expected, Entry
  <2>6. Suspected' = Suspected
    BY <2>3, <2>4 DEF Suspected, Entry
  <2>7. Phase = "supervising" /\ Phase' = "supervising"
    BY <1>3 DEF HandleExecutionReport, Phase
  <2>8. UNCHANGED <<Life, sigterm, killed, sent, late>>
    BY <1>3 DEF HandleExecutionReport, childVars, Life
  <2>9. CASE report.pid \in DOMAIN managed /\ Concerns(report.pid, report)
    <3>1. Known' = Known \cup {report.pid}
      BY <2>3, <2>4, <2>9 DEF Known, Concerns, Entry
    <3>2. report.pid \in Supervision!Watched
      BY <2>9, WatchedAreListed DEF IInv
    <3>3. Supervision!Learn(report.pid)
      BY <2>2, <2>5, <2>6, <2>7, <2>8, <3>1, <3>2 DEF Supervision!Learn
    <3> QED
      BY <2>2, <3>3 DEF Supervision!Next
  <2>10. CASE ~(report.pid \in DOMAIN managed /\ Concerns(report.pid, report))
    <3>1. Known' = Known
      BY <2>3, <2>4, <2>10 DEF Known, Concerns
    <3> QED
      BY <2>5, <2>6, <2>7, <2>8, <3>1 DEF Supervision!supervisionVars
  <2> QED
    BY <2>9, <2>10
<1>4. CASE CheckExecutionReportingTimeouts
  <2>1. managed' = [p \in DOMAIN managed |->
                      IF Overdue(p)
                      THEN [managed[p] EXCEPT !.reporting_timeout_logged = TRUE] ELSE managed[p]]
    BY <1>4 DEF CheckExecutionReportingTimeouts
  <2>2. managed \in [DOMAIN managed -> Entry]
    BY DEF IInv, TypeOK
  <2>3. Expected' = Expected /\ Known' = Known
    BY <2>1, <2>2 DEF Expected, Known, Entry
  <2>4. Suspected' = Suspected \cup {p \in DOMAIN managed : Overdue(p)}
    BY <2>1, <2>2 DEF Suspected, Entry
  <2>5. {p \in DOMAIN managed : Overdue(p)} = (Expected \cap late) \ Known
    BY DEF Overdue, Expected, Known
  <2>6. Phase = "supervising" /\ Phase' = "supervising"
    BY <1>4 DEF CheckExecutionReportingTimeouts, Phase
  <2>7. UNCHANGED <<Life, sigterm, killed, sent, late>>
    BY <1>4 DEF CheckExecutionReportingTimeouts, childVars, reportVars, Life
  <2>8. Supervision!Suspect
    BY <2>3, <2>4, <2>5, <2>6, <2>7 DEF Supervision!Suspect
  <2> QED
    BY <2>8 DEF Supervision!Next
<1> QED
  BY <1>1, <1>2, <1>3, <1>4 DEF Loop

\* Shutdown asks all that are left, then dooms all that are left, and the
\* manager ends when they are gone or doomed; or it is lost at any time.
LEMMA SupervisionShutdown ==
    ASSUME IInv, Shutdown \/ Crash
    PROVE  [Supervision!Next]_(Supervision!supervisionVars)
<1> USE DEF At, Goto
<1>1. Supervision!Watched = DOMAIN managed /\ Supervision!Living = {p \in Pids : proc[p] \in Alive}
  BY WatchedAreListed DEF IInv
<1>2. CASE GraceAttempt \/ GraceEnds \/ KillAttempt
  <2>1. Phase' = Phase
    BY <1>2 DEF GraceAttempt, GraceEnds, KillAttempt, Phase
  <2>2. UNCHANGED <<managed, childVars, reportVars>>
    BY <1>2 DEF GraceAttempt, GraceEnds, KillAttempt
  <2>3. Life' = Life
    BY <2>2 DEF childVars, Life
  <2> QED
    BY <2>1, <2>2, <2>3, Unseen DEF childVars, reportVars
<1>3. CASE SendSigterm
  <2>1. Phase = "supervising" /\ Phase' = "stopping"
    BY <1>3 DEF SendSigterm, Phase
  <2>2. UNCHANGED <<Life, Expected, Known, Suspected, killed, sent, late>>
    BY <1>3 DEF SendSigterm, reportVars, Life, Expected, Known, Suspected
  <2>3. sigterm' = sigterm \cup DOMAIN managed
    BY <1>3 DEF SendSigterm
  <2>4. Supervision!AskAll
    BY <1>1, <2>1, <2>2, <2>3 DEF Supervision!AskAll
  <2> QED
    BY <2>4 DEF Supervision!Next
<1>4. CASE SendSigkill
  <2>1. Phase = "stopping" /\ Phase' = "stopping"
    BY <1>4 DEF SendSigkill, Phase
  <2>2. UNCHANGED <<Life, Expected, Known, Suspected, sigterm, sent, late>>
    BY <1>4 DEF SendSigkill, reportVars, Life, Expected, Known, Suspected
  <2>3. killed' = killed \cup DOMAIN managed
    BY <1>4 DEF SendSigkill, RemainingChildren
  <2>4. Supervision!DoomAll
    BY <1>1, <2>1, <2>2, <2>3 DEF Supervision!DoomAll
  <2> QED
    BY <2>4 DEF Supervision!Next
<1>5. ASSUME ParentDeathSignal PROVE Supervision!AskOrphans
  <2> DEFINE orphans == {p \in Pids : proc[p] \in {"armed", "program"}}
  <2>1. orphans \in SUBSET Supervision!Living
    BY <1>1 DEF Alive
  <2>2. sigterm' = sigterm \cup orphans
    BY <1>5 DEF ParentDeathSignal
  <2> QED
    BY <2>1, <2>2 DEF Supervision!AskOrphans
<1>6. CASE Exit
  <2>1. Phase = "stopping" /\ Phase' = "down"
    BY <1>6 DEF Exit, Phase
  <2>2. UNCHANGED <<Life, Expected, Known, Suspected, killed, sent, late>>
    BY <1>6 DEF Exit, reportVars, Life, Expected, Known, Suspected
  <2>3. Supervision!Living \subseteq killed
    <3>1. \A p \in Pids : proc[p] \in Alive => p \in DOMAIN managed
      BY DEF IInv, TypeOK, TableListsChildren, Alive
    <3> QED
      BY <1>1, <1>6, <3>1 DEF Exit, IInv, KillInv
  <2>4. Supervision!AskOrphans
    BY <1>5, <1>6 DEF Exit
  <2>5. Supervision!Finish
    BY <2>1, <2>2, <2>3, <2>4 DEF Supervision!Finish
  <2> QED
    BY <2>5 DEF Supervision!Next
<1>7. CASE Crash
  <2>1. Phase \notin {"down", "lost"} /\ Phase' = "lost"
    BY <1>7 DEF Crash, EmAlive, Phase
  <2>2. UNCHANGED <<Life, Expected, Known, Suspected, killed, sent, late>>
    BY <1>7 DEF Crash, reportVars, Life, Expected, Known, Suspected
  <2>3. Supervision!AskOrphans
    BY <1>5, <1>7 DEF Crash
  <2>4. Supervision!Lose
    BY <2>1, <2>2, <2>3 DEF Supervision!Lose
  <2> QED
    BY <2>4 DEF Supervision!Next
<1> QED
  BY <1>2, <1>3, <1>4, <1>6, <1>7 DEF Shutdown

\* Children end, speak and are overdue in any phase.
LEMMA SupervisionEnvironment ==
    ASSUME IInv, EnvironmentStep
    PROVE  [Supervision!Next]_(Supervision!supervisionVars)
<1>1. ASSUME NEW p \in Pids, proc[p] \in Alive, Ends(p)
      PROVE  Supervision!Next
  <2>1. Life[p] = "alive" /\ Life' = [Life EXCEPT ![p] = "ended"]
    BY <1>1 DEF Ends, IInv, TypeOK, Life, Alive
  <2>2. UNCHANGED <<Phase, Expected, Known, Suspected, sent, late>>
    BY <1>1 DEF Ends, reportVars, Phase, Expected, Known, Suspected
  <2>3. Supervision!End(p)
    BY <1>1, <2>1, <2>2 DEF Ends, Supervision!End
  <2> QED
    BY <2>3 DEF Supervision!Next
<1>2. ASSUME NEW p \in Pids, ArmParentDeath(p) \/ ExecuteProgram(p)
      PROVE  UNCHANGED Supervision!supervisionVars
  <2>1. Life' = Life
    BY <1>2 DEF ArmParentDeath, ExecuteProgram, IInv, TypeOK, Life, Alive
  <2>2. Phase' = Phase
    BY <1>2 DEF ArmParentDeath, ExecuteProgram, Phase
  <2> QED
    BY <1>2, <2>1, <2>2, Unseen DEF ArmParentDeath, ExecuteProgram, reportVars
<1>3. ASSUME NEW p \in Pids, SendReport(p)
      PROVE  Supervision!Next
  <2>1. Life[p] = "alive"
    BY <1>3 DEF SendReport, Life, Alive
  <2>2. UNCHANGED <<Phase, Life, Expected, Known, Suspected, sigterm, killed, late>>
    BY <1>3 DEF SendReport, childVars, Phase, Life, Expected, Known, Suspected
  <2>3. Supervision!Speak(p)
    BY <1>3, <2>1, <2>2 DEF SendReport, Supervision!Speak
  <2> QED
    BY <2>3 DEF Supervision!Next
<1>4. ASSUME NEW p \in Pids, TimeoutElapses(p)
      PROVE  Supervision!Next
  <2>1. p \in Supervision!Watched
    BY <1>4, WatchedAreListed DEF TimeoutElapses, IInv
  <2>2. UNCHANGED <<Phase, Life, Expected, Known, Suspected, sigterm, killed, sent>>
    BY <1>4 DEF TimeoutElapses, childVars, Phase, Life, Expected, Known, Suspected
  <2>3. Supervision!Elapse(p)
    BY <1>4, <2>1, <2>2 DEF TimeoutElapses, Supervision!Elapse
  <2> QED
    BY <2>3 DEF Supervision!Next
<1>5. CASE RequestStop
  <2>1. Phase' = Phase /\ Life' = Life
    BY <1>5 DEF RequestStop, childVars, Phase, Life
  <2> QED
    BY <1>5, <2>1, Unseen DEF RequestStop, childVars, reportVars
<1> QED
  BY <1>1, <1>2, <1>3, <1>4, <1>5
     DEF EnvironmentStep, ChildStep, ParentIsGone, ChildEnds, SigtermEnds, SigkillEnds, Alive

\* The Execution Manager implements the supervision of processes: every step of
\* the manager, the kernel or a child is a step of ProcessSupervision, or unseen.
THEOREM Refinement == Spec => ImplementsProcessSupervision
<1>1. IInv /\ [Next]_vars => [Supervision!Next]_(Supervision!supervisionVars)
  <2> SUFFICES ASSUME IInv, [Next]_vars PROVE [Supervision!Next]_(Supervision!supervisionVars)
    OBVIOUS
  <2>1. CASE UNCHANGED vars
    <3>1. Phase' = Phase /\ Life' = Life
      BY <2>1 DEF vars, childVars, Phase, Life
    <3> QED
      BY <2>1, <3>1, Unseen DEF vars, childVars, reportVars
  <2> QED
    BY <2>1, SupervisionStartUp, SupervisionLoop, SupervisionShutdown, SupervisionEnvironment
       DEF Next, EmStep, Environment, EnvironmentStep
<1> QED
  BY <1>1, SupervisionInit, Invariance, PTL
     DEF Spec, ImplementsProcessSupervision, Supervision!Spec
=============================================================================
