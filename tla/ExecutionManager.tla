--------------------------- MODULE ExecutionManager ---------------------------
(***************************************************************************)
(* The Execution Manager: it starts the processes that its manifest selects*)
(* for the machine states Startup and Running, then loops over poll on a   *)
(* signalfd and on the socket of execution reports, and at last ends its   *)
(* children with SIGTERM and, after a grace period, SIGKILL.               *)
(*                                                                         *)
(* The kernel's side (the table of processes, pending and blocked signals, *)
(* the queue of the socket) is modelled as the code uses it.  A signal is  *)
(* pending or not: several exits of children make one pending SIGCHLD.     *)
(***************************************************************************)
EXTENDS Integers, Sequences

CONSTANTS
    Apps,           \* the process entries of the execution manifest
    Pids,           \* the pids the kernel can give to a child
    Selected,       \* for each machine state, the entries it starts, in order
    InitialState,   \* the initial machine state of the machine manifest
    ReportingApps,  \* the entries with REPORTS-EXECUTION-STATE
    UnblockingApps, \* those whose program unblocks SIGTERM: none of this repository
    MaxAttempts,    \* max(1, shutdown_grace_period_ms / 100)
    MaxReports,     \* bound: datagrams the socket holds before senders block
    EmMayCrash      \* whether the manager itself may be killed

StartStates == {"Startup", "Running"}

ASSUME ManagerAssumption ==
    /\ Selected \in [StartStates -> Seq(Apps)]
    /\ InitialState \in StartStates
    /\ ReportingApps \subseteq Apps
    /\ UnblockingApps \subseteq Apps
    /\ MaxAttempts \in Nat \ {0}
    /\ MaxReports \in Nat \ {0}
    /\ EmMayCrash \in BOOLEAN

VARIABLES
    em,             \* the control point of the manager
    machine_state,
    to_start,       \* the entries of this state that are still to be started
    managed,        \* managed_processes_: a record for each pid
    readable,       \* revents of the last poll
    running,        \* the loop's flag
    attempt,        \* the attempts made at reaping during Shutdown
    pending,        \* signals that wait in the manager's signalfd
    em_blocks,      \* has the manager blocked its signals?
    proc,           \* the state of every child
    blocked,        \* the children that have SIGTERM blocked
    sigterm,        \* the children that were sent SIGTERM
    killed,         \* the children that were sent SIGKILL
    reports,        \* the datagrams in the report socket
    sent,           \* history: the children that have sent their report
    late            \* the children in the table whose reporting timeout has elapsed

loopVars == <<machine_state, to_start, readable, running, attempt>>
childVars == <<proc, blocked, sigterm, killed>>
reportVars == <<reports, sent, late>>
vars == <<em, loopVars, managed, pending, em_blocks, childVars, reportVars>>

Reaping == {"reap", "reap_grace", "reap_kill"}
EmLabels == {"setup", "start", "poll", "signal", "report", "timeouts", "shutdown", "grace",
             "kill", "kill_wait", "exited", "crashed"} \cup Reaping

\* A child from fork to the end: before prctl, before getppid, in its program.
Alive == {"forked", "armed", "program"}

EmAlive == em \notin {"exited", "crashed"}

NewlyStarted(app) ==
    [process |-> app, running_reported |-> FALSE, reporting_timeout_logged |-> FALSE]

Init ==
    /\ em = "setup"
    /\ machine_state = InitialState
    /\ to_start = <<>>
    /\ managed = [p \in {} |-> NewlyStarted(p)]
    /\ readable = [signal |-> FALSE, report |-> FALSE]
    /\ running = TRUE
    /\ attempt = 0
    /\ pending = {}
    /\ em_blocks = FALSE
    /\ proc = [p \in Pids |-> "none"]
    /\ blocked = {}
    /\ sigterm = {}
    /\ killed = {}
    /\ reports = <<>>
    /\ sent = {}
    /\ late = {}

At(label) == em = label
Goto(label) == em' = label
-----------------------------------------------------------------------------
(* Start-up *)

SetupSignals ==
    /\ At("setup") /\ Goto("start")
    /\ em_blocks' = TRUE
    /\ to_start' = Selected[InitialState]
    /\ UNCHANGED <<machine_state, readable, running, attempt, managed, pending, childVars, reportVars>>

\* A manifest does not load, or the signals or the report socket cannot be set
\* up: the manager exits before it has started anything.
SetupFails ==
    /\ At("setup") /\ Goto("exited")
    /\ UNCHANGED <<loopVars, managed, pending, em_blocks, childVars, reportVars>>

\* fork succeeds: the child has the manager's signal mask.  No child has been
\* waited for yet, so the kernel cannot give its pid a second time.
StartProcess ==
    /\ At("start") /\ to_start # <<>>
    /\ \E p \in Pids :
         /\ proc[p] = "none"
         /\ proc' = [proc EXCEPT ![p] = "forked"]
         /\ managed' = [q \in DOMAIN managed \cup {p} |->
                           IF q = p THEN NewlyStarted(Head(to_start)) ELSE managed[q]]
         /\ blocked' = IF em_blocks THEN blocked \cup {p} ELSE blocked
    /\ to_start' = Tail(to_start)
    /\ UNCHANGED <<em, machine_state, readable, running, attempt, pending, em_blocks, sigterm,
                   killed, reportVars>>

StartFails ==
    /\ At("start") /\ to_start # <<>>
    /\ to_start' = Tail(to_start)
    /\ UNCHANGED <<em, machine_state, readable, running, attempt, managed, pending, em_blocks,
                   childVars, reportVars>>

\* The machine goes from Startup to Running by itself.
TransitionToRunning ==
    /\ At("start") /\ to_start = <<>> /\ machine_state = "Startup"
    /\ machine_state' = "Running"
    /\ to_start' = Selected["Running"]
    /\ UNCHANGED <<em, readable, running, attempt, managed, pending, em_blocks, childVars, reportVars>>

EnterLoop ==
    /\ At("start") /\ to_start = <<>> /\ machine_state = "Running"
    /\ Goto("poll")
    /\ UNCHANGED <<loopVars, managed, pending, em_blocks, childVars, reportVars>>
-----------------------------------------------------------------------------
(* The loop: each turn handles what was readable when poll returned *)

Poll ==
    /\ At("poll") /\ Goto("signal")
    /\ readable' = [signal |-> pending # {}, report |-> reports # <<>>]
    /\ UNCHANGED <<machine_state, to_start, running, attempt, managed, pending, em_blocks,
                   childVars, reportVars>>

\* An error of poll other than EINTR ends the loop.
PollFails ==
    /\ At("poll") /\ Goto("shutdown")
    /\ UNCHANGED <<loopVars, managed, pending, em_blocks, childVars, reportVars>>

NoSignal ==
    /\ At("signal") /\ ~readable.signal /\ Goto("report")
    /\ UNCHANGED <<loopVars, managed, pending, em_blocks, childVars, reportVars>>

\* The signalfd hands out the signal with the lowest number: SIGTERM (or
\* SIGINT) before SIGCHLD.
HandleStopSignal ==
    /\ At("signal") /\ readable.signal /\ "SIGTERM" \in pending
    /\ Goto("report")
    /\ pending' = pending \ {"SIGTERM"}
    /\ running' = FALSE
    /\ UNCHANGED <<machine_state, to_start, readable, attempt, managed, em_blocks, childVars, reportVars>>

HandleChildSignal ==
    /\ At("signal") /\ readable.signal /\ pending = {"SIGCHLD"}
    /\ Goto("reap")
    /\ pending' = {}
    /\ UNCHANGED <<loopVars, managed, em_blocks, childVars, reportVars>>

\* Mutant: the entry of a reaped child stays in the table.
KeepEntry(p) == managed

EraseEntry(p) == [q \in DOMAIN managed \ {p} |-> managed[q]]

AfterReaping ==
    [reap |-> "report", reap_grace |-> "grace", reap_kill |-> "kill_wait"]

\* One turn of the waitpid loop of HandleChildExit.
ReapChild ==
    /\ em \in Reaping
    /\ \E p \in Pids :
         /\ proc[p] = "zombie"
         /\ proc' = [proc EXCEPT ![p] = "reaped"]
         /\ managed' = EraseEntry(p)
         /\ late' = late \ {p}
    /\ UNCHANGED <<em, loopVars, pending, em_blocks, blocked, sigterm, killed, reports, sent>>

\* Mutant: one waitpid for each SIGCHLD that is read.
ReapedEnough == \E p \in Pids : proc[p] = "reaped"

NothingToReap == \A p \in Pids : proc[p] # "zombie"

\* Mutant: the attempts of Shutdown are not counted.
SameAttempt == attempt

NextAttempt == IF em = "reap" THEN attempt ELSE attempt + 1

\* waitpid finds no more; Shutdown then sleeps, unless all are gone.
EndReaping ==
    /\ em \in Reaping
    /\ NothingToReap
    /\ Goto(AfterReaping[em])
    /\ attempt' = NextAttempt
    /\ UNCHANGED <<machine_state, to_start, readable, running, managed, pending, em_blocks,
                   childVars, reportVars>>

NoReport ==
    /\ At("report") /\ ~readable.report /\ Goto("timeouts")
    /\ UNCHANGED <<loopVars, managed, pending, em_blocks, childVars, reportVars>>

\* Mutant: a report counts for every child of that name.
SameName(p, report) == managed[p].process = report.process

\* The report comes from a child that is in the table, under its own name.
Concerns(p, report) ==
    p = report.pid /\ managed[p].process = report.process

HandleExecutionReport ==
    /\ At("report") /\ readable.report /\ Goto("timeouts")
    /\ reports' = Tail(reports)
    /\ managed' = [p \in DOMAIN managed |->
                      IF Concerns(p, Head(reports))
                      THEN [managed[p] EXCEPT !.running_reported = TRUE] ELSE managed[p]]
    /\ UNCHANGED <<loopVars, pending, em_blocks, childVars, sent, late>>

\* Mutant: a child is checked only in a turn in which a report was read.
OverdueInReportTurn(p) ==
    /\ readable.report
    /\ p \in late
    /\ managed[p].process \in ReportingApps
    /\ ~managed[p].running_reported

Overdue(p) ==
    /\ p \in late
    /\ managed[p].process \in ReportingApps
    /\ ~managed[p].running_reported

\* The end of a turn; the last turn is followed by Shutdown.
CheckExecutionReportingTimeouts ==
    /\ At("timeouts") /\ Goto(IF running THEN "poll" ELSE "shutdown")
    /\ managed' = [p \in DOMAIN managed |->
                      IF Overdue(p)
                      THEN [managed[p] EXCEPT !.reporting_timeout_logged = TRUE] ELSE managed[p]]
    /\ UNCHANGED <<loopVars, pending, em_blocks, childVars, reportVars>>
-----------------------------------------------------------------------------
(* Shutdown *)

SendSigterm ==
    /\ At("shutdown") /\ Goto("grace")
    /\ machine_state' = "Shutdown"
    /\ sigterm' = sigterm \cup DOMAIN managed
    /\ attempt' = 0
    /\ UNCHANGED <<to_start, readable, running, managed, pending, em_blocks, proc, blocked,
                   killed, reportVars>>

\* Mutant: the loop goes on until all children are gone.
TryForEver == DOMAIN managed # {}

TryAgain == attempt < MaxAttempts /\ DOMAIN managed # {}

GraceAttempt ==
    /\ At("grace") /\ TryAgain /\ Goto("reap_grace")
    /\ UNCHANGED <<loopVars, managed, pending, em_blocks, childVars, reportVars>>

GraceEnds ==
    /\ At("grace") /\ ~TryAgain /\ Goto("kill")
    /\ UNCHANGED <<loopVars, managed, pending, em_blocks, childVars, reportVars>>

\* Mutant: only the children that reported are killed.
ReportedChildren == {p \in DOMAIN managed : managed[p].running_reported}

RemainingChildren == DOMAIN managed

SendSigkill ==
    /\ At("kill") /\ DOMAIN managed # {} /\ Goto("kill_wait")
    /\ killed' = killed \cup RemainingChildren
    /\ attempt' = 0
    /\ UNCHANGED <<machine_state, to_start, readable, running, managed, pending, em_blocks, proc,
                   blocked, sigterm, reportVars>>

KillAttempt ==
    /\ At("kill_wait") /\ TryAgain /\ Goto("reap_kill")
    /\ UNCHANGED <<loopVars, managed, pending, em_blocks, childVars, reportVars>>

\* The kernel sends SIGTERM to the children that asked for it by prctl.
ParentDeathSignal ==
    sigterm' = sigterm \cup {p \in Pids : proc[p] \in {"armed", "program"}}

\* Shutdown is complete and the manager exits.
Exit ==
    /\ \/ At("kill") /\ DOMAIN managed = {}
       \/ At("kill_wait") /\ ~TryAgain
    /\ Goto("exited")
    /\ ParentDeathSignal
    /\ UNCHANGED <<loopVars, managed, pending, em_blocks, proc, blocked, killed, reportVars>>

\* The manager is killed, or exits unexpectedly.
Crash ==
    /\ EmMayCrash /\ EmAlive /\ Goto("crashed")
    /\ ParentDeathSignal
    /\ UNCHANGED <<loopVars, managed, pending, em_blocks, proc, blocked, killed, reportVars>>
-----------------------------------------------------------------------------
(* The children, the kernel and the user *)

\* A child ends, and its mask and its signals with it: the kernel keeps its
\* entry and makes SIGCHLD pending.
Ends(p) ==
    /\ proc' = [proc EXCEPT ![p] = "zombie"]
    /\ pending' = pending \cup {"SIGCHLD"}
    /\ blocked' = blocked \ {p}
    /\ sigterm' = sigterm \ {p}
    /\ killed' = killed \ {p}
    /\ UNCHANGED <<em, loopVars, managed, em_blocks, reportVars>>

ArmParentDeath(p) ==
    /\ proc[p] = "forked"
    /\ proc' = [proc EXCEPT ![p] = "armed"]
    /\ UNCHANGED <<em, loopVars, managed, pending, em_blocks, blocked, sigterm, killed, reportVars>>

\* getppid says that the manager is still there: the program is executed, with
\* the mask of the manager unless it changes that.
ExecuteProgram(p) ==
    /\ proc[p] = "armed" /\ EmAlive
    /\ proc' = [proc EXCEPT ![p] = "program"]
    /\ blocked' = IF managed[p].process \in UnblockingApps THEN blocked \ {p} ELSE blocked
    /\ UNCHANGED <<em, loopVars, managed, pending, em_blocks, sigterm, killed, reportVars>>

ParentIsGone(p) == proc[p] = "armed" /\ ~EmAlive /\ Ends(p)

\* prctl or execve fails, or the program ends by itself.
ChildEnds(p) == proc[p] \in Alive /\ Ends(p)

\* SIGTERM is delivered only to a child that does not block it.
SigtermEnds(p) == proc[p] \in Alive /\ p \in sigterm /\ p \notin blocked /\ Ends(p)

SigkillEnds(p) == proc[p] \in Alive /\ p \in killed /\ Ends(p)

\* ExecutionClient::ReportExecutionState; the sender blocks on a full socket.
SendReport(p) ==
    /\ proc[p] = "program" /\ p \notin sent /\ EmAlive
    /\ p \in DOMAIN managed
    /\ Len(reports) < MaxReports
    /\ reports' = Append(reports, [pid |-> p, process |-> managed[p].process])
    /\ sent' = sent \cup {p}
    /\ UNCHANGED <<em, loopVars, managed, pending, em_blocks, childVars, late>>

\* reporting_timeout_ms have elapsed since the child was started.
TimeoutElapses(p) ==
    /\ p \in DOMAIN managed /\ p \notin late
    /\ late' = late \cup {p}
    /\ UNCHANGED <<em, loopVars, managed, pending, em_blocks, childVars, reports, sent>>

\* The user asks the manager to stop.
RequestStop ==
    /\ EmAlive /\ em_blocks /\ "SIGTERM" \notin pending
    /\ pending' = pending \cup {"SIGTERM"}
    /\ UNCHANGED <<em, loopVars, managed, em_blocks, childVars, reportVars>>
-----------------------------------------------------------------------------
StartUp ==
    \/ SetupSignals \/ SetupFails
    \/ StartProcess \/ StartFails \/ TransitionToRunning \/ EnterLoop

Loop ==
    \/ Poll \/ PollFails
    \/ NoSignal \/ HandleStopSignal \/ HandleChildSignal \/ ReapChild \/ EndReaping
    \/ NoReport \/ HandleExecutionReport \/ CheckExecutionReportingTimeouts

Shutdown ==
    SendSigterm \/ GraceAttempt \/ GraceEnds \/ SendSigkill \/ KillAttempt \/ Exit

EmStep == StartUp \/ Loop \/ Shutdown

\* What the kernel and the code before main do for a child in finite time.
ChildStep(p) ==
    ArmParentDeath(p) \/ ExecuteProgram(p) \/ ParentIsGone(p) \/ SigtermEnds(p) \/ SigkillEnds(p)

Environment ==
    \/ \E p \in Pids : ChildStep(p) \/ ChildEnds(p) \/ SendReport(p) \/ TimeoutElapses(p)
    \/ RequestStop
    \/ Crash

Next == EmStep \/ Environment

Spec == Init /\ [][Next]_vars

\* The manager is scheduled (poll and sleep end by themselves), and so are its
\* children; nothing makes a program end, report, or the user ask for a stop.
FairSpec ==
    /\ Spec
    /\ WF_vars(EmStep)
    /\ \A p \in Pids : WF_vars(ChildStep(p))
-----------------------------------------------------------------------------
(* Properties *)

Entry == [process : Apps, running_reported : BOOLEAN, reporting_timeout_logged : BOOLEAN]

\* Type invariant.
TypeOK ==
    /\ em \in EmLabels
    /\ machine_state \in StartStates \cup {"Shutdown"}
    /\ to_start \in Seq(Apps)
    /\ DOMAIN managed \subseteq Pids
    /\ managed \in [DOMAIN managed -> Entry]
    /\ readable \in [signal : BOOLEAN, report : BOOLEAN]
    /\ running \in BOOLEAN
    /\ attempt \in 0..MaxAttempts
    /\ pending \subseteq {"SIGTERM", "SIGCHLD"}
    /\ em_blocks \in BOOLEAN
    /\ proc \in [Pids -> Alive \cup {"none", "zombie", "reaped"}]
    /\ blocked \subseteq Pids
    /\ sigterm \subseteq Pids
    /\ killed \subseteq Pids
    /\ reports \in Seq([pid : Pids, process : Apps])
    /\ sent \subseteq Pids
    /\ late \subseteq Pids

\* The table lists the children that were started and not yet waited for, and
\* no other pid: what Shutdown signals is a child of the manager, never a pid
\* that the kernel may have given to somebody else.
TableListsChildren ==
    DOMAIN managed = {p \in Pids : proc[p] \notin {"none", "reaped"}}

\* An exit is never forgotten: while a child is a zombie, SIGCHLD is pending, or
\* the manager is reaping, or it has reached the part of Shutdown that reaps
\* without being told.
NoForgottenExit ==
    (\E p \in Pids : proc[p] = "zombie") =>
        \/ "SIGCHLD" \in pending
        \/ em \in Reaping
        \/ ~EmAlive
        \/ em \in {"shutdown", "grace", "kill", "kill_wait"}

\* A child is recorded as running only if this very child has reported it,
\* although two children may have the same name and reports may outlive
\* the child that sent them.
ReportedByItself ==
    \A p \in DOMAIN managed : managed[p].running_reported => p \in sent

\* When the manager has shut down, every child has ended or is being killed.
NoSurvivor ==
    em = "exited" => \A p \in Pids : proc[p] \in Alive => p \in killed

\* Nothing is started before the signals are set up; what poll found readable
\* still is, as only the manager reads; and an attempt at reaping is one that
\* was left.
LoopInv ==
    /\ em = "setup" => \A p \in Pids : proc[p] = "none"
    /\ em \in {"signal", "reap", "report"} /\ readable.report => reports # <<>>
    /\ em = "signal" /\ readable.signal => pending # {}
    /\ em \in {"reap_grace", "reap_kill"} => attempt < MaxAttempts

\* A datagram was sent by the child whose pid it carries.
QueueInv == \A i \in 1..Len(reports) : reports[i].pid \in sent

\* From the moment Shutdown has sent SIGKILL.
KillInv ==
    em \in {"kill_wait", "reap_kill", "exited"} => \A p \in Pids : proc[p] \in Alive => p \in killed

\* The inductive invariant.
IInv ==
    /\ TypeOK
    /\ LoopInv
    /\ TableListsChildren
    /\ NoForgottenExit
    /\ QueueInv
    /\ ReportedByItself
    /\ KillInv

-----------------------------------------------------------------------------
(* What the manager promises of the processes it starts *)

\* The phase of the manager, to somebody who sees only what becomes of processes.
Phase ==
    CASE em \in {"setup", "start"} -> "starting"
      [] em \in {"grace", "kill", "kill_wait", "reap_grace", "reap_kill"} -> "stopping"
      [] em = "exited" -> "down"
      [] em = "crashed" -> "lost"
      [] OTHER -> "supervising"

Life ==
    [p \in Pids |-> CASE proc[p] \in Alive -> "alive"
                      [] proc[p] = "zombie" -> "ended"
                      [] proc[p] = "reaped" -> "noticed"
                      [] OTHER -> "none"]

\* What the table says of its children.
Expected == {p \in DOMAIN managed : managed[p].process \in ReportingApps}
Known == {p \in DOMAIN managed : managed[p].running_reported}
Suspected == {p \in DOMAIN managed : managed[p].reporting_timeout_logged}

Supervision == INSTANCE ProcessSupervision WITH
    Processes <- Pids,
    manager <- Phase,
    life <- Life,
    expected <- Expected,
    spoke <- sent,
    overdue <- late,
    known <- Known,
    suspected <- Suspected,
    asked <- sigterm,
    doomed <- killed

\* The manager implements the supervision of processes: whatever the order of
\* signals, exits and reports, it starts a process once, hears of it only what
\* it said itself, notices its end, and asks everyone to end before it kills.
ImplementsProcessSupervision == Supervision!Spec

-----------------------------------------------------------------------------
(* Liveness *)

\* A child that has exited is reaped, although several exits make one SIGCHLD,
\* unless the manager itself has ended.
ExitsAreReaped ==
    \A p \in Pids : proc[p] = "zombie" ~> proc[p] = "reaped" \/ ~EmAlive

\* A stop request ends the manager, whatever its children do.
StopEndsManager == "SIGTERM" \in pending ~> ~EmAlive

\* A program that has not reported by its timeout, and never does, is noticed,
\* unless it or the manager ends first.
SilenceIsNoticed ==
    \A p \in Pids :
        (p \in late /\ p \in DOMAIN managed /\ managed[p].process \in ReportingApps) ~>
            \/ p \in sent
            \/ p \notin DOMAIN managed
            \/ managed[p].reporting_timeout_logged
            \/ ~EmAlive

\* A child does not outlive a manager that is killed: what StartProcess arranges
\* for with prctl(PR_SET_PDEATHSIG, SIGTERM).
NoOrphan == em = "crashed" ~> \A p \in Pids : proc[p] \notin Alive
=============================================================================
