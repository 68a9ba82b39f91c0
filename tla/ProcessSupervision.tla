-------------------------- MODULE ProcessSupervision --------------------------
(***************************************************************************)
(* What the Execution Manager promises about the processes it starts, with *)
(* nothing said about signals, tables or messages.  A process is started   *)
(* once, and only before supervision begins; its end is noticed after it   *)
(* has ended; it is known to run when it has said so itself, and suspected *)
(* when it should have.  At the end every process is asked to end, before  *)
(* any is killed, and nobody is left who was not.                          *)
(***************************************************************************)
EXTENDS Naturals

CONSTANT Processes

VARIABLES
    manager,        \* the manager's phase
    life,           \* of each process
    expected,       \* the processes that have to say that they run
    spoke,          \* those that have said it
    overdue,        \* those whose time to say it has elapsed
    known,          \* those of which the manager has heard it
    suspected,      \* those of which the manager has noted that it did not hear it
    asked,          \* those that were asked to end
    doomed          \* those that were sent what no process survives

supervisionVars ==
    <<manager, life, expected, spoke, overdue, known, suspected, asked, doomed>>

\* Started, and their end not yet noticed.
Watched == {p \in Processes : life[p] \in {"alive", "ended"}}
Living == {p \in Processes : life[p] = "alive"}

Init ==
    /\ manager = "starting"
    /\ life = [p \in Processes |-> "none"]
    /\ expected = {} /\ spoke = {} /\ overdue = {} /\ known = {} /\ suspected = {}
    /\ asked = {} /\ doomed = {}

Start(p) ==
    /\ manager = "starting" /\ life[p] = "none"
    /\ life' = [life EXCEPT ![p] = "alive"]
    /\ expected' \in {expected, expected \cup {p}}
    /\ UNCHANGED <<manager, spoke, overdue, known, suspected, asked, doomed>>

\* A process ends, by itself or because it was made to.
End(p) ==
    /\ life[p] = "alive"
    /\ life' = [life EXCEPT ![p] = "ended"]
    /\ asked' = asked \ {p} /\ doomed' = doomed \ {p}
    /\ UNCHANGED <<manager, expected, spoke, overdue, known, suspected>>

Speak(p) ==
    /\ life[p] = "alive" /\ p \notin spoke
    /\ spoke' = spoke \cup {p}
    /\ UNCHANGED <<manager, life, expected, overdue, known, suspected, asked, doomed>>

Elapse(p) ==
    /\ p \in Watched
    /\ overdue' = overdue \cup {p}
    /\ UNCHANGED <<manager, life, expected, spoke, known, suspected, asked, doomed>>

Supervise ==
    /\ manager = "starting" /\ manager' = "supervising"
    /\ UNCHANGED <<life, expected, spoke, overdue, known, suspected, asked, doomed>>

\* The end of a process is noticed, and all that was noted of it is dropped.
Notice(p) ==
    /\ manager \in {"supervising", "stopping"} /\ life[p] = "ended"
    /\ life' = [life EXCEPT ![p] = "noticed"]
    /\ expected' = expected \ {p} /\ overdue' = overdue \ {p}
    /\ known' = known \ {p} /\ suspected' = suspected \ {p}
    /\ UNCHANGED <<manager, spoke, asked, doomed>>

Learn(p) ==
    /\ manager = "supervising" /\ p \in Watched \cap spoke
    /\ known' = known \cup {p}
    /\ UNCHANGED <<manager, life, expected, spoke, overdue, suspected, asked, doomed>>

Suspect ==
    /\ manager = "supervising"
    /\ suspected' = suspected \cup ((expected \cap overdue) \ known)
    /\ UNCHANGED <<manager, life, expected, spoke, overdue, known, asked, doomed>>

AskAll ==
    /\ manager = "supervising" /\ manager' = "stopping"
    /\ asked' = asked \cup Watched
    /\ UNCHANGED <<life, expected, spoke, overdue, known, suspected, doomed>>

DoomAll ==
    /\ manager = "stopping"
    /\ doomed' = doomed \cup Watched
    /\ UNCHANGED <<manager, life, expected, spoke, overdue, known, suspected, asked>>

\* Processes may be asked to end because their manager has.
AskOrphans == \E orphans \in SUBSET Living : asked' = asked \cup orphans

\* The manager has done what it had to.
Finish ==
    /\ \/ manager = "starting" /\ Watched = {}
       \/ manager = "stopping" /\ Living \subseteq doomed
    /\ manager' = "down" /\ AskOrphans
    /\ UNCHANGED <<life, expected, spoke, overdue, known, suspected, doomed>>

\* The manager itself is killed.
Lose ==
    /\ manager \notin {"down", "lost"} /\ manager' = "lost" /\ AskOrphans
    /\ UNCHANGED <<life, expected, spoke, overdue, known, suspected, doomed>>

Next ==
    \/ \E p \in Processes :
        Start(p) \/ End(p) \/ Speak(p) \/ Elapse(p) \/ Notice(p) \/ Learn(p)
    \/ Supervise \/ Suspect \/ AskAll \/ DoomAll \/ Finish \/ Lose

Spec == Init /\ [][Next]_supervisionVars
=============================================================================
