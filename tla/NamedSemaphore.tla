---------------------------- MODULE NamedSemaphore ----------------------------
(***************************************************************************)
(* The POSIX named semaphore that guards one shared-memory region: every   *)
(* process that opens it by name uses the same counter, which the first    *)
(* sem_open sets to 1 and which nothing ever unlinks.  A process that is   *)
(* killed between SemWait and SemPost leaves the counter at 0 for ever.    *)
(***************************************************************************)
EXTENDS Naturals

VARIABLE sem    \* the counter of the semaphore

\* sem_open(name, O_CREAT, 0666, 1) by the first process that opens it.
SemInit == sem = 1

\* Mutant: a signal interrupts sem_wait, whose result nobody looks at.
SemWaitInterrupted == sem' = IF sem > 0 THEN sem - 1 ELSE sem

\* The constructor of SemaphoreGuard: sem_wait.
SemWait == sem > 0 /\ sem' = sem - 1

\* The destructor of SemaphoreGuard: sem_post.
SemPost == sem' = sem + 1
=============================================================================
