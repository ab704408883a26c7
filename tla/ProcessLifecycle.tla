-------------------------- MODULE ProcessLifecycle --------------------------
(***************************************************************************)
(* What System::Process promises to its clients, free of threads, signals  *)
(* and pipes: the states of processstate.h and the moves between them, an  *)
(* exit code published only with Completed and equal to the way the child  *)
(* really ended, and one exited notification that comes after it.          *)
(***************************************************************************)
EXTENDS Integers

CONSTANT ExitCodes  \* the codes a child may pass to exit()

VARIABLES
    state,     \* the ProcessState a client observes
    exitCode,  \* the exit code a client observes
    outcome,   \* how the child ended, as an exit code; Pending before that
    told       \* the exited event has been raised

lifecycleVars == <<state, exitCode, outcome, told>>

Pending == -2
Outcomes == ExitCodes \cup {-1}  \* -1 stands for death by a signal

LifecycleInit ==
    /\ state = "Created"
    /\ exitCode = -1
    /\ outcome = Pending
    /\ told = FALSE

Launch ==
    /\ state = "Created"
    /\ state' = "Running"
    /\ UNCHANGED <<exitCode, outcome, told>>

Suspend ==
    /\ state = "Running"
    /\ state' = "Paused"
    /\ UNCHANGED <<exitCode, outcome, told>>

Continue ==
    /\ state = "Paused"
    /\ state' = "Running"
    /\ UNCHANGED <<exitCode, outcome, told>>

Terminate ==
    /\ state \in {"Running", "Paused"}
    /\ state' = "Killed"
    /\ UNCHANGED <<exitCode, outcome, told>>

ChildEnds ==
    /\ state \in {"Running", "Paused", "Killed"}
    /\ outcome = Pending
    /\ outcome' \in Outcomes
    /\ UNCHANGED <<state, exitCode, told>>

Publish ==
    /\ state \in {"Running", "Paused", "Killed"}
    /\ outcome # Pending
    /\ state' = "Completed"
    /\ exitCode' = outcome
    /\ UNCHANGED <<outcome, told>>

Notify ==
    /\ state = "Completed"
    /\ ~told
    /\ told' = TRUE
    /\ UNCHANGED <<state, exitCode, outcome>>

LifecycleNext ==
    Launch \/ Suspend \/ Continue \/ Terminate \/ ChildEnds \/ Publish \/ Notify

LifecycleSpec == LifecycleInit /\ [][LifecycleNext]_lifecycleVars

=============================================================================
