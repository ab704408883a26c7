------------------------------ MODULE Process ------------------------------
(***************************************************************************)
(* System::Process on POSIX: one Process object, the client threads that   *)
(* call it, its watch thread, the child it forks, a grandchild the child   *)
(* may leave behind, and the two pipes between them.                       *)
(*                                                                         *)
(* A member function that holds m_mutex from its first to its last         *)
(* statement is one action, guarded by the mutex being free.  start() is   *)
(* two: the child and the watch thread run before it stores Running and    *)
(* unlocks.  watch() and waitForExit() lock piecemeal and are one action   *)
(* per piece.  Text is counted in chunks: pipes are first in first out, so *)
(* what has been read is a prefix of what was written and its length says  *)
(* which.                                                                  *)
(***************************************************************************)
EXTENDS Integers

CONSTANTS
    Clients,        \* threads of the program that use the object
    NoOne,          \* the owner of a free mutex
    ExitCodes,      \* codes a child passes to exit(); 1 also for a failed exec
    MaxWrites,      \* bound: chunks the child and the grandchild print
    PipeCap,        \* capacity of a pipe in chunks
    Grandchildren,  \* whether the child may start a process of its own
    TermHandlers,   \* whether the child may catch, ignore or block SIGTERM
    SigpipeIgnored  \* whether the host program ignores SIGPIPE

ASSUME ProcessAssumption ==
    /\ NoOne \notin Clients
    /\ ExitCodes \subseteq Nat
    /\ MaxWrites \in Nat
    /\ PipeCap \in Nat \ {0}
    /\ Grandchildren \in BOOLEAN
    /\ TermHandlers \in BOOLEAN
    /\ SigpipeIgnored \in BOOLEAN

VARIABLES
    \* members of the object
    state, exitCode, output, mutex,
    \* locals of watch()
    watch,   \* where the watch thread is
    ended,   \* the local of that name
    status,  \* what waitpid() last reported
    hand,    \* chunks read into buffer and not yet appended
    \* the operating system's view of the child
    child,   \* unborn, running, stopped, zombie or reaped
    fate,    \* the wait status the child ended with
    stopNews,  \* a stop that waitpid(WUNTRACED) has not reported
    term,    \* SIGTERM was posted to the child
    deaf,    \* the child catches, ignores or blocks SIGTERM
    grand,   \* the grandchild: none, alive or gone
    childOut,  \* the child still holds the write end of its stdout
    outOpen, \* the parent still holds the read end, m_childOutPipes[0]
    pipe,    \* unread chunks in that pipe
    inPipe,  \* unread chunks in the pipe to the child's stdin
    \* the clients
    pc, result, host,
    \* what has been observed
    written, \* chunks printed so far
    drained, \* watch() met end of file before the child was reaped
    fired,   \* exited notifications so far
    told     \* the arguments of the last of them

object == <<state, exitCode, output, mutex>>
watcher == <<watch, ended, status, hand, drained>>
kid == <<child, fate, stopNews, term, deaf, grand, childOut>>
pipes == <<outOpen, pipe, inPipe, written>>
clients == <<pc, result, host>>
observed == <<fired, told>>
vars == <<object, watcher, kid, pipes, clients, observed>>

----------------------------------------------------------------------------
(* Values.                                                                 *)

States == {"Created", "Running", "Killed", "Paused", "Completed"}
WatchSteps == {"none", "poll", "read", "append", "finish", "invoke", "handler", "done"}
ClientSteps == {"idle", "starting", "sending", "waiting", "waited", "joining", "gone"}

NoStatus == [kind |-> "none", code |-> 0]
Stopped == [kind |-> "stopped", code |-> 0]
Signaled == [kind |-> "signaled", code |-> 0]
Exited(c) == [kind |-> "exited", code |-> c]
Fates == {Signaled} \cup {Exited(c) : c \in ExitCodes}

\* Mutant: a shell's convention for a death by SIGTERM.
DecodeAsShell(s) == IF s.kind = "exited" THEN s.code ELSE 143

\* WIFEXITED(status) ? WEXITSTATUS(status) : -1
Decode(s) == IF s.kind = "exited" THEN s.code ELSE -1

Codes == ExitCodes \cup {-1}
NoResult == -2
NotTold == [code |-> NoResult, output |-> 0]

Living == child \in {"running", "stopped"}
OutWriters == (Living /\ childOut) \/ grand = "alive"
InReaders == Living \/ grand = "alive"

Init ==
    /\ state = "Created" /\ exitCode = -1 /\ output = 0 /\ mutex = NoOne
    /\ watch = "none" /\ ended = FALSE /\ status = NoStatus /\ hand = 0
    /\ child = "unborn" /\ fate = NoStatus /\ stopNews = FALSE /\ term = FALSE
    /\ deaf = FALSE /\ grand = "none" /\ childOut = TRUE
    /\ outOpen = TRUE /\ pipe = 0 /\ inPipe = 0
    /\ pc = [c \in Clients |-> "idle"]
    /\ result = [c \in Clients |-> NoResult]
    /\ host = "up"
    /\ written = 0 /\ drained = FALSE /\ fired = 0 /\ told = NotTold

----------------------------------------------------------------------------
(* The public member functions.  A call that the code refuses by returning *)
(* false, and a getter, changes nothing and is no action.  No call starts  *)
(* once a thread is destroying the object.                                 *)

Alive == \A c \in Clients : pc[c] \notin {"joining", "gone"}
At(c, step) == host = "up" /\ pc[c] = step
Calls(c) == Alive /\ At(c, "idle")
Locked(c) == Calls(c) /\ mutex = NoOne
Goto(c, step) == pc' = [pc EXCEPT ![c] = step]

\* Mutant: the lock is given up before Running is stored.
StartForkUnlocked(c) ==
    /\ Locked(c)
    /\ state = "Created"
    /\ child' = "running"
    /\ watch' = "poll"
    /\ Goto(c, "starting")
    /\ UNCHANGED <<state, exitCode, output, mutex, ended, status, hand, drained, fate, stopNews,
                   term, deaf, grand, childOut, pipes, result, host, observed>>

\* The pipes and fork() succeed; the parent has dropped the child's ends and
\* the watch thread exists, and the lock is kept.
StartFork(c) ==
    /\ Locked(c)
    /\ state = "Created"
    /\ mutex' = c
    /\ child' = "running"
    /\ watch' = "poll"
    /\ Goto(c, "starting")
    /\ UNCHANGED <<state, exitCode, output, ended, status, hand, drained, fate, stopNews,
                   term, deaf, grand, childOut, pipes, result, host, observed>>

StartReturn(c) ==
    /\ At(c, "starting")
    /\ state' = "Running"
    /\ mutex' = NoOne
    /\ Goto(c, "idle")
    /\ UNCHANGED <<exitCode, output, watcher, kid, pipes, result, host, observed>>

\* Mutant: the state is stored and no signal sent.
KillUnsent(c) ==
    /\ Locked(c)
    /\ state \in {"Running", "Paused"}
    /\ child # "reaped"
    /\ state' = "Killed"
    /\ UNCHANGED <<exitCode, output, mutex, watcher, kid, pipes, clients, observed>>

\* Both signals go to a process the parent has not reaped; after that the
\* second ::kill() reports ESRCH and the call is refused.
Kill(c) ==
    /\ Locked(c)
    /\ state \in {"Running", "Paused"}
    /\ child # "reaped"
    /\ term' = TRUE
    /\ state' = "Killed"
    /\ UNCHANGED <<exitCode, output, mutex, watcher, child, fate, stopNews, deaf, grand, childOut,
                   pipes, clients, observed>>

\* Mutant: any process that is not completed can be paused.
PauseAnyState(c) ==
    /\ Locked(c)
    /\ state \in {"Running", "Killed"}
    /\ child # "reaped"
    /\ child' = IF child = "running" THEN "stopped" ELSE child
    /\ stopNews' = (child = "running" \/ stopNews)
    /\ state' = "Paused"
    /\ UNCHANGED <<exitCode, output, mutex, watcher, fate, term, deaf, grand, childOut, pipes,
                   clients, observed>>

\* SIGSTOP has no effect on a zombie, and the call still succeeds.
Pause(c) ==
    /\ Locked(c)
    /\ state = "Running"
    /\ child # "reaped"
    /\ child' = IF child = "running" THEN "stopped" ELSE child
    /\ stopNews' = (child = "running" \/ stopNews)
    /\ state' = "Paused"
    /\ UNCHANGED <<exitCode, output, mutex, watcher, fate, term, deaf, grand, childOut, pipes,
                   clients, observed>>

\* Mutant: the state is stored and SIGCONT not sent.
ResumeUnsent(c) ==
    /\ Locked(c)
    /\ state = "Paused"
    /\ child # "reaped"
    /\ state' = "Running"
    /\ UNCHANGED <<exitCode, output, mutex, watcher, kid, pipes, clients, observed>>

Resume(c) ==
    /\ Locked(c)
    /\ state = "Paused"
    /\ child # "reaped"
    /\ child' = IF child = "stopped" THEN "running" ELSE child
    /\ stopNews' = FALSE
    /\ state' = "Running"
    /\ UNCHANGED <<exitCode, output, mutex, watcher, fate, term, deaf, grand, childOut, pipes,
                   clients, observed>>

\* send() looks at m_state without the lock and writes later.
SendCheck(c) ==
    /\ Calls(c)
    /\ state = "Running"
    /\ Goto(c, "sending")
    /\ UNCHANGED <<object, watcher, kid, pipes, result, host, observed>>

SendWrite(c) ==
    /\ At(c, "sending")
    /\ InReaders
    /\ inPipe < PipeCap
    /\ inPipe' = inPipe + 1
    /\ Goto(c, "idle")
    /\ UNCHANGED <<object, watcher, kid, outOpen, pipe, written, result, host, observed>>

\* write() to a pipe nobody reads raises SIGPIPE, whose default ends the host.
SendBroken(c) ==
    /\ At(c, "sending")
    /\ ~InReaders
    /\ host' = IF SigpipeIgnored THEN "up" ELSE "killed"
    /\ Goto(c, "idle")
    /\ UNCHANGED <<object, watcher, kid, pipes, result, observed>>

WaitCall(c) ==
    /\ Calls(c)
    /\ Goto(c, "waiting")
    /\ UNCHANGED <<object, watcher, kid, pipes, result, host, observed>>

\* Mutant: a killed process counts as ended.
WaitSeesKilled(c) ==
    /\ At(c, "waiting")
    /\ mutex = NoOne
    /\ state \in {"Killed", "Completed"}
    /\ Goto(c, "waited")
    /\ UNCHANGED <<object, watcher, kid, pipes, result, host, observed>>

WaitSeesCompleted(c) ==
    /\ At(c, "waiting")
    /\ mutex = NoOne
    /\ state = "Completed"
    /\ Goto(c, "waited")
    /\ UNCHANGED <<object, watcher, kid, pipes, result, host, observed>>

WaitReturn(c) ==
    /\ At(c, "waited")
    /\ mutex = NoOne
    /\ result' = [result EXCEPT ![c] = exitCode]
    /\ Goto(c, "idle")
    /\ UNCHANGED <<object, watcher, kid, pipes, host, observed>>

\* ~Process(): join the watch thread if there is one, then close the pipes.
\* The program destroys the object only when no other call is in progress.
Destroy(c) ==
    /\ Alive
    /\ \A d \in Clients : pc[d] = "idle"
    /\ Goto(c, "joining")
    /\ UNCHANGED <<object, watcher, kid, pipes, result, host, observed>>

Destroyed(c) ==
    /\ At(c, "joining")
    /\ watch \in {"none", "done"}
    /\ outOpen' = FALSE
    /\ Goto(c, "gone")
    /\ UNCHANGED <<object, watcher, kid, pipe, inPipe, written, result, host, observed>>

----------------------------------------------------------------------------
(* watch().                                                                *)

Watching(step) == host = "up" /\ watch = step

\* waitpid() reports a stop: neither WIFEXITED nor WIFSIGNALED.
WatchStopped ==
    /\ Watching("poll")
    /\ child = "stopped" /\ stopNews
    /\ stopNews' = FALSE
    /\ status' = Stopped
    /\ UNCHANGED <<object, watch, ended, hand, drained, child, fate, term, deaf, grand, childOut,
                   pipes, clients, observed>>

\* Mutant: only WIFEXITED ends the loop.
WatchReapExited ==
    /\ Watching("poll")
    /\ child = "zombie"
    /\ child' = "reaped"
    /\ status' = fate
    /\ ended' = (fate.kind = "exited")
    /\ outOpen' = (fate.kind # "exited")
    /\ UNCHANGED <<object, watch, hand, drained, fate, stopNews, term, deaf, grand, childOut, pipe,
                   inPipe, written, clients, observed>>

\* waitpid() reports the end: the child is gone and the read end is closed.
WatchReap ==
    /\ Watching("poll")
    /\ child = "zombie"
    /\ child' = "reaped"
    /\ status' = fate
    /\ ended' = TRUE
    /\ outOpen' = FALSE
    /\ UNCHANGED <<object, watch, hand, drained, fate, stopNews, term, deaf, grand, childOut, pipe,
                   inPipe, written, clients, observed>>

\* waitpid() returns 0 or -1.
WatchNothing ==
    /\ Watching("poll")
    /\ child \in {"running", "reaped"} \/ (child = "stopped" /\ ~stopNews)
    /\ watch' = "read"
    /\ UNCHANGED <<object, ended, status, hand, drained, kid, pipes, clients, observed>>

\* read() blocks until there is text or no writer is left.
WatchRead ==
    /\ Watching("read")
    /\ outOpen
    /\ \E n \in 1..pipe :
          /\ hand' = n
          /\ pipe' = pipe - n
    /\ watch' = "append"
    /\ UNCHANGED <<object, ended, status, drained, kid, outOpen, inPipe, written, clients,
                   observed>>

\* Mutant: m_output is assigned, not appended to.
WatchAssign ==
    /\ Watching("append")
    /\ mutex = NoOne
    /\ output' = hand
    /\ hand' = 0
    /\ watch' = "read"
    /\ UNCHANGED <<state, exitCode, mutex, ended, status, drained, kid, pipes, clients,
                   observed>>

WatchAppend ==
    /\ Watching("append")
    /\ mutex = NoOne
    /\ output' = output + hand
    /\ hand' = 0
    /\ watch' = "read"
    /\ UNCHANGED <<state, exitCode, mutex, ended, status, drained, kid, pipes, clients,
                   observed>>

\* Mutant: the read end is non-blocking.
WatchReadEmpty ==
    /\ Watching("read")
    /\ ~outOpen \/ pipe = 0
    /\ drained' = (drained \/ outOpen)
    /\ watch' = IF ended THEN "finish" ELSE "poll"
    /\ UNCHANGED <<object, ended, status, hand, kid, pipes, clients, observed>>

\* Mutant: the loop condition is never looked at.
WatchReadForever ==
    /\ Watching("read")
    /\ ~outOpen \/ (pipe = 0 /\ ~OutWriters)
    /\ drained' = (drained \/ outOpen)
    /\ watch' = "poll"
    /\ UNCHANGED <<object, ended, status, hand, kid, pipes, clients, observed>>

\* read() fails on the closed descriptor, or meets end of file.
WatchReadEnds ==
    /\ Watching("read")
    /\ ~outOpen \/ (pipe = 0 /\ ~OutWriters)
    /\ drained' = (drained \/ outOpen)
    /\ watch' = IF ended THEN "finish" ELSE "poll"
    /\ UNCHANGED <<object, ended, status, hand, kid, pipes, clients, observed>>

WatchComplete ==
    /\ Watching("finish")
    /\ mutex = NoOne
    /\ exitCode' = Decode(status)
    /\ state' = "Completed"
    /\ watch' = "invoke"
    /\ UNCHANGED <<output, mutex, ended, status, hand, drained, kid, pipes, clients, observed>>

\* The arguments are read after the unlock; the handlers run on this thread.
WatchInvoke ==
    /\ Watching("invoke")
    /\ fired' = fired + 1
    /\ told' = [code |-> exitCode, output |-> output]
    /\ watch' = "handler"
    /\ UNCHANGED <<object, ended, status, hand, drained, kid, pipes, clients>>

\* A handler may call the getters, which take the lock.
WatchHandled ==
    /\ Watching("handler")
    /\ mutex = NoOne
    /\ watch' = "done"
    /\ UNCHANGED <<object, ended, status, hand, drained, kid, pipes, clients, observed>>

WatchStep ==
    \/ WatchStopped \/ WatchReap \/ WatchNothing
    \/ WatchRead \/ WatchAppend \/ WatchReadEnds
    \/ WatchComplete \/ WatchInvoke \/ WatchHandled

----------------------------------------------------------------------------
(* The child and what it leaves behind: the system outside this code.      *)

PrintChunk ==
    /\ outOpen
    /\ pipe < PipeCap
    /\ written < MaxWrites
    /\ pipe' = pipe + 1
    /\ written' = written + 1
    /\ UNCHANGED <<object, watcher, kid, outOpen, inPipe, clients, observed>>

ChildPrint == child = "running" /\ childOut /\ PrintChunk

GrandPrint == grand = "alive" /\ PrintChunk

ChildReadsInput ==
    /\ child = "running"
    /\ inPipe > 0
    /\ inPipe' = inPipe - 1
    /\ UNCHANGED <<object, watcher, kid, outOpen, pipe, written, clients, observed>>

ChildClosesOutput ==
    /\ child = "running"
    /\ childOut
    /\ childOut' = FALSE
    /\ UNCHANGED <<object, watcher, child, fate, stopNews, term, deaf, grand, pipes, clients,
                   observed>>

ChildForks ==
    /\ Grandchildren
    /\ child = "running" /\ childOut
    /\ grand = "none"
    /\ grand' = "alive"
    /\ UNCHANGED <<object, watcher, child, fate, stopNews, term, deaf, childOut, pipes, clients,
                   observed>>

GrandEnds ==
    /\ grand = "alive"
    /\ grand' = "gone"
    /\ UNCHANGED <<object, watcher, child, fate, stopNews, term, deaf, childOut, pipes, clients,
                   observed>>

Die(f) ==
    /\ child = "running"
    /\ child' = "zombie"
    /\ fate' = f
    /\ UNCHANGED <<object, watcher, stopNews, term, deaf, grand, childOut, pipes, clients,
                   observed>>

ChildExits == \E f \in Fates : Die(f)

\* The child installs a handler for SIGTERM, ignores it or blocks it.
ChildHandlesTerm ==
    /\ TermHandlers
    /\ child = "running"
    /\ ~deaf
    /\ deaf' = TRUE
    /\ UNCHANGED <<object, watcher, child, fate, stopNews, term, grand, childOut, pipes, clients,
                   observed>>

\* A pending SIGTERM ends a running child that left it its default action; a
\* stopped child does not receive it.
ChildTerminated == term /\ ~deaf /\ Die(Signaled)

ChildStep ==
    \/ ChildPrint \/ ChildReadsInput \/ ChildClosesOutput
    \/ ChildForks \/ ChildExits \/ ChildHandlesTerm \/ ChildTerminated
    \/ GrandPrint \/ GrandEnds

----------------------------------------------------------------------------

ClientStep(c) ==
    \/ StartFork(c) \/ StartReturn(c)
    \/ Kill(c) \/ Pause(c) \/ Resume(c)
    \/ SendCheck(c) \/ SendWrite(c) \/ SendBroken(c)
    \/ WaitCall(c) \/ WaitSeesCompleted(c) \/ WaitReturn(c)
    \/ Destroy(c) \/ Destroyed(c)

Next == WatchStep \/ ChildStep \/ \E c \in Clients : ClientStep(c)

Spec == Init /\ [][Next]_vars

\* The scheduler runs the watch thread and a thread inside a call, and the
\* kernel delivers a pending SIGTERM, which ends a child that has left it its
\* default action.  Clients need not call anything, and a child need not print,
\* read or end.
Fairness ==
    /\ WF_vars(WatchStep)
    /\ \A c \in Clients :
          WF_vars(StartReturn(c) \/ WaitSeesCompleted(c) \/ WaitReturn(c) \/ Destroyed(c))
    /\ WF_vars(ChildTerminated)

FairSpec == Spec /\ Fairness

----------------------------------------------------------------------------
(* Properties.                                                             *)

\* The members, the watch thread's locals, the child and the clients hold
\* values of their types; pipes stay within their capacity.
TypeOK ==
    /\ state \in States
    /\ exitCode \in Codes
    /\ output \in Nat
    /\ mutex \in Clients \cup {NoOne}
    /\ watch \in WatchSteps
    /\ ended \in BOOLEAN
    /\ status \in Fates \cup {NoStatus, Stopped}
    /\ hand \in Nat
    /\ child \in {"unborn", "running", "stopped", "zombie", "reaped"}
    /\ fate \in Fates \cup {NoStatus}
    /\ stopNews \in BOOLEAN /\ term \in BOOLEAN /\ deaf \in BOOLEAN
    /\ grand \in {"none", "alive", "gone"}
    /\ childOut \in BOOLEAN /\ outOpen \in BOOLEAN
    /\ pipe \in 0..PipeCap /\ inPipe \in 0..PipeCap
    /\ pc \in [Clients -> ClientSteps]
    /\ result \in [Clients -> Codes \cup {NoResult}]
    /\ host \in {"up", "killed"}
    /\ written \in 0..MaxWrites
    /\ drained \in BOOLEAN
    /\ fired \in Nat
    /\ told \in [code : Codes \cup {NoResult}, output : Nat]

\* What getState() says of the child is so: a Running one is never left
\* stopped, a Paused one does not run, a Killed one has had its SIGTERM, and
\* before start() there is none.  Pause, resume, kill and the child's own end
\* interleave freely.
StateMatchesChild ==
    /\ state = "Created" /\ mutex = NoOne => child = "unborn"
    /\ state = "Running" => child \in {"running", "zombie", "reaped"}
    /\ state = "Paused" => child \in {"stopped", "zombie", "reaped"}
    /\ state = "Killed" => child \in {"zombie", "reaped"} \/ term
    /\ state = "Completed" => child = "reaped"

\* Completed is published with the code the child really ended with, never
\* before the child is reaped, and every waitForExit() and the one exited
\* notification report that same code and the final output.
CompletionIsTruthful ==
    /\ state = "Completed" => exitCode = Decode(fate)
    /\ fired > 0 => /\ state = "Completed" /\ fired = 1
                    /\ told = [code |-> exitCode, output |-> output]
    /\ \A c \in Clients :
          result[c] # NoResult => state = "Completed" /\ result[c] = exitCode

\* m_output is at all times a prefix of what was printed: each chunk is in the
\* pipe, in the buffer or in m_output, never twice and never skipped.
OutputIsPrefix == output + hand + pipe = written

\* The only output that is lost is that of a child that ended before watch()
\* had read to end of file once; a child that outlives the first poll keeps
\* all of its output and its descendants'.
LossOnlyBeforeFirstDrain == state = "Completed" /\ drained => output = written

\* Once Completed, neither the state, the exit code nor the output changes
\* again: a kill(), pause() or start() that races completion cannot undo it.
CompletedIsFinal ==
    [][state = "Completed" => UNCHANGED <<state, exitCode, output>>]_vars

\* The object implements the lifecycle it promises.  start() takes effect when
\* it forks: until it unlocks nobody can observe Created.
VisibleState == IF mutex # NoOne THEN "Running" ELSE state
Outcome == IF child \in {"zombie", "reaped"} THEN Decode(fate) ELSE -2

Promise == INSTANCE ProcessLifecycle
    WITH state <- VisibleState, outcome <- Outcome, told <- (fired > 0)

PromiseKept == Promise!LifecycleSpec

\* Once the child is dead and nobody holds the write end of its output, the
\* object reaches Completed, its handlers have run and a destructor waiting
\* to join returns, whatever the clients do meanwhile.
ExitIsNoticed ==
    (child = "zombie" /\ ~OutWriters) ~> (state = "Completed" /\ watch = "done")

\* A destructor whose child is dead, and left no writer behind, returns.
DestructorReturns ==
    \A c \in Clients :
        (pc[c] = "joining" /\ child \in {"zombie", "reaped"} /\ ~OutWriters) ~> pc[c] = "gone"

\* kill(), which sends SIGTERM and nothing stronger, leads to Completed if the
\* child runs and leaves SIGTERM its default action, unless a descendant kill()
\* does not reach still holds the output pipe.
KillEndsRunningChild ==
    (state = "Killed" /\ child = "running" /\ ~deaf)
        ~> (state = "Completed" \/ deaf \/ grand = "alive")

\* "Gets the console output of the process": a completed process has all of
\* the output its child printed (process.h:84, processtests.cpp:84).
OutputComplete == state = "Completed" => output = written

\* "True if the process was killed" and "no longer running": a successful
\* kill() ends the child (process.h:106, processstate.h:13).
KilledEnds == state = "Killed" ~> child \in {"zombie", "reaped"}

\* "True if the text is sent, else false": send() returns to its caller
\* (process.h:129).
SendReturns == host = "up"

=============================================================================
