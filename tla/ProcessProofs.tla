--------------------------- MODULE ProcessProofs ---------------------------
(***************************************************************************)
(* What TLAPS proves of Process, for any number of clients, any exit codes *)
(* and any bounds.  Inv is the inductive invariant: TypeOK and the ties    *)
(* between the mutex, the watch thread, the child and the pipes on which   *)
(* the properties of Process rest.                                         *)
(***************************************************************************)
EXTENDS Process, TLAPS

\* start() alone holds the mutex across steps, and only between its fork and
\* its return.
LockInv ==
    /\ \A c \in Clients : pc[c] = "starting" <=> mutex = c
    /\ mutex # NoOne => state = "Created" /\ child \in {"running", "zombie", "reaped"}

\* The child and the watch thread come into being together, in start().
BirthInv ==
    /\ child = "unborn" <=> watch = "none"
    /\ child = "unborn" <=> (state = "Created" /\ mutex = NoOne)
    /\ ~outOpen => ended \/ \E c \in Clients : pc[c] = "gone"

\* watch() knows of the end exactly when it has reaped the child, and closed
\* the read end then.
EndInv ==
    /\ ended <=> child = "reaped"
    /\ ended => status = fate /\ ~outOpen
    /\ child \in {"zombie", "reaped"} <=> fate # NoStatus
    /\ watch \in {"finish", "invoke", "handler", "done"} => ended
    /\ state = "Completed" <=> watch \in {"invoke", "handler", "done"}

\* What has been read off the pipe and not appended is in the buffer; nothing
\* can be printed once watch() has met end of file.
OutputInv ==
    /\ OutputIsPrefix
    /\ watch # "append" => hand = 0
    /\ drained => pipe = 0 /\ ~OutWriters /\ child # "unborn"

\* How far the notification and the waiting clients have come.
CompletionInv ==
    /\ state = "Completed" => exitCode = Decode(fate)
    /\ fired = IF watch \in {"handler", "done"} THEN 1 ELSE 0
    /\ fired > 0 => told = [code |-> exitCode, output |-> output]
    /\ \A c \in Clients :
          /\ pc[c] = "waited" => state = "Completed"
          /\ result[c] # NoResult => state = "Completed" /\ result[c] = exitCode

Inv == TypeOK /\ LockInv /\ BirthInv /\ EndInv /\ OutputInv /\ StateMatchesChild
       /\ CompletionInv

(* ------------------------------- Types -------------------------------- *)

\* What watch() stores as the exit code is -1 or a code the child may pass to
\* exit().
LEMMA DecodeType == \A s \in Fates \cup {NoStatus, Stopped} : Decode(s) \in Codes
BY DEF Decode, Fates, NoStatus, Stopped, Signaled, Exited, Codes

\* Every object starts well typed.
LEMMA TypeInit == Init => TypeOK
<1> SUFFICES ASSUME Init PROVE TypeOK
  OBVIOUS
<1> USE ProcessAssumption DEF Init
<1>1. /\ ended \in BOOLEAN /\ stopNews \in BOOLEAN /\ term \in BOOLEAN /\ deaf \in BOOLEAN
      /\ childOut \in BOOLEAN /\ outOpen \in BOOLEAN /\ drained \in BOOLEAN
  BY Zenon
<1>2. told \in [code : Codes \cup {NoResult}, output : Nat]
  BY DEF NotTold
<1> QED
  BY <1>1, <1>2 DEF TypeOK, States, Codes, ClientSteps, WatchSteps

\* Every step keeps the types.
LEMMA TypeStep == TypeOK /\ [Next]_vars => TypeOK'
<1> SUFFICES ASSUME TypeOK, [Next]_vars PROVE TypeOK'
  OBVIOUS
<1> USE ProcessAssumption DEF TypeOK, object, watcher, kid, pipes, clients, observed
<1>1. ASSUME NEW c \in Clients, StartFork(c) PROVE TypeOK'
  BY <1>1 DEF StartFork, Locked, Calls, At, Goto, ClientSteps, WatchSteps, States
<1>2. ASSUME NEW c \in Clients, StartReturn(c) PROVE TypeOK'
  BY <1>2 DEF StartReturn, At, Goto, ClientSteps, WatchSteps, States
<1>3. ASSUME NEW c \in Clients, Kill(c) PROVE TypeOK'
  BY <1>3 DEF Kill, Locked, Calls, At, ClientSteps, WatchSteps, States
<1>4. ASSUME NEW c \in Clients, Pause(c) PROVE TypeOK'
  BY <1>4 DEF Pause, Locked, Calls, At, ClientSteps, WatchSteps, States
<1>5. ASSUME NEW c \in Clients, Resume(c) PROVE TypeOK'
  <2>1. stopNews' \in BOOLEAN
    BY <1>5, Zenon DEF Resume
  <2> QED
    BY <1>5, <2>1 DEF Resume, Locked, Calls, At, ClientSteps, WatchSteps, States
<1>6. ASSUME NEW c \in Clients, SendCheck(c) PROVE TypeOK'
  BY <1>6 DEF SendCheck, Calls, At, Goto, ClientSteps, WatchSteps, States
<1>7. ASSUME NEW c \in Clients, SendWrite(c) PROVE TypeOK'
  BY <1>7 DEF SendWrite, At, Goto, ClientSteps, WatchSteps, States
<1>8. ASSUME NEW c \in Clients, SendBroken(c) PROVE TypeOK'
  BY <1>8 DEF SendBroken, At, Goto, ClientSteps, WatchSteps, States
<1>9. ASSUME NEW c \in Clients, WaitCall(c) PROVE TypeOK'
  BY <1>9 DEF WaitCall, Calls, At, Goto, ClientSteps, WatchSteps, States
<1>10. ASSUME NEW c \in Clients, WaitSeesCompleted(c) PROVE TypeOK'
  BY <1>10 DEF WaitSeesCompleted, At, Goto, ClientSteps, WatchSteps, States
<1>11. ASSUME NEW c \in Clients, WaitReturn(c) PROVE TypeOK'
  BY <1>11 DEF WaitReturn, At, Goto, ClientSteps, WatchSteps, States
<1>12. ASSUME NEW c \in Clients, Destroy(c) PROVE TypeOK'
  BY <1>12 DEF Destroy, Goto, ClientSteps, WatchSteps, States
<1>13. ASSUME NEW c \in Clients, Destroyed(c) PROVE TypeOK'
  <2>1. outOpen' \in BOOLEAN
    BY <1>13, Zenon DEF Destroyed
  <2> QED
    BY <1>13, <2>1 DEF Destroyed, At, Goto, ClientSteps, WatchSteps, States
<1>14. CASE WatchStopped
  <2>1. stopNews' \in BOOLEAN
    BY <1>14, Zenon DEF WatchStopped
  <2> QED
    BY <1>14, <2>1 DEF WatchStopped, Watching, WatchSteps, States
<1>15. CASE WatchReap
  <2>1. outOpen' \in BOOLEAN /\ ended' \in BOOLEAN
    BY <1>15, Zenon DEF WatchReap
  <2> QED
    BY <1>15, <2>1 DEF WatchReap, Watching, WatchSteps, States
<1>16. CASE WatchNothing
  BY <1>16 DEF WatchNothing, Watching, WatchSteps, States
<1>17. CASE WatchRead
  BY <1>17 DEF WatchRead, Watching, WatchSteps, States
<1>18. CASE WatchAppend
  BY <1>18 DEF WatchAppend, Watching, WatchSteps, States
<1>19. CASE WatchReadEnds
  BY <1>19 DEF WatchReadEnds, Watching, WatchSteps, States
<1>20. CASE WatchComplete
  BY <1>20, DecodeType DEF WatchComplete, Watching, WatchSteps, States
<1>21. CASE WatchInvoke
  BY <1>21 DEF WatchInvoke, Watching, WatchSteps, States
<1>22. CASE WatchHandled
  BY <1>22 DEF WatchHandled, Watching, WatchSteps, States
<1>23. CASE ChildPrint
  BY <1>23 DEF ChildPrint, PrintChunk, WatchSteps, States
<1>24. CASE ChildReadsInput
  BY <1>24 DEF ChildReadsInput, WatchSteps, States
<1>25. CASE ChildClosesOutput
  <2>1. childOut' \in BOOLEAN
    BY <1>25, Zenon DEF ChildClosesOutput
  <2> QED
    BY <1>25, <2>1 DEF ChildClosesOutput, WatchSteps, States
<1>26. CASE ChildForks
  BY <1>26 DEF ChildForks, WatchSteps, States
<1>27. CASE ChildExits
  BY <1>27 DEF ChildExits, Die, WatchSteps, States
<1>28. CASE ChildTerminated
  BY <1>28 DEF ChildTerminated, Die, WatchSteps, States, Fates
<1>29. CASE GrandPrint
  BY <1>29 DEF GrandPrint, PrintChunk, WatchSteps, States
<1>30. CASE GrandEnds
  BY <1>30 DEF GrandEnds, WatchSteps, States
<1>31. CASE ChildHandlesTerm
  <2>1. deaf' \in BOOLEAN
    BY <1>31, Zenon DEF ChildHandlesTerm
  <2> QED
    BY <1>31, <2>1 DEF ChildHandlesTerm, WatchSteps, States
<1>32. CASE UNCHANGED vars
  BY <1>32 DEF vars
<1> QED
  BY <1>1, <1>2, <1>3, <1>4, <1>5, <1>6, <1>7, <1>8, <1>9, <1>10, <1>11, <1>12, <1>13, <1>14,
     <1>15, <1>16, <1>17, <1>18, <1>19, <1>20, <1>21, <1>22, <1>23,
     <1>24, <1>25, <1>26, <1>27, <1>28, <1>29, <1>30, <1>31, <1>32
  DEF Next, ClientStep, WatchStep, ChildStep
(* ---------------------------- Invariance ------------------------------ *)

\* A fresh object satisfies the invariant.
LEMMA InvInit == Init => Inv
<1> SUFFICES ASSUME Init PROVE Inv
  OBVIOUS
<1> USE ProcessAssumption DEF Init
<1>1. TypeOK
  BY TypeInit
<1>2. LockInv /\ BirthInv /\ EndInv
  BY DEF LockInv, BirthInv, EndInv, Fates, NoStatus
<1>3. OutputInv /\ StateMatchesChild /\ CompletionInv
  BY DEF OutputInv, OutputIsPrefix, StateMatchesChild, CompletionInv
<1> QED
  BY <1>1, <1>2, <1>3 DEF Inv

\* The mutex: only start() keeps it, and nobody else moves while it does, so
\* the state stays Created; the child cannot be stopped meanwhile.
LEMMA LockStep == Inv /\ [Next]_vars => LockInv'
<1> SUFFICES ASSUME Inv, [Next]_vars PROVE LockInv'
  OBVIOUS
<1> USE ProcessAssumption
    DEF Inv, TypeOK, LockInv, BirthInv, object, watcher, kid, pipes, clients, observed
<1>1. ASSUME NEW c \in Clients, ClientStep(c) PROVE LockInv'
  BY <1>1
  DEF ClientStep, StartFork, StartReturn, Kill, Pause, Resume, SendCheck, SendWrite, SendBroken,
      WaitCall, WaitSeesCompleted, WaitReturn, Destroy, Destroyed, Locked, Calls, At, Goto,
      Alive
<1>2. CASE WatchStep
  BY <1>2
  DEF WatchStep, WatchStopped, WatchReap, WatchNothing, WatchRead, WatchAppend, WatchReadEnds,
      WatchComplete, WatchInvoke, WatchHandled, Watching
<1>3. CASE ChildStep
  BY <1>3
  DEF ChildStep, ChildPrint, ChildReadsInput, ChildClosesOutput, ChildForks, ChildExits,
      ChildHandlesTerm, ChildTerminated, GrandPrint, GrandEnds, PrintChunk, Die
<1>4. CASE UNCHANGED vars
  BY <1>4 DEF vars
<1> QED
  BY <1>1, <1>2, <1>3, <1>4 DEF Next

\* The birth: StartFork is the one step that makes a child, and it finds the
\* read end open because no destructor has run.
LEMMA BirthStep == Inv /\ [Next]_vars => BirthInv'
<1> SUFFICES ASSUME Inv, [Next]_vars PROVE BirthInv'
  OBVIOUS
<1> USE ProcessAssumption
    DEF Inv, TypeOK, LockInv, BirthInv, EndInv, object, watcher, kid, pipes, clients, observed
<1>1. ASSUME NEW c \in Clients, ClientStep(c) PROVE BirthInv'
  BY <1>1
  DEF ClientStep, StartFork, StartReturn, Kill, Pause, Resume, SendCheck, SendWrite, SendBroken,
      WaitCall, WaitSeesCompleted, WaitReturn, Destroy, Destroyed, Locked, Calls, At, Goto,
      Alive
<1>2. CASE WatchStep
  BY <1>2
  DEF WatchStep, WatchStopped, WatchReap, WatchNothing, WatchRead, WatchAppend, WatchReadEnds,
      WatchComplete, WatchInvoke, WatchHandled, Watching
<1>3. CASE ChildStep
  BY <1>3
  DEF ChildStep, ChildPrint, ChildReadsInput, ChildClosesOutput, ChildForks, ChildExits,
      ChildHandlesTerm, ChildTerminated, GrandPrint, GrandEnds, PrintChunk, Die
<1>4. CASE UNCHANGED vars
  BY <1>4 DEF vars
<1> QED
  BY <1>1, <1>2, <1>3, <1>4 DEF Next

\* The end: WatchReap is the one step that sets ended, and WatchComplete the
\* one that stores Completed; kill(), pause() and resume() are kept from
\* overwriting it by their guards, StartReturn by LockInv.
LEMMA EndStep == Inv /\ [Next]_vars => EndInv'
<1> SUFFICES ASSUME Inv, [Next]_vars PROVE EndInv'
  OBVIOUS
<1> USE ProcessAssumption
    DEF Inv, TypeOK, LockInv, BirthInv, EndInv, Fates, NoStatus, Signaled, Exited, object,
        watcher, kid, pipes, clients, observed
<1>1. ASSUME NEW c \in Clients, ClientStep(c) PROVE EndInv'
  BY <1>1
  DEF ClientStep, StartFork, StartReturn, Kill, Pause, Resume, SendCheck, SendWrite, SendBroken,
      WaitCall, WaitSeesCompleted, WaitReturn, Destroy, Destroyed, Locked, Calls, At, Goto,
      Alive
<1>2. CASE WatchStep
  BY <1>2
  DEF WatchStep, WatchStopped, WatchReap, WatchNothing, WatchRead, WatchAppend, WatchReadEnds,
      WatchComplete, WatchInvoke, WatchHandled, Watching
<1>3. CASE ChildStep
  BY <1>3
  DEF ChildStep, ChildPrint, ChildReadsInput, ChildClosesOutput, ChildForks, ChildExits,
      ChildHandlesTerm, ChildTerminated, GrandPrint, GrandEnds, PrintChunk, Die
<1>4. CASE UNCHANGED vars
  BY <1>4 DEF vars
<1> QED
  BY <1>1, <1>2, <1>3, <1>4 DEF Next

\* The output: a chunk moves from the pipe to the buffer to m_output; end of
\* file means that nobody is left to print.
LEMMA OutputStep == Inv /\ [Next]_vars => OutputInv'
<1> SUFFICES ASSUME Inv, [Next]_vars PROVE OutputInv'
  OBVIOUS
<1> USE ProcessAssumption
    DEF Inv, TypeOK, OutputInv, OutputIsPrefix, OutWriters, Living, EndInv, BirthInv, object,
        watcher, kid, pipes, clients, observed
<1>1. ASSUME NEW c \in Clients, ClientStep(c) PROVE OutputInv'
  BY <1>1
  DEF ClientStep, StartFork, StartReturn, Kill, Pause, Resume, SendCheck, SendWrite, SendBroken,
      WaitCall, WaitSeesCompleted, WaitReturn, Destroy, Destroyed, Locked, Calls, At, Goto,
      Alive
<1>2. CASE WatchStep
  BY <1>2
  DEF WatchStep, WatchStopped, WatchReap, WatchNothing, WatchRead, WatchAppend, WatchReadEnds,
      WatchComplete, WatchInvoke, WatchHandled, Watching
<1>3. CASE ChildStep
  BY <1>3
  DEF ChildStep, ChildPrint, ChildReadsInput, ChildClosesOutput, ChildForks, ChildExits,
      ChildHandlesTerm, ChildTerminated, GrandPrint, GrandEnds, PrintChunk, Die
<1>4. CASE UNCHANGED vars
  BY <1>4 DEF vars
<1> QED
  BY <1>1, <1>2, <1>3, <1>4 DEF Next

\* The state and the child: signals and the stored state change together.
LEMMA StateStep == Inv /\ [Next]_vars => StateMatchesChild'
<1> SUFFICES ASSUME Inv, [Next]_vars PROVE StateMatchesChild'
  OBVIOUS
<1> USE ProcessAssumption
    DEF Inv, TypeOK, StateMatchesChild, LockInv, EndInv, BirthInv, object, watcher, kid, pipes,
        clients, observed
<1>1. ASSUME NEW c \in Clients, ClientStep(c) PROVE StateMatchesChild'
  BY <1>1
  DEF ClientStep, StartFork, StartReturn, Kill, Pause, Resume, SendCheck, SendWrite, SendBroken,
      WaitCall, WaitSeesCompleted, WaitReturn, Destroy, Destroyed, Locked, Calls, At, Goto,
      Alive
<1>2. CASE WatchStep
  BY <1>2
  DEF WatchStep, WatchStopped, WatchReap, WatchNothing, WatchRead, WatchAppend, WatchReadEnds,
      WatchComplete, WatchInvoke, WatchHandled, Watching
<1>3. CASE ChildStep
  BY <1>3
  DEF ChildStep, ChildPrint, ChildReadsInput, ChildClosesOutput, ChildForks, ChildExits,
      ChildHandlesTerm, ChildTerminated, GrandPrint, GrandEnds, PrintChunk, Die
<1>4. CASE UNCHANGED vars
  BY <1>4 DEF vars
<1> QED
  BY <1>1, <1>2, <1>3, <1>4 DEF Next

\* The completion: the exit code is stored with Completed, from the status of
\* the reaped child, and nothing changes it or the output afterwards.
LEMMA CompletionStep == Inv /\ [Next]_vars => CompletionInv'
<1> SUFFICES ASSUME Inv, [Next]_vars PROVE CompletionInv'
  OBVIOUS
<1> USE ProcessAssumption
    DEF Inv, TypeOK, CompletionInv, LockInv, EndInv, BirthInv, NoResult, object, watcher, kid,
        pipes, clients, observed
<1>1. ASSUME NEW c \in Clients, ClientStep(c) PROVE CompletionInv'
  BY <1>1
  DEF ClientStep, StartFork, StartReturn, Kill, Pause, Resume, SendCheck, SendWrite, SendBroken,
      WaitCall, WaitSeesCompleted, WaitReturn, Destroy, Destroyed, Locked, Calls, At, Goto,
      Alive
<1>2. CASE WatchStep
  BY <1>2
  DEF WatchStep, WatchStopped, WatchReap, WatchNothing, WatchRead, WatchAppend, WatchReadEnds,
      WatchComplete, WatchInvoke, WatchHandled, Watching
<1>3. CASE ChildStep
  BY <1>3
  DEF ChildStep, ChildPrint, ChildReadsInput, ChildClosesOutput, ChildForks, ChildExits,
      ChildHandlesTerm, ChildTerminated, GrandPrint, GrandEnds, PrintChunk, Die
<1>4. CASE UNCHANGED vars
  BY <1>4 DEF vars
<1> QED
  BY <1>1, <1>2, <1>3, <1>4 DEF Next

\* Inv is inductive.
LEMMA InvStep == Inv /\ [Next]_vars => Inv'
<1> SUFFICES ASSUME Inv, [Next]_vars PROVE Inv'
  OBVIOUS
<1>1. TypeOK'
  BY TypeStep DEF Inv
<1> QED
  BY <1>1, LockStep, BirthStep, EndStep, OutputStep, StateStep, CompletionStep DEF Inv

(* ----------------------------- Theorems ------------------------------- *)

\* Members, locals and clients hold values of their types at all times, and
\* the pipes stay within their capacity.
THEOREM TypeCorrect == Spec => []TypeOK
<1> QED
  BY TypeInit, TypeStep, PTL DEF Spec

\* The inductive invariant holds at all times.
THEOREM Invariance == Spec => []Inv
<1> QED
  BY InvInit, InvStep, PTL DEF Spec

\* getState() never says Running of a stopped child, Paused of a running one
\* or Completed of one that is not reaped.
THEOREM StateIsTruthful == Spec => []StateMatchesChild
<1>1. Inv => StateMatchesChild
  BY DEF Inv
<1> QED
  BY <1>1, Invariance, PTL

\* Exit code, notification and waitForExit() agree with the child's end.
THEOREM ReportsAreTruthful == Spec => []CompletionIsTruthful
<1>1. Inv => CompletionIsTruthful
  BY DEF Inv, TypeOK, EndInv, CompletionInv, CompletionIsTruthful
<1> QED
  BY <1>1, Invariance, PTL

\* m_output is a prefix of what was printed.
THEOREM OutputInOrder == Spec => []OutputIsPrefix
<1>1. Inv => OutputIsPrefix
  BY DEF Inv, OutputInv
<1> QED
  BY <1>1, Invariance, PTL

\* A completed process has all of the output, unless its child ended before
\* watch() first read to end of file.
THEOREM LossIsBounded == Spec => []LossOnlyBeforeFirstDrain
<1>1. Inv => LossOnlyBeforeFirstDrain
  BY DEF Inv, TypeOK, EndInv, OutputInv, OutputIsPrefix, LossOnlyBeforeFirstDrain
<1> QED
  BY <1>1, Invariance, PTL

\* No step of any client or of the watch thread changes a completed process.
THEOREM CompletionIsFinal == Spec => CompletedIsFinal
<1>1. Inv /\ [Next]_vars => (state = "Completed" => UNCHANGED <<state, exitCode, output>>)
  <2> SUFFICES ASSUME Inv, [Next]_vars, state = "Completed"
               PROVE  UNCHANGED <<state, exitCode, output>>
    OBVIOUS
  <2> USE ProcessAssumption DEF Inv, TypeOK, LockInv, BirthInv, EndInv,
          object, watcher, kid, pipes, clients, observed
  <2>1. ASSUME NEW c \in Clients, ClientStep(c) PROVE UNCHANGED <<state, exitCode, output>>
    BY <2>1
    DEF ClientStep, StartFork, StartReturn, Kill, Pause, Resume, SendCheck, SendWrite,
        SendBroken, WaitCall, WaitSeesCompleted, WaitReturn, Destroy, Destroyed, Locked, Calls,
        At, Goto, Alive
  <2>2. CASE WatchStep
    BY <2>2
    DEF WatchStep, WatchStopped, WatchReap, WatchNothing, WatchRead, WatchAppend, WatchReadEnds,
        WatchComplete, WatchInvoke, WatchHandled, Watching
  <2>3. CASE ChildStep
    BY <2>3
    DEF ChildStep, ChildPrint, ChildReadsInput, ChildClosesOutput, ChildForks, ChildExits,
        ChildHandlesTerm, ChildTerminated, GrandPrint, GrandEnds, PrintChunk, Die
  <2>4. CASE UNCHANGED vars
    BY <2>4 DEF vars
  <2> QED
    BY <2>1, <2>2, <2>3, <2>4 DEF Next
<1> QED
  BY <1>1, Invariance, PTL DEF Spec, CompletedIsFinal

(* ---------------------------- Refinement ------------------------------ *)

\* Every step of the threads, the child and the pipes is a step of the
\* lifecycle or leaves it alone.
LEMMA LifecycleStep == Inv /\ [Next]_vars => [Promise!LifecycleNext]_(Promise!lifecycleVars)
<1> SUFFICES ASSUME Inv, [Next]_vars
             PROVE  Promise!LifecycleNext \/ UNCHANGED Promise!lifecycleVars
  BY DEF Promise!lifecycleVars
<1> USE ProcessAssumption
    DEF Inv, TypeOK, LockInv, BirthInv, EndInv, VisibleState, Outcome, Promise!lifecycleVars,
        object, watcher, kid, pipes, clients, observed
<1>1. ASSUME NEW c \in Clients, StartFork(c) PROVE Promise!Launch
  BY <1>1
  DEF Promise!Launch, StartFork, Locked, Calls, At, Goto
<1>2. ASSUME NEW c \in Clients, StartReturn(c) PROVE UNCHANGED Promise!lifecycleVars
  BY <1>2
  DEF StartReturn, At, Goto
<1>3. ASSUME NEW c \in Clients, Kill(c) PROVE Promise!Terminate
  BY <1>3
  DEF Promise!Terminate, Kill, Locked, Calls, At, Goto
<1>4. ASSUME NEW c \in Clients, Pause(c) PROVE Promise!Suspend
  BY <1>4
  DEF Promise!Suspend, Pause, Locked, Calls, At, Goto
<1>5. ASSUME NEW c \in Clients, Resume(c) PROVE Promise!Continue
  BY <1>5
  DEF Promise!Continue, Resume, Locked, Calls, At, Goto
<1>6. ASSUME NEW c \in Clients,
            SendCheck(c) \/ SendWrite(c) \/ SendBroken(c) \/ WaitCall(c) \/ WaitSeesCompleted(c)
            \/ WaitReturn(c) \/ Destroy(c) \/ Destroyed(c)
     PROVE  UNCHANGED Promise!lifecycleVars
  BY <1>6
  DEF SendCheck, SendWrite, SendBroken, WaitCall, WaitSeesCompleted, WaitReturn, Destroy,
      Destroyed, At, Calls, Goto
<1>7. CASE WatchStopped \/ WatchReap \/ WatchNothing \/ WatchRead \/ WatchAppend \/
           WatchReadEnds \/ WatchHandled
  BY <1>7
  DEF WatchStopped, WatchReap, WatchNothing, WatchRead, WatchAppend, WatchReadEnds,
      WatchHandled, Watching
<1>8. ASSUME WatchComplete PROVE Promise!Publish
  <2>1. /\ status = fate /\ child = "reaped" /\ mutex = NoOne
        /\ state \in {"Running", "Paused", "Killed"}
    BY <1>8 DEF WatchComplete, Watching, States
  <2>2. Decode(fate) \in Codes /\ Decode(fate) # -2
    BY DecodeType DEF Codes
  <2> QED
    BY <1>8, <2>1, <2>2 DEF Promise!Publish, Promise!Pending, WatchComplete
<1>9. ASSUME WatchInvoke PROVE Promise!Notify
  BY <1>9
  DEF Promise!Notify, WatchInvoke, Watching, CompletionInv
<1>10. ASSUME NEW f \in Fates, Die(f) PROVE Promise!ChildEnds
  <2>1. /\ VisibleState \in {"Running", "Paused", "Killed"}
        /\ UNCHANGED <<state, mutex, exitCode, fired>>
    BY <1>10 DEF Die, States
  <2>2. Decode(f) \in Codes
    BY DecodeType
  <2>3. Outcome = -2 /\ Outcome' = Decode(f)
    BY <1>10 DEF Die
  <2> QED
    BY <2>1, <2>2, <2>3 DEF Promise!ChildEnds, Promise!Pending, Promise!Outcomes, Codes
<1>11. CASE ChildPrint \/ ChildReadsInput \/ ChildClosesOutput \/ ChildForks \/ GrandPrint \/
           GrandEnds \/ ChildHandlesTerm
  BY <1>11
  DEF ChildPrint, ChildReadsInput, ChildClosesOutput, ChildForks, GrandPrint, GrandEnds,
      ChildHandlesTerm, PrintChunk
<1>12. CASE UNCHANGED vars
  BY <1>12 DEF vars
<1> QED
  BY <1>1, <1>2, <1>3, <1>4, <1>5, <1>6, <1>7, <1>8, <1>9, <1>10, <1>11, <1>12
  DEF Next, ClientStep, WatchStep, ChildStep, ChildExits, ChildTerminated, Fates,
      Promise!LifecycleNext

\* Process implements the lifecycle it promises to its clients.
THEOREM Refinement == Spec => PromiseKept
<1>1. Init => Promise!LifecycleInit
  BY ProcessAssumption DEF Init, Promise!LifecycleInit, Promise!Pending, VisibleState, Outcome
<1> QED
  BY <1>1, LifecycleStep, Invariance, PTL DEF Spec, PromiseKept, Promise!LifecycleSpec

(* ------------------------------ Progress ------------------------------- *)

\* The child is dead and nobody can print any more.
Over == child \in {"zombie", "reaped"} /\ ~OutWriters

\* Steps from there to the end of the watch thread: what lies in the pipe is
\* read and appended first, and start() may still have to return.
StagesLeft ==
    IF child = "zombie"
    THEN CASE watch = "append" -> 9 [] watch = "read" -> 8 [] OTHER -> 7
    ELSE CASE watch = "poll" -> 6 [] watch = "append" -> 5 [] watch = "read" -> 4
           [] watch = "finish" -> 3 [] watch = "invoke" -> 2 [] watch = "handler" -> 1
           [] OTHER -> 0

StepsLeft == 2 * pipe + StagesLeft + IF mutex = NoOne THEN 0 ELSE 1

\* The guards of WatchStep.
WatchReady ==
    \/ watch = "poll" /\ child # "unborn"
    \/ watch = "read" /\ ((outOpen /\ pipe > 0) \/ ~outOpen \/ (pipe = 0 /\ ~OutWriters))
    \/ watch \in {"append", "finish", "handler"} /\ mutex = NoOne
    \/ watch = "invoke"

\* Finitely many steps are left, and the watch thread can go on, or a start()
\* that will let it.
EndIsOpen ==
    /\ StepsLeft \in Nat
    /\ Over /\ host = "up" /\ watch # "done" =>
          WatchReady \/ \E c \in Clients : At(c, "starting")

\* No step moves away from the end, and these two move towards it.
EndComesNearer ==
    [][Over => /\ Over' /\ StepsLeft' <= StepsLeft
               /\ WatchStep \/ (\E c \in Clients : StartReturn(c)) => StepsLeft' < StepsLeft]_vars

LEMMA StepsLeftType == TypeOK => StepsLeft \in Nat
BY ProcessAssumption DEF TypeOK, StepsLeft, StagesLeft

\* No thread waits for good: the mutex has its holder in start().
LEMMA EndStaysOpen == Inv => EndIsOpen
BY StepsLeftType DEF Inv, TypeOK, LockInv, BirthInv, EndIsOpen, WatchReady, Over, At, WatchSteps

\* Each of the watch thread's steps counts.
LEMMA WatchStepCounts == Inv /\ Over /\ WatchStep => Over' /\ StepsLeft' < StepsLeft
<1> SUFFICES ASSUME Inv, Over, WatchStep PROVE Over' /\ StepsLeft' < StepsLeft
  OBVIOUS
<1>1. mutex' = mutex /\ grand' = grand /\ pipe \in Nat /\ childOut' = childOut
  BY ProcessAssumption
  DEF Inv, TypeOK, WatchStep, WatchStopped, WatchReap, WatchNothing, WatchRead, WatchAppend,
      WatchReadEnds, WatchComplete, WatchInvoke, WatchHandled, object, kid
<1> DEFINE held == IF mutex = NoOne THEN 0 ELSE 1
<1>2. held \in Nat /\ StepsLeft = 2 * pipe + StagesLeft + held
      /\ StepsLeft' = 2 * pipe' + StagesLeft' + held
  BY <1>1 DEF StepsLeft
<1> HIDE DEF held
<1> USE DEF Over, OutWriters, Living, StagesLeft
<1>3. CASE WatchStopped
  BY <1>3 DEF WatchStopped
<1>4. CASE WatchReap
  BY <1>1, <1>2, <1>4 DEF WatchReap, Watching
<1>5. CASE WatchNothing
  BY <1>1, <1>2, <1>5 DEF WatchNothing, Watching, kid, pipes
<1>6. CASE WatchRead
  <2>1. child = "zombie"
    BY <1>6 DEF Inv, EndInv, WatchRead
  <2>2. PICK n \in 1..pipe : pipe' = pipe - n
    BY <1>6 DEF WatchRead
  <2> QED
    BY <1>1, <1>2, <1>6, <2>1, <2>2 DEF WatchRead, Watching, kid
<1>7. CASE WatchAppend
  BY <1>1, <1>2, <1>7 DEF WatchAppend, Watching, kid, pipes
<1>8. CASE WatchReadEnds
  <2>1. ended <=> child = "reaped"
    BY DEF Inv, EndInv
  <2> QED
    BY <1>1, <1>2, <1>8, <2>1 DEF WatchReadEnds, Watching, kid, pipes
<1>9. CASE WatchComplete \/ WatchInvoke \/ WatchHandled
  <2>1. child = "reaped"
    BY <1>9 DEF Inv, EndInv, WatchComplete, WatchInvoke, WatchHandled, Watching
  <2> QED
    BY <1>1, <1>2, <1>9, <2>1 DEF WatchComplete, WatchInvoke, WatchHandled, Watching, kid, pipes
<1> QED
  BY <1>3, <1>4, <1>5, <1>6, <1>7, <1>8, <1>9 DEF WatchStep

\* Nor does any step of the clients, the child and its descendants undo them.
LEMMA OthersDoNotDelay ==
    Inv /\ Over /\ [Next]_vars /\ ~WatchStep =>
        /\ Over' /\ UNCHANGED <<watch, child, pipe>>
        /\ mutex' = mutex \/ (mutex # NoOne /\ mutex' = NoOne)
<1> SUFFICES ASSUME Inv, Over, [Next]_vars, ~WatchStep
             PROVE  /\ Over' /\ UNCHANGED <<watch, child, pipe>>
                    /\ mutex' = mutex \/ (mutex # NoOne /\ mutex' = NoOne)
  OBVIOUS
<1> USE DEF Over, OutWriters, Living, object, watcher, kid, pipes, clients
<1>1. ASSUME NEW c \in Clients, ClientStep(c)
      PROVE  /\ Over' /\ UNCHANGED <<watch, child, pipe>>
             /\ mutex' = mutex \/ (mutex # NoOne /\ mutex' = NoOne)
  <2>1. CASE StartFork(c)
    BY <2>1 DEF StartFork, Locked, Inv, BirthInv
  <2>2. CASE StartReturn(c)
    BY <2>2, ProcessAssumption DEF StartReturn, At, Inv, LockInv
  <2>3. CASE Kill(c) \/ Pause(c) \/ Resume(c)
    BY <2>3 DEF Kill, Pause, Resume
  <2>4. CASE SendCheck(c) \/ SendWrite(c) \/ SendBroken(c)
    BY <2>4 DEF SendCheck, SendWrite, SendBroken
  <2>5. CASE WaitCall(c) \/ WaitSeesCompleted(c) \/ WaitReturn(c) \/ Destroy(c) \/ Destroyed(c)
    BY <2>5 DEF WaitCall, WaitSeesCompleted, WaitReturn, Destroy, Destroyed
  <2> QED
    BY <1>1, <2>1, <2>2, <2>3, <2>4, <2>5 DEF ClientStep
<1>2. CASE ChildStep
  BY <1>2
  DEF ChildStep, ChildPrint, GrandPrint, ChildReadsInput, ChildClosesOutput, ChildForks,
      ChildExits, ChildHandlesTerm, ChildTerminated, GrandEnds, Die
<1>3. CASE UNCHANGED vars
  BY <1>3 DEF vars
<1> QED
  BY <1>1, <1>2, <1>3 DEF Next

\* Once the child is dead and nobody holds its output pipe, the watch thread is
\* never blocked for good, whatever the clients do: it can take a step, or the
\* start() that holds the mutex can return.
THEOREM EndCanCome == Spec => []EndIsOpen
BY Invariance, EndStaysOpen, PTL

\* Each such step brings the watch thread nearer to its end, and no other step
\* of any thread or process takes it away from there: with the fairness of
\* FairSpec this is ExitIsNoticed.
THEOREM EndIsNearer == Spec => EndComesNearer
<1>1. Inv /\ [Next]_vars =>
        [Over => /\ Over' /\ StepsLeft' <= StepsLeft
                 /\ WatchStep \/ (\E c \in Clients : StartReturn(c)) =>
                       StepsLeft' < StepsLeft]_vars
  <2> SUFFICES ASSUME Inv, [Next]_vars, Over
               PROVE  /\ Over' /\ StepsLeft' <= StepsLeft
                      /\ WatchStep \/ (\E c \in Clients : StartReturn(c)) =>
                            StepsLeft' < StepsLeft
    OBVIOUS
  <2>1. StepsLeft \in Nat /\ StepsLeft' \in Nat
    <3>1. TypeOK'
      BY InvStep DEF Inv
    <3>2. StepsLeft' \in Nat
      BY <3>1, ProcessAssumption DEF TypeOK, StepsLeft, StagesLeft
    <3> QED
      BY <3>2, StepsLeftType DEF Inv
  <2>2. CASE WatchStep
    BY <2>1, <2>2, WatchStepCounts
  <2>3. CASE ~WatchStep
    <3>1. Over' /\ UNCHANGED <<watch, child, pipe>>
      BY <2>3, OthersDoNotDelay
    <3>2. StagesLeft' = StagesLeft /\ pipe \in Nat /\ StagesLeft \in Nat
      BY <3>1, ProcessAssumption DEF Inv, TypeOK, StagesLeft
    <3>3. mutex' = mutex \/ (mutex # NoOne /\ mutex' = NoOne)
      BY <2>3, OthersDoNotDelay
    <3>4. StepsLeft' <= StepsLeft
      BY <3>1, <3>2, <3>3 DEF StepsLeft
    <3>5. ASSUME NEW c \in Clients, StartReturn(c) PROVE StepsLeft' < StepsLeft
      <4>1. mutex # NoOne /\ mutex' = NoOne
        BY <3>5, ProcessAssumption DEF Inv, LockInv, StartReturn, At
      <4> QED
        BY <3>1, <3>2, <4>1 DEF StepsLeft
    <3> QED
      BY <2>3, <3>1, <3>4, <3>5
  <2> QED
    BY <2>2, <2>3
<1> QED
  BY <1>1, Invariance, PTL DEF Spec, EndComesNearer

\* After kill() has found its child running, the child has its SIGTERM, nothing
\* stops it again before it dies, of that or of itself, and the state goes on to
\* Completed only.
KillTakesEffect ==
    [][state = "Killed" /\ child # "stopped" =>
          /\ child = "running" => term /\ child' \in {"running", "zombie"}
          /\ child' # "stopped" /\ state' \in {"Killed", "Completed"}]_vars

\* The safety core of KillEndsRunningChild, whose fairness is of the delivery
\* of the signal to a child that leaves it its default action, and of the watch
\* thread.  A child that handles the signal may live on, its state Killed.
THEOREM KillIsFatal == Spec => KillTakesEffect
<1>1. Inv /\ [Next]_vars =>
        (state = "Killed" /\ child # "stopped" =>
            /\ child = "running" => term /\ child' \in {"running", "zombie"}
            /\ child' # "stopped" /\ state' \in {"Killed", "Completed"})
  <2> SUFFICES ASSUME Inv, [Next]_vars, state = "Killed", child # "stopped"
               PROVE  /\ child = "running" => term /\ child' \in {"running", "zombie"}
                      /\ child' # "stopped" /\ state' \in {"Killed", "Completed"}
    OBVIOUS
  <2>0. child = "running" => term
    BY DEF Inv, StateMatchesChild
  <2> USE ProcessAssumption DEF Inv, TypeOK, LockInv, object, watcher, kid, pipes, clients, observed
  <2>1. ASSUME NEW c \in Clients, ClientStep(c) PROVE child' = child /\ state' = state
    BY <2>1
    DEF ClientStep, StartFork, StartReturn, Kill, Pause, Resume, SendCheck, SendWrite,
        SendBroken, WaitCall, WaitSeesCompleted, WaitReturn, Destroy, Destroyed, Locked, Calls,
        At, Goto, Alive
  <2>2. CASE WatchStep
    BY <2>0, <2>2
    DEF WatchStep, WatchStopped, WatchReap, WatchNothing, WatchRead, WatchAppend, WatchReadEnds,
        WatchComplete, WatchInvoke, WatchHandled, Watching
  <2>3. CASE ChildStep
    BY <2>0, <2>3
    DEF ChildStep, ChildPrint, ChildReadsInput, ChildClosesOutput, ChildForks, ChildExits,
        ChildHandlesTerm, ChildTerminated, GrandPrint, GrandEnds, PrintChunk, Die
  <2>4. CASE UNCHANGED vars
    BY <2>0, <2>4 DEF vars
  <2> QED
    BY <2>0, <2>1, <2>2, <2>3, <2>4 DEF Next
<1> QED
  BY <1>1, Invariance, PTL DEF Spec, KillTakesEffect

=============================================================================
