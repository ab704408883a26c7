---------------------------- MODULE ProcessUsage ----------------------------
(***************************************************************************)
(* Nickvision::System::Process::getCPUUsage() on Linux and Windows         *)
(* (src/system/process.cpp) of a process that runs: the differences, in    *)
(* unsigned arithmetic, to the times read by the call before. The call is  *)
(* const and takes no lock, and yet assigns the mutable times.             *)
(***************************************************************************)
EXTENDS Integers

CONSTANTS
    UsageCallers,  \* threads that call
    Width,         \* the integers are modulo this, 2^64 in the code
    MaxTime        \* bound on the system's time

ASSUME UsageAssumption == Width \in Nat /\ MaxTime \in Nat /\ MaxTime < Width

VARIABLES
    systemTime,   \* of all processors, counted by the system
    processTime,  \* the share of it that the process had
    last,         \* m_lastUserTime, m_lastSystemTime
    call,         \* where each caller stands, and what it has read
    deltas,       \* history: procDelta, sysDelta of the last call, gap.before then
    gap,          \* history: time between the readings of that call, and of this
    overlapped    \* history: a call began during another

usageVars == <<systemTime, processTime, last, call, deltas, gap, overlapped>>

Idle == [at |-> "idle", user |-> 0, system |-> 0]

UsageInit ==
    /\ systemTime = 0 /\ processTime = 0
    /\ last = [user |-> 0, system |-> 0]
    /\ call = [c \in UsageCallers |-> Idle]
    /\ deltas = [user |-> 0, system |-> 0, gap |-> 0]
    /\ gap = [before |-> 0, now |-> 0]
    /\ overlapped = FALSE

Tick(busy) ==
    /\ systemTime < MaxTime
    /\ systemTime' = systemTime + 1
    /\ processTime' = IF busy THEN processTime + 1 ELSE processTime
    /\ gap' = IF \E c \in UsageCallers : call[c].at = "stat"
              THEN [gap EXCEPT !.now = @ + 1] ELSE gap
    /\ UNCHANGED <<last, call, deltas, overlapped>>

ReadProc(c) ==
    /\ call[c].at = "idle"
    /\ call' = [call EXCEPT ![c] = [at |-> "stat", user |-> processTime, system |-> 0]]
    /\ overlapped' = (overlapped \/ \E d \in UsageCallers : call[d].at # "idle")
    /\ UNCHANGED <<systemTime, processTime, last, deltas, gap>>

ReadStat(c) ==
    /\ call[c].at = "stat"
    /\ call' = [call EXCEPT ![c].at = "measure", ![c].system = systemTime]
    /\ UNCHANGED <<systemTime, processTime, last, deltas, gap, overlapped>>

\* Mutant: only the system's time is kept for the next call.
MeasureKeepsUser(c) ==
    /\ call[c].at = "measure"
    /\ deltas' = [user   |-> (call[c].user - last.user) % Width,
                  system |-> (call[c].system - last.system) % Width,
                  gap    |-> gap.before]
    /\ gap' = [before |-> gap.now, now |-> 0]
    /\ last' = [last EXCEPT !.system = call[c].system]
    /\ call' = [call EXCEPT ![c] = Idle]
    /\ UNCHANGED <<systemTime, processTime, overlapped>>

Measure(c) ==
    /\ call[c].at = "measure"
    /\ deltas' = [user   |-> (call[c].user - last.user) % Width,
                  system |-> (call[c].system - last.system) % Width,
                  gap    |-> gap.before]
    /\ gap' = [before |-> gap.now, now |-> 0]
    /\ last' = [user |-> call[c].user, system |-> call[c].system]
    /\ call' = [call EXCEPT ![c] = Idle]
    /\ UNCHANGED <<systemTime, processTime, overlapped>>

UsageNext ==
    \/ \E busy \in BOOLEAN : Tick(busy)
    \/ \E c \in UsageCallers : ReadProc(c) \/ ReadStat(c) \/ Measure(c)

UsageSpec == UsageInit /\ [][UsageNext]_usageVars

\* As long as no call overlaps another, the process is given no more time than
\* has passed, and no difference wraps; but the time that passed between the
\* two readings of the call before counts for the process only, so that the
\* usage can be more than 100 percent of all processors.
UsageIsMeasured ==
    ~overlapped =>
        /\ deltas.user <= deltas.system + deltas.gap
        /\ deltas.system <= systemTime

=============================================================================
