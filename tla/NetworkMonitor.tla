--------------------------- MODULE NetworkMonitor ---------------------------
(***************************************************************************)
(* Nickvision::Network::NetworkMonitor (src/network/networkmonitor.cpp):   *)
(* the constructing thread and the thread of the GLib main loop both run   *)
(* checkConnectionState(), which reads the connectivity, compares it with  *)
(* m_connectionState before it takes the mutex, and notifies after it has  *)
(* released it. The main loop dispatches one signal at a time.             *)
(***************************************************************************)
EXTENDS Naturals

CONSTANTS MaxChanges  \* bound on the changes of the connectivity

ASSUME MonitorAssumption == MaxChanges \in Nat

VARIABLES
    connectivity,     \* what g_network_monitor_get_connectivity() returns
    changes,          \* how often it has changed
    signalled,        \* a "network-changed" signal waits for the main loop
    handler,          \* m_networkChangedHandlerId: "none", "connected", "gone"
    connectionState,  \* m_connectionState
    checks,           \* where each thread stands in checkConnectionState()
    told,             \* the state the event was last invoked with
    overlapped        \* history: two checks were under way at once

system == <<connectivity, changes, signalled>>
monitorVars == <<system, handler, connectionState, checks, told, overlapped>>

NetworkState == {"Disconnected", "ConnectedLocal", "ConnectedGlobal"}
Connectivity == {"local", "limited", "portal", "full"}
Checkers == {"constructor", "mainloop"}

NoCheck == [at |-> "none", state |-> "Disconnected"]

MonitorTypeOK ==
    /\ connectivity \in Connectivity /\ changes \in 0..MaxChanges
    /\ handler \in {"none", "connected", "gone"} /\ signalled \in BOOLEAN
    /\ connectionState \in NetworkState /\ told \in NetworkState
    /\ checks \in [Checkers ->
           [at : {"none", "start", "compare", "store", "notify", "invoke"},
            state : NetworkState]]
    /\ overlapped \in BOOLEAN

MonitorInit ==
    /\ connectivity \in Connectivity /\ changes = 0 /\ signalled = FALSE
    /\ handler = "none" /\ connectionState = "Disconnected"
    /\ checks = [c \in Checkers |-> NoCheck]
    /\ told = "Disconnected" /\ overlapped = FALSE

StateOf(c) == CASE c = "local" -> "Disconnected"
                [] c = "full"  -> "ConnectedGlobal"
                [] OTHER       -> "ConnectedLocal"

Checking(c) == checks[c].at # "none"

Begin(c) ==
    /\ checks' = [checks EXCEPT ![c].at = "start"]
    /\ overlapped' = (overlapped \/ \E d \in Checkers \ {c} : Checking(d))

At(c, here, next) ==
    /\ checks[c].at = here
    /\ checks' = [checks EXCEPT ![c].at = next]

Changes ==
    /\ changes < MaxChanges
    /\ \E c \in Connectivity \ {connectivity} : connectivity' = c
    /\ changes' = changes + 1
    /\ signalled' = TRUE
    /\ UNCHANGED <<handler, connectionState, checks, told, overlapped>>

-----------------------------------------------------------------------------
\* Mutant: the constructor only connects the handler.
ConnectOnly ==
    /\ handler = "none"
    /\ handler' = "connected" /\ signalled' = FALSE
    /\ UNCHANGED <<connectivity, changes, connectionState, checks, told, overlapped>>

\* A signal emitted earlier finds no handler.
Connect ==
    /\ handler = "none"
    /\ handler' = "connected" /\ signalled' = FALSE
    /\ Begin("constructor")
    /\ UNCHANGED <<connectivity, changes, connectionState, told>>

\* Mutant: a signal is dropped while a check is under way.
DispatchAlone ==
    /\ handler = "connected" /\ signalled /\ ~Checking("mainloop")
    /\ signalled' = FALSE
    /\ IF Checking("constructor") THEN UNCHANGED <<checks, overlapped>> ELSE Begin("mainloop")
    /\ UNCHANGED <<connectivity, changes, handler, connectionState, told>>

Dispatch ==
    /\ handler = "connected" /\ signalled /\ ~Checking("mainloop")
    /\ signalled' = FALSE
    /\ Begin("mainloop")
    /\ UNCHANGED <<connectivity, changes, handler, connectionState, told>>

ReadConnectivity(c) ==
    /\ checks[c].at = "start"
    /\ checks' = [checks EXCEPT ![c] = [at |-> "compare", state |-> StateOf(connectivity)]]
    /\ UNCHANGED <<system, handler, connectionState, told, overlapped>>

Compare(c) ==
    /\ checks[c].at = "compare"
    /\ checks' = [checks EXCEPT ![c] =
           IF connectionState = @.state THEN NoCheck ELSE [@ EXCEPT !.at = "store"]]
    /\ UNCHANGED <<system, handler, connectionState, told, overlapped>>

Store(c) ==
    /\ At(c, "store", "notify")
    /\ connectionState' = checks[c].state
    /\ UNCHANGED <<system, handler, told, overlapped>>

\* The argument is m_connectionState, read again without the mutex.
ReadArgument(c) ==
    /\ checks[c].at = "notify"
    /\ checks' = [checks EXCEPT ![c] = [at |-> "invoke", state |-> connectionState]]
    /\ UNCHANGED <<system, handler, connectionState, told, overlapped>>

Notify(c) ==
    /\ checks[c].at = "invoke"
    /\ checks' = [checks EXCEPT ![c] = NoCheck]
    /\ told' = checks[c].state
    /\ UNCHANGED <<system, handler, connectionState, overlapped>>

\* The client destroys the object between two checks.
Disconnect ==
    /\ handler = "connected" /\ \A c \in Checkers : ~Checking(c)
    /\ handler' = "gone"
    /\ UNCHANGED <<system, connectionState, checks, told, overlapped>>

Check(c) == ReadConnectivity(c) \/ Compare(c) \/ Store(c) \/ ReadArgument(c) \/ Notify(c)

MonitorNext ==
    \/ Changes \/ Connect \/ Dispatch \/ Disconnect
    \/ \E c \in Checkers : Check(c)

\* A thread in checkConnectionState() goes on, and the main loop runs.
MonitorStep == Dispatch \/ \E c \in Checkers : Check(c)

MonitorSpec == MonitorInit /\ [][MonitorNext]_monitorVars /\ WF_monitorVars(MonitorStep)

-----------------------------------------------------------------------------
\* With every signal handled and no check under way, m_connectionState is the
\* state of the connectivity, and the last notification said so, unless two
\* checks overlapped, when the older reading may have been stored last.
MonitorIsCurrent ==
    handler = "connected" /\ ~signalled /\ ~overlapped /\ (\A c \in Checkers : ~Checking(c))
        => connectionState = StateOf(connectivity) /\ told = connectionState

\* However often the connectivity changes, once it has stopped the monitor
\* catches up with it, unless checks overlapped or the object is destroyed.
MonitorCatchesUp ==
    handler = "connected"
        ~> (connectionState = StateOf(connectivity) /\ told = connectionState)
           \/ overlapped \/ handler = "gone"

=============================================================================
