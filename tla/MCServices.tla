----------------------------- MODULE MCServices -----------------------------
(***************************************************************************)
(* Components that share no state with each other, on small instances. One *)
(* of them, the subject, is chosen initially and moves: to interleave the  *)
(* steps of several would show nothing of any of them and multiply their   *)
(* states.                                                                 *)
(***************************************************************************)
EXTENDS NetworkMonitor, CancellationToken, SuspendInhibitor, JsonFileBase,
        FileSystemWatcher, TLC

CONSTANTS o1, o2, o3

VARIABLE subject

vars == <<subject, monitorVars, tokenVars, inhibitorVars, jsonVars, watcherVars>>

MCInhibitors == {o1, o2, o3}
MCRank == o1 :> 0 @@ o2 :> 1 @@ o3 :> 2

TypeOK == MonitorTypeOK /\ TokenTypeOK /\ InhibitorTypeOK /\ JsonTypeOK /\ WatcherTypeOK

\* A component that is not the subject stays in one initial state.
Init ==
    /\ subject \in {"monitor", "token", "inhibitor", "json", "watcher"}
    /\ MonitorInit /\ (subject # "monitor" => connectivity = "local")
    /\ TokenInit   /\ (subject # "token" => cancelFunction = NoFunction)
    /\ InhibitorInit
    /\ JsonInit    /\ (subject # "json" => jsonFile = Cut)
    /\ WatcherInit /\ (subject # "watcher" => below = {})

Next ==
    \/ /\ subject = "monitor" /\ MonitorNext
       /\ UNCHANGED <<subject, tokenVars, inhibitorVars, jsonVars, watcherVars>>
    \/ /\ subject = "token" /\ TokenNext
       /\ UNCHANGED <<subject, monitorVars, inhibitorVars, jsonVars, watcherVars>>
    \/ /\ subject = "inhibitor" /\ InhibitorNext
       /\ UNCHANGED <<subject, monitorVars, tokenVars, jsonVars, watcherVars>>
    \/ /\ subject = "json" /\ JsonNext
       /\ UNCHANGED <<subject, monitorVars, tokenVars, inhibitorVars, watcherVars>>
    \/ /\ subject = "watcher" /\ WatcherNext
       /\ UNCHANGED <<subject, monitorVars, tokenVars, inhibitorVars, jsonVars>>

\* The fairness of the components' specifications, each for its own runs.
Spec ==
    /\ Init /\ [][Next]_vars
    /\ WF_monitorVars(subject = "monitor" /\ MonitorStep)
    /\ WF_watcherVars(subject = "watcher" /\ ThreadStep)
    /\ WF_watcherVars(subject = "watcher" /\ (CloseNotify \/ Join))

=============================================================================
