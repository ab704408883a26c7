--------------------------- MODULE ServicesProofs ---------------------------
(***************************************************************************)
(* Proofs about NetworkMonitor, CancellationToken, JsonFileBase and        *)
(* SuspendInhibitor, for any number of threads, changes, functions, keys,  *)
(* values, objects and inhibitions, and about their composition. Of each   *)
(* the invariant says what holds in the middle of a check, a call, a save  *)
(* or an assignment.                                                       *)
(***************************************************************************)
EXTENDS MCServices, WatcherProofs, WellFoundedInduction

-----------------------------------------------------------------------------
(* NetworkMonitor. *)

\* A check that is not overlapped works on the present connectivity unless a
\* signal is due, and only between its store and its notification is the last
\* notification not of the stored state.
CheckInv ==
    /\ \A c, d \in Checkers : Checking(c) /\ Checking(d) => c = d
    /\ (\A c \in Checkers : checks[c].at \notin {"notify", "invoke"}) => told = connectionState
    /\ \A c \in Checkers :
          /\ checks[c].at \in {"compare", "store"} /\ ~signalled =>
                checks[c].state = StateOf(connectivity)
          /\ checks[c].at \in {"notify", "invoke"} /\ ~signalled =>
                connectionState = StateOf(connectivity)
          /\ checks[c].at = "invoke" => checks[c].state = connectionState

HandlerInv == handler # "connected" => \A c \in Checkers : ~Checking(c)

MonitorInv ==
    MonitorTypeOK /\ HandlerInv /\ (~overlapped => CheckInv /\ MonitorIsCurrent)

LEMMA MonitorInitial == MonitorInit => MonitorInv
<1> SUFFICES ASSUME MonitorInit PROVE MonitorInv
  OBVIOUS
<1>1. MonitorTypeOK
  <2>1. changes \in 0..MaxChanges
    BY MonitorAssumption DEF MonitorInit
  <2>2. checks \in [Checkers -> [at : {"none", "start", "compare", "store", "notify", "invoke"},
                                 state : NetworkState]]
    BY DEF MonitorInit, NoCheck, NetworkState
  <2>. QED
    BY <2>1, <2>2 DEF MonitorInit, MonitorTypeOK, NetworkState
<1>2. \A c \in Checkers : checks[c].at = "none"
  BY DEF MonitorInit, NoCheck
<1>. QED
  BY <1>1, <1>2
     DEF MonitorInit, MonitorInv, HandlerInv, CheckInv, MonitorIsCurrent, Checking, Checkers

LEMMA MonitorTypeStep == MonitorTypeOK /\ [MonitorNext]_monitorVars => MonitorTypeOK'
<1> SUFFICES ASSUME MonitorTypeOK, [MonitorNext]_monitorVars PROVE MonitorTypeOK'
  OBVIOUS
<1> USE MonitorAssumption DEF MonitorTypeOK
<1>1. CASE Changes
  BY <1>1 DEF Changes
<1>2. CASE Connect
  BY <1>2 DEF Connect, Begin, Checkers
<1>3. CASE Dispatch
  BY <1>3 DEF Dispatch, Begin, Checkers
<1>4. CASE Disconnect
  BY <1>4 DEF Disconnect, system
<1>5. ASSUME NEW c \in Checkers, Check(c) PROVE MonitorTypeOK'
  BY <1>5 DEF Check, ReadConnectivity, Compare, Store, ReadArgument, Notify, At, NoCheck,
              StateOf, NetworkState, Connectivity, system
<1>6. CASE UNCHANGED monitorVars
  BY <1>6 DEF monitorVars, system
<1>. QED
  BY <1>1, <1>2, <1>3, <1>4, <1>5, <1>6 DEF MonitorNext

LEMMA MonitorStepKeeps == MonitorInv /\ [MonitorNext]_monitorVars => MonitorInv'
<1> SUFFICES ASSUME MonitorInv, [MonitorNext]_monitorVars PROVE MonitorInv'
  OBVIOUS
<1>0. MonitorTypeOK' /\ MonitorTypeOK
  BY MonitorTypeStep DEF MonitorInv
<1> USE DEF MonitorInv, HandlerInv, CheckInv, MonitorIsCurrent, Checking, Checkers
<1>1. CASE Changes
  BY <1>0, <1>1 DEF Changes
<1>2. CASE Connect
  BY <1>0, <1>2 DEF Connect, Begin, MonitorTypeOK
<1>3. CASE Dispatch
  BY <1>0, <1>3 DEF Dispatch, Begin, MonitorTypeOK
<1>4. CASE Disconnect
  BY <1>0, <1>4 DEF Disconnect, system
<1>5. ASSUME NEW c \in Checkers, Check(c) PROVE MonitorInv'
  <2>1. CASE ReadConnectivity(c)
    BY <1>0, <2>1 DEF ReadConnectivity, system, MonitorTypeOK
  <2>2. CASE Compare(c)
    BY <1>0, <2>2 DEF Compare, system, MonitorTypeOK, NoCheck
  <2>3. CASE Store(c)
    BY <1>0, <2>3 DEF Store, At, system, MonitorTypeOK
  <2>4. CASE ReadArgument(c)
    BY <1>0, <2>4 DEF ReadArgument, system, MonitorTypeOK
  <2>5. CASE Notify(c)
    BY <1>0, <2>5 DEF Notify, system, MonitorTypeOK, NoCheck
  <2>. QED
    BY <1>5, <2>1, <2>2, <2>3, <2>4, <2>5 DEF Check
<1>6. CASE UNCHANGED monitorVars
  BY <1>0, <1>6 DEF monitorVars, system
<1>. QED
  BY <1>1, <1>2, <1>3, <1>4, <1>5, <1>6 DEF MonitorNext

\* With every signal handled and no check under way, the stored state and the
\* last notification are those of the connectivity (checkConnectionState()).
THEOREM MonitorSettles == MonitorSpec => []MonitorIsCurrent
<1>1. MonitorInv => MonitorIsCurrent
  BY DEF MonitorInv, MonitorIsCurrent
<1>. QED
  BY <1>1, MonitorInitial, MonitorStepKeeps, PTL DEF MonitorSpec

\* The safety core of MonitorCatchesUp: what is left to do is a number that
\* every step of the monitor lowers and only a change of the network raises.
CheckLeft(c) == CASE checks[c].at = "start"   -> 5
                  [] checks[c].at = "compare" -> 4
                  [] checks[c].at = "store"   -> 3
                  [] checks[c].at = "notify"  -> 2
                  [] checks[c].at = "invoke"  -> 1
                  [] OTHER                    -> 0

MonitorLeft ==
    CheckLeft("constructor") + CheckLeft("mainloop") + IF signalled THEN 6 ELSE 0

\* The guards of MonitorStep.
MonitorReady == (signalled /\ ~Checking("mainloop")) \/ \E c \in Checkers : Checking(c)

CatchingUpIsOpen ==
    handler = "connected" =>
        /\ MonitorLeft \in Nat
        /\ MonitorLeft # 0 => MonitorReady
        /\ MonitorLeft = 0 /\ ~overlapped =>
              connectionState = StateOf(connectivity) /\ told = connectionState

CatchesUpByStep ==
    [][handler = "connected" =>
          /\ MonitorStep => MonitorLeft' < MonitorLeft
          /\ ~Changes => MonitorLeft' <= MonitorLeft]_monitorVars

LEMMA CheckLeftTyped ==
    MonitorTypeOK => \A c \in Checkers :
        CheckLeft(c) \in Nat /\ (CheckLeft(c) = 0 <=> ~Checking(c))
BY DEF MonitorTypeOK, CheckLeft, Checking

\* Whenever the monitor is connected it has a step to take, or nothing left to
\* do and then stored and announced the state of the network.
THEOREM MonitorCanCatchUp == MonitorSpec => []CatchingUpIsOpen
<1>1. MonitorInv => CatchingUpIsOpen
  <2> SUFFICES ASSUME MonitorInv, handler = "connected"
               PROVE  /\ MonitorLeft \in Nat
                      /\ MonitorLeft # 0 => MonitorReady
                      /\ MonitorLeft = 0 /\ ~overlapped =>
                            connectionState = StateOf(connectivity) /\ told = connectionState
    BY DEF CatchingUpIsOpen
  <2>1. /\ CheckLeft("constructor") \in Nat /\ CheckLeft("mainloop") \in Nat
        /\ CheckLeft("constructor") = 0 <=> ~Checking("constructor")
        /\ CheckLeft("mainloop") = 0 <=> ~Checking("mainloop")
    BY CheckLeftTyped DEF MonitorInv, Checkers
  <2>2. MonitorLeft \in Nat /\ (MonitorLeft # 0 => MonitorReady)
    BY <2>1 DEF MonitorLeft, MonitorReady, Checkers
  <2>3. MonitorLeft = 0 => ~signalled /\ \A c \in Checkers : ~Checking(c)
    BY <2>1 DEF MonitorLeft, Checkers
  <2>. QED
    BY <2>2, <2>3 DEF MonitorInv, MonitorIsCurrent
<1>. QED
  BY <1>1, MonitorInitial, MonitorStepKeeps, PTL DEF MonitorSpec

\* A step of one check leaves the other where it is and goes on by one.
LEMMA CheckCounts ==
    ASSUME MonitorTypeOK, NEW c \in Checkers, Check(c)
    PROVE  /\ CheckLeft(c)' < CheckLeft(c) /\ UNCHANGED <<signalled, handler>>
           /\ \A d \in Checkers \ {c} : CheckLeft(d)' = CheckLeft(d)
<1>1. /\ \A d \in Checkers \ {c} : checks'[d] = checks[d]
      /\ UNCHANGED <<signalled, handler>>
  BY DEF MonitorTypeOK, Check, ReadConnectivity, Compare, Store, ReadArgument, Notify, At, system
<1>2. CheckLeft(c)' < CheckLeft(c)
  BY DEF MonitorTypeOK, Check, ReadConnectivity, Compare, Store, ReadArgument, Notify, At,
         CheckLeft, NoCheck
<1>. QED
  BY <1>1, <1>2 DEF CheckLeft

LEMMA CatchUpStep ==
    MonitorInv /\ [MonitorNext]_monitorVars =>
        (handler = "connected" =>
            /\ MonitorStep => MonitorLeft' < MonitorLeft
            /\ ~Changes => MonitorLeft' <= MonitorLeft)
<1> SUFFICES ASSUME MonitorInv, [MonitorNext]_monitorVars, handler = "connected"
             PROVE  /\ MonitorStep => MonitorLeft' < MonitorLeft
                    /\ ~Changes => MonitorLeft' <= MonitorLeft
  OBVIOUS
<1> DEFINE a == CheckLeft("constructor")  b == CheckLeft("mainloop")
           ahead == IF signalled THEN 6 ELSE 0
<1>1. MonitorTypeOK
  BY DEF MonitorInv
<1>2. /\ a \in Nat /\ b \in Nat /\ ahead \in Nat /\ a' \in Nat /\ b' \in Nat
      /\ MonitorLeft = a + b + ahead /\ MonitorLeft' = a' + b' + ahead'
  BY <1>1, CheckLeftTyped DEF MonitorLeft, Checkers, CheckLeft
<1>3. ASSUME NEW c \in Checkers, Check(c) PROVE MonitorLeft' < MonitorLeft
  <2>1. ahead' = ahead
    BY <1>1, <1>3, CheckCounts
  <2>2. CASE c = "constructor"
    <3>1. a' < a /\ b' = b
      BY <1>1, <1>3, <2>2, CheckCounts DEF Checkers
    <3>. QED
      BY <1>2, <2>1, <3>1
  <2>3. CASE c = "mainloop"
    <3>1. b' < b /\ a' = a
      BY <1>1, <1>3, <2>3, CheckCounts DEF Checkers
    <3>. QED
      BY <1>2, <2>1, <3>1
  <2>. QED
    BY <2>2, <2>3 DEF Checkers
<1>4. CASE Dispatch
  <2>1. a' = a /\ b' = 5 /\ b = 0
    BY <1>1, <1>4 DEF Dispatch, Begin, MonitorTypeOK, Checkers, CheckLeft, Checking
  <2>2. ahead = 6 /\ ahead' = 0
    BY <1>4 DEF Dispatch
  <2>. QED
    BY <1>2, <2>1, <2>2
<1>5. CASE Disconnect \/ UNCHANGED monitorVars
  <2>1. UNCHANGED <<checks, signalled>>
    BY <1>5 DEF Disconnect, monitorVars, system
  <2>2. a' = a /\ b' = b /\ ahead' = ahead
    BY <2>1 DEF CheckLeft
  <2>3. MonitorLeft' = MonitorLeft
    BY <1>2, <2>2
  <2>4. ~MonitorStep
    <3>1. ASSUME Dispatch PROVE FALSE
      BY <2>1, <3>1 DEF Dispatch
    <3>2. ASSUME NEW c \in Checkers, Check(c) PROVE FALSE
      BY <1>1, <2>1, <3>2, CheckCounts DEF CheckLeft, MonitorTypeOK
    <3>. QED
      BY <3>1, <3>2 DEF MonitorStep
  <2>. QED
    BY <1>2, <2>3, <2>4
<1>6. ~Connect
  BY DEF Connect
<1>7. CASE Changes
  <2>1. ~Dispatch /\ \A c \in Checkers : ~Check(c)
    <3>1. signalled' = TRUE /\ checks' = checks
      BY <1>7 DEF Changes
    <3>2. ~Dispatch
      BY <3>1 DEF Dispatch
    <3>3. ASSUME NEW c \in Checkers, Check(c) PROVE FALSE
      <4>1. CheckLeft(c)' = CheckLeft(c) /\ CheckLeft(c) \in Nat
        BY <1>1, <3>1, CheckLeftTyped DEF CheckLeft
      <4>. QED
        BY <1>1, <3>3, <4>1, CheckCounts
    <3>. QED
      BY <3>2, <3>3
  <2>. QED
    BY <1>7, <2>1 DEF MonitorStep
<1>8. CASE MonitorStep
  <2>1. MonitorLeft' < MonitorLeft
    BY <1>3, <1>4, <1>8 DEF MonitorStep
  <2>. QED
    BY <1>2, <2>1
<1>. QED
  BY <1>5, <1>6, <1>7, <1>8 DEF MonitorNext, MonitorStep

\* Each step of the monitor brings it nearer to the state of the network, and
\* no other step but a change of the network takes it away from that.
THEOREM MonitorComesNearer == MonitorSpec => CatchesUpByStep
BY MonitorInitial, MonitorStepKeeps, CatchUpStep, PTL DEF MonitorSpec, CatchesUpByStep

-----------------------------------------------------------------------------
(* CancellationToken. *)

\* As long as nobody has changed the function under it, the thread that is to
\* call it is alone, and finds the function that was set when it cancelled.
CallInv ==
    /\ \A s, t \in calling : s = t
    /\ calling # {} => cancelled /\ due # NoFunction /\ cancelFunction = due
    /\ ~cancelled => due = NoFunction

TokenInv == TokenTypeOK /\ CancelCallsOnce /\ (~tangled => CallInv)

LEMMA TokenInitial == TokenInit => TokenInv
<1> SUFFICES ASSUME TokenInit PROVE TokenInv
  OBVIOUS
<1>1. ran \in Seq(CancelFunctions)
  BY DEF TokenInit
<1>2. TokenTypeOK
  BY <1>1 DEF TokenInit, TokenTypeOK
<1>3. CancelCallsOnce
  BY DEF TokenInit, CancelCallsOnce
<1>4. CallInv
  BY DEF TokenInit, CallInv
<1>. QED
  BY <1>2, <1>3, <1>4 DEF TokenInv

LEMMA TokenTypeStep == TokenTypeOK /\ [TokenNext]_tokenVars => TokenTypeOK'
<1> SUFFICES ASSUME TokenTypeOK, [TokenNext]_tokenVars PROVE TokenTypeOK'
  OBVIOUS
<1> USE DEF TokenTypeOK
<1>1. ASSUME NEW t \in Callers, Cancel(t) PROVE TokenTypeOK'
  BY <1>1 DEF Cancel, SetCancelled
<1>2. ASSUME NEW t \in Callers, CallFunction(t) PROVE TokenTypeOK'
  BY <1>2 DEF CallFunction
<1>3. CASE SetCancelFunction
  BY <1>3 DEF SetCancelFunction
<1>4. CASE Reset
  <2>1. ran' \in Seq(CancelFunctions)
    BY <1>4 DEF Reset
  <2>. QED
    BY <1>4, <2>1 DEF Reset
<1>5. CASE UNCHANGED tokenVars
  BY <1>5 DEF tokenVars
<1>. QED
  BY <1>1, <1>2, <1>3, <1>4, <1>5 DEF TokenNext

LEMMA TokenStepKeeps == TokenInv /\ [TokenNext]_tokenVars => TokenInv'
<1> SUFFICES ASSUME TokenInv, [TokenNext]_tokenVars PROVE TokenInv'
  OBVIOUS
<1>0. TokenTypeOK /\ TokenTypeOK'
  BY TokenTypeStep DEF TokenInv
<1> USE DEF TokenInv, CancelCallsOnce, CallInv
<1>1. ASSUME NEW t \in Callers, Cancel(t) PROVE TokenInv'
  BY <1>0, <1>1 DEF Cancel, SetCancelled
<1>2. ASSUME NEW t \in Callers, CallFunction(t) PROVE TokenInv'
  <2>1. CASE tangled
    BY <1>0, <1>2, <2>1 DEF CallFunction
  <2>2. CASE ~tangled
    <3>1. calling = {t} /\ calling' = {} /\ ran = <<>> /\ cancelFunction = due
      BY <1>2, <2>2 DEF CallFunction
    <3>2. ran' = <<due>>
      BY <1>2, <2>2, <3>1 DEF CallFunction
    <3>. QED
      BY <1>0, <1>2, <2>2, <3>1, <3>2 DEF CallFunction
  <2>. QED
    BY <2>1, <2>2
<1>3. CASE SetCancelFunction
  BY <1>0, <1>3 DEF SetCancelFunction
<1>4. CASE Reset
  BY <1>0, <1>4 DEF Reset
<1>5. CASE UNCHANGED tokenVars
  BY <1>0, <1>5 DEF tokenVars
<1>. QED
  BY <1>1, <1>2, <1>3, <1>4, <1>5 DEF TokenNext

\* Of any number of threads in cancel(), one calls the function that was set,
\* once, unless it is changed between the unlock and the call.
THEOREM CancelsOnce == TokenSpec => []CancelCallsOnce
<1>1. TokenInv => CancelCallsOnce
  BY DEF TokenInv
<1>. QED
  BY <1>1, TokenInitial, TokenStepKeeps, PTL DEF TokenSpec

-----------------------------------------------------------------------------
(* JsonFileBase. *)

\* One thread at most has the file open, and what it writes is the object as it
\* was then; a save that succeeded is what the file holds.
SaveInv ==
    /\ ~running => ~JsonLocked
    /\ \A s, t \in Savers : saving[s] = "open" /\ saving[t] = "open" => s = t
    /\ JsonLocked => wrote = json
    /\ lastSaver # NoJson /\ ~failed /\ ~JsonLocked => jsonFile = FileOf(wrote)

LEMMA JsonInitial == JsonInit => JsonTypeOK /\ SaveInv
BY JsonAssumption DEF JsonInit, JsonTypeOK, SaveInv, JsonLocked, EmptyObject, Objects

LEMMA JsonTypeStep == JsonTypeOK /\ [JsonNext]_jsonVars => JsonTypeOK'
<1> SUFFICES ASSUME JsonTypeOK, [JsonNext]_jsonVars PROVE JsonTypeOK'
  OBVIOUS
<1> USE DEF JsonTypeOK
<1>1. CASE Load
  <2>1. EmptyObject \in Objects
    BY DEF EmptyObject, Objects
  <2>2. Loaded(jsonFile) \in Objects
    <3>1. CASE jsonFile = Cut
      BY <2>1, <3>1 DEF Loaded, Cut
    <3>2. ASSUME NEW object \in Objects, jsonFile = FileOf(object)
          PROVE  Loaded(jsonFile) \in Objects
      BY <3>2 DEF Loaded, FileOf
    <3>. QED
      BY <3>1, <3>2 DEF Files
  <2>. QED
    BY <1>1, <2>2 DEF Load
<1>2. CASE End
  BY <1>2 DEF End, EmptyObject, Objects
<1>3. ASSUME NEW k \in JsonKeys, NEW v \in JsonValues, Set(k, v) PROVE JsonTypeOK'
  BY <1>3 DEF Set, Objects
<1>4. ASSUME NEW t \in Savers, OpenForSave(t) PROVE JsonTypeOK'
  BY <1>4 DEF OpenForSave, Files
<1>5. ASSUME NEW t \in Savers, WriteAndUnlock(t) PROVE JsonTypeOK'
  BY <1>5 DEF WriteAndUnlock, Files
<1>6. ASSUME NEW t \in Savers, RaiseSaved(t) PROVE JsonTypeOK'
  BY <1>6 DEF RaiseSaved
<1>7. CASE UNCHANGED jsonVars
  BY <1>7 DEF jsonVars
<1>. QED
  BY <1>1, <1>2, <1>3, <1>4, <1>5, <1>6, <1>7 DEF JsonNext

LEMMA SaveStepKeeps == JsonTypeOK /\ SaveInv /\ [JsonNext]_jsonVars => SaveInv'
<1> SUFFICES ASSUME JsonTypeOK, SaveInv, [JsonNext]_jsonVars PROVE SaveInv'
  OBVIOUS
<1>0. saving \in [Savers -> {"no", "open", "unlocked"}]
  BY DEF JsonTypeOK
<1> USE DEF SaveInv, JsonLocked
<1>1. CASE Load
  BY <1>1 DEF Load
<1>2. CASE End
  BY <1>2 DEF End
<1>3. ASSUME NEW k \in JsonKeys, NEW v \in JsonValues, Set(k, v) PROVE SaveInv'
  BY <1>3 DEF Set
<1>4. ASSUME NEW t \in Savers, OpenForSave(t) PROVE SaveInv'
  BY <1>0, <1>4 DEF OpenForSave
<1>5. ASSUME NEW t \in Savers, WriteAndUnlock(t) PROVE SaveInv'
  BY <1>0, <1>5 DEF WriteAndUnlock
<1>6. ASSUME NEW t \in Savers, RaiseSaved(t) PROVE SaveInv'
  BY <1>0, <1>6 DEF RaiseSaved
<1>7. CASE UNCHANGED jsonVars
  BY <1>7 DEF jsonVars
<1>. QED
  BY <1>1, <1>2, <1>3, <1>4, <1>5, <1>6, <1>7 DEF JsonNext

\* Whoever loads the file after a save that succeeded, also in a handler of
\* saved() or after a restart, gets the values of that save and no other.
THEOREM SavesAreLoaded == JsonSpec => []SavedIsLoaded
<1>1. SaveInv => SavedIsLoaded
  BY DEF SaveInv, SavedIsLoaded, Loaded, FileOf
<1>. QED
  BY <1>1, JsonInitial, JsonTypeStep, SaveStepKeeps, PTL DEF JsonSpec

-----------------------------------------------------------------------------
(* SuspendInhibitor: inhibitions. *)

Object == [live : BOOLEAN, inhibiting : BOOLEAN, cookie : Nat]
Assignment == [what : {"copy", "move"}, to : Inhibitors, from : Inhibitors]

Typed ==
    /\ inhibitors \in [Inhibitors -> Object]
    /\ assigning \in [Assigners -> {NoAssignment} \cup Assignment]
    /\ cookies \in Nat
    /\ active \subseteq 1..cookies

\* No object has a cookie that the service has not made yet.
CookiesAreOld == \A o \in Inhibitors : inhibitors[o].inhibiting => inhibitors[o].cookie \in 1..cookies

\* An object that is gone inhibits nothing.
GoneIsEmpty == \A o \in Inhibitors : ~Live(o) => ~inhibitors[o].inhibiting

OwnInv == Typed /\ CookiesAreOld /\ GoneIsEmpty /\ InhibitionsAreOwned

LEMMA NoObjectTyped ==
    NoObject \in Object /\ [NoObject EXCEPT !.live = TRUE] \in Object
BY DEF NoObject, Object

LEMMA OwnInitial == InhibitorInit => OwnInv
<1> SUFFICES ASSUME InhibitorInit PROVE OwnInv
  OBVIOUS
<1>1. Typed
  BY NoObjectTyped DEF InhibitorInit, Typed
<1>2. \A o \in Inhibitors : ~inhibitors[o].inhibiting
  BY DEF InhibitorInit, NoObject
<1>. QED
  BY <1>1, <1>2 DEF InhibitorInit, OwnInv, CookiesAreOld, GoneIsEmpty, InhibitionsAreOwned

\* What CopyConstruct, MoveConstruct and Assign do to the objects: o gets what p
\* has, of which p keeps a copy (then the cookie is shared) or nothing, and what
\* o had before is given up.
LEMMA HandedOver ==
    ASSUME OwnInv, Typed', UNCHANGED <<active, cookies, unanswered>>,
           NEW o \in Inhibitors, NEW p \in Inhibitors, o # p,
           inhibitors'[o] = inhibitors[p],
           \A q \in Inhibitors \ {o, p} : inhibitors'[q] = inhibitors[q],
           shared \subseteq shared', abandoned \cup Held({o}) \subseteq abandoned',
           \/ inhibitors'[p].live /\ ~inhibitors'[p].inhibiting
           \/ inhibitors'[p] = inhibitors[p] /\ Held({p}) \subseteq shared'
    PROVE  OwnInv'
<1> USE DEF OwnInv, Live
<1>1. CookiesAreOld' /\ GoneIsEmpty'
  BY DEF CookiesAreOld, GoneIsEmpty
<1>2. ASSUME NEW q \in Inhibitors, inhibitors'[q].inhibiting
      PROVE  \/ inhibitors'[q].cookie \in (shared \cup unanswered)'
             \/ /\ inhibitors'[q].cookie \in active'
                /\ \A r \in Inhibitors \ {q} :
                      inhibitors'[r].inhibiting => inhibitors'[r].cookie # inhibitors'[q].cookie
  <2>1. \A r \in Inhibitors : inhibitors[r].inhibiting =>
            \/ inhibitors[r].cookie \in shared \cup unanswered
            \/ /\ inhibitors[r].cookie \in active
               /\ \A v \in Inhibitors \ {r} :
                     inhibitors[v].inhibiting => inhibitors[v].cookie # inhibitors[r].cookie
    BY DEF InhibitionsAreOwned, Held
  <2>2. CASE inhibitors'[p] = inhibitors[p] /\ Held({p}) \subseteq shared'
    BY <1>2, <2>1, <2>2 DEF Held
  <2>3. CASE ~inhibitors'[p].inhibiting
    BY <1>2, <2>1, <2>3
  <2>. QED
    BY <2>2, <2>3
<1>3. ASSUME NEW c \in active PROVE c \in (Held(Inhibitors) \cup unanswered \cup abandoned)'
  <2>1. CASE c \in unanswered \cup abandoned
    BY <2>1
  <2>2. ASSUME NEW r \in Inhibitors, inhibitors[r].inhibiting, inhibitors[r].cookie = c
        PROVE  c \in (Held(Inhibitors) \cup abandoned)'
    BY <2>2 DEF Held
  <2>. QED
    BY <2>1, <2>2 DEF InhibitionsAreOwned, Held
<1>. QED
  BY <1>1, <1>2, <1>3 DEF InhibitionsAreOwned, Held

LEMMA OwnStepKeeps == OwnInv /\ [InhibitorNext]_inhibitorVars => OwnInv'
<1> SUFFICES ASSUME OwnInv, [InhibitorNext]_inhibitorVars PROVE OwnInv'
  OBVIOUS
<1>0. /\ Typed
      /\ \A o \in Inhibitors : inhibitors[o] \in Object
      /\ \A c \in active : c \in Nat /\ c <= cookies
  BY DEF OwnInv, Typed
<1> USE DEF OwnInv, CookiesAreOld, GoneIsEmpty, InhibitionsAreOwned, Held, Live
<1>1. ASSUME NEW o \in Inhibitors, Construct(o) PROVE OwnInv'
  <2>1. Typed'
    BY <1>0, <1>1, NoObjectTyped DEF Construct, service, Typed
  <2>. QED
    BY <1>0, <1>1, <2>1 DEF Construct, service, Typed, NoObject
<1>2. ASSUME NEW o \in Inhibitors, NEW p \in Inhibitors, CopyConstruct(o, p) PROVE OwnInv'
  <2>1. Typed'
    BY <1>0, <1>2 DEF CopyConstruct, service, Typed
  <2>. QED
    BY <1>0, <1>2, <2>1, HandedOver DEF CopyConstruct, service, Typed
<1>3. ASSUME NEW o \in Inhibitors, NEW p \in Inhibitors, MoveConstruct(o, p) PROVE OwnInv'
  <2>1. Typed'
    BY <1>0, <1>3, NoObjectTyped DEF MoveConstruct, service, Typed
  <2>2. o # p
    BY <1>3 DEF MoveConstruct
  <2>3. /\ inhibitors'[o] = inhibitors[p]
        /\ inhibitors'[p].live /\ ~inhibitors'[p].inhibiting
        /\ \A q \in Inhibitors \ {o, p} : inhibitors'[q] = inhibitors[q]
    BY <1>0, <1>3, <2>2 DEF MoveConstruct, Typed, NoObject
  <2>4. Held({o}) = {} /\ UNCHANGED <<active, cookies, unanswered, shared, abandoned>>
    BY <1>3 DEF MoveConstruct, service
  <2>. QED
    BY <2>1, <2>2, <2>3, <2>4, HandedOver
<1>4. ASSUME NEW o \in Inhibitors, Inhibit(o) PROVE OwnInv'
  <2>0. /\ cookies' = cookies + 1 /\ active' = active \cup {cookies + 1}
        /\ UNCHANGED <<assigning, shared, abandoned>>
        /\ 1..cookies \subseteq 1..cookies' /\ cookies + 1 \notin 1..cookies
        /\ cookies' \in Nat /\ cookies + 1 \in 1..cookies'
    <3>1. cookies \in Nat
      BY <1>0 DEF Typed
    <3>2. /\ 1..cookies \subseteq 1..cookies + 1 /\ cookies + 1 \notin 1..cookies
          /\ cookies + 1 \in Nat /\ cookies + 1 \in 1..cookies + 1
      BY <3>1
    <3>. QED
      BY <1>4, <3>2 DEF Inhibit
  <2>1. Typed'
    <3>1. inhibitors' \in [Inhibitors -> Object]
      <4>1. [live |-> TRUE, inhibiting |-> TRUE, cookie |-> cookies + 1] \in Object
        BY <2>0 DEF Object
      <4>. QED
        BY <1>0, <1>4, <4>1 DEF Inhibit, Typed
    <3>2. active' \subseteq 1..cookies' /\ cookies' \in Nat
      BY <1>0, <2>0 DEF Typed
    <3>. QED
      BY <1>0, <2>0, <3>1, <3>2 DEF Typed
  <2>2. CASE unanswered' = unanswered \cup {cookies + 1} /\ UNCHANGED inhibitors
    BY <1>0, <2>0, <2>1, <2>2
  <2>3. CASE /\ inhibitors' = [inhibitors EXCEPT
                    ![o] = [live |-> TRUE, inhibiting |-> TRUE, cookie |-> cookies + 1]]
             /\ UNCHANGED unanswered
    <3>1. /\ inhibitors'[o].inhibiting /\ inhibitors'[o].cookie = cookies + 1
          /\ inhibitors'[o].live
          /\ \A q \in Inhibitors \ {o} : inhibitors'[q] = inhibitors[q]
      BY <1>0, <2>3 DEF Typed
    <3>. QED
      BY <1>0, <1>4, <2>0, <2>1, <2>3, <3>1 DEF Inhibit, Typed
  <2>. QED
    BY <1>4, <2>2, <2>3 DEF Inhibit
<1>5. ASSUME NEW o \in Inhibitors, Uninhibit(o) PROVE OwnInv'
  <2>1. Typed'
    BY <1>0, <1>5 DEF Uninhibit, Typed, Object
  <2>2. CASE /\ unanswered' = unanswered \cup {inhibitors[o].cookie}
             /\ UNCHANGED inhibitors
    BY <1>0, <1>5, <2>1, <2>2 DEF Uninhibit
  <2>3. CASE inhibitors' = [inhibitors EXCEPT ![o].inhibiting = FALSE] /\ UNCHANGED unanswered
    <3>1. /\ ~inhibitors'[o].inhibiting
          /\ \A q \in Inhibitors \ {o} : inhibitors'[q] = inhibitors[q]
          /\ \A q \in Inhibitors : inhibitors'[q].live = inhibitors[q].live
      BY <1>0, <2>3 DEF Typed, Object
    <3>. QED
      BY <1>0, <1>5, <2>1, <2>3, <3>1 DEF Uninhibit
  <2>. QED
    BY <1>5, <2>2, <2>3 DEF Uninhibit
<1>6. ASSUME NEW o \in Inhibitors, Destroy(o) PROVE OwnInv'
  <2>1. Typed'
    BY <1>0, <1>6, NoObjectTyped DEF Destroy, Typed
  <2>2. /\ ~inhibitors'[o].inhibiting
        /\ \A q \in Inhibitors \ {o} : inhibitors'[q] = inhibitors[q]
    BY <1>0, <1>6 DEF Destroy, Typed, NoObject
  <2>. QED
    BY <1>0, <1>6, <2>1, <2>2 DEF Destroy
<1>7. ASSUME NEW o \in Inhibitors, NEW p \in Inhibitors,
             NEW t \in Assigners, NEW w \in {"copy", "move"}, LockTarget(t, w, o, p)
      PROVE  OwnInv'
  <2>1. Typed'
    BY <1>0, <1>7 DEF LockTarget, service, Typed, Assignment
  <2>. QED
    BY <1>7, <2>1 DEF LockTarget, service
<1>8. ASSUME NEW t \in Assigners, Assign(t) PROVE OwnInv'
  <2> DEFINE o == assigning[t].to  p == assigning[t].from
  <2>0. o \in Inhibitors /\ p \in Inhibitors /\ o # p
    BY <1>0, <1>8 DEF Assign, CanAssign, Assigning, Locked, Typed, Assignment, NoAssignment
  <2>1. CASE assigning[t].what = "move"
    <3>1. inhibitors' = [inhibitors EXCEPT ![o] = inhibitors[p],
                                           ![p] = [NoObject EXCEPT !.live = TRUE]]
      BY <1>8, <2>1 DEF Assign
    <3>2. /\ inhibitors'[o] = inhibitors[p] /\ inhibitors'[p].live /\ ~inhibitors'[p].inhibiting
          /\ \A q \in Inhibitors \ {o, p} : inhibitors'[q] = inhibitors[q]
          /\ inhibitors' \in [Inhibitors -> Object]
      BY <1>0, <2>0, <3>1, NoObjectTyped DEF Typed, NoObject
    <3>3. Typed' /\ UNCHANGED <<active, cookies, unanswered, shared>>
      BY <1>0, <1>8, <2>1, <3>2 DEF Assign, Typed, service
    <3>4. abandoned' = abandoned \cup Held({o})
      BY <1>8 DEF Assign
    <3>. QED
      BY <2>0, <3>2, <3>3, <3>4, HandedOver
  <2>2. CASE assigning[t].what # "move"
    <3>1. inhibitors' = [inhibitors EXCEPT ![o] = inhibitors[p], ![p] = @]
      BY <1>8, <2>2 DEF Assign
    <3>2. /\ inhibitors'[o] = inhibitors[p]
          /\ \A q \in Inhibitors \ {o} : inhibitors'[q] = inhibitors[q]
          /\ inhibitors' \in [Inhibitors -> Object]
      BY <1>0, <2>0, <3>1 DEF Typed
    <3>3. Typed' /\ UNCHANGED <<active, cookies, unanswered>>
      BY <1>0, <1>8, <3>2 DEF Assign, Typed, service
    <3>4. abandoned' = abandoned \cup Held({o}) /\ shared' = shared \cup Held({p})
      BY <1>8, <2>2 DEF Assign
    <3>. QED
      BY <2>0, <3>2, <3>3, <3>4, HandedOver
  <2>. QED
    BY <2>1, <2>2
<1>9. CASE UNCHANGED inhibitorVars
  BY <1>0, <1>9 DEF inhibitorVars, Typed
<1>. QED
  BY <1>1, <1>2, <1>3, <1>4, <1>5, <1>6, <1>7, <1>8, <1>9 DEF InhibitorNext

\* An object that reports that it inhibits has an inhibition of its own, but
\* for copies and calls without an answer; and no inhibition is left to which
\* no object has the cookie, but for those, overwritten ones and failed
\* destructors.
THEOREM InhibitionsOwned == InhibitorSpec => []InhibitionsAreOwned
<1>1. OwnInv => InhibitionsAreOwned
  BY DEF OwnInv
<1>. QED
  BY <1>1, OwnInitial, OwnStepKeeps, PTL DEF InhibitorSpec

-----------------------------------------------------------------------------
(* Assignments. *)

\* Each thread has locked an object and waits for one of a higher rank; some
\* rank is the highest (threads begin one by one, also if there is no end of
\* them).
RanksAscend ==
    /\ assigning \in [Assigners -> {NoAssignment} \cup Assignment]
    /\ \A t \in Assigners : Assigning(t) => Rank[assigning[t].to] < Rank[assigning[t].from]
    /\ \E n \in Nat : \A t \in Assigners : Assigning(t) => Rank[assigning[t].from] <= n

LEMMA RanksInitial == InhibitorInit => RanksAscend
BY DEF InhibitorInit, RanksAscend, Assigning, NoAssignment

LEMMA RanksStepKeeps == RanksAscend /\ [InhibitorNext]_inhibitorVars => RanksAscend'
<1> SUFFICES ASSUME RanksAscend, [InhibitorNext]_inhibitorVars PROVE RanksAscend'
  OBVIOUS
<1> USE DEF RanksAscend, Assigning
<1>1. CASE UNCHANGED assigning
  BY <1>1
<1>2. ASSUME NEW o \in Inhibitors, NEW p \in Inhibitors,
             NEW t \in Assigners, NEW w \in {"copy", "move"}, LockTarget(t, w, o, p)
      PROVE  RanksAscend'
  <2>1. PICK n \in Nat : \A s \in Assigners : Assigning(s) => Rank[assigning[s].from] <= n
    OBVIOUS
  <2> DEFINE m == IF n < Rank[p] THEN Rank[p] ELSE n
  <2>2. /\ assigning'[t] = [what |-> w, to |-> o, from |-> p]
        /\ \A s \in Assigners \ {t} : assigning'[s] = assigning[s]
        /\ assigning' \in [Assigners -> {NoAssignment} \cup Assignment]
    BY <1>2 DEF LockTarget, Assignment
  <2>3. Rank[o] < Rank[p] /\ \A q \in Inhibitors : Rank[q] \in Nat
    BY <1>2, InhibitorAssumption DEF LockTarget
  <2>4. m \in Nat /\ n <= m /\ Rank[p] <= m
    BY <2>3
  <2>5. \A s \in Assigners : Assigning(s)' => Rank[assigning'[s].from] <= m
    <3> HIDE DEF m
    <3> SUFFICES ASSUME NEW s \in Assigners, Assigning(s)'
                 PROVE  Rank[assigning'[s].from] <= m
      OBVIOUS
    <3>1. CASE s = t
      BY <2>2, <2>4, <3>1
    <3>2. CASE s # t
      <4>1. assigning[s] \in Assignment /\ Rank[assigning[s].from] <= n
        BY <2>1, <2>2, <3>2 DEF NoAssignment
      <4>2. Rank[assigning[s].from] \in Nat
        BY <2>3, <4>1 DEF Assignment
      <4>. QED
        BY <2>2, <2>4, <3>2, <4>1, <4>2
    <3>. QED
      BY <3>1, <3>2
  <2>6. \A s \in Assigners : Assigning(s)' => Rank[assigning'[s].to] < Rank[assigning'[s].from]
    BY <2>2, <2>3
  <2>. QED
    BY <2>2, <2>4, <2>5, <2>6
<1>3. ASSUME NEW t \in Assigners, Assign(t) PROVE RanksAscend'
  <2>1. assigning' = [assigning EXCEPT ![t] = NoAssignment]
    BY <1>3 DEF Assign
  <2>2. /\ assigning' \in [Assigners -> {NoAssignment} \cup Assignment]
        /\ \A s \in Assigners : Assigning(s)' => Assigning(s) /\ assigning'[s] = assigning[s]
    BY <2>1 DEF NoAssignment
  <2>. QED
    BY <2>2
<1>. QED
  BY <1>1, <1>2, <1>3 DEF InhibitorNext, inhibitorVars, Construct, CopyConstruct,
      MoveConstruct, Inhibit, Uninhibit, Destroy

\* Of the threads that wait, the one whose target has the highest rank waits for
\* an object that nobody has locked.
LEMMA HighestGoesOn == RanksAscend => AssignmentsCanGoOn
<1> SUFFICES ASSUME RanksAscend, NEW u \in Assigners, Assigning(u)
             PROVE  \E t \in Assigners : CanAssign(t)
  BY DEF AssignmentsCanGoOn
<1> DEFINE to(t) == assigning[t].to  from(t) == assigning[t].from
<1>1. \A t \in Assigners : Assigning(t) =>
          Rank[to(t)] \in Nat /\ Rank[from(t)] \in Nat /\ Rank[to(t)] < Rank[from(t)]
  BY InhibitorAssumption DEF RanksAscend, Assigning, Assignment, NoAssignment
<1>2. PICK n \in Nat : \A t \in Assigners : Assigning(t) => Rank[from(t)] <= n
  BY DEF RanksAscend
<1> DEFINE T == {n - Rank[to(t)] : t \in {s \in Assigners : Assigning(s)}}
<1>3. T \subseteq Nat /\ T # {}
  BY <1>1, <1>2
<1>4. PICK x \in T : \A y \in T : ~(<<y, x>> \in OpToRel(<, Nat))
  BY <1>3, WFMin, NatLessThanWellFounded, Zenon
<1>5. \A y \in T : ~(y < x)
  BY <1>3, <1>4 DEF OpToRel
<1>6. PICK t \in Assigners : Assigning(t) /\ x = n - Rank[to(t)]
  OBVIOUS
<1>7. ASSUME NEW s \in Assigners, Assigning(s), to(s) = from(t) PROVE FALSE
  <2>1. n - Rank[to(s)] \in T
    BY <1>7
  <2>2. n - Rank[to(s)] < n - Rank[to(t)]
    BY <1>1, <1>2, <1>6, <1>7
  <2>. QED
    BY <1>5, <1>6, <2>1, <2>2
<1>. QED
  BY <1>6, <1>7 DEF CanAssign, Locked

\* When clients assign in the order of ranks, some assignment that has begun can
\* always go on, for any number of threads and objects.
THEOREM AssignmentsGoOn == InhibitorSpec => []AssignmentsCanGoOn
BY RanksInitial, RanksStepKeeps, HighestGoesOn, PTL DEF InhibitorSpec

-----------------------------------------------------------------------------
(* The composition of MCServices. *)

\* Every cookie that an object or a history has is one the service made.
CookiesInv ==
    /\ cookies <= MaxCookies
    /\ \A o \in Inhibitors : inhibitors[o].cookie \in 0..cookies
    /\ shared \subseteq 1..cookies /\ unanswered \subseteq 1..cookies
    /\ abandoned \subseteq 1..cookies

LEMMA InhibitorTyped == OwnInv /\ CookiesInv => InhibitorTypeOK
<1> SUFFICES ASSUME OwnInv, CookiesInv PROVE InhibitorTypeOK
  OBVIOUS
<1>1. MaxCookies \in Nat /\ cookies \in 0..MaxCookies /\ 0..cookies \subseteq Cookies
  BY InhibitorAssumption DEF OwnInv, Typed, CookiesInv, Cookies
<1>2. inhibitors \in [Inhibitors -> [live : BOOLEAN, inhibiting : BOOLEAN, cookie : Cookies]]
  BY <1>1 DEF OwnInv, Typed, CookiesInv, Object
<1>. QED
  BY <1>1, <1>2 DEF OwnInv, Typed, CookiesInv, InhibitorTypeOK, Assignment, Cookies

LEMMA CookiesStepKeeps == OwnInv /\ CookiesInv /\ [InhibitorNext]_inhibitorVars => CookiesInv'
<1> SUFFICES ASSUME OwnInv, CookiesInv, [InhibitorNext]_inhibitorVars PROVE CookiesInv'
  OBVIOUS
<1>0. /\ cookies \in Nat /\ MaxCookies \in Nat
      /\ \A o \in Inhibitors : inhibitors[o] \in Object
      /\ inhibitors \in [Inhibitors -> Object]
      /\ assigning \in [Assigners -> {NoAssignment} \cup Assignment]
  BY InhibitorAssumption DEF OwnInv, Typed
<1>1. \A o \in Inhibitors : Held({o}) \subseteq 1..cookies
  BY DEF OwnInv, CookiesAreOld, Held
<1> USE DEF CookiesInv
<1>2. ASSUME NEW o \in Inhibitors, Construct(o) PROVE CookiesInv'
  BY <1>0, <1>2 DEF Construct, service, NoObject
<1>3. ASSUME NEW o \in Inhibitors, NEW p \in Inhibitors, CopyConstruct(o, p) PROVE CookiesInv'
  BY <1>0, <1>1, <1>3 DEF CopyConstruct, service
<1>4. ASSUME NEW o \in Inhibitors, NEW p \in Inhibitors, MoveConstruct(o, p) PROVE CookiesInv'
  BY <1>0, <1>4 DEF MoveConstruct, service, NoObject
<1>5. ASSUME NEW o \in Inhibitors, Inhibit(o) PROVE CookiesInv'
  <2>1. /\ cookies' = cookies + 1 /\ cookies' <= MaxCookies
        /\ UNCHANGED <<shared, abandoned>>
        /\ 1..cookies \subseteq 1..cookies' /\ 0..cookies \subseteq 0..cookies'
        /\ cookies + 1 \in 1..cookies' /\ cookies + 1 \in 0..cookies'
    BY <1>0, <1>5 DEF Inhibit
  <2>2. unanswered' \subseteq unanswered \cup {cookies + 1}
    BY <1>5 DEF Inhibit
  <2>3. \A q \in Inhibitors : inhibitors'[q].cookie \in {inhibitors[q].cookie, cookies + 1}
    BY <1>0, <1>5 DEF Inhibit
  <2>. QED
    BY <2>1, <2>2, <2>3
<1>6. ASSUME NEW o \in Inhibitors, Uninhibit(o) PROVE CookiesInv'
  <2>1. inhibitors[o].cookie \in 1..cookies
    BY <1>6 DEF Uninhibit, OwnInv, CookiesAreOld
  <2>2. \A q \in Inhibitors : inhibitors'[q].cookie = inhibitors[q].cookie
    BY <1>0, <1>6 DEF Uninhibit, Object
  <2>. QED
    BY <1>6, <2>1, <2>2 DEF Uninhibit
<1>7. ASSUME NEW o \in Inhibitors, Destroy(o) PROVE CookiesInv'
  <2>1. \A q \in Inhibitors : inhibitors'[q].cookie \in {inhibitors[q].cookie, 0}
    BY <1>0, <1>7 DEF Destroy, NoObject
  <2>2. abandoned' \subseteq 1..cookies
    BY <1>1, <1>7 DEF Destroy
  <2>. QED
    BY <1>0, <1>7, <2>1, <2>2 DEF Destroy
<1>8. ASSUME NEW o \in Inhibitors, NEW p \in Inhibitors,
             NEW t \in Assigners, NEW w \in {"copy", "move"}, LockTarget(t, w, o, p)
      PROVE  CookiesInv'
  BY <1>8 DEF LockTarget, service
<1>9. ASSUME NEW t \in Assigners, Assign(t) PROVE CookiesInv'
  <2> DEFINE o == assigning[t].to  p == assigning[t].from
  <2>1. o \in Inhibitors /\ p \in Inhibitors
    BY <1>0, <1>9 DEF Assign, CanAssign, Assigning, Assignment, NoAssignment
  <2>2. Held({o}) \subseteq 1..cookies /\ Held({p}) \subseteq 1..cookies
    BY <1>1, <2>1
  <2>3. \A q \in Inhibitors : inhibitors'[q].cookie \in 0..cookies
    BY <1>0, <1>9, <2>1 DEF Assign, NoObject
  <2>. QED
    BY <1>9, <2>2, <2>3 DEF Assign, service
<1>10. CASE UNCHANGED inhibitorVars
  BY <1>10 DEF inhibitorVars
<1>. QED
  BY <1>2, <1>3, <1>4, <1>5, <1>6, <1>7, <1>8, <1>9, <1>10 DEF InhibitorNext

ServicesInv ==
    /\ MonitorTypeOK /\ TokenTypeOK /\ OwnInv /\ CookiesInv /\ JsonTypeOK
    /\ WatcherInv /\ WatcherTypeOK

\* A step of one service leaves the others as they are.
LEMMA OneMoves ==
    [Next]_vars => /\ [MonitorNext]_monitorVars /\ [TokenNext]_tokenVars
                   /\ [InhibitorNext]_inhibitorVars /\ [JsonNext]_jsonVars
                   /\ [WatcherNext]_watcherVars
BY DEF Next, vars

LEMMA ServicesInitial == Init => ServicesInv
<1> SUFFICES ASSUME Init PROVE ServicesInv
  OBVIOUS
<1>1. MonitorTypeOK /\ TokenTypeOK /\ OwnInv /\ JsonTypeOK /\ WatcherInv
  BY MonitorInitial, TokenInitial, OwnInitial, JsonInitial, WatcherInitial
     DEF Init, MonitorInv, TokenInv
<1>2. CookiesInv
  BY InhibitorAssumption DEF Init, InhibitorInit, CookiesInv, NoObject
<1>3. WatcherTypeOK
  BY WatcherTypeInitial DEF Init
<1>. QED
  BY <1>1, <1>2, <1>3 DEF ServicesInv

\* No variable of any service leaves its set, whichever of them moves.
THEOREM TypeCorrect == Spec => []TypeOK
<1>1. ServicesInv /\ [Next]_vars => ServicesInv'
  BY OneMoves, MonitorTypeStep, TokenTypeStep, OwnStepKeeps, CookiesStepKeeps, JsonTypeStep,
     WatcherStepKeeps, WatcherTypeStep DEF ServicesInv
<1>2. ServicesInv => TypeOK
  BY InhibitorTyped DEF ServicesInv, TypeOK
<1>. QED
  BY <1>1, <1>2, ServicesInitial, PTL DEF Spec

=============================================================================
