------------------------------- MODULE Event -------------------------------
(***************************************************************************)
(* Events::Event<T>: objects with a mutex and a vector of handlers, used   *)
(* by several threads.  invoke() keeps the mutex while it calls every      *)
(* handler, and a handler may call other event objects (a handler of       *)
(* Process::exited() that saves a JsonFileBase raises saved()), so a       *)
(* thread can hold several mutexes; assignment takes two.                  *)
(*                                                                         *)
(* A call is made (Begin, HandlerCalled) and takes effect when it gets the *)
(* mutex.  One call of a handler makes at most one call itself.  A value   *)
(* of Handlers stands for one std::function passed to one subscribe().     *)
(***************************************************************************)
EXTENDS Integers, SequencesExt

CONSTANTS
    Threads, NoThread,  \* threads, and the owner of a free mutex
    Events,             \* event objects
    Existing,           \* those that exist at first
    Handlers,           \* handlers
    NullHandlers,       \* those that hold no function
    NoHandler,
    ClientCalls,        \* calls a thread makes on its own
    Body,               \* the call each handler makes, or NoCall
    MaxCalls,           \* bound: calls each thread makes on its own
    Rank                \* the order in which the program uses event objects

NoCall == [op |-> "none"]
Plain == {"subscribe", "unsubscribe", "count", "invoke"}
Constructs == {"copyConstruct", "moveConstruct"}
Assigns == {"copyAssign", "moveAssign"}
Call == [op : {"subscribe", "unsubscribe"}, on : Events, arg : Handlers]
        \cup [op : {"count", "invoke"}, on : Events, arg : {NoHandler}]
        \cup [op : Constructs \cup Assigns, on : Events, arg : Events]

\* The mutexes a call takes.
Touches(c) ==
    CASE c.op \in Plain -> {c.on}
      [] c.op \in Constructs -> {c.arg}
      [] c.op \in Assigns /\ c.on # c.arg -> {c.on, c.arg}
      [] OTHER -> {}

\* Every event a handler touches ranks above r.
Above(h, r) == \A e \in Touches(Body[h]) : r < Rank[e]

\* The program's side: handlers use events of higher rank than the one they
\* are subscribed to, and handlers are copied to events of lower rank.  The
\* class neither states nor checks this, and deadlocks without it.
Ordered(c) ==
    /\ c.op = "subscribe" => Above(c.arg, Rank[c.on])
    /\ c.op \in Constructs => Rank[c.on] < Rank[c.arg]
    /\ c.op \in Assigns => c.on = c.arg \/ Rank[c.on] < Rank[c.arg]

ASSUME EventAssumption ==
    /\ NoThread \notin Threads
    /\ IsFiniteSet(Threads)
    /\ Existing \subseteq Events
    /\ NoHandler \notin Handlers
    /\ NullHandlers \subseteq Handlers
    /\ Rank \in [Events -> Nat]
    /\ MaxCalls \in Nat
    /\ ClientCalls \subseteq Call
    /\ Body \in [Handlers -> Call \cup {NoCall}]

ASSUME OrderAssumption ==
    /\ \A c \in ClientCalls : Ordered(c)
    /\ \A h \in Handlers : Body[h] # NoCall => Ordered(Body[h])

VARIABLES
    handlers,  \* m_handlers of each object
    owner,     \* the thread that holds m_mutex of each object
    born,      \* the objects constructed so far
    pending,   \* the call each thread is in, until it has taken effect
    locked,    \* an assignment of the thread has taken its first mutex
    frames,    \* the invocations each thread is inside, innermost last
    calls,     \* calls each thread has made on its own
    \* what clients keep, and what has been observed
    ticket,    \* the HandlerId subscribe() returned for a handler
    spent,     \* calls that are made once
    erased     \* the handler that unsubscribing a handler's id removed

vars == <<handlers, owner, born, pending, locked, frames, calls, ticket, spent, erased>>

NoTicket == -1

Init ==
    /\ handlers = [e \in Events |-> <<>>]
    /\ owner = [e \in Events |-> NoThread]
    /\ born = Existing
    /\ pending = [t \in Threads |-> NoCall]
    /\ locked = [t \in Threads |-> FALSE]
    /\ frames = [t \in Threads |-> <<>>]
    /\ calls = [t \in Threads |-> 0]
    /\ ticket = [h \in Handlers |-> NoTicket]
    /\ spent = {}
    /\ erased = [h \in Handlers |-> NoHandler]

----------------------------------------------------------------------------
(* Making a call.                                                          *)

\* A program calls only objects that exist, constructs one once, subscribes a
\* handler once and gives back the id it was handed once.
Legal(c) ==
    /\ Touches(c) \subseteq born
    /\ c.op \in Constructs =>
          c.on \notin born /\ \A d \in spent : d.op \in Constructs => d.on # c.on
    /\ c.op \in {"subscribe", "unsubscribe"} => c \notin spent
    /\ c.op = "unsubscribe" => ticket[c.arg] # NoTicket

Make(t, c) ==
    /\ pending' = [pending EXCEPT ![t] = c]
    /\ spent' = IF c.op \in Constructs \cup {"subscribe", "unsubscribe"}
                THEN spent \cup {c} ELSE spent

Begin(t) ==
    /\ pending[t] = NoCall
    /\ frames[t] = <<>>
    /\ calls[t] < MaxCalls
    /\ \E c \in ClientCalls : Legal(c) /\ Make(t, c)
    /\ calls' = [calls EXCEPT ![t] = @ + 1]
    /\ UNCHANGED <<handlers, owner, born, locked, frames, ticket, erased>>

Return(t) == pending' = [pending EXCEPT ![t] = NoCall]

----------------------------------------------------------------------------
(* The member functions.                                                   *)

Subscribe(t) ==
    LET c == pending[t] IN
    /\ c.op = "subscribe"
    /\ owner[c.on] = NoThread
    /\ handlers' = [handlers EXCEPT ![c.on] = Append(@, c.arg)]
    /\ ticket' = [ticket EXCEPT ![c.arg] = Len(handlers[c.on])]
    /\ Return(t)
    /\ UNCHANGED <<owner, born, locked, frames, calls, spent, erased>>

\* Mutant: the vector is changed without the mutex.
UnsubscribeUnlocked(t) ==
    LET c == pending[t]
        id == ticket[c.arg]
        known == id < Len(handlers[c.on])
    IN
    /\ c.op = "unsubscribe"
    /\ handlers' = IF known THEN [handlers EXCEPT ![c.on] = RemoveAt(@, id + 1)] ELSE handlers
    /\ erased' = IF known THEN [erased EXCEPT ![c.arg] = handlers[c.on][id + 1]] ELSE erased
    /\ Return(t)
    /\ UNCHANGED <<owner, born, locked, frames, calls, ticket, spent>>

\* erase(begin() + id): the ids of later handlers now name their successors.
Unsubscribe(t) ==
    LET c == pending[t]
        id == ticket[c.arg]
        known == id < Len(handlers[c.on])
    IN
    /\ c.op = "unsubscribe"
    /\ owner[c.on] = NoThread
    /\ handlers' = IF known THEN [handlers EXCEPT ![c.on] = RemoveAt(@, id + 1)] ELSE handlers
    /\ erased' = IF known THEN [erased EXCEPT ![c.arg] = handlers[c.on][id + 1]] ELSE erased
    /\ Return(t)
    /\ UNCHANGED <<owner, born, locked, frames, calls, ticket, spent>>

\* count() and operator bool.
Count(t) ==
    /\ pending[t].op = "count"
    /\ owner[pending[t].on] = NoThread
    /\ Return(t)
    /\ UNCHANGED <<handlers, owner, born, locked, frames, calls, ticket, spent, erased>>

\* The copy and move constructors lock only the source.
Construct(t) ==
    LET c == pending[t] IN
    /\ c.op \in Constructs
    /\ owner[c.arg] = NoThread
    /\ handlers' = [handlers EXCEPT ![c.on] = handlers[c.arg],
                                    ![c.arg] = IF c.op = "moveConstruct" THEN <<>> ELSE @]
    /\ born' = born \cup {c.on}
    /\ Return(t)
    /\ UNCHANGED <<owner, locked, frames, calls, ticket, spent, erased>>

\* if (this != &e)
AssignSelf(t) ==
    /\ pending[t].op \in Assigns
    /\ pending[t].on = pending[t].arg
    /\ Return(t)
    /\ UNCHANGED <<handlers, owner, born, locked, frames, calls, ticket, spent, erased>>

\* Mutant: assignment to itself is not told apart.
AssignLocksSelf(t) ==
    LET c == pending[t] IN
    /\ c.op \in Assigns
    /\ ~locked[t]
    /\ owner[c.on] = NoThread
    /\ owner' = [owner EXCEPT ![c.on] = t]
    /\ locked' = [locked EXCEPT ![t] = TRUE]
    /\ UNCHANGED <<handlers, born, pending, frames, calls, ticket, spent, erased>>

AssignLocks(t) ==
    LET c == pending[t] IN
    /\ c.op \in Assigns
    /\ c.on # c.arg
    /\ ~locked[t]
    /\ owner[c.on] = NoThread
    /\ owner' = [owner EXCEPT ![c.on] = t]
    /\ locked' = [locked EXCEPT ![t] = TRUE]
    /\ UNCHANGED <<handlers, born, pending, frames, calls, ticket, spent, erased>>

\* Mutant: the first mutex is not released.
AssignKeepsLock(t) ==
    LET c == pending[t] IN
    /\ locked[t]
    /\ owner[c.arg] = NoThread
    /\ handlers' = [handlers EXCEPT ![c.on] = handlers[c.arg],
                                    ![c.arg] = IF c.op = "moveAssign" THEN <<>> ELSE @]
    /\ locked' = [locked EXCEPT ![t] = FALSE]
    /\ Return(t)
    /\ UNCHANGED <<owner, born, frames, calls, ticket, spent, erased>>

AssignCopies(t) ==
    LET c == pending[t] IN
    /\ locked[t]
    /\ owner[c.arg] = NoThread
    /\ handlers' = [handlers EXCEPT ![c.on] = handlers[c.arg],
                                    ![c.arg] = IF c.op = "moveAssign" THEN <<>> ELSE @]
    /\ owner' = [owner EXCEPT ![c.on] = NoThread]
    /\ locked' = [locked EXCEPT ![t] = FALSE]
    /\ Return(t)
    /\ UNCHANGED <<born, frames, calls, ticket, spent, erased>>

----------------------------------------------------------------------------
(* invoke(): the mutex is kept while the handlers are called in order.     *)

Frame == [event : Events, next : Nat \ {0}, running : BOOLEAN, seen : Seq(Handlers)]
Top(t) == frames[t][Len(frames[t])]
SetTop(t, f) == frames' = [frames EXCEPT ![t] = ReplaceAt(@, Len(@), f)]

\* Mutant: the first handler has index 0.
InvokeFromZero(t) ==
    LET c == pending[t] IN
    /\ c.op = "invoke"
    /\ owner[c.on] = NoThread
    /\ owner' = [owner EXCEPT ![c.on] = t]
    /\ frames' = [frames EXCEPT ![t] = Append(@, [event |-> c.on, next |-> 0, running |-> FALSE,
                                                  seen |-> handlers[c.on]])]
    /\ Return(t)
    /\ UNCHANGED <<handlers, born, locked, calls, ticket, spent, erased>>

\* Mutant: the mutex is waited for and given up before the handlers run.
InvokeUnlocked(t) ==
    LET c == pending[t] IN
    /\ c.op = "invoke"
    /\ owner[c.on] = NoThread
    /\ frames' = [frames EXCEPT ![t] = Append(@, [event |-> c.on, next |-> 1, running |-> FALSE,
                                                  seen |-> handlers[c.on]])]
    /\ Return(t)
    /\ UNCHANGED <<handlers, owner, born, locked, calls, ticket, spent, erased>>

InvokeEnters(t) ==
    LET c == pending[t] IN
    /\ c.op = "invoke"
    /\ owner[c.on] = NoThread
    /\ owner' = [owner EXCEPT ![c.on] = t]
    /\ frames' = [frames EXCEPT ![t] = Append(@, [event |-> c.on, next |-> 1, running |-> FALSE,
                                                  seen |-> handlers[c.on]])]
    /\ Return(t)
    /\ UNCHANGED <<handlers, born, locked, calls, ticket, spent, erased>>

Iterating(t) == frames[t] # <<>> /\ pending[t] = NoCall

\* A handler is called, unless it holds no function; it makes its call if it
\* still can.
HandlerCalled(t) ==
    LET f == Top(t)
        h == handlers[f.event][f.next]
    IN
    /\ Iterating(t)
    /\ ~f.running
    /\ f.next <= Len(handlers[f.event])
    /\ IF h \in NullHandlers
       THEN SetTop(t, [f EXCEPT !.next = @ + 1]) /\ UNCHANGED <<pending, spent>>
       ELSE /\ SetTop(t, [f EXCEPT !.running = TRUE])
            /\ Make(t, IF Legal(Body[h]) THEN Body[h] ELSE NoCall)
    /\ UNCHANGED <<handlers, owner, born, locked, calls, ticket, erased>>

HandlerReturns(t) ==
    /\ Iterating(t)
    /\ Top(t).running
    /\ SetTop(t, [Top(t) EXCEPT !.running = FALSE, !.next = @ + 1])
    /\ UNCHANGED <<handlers, owner, born, pending, locked, calls, ticket, spent, erased>>

InvokeReturns(t) ==
    /\ Iterating(t)
    /\ ~Top(t).running
    /\ Top(t).next > Len(handlers[Top(t).event])
    /\ owner' = [owner EXCEPT ![Top(t).event] = NoThread]
    /\ frames' = [frames EXCEPT ![t] = Front(@)]
    /\ UNCHANGED <<handlers, born, pending, locked, calls, ticket, spent, erased>>

----------------------------------------------------------------------------

InCall(t) ==
    \/ Subscribe(t) \/ Unsubscribe(t) \/ Count(t) \/ Construct(t)
    \/ AssignSelf(t) \/ AssignLocks(t) \/ AssignCopies(t)
    \/ InvokeEnters(t) \/ HandlerCalled(t) \/ HandlerReturns(t) \/ InvokeReturns(t)

Idle(t) == pending[t] = NoCall /\ frames[t] = <<>>

\* Every thread has made its calls: the program may stop here, and only here.
Finished ==
    /\ \A t \in Threads : Idle(t) /\ (calls[t] = MaxCalls \/ \A c \in ClientCalls : ~Legal(c))
    /\ UNCHANGED vars

Next == Finished \/ \E t \in Threads : Begin(t) \/ InCall(t)

Spec == Init /\ [][Next]_vars

\* A thread inside a call is scheduled; none has to make a call.
FairSpec == Spec /\ \A t \in Threads : WF_vars(InCall(t))

----------------------------------------------------------------------------
(* Properties.                                                             *)

\* The objects, the threads and the clients' notes hold values of their types.
TypeOK ==
    /\ handlers \in [Events -> Seq(Handlers)]
    /\ owner \in [Events -> Threads \cup {NoThread}]
    /\ born \subseteq Events
    /\ pending \in [Threads -> Call \cup {NoCall}]
    /\ locked \in [Threads -> BOOLEAN]
    /\ frames \in [Threads -> Seq(Frame)]
    /\ calls \in [Threads -> 0..MaxCalls]
    /\ ticket \in [Handlers -> Nat \cup {NoTicket}]
    /\ spent \subseteq Call
    /\ erased \in [Handlers -> Handlers \cup {NoHandler}]

\* The vector never changes under an invocation that iterates over it, by this
\* thread or another: each invocation calls exactly the handlers subscribed
\* when it began, once each and in order, and the handler it is calling is in
\* the vector still.  So an unsubscribe() that removes a handler returns after
\* the last call of that handler.  Which handler an id removes is another
\* matter: IdNamesItsHandler.
InvocationIsStable ==
    \A t \in Threads : \A i \in DOMAIN frames[t] :
        LET f == frames[t][i] IN
        /\ f.seen = handlers[f.event]
        /\ f.next \in 1..Len(f.seen) + 1
        /\ f.running => f.next <= Len(f.seen)

\* The handlers of one event run one at a time: an invocation goes on only
\* under the object's mutex, which no two threads and no two invocations share.
InvocationsExclude ==
    \A t, u \in Threads : \A i \in DOMAIN frames[t], j \in DOMAIN frames[u] :
        frames[t][i].event = frames[u][j].event =>
            t = u /\ i = j /\ owner[frames[t][i].event] = t

\* The mutex a thread is about to take: none, if it is in no call or its call
\* takes none.
Wants(t) ==
    LET c == pending[t] IN
    IF locked[t] THEN {c.arg}
    ELSE IF c.op \in Assigns THEN Touches(c) \ {c.arg}
    ELSE Touches(c)

\* A thread only waits for a mutex that ranks above all it holds, so threads
\* cannot wait for each other in a circle, nor one for itself: a program that
\* uses its events in order does not deadlock in them.
LockOrder ==
    \A t \in Threads : \A e \in Events : \A w \in Wants(t) :
        owner[e] = t => Rank[e] < Rank[w]

\* Every call made on any event, from a thread or from a handler, returns.
CallsReturn == \A t \in Threads : []<>Idle(t)

\* "The ID of a handler for an event", "Unsubscribes a handler from the
\* event. @param id The handler id": unsubscribing the id subscribe() returned
\* for a handler removes that handler (event.h:38, event.h:94).
IdNamesItsHandler == \A h \in Handlers : erased[h] \in {h, NoHandler}

=============================================================================
