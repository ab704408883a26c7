---------------------------- MODULE EventProofs ----------------------------
(***************************************************************************)
(* What TLAPS proves of Event, for any threads, objects, handlers and      *)
(* calls that respect the order: an invocation sees the vector it started  *)
(* with, invocations of one event exclude each other, locks are taken in   *)
(* rank order, and so some call can always go on.                          *)
(***************************************************************************)
EXTENDS Event, SequenceTheorems, FiniteSetTheorems, WellFoundedInduction, TLAPS

\* An invocation holds its event's mutex and sees its vector unchanged.
FrameHeld ==
    \A t \in Threads : \A i \in 1..Len(frames[t]) :
        /\ owner[frames[t][i].event] = t
        /\ frames[t][i].seen = handlers[frames[t][i].event]

\* It is at a handler of it, or past the last.
FrameNext ==
    \A t \in Threads : \A i \in 1..Len(frames[t]) :
        /\ frames[t][i].next <= Len(frames[t][i].seen) + 1
        /\ frames[t][i].running => frames[t][i].next <= Len(frames[t][i].seen)

\* The invocations of a thread nest in rank order.
FrameNest ==
    \A t \in Threads : \A i, j \in 1..Len(frames[t]) :
        i < j => Rank[frames[t][i].event] < Rank[frames[t][j].event]

FrameInv == FrameHeld /\ FrameNext /\ FrameNest

\* A thread is inside an invocation of event e.
Inside(t, e) == \E i \in 1..Len(frames[t]) : frames[t][i].event = e

\* A mutex is held by an invocation, or by an assignment between its two.
OwnerInv ==
    /\ \A t \in Threads : \A e \in Events : owner[e] = t =>
          Inside(t, e) \/ (locked[t] /\ pending[t].on = e)
    /\ \A t \in Threads : locked[t] => owner[pending[t].on] = t

\* A call that has not taken effect keeps to the order, above all invocations
\* the thread is inside.
PendingInv ==
    \A t \in Threads :
        /\ Ordered(pending[t])
        /\ \A i \in 1..Len(frames[t]) : \A e \in Touches(pending[t]) :
              Rank[frames[t][i].event] < Rank[e]

\* The handlers of an event use only events above it.
HandlersInv ==
    \A e \in Events : \A k \in 1..Len(handlers[e]) : Above(handlers[e][k], Rank[e])

\* An object under construction is used by nobody, and constructed by one.
BornInv ==
    /\ \A e \in Events : owner[e] # NoThread => e \in born
    /\ \A t \in Threads :
          /\ Touches(pending[t]) \subseteq born
          /\ pending[t].op \in Constructs =>
                /\ pending[t].on \notin born
                /\ pending[t] \in spent
                /\ \A u \in Threads : u # t /\ pending[u].op \in Constructs =>
                      pending[u].on # pending[t].on

\* Only assignments hold a first mutex, and only ids that were handed out are
\* given back.
CallInv ==
    \A t \in Threads :
        /\ locked[t] => pending[t].op \in Assigns /\ pending[t].on # pending[t].arg
        /\ pending[t].op = "unsubscribe" => ticket[pending[t].arg] # NoTicket

Inv == TypeOK /\ CallInv /\ FrameInv /\ OwnerInv /\ PendingInv /\ HandlersInv /\ BornInv

(* ------------------------------ Sequences ------------------------------ *)

\* Dropping the last element.
LEMMA FrontFacts ==
    ASSUME NEW S, NEW s \in Seq(S), s # <<>>
    PROVE  /\ Len(s) \in Nat \ {0}
           /\ Front(s) \in Seq(S)
           /\ Len(Front(s)) = Len(s) - 1
           /\ \A i \in 1..Len(s) - 1 : Front(s)[i] = s[i]
<1>1. Len(s) \in Nat \ {0}
  BY EmptySeq
<1>2. PICK m \in Nat : m = Len(s) - 1
  BY <1>1
<1>3. \A i \in 1..m : s[i] \in S
  BY <1>1, <1>2, ElementOfSeq
<1>4. /\ SubSeq(s, 1, m) \in Seq(S)
      /\ Len(SubSeq(s, 1, m)) = m
      /\ \A i \in 1..m : SubSeq(s, 1, m)[i] = s[i]
  BY <1>3, SubSeqProperties
<1> QED
  BY <1>1, <1>2, <1>4 DEF Front

\* Erasing leaves elements of the sequence only.
LEMMA RemoveFacts ==
    ASSUME NEW S, NEW s \in Seq(S), NEW n \in 1..Len(s)
    PROVE  /\ RemoveAt(s, n) \in Seq(S)
           /\ \A i \in 1..Len(RemoveAt(s, n)) : \E j \in 1..Len(s) : RemoveAt(s, n)[i] = s[j]
<1> DEFINE a == SubSeq(s, 1, n - 1)
           b == SubSeq(s, n + 1, Len(s))
<1>1. Len(s) \in Nat /\ \A i \in 1..Len(s) : s[i] \in S
  BY LenProperties, ElementOfSeq
<1>2. a \in Seq(S) /\ Len(a) = n - 1 /\ \A i \in 1..n - 1 : a[i] = s[i]
  BY <1>1, SubSeqProperties
<1>3. b \in Seq(S) /\ Len(b) = Len(s) - n /\ \A i \in 1..Len(s) - n : b[i] = s[n + i]
  BY <1>1, SubSeqProperties
<1> HIDE DEF a, b
<1>4. /\ a \o b \in Seq(S)
      /\ Len(a \o b) = Len(s) - 1
      /\ \A i \in 1..Len(s) - 1 : (a \o b)[i] = IF i <= n - 1 THEN a[i] ELSE b[i - (n - 1)]
  BY <1>1, <1>2, <1>3, ConcatProperties
<1>5. ASSUME NEW i \in 1..Len(s) - 1 PROVE \E j \in 1..Len(s) : (a \o b)[i] = s[j]
  <2>1. CASE i <= n - 1
    BY <2>1, <1>1, <1>2, <1>4
  <2>2. CASE ~(i <= n - 1)
    <3>1. PICK k \in 1..Len(s) - n : k = i - (n - 1)
      BY <2>2, <1>1
    <3>2. (a \o b)[i] = b[k]
      BY <2>2, <3>1, <1>4
    <3>3. n + k \in 1..Len(s) /\ b[k] = s[n + k]
      BY <3>1, <1>1, <1>3
    <3> QED
      BY <3>2, <3>3
  <2> QED
    BY <2>1, <2>2
<1> QED
  BY <1>4, <1>5 DEF RemoveAt, a, b

(* -------------------------------- Types -------------------------------- *)

\* The mutexes of each kind of call.
LEMMA TouchesFacts ==
    ASSUME NEW c \in Call \cup {NoCall}
    PROVE  /\ c.op \in Plain => Touches(c) = {c.on} /\ c.on \in Events
           /\ c.op \in Constructs =>
                 Touches(c) = {c.arg} /\ c.on \in Events /\ c.arg \in Events
           /\ c.op \in Assigns =>
                 /\ c.on \in Events /\ c.arg \in Events
                 /\ Touches(c) = IF c.on = c.arg THEN {} ELSE {c.on, c.arg}
           /\ c.op \in {"subscribe", "unsubscribe"} => c.arg \in Handlers
           /\ c.op \in Plain \cup Constructs \cup Assigns => c \in Call
           /\ Touches(NoCall) = {} /\ NoCall.op = "none"
           /\ Touches(c) \subseteq Events
<1>1. CASE c = NoCall
  BY <1>1 DEF Touches, NoCall, Plain, Constructs, Assigns
<1>2. CASE c \in Call
  <2>1. c.op \in Plain \cup Constructs \cup Assigns /\ c.on \in Events
    BY <1>2 DEF Call, Plain, Constructs, Assigns
  <2>2. Touches(NoCall) = {} /\ NoCall.op = "none"
    BY DEF Touches, NoCall, Plain, Constructs, Assigns
  <2>3. c.op \in Constructs \cup Assigns => c.arg \in Events
    BY <1>2 DEF Call, Constructs, Assigns
  <2>4. c.op \in {"subscribe", "unsubscribe"} => c.arg \in Handlers
    BY <1>2 DEF Call, Constructs, Assigns
  <2>5. CASE c.op \in Plain
    BY <1>2, <2>1, <2>2, <2>4, <2>5 DEF Touches, Plain, Constructs, Assigns
  <2>6. CASE c.op \in Constructs
    BY <1>2, <2>1, <2>2, <2>3, <2>6 DEF Touches, Plain, Constructs, Assigns
  <2>7. CASE c.op \in Assigns
    BY <1>2, <2>1, <2>2, <2>3, <2>7 DEF Touches, Plain, Constructs, Assigns
  <2> QED
    BY <2>1, <2>5, <2>6, <2>7
<1> QED
  BY <1>1, <1>2

\* The innermost frame of a thread that is inside an invocation.
LEMMA TopFacts ==
    ASSUME TypeOK, NEW t \in Threads, frames[t] # <<>>
    PROVE  /\ Len(frames[t]) \in Nat \ {0}
           /\ Top(t) = frames[t][Len(frames[t])]
           /\ Top(t) \in Frame
           /\ Top(t).event \in Events /\ Top(t).next \in Nat \ {0}
<1>1. frames[t] \in Seq(Frame)
  BY DEF TypeOK
<1>2. Len(frames[t]) \in Nat \ {0}
  BY <1>1, EmptySeq
<1>3. Top(t) \in Frame
  BY <1>1, <1>2, ElementOfSeq DEF Top
<1> QED
  BY <1>2, <1>3 DEF Top, Frame

\* Replacing the innermost frame keeps the number of frames and the others.
LEMMA SetTopFacts ==
    ASSUME TypeOK, NEW t \in Threads, frames[t] # <<>>, NEW f \in Frame, SetTop(t, f)
    PROVE  /\ frames' \in [Threads -> Seq(Frame)]
           /\ \A u \in Threads : Len(frames'[u]) = Len(frames[u])
           /\ \A u \in Threads : \A i \in 1..Len(frames[u]) :
                 frames'[u][i] = IF u = t /\ i = Len(frames[t]) THEN f ELSE frames[u][i]
<1> DEFINE n == Len(frames[t])
<1>1. frames[t] \in Seq(Frame) /\ n \in 1..Len(frames[t])
  BY TopFacts DEF TypeOK
<1>2. frames' = [frames EXCEPT ![t] = [frames[t] EXCEPT ![n] = f]]
  BY DEF SetTop, ReplaceAt, TypeOK
<1>3. /\ [frames[t] EXCEPT ![n] = f] \in Seq(Frame)
      /\ Len([frames[t] EXCEPT ![n] = f]) = Len(frames[t])
      /\ \A j \in 1..Len(frames[t]) :
            [frames[t] EXCEPT ![n] = f][j] = IF j = n THEN f ELSE frames[t][j]
  BY <1>1, ExceptSeq
<1> HIDE DEF n
<1> DEFINE s == [frames[t] EXCEPT ![n] = f]
<1> HIDE DEF s
<1>4. frames \in [Threads -> Seq(Frame)] /\ frames' = [frames EXCEPT ![t] = s]
  BY <1>2 DEF s, TypeOK
<1>5. /\ s \in Seq(Frame) /\ Len(s) = Len(frames[t])
      /\ \A j \in 1..Len(frames[t]) : s[j] = IF j = n THEN f ELSE frames[t][j]
  BY <1>3 DEF s
<1>6. frames'[t] = s /\ \A u \in Threads : u # t => frames'[u] = frames[u]
  BY <1>4
<1> QED
  BY <1>4, <1>5, <1>6 DEF n

\* What becomes of a frame while its handlers are called.
LEMMA FrameFacts ==
    ASSUME NEW f \in Frame
    PROVE  /\ [f EXCEPT !.next = @ + 1] \in Frame
           /\ [f EXCEPT !.running = TRUE] \in Frame
           /\ [f EXCEPT !.running = FALSE, !.next = @ + 1] \in Frame
<1>1. [f EXCEPT !.next = @ + 1] \in Frame
  BY DEF Frame
<1>2. [f EXCEPT !.running = TRUE] \in Frame
  BY DEF Frame
<1>3. ASSUME NEW n \in Nat \ {0} PROVE [f EXCEPT !.running = FALSE, !.next = n] \in Frame
  BY Zenon DEF Frame
<1>4. f.next + 1 \in Nat \ {0}
  BY DEF Frame
<1> QED
  BY <1>1, <1>2, <1>3, <1>4, Zenon

\* Nothing has happened yet.
LEMMA TypeInit == Init => TypeOK /\ CallInv
BY EventAssumption, EmptySeq DEF Init, TypeOK, CallInv, NoTicket, NoCall

\* Every step keeps the types.
LEMMA TypeStep == TypeOK /\ CallInv /\ [Next]_vars => TypeOK'
<1> SUFFICES ASSUME TypeOK, CallInv, [Next]_vars PROVE TypeOK'
  OBVIOUS
<1> USE EventAssumption
<1>0. \A e \in Events : handlers[e] \in Seq(Handlers) /\ Len(handlers[e]) \in Nat
  BY LenProperties DEF TypeOK
<1>1. ASSUME NEW t \in Threads, Begin(t) PROVE TypeOK'
  <2>1. PICK c \in ClientCalls : Legal(c) /\ Make(t, c)
    BY <1>1 DEF Begin
  <2>2. pending' \in [Threads -> Call \cup {NoCall}] /\ spent' \subseteq Call
    BY <2>1 DEF TypeOK, Make
  <2>3. calls' \in [Threads -> 0..MaxCalls]
    BY <1>1 DEF TypeOK, Begin
  <2> QED
    BY <1>1, <2>2, <2>3 DEF TypeOK, Begin
<1>2. ASSUME NEW t \in Threads, Subscribe(t) PROVE TypeOK'
  <2>1. pending[t].on \in Events /\ pending[t].arg \in Handlers
    BY <1>2, TouchesFacts DEF TypeOK, Subscribe, Plain
  <2>2. Append(handlers[pending[t].on], pending[t].arg) \in Seq(Handlers)
    BY <1>0, <2>1
  <2> QED
    BY <1>0, <1>2, <2>1, <2>2 DEF TypeOK, Subscribe, Return
<1>3. ASSUME NEW t \in Threads, Unsubscribe(t) PROVE TypeOK'
  <2> DEFINE c == pending[t]
             id == ticket[c.arg]
  <2>1. c.on \in Events /\ c.arg \in Handlers
    BY <1>3, TouchesFacts DEF TypeOK, Unsubscribe, Plain
  <2>4. id \in Nat
    BY <1>3, <2>1 DEF TypeOK, CallInv, Unsubscribe, NoTicket
  <2>2. CASE id < Len(handlers[c.on]) /\ id + 1 \in 1..Len(handlers[c.on])
    <3>1. /\ RemoveAt(handlers[c.on], id + 1) \in Seq(Handlers)
          /\ handlers[c.on][id + 1] \in Handlers
      BY <1>0, <2>1, <2>2, RemoveFacts, ElementOfSeq
    <3> QED
      BY <1>3, <2>1, <2>2, <3>1 DEF TypeOK, Unsubscribe, Return
  <2>3. CASE ~(id < Len(handlers[c.on]))
    BY <1>3, <2>1, <2>3 DEF TypeOK, Unsubscribe, Return
  <2> QED
    BY <1>0, <2>1, <2>2, <2>3, <2>4
<1>4. ASSUME NEW t \in Threads, Count(t) PROVE TypeOK'
  BY <1>4 DEF TypeOK, Count, Return
<1>5. ASSUME NEW t \in Threads, Construct(t) PROVE TypeOK'
  <2>1. pending[t].on \in Events /\ pending[t].arg \in Events
    BY <1>5, TouchesFacts DEF TypeOK, Construct
  <2> QED
    BY <1>5, <2>1, EmptySeq DEF TypeOK, Construct, Return
<1>6. ASSUME NEW t \in Threads, AssignSelf(t) PROVE TypeOK'
  BY <1>6 DEF TypeOK, AssignSelf, Return
<1>7. ASSUME NEW t \in Threads, AssignLocks(t) PROVE TypeOK'
  BY <1>7 DEF TypeOK, AssignLocks
<1>8. ASSUME NEW t \in Threads, AssignCopies(t) PROVE TypeOK'
  <2>1. pending[t].on \in Events /\ pending[t].arg \in Events
    BY <1>8, TouchesFacts DEF TypeOK, CallInv, AssignCopies
  <2>2. locked' \in [Threads -> BOOLEAN]
    BY <1>8, Zenon DEF TypeOK, AssignCopies
  <2> QED
    BY <1>8, <2>1, <2>2, EmptySeq DEF TypeOK, AssignCopies, Return
<1>9. ASSUME NEW t \in Threads, InvokeEnters(t) PROVE TypeOK'
  <2>1. pending[t].on \in Events
    BY <1>9, TouchesFacts DEF TypeOK, InvokeEnters, Plain
  <2> DEFINE f == [event |-> pending[t].on, next |-> 1, running |-> FALSE,
                   seen |-> handlers[pending[t].on]]
  <2>2. f \in Frame
    BY <1>0, <2>1 DEF Frame
  <2>3. Append(frames[t], f) \in Seq(Frame)
    BY <2>2, AppendProperties DEF TypeOK
  <2>4. frames' = [frames EXCEPT ![t] = Append(frames[t], f)]
    BY <1>9 DEF InvokeEnters
  <2> HIDE DEF f
  <2>5. frames' \in [Threads -> Seq(Frame)]
    BY <2>3, <2>4 DEF TypeOK
  <2> QED
    BY <1>9, <2>5 DEF TypeOK, InvokeEnters, Return
<1>10. ASSUME NEW t \in Threads, HandlerCalled(t) PROVE TypeOK'
  <2> DEFINE f == Top(t)
             h == handlers[f.event][f.next]
  <2>1. f \in Frame /\ f.event \in Events /\ f.next \in Nat \ {0} /\ frames[t] # <<>>
    BY <1>10, TopFacts DEF HandlerCalled, Iterating
  <2>2. h \in Handlers
    BY <1>0, <1>10, <2>1, ElementOfSeq DEF HandlerCalled
  <2>3. [f EXCEPT !.next = @ + 1] \in Frame /\ [f EXCEPT !.running = TRUE] \in Frame
    BY <2>1, FrameFacts
  <2>4. frames' \in [Threads -> Seq(Frame)]
    BY <1>10, <2>1, <2>3, SetTopFacts DEF HandlerCalled
  <2>5. (IF Legal(Body[h]) THEN Body[h] ELSE NoCall) \in Call \cup {NoCall}
    BY <2>2
  <2>6. pending' \in [Threads -> Call \cup {NoCall}] /\ spent' \subseteq Call
    <3>1. CASE h \in NullHandlers
      BY <1>10, <3>1 DEF TypeOK, HandlerCalled
    <3>2. CASE h \notin NullHandlers
      <4> DEFINE c == IF Legal(Body[h]) THEN Body[h] ELSE NoCall
      <4>1. Make(t, c)
        BY <1>10, <3>2 DEF HandlerCalled
      <4>2. c \in Call \cup {NoCall}
        BY <2>5
      <4> HIDE DEF c
      <4>3. c.op \in Constructs \cup {"subscribe", "unsubscribe"} => c \in Call
        BY <4>2, TouchesFacts DEF Plain
      <4> QED
        BY <4>1, <4>2, <4>3 DEF TypeOK, Make
    <3> QED
      BY <3>1, <3>2
  <2> QED
    BY <1>10, <2>4, <2>6 DEF TypeOK, HandlerCalled
<1>11. ASSUME NEW t \in Threads, HandlerReturns(t) PROVE TypeOK'
  <2>1. Top(t) \in Frame /\ frames[t] # <<>>
    BY <1>11, TopFacts DEF HandlerReturns, Iterating
  <2>2. [Top(t) EXCEPT !.running = FALSE, !.next = @ + 1] \in Frame
    BY <2>1, FrameFacts
  <2>3. frames' \in [Threads -> Seq(Frame)]
    BY <1>11, <2>1, <2>2, SetTopFacts DEF HandlerReturns
  <2> QED
    BY <1>11, <2>3 DEF TypeOK, HandlerReturns
<1>12. ASSUME NEW t \in Threads, InvokeReturns(t) PROVE TypeOK'
  <2>1. frames[t] \in Seq(Frame) /\ frames[t] # <<>>
    BY <1>12 DEF TypeOK, InvokeReturns, Iterating
  <2>2. Front(frames[t]) \in Seq(Frame)
    BY <2>1, FrontFacts
  <2> QED
    BY <1>12, <2>2 DEF TypeOK, InvokeReturns
<1>13. CASE UNCHANGED vars
  BY <1>13 DEF vars, TypeOK
<1> QED
  BY <1>1, <1>2, <1>3, <1>4, <1>5, <1>6, <1>7, <1>8, <1>9, <1>10, <1>11, <1>12, <1>13
  DEF Next, InCall, Finished

(* ------------------------------- Calls --------------------------------- *)

\* A call that takes effect is over; the others go on.
LEMMA ReturnFacts ==
    ASSUME TypeOK, NEW t \in Threads, Return(t)
    PROVE  /\ pending'[t] = NoCall
           /\ \A u \in Threads : u # t => pending'[u] = pending[u]
BY DEF TypeOK, Return

\* A call that begins, from a thread or from a handler.
LEMMA MakeFacts ==
    ASSUME TypeOK, NEW t \in Threads, NEW c, Make(t, c)
    PROVE  /\ pending'[t] = c
           /\ \A u \in Threads : u # t => pending'[u] = pending[u]
           /\ spent \subseteq spent'
           /\ c.op \in Constructs => c \in spent'
BY DEF TypeOK, Make

\* What a thread that is in no call, or in one of no assignment, holds.
LEMMA NotLocked ==
    ASSUME CallInv, NEW t \in Threads,
           \/ pending[t] = NoCall
           \/ pending[t].op \in Plain \cup Constructs
           \/ pending[t].on = pending[t].arg
    PROVE  ~locked[t]
BY DEF CallInv, NoCall, Plain, Constructs, Assigns

\* A handler that is called makes a legal call, or none.
LEMMA CalledFacts ==
    ASSUME TypeOK, NEW t \in Threads, HandlerCalled(t)
    PROVE  /\ Top(t).event \in Events
           /\ Top(t).next \in 1..Len(handlers[Top(t).event])
           /\ handlers[Top(t).event][Top(t).next] \in Handlers
           /\ frames[t] # <<>> /\ pending[t] = NoCall
           /\ \A u \in Threads : u # t => pending'[u] = pending[u]
           /\ spent \subseteq spent'
           /\ \/ pending'[t] = NoCall
              \/ /\ pending'[t] = Body[handlers[Top(t).event][Top(t).next]]
                 /\ pending'[t] # NoCall
                 /\ Legal(pending'[t])
                 /\ pending'[t].op \in Constructs => pending'[t] \in spent'
<1> DEFINE h == handlers[Top(t).event][Top(t).next]
<1>1. /\ Top(t).event \in Events /\ Top(t).next \in Nat \ {0}
      /\ frames[t] # <<>> /\ pending[t] = NoCall
  BY TopFacts DEF HandlerCalled, Iterating
<1>2. Top(t).next \in 1..Len(handlers[Top(t).event])
  BY <1>1, LenProperties DEF TypeOK, HandlerCalled
<1>3. h \in Handlers
  BY <1>1, <1>2, ElementOfSeq DEF TypeOK
<1>4. CASE h \in NullHandlers
  BY <1>1, <1>2, <1>3, <1>4 DEF HandlerCalled
<1>5. CASE h \notin NullHandlers
  <2> DEFINE c == IF Legal(Body[h]) THEN Body[h] ELSE NoCall
  <2>1. Make(t, c)
    BY <1>5 DEF HandlerCalled
  <2>2. c = NoCall \/ (c = Body[h] /\ c # NoCall /\ Legal(c))
    OBVIOUS
  <2> HIDE DEF c
  <2>3. /\ pending'[t] = c
        /\ \A u \in Threads : u # t => pending'[u] = pending[u]
        /\ spent \subseteq spent'
        /\ c.op \in Constructs => c \in spent'
    BY <2>1, MakeFacts
  <2> HIDE DEF h
  <2>4. \/ pending'[t] = NoCall
        \/ /\ pending'[t] = Body[h]
           /\ pending'[t] # NoCall
           /\ Legal(pending'[t])
           /\ pending'[t].op \in Constructs => pending'[t] \in spent'
    BY <2>2, <2>3, Zenon
  <2> QED
    BY <1>1, <1>2, <1>3, <2>3, <2>4 DEF h
<1> QED
  BY <1>4, <1>5

\* Assignments take their first mutex as such, and ids are handed out before they
\* are given back.
LEMMA CallStep == TypeOK /\ CallInv /\ [Next]_vars => CallInv'
<1> SUFFICES ASSUME TypeOK, CallInv, [Next]_vars PROVE CallInv'
  OBVIOUS
<1> USE EventAssumption
<1>0. NoCall.op # "unsubscribe" /\ NoCall.op \notin Assigns
  BY DEF NoCall, Assigns
<1>1. ASSUME NEW t \in Threads, Begin(t) PROVE CallInv'
  <2>1. PICK c \in ClientCalls : Legal(c) /\ Make(t, c)
    BY <1>1 DEF Begin
  <2>2. ~locked[t]
    BY <1>1, NotLocked DEF Begin
  <2>3. pending'[t] = c /\ \A u \in Threads : u # t => pending'[u] = pending[u]
    BY <2>1, MakeFacts
  <2> QED
    BY <1>1, <2>1, <2>2, <2>3 DEF CallInv, Begin, Legal
<1>2. ASSUME NEW t \in Threads, Subscribe(t) PROVE CallInv'
  <2>1. pending[t].on \in Events /\ pending[t].arg \in Handlers /\ ~locked[t]
    BY <1>2, TouchesFacts, NotLocked DEF TypeOK, Subscribe, Plain
  <2>2. pending'[t] = NoCall /\ \A u \in Threads : u # t => pending'[u] = pending[u]
    BY <1>2, ReturnFacts DEF Subscribe
  <2>3. Len(handlers[pending[t].on]) # NoTicket
    BY <2>1, LenProperties DEF TypeOK, NoTicket
  <2>4. \A h : ticket'[h] = NoTicket => ticket[h] = NoTicket \/ h \notin Handlers
    BY <1>2, <2>1, <2>3 DEF TypeOK, Subscribe
  <2>5. \A u \in Threads : pending[u].op = "unsubscribe" => pending[u].arg \in Handlers
    BY TouchesFacts DEF TypeOK
  <2>6. locked' = locked
    BY <1>2 DEF Subscribe
  <2> QED
    BY <1>0, <2>1, <2>2, <2>4, <2>5, <2>6 DEF CallInv
<1>3. ASSUME NEW t \in Threads,
             \/ Unsubscribe(t) \/ Count(t) \/ Construct(t) \/ AssignSelf(t) \/ InvokeEnters(t)
      PROVE  CallInv'
  <2>1. ~locked[t]
    BY <1>3, NotLocked DEF Unsubscribe, Count, Construct, AssignSelf, InvokeEnters, Plain
  <2>2. Return(t) /\ locked' = locked /\ ticket' = ticket
    BY <1>3 DEF Unsubscribe, Count, Construct, AssignSelf, InvokeEnters
  <2>3. pending'[t] = NoCall /\ \A u \in Threads : u # t => pending'[u] = pending[u]
    BY <2>2, ReturnFacts
  <2> QED
    BY <1>0, <2>1, <2>2, <2>3 DEF CallInv
<1>4. ASSUME NEW t \in Threads, AssignLocks(t) PROVE CallInv'
  BY <1>4 DEF CallInv, AssignLocks, TypeOK
<1>5. ASSUME NEW t \in Threads, AssignCopies(t) PROVE CallInv'
  <2>1. pending'[t] = NoCall /\ \A u \in Threads : u # t => pending'[u] = pending[u]
    BY <1>5, ReturnFacts DEF AssignCopies
  <2>2. ~locked'[t] /\ ticket' = ticket /\ \A u \in Threads : u # t => locked'[u] = locked[u]
    BY <1>5 DEF AssignCopies, TypeOK
  <2> QED
    BY <1>0, <2>1, <2>2 DEF CallInv
<1>6. ASSUME NEW t \in Threads, HandlerCalled(t) PROVE CallInv'
  <2>1. ~locked[t] /\ locked' = locked /\ ticket' = ticket
    BY <1>6, NotLocked DEF HandlerCalled, Iterating
  <2>2. /\ \A u \in Threads : u # t => pending'[u] = pending[u]
        /\ pending'[t] = NoCall \/ Legal(pending'[t])
    BY <1>6, CalledFacts, Zenon
  <2>3. pending'[t].op = "unsubscribe" => ticket[pending'[t].arg] # NoTicket
    BY <1>0, <2>2 DEF Legal
  <2> QED
    BY <2>1, <2>2, <2>3 DEF CallInv
<1>7. ASSUME NEW t \in Threads, HandlerReturns(t) \/ InvokeReturns(t) PROVE CallInv'
  BY <1>7 DEF CallInv, HandlerReturns, InvokeReturns
<1>8. CASE UNCHANGED vars
  BY <1>8 DEF vars, CallInv
<1> QED
  BY <1>1, <1>2, <1>3, <1>4, <1>5, <1>6, <1>7, <1>8 DEF Next, InCall, Finished

(* --------------------------- Invocations -------------------------------- *)

\* The types of the frames of a thread.
LEMMA FrameTypes ==
    ASSUME TypeOK, NEW t \in Threads
    PROVE  /\ frames[t] \in Seq(Frame)
           /\ Len(frames[t]) \in Nat
           /\ \A i \in 1..Len(frames[t]) :
                 /\ frames[t][i] \in Frame
                 /\ frames[t][i].event \in Events
                 /\ frames[t][i].next \in Nat \ {0}
                 /\ Rank[frames[t][i].event] \in Nat
<1>1. frames[t] \in Seq(Frame)
  BY DEF TypeOK
<1>2. \A i \in 1..Len(frames[t]) : frames[t][i] \in Frame
  BY <1>1, ElementOfSeq
<1> QED
  BY <1>1, <1>2, LenProperties, EventAssumption DEF Frame

\* A free mutex has no invocation under it, nor has one of another thread.
LEMMA NoFrameOn ==
    ASSUME FrameInv, NEW t \in Threads, NEW i \in 1..Len(frames[t]), NEW e,
           owner[e] # t
    PROVE  frames[t][i].event # e
BY DEF FrameInv, FrameHeld

\* An object under construction has a free mutex, and an assignment keeps
\* invocations away from its target.
LEMMA TargetFree ==
    ASSUME TypeOK, CallInv, FrameInv, OwnerInv, PendingInv, BornInv, NEW t \in Threads,
           pending[t].op \in Constructs \/ locked[t],
           NEW u \in Threads, NEW i \in 1..Len(frames[u])
    PROVE  frames[u][i].event # pending[t].on
<1>1. CASE pending[t].op \in Constructs
  <2>1. pending[t].on \in Events
    BY <1>1, TouchesFacts DEF TypeOK
  <2>2. owner[pending[t].on] = NoThread
    BY <1>1, <2>1 DEF BornInv
  <2> QED
    BY <2>2, NoFrameOn, EventAssumption
<1>2. CASE locked[t]
  <2>1. owner[pending[t].on] = t /\ pending[t].on \in Touches(pending[t])
    <3>1. pending[t].op \in Assigns /\ pending[t].on # pending[t].arg
      BY <1>2 DEF CallInv
    <3> QED
      BY <1>2, <3>1, TouchesFacts DEF TypeOK, OwnerInv
  <2>2. CASE u = t
    <3>1. Rank[frames[t][i].event] < Rank[pending[t].on] /\ Rank[frames[t][i].event] \in Nat
      BY <2>1, <2>2, FrameTypes DEF PendingInv
    <3> QED
      BY <3>1, <2>2
  <2>3. CASE u # t
    BY <2>1, <2>3, NoFrameOn
  <2> QED
    BY <2>2, <2>3
<1> QED
  BY <1>1, <1>2

\* Invocations go on where neither owner nor handlers of their events change.
LEMMA FrameKept ==
    ASSUME FrameInv, frames' = frames,
           \A u \in Threads : \A i \in 1..Len(frames[u]) :
              /\ owner'[frames[u][i].event] = owner[frames[u][i].event]
              /\ handlers'[frames[u][i].event] = handlers[frames[u][i].event]
    PROVE  FrameInv'
<1>1. FrameHeld'
  BY DEF FrameInv, FrameHeld
<1>2. FrameNext'
  BY DEF FrameInv, FrameNext
<1>3. FrameNest'
  BY DEF FrameInv, FrameNest
<1> QED
  BY <1>1, <1>2, <1>3 DEF FrameInv

\* Likewise where the innermost one moves to the next handler or runs it.
LEMMA FrameMoves ==
    ASSUME TypeOK, FrameInv, owner' = owner, handlers' = handlers,
           NEW t \in Threads, frames[t] # <<>>, NEW f \in Frame, SetTop(t, f),
           f.event = Top(t).event, f.seen = Top(t).seen,
           f.next <= Len(f.seen) + 1, f.running => f.next <= Len(f.seen)
    PROVE  FrameInv'
<1>1. /\ \A u \in Threads : Len(frames'[u]) = Len(frames[u])
      /\ \A u \in Threads : \A i \in 1..Len(frames[u]) :
            frames'[u][i] = IF u = t /\ i = Len(frames[t]) THEN f ELSE frames[u][i]
  BY SetTopFacts
<1>2. Top(t) = frames[t][Len(frames[t])] /\ Len(frames[t]) \in 1..Len(frames[t])
  BY TopFacts
<1>3. \A u \in Threads : \A i \in 1..Len(frames[u]) :
         frames'[u][i].event = frames[u][i].event /\ frames'[u][i].seen = frames[u][i].seen
  BY <1>1, <1>2
<1>4. \A u \in Threads : \A i \in 1..Len(frames[u]) :
         /\ frames'[u][i].next <= Len(frames'[u][i].seen) + 1
         /\ frames'[u][i].running => frames'[u][i].next <= Len(frames'[u][i].seen)
  <2> TAKE u \in Threads
  <2> TAKE i \in 1..Len(frames[u])
  <2>1. CASE frames'[u][i] = f
    BY <2>1
  <2>2. CASE frames'[u][i] = frames[u][i]
    BY <2>2 DEF FrameInv, FrameNext
  <2> QED
    BY <1>1, <2>1, <2>2
<1>5. FrameHeld'
  BY <1>1, <1>3 DEF FrameInv, FrameHeld
<1>6. FrameNext'
  BY <1>1, <1>4 DEF FrameNext
<1>7. FrameNest'
  BY <1>1, <1>3 DEF FrameInv, FrameNest
<1> QED
  BY <1>5, <1>6, <1>7 DEF FrameInv

\* No step changes the vector or the owner of an event under an invocation.
LEMMA FrameStep ==
    TypeOK /\ CallInv /\ FrameInv /\ OwnerInv /\ PendingInv /\ BornInv /\ [Next]_vars => FrameInv'
<1> SUFFICES ASSUME TypeOK, CallInv, FrameInv, OwnerInv, PendingInv, BornInv, [Next]_vars
             PROVE  FrameInv'
  OBVIOUS
<1> USE EventAssumption
<1>1. ASSUME NEW t \in Threads, Begin(t) \/ Count(t) \/ AssignSelf(t) PROVE FrameInv'
  BY <1>1, FrameKept DEF Begin, Count, AssignSelf
<1>2. ASSUME NEW t \in Threads, Subscribe(t) \/ Unsubscribe(t) PROVE FrameInv'
  <2>1. /\ owner[pending[t].on] = NoThread /\ owner' = owner /\ frames' = frames
        /\ \A e \in Events : e # pending[t].on => handlers'[e] = handlers[e]
    BY <1>2 DEF Subscribe, Unsubscribe, TypeOK
  <2>2. \A u \in Threads : \A i \in 1..Len(frames[u]) :
           frames[u][i].event \in Events /\ frames[u][i].event # pending[t].on
    BY <2>1, FrameTypes, NoFrameOn
  <2> QED
    BY <2>1, <2>2, FrameKept
<1>3. ASSUME NEW t \in Threads, Construct(t) \/ AssignCopies(t) PROVE FrameInv'
  <2>1. /\ pending[t].op \in Constructs \/ locked[t]
        /\ owner[pending[t].arg] = NoThread /\ frames' = frames
        /\ \A e \in Events : e # pending[t].on => owner'[e] = owner[e]
        /\ \A e \in Events : e # pending[t].on /\ e # pending[t].arg => handlers'[e] = handlers[e]
    BY <1>3 DEF Construct, AssignCopies, TypeOK
  <2>2. \A u \in Threads : \A i \in 1..Len(frames[u]) :
           /\ frames[u][i].event \in Events
           /\ frames[u][i].event # pending[t].on
           /\ frames[u][i].event # pending[t].arg
    BY <2>1, FrameTypes, NoFrameOn, TargetFree
  <2> QED
    BY <2>1, <2>2, FrameKept
<1>4. ASSUME NEW t \in Threads, AssignLocks(t) PROVE FrameInv'
  <2>1. /\ owner[pending[t].on] = NoThread /\ frames' = frames /\ handlers' = handlers
        /\ \A e \in Events : e # pending[t].on => owner'[e] = owner[e]
    BY <1>4 DEF AssignLocks, TypeOK
  <2>2. \A u \in Threads : \A i \in 1..Len(frames[u]) :
           frames[u][i].event \in Events /\ frames[u][i].event # pending[t].on
    BY <2>1, FrameTypes, NoFrameOn
  <2> QED
    BY <2>1, <2>2, FrameKept
<1>5. ASSUME NEW t \in Threads, InvokeEnters(t) PROVE FrameInv'
  <2> DEFINE e == pending[t].on
             n == Len(frames[t]) + 1
             f == [event |-> e, next |-> 1, running |-> FALSE, seen |-> handlers[e]]
  <2>1. e \in Events /\ e \in Touches(pending[t])
    BY <1>5, TouchesFacts DEF TypeOK, InvokeEnters, Plain
  <2>2. /\ owner[e] = NoThread /\ owner'[e] = t /\ handlers' = handlers
        /\ \A d \in Events : d # e => owner'[d] = owner[d]
    BY <1>5, <2>1 DEF InvokeEnters, TypeOK
  <2>3. frames[t] \in Seq(Frame) /\ Len(frames[t]) \in Nat /\ Len(handlers[e]) \in Nat
    BY <2>1, FrameTypes, LenProperties DEF TypeOK
  <2>4. f \in Frame
    BY <2>1 DEF TypeOK, Frame
  <2>5. frames'[t] = Append(frames[t], f) /\ \A u \in Threads : u # t => frames'[u] = frames[u]
    BY <1>5 DEF InvokeEnters, TypeOK
  <2>6. f.event = e /\ f.next = 1 /\ f.running = FALSE /\ f.seen = handlers[e]
    OBVIOUS
  <2> HIDE DEF f
  <2>7. /\ Len(frames'[t]) = n /\ frames'[t][n] = f
        /\ \A i \in 1..Len(frames[t]) : frames'[t][i] = frames[t][i]
    BY <2>3, <2>4, <2>5, AppendProperties
  <2>8. \A u \in Threads : \A i \in 1..Len(frames[u]) :
           frames[u][i].event \in Events /\ frames[u][i].event # e
    BY <2>2, FrameTypes, NoFrameOn
  <2>9. \A i \in 1..Len(frames[t]) : Rank[frames[t][i].event] < Rank[e]
    BY <2>1 DEF PendingInv
  <2> HIDE DEF e, n
  <2>10. /\ owner'[f.event] = t /\ f.seen = handlers'[f.event]
         /\ f.next <= Len(f.seen) + 1
    BY <2>2, <2>3, <2>6
  <2>11. \A u \in Threads : \A i \in 1..Len(frames'[u]) :
            \/ u = t /\ i = n /\ frames'[u][i] = f
            \/ i \in 1..Len(frames[u]) /\ frames'[u][i] = frames[u][i] /\ (u = t => i < n)
    <3> TAKE u \in Threads
    <3> TAKE i \in 1..Len(frames'[u])
    <3>1. CASE u = t /\ i = n
      BY <2>7, <3>1
    <3>2. CASE u = t /\ i # n
      <4>1. i \in 1..Len(frames[t]) /\ i < n
        BY <2>3, <2>7, <3>2 DEF n
      <4> QED
        BY <2>7, <3>2, <4>1
    <3>3. CASE u # t
      BY <2>5, <3>3
    <3> QED
      BY <3>1, <3>2, <3>3
  <2>12. FrameHeld'
    <3> SUFFICES ASSUME NEW u \in Threads, NEW i \in 1..Len(frames'[u])
                 PROVE  /\ owner'[frames'[u][i].event] = u
                        /\ frames'[u][i].seen = handlers'[frames'[u][i].event]
      BY DEF FrameHeld
    <3>1. CASE u = t /\ frames'[u][i] = f
      BY <2>10, <3>1
    <3>2. CASE i \in 1..Len(frames[u]) /\ frames'[u][i] = frames[u][i]
      <4>1. owner[frames[u][i].event] = u /\ frames[u][i].seen = handlers[frames[u][i].event]
        BY <3>2 DEF FrameInv, FrameHeld
      <4> QED
        BY <2>2, <2>8, <3>2, <4>1
    <3> QED
      BY <2>11, <3>1, <3>2
  <2>13. FrameNext'
    <3> SUFFICES ASSUME NEW u \in Threads, NEW i \in 1..Len(frames'[u])
                 PROVE  /\ frames'[u][i].next <= Len(frames'[u][i].seen) + 1
                        /\ frames'[u][i].running => frames'[u][i].next <= Len(frames'[u][i].seen)
      BY DEF FrameNext
    <3>1. CASE frames'[u][i] = f
      <4>1. f.next <= Len(f.seen) + 1
        BY <2>10
      <4>2. f.running = FALSE
        BY <2>6
      <4> QED
        BY <3>1, <4>1, <4>2
    <3>2. CASE i \in 1..Len(frames[u]) /\ frames'[u][i] = frames[u][i]
      BY <3>2 DEF FrameInv, FrameNext
    <3> QED
      BY <2>11, <3>1, <3>2
  <2>14. FrameNest'
    <3> SUFFICES ASSUME NEW u \in Threads, NEW i \in 1..Len(frames'[u]),
                        NEW j \in 1..Len(frames'[u]), i < j
                 PROVE  Rank[frames'[u][i].event] < Rank[frames'[u][j].event]
      BY DEF FrameNest
    <3>1. i \in 1..Len(frames[u]) /\ frames'[u][i] = frames[u][i]
      BY <2>3, <2>7, <2>11 DEF n
    <3>2. CASE u = t /\ j = n /\ frames'[u][j] = f
      BY <2>6, <2>9, <3>1, <3>2
    <3>3. CASE j \in 1..Len(frames[u]) /\ frames'[u][j] = frames[u][j]
      BY <3>1, <3>3 DEF FrameInv, FrameNest
    <3> QED
      BY <2>11, <3>2, <3>3
  <2> QED
    BY <2>12, <2>13, <2>14 DEF FrameInv
<1>6. ASSUME NEW t \in Threads, HandlerCalled(t) PROVE FrameInv'
  <2> DEFINE f == Top(t)
  <2>1. /\ f \in Frame /\ f.event \in Events /\ f.next \in Nat \ {0} /\ frames[t] # <<>>
        /\ f.next \in 1..Len(handlers[f.event]) /\ owner' = owner /\ handlers' = handlers
    BY <1>6, TopFacts, CalledFacts DEF HandlerCalled
  <2>2. f.seen = handlers[f.event] /\ Len(f.seen) \in Nat
    <3>1. handlers[f.event] \in Seq(Handlers)
      BY <2>1 DEF TypeOK
    <3>2. f = frames[t][Len(frames[t])] /\ Len(frames[t]) \in 1..Len(frames[t])
      BY <2>1, TopFacts
    <3> QED
      BY <3>1, <3>2, LenProperties DEF FrameInv, FrameHeld
  <2>3. \/ SetTop(t, [f EXCEPT !.next = @ + 1]) /\ ~f.running
        \/ SetTop(t, [f EXCEPT !.running = TRUE])
    BY <1>6 DEF HandlerCalled
  <2>4. CASE SetTop(t, [f EXCEPT !.next = @ + 1]) /\ ~f.running
    <3> DEFINE g == [f EXCEPT !.next = @ + 1]
    <3>1. g \in Frame /\ SetTop(t, g)
      BY <2>1, <2>4, FrameFacts
    <3>2. g.event = f.event /\ g.seen = f.seen /\ g.next = f.next + 1 /\ g.running = f.running
      BY <2>1 DEF Frame
    <3> HIDE DEF g
    <3>3. g.next <= Len(g.seen) + 1 /\ ~g.running
      BY <2>1, <2>2, <2>4, <3>2
    <3> QED
      BY <2>1, <3>1, <3>2, <3>3, FrameMoves
  <2>5. CASE SetTop(t, [f EXCEPT !.running = TRUE])
    <3> DEFINE g == [f EXCEPT !.running = TRUE]
    <3>1. g \in Frame /\ SetTop(t, g)
      BY <2>1, <2>5, FrameFacts
    <3>2. g.event = f.event /\ g.seen = f.seen /\ g.next = f.next
      BY <2>1 DEF Frame
    <3> HIDE DEF g
    <3>3. g.next <= Len(g.seen) + 1 /\ g.next <= Len(g.seen)
      BY <2>1, <2>2, <3>2
    <3> QED
      BY <2>1, <3>1, <3>2, <3>3, FrameMoves
  <2> QED
    BY <2>3, <2>4, <2>5
<1>7. ASSUME NEW t \in Threads, HandlerReturns(t) PROVE FrameInv'
  <2> DEFINE f == Top(t)
             g == [f EXCEPT !.running = FALSE, !.next = @ + 1]
  <2>1. /\ f \in Frame /\ frames[t] # <<>> /\ f.next \in Nat \ {0} /\ f.running
        /\ owner' = owner /\ handlers' = handlers
    BY <1>7, TopFacts DEF HandlerReturns, Iterating
  <2>2. f.next <= Len(f.seen) /\ Len(f.seen) \in Nat
    <3>1. f.seen \in Seq(Handlers)
      BY <2>1 DEF Frame
    <3>2. f = frames[t][Len(frames[t])] /\ Len(frames[t]) \in 1..Len(frames[t])
      BY <2>1, TopFacts
    <3> QED
      BY <2>1, <3>1, <3>2, LenProperties DEF FrameInv, FrameNext
  <2>3. g \in Frame /\ SetTop(t, g)
    BY <1>7, <2>1, FrameFacts DEF HandlerReturns
  <2>4. g.event = f.event /\ g.seen = f.seen /\ g.next = f.next + 1 /\ g.running = FALSE
    BY <2>1 DEF Frame
  <2> HIDE DEF g
  <2>5. g.next <= Len(g.seen) + 1 /\ ~g.running
    BY <2>1, <2>2, <2>4
  <2> QED
    BY <2>1, <2>3, <2>4, <2>5, FrameMoves
<1>8. ASSUME NEW t \in Threads, InvokeReturns(t) PROVE FrameInv'
  <2> DEFINE n == Len(frames[t])
  <2>1. frames[t] \in Seq(Frame) /\ frames[t] # <<>> /\ n \in 1..n /\ n \in Nat
        /\ Top(t) = frames[t][n]
    BY <1>8, FrameTypes, TopFacts DEF InvokeReturns, Iterating
  <2>2. /\ frames'[t] = Front(frames[t])
        /\ \A u \in Threads : u # t => frames'[u] = frames[u]
        /\ \A e \in Events : e # frames[t][n].event => owner'[e] = owner[e]
        /\ handlers' = handlers
    BY <1>8, <2>1 DEF InvokeReturns, TypeOK
  <2>3. Len(frames'[t]) = n - 1 /\ \A i \in 1..n - 1 : frames'[t][i] = frames[t][i]
    <3> DEFINE s == frames[t]
    <3> HIDE DEF s
    <3>1. s \in Seq(Frame) /\ s # <<>> /\ n = Len(s) /\ frames'[t] = Front(s)
      BY <2>1, <2>2 DEF s
    <3>2. Len(Front(s)) = Len(s) - 1 /\ \A i \in 1..Len(s) - 1 : Front(s)[i] = s[i]
      BY <3>1, FrontFacts
    <3> HIDE DEF n
    <3> QED
      BY <3>1, <3>2 DEF s
  <2>4. \A u \in Threads : \A i \in 1..Len(frames'[u]) :
           /\ i \in 1..Len(frames[u]) /\ frames'[u][i] = frames[u][i]
           /\ u = t => i < n
    <3> TAKE u \in Threads
    <3> TAKE i \in 1..Len(frames'[u])
    <3>1. CASE u = t
      <4>1. i \in 1..n - 1 /\ i \in 1..n /\ i < n
        BY <2>1, <2>3, <3>1
      <4> QED
        BY <2>3, <3>1, <4>1
    <3>2. CASE u # t
      BY <2>2, <3>2
    <3> QED
      BY <3>1, <3>2
  <2>6. \A u \in Threads : \A i \in 1..Len(frames'[u]) : frames[u][i].event \in Events
    BY <2>4, FrameTypes
  <2>5. \A u \in Threads : \A i \in 1..Len(frames'[u]) : frames[u][i].event # frames[t][n].event
    <3> TAKE u \in Threads
    <3> TAKE i \in 1..Len(frames'[u])
    <3>1. CASE u = t
      <4>1. Rank[frames[t][i].event] < Rank[frames[t][n].event]
        BY <3>1, <2>1, <2>4 DEF FrameInv, FrameNest
      <4>2. Rank[frames[t][n].event] \in Nat
        BY <2>1, FrameTypes
      <4> QED
        BY <3>1, <4>1, <4>2
    <3>2. CASE u # t
      <4>1. owner[frames[u][i].event] = u /\ owner[frames[t][n].event] = t
        BY <2>1, <2>4 DEF FrameInv, FrameHeld
      <4> QED
        BY <3>2, <4>1
    <3> QED
      BY <3>1, <3>2
  <2> HIDE DEF n
  <2>7. FrameHeld'
    <3> SUFFICES ASSUME NEW u \in Threads, NEW i \in 1..Len(frames'[u])
                 PROVE  /\ owner'[frames'[u][i].event] = u
                        /\ frames'[u][i].seen = handlers'[frames'[u][i].event]
      BY DEF FrameHeld
    <3>1. i \in 1..Len(frames[u]) /\ frames'[u][i] = frames[u][i]
      BY <2>4
    <3>2. owner[frames[u][i].event] = u /\ frames[u][i].seen = handlers[frames[u][i].event]
      BY <3>1 DEF FrameInv, FrameHeld
    <3> QED
      BY <2>2, <2>5, <2>6, <3>1, <3>2
  <2>8. FrameNext'
    BY <2>4 DEF FrameInv, FrameNext
  <2>9. FrameNest'
    <3> SUFFICES ASSUME NEW u \in Threads, NEW i \in 1..Len(frames'[u]),
                        NEW j \in 1..Len(frames'[u]), i < j
                 PROVE  Rank[frames'[u][i].event] < Rank[frames'[u][j].event]
      BY DEF FrameNest
    <3>1. /\ i \in 1..Len(frames[u]) /\ frames'[u][i] = frames[u][i]
          /\ j \in 1..Len(frames[u]) /\ frames'[u][j] = frames[u][j]
      BY <2>4
    <3> QED
      BY <3>1 DEF FrameInv, FrameNest
  <2> QED
    BY <2>7, <2>8, <2>9 DEF FrameInv
<1>9. CASE UNCHANGED vars
  BY <1>9, FrameKept DEF vars
<1> QED
  BY <1>1, <1>2, <1>3, <1>4, <1>5, <1>6, <1>7, <1>8, <1>9 DEF Next, InCall, Finished

(* ------------------------ Owners and the order ------------------------- *)

\* A handler that is called or returns leaves its thread inside the same
\* invocations.
LEMMA SameEvents ==
    ASSUME TypeOK, NEW t \in Threads, HandlerCalled(t) \/ HandlerReturns(t)
    PROVE  /\ \A u \in Threads : Len(frames'[u]) = Len(frames[u])
           /\ \A u \in Threads : \A i \in 1..Len(frames[u]) :
                 frames'[u][i].event = frames[u][i].event
<1> DEFINE f == Top(t)
<1>1. frames[t] # <<>> /\ f \in Frame /\ f = frames[t][Len(frames[t])]
  BY TopFacts DEF HandlerCalled, HandlerReturns, Iterating
<1>2. PICK g \in Frame : SetTop(t, g) /\ g.event = f.event
  <2>1. CASE SetTop(t, [f EXCEPT !.next = @ + 1])
    <3>1. /\ [f EXCEPT !.next = @ + 1] \in Frame
          /\ [f EXCEPT !.next = @ + 1].event = f.event
      BY <1>1, FrameFacts DEF Frame
    <3> QED
      BY <2>1, <3>1
  <2>2. CASE SetTop(t, [f EXCEPT !.running = TRUE])
    <3>1. /\ [f EXCEPT !.running = TRUE] \in Frame
          /\ [f EXCEPT !.running = TRUE].event = f.event
      BY <1>1, FrameFacts DEF Frame
    <3> QED
      BY <2>2, <3>1
  <2>3. CASE SetTop(t, [f EXCEPT !.running = FALSE, !.next = @ + 1])
    <3>1. /\ [f EXCEPT !.running = FALSE, !.next = @ + 1] \in Frame
          /\ [f EXCEPT !.running = FALSE, !.next = @ + 1].event = f.event
      BY <1>1, FrameFacts DEF Frame
    <3> QED
      BY <2>3, <3>1
  <2> QED
    BY <2>1, <2>2, <2>3 DEF HandlerCalled, HandlerReturns
<1> HIDE DEF f
<1>3. /\ \A u \in Threads : Len(frames'[u]) = Len(frames[u])
      /\ \A u \in Threads : \A i \in 1..Len(frames[u]) :
            frames'[u][i] = IF u = t /\ i = Len(frames[t]) THEN g ELSE frames[u][i]
  BY <1>1, <1>2, SetTopFacts
<1> QED
  BY <1>1, <1>2, <1>3

\* No step leaves a mutex owned that nothing will release.
LEMMA OwnerStep == TypeOK /\ CallInv /\ FrameInv /\ OwnerInv /\ [Next]_vars => OwnerInv'
<1> SUFFICES ASSUME TypeOK, CallInv, FrameInv, OwnerInv, [Next]_vars PROVE OwnerInv'
  OBVIOUS
<1> USE EventAssumption
<1>1. ASSUME NEW t \in Threads,
             \/ Begin(t) \/ Subscribe(t) \/ Unsubscribe(t) \/ Count(t)
             \/ Construct(t) \/ AssignSelf(t)
      PROVE  OwnerInv'
  <2>1. ~locked[t]
    BY <1>1, NotLocked DEF Begin, Subscribe, Unsubscribe, Count, Construct, AssignSelf, Plain
  <2>2. owner' = owner /\ locked' = locked /\ frames' = frames
    BY <1>1 DEF Begin, Subscribe, Unsubscribe, Count, Construct, AssignSelf
  <2>3. \A u \in Threads : u # t => pending'[u] = pending[u]
    BY <1>1 DEF Begin, Subscribe, Unsubscribe, Count, Construct, AssignSelf, Return, Make, TypeOK
  <2> QED
    BY <2>1, <2>2, <2>3 DEF OwnerInv, Inside
<1>2. ASSUME NEW t \in Threads, AssignLocks(t) PROVE OwnerInv'
  <2>1. pending[t].on \in Events /\ owner[pending[t].on] = NoThread
    BY <1>2, TouchesFacts DEF TypeOK, AssignLocks
  <2>2. /\ owner'[pending[t].on] = t /\ locked'[t]
        /\ \A e \in Events : e # pending[t].on => owner'[e] = owner[e]
        /\ \A u \in Threads : u # t => locked'[u] = locked[u]
        /\ pending' = pending /\ frames' = frames
    BY <1>2, <2>1 DEF TypeOK, AssignLocks
  <2>3. \A u \in Threads : locked[u] => pending[u].on \in Events
    BY TouchesFacts DEF CallInv, TypeOK
  <2>4. ~locked[t]
    BY <1>2 DEF AssignLocks
  <2> QED
    BY <2>1, <2>2, <2>3, <2>4 DEF OwnerInv, Inside
<1>3. ASSUME NEW t \in Threads, AssignCopies(t) PROVE OwnerInv'
  <2>1. pending[t].on \in Events /\ owner[pending[t].on] = t
    BY <1>3, TouchesFacts DEF TypeOK, AssignCopies, CallInv, OwnerInv
  <2>2. /\ owner'[pending[t].on] = NoThread /\ ~locked'[t]
        /\ \A e \in Events : e # pending[t].on => owner'[e] = owner[e]
        /\ \A u \in Threads : u # t => locked'[u] = locked[u]
        /\ frames' = frames
    BY <1>3, <2>1 DEF TypeOK, AssignCopies
  <2>3. \A u \in Threads : u # t => pending'[u] = pending[u]
    BY <1>3, ReturnFacts DEF AssignCopies
  <2>4. \A u \in Threads : locked[u] => pending[u].on \in Events
    BY TouchesFacts DEF CallInv, TypeOK
  <2> QED
    BY <2>1, <2>2, <2>3, <2>4 DEF OwnerInv, Inside
<1>4. ASSUME NEW t \in Threads, InvokeEnters(t) PROVE OwnerInv'
  <2>1. pending[t].on \in Events /\ ~locked[t]
    BY <1>4, TouchesFacts, NotLocked DEF TypeOK, InvokeEnters, Plain
  <2>2. PICK e \in Events : e = pending[t].on
    BY <2>1
  <2>3. PICK f : f = [event |-> e, next |-> 1, running |-> FALSE, seen |-> handlers[e]]
    OBVIOUS
  <2>4. /\ owner[e] = NoThread /\ owner'[e] = t
        /\ \A d \in Events : d # e => owner'[d] = owner[d]
        /\ locked' = locked
        /\ frames'[t] = Append(frames[t], f)
        /\ \A u \in Threads : u # t => frames'[u] = frames[u]
    BY <1>4, <2>2, <2>3 DEF InvokeEnters, TypeOK
  <2>5. \A u \in Threads : u # t => pending'[u] = pending[u]
    BY <1>4, ReturnFacts DEF InvokeEnters
  <2>6. f \in Frame /\ f.event = e
    BY <2>2, <2>3 DEF TypeOK, Frame
  <2>7. PICK n \in Nat : n = Len(frames[t])
    BY FrameTypes
  <2>9. /\ Len(frames'[t]) = n + 1 /\ frames'[t][n + 1] = f
        /\ \A i \in 1..n : frames'[t][i] = frames[t][i]
    BY <2>4, <2>6, <2>7, FrameTypes, AppendProperties
  <2>12. \A d : Inside(t, d) \/ d = e => Inside(t, d)'
    <3>1. \A i \in 1..n : i \in 1..n + 1 /\ n + 1 \in 1..n + 1
      BY <2>7
    <3>2. n + 1 \in 1..n + 1
      BY <2>7
    <3> QED
      BY <2>6, <2>7, <2>9, <3>1, <3>2 DEF Inside
  <2>8. \A u \in Threads : locked[u] => pending[u].on \in Events /\ pending[u].on # e
    BY <2>4, TouchesFacts DEF CallInv, TypeOK, OwnerInv
  <2>13. \A u \in Threads : u # t => \A d : Inside(u, d) => Inside(u, d)'
    BY <2>4 DEF Inside
  <2>10. ASSUME NEW u \in Threads, NEW d \in Events, owner'[d] = u
         PROVE  Inside(u, d)' \/ (locked'[u] /\ pending'[u].on = d)
    <3>1. CASE d = e
      BY <2>4, <2>12, <2>10, <3>1
    <3>2. CASE d # e
      <4>1. Inside(u, d) \/ (locked[u] /\ pending[u].on = d)
        BY <2>4, <2>10, <3>2 DEF OwnerInv
      <4> QED
        BY <2>1, <2>4, <2>5, <2>12, <2>13, <4>1
    <3> QED
      BY <3>1, <3>2
  <2>11. ASSUME NEW u \in Threads, locked'[u] PROVE owner'[pending'[u].on] = u
    BY <2>1, <2>4, <2>5, <2>8, <2>11 DEF OwnerInv
  <2> QED
    BY <2>10, <2>11 DEF OwnerInv
<1>5. ASSUME NEW t \in Threads, HandlerCalled(t) \/ HandlerReturns(t) PROVE OwnerInv'
  <2>1. ~locked[t] /\ owner' = owner /\ locked' = locked
    BY <1>5, NotLocked DEF HandlerCalled, HandlerReturns, Iterating
  <2>2. \A u \in Threads : u # t => pending'[u] = pending[u]
    BY <1>5, CalledFacts DEF HandlerReturns
  <2>3. \A u \in Threads : \A e : Inside(u, e) => Inside(u, e)'
    BY <1>5, SameEvents DEF Inside
  <2>4. \A u \in Threads : \A e \in Events :
           owner'[e] = u => Inside(u, e) \/ (locked[u] /\ pending[u].on = e)
    BY <2>1 DEF OwnerInv
  <2>5. \A u \in Threads : \A e \in Events :
           owner'[e] = u => Inside(u, e)' \/ (locked'[u] /\ pending'[u].on = e)
    BY <2>1, <2>2, <2>3, <2>4
  <2>6. \A u \in Threads : locked'[u] => owner'[pending'[u].on] = u
    BY <2>1, <2>2 DEF OwnerInv
  <2> QED
    BY <2>5, <2>6 DEF OwnerInv
<1>6. ASSUME NEW t \in Threads, InvokeReturns(t) PROVE OwnerInv'
  <2> DEFINE n == Len(frames[t])
             e == frames[t][n].event
  <2>1. frames[t] \in Seq(Frame) /\ frames[t] # <<>> /\ n \in Nat \ {0} /\ Top(t) = frames[t][n]
        /\ e \in Events
    BY <1>6, FrameTypes, TopFacts DEF InvokeReturns, Iterating
  <2>2. /\ frames'[t] = Front(frames[t])
        /\ \A u \in Threads : u # t => frames'[u] = frames[u]
        /\ \A d \in Events : d # e => owner'[d] = owner[d]
        /\ owner'[e] = NoThread
        /\ locked' = locked /\ pending' = pending
    BY <1>6, <2>1 DEF InvokeReturns, TypeOK
  <2>3. ~locked[t]
    BY <1>6, NotLocked DEF InvokeReturns, Iterating
  <2>4. Len(frames'[t]) = n - 1 /\ \A i \in 1..n - 1 : frames'[t][i] = frames[t][i]
    BY <2>1, <2>2, FrontFacts
  <2>5. \A d : Inside(t, d) /\ d # e => Inside(t, d)'
    BY <2>1, <2>4 DEF Inside
  <2>6. \A u \in Threads : u # t => \A d : Inside(u, d) => Inside(u, d)'
    BY <2>2 DEF Inside
  <2> HIDE DEF e, n
  <2>7. \A u \in Threads : \A d \in Events :
           owner'[d] = u => d # e /\ (Inside(u, d) \/ (locked[u] /\ pending[u].on = d))
    BY <2>2 DEF OwnerInv
  <2>8. \A u \in Threads : \A d \in Events :
           owner'[d] = u => Inside(u, d)' \/ (locked'[u] /\ pending'[u].on = d)
    BY <2>2, <2>5, <2>6, <2>7
  <2>9. \A u \in Threads : locked[u] => pending[u].on \in Events /\ pending[u].on # e
    <3>1. owner[e] = t
      BY <2>1 DEF FrameInv, FrameHeld, e, n
    <3> QED
      BY <2>3, <3>1, TouchesFacts DEF CallInv, TypeOK, OwnerInv
  <2>10. \A u \in Threads : locked'[u] => owner'[pending'[u].on] = u
    BY <2>2, <2>9 DEF OwnerInv
  <2> QED
    BY <2>8, <2>10 DEF OwnerInv
<1>7. CASE UNCHANGED vars
  BY <1>7 DEF vars, OwnerInv, Inside
<1> QED
  BY <1>1, <1>2, <1>3, <1>4, <1>5, <1>6, <1>7 DEF Next, InCall, Finished

\* What is above an event is above those of lower rank.
LEMMA AboveMono ==
    ASSUME NEW h \in Handlers, NEW a \in Events, NEW b \in Events,
           Rank[a] < Rank[b], Above(h, Rank[b])
    PROVE  Above(h, Rank[a])
<1>1. Rank[a] \in Nat /\ Rank[b] \in Nat /\ Body[h] \in Call \cup {NoCall}
  BY EventAssumption
<1>2. Touches(Body[h]) \subseteq Events
  BY <1>1, TouchesFacts
<1>3. ASSUME NEW e \in Touches(Body[h]) PROVE Rank[a] < Rank[e]
  <2>1. Rank[e] \in Nat
    BY <1>2, EventAssumption
  <2>2. Rank[b] < Rank[e]
    BY DEF Above
  <2> QED
    BY <1>1, <2>1, <2>2
<1> QED
  BY <1>3 DEF Above

\* No step makes a call below the invocations its thread is inside.
LEMMA PendingStep == TypeOK /\ FrameInv /\ PendingInv /\ HandlersInv /\ [Next]_vars => PendingInv'
<1> SUFFICES ASSUME TypeOK, FrameInv, PendingInv, HandlersInv, [Next]_vars PROVE PendingInv'
  OBVIOUS
<1> USE EventAssumption, OrderAssumption
<1>0. Touches(NoCall) = {} /\ Ordered(NoCall)
  BY TouchesFacts DEF Ordered, NoCall, Constructs, Assigns
<1>1. ASSUME NEW t \in Threads, Begin(t) PROVE PendingInv'
  <2>1. PICK c \in ClientCalls : Make(t, c)
    BY <1>1 DEF Begin
  <2>2. pending'[t] = c /\ \A u \in Threads : u # t => pending'[u] = pending[u]
    BY <2>1, MakeFacts
  <2>3. frames' = frames /\ Len(frames[t]) = 0
    BY <1>1, EmptySeq DEF Begin
  <2> QED
    BY <2>2, <2>3 DEF PendingInv
<1>2. ASSUME NEW t \in Threads,
             \/ Subscribe(t) \/ Unsubscribe(t) \/ Count(t)
             \/ Construct(t) \/ AssignSelf(t) \/ AssignCopies(t)
      PROVE  PendingInv'
  <2>1. Return(t) /\ frames' = frames
    BY <1>2 DEF Subscribe, Unsubscribe, Count, Construct, AssignSelf, AssignCopies
  <2>2. pending'[t] = NoCall /\ \A u \in Threads : u # t => pending'[u] = pending[u]
    BY <2>1, ReturnFacts
  <2> QED
    BY <1>0, <2>1, <2>2 DEF PendingInv
<1>3. ASSUME NEW t \in Threads, AssignLocks(t) PROVE PendingInv'
  BY <1>3 DEF AssignLocks, PendingInv
<1>4. ASSUME NEW t \in Threads, InvokeEnters(t) PROVE PendingInv'
  <2>1. pending'[t] = NoCall /\ \A u \in Threads : u # t => pending'[u] = pending[u]
    BY <1>4, ReturnFacts DEF InvokeEnters
  <2>2. \A u \in Threads : u # t => frames'[u] = frames[u]
    BY <1>4 DEF InvokeEnters, TypeOK
  <2> QED
    BY <1>0, <2>1, <2>2 DEF PendingInv
<1>5. ASSUME NEW t \in Threads, HandlerCalled(t) PROVE PendingInv'
  <2> DEFINE n == Len(frames[t])
             e == frames[t][n].event
             h == handlers[Top(t).event][Top(t).next]
  <2>1. /\ e \in Events /\ e = Top(t).event /\ n \in Nat \ {0} /\ Rank[e] \in Nat
        /\ h \in Handlers /\ Above(h, Rank[e])
    BY <1>5, TopFacts, CalledFacts DEF HandlersInv
  <2>2. \A i \in 1..n : Rank[frames[t][i].event] <= Rank[e]
    <3> TAKE i \in 1..n
    <3>1. CASE i = n
      BY <2>1, <3>1
    <3>2. CASE i < n
      <4>1. Rank[frames[t][i].event] < Rank[e]
        BY <2>1, <3>2 DEF FrameInv, FrameNest
      <4> QED
        BY <2>1, <4>1, FrameTypes
    <3> QED
      BY <2>1, <3>1, <3>2
  <2>3. /\ \A u \in Threads : u # t => pending'[u] = pending[u]
        /\ pending'[t] = NoCall \/ (pending'[t] = Body[h] /\ Body[h] # NoCall)
    BY <1>5, CalledFacts
  <2>4. /\ \A u \in Threads : Len(frames'[u]) = Len(frames[u])
        /\ \A u \in Threads : \A i \in 1..Len(frames[u]) :
              frames'[u][i].event = frames[u][i].event
    BY <1>5, SameEvents
  <2>5. Ordered(pending'[t])
    BY <1>0, <2>1, <2>3
  <2>6. \A d \in Touches(pending'[t]) : d \in Events /\ Rank[e] < Rank[d]
    BY <1>0, <2>1, <2>3, TouchesFacts DEF Above
  <2> HIDE DEF e, h, n
  <2>7. \A i \in 1..n : Rank[frames[t][i].event] \in Nat
    BY FrameTypes DEF n
  <2>8. \A i \in 1..n : \A d \in Touches(pending'[t]) : Rank[frames[t][i].event] < Rank[d]
    BY <2>1, <2>2, <2>6, <2>7
  <2>9. \A i \in 1..Len(frames'[t]) : \A d \in Touches(pending'[t]) :
           Rank[frames'[t][i].event] < Rank[d]
    BY <2>4, <2>8 DEF n
  <2> QED
    <3> SUFFICES ASSUME NEW u \in Threads
                 PROVE  /\ Ordered(pending'[u])
                        /\ \A i \in 1..Len(frames'[u]) : \A d \in Touches(pending'[u]) :
                              Rank[frames'[u][i].event] < Rank[d]
      BY DEF PendingInv
    <3>1. CASE u = t
      BY <2>5, <2>9, <3>1
    <3>2. CASE u # t
      BY <2>3, <2>4, <3>2 DEF PendingInv
    <3> QED
      BY <3>1, <3>2
<1>6. ASSUME NEW t \in Threads, HandlerReturns(t) PROVE PendingInv'
  <2>1. /\ \A u \in Threads : Len(frames'[u]) = Len(frames[u])
        /\ \A u \in Threads : \A i \in 1..Len(frames[u]) :
              frames'[u][i].event = frames[u][i].event
        /\ pending' = pending
    BY <1>6, SameEvents DEF HandlerReturns
  <2> QED
    BY <2>1 DEF PendingInv
<1>7. ASSUME NEW t \in Threads, InvokeReturns(t) PROVE PendingInv'
  <2>1. /\ pending' = pending /\ pending[t] = NoCall
        /\ \A u \in Threads : u # t => frames'[u] = frames[u]
    BY <1>7 DEF InvokeReturns, Iterating, TypeOK
  <2> QED
    BY <1>0, <2>1 DEF PendingInv
<1>8. CASE UNCHANGED vars
  BY <1>8 DEF vars, PendingInv
<1> QED
  BY <1>1, <1>2, <1>3, <1>4, <1>5, <1>6, <1>7, <1>8 DEF Next, InCall, Finished

\* No step gives an event a handler that uses events below it.
LEMMA HandlersStep == TypeOK /\ CallInv /\ PendingInv /\ HandlersInv /\ [Next]_vars => HandlersInv'
<1> SUFFICES ASSUME TypeOK, CallInv, PendingInv, HandlersInv, [Next]_vars PROVE HandlersInv'
  OBVIOUS
<1> USE EventAssumption
<1>0. \A e \in Events : /\ handlers[e] \in Seq(Handlers) /\ Len(handlers[e]) \in Nat
                        /\ \A k \in 1..Len(handlers[e]) : handlers[e][k] \in Handlers
  BY LenProperties, ElementOfSeq DEF TypeOK
<1>1. ASSUME NEW t \in Threads, Subscribe(t) PROVE HandlersInv'
  <2>1. pending[t].on \in Events /\ pending[t].arg \in Handlers
    BY <1>1, TouchesFacts DEF TypeOK, Subscribe, Plain
  <2>2. PICK a \in Events, h \in Handlers : a = pending[t].on /\ h = pending[t].arg
    BY <2>1
  <2>3. /\ handlers'[a] = Append(handlers[a], h)
        /\ \A e \in Events : e # a => handlers'[e] = handlers[e]
    BY <1>1, <2>2 DEF Subscribe, TypeOK
  <2>4. Above(h, Rank[a])
    BY <1>1, <2>2 DEF Subscribe, PendingInv, Ordered
  <2>5. \A k \in 1..Len(handlers'[a]) :
           \/ k \in 1..Len(handlers[a]) /\ handlers'[a][k] = handlers[a][k]
           \/ handlers'[a][k] = h
    BY <1>0, <2>3, AppendProperties
  <2> QED
    BY <2>3, <2>4, <2>5 DEF HandlersInv
<1>2. ASSUME NEW t \in Threads, Unsubscribe(t) PROVE HandlersInv'
  <2>1. pending[t].on \in Events /\ pending[t].arg \in Handlers
    BY <1>2, TouchesFacts DEF TypeOK, Unsubscribe, Plain
  <2>2. ticket[pending[t].arg] \in Nat
    BY <1>2, <2>1 DEF TypeOK, CallInv, Unsubscribe, NoTicket
  <2>3. PICK a \in Events, id \in Nat : a = pending[t].on /\ id = ticket[pending[t].arg]
    BY <2>1, <2>2
  <2>4. CASE id < Len(handlers[a])
    <3>1. id + 1 \in 1..Len(handlers[a])
      BY <1>0, <2>4
    <3>2. /\ handlers'[a] = RemoveAt(handlers[a], id + 1)
          /\ \A e \in Events : e # a => handlers'[e] = handlers[e]
      BY <1>2, <2>3, <2>4 DEF Unsubscribe, TypeOK
    <3>3. \A k \in 1..Len(handlers'[a]) :
             \E j \in 1..Len(handlers[a]) : handlers'[a][k] = handlers[a][j]
      <4> DEFINE s == handlers[a]
      <4>1. s \in Seq(Handlers) /\ id + 1 \in 1..Len(s)
        BY <1>0, <3>1
      <4> HIDE DEF s
      <4>2. \A k \in 1..Len(RemoveAt(s, id + 1)) :
               \E j \in 1..Len(s) : RemoveAt(s, id + 1)[k] = s[j]
        BY <4>1, RemoveFacts
      <4> QED
        BY <3>2, <4>2 DEF s
    <3> SUFFICES ASSUME NEW e \in Events, NEW k \in 1..Len(handlers'[e])
                 PROVE  Above(handlers'[e][k], Rank[e])
      BY DEF HandlersInv
    <3>4. CASE e = a
      <4>1. PICK j \in 1..Len(handlers[a]) : handlers'[a][k] = handlers[a][j]
        BY <3>3, <3>4
      <4>2. Above(handlers[a][j], Rank[a])
        BY <4>1 DEF HandlersInv
      <4> QED
        BY <3>4, <4>1, <4>2
    <3>5. CASE e # a
      BY <3>2, <3>5 DEF HandlersInv
    <3> QED
      BY <3>4, <3>5
  <2>5. CASE ~(id < Len(handlers[a]))
    BY <1>2, <2>3, <2>5 DEF Unsubscribe, HandlersInv
  <2> QED
    BY <2>4, <2>5
<1>3. ASSUME NEW t \in Threads, Construct(t) \/ AssignCopies(t) PROVE HandlersInv'
  <2>1. pending[t].on \in Events /\ pending[t].arg \in Events
    BY <1>3, TouchesFacts DEF TypeOK, Construct, AssignCopies, CallInv
  <2>2. PICK a \in Events, b \in Events : a = pending[t].on /\ b = pending[t].arg
    BY <2>1
  <2>3. a = b \/ Rank[a] < Rank[b]
    BY <1>3, <2>2 DEF Construct, AssignCopies, CallInv, PendingInv, Ordered
  <2>4. /\ a # b => handlers'[a] = handlers[b]
        /\ handlers'[b] = handlers[b] \/ handlers'[b] = <<>>
        /\ \A e \in Events : e # a /\ e # b => handlers'[e] = handlers[e]
    BY <1>3, <2>2 DEF Construct, AssignCopies, TypeOK
  <2>5. \A k \in 1..Len(handlers[b]) : Above(handlers[b][k], Rank[b])
    BY DEF HandlersInv
  <2>6. a # b => \A k \in 1..Len(handlers[b]) : Above(handlers[b][k], Rank[a])
    BY <1>0, <2>3, <2>5, AboveMono
  <2>7. \A k \in 1..Len(handlers'[b]) : Above(handlers'[b][k], Rank[b])
    BY <2>4, <2>5, EmptySeq
  <2>8. \A k \in 1..Len(handlers'[a]) : Above(handlers'[a][k], Rank[a])
    BY <2>4, <2>6, <2>7
  <2> QED
    BY <2>4, <2>7, <2>8 DEF HandlersInv
<1>4. ASSUME NEW t \in Threads,
             \/ Begin(t) \/ Count(t) \/ AssignSelf(t) \/ AssignLocks(t) \/ InvokeEnters(t)
             \/ HandlerCalled(t) \/ HandlerReturns(t) \/ InvokeReturns(t)
      PROVE  HandlersInv'
  BY <1>4 DEF HandlersInv, Begin, Count, AssignSelf, AssignLocks, InvokeEnters, HandlerCalled,
              HandlerReturns, InvokeReturns
<1>5. CASE UNCHANGED vars
  BY <1>5 DEF vars, HandlersInv
<1> QED
  BY <1>1, <1>2, <1>3, <1>4, <1>5 DEF Next, InCall, Finished

\* No step uses an object under construction.
LEMMA BornStep == TypeOK /\ CallInv /\ OwnerInv /\ BornInv /\ [Next]_vars => BornInv'
<1> SUFFICES ASSUME TypeOK, CallInv, OwnerInv, BornInv, [Next]_vars PROVE BornInv'
  OBVIOUS
<1> USE EventAssumption
<1>0. Touches(NoCall) = {} /\ NoCall.op \notin Constructs
  BY TouchesFacts DEF NoCall, Constructs
\* A call that begins, if it is legal, shares its target with none under way.
<1>1. ASSUME NEW t \in Threads, born' = born, owner' = owner, spent \subseteq spent',
             \A u \in Threads : u # t => pending'[u] = pending[u],
             \/ pending'[t] = NoCall
             \/ Legal(pending'[t]) /\ (pending'[t].op \in Constructs => pending'[t] \in spent')
      PROVE  BornInv'
  <2> DEFINE c == pending'[t]
  <2>1. /\ Touches(c) \subseteq born
        /\ c.op \in Constructs => /\ c.on \notin born /\ c \in spent'
                                  /\ \A d \in spent : d.op \in Constructs => d.on # c.on
    BY <1>0, <1>1 DEF Legal
  <2> HIDE DEF c
  <2>2. pending'[t] = c /\ \A u \in Threads : u # t => pending'[u] = pending[u]
    BY <1>1 DEF c
  <2>3. \A u \in Threads : u # t /\ pending[u].op \in Constructs /\ c.op \in Constructs =>
           pending[u].on # c.on
    BY <2>1 DEF BornInv
  <2>4. \A u \in Threads : pending[u].op \in Constructs => pending[u] \in spent'
    BY <1>1 DEF BornInv
  <2> QED
    BY <1>1, <2>1, <2>2, <2>3, <2>4 DEF BornInv
<1>2. ASSUME NEW t \in Threads, Begin(t) PROVE BornInv'
  <2>1. PICK c \in ClientCalls : Legal(c) /\ Make(t, c)
    BY <1>2 DEF Begin
  <2>2. pending'[t] = c /\ \A u \in Threads : u # t => pending'[u] = pending[u]
    BY <2>1, MakeFacts
  <2>3. born' = born /\ owner' = owner
    BY <1>2 DEF Begin
  <2>4. spent \subseteq spent' /\ (c.op \in Constructs => c \in spent')
    BY <2>1, MakeFacts
  <2> QED
    BY <1>1, <2>1, <2>2, <2>3, <2>4
<1>3. ASSUME NEW t \in Threads, HandlerCalled(t) PROVE BornInv'
  <2>1. /\ \A u \in Threads : u # t => pending'[u] = pending[u]
        /\ spent \subseteq spent'
        /\ \/ pending'[t] = NoCall
           \/ Legal(pending'[t]) /\ (pending'[t].op \in Constructs => pending'[t] \in spent')
    BY <1>3, CalledFacts, Zenon
  <2>2. born' = born /\ owner' = owner
    BY <1>3 DEF HandlerCalled
  <2> QED
    BY <1>1, <2>1, <2>2
\* A call that takes effect leaves fewer calls under way.
<1>4. ASSUME NEW t \in Threads, Return(t), born \subseteq born', spent' = spent,
             \A e \in Events : owner'[e] # NoThread => e \in born',
             \A e \in born' : e \in born \/ (pending[t].op \in Constructs /\ e = pending[t].on)
      PROVE  BornInv'
  <2>1. pending'[t] = NoCall /\ \A u \in Threads : u # t => pending'[u] = pending[u]
    BY <1>4, ReturnFacts
  <2>2. \A u \in Threads : u # t /\ pending[u].op \in Constructs => pending[u].on \notin born'
    BY <1>4 DEF BornInv
  <2>3. \A u \in Threads : u # t => Touches(pending[u]) \subseteq born'
    BY <1>4 DEF BornInv
  <2>4. \A u \in Threads : pending'[u].op \in Constructs => u # t /\ pending'[u] = pending[u]
    BY <1>0, <2>1
  <2>5. \A u \in Threads : Touches(pending'[u]) \subseteq born'
    BY <1>0, <2>1, <2>3
  <2> QED
    BY <1>4, <2>2, <2>4, <2>5 DEF BornInv
<1>5. ASSUME NEW t \in Threads,
             Subscribe(t) \/ Unsubscribe(t) \/ Count(t) \/ AssignSelf(t)
      PROVE  BornInv'
  <2>1. Return(t) /\ born' = born /\ owner' = owner /\ spent' = spent
    BY <1>5 DEF Subscribe, Unsubscribe, Count, AssignSelf
  <2> QED
    BY <1>4, <2>1 DEF BornInv
<1>6. ASSUME NEW t \in Threads, Construct(t) PROVE BornInv'
  <2>1. /\ Return(t) /\ born' = born \cup {pending[t].on} /\ owner' = owner /\ spent' = spent
        /\ pending[t].op \in Constructs
    BY <1>6 DEF Construct
  <2> QED
    BY <1>4, <2>1 DEF BornInv
<1>7. ASSUME NEW t \in Threads, AssignLocks(t) PROVE BornInv'
  <2>1. pending[t].on \in Touches(pending[t])
    BY <1>7, TouchesFacts DEF TypeOK, AssignLocks
  <2>2. \A e \in Events : owner'[e] # NoThread => owner[e] # NoThread \/ e = pending[t].on
    BY <1>7 DEF TypeOK, AssignLocks
  <2>3. born' = born /\ spent' = spent /\ pending' = pending
    BY <1>7 DEF AssignLocks
  <2>4. \A e \in Events : owner'[e] # NoThread => e \in born
    BY <2>1, <2>2 DEF BornInv
  <2> QED
    BY <2>3, <2>4 DEF BornInv
<1>8. ASSUME NEW t \in Threads, AssignCopies(t) PROVE BornInv'
  <2>1. /\ Return(t) /\ born' = born /\ spent' = spent
        /\ \A e \in Events : owner'[e] # NoThread => owner[e] # NoThread
    BY <1>8 DEF TypeOK, AssignCopies
  <2> QED
    BY <1>4, <2>1 DEF BornInv
<1>9. ASSUME NEW t \in Threads, InvokeEnters(t) PROVE BornInv'
  <2>1. pending[t].on \in Touches(pending[t])
    BY <1>9, TouchesFacts DEF TypeOK, InvokeEnters, Plain
  <2>2. /\ Return(t) /\ born' = born /\ spent' = spent
        /\ \A e \in Events : owner'[e] # NoThread => owner[e] # NoThread \/ e = pending[t].on
    BY <1>9 DEF TypeOK, InvokeEnters
  <2>3. \A e \in Events : owner'[e] # NoThread => e \in born
    BY <2>1, <2>2 DEF BornInv
  <2> QED
    BY <1>4, <2>2, <2>3
<1>10. ASSUME NEW t \in Threads, HandlerReturns(t) PROVE BornInv'
  BY <1>10 DEF HandlerReturns, BornInv
<1>11. ASSUME NEW t \in Threads, InvokeReturns(t) PROVE BornInv'
  <2>1. /\ born' = born /\ spent' = spent /\ pending' = pending
        /\ \A e \in Events : owner'[e] # NoThread => owner[e] # NoThread
    BY <1>11 DEF InvokeReturns, TypeOK
  <2> QED
    BY <2>1 DEF BornInv
<1>12. CASE UNCHANGED vars
  BY <1>12 DEF vars, BornInv
<1> QED
  BY <1>2, <1>3, <1>5, <1>6, <1>7, <1>8, <1>9, <1>10, <1>11, <1>12 DEF Next, InCall, Finished

(* ------------------------------- Results ------------------------------- *)

\* Nothing is subscribed, owned, called or constructed at first.
LEMMA InvInit == Init => Inv
<1> SUFFICES ASSUME Init PROVE Inv
  OBVIOUS
<1> USE EventAssumption
<1>1. TypeOK /\ CallInv
  BY TypeInit
<1>2. \A t \in Threads : Len(frames[t]) = 0 /\ pending[t] = NoCall /\ locked[t] = FALSE
  BY EmptySeq DEF Init
<1>3. FrameInv
  BY <1>2 DEF FrameInv, FrameHeld, FrameNext, FrameNest
<1>4. OwnerInv
  BY <1>2 DEF Init, OwnerInv
<1>5. Touches(NoCall) = {} /\ Ordered(NoCall) /\ NoCall.op \notin Constructs
  BY TouchesFacts DEF Ordered, NoCall, Constructs, Assigns
<1>6. PendingInv
  BY <1>2, <1>5 DEF PendingInv
<1>7. HandlersInv
  BY EmptySeq DEF Init, HandlersInv
<1>8. BornInv
  BY <1>2, <1>5 DEF Init, BornInv
<1> QED
  BY <1>1, <1>3, <1>4, <1>6, <1>7, <1>8 DEF Inv

\* Every step keeps the invariant.
LEMMA InvStep == Inv /\ [Next]_vars => Inv'
BY TypeStep, CallStep, FrameStep, OwnerStep, PendingStep, HandlersStep, BornStep DEF Inv

\* Inv holds in every reachable state.
THEOREM Invariance == Spec => []Inv
BY InvInit, InvStep, PTL DEF Spec

\* The objects, the threads and the notes keep to their types.
THEOREM TypeCorrect == Spec => []TypeOK
<1>1. Inv => TypeOK
  BY DEF Inv
<1> QED
  BY <1>1, Invariance, PTL

\* No invocation ever sees its vector change, however calls, handlers and
\* assignments of other threads interleave with it.
THEOREM IterationIsSafe == Spec => []InvocationIsStable
<1>1. Inv => InvocationIsStable
  <2> SUFFICES ASSUME TypeOK, FrameInv, NEW t \in Threads, NEW i \in DOMAIN frames[t]
               PROVE  /\ frames[t][i].seen = handlers[frames[t][i].event]
                      /\ frames[t][i].next \in 1..Len(frames[t][i].seen) + 1
                      /\ frames[t][i].running => frames[t][i].next <= Len(frames[t][i].seen)
    BY DEF Inv, InvocationIsStable
  <2>1. i \in 1..Len(frames[t])
    BY FrameTypes, LenProperties
  <2>2. /\ frames[t][i].next \in Nat \ {0} /\ frames[t][i].event \in Events
        /\ frames[t][i].seen = handlers[frames[t][i].event]
    BY <2>1, FrameTypes DEF FrameInv, FrameHeld
  <2>3. Len(frames[t][i].seen) \in Nat
    BY <2>2, LenProperties DEF TypeOK
  <2> QED
    <3>1. frames[t][i].next <= Len(frames[t][i].seen) + 1
      BY <2>1 DEF FrameInv, FrameNext
    <3>2. frames[t][i].running => frames[t][i].next <= Len(frames[t][i].seen)
      BY <2>1 DEF FrameInv, FrameNext
    <3>3. frames[t][i].next \in 1..Len(frames[t][i].seen) + 1
      BY <2>2, <2>3, <3>1
    <3> QED
      BY <2>2, <3>2, <3>3, Zenon
<1> QED
  BY <1>1, Invariance, PTL

\* No two invocations of one event are under way at once, whichever threads
\* and handlers began them.
THEOREM HandlersRunOneAtATime == Spec => []InvocationsExclude
<1>1. Inv => InvocationsExclude
  <2> SUFFICES ASSUME TypeOK, FrameInv, NEW t \in Threads, NEW u \in Threads,
                      NEW i \in DOMAIN frames[t], NEW j \in DOMAIN frames[u],
                      frames[t][i].event = frames[u][j].event
               PROVE  t = u /\ i = j /\ owner[frames[t][i].event] = t
    BY DEF Inv, InvocationsExclude
  <2>1. i \in 1..Len(frames[t]) /\ j \in 1..Len(frames[u]) /\ i \in Nat /\ j \in Nat
    BY FrameTypes, LenProperties
  <2>2. owner[frames[t][i].event] = t /\ owner[frames[u][j].event] = u
    BY <2>1 DEF FrameInv, FrameHeld
  <2>3. t = u
    BY <2>2
  <2>4. ~(i < j) /\ ~(j < i)
    <3>1. Rank[frames[t][i].event] \in Nat
      BY <2>1, FrameTypes
    <3> QED
      BY <2>1, <2>3, <3>1 DEF FrameInv, FrameNest
  <2> QED
    BY <2>1, <2>2, <2>3, <2>4
<1> QED
  BY <1>1, Invariance, PTL

\* A thread waits above all it holds.
LEMMA WaitsAbove == Inv => LockOrder
<1> SUFFICES ASSUME TypeOK, CallInv, OwnerInv, PendingInv, NEW t \in Threads, NEW e \in Events,
                    NEW w \in Wants(t), owner[e] = t
             PROVE  Rank[e] < Rank[w]
  BY DEF Inv, LockOrder
<1>1. CASE locked[t]
  <2>1. pending[t].op \in Assigns /\ pending[t].on # pending[t].arg /\ w = pending[t].arg
    BY <1>1 DEF CallInv, Wants
  <2>2. w \in Touches(pending[t]) /\ Rank[pending[t].on] < Rank[w]
    <3>1. pending[t] \in Call \cup {NoCall}
      BY DEF TypeOK
    <3>2. w \in Touches(pending[t])
      BY <2>1, <3>1, TouchesFacts
    <3>3. Ordered(pending[t])
      BY DEF PendingInv
    <3> QED
      BY <2>1, <3>2, <3>3 DEF Ordered
  <2> QED
    BY <2>2 DEF OwnerInv, Inside, PendingInv
<1>2. CASE ~locked[t]
  <2>1. w \in Touches(pending[t])
    BY <1>2 DEF Wants
  <2> QED
    BY <1>2, <2>1 DEF OwnerInv, Inside, PendingInv
<1> QED
  BY <1>1, <1>2

\* Mutexes are taken in rank order: no circle of threads waiting for each
\* other can close, nor can a thread wait for itself.
THEOREM LocksFollowRank == Spec => []LockOrder
BY WaitsAbove, Invariance, PTL

(* ------------------------------- Progress ------------------------------ *)

\* The guards of the steps of InCall(t): the mutex the call needs next is free,
\* or the thread goes on with the handlers of an invocation.
Ready(t) ==
    LET c == pending[t] IN
    \/ c.op \in Plain /\ owner[c.on] = NoThread
    \/ c.op \in Constructs /\ owner[c.arg] = NoThread
    \/ c.op \in Assigns /\ c.on = c.arg
    \/ c.op \in Assigns /\ owner[IF locked[t] THEN c.arg ELSE c.on] = NoThread
    \/ Iterating(t)

\* Some thread that is in a call can go on.
CallsGoOn ==
    (\E t \in Threads : ~Idle(t)) => \E t \in Threads : ~Idle(t) /\ Ready(t)

\* Only a thread in a call owns a mutex.
LEMMA OwnersAreBusy ==
    ASSUME Inv, NEW e \in Events, owner[e] \in Threads
    PROVE  ~Idle(owner[e])
<1> DEFINE t == owner[e]
<1>1. CASE Inside(t, e)
  <2>1. Len(frames[t]) # 0
    BY <1>1, FrameTypes DEF Inv, Inside
  <2> QED
    BY <2>1, EmptySeq DEF Idle
<1>2. CASE locked[t]
  BY <1>2 DEF Inv, CallInv, Idle, NoCall, Assigns
<1> QED
  BY <1>1, <1>2 DEF Inv, OwnerInv

\* One that cannot go on waits for a mutex that is taken.
LEMMA BlockedFacts ==
    ASSUME Inv, NEW t \in Threads, ~Idle(t), ~Ready(t)
    PROVE  \E w \in Wants(t) : w \in Events /\ owner[w] \in Threads
<1> DEFINE c == pending[t]
<1>1. c \in Call /\ c \in Call \cup {NoCall}
  BY DEF Inv, TypeOK, Idle, Ready, Iterating
<1>2. \A e \in Events : owner[e] # NoThread => owner[e] \in Threads
  BY DEF Inv, TypeOK
<1>3. c.op \in Plain \cup Constructs \cup Assigns
  BY <1>1 DEF Call, Plain, Constructs, Assigns
<1>4. Plain \cap Assigns = {} /\ Constructs \cap Assigns = {}
  BY DEF Plain, Constructs, Assigns
<1>5. CASE c.op \in Plain
  <2>1. Wants(t) = {c.on} /\ c.on \in Events
    <3>1. ~locked[t] /\ c.op \notin Assigns
      BY <1>4, <1>5 DEF Inv, CallInv
    <3>2. Touches(c) = {c.on} /\ c.on \in Events
      BY <1>1, <1>5, TouchesFacts
    <3> QED
      BY <3>1, <3>2 DEF Wants
  <2> QED
    BY <1>2, <1>5, <2>1 DEF Ready
<1>6. CASE c.op \in Constructs
  <2>1. Wants(t) = {c.arg} /\ c.arg \in Events
    <3>1. ~locked[t] /\ c.op \notin Assigns
      BY <1>4, <1>6 DEF Inv, CallInv
    <3>2. Touches(c) = {c.arg} /\ c.arg \in Events
      BY <1>1, <1>6, TouchesFacts
    <3> QED
      BY <3>1, <3>2 DEF Wants
  <2> QED
    BY <1>2, <1>6, <2>1 DEF Ready
<1>7. CASE c.op \in Assigns
  <2>1. c.on # c.arg /\ owner[IF locked[t] THEN c.arg ELSE c.on] # NoThread
    BY <1>7 DEF Ready
  <2>2. Touches(c) = {c.on, c.arg} /\ c.on \in Events /\ c.arg \in Events
    BY <1>1, <1>7, <2>1, TouchesFacts
  <2>3. Wants(t) = IF locked[t] THEN {c.arg} ELSE {c.on}
    BY <1>7, <2>1, <2>2 DEF Wants
  <2> QED
    BY <1>2, <2>1, <2>2, <2>3
<1> QED
  BY <1>3, <1>5, <1>6, <1>7

\* Of the threads that wait, one waits for a mutex of the highest rank; its
\* owner would wait for a higher one.
LEMMA HighestGoesOn == Inv => CallsGoOn
<1> DEFINE Busy == {t \in Threads : ~Idle(t)}
<1> SUFFICES ASSUME Inv, Busy # {}, \A t \in Busy : ~Ready(t) PROVE FALSE
  BY DEF CallsGoOn
<1> DEFINE mutex(t) == CHOOSE w \in Wants(t) : w \in Events /\ owner[w] \in Threads
           higher(t) == {u \in Busy : Rank[mutex(t)] <= Rank[mutex(u)]}
           counts == {Cardinality(higher(t)) : t \in Busy}
<1>1. \A t \in Busy : /\ mutex(t) \in Wants(t) /\ mutex(t) \in Events
                      /\ owner[mutex(t)] \in Busy
  BY BlockedFacts, OwnersAreBusy
<1>2. \A t \in Busy : Rank[mutex(t)] \in Nat
  BY <1>1, EventAssumption
<1>3. \A t \in Busy : Rank[mutex(t)] < Rank[mutex(owner[mutex(t)])]
  BY <1>1, WaitsAbove DEF LockOrder
<1> HIDE DEF mutex
<1>4. \A t \in Busy : IsFiniteSet(higher(t))
  <2>1. IsFiniteSet(Threads)
    BY EventAssumption
  <2> QED
    BY <2>1, FS_Subset
<1>5. \A t \in Busy : Cardinality(higher(t)) \in Nat
  BY <1>4, FS_CardinalityType
<1>6. \A t \in Busy : Cardinality(higher(owner[mutex(t)])) < Cardinality(higher(t))
  <2> SUFFICES ASSUME NEW t \in Busy
               PROVE  Cardinality(higher(owner[mutex(t)])) < Cardinality(higher(t))
    OBVIOUS
  <2> DEFINE u == owner[mutex(t)]
  <2>1. u \in Busy
    BY <1>1
  <2>2. higher(u) \in SUBSET higher(t) /\ t \in higher(t) /\ t \notin higher(u)
    BY <1>2, <1>3, <2>1
  <2>3. /\ Cardinality(higher(u)) <= Cardinality(higher(t))
        /\ Cardinality(higher(t)) = Cardinality(higher(u)) => higher(t) = higher(u)
    BY <1>4, <2>2, FS_Subset
  <2>4. Cardinality(higher(u)) # Cardinality(higher(t))
    BY <2>2, <2>3
  <2>5. Cardinality(higher(u)) \in Nat /\ Cardinality(higher(t)) \in Nat
    BY <1>5, <2>1
  <2> HIDE DEF higher
  <2> QED
    BY <2>3, <2>4, <2>5
<1> HIDE DEF higher
<1>7. counts \subseteq Nat /\ counts # {}
  BY <1>5
<1>8. PICK x \in counts : \A y \in counts : ~(<<y, x>> \in OpToRel(<, Nat))
  BY <1>7, WFMin, NatLessThanWellFounded, Zenon
<1>9. \A y \in counts : ~(y < x)
  BY <1>7, <1>8 DEF OpToRel
<1>10. PICK t \in Busy : x = Cardinality(higher(t))
  OBVIOUS
<1>11. Cardinality(higher(owner[mutex(t)])) \in counts
  BY <1>1
<1> QED
  BY <1>6, <1>9, <1>10, <1>11

\* Whenever a thread is inside a call, some thread is that can take its next
\* step: threads that use events in rank order are never all blocked.
THEOREM SomeCallGoesOn == Spec => []CallsGoOn
BY HighestGoesOn, Invariance, PTL

=============================================================================
