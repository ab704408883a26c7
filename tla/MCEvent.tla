------------------------------ MODULE MCEvent ------------------------------
(* Event on a small instance: objects low, mid and high in the program's   *)
(* order; low is made from mid, and handlers of mid call high.             *)
EXTENDS Event, TLC

CONSTANTS low, mid, high, h1, h2, h3, h4

On(op, e) == [op |-> op, on |-> e, arg |-> NoHandler]
With(op, e, x) == [op |-> op, on |-> e, arg |-> x]

MCEvents == {low, mid, high}
MCExisting == {mid, high}
MCRank == low :> 0 @@ mid :> 1 @@ high :> 2

\* h1 raises high, h2 unsubscribes the handler of high, h3 holds no function.
MCHandlers == {h1, h2, h3, h4}
MCNullHandlers == {h3}
MCBody == h1 :> On("invoke", high) @@ h2 :> With("unsubscribe", high, h4)
          @@ h3 :> NoCall @@ h4 :> NoCall

MCClientCalls ==
    {With("subscribe", mid, h1), With("subscribe", mid, h2), With("subscribe", mid, h3),
     With("subscribe", high, h4), With("unsubscribe", mid, h1),
     On("invoke", mid), On("invoke", low), On("count", high),
     With("moveConstruct", low, mid), With("copyAssign", low, mid),
     With("moveAssign", mid, high), With("copyAssign", mid, mid)}

\* The ids alone: three handlers of one event, subscribed and unsubscribed.
MCIdCalls ==
    {With(op, mid, h) : op \in {"subscribe", "unsubscribe"}, h \in {h1, h2, h3}}
MCNoBody == [h \in MCHandlers |-> NoCall]

=============================================================================
