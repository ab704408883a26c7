------------------------- MODULE CancellationToken --------------------------
(***************************************************************************)
(* Nickvision::Helpers::CancellationToken                                  *)
(* (src/helpers/cancellationtoken.cpp): a flag and a function behind one   *)
(* mutex, which cancel() releases before it calls the function.            *)
(* isCancelled(), operator bool and getCancelFunction() change nothing,    *)
(* nor does cancel() when the flag is set.                                 *)
(***************************************************************************)
EXTENDS Sequences

CONSTANTS
    Callers,         \* threads that use the token
    CancelFunctions, \* functions that may be set
    NoFunction       \* the empty std::function

ASSUME TokenAssumption == NoFunction \notin CancelFunctions

VARIABLES
    cancelled,       \* m_cancelled
    cancelFunction,  \* m_cancelFunction
    calling,         \* threads in cancel() that have unlocked and not yet called
    due,             \* history: the function that was set when the flag was
    ran,             \* history: the functions called since the reset
    tangled,         \* history: since the reset, or by it, the function was
                     \* changed under a thread about to call it
    terminated       \* an empty function was called in a noexcept function

tokenVars == <<cancelled, cancelFunction, calling, due, ran, tangled, terminated>>

TokenTypeOK ==
    /\ cancelled \in BOOLEAN /\ tangled \in BOOLEAN /\ terminated \in BOOLEAN
    /\ cancelFunction \in CancelFunctions \cup {NoFunction}
    /\ calling \subseteq Callers
    /\ due \in CancelFunctions \cup {NoFunction}
    /\ ran \in Seq(CancelFunctions)

TokenInit ==
    /\ cancelled = FALSE
    /\ cancelFunction \in CancelFunctions \cup {NoFunction}
    /\ calling = {} /\ due = NoFunction /\ ran = <<>>
    /\ tangled = FALSE /\ terminated = FALSE

\* The function is called after the unlock, unless it is empty.
SetCancelled(t) ==
    /\ ~terminated /\ t \notin calling
    /\ cancelled' = TRUE
    /\ due' = cancelFunction
    /\ calling' = IF cancelFunction = NoFunction THEN calling ELSE calling \cup {t}
    /\ UNCHANGED <<cancelFunction, ran, tangled, terminated>>

Cancel(t) == ~cancelled /\ SetCancelled(t)

CallFunction(t) ==
    /\ ~terminated /\ t \in calling
    /\ calling' = calling \ {t}
    /\ terminated' = (cancelFunction = NoFunction)
    /\ ran' = IF cancelFunction = NoFunction THEN ran ELSE Append(ran, cancelFunction)
    /\ UNCHANGED <<cancelled, cancelFunction, due, tangled>>

SetCancelFunction ==
    /\ ~terminated
    /\ cancelFunction' \in CancelFunctions \cup {NoFunction}
    /\ tangled' = (tangled \/ calling # {})
    /\ UNCHANGED <<cancelled, calling, due, ran, terminated>>

Reset ==
    /\ ~terminated
    /\ cancelled' = FALSE
    /\ cancelFunction' = NoFunction
    /\ due' = NoFunction /\ ran' = <<>>
    /\ tangled' = (calling # {})
    /\ UNCHANGED <<calling, terminated>>

TokenNext ==
    \/ \E t \in Callers : Cancel(t) \/ CallFunction(t)
    \/ SetCancelFunction \/ Reset

TokenSpec == TokenInit /\ [][TokenNext]_tokenVars

\* Of any number of threads that cancel, one calls the function that was set,
\* once until the next reset, and no call terminates the program; unless the
\* function is set or reset while that thread is between unlock and call.
CancelCallsOnce ==
    \/ tangled
    \/ /\ ~terminated
       /\ ran = (IF due = NoFunction \/ calling # {} THEN <<>> ELSE <<due>>)
       /\ due # NoFunction => cancelled

=============================================================================
