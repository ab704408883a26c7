-------------------------- MODULE SuspendInhibitor --------------------------
(***************************************************************************)
(* Nickvision::System::SuspendInhibitor (src/system/suspendinhibitor.cpp): *)
(* objects that each hold the cookie of an inhibition at the screen saver  *)
(* service, copied, moved and assigned. The service may do what it is      *)
(* asked and fail to answer (the call's timeout). Calls without an effect  *)
(* are left out: inhibit() and uninhibit() when there is nothing to do, or *)
(* when the service cannot be reached.                                     *)
(***************************************************************************)
EXTENDS Naturals

CONSTANTS
    Inhibitors,  \* the objects
    Assigners,   \* threads that assign them
    Rank,        \* a client assigns objects from ones of a higher rank
    MaxCookies   \* bound on the inhibitions

ASSUME InhibitorAssumption == Rank \in [Inhibitors -> Nat] /\ MaxCookies \in Nat

VARIABLES
    inhibitors,  \* is the object there, m_inhibiting, m_cookie
    assigning,   \* the assignment each thread has locked the target of
    active,      \* the service's inhibitions
    cookies,     \* how many the service has made
    shared,      \* history: cookies that a copy was made of
    unanswered,  \* history: cookies whose call got no answer
    abandoned    \* history: cookies overwritten, or kept by a destructor that failed

inhibitorVars == <<inhibitors, assigning, active, cookies, shared, unanswered, abandoned>>
service == <<active, cookies, unanswered>>

Cookies == 0..MaxCookies
NoObject == [live |-> FALSE, inhibiting |-> FALSE, cookie |-> 0]
NoAssignment == [what |-> "none"]

InhibitorTypeOK ==
    /\ inhibitors \in [Inhibitors -> [live : BOOLEAN, inhibiting : BOOLEAN, cookie : Cookies]]
    /\ assigning \in [Assigners -> {NoAssignment} \cup
           [what : {"copy", "move"}, to : Inhibitors, from : Inhibitors]]
    /\ cookies \in Cookies
    /\ active \subseteq 1..cookies /\ shared \subseteq 1..cookies
    /\ unanswered \subseteq 1..cookies /\ abandoned \subseteq 1..cookies

InhibitorInit ==
    /\ inhibitors = [o \in Inhibitors |-> NoObject]
    /\ assigning = [t \in Assigners |-> NoAssignment]
    /\ active = {} /\ cookies = 0
    /\ shared = {} /\ unanswered = {} /\ abandoned = {}

Live(o) == inhibitors[o].live
Held(objects) == {inhibitors[o].cookie : o \in {p \in objects : inhibitors[p].inhibiting}}
Assigning(t) == assigning[t].what # "none"
Locked(o) == \E t \in Assigners : Assigning(t) /\ assigning[t].to = o
InUse(o) == \E t \in Assigners : Assigning(t) /\ o \in {assigning[t].to, assigning[t].from}

-----------------------------------------------------------------------------
Construct(o) ==
    /\ ~Live(o)
    /\ inhibitors' = [inhibitors EXCEPT ![o] = [NoObject EXCEPT !.live = TRUE]]
    /\ UNCHANGED <<assigning, service, shared, abandoned>>

CopyConstruct(o, p) ==
    /\ ~Live(o) /\ Live(p) /\ ~Locked(p)
    /\ inhibitors' = [inhibitors EXCEPT ![o] = inhibitors[p]]
    /\ shared' = shared \cup Held({p})
    /\ UNCHANGED <<assigning, service, abandoned>>

\* Mutant: the moved object keeps its flag and its cookie.
MoveConstructCopy(o, p) ==
    /\ ~Live(o) /\ Live(p) /\ ~Locked(p)
    /\ inhibitors' = [inhibitors EXCEPT ![o] = inhibitors[p]]
    /\ UNCHANGED <<assigning, service, shared, abandoned>>

MoveConstruct(o, p) ==
    /\ ~Live(o) /\ Live(p) /\ ~Locked(p)
    /\ inhibitors' = [inhibitors EXCEPT ![o] = inhibitors[p],
                                        ![p] = [NoObject EXCEPT !.live = TRUE]]
    /\ UNCHANGED <<assigning, service, shared, abandoned>>

Inhibit(o) ==
    /\ Live(o) /\ ~Locked(o) /\ ~inhibitors[o].inhibiting
    /\ cookies < MaxCookies
    /\ cookies' = cookies + 1 /\ active' = active \cup {cookies + 1}
    /\ \/ /\ inhibitors' = [inhibitors EXCEPT
                ![o] = [live |-> TRUE, inhibiting |-> TRUE, cookie |-> cookies + 1]]
          /\ UNCHANGED unanswered
       \/ unanswered' = unanswered \cup {cookies + 1} /\ UNCHANGED inhibitors
    /\ UNCHANGED <<assigning, shared, abandoned>>

\* The service ends the inhibition, if it has one of this cookie.
Uninhibit(o) ==
    /\ Live(o) /\ ~Locked(o) /\ inhibitors[o].inhibiting
    /\ active' = active \ {inhibitors[o].cookie}
    /\ \/ /\ inhibitors' = [inhibitors EXCEPT ![o].inhibiting = FALSE]
          /\ UNCHANGED unanswered
       \/ unanswered' = unanswered \cup {inhibitors[o].cookie} /\ UNCHANGED inhibitors
    /\ UNCHANGED <<assigning, cookies, shared, abandoned>>

\* The destructor uninhibits and ignores the answer, or the service cannot be
\* reached. Clients do not destroy an object that is being assigned.
Destroy(o) ==
    /\ Live(o) /\ ~InUse(o)
    /\ inhibitors' = [inhibitors EXCEPT ![o] = NoObject]
    /\ \/ active' = active \ Held({o}) /\ UNCHANGED abandoned
       \/ abandoned' = abandoned \cup Held({o}) /\ UNCHANGED active
    /\ UNCHANGED <<assigning, cookies, shared, unanswered>>

-----------------------------------------------------------------------------
(* Assignment locks the target, and then the other object, unless both are *)
(* the same. Clients assign an object from itself or in the order of ranks. *)

\* Mutant: without the comparison of this with the other object.
LockSelf(t, w, o, p) ==
    /\ ~Assigning(t) /\ Live(o) /\ Live(p) /\ ~Locked(o)
    /\ o = p \/ Rank[o] < Rank[p]
    /\ assigning' = [assigning EXCEPT ![t] = [what |-> w, to |-> o, from |-> p]]
    /\ UNCHANGED <<inhibitors, service, shared, abandoned>>

LockTarget(t, w, o, p) ==
    /\ o # p
    /\ ~Assigning(t) /\ Live(o) /\ Live(p) /\ ~Locked(o)
    /\ o = p \/ Rank[o] < Rank[p]
    /\ assigning' = [assigning EXCEPT ![t] = [what |-> w, to |-> o, from |-> p]]
    /\ UNCHANGED <<inhibitors, service, shared, abandoned>>

CanAssign(t) == Assigning(t) /\ ~Locked(assigning[t].from)

Assign(t) ==
    LET o == assigning[t].to  p == assigning[t].from IN
    /\ CanAssign(t)
    /\ inhibitors' = [inhibitors EXCEPT
           ![o] = inhibitors[p],
           ![p] = IF assigning[t].what = "move" THEN [NoObject EXCEPT !.live = TRUE] ELSE @]
    /\ abandoned' = abandoned \cup Held({o})
    /\ shared' = IF assigning[t].what = "move" THEN shared ELSE shared \cup Held({p})
    /\ assigning' = [assigning EXCEPT ![t] = NoAssignment]
    /\ UNCHANGED service

InhibitorNext ==
    \/ \E o \in Inhibitors : Construct(o) \/ Inhibit(o) \/ Uninhibit(o) \/ Destroy(o)
    \/ \E o, p \in Inhibitors :
          \/ CopyConstruct(o, p) \/ MoveConstruct(o, p)
          \/ \E t \in Assigners, w \in {"copy", "move"} : LockTarget(t, w, o, p)
    \/ \E t \in Assigners : Assign(t)

InhibitorSpec == InhibitorInit /\ [][InhibitorNext]_inhibitorVars

-----------------------------------------------------------------------------
\* An object that reports that it inhibits has an inhibition of its own at
\* the service: moves, constructors and failed calls never leave two owners
\* of a cookie, nor an owner of none. Copies do, and calls without an answer.
\* And the system is never kept awake by an inhibition that no object can end,
\* but for one whose call got no answer, and one that an assignment overwrote
\* or that a destructor failed to end.
InhibitionsAreOwned ==
    /\ \A o \in Inhibitors : inhibitors[o].inhibiting =>
           \/ inhibitors[o].cookie \in shared \cup unanswered
           \/ /\ inhibitors[o].cookie \in active
              /\ inhibitors[o].cookie \notin Held(Inhibitors \ {o})
    /\ active \subseteq Held(Inhibitors) \cup unanswered \cup abandoned

\* When clients assign in the order of ranks, threads that have locked their
\* targets never all wait for each other: one finds the other object free.
AssignmentsCanGoOn ==
    (\E t \in Assigners : Assigning(t)) => \E t \in Assigners : CanAssign(t)

=============================================================================
