---------------------------- MODULE WatcherProofs ---------------------------
(***************************************************************************)
(* The watcher reports what inotify queued, once and in order, and misses  *)
(* changes in the five cases of ChangesAreReported only, for any tree, any *)
(* queue, any watches refused and any partition of the events into reads.  *)
(***************************************************************************)
EXTENDS FileSystemWatcher, SequenceTheorems, FiniteSetTheorems, TLAPS

QueuesOK ==
    /\ queue \in Seq(FileEvents) /\ owed \in Seq(FileEvents) /\ buffer \in Seq(FileEvents)
    /\ reported \in Seq(Reports)

\* A read finds an empty buffer, and a loop over the buffer one that is not.
BufferInv == watcher = "handle" <=> buffer # <<>>

FilterInv == ~filtered => filters = {}

\* In the loop, a watch was tried for all that was there before; the loop ends
\* when the destructor has begun.
WatchInv ==
    /\ watcher \in {"loop", "read", "handle"} =>
           Root \in watches /\ (WithBelow => below \ made \subseteq watches)
    /\ watcher = "list" => Root \in watches
    /\ watcher = "remove" => watches # {}
    /\ watcher \notin {"start", "list", "loop", "read", "handle"} => ~watching

ReportInv ==
    notify = "open" /\ ~filtered =>
        reported \o ReportsOf(buffer \o queue) = ReportsOf(owed)

WatcherInv ==
    /\ QueuesOK /\ BufferInv /\ FilterInv /\ WatchInv
    /\ (WithBelow => ~lost) /\ ReportInv

-----------------------------------------------------------------------------
(* Reports of sequences of events. *)

LEMMA ReportTyped == \A e \in FileEvents : ReportOf(e) \in Reports
BY DEF FileEvents, ReportOf, Reports, ActionOf, FileAction

LEMMA ReportsTyped ==
    ASSUME NEW s \in Seq(FileEvents)
    PROVE  /\ ReportsOf(s) \in Seq(Reports) /\ Len(ReportsOf(s)) = Len(s)
           /\ \A i \in 1..Len(s) : ReportsOf(s)[i] = ReportOf(s[i])
<1>1. DOMAIN s = 1..Len(s) /\ Len(s) \in Nat /\ \A i \in 1..Len(s) : s[i] \in FileEvents
  OBVIOUS
<1>2. ReportsOf(s) = [i \in 1..Len(s) |-> ReportOf(s[i])]
  BY <1>1 DEF ReportsOf
<1>3. ReportsOf(s) \in [1..Len(s) -> Reports]
  BY <1>1, <1>2, ReportTyped
<1>4. ReportsOf(s) \in Seq(Reports)
  BY <1>1, <1>3, IsASeq
<1>. QED
  BY <1>1, <1>2, <1>4

LEMMA ReportsConcat ==
    ASSUME NEW s \in Seq(FileEvents), NEW t \in Seq(FileEvents)
    PROVE  ReportsOf(s \o t) = ReportsOf(s) \o ReportsOf(t)
<1> DEFINE u == s \o t  rs == ReportsOf(s)  rt == ReportsOf(t)  ru == ReportsOf(u)
<1>1. /\ u \in Seq(FileEvents) /\ Len(u) = Len(s) + Len(t)
      /\ Len(s) \in Nat /\ Len(t) \in Nat
      /\ \A i \in 1..Len(s) + Len(t) : u[i] = IF i <= Len(s) THEN s[i] ELSE t[i - Len(s)]
  BY ConcatProperties
<1>2. /\ rs \in Seq(Reports) /\ Len(rs) = Len(s) /\ \A i \in 1..Len(s) : rs[i] = ReportOf(s[i])
      /\ rt \in Seq(Reports) /\ Len(rt) = Len(t) /\ \A i \in 1..Len(t) : rt[i] = ReportOf(t[i])
  BY ReportsTyped
<1> HIDE DEF u
<1>3. ru \in Seq(Reports) /\ Len(ru) = Len(u) /\ \A i \in 1..Len(u) : ru[i] = ReportOf(u[i])
  BY <1>1, ReportsTyped
<1> HIDE DEF rs, rt, ru
<1>4. /\ rs \o rt \in Seq(Reports) /\ Len(rs \o rt) = Len(rs) + Len(rt)
      /\ \A i \in 1..Len(rs) + Len(rt) :
            (rs \o rt)[i] = IF i <= Len(rs) THEN rs[i] ELSE rt[i - Len(rs)]
  <2>1. rs \in Seq(Reports) /\ rt \in Seq(Reports)
    BY <1>2
  <2>. QED
    BY <2>1, ConcatProperties
<1>5. ASSUME NEW i \in 1..Len(ru) PROVE ru[i] = (rs \o rt)[i]
  <2>1. i \in 1..Len(s) + Len(t) /\ ru[i] = ReportOf(u[i])
    BY <1>1, <1>3
  <2>2. CASE i <= Len(s)
    BY <1>1, <1>2, <1>4, <2>1, <2>2
  <2>3. CASE ~(i <= Len(s))
    <3>1. i - Len(s) \in 1..Len(t)
      BY <1>1, <2>1, <2>3
    <3>. QED
      BY <1>1, <1>2, <1>4, <2>1, <2>3, <3>1
  <2>. QED
    BY <2>2, <2>3
<1>6. ru = rs \o rt
  <2>1. ru \in Seq(Reports) /\ rs \o rt \in Seq(Reports) /\ Len(ru) = Len(rs \o rt)
    BY <1>1, <1>2, <1>3, <1>4
  <2>. QED
    BY <1>5, <2>1, SeqEqual
<1>. QED
  BY <1>6 DEF u, rs, rt, ru

LEMMA ReportsSingle == \A e \in FileEvents : ReportsOf(<<e>>) = <<ReportOf(e)>>
BY DEF ReportsOf

-----------------------------------------------------------------------------
(* What the steps do to what is reported and has still to be reported. *)

LEMMA QueueKeeps ==
    ASSUME QueuesOK, NEW e \in FileEvents,
           reported \o ReportsOf(buffer \o queue) = ReportsOf(owed)
    PROVE  reported \o ReportsOf(buffer \o Append(queue, e)) = ReportsOf(Append(owed, e))
<1> DEFINE pending == buffer \o queue
<1>1. pending \in Seq(FileEvents) /\ <<e>> \in Seq(FileEvents)
  BY DEF QueuesOK
<1>2. buffer \o Append(queue, e) = pending \o <<e>> /\ Append(owed, e) = owed \o <<e>>
  <2>1. queue \in Seq(FileEvents) /\ owed \in Seq(FileEvents) /\ buffer \in Seq(FileEvents)
    BY DEF QueuesOK
  <2>2. Append(queue, e) = queue \o <<e>> /\ Append(owed, e) = owed \o <<e>>
    BY <2>1, AppendIsConcat
  <2>3. (buffer \o queue) \o <<e>> = buffer \o (queue \o <<e>>)
    BY <1>1, <2>1
  <2>. QED
    BY <2>2, <2>3
<1> HIDE DEF pending
<1>3. ReportsOf(pending \o <<e>>) = ReportsOf(pending) \o ReportsOf(<<e>>)
  BY <1>1, ReportsConcat
<1>4. ReportsOf(owed \o <<e>>) = ReportsOf(owed) \o ReportsOf(<<e>>)
  BY <1>1, ReportsConcat DEF QueuesOK
<1>5. reported \o (ReportsOf(pending) \o ReportsOf(<<e>>))
        = (reported \o ReportsOf(pending)) \o ReportsOf(<<e>>)
  <2>1. /\ reported \in Seq(Reports) /\ ReportsOf(pending) \in Seq(Reports)
        /\ ReportsOf(<<e>>) \in Seq(Reports)
    BY <1>1, ReportsTyped DEF QueuesOK
  <2>. QED
    BY <2>1
<1>. QED
  BY <1>2, <1>3, <1>4, <1>5 DEF pending

LEMMA HandleKeeps ==
    ASSUME QueuesOK, buffer # <<>>
    PROVE  Append(reported, ReportOf(Head(buffer))) \o ReportsOf(Tail(buffer) \o queue)
               = reported \o ReportsOf(buffer \o queue)
<1> DEFINE h == Head(buffer)  rest == Tail(buffer) \o queue
<1>1. h \in FileEvents /\ Tail(buffer) \in Seq(FileEvents) /\ buffer = <<h>> \o Tail(buffer)
  BY DEF QueuesOK
<1>2. <<h>> \in Seq(FileEvents) /\ rest \in Seq(FileEvents) /\ buffer \o queue = <<h>> \o rest
  BY <1>1 DEF QueuesOK
<1> HIDE DEF rest, h
<1>3. ReportsOf(<<h>> \o rest) = <<ReportOf(h)>> \o ReportsOf(rest)
  BY <1>1, <1>2, ReportsConcat, ReportsSingle
<1>4. /\ ReportOf(h) \in Reports /\ <<ReportOf(h)>> \in Seq(Reports)
      /\ Append(reported, ReportOf(h)) = reported \o <<ReportOf(h)>>
  BY <1>1, ReportTyped, AppendIsConcat DEF QueuesOK
<1>5. reported \o (<<ReportOf(h)>> \o ReportsOf(rest))
        = (reported \o <<ReportOf(h)>>) \o ReportsOf(rest)
  <2>1. reported \in Seq(Reports) /\ ReportsOf(rest) \in Seq(Reports)
    BY <1>2, ReportsTyped DEF QueuesOK
  <2>. QED
    BY <1>4, <2>1
<1>. QED
  BY <1>2, <1>3, <1>4, <1>5 DEF rest, h

LEMMA ReadKeeps ==
    ASSUME QueuesOK, NEW n \in 1..Len(queue)
    PROVE  /\ SubSeq(queue, 1, n) \in Seq(FileEvents) \ {<<>>}
           /\ SubSeq(queue, n + 1, Len(queue)) \in Seq(FileEvents)
           /\ SubSeq(queue, 1, n) \o SubSeq(queue, n + 1, Len(queue)) = queue
<1>1. queue \in Seq(FileEvents) /\ Len(queue) \in Nat /\ 1 \in 1..Len(queue) + 1
      /\ n \in 0..Len(queue) /\ Len(queue) \in n..Len(queue)
  BY DEF QueuesOK
<1>2. SubSeq(queue, 1, n) \o SubSeq(queue, n + 1, Len(queue)) = SubSeq(queue, 1, Len(queue))
  BY <1>1, ConcatAdjacentSubSeq
<1>3. SubSeq(queue, 1, Len(queue)) = queue
  BY <1>1, SubSeqFull
<1>4. \A i \in 1..Len(queue) : queue[i] \in FileEvents
  BY <1>1
<1>5. SubSeq(queue, 1, n) \in Seq(FileEvents) /\ Len(SubSeq(queue, 1, n)) = n
  BY <1>1, <1>4, SubSeqProperties
<1>6. SubSeq(queue, n + 1, Len(queue)) \in Seq(FileEvents)
  BY <1>1, <1>4, SubSeqProperties
<1>7. SubSeq(queue, 1, n) # <<>>
  BY <1>5
<1>. QED
  BY <1>2, <1>3, <1>5, <1>6, <1>7, Zenon

-----------------------------------------------------------------------------
LEMMA WatcherInitial == WatcherInit => WatcherInv
<1> SUFFICES ASSUME WatcherInit PROVE WatcherInv
  OBVIOUS
<1>1. QueuesOK
  BY DEF WatcherInit, QueuesOK
<1>2. ReportInv
  <2>1. <<>> \o <<>> = <<>> /\ <<>> \in Seq(FileEvents)
    OBVIOUS
  <2>2. ReportsOf(<<>>) = <<>>
    BY <2>1, ReportsTyped, EmptySeq
  <2>. QED
    BY <2>1, <2>2 DEF WatcherInit, ReportInv
<1>. QED
  BY <1>1, <1>2 DEF WatcherInit, WatcherInv, BufferInv, FilterInv, WatchInv

\* A change in a directory that is not watched is explained.
LEMMA QueueStep ==
    ASSUME WatcherInv, NEW e \in FileEvents, e.dir \in {Root} \cup below, Queue(e),
           UNCHANGED <<buffer, reported, notify, watcher, filters, filtered>>
    PROVE  QueuesOK' /\ BufferInv' /\ FilterInv' /\ (WithBelow => ~lost') /\ ReportInv'
<1> USE DEF WatcherInv
<1>1. BufferInv' /\ FilterInv'
  BY DEF BufferInv, FilterInv
<1>2. CASE /\ queue' = Append(queue, e) /\ owed' = Append(owed, e)
           /\ UNCHANGED lost
  <2>1. QueuesOK'
    BY <1>2 DEF QueuesOK
  <2>2. ReportInv'
    BY <1>2, QueueKeeps DEF ReportInv
  <2>. QED
    BY <1>1, <1>2, <2>1, <2>2
<1>3. CASE UNCHANGED <<queue, owed>>
  <2>1. QueuesOK' /\ ReportInv'
    BY <1>3 DEF QueuesOK, ReportInv
  <2>2. WithBelow => ~lost'
    BY <1>3 DEF Queue, Explained, WatchInv
  <2>. QED
    BY <1>1, <2>1, <2>2
<1>. QED
  BY <1>2, <1>3 DEF Queue

LEMMA WatcherStepKeeps == WatcherInv /\ [WatcherNext]_watcherVars => WatcherInv'
<1> SUFFICES ASSUME WatcherInv, [WatcherNext]_watcherVars PROVE WatcherInv'
  OBVIOUS
<1> USE DEF WatcherInv
<1>1. ASSUME NEW d \in Directories, NEW x \in Extensions, NEW k \in Kinds,
             Change([dir |-> d, extension |-> x, kind |-> k])
      PROVE  WatcherInv'
  <2> DEFINE e == [dir |-> d, extension |-> x, kind |-> k]
  <2>1. e \in FileEvents
    BY DEF FileEvents
  <2>2. QueuesOK' /\ BufferInv' /\ FilterInv' /\ (WithBelow => ~lost') /\ ReportInv'
    BY <1>1, <2>1, QueueStep DEF Change, filterVars
  <2>. QED
    BY <1>1, <2>2 DEF Change, tree, WatchInv
<1>2. ASSUME NEW d \in Below, NEW x \in Extensions, MakeDirectory(d, x) PROVE WatcherInv'
  <2> DEFINE e == [dir |-> Root, extension |-> x, kind |-> "create"]
  <2>1. e \in FileEvents
    BY DEF FileEvents, Directories, Kinds
  <2>2. WatchInv'
    BY <1>2 DEF MakeDirectory, WatchInv
  <2>3. CASE Queue(e)
    BY <1>2, <2>1, <2>2, <2>3, QueueStep DEF MakeDirectory, filterVars
  <2>4. CASE UNCHANGED events
    BY <1>2, <2>2, <2>4 DEF MakeDirectory, filterVars, events, QueuesOK, BufferInv, FilterInv, ReportInv
  <2>. QED
    BY <1>2, <2>3, <2>4 DEF MakeDirectory
<1>3. ASSUME NEW new, SetFilters(new) PROVE WatcherInv'
  <2>1. FilterInv'
    BY <1>3 DEF SetFilters, FilterInv
  <2>. QED
    BY <1>3, <2>1 DEF SetFilters, tree, events, QueuesOK, BufferInv, WatchInv, ReportInv
<1>4. CASE WatchRoot
  BY <1>4 DEF WatchRoot, Watch, events, filterVars, QueuesOK, BufferInv, FilterInv, WatchInv, ReportInv
<1>5. ASSUME NEW d \in Below, ListNext(d) PROVE WatcherInv'
  BY <1>5 DEF ListNext, Watch, events, filterVars, QueuesOK, BufferInv, FilterInv, WatchInv, ReportInv
<1>6. CASE ListEnd
  BY <1>6 DEF ListEnd, tree, events, filterVars, QueuesOK, BufferInv, FilterInv, WatchInv, ReportInv
<1>7. CASE TestWatching
  BY <1>7 DEF TestWatching, tree, events, filterVars, QueuesOK, BufferInv, FilterInv, WatchInv, ReportInv
<1>8. CASE Read
  <2>1. FilterInv' /\ WatchInv' /\ lost' = lost
    BY <1>8 DEF Read, tree, filterVars, FilterInv, WatchInv
  <2>2. CASE watcher' = "loop" /\ UNCHANGED <<buffer, queue>>
    BY <1>8, <2>1, <2>2 DEF Read, QueuesOK, BufferInv, ReportInv, filterVars
  <2>3. ASSUME NEW n \in 1..Len(queue), buffer' = SubSeq(queue, 1, n),
               queue' = SubSeq(queue, n + 1, Len(queue)), watcher' = "handle"
        PROVE  QueuesOK' /\ BufferInv' /\ ReportInv'
    <3>1. /\ buffer = <<>> /\ buffer' # <<>> /\ buffer' \o queue' = queue
          /\ buffer' \in Seq(FileEvents) /\ queue' \in Seq(FileEvents)
      BY <1>8, <2>3, ReadKeeps DEF Read, BufferInv
    <3>2. buffer \o queue = queue
      BY <3>1, ConcatEmptySeq DEF QueuesOK
    <3>3. QueuesOK' /\ BufferInv'
      BY <1>8, <2>3, <3>1 DEF Read, QueuesOK, BufferInv
    <3>4. ReportInv'
      BY <1>8, <3>1, <3>2 DEF Read, ReportInv, filterVars
    <3>. QED
      BY <3>3, <3>4
  <2>. QED
    BY <1>8, <2>1, <2>2, <2>3 DEF Read
<1>9. CASE Handle
  <2>1. FilterInv' /\ WatchInv' /\ lost' = lost
    BY <1>9 DEF Handle, tree, events, filterVars, FilterInv, WatchInv
  <2>2. buffer # <<>> /\ buffer \in Seq(FileEvents)
    BY <1>9 DEF Handle, BufferInv, QueuesOK
  <2>3. Head(buffer) \in FileEvents /\ Tail(buffer) \in Seq(FileEvents)
    BY <2>2
  <2>4. ReportOf(Head(buffer)) \in Reports
    BY <2>3, ReportTyped
  <2>5. QueuesOK' /\ BufferInv'
    BY <1>9, <2>3, <2>4 DEF Handle, events, QueuesOK, BufferInv
  <2>6. ReportInv'
    <3>1. ~filtered => isExtensionWatched(Head(buffer).extension)
      BY DEF FilterInv, isExtensionWatched
    <3>. QED
      BY <1>9, <2>2, <3>1, HandleKeeps DEF Handle, events, filterVars, ReportInv
  <2>. QED
    BY <2>1, <2>5, <2>6
<1>10. CASE StopWatching
  BY <1>10 DEF StopWatching, tree, events, filterVars, QueuesOK, BufferInv, FilterInv, WatchInv, ReportInv
<1>11. CASE CloseNotify
  BY <1>11 DEF CloseNotify, tree, filterVars, QueuesOK, BufferInv, FilterInv, WatchInv, ReportInv
<1>12. CASE Join
  BY <1>12 DEF Join, tree, events, filterVars, QueuesOK, BufferInv, FilterInv, WatchInv, ReportInv
<1>13. CASE ListFails
  BY <1>13 DEF ListFails, Die, tree, filterVars, QueuesOK, BufferInv, FilterInv, WatchInv, ReportInv
<1>14. CASE ReadForeign
  <2>1. CASE Die
    BY <1>14, <2>1 DEF ReadForeign, Die, tree, filterVars, QueuesOK, BufferInv, FilterInv, WatchInv,
       ReportInv
  <2>2. CASE watcher' = "loop" /\ UNCHANGED <<tree, events, filterVars, notify, watching, buffer,
                                             reported>>
    BY <1>14, <2>2 DEF ReadForeign, tree, events, filterVars, QueuesOK, BufferInv, FilterInv,
       WatchInv, ReportInv
  <2>. QED
    BY <1>14, <2>1, <2>2 DEF ReadForeign
<1>15. ASSUME NEW d \in Directories, RemoveWatch(d) PROVE WatcherInv'
  BY <1>15 DEF RemoveWatch, events, filterVars, QueuesOK, BufferInv, FilterInv, WatchInv, ReportInv
<1>16. CASE ReuseNumber
  BY <1>16 DEF ReuseNumber, tree, events, filterVars, QueuesOK, BufferInv, FilterInv, WatchInv,
     ReportInv
<1>17. CASE UNCHANGED watcherVars
  BY <1>17 DEF watcherVars, tree, events, filterVars, QueuesOK, BufferInv, FilterInv, WatchInv, ReportInv
<1>. QED
  BY <1>1, <1>2, <1>3, <1>4, <1>5, <1>6, <1>7, <1>8, <1>9, <1>10, <1>11, <1>12, <1>13,
     <1>14, <1>15, <1>16, <1>17
     DEF WatcherNext, ThreadStep, addExtensionFilter, removeExtensionFilter, clearExtensionFilters

\* Changes are missed only early or late, in new directories, in those whose
\* watch is refused, or with the queue full; and without a filter, what is
\* queued is reported once and in order.
THEOREM ChangesReported == WatcherSpec => []ChangesAreReported
<1>1. WatcherInv => ChangesAreReported
  BY DEF WatcherInv, ChangesAreReported, ReportInv
<1>. QED
  BY <1>1, WatcherInitial, WatcherStepKeeps, PTL DEF WatcherSpec

-----------------------------------------------------------------------------
\* Only Watch adds watches, of directories that are there.
LEMMA WatcherTypeStep ==
    WatcherInv /\ WatcherTypeOK /\ [WatcherNext]_watcherVars => WatcherTypeOK'
<1> SUFFICES ASSUME WatcherInv, WatcherTypeOK, [WatcherNext]_watcherVars PROVE WatcherTypeOK'
  OBVIOUS
<1>1. QueuesOK'
  BY WatcherStepKeeps DEF WatcherInv
<1>2. /\ below' \subseteq Below /\ made' \subseteq below'
      /\ watched' \subseteq watches' /\ watches' \subseteq {Root} \cup below'
      /\ filters' \subseteq Extensions
  BY DEF WatcherNext, ThreadStep, Change, MakeDirectory, SetFilters, addExtensionFilter,
         removeExtensionFilter, clearExtensionFilters, WatchRoot, ListNext, Watch, ListEnd,
         ListFails, Die, TestWatching, Read, ReadForeign, Handle, RemoveWatch, StopWatching,
         CloseNotify, ReuseNumber, Join, WatcherTypeOK, watcherVars, tree, filterVars
<1>3. /\ notify' \in {"open", "closed", "reused"} /\ watching' \in BOOLEAN
      /\ watcher' \in {"start", "list", "loop", "read", "handle", "remove", "done", "joined",
                        "dead"}
  BY DEF WatcherNext, ThreadStep, Change, MakeDirectory, SetFilters, addExtensionFilter,
         removeExtensionFilter, clearExtensionFilters, WatchRoot, ListNext, ListEnd,
         ListFails, Die, TestWatching, Read, ReadForeign, Handle, RemoveWatch, StopWatching,
         CloseNotify, ReuseNumber, Join, WatcherTypeOK, watcherVars
<1>4. filtered' \in BOOLEAN
  BY DEF WatcherNext, ThreadStep, Change, MakeDirectory, SetFilters, addExtensionFilter,
         removeExtensionFilter, clearExtensionFilters, WatchRoot, ListNext, ListEnd,
         ListFails, Die, TestWatching, Read, ReadForeign, Handle, RemoveWatch, StopWatching,
         CloseNotify, ReuseNumber, Join, WatcherTypeOK, watcherVars, filterVars
<1>5. lost' \in BOOLEAN
  BY Zenon DEF WatcherNext, ThreadStep, Change, MakeDirectory, Queue, SetFilters,
         addExtensionFilter, removeExtensionFilter, clearExtensionFilters, WatchRoot, ListNext,
         ListEnd, ListFails, Die, TestWatching, Read, ReadForeign, Handle, RemoveWatch,
         StopWatching, CloseNotify, ReuseNumber, Join, WatcherTypeOK, watcherVars, events
<1>6. lateReads' \in Nat /\ strayed' \subseteq {"add", "read", "remove"}
  <2>1. CASE Read
    BY <2>1 DEF Read, WatcherTypeOK
  <2>2. CASE ReadForeign
    BY <2>2 DEF ReadForeign, Call, WatcherTypeOK
  <2>3. CASE WatchRoot \/ (\E d \in Below : ListNext(d)) \/ \E d \in Directories : RemoveWatch(d)
    BY <2>3 DEF WatchRoot, ListNext, Watch, RemoveWatch, Call, WatcherTypeOK
  <2>4. CASE UNCHANGED late
    BY <2>4 DEF late, WatcherTypeOK
  <2>. QED
    BY <2>1, <2>2, <2>3, <2>4 DEF WatcherNext, ThreadStep, Change, MakeDirectory, SetFilters,
       addExtensionFilter, removeExtensionFilter, clearExtensionFilters, ListEnd, ListFails,
       TestWatching, Handle, StopWatching, CloseNotify, ReuseNumber, Join, watcherVars
<1>. QED
  BY <1>1, <1>2, <1>3, <1>4, <1>5, <1>6 DEF WatcherTypeOK, QueuesOK

LEMMA WatcherTypeInitial == WatcherInit => WatcherTypeOK
<1> SUFFICES ASSUME WatcherInit PROVE WatcherTypeOK
  OBVIOUS
<1>1. QueuesOK
  BY WatcherInitial DEF WatcherInv
<1>. QED
  BY <1>1 DEF WatcherInit, WatcherTypeOK, QueuesOK

-----------------------------------------------------------------------------
\* The descriptor is closed after m_watching is cleared, so that the test before
\* the next read ends the loop: at most one read was past it already, and none
\* was when a watch is still to be added.
CloseInv ==
    /\ notify = "open" => lateReads = 0 /\ strayed = {}
    /\ notify # "open" => ~watching /\ queue = <<>>
    /\ lateReads \in {0, 1}
    /\ lateReads = 1 => watcher \in {"loop", "remove", "done", "joined", "dead"}
    /\ "read" \in strayed => lateReads = 1
    /\ "add" \in strayed => lateReads = 0 /\ watcher \notin {"read", "handle"}

LEMMA CloseStepKeeps == CloseInv /\ [WatcherNext]_watcherVars => CloseInv'
<1> SUFFICES ASSUME CloseInv, [WatcherNext]_watcherVars PROVE CloseInv'
  OBVIOUS
<1> USE DEF CloseInv
<1>1. CASE Read
  BY <1>1 DEF Read
<1>2. CASE TestWatching
  BY <1>2 DEF TestWatching, events, late
<1>3. CASE UNCHANGED <<notify, watching, watcher, late>> /\ (queue' = queue \/ notify = "open")
  BY <1>3 DEF late
<1>4. CASE StopWatching \/ CloseNotify \/ ReuseNumber \/ Join
  BY <1>4 DEF StopWatching, CloseNotify, ReuseNumber, Join, events, late
<1>5. CASE ListEnd \/ Handle \/ ListFails
  BY <1>5 DEF ListEnd, Handle, ListFails, Die, events, late
<1>6. CASE ReadForeign
  BY <1>6 DEF ReadForeign, Call, Die, events
<1>7. CASE WatchRoot
  BY <1>7 DEF WatchRoot, Watch, Call, events
<1>8. ASSUME NEW d \in Below, ListNext(d) PROVE CloseInv'
  BY <1>8 DEF ListNext, Watch, Call, events
<1>9. ASSUME NEW d \in Directories, RemoveWatch(d) PROVE CloseInv'
  BY <1>9 DEF RemoveWatch, Call, events
<1>. QED
  BY <1>1, <1>2, <1>3, <1>4, <1>5, <1>6, <1>7, <1>8, <1>9
     DEF WatcherNext, ThreadStep, Change, MakeDirectory, Queue, SetFilters, addExtensionFilter,
         removeExtensionFilter, clearExtensionFilters, watcherVars, events

\* After the destructor has closed the descriptor its thread reads it once at
\* most, when the number may be that of another file, and not at all when it has
\* added watches to that other file.
THEOREM LateUseSmall == WatcherSpec => []LateUseIsSmall
<1>1. WatcherInit => CloseInv
  BY DEF WatcherInit, CloseInv
<1>2. CloseInv => LateUseIsSmall
  BY DEF CloseInv, LateUseIsSmall
<1>. QED
  BY <1>1, <1>2, CloseStepKeeps, PTL DEF WatcherSpec

-----------------------------------------------------------------------------
(* The safety core of the destructor's return: once the descriptor is        *)
(* closed, only the thread's own steps and the join are left, each possible  *)
(* where it is due, and their number falls with each of them. A read of      *)
(* another file is the one that has to wait for somebody.                    *)

ThreadReady ==
    \/ watcher \in {"start", "loop"}
    \/ watcher = "list" /\ (below \ made \subseteq watches \/ \E d \in Below : d \in below \ watches)
    \/ watcher = "read" /\ notify # "reused"
    \/ watcher = "handle" /\ buffer # <<>>
    \/ watcher = "remove" /\ \E d \in Directories : d \in watches

\* Directories still to list cost two steps, one of them to remove the watch.
ToList == Cardinality(Below \ watches)
ToRemove == Cardinality(watches)

StopsLeft == CASE watcher = "start"  -> 2 * ToList + ToRemove + 5
               [] watcher = "list"   -> 2 * ToList + ToRemove + 3
               [] watcher = "loop"   -> ToRemove + 2
               [] watcher = "read"   -> ToRemove + 3
               [] watcher = "handle" -> ToRemove + 2 + Len(buffer)
               [] watcher = "remove" -> ToRemove + 1
               [] watcher = "done"   -> 1
               [] watcher \in {"joined", "dead"} -> 0

ReturnIsOpen ==
    notify # "open" =>
        /\ ~watching /\ StopsLeft \in Nat
        /\ \/ watcher \in {"joined", "dead", "done"} \/ ThreadReady
           \/ watcher = "read" /\ notify = "reused"

ReturnComesNearer ==
    notify # "open" =>
        /\ notify' # "open" /\ StopsLeft' <= StopsLeft
        /\ ThreadStep \/ ReadForeign \/ Join => StopsLeft' < StopsLeft

StopInv == WatcherInv /\ WatcherTypeOK /\ CloseInv

LEMMA StopInitial == WatcherInit => StopInv
BY WatcherInitial, WatcherTypeInitial DEF StopInv, CloseInv, WatcherInit

LEMMA StopStepKeeps == StopInv /\ [WatcherNext]_watcherVars => StopInv'
BY WatcherStepKeeps, WatcherTypeStep, CloseStepKeeps DEF StopInv

\* Only directories are watched, and there are finitely many.
LEMMA CountsAreFinite ==
    StopInv => /\ IsFiniteSet(watches) /\ ToRemove \in Nat
               /\ IsFiniteSet(Below \ watches) /\ ToList \in Nat
<1> SUFFICES ASSUME StopInv
    PROVE  /\ IsFiniteSet(watches) /\ ToRemove \in Nat
           /\ IsFiniteSet(Below \ watches) /\ ToList \in Nat
  OBVIOUS
<1>1. IsFiniteSet(Below)
  BY WatcherAssumption
<1>2. IsFiniteSet(Below \cup {Root})
  BY <1>1, FS_AddElement
<1>3. watches \subseteq Below \cup {Root} /\ Below \ watches \subseteq Below
  BY DEF StopInv, WatcherTypeOK
<1>4. IsFiniteSet(watches) /\ IsFiniteSet(Below \ watches)
  BY <1>1, <1>2, <1>3, FS_Subset
<1>. QED
  BY <1>4, FS_CardinalityType DEF ToRemove, ToList

LEMMA StopsLeftType == StopInv => StopsLeft \in Nat
<1> SUFFICES ASSUME StopInv PROVE StopsLeft \in Nat
  OBVIOUS
<1>1. Len(buffer) \in Nat /\ ToRemove \in Nat /\ ToList \in Nat
  BY CountsAreFinite DEF StopInv, WatcherInv, QueuesOK
<1>2. watcher \in {"start", "list", "loop", "read", "handle", "remove", "done", "joined", "dead"}
  BY DEF StopInv, WatcherTypeOK
<1>. QED
  BY <1>1, <1>2 DEF StopsLeft

\* After the close no step of the thread is ever refused, but for the read of
\* another file: the listing, the read of a closed descriptor and the removal of
\* the watches wait for nothing.
THEOREM DestructorCanReturn == WatcherSpec => []ReturnIsOpen
<1>1. StopInv => ReturnIsOpen
  <2> SUFFICES ASSUME StopInv, notify # "open"
      PROVE  /\ ~watching /\ StopsLeft \in Nat
             /\ \/ watcher \in {"joined", "dead", "done"} \/ ThreadReady
                \/ watcher = "read" /\ notify = "reused"
    BY DEF ReturnIsOpen
  <2>1. ~watching
    BY DEF StopInv, CloseInv
  <2>2. watcher = "list" => ThreadReady
    BY DEF StopInv, WatcherTypeOK, ThreadReady
  <2>3. watcher = "remove" => ThreadReady
    BY DEF StopInv, WatcherInv, WatchInv, WatcherTypeOK, ThreadReady, Directories
  <2>4. watcher = "handle" => ThreadReady
    BY DEF StopInv, WatcherInv, BufferInv, ThreadReady
  <2>5. watcher \in {"start", "list", "loop", "read", "handle", "remove", "done", "joined", "dead"}
    BY DEF StopInv, WatcherTypeOK
  <2>. QED
    BY <2>1, <2>2, <2>3, <2>4, <2>5, StopsLeftType DEF ThreadReady
<1>. QED
  BY <1>1, StopInitial, StopStepKeeps, PTL DEF WatcherSpec

LEMMA ReturnStep == StopInv /\ [WatcherNext]_watcherVars => ReturnComesNearer
<1> SUFFICES ASSUME StopInv, [WatcherNext]_watcherVars, notify # "open"
    PROVE  /\ notify' # "open" /\ StopsLeft' <= StopsLeft
           /\ ThreadStep \/ ReadForeign \/ Join => StopsLeft' < StopsLeft
  BY DEF ReturnComesNearer
<1>1. /\ ~watching /\ buffer \in Seq(FileEvents) /\ Len(buffer) \in Nat
      /\ watcher = "handle" <=> buffer # <<>>
      /\ StopsLeft \in Nat /\ ToList \in Nat /\ ToRemove \in Nat
      /\ IsFiniteSet(watches) /\ IsFiniteSet(Below \ watches)
  BY StopsLeftType, CountsAreFinite DEF StopInv, CloseInv, WatcherInv, QueuesOK, BufferInv
<1>2. watches' = watches => ToList' = ToList /\ ToRemove' = ToRemove
  BY DEF ToList, ToRemove
<1>3. CASE WatchRoot
  <2>1. watches' = watches \cup {Root} /\ Below \ watches' = Below \ watches
    BY <1>3, WatcherAssumption DEF WatchRoot, Watch
  <2>2. ToList' = ToList /\ ToRemove' \in {ToRemove, ToRemove + 1}
    BY <1>1, <2>1, FS_AddElement DEF ToList, ToRemove
  <2>. QED
    BY <1>1, <1>3, <2>2 DEF WatchRoot, StopsLeft
<1>4. ASSUME NEW d \in Below, ListNext(d)
      PROVE  notify' # "open" /\ StopsLeft' <= StopsLeft /\ StopsLeft' < StopsLeft
  <2>1. d \notin watches /\ watches' = watches \cup {d} /\ Below \ watches' = (Below \ watches) \ {d}
    BY <1>4 DEF ListNext, Watch
  <2>2. ToRemove' = ToRemove + 1
    BY <1>1, <2>1, FS_AddElement DEF ToRemove
  <2>3. ToList' = ToList - 1
    BY <1>1, <1>4, <2>1, FS_RemoveElement DEF ToList
  <2>. QED
    BY <1>1, <1>4, <2>2, <2>3 DEF ListNext, StopsLeft
<1>5. CASE ListEnd
  BY <1>1, <1>2, <1>5 DEF ListEnd, tree, StopsLeft
<1>6. CASE TestWatching
  BY <1>1, <1>2, <1>6 DEF TestWatching, tree, StopsLeft
<1>7. CASE Read
  <2>1. watcher = "read" /\ watcher' = "loop" /\ watches' = watches /\ notify' = notify
    <3>1. queue = <<>>
      BY <1>1, <1>7 DEF StopInv, CloseInv
    <3>. QED
      BY <1>7, <3>1 DEF Read, tree
  <2>. QED
    BY <1>1, <1>2, <2>1 DEF StopsLeft
<1>8. CASE ListFails
  BY <1>1, <1>8 DEF ListFails, Die, StopsLeft
<1>9. CASE ReadForeign
  <2>1. watcher = "read" /\ watcher' \in {"loop", "dead"} /\ watches' = watches /\ notify' # "open"
    BY <1>9 DEF ReadForeign, Die, tree
  <2>. QED
    BY <1>1, <1>2, <2>1 DEF StopsLeft
<1>10. CASE Handle
  <2>1. Len(buffer) > 0 /\ Len(Tail(buffer)) = Len(buffer) - 1
    BY <1>1, <1>10 DEF Handle
  <2>2. StopsLeft = ToRemove + 2 + Len(buffer)
    BY <1>10 DEF Handle, StopsLeft
  <2>3. StopsLeft' = ToRemove + 2 + Len(Tail(buffer))
    <3>1. CASE Tail(buffer) = <<>>
      BY <1>1, <1>2, <1>10, <3>1 DEF Handle, tree, StopsLeft
    <3>2. CASE Tail(buffer) # <<>>
      BY <1>1, <1>2, <1>10, <3>2 DEF Handle, tree, StopsLeft
    <3>. QED
      BY <3>1, <3>2
  <2>. QED
    BY <1>1, <1>10, <2>1, <2>2, <2>3 DEF Handle
<1>11. ASSUME NEW d \in Directories, RemoveWatch(d)
       PROVE  notify' # "open" /\ StopsLeft' <= StopsLeft /\ StopsLeft' < StopsLeft
  <2>1. d \in watches /\ watches' = watches \ {d} /\ watcher = "remove"
        /\ watcher' \in {"remove", "done"} /\ notify' = notify
    BY <1>11 DEF RemoveWatch
  <2>2. ToRemove' = ToRemove - 1
    BY <1>1, <2>1, FS_RemoveElement DEF ToRemove
  <2>3. ToRemove > 0
    BY <1>1, <2>1, FS_EmptySet DEF ToRemove
  <2>. QED
    BY <1>1, <2>1, <2>2, <2>3 DEF StopsLeft
<1>12. CASE Join
  BY <1>12, <1>1 DEF Join, StopsLeft
<1>13. CASE UNCHANGED <<watcher, buffer, watches>> /\ notify' # "open"
            /\ ~(ThreadStep \/ ReadForeign \/ Join)
  <2>1. StopsLeft' = StopsLeft
    BY <1>2, <1>13 DEF StopsLeft
  <2>. QED
    BY <1>1, <1>13, <2>1
<1>14. CASE ThreadStep \/ ReadForeign \/ Join
  BY <1>3, <1>4, <1>5, <1>6, <1>7, <1>8, <1>9, <1>10, <1>11, <1>12, <1>14 DEF ThreadStep
<1>15. ~(ThreadStep \/ ReadForeign \/ Join) => UNCHANGED <<watcher, buffer, watches>> /\ notify' # "open"
  BY DEF WatcherNext, Change, MakeDirectory, SetFilters, addExtensionFilter,
         removeExtensionFilter, clearExtensionFilters, StopWatching, CloseNotify, ReuseNumber,
         watcherVars, tree
<1>. QED
  BY <1>13, <1>14, <1>15

\* After the close every step of the thread brings it nearer to its end, and
\* no step of others takes it away from it. With weak fairness of the thread
\* and of the destructor this is the liveness half of WatcherStops.
THEOREM DestructorIsNearer == WatcherSpec => [][ReturnComesNearer]_watcherVars
BY StopInitial, StopStepKeeps, ReturnStep, PTL DEF WatcherSpec

=============================================================================
