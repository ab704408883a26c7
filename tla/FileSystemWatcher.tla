------------------------- MODULE FileSystemWatcher --------------------------
(***************************************************************************)
(* Nickvision::Filesystem::FileSystemWatcher on Linux                      *)
(* (src/filesystem/filesystemwatcher.cpp): a thread that adds inotify      *)
(* watches to the directory and, once, to those below it, then reads and   *)
(* reports events until the destructor clears m_watching, closes m_notify  *)
(* and joins it. Meanwhile others change files and make directories, and   *)
(* open files, one of which may be given the number of the descriptor that *)
(* was closed. The read of m_notify does not block and is tried again at   *)
(* once. m_watching is a plain bool; the call of read() in the loop makes  *)
(* the build load it each time.                                            *)
(***************************************************************************)
EXTENDS Naturals, Sequences, FiniteSets

CONSTANTS
    Root,          \* m_path
    Below,         \* directories that may exist below it
    Extensions,    \* of files and directories
    WatchedFlags,  \* m_watcherFlags
    WithBelow,     \* m_includeSubdirectories
    QueueLimit,    \* of inotify's queue (max_queued_events)
    MaxEvents      \* bound on the events queued

ASSUME WatcherAssumption ==
    /\ Root \notin Below /\ IsFiniteSet(Below) /\ WithBelow \in BOOLEAN
    /\ QueueLimit \in Nat /\ MaxEvents \in Nat

VARIABLES
    below,       \* the directories there are below m_path
    made,        \* history: those made after the constructor began
    watched,     \* directories with an inotify watch
    watches,     \* those whose watch, or the -1 for it, is in the vector watches
    queue,       \* events the kernel has for m_notify
    notify,      \* m_notify: "open", "closed" or the number of another file
    watching,    \* m_watching
    watcher,     \* where watch() stands, "dead" when the program has ended
    buffer,      \* events read and not yet handled
    filters,     \* m_extensionFilters
    reported,    \* the arguments of changed()
    owed,        \* history: the events that were queued
    lost,        \* history: a change was missed in none of the five cases
    filtered,    \* history: there was a filter
    lateReads,   \* history: reads of m_notify after it was closed
    strayed      \* history: the calls made with another file's descriptor

tree == <<below, made, watched, watches>>
events == <<queue, owed, lost>>
filterVars == <<filters, filtered>>
late == <<lateReads, strayed>>
watcherVars == <<tree, events, filterVars, notify, watching, watcher, buffer, reported, late>>

Kinds == {"create", "delete", "movedFrom", "attrib", "modify", "closeWrite", "access"}
FileAction == {"Added", "Removed", "Renamed", "Modified"}
Directories == {Root} \cup Below
FileEvents == [dir : Directories, extension : Extensions, kind : Kinds]
Reports == [dir : {Root}, extension : Extensions, action : FileAction]

WatcherTypeOK ==
    /\ below \subseteq Below /\ made \subseteq below
    /\ watched \subseteq watches /\ watches \subseteq {Root} \cup below
    /\ queue \in Seq(FileEvents) /\ owed \in Seq(FileEvents) /\ buffer \in Seq(FileEvents)
    /\ notify \in {"open", "closed", "reused"} /\ watching \in BOOLEAN
    /\ watcher \in {"start", "list", "loop", "read", "handle", "remove", "done", "joined", "dead"}
    /\ filters \subseteq Extensions /\ filtered \in BOOLEAN
    /\ reported \in Seq(Reports)
    /\ lost \in BOOLEAN
    /\ lateReads \in Nat /\ strayed \subseteq {"add", "read", "remove"}

WatcherInit ==
    /\ below \in SUBSET Below /\ made = {} /\ watched = {} /\ watches = {}
    /\ queue = <<>> /\ owed = <<>> /\ lost = FALSE
    /\ notify = "open" /\ watching = TRUE /\ watcher = "start"
    /\ buffer = <<>> /\ filters = {} /\ filtered = FALSE
    /\ reported = <<>> /\ lateReads = 0 /\ strayed = {}

\* IN_DELETE_SELF and IN_MOVE_SELF, which DirectoryName asks for, come without
\* a name, and the loop leaves out events without a name. IN_MOVED_TO is in no mask.
Mask == UNION {CASE f = "FileName"   -> {"create", "delete", "movedFrom"}
                 [] f = "Attributes" -> {"attrib"}
                 [] f = "Size"       -> {"modify"}
                 [] f = "LastWrite"  -> {"closeWrite"}
                 [] f = "LastAccess" -> {"access"}
                 [] OTHER            -> {} : f \in WatchedFlags}

ActionOf(kind) == CASE kind = "create"    -> "Added"
                    [] kind = "delete"    -> "Removed"
                    [] kind = "movedFrom" -> "Renamed"
                    [] OTHER              -> "Modified"

\* The path is m_path and the name, also for a file in a directory below.
ReportOf(e) == [dir |-> Root, extension |-> e.extension, action |-> ActionOf(e.kind)]
ReportsOf(seq) == [i \in DOMAIN seq |-> ReportOf(seq[i])]

-----------------------------------------------------------------------------
(* The file system. *)

\* Why a change in directory d is not reported: the thread is not in its loop
\* yet, the destructor has begun, d was made after the constructor had begun, or
\* its watch is refused or the queue is full.
Explained(d) ==
    \/ watcher \in {"start", "list"}
    \/ ~watching
    \/ d \in made
    \/ d \in watches

Queue(e) ==
    LET full == Len(queue) >= QueueLimit IN
    /\ notify = "open" /\ e.kind \in Mask
    /\ \/ /\ e.dir \in watched /\ ~full /\ Len(owed) < MaxEvents
          /\ queue' = Append(queue, e) /\ owed' = Append(owed, e)
          /\ UNCHANGED lost
       \/ /\ e.dir \notin watched \/ full
          /\ lost' = (lost \/ ~Explained(e.dir))
          /\ UNCHANGED <<queue, owed>>

Change(e) ==
    /\ e.dir \in {Root} \cup below
    /\ Queue(e)
    /\ UNCHANGED <<tree, filterVars, notify, watching, watcher, buffer, reported, late>>

MakeDirectory(d, x) ==
    /\ d \notin below /\ watcher \notin {"joined", "dead"}
    /\ \/ Queue([dir |-> Root, extension |-> x, kind |-> "create"])
       \/ "create" \notin Mask /\ UNCHANGED events
    /\ below' = below \cup {d} /\ made' = made \cup {d}
    /\ UNCHANGED <<watched, watches, filterVars, notify, watching, watcher, buffer, reported, late>>

-----------------------------------------------------------------------------
(* The filters. *)

isExtensionWatched(x) == filters = {} \/ x \in filters

\* No call overlaps the destructor.
SetFilters(new) ==
    /\ watching
    /\ filters' = new
    /\ filtered' = (filtered \/ new # {})
    /\ UNCHANGED <<tree, events, notify, watching, watcher, buffer, reported, late>>

addExtensionFilter(x) == x \notin filters /\ SetFilters(filters \cup {x})
removeExtensionFilter(x) == x \in filters /\ SetFilters(filters \ {x})
clearExtensionFilters == filters # {} /\ SetFilters({})

-----------------------------------------------------------------------------
(* watch(). *)

\* A call with the number of a descriptor that is another file's by now.
Call(c) == strayed' = IF notify = "reused" THEN strayed \cup {c} ELSE strayed

\* inotify_add_watch() may fail. What it returns, -1 included, is only kept.
Watch(d) ==
    /\ watches' = watches \cup {d}
    /\ watched' \in {watched} \cup (IF notify = "open" THEN {watched \cup {d}} ELSE {})
    /\ Call("add")

WatchRoot ==
    /\ watcher = "start"
    /\ Watch(Root)
    /\ watcher' = IF WithBelow THEN "list" ELSE "loop"
    /\ UNCHANGED <<below, made, events, filterVars, notify, watching, buffer, reported, lateReads>>

\* Mutant: an entry need not be a directory.
ListUntested(d) ==
    /\ watcher = "list" /\ d \notin watches
    /\ Watch(d)
    /\ UNCHANGED <<below, made, events, filterVars, notify, watching, watcher, buffer, reported,
                   lateReads>>

ListNext(d) ==
    /\ watcher = "list" /\ d \in below \ watches
    /\ Watch(d)
    /\ UNCHANGED <<below, made, events, filterVars, notify, watching, watcher, buffer, reported,
                   lateReads>>

\* A directory made during the listing may be seen or not.
ListEnd ==
    /\ watcher = "list" /\ below \ made \subseteq watches
    /\ watcher' = "loop"
    /\ UNCHANGED <<tree, events, filterVars, notify, watching, buffer, reported, late>>

\* The program ends, and its descriptors with it.
Die ==
    /\ watcher' = "dead" /\ watching' = FALSE
    /\ notify' = "closed" /\ queue' = <<>>
    /\ UNCHANGED <<tree, owed, lost, filterVars, buffer, reported>>

\* The iterator, or is_directory(), throws in a function that is noexcept: a
\* directory cannot be listed, or is gone.
ListFails == watcher = "list" /\ Die /\ UNCHANGED late

TestWatching ==
    /\ watcher = "loop"
    /\ watcher' = IF watching THEN "read" ELSE "remove"
    /\ UNCHANGED <<tree, events, filterVars, notify, watching, buffer, reported, late>>

\* Mutant: the descriptor blocks.
ReadBlocking ==
    /\ watcher = "read" /\ queue # <<>>
    /\ \E n \in 1..Len(queue) : buffer' = SubSeq(queue, 1, n) /\ queue' = SubSeq(queue, n + 1, Len(queue))
    /\ watcher' = "handle"
    /\ UNCHANGED <<tree, owed, lost, filterVars, notify, watching, reported, late>>

\* As many events as fit; EAGAIN, or EBADF once it is closed, goes on at once.
Read ==
    /\ watcher = "read" /\ notify # "reused"
    /\ IF queue = <<>>
       THEN watcher' = "loop" /\ UNCHANGED <<buffer, queue>>
       ELSE /\ \E n \in 1..Len(queue) :
                  /\ buffer' = SubSeq(queue, 1, n)
                  /\ queue' = SubSeq(queue, n + 1, Len(queue))
            /\ watcher' = "handle"
    /\ lateReads' = IF notify = "closed" THEN lateReads + 1 ELSE lateReads
    /\ UNCHANGED <<tree, owed, lost, filterVars, notify, watching, reported, strayed>>

\* A read of another file ends when that file has something, if ever. What it
\* takes away is handled like events: changes that never happened are reported,
\* which is not followed here, or the parsing runs out of the buffer and ends
\* the program.
ReadForeign ==
    /\ watcher = "read" /\ notify = "reused"
    /\ lateReads' = lateReads + 1 /\ Call("read")
    /\ \/ /\ watcher' = "loop"
          /\ UNCHANGED <<tree, events, filterVars, notify, watching, buffer, reported>>
       \/ Die

\* Mutant: only the first event of a read is handled.
HandleFirst ==
    /\ watcher = "handle"
    /\ reported' = IF isExtensionWatched(Head(buffer).extension)
                   THEN Append(reported, ReportOf(Head(buffer))) ELSE reported
    /\ buffer' = <<>> /\ watcher' = "loop"
    /\ UNCHANGED <<tree, events, filterVars, notify, watching, late>>

Handle ==
    /\ watcher = "handle"
    /\ reported' = IF isExtensionWatched(Head(buffer).extension)
                   THEN Append(reported, ReportOf(Head(buffer))) ELSE reported
    /\ buffer' = Tail(buffer)
    /\ watcher' = IF Tail(buffer) = <<>> THEN "loop" ELSE "handle"
    /\ UNCHANGED <<tree, events, filterVars, notify, watching, late>>

\* The loop over watches after the other: inotify_rm_watch() for each of them.
RemoveWatch(d) ==
    /\ watcher = "remove" /\ d \in watches
    /\ watches' = watches \ {d} /\ watched' = watched \ {d}
    /\ Call("remove")
    /\ watcher' = IF watches' = {} THEN "done" ELSE "remove"
    /\ UNCHANGED <<below, made, events, filterVars, notify, watching, buffer, reported, lateReads>>

-----------------------------------------------------------------------------
(* The destructor. *)

StopWatching ==
    /\ watching
    /\ watching' = FALSE
    /\ UNCHANGED <<tree, events, filterVars, notify, watcher, buffer, reported, late>>

CloseNotify ==
    /\ ~watching /\ notify = "open"
    /\ notify' = "closed" /\ queue' = <<>> /\ watched' = {}
    /\ UNCHANGED <<below, made, watches, owed, lost, filterVars, watching, watcher, buffer, reported, late>>

\* Somebody in the program opens a file, or makes another watcher.
ReuseNumber ==
    /\ notify = "closed" /\ watcher \notin {"joined", "dead"}
    /\ notify' = "reused"
    /\ UNCHANGED <<tree, events, filterVars, watching, watcher, buffer, reported, late>>

Join ==
    /\ notify # "open" /\ watcher = "done"
    /\ watcher' = "joined"
    /\ UNCHANGED <<tree, events, filterVars, notify, watching, buffer, reported, late>>

ThreadStep ==
    \/ WatchRoot \/ ListEnd \/ ListFails \/ TestWatching \/ Read \/ Handle
    \/ \E d \in Below : ListNext(d)
    \/ \E d \in Directories : RemoveWatch(d)

WatcherNext ==
    \/ \E d \in Directories, x \in Extensions, k \in Kinds :
          Change([dir |-> d, extension |-> x, kind |-> k])
    \/ \E d \in Below, x \in Extensions : MakeDirectory(d, x)
    \/ \E x \in Extensions : addExtensionFilter(x) \/ removeExtensionFilter(x)
    \/ clearExtensionFilters
    \/ ThreadStep \/ ReadForeign
    \/ StopWatching \/ CloseNotify \/ ReuseNumber \/ Join

WatcherSpec ==
    /\ WatcherInit /\ [][WatcherNext]_watcherVars
    /\ WF_watcherVars(ThreadStep) /\ WF_watcherVars(CloseNotify \/ Join)

-----------------------------------------------------------------------------
\* A change that inotify could report is missed in five cases only: it came
\* before the thread was in its loop, or after the destructor had begun; in a
\* directory made after the constructor had begun, or whose watch inotify had
\* refused, the root included, which the code does not notice; or when inotify's
\* queue was full. While the watcher lives and has never had a filter, what it
\* has reported and has still to report is every queued event once and in order,
\* for any partition of the events into reads.
ChangesAreReported ==
    /\ WithBelow => ~lost
    /\ notify = "open" /\ ~filtered =>
           reported \o ReportsOf(buffer \o queue) = ReportsOf(owed)

\* The destructor closes a descriptor its thread still uses, whose number may
\* soon be another file's. Of that file the thread reads at most once, and not
\* if it has begun to add watches to it.
LateUseIsSmall ==
    /\ lateReads <= 1
    /\ "read" \in strayed => "add" \notin strayed

\* Whether or not anything changes, the destructor returns unless the program
\* has ended, or the number of the closed descriptor is another file's before
\* the thread's last read and that file has nothing to read.
WatcherStops ==
    /\ []LateUseIsSmall
    /\ ~watching ~> \/ watcher \in {"joined", "dead"}
                    \/ watcher = "read" /\ notify = "reused"

=============================================================================
