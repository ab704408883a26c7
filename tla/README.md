# libnick in TLA+

TLA+ models of libnick, the Nickvision C++ library of building blocks for
desktop programs, checked by TLC on small instances and, for the properties
that matter most, proved by TLAPS for every value of the constants. The models
are of the Linux build; `Credentials`, `UserDirectories`, `Environment` and
`Localization` are modelled for Windows and macOS as well.

Paths below are those of the repository: `src/`, `include/`, `tests/`.

## Inventory

libnick is a set of classes that a program combines. There is no server and no
central loop; what makes it hard is that several classes start threads, that
all of them may be called from any thread, that they call back into the program
through `Event`, and that some of them keep files and operating-system
resources in step with their members.

| component | state it keeps | operations | interacts with | what is hard |
|---|---|---|---|---|
| `Events::Event<T>` (`include/events/event.h`) | mutex, vector of handlers | subscribe, unsubscribe, invoke, count, copy, move | used by every class below; handlers are the program's code | handlers run under a non-recursive mutex, ids are positions, assignment takes two mutexes |
| `System::Process` (`src/system/process.cpp`) | state, exit code, output, pid, two pipes, watch thread | start, kill, pause, resume, send, waitForExit, getters, destructor | fork, signals, waitpid, pipes; raises `exited` | watch thread against client threads against a child that does as it pleases |
| `Network::NetworkMonitor` | last state | check on construction and on GLib's signal, getter | raises `stateChanged` | check, store and notify are three steps on two threads |
| `Helpers::CancellationToken` | flag, callback | cancel, reset, set, get | callback into the program | the callback is used after the unlock |
| `Database::SqliteDatabase` (+ `SqliteStatement`) | connection, encrypted and unlocked flags, the file | open, unlock, setPassword, execute, createStatement, move | SQLCipher, file system | setPassword replaces the file in steps, any of which may fail or be the last before a crash |
| `Keyring::Keyring` | credentials in memory, a `SqliteDatabase` | open, add, update, remove, destroy, move | `Credentials` for the password, `SqliteDatabase` for the rows | two copies of the data; opening goes through every failure of the layers below |
| `System::SuspendInhibitor` | inhibiting flag, cookie | inhibit, uninhibit, copy, move, destroy | screen saver service | ownership of a cookie under copy and assignment |
| `Helpers::JsonFileBase` (`WindowGeometry` and configurations on top) | object in memory, path | load, get, set, save | file system; raises `saved` | crash or failure while saving |
| `Filesystem::FileSystemWatcher` | filters, watch thread, inotify descriptor | construct, filter, destroy | kernel queue; raises `changed` | the tree changes while it is listed; destructor against the thread |
| `Update::Updater`, `Version` | ids of the latest releases | fetchCurrentVersion, downloadUpdate, copy, move; order of versions | `Web` | selection of releases; ids used later than they were read |
| `System::Environment`, `Filesystem::UserDirectories` | static cache of found programs; the process's variables | variables, findDependency, exec, execAsync; directories | `Process`, file system | files, PATH and variables change under the cache |
| `Localization` | domain, list of languages, switch and LANGUAGE, all static | init, getAvailableLanguages, changeLanguage, gettext functions, getHelpUrl | gettext, `Environment` | four pieces of static state decide together what is shown |
| `System::Credentials` | entries of the system's credential manager | get, create, add, update, remove | shared with other programs | every step is a request of its own; three managers |
| `Keyring::PasswordGenerator` | flags | next | | termination |
| `Helpers::StringHelpers`, `IPv4Address`, `MacAddress`, `WindowGeometry` | none | split, join, replace, quote, base 64; parse and str | | texts that must come back as they were |
| `Web`, notifications, `HardwareInfo`, `AppInfo` | none, or a plain record | requests, readings, setters | services of the platform | see "Not modelled" |

What each should do (the runs and proofs show how far it does):

* Event: an invocation calls exactly the handlers subscribed when it began;
  handlers of one event do not overlap; an id names one handler for ever; no
  deadlock for programs that use events in an order.
* Process: the published state is never contradicted by the child; `Completed`
  is final, carries the true exit code and the whole output, is notified once
  and reached whenever the child has ended; `kill()` ends a
  child that lets SIGTERM end it; the destructor returns.
* NetworkMonitor: the last notification and the stored state are those of the
  last reading; every change is notified once. CancellationToken: the function
  set at the time of `cancel()` is called once, or not at all after a reset.
* SqliteDatabase: at every moment the file under the name, or a file next to it,
  holds all rows, readable with the old or the new password; flags agree with
  the file. Keyring: memory and rows agree after every operation that returns
  true, and neither changed after one that returns false; opening ends.
* SuspendInhibitor: one live cookie per object that reports inhibiting, and
  none after all are gone. JsonFileBase: after a crash the file holds the last
  or the previous save; true means saved. FileSystemWatcher: what changes in
  the watched tree after construction is reported once, in order; the
  destructor returns. Updater: the ids belong to the newest stable and preview
  release. Version: a total order that agrees with equality.
* Environment: what is found exists, and stays what it was while it exists.
  Localization: the last language taken is the one that is shown. Credentials:
  the password a program was given stays the one that is held.
  PasswordGenerator: only the flagged characters, and an end. Helpers: what is
  written can be read back.

`PROJECT.json` lists the hazards of all of these at their lines, with the
property that covers each, or the reason why none does.

## Plan

Done, in this order: `Event`, `Process` with `ProcessLifecycle`,
`SqliteDatabase` and `Keyring`; the services (`NetworkMonitor`,
`CancellationToken`, `SuspendInhibitor`, `JsonFileBase`, `FileSystemWatcher`);
the components that compute (`Version` and `Updater`, `Credentials`,
`Environment` with `UserDirectories`, `Localization`, `ProcessUsage`,
`PasswordGenerator`, the helpers). Each has one passing run, or a share of one,
and a violation run only where the code and what its headers or tests say part.
`KeyedFile` came last, between `SqliteDatabase`, which implements it, and
`Keyring`, which uses it. Everything about safety has proofs; of the liveness
properties of threads the safety core is proved where one could be stated.

Left, the most valuable first:

1. The descriptor table of a program with two `Process` objects: descriptors
   closed twice, write ends inherited by the other's child, a child that waits
   for the end of its input while the destructor joins.
2. An abstract manager of credentials that `Credentials` implements and
   `Keyring` uses, as `KeyedFile` is for its file; and the read errors of the
   loop that loads the rows.
3. The Windows and macOS branches of `Process`, `NetworkMonitor`,
   `SuspendInhibitor` and `FileSystemWatcher`.

## Modules

| module | what it is |
|---|---|
| `ProcessLifecycle` | abstract specification: what a client may rely on of a process |
| `Process` | the object, its client threads, its watch thread, the child, a grandchild, the pipes |
| `MCProcess` | constants of the instances TLC checks |
| `ProcessProofs` | theorems about `Process`, for all constants |
| `Event` | several event objects, several threads, handlers that call events |
| `MCEvent` | constants of the instances TLC checks |
| `EventProofs` | theorems about `Event`, for all constants |
| `SqliteDatabase` | one database file, what lies beside it, the object that has it open, a statement |
| `KeyedFile` | abstract specification: what a database file with a password promises the program that has it open |
| `SqliteProofs` | theorems about `SqliteDatabase`, for all constants |
| `CredentialStore` | abstract specification: what a client may rely on of a keyring |
| `Keyring` | a keyring, its file, the credential manager's entry for it |
| `KeyringProofs` | theorems about `Keyring`, for all constants |
| `NetworkMonitor` | the monitor, the constructing thread, GLib's main loop, the network |
| `CancellationToken` | one token and the threads that use it |
| `SuspendInhibitor` | several inhibitors, threads that assign them, the screen saver service |
| `JsonFileBase` | an object in memory, its file, threads that save, crashes |
| `FileSystemWatcher` | a watcher, its thread, inotify's queue, the tree, the destructor |
| `WatcherProofs` | theorems about `FileSystemWatcher`, for all constants |
| `ServicesProofs` | theorems about `NetworkMonitor`, `CancellationToken`, `SuspendInhibitor`, `JsonFileBase` and `MCServices` |
| `MCServices` | the five services on the instances TLC checks |
| `Version` | parsing, `str()` and the comparison operators |
| `Updater` | several updaters, a changing list of releases, the requests of `Web` |
| `Credentials` | the three credential managers and several programs |
| `UserDirectories` | the environment's variables and the directories they decide |
| `Environment` | the search for dependencies and its static map |
| `Localization` | gettext's static state, the choice of a language, help pages |
| `ProcessUsage` | `getCPUUsage()` and the times it keeps |
| `PasswordGenerator` | the loop that draws characters |
| `StringHelpers`, `Base64`, `Addresses`, `WindowGeometry` | operators, and what they must satisfy |
| `StringProofs` | theorems about `StringHelpers`, for texts of any length |
| `AlgorithmProofs` | theorems about `Version`, `Updater`, `PasswordGenerator`, `Credentials`, `ProcessUsage`, `Environment`, `Localization`, `Base64`, `Addresses`, `WindowGeometry`, and all values of `MCAlgorithms` |
| `MCAlgorithms` | these components on the instances TLC checks |

Some actions have a twin right before them whose comment begins with
"Mutant:". It is the same action with a plausible mistake put in. No
specification uses it; replacing the action by it must make a property fail,
which shows that the property depends on that part of the code.

### Process

State and code:

| variable | in the code |
|---|---|
| `state`, `exitCode`, `output`, `mutex` | `m_state`, `m_exitCode`, `m_output`, `m_mutex` |
| `watch`, `ended`, `status`, `hand` | where `watch()` is, its locals `ended`, `status`, and the part of `buffer` read and not yet appended |
| `child`, `fate`, `term`, `stopNews` | the kernel's view: life of the child, its wait status, a SIGTERM sent, a stop not yet reported by `waitpid(WUNTRACED)` |
| `deaf` | whether the child handles, ignores or blocks SIGTERM (`ChildHandlesTerm`), which is all that `kill()` sends |
| `grand`, `childOut` | whether a descendant, or the child, still holds the write end of the output pipe |
| `outOpen`, `pipe`, `inPipe` | the read end `m_childOutPipes[0]`, and the fill of the two pipes |
| `pc`, `result` | what each client thread is doing, what `waitForExit()` returned to it |
| `host` | whether SIGPIPE has ended the program |
| `written`, `drained`, `fired`, `told` | history, for the properties |

A member function that holds `m_mutex` throughout is one action (`Kill`,
`Pause`, `Resume`). `start()` is two, because the child and the watch thread
run before it stores `Running`. `waitForExit()` looks at the state, and then at
the exit code, under two locks (`WaitSeesCompleted`, `WaitReturn`; an
unsuccessful look changes nothing). `send()` checks without the lock and writes
later (`SendCheck`, `SendWrite`, `SendBroken`). `watch()` is one action per
system call or critical section. Calls that return false, and getters, change
nothing.

Text is counted, not spelled: pipes are first in, first out, so the number of
chunks says which they are. Chunks stand for whatever one `write` of the child
prints. `PipeCap` is the pipe's capacity. What a child does when it handles
SIGTERM is what any child may do: go on, print, or exit. ESRCH after the child
is reaped is modelled; reuse of its pid by another process is not.

### Event

State and code: `handlers`, `owner` are `m_handlers` and the holder of
`m_mutex` of each object; `born` says which objects exist; `pending` is the call
a thread has made and that has not taken effect, `locked` that an assignment
holds the first of its two mutexes; `frames` is the stack of invocations a
thread is inside, each with its event, the position of its loop, whether a
handler is running, and the vector it began with. `ticket`, `spent`, `erased`
are what clients keep and what has been observed.

One action per member function (`Subscribe`, `Unsubscribe`, `Count`,
`Construct` for both constructors, `AssignSelf`, `AssignLocks`, `AssignCopies`
for both assignments), guarded by the mutex being free; `invoke()` is
`InvokeEnters`, `HandlerCalled`, `HandlerReturns`, `InvokeReturns`, because the
mutex is kept while the program's handlers run. A handler makes at most one
call on an event, which may itself be an invocation. Handlers may hold no
function, which `invoke()` skips.

The class does not say in which order a program may use its events, but it
deadlocks without one: the mutex is not recursive and is held over callbacks.
`Rank`, `Ordered` and `OrderAssumption` state the discipline: handlers call
only events above their own, handlers are copied only downwards. The
properties about deadlock are about programs that keep to it.

### SqliteDatabase

State and code: `file` is the disk, three names each with whether it exists, the
rows it holds and the key they are encrypted with (`main`, and the temporary
`.encrypt` and `.decrypt`); `db` is `m_database` (and whether the connection
may write), `isEncrypted`, `isUnlocked` and `flags` are the members of the same
names, `key` is what SQLCipher uses on the connection; `pc`, `password`, `ret`
are the place, the argument and the outcome of `setPassword()`; `statement` is
an INSERT that another thread has prepared and may step at any time.

`setPassword()` ends at once where the code returns early (`Refuse`,
`KeepPlain`), or works on the open connection (`KeyBlank`, `Rekey`,
`RekeyFails`), or replaces the file. What the code knows of the file it knows
from one query, `SELECT count(*)`, in the constructor and after each key
(`Look`): it may fail on a file that can be read, and the code takes that for a
wrong key. `misled` is history: what has led the flags astray. The replacement
is one action per call that the disk or another thread can see: `Attach`,
`ExportRow` and `Exported`, `Close`, `RemoveOld`, `RenameCopy`, `Reopen`, with
`CopyFails`, `Throw`, `ReplaceFails` and `ReopenUnkeyed` where the code notices
a failure or does not look. A `Crash` may come between any two of them.

Abstractions. A row is a model value, and rows are only added: an update or a
deletion is lost in the same ways. A file without rows is one without tables. A
file under the temporary name is whatever an earlier call left there. Once
`setPassword()` has thrown with the connection gone, the object is of no more
use and only a crash ends it in the model: what a program does with a dangling
`m_database` is undefined. When only the new key was refused
(`sqlitedatabase.cpp:146`) the object can still be used, and is. `lapses` is
history: the departures (a leftover copy met, a failed call, flags lost by a
move, a foreign statement) after which the code promises less; the properties
say for each what is still true.

`KeyedFile` is what a client sees of all that: what is written and the key it
has, who has it open and can read it, and a change of the key that is at once
(`SetKey`) or by another file (`BeginChange`, `CloseForChange`, `Change`,
`EndChange`) and may be cut short (`Abandon`, `Stop`). `FileKept` maps `content`
and `fileKey` to the rows and the key of the main file, and of the copy while
nothing has the file's name, between `remove()` and `rename()` (`present`);
`access` to the connection and its flags, `wanted` to the argument of a
`setPassword()` under way, `told` to what it returned, and `faulty` to a lapse,
from which on nothing is promised. The temporary names and the export row by row
are hidden, so these steps must be stutters.

### Keyring

`secret` is the credential manager's entry, `file` the database, `mem`
`m_credentials`, `saving` whether `m_database` is set. The constructor is
`FindSecret` or `CreateSecret`, then `OpenExisting`, `OpenNew`, `UnlockFails` or
`OpenInMemory`. `Credentials::get()` answers a failed lookup as it answers a
missing entry, so `CreateSecret` may replace an entry. `add()`, `update()` and
`remove()` change the file first (`Add`, `Update`, `Remove`) and memory second
(`Remember`), `destroy()` the other way round (`Destroy`, `Unlink`); `Close` is
the destructor or a crash, also between the halves. Of `SqliteDatabase` the
keyring uses the paths that replace no file, and they are summed up in these
actions; that the summary asks nothing of the file but what `SqliteDatabase`
gives is the second half of `LayersKept`. A look at the file that fails
(`LooksFail`) leads to `UnlockFails` as a wrong password does. A generated
password is new: `CreateSecret` never comes up with the present entry or key.

`CredentialStore` is what a client sees of all that: credentials by name that
are stored, those that are shown, one call at a time that changes one of them
(`Insert`, `Replace`, `Delete`, then `Answer`), `Forget` and `Wipe` for
`destroy()`, `Keep` for a keyring without a file. `StoreKept` maps `stored` to
the file's rows, `shown` to `m_credentials`, and `busy` to a call in hand; the
entry of the credential manager, keys and tables are hidden, so everything the
constructor does until it loads the rows must be a stutter.

`LayersKept` says that the keyring stands between the two specifications:
`StoreKept` above it and `FileKept` below, where `content` is the file's rows
once it has a table, `access` whether the object has a database, and `hand` the
password it opened it with. Each operation of the keyring must be one of
`KeyedFile`: a new table a `Create` with the password in hand, an existing file
an `Open` that succeeds, a changed row a `Write` of who can read the file,
`destroy()` a `Delete` after it is closed, anything else a stutter or a `Stop`.

### NetworkMonitor

`connectivity` is what GLib says, `connectionState` is `m_connectionState`,
`handler` the signal's handler, `signalled` a "network-changed" that waits for
the main loop. `checks` says for each of the two threads that run
`checkConnectionState()` how far it is: the connectivity is read
(`ReadConnectivity`), compared without the mutex (`Compare`), stored under it
(`Store`), read again as the event's argument (`ReadArgument`) and announced
(`Notify`): five actions, since the other thread may run between any two.
`told` is what the event last said. Two checks that overlap may store and
announce the older reading last; `overlapped` records that they did, and the
properties are about the rest.

### CancellationToken

`cancelled` and `cancelFunction` are the members, `calling` the threads in
`cancel()` between the unlock and the call (`Cancel`, `CallFunction`). `due`,
`ran` and `tangled` are history. An emptied function that is called throws in a
`noexcept` function: `terminated`.

### SuspendInhibitor

`inhibitors` holds `m_inhibiting` and `m_cookie` of each object; `active` and
`cookies` are the service's. One action per member function, with the request
that is not answered as an alternative; an assignment is two, because it takes
the target's mutex first (`LockTarget`) and the other object's second
(`Assign`). `Rank` and `InhibitorAssumption` state the order in which a program
must assign; crosswise assignments on two threads deadlock, here as in
`Updater`, `SqliteDatabase` and `Keyring`. `shared`, `unanswered` and
`abandoned` are history: the cookies that a copy, a failed request, an
assignment or a failed destructor left in doubt.

### JsonFileBase

`json` is `m_json`, `jsonFile` what the file holds: an object, or none while it
is empty or half written. `save()` is `OpenForSave` (which truncates),
`WriteAndUnlock` and `RaiseSaved`, each of the first two with its failure,
which nobody notices; `End` is a crash or the end of the program at any step.
`lastSaver`, `wrote` and `failed` are history. `WindowGeometry` is a value
stored in such an object.

### FileSystemWatcher

`watched` is the set of inotify watches, `watches` the vector of what
`inotify_add_watch()` returned, -1 included; `queue` the kernel's queue, `buffer`
what one `read()` returned, `filters`, `watching` and `notify` the members
`m_extensionFilters`, `m_watching`, `m_notify`; `watcher` is where `watch()`
stands. The thread adds its watches one by one (`WatchRoot`, `ListNext`,
`ListEnd`), each of which may be refused, while `Change` and `MakeDirectory` go
on; the listing may throw, which ends the program (`ListFails`, since `watch()`
is `noexcept`). Then it tests `m_watching`, reads any number of events and
handles them one by one, and at last removes its watches (`RemoveWatch`). The
destructor is `StopWatching`, `CloseNotify`, `Join`, and the thread goes on with
the closed descriptor, whose number somebody may be given for another file
(`ReuseNumber`): a read of that one (`ReadForeign`) returns when there is
something in it, if ever. `strayed` records what was done to the other file.
`owed` and `lost` are history: the events the kernel queued, and whether a
change was missed for no reason of those in `Explained`. The read does not
block, so the thread spins, as in the code.

### Version and Updater

A token of a version is its number and its place in the order of texts, so that
`stoi()` and the comparison of strings can both be said of it; dashes are kept,
and a field with a dash is no text that one of its tokens is (`Fields`). `<`,
`>` and `==` are translated one by one, as the code has them. `releases` is what
the server lists, newest first; `latest` the two ids each `Updater` keeps;
`fetched` what it last announced; `target` the release that the last step put in
place whole. Nothing counts as found until a version that is not 0.0.0 is: the
loop takes each prerelease up to the first such (`Prereleases`), what it did not
take as stable (`Others`), and the last of either.
`FetchCurrentVersion` is one action, since it uses one answer of the server and
holds the mutex, and `DownloadUpdate` another, much later. A request may fail
(nothing changes), an answer may be no JSON and a tag no version (`Unreadable`,
which ends the program: see "Seen"). `inOrder` is history: every release that
appeared was higher than those listed, and than 0.0.0, which `Version` uses for
"none" (a `0.0.0-dev` sorts below it and is never announced).

### UserDirectories, Environment, Localization

`env` is the process's environment; `os` the system the library is built for.
`Directory` and the operators below it are `UserDirectories::get()`; they are
functions of the state because they read the variables at each call.
`findDependency` is one action, and so are `Install`, `Uninstall`, `setVariable`
(which on Windows removes a variable set to the empty text) and `clearVariable`; `dependencies` is the static map. `Searched` are the places that
the options search, without those of Windows' app aliases. `Localization` has
the three statics of `gettext.cpp`, and `LANGUAGE` in `env`; gettext itself is
external: it has a translation or returns what it was given, and then it matters
whether that was the message or its context. `catalogs` are the `.mo` files,
which come and go; the list of languages is read once something is found, and
kept.

### Credentials, ProcessUsage, PasswordGenerator

`entries` is what the manager holds under one name. Programs ask for it as
`Keyring` does: `get()`, and `create()` when `get()` found nothing (`missing`);
`secret` is the password they were given by either. `add()` and `remove()` are
single requests of anybody, `update()` is `Lookup` and `update`, with others in
between; every request may fail, and a lookup that fails is answered as one that
finds nothing. The managers differ in what they do with a second entry: macOS
refuses one of the same user name, Windows and libsecret replace. `misled` is
history: a program had found nothing although there was an entry. `ProcessUsage`
has the two readings of `getCPUUsage()` as two steps and the subtraction modulo
`Width`. `PasswordGenerator` draws one type of character per step.

### Helpers

`StringHelpers`, `Base64`, `Addresses` and `WindowGeometry` are operators;
characters are model values, bytes are numbers, and the digits of an address
are numbers below ten or sixteen. A loop over a text is one
operator for its body (`SplitRound`, `ReplaceRound`, `MatchRound`, `ArgsRound`),
which changes nothing once the code would leave the loop, and a recursive
function of the number of rounds; that the number taken is enough is proved.
`encode()` and `decode()`, of the same class, work on groups of three bytes and
four digits and are in `Base64`. `Weight` in `Addresses` is the shift of each
byte, written as a product.

## Runs

| run | expects | shows |
|---|---|---|
| `process` | pass | two clients, exit codes 0 and 1, a death by signal, two chunks through a pipe of one, one grandchild, a child that may handle SIGTERM: 10 properties over 218,280 states |
| `process_output` | violation | the output of a child that ends before the first `waitpid()` is lost |
| `process_kill_paused` | violation | `kill()` of a paused process leaves it stopped for ever |
| `process_send` | violation | `send()` to a dead child ends the program by SIGPIPE |
| `event` | pass | two threads, three objects in rank order, four handlers (one raises another event, one unsubscribes there, one is empty), all operations: 5 properties over 174,272 states, no deadlock |
| `event_id` | violation | an id removes another handler after an earlier one was removed |
| `sqlite` | pass | two rows, two passwords, crashes, failures (of a look at the file as well) and statements: 5 properties over 1,574,671 states |
| `sqlite_leftover` | violation | after a crash while encrypting, a second encryption returns true and loses a row |
| `keyring` | pass | two names, two contents, three passwords: 4 properties over 22,490 states |
| `keyring_open` | violation | the constructor dereferences a null database when the password does not fit |
| `services` | pass | the monitor, the token, the inhibitors, the JSON file and the watcher, one at a time: 9 properties over 616,292 states |
| `algorithms` | pass | the updater, the password generator, the search for dependencies, the languages, the credentials and the usage, one at a time, and all values of the helpers: 7 properties over 528,359 states |

`services` and `algorithms` hold several components that share no state. Each
behaviour moves one of them, the `subject`, which is chosen initially; the
others keep one initial state. Interleaving them would multiply their states
and show nothing of any. The subject "values" has a single state, in which the
operators without state are compared with what defines them.

Bounds, and why they suffice. Two clients are enough for every race of two
member functions, and each also races the watch thread, the child and the
grandchild. `PipeCap = 1` makes the pipe full after one chunk, `MaxWrites = 2`
lets a chunk be read while another waits, and lets output come before and after
the child's end. Exit code 1 is also the code of a failed `exec`. `TermHandlers`
is true in `process` and false in the three violation runs, whose
counterexamples need no such child. `MaxCalls = 3` in `event` lets a thread
subscribe, invoke and assign while the other does the same, with nesting depth
two; a deadlock of two mutexes needs two threads and one call of each. Two rows
are the fewest of which a copy can hold one, two passwords the fewest of which
one is wrong. Three secrets let the entry be replaced when both the entry and
the file's key are taken.

In `services`, `MaxChanges = 3` lets the connectivity change while a check
stores what it read of the change before, and once more. Three threads and two
functions let one thread cancel, another cancel in vain and a third replace the
function. Three inhibitors and two assigners are the fewest with a chain of
locks, `MaxCookies = 2` the fewest of which one can be overwritten. Two keys,
two values (and one of another type) and two savers let a save write a mixture,
if it could. `QueueLimit = 2` overflows, `MaxEvents = 2` allows a read of one or
of both events, and one directory below is enough to be listed, missed or new.

In `algorithms`, three releases of which any may be a prerelease, unreadable or
withdrawn cover every prefix the selection looks at; two updaters are enough to
assign; tags include 0.0.0. Two programs ask for one password, with two to draw
and one more user name, so that macOS tells entries apart. Three languages, one
of them the two letters of another, and two domains, one with translations,
exercise the list. Passwords have up to two characters of five types. `Width =
16` with `MaxTime = 3` makes every wrapped difference visible. Texts have up to
three characters of four, byte strings up to four bytes (all paddings), octets
are 0, 9, 16, 127 and 255, so that texts have one to three decimal digits and
hexadecimal ones with and without a zero, versions have two to five fields.
Where there are proofs, they depend on none of these numbers.

`process` does not check deadlock: the system may stop for good when the object
is destroyed, and the child of a paused process that was killed never moves
again (that is what `process_kill_paused` shows). The runs of `sqlite` and
`keyring` do not either: constants run out, nobody has to open a file again,
and a dead process is a state of the model. Nor do `services` and `algorithms`:
a joined watcher, a terminated program and the state of the values are ends,
and `AssignmentsCanGoOn` says of the one component with two mutexes that its
threads do not block each other. `event` checks it: `Finished` is the only
state where the program may stop.

Fairness. A thread inside a call is scheduled (weak fairness of the watch
thread, of the second halves of `start()`, `waitForExit()` and the destructor,
of every call on an event, of a check of the monitor and of the main loop that
dispatches it, of the watcher's thread and of the destructor that closes and
joins it). Nothing makes a client call anything, the child print, read or end, a
descendant end, the network or a file change; the kernel delivers a SIGTERM to a
child that runs, which dies of it unless it handles, ignores or blocks the
signal. A read of another file that was given the number of the watcher's
descriptor need not return, and nobody is made to open that file. Weak fairness
asks nothing of a mutex that is never free for good: in `Process` critical
sections are single actions and only `start()` keeps the mutex over a step, and
in `Event` each thread makes finitely many calls, so every mutex is free in the
end. `PasswordGenerator` draws with `std::uniform_int_distribution`: weak
fairness of each type that can be drawn is what holds with probability one. The
other modules assume none: their properties are about safety. That a
`std::mutex` under endless contention may starve a thread is outside all models.

### Properties

Process. `StateMatchesChild`: the state a client reads does not contradict the
child. `CompletionIsTruthful`: exit code, notification and `waitForExit()` are
of the child's real end, and agree. `OutputIsPrefix`, `LossOnlyBeforeFirstDrain`:
output in order, none twice, and lost only in the case `process_output` shows.
`CompletedIsFinal`: nothing undoes completion. `PromiseKept`: the refinement of
`ProcessLifecycle`. `ExitIsNoticed`, `DestructorReturns`,
`KillEndsRunningChild`: the watch thread ends, and with it the destructor, once
nobody holds the output pipe; and a kill of a running child leads to
`Completed`, if the child leaves SIGTERM its default action and no descendant
keeps the pipe. A child that handles the signal may stay `Killed` for ever, and a
second `kill()` is refused.
`UsageIsMeasured`: calls of `getCPUUsage()` that do not overlap attribute no
time twice, but for what passed between two readings.

Event. `InvocationIsStable`: no subscription, removal, copy or move changes a
vector under an invocation. `InvocationsExclude`: handlers of one event never
overlap. `LockOrder`: mutexes are taken upwards. `CallsReturn`: every call
returns.

SqliteDatabase. `NothingLost`: every committed row is in the file or in a copy
beside it, after any number of crashes. `OwnerCanOpen`: a password the owner
knows opens the file. `FileKept`: without a lapse, the database implements
`KeyedFile`, crashes included; in particular only who can read the file writes
to it or changes its key, and true means that all rows are there under the new
password (`DoneUnlessLapsed`, which is a theorem of its own); `TrueMeansDone`
says so without exceptions, and fails.
`FlagsTellTheFile`: a connection that says it is unlocked reads its file, and
needs a key for it exactly if it says so, whatever failed but for one exception
(`ReopenUnkeyed`); one that says it is locked is so, unless a look at the file
had failed.

Keyring. `LayersKept`: the keyring uses its file as a `KeyedFile` allows
(`FileKept`) and implements `CredentialStore` (`StoreKept`); in particular
memory and file agree between calls (`MemoryIsFile`, which is a theorem of its
own), and nothing but `add()`, `update()`, `remove()` and `destroy()` changes
what is stored: no opening, failure or crash does. `AnswersAreKept`: the file
holds what was reported, crashes or not. `SecretOpensFile`: the entry fits the
file unless it was deleted or replaced. `OpeningSurvives`: the constructor does
not end the program; it does. `SecretsAreHeld`: the password a program was
given, by which it encrypts its keyring, is one that the manager holds until
somebody changes the entry by choice; on macOS always, elsewhere unless a
program went by a "not found" when there was an entry, whose `create()` then
replaces what others were given. `PasswordsEnd`: `next()` ends, with the flagged
characters only.

Services. `MonitorIsCurrent`, `MonitorCatchesUp`: when all is handled, the
stored and the announced state are the network's, and it comes to that.
`CancelCallsOnce`: the function that was set is called once, whoever cancels.
`InhibitionsAreOwned`: an object that reports inhibiting has an inhibition of
its own, and none is left that no object can end, but for the cases named.
`AssignmentsCanGoOn`: assignments in the order of ranks never all wait.
`SavedIsLoaded`: what loads is the last save, and nothing older or newer.
`ChangesAreReported`: every event the kernel queued is reported once and in
order, and changes are missed in five named cases only: early, late, in new
directories, where a watch was refused, or with a full queue. `WatcherStops`: the
destructor returns, unless the listing has ended the program, or the thread's last
read is of another file that was given the number of the closed descriptor; and it
reads at most once after the close.

Algorithms. `ValuesCompareAndConvert`: versions are totally ordered by the
operators, and texts, base 64, arguments, addresses, versions and geometries
come back as they were. `UpdatesAreCurrent`: the newest stable release is
announced, but for two prereleases first and tags 0.0.0; a stable download was not
published before what was announced, in whatever order of versions releases
appear; and where they appear in the order of their versions the newest of all is
the preview and no download is of an older version. Out of order a preview may be
older than announced: announce 2.0.0-beta, publish 1.9.0 and 1.9.1-beta, fetch
the stable version, download the preview. `DependencyIsUsable`: see
Environment above. `LanguageIsHonoured`: the last language taken is shown, by
all four functions, and no context of a message.

## Proofs

`ProcessProofs` (505 obligations), `EventProofs` (1652), `SqliteProofs` (1402),
`KeyringProofs` (569), `ServicesProofs` (764), `WatcherProofs` (559),
`StringProofs` (2614) and `AlgorithmProofs` (1805) are checked to the last
leaf. They assume only the named assumptions of their modules, listed at the
end, which the passing runs evaluate. The argument is the same in all: an
invariant that is inductive and implies the properties, one lemma per part of
it, and in it one step per action.

* Process. The properties are not inductive as they stand. `Inv` adds who holds
  the mutex and why (`LockInv`: only `start()`, with the state still
  `Created`), what is true before `start()` (`BirthInv`), how `ended`, `status`,
  `fate` and the closed read end hang together (`EndInv`), what an end of file
  means (`OutputInv`), and where each thread must be for what it has seen
  (`CompletionInv`). Proved: `TypeCorrect`, `StateIsTruthful`,
  `ReportsAreTruthful`, `OutputInOrder`, `LossIsBounded`, `CompletionIsFinal`
  and `Refinement`, for any clients, exit codes, bounds and pipe capacity, with
  and without grandchildren. `EndCanCome` and `EndIsNearer` are the part of
  `ExitIsNoticed` that needs no fairness: once the child is dead and nobody
  else holds its pipe, the guard of the watch thread's next step holds, or a
  `start()` that will free the mutex is on its way (`EndIsOpen`), and the
  variant `StepsLeft`, twice what lies in the pipe plus the steps after it,
  falls with each of their steps and rises with none (`EndComesNearer`).
  `KillIsFatal` is that part of `KillEndsRunningChild`: a running child that was
  killed has its SIGTERM, and no `pause()` comes between that and its death; that
  it dies of the signal is fairness of a child that does not handle it.
* Event. `Inv` says that a frame's event is owned by its thread, sees its vector
  and ranks below the frames above it (`FrameInv`); that an owned mutex has a
  frame or an assignment between its two locks (`OwnerInv`); that a pending
  call ranks above all frames of its thread (`PendingInv`); that handlers sit
  below what they use, also after copies and moves (`HandlersInv`); and that an
  object under construction is used by nobody else (`BornInv`). From it:
  `TypeCorrect`, `IterationIsSafe`, `HandlersRunOneAtATime`, `LocksFollowRank`,
  for any threads, objects, handlers and calls in rank order. `SomeCallGoesOn`
  concludes that there is no deadlock: while any thread is in a call, some
  thread's next step has its guard true (`CallsGoOn`). A thread that waits is
  waiting for an owner who is in a call itself (`OwnersAreBusy`) and, by the
  ranks, waits higher if it waits at all (`BlockedFacts`); of finitely many
  threads the one that waits highest therefore does not wait
  (`HighestGoesOn`, by well-foundedness on the number of threads above).
* SqliteDatabase. `Inv` adds that the flags of a usable connection tell whether
  it reads the file, or what has led them astray (`FlagsInv`, with every
  failure, a failed look included); that a file without rows has no key
  (`BlankInv`); that rows are only in files that exist and the unencrypted copy
  is never encrypted (`FilesInv`); how far the copy is at each step of a
  replacement (`CopyInv`: never ahead of the file, equal to it before the file
  is removed, and all there is until it is renamed); and that the key on the
  disk is one the owner can try (`KeyInv`). `CopyInv` is needed because the
  moment between `remove()` and `rename()` is safe only for a copy that was
  complete before it. Proved: `TypeCorrect`, `CrashesLoseNothing`,
  `OwnerIsNotLockedOut`, `TrueIsHonest`, `FlagsAreTrue`, for any rows and
  passwords. `FileRefined`: every step without a lapse is a step of `KeyedFile`
  or a stutter. It needs `AccessInv`, that who replaces the file or has a
  statement can read it, and `BlankInv`; and `CopyInv` once more, since
  `RemoveOld` is the `Change` only because the copy then holds exactly the
  file's rows.
* Keyring. `Inv` says when the object has a database and what a call in hand
  has left to do (`PhaseInv`), that memory is behind the file by exactly that
  change (`MemoryInv`), and that a file without a table has no rows, one with a
  table has a key, and the constructor holds the entry it found (`FileInv`):
  the last is what makes a crash between the entry and the file harmless.
  Proved: `TypeCorrect`, `MemoryFollowsFile`, `NoAnswerIsLost`,
  `OwnSecretOpensFile`, for any names, contents and passwords. `StoreRefined`:
  every step of the keyring is a step of `CredentialStore` or a stutter.
  `MemoryInv` is what it takes: `add()` looks for the name in memory and writes
  the file, which is an `Insert` only because the two agree (`ChangeWrites`),
  and `Remember` is an `Answer` only because the file is ahead by this change
  and no other (`RememberAnswers`). `LayersRefined` adds that every step is one
  of `KeyedFile` or a stutter, from `FileInv` and `PhaseInv`: the password in
  hand is the key of a file that has a table.
* NetworkMonitor, CancellationToken, JsonFileBase. `CheckInv` says that without
  an overlap one check at most is under way, and that what it has read is the
  network's state unless a signal is due: from it `MonitorSettles`.
  `MonitorCanCatchUp` and `MonitorComesNearer` are the part of `MonitorCatchesUp`
  that needs no fairness, with the variant `MonitorLeft`. `CallInv`:
  the thread between unlock and call is alone, and finds the function that was
  set when it cancelled: `CancelsOnce`. `SaveInv`: one thread at most has the
  file open and writes the object as it was then: `SavesAreLoaded`.
* SuspendInhibitor. The invariant adds that cookies are
  older than the next one to be made (`CookiesAreOld`) and that a destroyed
  object keeps nothing (`GoneIsEmpty`), which is why a new inhibition cannot
  have an old owner: `InhibitionsOwned`. `AssignmentsGoOn` is an argument about
  order: every assignment needs an object above its target (`RanksAscend`), so
  the one whose target ranks highest needs an object that nobody has locked,
  and a highest one exists by well-foundedness.
* FileSystemWatcher. `WatcherInv`: what is in the queue, the buffer and the
  reports is together what the kernel queued (`ReportInv`, with lemmas about
  concatenation for any partition into reads), what was there from the start has
  had its watch tried once the loop runs (`WatchInv`), the buffer is empty but
  in the loop over it (`BufferInv`), and there is no filter unless there was one
  recorded (`FilterInv`). From it `ChangesReported`, for any tree, filters,
  masks, refused watches and queue limits. `LateUseSmall`: because `m_watching`
  is cleared before the close, at most one read is past the test already, and
  none when watches are still to be added (`CloseInv`). `DestructorCanReturn`
  and `DestructorIsNearer` are the part of `WatcherStops` that needs no
  fairness: after the close neither the listing, nor the removal of the watches,
  nor a read waits for anything, but a read of another file, and the variant
  `StopsLeft` falls with each step of the thread.
* The services together. `TypeCorrect` of `MCServices` from the types of the
  five; that of the inhibitors needs that every cookie an object or a history
  has is one that the service made (`CookiesInv`).
* Environment. `MapInv` (what the map keeps under a name is a file of that
  name), `PathInv` (PATH is a sequence of directories whatever it was set to)
  and `AnswerInv`; that `Search` returns something found, and the first, is by
  well-foundedness of the places. From it `DependencyUsable`.
* Localization. `LanguageInv` says that the switch and LANGUAGE are those of the
  last language taken, that this is one of the list, and that a help page is
  too and fits the locale: `LanguageHonoured`.
* Version and Updater. `VersionsOrdered`: the operators describe one
  total order in which a development version precedes its release, for all
  numbers and all texts. `VersionsKept`: a version comes back from its own text
  exactly if its development part has no dash. `UpdatesCurrent`: what is
  announced is the newest stable release with the exceptions named, and a stable
  download was not published before it, for any history of the list of releases;
  for histories in the order of versions (`inOrder`, a hypothesis of these parts),
  what is announced as the preview is the newest of all, and no download is older
  than what was announced. Needed: ids
  descend along the list (`ListInv`), so do versions while releases are
  published in order (`OrderInv`), and the id that is kept is not older than
  what was announced while that is listed (`LatestInv`).
* PasswordGenerator, Credentials, getCPUUsage(). `PasswordsFlagged`: only
  flagged characters are ever in the text (`PasswordInv`). `SecretsHeld`: for
  any programs, user names and passwords; needed is that who is still to create
  found nothing rightly, unless `misled` says otherwise (`MissingIsTrue`).
  `UsageMeasured`: each caller's readings, the kept times and the gap between
  two readings bound the process's time (`CallInv` there), for any width and any
  callers.
* Conversions. `Base64Kept`: `decode()` undoes `encode()` for byte strings of
  any length, from the arithmetic of one group and the fact that the digits
  kept are a prefix. `AddressesKept`: addresses come back from their number and
  from the digits of their text, for all bytes.
  `GeometriesKept`: a window's geometry comes back from its JSON.
* Texts. `ArgumentsKept` (quoted, joined and split again, words are the same),
  `TrimKeepsTheRest`, `ReplacedAsJoined` (replacing is splitting and joining),
  for texts of any length over any characters. `SearchesEnd` and `MatchesEnd`:
  the loops of `split()`, `replace()` and `splitArgs()` end, within as many
  rounds as the definitions take, for all texts and delimiters that are not
  empty. That a loop exists as a function whose values are of one set is
  `LoopExists`, from the recursive definition on naturals; what holds of every
  round is shown by the least number of rounds for which it fails (`EveryRound`,
  by well-foundedness). The loops of `split()` and `replace()` stay `Alike`
  round by round: the text replaced so far is the tokens joined, followed by
  what is not yet split. For `splitArgs()`, one match takes exactly one quoted
  word. With the theorems above, `ValuesKept`: all that `MCAlgorithms` compares
  of values holds for all values.

The assumptions: `ProcessAssumption`, `EventAssumption` (with finitely many
threads) and `OrderAssumption`, `SqliteAssumption`, `KeyringAssumption`,
`MonitorAssumption`, `TokenAssumption`, `InhibitorAssumption`, `JsonAssumption`,
`WatcherAssumption`, `EnvironmentAssumption`, `LocalizationAssumption`,
`VersionAssumption`, `UpdaterAssumption`, `Base64Assumption`,
`AddressAssumption`, `StringAssumption` and `UsageAssumption`. Each says what
kind of value a constant is, that model values for "none" are not among the
others, or, in `OrderAssumption` and `InhibitorAssumption`, the order in which a
program must use its objects.

What failed proofs showed of the models, since put right: alternatives that
overlapped where the code takes the first that fits (in `DevTokens`, in the
reason for a missed change, in `changeLanguage()`); a release `0.0.0-dev`, which
the code's 0.0.0 for "none" hides; and a field with a dash that equalled one of
its own tokens.

Only model-checked:

* The liveness properties `ExitIsNoticed`, `DestructorReturns`,
  `KillEndsRunningChild`, `CallsReturn`, `MonitorCatchesUp`, and the liveness
  halves of `WatcherStops` and `PasswordsEnd`: they need fairness and ENABLED.
  What is proved of them is above: `EndCanCome`, `EndIsNearer`,
  `SomeCallGoesOn`, `LocksFollowRank`, `AssignmentsGoOn`,
  `DestructorCanReturn`, `DestructorIsNearer`, `KillIsFatal`,
  `MonitorCanCatchUp`, `MonitorComesNearer`, `PasswordsFlagged`. That the
  guards named there are those under which the actions are enabled was checked
  by TLC.
* The violation runs, which are single counterexamples.

## Findings

* `process.cpp:604`: the read end is closed when the child's end is reported,
  before the last read. A child faster than the first `waitpid()` loses its
  output, which `tests/processtests.cpp:84` expects.
* `process.cpp:430`: a paused process can be killed but does not end, cannot be
  resumed, and blocks `waitForExit()` and the destructor.
* `process.cpp:547`: `send()` races the child's end and raises SIGPIPE.
* `process.cpp:613`: `getOutput()` is not empty before completion, contrary to
  `process.h:85`.
* `event.h:104`: ids are positions and go stale.
* `sqlitedatabase.cpp:130`: a leftover `.encrypt` or `.decrypt` file is taken
  for the new copy; `setPassword()` returns true and the rows stored since are
  gone.
* `keyring.cpp:40`: a password that does not unlock the file ends the program
  in the constructor; one failed lookup of the password leads there, and so does
  one look at a readable file that fails.

Seen while modelling, without a run of their own:

* Keyring: after `destroy()`, `add()` stores in memory and returns true, where
  `keyring.h:98` says that all methods return false.
* FileSystemWatcher: files of watched subdirectories are reported with the path
  of the root and their name (`filesystemwatcher.cpp:250`); IN_Q_OVERFLOW is
  dropped, so lost events go unnoticed; so does a watch that
  `inotify_add_watch()` refuses (`filesystemwatcher.cpp:225`, `:232`); the
  listing (`:228`) throws in a `noexcept` function when a directory cannot be
  read; the destructor closes a descriptor the thread still uses, to add watches
  (`:232`), read (`:239`) and remove watches (`:275`), whichever file has its
  number by then.
* SqliteDatabase: any failure of `SELECT count(*)` counts as a wrong key, so
  that a plain file that is busy opens as encrypted; when `sqlite3_key()` fails
  after the replacement (`sqlitedatabase.cpp:146`), the encrypted file stays
  open under the flags of the plain one, and the next `setPassword()` replaces
  it by an empty copy; after the other exceptions `m_database` dangles, and the
  destructor closes it again.
* Process: `kill()` stores `Killed` of a child that handles or ignores SIGTERM,
  and nothing through the object ends it then. `getCPUUsage()` indexes an empty
  vector when `/proc/<pid>/stat` was opened but can no longer be read
  (`process.cpp:229-237`).
* NetworkMonitor: a check that overlaps another may announce the older state
  last (`overlapped`), and the argument of the event is read without the mutex.
* CancellationToken: a `reset()` between unlock and call ends the program.
* SuspendInhibitor: copies share a cookie, and assignment overwrites one that is
  then never released; crosswise assignment of two objects deadlocks, also in
  `Updater`.
* JsonFileBase: `save()` returns true and raises `saved()` whatever became of
  the file; `create_directories()` throws in a `noexcept` function.
* Updater: a second prerelease found first is announced as stable; a tag such as
  `v1.0`, or an answer that is no JSON, throws in a `noexcept` function
  (`updater.cpp:84`, `web.cpp:56`); release ids are narrowed to `int`;
  `downloadFile()` removes the old file before the request.
* Version: the constructor from four parts keeps the prefix in the development
  part, and a development part with a dash does not parse back.
* StringHelpers: `1 + wcsrtombs(...)` hides its error value; `splitArgs()` makes
  an argument of a trailing blank; `split()` with an empty delimiter does not
  end; `stoui()` returns 0, not `UINT_MAX`, for a number beyond `unsigned long`.
* Environment: `std::filesystem::exists()` throws in the `noexcept`
  `findDependency()` when a directory may not be looked at
  (`environment.cpp:185`, `:195`, `:204`), and so do the iterator and
  `is_directory()` in `getAvailableLanguages()` (`gettext.cpp:47-49`).
  `clearVariable()` sets the empty text, which removes the variable on
  Windows only: elsewhere `hasVariable()` and `getDeploymentMode()` still see it.
  UserDirectories: a line without
  `=` in `user-dirs.dirs` is indexed past its end; on macOS `Config` and
  `LocalData` are the same directory.
* Localization: `changeLanguage("")` empties LANGUAGE instead of restoring the
  user's; `getHelpUrl()` prefers `pt` to `pt_BR` when both are there, and asks
  for the system's language, not for the chosen one; languages that appear
  later are not listed.
* getCPUUsage(): no lock, and more than 100 % of all processors is possible.
* Credentials: two programs that open a keyring of one name for the first time
  at once both find no password, and but for macOS the second password replaces
  the one the first has encrypted its file with; `update()` brings back an entry
  that is removed between its two requests; on macOS adding a name under another
  user name makes a second entry; on Windows `get()` leaks an entry without a
  password.

## Hazards without a property

* `process.cpp:133`, `process.cpp:148`: inherited write ends, and a destructor
  that joins before it closes the child's input: they need two objects and
  their descriptors, see Plan.
* `process.cpp:626`, listed with `process.cpp:148`: a handler that destroys its
  own `Process` makes a thread join itself, which ends the program at once:
  nothing to interleave.
* `keyring.cpp:43`: read errors while the rows are loaded are not modelled.
* `keyring.cpp:162`: two threads that change a `std::vector` without a lock are
  undefined behaviour, which has no outcomes to choose from.

Others are covered in part. Where the code itself does the harm (calls of
`getCPUUsage()` or checks of the monitor that overlap, crosswise assignments, a
function replaced while it is called, shared cookies, a save that fails, lists of
releases it takes wrong, no content flag, a lapse of `setPassword()`), the model
has it do so or an assumption excludes it, and the property says what holds
otherwise; the notes in `PROJECT.json` draw the line for each.

## Not modelled

* The Windows branches, and the macOS branches that differ from Linux, of all
  but `Credentials`, `UserDirectories`, `Environment`, `Localization` and the
  arithmetic of `getCPUUsage()`.
* Of Process: failures of `pipe()`, `fork()` and allocation, EINTR, reuse of a
  pid after the child is reaped, an unreadable `/proc`, the memory reading, the
  close of descriptors already closed. A client that destroys the object inside
  its own `exited` handler ends the program; clients of the model do not.
* Of Event: handlers that throw (`invoke()` is `noexcept`: the program ends),
  handlers that make more than one call, a program that destroys an event
  while a call is in progress.
* Of SqliteDatabase: `registerFunction()`, move assignment, several objects on
  one file, dropped tables. Of the values and contexts of SQLite (`SqliteValues`)
  nothing: one call of the library each.
* Of Keyring: moves; `remove()` and `destroy()` while another call is under way;
  an error while the rows are read; two keyrings of one name.
* Of NetworkMonitor: destruction during a check. Of SuspendInhibitor: two
  programs. Of FileSystemWatcher: the removal of directories, IN_MOVED_TO (in no
  mask), a failure of `inotify_init`, and the reports that foreign data would
  make. Of Updater: locks of assignment (those of `SuspendInhibitor`). Of
  Environment: searches on several threads, which are undefined, directories
  that may not be looked at (the search throws, as does the list of languages),
  a dependency given with its extension, and the debug text. Of UserDirectories:
  that `get()` makes a missing directory. Of Web: `getWebsiteExists()`. Of the
  helpers: conversions of characters, `isValidUrl()`, sizes and flags.
* Notifications and HardwareInfo call or read the platform and keep nothing.
  `AppInfo` is a record of independent texts.
