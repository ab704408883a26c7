--------------------------- MODULE SqliteDatabase ---------------------------
(***************************************************************************)
(* Nickvision::Database::SqliteDatabase (src/database/sqlitedatabase.cpp)  *)
(* and the SqliteStatement objects made from it: one database file, the    *)
(* object that has it open, a statement another thread may hold, and the   *)
(* replacement of the file by setPassword(), one file-system call at a     *)
(* time, with a crash possible between any two of them.                    *)
(*                                                                         *)
(* A file is the set of rows it holds and the key they are encrypted with. *)
(* A file without rows has no bytes, so that it is readable with any key.  *)
(* Rows are only added.                                                    *)
(***************************************************************************)
CONSTANTS
    Rows,        \* what a program may store, each once
    Passwords,   \* the passwords a program may use, the empty one excluded
    Plain,       \* the empty password: no encryption
    NoRow,       \* no statement is alive
    Failures,    \* whether calls of SQLCipher and of the file system may fail
    Statements   \* whether a statement may be alive while setPassword() runs

ASSUME SqliteAssumption ==
    /\ Plain \notin Passwords
    /\ NoRow \notin Rows
    /\ Failures \in BOOLEAN
    /\ Statements \in BOOLEAN

VARIABLES
    file,         \* the database file and the temporary ones next to it
    db,           \* m_database: no object, a connection, nullptr or unusable
    key,          \* the key SQLCipher uses on the connection
    isEncrypted,  \* m_isEncrypted
    isUnlocked,   \* m_isUnlocked
    flags,        \* m_flags: given by the constructor or never initialized
    misled,       \* history: what has led the two flags astray, "no" if nothing
    pc,           \* where setPassword() stands, "idle" outside of it
    password,     \* its argument
    ret,          \* how the last call ended, when it was setPassword()
    statement,    \* the row that a living INSERT statement would store
    saved,        \* history: the rows ever committed
    held,         \* history: the rows the open database has been holding
    known,        \* history: the passwords the owner has to try
    lapses        \* history: what went wrong in some setPassword()

objectVars == <<db, key, isEncrypted, isUnlocked, flags, misled>>
history == <<saved, held, known, lapses>>
vars == <<file, objectVars, pc, password, ret, statement, history>>

Keys == Passwords \cup {Plain}
Names == {"main", "encrypt", "decrypt"}
File == [exists : BOOLEAN, rows : SUBSET Rows, key : Keys]
NoFile == [exists |-> FALSE, rows |-> {}, key |-> Plain]
Blank == [exists |-> TRUE, rows |-> {}, key |-> Plain]

\* The file f can be read with the key k.
Readable(f, k) == f.rows = {} \/ f.key = k

\* SELECT count(*) FROM sqlite_master, whose success is what isUnlocked() says
\* from then on. It may fail on a file that can be read (it is busy, or the disk
\* has an error), and the code takes any failure for a wrong key.
Look(f, k) ==
    \/ isUnlocked' = Readable(f, k) /\ misled' = "no"
    \/ Failures /\ Readable(f, k) /\ isUnlocked' = FALSE /\ misled' = "unread"

\* The file f after the commit of rows R over a connection with key k.
Store(f, R, k) ==
    [f EXCEPT !.rows = @ \cup R, !.key = IF f.rows = {} THEN k ELSE @]

main == file["main"]
temp == IF password = Plain THEN "decrypt" ELSE "encrypt"
connected == db \in {"open", "readonly"}

TypeOK ==
    /\ file \in [Names -> File]
    /\ db \in {"none", "open", "readonly", "null", "unusable"}
    /\ key \in Keys
    /\ isEncrypted \in BOOLEAN /\ isUnlocked \in BOOLEAN
    /\ flags \in {"given", "indeterminate"}
    /\ misled \in {"no", "unread", "unkeyed"}
    /\ pc \in {"idle", "attach", "export", "copy", "close", "remove", "rename", "reopen"}
    /\ password \in Keys
    /\ ret \in {"none", "true", "false", "threw"}
    /\ statement \in Rows \cup {NoRow}
    /\ saved \subseteq Rows /\ held \subseteq Rows
    /\ known \subseteq Keys
    /\ lapses \subseteq {"leftover", "failure", "flags", "statement"}

Init ==
    /\ file = [n \in Names |-> NoFile]
    /\ db = "none"
    /\ key = Plain
    /\ isEncrypted = FALSE /\ isUnlocked = FALSE
    /\ flags = "given"
    /\ misled = "no"
    /\ pc = "idle"
    /\ password = Plain
    /\ ret = "none"
    /\ statement = NoRow
    /\ saved = {} /\ held = {} /\ known = {Plain} /\ lapses = {}

-----------------------------------------------------------------------------
(* The object's life. *)

\* SqliteDatabase(path): opens the file, creates it when there is none, and
\* takes it for encrypted when it cannot be read without a key. A temporary
\* file that a crash left behind is not looked at.
Construct ==
    /\ db = "none" /\ pc = "idle"
    /\ file' = IF main.exists THEN file ELSE [file EXCEPT !["main"] = Blank]
    /\ db' = "open"
    /\ key' = Plain
    /\ Look(main, Plain)
    /\ isEncrypted' = ~isUnlocked'
    /\ flags' = "given"
    /\ ret' = "none"
    /\ held' = main.rows
    /\ known' = IF main.rows = {} THEN {Plain} ELSE known
    /\ UNCHANGED <<pc, password, statement, saved, lapses>>

\* SqliteDatabase(SqliteDatabase&&) copies every member but m_flags.
Move ==
    /\ connected /\ pc = "idle"
    /\ flags' = "indeterminate"
    /\ ret' = "none"
    /\ UNCHANGED <<file, db, key, isEncrypted, isUnlocked, misled, pc, password, statement,
                   history>>

\* What ends with the object and what ends with the process.
Forget ==
    /\ db' = "none"
    /\ key' = Plain
    /\ isEncrypted' = FALSE /\ isUnlocked' = FALSE
    /\ misled' = "no"
    /\ pc' = "idle"
    /\ ret' = "none"
    /\ UNCHANGED <<file, flags, password, history>>

\* ~SqliteDatabase(), after the statements made from it.
Destroy ==
    /\ connected \/ db = "null"
    /\ pc = "idle"
    /\ statement = NoRow
    /\ Forget
    /\ UNCHANGED statement

\* The process ends at any point: what is on disk stays.
Crash ==
    /\ db # "none"
    /\ Forget
    /\ statement' = NoRow

\* Mutant: the answer of sqlite3_key is trusted, nothing is read.
UnlockUnread(p) ==
    /\ connected /\ pc = "idle"
    /\ isEncrypted /\ ~isUnlocked
    /\ p # Plain
    /\ key' = p
    /\ isUnlocked' = TRUE
    /\ misled' = "no"
    /\ known' = known \cup {p}
    /\ ret' = "none"
    /\ UNCHANGED <<file, db, isEncrypted, flags, pc, password, statement, saved, held, lapses>>

\* unlock(password): tries the password unless there is nothing to unlock.
\* sqlite3_key() refuses an empty one, and may fail with any other.
Unlock(p) ==
    /\ connected /\ pc = "idle"
    /\ isEncrypted /\ ~isUnlocked
    /\ \/ /\ p # Plain
          /\ key' = p
          /\ Look(main, p)
          /\ known' = IF Readable(main, p) THEN known \cup {p} ELSE known
       \/ /\ p = Plain \/ Failures
          /\ UNCHANGED <<key, isUnlocked, misled, known>>
    /\ ret' = "none"
    /\ UNCHANGED <<file, db, isEncrypted, flags, pc, password, statement, saved, held, lapses>>

-----------------------------------------------------------------------------
(* Rows. *)

\* An INSERT of r is committed.
Commit(r) ==
    /\ db = "open" /\ Readable(main, key)
    /\ r \notin saved
    /\ file' = [file EXCEPT !["main"] = Store(@, {r}, key)]
    /\ saved' = saved \cup {r}
    /\ held' = held \cup {r}
    /\ UNCHANGED known

\* execute("INSERT ...")
Execute(r) ==
    /\ pc = "idle" /\ isUnlocked
    /\ Commit(r)
    /\ ret' = "none"
    /\ UNCHANGED <<objectVars, pc, password, statement, lapses>>

\* createStatement("INSERT ...")
CreateStatement(r) ==
    /\ Statements
    /\ pc = "idle" /\ connected /\ isUnlocked /\ Readable(main, key)
    /\ statement = NoRow /\ r \notin saved
    /\ statement' = r
    /\ ret' = "none"
    /\ UNCHANGED <<file, objectVars, pc, password, history>>

\* SqliteStatement::step(). It does not take m_mutex, so that it may run
\* between any two calls of setPassword() that use the connection.
StepStatement ==
    /\ statement # NoRow
    /\ pc \in {"idle", "attach", "export", "close"}
    /\ Commit(statement)
    /\ lapses' = IF pc = "close" THEN lapses \cup {"statement"} ELSE lapses
    /\ UNCHANGED <<objectVars, pc, password, ret, statement>>

\* ~SqliteStatement()
FinalizeStatement ==
    /\ statement # NoRow /\ pc # "copy"
    /\ statement' = NoRow
    /\ UNCHANGED <<file, objectVars, pc, password, ret, history>>

-----------------------------------------------------------------------------
(* setPassword(password), under m_mutex from the first step to the last. *)

\* nullptr, or encrypted and locked: false; or an empty database that
\* sqlite3_key() gives no key.
Refuse(p) ==
    /\ \/ db = "null" \/ (isEncrypted /\ ~isUnlocked)
       \/ Failures /\ connected /\ ~isEncrypted /\ p # Plain /\ main.rows = {}
    /\ ret' = "false"
    /\ UNCHANGED <<file, db, key, isEncrypted, isUnlocked, misled, pc, known>>

\* No password for a database that has none: nothing to do.
KeepPlain(p) ==
    /\ connected /\ ~isEncrypted /\ p = Plain
    /\ ret' = "true"
    /\ UNCHANGED <<file, db, key, isEncrypted, isUnlocked, misled, pc, known>>

\* An empty database only needs the key, which reaches the disk with the
\* first row. That it cannot be looked at afterwards is no failure of the call.
KeyBlank(p) ==
    /\ connected /\ ~isEncrypted /\ p # Plain
    /\ main.rows = {}
    /\ key' = p
    /\ Look(main, p)
    /\ isEncrypted' = TRUE
    /\ ret' = "true"
    /\ known' = {p}
    /\ UNCHANGED <<file, db, pc>>

\* Mutant: sqlite3_key() in its place, which leaves the file as it is.
RekeyConnection(p) ==
    /\ connected /\ isEncrypted /\ isUnlocked /\ p # Plain
    /\ db = "open"
    /\ key' = p
    /\ ret' = "true"
    /\ known' = {p}
    /\ UNCHANGED <<file, db, isEncrypted, isUnlocked, misled, pc>>

\* sqlite3_rekey() in one transaction, its result ignored.
Rekey(p) ==
    /\ connected /\ isEncrypted /\ isUnlocked /\ p # Plain
    /\ db = "open"
    /\ file' = [file EXCEPT !["main"].key = IF main.rows = {} THEN @ ELSE p]
    /\ key' = p
    /\ ret' = "true"
    /\ known' = {p}
    /\ UNCHANGED <<db, isEncrypted, isUnlocked, misled, pc>>

\* Encrypting what is plain, or decrypting what is not, goes through a copy;
\* so does an empty database whose tables could not be counted.
BeginReplace(p) ==
    /\ connected
    /\ \/ ~isEncrypted /\ p # Plain /\ (main.rows # {} \/ Failures)
       \/ isEncrypted /\ isUnlocked /\ p = Plain
    /\ pc' = "attach"
    /\ ret' = "none"
    /\ known' = known \cup {p}
    /\ UNCHANGED <<file, db, key, isEncrypted, isUnlocked, misled>>

\* The key is changed neither on disk nor in memory, and yet the answer is
\* true: SQLCipher failed, or the connection is read-only.
RekeyFails(p) ==
    /\ connected /\ isEncrypted /\ isUnlocked /\ p # Plain
    /\ Failures \/ db = "readonly"
    /\ ret' = "true"
    /\ lapses' = lapses \cup {IF db = "readonly" THEN "flags" ELSE "failure"}
    /\ UNCHANGED <<file, db, key, isEncrypted, isUnlocked, misled, pc, known>>

SetPassword(p) ==
    /\ pc = "idle"
    /\ password' = p
    /\ \/ /\ Refuse(p) \/ KeepPlain(p) \/ KeyBlank(p) \/ Rekey(p) \/ BeginReplace(p)
          /\ UNCHANGED lapses
       \/ RekeyFails(p)
    /\ UNCHANGED <<flags, statement, saved, held>>

\* ATTACH: opens the temporary file, which may be left from an earlier call,
\* or creates it. sqlcipher_export() stops at the first table that the file
\* already has. No result is looked at.
Attach ==
    /\ pc = "attach"
    /\ LET t == file[temp]
           attached == (t.exists \/ db = "open") /\ Readable(t, password)
       IN  /\ file' = IF attached /\ ~t.exists THEN [file EXCEPT ![temp] = Blank] ELSE file
           /\ pc' = IF attached /\ t.rows = {} THEN "export" ELSE "close"
           /\ lapses' = IF t.rows # {} THEN lapses \cup {"leftover"}
                        ELSE IF ~attached THEN lapses \cup {"flags"} ELSE lapses
    /\ UNCHANGED <<objectVars, password, ret, statement, saved, held, known>>

\* ATTACH, or the export at any point, fails; so it must where the key was not
\* set when the file was last reopened.
CopyFails ==
    /\ pc \in {"attach", "export", "copy"}
    /\ Failures \/ (pc = "export" /\ db = "readonly")
    /\ pc' = "close"
    /\ lapses' = lapses \cup {IF Failures THEN "failure" ELSE "flags"}
    /\ UNCHANGED <<file, objectVars, password, ret, statement, saved, held, known>>

\* Mutant: the copy is attached without a key.
ExportPlainRow(r) ==
    /\ pc \in {"export", "copy"} /\ db = "open" /\ Readable(main, key)
    /\ r \in main.rows \ file[temp].rows
    /\ file' = [file EXCEPT ![temp] = Store(@, {r}, Plain)]
    /\ pc' = "copy"
    /\ UNCHANGED <<objectVars, password, ret, statement, history>>

\* sqlcipher_export() commits row after row; the connection is its own
\* until it is done.
ExportRow(r) ==
    /\ pc \in {"export", "copy"} /\ db = "open" /\ Readable(main, key)
    /\ r \in main.rows \ file[temp].rows
    /\ file' = [file EXCEPT ![temp] = Store(@, {r}, password)]
    /\ pc' = "copy"
    /\ UNCHANGED <<objectVars, password, ret, statement, history>>

\* Mutant: the replacement goes on once the export has begun.
ExportedEarly ==
    /\ pc \in {"export", "copy"} /\ db = "open"
    /\ pc' = "close"
    /\ UNCHANGED <<file, objectVars, password, ret, statement, history>>

\* Mutant: DETACH is a step of its own that never comes.
ExportedStuck ==
    /\ pc \in {"export", "copy"} /\ db = "open" /\ Readable(main, key)
    /\ main.rows = file[temp].rows
    /\ pc' = "detach"
    /\ UNCHANGED <<file, objectVars, password, ret, statement, history>>

\* The end of the export and DETACH.
Exported ==
    /\ pc \in {"export", "copy"} /\ db = "open" /\ Readable(main, key)
    /\ main.rows = file[temp].rows
    /\ pc' = "close"
    /\ UNCHANGED <<file, objectVars, password, ret, statement, history>>

\* An exception leaves setPassword() with m_database as d.
Throw(d) ==
    /\ db' = d
    /\ pc' = "idle"
    /\ ret' = "threw"
    /\ UNCHANGED <<file, key, isEncrypted, isUnlocked>>

\* sqlite3_close() refuses while a statement is alive; afterwards m_database
\* points to a connection that is gone.
Close ==
    /\ pc = "close"
    /\ \/ /\ statement # NoRow
          /\ Throw(db)
       \/ /\ statement = NoRow
          /\ db' = "unusable"
          /\ pc' = "remove"
          /\ UNCHANGED <<file, key, isEncrypted, isUnlocked, ret>>
    /\ UNCHANGED <<flags, misled, password, statement, history>>

\* std::filesystem::remove(m_path)
RemoveOld ==
    /\ pc = "remove"
    /\ file' = [file EXCEPT !["main"] = NoFile]
    /\ pc' = "rename"
    /\ UNCHANGED <<objectVars, password, ret, statement, history>>

\* std::filesystem::rename(tempPath, m_path) throws when there is no copy.
RenameCopy ==
    /\ pc = "rename"
    /\ \/ /\ file[temp].exists
          /\ file' = [file EXCEPT !["main"] = file[temp], ![temp] = NoFile]
          /\ pc' = "reopen"
          /\ UNCHANGED <<db, key, isEncrypted, isUnlocked, ret>>
       \/ /\ ~file[temp].exists
          /\ Throw("unusable")
    /\ UNCHANGED <<flags, misled, password, statement, history>>

\* remove() or rename() throws.
ReplaceFails ==
    /\ pc \in {"remove", "rename"} /\ Failures
    /\ Throw("unusable")
    /\ UNCHANGED <<flags, misled, password, statement, history>>

\* sqlite3_open_v2() with m_flags: indeterminate flags may open the file
\* read-only, or be refused with nullptr.
Opened == IF flags = "given" THEN {"open"} ELSE {"open", "readonly"}

\* The new file is opened and, with a password, looked at.
Reopen ==
    /\ pc = "reopen"
    /\ \/ /\ db' \in Opened
          /\ key' = password
          /\ IF password = Plain THEN isUnlocked' = TRUE /\ misled' = "no"
                                 ELSE Look(main, password)
          /\ isEncrypted' = (password # Plain)
          /\ pc' = "idle"
          /\ ret' = "true"
          /\ known' = {password}
          /\ UNCHANGED file
       \/ /\ \/ flags = "indeterminate" /\ Throw("null")
             \/ Failures /\ Throw("unusable")
          /\ UNCHANGED <<misled, known>>
    /\ UNCHANGED <<flags, password, statement, saved, held, lapses>>

\* sqlite3_key() fails: setPassword() throws with the encrypted file open, its
\* key not set, and the flags still those of the plain file.
ReopenUnkeyed ==
    /\ pc = "reopen" /\ password # Plain
    /\ Failures
    /\ \E d \in Opened : Throw(d)
    /\ misled' = "unkeyed"
    /\ lapses' = lapses \cup {"failure"}
    /\ UNCHANGED <<flags, password, statement, saved, held, known>>

-----------------------------------------------------------------------------
Next ==
    \/ Construct \/ Move \/ Destroy \/ Crash
    \/ \E p \in Keys : Unlock(p) \/ SetPassword(p)
    \/ \E r \in Rows : Execute(r) \/ CreateStatement(r) \/ ExportRow(r)
    \/ StepStatement \/ FinalizeStatement
    \/ Attach \/ CopyFails \/ Exported \/ Close \/ RemoveOld \/ RenameCopy
    \/ ReplaceFails \/ Reopen \/ ReopenUnkeyed

Spec == Init /\ [][Next]_vars

-----------------------------------------------------------------------------
(* Properties. *)

\* Whatever the moment of a crash, every row ever committed is in the database
\* file or in a temporary file beside it, as long as no replacement met a
\* leftover copy, a failed call, lost flags or a foreign statement.
NothingLost == lapses = {} => \A r \in saved : \E n \in Names : r \in file[n].rows

\* Under the same condition the database file, at every moment and after any
\* crash, opens with a password that the owner has to try: the present one, or
\* the new one of a call that has not returned.
OwnerCanOpen == lapses = {} => \E p \in known : Readable(main, p)

\* When setPassword() returns true, the file holds every row it held and reads
\* with the password given, as the header promises.
TrueMeansDone ==
    ret = "true" => held \subseteq main.rows /\ Readable(main, password)

\* The same, of calls that met nothing unusual.
DoneUnlessLapsed == lapses = {} => TrueMeansDone

\* Whatever has failed, an object that can still be used is not unlocked in
\* vain: its key reads the file, which one that is not encrypted needs no key
\* for and one that is encrypted is never without. Only an exception of
\* setPassword() with the new file open leaves flags that say too much. They say
\* too little, locked though the key reads the file, only after a look at it
\* that failed, and a locked database is always one to unlock.
FlagsTellTheFile ==
    pc = "idle" /\ connected =>
        /\ isUnlocked => Readable(main, key) \/ misled = "unkeyed"
        /\ isUnlocked => (isEncrypted <=> key # Plain)
        /\ ~isUnlocked => isEncrypted /\ (Readable(main, key) => misled = "unread")

\* As long as nothing unusual has happened the database is a KeyedFile, crashes
\* at any point included: only who can read the file writes to it or changes its
\* key, a change of the key leaves every row where it was unless it is cut short
\* after the connection was closed, the file has the old key or the new one and
\* no other at every moment, and setPassword() returns true only when it is the
\* new one. Between remove() and rename() the copy stands for the file.
present == IF pc = "rename" THEN file[temp] ELSE main

Disk == INSTANCE KeyedFile WITH
    Contents <- SUBSET Rows,
    Nothing <- {},
    PlainKey <- Plain,
    content <- present.rows,
    fileKey <- present.key,
    access <- IF ~connected THEN "closed" ELSE IF isUnlocked THEN "unlocked" ELSE "locked",
    hand <- IF connected THEN key ELSE Plain,
    wanted <- IF pc = "idle" THEN {} ELSE {password},
    told <- IF ret = "true" THEN {password} ELSE {},
    faulty <- lapses # {}

FileKept == Disk!FileSpec

=============================================================================
