------------------------------ MODULE Keyring ------------------------------
(***************************************************************************)
(* Nickvision::Keyring::Keyring (src/keyring/keyring.cpp): credentials in  *)
(* memory and in an encrypted database file, whose password is kept by the *)
(* system's credential manager under the keyring's name.                   *)
(*                                                                         *)
(* Of SqliteDatabase it uses the paths that replace no file: an empty file *)
(* is given a key, a file with a table is unlocked. A file without a table *)
(* has no bytes. A credential is a name and what is stored with it. One    *)
(* Keyring has the file open, and remove() and destroy(), which do not     *)
(* take m_mutex, are not called while another call is under way.           *)
(***************************************************************************)
CONSTANTS
    Names,     \* names of credentials
    Data,      \* what else a credential holds
    NoData,    \* no credential of that name
    Secrets,   \* what the password generator may come up with
    NoSecret,  \* the credential manager has no entry
    LooksFail  \* whether a look at the file may fail that could be read

ASSUME KeyringAssumption ==
    /\ NoData \notin Data
    /\ NoSecret \notin Secrets
    /\ LooksFail \in BOOLEAN

VARIABLES
    secret,    \* the credential manager's entry for the keyring
    file,      \* the database file: has it a table, its key, its rows
    phase,     \* where the object's life stands, "dead" after SIGSEGV
    password,  \* the constructor's credential
    saving,    \* m_database is not nullptr
    mem,       \* m_credentials
    doing,     \* the call that has changed the file and not yet memory
    promised,  \* history: the rows clients have been told of
    doubtful,  \* history: names whose change a crash left unanswered
    upset      \* history: the entry was deleted, or replaced while in use

object == <<phase, password, saving, mem, doing>>
history == <<promised, doubtful, upset>>
vars == <<secret, file, object, history>>

Table == [Names -> Data \cup {NoData}]
Empty == [n \in Names |-> NoData]
NoFile == [table |-> FALSE, key |-> NoSecret, rows |-> Empty]
Idle == [what |-> "nothing"]
Calls == {Idle, [what |-> "unlink"]}
         \cup [what : {"remember"}, name : Names, data : Data \cup {NoData}]

TypeOK ==
    /\ secret \in Secrets \cup {NoSecret}
    /\ file \in [table : BOOLEAN, key : Secrets \cup {NoSecret}, rows : Table]
    /\ phase \in {"none", "credential", "open", "dead"}
    /\ password \in Secrets \cup {NoSecret}
    /\ saving \in BOOLEAN
    /\ mem \in Table
    /\ doing \in Calls
    /\ promised \in Table
    /\ doubtful \subseteq Names
    /\ upset \in BOOLEAN

Init ==
    /\ secret = NoSecret
    /\ file = NoFile
    /\ phase = "none"
    /\ password = NoSecret
    /\ saving = FALSE
    /\ mem = Empty
    /\ doing = Idle
    /\ promised = Empty
    /\ doubtful = {}
    /\ upset = FALSE

-----------------------------------------------------------------------------
(* The constructor. *)

\* Credentials::get() finds the entry.
FindSecret ==
    /\ phase = "none"
    /\ secret # NoSecret
    /\ password' = secret
    /\ phase' = "credential"
    /\ UNCHANGED <<secret, file, saving, mem, doing, history>>

\* Mutant: create() without a look at what get() returned.
CreateAlways ==
    /\ phase = "none"
    /\ \E s \in Secrets \ {secret, file.key} : secret' = s /\ password' = s
    /\ phase' = "credential"
    /\ UNCHANGED <<file, saving, mem, doing, history>>

\* Credentials::get() returns nullopt, because there is no entry or because
\* the lookup failed, and create() stores a new password, over any entry.
CreateSecret ==
    /\ phase = "none"
    /\ \E s \in Secrets \ {secret, file.key} : secret' = s /\ password' = s
    /\ phase' = "credential"
    /\ upset' = (upset \/ secret # NoSecret)
    /\ UNCHANGED <<file, saving, mem, doing, promised, doubtful>>

\* Without a credential, or without a usable database, the keyring is kept in
\* memory: create() failed, or an error of SQLite was caught.
OpenInMemory ==
    /\ phase \in {"none", "credential"}
    /\ phase' = "open"
    /\ UNCHANGED <<secret, file, password, saving, mem, doing, history>>

\* Mutant: what unlock() returns is not looked at.
OpenUntested ==
    /\ phase = "credential"
    /\ file.table
    /\ phase' = "open"
    /\ saving' = TRUE
    /\ mem' = file.rows
    /\ promised' = file.rows
    /\ doubtful' = {}
    /\ UNCHANGED <<secret, file, password, doing, upset>>

\* An encrypted file is unlocked, and every row of it read.
OpenExisting ==
    /\ phase = "credential"
    /\ file.table /\ password = file.key
    /\ phase' = "open"
    /\ saving' = TRUE
    /\ mem' = file.rows
    /\ promised' = file.rows
    /\ doubtful' = {}
    /\ UNCHANGED <<secret, file, password, doing, upset>>

\* unlock() returns false, for a password that is not the file's key or because
\* a look at the file fails; m_database is reset and then dereferenced:
\* createStatement() locks the mutex of an object at address 0.
UnlockFails ==
    /\ phase = "credential"
    /\ LooksFail \/ (file.table /\ password # file.key)
    /\ phase' = "dead"
    /\ UNCHANGED <<secret, file, password, saving, mem, doing, history>>

\* Mutant: an existing file is taken for a new one.
OpenOver ==
    /\ phase = "credential"
    /\ file' = [table |-> TRUE, key |-> password, rows |-> Empty]
    /\ phase' = "open"
    /\ saving' = TRUE
    /\ UNCHANGED <<secret, password, mem, doing, history>>

\* An empty file gets the key, which reaches the disk with the table.
OpenNew ==
    /\ phase = "credential"
    /\ ~file.table
    /\ file' = [table |-> TRUE, key |-> password, rows |-> Empty]
    /\ phase' = "open"
    /\ saving' = TRUE
    /\ UNCHANGED <<secret, password, mem, doing, history>>

-----------------------------------------------------------------------------
(* Operations. Those that return false change nothing: a name that exists   *)
(* or does not, or a statement whose step is not Done. A statement that     *)
(* cannot be prepared throws through noexcept and ends the process, which   *)
(* is a Crash.                                                              *)

ready == phase = "open" /\ doing = Idle

\* Row n becomes d: at once when there is only memory, or first in the file.
Change(n, d) ==
    \/ /\ ~saving
       /\ mem' = [mem EXCEPT ![n] = d]
       /\ UNCHANGED <<secret, file, phase, password, saving, doing, history>>
    \/ /\ saving
       /\ file' = [file EXCEPT !.rows[n] = d]
       /\ doing' = [what |-> "remember", name |-> n, data |-> d]
       /\ UNCHANGED <<secret, phase, password, saving, mem, history>>

\* add(): INSERT, when no credential in memory has the name.
Add(n, d) == ready /\ mem[n] = NoData /\ Change(n, d)

\* update(): UPDATE of the rows with the name.
Update(n, d) == ready /\ mem[n] # NoData /\ Change(n, d)

\* remove(): DELETE of the rows with the name.
Remove(n) == ready /\ mem[n] # NoData /\ Change(n, NoData)

\* The second half of the three: memory follows, and the call returns true.
Remember ==
    /\ phase = "open" /\ doing.what = "remember"
    /\ mem' = [mem EXCEPT ![doing.name] = doing.data]
    /\ promised' = [promised EXCEPT ![doing.name] = doing.data]
    /\ doing' = Idle
    /\ UNCHANGED <<secret, file, phase, password, saving, doubtful, upset>>

\* destroy() closes the database and clears memory,
Destroy ==
    /\ ready /\ saving
    /\ saving' = FALSE
    /\ mem' = Empty
    /\ doing' = [what |-> "unlink"]
    /\ UNCHANGED <<secret, file, phase, password, history>>

\* Mutant: the file is emptied of its rows by their name.
UnlinkRows ==
    /\ phase = "open" /\ doing.what = "unlink"
    /\ file' = [file EXCEPT !.rows = [n \in {} |-> NoData]]
    /\ promised' = Empty
    /\ doubtful' = {}
    /\ doing' = Idle
    /\ UNCHANGED <<secret, phase, password, saving, mem, upset>>

\* and then removes the file. The credential manager's entry stays.
Unlink ==
    /\ phase = "open" /\ doing.what = "unlink"
    /\ file' = NoFile
    /\ promised' = Empty
    /\ doubtful' = {}
    /\ doing' = Idle
    /\ UNCHANGED <<secret, phase, password, saving, mem, upset>>

-----------------------------------------------------------------------------
(* The end of an object, by its destructor or with the process, and the     *)
(* user's own hand on the credential manager.                               *)

Close ==
    /\ phase # "none"
    /\ phase' = "none"
    /\ password' = NoSecret
    /\ saving' = FALSE
    /\ mem' = Empty
    /\ doing' = Idle
    /\ doubtful' = IF doing.what = "remember" THEN doubtful \cup {doing.name} ELSE doubtful
    /\ UNCHANGED <<secret, file, promised, upset>>

DeleteSecret ==
    /\ secret # NoSecret
    /\ secret' = NoSecret
    /\ upset' = TRUE
    /\ UNCHANGED <<file, object, promised, doubtful>>

Next ==
    \/ FindSecret \/ CreateSecret \/ OpenInMemory \/ OpenExisting \/ UnlockFails \/ OpenNew
    \/ \E n \in Names : Remove(n) \/ \E d \in Data : Add(n, d) \/ Update(n, d)
    \/ Remember \/ Destroy \/ Unlink \/ Close \/ DeleteSecret

Spec == Init /\ [][Next]_vars

-----------------------------------------------------------------------------
(* Properties. *)

\* Between two calls the credentials that get() and getAll() return are the
\* rows of the file, for a keyring that says it is saving to disk.
MemoryIsFile == ready /\ saving => mem = file.rows

\* With the file's rows for what is stored, the keyring is a CredentialStore: a
\* name is added, updated or removed on disk exactly when memory says it can be,
\* memory shows all of the file whenever no call is under way, and nothing but
\* these calls and destroy() changes a row: no opening, failure or crash does.
Store == INSTANCE CredentialStore WITH
    stored <- file.rows,
    shown <- mem,
    busy <- doing # Idle

StoreKept == Store!StoreSpec

\* The database under it is used as a KeyedFile can be: a table is written with
\* the key that opens it, an existing one only after it was opened with its key,
\* which stays its key, and the file goes only when it is closed.
Disk == INSTANCE KeyedFile WITH
    Contents <- {{}} \cup {{t} : t \in Table},
    Keys <- Secrets \cup {NoSecret},
    Nothing <- {},
    PlainKey <- NoSecret,
    content <- IF file.table THEN {file.rows} ELSE {},
    fileKey <- file.key,
    access <- IF saving THEN "unlocked" ELSE "closed",
    hand <- IF saving THEN password ELSE NoSecret,
    wanted <- {},
    told <- {},
    faulty <- FALSE

FileKept == Disk!FileSpec

\* Keyring stands between the two.
LayersKept == StoreKept /\ FileKept

\* The file holds what clients were told is stored, whatever crashes and
\* failures come between, but for the one name a call was working on.
AnswersAreKept ==
    \A n \in Names :
        file.rows[n] # promised[n] =>
            n \in doubtful \/ (doing.what = "remember" /\ doing.name = n)

\* As long as nobody deletes the credential manager's entry and every lookup
\* of it works, it opens the file, also after a crash in the constructor.
SecretOpensFile == ~upset /\ file.table => secret = file.key

\* The constructor ends with a keyring or an exception.
OpeningSurvives == phase # "dead"

=============================================================================
