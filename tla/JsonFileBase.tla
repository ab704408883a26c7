---------------------------- MODULE JsonFileBase ----------------------------
(***************************************************************************)
(* Nickvision::Helpers::JsonFileBase (src/helpers/jsonfilebase.cpp and     *)
(* include/helpers/jsonfilebase.h): a JSON object in memory and its file.  *)
(* Threads set values and save; save() truncates the file, writes and      *)
(* flushes it under the mutex, and raises saved() after the unlock. A      *)
(* truncated or half written file holds no object. The program may crash   *)
(* at any step (the system does not), and every step on the file may fail. *)
(***************************************************************************)
CONSTANTS
    JsonKeys,    \* keys of the object
    JsonValues,  \* values of the type the client asks for
    OtherValues, \* values of other types, from a file somebody else wrote
    NoJson,      \* no value, no save
    Savers       \* threads that save

ASSUME JsonAssumption == NoJson \notin JsonValues \cup OtherValues /\ NoJson \notin Savers

VARIABLES
    running,     \* the object exists
    json,        \* m_json
    jsonFile,    \* what the file at m_path holds
    saving,      \* where each thread stands in save()
    lastSaver,   \* history: the last thread to open the file in save()
    wrote,       \* history: what that save had to write
    failed       \* history: it crashed, or could not open or write the file

jsonVars == <<running, json, jsonFile, saving, lastSaver, wrote, failed>>

Objects == [JsonKeys -> JsonValues \cup OtherValues \cup {NoJson}]
EmptyObject == [k \in JsonKeys |-> NoJson]
Cut == [is |-> "no object"]
FileOf(object) == [is |-> "object", object |-> object]
Files == {Cut} \cup {FileOf(object) : object \in Objects}

JsonTypeOK ==
    /\ running \in BOOLEAN /\ failed \in BOOLEAN
    /\ json \in Objects /\ wrote \in Objects /\ jsonFile \in Files
    /\ saving \in [Savers -> {"no", "open", "unlocked"}]
    /\ lastSaver \in Savers \cup {NoJson}

\* A missing file is one without an object: save() creates it.
JsonInit ==
    /\ jsonFile \in Files
    /\ running = FALSE /\ json = EmptyObject
    /\ saving = [t \in Savers |-> "no"]
    /\ lastSaver = NoJson /\ wrote = EmptyObject /\ failed = FALSE

JsonLocked == \E t \in Savers : saving[t] = "open"

\* Every error while the file is read is caught, and leaves the object empty.
Loaded(file) == IF file.is = "object" THEN file.object ELSE EmptyObject

Load ==
    /\ ~running
    /\ running' = TRUE
    /\ json' = Loaded(jsonFile)
    /\ UNCHANGED <<jsonFile, saving, lastSaver, wrote, failed>>

\* The default also stands in for a value of another type.
Get(object, key, default) == IF object[key] \in JsonValues THEN object[key] ELSE default

Set(key, value) ==
    /\ running /\ ~JsonLocked
    /\ json' = [json EXCEPT ![key] = value]
    /\ UNCHANGED <<running, jsonFile, saving, lastSaver, wrote, failed>>

OpenForSave(t) ==
    /\ running /\ saving[t] = "no" /\ ~JsonLocked
    /\ saving' = [saving EXCEPT ![t] = "open"]
    /\ lastSaver' = t /\ wrote' = json
    /\ \/ jsonFile' = Cut /\ failed' = FALSE
       \/ failed' = TRUE /\ UNCHANGED jsonFile
    /\ UNCHANGED <<running, json>>

\* Mutant: a newline instead of std::endl leaves the text in the buffer until
\* the stream is destroyed, after the event.
WriteBuffered(t) ==
    /\ running /\ saving[t] = "open"
    /\ saving' = [saving EXCEPT ![t] = "unlocked"]
    /\ UNCHANGED <<running, json, jsonFile, lastSaver, wrote, failed>>

\* std::endl flushes the stream before the unlock.
WriteAndUnlock(t) ==
    /\ running /\ saving[t] = "open"
    /\ saving' = [saving EXCEPT ![t] = "unlocked"]
    /\ \/ ~failed /\ jsonFile' = FileOf(json) /\ UNCHANGED failed
       \/ failed' = TRUE /\ UNCHANGED jsonFile
    /\ UNCHANGED <<running, json, lastSaver, wrote>>

\* saved() is raised and save() returns true, whatever became of the file.
RaiseSaved(t) ==
    /\ running /\ saving[t] = "unlocked"
    /\ saving' = [saving EXCEPT ![t] = "no"]
    /\ UNCHANGED <<running, json, jsonFile, lastSaver, wrote, failed>>

\* The program ends, or crashes, also where create_directories() throws.
End ==
    /\ running
    /\ running' = FALSE
    /\ failed' = (failed \/ JsonLocked)
    /\ json' = EmptyObject /\ saving' = [t \in Savers |-> "no"]
    /\ UNCHANGED <<jsonFile, lastSaver, wrote>>

JsonNext ==
    \/ Load \/ End
    \/ \E k \in JsonKeys, v \in JsonValues : Set(k, v)
    \/ \E t \in Savers : OpenForSave(t) \/ WriteAndUnlock(t) \/ RaiseSaved(t)

JsonSpec == JsonInit /\ [][JsonNext]_jsonVars

-----------------------------------------------------------------------------
\* Unless the last save failed or was cut short, a client that loads the file,
\* in a handler of saved() or after any restart, gets the values of that save
\* and of no other: no older ones, and none that were set meanwhile.
SavedIsLoaded ==
    lastSaver # NoJson /\ ~failed /\ ~JsonLocked =>
        \A k \in JsonKeys, default \in JsonValues :
            Get(Loaded(jsonFile), k, default) = Get(wrote, k, default)

=============================================================================
