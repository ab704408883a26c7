-------------------------- MODULE CredentialStore --------------------------
(***************************************************************************)
(* What Nickvision::Keyring::Keyring promises to its clients, free of keys,*)
(* files and the credential manager: credentials by name, one call at a    *)
(* time that changes one of them, first on disk and then in memory; to     *)
(* open, to fail and to end changes nothing that is stored.                *)
(***************************************************************************)
CONSTANTS Names, Data, NoData

VARIABLES
    stored,  \* the credentials that outlive the process
    saving,  \* isSavingToDisk()
    shown,   \* the credentials get() and getAll() return
    busy     \* a call has begun to change what is stored

storeVars == <<stored, saving, shown, busy>>

Nothing == [n \in Names |-> NoData]

StoreInit ==
    /\ stored = Nothing
    /\ shown = Nothing
    /\ saving = FALSE
    /\ busy = FALSE

\* A keyring that saves begins with all that is stored.
Load ==
    /\ ~saving /\ ~busy /\ shown = Nothing
    /\ saving' = TRUE
    /\ shown' = stored
    /\ UNCHANGED <<stored, busy>>

\* Name n, which has a credential or not, gets credential d or loses it.
Write(n, d) ==
    /\ saving /\ ~busy
    /\ stored' = [stored EXCEPT ![n] = d]
    /\ busy' = TRUE
    /\ UNCHANGED <<saving, shown>>

Insert(n, d) == stored[n] = NoData /\ Write(n, d)
Replace(n, d) == stored[n] # NoData /\ Write(n, d)
Delete(n) == stored[n] # NoData /\ Write(n, NoData)

\* The call returns: all that is stored can be seen.
Answer ==
    /\ saving /\ busy
    /\ shown' = stored
    /\ busy' = FALSE
    /\ UNCHANGED <<stored, saving>>

\* Without a file, credentials are only shown.
Keep(n, d) ==
    /\ ~saving /\ ~busy
    /\ shown' = [shown EXCEPT ![n] = d]
    /\ UNCHANGED <<stored, saving, busy>>

\* destroy() forgets what is shown and then what is stored.
Forget ==
    /\ saving /\ ~busy
    /\ saving' = FALSE
    /\ shown' = Nothing
    /\ busy' = TRUE
    /\ UNCHANGED stored

Wipe ==
    /\ ~saving /\ busy
    /\ stored' = Nothing
    /\ busy' = FALSE
    /\ UNCHANGED <<saving, shown>>

\* The end of the object or of the process, in a call or between two.
Stop ==
    /\ saving' = FALSE
    /\ shown' = Nothing
    /\ busy' = FALSE
    /\ UNCHANGED stored

StoreNext ==
    \/ Load \/ Answer \/ Forget \/ Wipe \/ Stop
    \/ \E n \in Names : Delete(n) \/ Keep(n, NoData)
    \/ \E n \in Names, d \in Data : Insert(n, d) \/ Replace(n, d) \/ Keep(n, d)

StoreSpec == StoreInit /\ [][StoreNext]_storeVars

=============================================================================
