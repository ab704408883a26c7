---------------------------- MODULE Credentials -----------------------------
(***************************************************************************)
(* Nickvision::System::Credentials (src/system/credentials.cpp): what the  *)
(* credential manager of Windows, of macOS or of libsecret holds under one *)
(* name, for programs that ask for it as Keyring::Keyring does: by get(),  *)
(* and by create() when get() found nothing. Others use the name too, and  *)
(* every request may fail. update() looks the entry up before it writes.   *)
(***************************************************************************)
CONSTANTS
    Managers,   \* a subset of "Windows", "MacOS" and "libsecret"
    Programs,   \* that use the manager
    Usernames,  \* user names of credentials, but for the one create() uses
    Passwords   \* their passwords, the empty one excepted

VARIABLES
    manager,   \* the credential manager
    entries,   \* what it holds under the name
    missing,   \* the programs that found nothing and have not yet created it
    secret,    \* the password that each program was given, or none
    updating,  \* the credential that each program is updating, or none
    misled     \* history: one in missing was there while there was an entry

credentialVars == <<manager, entries, missing, secret, updating, misled>>

NoPassword == "empty"
Credential == [username : Usernames \cup {"default"}, password : Passwords \cup {NoPassword}]
NoCredential == [username |-> "none", password |-> NoPassword]
NoSecrets == [p \in Programs |-> NoPassword]

CredentialsInit ==
    /\ manager \in Managers
    /\ entries = {} /\ missing = {} /\ misled = FALSE
    /\ secret = NoSecrets
    /\ updating = [p \in Programs |-> NoCredential]

\* libsecret keeps no user name, and get() says "default".
Kept(c) == IF manager = "libsecret" THEN [c EXCEPT !.username = "default"] ELSE c

\* SecItemAdd refuses a second entry of the user name; CredWriteW and
\* secret_password_store_sync replace the entry.
Added(c) ==
    IF manager = "MacOS"
    THEN (\A e \in entries : e.username # c.username) /\ entries' = entries \cup {c}
    ELSE entries' = {Kept(c)}

\* SecItemUpdate: an entry that is there, unless another has the user name.
Updated(c) ==
    IF manager = "MacOS"
    THEN \E e \in entries :
            /\ \A d \in entries \ {e} : d.username # c.username
            /\ entries' = (entries \ {e}) \cup {c}
    ELSE entries' = {Kept(c)}

Record == misled' = (misled \/ (missing' # {} /\ entries' # {}))

\* What a client writes or removes by choice puts an end to the password that
\* others were given, which are of no interest any more.
ByChoice == secret' = NoSecrets

-----------------------------------------------------------------------------
\* A lookup that fails is answered as one that finds nothing.
get(p) ==
    /\ secret[p] = NoPassword /\ p \notin missing
    /\ \/ \E e \in entries : secret' = [secret EXCEPT ![p] = e.password] /\ UNCHANGED missing
       \/ missing' = missing \cup {p} /\ UNCHANGED secret
    /\ UNCHANGED <<manager, entries, updating>>
    /\ Record

\* Mutant: the credential is returned whatever became of add().
CreateUntested(p) ==
    /\ p \in missing
    /\ missing' = missing \ {p}
    /\ \E w \in Passwords :
          /\ Added([username |-> "default", password |-> w]) \/ UNCHANGED entries
          /\ secret' = [secret EXCEPT ![p] = w]
    /\ UNCHANGED <<manager, updating>>
    /\ Record

create(p) ==
    /\ p \in missing
    /\ missing' = missing \ {p}
    /\ \/ \E w \in Passwords :
             /\ Added([username |-> "default", password |-> w])
             /\ secret' = [secret EXCEPT ![p] = w]
       \/ UNCHANGED <<entries, secret>>
    /\ UNCHANGED <<manager, updating>>
    /\ Record

\* On macOS it is an entry beside those there are.
add(c) ==
    /\ c.password # NoPassword
    /\ Added(c)
    /\ IF manager = "MacOS" THEN UNCHANGED secret ELSE ByChoice
    /\ UNCHANGED <<manager, missing, updating>>
    /\ Record

\* The lookup of update(), when it finds an entry.
Lookup(p, c) ==
    /\ updating[p] = NoCredential
    /\ c.password # NoPassword /\ entries # {}
    /\ updating' = [updating EXCEPT ![p] = c]
    /\ UNCHANGED <<manager, entries, missing, secret, misled>>

\* The write may bring an entry back that was removed since the lookup.
update(p) ==
    /\ updating[p] # NoCredential
    /\ updating' = [updating EXCEPT ![p] = NoCredential]
    /\ \/ Updated(updating[p]) /\ ByChoice
       \/ UNCHANGED <<entries, secret>>
    /\ UNCHANGED <<manager, missing>>
    /\ Record

remove ==
    /\ entries # {}
    /\ entries' = {} /\ ByChoice
    /\ UNCHANGED <<manager, missing, updating, misled>>

Exit(p) ==
    /\ secret' = [secret EXCEPT ![p] = NoPassword]
    /\ missing' = missing \ {p}
    /\ updating' = [updating EXCEPT ![p] = NoCredential]
    /\ UNCHANGED <<manager, entries, misled>>

CredentialsNext ==
    \/ \E c \in Credential : add(c) \/ \E p \in Programs : Lookup(p, c)
    \/ \E p \in Programs : get(p) \/ create(p) \/ update(p) \/ Exit(p)
    \/ remove

CredentialsSpec == CredentialsInit /\ [][CredentialsNext]_credentialVars

-----------------------------------------------------------------------------
\* The password that get() or create() gave a program, with which it encrypts its
\* keyring, is one the manager holds, until somebody updates, removes or replaces
\* the entry by choice: on macOS always, whatever programs start at once and
\* whatever requests fail; elsewhere as long as no program went by a "not found"
\* when there was an entry, since its create() replaces the entry that others
\* were given.
SecretsAreHeld ==
    \A p \in Programs :
        secret[p] # NoPassword /\ (misled => manager = "MacOS") =>
            \E e \in entries : e.password = secret[p]

=============================================================================
