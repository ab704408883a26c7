----------------------------- MODULE KeyedFile -----------------------------
(***************************************************************************)
(* What a database file with a password promises to the program that has   *)
(* it open, free of flags, copies and file-system calls: what it holds,    *)
(* the key it is encrypted with, and who can read it. A file that holds    *)
(* nothing can be read with any key. SqliteDatabase implements this file   *)
(* and Keyring is written upon it.                                         *)
(***************************************************************************)
CONSTANTS
    Contents,  \* what a file may hold
    Keys,      \* the keys it may have
    Nothing,   \* what it holds before anything is written
    PlainKey   \* the key of a file that is not encrypted

VARIABLES
    content,   \* what is written, over all crashes
    fileKey,   \* the key it is encrypted with
    access,    \* "closed", or open and "locked" or "unlocked"
    hand,      \* the key in the hand of who has it open
    wanted,    \* the new key of a change under way, {} outside of one
    told,      \* the key that the last call has reported as set, or {}
    faulty     \* something the promise leaves out has happened

fileVars == <<content, fileKey, access, hand, wanted, told, faulty>>

FileInit ==
    /\ content = Nothing /\ fileKey = PlainKey
    /\ access = "closed" /\ hand = PlainKey
    /\ wanted = {} /\ told = {}
    /\ faulty = FALSE

Reads(k) == content = Nothing \/ k = fileKey

\* Who tries the right key may be refused: a look at the file that fails is
\* taken for a wrong key.
Answers(k) == IF Reads(k) THEN {"unlocked", "locked"} ELSE {"locked"}

Open(k) ==
    /\ access = "closed" /\ wanted = {}
    /\ access' \in Answers(k) /\ hand' = k
    /\ told' = {}
    /\ UNCHANGED <<content, fileKey, wanted>>

\* A file that holds nothing is opened with key k, and c written.
Create(k, c) ==
    /\ access = "closed" /\ wanted = {} /\ content = Nothing
    /\ content' = c /\ fileKey' = k
    /\ access' = "unlocked" /\ hand' = k
    /\ told' = {}
    /\ UNCHANGED wanted

TryKey(k) ==
    /\ access = "locked"
    /\ access' \in Answers(k) /\ hand' = k
    /\ told' = {}
    /\ UNCHANGED <<content, fileKey, wanted>>

\* Only who can read the file writes to it, told so or not, for the first time
\* with the key in hand.
Write(c) ==
    /\ access # "closed" /\ Reads(hand) /\ c # Nothing
    /\ content' = c
    /\ fileKey' = IF content = Nothing THEN hand ELSE fileKey
    /\ told' \in {told, {}}
    /\ UNCHANGED <<access, hand, wanted>>

\* A call that another one follows is no longer the last.
NextCall ==
    /\ told' = {}
    /\ UNCHANGED <<content, fileKey, access, hand, wanted>>

-----------------------------------------------------------------------------
(* Only who can read the file changes its key, and what it holds stays.    *)

\* At once; a file that holds nothing is looked at again,
SetKey(k) ==
    /\ access = "unlocked" /\ wanted = {}
    /\ fileKey' = IF content = Nothing THEN fileKey ELSE k
    /\ access' \in IF content = Nothing THEN Answers(k) ELSE {access}
    /\ hand' = k
    /\ told' = {k}
    /\ UNCHANGED <<content, wanted>>

\* or by a change of the file for another one,
BeginChange(k) ==
    /\ access = "unlocked" /\ wanted = {}
    /\ wanted' = {k}
    /\ told' = {}
    /\ UNCHANGED <<content, fileKey, access, hand>>

\* for which it is closed,
CloseForChange ==
    /\ access = "unlocked" /\ wanted # {}
    /\ access' = "closed" /\ hand' = PlainKey
    /\ UNCHANGED <<content, fileKey, wanted, told>>

\* has the new key from one moment to the next
Change ==
    /\ access = "closed" /\ content # Nothing
    /\ fileKey' \in wanted
    /\ UNCHANGED <<content, access, hand, wanted, told>>

\* and is opened again, when the call may say that it is done.
EndChange ==
    /\ access = "closed"
    /\ \E k \in wanted :
          Reads(k) /\ access' \in Answers(k) /\ hand' = k /\ told' = {k}
    /\ wanted' = {}
    /\ UNCHANGED <<content, fileKey>>

\* A change cut short after the file was closed may leave none.
Lose ==
    /\ access = "closed" /\ fileKey \in wanted
    /\ content' = Nothing /\ fileKey' = PlainKey

Abandon ==
    /\ wanted # {}
    /\ Lose \/ UNCHANGED <<content, fileKey>>
    /\ wanted' = {} /\ told' = {}
    /\ UNCHANGED <<access, hand>>

-----------------------------------------------------------------------------
\* The end of the object or of the process, at any point.
Stop ==
    /\ Lose \/ UNCHANGED <<content, fileKey>>
    /\ access' = "closed" /\ hand' = PlainKey
    /\ wanted' = {} /\ told' = {}

Delete ==
    /\ access = "closed" /\ wanted = {}
    /\ content' = Nothing /\ fileKey' = PlainKey
    /\ UNCHANGED <<access, hand, wanted, told>>

Kept ==
    \/ \E k \in Keys : Open(k) \/ TryKey(k) \/ SetKey(k) \/ BeginChange(k)
    \/ \E c \in Contents : Write(c) \/ \E k \in Keys : Create(k, c)
    \/ NextCall \/ CloseForChange \/ Change \/ EndChange \/ Abandon \/ Stop \/ Delete

\* Nothing is promised from the first fault on.
FileNext ==
    \/ Kept /\ UNCHANGED faulty
    \/ faulty'

FileSpec == FileInit /\ [][FileNext]_fileVars

=============================================================================
