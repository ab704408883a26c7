------------------------- MODULE PasswordGenerator --------------------------
(***************************************************************************)
(* Nickvision::Keyring::PasswordGenerator (src/keyring/passwordgenerator   *)
(* .cpp). A password is the sequence of its characters' types. next()      *)
(* draws a type until it is one of m_contentFlags.                         *)
(***************************************************************************)
EXTENDS Integers, Sequences

CONSTANT MaxLength  \* bound on the length asked for

VARIABLES
    contentFlags,  \* m_contentFlags, as a set of bits
    wanted,        \* the length that next() was asked for
    password,      \* the types of the characters it has so far
    generating     \* next() has not returned

passwordVars == <<contentFlags, wanted, password, generating>>

PasswordContent == {1, 2, 4, 8, 16}

PasswordInit ==
    /\ contentFlags \in SUBSET PasswordContent
    /\ wanted = 0 /\ password = <<>> /\ generating = FALSE

setContentFlags(flags) ==
    /\ ~generating
    /\ contentFlags' = flags
    /\ UNCHANGED <<wanted, password, generating>>

Begin(length) ==
    /\ ~generating
    /\ wanted' = length /\ password' = <<>> /\ generating' = TRUE
    /\ UNCHANGED contentFlags

\* Mutant: the distribution ends before the last type.
DrawnTypesShort == {2 ^ n : n \in 0..3}

DrawnTypes == {2 ^ n : n \in 0..4}

DrawType(type) ==
    /\ generating /\ Len(password) < wanted
    /\ password' = IF type \in contentFlags THEN Append(password, type) ELSE password
    /\ UNCHANGED <<contentFlags, wanted, generating>>

Return ==
    /\ generating /\ Len(password) = wanted
    /\ generating' = FALSE
    /\ UNCHANGED <<contentFlags, wanted, password>>

PasswordNext ==
    \/ \E flags \in SUBSET PasswordContent : setContentFlags(flags)
    \/ \E length \in 0..MaxLength : Begin(length)
    \/ \E type \in DrawnTypes : DrawType(type)
    \/ Return

\* Every type that is drawn with a probability is drawn again and again.
PasswordSpec ==
    /\ PasswordInit /\ [][PasswordNext]_passwordVars
    /\ \A type \in PasswordContent : WF_passwordVars(type \in DrawnTypes /\ DrawType(type))
    /\ WF_passwordVars(Return)

\* Each character that joins a password is of a type that is flagged then, and
\* so are those that it joins.
OnlyFlagged == [][\A i \in DOMAIN password' : password'[i] \in contentFlags]_password

\* A password has characters of the flagged types only, and next() ends, with
\* probability one, for each set of types except the empty one.
PasswordsEnd ==
    /\ OnlyFlagged
    /\ generating /\ contentFlags # {} ~> ~generating /\ Len(password) = wanted
=============================================================================
