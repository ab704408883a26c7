---------------------------- MODULE SqliteProofs ----------------------------
(***************************************************************************)
(* Theorems about SqliteDatabase, for any rows, any passwords, with and    *)
(* without failures and statements that outlive the call that made them.   *)
(***************************************************************************)
EXTENDS SqliteDatabase, TLAPS

Replacing == {"attach", "export", "copy", "close"}

\* The flags and the key of a connection, what they say of the file, and why
\* they may say something else.
FlagsInv ==
    /\ connected => pc \in Replacing \cup {"idle"}
    /\ pc \in Replacing => connected
    /\ statement # NoRow => connected
    /\ connected /\ isUnlocked => Readable(main, key) \/ misled = "unkeyed"
    /\ connected /\ ~isUnlocked => (Readable(main, key) => misled = "unread")
    /\ db # "none" /\ isUnlocked /\ isEncrypted => key # Plain
    /\ db # "none" /\ isUnlocked /\ ~isEncrypted => key = Plain
    /\ db # "none" /\ ~isUnlocked => isEncrypted
    /\ pc # "idle" => db # "none" /\ isUnlocked
    /\ pc # "idle" /\ isEncrypted => password = Plain
    /\ pc # "idle" /\ ~isEncrypted => password # Plain
    /\ misled = "unkeyed" => lapses # {}
    /\ ret = "true" => pc = "idle" /\ connected
    /\ db = "null" => pc = "idle"

\* Rows are in files that exist, and the copy without encryption never holds
\* encrypted ones.
FilesInv ==
    /\ \A n \in Names : file[n].exists \/ file[n] = NoFile
    /\ connected \/ pc = "reopen" => main.exists
    /\ pc \in {"export", "copy"} => file[temp].exists
    /\ file["decrypt"].key = Plain
    /\ pc = "reopen" /\ password = Plain => main.key = Plain

\* What the file and the copy hold at each point of a replacement that has
\* met nothing unusual.
CopyInv ==
  lapses = {} =>
    /\ connected => main.rows = held
    /\ pc \in {"export", "copy"} => file[temp].rows \subseteq main.rows
    /\ pc \in {"close", "remove"} => file[temp].rows = main.rows
    /\ pc = "remove" => main.rows = held
    /\ pc = "rename" => main.rows = {} /\ file[temp].rows = held
    /\ pc = "reopen" => main.rows = held /\ Readable(main, password)
    /\ pc \in {"export", "copy", "close", "remove", "rename"} => Readable(file[temp], password)

\* Who can open the database file of such a replacement.
KeyInv ==
  lapses = {} =>
    /\ pc # "idle" => password \in known
    /\ connected /\ main.rows = {} => key \in known
    /\ ret = "true" => key = password /\ Readable(main, password)

\* A file without rows has no key.
BlankInv == \A n \in Names : file[n].rows = {} => file[n].key = Plain

Inv ==
    /\ TypeOK
    /\ FlagsInv
    /\ FilesInv
    /\ BlankInv
    /\ NothingLost
    /\ OwnerCanOpen
    /\ CopyInv
    /\ KeyInv

-----------------------------------------------------------------------------
\* What a committed row makes of a file.
LEMMA StoreFacts ==
    ASSUME NEW f \in File, NEW R \in SUBSET Rows, NEW k \in Keys
    PROVE  /\ Store(f, R, k) \in File
           /\ Store(f, R, k).rows = f.rows \cup R
           /\ Store(f, R, k).key = IF f.rows = {} THEN k ELSE f.key
           /\ Store(f, R, k).exists = f.exists
  BY DEF Store, File, Keys

\* The two special files, and the copy is never the database file.
LEMMA FileFacts ==
    /\ NoFile \in File /\ NoFile.rows = {} /\ NoFile.key = Plain /\ NoFile.exists = FALSE
    /\ Blank \in File /\ Blank.rows = {} /\ Blank.key = Plain /\ Blank.exists = TRUE
    /\ temp \in Names /\ temp # "main" /\ "main" \in Names
  BY DEF NoFile, Blank, File, Keys, temp, Names

\* An INSERT changes the database file and no other.
LEMMA CommitFacts ==
    ASSUME TypeOK, NEW r \in Rows, Commit(r)
    PROVE  /\ file' \in [Names -> File]
           /\ file'["main"] = Store(file["main"], {r}, key)
           /\ file'["main"].rows = file["main"].rows \cup {r}
           /\ file'["encrypt"] = file["encrypt"] /\ file'["decrypt"] = file["decrypt"]
<1>1. file["main"] \in File /\ {r} \in SUBSET Rows /\ key \in Keys
  BY FileFacts DEF TypeOK
<1>2. /\ Store(file["main"], {r}, key) \in File
      /\ Store(file["main"], {r}, key).rows = file["main"].rows \cup {r}
  BY <1>1, StoreFacts
<1> QED
  BY <1>2, FileFacts DEF TypeOK, Commit, Names

\* A step of the export changes the copy and no other file.
LEMMA ExportFacts ==
    ASSUME TypeOK, NEW r \in Rows, ExportRow(r)
    PROVE  /\ file' \in [Names -> File]
           /\ file'[temp] = Store(file[temp], {r}, password)
           /\ file'[temp].rows = file[temp].rows \cup {r}
           /\ \A n \in Names : n # temp => file'[n] = file[n]
<1>1. file[temp] \in File /\ {r} \in SUBSET Rows /\ password \in Keys
  BY FileFacts DEF TypeOK
<1>2. /\ Store(file[temp], {r}, password) \in File
      /\ Store(file[temp], {r}, password).rows = file[temp].rows \cup {r}
  BY <1>1, StoreFacts
<1> QED
  BY <1>2, FileFacts DEF TypeOK, ExportRow

\* What a look at a file leaves of the flags.
LEMMA LookFacts ==
    ASSUME NEW f, NEW k, Look(f, k)
    PROVE  /\ isUnlocked' \in BOOLEAN /\ misled' \in {"no", "unread"}
           /\ isUnlocked' => Readable(f, k)
           /\ ~isUnlocked' => (Readable(f, k) => misled' = "unread")
<1>1. isUnlocked' \in BOOLEAN
  BY Zenon DEF Look, Readable
<1>2. misled' \in {"no", "unread"}
  BY DEF Look
<1>3. isUnlocked' => Readable(f, k)
  BY Zenon DEF Look
<1>4. ~isUnlocked' => (Readable(f, k) => misled' = "unread")
  BY Zenon DEF Look
<1> QED
  BY <1>1, <1>2, <1>3, <1>4

\* One step of any kind keeps the types.
LEMMA TypeStep == TypeOK /\ [Next]_vars => TypeOK'
<1> SUFFICES ASSUME TypeOK, [Next]_vars
             PROVE  TypeOK'
  OBVIOUS
<1>1. ASSUME Construct PROVE TypeOK'
  BY <1>1 DEF Construct, Look, TypeOK, File, Blank, Readable, main, Names, Keys
<1>2. ASSUME Move PROVE TypeOK'
  BY <1>2 DEF Move, history, TypeOK
<1>3. ASSUME Destroy PROVE TypeOK'
  BY <1>3 DEF Destroy, Forget, history, TypeOK, Keys
<1>4. ASSUME Crash PROVE TypeOK'
  BY <1>4 DEF Crash, Forget, history, TypeOK, Keys
<1>5. ASSUME NEW p \in Keys, Unlock(p) PROVE TypeOK'
  <2>1. isUnlocked' \in BOOLEAN /\ misled' \in {"no", "unread", "unkeyed"}
    BY <1>5, LookFacts DEF Unlock, TypeOK
  <2> QED
    BY <1>5, <2>1 DEF Unlock, TypeOK
<1>6. ASSUME NEW p \in Keys, SetPassword(p) PROVE TypeOK'
  <2>0. pc = "idle" /\ password' = p /\ UNCHANGED <<flags, statement, saved, held>>
    BY <1>6 DEF SetPassword
  <2>1. CASE Refuse(p) /\ UNCHANGED lapses
    BY <2>0, <2>1 DEF Refuse, TypeOK
  <2>2. CASE KeepPlain(p) /\ UNCHANGED lapses
    BY <2>0, <2>2 DEF KeepPlain, TypeOK
  <2>3. CASE KeyBlank(p) /\ UNCHANGED lapses
    BY <2>0, <2>3, LookFacts DEF KeyBlank, TypeOK
  <2>4. CASE Rekey(p) /\ UNCHANGED lapses
    BY <2>0, <2>4 DEF Rekey, TypeOK, File, Names
  <2>5. CASE BeginReplace(p) /\ UNCHANGED lapses
    BY <2>0, <2>5 DEF BeginReplace, TypeOK
  <2>6. CASE RekeyFails(p)
    BY <2>0, <2>6 DEF RekeyFails, TypeOK
  <2> QED
    BY <1>6, <2>1, <2>2, <2>3, <2>4, <2>5, <2>6 DEF SetPassword
<1>7. ASSUME NEW r \in Rows, Execute(r) PROVE TypeOK'
  BY <1>7, CommitFacts DEF Execute, Commit, objectVars, TypeOK
<1>8. ASSUME NEW r \in Rows, CreateStatement(r) PROVE TypeOK'
  BY <1>8 DEF CreateStatement, objectVars, history, TypeOK
<1>9. ASSUME NEW r \in Rows, ExportRow(r) PROVE TypeOK'
  BY <1>9, ExportFacts DEF ExportRow, objectVars, history, TypeOK
<1>10. ASSUME StepStatement PROVE TypeOK'
  BY <1>10, CommitFacts DEF StepStatement, Commit, objectVars, TypeOK
<1>11. ASSUME FinalizeStatement PROVE TypeOK'
  BY <1>11 DEF FinalizeStatement, objectVars, history, TypeOK
<1>12. ASSUME Attach PROVE TypeOK'
  BY <1>12 DEF Attach, objectVars, TypeOK, File, Blank, temp, Names, Keys
<1>13. ASSUME CopyFails PROVE TypeOK'
  BY <1>13 DEF CopyFails, objectVars, TypeOK
<1>14. ASSUME Exported PROVE TypeOK'
  BY <1>14 DEF Exported, objectVars, history, TypeOK
<1>15. ASSUME Close PROVE TypeOK'
  BY <1>15 DEF Close, Throw, history, TypeOK
<1>16. ASSUME RemoveOld PROVE TypeOK'
  BY <1>16, FileFacts DEF RemoveOld, objectVars, history, TypeOK
<1>17. ASSUME RenameCopy PROVE TypeOK'
  <2>1. file' \in [Names -> File]
    BY <1>17, FileFacts DEF RenameCopy, Throw, TypeOK
  <2> QED
    BY <1>17, <2>1 DEF RenameCopy, Throw, history, TypeOK
<1>18. ASSUME ReplaceFails PROVE TypeOK'
  BY <1>18 DEF ReplaceFails, Throw, history, TypeOK
<1>19. ASSUME Reopen PROVE TypeOK'
  <2>1. isUnlocked' \in BOOLEAN /\ misled' \in {"no", "unread", "unkeyed"}
    BY <1>19, LookFacts DEF Reopen, Throw, TypeOK
  <2>2. isEncrypted' \in BOOLEAN
    BY <1>19, Zenon DEF Reopen, Throw, TypeOK
  <2> QED
    BY <1>19, <2>1, <2>2 DEF Reopen, Opened, Throw, TypeOK
<1>20. ASSUME ReopenUnkeyed PROVE TypeOK'
  BY <1>20 DEF ReopenUnkeyed, Opened, Throw, TypeOK
<1>21. ASSUME UNCHANGED vars PROVE TypeOK'
  BY <1>21 DEF vars, objectVars, history, TypeOK
<1> QED
  BY <1>1, <1>2, <1>3, <1>4, <1>5, <1>6, <1>7, <1>8, <1>9, <1>10, <1>11, <1>12, <1>13,
     <1>14, <1>15, <1>16, <1>17, <1>18, <1>19, <1>20, <1>21 DEF Next

\* ... the flags in line with the file, failures included,
LEMMA FlagsStep == TypeOK /\ FlagsInv /\ FilesInv /\ [Next]_vars => FlagsInv'
<1> SUFFICES ASSUME TypeOK, FlagsInv, FilesInv, [Next]_vars
             PROVE  FlagsInv'
  OBVIOUS
<1>1. ASSUME Construct PROVE FlagsInv'
  <2>1. main' = IF main.exists THEN main ELSE Blank
    BY <1>1, FileFacts DEF Construct, Look, TypeOK, main
  <2>2. Readable(main', Plain) <=> Readable(main, Plain)
    BY <2>1, FileFacts DEF Readable, FilesInv, main
  <2> QED
    BY <1>1, <2>1, <2>2 DEF Construct, Look, FlagsInv, connected
<1>2. ASSUME Move PROVE FlagsInv'
  BY <1>2 DEF Move, history, FlagsInv, main, connected
<1>3. ASSUME Destroy PROVE FlagsInv'
  BY <1>3 DEF Destroy, Forget, FlagsInv, Replacing, connected
<1>4. ASSUME Crash PROVE FlagsInv'
  BY <1>4 DEF Crash, Forget, FlagsInv, Replacing, connected
<1>5. ASSUME NEW p \in Keys, Unlock(p) PROVE FlagsInv'
  BY <1>5 DEF Unlock, Look, FlagsInv, main, connected
<1>6. ASSUME NEW p \in Keys, SetPassword(p) PROVE FlagsInv'
  <2>0. pc = "idle" /\ password' = p /\ UNCHANGED <<flags, statement, saved, held>>
    BY <1>6 DEF SetPassword
  <2>1. CASE Refuse(p) /\ UNCHANGED lapses
    BY <2>0, <2>1 DEF Refuse, FlagsInv, main, connected
  <2>2. CASE KeepPlain(p) /\ UNCHANGED lapses
    BY <2>0, <2>2 DEF KeepPlain, FlagsInv, main, connected
  <2>3. CASE KeyBlank(p) /\ UNCHANGED lapses
    BY <2>0, <2>3, LookFacts DEF KeyBlank, FlagsInv, Readable, main, connected
  <2>4. CASE Rekey(p) /\ UNCHANGED lapses
    BY <2>0, <2>4 DEF Rekey, TypeOK, FlagsInv, File, Readable, main, connected, Names
  <2>5. CASE BeginReplace(p) /\ UNCHANGED lapses
    BY <2>0, <2>5 DEF BeginReplace, FlagsInv, Replacing, main, connected
  <2>6. CASE RekeyFails(p)
    BY <2>0, <2>6 DEF RekeyFails, FlagsInv, main, connected
  <2> QED
    BY <1>6, <2>1, <2>2, <2>3, <2>4, <2>5, <2>6 DEF SetPassword
<1>7. ASSUME NEW r \in Rows, Execute(r) PROVE FlagsInv'
  BY <1>7 DEF Execute, Commit, objectVars, FlagsInv, Store, Readable, main, connected
<1>8. ASSUME NEW r \in Rows, CreateStatement(r) PROVE FlagsInv'
  BY <1>8 DEF CreateStatement, objectVars, history, FlagsInv, main, connected
<1>9. ASSUME NEW r \in Rows, ExportRow(r) PROVE FlagsInv'
  BY <1>9 DEF ExportRow, objectVars, history, FlagsInv, Replacing, main, connected
<1>10. ASSUME StepStatement PROVE FlagsInv'
  BY <1>10 DEF StepStatement, Commit, objectVars, FlagsInv, Store, Readable, main,
     connected
<1>11. ASSUME FinalizeStatement PROVE FlagsInv'
  BY <1>11 DEF FinalizeStatement, objectVars, history, FlagsInv, main, connected
<1>12. ASSUME Attach PROVE FlagsInv'
  BY <1>12 DEF Attach, objectVars, FlagsInv, FilesInv, Replacing, main, connected
<1>13. ASSUME CopyFails PROVE FlagsInv'
  BY <1>13 DEF CopyFails, objectVars, FlagsInv, Replacing, main, connected
<1>14. ASSUME Exported PROVE FlagsInv'
  BY <1>14 DEF Exported, objectVars, history, FlagsInv, Replacing, main, connected
<1>15. ASSUME Close PROVE FlagsInv'
  <2>1. CASE statement # NoRow
    <3>1. /\ pc = "close" /\ pc' = "idle" /\ ret' = "threw" /\ main' = main
          /\ UNCHANGED <<db, key, isEncrypted, isUnlocked, misled, statement, lapses>>
      BY <1>15, <2>1 DEF Close, Throw, history, main
    <3> QED
      BY <3>1 DEF FlagsInv, Replacing, connected
  <2>2. CASE statement = NoRow
    BY <1>15, <2>2 DEF Close, history, FlagsInv, Replacing, main, connected
  <2> QED
    BY <2>1, <2>2
<1>16. ASSUME RemoveOld PROVE FlagsInv'
  BY <1>16 DEF RemoveOld, objectVars, history, FlagsInv, Replacing, connected
<1>17. ASSUME RenameCopy PROVE FlagsInv'
  <2>1. CASE file[temp].exists
    BY <1>17, <2>1 DEF RenameCopy, history, FlagsInv, Replacing, connected
  <2>2. CASE ~file[temp].exists
    <3>1. /\ pc = "rename" /\ pc' = "idle" /\ ret' = "threw" /\ db' = "unusable"
          /\ UNCHANGED <<key, isEncrypted, isUnlocked, misled, statement, lapses>>
      BY <1>17, <2>2 DEF RenameCopy, Throw, history
    <3> QED
      BY <3>1 DEF FlagsInv, Replacing, connected
  <2> QED
    BY <2>1, <2>2
<1>18. ASSUME ReplaceFails PROVE FlagsInv'
  BY <1>18 DEF ReplaceFails, Throw, history, FlagsInv, Replacing, connected
<1>19. ASSUME Reopen PROVE FlagsInv'
  <2>0. pc = "reopen" /\ pc' = "idle" /\ ~connected /\ main' = main /\ statement' = statement
    BY <1>19 DEF Reopen, Throw, FlagsInv, Replacing, main
  <2>1. CASE ret' = "true" /\ password = Plain
    BY <1>19, <2>0, <2>1 DEF Reopen, Opened, Throw, FlagsInv, FilesInv, Replacing, Readable,
       connected
  <2>2. CASE ret' = "true" /\ password # Plain
    <3>1. /\ isUnlocked' \in BOOLEAN /\ misled' \in {"no", "unread"}
          /\ isUnlocked' => Readable(main, password)
          /\ ~isUnlocked' => (Readable(main, password) => misled' = "unread")
      BY <1>19, <2>2, LookFacts DEF Reopen, Throw
    <3>2. /\ key' = password /\ isEncrypted' /\ db' \in {"open", "readonly"}
          /\ statement = NoRow /\ lapses' = lapses
      BY <1>19, <2>0, <2>2 DEF Reopen, Opened, Throw, FlagsInv
    <3> QED
      BY <2>0, <2>2, <3>1, <3>2 DEF FlagsInv, Replacing, Readable, connected
  <2>3. CASE ret' # "true"
    <3>1. /\ ret' = "threw" /\ db' \in {"null", "unusable"}
          /\ UNCHANGED <<key, isEncrypted, isUnlocked, misled, lapses>>
      BY <1>19, <2>3 DEF Reopen, Throw
    <3> QED
      BY <2>0, <3>1 DEF FlagsInv, Replacing, connected
  <2> QED
    BY <2>1, <2>2, <2>3
<1>20. ASSUME ReopenUnkeyed PROVE FlagsInv'
  BY <1>20 DEF ReopenUnkeyed, Opened, Throw, history, FlagsInv, Replacing, main, connected
<1>21. ASSUME UNCHANGED vars PROVE FlagsInv'
  BY <1>21 DEF vars, objectVars, history, FlagsInv, main, connected
<1> QED
  BY <1>1, <1>2, <1>3, <1>4, <1>5, <1>6, <1>7, <1>8, <1>9, <1>10, <1>11, <1>12, <1>13,
     <1>14, <1>15, <1>16, <1>17, <1>18, <1>19, <1>20, <1>21 DEF Next

\* ... the copies apart from each other,
LEMMA FilesStep == TypeOK /\ FlagsInv /\ FilesInv /\ [Next]_vars => FilesInv'
<1> SUFFICES ASSUME TypeOK, FlagsInv, FilesInv, [Next]_vars
             PROVE  FilesInv'
  OBVIOUS
<1>1. ASSUME Construct PROVE FilesInv'
  BY <1>1 DEF Construct, Look, TypeOK, FilesInv, Blank, main, Names
<1>2. ASSUME Move PROVE FilesInv'
  BY <1>2 DEF Move, FilesInv, main
<1>3. ASSUME Destroy PROVE FilesInv'
  BY <1>3 DEF Destroy, Forget, FilesInv, connected
<1>4. ASSUME Crash PROVE FilesInv'
  BY <1>4 DEF Crash, Forget, FilesInv, connected
<1>5. ASSUME NEW p \in Keys, Unlock(p) PROVE FilesInv'
  BY <1>5 DEF Unlock, Look, FilesInv, main
<1>6. ASSUME NEW p \in Keys, SetPassword(p) PROVE FilesInv'
  <2>0. pc = "idle" /\ password' = p /\ UNCHANGED <<flags, statement, saved, held>>
    BY <1>6 DEF SetPassword
  <2>1. CASE Refuse(p) /\ UNCHANGED lapses
    BY <2>0, <2>1 DEF Refuse, FilesInv, main, connected
  <2>2. CASE KeepPlain(p) /\ UNCHANGED lapses
    BY <2>0, <2>2 DEF KeepPlain, FilesInv, main
  <2>3. CASE KeyBlank(p) /\ UNCHANGED lapses
    BY <2>0, <2>3 DEF KeyBlank, Look, FilesInv, main
  <2>4. CASE Rekey(p) /\ UNCHANGED lapses
    BY <2>0, <2>4 DEF Rekey, FilesInv, main, Names
  <2>5. CASE BeginReplace(p) /\ UNCHANGED lapses
    BY <2>0, <2>5 DEF BeginReplace, FilesInv, main
  <2>6. CASE RekeyFails(p)
    BY <2>0, <2>6 DEF RekeyFails, FilesInv, main
  <2> QED
    BY <1>6, <2>1, <2>2, <2>3, <2>4, <2>5, <2>6 DEF SetPassword
<1>7. ASSUME NEW r \in Rows, Execute(r) PROVE FilesInv'
  BY <1>7 DEF Execute, Commit, FilesInv, Store, main, connected, Names
<1>8. ASSUME NEW r \in Rows, CreateStatement(r) PROVE FilesInv'
  BY <1>8 DEF CreateStatement, FilesInv, main
<1>9. ASSUME NEW r \in Rows, ExportRow(r) PROVE FilesInv'
  <2>1. Store(file[temp], {r}, password).exists = file[temp].exists
    <3>1. file[temp] \in File /\ {r} \in SUBSET Rows /\ password \in Keys
      BY FileFacts DEF TypeOK
    <3> QED
      BY <3>1, StoreFacts
  <2>2. temp = "decrypt" => Store(file[temp], {r}, password).key = Plain
    <3>1. Store(file[temp], {r}, password).key
             = IF file[temp].rows = {} THEN password ELSE file[temp].key
      <4>1. file[temp] \in File /\ {r} \in SUBSET Rows /\ password \in Keys
        BY FileFacts DEF TypeOK
      <4>2. \A f \in File, R \in SUBSET Rows, k \in Keys :
               Store(f, R, k).key = IF f.rows = {} THEN k ELSE f.key
        BY StoreFacts
      <4> QED
        BY <4>1, <4>2
    <3> QED
      BY <3>1 DEF FilesInv, temp
  <2>3. /\ file[temp].exists /\ file'[temp].exists
        /\ main' = main /\ file'["decrypt"].key = Plain
    BY <1>9, <2>1, <2>2, ExportFacts, FileFacts DEF FilesInv, ExportRow, main
  <2>4. pc' = "copy" /\ password' = password /\ db' = db
    BY <1>9 DEF ExportRow, objectVars
  <2>5. \A n \in Names : file'[n].exists \/ file'[n] = NoFile
    BY <1>9, <2>3, ExportFacts DEF FilesInv
  <2>6. temp' = temp /\ connected' = connected
    BY <2>4 DEF temp, connected
  <2> QED
    BY <1>9, <2>3, <2>4, <2>5, <2>6 DEF FilesInv, ExportRow
<1>10. ASSUME StepStatement PROVE FilesInv'
  BY <1>10 DEF StepStatement, Commit, FlagsInv, FilesInv, Store, main, temp, Names
<1>11. ASSUME FinalizeStatement PROVE FilesInv'
  BY <1>11 DEF FinalizeStatement, FlagsInv, FilesInv, main, temp
<1>12. ASSUME Attach PROVE FilesInv'
  BY <1>12 DEF Attach, TypeOK, FlagsInv, FilesInv, Replacing, Blank, main, temp, Names
<1>13. ASSUME CopyFails PROVE FilesInv'
  BY <1>13 DEF CopyFails, FlagsInv, FilesInv, Replacing, main
<1>14. ASSUME Exported PROVE FilesInv'
  BY <1>14 DEF Exported, FlagsInv, FilesInv, Replacing, main
<1>15. ASSUME Close PROVE FilesInv'
  BY <1>15 DEF Close, Throw, FlagsInv, FilesInv, Replacing, main
<1>16. ASSUME RemoveOld PROVE FilesInv'
  BY <1>16 DEF RemoveOld, objectVars, FlagsInv, FilesInv, Replacing, connected, Names
<1>17. ASSUME RenameCopy PROVE FilesInv'
  <2>1. CASE file[temp].exists
    <3>1. file' = [file EXCEPT !["main"] = file[temp], ![temp] = NoFile]
      BY <1>17, <2>1 DEF RenameCopy
    <3>2. /\ main' = file[temp] /\ file'[temp] = NoFile
          /\ \A n \in Names : n # "main" /\ n # temp => file'[n] = file[n]
      BY <3>1, FileFacts DEF TypeOK, main
    <3>3. temp' = temp /\ pc' = "reopen" /\ password' = password /\ db' = db
      BY <1>17, <2>1 DEF RenameCopy, temp
    <3>4. password = Plain => temp = "decrypt"
      BY DEF temp
    <3> QED
      BY <2>1, <3>2, <3>3, <3>4, FileFacts DEF FilesInv, main, Names
  <2>2. CASE ~file[temp].exists
    BY <1>17, <2>2 DEF RenameCopy, Throw, FilesInv, connected
  <2> QED
    BY <2>1, <2>2
<1>18. ASSUME ReplaceFails PROVE FilesInv'
  BY <1>18 DEF ReplaceFails, Throw, FilesInv, connected
<1>19. ASSUME Reopen PROVE FilesInv'
  BY <1>19 DEF Reopen, Opened, Look, Throw, FilesInv, main
<1>20. ASSUME ReopenUnkeyed PROVE FilesInv'
  BY <1>20 DEF ReopenUnkeyed, Opened, Throw, FilesInv, main, connected
<1>21. ASSUME UNCHANGED vars PROVE FilesInv'
  BY <1>21 DEF vars, objectVars, FilesInv, main, temp, connected
<1> QED
  BY <1>1, <1>2, <1>3, <1>4, <1>5, <1>6, <1>7, <1>8, <1>9, <1>10, <1>11, <1>12, <1>13,
     <1>14, <1>15, <1>16, <1>17, <1>18, <1>19, <1>20, <1>21 DEF Next

\* ... only who can read the file in a replacement or with a statement,
LEMMA BlankStep == TypeOK /\ FlagsInv /\ FilesInv /\ BlankInv /\ [Next]_vars => BlankInv'
<1> SUFFICES ASSUME TypeOK, FlagsInv, FilesInv, BlankInv, [Next]_vars
             PROVE  BlankInv'
  OBVIOUS
<1>1. ASSUME Construct PROVE BlankInv'
  BY <1>1 DEF Construct, Look, TypeOK, FlagsInv, BlankInv, Replacing, Blank, main, connected, Names
<1>2. ASSUME Move PROVE BlankInv'
  BY <1>2 DEF Move, BlankInv
<1>3. ASSUME Destroy PROVE BlankInv'
  BY <1>3 DEF Destroy, Forget, BlankInv, Replacing
<1>4. ASSUME Crash PROVE BlankInv'
  BY <1>4 DEF Crash, Forget, BlankInv, Replacing
<1>5. ASSUME NEW p \in Keys, Unlock(p) PROVE BlankInv'
  BY <1>5 DEF Unlock, Look, BlankInv, Replacing
<1>6. ASSUME NEW p \in Keys, SetPassword(p) PROVE BlankInv'
  <2>0. pc = "idle" /\ password' = p /\ UNCHANGED <<flags, statement, saved, held>>
    BY <1>6 DEF SetPassword
  <2>1. CASE Refuse(p) /\ UNCHANGED lapses
    BY <2>0, <2>1 DEF Refuse, BlankInv
  <2>2. CASE KeepPlain(p) /\ UNCHANGED lapses
    BY <2>0, <2>2 DEF KeepPlain, BlankInv
  <2>3. CASE KeyBlank(p) /\ UNCHANGED lapses
    BY <2>0, <2>3 DEF KeyBlank, Look, BlankInv
  <2>4. CASE Rekey(p) /\ UNCHANGED lapses
    BY <2>0, <2>4 DEF Rekey, TypeOK, BlankInv, File, main, Names
  <2>5. CASE BeginReplace(p) /\ UNCHANGED lapses
    BY <2>0, <2>5 DEF BeginReplace, FlagsInv, BlankInv, Replacing, Readable
  <2>6. CASE RekeyFails(p)
    BY <2>0, <2>6 DEF RekeyFails, BlankInv
  <2> QED
    BY <1>6, <2>1, <2>2, <2>3, <2>4, <2>5, <2>6 DEF SetPassword
<1>7. ASSUME NEW r \in Rows, Execute(r) PROVE BlankInv'
  <2>1. /\ file'["main"].rows # {}
        /\ file'["encrypt"] = file["encrypt"] /\ file'["decrypt"] = file["decrypt"]
    BY <1>7, CommitFacts DEF Execute
  <2> QED
    BY <1>7, <2>1 DEF Execute, objectVars, BlankInv, Names
<1>8. ASSUME NEW r \in Rows, CreateStatement(r) PROVE BlankInv'
  BY <1>8 DEF CreateStatement, objectVars, BlankInv
<1>9. ASSUME NEW r \in Rows, ExportRow(r) PROVE BlankInv'
  <2>1. /\ file'[temp].rows # {}
        /\ \A n \in Names : n # temp => file'[n] = file[n]
    BY <1>9, ExportFacts
  <2> QED
    BY <1>9, <2>1 DEF ExportRow, objectVars, BlankInv, Replacing
<1>10. ASSUME StepStatement PROVE BlankInv'
  <2>1. statement \in Rows /\ Commit(statement)
    BY <1>10 DEF StepStatement, TypeOK
  <2>2. /\ file'["main"].rows # {}
        /\ file'["encrypt"] = file["encrypt"] /\ file'["decrypt"] = file["decrypt"]
    BY <2>1, CommitFacts
  <2> QED
    BY <1>10, <2>2 DEF StepStatement, objectVars, BlankInv, Names
<1>11. ASSUME FinalizeStatement PROVE BlankInv'
  BY <1>11 DEF FinalizeStatement, objectVars, BlankInv
<1>12. ASSUME Attach PROVE BlankInv'
  BY <1>12, FileFacts DEF Attach, objectVars, TypeOK, BlankInv, Replacing
<1>13. ASSUME CopyFails PROVE BlankInv'
  BY <1>13 DEF CopyFails, objectVars, BlankInv, Replacing
<1>14. ASSUME Exported PROVE BlankInv'
  BY <1>14 DEF Exported, objectVars, BlankInv, Replacing
<1>15. ASSUME Close PROVE BlankInv'
  BY <1>15 DEF Close, Throw, BlankInv, Replacing
<1>16. ASSUME RemoveOld PROVE BlankInv'
  BY <1>16, FileFacts DEF RemoveOld, objectVars, TypeOK, BlankInv, Replacing
<1>17. ASSUME RenameCopy PROVE BlankInv'
  <2>1. \A n \in Names : file'[n].rows = {} => file'[n].key = Plain
    BY <1>17, FileFacts DEF RenameCopy, Throw, TypeOK, BlankInv
  <2> QED
    BY <1>17, <2>1 DEF RenameCopy, Throw, BlankInv, Replacing
<1>18. ASSUME ReplaceFails PROVE BlankInv'
  BY <1>18 DEF ReplaceFails, Throw, BlankInv, Replacing
<1>19. ASSUME Reopen PROVE BlankInv'
  BY <1>19 DEF Reopen, Opened, Look, Throw, FlagsInv, BlankInv, Replacing, connected
<1>20. ASSUME ReopenUnkeyed PROVE BlankInv'
  BY <1>20 DEF ReopenUnkeyed, Throw, BlankInv
<1>21. ASSUME UNCHANGED vars PROVE BlankInv'
  BY <1>21 DEF vars, objectVars, BlankInv
<1> QED
  BY <1>1, <1>2, <1>3, <1>4, <1>5, <1>6, <1>7, <1>8, <1>9, <1>10, <1>11, <1>12, <1>13,
     <1>14, <1>15, <1>16, <1>17, <1>18, <1>19, <1>20, <1>21 DEF Next

\* ... the copy complete before the original goes,
LEMMA CopyStep == TypeOK /\ FlagsInv /\ FilesInv /\ CopyInv /\ [Next]_vars => CopyInv'
<1> SUFFICES ASSUME TypeOK, FlagsInv, FilesInv, CopyInv, [Next]_vars
             PROVE  CopyInv'
  OBVIOUS
<1>1. ASSUME Construct PROVE CopyInv'
  BY <1>1 DEF Construct, Look, FilesInv, CopyInv, NoFile, Blank, main, Names
<1>2. ASSUME Move PROVE CopyInv'
  BY <1>2 DEF Move, history, CopyInv, main
<1>3. ASSUME Destroy PROVE CopyInv'
  BY <1>3 DEF Destroy, Forget, CopyInv, connected
<1>4. ASSUME Crash PROVE CopyInv'
  BY <1>4 DEF Crash, Forget, CopyInv, connected
<1>5. ASSUME NEW p \in Keys, Unlock(p) PROVE CopyInv'
  BY <1>5 DEF Unlock, Look, history, CopyInv, main
<1>6. ASSUME NEW p \in Keys, SetPassword(p) PROVE CopyInv'
  <2>0. pc = "idle" /\ password' = p /\ UNCHANGED <<flags, statement, saved, held>>
    BY <1>6 DEF SetPassword
  <2>1. CASE Refuse(p) /\ UNCHANGED lapses
    BY <2>0, <2>1 DEF Refuse, CopyInv, main, connected
  <2>2. CASE KeepPlain(p) /\ UNCHANGED lapses
    BY <2>0, <2>2 DEF KeepPlain, CopyInv, main
  <2>3. CASE KeyBlank(p) /\ UNCHANGED lapses
    BY <2>0, <2>3 DEF KeyBlank, Look, CopyInv, main
  <2>4. CASE Rekey(p) /\ UNCHANGED lapses
    BY <2>0, <2>4 DEF Rekey, CopyInv, main
  <2>5. CASE BeginReplace(p) /\ UNCHANGED lapses
    BY <2>0, <2>5 DEF BeginReplace, CopyInv, main
  <2>6. CASE RekeyFails(p)
    BY <2>0, <2>6 DEF RekeyFails, CopyInv
  <2> QED
    BY <1>6, <2>1, <2>2, <2>3, <2>4, <2>5, <2>6 DEF SetPassword
<1>7. ASSUME NEW r \in Rows, Execute(r) PROVE CopyInv'
  BY <1>7 DEF Execute, Commit, TypeOK, CopyInv, Store, main, connected, Names
<1>8. ASSUME NEW r \in Rows, CreateStatement(r) PROVE CopyInv'
  BY <1>8 DEF CreateStatement, history, CopyInv, main
<1>9. ASSUME NEW r \in Rows, ExportRow(r) PROVE CopyInv'
  BY <1>9 DEF ExportRow, history, FlagsInv, CopyInv, Replacing, Store, Readable, main,
     temp
<1>10. ASSUME StepStatement PROVE CopyInv'
  BY <1>10 DEF StepStatement, Commit, TypeOK, FlagsInv, CopyInv, Store, main, temp, Names
<1>11. ASSUME FinalizeStatement PROVE CopyInv'
  BY <1>11 DEF FinalizeStatement, history, FlagsInv, CopyInv, main, temp
<1>12. ASSUME Attach PROVE CopyInv'
  BY <1>12 DEF Attach, FlagsInv, CopyInv, Replacing, Blank, Readable, main, temp
<1>13. ASSUME CopyFails PROVE CopyInv'
  BY <1>13 DEF CopyFails, CopyInv
<1>14. ASSUME Exported PROVE CopyInv'
  BY <1>14 DEF Exported, history, FlagsInv, CopyInv, Replacing, main, temp
<1>15. ASSUME Close PROVE CopyInv'
  BY <1>15 DEF Close, Throw, history, FlagsInv, CopyInv, Replacing, main, temp
<1>16. ASSUME RemoveOld PROVE CopyInv'
  BY <1>16 DEF RemoveOld, objectVars, history, TypeOK, FlagsInv, CopyInv, Replacing,
     NoFile, main, temp, connected, Names
<1>17. ASSUME RenameCopy PROVE CopyInv'
  BY <1>17 DEF RenameCopy, Throw, history, TypeOK, CopyInv, main, connected, Names
<1>18. ASSUME ReplaceFails PROVE CopyInv'
  BY <1>18 DEF ReplaceFails, Throw, CopyInv, connected
<1>19. ASSUME Reopen PROVE CopyInv'
  BY <1>19 DEF Reopen, Opened, Look, Throw, CopyInv, main
<1>20. ASSUME ReopenUnkeyed PROVE CopyInv'
  BY <1>20 DEF ReopenUnkeyed, CopyInv
<1>21. ASSUME UNCHANGED vars PROVE CopyInv'
  BY <1>21 DEF vars, objectVars, history, CopyInv, main, temp, connected
<1> QED
  BY <1>1, <1>2, <1>3, <1>4, <1>5, <1>6, <1>7, <1>8, <1>9, <1>10, <1>11, <1>12, <1>13,
     <1>14, <1>15, <1>16, <1>17, <1>18, <1>19, <1>20, <1>21 DEF Next

\* ... the key among those the owner knows,
LEMMA KeyStep == TypeOK /\ FlagsInv /\ FilesInv /\ CopyInv /\ KeyInv /\ [Next]_vars => KeyInv'
<1> SUFFICES ASSUME TypeOK, FlagsInv, FilesInv, CopyInv, KeyInv, [Next]_vars
             PROVE  KeyInv'
  OBVIOUS
<1>1. ASSUME Construct PROVE KeyInv'
  BY <1>1 DEF Construct, Look, TypeOK, FilesInv, KeyInv, NoFile, main
<1>2. ASSUME Move PROVE KeyInv'
  BY <1>2 DEF Move, history, KeyInv, main
<1>3. ASSUME Destroy PROVE KeyInv'
  BY <1>3 DEF Destroy, Forget, KeyInv, connected
<1>4. ASSUME Crash PROVE KeyInv'
  BY <1>4 DEF Crash, Forget, KeyInv, connected
<1>5. ASSUME NEW p \in Keys, Unlock(p) PROVE KeyInv'
  BY <1>5 DEF Unlock, Look, FlagsInv, KeyInv, Readable, main
<1>6. ASSUME NEW p \in Keys, SetPassword(p) PROVE KeyInv'
  <2>0. pc = "idle" /\ password' = p /\ UNCHANGED <<flags, statement, saved, held>>
    BY <1>6 DEF SetPassword
  <2>1. CASE Refuse(p) /\ UNCHANGED lapses
    BY <2>0, <2>1 DEF Refuse, KeyInv, main, connected
  <2>2. CASE KeepPlain(p) /\ UNCHANGED lapses
    BY <2>0, <2>2 DEF KeepPlain, FlagsInv, KeyInv, main, connected
  <2>3. CASE KeyBlank(p) /\ UNCHANGED lapses
    BY <2>0, <2>3 DEF KeyBlank, Look, KeyInv, Readable, main
  <2>4. CASE Rekey(p) /\ UNCHANGED lapses
    BY <2>0, <2>4 DEF Rekey, TypeOK, KeyInv, Readable, main, Names
  <2>5. CASE BeginReplace(p) /\ UNCHANGED lapses
    BY <2>0, <2>5 DEF BeginReplace, KeyInv, main
  <2>6. CASE RekeyFails(p)
    BY <2>0, <2>6 DEF RekeyFails, KeyInv
  <2> QED
    BY <1>6, <2>1, <2>2, <2>3, <2>4, <2>5, <2>6 DEF SetPassword
<1>7. ASSUME NEW r \in Rows, Execute(r) PROVE KeyInv'
  BY <1>7 DEF Execute, Commit, TypeOK, KeyInv, Store, main, Names
<1>8. ASSUME NEW r \in Rows, CreateStatement(r) PROVE KeyInv'
  BY <1>8 DEF CreateStatement, objectVars, history, KeyInv, main
<1>9. ASSUME NEW r \in Rows, ExportRow(r) PROVE KeyInv'
  BY <1>9 DEF ExportRow, history, FlagsInv, KeyInv, main
<1>10. ASSUME StepStatement PROVE KeyInv'
  BY <1>10 DEF StepStatement, Commit, objectVars, FlagsInv, KeyInv, Store, Readable, main
<1>11. ASSUME FinalizeStatement PROVE KeyInv'
  BY <1>11 DEF FinalizeStatement, objectVars, history, FlagsInv, KeyInv, main
<1>12. ASSUME Attach PROVE KeyInv'
  BY <1>12 DEF Attach, objectVars, FlagsInv, KeyInv, Replacing, main
<1>13. ASSUME CopyFails PROVE KeyInv'
  BY <1>13 DEF CopyFails, KeyInv
<1>14. ASSUME Exported PROVE KeyInv'
  BY <1>14 DEF Exported, objectVars, history, FlagsInv, KeyInv, Replacing, main
<1>15. ASSUME Close PROVE KeyInv'
  BY <1>15 DEF Close, Throw, history, FlagsInv, KeyInv, Replacing, main
<1>16. ASSUME RemoveOld PROVE KeyInv'
  BY <1>16 DEF RemoveOld, objectVars, history, FlagsInv, KeyInv, Replacing, connected
<1>17. ASSUME RenameCopy PROVE KeyInv'
  BY <1>17 DEF RenameCopy, Throw, history, FlagsInv, CopyInv, KeyInv, connected
<1>18. ASSUME ReplaceFails PROVE KeyInv'
  BY <1>18 DEF ReplaceFails, Throw, KeyInv, connected
<1>19. ASSUME Reopen PROVE KeyInv'
  BY <1>19 DEF Reopen, Opened, Look, Throw, CopyInv, KeyInv, main, connected
<1>20. ASSUME ReopenUnkeyed PROVE KeyInv'
  BY <1>20 DEF ReopenUnkeyed, KeyInv
<1>21. ASSUME UNCHANGED vars PROVE KeyInv'
  BY <1>21 DEF vars, objectVars, history, KeyInv, main, connected
<1> QED
  BY <1>1, <1>2, <1>3, <1>4, <1>5, <1>6, <1>7, <1>8, <1>9, <1>10, <1>11, <1>12, <1>13,
     <1>14, <1>15, <1>16, <1>17, <1>18, <1>19, <1>20, <1>21 DEF Next

\* ... every row in some file, because of CopyInv,
LEMMA NothingLostStep ==
    TypeOK /\ FlagsInv /\ FilesInv /\ CopyInv /\ NothingLost /\ [Next]_vars => NothingLost'
<1> SUFFICES ASSUME TypeOK, FlagsInv, FilesInv, CopyInv, NothingLost, [Next]_vars
             PROVE  NothingLost'
  OBVIOUS
<1>1. ASSUME Construct PROVE NothingLost'
  BY <1>1 DEF Construct, Look, NothingLost, FilesInv, NoFile, main
<1>2. ASSUME Move PROVE NothingLost'
  BY <1>2 DEF Move, history, NothingLost
<1>3. ASSUME Destroy PROVE NothingLost'
  BY <1>3 DEF Destroy, Forget, history, NothingLost
<1>4. ASSUME Crash PROVE NothingLost'
  BY <1>4 DEF Crash, Forget, history, NothingLost
<1>5. ASSUME NEW p \in Keys, Unlock(p) PROVE NothingLost'
  BY <1>5 DEF Unlock, Look, history, NothingLost
<1>6. ASSUME NEW p \in Keys, SetPassword(p) PROVE NothingLost'
  <2>0. pc = "idle" /\ password' = p /\ UNCHANGED <<flags, statement, saved, held>>
    BY <1>6 DEF SetPassword
  <2>1. CASE Refuse(p) /\ UNCHANGED lapses
    BY <2>0, <2>1 DEF Refuse, NothingLost
  <2>2. CASE KeepPlain(p) /\ UNCHANGED lapses
    BY <2>0, <2>2 DEF KeepPlain, NothingLost
  <2>3. CASE KeyBlank(p) /\ UNCHANGED lapses
    BY <2>0, <2>3 DEF KeyBlank, Look, NothingLost
  <2>4. CASE Rekey(p) /\ UNCHANGED lapses
    BY <2>0, <2>4 DEF Rekey, NothingLost
  <2>5. CASE BeginReplace(p) /\ UNCHANGED lapses
    BY <2>0, <2>5 DEF BeginReplace, NothingLost
  <2>6. CASE RekeyFails(p)
    BY <2>0, <2>6 DEF RekeyFails, NothingLost
  <2> QED
    BY <1>6, <2>1, <2>2, <2>3, <2>4, <2>5, <2>6 DEF SetPassword
<1>7. ASSUME NEW r \in Rows, Execute(r) PROVE NothingLost'
  BY <1>7 DEF Execute, Commit, TypeOK, NothingLost, Store, Names
<1>8. ASSUME NEW r \in Rows, CreateStatement(r) PROVE NothingLost'
  BY <1>8 DEF CreateStatement, history, NothingLost
<1>9. ASSUME NEW r \in Rows, ExportRow(r) PROVE NothingLost'
  BY <1>9 DEF ExportRow, history, NothingLost, Store
<1>10. ASSUME StepStatement PROVE NothingLost'
  BY <1>10 DEF StepStatement, Commit, TypeOK, NothingLost, Store, Names
<1>11. ASSUME FinalizeStatement PROVE NothingLost'
  BY <1>11 DEF FinalizeStatement, history, NothingLost
<1>12. ASSUME Attach PROVE NothingLost'
  BY <1>12 DEF Attach, NothingLost
<1>13. ASSUME CopyFails PROVE NothingLost'
  BY <1>13 DEF CopyFails, NothingLost
<1>14. ASSUME Exported PROVE NothingLost'
  BY <1>14 DEF Exported, history, NothingLost
<1>15. ASSUME Close PROVE NothingLost'
  BY <1>15 DEF Close, Throw, history, NothingLost
<1>16. ASSUME RemoveOld PROVE NothingLost'
  BY <1>16 DEF RemoveOld, history, NothingLost, CopyInv, main, temp, Names
<1>17. ASSUME RenameCopy PROVE NothingLost'
  BY <1>17 DEF RenameCopy, Throw, history, TypeOK, NothingLost, CopyInv, main, Names
<1>18. ASSUME ReplaceFails PROVE NothingLost'
  BY <1>18 DEF ReplaceFails, Throw, history, NothingLost
<1>19. ASSUME Reopen PROVE NothingLost'
  BY <1>19 DEF Reopen, Opened, Look, Throw, NothingLost
<1>20. ASSUME ReopenUnkeyed PROVE NothingLost'
  BY <1>20 DEF ReopenUnkeyed, NothingLost
<1>21. ASSUME UNCHANGED vars PROVE NothingLost'
  BY <1>21 DEF vars, history, NothingLost
<1> QED
  BY <1>1, <1>2, <1>3, <1>4, <1>5, <1>6, <1>7, <1>8, <1>9, <1>10, <1>11, <1>12, <1>13,
     <1>14, <1>15, <1>16, <1>17, <1>18, <1>19, <1>20, <1>21 DEF Next

\* ... and the database file open to its owner.
LEMMA OwnerStep ==
    TypeOK /\ FlagsInv /\ FilesInv /\ CopyInv /\ KeyInv /\ OwnerCanOpen /\ [Next]_vars
    => OwnerCanOpen'
<1> SUFFICES ASSUME TypeOK, FlagsInv, FilesInv, CopyInv, KeyInv, OwnerCanOpen, [Next]_vars
             PROVE  OwnerCanOpen'
  OBVIOUS
<1>1. ASSUME Construct PROVE OwnerCanOpen'
  BY <1>1 DEF Construct, Look, OwnerCanOpen, Blank, Readable, main
<1>2. ASSUME Move PROVE OwnerCanOpen'
  BY <1>2 DEF Move, history, OwnerCanOpen, main
<1>3. ASSUME Destroy PROVE OwnerCanOpen'
  BY <1>3 DEF Destroy, Forget, history, OwnerCanOpen, main
<1>4. ASSUME Crash PROVE OwnerCanOpen'
  BY <1>4 DEF Crash, Forget, history, OwnerCanOpen, main
<1>5. ASSUME NEW p \in Keys, Unlock(p) PROVE OwnerCanOpen'
  BY <1>5 DEF Unlock, Look, history, OwnerCanOpen, main
<1>6. ASSUME NEW p \in Keys, SetPassword(p) PROVE OwnerCanOpen'
  <2>0. pc = "idle" /\ password' = p /\ UNCHANGED <<flags, statement, saved, held>>
    BY <1>6 DEF SetPassword
  <2>1. CASE Refuse(p) /\ UNCHANGED lapses
    BY <2>0, <2>1 DEF Refuse, OwnerCanOpen, main
  <2>2. CASE KeepPlain(p) /\ UNCHANGED lapses
    BY <2>0, <2>2 DEF KeepPlain, OwnerCanOpen, main
  <2>3. CASE KeyBlank(p) /\ UNCHANGED lapses
    BY <2>0, <2>3 DEF KeyBlank, Look, OwnerCanOpen, Readable, main
  <2>4. CASE Rekey(p) /\ UNCHANGED lapses
    BY <2>0, <2>4 DEF Rekey, TypeOK, OwnerCanOpen, Readable, main, Names
  <2>5. CASE BeginReplace(p) /\ UNCHANGED lapses
    BY <2>0, <2>5 DEF BeginReplace, OwnerCanOpen, main
  <2>6. CASE RekeyFails(p)
    BY <2>0, <2>6 DEF RekeyFails, OwnerCanOpen
  <2> QED
    BY <1>6, <2>1, <2>2, <2>3, <2>4, <2>5, <2>6 DEF SetPassword
<1>7. ASSUME NEW r \in Rows, Execute(r) PROVE OwnerCanOpen'
  BY <1>7 DEF Execute, Commit, OwnerCanOpen, KeyInv, Store, Readable, main, connected
<1>8. ASSUME NEW r \in Rows, CreateStatement(r) PROVE OwnerCanOpen'
  BY <1>8 DEF CreateStatement, history, OwnerCanOpen, main
<1>9. ASSUME NEW r \in Rows, ExportRow(r) PROVE OwnerCanOpen'
  BY <1>9 DEF ExportRow, history, OwnerCanOpen, main, temp
<1>10. ASSUME StepStatement PROVE OwnerCanOpen'
  BY <1>10 DEF StepStatement, Commit, OwnerCanOpen, KeyInv, FlagsInv, Store, Readable,
     main
<1>11. ASSUME FinalizeStatement PROVE OwnerCanOpen'
  BY <1>11 DEF FinalizeStatement, history, OwnerCanOpen, main
<1>12. ASSUME Attach PROVE OwnerCanOpen'
  BY <1>12 DEF Attach, OwnerCanOpen, FlagsInv, FilesInv, Replacing, main
<1>13. ASSUME CopyFails PROVE OwnerCanOpen'
  BY <1>13 DEF CopyFails, OwnerCanOpen
<1>14. ASSUME Exported PROVE OwnerCanOpen'
  BY <1>14 DEF Exported, history, OwnerCanOpen, main
<1>15. ASSUME Close PROVE OwnerCanOpen'
  BY <1>15 DEF Close, Throw, history, OwnerCanOpen, main
<1>16. ASSUME RemoveOld PROVE OwnerCanOpen'
  BY <1>16 DEF RemoveOld, history, OwnerCanOpen, NoFile, Readable, main
<1>17. ASSUME RenameCopy PROVE OwnerCanOpen'
  BY <1>17 DEF RenameCopy, Throw, history, TypeOK, OwnerCanOpen, KeyInv, CopyInv, main,
     Names
<1>18. ASSUME ReplaceFails PROVE OwnerCanOpen'
  BY <1>18 DEF ReplaceFails, Throw, history, OwnerCanOpen, main
<1>19. ASSUME Reopen PROVE OwnerCanOpen'
  BY <1>19 DEF Reopen, Opened, Look, Throw, OwnerCanOpen, CopyInv, main
<1>20. ASSUME ReopenUnkeyed PROVE OwnerCanOpen'
  BY <1>20 DEF ReopenUnkeyed, OwnerCanOpen
<1>21. ASSUME UNCHANGED vars PROVE OwnerCanOpen'
  BY <1>21 DEF vars, history, OwnerCanOpen, main
<1> QED
  BY <1>1, <1>2, <1>3, <1>4, <1>5, <1>6, <1>7, <1>8, <1>9, <1>10, <1>11, <1>12, <1>13,
     <1>14, <1>15, <1>16, <1>17, <1>18, <1>19, <1>20, <1>21 DEF Next


\* The invariant holds before the first object is made.
LEMMA InitInv == Init => Inv
<1> SUFFICES ASSUME Init PROVE Inv
  OBVIOUS
<1>1. TypeOK
  BY FileFacts, SqliteAssumption DEF Init, TypeOK, Keys
<1>2. FlagsInv
  BY DEF Init, FlagsInv, connected, Replacing
<1>3. FilesInv
  BY FileFacts DEF Init, FilesInv, connected, Names
<1>4. BlankInv /\ CopyInv /\ KeyInv
  BY FileFacts DEF Init, BlankInv, CopyInv, KeyInv, connected, Replacing
<1>5. NothingLost /\ OwnerCanOpen
  BY FileFacts DEF Init, NothingLost, OwnerCanOpen, Readable, main
<1> QED
  BY <1>1, <1>2, <1>3, <1>4, <1>5 DEF Inv

\* The inductive invariant holds in every reachable state.
THEOREM Invariance == Spec => []Inv
<1>1. Init => Inv
  BY InitInv
<1>2. Inv /\ [Next]_vars => Inv'
  BY TypeStep, FlagsStep, FilesStep, BlankStep, CopyStep, KeyStep, NothingLostStep, OwnerStep
  DEF Inv
<1> QED
  BY <1>1, <1>2, PTL DEF Spec

\* Every variable keeps its type.
THEOREM TypeCorrect == Spec => []TypeOK
<1>1. Inv => TypeOK
  BY DEF Inv
<1> QED
  BY <1>1, Invariance, PTL

\* A crash at any point loses no row, unless a replacement met a leftover
\* copy, a failed call, lost flags or a foreign statement.
THEOREM CrashesLoseNothing == Spec => []NothingLost
<1>1. Inv => NothingLost
  BY DEF Inv
<1> QED
  BY <1>1, Invariance, PTL

\* Under the same condition the file opens with a password its owner knows.
THEOREM OwnerIsNotLockedOut == Spec => []OwnerCanOpen
<1>1. Inv => OwnerCanOpen
  BY DEF Inv
<1> QED
  BY <1>1, Invariance, PTL

\* A setPassword() that met nothing unusual and returned true has done it.
THEOREM TrueIsHonest == Spec => []DoneUnlessLapsed
<1>1. Inv => DoneUnlessLapsed
  BY DEF Inv, FlagsInv, CopyInv, KeyInv, DoneUnlessLapsed, TrueMeansDone
<1> QED
  BY <1>1, Invariance, PTL

\* Failures included, the flags of a usable object agree with its file.
THEOREM FlagsAreTrue == Spec => []FlagsTellTheFile
<1>1. Inv => FlagsTellTheFile
  BY DEF Inv, FlagsInv, FlagsTellTheFile, connected
<1> QED
  BY <1>1, Invariance, PTL

-----------------------------------------------------------------------------
(* The refinement. Inv says what a step finds in the file and in the copy.  *)

LEMMA InitialFile == Init => Disk!FileInit
  BY FileFacts DEF Init, Disk!FileInit, present, main, connected

\* What went wrong once stays known.
LEMMA LapsesStay == lapses # {} /\ [Next]_vars => lapses' # {}
  BY DEF Next, vars, history, Construct, Move, Destroy, Crash, Forget, Unlock, SetPassword,
     RekeyFails, Execute, CreateStatement, ExportRow, StepStatement, FinalizeStatement,
     Attach, CopyFails, Exported, Close, RemoveOld, RenameCopy, ReplaceFails, Reopen,
     ReopenUnkeyed

\* While nothing has, what stands for the file is the database file or a copy
\* that can be read with the new password.
LEMMA PresentFacts ==
    ASSUME Inv, lapses = {}
    PROVE  /\ main \in File /\ present \in File
           /\ main.rows = {} => main.key = Plain
           /\ present.rows = {} => present.key = Plain
           /\ pc # "rename" => present = main
           /\ pc = "rename" => /\ present = file[temp] /\ ~connected
                               /\ main.rows = {} /\ main.key = Plain
                               /\ Readable(present, password)
<1>1. file["main"] \in File /\ file[temp] \in File
  BY FileFacts DEF Inv, TypeOK
<1>2. /\ file["main"].rows = {} => file["main"].key = Plain
      /\ file[temp].rows = {} => file[temp].key = Plain
  BY FileFacts DEF Inv, BlankInv
<1> QED
  BY <1>1, <1>2 DEF Inv, FlagsInv, CopyInv, Replacing, present, main

\* A new object opens the file without a key.
LEMMA ConstructOpens == Inv /\ lapses = {} /\ Construct => Disk!Open(Plain)
<1> SUFFICES ASSUME Inv, lapses = {}, Construct PROVE Disk!Open(Plain)
  OBVIOUS
<1>1. db = "none" /\ pc = "idle" /\ pc' = "idle" /\ db' = "open" /\ key' = Plain
      /\ ret' = "none" /\ lapses' = lapses
      /\ isUnlocked' \in {Readable(main, Plain), FALSE}
  BY DEF Construct, Look
<1>2. present = main /\ present' = main'
  BY <1>1 DEF present
<1>3. main'.rows = main.rows /\ main'.key = main.key
  BY FileFacts DEF Construct, Look, Inv, TypeOK, FilesInv, main
<1>4. (IF isUnlocked' THEN "unlocked" ELSE "locked") \in Disk!Answers(Plain)
  BY <1>1, <1>2, PresentFacts DEF Disk!Answers, Disk!Reads, Readable
<1>5. ~connected /\ connected'
  BY <1>1 DEF connected
<1> QED
  BY <1>1, <1>2, <1>3, <1>4, <1>5 DEF Disk!Open

\* unlock() tries a key, or is a call that changes nothing.
LEMMA UnlockTries ==
    ASSUME Inv, lapses = {}, NEW p \in Keys, Unlock(p)
    PROVE  Disk!Kept
<1>1. /\ connected /\ pc = "idle" /\ ~isUnlocked /\ connected' /\ pc' = "idle"
      /\ ret' = "none" /\ lapses' = lapses
  BY DEF Unlock, connected
<1>2. present = main /\ present' = main' /\ main' = main
  BY <1>1 DEF present, Unlock, main
<1>3. CASE key' = key /\ isUnlocked' = isUnlocked
  <2>1. Disk!NextCall
    BY <1>1, <1>2, <1>3 DEF Disk!NextCall
  <2> QED
    BY <2>1 DEF Disk!Kept
<1>4. CASE key' = p /\ isUnlocked' \in {Readable(main, p), FALSE}
  <2>1. (IF isUnlocked' THEN "unlocked" ELSE "locked") \in Disk!Answers(p)
    BY <1>2, <1>4 DEF Disk!Answers, Disk!Reads, Readable
  <2>2. Disk!TryKey(p)
    BY <1>1, <1>2, <1>4, <2>1 DEF Disk!TryKey
  <2> QED
    BY <2>2 DEF Disk!Kept
<1> QED
  BY <1>3, <1>4 DEF Unlock, Look

\* A committed row is a write.
LEMMA CommitWrites ==
    ASSUME Inv, lapses = {}, lapses' = {}, NEW r \in Rows, Commit(r),
           pc # "rename", UNCHANGED objectVars, UNCHANGED <<pc, password>>,
           ret' \in {ret, "none"}
    PROVE  Disk!Kept
<1>1. /\ main' = Store(main, {r}, key) /\ main'.rows = main.rows \cup {r}
      /\ main \in File /\ {r} \in SUBSET Rows /\ key \in Keys
  BY CommitFacts, PresentFacts DEF Inv, TypeOK, main
<1>2. main'.key = IF main.rows = {} THEN key ELSE main.key
  BY <1>1, StoreFacts
<1>3. connected /\ connected' /\ isUnlocked' = isUnlocked /\ key' = key
  BY DEF Commit, connected, objectVars
<1>4. present = main /\ present' = main'
  BY PresentFacts DEF present
<1>5. main'.rows \in SUBSET Rows
  BY <1>1 DEF File
<1>6. Disk!Reads(key)
  BY <1>4 DEF Commit, Disk!Reads, Readable
<1>7. Disk!Write(main'.rows)
  BY <1>1, <1>2, <1>3, <1>4, <1>6 DEF Disk!Write
<1> QED
  BY <1>5, <1>7 DEF Disk!Kept

\* setPassword() refuses, sets a key at once, or begins to change the file.
LEMMA SetPasswordStep ==
    ASSUME Inv, lapses = {}, lapses' = {}, NEW p \in Keys, SetPassword(p)
    PROVE  Disk!Kept
<1>1. pc = "idle" /\ password' = p
  BY DEF SetPassword
<1>2. present = main /\ (pc' # "rename" => present' = main')
  BY <1>1, PresentFacts DEF present
<1>3. CASE Refuse(p)
  <2>1. Disk!NextCall
    BY <1>1, <1>2, <1>3, PresentFacts DEF Refuse, Disk!NextCall, present, main, connected
  <2> QED
    BY <2>1 DEF Disk!Kept
<1>4. CASE KeepPlain(p)
  <2>1. /\ connected /\ connected' /\ isUnlocked /\ isUnlocked' /\ key = Plain /\ key' = Plain
        /\ p = Plain /\ pc' = "idle" /\ ret' = "true" /\ main' = main
        /\ main.rows # {} => main.key = Plain
    BY <1>1, <1>4 DEF KeepPlain, Inv, FlagsInv, Readable, connected, main
  <2>2. Disk!SetKey(Plain)
    BY <1>1, <1>2, <2>1 DEF Disk!SetKey, Disk!Answers, Disk!Reads
  <2> QED
    BY <1>4, <2>2 DEF KeepPlain, Disk!Kept
<1>5. CASE KeyBlank(p)
  <2>1. /\ connected /\ connected' /\ isUnlocked /\ key' = p
        /\ pc' = "idle" /\ ret' = "true" /\ main' = main /\ main.rows = {}
    BY <1>1, <1>5 DEF KeyBlank, Inv, FlagsInv, connected, main
  <2>2. (IF isUnlocked' THEN "unlocked" ELSE "locked") \in Disk!Answers(p)
    BY <1>2, <2>1 DEF Disk!Answers, Disk!Reads
  <2>3. Disk!SetKey(p)
    BY <1>1, <1>2, <2>1, <2>2 DEF Disk!SetKey
  <2> QED
    BY <2>3 DEF Disk!Kept
<1>6. CASE Rekey(p)
  <2>1. /\ connected /\ connected' /\ isUnlocked /\ isUnlocked' /\ key' = p
        /\ pc' = "idle" /\ ret' = "true"
    BY <1>1, <1>6 DEF Rekey, connected
  <2>2. main'.rows = main.rows /\ main'.key = IF main.rows = {} THEN main.key ELSE p
    <3>1. main \in File /\ file["main"] \in File /\ file \in [Names -> File] /\ "main" \in Names
      BY PresentFacts, FileFacts DEF Inv, TypeOK
    <3> QED
      BY <1>6, <3>1 DEF Rekey, File, main
  <2>3. Disk!SetKey(p)
    BY <1>1, <1>2, <2>1, <2>2 DEF Disk!SetKey, Disk!Answers, Disk!Reads
  <2> QED
    BY <2>3 DEF Disk!Kept
<1>7. CASE BeginReplace(p)
  <2>1. /\ connected /\ connected' /\ isUnlocked /\ isUnlocked' /\ key' = key
        /\ pc' = "attach" /\ ret' = "none" /\ main' = main
    BY <1>1, <1>7 DEF BeginReplace, Inv, FlagsInv, Readable, connected, main
  <2>2. Disk!BeginChange(p)
    BY <1>1, <1>2, <2>1 DEF Disk!BeginChange
  <2> QED
    BY <2>2 DEF Disk!Kept
<1>8. CASE RekeyFails(p)
  BY <1>8 DEF RekeyFails
<1> QED
  BY <1>3, <1>4, <1>5, <1>6, <1>7, <1>8 DEF SetPassword

\* To attach, to export and to detach leaves the file as it is.
LEMMA CopyingStutters ==
    ASSUME Inv, lapses = {}, lapses' = {},
           \/ Attach \/ CopyFails \/ Exported \/ \E r \in Rows : ExportRow(r)
    PROVE  UNCHANGED Disk!fileVars
<1>1. pc \in Replacing /\ pc' \in Replacing /\ UNCHANGED <<objectVars, password, ret>>
  BY DEF Attach, CopyFails, Exported, ExportRow, Replacing
<1>2. main' = main
  <2>1. ASSUME NEW r \in Rows, ExportRow(r) PROVE main' = main
    BY <2>1, ExportFacts, FileFacts DEF Inv, main
  <2>2. CASE Attach
    BY <2>2, FileFacts DEF Attach, Inv, TypeOK, main
  <2> QED
    BY <2>1, <2>2 DEF CopyFails, Exported, main
<1>3. present = main /\ present' = main'
  BY <1>1 DEF present, Replacing
<1>4. connected' = connected
  BY <1>1 DEF connected, objectVars
<1> QED
  BY <1>1, <1>2, <1>3, <1>4 DEF Disk!fileVars, objectVars, Replacing

\* sqlite3_close() ends the use of the file or the change of it.
LEMMA CloseStep == Inv /\ lapses = {} /\ Close => Disk!Kept
<1> SUFFICES ASSUME Inv, lapses = {}, Close PROVE Disk!Kept
  OBVIOUS
<1>1. /\ pc = "close" /\ connected /\ isUnlocked /\ ret # "true"
      /\ lapses' = lapses /\ main' = main /\ password' = password
  BY DEF Close, Throw, Inv, FlagsInv, Replacing, main, history
<1>2. present = main
  BY <1>1 DEF present
<1>3. CASE statement # NoRow
  <2>1. /\ pc' = "idle" /\ connected' /\ ret' = "threw" /\ isUnlocked' = isUnlocked
        /\ key' = key /\ present' = main
    BY <1>1, <1>3 DEF Close, Throw, connected, present
  <2>2. Disk!Abandon
    BY <1>1, <1>2, <2>1 DEF Disk!Abandon
  <2> QED
    BY <2>2 DEF Disk!Kept
<1>4. CASE statement = NoRow
  <2>1. pc' = "remove" /\ ~connected' /\ ret' = ret /\ present' = main
    BY <1>1, <1>4 DEF Close, connected, present
  <2>2. Disk!CloseForChange
    BY <1>1, <1>2, <2>1 DEF Disk!CloseForChange
  <2> QED
    BY <2>2 DEF Disk!Kept
<1> QED
  BY <1>3, <1>4

\* remove() makes the copy the file.
LEMMA RemoveOldChanges ==
    Inv /\ lapses = {} /\ RemoveOld => Disk!Kept \/ UNCHANGED Disk!fileVars
<1> SUFFICES ASSUME Inv, lapses = {}, RemoveOld PROVE Disk!Kept \/ UNCHANGED Disk!fileVars
  OBVIOUS
<1>1. /\ pc = "remove" /\ pc' = "rename" /\ ~connected /\ ~connected'
      /\ password' = password /\ ret' = ret /\ lapses' = lapses
  BY DEF RemoveOld, Inv, FlagsInv, Replacing, connected, objectVars, history
<1>2. present = main /\ present' = file[temp]
  BY <1>1, FileFacts DEF RemoveOld, Inv, TypeOK, present, temp
<1>3. /\ file[temp].rows = main.rows /\ Readable(file[temp], password)
      /\ main.rows = {} => main.key = Plain
      /\ file[temp].rows = {} => file[temp].key = Plain
  BY <1>1, FileFacts DEF Inv, BlankInv, CopyInv, main
<1>4. CASE main.rows = {}
  BY <1>1, <1>2, <1>3, <1>4 DEF Disk!fileVars
<1>5. CASE main.rows # {}
  <2>1. Disk!Change
    BY <1>1, <1>2, <1>3, <1>5 DEF Disk!Change, Readable
  <2> QED
    BY <2>1 DEF Disk!Kept
<1> QED
  BY <1>4, <1>5

\* rename() leaves the copy where it stands for the file, or throws.
LEMMA RenameCopyStep ==
    Inv /\ lapses = {} /\ RenameCopy => Disk!Kept \/ UNCHANGED Disk!fileVars
<1> SUFFICES ASSUME Inv, lapses = {}, RenameCopy PROVE Disk!Kept \/ UNCHANGED Disk!fileVars
  OBVIOUS
<1>1. /\ pc = "rename" /\ ~connected /\ present = file[temp] /\ ret # "true"
      /\ main.rows = {} /\ main.key = Plain
      /\ lapses' = lapses /\ password' = password
  BY PresentFacts DEF RenameCopy, Inv, FlagsInv, history
<1>2. CASE file[temp].exists
  <2>1. /\ pc' = "reopen" /\ ~connected' /\ ret' = ret
        /\ present' = main' /\ main' = file[temp]
    BY <1>1, <1>2, FileFacts DEF RenameCopy, Inv, TypeOK, connected, present, main
  <2> QED
    BY <1>1, <2>1 DEF Disk!fileVars
<1>3. CASE ~file[temp].exists
  <2>1. file[temp] = NoFile
    BY <1>3, FileFacts DEF Inv, FilesInv
  <2>2. /\ pc' = "idle" /\ ~connected' /\ ret' = "threw" /\ present' = main' /\ main' = main
    BY <1>1, <1>3 DEF RenameCopy, Throw, connected, present, main
  <2>3. present'.rows = present.rows /\ present'.key = present.key
    BY <1>1, <2>1, <2>2, FileFacts
  <2>4. Disk!Abandon
    BY <1>1, <2>2, <2>3 DEF Disk!Abandon
  <2> QED
    BY <2>4 DEF Disk!Kept
<1> QED
  BY <1>2, <1>3

\* What is left of the file when a change is cut short: all of it, or none.
LEMMA CutShort ==
    ASSUME Inv, lapses = {}, main' = main, pc' = "idle"
    PROVE  Disk!Lose \/ UNCHANGED <<present.rows, present.key>>
<1>1. present' = main
  BY DEF present
<1>2. CASE pc # "rename"
  BY <1>1, <1>2, PresentFacts
<1>3. CASE pc = "rename"
  <2>1. CASE present.rows = {}
    BY <1>1, <1>3, <2>1, PresentFacts
  <2>2. CASE present.rows # {}
    <3>1. ~connected /\ present.key = password /\ main.rows = {} /\ main.key = Plain
      BY <1>3, <2>2, PresentFacts DEF Readable
    <3> QED
      BY <1>1, <1>3, <3>1 DEF Disk!Lose
  <2> QED
    BY <2>1, <2>2
<1> QED
  BY <1>2, <1>3

\* An error of the file system ends the change.
LEMMA FailureAbandons == Inv /\ lapses = {} /\ ReplaceFails => Disk!Kept
<1> SUFFICES ASSUME Inv, lapses = {}, ReplaceFails PROVE Disk!Kept
  OBVIOUS
<1>1. /\ pc # "idle" /\ pc' = "idle" /\ ~connected /\ ~connected' /\ ret' = "threw"
      /\ main' = main /\ lapses' = lapses
  BY DEF ReplaceFails, Throw, Inv, FlagsInv, Replacing, connected, main, history
<1>2. Disk!Lose \/ UNCHANGED <<present.rows, present.key>>
  BY <1>1, CutShort
<1>3. Disk!Abandon
  BY <1>1, <1>2 DEF Disk!Abandon
<1> QED
  BY <1>3 DEF Disk!Kept

\* The change ends where the file is opened with the new password.
LEMMA ReopenStep == Inv /\ lapses = {} /\ Reopen => Disk!Kept
<1> SUFFICES ASSUME Inv, lapses = {}, Reopen PROVE Disk!Kept
  OBVIOUS
<1>1. /\ pc = "reopen" /\ pc' = "idle" /\ ~connected /\ lapses' = lapses /\ main' = main
      /\ Readable(main, password) /\ password' = password
  BY DEF Reopen, Opened, Look, Throw, Inv, FlagsInv, CopyInv, Replacing, main, connected
<1>2. present = main /\ present' = main
  BY <1>1 DEF present
<1>3. CASE db' \in {"open", "readonly"}
  <2>1. /\ connected' /\ key' = password /\ isUnlocked' \in BOOLEAN /\ ret' = "true"
    BY <1>1, <1>3 DEF Reopen, Look, Throw, connected, Readable
  <2>2. Disk!Reads(password)
    BY <1>1, <1>2 DEF Disk!Reads, Readable
  <2>3. (IF isUnlocked' THEN "unlocked" ELSE "locked") \in Disk!Answers(password)
    BY <2>2 DEF Disk!Answers
  <2>4. Disk!EndChange
    BY <1>1, <1>2, <2>1, <2>2, <2>3 DEF Disk!EndChange
  <2> QED
    BY <2>4 DEF Disk!Kept
<1>4. CASE db' \notin {"open", "readonly"}
  <2>1. ~connected' /\ ret' = "threw"
    BY <1>1, <1>4 DEF Reopen, Opened, Look, Throw, connected
  <2>2. Disk!Abandon
    BY <1>1, <1>2, <2>1 DEF Disk!Abandon
  <2> QED
    BY <2>2 DEF Disk!Kept
<1> QED
  BY <1>3, <1>4

\* The end of the object or of the process is the end of any change.
LEMMA ForgetStops == Inv /\ lapses = {} /\ Forget => Disk!Kept
<1> SUFFICES ASSUME Inv, lapses = {}, Forget PROVE Disk!Kept
  OBVIOUS
<1>1. pc' = "idle" /\ ~connected' /\ ret' = "none" /\ main' = main /\ lapses' = lapses
  BY DEF Forget, connected, main, history
<1>2. Disk!Stop
  BY <1>1, CutShort DEF Disk!Stop
<1> QED
  BY <1>2 DEF Disk!Kept

\* Calls that change neither the file nor who can read it.
LEMMA OtherCalls ==
    ASSUME Inv, Move \/ FinalizeStatement \/ (\E r \in Rows : CreateStatement(r))
    PROVE  Disk!Kept \/ UNCHANGED Disk!fileVars
<1>1. /\ UNCHANGED <<file, db, key, isUnlocked, pc, password>>
      /\ ret' \in {ret, "none"}
      /\ lapses' = lapses
  BY DEF Move, FinalizeStatement, CreateStatement, objectVars, history
<1>2. present' = present /\ connected' = connected
  BY <1>1 DEF present, main, temp, connected
<1>3. CASE ret' = ret
  BY <1>1, <1>2, <1>3 DEF Disk!fileVars
<1>4. CASE ret' = "none"
  BY <1>1, <1>2, <1>4 DEF Disk!Kept, Disk!NextCall
<1> QED
  BY <1>1, <1>3, <1>4

\* Every step is one of the keyed file, or changes nothing of it.
LEMMA DiskStep == Inv /\ [Next]_vars => [Disk!FileNext]_(Disk!fileVars)
<1> SUFFICES ASSUME Inv, [Next]_vars PROVE Disk!FileNext \/ UNCHANGED Disk!fileVars
  OBVIOUS
<1>1. CASE lapses' # {}
  BY <1>1 DEF Disk!FileNext
<1>2. CASE lapses' = {}
  <2>1. lapses = {}
    BY <1>2, LapsesStay
  <2>2. Disk!Kept => Disk!FileNext
    BY <1>2, <2>1 DEF Disk!FileNext
  <2>3. CASE Construct
    BY <2>1, <2>2, <2>3, ConstructOpens, SqliteAssumption DEF Disk!Kept, Keys
  <2>4. CASE Move \/ FinalizeStatement
    BY <2>2, <2>4, OtherCalls
  <2>5. CASE Destroy \/ Crash
    BY <2>1, <2>2, <2>5, ForgetStops DEF Destroy, Crash
  <2>6. ASSUME NEW p \in Keys, Unlock(p) PROVE Disk!FileNext
    BY <2>1, <2>2, <2>6, UnlockTries
  <2>7. ASSUME NEW p \in Keys, SetPassword(p) PROVE Disk!FileNext
    BY <1>2, <2>1, <2>2, <2>7, SetPasswordStep
  <2>8. ASSUME NEW r \in Rows, Execute(r) PROVE Disk!FileNext
    BY <1>2, <2>1, <2>2, <2>8, CommitWrites DEF Execute
  <2>9. CASE StepStatement
    <3>1. statement \in Rows /\ Commit(statement) /\ pc # "rename"
      BY <2>9 DEF StepStatement, Inv, TypeOK
    <3> QED
      BY <1>2, <2>1, <2>2, <2>9, <3>1, CommitWrites DEF StepStatement
  <2>10. ASSUME NEW r \in Rows, CreateStatement(r)
         PROVE  Disk!FileNext \/ UNCHANGED Disk!fileVars
    BY <2>2, <2>10, OtherCalls
  <2>11. CASE Attach \/ CopyFails \/ Exported \/ \E r \in Rows : ExportRow(r)
    BY <1>2, <2>1, <2>11, CopyingStutters
  <2>12. CASE Close
    BY <2>1, <2>2, <2>12, CloseStep
  <2>13. CASE RemoveOld
    BY <2>1, <2>2, <2>13, RemoveOldChanges
  <2>14. CASE RenameCopy
    BY <2>1, <2>2, <2>14, RenameCopyStep
  <2>15. CASE ReplaceFails
    BY <2>1, <2>2, <2>15, FailureAbandons
  <2>16. CASE Reopen
    BY <2>1, <2>2, <2>16, ReopenStep
  <2>17. CASE ReopenUnkeyed
    BY <1>2, <2>17 DEF ReopenUnkeyed
  <2>18. CASE UNCHANGED vars
    BY <2>18 DEF vars, objectVars, history, Disk!fileVars, present, main, temp, connected
  <2> QED
    BY <2>3, <2>4, <2>5, <2>6, <2>7, <2>8, <2>9, <2>10, <2>11, <2>12, <2>13, <2>14, <2>15,
       <2>16, <2>17, <2>18 DEF Next
<1> QED
  BY <1>1, <1>2

\* The database is a keyed file for its owner: until a replacement meets a
\* leftover copy, a failed call, lost flags or a foreign statement, the rows and
\* their key are what the calls have made of them, but for a change cut short.
THEOREM FileRefined == Spec => FileKept
  BY InitialFile, DiskStep, Invariance, PTL DEF Spec, FileKept, Disk!FileSpec

=============================================================================
