--------------------------- MODULE KeyringProofs ---------------------------
(***************************************************************************)
(* Proofs of the safety properties of Keyring, for any names, contents and *)
(* passwords. The invariant adds to them what an object not yet open, or   *)
(* in the middle of a call, is like, and that a file without a table has   *)
(* no rows and one with a table has a key.                                 *)
(***************************************************************************)
EXTENDS Keyring, TLAPS

\* Only an open keyring has a database or credentials; a change waits for
\* memory in one that saves, a file waits for its removal in one that no
\* longer does.
PhaseInv ==
    /\ phase # "open" => ~saving /\ doing = Idle /\ mem = Empty
    /\ phase = "credential" => password # NoSecret
    /\ doing.what = "remember" => saving
    /\ doing.what = "unlink" => ~saving

\* Memory is behind the file by the change in hand.
MemoryInv ==
    saving =>
        \A n \in Names :
            IF doing.what = "remember" /\ doing.name = n
            THEN file.rows[n] = doing.data
            ELSE mem[n] = file.rows[n]

\* A database in use has a table; the file's key and the password at hand.
FileInv ==
    /\ saving => file.table /\ password = file.key
    /\ ~file.table => file.rows = Empty
    /\ file.table => file.key # NoSecret
    /\ ~upset /\ phase = "credential" => secret = password

Inv == TypeOK /\ PhaseInv /\ MemoryInv /\ FileInv /\ AnswersAreKept /\ SecretOpensFile

\* The three shapes of a call can be told apart.
LEMMA CallCases ==
    ASSUME doing \in Calls
    PROVE  \/ doing = Idle /\ doing.what = "nothing"
           \/ doing.what = "unlink" /\ doing = [what |-> "unlink"]
           \/ doing.what = "remember" /\ doing.name \in Names /\ doing.data \in Data \cup {NoData}
BY DEF Calls, Idle

\* What a change of a keyring that saves does to the file, row by row.
LEMMA ChangedFile ==
    ASSUME TypeOK, NEW n \in Names, NEW d \in Data \cup {NoData}, saving, Change(n, d)
    PROVE  /\ file' = [table |-> file.table, key |-> file.key, rows |-> [file.rows EXCEPT ![n] = d]]
           /\ file'.rows[n] = d
           /\ \A m \in Names \ {n} : file'.rows[m] = file.rows[m]
<1>1. file' = [file EXCEPT !.rows[n] = d]
  BY DEF Change
<1>2. file' = [table |-> file.table, key |-> file.key, rows |-> [file.rows EXCEPT ![n] = d]]
  BY <1>1 DEF TypeOK
<1>3. file.rows \in [Names -> Data \cup {NoData}]
  BY DEF TypeOK, Table
<1>. QED
  BY <1>2, <1>3

\* In all three operations memory stays behind by the row in hand.
LEMMA ChangeKeepsMemoryInv ==
    ASSUME Inv, NEW n \in Names, NEW d \in Data \cup {NoData}, ready, Change(n, d)
    PROVE  MemoryInv'
<1>1. CASE ~saving
  BY <1>1 DEF Change, MemoryInv
<1>2. CASE saving
  <2>1. \A m \in Names : mem[m] = file.rows[m]
    BY <1>2 DEF Inv, MemoryInv, ready, Idle
  <2>2. doing' = [what |-> "remember", name |-> n, data |-> d] /\ mem' = mem
    BY <1>2 DEF Change
  <2>. QED
    BY <1>2, <2>1, <2>2, ChangedFile DEF Inv, MemoryInv
<1>. QED
  BY <1>1, <1>2

\* They give a row to no file without a table.
LEMMA ChangeKeepsFileInv ==
    ASSUME Inv, NEW n \in Names, NEW d \in Data \cup {NoData}, ready, Change(n, d)
    PROVE  FileInv'
<1>1. UNCHANGED <<secret, phase, password, saving, upset>>
  BY DEF Change, history
<1>2. CASE ~saving
  BY <1>1, <1>2 DEF Inv, FileInv, Change
<1>3. CASE saving
  BY <1>1, <1>3, ChangedFile DEF Inv, FileInv
<1>. QED
  BY <1>2, <1>3

\* The first state, in which there is neither entry, file nor object.
LEMMA InitInv == Init => Inv
<1> SUFFICES ASSUME Init PROVE Inv
  OBVIOUS
<1>1. Empty \in Table /\ Idle \in Calls
  BY DEF Empty, Table, Calls
<1>2. TypeOK
  BY <1>1 DEF Init, TypeOK, NoFile
<1>3. PhaseInv /\ MemoryInv
  BY DEF Init, PhaseInv, MemoryInv, Idle
<1>4. FileInv /\ AnswersAreKept /\ SecretOpensFile
  BY DEF Init, FileInv, AnswersAreKept, SecretOpensFile, NoFile
<1>. QED
  BY <1>2, <1>3, <1>4 DEF Inv

-----------------------------------------------------------------------------
(* One lemma per part, one step per action. *)

\* Every action keeps the types.
LEMMA TypeStep ==
    ASSUME Inv, [Next]_vars
    PROVE  TypeOK'
<1> USE DEF Inv
<1>1. CASE FindSecret
  BY <1>1 DEF FindSecret, TypeOK, history
<1>2. CASE CreateSecret
  BY <1>2 DEF CreateSecret, TypeOK
<1>3. CASE OpenInMemory
  BY <1>3 DEF OpenInMemory, TypeOK, history
<1>4. CASE OpenExisting
  BY <1>4 DEF OpenExisting, TypeOK
<1>5. CASE UnlockFails
  BY <1>5 DEF UnlockFails, TypeOK, history
<1>6. CASE OpenNew
  BY <1>6 DEF OpenNew, TypeOK, Table, Empty, history
<1>7. ASSUME NEW n \in Names, Remove(n) PROVE TypeOK'
  BY <1>7 DEF Remove, Change, TypeOK, Table, Calls, history
<1>8. ASSUME NEW n \in Names, NEW d \in Data, Add(n, d) PROVE TypeOK'
  BY <1>8 DEF Add, Change, TypeOK, Table, Calls, history
<1>9. ASSUME NEW n \in Names, NEW d \in Data, Update(n, d) PROVE TypeOK'
  BY <1>9 DEF Update, Change, TypeOK, Table, Calls, history
<1>10. CASE Remember
  BY <1>10, CallCases DEF Remember, TypeOK, Table, Calls
<1>11. CASE Destroy
  BY <1>11 DEF Destroy, TypeOK, Table, Empty, Calls, history
<1>12. CASE Unlink
  BY <1>12 DEF Unlink, TypeOK, Table, Empty, Calls, NoFile
<1>13. CASE Close
  BY <1>13, CallCases DEF Close, TypeOK, Table, Empty, Calls
<1>14. CASE DeleteSecret
  BY <1>14 DEF DeleteSecret, TypeOK, object
<1>15. CASE UNCHANGED vars
  BY <1>15 DEF vars, object, history, TypeOK
<1>. QED
  BY <1>1, <1>2, <1>3, <1>4, <1>5, <1>6, <1>7, <1>8, <1>9, <1>10,
     <1>11, <1>12, <1>13, <1>14, <1>15 DEF Next

\* Every action keeps PhaseInv.
LEMMA PhaseStep ==
    ASSUME Inv, [Next]_vars
    PROVE  PhaseInv'
<1> USE DEF Inv
<1>1. CASE FindSecret
  BY <1>1 DEF FindSecret, PhaseInv
<1>2. CASE CreateSecret
  BY <1>2, KeyringAssumption DEF CreateSecret, PhaseInv
<1>3. CASE OpenInMemory
  BY <1>3 DEF OpenInMemory, PhaseInv
<1>4. CASE OpenExisting
  BY <1>4 DEF OpenExisting, PhaseInv, Idle
<1>5. CASE UnlockFails
  BY <1>5 DEF UnlockFails, PhaseInv
<1>6. CASE OpenNew
  BY <1>6 DEF OpenNew, PhaseInv, Idle
<1>7. ASSUME NEW n \in Names, Remove(n) PROVE PhaseInv'
  BY <1>7 DEF Remove, Change, ready, PhaseInv
<1>8. ASSUME NEW n \in Names, NEW d \in Data, Add(n, d) PROVE PhaseInv'
  BY <1>8 DEF Add, Change, ready, PhaseInv
<1>9. ASSUME NEW n \in Names, NEW d \in Data, Update(n, d) PROVE PhaseInv'
  BY <1>9 DEF Update, Change, ready, PhaseInv
<1>10. CASE Remember
  BY <1>10 DEF Remember, PhaseInv, Idle
<1>11. CASE Destroy
  BY <1>11 DEF Destroy, PhaseInv
<1>12. CASE Unlink
  BY <1>12 DEF Unlink, PhaseInv, Idle
<1>13. CASE Close
  BY <1>13 DEF Close, PhaseInv, Idle
<1>14. CASE DeleteSecret
  BY <1>14 DEF DeleteSecret, PhaseInv, object
<1>15. CASE UNCHANGED vars
  BY <1>15 DEF vars, object, PhaseInv
<1>. QED
  BY <1>1, <1>2, <1>3, <1>4, <1>5, <1>6, <1>7, <1>8, <1>9, <1>10,
     <1>11, <1>12, <1>13, <1>14, <1>15 DEF Next

\* Every action keeps MemoryInv.
LEMMA MemoryStep ==
    ASSUME Inv, [Next]_vars
    PROVE  MemoryInv'
<1> USE DEF Inv
<1>1. CASE FindSecret
  BY <1>1 DEF FindSecret, MemoryInv
<1>2. CASE CreateSecret
  BY <1>2 DEF CreateSecret, MemoryInv
<1>3. CASE OpenInMemory
  BY <1>3 DEF OpenInMemory, MemoryInv
<1>4. CASE OpenExisting
  BY <1>4 DEF OpenExisting, PhaseInv, MemoryInv
<1>5. CASE UnlockFails
  BY <1>5 DEF UnlockFails, MemoryInv
<1>6. CASE OpenNew
  BY <1>6 DEF OpenNew, PhaseInv, MemoryInv
<1>7. ASSUME NEW n \in Names, Remove(n) PROVE MemoryInv'
  BY <1>7, ChangeKeepsMemoryInv DEF Remove
<1>8. ASSUME NEW n \in Names, NEW d \in Data, Add(n, d) PROVE MemoryInv'
  BY <1>8, ChangeKeepsMemoryInv DEF Add
<1>9. ASSUME NEW n \in Names, NEW d \in Data, Update(n, d) PROVE MemoryInv'
  BY <1>9, ChangeKeepsMemoryInv DEF Update
<1>10. CASE Remember
  BY <1>10 DEF Remember, TypeOK, MemoryInv, Table, Idle
<1>11. CASE Destroy
  BY <1>11 DEF Destroy, MemoryInv
<1>12. CASE Unlink
  BY <1>12 DEF Unlink, PhaseInv, MemoryInv
<1>13. CASE Close
  BY <1>13 DEF Close, MemoryInv
<1>14. CASE DeleteSecret
  BY <1>14 DEF DeleteSecret, MemoryInv, object
<1>15. CASE UNCHANGED vars
  BY <1>15 DEF vars, object, MemoryInv
<1>. QED
  BY <1>1, <1>2, <1>3, <1>4, <1>5, <1>6, <1>7, <1>8, <1>9, <1>10,
     <1>11, <1>12, <1>13, <1>14, <1>15 DEF Next

\* Every action keeps FileInv.
LEMMA FileStep ==
    ASSUME Inv, [Next]_vars
    PROVE  FileInv'
<1> USE DEF Inv
<1>1. CASE FindSecret
  BY <1>1 DEF FindSecret, PhaseInv, FileInv
<1>2. CASE CreateSecret
  BY <1>2 DEF CreateSecret, PhaseInv, FileInv
<1>3. CASE OpenInMemory
  BY <1>3 DEF OpenInMemory, FileInv
<1>4. CASE OpenExisting
  BY <1>4 DEF OpenExisting, FileInv
<1>5. CASE UnlockFails
  BY <1>5 DEF UnlockFails, FileInv
<1>6. CASE OpenNew
  BY <1>6 DEF OpenNew, PhaseInv, FileInv
<1>7. ASSUME NEW n \in Names, Remove(n) PROVE FileInv'
  BY <1>7, ChangeKeepsFileInv DEF Remove
<1>8. ASSUME NEW n \in Names, NEW d \in Data, Add(n, d) PROVE FileInv'
  BY <1>8, ChangeKeepsFileInv DEF Add
<1>9. ASSUME NEW n \in Names, NEW d \in Data, Update(n, d) PROVE FileInv'
  BY <1>9, ChangeKeepsFileInv DEF Update
<1>10. CASE Remember
  BY <1>10 DEF Remember, FileInv
<1>11. CASE Destroy
  BY <1>11 DEF Destroy, PhaseInv, FileInv
<1>12. CASE Unlink
  BY <1>12 DEF Unlink, PhaseInv, FileInv, NoFile
<1>13. CASE Close
  BY <1>13 DEF Close, FileInv
<1>14. CASE DeleteSecret
  BY <1>14 DEF DeleteSecret, FileInv, object
<1>15. CASE UNCHANGED vars
  BY <1>15 DEF vars, object, history, FileInv
<1>. QED
  BY <1>1, <1>2, <1>3, <1>4, <1>5, <1>6, <1>7, <1>8, <1>9, <1>10,
     <1>11, <1>12, <1>13, <1>14, <1>15 DEF Next

\* Every action keeps AnswersAreKept.
LEMMA AnswersStep ==
    ASSUME Inv, [Next]_vars
    PROVE  AnswersAreKept'
<1> USE DEF Inv
<1>1. CASE FindSecret
  BY <1>1 DEF FindSecret, AnswersAreKept, history
<1>2. CASE CreateSecret
  BY <1>2 DEF CreateSecret, AnswersAreKept
<1>3. CASE OpenInMemory
  BY <1>3 DEF OpenInMemory, AnswersAreKept, history
<1>4. CASE OpenExisting
  BY <1>4 DEF OpenExisting, AnswersAreKept
<1>5. CASE UnlockFails
  BY <1>5 DEF UnlockFails, AnswersAreKept, history
<1>6. CASE OpenNew
  BY <1>6 DEF OpenNew, FileInv, AnswersAreKept, history
<1>7. ASSUME NEW n \in Names, Remove(n) PROVE AnswersAreKept'
  BY <1>7 DEF Remove, Change, ready, TypeOK, AnswersAreKept, Table, Idle, history
<1>8. ASSUME NEW n \in Names, NEW d \in Data, Add(n, d) PROVE AnswersAreKept'
  BY <1>8 DEF Add, Change, ready, TypeOK, AnswersAreKept, Table, Idle, history
<1>9. ASSUME NEW n \in Names, NEW d \in Data, Update(n, d) PROVE AnswersAreKept'
  BY <1>9 DEF Update, Change, ready, TypeOK, AnswersAreKept, Table, Idle, history
<1>10. CASE Remember
  BY <1>10 DEF Remember, TypeOK, PhaseInv, MemoryInv, AnswersAreKept, Table
<1>11. CASE Destroy
  BY <1>11 DEF Destroy, ready, AnswersAreKept, history, Idle
<1>12. CASE Unlink
  BY <1>12 DEF Unlink, AnswersAreKept, NoFile
<1>13. CASE Close
  BY <1>13 DEF Close, AnswersAreKept
<1>14. CASE DeleteSecret
  BY <1>14 DEF DeleteSecret, AnswersAreKept, object
<1>15. CASE UNCHANGED vars
  BY <1>15 DEF vars, object, history, AnswersAreKept
<1>. QED
  BY <1>1, <1>2, <1>3, <1>4, <1>5, <1>6, <1>7, <1>8, <1>9, <1>10,
     <1>11, <1>12, <1>13, <1>14, <1>15 DEF Next

\* Every action keeps SecretOpensFile.
LEMMA SecretStep ==
    ASSUME Inv, [Next]_vars
    PROVE  SecretOpensFile'
<1> USE DEF Inv
<1>1. CASE FindSecret
  BY <1>1 DEF FindSecret, SecretOpensFile, history
<1>2. CASE CreateSecret
  BY <1>2 DEF CreateSecret, FileInv, SecretOpensFile
<1>3. CASE OpenInMemory
  BY <1>3 DEF OpenInMemory, SecretOpensFile, history
<1>4. CASE OpenExisting
  BY <1>4 DEF OpenExisting, SecretOpensFile
<1>5. CASE UnlockFails
  BY <1>5 DEF UnlockFails, SecretOpensFile, history
<1>6. CASE OpenNew
  BY <1>6 DEF OpenNew, FileInv, SecretOpensFile, history
<1>7. ASSUME NEW n \in Names, Remove(n) PROVE SecretOpensFile'
  BY <1>7 DEF Remove, Change, TypeOK, SecretOpensFile, history
<1>8. ASSUME NEW n \in Names, NEW d \in Data, Add(n, d) PROVE SecretOpensFile'
  BY <1>8 DEF Add, Change, TypeOK, SecretOpensFile, history
<1>9. ASSUME NEW n \in Names, NEW d \in Data, Update(n, d) PROVE SecretOpensFile'
  BY <1>9 DEF Update, Change, TypeOK, SecretOpensFile, history
<1>10. CASE Remember
  BY <1>10 DEF Remember, SecretOpensFile
<1>11. CASE Destroy
  BY <1>11 DEF Destroy, SecretOpensFile, history
<1>12. CASE Unlink
  BY <1>12 DEF Unlink, SecretOpensFile, NoFile
<1>13. CASE Close
  BY <1>13 DEF Close, SecretOpensFile
<1>14. CASE DeleteSecret
  BY <1>14 DEF DeleteSecret, SecretOpensFile
<1>15. CASE UNCHANGED vars
  BY <1>15 DEF vars, history, SecretOpensFile
<1>. QED
  BY <1>1, <1>2, <1>3, <1>4, <1>5, <1>6, <1>7, <1>8, <1>9, <1>10,
     <1>11, <1>12, <1>13, <1>14, <1>15 DEF Next

-----------------------------------------------------------------------------
\* The invariant holds in every reachable state.
THEOREM Invariance == Spec => []Inv
<1>1. Inv /\ [Next]_vars => Inv'
  BY TypeStep, PhaseStep, MemoryStep, FileStep, AnswersStep, SecretStep DEF Inv
<1>. QED
  BY InitInv, <1>1, PTL DEF Spec

\* Entry, file, object and history keep to their types.
THEOREM TypeCorrect == Spec => []TypeOK
BY Invariance, PTL DEF Inv

\* In a keyring that saves, memory is the file before a call.
LEMMA ShownIsStored ==
    ASSUME Inv, doing = Idle, saving
    PROVE  mem = file.rows
<1>1. \A n \in Names : mem[n] = file.rows[n]
  BY DEF Inv, MemoryInv, Idle
<1>2. mem \in Table /\ file.rows \in Table
  BY DEF Inv, TypeOK
<1>. QED
  BY <1>1, <1>2 DEF Table

\* Between two calls the credentials in memory are the rows of the file.
THEOREM MemoryFollowsFile == Spec => []MemoryIsFile
<1>1. Inv => MemoryIsFile
  BY ShownIsStored DEF MemoryIsFile, ready
<1>. QED
  BY Invariance, <1>1, PTL

\* The file holds what clients were told, crashes or not.
THEOREM NoAnswerIsLost == Spec => []AnswersAreKept
BY Invariance, PTL DEF Inv

\* The credential manager's entry opens the file unless it was tampered with.
THEOREM OwnSecretOpensFile == Spec => []SecretOpensFile
BY Invariance, PTL DEF Inv

-----------------------------------------------------------------------------
(* The refinement: Inv says what a step finds in the file and in memory. *)

LEMMA StoreInitial == Init => Store!StoreInit
BY DEF Init, NoFile, Empty, Store!StoreInit, Store!Nothing

\* A change is a write to what is stored, or only to what is shown.
LEMMA ChangeWrites ==
    ASSUME Inv, NEW n \in Names, NEW d \in Data \cup {NoData}, ready, Change(n, d)
    PROVE  \/ Store!Keep(n, d) /\ ~saving
           \/ Store!Write(n, d) /\ saving
<1>1. doing = Idle
  BY DEF ready
<1>2. CASE ~saving
  BY <1>1, <1>2 DEF Change, Store!Keep
<1>3. CASE saving
  <2>1. file'.rows = [file.rows EXCEPT ![n] = d]
    BY <1>3, ChangedFile DEF Inv
  <2>2. doing' # Idle
    BY <1>3 DEF Change, Idle
  <2>. QED
    BY <1>1, <1>3, <2>1, <2>2 DEF Change, Store!Write
<1>. QED
  BY <1>2, <1>3

\* To finish a call is to show what is stored.
LEMMA RememberAnswers == Inv /\ Remember => Store!Answer
<1> SUFFICES ASSUME Inv, Remember PROVE Store!Answer
  OBVIOUS
<1>1. doing.what = "remember" /\ saving /\ doing # Idle /\ doing' = Idle
  BY DEF Inv, PhaseInv, Remember, Idle
<1>2. mem' = file.rows
  <2>1. mem \in Table /\ file.rows \in Table /\ doing \in Calls
    BY DEF Inv, TypeOK
  <2>2. \A n \in Names : mem'[n] = file.rows[n]
    BY <1>1, <2>1 DEF Inv, MemoryInv, Remember, Table
  <2>3. mem' = [n \in Names |-> mem'[n]]
    BY <2>1 DEF Remember, Table
  <2>4. file.rows = [n \in Names |-> file.rows[n]]
    BY <2>1 DEF Table
  <2>. QED
    BY <2>2, <2>3, <2>4
<1>. QED
  BY <1>1, <1>2 DEF Remember, Store!Answer

\* Every step is one of the store, or changes nothing of it.
LEMMA StoreStep == Inv /\ [Next]_vars => [Store!StoreNext]_(Store!storeVars)
<1> SUFFICES ASSUME Inv, [Next]_vars PROVE Store!StoreNext \/ UNCHANGED Store!storeVars
  OBVIOUS
<1> USE DEF Store!storeVars
<1>1. CASE FindSecret \/ CreateSecret \/ OpenInMemory \/ UnlockFails \/ DeleteSecret
  BY <1>1 DEF FindSecret, CreateSecret, OpenInMemory, UnlockFails, DeleteSecret, object
<1>2. CASE OpenExisting
  <2>1. ~saving /\ doing = Idle /\ mem = Store!Nothing
    BY <1>2 DEF Inv, PhaseInv, OpenExisting, Empty, Store!Nothing
  <2>2. Store!Load
    BY <1>2, <2>1 DEF OpenExisting, Store!Load
  <2>. QED
    BY <2>2 DEF Store!StoreNext
<1>3. CASE OpenNew
  <2>1. ~saving /\ doing = Idle /\ mem = Store!Nothing /\ file.rows = mem
    BY <1>3 DEF Inv, PhaseInv, FileInv, OpenNew, Empty, Store!Nothing
  <2>2. file'.rows = file.rows
    BY <1>3, <2>1 DEF OpenNew, Empty, Store!Nothing
  <2>3. Store!Load
    BY <1>3, <2>1, <2>2 DEF OpenNew, Store!Load
  <2>. QED
    BY <2>3 DEF Store!StoreNext
<1>4. ASSUME NEW n \in Names, Remove(n) PROVE Store!StoreNext
  <2>1. ready /\ mem[n] # NoData
    BY <1>4 DEF Remove
  <2>2. CASE Store!Keep(n, NoData)
    BY <2>2 DEF Store!StoreNext
  <2>3. CASE Store!Write(n, NoData) /\ saving
    BY <2>1, <2>3, ShownIsStored DEF ready, Store!Delete, Store!StoreNext
  <2>. QED
    BY <1>4, <2>1, <2>2, <2>3, ChangeWrites DEF Remove
<1>5. ASSUME NEW n \in Names, NEW d \in Data, Add(n, d) PROVE Store!StoreNext
  <2>1. ready /\ mem[n] = NoData
    BY <1>5 DEF Add
  <2>2. CASE Store!Keep(n, d)
    BY <2>2 DEF Store!StoreNext
  <2>3. CASE Store!Write(n, d) /\ saving
    BY <2>1, <2>3, ShownIsStored DEF ready, Store!Insert, Store!StoreNext
  <2>. QED
    BY <1>5, <2>1, <2>2, <2>3, ChangeWrites DEF Add
<1>6. ASSUME NEW n \in Names, NEW d \in Data, Update(n, d) PROVE Store!StoreNext
  <2>1. ready /\ mem[n] # NoData
    BY <1>6 DEF Update
  <2>2. CASE Store!Keep(n, d)
    BY <2>2 DEF Store!StoreNext
  <2>3. CASE Store!Write(n, d) /\ saving
    BY <2>1, <2>3, ShownIsStored DEF ready, Store!Replace, Store!StoreNext
  <2>. QED
    BY <1>6, <2>1, <2>2, <2>3, ChangeWrites DEF Update
<1>7. CASE Remember
  BY <1>7, RememberAnswers DEF Store!StoreNext
<1>8. CASE Destroy
  <2>1. Store!Forget
    BY <1>8 DEF Destroy, ready, Idle, Empty, Store!Forget, Store!Nothing
  <2>. QED
    BY <2>1 DEF Store!StoreNext
<1>9. CASE Unlink
  <2>1. ~saving /\ doing # Idle /\ doing' = Idle /\ file'.rows = Store!Nothing
    BY <1>9 DEF Inv, PhaseInv, Unlink, Idle, NoFile, Empty, Store!Nothing
  <2>2. Store!Wipe
    BY <1>9, <2>1 DEF Unlink, Store!Wipe
  <2>. QED
    BY <2>2 DEF Store!StoreNext
<1>10. CASE Close
  <2>1. Store!Stop
    BY <1>10 DEF Close, Empty, Store!Stop, Store!Nothing
  <2>. QED
    BY <2>1 DEF Store!StoreNext
<1>11. CASE UNCHANGED vars
  BY <1>11 DEF vars, object
<1>. QED
  BY <1>1, <1>2, <1>3, <1>4, <1>5, <1>6, <1>7, <1>8, <1>9, <1>10, <1>11 DEF Next

\* The keyring is a credential store: whatever fails or crashes, only add(),
\* update(), remove() and destroy() change what is stored, each as it says.
THEOREM StoreRefined == Spec => StoreKept
BY StoreInitial, StoreStep, Invariance, PTL DEF Spec, StoreKept, Store!StoreSpec

-----------------------------------------------------------------------------
(* The refinement of the keyed file that the database is to its user.       *)

LEMMA DiskInitial == Init => Disk!FileInit
BY DEF Init, NoFile, Disk!FileInit

\* A change on disk is a write with the key at hand.
LEMMA ChangeIsWritten ==
    ASSUME Inv, NEW n \in Names, NEW d \in Data \cup {NoData}, ready, Change(n, d)
    PROVE  Disk!FileNext \/ UNCHANGED Disk!fileVars
<1>1. CASE ~saving
  BY <1>1 DEF Change, Disk!fileVars
<1>2. CASE saving
  <2>1. file.table /\ file'.table /\ file'.key = file.key
    BY <1>2, ChangedFile DEF Inv, FileInv
  <2>2. file'.rows \in Table
    BY <1>2, ChangedFile DEF Inv, TypeOK, Table
  <2>3. Disk!Write({file'.rows})
    BY <1>2, <2>1 DEF Inv, FileInv, Change, Disk!Write, Disk!Reads
  <2>. QED
    BY <2>2, <2>3 DEF Disk!FileNext, Disk!Kept
<1>. QED
  BY <1>1, <1>2

\* Every step uses the file as it can be used, or leaves it alone.
LEMMA DiskStep == Inv /\ [Next]_vars => [Disk!FileNext]_(Disk!fileVars)
<1> SUFFICES ASSUME Inv, [Next]_vars PROVE Disk!FileNext \/ UNCHANGED Disk!fileVars
  OBVIOUS
<1>1. CASE FindSecret \/ CreateSecret \/ OpenInMemory \/ UnlockFails
  <2>1. ~saving /\ ~saving' /\ file' = file
    BY <1>1 DEF Inv, PhaseInv, FindSecret, CreateSecret, OpenInMemory, UnlockFails
  <2>. QED
    BY <2>1 DEF Disk!fileVars
<1>2. CASE OpenExisting
  <2>1. ~saving /\ saving' /\ file' = file /\ file.table /\ password = file.key
        /\ password' = password /\ password \in Secrets \cup {NoSecret}
    BY <1>2 DEF Inv, TypeOK, PhaseInv, OpenExisting
  <2>2. Disk!Open(password)
    BY <2>1 DEF Disk!Open, Disk!Answers, Disk!Reads
  <2>. QED
    BY <2>1, <2>2 DEF Disk!FileNext, Disk!Kept
<1>3. CASE OpenNew
  <2>1. /\ ~saving /\ saving' /\ ~file.table /\ password' = password
        /\ file' = [table |-> TRUE, key |-> password, rows |-> Empty]
        /\ password \in Secrets \cup {NoSecret} /\ Empty \in Table
    BY <1>3 DEF Inv, TypeOK, PhaseInv, OpenNew, Empty, Table
  <2>2. Disk!Create(password, {Empty})
    BY <2>1 DEF Disk!Create
  <2>. QED
    BY <2>1, <2>2 DEF Disk!FileNext, Disk!Kept
<1>4. ASSUME NEW n \in Names, Remove(n) PROVE Disk!FileNext \/ UNCHANGED Disk!fileVars
  BY <1>4, ChangeIsWritten DEF Remove
<1>5. ASSUME NEW n \in Names, NEW d \in Data, Add(n, d) \/ Update(n, d)
      PROVE  Disk!FileNext \/ UNCHANGED Disk!fileVars
  BY <1>5, ChangeIsWritten DEF Add, Update
<1>6. CASE Remember \/ DeleteSecret
  BY <1>6 DEF Remember, DeleteSecret, object, Disk!fileVars
<1>7. CASE Destroy \/ Close
  <2>1. Disk!Stop
    BY <1>7 DEF Destroy, Close, Disk!Stop
  <2>. QED
    BY <2>1 DEF Disk!FileNext, Disk!Kept
<1>8. CASE Unlink
  <2>1. ~saving /\ ~saving' /\ file' = NoFile
    BY <1>8 DEF Inv, PhaseInv, Unlink
  <2>2. Disk!Delete
    BY <2>1 DEF Disk!Delete, NoFile
  <2>. QED
    BY <2>2 DEF Disk!FileNext, Disk!Kept
<1>9. CASE UNCHANGED vars
  BY <1>9 DEF vars, object, Disk!fileVars
<1>. QED
  BY <1>1, <1>2, <1>3, <1>4, <1>5, <1>6, <1>7, <1>8, <1>9 DEF Next

\* The keyring stands between the two: it is a credential store, and asks of
\* the database nothing but what a keyed file does, whatever fails or crashes.
THEOREM LayersRefined == Spec => LayersKept
<1>1. Spec => FileKept
  BY DiskInitial, DiskStep, Invariance, PTL DEF Spec, FileKept, Disk!FileSpec
<1>. QED
  BY <1>1, StoreRefined DEF LayersKept

=============================================================================
