-------------------------- MODULE PrefixStoreProofs --------------------------
(***************************************************************************)
(* Proofs about PrefixStore, for any data, texts and number of goroutines:  *)
(* the types, the exclusion of syncs, the agreement of disk and memory, and *)
(* that readers are served as PrefixCatalog promises.                       *)
(***************************************************************************)
EXTENDS PrefixStore, FiniteSetTheorems, TLAPS

-----------------------------------------------------------------------------
(* The inductive invariant.                                                *)

\* A goroutine is between reading the active file and putting it in service.
HasRead(t) == task[t].pc \in {"apply", "publish"}

\* What a file is made from has been parsed before it is renamed, and what was
\* read from the active place was accepted there.
FilesParsed ==
  /\ \A t \in Tasks : At(t, "rename") => task[t].file \in Parsable
  /\ \A t \in Tasks : HasRead(t) => task[t].main \in accepted
  /\ active \in Usable => active \in accepted
  /\ extra # None => extra \in accepted
  /\ served # None => served.main \in accepted

\* No goroutine outlives the process.
NobodyWithoutProcess == \A t \in Tasks : ~At(t, "idle") => up

Syncing(t) == ~At(t, "idle") /\ task[t].kind = "sync"

\* The flag has one owner.
FlagOwned ==
  /\ \A t \in Tasks : Syncing(t) => syncing
  /\ syncing => \E t \in Tasks : Syncing(t)
  /\ \A t, u \in Tasks : Syncing(t) /\ Syncing(u) => t = u

\* What a goroutine has read is still what the files hold.
ReadsAreFresh ==
  ~upset => \A t \in Tasks :
    /\ HasRead(t) => task[t].main = active
    /\ At(t, "publish") => task[t].rules = overrides

OnDisk ==
  CASE active # None -> [main |-> active, rules |-> overrides]
    [] active = None /\ extra # None -> [main |-> extra, rules |-> "empty"]
    [] OTHER -> None

\* A goroutine that has changed a file will read both.
WillReload(t) == task[t].pc \in {"write", "load", "apply", "publish"}

\* Where memory differs from the disk, somebody is about to reload; and without
\* a file in the active place there is nothing to differ from.
StaleIsReloaded ==
  up /\ ~upset =>
    served = OnDisk \/ (active # None /\ \E t \in Tasks : WillReload(t))

StoreInv ==
  /\ StoreTypeOK
  /\ FilesParsed
  /\ NobodyWithoutProcess
  /\ FlagOwned
  /\ ReadsAreFresh
  /\ StaleIsReloaded

-----------------------------------------------------------------------------
\* The record of a goroutine at rest is well formed.
LEMMA IdleTyped == Idle \in TaskRecords
BY DEF Idle, TaskRecords, Steps, Kinds, Rules

\* A goroutine that leaves, with an error or without, comes to its last step and
\* disturbs no other.
LEMMA LeaveEffect ==
  ASSUME StoreTypeOK, NEW t \in Tasks, Leave(t, "none", None)
  PROVE  /\ task' \in [Tasks -> TaskRecords]
         /\ task'[t].pc = "finish" /\ task'[t].kind = task[t].kind
         /\ \A u \in Tasks \ {t} : task'[u] = task[u]
<1> DEFINE r == [Idle EXCEPT !.pc = "finish", !.kind = task[t].kind, !.error = "none", !.file = None]
<1>1. task \in [Tasks -> TaskRecords]
  BY DEF StoreTypeOK
<1>2. task[t].kind \in Kinds
  BY <1>1 DEF TaskRecords
<1>3. r \in TaskRecords /\ r.pc = "finish" /\ r.kind = task[t].kind
  BY <1>2, IdleTyped DEF Idle, TaskRecords, Steps, Kinds, Rules
<1>4. task' = [task EXCEPT ![t] = r]
  BY DEF Leave
<1> HIDE DEF r
<1> QED
  BY <1>1, <1>3, <1>4

\* The same of an error, which keeps the name of a file that did not parse.
LEMMA FailEffect ==
  ASSUME StoreTypeOK, NEW t \in Tasks, NEW error \in {"none", "data", "other"}, Fail(t, error)
  PROVE  /\ task' \in [Tasks -> TaskRecords]
         /\ task'[t].pc = "finish" /\ task'[t].kind = task[t].kind
         /\ \A u \in Tasks \ {t} : task'[u] = task[u]
<1> DEFINE file == IF error = "data" THEN task[t].file ELSE None
           r == [Idle EXCEPT !.pc = "finish", !.kind = task[t].kind, !.error = error, !.file = file]
<1>1. task \in [Tasks -> TaskRecords]
  BY DEF StoreTypeOK
<1>2. task[t].kind \in Kinds /\ file \in Data \union {None}
  BY <1>1 DEF TaskRecords
<1>3. r \in TaskRecords /\ r.pc = "finish" /\ r.kind = task[t].kind
  BY <1>2, IdleTyped, ZenonT(60) DEF Idle, TaskRecords, Steps, Kinds, Rules
<1>4. task' = [task EXCEPT ![t] = r]
  BY DEF Fail, Leave
<1> HIDE DEF r
<1> QED
  BY <1>1, <1>3, <1>4

\* What an earlier process has left, before the first start.
LEMMA InitInv == StoreInit => StoreInv
<1> SUFFICES ASSUME StoreInit PROVE StoreInv
  OBVIOUS
<1> USE StoreAssumption DEF StoreInit, At, HasRead
<1>1. StoreTypeOK
  <2>1. task \in [Tasks -> TaskRecords]
    BY IdleTyped
  <2>2. active \in Usable \union {None} /\ extra \in Extras
    OBVIOUS
  <2>3. accepted \subseteq Usable /\ overrides \in Rules
    BY <2>2 DEF Rules
  <2>4. events \in 0..MaxEvents
    OBVIOUS
  <2>5. upset \in BOOLEAN /\ up \in BOOLEAN /\ syncing \in BOOLEAN /\ served = None
    OBVIOUS
  <2> QED
    BY <2>1, <2>2, <2>3, <2>4, <2>5 DEF StoreTypeOK
<1>2. FilesParsed
  BY DEF FilesParsed, Idle
<1>3. NobodyWithoutProcess
  BY DEF NobodyWithoutProcess, Idle
<1>4. FlagOwned
  BY DEF FlagOwned, Syncing, Idle
<1>5. ReadsAreFresh
  BY DEF ReadsAreFresh, Idle
<1>6. StaleIsReloaded
  BY DEF StaleIsReloaded
<1> QED
  BY <1>1, <1>2, <1>3, <1>4, <1>5, <1>6 DEF StoreInv

\* Every step keeps the types.
LEMMA TypeStep ==
  ASSUME StoreInv, [StoreNext]_storeVars
  PROVE  StoreTypeOK'
<1>a. StoreTypeOK /\ task \in [Tasks -> TaskRecords]
  BY DEF StoreInv, StoreTypeOK
<1>b. \A t \in Tasks : /\ At(t, "rename") => task[t].file \in Parsable
                       /\ HasRead(t) => task[t].main \in accepted
  BY DEF StoreInv, FilesParsed
<1>1. ASSUME NEW t \in Tasks, SyncFrom(t)
     PROVE  StoreTypeOK'
  <2>1. [task[t] EXCEPT !.pc = "download", !.kind = "sync"] \in TaskRecords
    BY <1>a, ZenonT(60) DEF TaskRecords, Steps, Kinds, Rules
  <2> QED
    BY <1>a, <1>1, <2>1, StoreAssumption DEF StoreTypeOK, files, At, SyncFrom
<1>2. ASSUME NEW t \in Tasks, SyncFrom_Download(t)
     PROVE  StoreTypeOK'
  <2>1. ASSUME NEW d \in Data
        PROVE  [task[t] EXCEPT !.pc = "normalize", !.file = d] \in TaskRecords
    BY <1>a DEF TaskRecords, Steps
  <2>2. CASE Fail(t, "other")
    BY <1>a, <1>2, <2>2, FailEffect, StoreAssumption
       DEF StoreTypeOK, files, At, SyncFrom_Download
  <2>3. ASSUME NEW d \in Data, task' = [task EXCEPT ![t].pc = "normalize", ![t].file = d]
        PROVE  task' \in [Tasks -> TaskRecords]
    BY <1>a, <2>1, <2>3
  <2> QED
    BY <1>a, <1>2, <2>2, <2>3, StoreAssumption DEF StoreTypeOK, files, At, SyncFrom_Download
<1>3. ASSUME NEW t \in Tasks, NEW d \in Data, ImportUpload(t, d)
     PROVE  StoreTypeOK'
  <2> DEFINE r == [task[t] EXCEPT !.pc = "normalize", !.kind = "upload"]
  <2>1. r \in TaskRecords
    BY <1>a, ZenonT(60) DEF TaskRecords, Steps, Kinds
  <2>2. [r EXCEPT !.file = d] \in TaskRecords
    <3> HIDE DEF r
    <3> QED
      BY <2>1 DEF TaskRecords, Rules
  <2>3. task' = [task EXCEPT ![t] = [r EXCEPT !.file = d]]
    BY <1>a, <1>3 DEF ImportUpload
  <2> HIDE DEF r
  <2>4. task' \in [Tasks -> TaskRecords]
    BY <1>a, <2>2, <2>3
  <2> QED
    BY <1>a, <1>3, <2>4, StoreAssumption DEF StoreTypeOK, files, At, ImportUpload
<1>4. ASSUME NEW t \in Tasks, Normalize(t)
     PROVE  StoreTypeOK'
  <2>1. [task[t] EXCEPT !.pc = "rename"] \in TaskRecords
    BY <1>a DEF TaskRecords, Steps
  <2> QED
    BY <1>a, <1>4, <2>1, FailEffect, StoreAssumption DEF StoreTypeOK, files, At, Normalize, Goto
<1>5. ASSUME NEW t \in Tasks, Rename(t)
     PROVE  StoreTypeOK'
  <2>1. [task[t] EXCEPT !.pc = "load"] \in TaskRecords
    BY <1>a DEF TaskRecords, Steps
  <2> QED
    BY <1>a, <1>b, <1>5, <2>1, StoreAssumption DEF StoreTypeOK, files, At, Rename, Goto, Upset
<1>6. ASSUME NEW t \in Tasks, Rename_Fails(t)
     PROVE  StoreTypeOK'
  BY <1>a, <1>6, FailEffect, IdleTyped, StoreAssumption
     DEF StoreTypeOK, files, At, Rename_Fails, Event
<1>7. ASSUME NEW t \in Tasks, NEW text \in Texts, prefixDBSaveOverride(t, text)
     PROVE  StoreTypeOK'
  <2> DEFINE r == [task[t] EXCEPT !.pc = "truncate", !.kind = "save"]
  <2>1. r \in TaskRecords
    BY <1>a, ZenonT(60) DEF TaskRecords, Steps, Kinds
  <2>2. [r EXCEPT !.text = text] \in TaskRecords
    <3> HIDE DEF r
    <3> QED
      BY <2>1 DEF TaskRecords, Rules
  <2>3. task' = [task EXCEPT ![t] = [r EXCEPT !.text = text]]
    BY <1>a, <1>7 DEF prefixDBSaveOverride
  <2> HIDE DEF r
  <2>4. task' \in [Tasks -> TaskRecords]
    BY <1>a, <2>2, <2>3
  <2> QED
    BY <1>a, <1>7, <2>4, StoreAssumption DEF StoreTypeOK, files, At, prefixDBSaveOverride
<1>8. ASSUME NEW t \in Tasks, WriteFile_Truncate(t)
     PROVE  StoreTypeOK'
  <2>1. [task[t] EXCEPT !.pc = "write"] \in TaskRecords
    BY <1>a DEF TaskRecords, Steps
  <2> QED
    BY <1>a, <1>8, <2>1, StoreAssumption
       DEF StoreTypeOK, files, At, WriteFile_Truncate, Goto, Upset, Rules
<1>9. ASSUME NEW t \in Tasks, WriteFile_Write(t)
     PROVE  StoreTypeOK'
  <2>1. task[t].text \in Rules
    BY <1>a DEF TaskRecords
  <2>2. [task[t] EXCEPT !.pc = "load", !.text = "empty"] \in TaskRecords
    BY <1>a, ZenonT(60) DEF TaskRecords, Steps, Rules
  <2>3. overrides' \in Rules
    BY <1>9, <2>1 DEF WriteFile_Write, Upset, Rules
  <2> QED
    BY <1>a, <1>9, <2>2, <2>3, StoreAssumption
       DEF StoreTypeOK, files, At, WriteFile_Write, Upset
<1>10. ASSUME NEW t \in Tasks, WriteFile_Fails(t)
     PROVE  StoreTypeOK'
  BY <1>a, <1>10, FailEffect, IdleTyped, StoreAssumption
     DEF StoreTypeOK, files, At, WriteFile_Fails, Event
<1>11. ASSUME NEW t \in Tasks, Reload_Load(t)
     PROVE  StoreTypeOK'
  <2>1. CASE Fail(t, "data")
    BY <1>a, <1>11, <2>1, FailEffect, StoreAssumption
       DEF StoreTypeOK, files, At, Reload_Load, Loads, Upset
  <2>2. CASE ~Fail(t, "data")
    <3>1. active \in Data \union {None}
      BY <1>a, StoreAssumption DEF StoreTypeOK
    <3>2. [task[t] EXCEPT !.pc = "apply", !.file = None, !.main = active] \in TaskRecords
      BY <1>a, <3>1 DEF TaskRecords, Steps
    <3> QED
      BY <1>a, <1>11, <2>2, <3>2, StoreAssumption, ZenonT(60)
         DEF StoreTypeOK, files, At, Reload_Load, Loads, Upset
  <2> QED
    BY <2>1, <2>2
<1>12. ASSUME NEW t \in Tasks, Reload_applyOverrides(t)
     PROVE  StoreTypeOK'
  <2>1. CASE Fail(t, "other")
    BY <1>a, <1>12, <2>1, FailEffect, StoreAssumption
       DEF StoreTypeOK, files, At, Reload_applyOverrides
  <2>2. CASE ~Fail(t, "other")
    <3>1. overrides \in Rules
      BY <1>a DEF StoreTypeOK
    <3>2. [task[t] EXCEPT !.pc = "publish", !.rules = overrides] \in TaskRecords
      BY <1>a, <3>1 DEF TaskRecords, Steps
    <3> QED
      BY <1>a, <1>12, <2>2, <3>2, StoreAssumption, ZenonT(60)
         DEF StoreTypeOK, files, At, Reload_applyOverrides
  <2> QED
    BY <2>1, <2>2
<1>13. ASSUME NEW t \in Tasks, SetGlobal(t)
     PROVE  StoreTypeOK'
  <2>1. served' \in Databases
    <3>1. task[t].main \in Usable
      BY <1>a, <1>b, <1>13 DEF SetGlobal, StoreTypeOK, At, HasRead
    <3>2. task[t].rules \in Rules
      BY <1>a DEF TaskRecords
    <3> QED
      BY <1>13, <3>1, <3>2 DEF SetGlobal, Databases
  <2> QED
    BY <1>a, <1>13, <2>1, LeaveEffect, StoreAssumption DEF StoreTypeOK, files, At, SetGlobal
<1>14. ASSUME NEW t \in Tasks, finish(t)
     PROVE  StoreTypeOK'
  BY <1>a, <1>14, IdleTyped, StoreAssumption DEF StoreTypeOK, files, At, finish, Return
<1>15. ASSUME NEW text \in Texts, EditOverrides(text)
     PROVE  StoreTypeOK'
  BY <1>a, <1>15, StoreAssumption DEF StoreTypeOK, files, At, EditOverrides, Event, Rules
<1>16. CASE loadPrefixDB
  BY <1>a, <1>16, StoreAssumption
     DEF StoreTypeOK, files, At, loadPrefixDB, Loads, Readable, Databases, Rules
<1>17. CASE loadPrefixDB_Mixed
  BY <1>a, <1>17, StoreAssumption
     DEF StoreTypeOK, files, At, loadPrefixDB_Mixed, Loads, Databases, Rules
<1>18. CASE Exit
  <2>1. task' \in [Tasks -> TaskRecords]
    BY <1>18, IdleTyped DEF Exit
  <2>2. events' \in 0..MaxEvents
    BY <1>a, <1>18, StoreAssumption DEF StoreTypeOK, Exit, Event
  <2>3. UNCHANGED <<active, overrides, extra, accepted, upset>> /\ up' = FALSE /\ syncing' = FALSE /\ served' = None
    BY <1>18 DEF Exit, files
  <2> QED
    BY <1>a, <2>1, <2>2, <2>3 DEF StoreTypeOK
<1>19. CASE UNCHANGED storeVars
  BY <1>a, <1>19 DEF StoreTypeOK, storeVars, files
<1> QED
  BY <1>1, <1>2, <1>3, <1>4, <1>5, <1>6, <1>7, <1>8, <1>9, <1>10, <1>11, <1>12, <1>13,
     <1>14, <1>15, <1>16, <1>17, <1>18, <1>19
     DEF StoreNext, Continue

\* Every step keeps to parsed files and accepted libraries.
LEMMA ParsedStep ==
  ASSUME StoreInv, [StoreNext]_storeVars
  PROVE  FilesParsed'
<1> USE StoreAssumption
       DEF StoreInv, FilesParsed, HasRead, At, Idle, files, StoreTypeOK, TaskRecords
<1>1. ASSUME NEW t \in Tasks, SyncFrom(t)
     PROVE  FilesParsed'
  BY <1>1 DEF SyncFrom
<1>2. ASSUME NEW t \in Tasks, SyncFrom_Download(t)
     PROVE  FilesParsed'
  BY <1>2, FailEffect DEF SyncFrom_Download
<1>3. ASSUME NEW t \in Tasks, NEW d \in Data, ImportUpload(t, d)
     PROVE  FilesParsed'
  BY <1>3 DEF ImportUpload
<1>4. ASSUME NEW t \in Tasks, Normalize(t)
     PROVE  FilesParsed'
  BY <1>4, FailEffect DEF Normalize, Goto
<1>5. ASSUME NEW t \in Tasks, Rename(t)
     PROVE  FilesParsed'
  BY <1>5 DEF Rename, Goto, Upset
<1>6. ASSUME NEW t \in Tasks, Rename_Fails(t)
     PROVE  FilesParsed'
  BY <1>6, FailEffect DEF Rename_Fails, Event
<1>7. ASSUME NEW t \in Tasks, NEW text \in Texts, prefixDBSaveOverride(t, text)
     PROVE  FilesParsed'
  BY <1>7 DEF prefixDBSaveOverride
<1>8. ASSUME NEW t \in Tasks, WriteFile_Truncate(t)
     PROVE  FilesParsed'
  BY <1>8 DEF WriteFile_Truncate, Goto, Upset
<1>9. ASSUME NEW t \in Tasks, WriteFile_Write(t)
     PROVE  FilesParsed'
  BY <1>9 DEF WriteFile_Write, Upset
<1>10. ASSUME NEW t \in Tasks, WriteFile_Fails(t)
     PROVE  FilesParsed'
  BY <1>10, FailEffect DEF WriteFile_Fails, Event
<1>11. ASSUME NEW t \in Tasks, Reload_Load(t)
     PROVE  FilesParsed'
  BY <1>11, FailEffect DEF Reload_Load, Loads, Upset
<1>12. ASSUME NEW t \in Tasks, Reload_applyOverrides(t)
     PROVE  FilesParsed'
  BY <1>12, FailEffect DEF Reload_applyOverrides
<1>13. ASSUME NEW t \in Tasks, SetGlobal(t)
     PROVE  FilesParsed'
  BY <1>13, LeaveEffect DEF SetGlobal
<1>14. ASSUME NEW t \in Tasks, finish(t)
     PROVE  FilesParsed'
  BY <1>14 DEF finish, Return
<1>15. ASSUME NEW text \in Texts, EditOverrides(text)
     PROVE  FilesParsed'
  BY <1>15 DEF EditOverrides, Event
<1>16. CASE loadPrefixDB
  BY <1>16 DEF loadPrefixDB, Loads, Readable
<1>17. CASE loadPrefixDB_Mixed
  BY <1>17 DEF loadPrefixDB_Mixed, Loads
<1>18. CASE Exit
  BY <1>18 DEF Exit, Event
<1>19. CASE UNCHANGED storeVars
  BY <1>19 DEF storeVars, files
<1> QED
  BY <1>1, <1>2, <1>3, <1>4, <1>5, <1>6, <1>7, <1>8, <1>9, <1>10, <1>11, <1>12, <1>13,
     <1>14, <1>15, <1>16, <1>17, <1>18, <1>19
     DEF StoreNext, Continue

\* A goroutine begins in a process and ends with it.
LEMMA ProcessStep ==
  ASSUME StoreInv, [StoreNext]_storeVars
  PROVE  NobodyWithoutProcess'
<1> USE StoreAssumption
       DEF StoreInv, NobodyWithoutProcess, At, Idle, files, StoreTypeOK, TaskRecords
<1>1. ASSUME NEW t \in Tasks, SyncFrom(t)
     PROVE  NobodyWithoutProcess'
  BY <1>1 DEF SyncFrom
<1>2. ASSUME NEW t \in Tasks, SyncFrom_Download(t)
     PROVE  NobodyWithoutProcess'
  BY <1>2, FailEffect DEF SyncFrom_Download
<1>3. ASSUME NEW t \in Tasks, NEW d \in Data, ImportUpload(t, d)
     PROVE  NobodyWithoutProcess'
  BY <1>3 DEF ImportUpload
<1>4. ASSUME NEW t \in Tasks, Normalize(t)
     PROVE  NobodyWithoutProcess'
  BY <1>4, FailEffect DEF Normalize, Goto
<1>5. ASSUME NEW t \in Tasks, Rename(t)
     PROVE  NobodyWithoutProcess'
  BY <1>5 DEF Rename, Goto, Upset
<1>6. ASSUME NEW t \in Tasks, Rename_Fails(t)
     PROVE  NobodyWithoutProcess'
  BY <1>6, FailEffect DEF Rename_Fails, Event
<1>7. ASSUME NEW t \in Tasks, NEW text \in Texts, prefixDBSaveOverride(t, text)
     PROVE  NobodyWithoutProcess'
  BY <1>7 DEF prefixDBSaveOverride
<1>8. ASSUME NEW t \in Tasks, WriteFile_Truncate(t)
     PROVE  NobodyWithoutProcess'
  BY <1>8 DEF WriteFile_Truncate, Goto, Upset
<1>9. ASSUME NEW t \in Tasks, WriteFile_Write(t)
     PROVE  NobodyWithoutProcess'
  BY <1>9 DEF WriteFile_Write, Upset
<1>10. ASSUME NEW t \in Tasks, WriteFile_Fails(t)
     PROVE  NobodyWithoutProcess'
  BY <1>10, FailEffect DEF WriteFile_Fails, Event
<1>11. ASSUME NEW t \in Tasks, Reload_Load(t)
     PROVE  NobodyWithoutProcess'
  BY <1>11, FailEffect DEF Reload_Load, Loads, Upset
<1>12. ASSUME NEW t \in Tasks, Reload_applyOverrides(t)
     PROVE  NobodyWithoutProcess'
  BY <1>12, FailEffect DEF Reload_applyOverrides
<1>13. ASSUME NEW t \in Tasks, SetGlobal(t)
     PROVE  NobodyWithoutProcess'
  BY <1>13, LeaveEffect DEF SetGlobal
<1>14. ASSUME NEW t \in Tasks, finish(t)
     PROVE  NobodyWithoutProcess'
  BY <1>14 DEF finish, Return
<1>15. ASSUME NEW text \in Texts, EditOverrides(text)
     PROVE  NobodyWithoutProcess'
  BY <1>15 DEF EditOverrides, Event
<1>16. CASE loadPrefixDB
  BY <1>16 DEF loadPrefixDB, Loads, Readable
<1>17. CASE loadPrefixDB_Mixed
  BY <1>17 DEF loadPrefixDB_Mixed, Loads
<1>18. CASE Exit
  BY <1>18 DEF Exit, Event
<1>19. CASE UNCHANGED storeVars
  BY <1>19 DEF storeVars, files
<1> QED
  BY <1>1, <1>2, <1>3, <1>4, <1>5, <1>6, <1>7, <1>8, <1>9, <1>10, <1>11, <1>12, <1>13,
     <1>14, <1>15, <1>16, <1>17, <1>18, <1>19
     DEF StoreNext, Continue

\* The flag is claimed when it is down, and every way out lowers it.
LEMMA FlagStep ==
  ASSUME StoreInv, [StoreNext]_storeVars
  PROVE  FlagOwned'
<1> USE StoreAssumption
       DEF StoreInv, FlagOwned, NobodyWithoutProcess, Syncing, At, Idle, files,
           StoreTypeOK, TaskRecords
<1>1. ASSUME NEW t \in Tasks, SyncFrom(t)
     PROVE  FlagOwned'
  BY <1>1 DEF SyncFrom
<1>2. ASSUME NEW t \in Tasks, SyncFrom_Download(t)
     PROVE  FlagOwned'
  BY <1>2, FailEffect DEF SyncFrom_Download
<1>3. ASSUME NEW t \in Tasks, NEW d \in Data, ImportUpload(t, d)
     PROVE  FlagOwned'
  BY <1>3 DEF ImportUpload
<1>4. ASSUME NEW t \in Tasks, Normalize(t)
     PROVE  FlagOwned'
  BY <1>4, FailEffect DEF Normalize, Goto
<1>5. ASSUME NEW t \in Tasks, Rename(t)
     PROVE  FlagOwned'
  BY <1>5 DEF Rename, Goto, Upset
<1>6. ASSUME NEW t \in Tasks, Rename_Fails(t)
     PROVE  FlagOwned'
  BY <1>6, FailEffect DEF Rename_Fails, Event
<1>7. ASSUME NEW t \in Tasks, NEW text \in Texts, prefixDBSaveOverride(t, text)
     PROVE  FlagOwned'
  BY <1>7 DEF prefixDBSaveOverride
<1>8. ASSUME NEW t \in Tasks, WriteFile_Truncate(t)
     PROVE  FlagOwned'
  BY <1>8 DEF WriteFile_Truncate, Goto, Upset
<1>9. ASSUME NEW t \in Tasks, WriteFile_Write(t)
     PROVE  FlagOwned'
  BY <1>9 DEF WriteFile_Write, Upset
<1>10. ASSUME NEW t \in Tasks, WriteFile_Fails(t)
     PROVE  FlagOwned'
  BY <1>10, FailEffect DEF WriteFile_Fails, Event
<1>11. ASSUME NEW t \in Tasks, Reload_Load(t)
     PROVE  FlagOwned'
  BY <1>11, FailEffect DEF Reload_Load, Loads, Upset
<1>12. ASSUME NEW t \in Tasks, Reload_applyOverrides(t)
     PROVE  FlagOwned'
  BY <1>12, FailEffect DEF Reload_applyOverrides
<1>13. ASSUME NEW t \in Tasks, SetGlobal(t)
     PROVE  FlagOwned'
  BY <1>13, LeaveEffect DEF SetGlobal
<1>14. ASSUME NEW t \in Tasks, finish(t)
     PROVE  FlagOwned'
  BY <1>14 DEF finish, Return
<1>15. ASSUME NEW text \in Texts, EditOverrides(text)
     PROVE  FlagOwned'
  BY <1>15 DEF EditOverrides, Event
<1>16. CASE loadPrefixDB
  BY <1>16 DEF loadPrefixDB, Loads, Readable
<1>17. CASE loadPrefixDB_Mixed
  BY <1>17 DEF loadPrefixDB_Mixed, Loads
<1>18. CASE Exit
  BY <1>18 DEF Exit, Event
<1>19. CASE UNCHANGED storeVars
  BY <1>19 DEF storeVars, files
<1> QED
  BY <1>1, <1>2, <1>3, <1>4, <1>5, <1>6, <1>7, <1>8, <1>9, <1>10, <1>11, <1>12, <1>13,
     <1>14, <1>15, <1>16, <1>17, <1>18, <1>19
     DEF StoreNext, Continue

\* A file that changes under a reload upsets.
LEMMA FreshStep ==
  ASSUME StoreInv, [StoreNext]_storeVars
  PROVE  ReadsAreFresh'
<1> USE StoreAssumption
       DEF StoreInv, ReadsAreFresh, NobodyWithoutProcess, HasRead, Overtaken, At, Idle,
           files, StoreTypeOK, TaskRecords
<1>1. ASSUME NEW t \in Tasks, SyncFrom(t)
     PROVE  ReadsAreFresh'
  BY <1>1 DEF SyncFrom
<1>2. ASSUME NEW t \in Tasks, SyncFrom_Download(t)
     PROVE  ReadsAreFresh'
  BY <1>2, FailEffect DEF SyncFrom_Download
<1>3. ASSUME NEW t \in Tasks, NEW d \in Data, ImportUpload(t, d)
     PROVE  ReadsAreFresh'
  BY <1>3 DEF ImportUpload
<1>4. ASSUME NEW t \in Tasks, Normalize(t)
     PROVE  ReadsAreFresh'
  BY <1>4, FailEffect DEF Normalize, Goto
<1>5. ASSUME NEW t \in Tasks, Rename(t)
     PROVE  ReadsAreFresh'
  BY <1>5 DEF Rename, Goto, Upset
<1>6. ASSUME NEW t \in Tasks, Rename_Fails(t)
     PROVE  ReadsAreFresh'
  BY <1>6, FailEffect DEF Rename_Fails, Event
<1>7. ASSUME NEW t \in Tasks, NEW text \in Texts, prefixDBSaveOverride(t, text)
     PROVE  ReadsAreFresh'
  BY <1>7 DEF prefixDBSaveOverride
<1>8. ASSUME NEW t \in Tasks, WriteFile_Truncate(t)
     PROVE  ReadsAreFresh'
  BY <1>8 DEF WriteFile_Truncate, Goto, Upset
<1>9. ASSUME NEW t \in Tasks, WriteFile_Write(t)
     PROVE  ReadsAreFresh'
  BY <1>9 DEF WriteFile_Write, Upset
<1>10. ASSUME NEW t \in Tasks, WriteFile_Fails(t)
     PROVE  ReadsAreFresh'
  BY <1>10, FailEffect DEF WriteFile_Fails, Event
<1>11. ASSUME NEW t \in Tasks, Reload_Load(t)
     PROVE  ReadsAreFresh'
  BY <1>11, FailEffect DEF Reload_Load, Loads, Upset
<1>12. ASSUME NEW t \in Tasks, Reload_applyOverrides(t)
     PROVE  ReadsAreFresh'
  BY <1>12, FailEffect DEF Reload_applyOverrides
<1>13. ASSUME NEW t \in Tasks, SetGlobal(t)
     PROVE  ReadsAreFresh'
  BY <1>13, LeaveEffect DEF SetGlobal
<1>14. ASSUME NEW t \in Tasks, finish(t)
     PROVE  ReadsAreFresh'
  BY <1>14 DEF finish, Return
<1>15. ASSUME NEW text \in Texts, EditOverrides(text)
     PROVE  ReadsAreFresh'
  BY <1>15 DEF EditOverrides, Event
<1>16. CASE loadPrefixDB
  BY <1>16 DEF loadPrefixDB, Loads, Readable
<1>17. CASE loadPrefixDB_Mixed
  BY <1>17 DEF loadPrefixDB_Mixed, Loads
<1>18. CASE Exit
  BY <1>18 DEF Exit, Event
<1>19. CASE UNCHANGED storeVars
  BY <1>19 DEF storeVars, files
<1> QED
  BY <1>1, <1>2, <1>3, <1>4, <1>5, <1>6, <1>7, <1>8, <1>9, <1>10, <1>11, <1>12, <1>13,
     <1>14, <1>15, <1>16, <1>17, <1>18, <1>19
     DEF StoreNext, Continue

\* A change of a file is followed by a reload, or upsets.
LEMMA StaleStep ==
  ASSUME StoreInv, [StoreNext]_storeVars
  PROVE  StaleIsReloaded'
<1> USE StoreAssumption
       DEF StoreInv, StaleIsReloaded, FilesParsed, ReadsAreFresh, NobodyWithoutProcess,
           HasRead, WillReload, OnDisk, At, Idle, files, StoreTypeOK, TaskRecords
<1>1. ASSUME NEW t \in Tasks, SyncFrom(t)
     PROVE  StaleIsReloaded'
  BY <1>1 DEF SyncFrom
<1>2. ASSUME NEW t \in Tasks, SyncFrom_Download(t)
     PROVE  StaleIsReloaded'
  BY <1>2, FailEffect DEF SyncFrom_Download
<1>3. ASSUME NEW t \in Tasks, NEW d \in Data, ImportUpload(t, d)
     PROVE  StaleIsReloaded'
  BY <1>3 DEF ImportUpload
<1>4. ASSUME NEW t \in Tasks, Normalize(t)
     PROVE  StaleIsReloaded'
  BY <1>4, FailEffect DEF Normalize, Goto
<1>5. ASSUME NEW t \in Tasks, Rename(t)
     PROVE  StaleIsReloaded'
  BY <1>5 DEF Rename, Goto, Upset
<1>6. ASSUME NEW t \in Tasks, Rename_Fails(t)
     PROVE  StaleIsReloaded'
  BY <1>6, FailEffect DEF Rename_Fails, Event
<1>7. ASSUME NEW t \in Tasks, NEW text \in Texts, prefixDBSaveOverride(t, text)
     PROVE  StaleIsReloaded'
  BY <1>7 DEF prefixDBSaveOverride
<1>8. ASSUME NEW t \in Tasks, WriteFile_Truncate(t)
     PROVE  StaleIsReloaded'
  BY <1>8 DEF WriteFile_Truncate, Goto, Upset
<1>9. ASSUME NEW t \in Tasks, WriteFile_Write(t)
     PROVE  StaleIsReloaded'
  BY <1>9 DEF WriteFile_Write, Upset
<1>10. ASSUME NEW t \in Tasks, WriteFile_Fails(t)
     PROVE  StaleIsReloaded'
  BY <1>10, FailEffect DEF WriteFile_Fails, Event
<1>11. ASSUME NEW t \in Tasks, Reload_Load(t)
     PROVE  StaleIsReloaded'
  <2>1. CASE active = None
    BY <1>11, <2>1, FailEffect DEF Reload_Load, Loads, Upset
  <2>2. CASE active # None /\ Loads(active)
    BY <1>11, <2>2 DEF Reload_Load, Loads, Upset
  <2>3. CASE active # None /\ ~Loads(active)
    BY <1>11, <2>3 DEF Reload_Load, Loads, Upset
  <2> QED
    BY <2>1, <2>2, <2>3
<1>12. ASSUME NEW t \in Tasks, Reload_applyOverrides(t)
     PROVE  StaleIsReloaded'
  BY <1>12, FailEffect DEF Reload_applyOverrides
<1>13. ASSUME NEW t \in Tasks, SetGlobal(t)
     PROVE  StaleIsReloaded'
  BY <1>13, LeaveEffect DEF SetGlobal
<1>14. ASSUME NEW t \in Tasks, finish(t)
     PROVE  StaleIsReloaded'
  BY <1>14 DEF finish, Return
<1>15. ASSUME NEW text \in Texts, EditOverrides(text)
     PROVE  StaleIsReloaded'
  BY <1>15 DEF EditOverrides, Event
<1>16. CASE loadPrefixDB
  <2>1. CASE active = None
    BY <1>16, <2>1 DEF loadPrefixDB, Loads, Readable
  <2>2. CASE active # None
    BY <1>16, <2>2 DEF loadPrefixDB, Loads, Readable
  <2> QED
    BY <2>1, <2>2
<1>17. CASE loadPrefixDB_Mixed
  BY <1>17 DEF loadPrefixDB_Mixed, Loads
<1>18. CASE Exit
  BY <1>18 DEF Exit, Event
<1>19. CASE UNCHANGED storeVars
  BY <1>19 DEF storeVars, files
<1> QED
  BY <1>1, <1>2, <1>3, <1>4, <1>5, <1>6, <1>7, <1>8, <1>9, <1>10, <1>11, <1>12, <1>13,
     <1>14, <1>15, <1>16, <1>17, <1>18, <1>19
     DEF StoreNext, Continue

\* The six conjuncts together are inductive.
LEMMA StepInv == StoreInv /\ [StoreNext]_storeVars => StoreInv'
<1> SUFFICES ASSUME StoreInv, [StoreNext]_storeVars
             PROVE  StoreInv'
  OBVIOUS
<1> QED
  BY TypeStep, ParsedStep, ProcessStep, FlagStep, FreshStep, StaleStep DEF StoreInv

\* The inductive invariant holds of every reachable state.
LEMMA InvHolds == StoreSpec => []StoreInv
<1> QED
  BY InitInv, StepInv, PTL DEF StoreSpec

-----------------------------------------------------------------------------
(* The theorems.                                                           *)

\* The files, the database in service and the records of the goroutines stay well
\* formed; what is served was made from a library that Load accepts.
THEOREM StoreTypeCorrect == StoreSpec => []StoreTypeOK
<1>1. StoreInv => StoreTypeOK
  BY DEF StoreInv
<1> QED
  BY <1>1, InvHolds, PTL

\* One sync at a time, and the flag is up exactly while it works, whatever exits
\* it takes and wherever the process ends.
THEOREM OneSyncHolds == StoreSpec => []OneSyncAtATime
<1>1. StoreInv => OneSyncAtATime
  <2> SUFFICES ASSUME StoreInv
               PROVE  OneSyncAtATime
    OBVIOUS
  <2> DEFINE syncs == { t \in Tasks : task[t].pc # "idle" /\ task[t].kind = "sync" }
  <2>1. \A t \in Tasks : Syncing(t) <=> t \in syncs
    BY DEF Syncing, At
  <2>2. CASE ~syncing
    <3>1. syncs = {}
      BY <2>1, <2>2 DEF StoreInv, FlagOwned
    <3> QED
      BY <2>2, <3>1, FS_EmptySet DEF OneSyncAtATime
  <2>3. CASE syncing
    <3>1. PICK t \in Tasks : Syncing(t)
      BY <2>3 DEF StoreInv, FlagOwned
    <3>2. syncs = {t}
      BY <2>1, <3>1 DEF StoreInv, FlagOwned
    <3> QED
      BY <2>3, <3>2, FS_Singleton DEF OneSyncAtATime
  <2> QED
    BY <2>2, <2>3 DEF StoreInv, StoreTypeOK
<1> QED
  BY <1>1, InvHolds, PTL

\* While nobody is at work and nothing has upset it, memory is what a restart
\* would make of the disk.
THEOREM DiskAndMemoryHold == StoreSpec => []DiskAndMemoryAgree
<1>1. StoreInv => DiskAndMemoryAgree
  BY DEF StoreInv, StaleIsReloaded, DiskAndMemoryAgree, OnDisk, WillReload, At
<1> QED
  BY <1>1, InvHolds, PTL

\* What is in service is not mistaken for nothing.
LEMMA DatabaseIsNotNone ==
  ASSUME NEW d \in Usable, NEW r \in Rules
  PROVE  [main |-> d, rules |-> r] # None
BY StoreAssumption DEF Rules

\* Readers are served as PrefixCatalog promises: a rename over the active file is
\* Accept where Load will take it, a reload publishes what was accepted, and
\* everything else is not seen by them.
THEOREM CatalogImplemented == StoreSpec => StoreImplementsCatalog
<1>1. StoreInit => Catalog!CatalogInit
  BY StoreAssumption DEF StoreInit, Catalog!CatalogInit
<1>2. StoreInv /\ [StoreNext]_storeVars => [Catalog!CatalogNext]_(Catalog!catalogVars)
  <2> SUFFICES ASSUME StoreInv, [StoreNext]_storeVars
               PROVE  [Catalog!CatalogNext]_(Catalog!catalogVars)
    OBVIOUS
  <2>0. StoreTypeOK /\ FilesParsed /\ NobodyWithoutProcess
    BY DEF StoreInv
  <2>1. CASE UNCHANGED <<up, served, accepted>>
    BY <2>1 DEF Catalog!catalogVars
  <2>2. ASSUME NEW t \in Tasks, Rename(t)
        PROVE  [Catalog!CatalogNext]_(Catalog!catalogVars)
    <3>1. up /\ UNCHANGED <<up, served>> /\ accepted' = accepted \union ({task[t].file} \intersect Usable)
      BY <2>0, <2>2 DEF Rename, At, NobodyWithoutProcess
    <3>2. CASE task[t].file \in Usable
      BY <3>1, <3>2 DEF Catalog!CatalogNext, Catalog!Accept
    <3>3. CASE task[t].file \notin Usable
      BY <3>1, <3>3 DEF Catalog!catalogVars
    <3> QED
      BY <3>2, <3>3
  <2>3. ASSUME NEW t \in Tasks, SetGlobal(t)
        PROVE  [Catalog!CatalogNext]_(Catalog!catalogVars)
    <3>1. up /\ task[t].main \in accepted /\ UNCHANGED <<up, accepted>>
      BY <2>0, <2>3 DEF SetGlobal, At, HasRead, NobodyWithoutProcess, FilesParsed
    <3>2. task[t].main \in Usable /\ task[t].rules \in Rules
      BY <2>0, <3>1 DEF StoreTypeOK, TaskRecords
    <3>3. served' # None /\ served'.main = task[t].main
      BY <2>3, <3>2, DatabaseIsNotNone DEF SetGlobal
    <3> QED
      BY <3>1, <3>2, <3>3 DEF Catalog!CatalogNext, Catalog!Publish
  <2>4. CASE loadPrefixDB \/ loadPrefixDB_Mixed
    <3>1. ~up /\ up' /\ UNCHANGED accepted
      BY <2>4 DEF loadPrefixDB, loadPrefixDB_Mixed
    <3>2. up' = TRUE /\ up = FALSE
      BY <2>0, <2>4 DEF loadPrefixDB, loadPrefixDB_Mixed, StoreTypeOK
    <3>3. served' = None \/ \E d \in accepted, r \in Rules : served' = [main |-> d, rules |-> r]
      BY <2>0, <2>4, StoreAssumption
         DEF loadPrefixDB, loadPrefixDB_Mixed, Loads, Readable, FilesParsed, StoreTypeOK, Rules
    <3>4. served' = None \/ (served' # None /\ served'.main \in accepted)
      BY <2>0, <3>3, DatabaseIsNotNone DEF StoreTypeOK
    <3> QED
      BY <3>1, <3>2, <3>4 DEF Catalog!CatalogNext, Catalog!Begin
  <2>5. CASE Exit
    BY <2>0, <2>5 DEF Exit, Catalog!CatalogNext, Catalog!End, StoreTypeOK
  <2> QED
    BY <2>1, <2>2, <2>3, <2>4, <2>5
       DEF StoreNext, Continue, storeVars, SyncFrom, SyncFrom_Download, ImportUpload, Normalize,
           Rename_Fails, prefixDBSaveOverride, WriteFile_Truncate, WriteFile_Write,
           WriteFile_Fails, Reload_Load, Reload_applyOverrides, finish, EditOverrides
<1> QED
  BY <1>1, <1>2, InvHolds, PTL DEF StoreSpec, StoreImplementsCatalog, Catalog!CatalogSpec

=============================================================================
