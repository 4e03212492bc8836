----------------------------- MODULE PrefixStore -----------------------------
(***************************************************************************)
(* The prefix database as files and as what is served from memory           *)
(* (internal/prefixdb/sync.go, db.go, internal/web/prefixdb.go and          *)
(* loadPrefixDB of cmd/xdpban/main.go): a sync or an upload is normalized   *)
(* beside the active file and renamed over it; the overrides are written in *)
(* place; and each of them ends in Reload, which reads both files and       *)
(* replaces the database in memory.                                         *)
(*                                                                         *)
(* Syncs exclude each other (syncStatus.InProgress).  Uploads and saved     *)
(* overrides are excluded by nothing, so reloads may overlap.               *)
(***************************************************************************)
EXTENDS FiniteSets, Naturals

CONSTANTS Data,        \* what may be downloaded or uploaded
          Parsable,    \* data in which normalize finds a record
          Usable,      \* data in which Load finds one: a start and an end in IPv4
          Extras,      \* what XDPBAN_PREFIX_DB may name: nothing, or a library
          Texts,       \* texts of overrides
          Valid,       \* texts in which every line parses
          Tasks,       \* goroutines: background syncs and handlers
          None,        \* no file, no database
          MaxEvents    \* bound on edits, failed writes and ends of the process

ASSUME StoreAssumption ==
  /\ Usable \subseteq Parsable /\ Parsable \subseteq Data
  /\ Extras \subseteq Usable \union {None}
  /\ Valid \subseteq Texts
  /\ None \notin Data
  /\ None \notin [main : Usable, rules : Texts \union {"empty", "mixed"}]
  /\ {"empty", "mixed"} \intersect Texts = {}
  /\ MaxEvents \in Nat

VARIABLES
  active,     \* the file prefixdb.tsv, as the data it was made from
  overrides,  \* the file overrides.tsv
  extra,      \* the file XDPBAN_PREFIX_DB names
  served,     \* prefixdb.global: a library and the overrides applied to it
  syncing,    \* syncStatus.InProgress
  task,       \* what each goroutine is doing
  up,         \* the process runs
  accepted,   \* history: the libraries that were ever put in the active place
  upset,      \* history: memory and disk may have come apart since the start
  events

files == <<active, overrides, extra>>
storeVars == <<files, served, syncing, task, up, accepted, upset, events>>

-----------------------------------------------------------------------------
(* Files, databases and records.                                           *)

\* A missing file of overrides does what an empty one does.  Two saves at once
\* may leave the beginning of one text and the end of the other.
Rules == Texts \union {"empty", "mixed"}

Databases == [main : Usable, rules : Rules]

Kinds == {"sync", "upload", "save"}

Steps == {"idle", "download", "normalize", "rename", "truncate", "write",
          "load", "apply", "publish", "finish"}

Idle == [pc |-> "idle", kind |-> "save", file |-> None, text |-> "empty",
         main |-> None, rules |-> "empty", error |-> "none"]

TaskRecords ==
  [pc : Steps, kind : Kinds, file : Data \union {None}, text : Rules,
   main : Data \union {None}, rules : Rules, error : {"none", "data", "other"}]

At(t, step) == task[t].pc = step

Goto(t, step) == task' = [task EXCEPT ![t].pc = step]

\* A goroutine keeps of what it has read only what it still needs.
Leave(t, error, file) ==
  task' = [task EXCEPT ![t] =
    [Idle EXCEPT !.pc = "finish", !.kind = task[t].kind, !.error = error, !.file = file]]

Fail(t, error) == Leave(t, error, IF error = "data" THEN task[t].file ELSE None)

Return(t) == task' = [task EXCEPT ![t] = Idle]

Event == events < MaxEvents /\ events' = events + 1

\* A file changes after another goroutine has read it and before that one has
\* put what it read in service.
Overtaken(t, steps) == \E u \in Tasks \ {t} : task[u].pc \in steps

Upset(cause) == upset' = (upset \/ cause)

-----------------------------------------------------------------------------
(* prefixdb.SyncFrom and ImportUpload.                                      *)

\* A fault: the flag is set, and not looked at.
ClaimsUnchecked(t) ==
  /\ up /\ At(t, "idle")
  /\ syncing' = TRUE
  /\ task' = [task EXCEPT ![t].pc = "download", ![t].kind = "sync"]
  /\ UNCHANGED <<files, served, up, accepted, upset, events>>

SyncFrom(t) ==
  /\ up /\ At(t, "idle")
  /\ ~syncing
  /\ syncing' = TRUE
  /\ task' = [task EXCEPT ![t].pc = "download", ![t].kind = "sync"]
  /\ UNCHANGED <<files, served, up, accepted, upset, events>>

\* The client gives up after ten minutes, so a download ends.
SyncFrom_Download(t) ==
  /\ At(t, "download")
  /\ \/ \E d \in Data : task' = [task EXCEPT ![t].pc = "normalize", ![t].file = d]
     \/ Fail(t, "other")
  /\ UNCHANGED <<files, served, syncing, up, accepted, upset, events>>

ImportUpload(t, d) ==
  /\ up /\ At(t, "idle")
  /\ task' = [task EXCEPT ![t].pc = "normalize", ![t].kind = "upload", ![t].file = d]
  /\ UNCHANGED <<files, served, syncing, up, accepted, upset, events>>

\* A fault: a sync that cannot be parsed returns and does not go through finish.
ForgetsToFinish(t) ==
  /\ At(t, "normalize")
  /\ IF task[t].file \in Parsable THEN Goto(t, "rename") ELSE Return(t)
  /\ UNCHANGED <<files, served, syncing, up, accepted, upset, events>>

\* Only the first address of a record is looked at here.
Normalize(t) ==
  /\ At(t, "normalize")
  /\ IF task[t].file \in Parsable THEN Goto(t, "rename") ELSE Fail(t, "data")
  /\ UNCHANGED <<files, served, syncing, up, accepted, upset, events>>

Rename(t) ==
  /\ At(t, "rename")
  /\ active' = task[t].file
  /\ accepted' = accepted \union ({task[t].file} \intersect Usable)
  /\ Upset(Overtaken(t, {"apply", "publish"}))
  /\ Goto(t, "load")
  /\ UNCHANGED <<overrides, extra, served, syncing, up, events>>

Rename_Fails(t) ==
  /\ At(t, "rename")
  /\ Event
  /\ Fail(t, "other")
  /\ UNCHANGED <<files, served, syncing, up, accepted, upset>>

-----------------------------------------------------------------------------
(* Handler.prefixDBSaveOverride: the text is validated, the file truncated  *)
(* and written in place.                                                    *)

prefixDBSaveOverride(t, text) ==
  /\ up /\ At(t, "idle")
  /\ text \in Valid
  /\ task' = [task EXCEPT ![t].pc = "truncate", ![t].kind = "save", ![t].text = text]
  /\ UNCHANGED <<files, served, syncing, up, accepted, upset, events>>

WriteFile_Truncate(t) ==
  /\ At(t, "truncate")
  /\ overrides' = "empty"
  /\ Upset(Overtaken(t, {"publish"}))
  /\ Goto(t, "write")
  /\ UNCHANGED <<active, extra, served, syncing, up, accepted, events>>

\* A fault: the handler leaves the reload to the next import.
SavesWithoutReload(t) ==
  /\ At(t, "write")
  /\ overrides' \in (IF overrides = "empty" THEN {} ELSE {"mixed"}) \union {task[t].text}
  /\ Leave(t, "none", None)
  /\ UNCHANGED <<active, extra, served, syncing, up, accepted, upset, events>>

\* Where another save has written in between, the longer text shows at the end.
WriteFile_Write(t) ==
  /\ At(t, "write")
  /\ overrides' \in (IF overrides = "empty" THEN {} ELSE {"mixed"}) \union {task[t].text}
  /\ Upset(Overtaken(t, {"publish"}))
  /\ task' = [task EXCEPT ![t].pc = "load", ![t].text = "empty"]
  /\ UNCHANGED <<active, extra, served, syncing, up, accepted, events>>

WriteFile_Fails(t) ==
  /\ At(t, "write")
  /\ Event
  /\ upset' = TRUE
  /\ Fail(t, "other")
  /\ UNCHANGED <<files, served, syncing, up, accepted>>

-----------------------------------------------------------------------------
(* prefixdb.Reload.                                                         *)

\* A fault: a file without a usable record is an empty library.
LoadsAnything(d) == TRUE

Loads(d) == d \in Usable

\* The file is open while it is read: a rename does not disturb it.
Reload_Load(t) ==
  /\ At(t, "load")
  /\ \/ /\ Loads(active)
        /\ task' = [task EXCEPT ![t].pc = "apply", ![t].file = None, ![t].main = active]
        /\ UNCHANGED upset
     \/ /\ ~Loads(active)
        /\ Fail(t, "data")
        /\ Upset(active # None)
  /\ UNCHANGED <<files, served, syncing, up, accepted, events>>

\* A mixed text may or may not parse.  Where it does not, the library that was
\* loaded is dropped, although the message says that only the text is ignored.
Reload_applyOverrides(t) ==
  /\ At(t, "apply")
  /\ \/ /\ overrides \in Valid \union {"empty", "mixed"}
        /\ task' = [task EXCEPT ![t].pc = "publish", ![t].rules = overrides]
        /\ UNCHANGED upset
     \/ /\ overrides \notin Valid \union {"empty"}
        /\ Fail(t, "other")
        /\ upset' = TRUE
  /\ UNCHANGED <<files, served, syncing, up, accepted, events>>

SetGlobal(t) ==
  /\ At(t, "publish")
  /\ served' = [main |-> task[t].main, rules |-> task[t].rules]
  /\ Leave(t, "none", None)
  /\ UNCHANGED <<files, syncing, up, accepted, upset, events>>

\* A fault: what failed to load is taken out of service.
DropsServed(t) ==
  /\ At(t, "finish")
  /\ syncing' = (syncing /\ task[t].kind # "sync")
  /\ served' = IF task[t].error = "data" THEN None ELSE served
  /\ Return(t)
  /\ UNCHANGED <<files, up, accepted, upset, events>>

finish(t) ==
  /\ At(t, "finish")
  /\ syncing' = (syncing /\ task[t].kind # "sync")
  /\ Return(t)
  /\ UNCHANGED <<files, served, up, accepted, upset, events>>

-----------------------------------------------------------------------------
(* loadPrefixDB, and what happens outside the process.                      *)

Readable(o) == o \in Valid \union {"empty"}

\* The first candidate that loads is served, without overrides; then Reload puts
\* the active file in its place, if that can be loaded and the overrides parse.
loadPrefixDB ==
  /\ ~up
  /\ up' = TRUE
  /\ LET usable == { d \in {extra, active} : Loads(d) }
         first  == IF Loads(extra) THEN extra ELSE active
         reload == Loads(active) /\ Readable(overrides)
     IN
     /\ served' = CASE usable = {} -> None
                    [] usable # {} /\ reload -> [main |-> active, rules |-> overrides]
                    [] OTHER -> [main |-> first, rules |-> "empty"]
     /\ upset' = (~reload /\ active # None)
  /\ UNCHANGED <<files, syncing, task, accepted, events>>

\* Where a mixed text happens to parse, the start takes it as it is.
loadPrefixDB_Mixed ==
  /\ ~up
  /\ overrides = "mixed" /\ Loads(active)
  /\ up' = TRUE
  /\ served' = [main |-> active, rules |-> "mixed"]
  /\ upset' = FALSE
  /\ UNCHANGED <<files, syncing, task, accepted, events>>

\* An operator may edit the file of overrides and restart, as the page says.
EditOverrides(text) ==
  /\ Event
  /\ overrides' = text
  /\ upset' = TRUE
  /\ UNCHANGED <<active, extra, served, syncing, task, up, accepted>>

Exit ==
  /\ up
  /\ Event
  /\ up' = FALSE
  /\ served' = None
  /\ syncing' = FALSE
  /\ task' = [t \in Tasks |-> Idle]
  /\ UNCHANGED <<files, accepted, upset>>

-----------------------------------------------------------------------------
(* The specification.                                                      *)

\* The files are what an earlier process and its operator have left.
StoreInit ==
  /\ active \in Extras
  /\ overrides \in Texts \union {"empty"}
  /\ extra \in Extras
  /\ accepted = {active, extra} \ {None}
  /\ served = None
  /\ syncing = FALSE
  /\ task = [t \in Tasks |-> Idle]
  /\ up = FALSE
  /\ upset = FALSE
  /\ events = 0

Continue(t) ==
  \/ SyncFrom_Download(t)
  \/ Normalize(t)
  \/ Rename(t)
  \/ Rename_Fails(t)
  \/ WriteFile_Truncate(t)
  \/ WriteFile_Write(t)
  \/ WriteFile_Fails(t)
  \/ Reload_Load(t)
  \/ Reload_applyOverrides(t)
  \/ SetGlobal(t)
  \/ finish(t)

StoreNext ==
  \/ \E t \in Tasks : Continue(t)
  \/ \E t \in Tasks : SyncFrom(t)
  \/ \E t \in Tasks, d \in Data : ImportUpload(t, d)
  \/ \E t \in Tasks, text \in Texts : prefixDBSaveOverride(t, text)
  \/ \E text \in Texts : EditOverrides(text)
  \/ loadPrefixDB
  \/ loadPrefixDB_Mixed
  \/ Exit

StoreSpec == StoreInit /\ [][StoreNext]_storeVars

\* A goroutine that has begun goes on, and a download ends one way or the other.
FairStoreSpec == StoreSpec /\ \A t \in Tasks : WF_storeVars(Continue(t))

-----------------------------------------------------------------------------
(* Properties.                                                             *)

StoreTypeOK ==
  /\ active \in Parsable \union {None}
  /\ overrides \in Rules
  /\ extra \in Extras
  /\ served \in Databases \union {None}
  /\ syncing \in BOOLEAN /\ up \in BOOLEAN
  /\ task \in [Tasks -> TaskRecords]
  /\ accepted \subseteq Usable
  /\ upset \in BOOLEAN
  /\ events \in 0..MaxEvents

\* The flag is up exactly while a sync is at work, and there is never more than
\* one: through every error exit, and after any end of the process.
OneSyncAtATime ==
  LET syncs == { t \in Tasks : task[t].pc # "idle" /\ task[t].kind = "sync" } IN
  Cardinality(syncs) = IF syncing THEN 1 ELSE 0

\* What is served is what the disk holds whenever nobody is at work, so that a
\* restart changes nothing.  Since the start no file may have changed under a
\* reload, no reload may have failed, no write of the overrides may have failed,
\* and nobody may have edited them by hand.
DiskAndMemoryAgree ==
  up /\ ~upset /\ (\A t \in Tasks : At(t, "idle")) =>
    served = CASE active # None -> [main |-> active, rules |-> overrides]
               [] active = None /\ extra # None -> [main |-> extra, rules |-> "empty"]
               [] OTHER -> None

Catalog == INSTANCE PrefixCatalog WITH
  Libraries <- Usable,
  NoLibrary <- None,
  running   <- up,
  library   <- IF served = None THEN None ELSE served.main

\* Readers are served whole accepted libraries, old until new, and never none
\* after one, whatever imports, saves, failures and ends of the process do.
StoreImplementsCatalog == Catalog!CatalogSpec

\* The page says that a sync goes on in the background, and offers a new one
\* only after it: every sync comes to an end.
SyncEnds == syncing ~> ~syncing

\* What the upload form says: where parsing fails, the library in place is not
\* replaced.  Load is a second parser, and it runs after the rename.
ParseFailureKeepsLibrary ==
  \A t \in Tasks :
    task[t].error = "data" /\ task[t].kind # "save" => active # task[t].file

=============================================================================
