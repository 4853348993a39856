---------------------------- MODULE FirmwareStore ----------------------------
(***************************************************************************)
(* The private firmware store: how hplj1020 --import-firmware puts an      *)
(* image and its metadata in place as one generation (src/firmware_store.c *)
(* behind src/firmware.c), and how the service loads the pair meanwhile    *)
(* (hplj_load_firmware of src/pappl_runtime.c).                            *)
(*                                                                         *)
(* Abstraction: an allow-listed image stands for its bytes and for the     *)
(* metadata that go with it (source, version, SHA-256), so a digest        *)
(* matches when contents and metadata are of the same image. A generation  *)
(* is a directory with the two files; a staging directory has a name of    *)
(* its own and nobody else looks into it.                                  *)
(*                                                                         *)
(* The file system (outside the repository) keeps the order of changes to  *)
(* directories; a power loss undoes those since the last fsync of the      *)
(* parent, all or the last ones, and may tear a file that was never synced.*)
(* The import may be killed between any two steps. Two imports at a time   *)
(* are possible, as nothing locks the store.                               *)
(***************************************************************************)
EXTENDS Naturals, FiniteSets

CONSTANTS
  Images,       \* the allow-listed firmware images
  Importers,    \* processes that import
  ImportLimit,  \* bound: imports that begin
  None          \* no file, no directory, nothing loaded

\* a file; and the directory that holds the two of an import
Files       == Images \union {None, "torn"}
Generations == [contents: Files, metadata: Files,
                synced: SUBSET {"contents", "metadata"}]

ASSUME StoreAssumption ==
  /\ None \notin Images /\ "torn" \notin Images /\ None # "torn"
  /\ None \notin Generations
  /\ ImportLimit \in Nat

VARIABLES
  \* what the name "active" designates, and what it may designate after a
  \* power loss
  active, recent,
  \* each import: its next step, image and staging directory, and how its
  \* generation became the active one (active_created, active_swapped)
  at, image, staging, placed,
  begun,
  \* the service: contents read so far, and the loaded pair
  loading, loaded,
  \* (ghost) the images that may be active: what the last commit has put there,
  \* and those of the imports that ran then or have begun since; empty before
  \* the first commit
  kept

store    == <<active, recent>>
imports  == <<at, image, staging, placed>>
service  == <<loading, loaded>>
vars     == <<store, imports, begun, service, kept>>

Empty       == [contents |-> None, metadata |-> None, synced |-> {}]
Steps       == {"idle", "contents", "metadata", "sync", "rename", "commit",
                "undo", "retract", "discard"}

TypeOK ==
  /\ active \in Generations \union {None}
  /\ recent \subseteq Generations \union {None}
  /\ at \in [Importers -> Steps]
  /\ image \in [Importers -> Images \union {None}]
  /\ staging \in [Importers -> Generations \union {None}]
  /\ placed \in [Importers -> {"no", "created", "swapped"}]
  /\ begun \in 0..ImportLimit
  /\ loading \in Files
  /\ loaded \in [contents: Images, version: Images] \union {None}
  /\ kept \subseteq Images

Init ==
  /\ active = None /\ recent = {None}
  /\ at = [i \in Importers |-> "idle"]
  /\ image = [i \in Importers |-> None]
  /\ staging = [i \in Importers |-> None]
  /\ placed = [i \in Importers |-> "no"]
  /\ begun = 0
  /\ loading = None /\ loaded = None
  /\ kept = {}

-----------------------------------------------------------------------------
(* hplj_local_commit *)

Goto(i, step) == at' = [at EXCEPT ![i] = step]

\* The store as it is becomes one of the states a power loss may leave.
Designate(generation) ==
  active' = generation /\ recent' = recent \union {generation}

\* An allow-listed image has been read completely (hplj_firmware_import) and
\* mkdtemp has made the staging directory.
Begin(i, img) ==
  /\ at[i] = "idle" /\ begun < ImportLimit
  /\ begun' = begun + 1
  /\ image' = [image EXCEPT ![i] = img]
  /\ staging' = [staging EXCEPT ![i] = Empty]
  /\ placed' = [placed EXCEPT ![i] = "no"]
  /\ Goto(i, "contents")
  /\ kept' = IF kept = {} THEN {} ELSE kept \union {img}
  /\ UNCHANGED <<store, service>>

\* Mutant: fsync is left out.
WrittenUnsynced(i, file) == [staging[i] EXCEPT ![file] = image[i]]

\* hplj_write_private: open, write, fsync
Written(i, file) ==
  [staging[i] EXCEPT ![file] = image[i], !.synced = @ \union {file}]

Write(i, file, next) ==
  /\ at[i] = file
  /\ \/ staging' = [staging EXCEPT ![i] = Written(i, file)] /\ Goto(i, next)
     \/ Goto(i, "discard") /\ UNCHANGED staging
  /\ UNCHANGED <<store, image, placed, begun, service, kept>>

SyncStaging(i) ==
  /\ at[i] = "sync"
  /\ \E step \in {"rename", "discard"} : Goto(i, step)
  /\ UNCHANGED <<store, image, staging, placed, begun, service, kept>>

\* rename into place, or swap with the generation that is there
Rename(i) ==
  /\ at[i] = "rename"
  /\ \/ /\ Designate(staging[i])
        /\ staging' = [staging EXCEPT ![i] = active]
        /\ placed' = [placed EXCEPT
                        ![i] = IF active = None THEN "created" ELSE "swapped"]
        /\ Goto(i, "commit")
     \/ Goto(i, "discard") /\ UNCHANGED <<store, staging, placed>>
  /\ UNCHANGED <<image, begun, service, kept>>

\* hplj_sync_directory of the store decides about the import; afterwards the
\* earlier generation, if there was one, is removed.
Commit(i) ==
  /\ at[i] = "commit"
  /\ \/ /\ recent' = {active}
        /\ kept' = {img \in Images :
                      \/ active # None /\ active.contents = img
                      \/ \E j \in Importers : at[j] # "idle" /\ image[j] = img}
        /\ Goto(i, IF placed[i] = "swapped" THEN "discard" ELSE "idle")
     \/ /\ Goto(i, IF placed[i] = "swapped" THEN "undo" ELSE "retract")
        /\ UNCHANGED <<recent, kept>>
  /\ UNCHANGED <<active, image, staging, placed, begun, service>>

\* The sync has failed: the earlier generation goes back, if it can.
Undo(i) ==
  /\ at[i] = "undo"
  /\ \/ /\ active # None /\ staging[i] # None
        /\ Designate(staging[i])
        /\ staging' = [staging EXCEPT ![i] = active]
        /\ Goto(i, "discard")
     \/ Goto(i, "idle") /\ UNCHANGED <<store, staging>>
  /\ UNCHANGED <<image, placed, begun, service, kept>>

\* hplj_remove_generation of the active generation, file by file
Retract(i) ==
  /\ at[i] = "retract"
  /\ \/ /\ active # None /\ active.contents # None
        /\ Designate([active EXCEPT !.contents = None]) /\ UNCHANGED at
     \/ /\ active # None /\ active.contents = None /\ active.metadata # None
        /\ Designate([active EXCEPT !.metadata = None]) /\ UNCHANGED at
     \/ /\ active # None /\ active.contents = None /\ active.metadata = None
        /\ Designate(None) /\ Goto(i, "idle")
     \/ Goto(i, "idle") /\ UNCHANGED store
  /\ UNCHANGED <<image, staging, placed, begun, service, kept>>

\* hplj_remove_generation of a staging directory, best effort
Discard(i) ==
  /\ at[i] = "discard" /\ Goto(i, "idle")
  /\ staging' = [staging EXCEPT ![i] = None]
  /\ UNCHANGED <<store, image, placed, begun, service, kept>>

Kill(i) ==
  /\ at[i] # "idle" /\ Goto(i, "idle")
  /\ UNCHANGED <<store, image, staging, placed, begun, service, kept>>

-----------------------------------------------------------------------------
(* hplj_load_firmware, called again and again until it succeeds *)

\* Mutant: the contents of a failed attempt are kept for the next one.
ForgetLate == loading' = loading

\* free, and NULL again
Forget == loading' = None

ReadContents ==
  /\ loaded = None /\ loading = None
  /\ active # None /\ active.contents # None
  /\ loading' = active.contents
  /\ UNCHANGED <<store, imports, begun, loaded, kept>>

\* The metadata are complete and name the digest of the contents.
Matching == active # None /\ loading \in Images /\ active.metadata = loading

ReadMetadata ==
  /\ loading # None
  /\ \/ /\ Matching
        /\ loaded' = [contents |-> loading, version |-> active.metadata]
        /\ loading' = None
     \/ ~Matching /\ Forget /\ UNCHANGED loaded
  /\ UNCHANGED <<store, imports, begun, kept>>

ReadFails ==
  /\ loading # None /\ Forget
  /\ UNCHANGED <<store, imports, begun, loaded, kept>>

ServiceRestarts ==
  /\ loading' = None /\ loaded' = None
  /\ UNCHANGED <<store, imports, begun, kept>>

\* A file that was written and not synced may be torn.
Survives(generation, found) ==
  IF generation = None THEN found = None
  ELSE /\ found \in Generations
       /\ found.synced = {"contents", "metadata"}
       /\ \A file \in {"contents", "metadata"} :
            \/ found[file] = generation[file]
            \/ file \notin generation.synced /\ found[file] = "torn"

PowerLoss ==
  /\ \E generation \in recent, found \in Generations \union {None} :
       /\ Survives(generation, found)
       /\ active' = found /\ recent' = {found}
  /\ at' = [i \in Importers |-> "idle"]
  /\ loading' = None /\ loaded' = None
  /\ UNCHANGED <<image, staging, placed, begun, kept>>

-----------------------------------------------------------------------------
Import(i) ==
  \/ \E img \in Images : Begin(i, img)
  \/ Write(i, "contents", "metadata") \/ Write(i, "metadata", "sync")
  \/ SyncStaging(i) \/ Rename(i) \/ Commit(i) \/ Undo(i) \/ Retract(i)
  \/ Discard(i) \/ Kill(i)

Next ==
  \/ \E i \in Importers : Import(i)
  \/ ReadContents \/ ReadMetadata \/ ReadFails \/ ServiceRestarts
  \/ PowerLoss

Spec == Init /\ [][Next]_vars

\* Preparation calls hplj_load_firmware every second while nothing is loaded;
\* a read that fails now and again does not fail for ever.
FairSpec == Spec /\ SF_vars(ReadContents) /\ SF_vars(ReadMetadata)

-----------------------------------------------------------------------------
(* Properties *)

Whole(generation) ==
  /\ generation # None
  /\ generation.contents \in Images
  /\ generation.metadata = generation.contents
  /\ generation.synced = {"contents", "metadata"}

\* "prior valid firmware until commit": once an import has committed, the
\* active generation is always whole, and so is every one a power loss may bring
\* back: that import's image, or one of an import that was not over by then. And the
\* service never bootstraps from a mixture of two generations, whenever its two
\* reads take place.
FirmwareIsKept ==
  /\ kept # {} => \A generation \in recent \union {active} :
                    Whole(generation) /\ generation.contents \in kept
  /\ loaded # None => loaded.contents = loaded.version

\* Once an import has committed, the service finds the firmware without
\* being restarted, whatever imports, kills, power losses and failing reads
\* come in between (FW-005: firmware-required is left by the import).
ImportIsSeen == kept # {} ~> loaded # None
=============================================================================
