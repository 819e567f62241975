------------------------------ MODULE Manifest ------------------------------
(***************************************************************************)
(* How files come to life: SstableBuilder publishes an SSTable, then       *)
(* Manifest::applyEdit() publishes a MANIFEST that names it.  Both write a *)
(* temporary file, fsync it, rename it and fsync the directory, which they *)
(* share.  Any step may fail, the process may be killed at any step, and a *)
(* power loss may take the bytes no fsync covers and the renames no        *)
(* directory fsync covers.                                                 *)
(*                                                                         *)
(* A file MANIFEST or MANIFEST.tmp stands for what load() would make of    *)
(* its bytes; an absent MANIFEST is loaded as an empty one.  The caller    *)
(* holds manifest_mutex_; after an exception it may go on or give up.      *)
(***************************************************************************)
EXTENDS Integers

CONSTANTS
    Files,          \* SSTable paths; their order is that of sortMetadata()
    Checkpoints,    \* the checkpoints an edit may carry
    MaxFailures,    \* bound on the number of failing system calls
    MaxCrashes      \* bound on the number of kills and power losses

ASSUME ManifestAssumption ==
    /\ Files \subseteq Nat \ {0}
    /\ Checkpoints \subseteq Nat
    /\ MaxFailures \in Nat
    /\ MaxCrashes \in Nat

VARIABLES
    at,             \* the next step of the caller, of finish() or of applyEdit()
    view,           \* live_files_ and persisted_through_
    next,           \* next_state and next_checkpoint
    file,           \* the file that MANIFEST names
    tmp,            \* the file that MANIFEST.tmp names
    mayReappear,    \* the files MANIFEST may name after a power loss
    building,       \* the SSTable being built, or NoFile
    named,          \* the SSTables that have their final name
    namesDurable,   \* those whose name survives a power loss
    dataDurable,    \* the SSTables whose bytes are complete and fsynced
    reclaimed,      \* history: the highest checkpoint applyEdit() returned with
    failures, crashes

manifestVars == <<view, next, file, tmp, mayReappear>>
tableVars == <<building, named, namesDurable, dataDurable>>
vars == <<at, manifestVars, tableVars, reclaimed, failures, crashes>>

NoFile == 0
NoCheckpoint == -1
EmptyManifest == [files |-> {}, checkpoint |-> NoCheckpoint]

\* load() throws on it: a header, checkpoint or record that is not complete.
Malformed == [files |-> {}, checkpoint |-> -2]

Inode(loads, synced) == [loads |-> loads, synced |-> synced]

NoTemporary == Inode(Malformed, FALSE)

\* What the first part of a MANIFEST may load as: nothing, fewer records, or no
\* record and the first digits of the checkpoint.
Truncated(m) ==
    {Malformed, m}
        \cup {[m EXCEPT !.files = {g \in @ : g < f}] : f \in m.files}
        \cup {[files |-> {}, checkpoint |-> c] :
                 c \in {m.checkpoint \div 10} \cap (Nat \ {0})}

AfterPowerLoss(inode) ==
    IF inode.synced THEN {inode.loads} ELSE Truncated(inode.loads)

AtLeast(m, n) == IF m < n THEN n ELSE m

Fails ==
    /\ failures < MaxFailures
    /\ failures' = failures + 1

-----------------------------------------------------------------------------
(* SstableBuilder *)

\* The constructor, add() and finish() up to the fsync: every byte is written
\* to the .tmp file.  allocateSstablePath() never picks a name that exists.
BuildTable(f) ==
    /\ at = "idle"
    /\ f \notin named
    /\ building' = f
    /\ dataDurable' = dataDurable \ {f}
    /\ at' = "syncTable"
    /\ UNCHANGED <<manifestVars, named, namesDurable, reclaimed, failures, crashes>>

\* Mutation: the table is renamed without an fsync.
SkipTableSync ==
    /\ at = "syncTable"
    /\ at' = "renameTable"
    /\ UNCHANGED <<manifestVars, tableVars, reclaimed, failures, crashes>>

SyncTable ==
    /\ at = "syncTable"
    /\ dataDurable' = dataDurable \cup {building}
    /\ at' = "renameTable"
    /\ UNCHANGED <<manifestVars, building, named, namesDurable, reclaimed,
                   failures, crashes>>

RenameTable ==
    /\ at = "renameTable"
    /\ named' = named \cup {building}
    /\ at' = "syncTableName"
    /\ UNCHANGED <<manifestVars, building, namesDurable, dataDurable, reclaimed,
                   failures, crashes>>

\* fsync of the directory: it settles every rename in it.
DirectorySynced ==
    /\ namesDurable' = named
    /\ mayReappear' = {file}

\* finish() returns.
SyncTableName ==
    /\ at = "syncTableName"
    /\ DirectorySynced
    /\ at' = "edit"
    /\ UNCHANGED <<view, next, file, tmp, building, named, dataDurable,
                   reclaimed, failures, crashes>>

\* A system call of the builder fails; whatever exists stays behind.
FailTable ==
    /\ at \in {"syncTable", "renameTable", "syncTableName"}
    /\ Fails
    /\ building' = NoFile
    /\ at' = "idle"
    /\ UNCHANGED <<manifestVars, named, namesDurable, dataDurable, reclaimed,
                   crashes>>

-----------------------------------------------------------------------------
(* Manifest::applyEdit() and persistSnapshot() *)

Added == {building} \ {NoFile}

Edited(remove, checkpoint) ==
    [files |-> (view.files \ remove) \cup Added,
     checkpoint |-> IF checkpoint = NoCheckpoint THEN view.checkpoint
                    ELSE checkpoint]

\* Mutation: a checkpoint may move backwards.
EditKeepsFiles(remove, checkpoint) ==
    /\ remove \subseteq view.files
    /\ Added \cap (view.files \ remove) = {}

\* Unknown files cannot be removed, live files cannot be added again, and the
\* checkpoint does not move backwards.
EditIsValid(remove, checkpoint) ==
    /\ remove \subseteq view.files
    /\ Added \cap (view.files \ remove) = {}
    /\ view.checkpoint <= Edited(remove, checkpoint).checkpoint

\* An edit that adds the table just built, or one that adds nothing.
MayEdit == at \in {"idle", "edit"}

ComputeEdit(remove, checkpoint) ==
    /\ MayEdit
    /\ EditIsValid(remove, checkpoint)
    /\ next' = Edited(remove, checkpoint)
    /\ at' = "write"
    /\ UNCHANGED <<view, file, tmp, mayReappear, tableVars, reclaimed, failures,
                   crashes>>

\* applyEdit() throws before it has touched anything.
RejectEdit(remove, checkpoint) ==
    /\ MayEdit
    /\ ~EditIsValid(remove, checkpoint)
    /\ building' = NoFile
    /\ at' = "idle"
    /\ UNCHANGED <<manifestVars, named, namesDurable, dataDurable, reclaimed,
                   failures, crashes>>

\* MANIFEST.tmp is truncated, written, flushed and closed.
WriteTemporary ==
    /\ at = "write"
    /\ tmp' = Inode(next, FALSE)
    /\ at' = "sync"
    /\ UNCHANGED <<view, next, file, mayReappear, tableVars, reclaimed, failures,
                   crashes>>

\* Mutation: the rename does not wait for the bytes.
SkipTemporarySync ==
    /\ at = "sync"
    /\ at' = "rename"
    /\ UNCHANGED <<manifestVars, tableVars, reclaimed, failures, crashes>>

SyncTemporary ==
    /\ at = "sync"
    /\ tmp' = [tmp EXCEPT !.synced = TRUE]
    /\ at' = "rename"
    /\ UNCHANGED <<view, next, file, mayReappear, tableVars, reclaimed, failures,
                   crashes>>

RenameTemporary ==
    /\ at = "rename"
    /\ file' = tmp
    /\ tmp' = NoTemporary
    /\ mayReappear' = mayReappear \cup {tmp}
    /\ at' = "syncDirectory"
    /\ UNCHANGED <<view, next, tableVars, reclaimed, failures, crashes>>

\* Mutation: persistSnapshot() returns without the directory fsync.
SkipDirectorySync ==
    /\ at = "syncDirectory"
    /\ at' = "publish"
    /\ UNCHANGED <<manifestVars, tableVars, reclaimed, failures, crashes>>

SyncDirectory ==
    /\ at = "syncDirectory"
    /\ DirectorySynced
    /\ at' = "publish"
    /\ UNCHANGED <<view, next, file, tmp, building, named, dataDurable,
                   reclaimed, failures, crashes>>

\* The in-memory view follows and applyEdit() returns: from now on the engine
\* drops the records of the WAL up to the checkpoint.
Publish ==
    /\ at = "publish"
    /\ view' = next
    /\ next' = EmptyManifest
    /\ reclaimed' = AtLeast(reclaimed, next.checkpoint)
    /\ building' = NoFile
    /\ at' = "idle"
    /\ UNCHANGED <<file, tmp, mayReappear, named, namesDurable,
                   dataDurable, failures, crashes>>

\* A system call fails and persistSnapshot() throws.  A rename that failed
\* removes the temporary file; a rename that succeeded is not taken back.
FailEdit ==
    /\ at \in {"write", "sync", "rename", "syncDirectory"}
    /\ Fails
    /\ tmp' = CASE at = "write" -> Inode(Malformed, FALSE)
                [] at = "rename" -> NoTemporary
                [] OTHER -> tmp
    /\ next' = EmptyManifest
    /\ building' = NoFile
    /\ at' = "idle"
    /\ UNCHANGED <<view, file, mayReappear, named, namesDurable,
                   dataDurable, reclaimed, crashes>>

-----------------------------------------------------------------------------
(* Opening and the end of the process *)

\* The constructor removes MANIFEST.tmp and loads MANIFEST; the engine then
\* looks for the files it names.
Open ==
    LET loadable == file.loads # Malformed /\ file.loads.files \subseteq named
    IN  /\ at = "down"
        /\ tmp' = NoTemporary
        /\ view' = IF loadable THEN file.loads ELSE view
        /\ at' = IF loadable THEN "idle" ELSE "refused"
        /\ UNCHANGED <<next, file, mayReappear, tableVars, reclaimed, failures,
                       crashes>>

MemoryLost ==
    /\ at' = "down"
    /\ view' = EmptyManifest
    /\ next' = EmptyManifest
    /\ building' = NoFile
    /\ UNCHANGED <<dataDurable, reclaimed, failures>>

Running == at \notin {"down", "refused"}

Close ==
    /\ at = "idle"
    /\ MemoryLost
    /\ UNCHANGED <<file, tmp, mayReappear, named, namesDurable, crashes>>

\* A kill takes nothing from the files.  MANIFEST.tmp may be half written.
Kill ==
    /\ Running
    /\ crashes < MaxCrashes
    /\ crashes' = crashes + 1
    /\ MemoryLost
    /\ tmp' = IF at = "write" THEN Inode(Malformed, FALSE) ELSE tmp
    /\ UNCHANGED <<file, mayReappear, named, namesDurable>>

LosePower ==
    /\ crashes < MaxCrashes
    /\ crashes' = crashes + 1
    /\ MemoryLost
    /\ \E inode \in mayReappear :
          \E loads \in AfterPowerLoss(inode) : file' = Inode(loads, TRUE)
    /\ mayReappear' = {file'}
    /\ tmp' = NoTemporary
    /\ \E lost \in SUBSET (named \ namesDurable) : named' = named \ lost
    /\ namesDurable' = named'

-----------------------------------------------------------------------------
Init ==
    /\ at = "down"
    /\ view = EmptyManifest
    /\ next = EmptyManifest
    /\ file = Inode(EmptyManifest, TRUE)
    /\ tmp = NoTemporary
    /\ mayReappear = {file}
    /\ building = NoFile
    /\ named = {}
    /\ namesDurable = {}
    /\ dataDurable = {}
    /\ reclaimed = NoCheckpoint
    /\ failures = 0
    /\ crashes = 0

Next ==
    \/ \E f \in Files : BuildTable(f)
    \/ SyncTable
    \/ RenameTable
    \/ SyncTableName
    \/ FailTable
    \/ \E remove \in SUBSET Files, checkpoint \in Checkpoints \cup {NoCheckpoint} :
          \/ ComputeEdit(remove, checkpoint)
          \/ RejectEdit(remove, checkpoint)
    \/ WriteTemporary
    \/ SyncTemporary
    \/ RenameTemporary
    \/ SyncDirectory
    \/ Publish
    \/ FailEdit
    \/ Open
    \/ Close
    \/ Kill
    \/ LosePower

Spec == Init /\ [][Next]_vars
-----------------------------------------------------------------------------
(* Properties *)

Manifests == [files : SUBSET Files,
              checkpoint : Checkpoints \cup {NoCheckpoint}]

\* Every variable holds what its C++ counterpart can hold; a file that MANIFEST
\* names, or may name after a power loss, is a whole snapshot on the disk.
TypeOK ==
    /\ at \in {"down", "refused", "idle", "syncTable", "renameTable",
               "syncTableName", "edit", "write", "sync", "rename",
               "syncDirectory", "publish"}
    /\ view \in Manifests
    /\ next \in Manifests
    /\ mayReappear \subseteq [loads : Manifests, synced : {TRUE}]
    /\ file \in mayReappear
    /\ tmp \in [loads : Manifests \cup {Malformed}, synced : BOOLEAN]
    /\ building \in Files \cup {NoFile}
    /\ named \subseteq Files
    /\ namesDurable \subseteq named
    /\ dataDurable \subseteq Files
    /\ reclaimed \in Checkpoints \cup {NoCheckpoint}
    /\ failures \in 0 .. MaxFailures
    /\ crashes \in 0 .. MaxCrashes

\* "Complete the SSTable before MANIFEST is allowed to reference it"
\* (engine.cpp:519-524): whatever a kill or a power loss makes of MANIFEST, it
\* names only SSTables whose bytes and whose names survive a power loss too.
NamedTablesAreDurable ==
    \A inode \in mayReappear \cup {file} :
        inode.loads.files \subseteq dataDurable \cap namesDurable

\* The WAL is let go only behind a checkpoint that no stop can take back, not
\* even after edits that failed half-way, kills and restarts (applyEdit() before
\* reclaimThrough(), engine.cpp:553-599, and manifest.cpp:605-620).
CheckpointsAreNotUndone ==
    \A inode \in mayReappear \cup {file} :
        inode.loads # Malformed /\ reclaimed <= inode.loads.checkpoint

Abstract == INSTANCE ManifestStore WITH
    open <- Running,
    disk <- file.loads,
    possible <- {inode.loads : inode \in mayReappear}

\* Replacing the MANIFEST is atomic, in doubt between the rename and the
\* directory fsync and at no other time, and believed only afterwards.
ImplementsManifestStore == Abstract!Spec
=============================================================================
