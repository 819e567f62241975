--------------------------- MODULE Manifest_proofs ---------------------------
(***************************************************************************)
(* Proofs about Manifest for any SSTables, checkpoints and bounds: its     *)
(* type invariant, the two invariants the runs check, and that it          *)
(* implements ManifestStore.                                               *)
(***************************************************************************)
EXTENDS Manifest, TLAPS

\* SSTables that a power loss cannot touch.
Safe == dataDurable \cap namesDurable

\* What the builder has reached with the table it is building.
TableInv ==
    /\ at \in {"down", "idle"} => building = NoFile
    /\ at = "syncTable" => building \in Files /\ building \notin named
    /\ at = "renameTable" => building \in dataDurable /\ building \notin named
    /\ at = "syncTableName" => building \in dataDurable \cap named
    /\ at = "edit" => building \in Safe

\* The views of the process only name safe tables and know of every
\* reclamation.
ViewInv ==
    /\ view.files \subseteq Safe
    /\ Running => reclaimed <= view.checkpoint

Editing == at \in {"write", "sync", "rename", "syncDirectory", "publish"}

EditInv ==
    Editing =>
        /\ next.files \subseteq Safe
        /\ view.checkpoint <= next.checkpoint

\* How far the edit has come on its way to the disk.
FileInv ==
    /\ at \in {"sync", "rename"} => tmp.loads = next
    /\ at = "rename" => tmp.synced = TRUE
    /\ at \in {"syncDirectory", "publish"} => file.loads = next
    /\ at = "publish" => mayReappear = {file}

DiskInv ==
    \A inode \in mayReappear :
        /\ inode.loads.files \subseteq Safe
        /\ reclaimed <= inode.loads.checkpoint

IInv == TypeOK /\ TableInv /\ ViewInv /\ EditInv /\ FileInv /\ DiskInv

USE DEF NoFile, NoCheckpoint, EmptyManifest, Malformed, NoTemporary, Inode,
        manifestVars, tableVars

LEMMA InitIInv == Init => IInv
  BY ManifestAssumption DEF Init, IInv, TypeOK, TableInv, ViewInv, EditInv,
     FileInv, DiskInv, Manifests, Running, Editing, Safe

\* Checkpoints can be compared, and load() never throws.
LEMMA CheckpointTypes ==
  ASSUME TypeOK
  PROVE  /\ reclaimed \in Int
         /\ view.checkpoint \in Int
         /\ next.checkpoint \in Int
         /\ \A inode \in mayReappear :
               /\ inode.loads.checkpoint \in Int
               /\ inode.loads # Malformed
  <1>1. \A c \in Checkpoints \cup {NoCheckpoint} : c \in Int /\ c # -2
    BY ManifestAssumption
  <1>2. \A m \in Manifests : m.checkpoint \in Checkpoints \cup {NoCheckpoint}
    BY DEF Manifests
  <1>3. \A inode \in mayReappear : inode.loads \in Manifests
    BY DEF TypeOK
  <1>4. \A m \in Manifests : m # Malformed
    BY <1>1, <1>2
  <1>5. view \in Manifests /\ next \in Manifests
        /\ reclaimed \in Checkpoints \cup {NoCheckpoint}
    BY DEF TypeOK
  <1>6. QED
    BY <1>1, <1>2, <1>3, <1>4, <1>5

LEMMA EmptyTypes ==
  /\ EmptyManifest \in Manifests
  /\ NoTemporary \in [loads : Manifests \cup {Malformed}, synced : BOOLEAN]
  BY DEF Manifests

LEMMA TableSteps ==
  ASSUME IInv,
         \/ \E f \in Files : BuildTable(f)
         \/ SyncTable
         \/ RenameTable
         \/ SyncTableName
         \/ FailTable
  PROVE  IInv'
  <1> USE ManifestAssumption DEF IInv, TypeOK, TableInv, ViewInv, EditInv,
          FileInv, DiskInv, Manifests, Running, Editing, Safe
  <1>1. ASSUME NEW f \in Files, BuildTable(f) PROVE IInv'
    BY <1>1 DEF BuildTable
  <1>2. CASE SyncTable
    BY <1>2 DEF SyncTable
  <1>3. CASE RenameTable
    BY <1>3 DEF RenameTable
  <1>4. CASE SyncTableName
    BY <1>4 DEF SyncTableName, DirectorySynced
  <1>5. CASE FailTable
    <2>1. /\ failures' \in 0 .. MaxFailures
          /\ at' = "idle"
          /\ building' = NoFile
          /\ at \notin {"down", "refused"}
          /\ UNCHANGED <<view, next, file, tmp, mayReappear, named, namesDurable,
                         dataDurable, reclaimed, crashes>>
      BY <1>5 DEF FailTable, Fails
    <2>2. QED
      BY <2>1
  <1>6. QED
    BY <1>1, <1>2, <1>3, <1>4, <1>5

LEMMA EditSteps ==
  ASSUME IInv,
         \/ \E remove \in SUBSET Files,
               checkpoint \in Checkpoints \cup {NoCheckpoint} :
               \/ ComputeEdit(remove, checkpoint)
               \/ RejectEdit(remove, checkpoint)
         \/ WriteTemporary
         \/ SyncTemporary
         \/ RenameTemporary
         \/ SyncDirectory
         \/ Publish
         \/ FailEdit
  PROVE  IInv'
  <1> USE ManifestAssumption DEF IInv, TypeOK, TableInv, ViewInv, EditInv,
          FileInv, DiskInv, Manifests, Running, Editing, Safe
  <1>1. ASSUME NEW remove \in SUBSET Files,
               NEW checkpoint \in Checkpoints \cup {NoCheckpoint},
               ComputeEdit(remove, checkpoint)
        PROVE  IInv'
    BY <1>1 DEF ComputeEdit, MayEdit, EditIsValid, Edited, Added
  <1>2. ASSUME NEW remove \in SUBSET Files,
               NEW checkpoint \in Checkpoints \cup {NoCheckpoint},
               RejectEdit(remove, checkpoint)
        PROVE  IInv'
    BY <1>2 DEF RejectEdit, MayEdit
  <1>3. CASE WriteTemporary
    BY <1>3 DEF WriteTemporary
  <1>4. CASE SyncTemporary
    BY <1>4 DEF SyncTemporary
  <1>5. CASE RenameTemporary
    <2>1. /\ at = "rename" /\ at' = "syncDirectory"
          /\ file' = tmp
          /\ tmp' = NoTemporary
          /\ mayReappear' = mayReappear \cup {tmp}
          /\ UNCHANGED <<view, next, building, named, namesDurable, dataDurable,
                         reclaimed, failures, crashes>>
      BY <1>5 DEF RenameTemporary
    <2>2. tmp.loads = next /\ tmp.synced = TRUE
      BY <2>1
    <2>3. tmp \in [loads : Manifests, synced : {TRUE}]
      BY <2>2
    <2>4. TypeOK'
      BY <2>1, <2>3
    <2>5. TableInv' /\ ViewInv' /\ EditInv' /\ FileInv'
      BY <2>1, <2>2
    <2>6. tmp.loads.files \subseteq Safe /\ reclaimed <= tmp.loads.checkpoint
      <3>1. /\ next.files \subseteq Safe
            /\ reclaimed <= view.checkpoint
            /\ view.checkpoint <= next.checkpoint
        BY <2>1
      <3>2. reclaimed \in Int /\ view.checkpoint \in Int /\ next.checkpoint \in Int
        BY CheckpointTypes
      <3>3. QED
        BY ONLY <2>2, <3>1, <3>2
    <2>7. DiskInv'
      BY <2>1, <2>6
    <2>8. QED
      BY <2>4, <2>5, <2>7
  <1>6. CASE SyncDirectory
    BY <1>6 DEF SyncDirectory, DirectorySynced
  <1>7. CASE Publish
    <2>1. /\ at = "publish" /\ at' = "idle"
          /\ view' = next
          /\ next' = EmptyManifest
          /\ building' = NoFile
          /\ UNCHANGED <<file, tmp, mayReappear, named, namesDurable, dataDurable,
                         failures, crashes>>
      BY <1>7 DEF Publish
    <2>2. reclaimed' = next.checkpoint
      <3>1. reclaimed <= view.checkpoint /\ view.checkpoint <= next.checkpoint
        BY <2>1
      <3>2. reclaimed' = IF reclaimed < next.checkpoint THEN next.checkpoint
                         ELSE reclaimed
        BY <1>7 DEF Publish, AtLeast
      <3>3. reclaimed \in Int /\ view.checkpoint \in Int /\ next.checkpoint \in Int
        BY CheckpointTypes
      <3>4. QED
        BY ONLY <3>1, <3>2, <3>3
    <2>3. file.loads = next /\ mayReappear = {file}
      BY <2>1
    <2>4. TypeOK'
      BY <2>1, <2>2
    <2>5. TableInv' /\ ViewInv' /\ EditInv' /\ FileInv'
      BY <2>1, <2>2
    <2>6. DiskInv'
      BY <2>1, <2>2, <2>3
    <2>7. QED
      BY <2>4, <2>5, <2>6
  <1>8. CASE FailEdit
    <2>1. /\ at' = "idle"
          /\ building' = NoFile
          /\ next' = EmptyManifest
          /\ at \notin {"down", "refused"}
          /\ UNCHANGED <<view, file, mayReappear, named, namesDurable, dataDurable,
                         reclaimed, crashes>>
      BY <1>8 DEF FailEdit
    <2>2. failures' \in 0 .. MaxFailures
      BY <1>8 DEF FailEdit, Fails
    <2>3. tmp' \in {tmp, NoTemporary}
      BY <1>8, Zenon DEF FailEdit
    <2>4. tmp' \in [loads : Manifests \cup {Malformed}, synced : BOOLEAN]
      <3>1. tmp \in [loads : Manifests \cup {Malformed}, synced : BOOLEAN]
        OBVIOUS
      <3>2. QED
        BY ONLY <2>3, <3>1, EmptyTypes
    <2>5. next' \in Manifests
      BY <2>1, EmptyTypes
    <2>6. TypeOK'
      BY <2>1, <2>2, <2>4, <2>5
    <2>7. TableInv' /\ ViewInv' /\ EditInv' /\ FileInv' /\ DiskInv'
      BY <2>1
    <2>8. QED
      BY <2>6, <2>7
  <1>9. QED
    BY <1>1, <1>2, <1>3, <1>4, <1>5, <1>6, <1>7, <1>8

LEMMA ProcessSteps ==
  ASSUME IInv, Open \/ Close \/ Kill \/ LosePower
  PROVE  IInv'
  <1> USE ManifestAssumption DEF IInv, TypeOK, TableInv, ViewInv, EditInv,
          FileInv, DiskInv, Manifests, Running, Editing, Safe
  <1>1. CASE Open
    <2>1. file.loads # Malformed /\ file.loads.files \subseteq named
      BY CheckpointTypes
    <2>2. /\ at' = "idle"
          /\ at = "down"
          /\ view' = file.loads
          /\ tmp' = NoTemporary
          /\ UNCHANGED <<next, file, mayReappear, building, named, namesDurable,
                         dataDurable, reclaimed, failures, crashes>>
      BY <1>1, <2>1 DEF Open
    <2>3. file.loads.files \subseteq Safe /\ reclaimed <= file.loads.checkpoint
      OBVIOUS
    <2>4. TypeOK'
      BY <2>2, EmptyTypes
    <2>5. ViewInv'
      BY <2>2, <2>3
    <2>6. TableInv' /\ EditInv' /\ FileInv' /\ DiskInv'
      BY <2>2
    <2>7. QED
      BY <2>4, <2>5, <2>6
  <1>2. CASE Close
    BY <1>2 DEF Close, MemoryLost
  <1>3. CASE Kill
    <2>1. /\ at' = "down"
          /\ view' = EmptyManifest
          /\ next' = EmptyManifest
          /\ building' = NoFile
          /\ UNCHANGED <<file, mayReappear, named, namesDurable, dataDurable,
                         reclaimed, failures>>
      BY <1>3 DEF Kill, MemoryLost
    <2>2. crashes' \in 0 .. MaxCrashes /\ tmp' \in {tmp, NoTemporary}
      BY <1>3 DEF Kill
    <2>3. tmp' \in [loads : Manifests \cup {Malformed}, synced : BOOLEAN]
      <3>1. tmp \in [loads : Manifests \cup {Malformed}, synced : BOOLEAN]
        OBVIOUS
      <3>2. QED
        BY ONLY <2>2, <3>1, EmptyTypes
    <2>4. TypeOK'
      BY <2>1, <2>2, <2>3, EmptyTypes
    <2>5. TableInv' /\ ViewInv' /\ EditInv' /\ FileInv' /\ DiskInv'
      BY <2>1
    <2>6. QED
      BY <2>4, <2>5
  <1>4. CASE LosePower
    <2>1. PICK inode \in mayReappear :
             \E loads \in AfterPowerLoss(inode) : file' = Inode(loads, TRUE)
      BY <1>4 DEF LosePower
    \* Only whole snapshots are named: the power loss chooses between them.
    <2>2. file' = inode
      BY <2>1 DEF AfterPowerLoss
    <2>3. /\ mayReappear' = {inode}
          /\ at' = "down"
          /\ view' = EmptyManifest
          /\ next' = EmptyManifest
          /\ tmp' = NoTemporary
          /\ building' = NoFile
          /\ namesDurable' = named'
          /\ UNCHANGED <<dataDurable, reclaimed, failures>>
      BY <1>4, <2>2 DEF LosePower, MemoryLost
    <2>4. namesDurable \subseteq named' /\ named' \subseteq named
      BY <1>4 DEF LosePower
    <2>5. crashes' \in 0 .. MaxCrashes
      BY <1>4 DEF LosePower
    <2>6. TypeOK'
      BY <2>2, <2>3, <2>4, <2>5, EmptyTypes
    <2>7. TableInv' /\ ViewInv' /\ EditInv' /\ FileInv' /\ DiskInv'
      BY <2>2, <2>3, <2>4
    <2>8. QED
      BY <2>6, <2>7
  <1>5. QED
    BY <1>1, <1>2, <1>3, <1>4

THEOREM IInvIsInvariant == Spec => []IInv
  <1>1. Init => IInv
    BY InitIInv
  <1>2. IInv /\ [Next]_vars => IInv'
    <2>1. ASSUME IInv, Next PROVE IInv'
      BY <2>1, TableSteps, EditSteps, ProcessSteps DEF Next
    <2>2. ASSUME IInv, UNCHANGED vars PROVE IInv'
      <3>1. UNCHANGED <<at, view, next, file, tmp, mayReappear, building, named,
                        namesDurable, dataDurable, reclaimed, failures, crashes>>
        BY <2>2 DEF vars
      <3>2. TypeOK'
        BY <2>2, <3>1 DEF IInv, TypeOK
      <3>3. TableInv' /\ ViewInv' /\ EditInv'
        BY <2>2, <3>1 DEF IInv, TableInv, ViewInv, EditInv, Running, Editing, Safe
      <3>4. FileInv' /\ DiskInv'
        BY <2>2, <3>1 DEF IInv, FileInv, DiskInv, Safe
      <3>5. QED
        BY <3>2, <3>3, <3>4 DEF IInv
    <2>3. QED
      BY <2>1, <2>2
  <1>3. QED
    BY <1>1, <1>2, PTL DEF Spec

\* Every variable keeps its type, and every file that MANIFEST names, or may
\* name after a power loss, is a whole snapshot: load() never throws.
THEOREM TypesAreCorrect == Spec => []TypeOK
  <1>1. IInv => TypeOK
    BY DEF IInv
  <1>2. QED
    BY <1>1, IInvIsInvariant, PTL

\* Whatever kills, failures and power losses make of MANIFEST, the SSTables it
\* names are complete and durable (SstableBuilder::finish() before applyEdit()).
THEOREM LiveTablesAreDurable == Spec => []NamedTablesAreDurable
  <1>1. IInv => NamedTablesAreDurable
    BY DEF IInv, TypeOK, DiskInv, NamedTablesAreDurable, Safe
  <1>2. QED
    BY <1>1, IInvIsInvariant, PTL

\* The checkpoint behind which the WAL was reclaimed is never taken back.
THEOREM CheckpointsHold == Spec => []CheckpointsAreNotUndone
  <1>1. IInv => CheckpointsAreNotUndone
    BY CheckpointTypes DEF IInv, TypeOK, DiskInv, CheckpointsAreNotUndone
  <1>2. QED
    BY <1>1, IInvIsInvariant, PTL

-----------------------------------------------------------------------------
(* The refinement *)

LEMMA InitRefines == Init => Abstract!Init
  <1>1. ASSUME Init PROVE Abstract!Init
    <2>1. file.loads = Abstract!EmptyManifest /\ mayReappear = {file}
          /\ view = Abstract!EmptyManifest /\ ~Running
      BY <1>1 DEF Init, Abstract!EmptyManifest, Running
    <2>2. {inode.loads : inode \in mayReappear} = {Abstract!EmptyManifest}
      BY <2>1
    <2>3. QED
      BY <2>1, <2>2 DEF Abstract!Init
  <1>2. QED
    BY <1>1

\* Steps of the builder and of applyEdit() that reach neither the name MANIFEST
\* nor the view of the process.
LEMMA QuietSteps ==
  ASSUME IInv,
         \/ \E f \in Files : BuildTable(f)
         \/ SyncTable
         \/ RenameTable
         \/ FailTable
         \/ \E remove \in SUBSET Files,
               checkpoint \in Checkpoints \cup {NoCheckpoint} :
               \/ ComputeEdit(remove, checkpoint)
               \/ RejectEdit(remove, checkpoint)
         \/ WriteTemporary
         \/ SyncTemporary
         \/ FailEdit
         \/ UNCHANGED vars
  PROVE  UNCHANGED Abstract!vars
  <1>1. UNCHANGED <<view, file, mayReappear>> /\ (Running <=> Running')
    BY DEF BuildTable, SyncTable, RenameTable, FailTable, ComputeEdit, MayEdit,
       RejectEdit, WriteTemporary, SyncTemporary, FailEdit, vars, Running
  <1>2. QED
    BY <1>1 DEF Abstract!vars, Running

LEMMA StepsRefine ==
  ASSUME IInv, Next
  PROVE  [Abstract!Next]_(Abstract!vars)
  <1> USE ManifestAssumption DEF IInv, TypeOK, Manifests, Running
  <1>1. CASE SyncTableName
    <2>1. Abstract!Settle
      BY <1>1 DEF SyncTableName, DirectorySynced, Abstract!Settle
    <2>2. QED
      BY <2>1 DEF Abstract!Next
  <1>2. CASE RenameTemporary
    <2>1. file'.loads = next
      BY <1>2 DEF RenameTemporary, FileInv
    <2>2. Abstract!Replace
      BY <1>2, <2>1 DEF RenameTemporary, EditInv, Editing, Abstract!Replace
    <2>3. QED
      BY <2>2 DEF Abstract!Next
  <1>3. CASE SyncDirectory
    <2>1. Abstract!Settle
      BY <1>3 DEF SyncDirectory, DirectorySynced, Abstract!Settle
    <2>2. QED
      BY <2>1 DEF Abstract!Next
  <1>4. CASE Publish
    <2>1. Abstract!Publish
      BY <1>4 DEF Publish, FileInv, Abstract!Publish
    <2>2. QED
      BY <2>1 DEF Abstract!Next
  <1>5. CASE Open
    <2>1. file.loads # Malformed /\ file.loads.files \subseteq named
      BY CheckpointTypes DEF DiskInv, Safe
    <2>2. Abstract!Load
      BY <1>5, <2>1 DEF Open, Abstract!Load
    <2>3. QED
      BY <2>2 DEF Abstract!Next
  <1>6. CASE Close \/ Kill
    <2>1. Abstract!Stop
      BY <1>6 DEF Close, Kill, MemoryLost, Abstract!Stop, Abstract!EmptyManifest
    <2>2. QED
      BY <2>1 DEF Abstract!Next
  <1>7. CASE LosePower
    <2>1. PICK inode \in mayReappear :
             \E loads \in AfterPowerLoss(inode) : file' = Inode(loads, TRUE)
      BY <1>7 DEF LosePower
    <2>2. file' = inode
      BY <2>1 DEF AfterPowerLoss
    <2>3. Abstract!LosePower
      BY <1>7, <2>2 DEF LosePower, MemoryLost, Abstract!LosePower,
         Abstract!EmptyManifest
    <2>4. QED
      BY <2>3 DEF Abstract!Next
  <1>8. QED
    BY <1>1, <1>2, <1>3, <1>4, <1>5, <1>6, <1>7, QuietSteps DEF Next

\* Every step of the builder, of applyEdit(), of an open, a kill or a power loss
\* replaces the MANIFEST atomically, settles it, or changes nothing a process
\* that starts later could see (the commit boundary of manifest.cpp:492-500).
THEOREM PublicationIsAtomic == Spec => ImplementsManifestStore
  <1>1. Init => Abstract!Init
    BY InitRefines
  <1>2. IInv /\ [Next]_vars => [Abstract!Next]_(Abstract!vars)
    BY StepsRefine, QuietSteps
  <1>3. QED
    BY <1>1, <1>2, IInvIsInvariant, PTL DEF Spec, Abstract!Spec,
       ImplementsManifestStore
=============================================================================
