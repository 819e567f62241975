---------------------------- MODULE ManifestStore ----------------------------
(***************************************************************************)
(* What the MANIFEST promises the engine.  A process works with a view of  *)
(* the live files and of the checkpoint.  A file holds what the next       *)
(* process will load, always in one piece.  A replacement of the file is   *)
(* in doubt until it is settled: a power loss may undo it.  The process    *)
(* believes in its own replacement only when it is settled.                *)
(***************************************************************************)
EXTENDS Integers

CONSTANT Manifests  \* what a MANIFEST may say: live files and a checkpoint

VARIABLES
    open,       \* a process uses the MANIFEST
    view,       \* its live files and its checkpoint
    disk,       \* what a process that starts now would load
    possible    \* what a process that starts after a power loss may load

vars == <<open, view, disk, possible>>

EmptyManifest == [files |-> {}, checkpoint |-> -1]

Init ==
    /\ open = FALSE
    /\ view = EmptyManifest
    /\ disk = EmptyManifest
    /\ possible = {EmptyManifest}

Load ==
    /\ ~open
    /\ open' = TRUE
    /\ view' = disk
    /\ UNCHANGED <<disk, possible>>

\* The recovery checkpoint never moves backwards.
Replace ==
    /\ open
    /\ disk' \in Manifests
    /\ view.checkpoint <= disk'.checkpoint
    /\ possible' = possible \cup {disk'}
    /\ UNCHANGED <<open, view>>

Settle ==
    /\ open
    /\ possible' = {disk}
    /\ UNCHANGED <<open, view, disk>>

Publish ==
    /\ open
    /\ possible' = {disk}
    /\ view' = disk
    /\ UNCHANGED <<open, disk>>

Stop ==
    /\ open
    /\ open' = FALSE
    /\ view' = EmptyManifest
    /\ UNCHANGED <<disk, possible>>

LosePower ==
    /\ open' = FALSE
    /\ view' = EmptyManifest
    /\ disk' \in possible
    /\ possible' = {disk'}

Next ==
    \/ Load
    \/ Replace
    \/ Settle
    \/ Publish
    \/ Stop
    \/ LosePower

Spec == Init /\ [][Next]_vars
=============================================================================
