--------------------------------- MODULE Wal ---------------------------------
(***************************************************************************)
(* kronos::Wal as a file: its header, complete and torn records, what an   *)
(* fsync and a rename make durable, the descriptor fd_ and the path.  The  *)
(* engine appears as far as it decides when the log is appended to,        *)
(* reclaimed and read: write_mutex_, the checkpoint and background_error_. *)
(*                                                                         *)
(* Bytes are counted in units.  A record is HeaderUnits units of sequence, *)
(* operation and lengths, then its key and value, then one unit of CRC; a  *)
(* piece of the file is a record or the part of it that was written.  A    *)
(* CRC that matches by accident is left out, and so are bytes that happen  *)
(* to be those they replace.                                               *)
(***************************************************************************)
EXTENDS Integers, Sequences, FiniteSetsExt

CONSTANTS
    RecordSizes,    \* the lengths a record may have
    MaxSequence,    \* bound: the sequence number that is never assigned
    Failures,       \* what may fail: "create", "write", "fsync", "scan", "reclaim"
    MaxFailures,    \* bound on the number of failures
    MaxCrashes      \* bound on the number of kills and power losses

HeaderUnits == 2

ASSUME WalAssumption ==
    /\ RecordSizes \subseteq {n \in Nat : n > HeaderUnits}
    /\ MaxSequence \in Nat
    /\ Failures \subseteq {"create", "write", "fsync", "scan", "reclaim"}
    /\ MaxFailures \in Nat
    /\ MaxCrashes \in Nat

VARIABLES
    process,        \* "down", "creating", "open" or "refused"
    header,         \* [Magic][Version]: "absent", "partial", "written", as long
                    \* as a power loss may take it and the path, or "complete"
    file,           \* the inode fd_ refers to: its pieces, how many are durable
    position,       \* where fd_ stands: at the end, or where a scan has left it
    other,          \* the other inode of a replacement that is under way
    link,           \* the path names fd_'s inode for good ("current"), until a
                    \* power loss ("unsynced"), or names the other ("stale")
    nextSequence,   \* next_sequence_
    writer,         \* the call that holds write_mutex_: "idle" or "fsync"
    worker,         \* the background worker, as far as it uses the log
    checkpoint,     \* persisted_through_ in the MANIFEST
    memtable,       \* the sequence numbers in the Memtables
    acknowledged,   \* history: the sequence numbers put() and remove() returned
    failed,         \* history: an append or a reclamation failed, and recover()
                    \* has not been through the log since
    exposed,        \* history: the log was written to after such a failure, or
                    \* while its directory entry was not durable
    atRisk,         \* history: what was acknowledged while that was so, or lay
                    \* where fd_ stood or behind when fd_ was written to
    failures, crashes

inodes == <<file, position, other, link>>
engine == <<checkpoint, memtable>>
history == <<acknowledged, failed, exposed, atRisk>>
vars == <<process, header, inodes, nextSequence, writer, worker, engine,
          history, failures, crashes>>

NoCheckpoint == -1
AtEnd == [whole |-> 0, part |-> -1]
EmptyFile == [pieces |-> <<>>, synced |-> 0]

Piece(sequence, written, size) ==
    [sequence |-> sequence, written |-> written, size |-> size]

Synced(pieces) == [pieces |-> pieces, synced |-> Len(pieces)]

AtLeast(m, n) == IF m < n THEN n ELSE m
AtMost(m, n) == IF m < n THEN m ELSE n

SequenceAfter(pieces, default) ==
    IF pieces = <<>> THEN default ELSE pieces[Len(pieces)].sequence + 1

-----------------------------------------------------------------------------
(* Wal::recover() *)

Torn(p) == p.written < p.size

\* Where the scan cannot go on: bytes are missing, or the order is broken.
Stops(pieces) ==
    {i \in DOMAIN pieces :
        \/ Torn(pieces[i])
        \/ i > 1 /\ pieces[i].sequence <= pieces[i - 1].sequence}

\* The records that are read before that.
ValidPrefix(pieces) ==
    IF Stops(pieces) = {} THEN pieces ELSE SubSeq(pieces, 1, Min(Stops(pieces)) - 1)

ReadIn(pieces) ==
    {ValidPrefix(pieces)[i].sequence : i \in DOMAIN ValidPrefix(pieces)}

UnitsFrom(pieces, i) == MapThenSumSet(LAMBDA j : pieces[j].written, i .. Len(pieces))

\* The rest of the file is shorter than the record it seems to be the start of:
\* it is taken for an interrupted final write and cut off.  A torn header
\* borrows its lengths from the bytes that follow, so both outcomes may occur.
MayCut(pieces) ==
    \E i \in Stops(pieces) :
        /\ i = Min(Stops(pieces))
        /\ Torn(pieces[i])
        /\ \/ i = Len(pieces)
           \/ pieces[i].written < HeaderUnits
           \/ UnitsFrom(pieces, i) < pieces[i].size

\* An invalid operation, a CRC that does not match, or a sequence number that
\* does not increase.
MayRefuse(pieces) ==
    \E i \in Stops(pieces) :
        /\ i = Min(Stops(pieces))
        /\ \/ ~Torn(pieces[i])
           \/ i < Len(pieces) /\ \/ pieces[i].written < HeaderUnits
                                 \/ UnitsFrom(pieces, i) >= pieces[i].size

\* Mutation: a record that is incomplete is skipped, not cut off.
RepairWithoutTruncation(f) ==
    IF Stops(f.pieces) = {} THEN f ELSE Synced(f.pieces)

\* The file when recover() has returned.  Only a repair fsyncs it.
Repaired(f) ==
    IF Stops(f.pieces) = {} THEN f ELSE Synced(ValidPrefix(f.pieces))

MayScan(pieces) == Stops(pieces) = {} \/ MayCut(pieces)

\* The file without the tail that ftruncate() cuts off, not yet fsynced.
Shorter(f, pieces) ==
    [pieces |-> pieces, synced |-> AtMost(f.synced, Len(pieces))]

\* The path names fd_'s inode, header included, and a power loss cannot undo it.
PathIsDurable == link = "current" /\ header = "complete"

IoError(kind) ==
    /\ kind \in Failures
    /\ failures < MaxFailures
    /\ failures' = failures + 1

-----------------------------------------------------------------------------
(* Opening *)

\* A new log: open(O_CREAT) and the first bytes of the header.
CreateFile ==
    /\ process = "down"
    /\ header = "absent"
    /\ process' = "creating"
    /\ header' = "partial"
    /\ UNCHANGED <<inodes, nextSequence, writer, worker, engine, history,
                   failures, crashes>>

\* Header, fsync and directory fsync are done; recover() finds no record.
CompleteHeader ==
    /\ process = "creating"
    /\ process' = "open"
    /\ header' = "complete"
    /\ nextSequence' = checkpoint + 1
    /\ exposed' = FALSE
    /\ UNCHANGED <<inodes, writer, worker, engine, acknowledged, failed, atRisk,
                   failures, crashes>>

\* The constructor throws: nobody fsyncs later what it has left unsynced.
FailCreate ==
    /\ process = "creating"
    /\ IoError("create")
    /\ process' = "refused"
    /\ header' \in {"partial", "written"}
    /\ UNCHANGED <<inodes, nextSequence, writer, worker, engine, history, crashes>>

\* Mutation: the checkpoint does not raise the allocator.
OpenFromLog ==
    /\ process = "down"
    /\ header \in {"written", "complete"}
    /\ MayScan(file.pieces)
    /\ process' = "open"
    /\ file' = Repaired(file)
    /\ nextSequence' = SequenceAfter(ValidPrefix(file.pieces), 0)
    /\ memtable' = {s \in ReadIn(file.pieces) : checkpoint < s}
    /\ exposed' = (exposed /\ ~PathIsDurable)
    /\ UNCHANGED <<header, position, other, link, writer, worker, checkpoint,
                   acknowledged, failed, atRisk, failures, crashes>>

\* The constructor accepts the header that it finds, and the engine replays what
\* the checkpoint does not cover.  Neither fsyncs what was there before.
OpenFile ==
    /\ process = "down"
    /\ header \in {"written", "complete"}
    /\ MayScan(file.pieces)
    /\ process' = "open"
    /\ file' = Repaired(file)
    /\ nextSequence' = AtLeast(SequenceAfter(ValidPrefix(file.pieces), 0),
                               checkpoint + 1)
    /\ memtable' = {s \in ReadIn(file.pieces) : checkpoint < s}
    /\ exposed' = (exposed /\ ~PathIsDurable)
    /\ UNCHANGED <<header, position, other, link, writer, worker, checkpoint,
                   acknowledged, failed, atRisk, failures, crashes>>

\* A call of the constructor or of the scan fails, at the latest the fsync of a
\* repair.
FailOpen ==
    /\ process = "down"
    /\ header \in {"written", "complete"}
    /\ IoError("scan")
    /\ process' = "refused"
    /\ \/ file' = file
       \/ MayCut(file.pieces) /\ file' = Shorter(file, ValidPrefix(file.pieces))
    /\ UNCHANGED <<header, position, other, link, nextSequence, writer, worker,
                   engine, history, crashes>>

\* The constructor throws: the header is incomplete or the log is corrupt.
RefuseToOpen ==
    /\ process = "down"
    /\ \/ header = "partial"
       \/ header \in {"written", "complete"} /\ MayRefuse(file.pieces)
    /\ process' = "refused"
    /\ UNCHANGED <<header, inodes, nextSequence, writer, worker, engine,
                   history, failures, crashes>>

\* The application tries again.
TryAgain ==
    /\ process = "refused"
    /\ process' = "down"
    /\ UNCHANGED <<header, inodes, nextSequence, writer, worker, engine,
                   history, failures, crashes>>

-----------------------------------------------------------------------------
(* Wal::writeRecord(), under write_mutex_ *)

HoldsMutex == worker \in {"rename", "reopen", "syncDirectory"}

\* Mutation: the last sequence number is given out.
MayAppendUnlimited ==
    /\ process = "open"
    /\ writer = "idle"
    /\ ~HoldsMutex
    /\ worker # "exited"

MayAppend ==
    /\ process = "open"
    /\ writer = "idle"
    /\ ~HoldsMutex
    /\ worker # "exited"
    /\ nextSequence < MaxSequence

Fails(kind) == IoError(kind) /\ failed' = TRUE

\* Whoever writes behind a failure cannot rely on what is read back.
AppendIsExposed == exposed \/ failed \/ ~PathIsDurable

\* The write() loop ends with the record in the file.
WriteRecord(size) ==
    /\ MayAppend
    /\ position = AtEnd
    /\ file' = [file EXCEPT !.pieces = Append(@, Piece(nextSequence, size, size))]
    /\ writer' = "fsync"
    /\ exposed' = AppendIsExposed
    /\ UNCHANGED <<process, header, position, other, link, nextSequence, worker,
                   engine, acknowledged, failed, atRisk, failures, crashes>>

\* The write() loop throws after some units; nothing takes them back.
FailWrite(size, written) ==
    /\ MayAppend
    /\ position = AtEnd \/ written = 0
    /\ written < size
    /\ Fails("write")
    /\ file' = IF written = 0 THEN file
               ELSE [file EXCEPT !.pieces =
                        Append(@, Piece(nextSequence, written, size))]
    /\ exposed' = AppendIsExposed
    /\ UNCHANGED <<process, header, position, other, link, nextSequence, writer,
                   worker, engine, acknowledged, atRisk, crashes>>

\* Bytes that are the start of no record, unit by unit.
Loose(n) == [i \in 1 .. n |-> Piece(0, 1, HeaderUnits)]

\* What lies in front of fd_: whole pieces, then a part of the next one or the hole
\* that a write beyond the end of the file leaves.
Ahead ==
    SubSeq(file.pieces, 1, position.whole) \o
        IF position.whole < Len(file.pieces) /\ position.part > 0
            THEN <<[file.pieces[position.whole + 1] EXCEPT !.written = position.part]>>
            ELSE Loose(position.part)

\* What n units that begin with piece k leave of it and of what follows: nothing,
\* or the rest of the piece in which they end and the pieces behind that one.
Behind(pieces, k, n) ==
    IF UnitsFrom(pieces, k) <= n THEN {<<>>}
    ELSE UNION {{Loose(rest) \o SubSeq(pieces, i + 1, Len(pieces)) :
                    rest \in {m \in 0 .. pieces[i].written - 1 :
                                 UnitsFrom(pieces, k)
                                     = n + m + UnitsFrom(pieces, i + 1)}} :
                i \in k .. Len(pieces)}

\* fd_ was opened without O_APPEND: bytes written where a scan has left it replace
\* those that were there, and only what lies in front of it is still read.
Overwrite(p) ==
    /\ MayAppend
    /\ position # AtEnd
    /\ \E rest \in Behind(file.pieces, position.whole + 1, position.part + p.written) :
          file' = [pieces |-> Append(Ahead, p) \o rest,
                   synced |-> AtMost(file.synced, position.whole)]
    /\ position' = [whole |-> Len(Ahead) + 1, part |-> 0]
    /\ exposed' = TRUE
    /\ atRisk' = atRisk \cup (acknowledged
                                \ ReadIn(SubSeq(file.pieces, 1, position.whole)))
    /\ UNCHANGED <<process, header, other, link, nextSequence, worker, engine,
                   acknowledged, crashes>>

OverwriteRecord(size) ==
    /\ Overwrite(Piece(nextSequence, size, size))
    /\ writer' = "fsync"
    /\ UNCHANGED <<failed, failures>>

FailOverwrite(size, written) ==
    /\ Fails("write")
    /\ Overwrite(Piece(nextSequence, written, size))
    /\ UNCHANGED writer

Acknowledge(s) ==
    /\ acknowledged' = acknowledged \cup {s}
    /\ atRisk' = IF exposed THEN atRisk \cup {s} ELSE atRisk
    /\ memtable' = memtable \cup {s}

\* Mutation: the call returns without an fsync.
ReturnUnsynced ==
    /\ writer = "fsync"
    /\ nextSequence' = nextSequence + 1
    /\ Acknowledge(nextSequence)
    /\ writer' = "idle"
    /\ UNCHANGED <<process, header, inodes, worker, checkpoint, failed, exposed,
                   failures, crashes>>

\* fsync() succeeds, the sequence number is consumed, the record goes into the
\* Memtable and the call returns.
SyncRecord ==
    /\ writer = "fsync"
    /\ file' = Synced(file.pieces)
    /\ nextSequence' = nextSequence + 1
    /\ Acknowledge(nextSequence)
    /\ writer' = "idle"
    /\ UNCHANGED <<process, header, position, other, link, worker, checkpoint,
                   failed, exposed, failures, crashes>>

\* fsync() fails: the record stays in the file and its number is not consumed.
FailSync ==
    /\ writer = "fsync"
    /\ Fails("fsync")
    /\ writer' = "idle"
    /\ UNCHANGED <<process, header, inodes, nextSequence, worker, engine,
                   acknowledged, exposed, atRisk, crashes>>

-----------------------------------------------------------------------------
(* Wal::reclaimThrough(), under write_mutex_ *)

\* A flush has committed SSTables through a write that a Memtable holds, be it
\* acknowledged or replayed.
AdvanceCheckpoint(s) ==
    /\ process = "open"
    /\ worker = "idle"
    /\ s \in memtable
    /\ checkpoint < s
    /\ checkpoint' = s
    /\ memtable' = {t \in memtable : s < t}
    /\ worker' = "reclaim"
    /\ UNCHANGED <<process, header, inodes, nextSequence, writer, history,
                   failures, crashes>>

\* reclaimThrough() scans, and repairs, the live log first.
ScanLog ==
    /\ worker = "reclaim"
    /\ writer = "idle"
    /\ MayScan(file.pieces)
    /\ file' = Repaired(file)
    /\ nextSequence' = AtLeast(SequenceAfter(ValidPrefix(file.pieces), 0),
                               nextSequence)
    /\ worker' = "rename"
    /\ failed' = FALSE
    /\ exposed' = (exposed /\ ~PathIsDurable)
    /\ UNCHANGED <<process, header, position, other, link, writer, engine,
                   acknowledged, atRisk, failures, crashes>>

\* Where fd_ may stand, and what the scan has read behind k records when it is there.
Positions ==
    {[whole |-> Len(file.pieces), part |-> 0]}
        \cup UNION {[whole : {i - 1}, part : 0 .. file.pieces[i].written - 1] :
                    i \in DOMAIN file.pieces}

UnitsRead(k, p) ==
    UnitsFrom(file.pieces, k + 1) - UnitsFrom(file.pieces, p.whole + 1) + p.part

\* recover() throws, and what follows it in reclaimThrough() is skipped:
\* next_sequence_ and fd_ stay where the scan has left them.
LeaveScan(k, p) ==
    /\ k <= p.whole
    /\ failed' = TRUE
    /\ nextSequence' = SequenceAfter(SubSeq(file.pieces, 1, k), nextSequence)
    /\ position' = p
    /\ worker' = "failed"
    /\ UNCHANGED <<process, header, file, other, link, writer, engine,
                   acknowledged, exposed, atRisk, crashes>>

\* read(), lseek() or ftruncate() fails, be the log in order or not.  A torn header
\* may lead the scan anywhere.
FailScan ==
    /\ worker = "reclaim"
    /\ writer = "idle"
    /\ IoError("scan")
    /\ \E k \in 0 .. Len(ValidPrefix(file.pieces)), p \in Positions :
          /\ IF k < Len(ValidPrefix(file.pieces)) THEN p.whole = k
             ELSE k < Len(file.pieces) =>
                    \/ file.pieces[k + 1].written < HeaderUnits
                    \/ UnitsRead(k, p) < file.pieces[k + 1].size
          /\ LeaveScan(k, p)

\* The record that follows the valid ones is complete, but is none.
FindCorruption ==
    /\ worker = "reclaim"
    /\ writer = "idle"
    /\ MayRefuse(file.pieces)
    /\ LET k == Len(ValidPrefix(file.pieces)) IN
       \E p \in Positions :
          /\ \/ /\ file.pieces[k + 1].written < HeaderUnits
                /\ UnitsRead(k, p) >= HeaderUnits
             \/ UnitsRead(k, p) = file.pieces[k + 1].size
          /\ LeaveScan(k, p)
    /\ UNCHANGED failures

\* A call fails before the scan has moved fd_.
FailScanEarly ==
    /\ worker = "reclaim"
    /\ writer = "idle"
    /\ Fails("scan")
    /\ worker' = "failed"
    /\ UNCHANGED <<process, header, inodes, nextSequence, writer, engine,
                   acknowledged, exposed, atRisk, crashes>>

\* The tail is cut off, but the fsync after that fails, or the lseek() to the end.
\* fd_ stands behind a part of the header that is no longer there.
FailRepair ==
    /\ worker = "reclaim"
    /\ writer = "idle"
    /\ MayCut(file.pieces)
    /\ Fails("scan")
    /\ LET valid == ValidPrefix(file.pieces) IN
       /\ file' \in {Shorter(file, valid), Repaired(file)}
       /\ nextSequence' = SequenceAfter(valid, nextSequence)
       /\ \E units \in 1 .. HeaderUnits :
             /\ units <= UnitsFrom(file.pieces, Len(valid) + 1)
             /\ position' = [whole |-> Len(valid), part |-> units]
    /\ worker' = "failed"
    /\ UNCHANGED <<process, header, other, link, writer, engine, acknowledged,
                   exposed, atRisk, crashes>>

\* Mutation: the records at the tail are dropped with the rest.
RenameEmptyLog ==
    /\ worker = "rename"
    /\ other' = EmptyFile
    /\ link' = "stale"
    /\ worker' = "reopen"
    /\ UNCHANGED <<process, header, file, position, nextSequence, writer, engine,
                   history, failures, crashes>>

\* The records beyond the checkpoint.  ScanLog has left pieces that are in order,
\* so those the checkpoint covers come first.
Beyond(pieces) ==
    LET covered == {i \in DOMAIN pieces : pieces[i].sequence <= checkpoint}
    IN  SubSeq(pieces, Cardinality(covered) + 1, Len(pieces))

\* wal.tmp holds them, is fsynced and renamed.
RenameLog ==
    /\ worker = "rename"
    /\ other' = Synced(Beyond(file.pieces))
    /\ link' = "stale"
    /\ worker' = "reopen"
    /\ UNCHANGED <<process, header, file, position, nextSequence, writer, engine,
                   history, failures, crashes>>

\* fd_ moves to the new inode.
ReopenLog ==
    /\ worker = "reopen"
    /\ file' = other
    /\ other' = file
    /\ link' = "unsynced"
    /\ worker' = "syncDirectory"
    /\ UNCHANGED <<process, header, position, nextSequence, writer, engine, history,
                   failures, crashes>>

SyncDirectory ==
    /\ worker = "syncDirectory"
    /\ header' = "complete"
    /\ other' = EmptyFile
    /\ link' = "current"
    /\ worker' = "idle"
    /\ UNCHANGED <<process, file, position, nextSequence, writer, engine,
                   history, failures, crashes>>

\* A system call fails and the exception leaves reclaimThrough() and releases
\* write_mutex_: before the rename, before fd_ moved, or after.
FailReclaim ==
    /\ worker \in {"rename", "reopen", "syncDirectory"}
    /\ Fails("reclaim")
    /\ worker' = "failed"
    /\ UNCHANGED <<process, header, inodes, nextSequence, writer, engine,
                   acknowledged, exposed, atRisk, crashes>>

\* Only now is background_error_ set; until then writers get through.
RecordError ==
    /\ worker = "failed"
    /\ worker' = "exited"
    /\ UNCHANGED <<process, header, inodes, nextSequence, writer, engine,
                   history, failures, crashes>>

-----------------------------------------------------------------------------
(* The end of the process *)

\* What a power loss leaves of a file: the durable pieces, and any part of the
\* bytes after them up to some point.
AfterPowerLoss(f) ==
    {SubSeq(f.pieces, 1, n) : n \in f.synced .. Len(f.pieces)}
        \cup UNION {{Append(SubSeq(f.pieces, 1, n),
                            [f.pieces[n + 1] EXCEPT !.written = w]) :
                        w \in 1 .. f.pieces[n + 1].written} :
                    n \in f.synced .. Len(f.pieces) - 1}

\* A piece of which only some units have replaced what was there.
HalfOverwritten(pieces, i) ==
    {SubSeq(pieces, 1, i - 1) \o <<[pieces[i] EXCEPT !.written = w]>>
        \o Loose(pieces[i].written - w)
        \o SubSeq(pieces, i + 1, Len(pieces)) : w \in 1 .. pieces[i].written - 1}

\* The piece that a call writes.
InFlight == IF position = AtEnd THEN Len(file.pieces) ELSE position.whole

\* A kill leaves all bytes, but may interrupt the write() loop of a record.
AfterKill(f) ==
    {f.pieces}
        \cup (IF writer = "fsync" /\ InFlight = Len(f.pieces)
                 THEN AfterPowerLoss([f EXCEPT !.synced = Len(f.pieces) - 1])
                 ELSE {})
        \cup (IF writer = "fsync" /\ position # AtEnd
                 THEN HalfOverwritten(f.pieces, InFlight)
                 ELSE {})

\* The next process finds the file that the path names.
Stop ==
    /\ process' = "down"
    /\ position' = AtEnd
    /\ nextSequence' = 0
    /\ writer' = "idle"
    /\ worker' = "idle"
    /\ memtable' = {}
    /\ failed' = FALSE
    /\ UNCHANGED <<checkpoint, acknowledged, exposed, atRisk, failures>>

FollowPath(left) ==
    IF link = "stale"
        THEN /\ file' = other
             /\ other' = left
             /\ link' = "unsynced"
        ELSE /\ file' = left
             /\ UNCHANGED <<other, link>>

Kill ==
    /\ process \in {"creating", "open"}
    /\ crashes < MaxCrashes
    /\ crashes' = crashes + 1
    /\ \/ header' = header
       \/ process = "creating" /\ header' = "written"
    /\ \E pieces \in AfterKill(file) : FollowPath(Shorter(file, pieces))
    /\ Stop

\* The inodes that the path may name after a power loss, and what is left of them.
\* Of bytes that were replaced and not fsynced, some may be back.  If all are, it is
\* as after a power loss before they were replaced.
Candidates == IF link = "current" THEN {file} ELSE {file, other}

LeftByPowerLoss ==
    (UNION {AfterPowerLoss(f) : f \in Candidates})
        \cup (IF exposed /\ position # AtEnd
                 THEN UNION {HalfOverwritten(file.pieces, i) :
                                i \in file.synced + 1 .. position.whole}
                 ELSE {})

\* A log whose directory entry or header nobody has fsynced may be gone.
LosePower ==
    /\ crashes < MaxCrashes
    /\ crashes' = crashes + 1
    /\ \/ header # "written" /\ header' = header
       \/ header # "complete" /\ header' = "absent"
       \/ (process = "creating" \/ header = "written") /\ header' = "complete"
       \/ /\ header = "written" /\ \E f \in Candidates : f.synced = 0
          /\ header' = "partial"
    /\ IF header' = "complete" THEN \E pieces \in LeftByPowerLoss : file' = Synced(pieces)
       ELSE file' = EmptyFile
    /\ other' = EmptyFile
    /\ link' = "current"
    /\ Stop

\* A graceful end between two calls.
Close ==
    /\ process = "open"
    /\ writer = "idle"
    /\ worker \in {"idle", "exited"}
    /\ FollowPath(file)
    /\ UNCHANGED <<header, crashes>>
    /\ Stop

-----------------------------------------------------------------------------
Init ==
    /\ process = "down"
    /\ header = "absent"
    /\ file = EmptyFile
    /\ position = AtEnd
    /\ other = EmptyFile
    /\ link = "current"
    /\ nextSequence = 0
    /\ writer = "idle"
    /\ worker = "idle"
    /\ checkpoint = NoCheckpoint
    /\ memtable = {}
    /\ acknowledged = {}
    /\ failed = FALSE
    /\ exposed = FALSE
    /\ atRisk = {}
    /\ failures = 0
    /\ crashes = 0

Next ==
    \/ CreateFile
    \/ CompleteHeader
    \/ FailCreate
    \/ OpenFile
    \/ FailOpen
    \/ RefuseToOpen
    \/ TryAgain
    \/ \E size \in RecordSizes : WriteRecord(size)
    \/ \E size \in RecordSizes : \E written \in 0 .. size - 1 : FailWrite(size, written)
    \/ \E size \in RecordSizes : OverwriteRecord(size)
    \/ \E size \in RecordSizes : \E written \in 1 .. size - 1 : FailOverwrite(size, written)
    \/ SyncRecord
    \/ FailSync
    \/ \E s \in memtable : AdvanceCheckpoint(s)
    \/ ScanLog
    \/ FailScan
    \/ FindCorruption
    \/ FailScanEarly
    \/ FailRepair
    \/ RenameLog
    \/ ReopenLog
    \/ SyncDirectory
    \/ FailReclaim
    \/ RecordError
    \/ Kill
    \/ LosePower
    \/ Close

Spec == Init /\ [][Next]_vars
-----------------------------------------------------------------------------
(* Properties *)

Pieces ==
    [sequence : 0 .. MaxSequence - 1, written : Nat, size : RecordSizes \cup {HeaderUnits}]

\* Every variable holds what its C++ counterpart can hold; no piece is longer
\* than its record and no fsync covers more than the file.
TypeOK ==
    /\ process \in {"down", "creating", "open", "refused"}
    /\ header \in {"absent", "partial", "written", "complete"}
    /\ \A f \in {file, other} :
          /\ f.pieces \in Seq(Pieces)
          /\ \A i \in DOMAIN f.pieces : f.pieces[i].written \in 1 .. f.pieces[i].size
          /\ f.synced \in 0 .. Len(f.pieces)
    /\ position \in {AtEnd} \cup [whole : 0 .. Len(file.pieces), part : Nat]
    /\ link \in {"current", "unsynced", "stale"}
    /\ nextSequence \in 0 .. MaxSequence
    /\ writer \in {"idle", "fsync"}
    /\ worker \in {"idle", "reclaim", "rename", "reopen", "syncDirectory",
                   "failed", "exited"}
    /\ checkpoint \in {NoCheckpoint} \cup 0 .. MaxSequence - 1
    /\ memtable \subseteq 0 .. MaxSequence - 1
    /\ acknowledged \subseteq 0 .. MaxSequence - 1
    /\ failed \in BOOLEAN
    /\ exposed \in BOOLEAN
    /\ atRisk \subseteq acknowledged
    /\ failures \in 0 .. MaxFailures
    /\ crashes \in 0 .. MaxCrashes

\* The sequence numbers that recover() reads before it stops, cuts or throws.
Readable == ReadIn(file.pieces)

\* "If the process crashes and the in-memory Memtable disappears, the WAL can
\* be replayed during startup" (wal.cpp:23-25), and "an incomplete final WAL
\* record can be safely discarded" (README.md:76): every acknowledged write that
\* no checkpoint covers is replayed at the next start.
AcknowledgedSurvive ==
    process = "down" =>
        \A s \in acknowledged :
            s <= checkpoint \/ (s \in Readable /\ ~MayRefuse(file.pieces))

\* What the code achieves when system calls fail: whatever happens later, a
\* record acknowledged before the failure stays readable, through torn tails,
\* kills, power losses and every stage of a reclamation, with two exceptions.
\* What is acknowledged behind a failed append, or into a log that the path may
\* not name, is at risk.  And if a scan fails half-way, the next call writes where
\* fd_ was left: all that is not read in front of it is at risk, whenever it was
\* acknowledged (writeRecord(), recover(), reclaimThrough()).
SafeRecordsStayReadable ==
    process = "down" =>
        \A s \in acknowledged \ atRisk : s <= checkpoint \/ s \in Readable

\* And a log nobody wrote to after a failure can be opened: a torn tail is
\* repaired, never taken for corruption (recovery policy, wal.cpp:400-412).
UnexposedLogOpens ==
    process = "down" /\ ~exposed => ~MayRefuse(file.pieces)

\* The number that a call consumes is above that of every write before it which is
\* not at risk, across restarts, empty logs and scans that end half-way, of a log
\* in order and of a broken one (ensureNextSequenceAtLeast(), reclaimThrough(),
\* wal.cpp:756-774).  A number is given out again only behind such a scan, and the
\* record that had it is then at risk.
SequencesIncrease ==
    [][SyncRecord => \A t \in acknowledged \ atRisk : t < nextSequence]_vars

-----------------------------------------------------------------------------
(* The abstract log this file implements. *)

\* Nobody has written behind a failure, or the scan that followed found the log in
\* order and nothing had been acknowledged meanwhile.
Reliable == ~exposed /\ atRisk = {}

\* What no checkpoint covers of what is read, and of what was acknowledged.
Replayable == {s \in Readable : checkpoint < s}
Promised == {s \in acknowledged \ atRisk : checkpoint < s}

Log == INSTANCE WalStore WITH
    Numbers <- 0 .. MaxSequence - 1,
    open <- process = "open",
    log <- IF Reliable THEN Replayable ELSE Promised,
    settled <- Promised,
    covered <- 0 .. checkpoint,
    trouble <- failed \/ ((link # "current" \/ header = "written") /\ ~HoldsMutex),
    misplaced <- position # AtEnd,
    reliable <- Reliable

\* The file is the log that the engine counts on, in every state between two
\* system calls: numbers increase, what was acknowledged is replayed until a
\* checkpoint covers it, a stop takes only the end that no fsync had settled, and
\* a reclamation shows nowhere.  That ends with a write behind a failure, and not
\* before (kronos::Wal, as used by put(), remove(), flushMemtable() and recover()).
ImplementsWalStore == Log!Spec
=============================================================================
