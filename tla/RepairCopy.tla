----------------------------- MODULE RepairCopy -----------------------------
(***************************************************************************)
(* One partition repair copy, scripts/paired_vm_case.py: disk-repair-copy  *)
(* cuts a slice out of the working disk into disk/repair/BASENAME, and     *)
(* disk-repair-testdisk lets TestDisk, in a container, repair that slice   *)
(* in place, once.  Commands with other --offset, --length or --copy-id    *)
(* work in other directories.                                              *)
(*                                                                         *)
(* Bytes are the value they hash to.  The slice of the working disk is     *)
(* numbered by the preparation of disk.raw it comes from.  prepare-disks   *)
(* removes disk.raw (--force), renames a new one into place and describes  *)
(* it in disk.raw.json, in three steps and without a lock; it may be       *)
(* stopped between them and overlap every other command.  Preparing the    *)
(* same evidence again gives the same bytes, altered evidence new ones,    *)
(* never old ones.  All disks have one size: a disk that is not as long as *)
(* its metadata says is refused like one that is not there.                *)
(* A command can be stopped after any step; its container is not stopped   *)
(* with it.                                                                *)
(***************************************************************************)
EXTENDS Naturals

CONSTANTS
    Procs,             \* commands that can run at one time
    Outcomes,          \* bytes the slice may have after somebody wrote to it
    WrongLength,       \* those of them that are not as long as the slice
    LockGivesUp,       \* TRUE on Windows: msvcrt LK_LOCK fails after ten tries
    ConcurrentCopies,  \* may two disk-repair-copy of one BASENAME overlap?
    MaxCommands,       \* bound: commands started
    MaxEvents,         \* bound: disks removed or replaced, edits of the slice
    Torn,              \* a file that is only partly written
    None               \* an absent file or value

ASSUME RepairConstants ==
    /\ WrongLength \subseteq Outcomes
    /\ Outcomes \cap Nat = {}
    /\ LockGivesUp \in BOOLEAN
    /\ ConcurrentCopies \in BOOLEAN
    /\ MaxCommands \in Nat
    /\ MaxEvents \in Nat
    /\ None \notin Procs
    /\ None \notin Nat \cup Outcomes \cup {Torn}

VARIABLES
    disk,       \* disk.raw: of which preparation it is
    diskMeta,   \* disk.raw.json: which preparation it describes
    newest,     \* the newest preparation that was renamed to disk.raw
    owed,       \* preparations that are renamed and not described yet
    dir,        \* does the repair directory exist?
    partial,    \* partition.raw.partial
    partition,  \* partition.raw
    meta,       \* partition.json
    lane,       \* damage_repair_assessment in the ledger of the case
    lock,       \* who holds .repair.lock
    tools,      \* the commands whose TestDisk container is running
    pc,         \* per process: the next step of the command it runs
    named,      \* per process: the disk that disk.raw.json described to it
    data,       \* per process: the bytes it copied or measured
    read,       \* per process: partition.json as it read it
    ok,         \* per process: did TestDisk exit with 0?
    attempts,   \* history: how often TestDisk was started
    openedOn,   \* history: the bytes it was started on
    vouched,    \* history: was disk.raw the disk of its metadata when a
                \* repair last accepted a copy?
    commands,   \* commands started
    events      \* removals, replacements and edits so far

working == <<disk, diskMeta, newest, owed>>
files   == <<dir, partial, partition, meta, lane>>
history == <<attempts, openedOn, vouched>>
locals  == <<named, data, read, ok>>
bounds  == <<commands, events>>
vars    == <<working, files, lock, tools, pc, locals, history, bounds>>

-----------------------------------------------------------------------------
Bytes == Nat \cup Outcomes
Verdicts == {"tool_completed_with_changes", "tool_completed_no_change",
             "tool_failed"}

\* partition.json: the disk it was cut from, its bytes, and the attempt
Metadata == [source : Nat, pre : Bytes,
             status : {"not_attempted", "running"} \cup Verdicts,
             post : Bytes \cup {None}, valid : BOOLEAN]
ASSUME NoneIsNoFile == None \notin Metadata
\* the recorded lane, with the digest of partition.json
Lane == [status : {"completed", "completed_with_limit"}, evidence : Metadata]

CopySteps   == {"copy_check", "copy_open", "copy_write", "copy_replace",
                "copy_publish"}
LockedSteps == {"repair_check", "repair_hash", "repair_mark", "repair_start",
                "repair_tool", "repair_measure", "repair_settle",
                "repair_record"}
Steps == {"idle", "repair_wait"} \cup CopySteps \cup LockedSteps

Init ==
    /\ disk = 0 /\ diskMeta = 0 /\ newest = 0
    /\ owed = {}
    /\ dir = FALSE
    /\ partial = None /\ partition = None /\ meta = None /\ lane = None
    /\ lock = None
    /\ tools = {}
    /\ pc = [p \in Procs |-> "idle"]
    /\ named = [p \in Procs |-> 0]
    /\ data = [p \in Procs |-> None]
    /\ read = [p \in Procs |-> None]
    /\ ok = [p \in Procs |-> FALSE]
    /\ attempts = 0
    /\ openedOn = {}
    /\ vouched = FALSE
    /\ commands = 0
    /\ events = 0

Goto(p, step) == pc' = [pc EXCEPT ![p] = step]
\* The command ends; the kernel or the with statement drops its lock.
End(p) ==
    /\ pc' = [pc EXCEPT ![p] = "idle"]
    /\ lock' = IF lock = p THEN None ELSE lock
Begin(p, step) ==
    /\ pc[p] = "idle"
    /\ pc' = [pc EXCEPT ![p] = step]
    /\ commands < MaxCommands
    /\ commands' = commands + 1

-----------------------------------------------------------------------------
(* disk-repair-copy.  It takes no lock.  (A command whose other guards     *)
(* refuse, integrity gate or missing disk, ends before its first step.)    *)

\* validated_working_disk_metadata: the disk has the size of its metadata
CopyBegin(p) ==
    /\ ConcurrentCopies \/ \A q \in Procs : pc[q] \notin CopySteps
    /\ disk # None
    /\ Begin(p, "copy_check")
    /\ named' = [named EXCEPT ![p] = diskMeta]
    /\ UNCHANGED <<working, files, lock, tools, data, read, ok, history, events>>

\* Faulty: an existing target is copied over.
CopyCheckUnguarded(p) ==
    /\ pc[p] = "copy_check"
    /\ Goto(p, "copy_open")
    /\ UNCHANGED <<working, files, lock, tools, locals, history, bounds>>

\* if repair_root.exists(): raise
CopyCheck(p) ==
    /\ pc[p] = "copy_check"
    /\ \/ dir /\ End(p)
       \/ ~dir /\ Goto(p, "copy_open") /\ UNCHANGED lock
    /\ UNCHANGED <<working, files, tools, locals, history, bounds>>

\* stat of the disk, partial.exists(), mkdir, open of the disk, and
\* open(partial, "xb"), which only one can do; the disk stays open.
CopyOpen(p) ==
    /\ pc[p] = "copy_open"
    /\ \/ /\ disk = None \/ partial # None
          /\ UNCHANGED dir \/ dir' = TRUE
          /\ End(p)
          /\ UNCHANGED <<partial, data>>
       \/ /\ disk # None
          /\ partial = None
          /\ dir' = TRUE
          /\ partial' = Torn
          /\ data' = [data EXCEPT ![p] = disk]
          /\ Goto(p, "copy_write")
          /\ UNCHANGED lock
    /\ UNCHANGED <<working, partition, meta, lane, tools, named, read, ok,
                   history, bounds>>

\* Faulty: the disk ends too soon and the copy goes on.
CopyWriteShort(p) ==
    /\ pc[p] = "copy_write"
    /\ Goto(p, "copy_replace")
    /\ UNCHANGED <<working, files, lock, tools, locals, history, bounds>>

CopyWrite(p) ==
    /\ pc[p] = "copy_write"
    /\ partial' = data[p]
    /\ Goto(p, "copy_replace")
    /\ UNCHANGED <<working, dir, partition, meta, lane, lock, tools, locals,
                   history, bounds>>

\* os.replace(partial, destination)
CopyReplace(p) ==
    /\ pc[p] = "copy_replace"
    /\ partition' = partial
    /\ partial' = None
    /\ Goto(p, "copy_publish")
    /\ UNCHANGED <<working, dir, meta, lane, lock, tools, locals, history,
                   bounds>>

CopyPublish(p) ==
    /\ pc[p] = "copy_publish"
    /\ meta' = [source |-> named[p], pre |-> data[p],
                status |-> "not_attempted", post |-> None, valid |-> FALSE]
    /\ End(p)
    /\ UNCHANGED <<working, dir, partial, partition, lane, tools, locals, history,
                   bounds>>

-----------------------------------------------------------------------------
(* disk-repair-testdisk.                                                   *)

\* lock_path.parent.mkdir(parents=True, exist_ok=True)
RepairBegin(p) ==
    /\ Begin(p, "repair_wait")
    /\ dir' = TRUE
    /\ UNCHANGED <<working, partial, partition, meta, lane, lock, tools, locals,
                   history, events>>

RepairLock(p) ==
    /\ pc[p] = "repair_wait"
    /\ \/ /\ lock = None
          /\ lock' = p
          /\ Goto(p, "repair_check")
       \/ /\ LockGivesUp /\ lock # None
          /\ End(p)
    /\ UNCHANGED <<working, files, tools, locals, history, bounds>>

\* Faulty: expected_copy_fields without source_working_disk_sha256
FreshOfAnyDisk ==
    /\ disk # None
    /\ partition # None
    /\ meta # None
    /\ meta.status = "not_attempted"

\* The disk is validated under the lock; partition.json must be there, name
\* the disk that disk.raw.json describes, and be not attempted.
Fresh ==
    /\ disk # None
    /\ partition # None
    /\ meta # None
    /\ meta.source = diskMeta
    /\ meta.status = "not_attempted"

\* Faulty: the lock is not given back when the copy is refused.
RepairCheckHoldingLock(p) ==
    /\ pc[p] = "repair_check"
    /\ \/ /\ Fresh
          /\ read' = [read EXCEPT ![p] = meta]
          /\ vouched' = (disk = diskMeta)
          /\ Goto(p, "repair_hash")
       \/ /\ ~Fresh
          /\ Goto(p, "idle")
          /\ UNCHANGED <<read, vouched>>
    /\ UNCHANGED <<working, files, lock, tools, named, data, ok, attempts,
                   openedOn, bounds>>

RepairCheck(p) ==
    /\ pc[p] = "repair_check"
    /\ \/ /\ Fresh
          /\ read' = [read EXCEPT ![p] = meta]
          /\ vouched' = (disk = diskMeta)
          /\ Goto(p, "repair_hash")
          /\ UNCHANGED lock
       \/ ~Fresh /\ End(p) /\ UNCHANGED <<read, vouched>>
    /\ UNCHANGED <<working, files, tools, named, data, ok, attempts, openedOn,
                   bounds>>

\* Faulty: no check of the bytes.
RepairHashSkipped(p) ==
    /\ pc[p] = "repair_hash"
    /\ Goto(p, "repair_mark")
    /\ UNCHANGED <<working, files, lock, tools, locals, history, bounds>>

\* before_sha256 against the recorded pre_repair_sha256
RepairHash(p) ==
    /\ pc[p] = "repair_hash"
    /\ \/ partition = read[p].pre /\ Goto(p, "repair_mark") /\ UNCHANGED lock
       \/ partition # read[p].pre /\ End(p)
    /\ UNCHANGED <<working, files, tools, locals, history, bounds>>

\* Faulty: the attempt is not marked before it is made.
RepairMarkForgotten(p) ==
    /\ pc[p] = "repair_mark"
    /\ Goto(p, "repair_start")
    /\ UNCHANGED <<working, files, lock, tools, locals, history, bounds>>

RepairMark(p) ==
    /\ pc[p] = "repair_mark"
    /\ meta' = [read[p] EXCEPT !.status = "running"]
    /\ Goto(p, "repair_start")
    /\ UNCHANGED <<working, dir, partial, partition, lane, lock, tools, locals,
                   history, bounds>>

\* docker run
RepairStart(p) ==
    /\ pc[p] = "repair_start"
    /\ tools' = tools \cup {p}
    /\ attempts' = attempts + 1
    /\ openedOn' = openedOn \cup {partition}
    /\ Goto(p, "repair_tool")
    /\ UNCHANGED <<working, files, lock, locals, vouched, bounds>>

\* TestDisk writes to the slice, with or without the command that started it.
ToolWrite(p) ==
    /\ p \in tools
    /\ partition' \in Outcomes
    /\ UNCHANGED <<working, dir, partial, meta, lane, lock, tools, pc, locals,
                   history, bounds>>

ToolExit(p) ==
    /\ p \in tools
    /\ tools' = tools \ {p}
    /\ \/ /\ pc[p] = "repair_tool"
          /\ \E success \in BOOLEAN : ok' = [ok EXCEPT ![p] = success]
          /\ Goto(p, "repair_measure")
       \/ pc[p] # "repair_tool" /\ UNCHANGED <<pc, ok>>
    /\ UNCHANGED <<working, files, lock, named, data, read, history, bounds>>

\* A slice of another length raises, and partition.json says running for good.
RepairMeasure(p) ==
    /\ pc[p] = "repair_measure"
    /\ \/ /\ partition \in WrongLength
          /\ End(p)
          /\ UNCHANGED data
       \/ /\ partition \notin WrongLength
          /\ data' = [data EXCEPT ![p] = partition]
          /\ Goto(p, "repair_settle")
          /\ UNCHANGED lock
    /\ UNCHANGED <<working, files, tools, named, read, ok, history, bounds>>

\* The slice is compared with the disk only if its bytes changed.
NeedsDisk(p) == data[p] # read[p].pre

\* changed_sector_ranges opens a disk that a preparation has removed.
RepairLosesDisk(p) ==
    /\ pc[p] = "repair_settle"
    /\ NeedsDisk(p) /\ disk = None
    /\ End(p)
    /\ UNCHANGED <<working, files, tools, locals, history, bounds>>

\* Sectors changed: before and after differ, and so do after and the disk.
Changed(p) == NeedsDisk(p) /\ data[p] # disk
Verdict(p) == IF ~ok[p] THEN "tool_failed"
              ELSE IF Changed(p) THEN "tool_completed_with_changes"
              ELSE "tool_completed_no_change"

\* fsstat, fls and istat have run; the attempt is written down.
RepairSettle(p) ==
    /\ pc[p] = "repair_settle"
    /\ NeedsDisk(p) => disk # None
    /\ \E valid \in BOOLEAN :
          meta' = [source |-> read[p].source, pre |-> read[p].pre,
                   status |-> Verdict(p), post |-> data[p], valid |-> valid]
    /\ Goto(p, "repair_record")
    /\ UNCHANGED <<working, dir, partial, partition, lane, lock, tools, locals,
                   history, bounds>>

\* record_work_result digests partition.json, which is as this command wrote it
\* unless copies overlap; it refuses a finalized case.
\* An attempt is complete if every tool succeeded, something changed, and a
\* failing record was named for validation.
RepairRecord(p) ==
    /\ pc[p] = "repair_record"
    /\ \/ \E inums \in BOOLEAN :
             lane' = [status |->
                        IF /\ meta.status = "tool_completed_with_changes"
                           /\ meta.valid
                           /\ inums
                        THEN "completed" ELSE "completed_with_limit",
                      evidence |-> meta]
       \/ UNCHANGED lane
    /\ End(p)
    /\ UNCHANGED <<working, dir, partial, partition, meta, tools, locals, history,
                   bounds>>

-----------------------------------------------------------------------------
(* The environment.                                                        *)

\* Killed, out of space, no docker, a power cut: any step may be the last.
Stop(p) ==
    /\ pc[p] # "idle"
    /\ End(p)
    /\ UNCHANGED <<working, files, tools, locals, history, bounds>>

\* prepare-disks --force: disk.raw goes, disk.raw.json stays.
PrepareUnlink ==
    /\ events < MaxEvents
    /\ disk # None
    /\ disk' = None
    /\ events' = events + 1
    /\ UNCHANGED <<diskMeta, newest, owed, files, lock, tools, pc, locals,
                   history, commands>>

\* os.replace of what it wrote beside, from the same evidence or from new; a
\* disk may be there again that another preparation renamed meanwhile.
PrepareReplace ==
    /\ \/ disk = None /\ UNCHANGED events
       \/ disk # None /\ events < MaxEvents /\ events' = events + 1
    /\ newest' \in {newest, newest + 1}
    /\ disk' = newest'
    /\ owed' = owed \cup {newest'}
    /\ UNCHANGED <<diskMeta, files, lock, tools, pc, locals, history, commands>>

\* The new metadata, if the command is not stopped before; another one may
\* have replaced the disk again.
PrepareDescribe ==
    /\ \E n \in owed : diskMeta' = n /\ owed' = owed \ {n}
    /\ UNCHANGED <<disk, newest, files, lock, tools, pc, locals, history, bounds>>

\* Somebody writes to the slice, but not beside a repair.
Edit ==
    /\ events < MaxEvents
    /\ partition # None
    /\ lock = None
    /\ partition' \in Outcomes
    /\ events' = events + 1
    /\ UNCHANGED <<working, dir, partial, meta, lane, lock, tools, pc, locals,
                   history, commands>>

Copy(p) == \/ CopyCheck(p) \/ CopyOpen(p) \/ CopyWrite(p) \/ CopyReplace(p)
           \/ CopyPublish(p)
Repair(p) == \/ RepairLock(p) \/ RepairCheck(p) \/ RepairHash(p)
             \/ RepairMark(p) \/ RepairStart(p) \/ RepairMeasure(p)
             \/ RepairLosesDisk(p) \/ RepairSettle(p) \/ RepairRecord(p)
Continue(p) == Copy(p) \/ Repair(p)
Tool(p) == ToolWrite(p) \/ ToolExit(p)
Prepare == PrepareUnlink \/ PrepareReplace \/ PrepareDescribe

Next ==
    \/ \E p \in Procs : \/ CopyBegin(p) \/ RepairBegin(p) \/ Continue(p)
                        \/ Tool(p) \/ Stop(p)
    \/ Prepare
    \/ Edit

Spec == Init /\ [][Next]_vars
\* What the scheduling gives: a started command runs on, and TestDisk ends.
\* The code sets no time limit, so that TestDisk ends is an assumption.
FairSpec ==
    /\ Spec
    /\ \A p \in Procs : WF_vars(Continue(p)) /\ WF_vars(ToolExit(p))

-----------------------------------------------------------------------------
(* Properties.                                                             *)

TypeOK ==
    /\ disk \in Nat \cup {None}
    /\ diskMeta \in Nat
    /\ newest \in Nat
    /\ owed \subseteq Nat
    /\ dir \in BOOLEAN
    /\ partial \in Bytes \cup {Torn, None}
    /\ partition \in Bytes \cup {None}
    /\ meta \in Metadata \cup {None}
    /\ lane \in Lane \cup {None}
    /\ lock \in Procs \cup {None}
    /\ tools \subseteq Procs
    /\ pc \in [Procs -> Steps]
    /\ named \in [Procs -> Nat]
    /\ data \in [Procs -> Bytes \cup {None}]
    /\ read \in [Procs -> Metadata \cup {None}]
    /\ ok \in [Procs -> BOOLEAN]
    /\ attempts \in Nat
    /\ openedOn \subseteq Bytes
    /\ vouched \in BOOLEAN
    /\ commands \in Nat
    /\ events \in Nat

\* TestDisk is started only on the bytes that partition.json hashes, although
\* people can write to the slice between two commands.  If disk.raw.json
\* described disk.raw when the repair accepted the copy, they are the slice of
\* the very disk that partition.json names: the copy validates the disk before
\* it reads it, and disk.raw can go, be replaced and be described in between.
OpensVerifiedSlice ==
    openedOn # {} => /\ meta # None
                     /\ openedOn = {meta.pre}
                     /\ vouched => meta.pre = meta.source

\* What the ledger holds of a repair is the attempt that was made: the digest
\* it recorded is that of partition.json as it still is, which has a verdict.
LedgerCitesAttempt ==
    lane # None => /\ attempts = 1
                   /\ lane.evidence = meta
                   /\ meta.status \in Verdicts
                   /\ lane.status = "completed" => meta.post # meta.pre

Stage == IF meta = None THEN "none"
         ELSE IF meta.status = "not_attempted" THEN "copied"
         ELSE IF meta.status = "running" THEN "marked"
         ELSE "settled"

\* The copy, its lock and its running state implement RepairAttempt: whoever
\* is stopped where, TestDisk is started at most once on a copy, after the
\* attempt is marked, and the record of it is never taken back.
Attempt == INSTANCE RepairAttempt WITH
    stage    <- Stage,
    verdict  <- IF Stage = "settled" THEN meta.status ELSE "open",
    attempts <- attempts
ImplementsAttempt == Attempt!Spec

\* A command ends, with its lock given back, if TestDisk does: also one that
\* waits for the lock of a command that was killed or refused its copy.
RepairEnds == \A p \in Procs : pc[p] # "idle" ~> pc[p] = "idle"

\* paired_vm_case.py:3166 "Repair copy is missing; run disk-repair-copy first":
\* a target that disk-repair-copy refuses as existing is one that a copy made.
TargetHoldsCopy ==
    dir => \/ partial # None
           \/ partition # None
           \/ \E p \in Procs : pc[p] \in CopySteps \ {"copy_check"}

\* The same without the condition, which the code does not keep: a preparation
\* that is stopped between disk.raw and disk.raw.json leaves the old metadata
\* over the new disk, and the size is all that is compared.
SliceOfNamedDisk == openedOn # {} => meta.pre = meta.source

\* paired-vm-workflow.md:303 "A per-copy lock and an atomic `running` state
\* prevent concurrent repair attempts": one TestDisk at a time on a copy.
NoConcurrentAttempts == \A p, q \in tools : p = q
=============================================================================
