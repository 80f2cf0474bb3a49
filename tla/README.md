# Verification of forensic-copilot

TLA+ models, TLC configurations and TLAPS proofs about the programs of this
repository that keep state: the paired-VM case runner first, then the recovery,
preservation, intake and supervision scripts.  Every definition is translated
from the source; `PROJECT.json` names, for each one, the lines it stands for.

## The system

The repository holds agent prompts and documentation, and Python programs that
an examiner or an agent runs one command at a time, often several at once, on a
*case root* (a directory) and a read-only *evidence root*.  There is no server:
components interact through files, through advisory locks, and through the exit
codes of external tools.

| Component | State it keeps | Operations | What is hard | What makes it correct | Module |
|---|---|---|---|---|---|
| Completion gate (`scripts/paired_vm_case.py`) | `case.json`, `integrity.json`, `reviews/*.json`, the reports, `completion.json`, `.case-state.lock` | verify, record-result, prepare-review, finalize-report, case-status | verify runs without the lock; people edit files while commands run; crashes between writes; Windows lock timeouts | only an approved report with the current ledger is released; a finalized case is frozen; integrity evidence covers every source | `CaseLifecycle` |
| State files and locks | `NAME`, `NAME.tmp`, `.case-state.lock` | atomic_write_text, exclusive_file_lock | one temporary name for all writers; readers hold a file that is replaced | a state file is one text at any time | `AtomicWrite` |
| Partition repair | repair directory, `partition.raw`, `partition.json`, `.repair.lock` | disk-repair-copy, disk-repair-testdisk | the lock creates the directory the copy insists to create; a crash leaves `running` | TestDisk is let at a copy once, on the bytes that were verified; the ledger holds that attempt | `RepairCopy`, `ChangedSectors` |
| Working disks, timelines, memory conversion | file, `.partial`, metadata beside it | prepare-disks, memory-convert, disk-timeline, recovered-timeline, timeline-query, timeline-slice | a kill between the rename and the metadata; `--force`, `--restart` | metadata never describes another file | `DerivedFile` |
| Recovered and carved trees | tree, `.partial`, manifest, metadata, ledger lane | disk-recover, disk-recover-manifest, disk-carve, carve-finalize-external | four artifacts published one after the other; retry and retrofit | a tree the gate accepts is the one that was listed and recorded | `DerivedTree` |
| Gzip intake (`intake_gzip.py`) | partial, image, status | process_item, publish | overlapping runs; publication against status | what is published is the expected image, and `complete` says so only then | `GzipIntake` |
| Image preservation (`preserve_image.py`) | partial image, `status.json`, checkpoint, manifest | fresh copy, resume, verify | crash, power loss and resume; unsynced tails | the destination is complete and re-read before the status says so | `PreserveImage` |
| Image inventory (`collect_image_inventory.py`) | stages, manifest, status | gate, stages, resume | reads a copy that may be resumed meanwhile | each stage read the verified copy | `ImageInventory` |
| Catalog recovery (`recover_catalog.py`) | SQLite rows, streams, exports; output files | import, reconcile, export, resume | transactions, two reader threads, queue, interruption | partial output is never `complete`; kept bytes stay within the limit | `CatalogRecovery` |
| PhotoRec supervisor (`supervise_photorec.py`) | status, exit record, manifest of outputs | supervise, run_child, Recorder.check | walks a directory that PhotoRec changes; pumps, thresholds, deadlines | an accepted carve is mapped, file by file; a runaway tool is stopped | `PhotorecSupervisor` |
| Media probe (`probe_recovered_media.py`) | attempts, records, index, status | run, resume | a resume trusts earlier results | a reused record still matches its inputs | `MediaProbe` |
| Pattern analysis (`run_pattern_analysis.py`) | captures, a shared budget, provenance | run_bounded, analyze | two pipes share a budget; outputs of two runs | the provenance is true of the files beside it | `PatternAnalysis` |
| Super timeline (`build_super_timeline.py`) | sorted chunks, four outputs, provenance | write_chunk, merge_chunks, publication | chunk boundaries, equal keys, four renames | every event once, in order | `SuperTimeline` |
| Windows forensic VM (`forensic_vm.py`) | derivative, descriptor, run records | prepare, scan, repair | containers that outlive the controller | a repair follows a clean scan of the same bytes | `ForensicVm` |
| Attribution, summaries, MFT supplement, model probes, hygiene | none between runs | one-shot | - | - | not modelled |

`PROJECT.json` lists all components with their status, and under `hazards`
everything found that a test would hardly reach, with the properties that cover it
or the reason why none does.

The scripts are independent programs.  What composes is modelled as a composition:
verify, the gate and the other commands of a case (`CaseLifecycle`); copy, repair and
TestDisk (`RepairCopy`); preservation and the inventory that reads its copy
(`ImageInventory`, which extends `PreserveImage`).  Programs that share no state are
checked in one TLC run for economy: the MC modules choose a `route` at the start and a
behaviour is one of that component alone, so nothing is gained or lost by the others.

## The completion gate: `CaseLifecycle.tla`

State.  One variable per file: `evidence` (content, and whether size or time
moved since `init`), `disk` (`disk.raw` with its metadata), `output` (version of
the examiner's own outputs of a source), `report`, `review`, `integrity`, `case`,
`coverage`, `bundle`, `finalFile`, `completion`.  A hash is the content itself.
`lock` is the holder of `.case-state.lock`; `pc`, `job`, `run`, `bound` are the
Python locals of each running command.  `relied`, `approvals` and
`cutOff` (the scan whose mark integrity.json bears ended without a verdict) are history
variables that no action reads.

Actions.  A step is the code between two points where somebody else can change a
file that the command reads or writes.

| Command | Steps | Code |
|---|---|---|
| verify | `VerifyBegin` (lifecycle check, selection), `VerifyInvalidate` (in_progress), `VerifySource` once per source, `VerifyRaise` (the scan ends on an error), `VerifyPublish`, `VerifyLedger` or `VerifyTooLate` | `verify_case`, `update_integrity_work_items` |
| record-result | `Record`, one step under the lock | `record_work_result` |
| prepare-review | `GateBegin`, `CheckEvidence`, `CheckWork`, `CheckReport`, `WriteCoverage`, `WriteBundle`, `CommitReview` | `_prepare_review_locked`, `readiness_errors` |
| finalize-report | the same start, then `Bind`, `CheckReview`, `Publish`, `Complete`, `Seal` | `_finalize_report_locked` |
| any | `Refuse` (a check raises `CaseError`), `Crash` | |
| around | `EditReport`, `WriteReview`, `RunTool`, `AlterEvidence`, `AlterDisk` | people, tools, storage |

`case-status` only reads.  `VerifyRaise` is every way a scan ends without a verdict: the
`CaseError`s of verify_case itself (missing evidence, conflicting manifests, too little
space, a disk that does not fit its metadata, an older `.partial`), a failed read or
write, and a kill.  It leaves `in_progress`, and possibly a disk without its metadata
(`DisksLeft`).  `Crash` is the end of a process at any other step, or of a command whose
write fails there.

Abstractions.  A source stands for its image, memory dump and manifests, hashed
in one step; the lanes of a source are `"integrity"` (what verify sets) and
others; `completed_with_limit` counts as `completed`, `pending`, `running` and
`blocked` recorded by hand count as `failed`; the report is a body and a line
terminator; validation of the report text is membership in `Acceptable`.
Manifested trees (rehashed by `validate_derived_tree_artifacts`) are in
`DerivedTree`; here an output is one version number.  Files are
replaced in one step; `AtomicWrite` says when that is so, and that two verify
runs that write integrity.json at one time are the exception.

`CaseGate.tla` is the abstract promise: a ledger is amended, frozen with a report,
approved, released, once.  `CaseLifecycle` implements it (`ImplementsGate`) under
the mapping given at `Gate == INSTANCE CaseGate`.

### Runs

All are instances of `MCCaseLifecycle`; `None`, processes and sources are model
values.  Processes are symmetric in the safety runs.

| Run | Bounds | Shows |
|---|---|---|
| `case_quiet` | 2 processes, 1 source, 1 lane, 5 commands, 2 edits, crashes | `TypeOK`, `PeerApproved`, `FinalMatchesCompletion`, `FinalWrittenOnce`: with nobody writing while the gate holds the lock, a finalization may be interrupted anywhere and retried, with another report, and still publishes one approved text |
| `case_races` | 2 processes, 1 lane, 4 commands, 2 events, verify with and without the gzip test, crashes, edits inside the gate, foreign terminators, locks that give up | `ReviewMatchesLedger`, `FinalizedBound`, `FinalizedFrozen`, `ImplementsGate` |
| `case_evidence` | 1 process, 2 sources, 1 listed, subsets, 4 commands, 2 events | `ReliedIsClean` |
| `case_liveness` | 2 processes, 2 lanes (one optional), 3 commands, 1 event (altered evidence, or an edit of the report), errors of a scan, kills at any step, `FairSpec` | `CommandsEnd`, `GateDecided` |

Three commands are the shortest way to finalize a case with one lane (verify,
prepare-review, finalize-report).  Five leave room for a second preparation or
finalization after a crash, which is what the quiet properties are about; with
four, each of the other commands can overlap any step of a gate.  The liveness run
has a second lane so that record-result is among the commands that must end.

Fairness is weak fairness of `Continue(p)`: a started command runs on.  Nothing
is assumed of people or of the order in which the lock is granted; weak fairness
suffices because the number of started commands is finite.  `GateDecided` does not say
that integrity.json always leaves `in_progress`: a scan that raises leaves it there with
no process dead, until somebody runs verify again.  It says that nothing else does: not
an overlapping verify, a source that fails, or a ledger that refuses the update.

### Proofs: `CaseLifecycleProofs.tla`

For every value of the constants allowed by `ConstantsAssumption` (any finite or
infinite sets of processes, sources, lanes and texts; edits inside the gate,
foreign terminators, lost lock waits and crashes included) and `NoneIsNoFile` (the
marker of an absent file is not a file):

- `TypeCorrect`.  `TypeOK` is not inductive: `TypeInv` adds that the locals a step
  reads are there.
- `GateInvariant`: `GateInv` says who holds the lock (`LockHeld`), that a gate runs
  only on an open case (`GateOpen`), and what each step may count on
  (`WorkChecked`, `Preparing`, `Binding`, `Sealing`) because nobody else can write
  the case, the snapshot, the bundle or `completion.json` meanwhile.
  `GateFrame` handles every step that leaves those files alone, `GateAmend` the two
  that amend the ledger, `GateLocked` the steps of the lock holder.
- From it: `ReviewMatchesLedgerAlways`, `FinalizedBoundAlways`,
  `FinalizedFrozenAlways`.
- `ReliedIsCleanAlways`, with the invariant that a `verified` integrity.json is
  clean whoever wrote it.
- `GateImplemented`: the refinement of `CaseGate`, with `ApprovalInv` (a ready
  review was an approval of what it names).

- Three theorems have the conditions of the run `case_quiet` as hypotheses.  If nobody
  writes the documents while a gate holds the lock (`~ConcurrentEdits`):
  `PeerApprovedAlways`.  If moreover lines end one way (`Eols = {NativeEol}`):
  `FinalMatchesCompletionAlways` and `FinalWrittenOnceAlways`.  The run `case_races`
  drops both conditions, and there these three do not hold.  `QuietInv` adds to
  `GateInv` that what a gate has passed stays as it found it, the report since
  `CheckReport` (`ReportHeld`) and the review since `CheckReview` (`ReviewHeld`);
  `FinalHeld` that from `Publish` on the published text is the bound one, through
  crashes and retries.

Only model-checked: the liveness properties `CommandsEnd` and `GateDecided`.

## Partition repair: `RepairCopy.tla`

One repair directory `disk/repair/BASENAME`; a command with another offset,
length or copy id works in another.  State: `dir`, `partial`, `partition`, `meta`
(partition.json), `lane` (what the ledger recorded), `lock` (.repair.lock), `disk`
and `diskMeta` (which preparation disk.raw is, and which one disk.raw.json describes),
`newest` and `owed` (preparations made, and those not described yet), `tools` (commands whose container runs),
and per process the program counter and the locals `named`, `data`, `read`, `ok`.
`attempts`, `openedOn` and `vouched` (was disk.raw the disk of its metadata when a copy
was last accepted?) are history variables.

| Command | Steps | Code |
|---|---|---|
| disk-repair-copy | `CopyBegin` (validated disk metadata), `CopyCheck`, `CopyOpen`, `CopyWrite`, `CopyReplace`, `CopyPublish` | `create_repair_copy`, `copy_partition_range` |
| disk-repair-testdisk | `RepairBegin`, `RepairLock`, `RepairCheck`, `RepairHash`, `RepairMark`, `RepairStart`, `RepairMeasure`, `RepairLosesDisk`, `RepairSettle`, `RepairRecord` | `repair_partition_with_testdisk` |
| TestDisk | `ToolWrite`, `ToolExit` | `run_recorded`; the tool is external |
| around | `Stop` (kill, power cut, exception), `PrepareUnlink`, `PrepareReplace`, `PrepareDescribe`, `Edit` | prepare-disks `--force`, people |

`Stop` ends a command after any step and frees its lock, as the kernel does; it
does not end the container.  A preparation of the disk takes no lock: its removal of
disk.raw, its rename and its write of disk.raw.json come between any steps of the other
commands, and it can end after each of them.  All disks have one size, since that is what
the code compares (`validated_working_disk_metadata`); one of another size is refused like
one that is not there.  `Edit` does not happen while a repair holds the lock:
the code cannot tell an edit from TestDisk's own writes.

`RepairAttempt.tla` is the abstract promise: a copy is announced, marked, tried at
most once, settled, and never taken back.  `RepairCopy` implements it
(`ImplementsAttempt`) under the mapping at `Attempt == INSTANCE RepairAttempt`,
*if two disk-repair-copy commands of one BASENAME do not overlap*
(`ConcurrentCopies = FALSE`).  The code does nothing to ensure that: the run
`repair_copy_race` shows what happens when they do.

| Run | Bounds | Shows |
|---|---|---|
| `repair` | 3 processes, 4 commands, 1 event, `FairSpec` | `TypeOK`, `OpensVerifiedSlice`, `LedgerCitesAttempt`, `ImplementsAttempt`, `RepairEnds` |

Two commands make one attempt; four leave room for a killed repair and another one,
or a second copy.  The event is the removal or replacement of the disk or an edit of the
slice; overlapping preparations, which take two events, are left to the theorems.  `Outcomes` has three members: another content of the slice, a repaired one,
one of another length.

`OpensVerifiedSlice` says unconditionally that TestDisk starts on the bytes that
partition.json hashes.  That they are bytes of the disk it names needs a condition which
the code does not establish: that disk.raw.json was about disk.raw when the repair
accepted the copy.  A preparation stopped before its metadata leaves the old metadata over
a new disk of equal size, and a copy of it is accepted.  `tlc -config RepairTornDisk.cfg
MCRepairCopy` shows this as a violation of `SliceOfNamedDisk`.

Fairness: weak fairness of every started command, and of `ToolExit`.  The code runs
TestDisk without a time limit, so that it ends is an assumption about TestDisk;
without it no repair command need end.

`RepairCopyProofs.tla` proves, for any constants that `RepairConstants` and
`NoneIsNoFile` allow, `RepairTypeCorrect`; and under the hypothesis
`~ConcurrentCopies`, which stands in each statement: `OneAttempt`, that the
inductive invariant `OneAttemptInv` holds; from it `OpensVerifiedSliceAlways`,
`LedgerCitesAttemptAlways` and `AttemptImplemented`.  The properties are not
inductive: `OneAttemptInv` adds that only the holder of the lock is past
`repair_wait` and that a copy and an announced target exclude each other
(`Exclusion`), that partition.json tells how far the attempt is and its holder has
read it as it is (`StageInv`), and that the bytes of a copy are never older than the
disk it names, and no newer than the newest one (`SliceInv`, `NewestInv`): a repair that
finds the named disk to be the one that is there has therefore the bytes of that disk.
`RepairEnds` is model-checked only.

## Changed sectors: `ChangedSectors.tla`

`changed_sector_ranges` as a machine: one step per chunk compared as a whole, per
sector of a chunk that differs, and for the end.  `RangesAreTheRuns` compares the
result with its definition: a sector differs iff a range covers it, ranges are
maximal and in order, and the count is exact.  The run `outputs` takes every
two files of up to five sectors over two values and chunks of two (two full
chunks and a shorter one).  `ChangedSectorsProofs.tla` proves `RangesAreExact` for every
chunk size and length and every two files: the invariant is the same statement
about the sectors read so far, with the open run apart.  Division of a file into
sectors and the refusal of an empty or unaligned file are left out.

## State files: `AtomicWrite.tla`

One state file and its writers and readers, at the level of file operations: names
link to files, `open(NAME.tmp, "w")` makes or empties the file that `awTmp` links to,
`os.replace` moves the link to `awName`.  `Serial` says whether writers exclude each
other.  They do for `case.json` (every writer but `init --force` holds the case lock)
and for the files of the gate; they do not for `integrity.json`.  `AtomicRegister.tla`
is the promise: a value that is replaced as a whole; `AtomicWrite` implements it under
the mapping at `Register == INSTANCE AtomicRegister`.

The run `outputs` checks `ReadsOneText` and `ImplementsRegister` with 3 processes, 4
writes, 3 reads and `Serial`.  Four writes are enough for one that is killed, one that
finds its temporary file, and one that replaces a file being read.
`AtomicWriteProofs.tla` proves `ReadsOneTextAlways` and `RegisterImplemented` under the
hypothesis `Serial`, from `RegisterInvariant`: the file a writer has open is the one
`awTmp` links to and no reader has that.  Operating-system errors other than the
refusal of a replacement, and what a power cut does to unsynced data, are not modelled.

## Acquisition: `GzipIntake.tla`, `PreserveImage.tla`, `ImageInventory.tla`

The run is `acquisition` (`MCAcquisition`, `Acquisition.cfg`).

*Gzip intake.*  State: the source, `NAME.partial`, `NAME`, `NAME.status.json` (its stage)
and its temporary file, and per run where it is and what it has read.  Actions, one per
point where another run or program can come in between: `GzValidate`, `GzReserve`
(the status name is made exclusively), `GzOpen`, `GzDecompress`, `GzHash`, `GzRehash`,
`GzPublish` and `GzUnlink` (hard link, then unlink), `GzComplete`, `GzFail`; a save that
fails leaves its temporary file, which makes every later save fail.  `GzKill` and
`GzOther` are the environment.

*Preservation.*  The destination is a sequence of blocks, each the version of the source
it was read from or `Damaged`; `pvSynced` says how many are durable.  `PvFresh`,
`PvCreate` and `PvBind` begin a copy.  A resume takes the lock (`PvResume`), is refused if
the manifest is no more what it was (`PvRefuse`), announces itself in the status
(`PvAnnounce`), and goes on with `PvValidate`, `PvBegin` and `PvPrefix`; `PvCopy`, `PvCheckpoint`, `PvFinish`, `PvVerify`, `PvRecordVerified`,
`PvComplete` are common.  `PvRaise` is a failed operation with its handler, whose
own write may fail (`PvGiveUp`), `PvKill` a
kill without it, `PvPowerLoss` takes or damages what was not durable.  Files that the
program opens exclusively are not written by others meanwhile (`open_file` asks the
system for that; where it gives nothing the operator has to).

*Inventory.*  The documents of the gate are read one by one (`IvMarker`,
`IvReadManifest`, `IvReadStatus`, `IvDigests`) while a resumed copy may rewrite them; the
stages read the copy while it is held; the gate is read again at the end (`IvClose`).
The Sleuth Kit commands and the catalog they give are data.

| Property | Says |
|---|---|
| `GzPublishedIsVerified` | a file that this program published holds the expected bytes |
| `GzCompleteIsPublished` | stage `complete` stands beside such a file |
| `GzKeepsDestination` | a destination that is there is never replaced |
| `PvCompleteIsCopy` | with status `complete` the copy is durable and is the source, block for block |
| `PvCompleteIsLatest` | a completion on record is that of the last attempt that got as far as its checks of source and destination |
| `IvCompleteReadVerified` | each stage of a complete inventory read the verified copy |
| `IvExcludesCopy` | tools and a copying attempt never have the image at one time |

Bounds: two gzip runs at a time, three in all; two blocks, so that there is a first, a
last and a checkpoint between; two preservation processes and three attempts (one that
fails, one that is interrupted, one that completes); two stages, two inventories; three
events (faults, kills, power losses, changes by others) on either side.

### Proofs: `AcquisitionProofs.tla`

For any sets of runs and processes, any number of blocks, stages and events:

- `GzPublishedIsVerifiedAlways`, `GzCompleteIsPublishedAlways` and
  `GzKeepsDestinationAlways`, from `GzInv`: the status name is made once, so one run at
  most is ever past that (`GzOwnInv`), and at each step that run has checked what the
  step needs (`GzFileInv`).
- `PvCompleteIsCopyAlways` and `PvCompleteIsLatestAlways`, from `PvInv`: only the holder
  of the lock is anywhere (`PvLockInv`); versions of a source only grow, so a source that
  is the manifest's before and after a reading was it at every block (`PvReadInv`); a
  verification on record stands until somebody changes the copy (`PvVerifiedStands`);
  `complete` is the phase of the last attempt only, from its announcement on (`PvPhaseInv`;
  an attempt that ends before has looked at nothing, and the earlier status stands).
  `PvInvariant` states this of `PreserveImage` alone; the two theorems are about
  preservation and inventory together, whose steps leave `PvInv` alone (`PvBeside`).
- `IvCompleteReadVerifiedAlways` and `IvExcludesCopyAlways`, from `IvInv`: a complete
  stage holds the verified version, or the copy was changed since its gate was read, and
  then the gate at the close does not let the inventory complete (`IvStageInv`); readers
  and an attempt that holds the destination exclude each other (`IvReadersInv`).
- `AcquisitionTypes`: `TypeOK` of the composition.

## Recovery: `CatalogRecovery.tla`, `PhotorecSupervisor.tla`, `MediaProbe.tla`

The run is `recovery` (`MCRecovery`, `Recovery.cfg`).

*Catalog.*  `crDb` is committed, `crTx` what the open transaction sees: a kill loses the
difference, an exception commits it (the handler of the run does).  A row is
entered in two statements (`CrImport`, `CrImportRef`) and committed by batches.  An export
goes through `CrAttempt`, `CrCreate`, then `CrRead` (a thread puts chunks into a queue)
beside `CrWrite`, and `CrRecord`.  The stderr reader has no effect on the state and is
part of the failures.  Left out: selections other than `all` and `deleted`, rows that are
invalid or unsupported, alias counts, and the manifests made from the database at the end.

*Supervisor.*  PhotoRec creates, grows and renames outputs (`PhCarve`) while a walk looks
at one name after the other (`PhCheck`, `PhVisit`); when it has ended (`PhJoin`), its log,
reports and files are validated (`PhReadLog`, `PhReports`, `PhTake`, `PhLeftovers`).
`PhPumpStops` is a capture thread that gives up, `PhTimePasses` the deadline; the `stop`
steps write the status before the exit record.  The children that read the NTFS bitmap
run under the same code and are left out, as are the checks of the image and the tools
before the start.  The bound on the number of files is stated but, with three outputs of
which two are files, not reached.

*Probe.*  An attempt makes a directory, then a record, then the index entry; `MpReusable`
is what a resume asks of an earlier one.  On a resume the outer handler writes `failed`
over the `deferred` of the inner one (`MpHandleOutside`): the model does as the code does.

| Property | Says |
|---|---|
| `CrStreamsAreCatalog` | after the import a stream is what all its rows together say |
| `CrWithinLimit` | the bytes of all kept files are within the limit, each file has an attempt on record |
| `CrCompleteIsAll` | `complete` has all bytes of every wanted stream |
| `PhAcceptedIsMapped` | status `complete` with exit code 0 means the tool ended well, limits were kept, every file is reported once with its size |
| `PhStopsCarving` | a tool that goes on when its time is over is stopped |
| `MpCompleteIsProbed` | `complete` rests, for every row, on an indexed, intact record of a good probe of the producer's bytes |

Bounds: catalogs of three rows over two streams in any order and combination of size and
flags; batches of two, so that a batch ends inside the catalog; limit three, which one or
two files of one or two bytes reach; two runs, one event.  One ordinary output, one
thumbnail, one detection, up to two bytes each, limit three.  Two rows to probe, two runs,
two events.

Fairness: weak fairness of `Supervises`, the supervisor's own next step.  It is a program
that nobody waits for; its calls are bounded by timeouts.  Nothing is assumed of PhotoRec,
which is why `PhStopsCarving` says something.

### Proofs: `RecoveryProofs.tla`

For any catalog over any streams, any outputs and rows, any limits and batches:

- `CrStreamsAreCatalogAlways`, `CrWithinLimitAlways` and `CrCompleteIsAllAlways`, from
  `CrInv`.  `CrImportInv` says of the committed database and of the open transaction that
  a stream is what its rows entered so far say; a row entered twice says nothing new,
  which is what makes a resume after half a row right.  `CrAttemptInv` and `CrFilesInv`
  tie the attempt under way to its file; `CrUsedInv` says that what the run counts as
  used is what the files hold but for that attempt; `CrDoneInv` that a stream done with
  has its state from its last attempt.  The sum of sizes is the cardinality of a set of
  (file, byte) pairs, so that no recursion is needed.
- `PhAcceptedIsMappedAlways`, from `PhInv`: the tool is over before its log is read
  (`PhEndedInv`), outputs that are over do not change, and the manifest accounts for each
  one (`PhManifestInv`), as does the last walk for sizes (`PhWalkInv`).
- `MpCompleteIsProbedAlways`, from `MpInv`: a counted row is proved by its last attempt
  (`MpOkInv`), and an index entry has its record whatever was killed (`MpAllSound`).
- `RecoveryTypes`: `TypeOK` of the composition.

`PhStopsCarving` is liveness and only model-checked.

## Outputs: `PatternAnalysis.tla`, `SuperTimeline.tla`, `ForensicVm.tla`, `DerivedTree.tla`, `DerivedFile.tla`

The run is `outputs` (`MCOutputs`, `Outputs.cfg`), with `AtomicWrite` and `ChangedSectors`.

*Patterns.*  `PaRead`, `PaAdmitted`, `PaBounded` and `PaWrite` are the reader thread of
each pipe under the shared `OutputBudget`; `PaPoll` is the main thread.  `PaWriteFails` is
a thread that dies, `PaJoin` may give up on one that is late; `classify_execution` does not
know of either, and `PaRecordIsTrue` makes that exception and no other.  Outputs replace
earlier ones one by one, the provenance goes first and comes back last.  Two runs at one
time on one output directory are not modelled.

*Super timeline.*  Rows are read, sorted by chunks, merged by a heap, the partial files
renamed one after the other.  CSV and HTML carry the same two lists of events as JSONL and
summary, so their texts are abstracted to these.

*Virtual machine.*  `VmPrepare` to `VmDescribe` make the derivative; `VmStart` to
`VmVerdict` are a run of a machine.  A container that docker failed to remove, or whose
controller was killed, goes on writing (`vmStray`).  One controller at a time; the
auxiliary media are data.

*Trees.*  `dtPartial`, `dtTree`, `dtTmp`, `dtManifest`, `dtMeta` and `dtLane` are the
artifacts in the order of their publication, and a command can be killed between any two.
`DtRetrofit*` is disk-recover-manifest, `DtRecordByHand` record-result, `DtCheckReady` the
gate.  Commands run one at a time.

*Files.*  One module for four commands that publish one file and then its metadata, with
`--force` and `--restart`.  `dfTorn` marks a file whose command was killed between the
two, or that was made from such a file: until then, and only until then, `DfRecordsDescribe`
promises nothing.  `prepare-disks --force` removes the old disk at once, the others replace
it at the end.

| Property | Says |
|---|---|
| `PaRecordIsTrue` | the provenance is true of the outputs on disk: whose they are, how much, why they end |
| `StProvenanceIsTrue` | with a provenance the four outputs are of one run, every event once, in order |
| `VmRunsAccount` | a record accounts for every changed block; a completed repair follows a completed scan of the same bytes and target |
| `DtReadyTreesHold` | a case found ready has each recorded tree as it was listed, from a run that was complete |
| `DfRecordsDescribe` | a file in place is whole, and its metadata are about it |

Bounds: two jobs, reads of two bytes, limits of three bytes and two lines, tools that fill
one pipe past a read or both pipes, two runs, one event.  Timelines of two inputs with two
rows each, equal and invalid ones among them, and one of three rows; chunks of two, room
for one event in the summary, two runs, one event.  Three blocks, two targets, three
machine runs (scan, repair, scan), one event.  Four tree commands and two events.  Five
file commands, two events, and contents of which two have one size, so that a size alone
cannot tell them apart.

### Proofs: `SuperTimelineProofs.tla`, `OutputsProofs.tla`

- `StProvenanceIsTrueAlways`, for all inputs, chunk sizes and limits.  `StInv` says that
  memory, pending chunks and merged events hold every valid event read so far exactly
  once, with what is counted of them (`StBooks`, `StRead`); that chunks are sorted and
  nothing pending comes before what is merged (`Keeps`, part of `StBooks`); and which
  outputs are in place at each step of the publication (`StStage`, `StPlaced`).  The lemmas on
  order: a finite set of events has one and only one sequence in the order of its keys
  (`OrderExists`, `OrderUnique`), and the least of the heads of sorted chunks is the least
  of all that is pending (`ChunksTake`), which is the merge.
- `DfRecordsDescribeAlways`, from `DfInv`: a command under way holds what its metadata
  will say (`DfUnderWay`), and a file without true metadata is among `dfTorn`.
- `DtReadyTreesHoldAlways`, from `DtInv`: what a command has recorded in the ledger are
  metadata that vouch for the recorded manifest (`DtLanesVouch`); the gate compares the rest.
- `VmRunsAccountAlways`, from `VmInv`: what a run has seen is what its derivative was,
  containers left running included (`VmUnderWay`).  `ExtentsAccount` proves of
  `ChangedExtents`, for all images, that it covers exactly the changed blocks, in order
  and never next to each other.
- `PaRecordIsTrueAlways`, from `PaInv`: what each thread has read, holds and has written
  of its pipe (`PaStreamsInv`); the shared budget is what both keep, and if it has refused
  anything one of them has not written all it read (`PaBudgetInv`); the results so far
  are true, and those of an earlier run are gone before an output is replaced
  (`PaJobInv`, `PaTruthInv`).
- `OutputTypes`: `TypeOK` of the composition, under the hypothesis `Serial` (writers of a
  state file exclude each other, as the run has it), because the types of `AtomicWrite` rest on
  its invariant.

## What the proofs assume and what they leave

Assumptions on constants are in the modules, named, and evaluated by the runs.  Those on
sentinels (`NoneIsNoFile`, `DtNil`, `VmNil`, `PaNil`, `CrNil`, `PhNil`, `MpNil`) say that
the marker of nothing is not a value; the code has `None`, a missing key or a missing
file there, which nothing else equals.  Limits of the supervisor are positive, as its
argument check requires (`supervise_photorec.py`, lines 146-148); catalogs and manifests
are finite sequences of rows.  Hypotheses that the code does not establish stand in the
statement itself: `~ConcurrentEdits`, `Eols = {NativeEol}`, `~ConcurrentCopies`, `Serial`.

Recursive functions are proved about by a least counterexample: `LeastNumber` gives
every nonempty set of naturals a least member (from the well-foundedness of `<`, without
a theorem that takes an operator), and a step of the recursion contradicts it.  This is
how `ChangedExtents`, the line counts of `PatternAnalysis` and the order of sequences are
treated.

Every safety invariant and action property of a passing run is stated by a theorem, and
both refinements of the case runner and that of the state files are proved.  Only
model-checked are the liveness properties `CommandsEnd`, `GateDecided`, `RepairEnds` and
`PhStopsCarving` (fairness and ENABLED are out of the prover's reach), and the four runs
that expect a violation.

## Disagreements between code and documentation

Each is a run that TLC must find violated; `PROJECT.json` quotes the sentence and
the line.

| Run | What the code does |
|---|---|
| `case_frozen_integrity` | a verify that began before a finalization rewrites integrity.json after it |
| `repair_copy_race` | overlapping copies let a second TestDisk start beside the first |
| `preserve_checkpoint` | a resumed copy counts as its checkpoint blocks that nothing has synced |
| `derived_retry` | a timeline whose command was killed before its metadata is skipped by the retry, with status 0, and stays unusable |

Four more can be reproduced by hand with the configurations beside them; they are
narrower and are not among the project's runs:

- `tlc -config CaseForeignEol.cfg MCCaseLifecycle`: `FinalHashBound` fails, the published
  report does not have the bound hash when the working report has foreign line ends;
- `tlc -config RepairBeforeCopy.cfg MCRepairCopy`: `TargetHoldsCopy` fails, a refused
  repair leaves a directory that makes the copy impossible;
- `tlc -config RepairTornDisk.cfg MCRepairCopy`: `SliceOfNamedDisk` fails, TestDisk starts on
  a slice of another disk than partition.json names;
- `tlc -config AtomicShared.cfg AtomicWrite`: `HoldsOneText` fails, two verify runs leave
  integrity.json with part of a text.

The model of the gate has four more behaviours that a reader of the workflow guide
may not expect, and that no run checks: a case can be finalized while a verify that
started after the readiness check has integrity.json at `in_progress`; the ledger
update of one of two verify runs can record the digest of the other's integrity.json;
a crash between the writes of finalize-report leaves a final report without
completion.json; and a report saved while the gate is at work is published under
the reviewed hash.

## Not modelled

- `mft_export_supplement.py`, `inventory_timeline.py`, the attribution and summary scripts,
  the hygiene checker: one pass from inputs to an output, nothing between runs; their
  content is parsing, which these models abstract.
- Model and backend probes: clients of a language-model service, no shared state.
- `memory-plugins`, building of the auxiliary media, tool images: a sequence of external
  commands with recorded exit codes.
- `init --force`: it is refused as soon as the case root holds anything but the state
  file, its lock and the working report, so it can only start a case over that has no
  integrity record yet.  It takes no lock; one that runs beside the first command of a
  case is not modelled.  `init` itself is the initial state of `CaseLifecycle`.
- What a power loss leaves of state files: the case runner does not sync them and promises
  nothing.  `PreserveImage`, which does sync, is modelled with power losses.
- Prompts, agent definitions and documentation.

## Plan

1. `CaseLifecycle`, `CaseGate`, `RepairCopy`, `RepairAttempt`, `ChangedSectors`,
   `AtomicWrite`, `AtomicRegister` and their proofs (done).
2. `GzipIntake`, `PreserveImage`, `ImageInventory`; `CatalogRecovery`,
   `PhotorecSupervisor`, `MediaProbe`; `PatternAnalysis`, `SuperTimeline`, `ForensicVm`,
   `DerivedTree`, `DerivedFile` (modelled and checked).
3. Proofs of every safety invariant and action property of the passing runs, and of the
   three refinements (done), in eight modules.
4. Still to state: abstract specifications of the later components (a publication that is
   one step, for `DerivedFile`, `GzipIntake` and `SuperTimeline`; a copy that is complete
   at once, for `PreserveImage`), each with its refinement.

The project stays reviewable by staying small: a dozen runs and forty properties, each
with a fault of the code that it catches.
