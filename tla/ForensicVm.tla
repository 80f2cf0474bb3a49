----------------------------- MODULE ForensicVm -----------------------------
(***************************************************************************)
(* tooling/paired-vm/windows-forensic-vm/forensic_vm.py: a derivative of a *)
(* source image is copied and described; virtual machines that have no     *)
(* network then scan it, read-only, or repair it.  A repair asks for the   *)
(* record of a completed scan of the same bytes.  Each run maps the blocks *)
(* of the derivative before and after, and records what changed.           *)
(*                                                                         *)
(* An image is its blocks; a hash is the image.  A container outlives a    *)
(* controller that is killed, and docker rm may fail: a repair left alone  *)
(* goes on writing.                                                        *)
(***************************************************************************)
EXTENDS Integers, Sequences, FiniteSets

CONSTANTS
    VmBlocks,     \* number of blocks of the image
    VmTargets,    \* media, runtime image, volume, disk and partition of a run
    VmMaxRuns,    \* bound: runs started
    VmMaxEvents,  \* bound: failures, kills and changes by others
    VmNil

Blocks   == 0 .. VmBlocks - 1
Images   == [Blocks -> {0, 1}]
Pristine == [b \in Blocks |-> 0]
VmSteps  == {"idle", "copy", "describe", "before", "proof", "launch", "running", "after",
             "verdict"}

\* What run.json says, and what is known of a run
Extents   == Seq([first : Blocks, last : Blocks])
VmRecords == [complete : BOOLEAN, before : Images, after : Images, extents : Extents]
VmRun     == [mode : {"scan", "repair"}, target : VmTargets, record : VmRecords \cup {VmNil}]

ASSUME VmConstants ==
    /\ VmBlocks \in Nat \ {0} /\ VmMaxRuns \in Nat /\ VmMaxEvents \in Nat
    /\ VmNil \notin Images \cup VmRecords

VARIABLES
    vmSource,     \* the source image; its expected hash is the one of Pristine
    vmPartial,    \* the partial derivative, or VmNil
    vmDerivative, \* the derivative, or VmNil
    vmDescriptor, \* hash in the descriptor beside it, or VmNil
    vmRuns,       \* run directories: [mode, target, record], record VmNil or run.json
    vmPc,         \* what the controller does next
    vmBefore,     \* blockmap-before.json
    vmExit,       \* exit status of the container: VmNil is none
    vmFailure,    \* a failure is to be reported
    vmGuest,      \* the guest has written its completion marker
    vmAfter,      \* blockmap-after.json
    vmStray,      \* a container that repairs runs without its controller
    vmEvents

vmFiles == <<vmSource, vmPartial, vmDerivative, vmDescriptor, vmStray>>
vmLocal == <<vmBefore, vmExit, vmFailure, vmGuest, vmAfter>>
vmVars == <<vmFiles, vmRuns, vmPc, vmLocal, vmEvents>>

VmInit ==
    /\ vmSource = Pristine /\ vmPartial = VmNil /\ vmDerivative = VmNil /\ vmDescriptor = VmNil
    /\ vmStray = FALSE /\ vmRuns = <<>> /\ vmPc = "idle"
    /\ vmBefore = VmNil /\ vmExit = VmNil /\ vmFailure = FALSE /\ vmGuest = FALSE /\ vmAfter = VmNil
    /\ vmEvents = 0

VmEvent == vmEvents < VmMaxEvents /\ vmEvents' = vmEvents + 1
This    == vmRuns[Len(vmRuns)]

VmForget ==
    /\ vmBefore' = VmNil /\ vmExit' = VmNil /\ vmFailure' = FALSE /\ vmGuest' = FALSE
    /\ vmAfter' = VmNil
VmRaise == vmPc' = "idle" /\ VmForget
-----------------------------------------------------------------------------
\* copy_derivative refuses a derivative or a partial one that is there.
VmPrepare ==
    /\ vmPc = "idle" /\ vmDerivative = VmNil /\ vmPartial = VmNil
    /\ vmPartial' = vmSource
    /\ vmPc' = "copy"
    /\ UNCHANGED <<vmSource, vmDerivative, vmDescriptor, vmStray, vmRuns, vmLocal, vmEvents>>

\* The copy is complete: renamed if it has the hash expected, else kept partial.
VmPromote ==
    /\ vmPc = "copy"
    /\ IF vmPartial = Pristine
       THEN vmDerivative' = vmPartial /\ vmPartial' = VmNil /\ vmPc' = "describe"
       ELSE vmPc' = "idle" /\ UNCHANGED <<vmPartial, vmDerivative>>
    /\ UNCHANGED <<vmSource, vmDescriptor, vmStray, vmRuns, vmLocal, vmEvents>>

VmDescribe ==
    /\ vmPc = "describe"
    /\ vmDescriptor' = Pristine
    /\ vmPc' = "idle"
    /\ UNCHANGED <<vmSource, vmPartial, vmDerivative, vmStray, vmRuns, vmLocal, vmEvents>>

\* run_vm, with a descriptor, in a directory of its own
VmStart ==
    /\ vmPc = "idle" /\ vmDescriptor # VmNil /\ Len(vmRuns) < VmMaxRuns
    /\ \E mode \in {"scan", "repair"}, target \in VmTargets :
          vmRuns' = Append(vmRuns, [mode |-> mode, target |-> target, record |-> VmNil])
    /\ vmPc' = "before"
    /\ UNCHANGED <<vmFiles, vmLocal, vmEvents>>

\* validate_derivative: the descriptor beside it has the hash of these bytes.
VmIsDescribed(image) == image = vmDescriptor

\* write_blockmap, then validate_derivative of the hash it computed
VmBefore ==
    /\ vmPc = "before"
    /\ IF VmIsDescribed(vmDerivative)
       THEN /\ vmBefore' = vmDerivative
            /\ vmPc' = IF This.mode = "repair" THEN "proof" ELSE "launch"
            /\ UNCHANGED <<vmExit, vmFailure, vmGuest, vmAfter>>
       ELSE VmRaise
    /\ UNCHANGED <<vmFiles, vmRuns, vmEvents>>

\* Faulty: any record of a scan of these bytes will do, also of a failed one.
VmProvesFailed(run) ==
    /\ run.record # VmNil /\ run.mode = "scan"
    /\ run.record.before = vmBefore
    /\ run.target = This.target

\* validate_scan_proof: complete, of these bytes, before and after, with the
\* same media, volume, disk and partition
VmProves(run) ==
    /\ run.record # VmNil /\ run.mode = "scan" /\ run.record.complete
    /\ run.record.before = vmBefore /\ run.record.after = vmBefore
    /\ run.record.extents = <<>>
    /\ run.target = This.target

\* Which run is the proof is an argument; one that does not prove is refused.
VmProof ==
    /\ vmPc = "proof"
    /\ \/ /\ \E i \in DOMAIN vmRuns : VmProves(vmRuns[i])
          /\ vmPc' = "launch" /\ UNCHANGED vmLocal
       \/ VmRaise
    /\ UNCHANGED <<vmFiles, vmRuns, vmEvents>>

\* docker run
VmLaunch ==
    /\ vmPc = "launch"
    /\ vmPc' = "running"
    /\ UNCHANGED <<vmFiles, vmRuns, vmLocal, vmEvents>>

\* A machine that repairs writes to the derivative; one that scans cannot.
VmGuestWrites ==
    /\ vmStray \/ (vmPc = "running" /\ This.mode = "repair")
    /\ \E b \in Blocks : vmDerivative' = [vmDerivative EXCEPT ![b] = 1]
    /\ UNCHANGED <<vmSource, vmPartial, vmDescriptor, vmStray, vmRuns, vmPc, vmLocal, vmEvents>>

\* The machine ends, with its completion marker in the results or not.
VmEnds ==
    /\ vmPc = "running"
    /\ vmExit' \in {0, 1}
    /\ vmGuest' \in BOOLEAN
    /\ vmFailure' = (vmExit' # 0)
    /\ vmPc' = "after"
    /\ UNCHANGED <<vmFiles, vmRuns, vmBefore, vmAfter, vmEvents>>

\* Its time is over: the container is removed, which nobody checks.
VmTimeout ==
    /\ vmPc = "running"
    /\ vmFailure' = TRUE
    /\ vmGuest' \in BOOLEAN
    /\ \/ UNCHANGED <<vmStray, vmEvents>>
       \/ VmEvent /\ vmStray' = (vmStray \/ This.mode = "repair")
    /\ vmPc' = "after"
    /\ UNCHANGED <<vmSource, vmPartial, vmDerivative, vmDescriptor, vmRuns, vmBefore, vmExit,
                   vmAfter>>

\* The map after the run, whatever came of it
VmAfter ==
    /\ vmPc = "after"
    /\ vmAfter' = vmDerivative
    /\ vmPc' = "verdict"
    /\ UNCHANGED <<vmFiles, vmRuns, vmBefore, vmExit, vmFailure, vmGuest, vmEvents>>

\* Adjacent changed blocks are one extent.
WithBlock(before, after, extents, b) ==
    IF before[b] = after[b] THEN extents
    ELSE IF extents # <<>> /\ extents[Len(extents)].last = b - 1
    THEN [extents EXCEPT ![Len(extents)].last = b]
    ELSE Append(extents, [first |-> b, last |-> b])

\* changed_extents
ChangedExtents(before, after) ==
    LET upto[n \in 0 .. VmBlocks] ==
          IF n = 0 THEN <<>> ELSE WithBlock(before, after, upto[n - 1], n - 1)
    IN  upto[VmBlocks]

\* The results are extracted, which may fail, and run.json says what happened.
VmVerdict ==
    /\ vmPc = "verdict"
    /\ \E extracted \in BOOLEAN :
          LET extents == ChangedExtents(vmBefore, vmAfter)
              failed  == \/ vmFailure \/ ~extracted \/ ~vmGuest
                         \/ This.mode = "scan" /\ (vmAfter # vmBefore \/ extents # <<>>)
          IN  vmRuns' = [vmRuns EXCEPT ![Len(vmRuns)].record =
                           [complete |-> ~failed, before |-> vmBefore, after |-> vmAfter,
                            extents |-> extents]]
    /\ VmRaise
    /\ UNCHANGED <<vmFiles, vmEvents>>

\* The controller is killed, or docker or a disk fails it outside the run of the
\* machine; a container that it has started goes on.
VmKill ==
    /\ vmPc # "idle" /\ VmEvent
    /\ vmStray' = (vmStray \/ (vmPc = "running" /\ This.mode = "repair"))
    /\ VmRaise
    /\ UNCHANGED <<vmSource, vmPartial, vmDerivative, vmDescriptor, vmRuns>>

VmStrayEnds ==
    /\ vmStray
    /\ vmStray' = FALSE
    /\ UNCHANGED <<vmSource, vmPartial, vmDerivative, vmDescriptor, vmRuns, vmPc, vmLocal,
                   vmEvents>>

\* The source is damaged, or an examiner reviews and removes what an
\* interrupted copy has left.
VmOthers ==
    /\ vmPc = "idle"
    /\ \/ VmEvent /\ (\E b \in Blocks : vmSource' = [vmSource EXCEPT ![b] = 1])
          /\ UNCHANGED <<vmPartial, vmDerivative>>
       \/ vmPartial # VmNil /\ vmPartial' = VmNil
          /\ UNCHANGED <<vmSource, vmDerivative, vmEvents>>
       \/ vmDescriptor = VmNil /\ vmDerivative # VmNil /\ vmDerivative' = VmNil
          /\ UNCHANGED <<vmSource, vmPartial, vmEvents>>
    /\ UNCHANGED <<vmDescriptor, vmStray, vmRuns, vmPc, vmLocal>>

VmNext ==
    \/ VmPrepare \/ VmPromote \/ VmDescribe \/ VmStart \/ VmBefore \/ VmProof \/ VmLaunch
    \/ VmGuestWrites \/ VmEnds \/ VmTimeout \/ VmAfter \/ VmVerdict \/ VmKill \/ VmStrayEnds
    \/ VmOthers
VmSpec == VmInit /\ [][VmNext]_vmVars
-----------------------------------------------------------------------------
VmTypeOK ==
    /\ vmSource \in Images
    /\ vmPartial \in Images \cup {VmNil} /\ vmDerivative \in Images \cup {VmNil}
    /\ vmDescriptor \in {Pristine, VmNil} /\ vmPc \in VmSteps
    /\ vmDescriptor # VmNil => vmDerivative # VmNil
    /\ vmBefore \in Images \cup {VmNil} /\ vmAfter \in Images \cup {VmNil}
    /\ vmPc \in {"launch", "running", "after", "verdict"} => vmBefore = vmDescriptor
    /\ vmExit \in {0, 1, VmNil} /\ vmStray \in BOOLEAN
    /\ vmFailure \in BOOLEAN /\ vmGuest \in BOOLEAN
    /\ vmRuns \in Seq(VmRun)

\* The blocks that two images do not share, and those that extents cover
ChangedBlocks(before, after) == {b \in Blocks : before[b] # after[b]}
BlocksOf(extents) == UNION {extents[i].first .. extents[i].last : i \in DOMAIN extents}

\* Every record of a run, kept or failed, accounts for the derivative: it began
\* with the bytes of the source, and its extents are the blocks that changed, in
\* order and none next to another.  A scan that is complete has changed nothing;
\* a repair that is complete was preceded by such a scan of the same target,
\* whatever was killed, timed out or left running before.
VmRunsAccount ==
    \A i \in DOMAIN vmRuns :
        LET run == vmRuns[i]  record == run.record  es == record.extents
        IN  record # VmNil =>
              /\ record.before = Pristine
              /\ BlocksOf(es) = ChangedBlocks(record.before, record.after)
              /\ \A k \in 1 .. Len(es) - 1 : es[k].last + 1 < es[k + 1].first
              /\ run.mode = "scan" /\ record.complete => record.after = record.before
              /\ run.mode = "repair" /\ record.complete =>
                    \E k \in 1 .. i - 1 :
                        /\ vmRuns[k].mode = "scan" /\ vmRuns[k].target = run.target
                        /\ vmRuns[k].record # VmNil /\ vmRuns[k].record.complete
=============================================================================
