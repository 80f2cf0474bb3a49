--------------------------- MODULE ImageInventory ---------------------------
(***************************************************************************)
(* scripts/collect_image_inventory.py beside scripts/preserve_image.py:    *)
(* when the exit marker of a preservation is there, its documents are read *)
(* one after the other and must agree (the gate); the copy is then held    *)
(* with a shared lock while the Sleuth Kit tools read it, stage by stage,  *)
(* and the gate must be the same at the end.  A failed or killed inventory *)
(* is resumed: stages that are complete are reused, under the same gate.   *)
(*                                                                         *)
(* One inventory runs at a time, under run.lock.  A preservation attempt   *)
(* may begin, fail or be killed at any step of it, and whoever ignores the *)
(* locks may change the copy.                                              *)
(***************************************************************************)
EXTENDS PreserveImage

CONSTANTS
    IvStageCount,  \* stages, in their order
    IvMaxRuns      \* bound: inventories started

IvPhases == {"waiting_for_preservation", "running", "failed", "complete"}
IvGates == [m : PvManifestRecord \cup {Missing}, s : PvStatusRecord \cup {Missing},
            digests : {<<>>} \cup ((PvManifestRecord \cup {Missing})
                                     \X (PvStatusRecord \cup {Missing}) \X {"0", "1", Missing})]

ASSUME IvConstants ==
    /\ IvStageCount \in Nat \ {0} /\ IvMaxRuns \in Nat
    /\ Missing \notin IvPhases \cup IvGates

VARIABLES
    ivPc,        \* what the inventory does next
    ivClosing,   \* is it the gate at the end that is read?
    ivSeen,      \* what this reading of the gate has found so far
    ivGate,      \* the gate the image was opened under
    ivManifest,  \* "image_identity" of its manifest, Missing without a manifest
    ivPhase,     \* "phase" of its status.json
    ivStage,     \* per stage: what it read of the image, if it is complete
    ivRuns       \* runs so far

ivVars == <<ivPc, ivClosing, ivSeen, ivGate, ivManifest, ivPhase, ivStage, ivRuns>>

IvStages == 1 .. IvStageCount
IvSteps  == {"idle", "start", "marker", "manifest", "status", "digests", "open",
             "stage", "run", "finish"}
NoGate   == [m |-> Missing, s |-> Missing, digests |-> <<>>]

IvInit ==
    /\ ivPc = "idle"
    /\ ivClosing = FALSE
    /\ ivSeen = NoGate /\ ivGate = NoGate
    /\ ivManifest = Missing /\ ivPhase = Missing
    /\ ivStage = [i \in IvStages |-> Missing]
    /\ ivRuns = 0

\* The except clause: the status says so, unless that fails too; the image
\* is released.
IvGiveUp ==
    /\ ivPhase' \in {"failed", ivPhase}
    /\ ivPc' = "idle"
    /\ pvReaders' = FALSE
    /\ UNCHANGED <<ivClosing, ivSeen, ivGate, ivManifest, ivStage, ivRuns>>

IvProceed(step) ==
    /\ ivPc' = step
    /\ UNCHANGED <<ivClosing, ivManifest, ivPhase, ivStage, ivRuns, pvReaders>>

\* protected_file: a shared lock, refused while an attempt has its own.
TakeImage == ~PvHoldsDst /\ pvReaders' = TRUE

\* The opened image has the size and the modification time of the gate.
ImageIsGated == Len(pvDst) = PvBlocks /\ pvEdits = ivGate.m.edits
-----------------------------------------------------------------------------
\* A new output directory, its lock and its manifest; then the status.
\* Killed in between, it cannot be resumed.
IvFresh ==
    /\ ivPc = "idle" /\ ivManifest = Missing
    /\ ivRuns < IvMaxRuns /\ ivRuns' = ivRuns + 1
    /\ ivManifest' = NoGate
    /\ ivPc' = "start"
    /\ UNCHANGED <<ivClosing, ivSeen, ivGate, ivPhase, ivStage, pvReaders>>
IvResume ==
    /\ ivPc = "idle" /\ ivManifest # Missing /\ ivPhase # Missing
    /\ ivRuns < IvMaxRuns /\ ivRuns' = ivRuns + 1
    /\ ivPc' = "start"
    /\ UNCHANGED <<ivClosing, ivSeen, ivGate, ivManifest, ivPhase, ivStage, pvReaders>>
IvStart ==
    /\ ivPc = "start"
    /\ ivPhase' = "waiting_for_preservation"
    /\ ivPc' = "marker"
    /\ ivClosing' = FALSE
    /\ ivSeen' = NoGate /\ ivGate' = NoGate
    /\ UNCHANGED <<ivManifest, ivStage, ivRuns, pvReaders>>

\* read_preservation_gate.  Without a marker the copy is not finished: the
\* inventory waits, in the end in vain.
IvMarker ==
    /\ ivPc = "marker"
    /\ \/ pvExit = "0" /\ IvProceed("manifest") /\ UNCHANGED <<ivSeen, ivGate>>
       \/ pvExit # "0" /\ IvGiveUp
IvReadManifest ==
    /\ ivPc = "manifest"
    /\ ivSeen' = [ivSeen EXCEPT !.m = pvManifest]
    /\ IvProceed("status")
    /\ UNCHANGED ivGate

\* The status must be a completion, and the one the manifest speaks of.
IvReadStatus ==
    /\ ivPc = "status"
    /\ \/ /\ pvStatus.phase = "complete" /\ pvStatus.attempt = ivSeen.m.verified
          /\ ivSeen' = [ivSeen EXCEPT !.s = pvStatus]
          /\ IvProceed("digests")
          /\ UNCHANGED ivGate
       \/ /\ ~(pvStatus.phase = "complete" /\ pvStatus.attempt = ivSeen.m.verified)
          /\ IvGiveUp

\* The digests of the three files are taken when they have been read.  The
\* gate must be the one of the stages done before, and at the end still the
\* one the image was opened under.
IvDigests ==
    /\ ivPc = "digests"
    /\ LET gate == [ivSeen EXCEPT !.digests = pvRecords]
           same == IF ivClosing THEN gate = ivGate ELSE ivManifest \in {NoGate, gate}
       IN  \/ /\ same
              /\ ivSeen' = NoGate
              /\ ivGate' = gate
              /\ IvProceed(IF ivClosing THEN "finish" ELSE "open")
           \/ ~same /\ IvGiveUp

\* The image is opened, with a shared lock if no preservation has it, and
\* checked; its gate goes into the manifest.
IvOpen ==
    /\ ivPc = "open"
    /\ \/ /\ TakeImage /\ ImageIsGated
          /\ ivManifest' = ivGate
          /\ ivPhase' = "running"
          /\ ivPc' = "stage"
          /\ UNCHANGED <<ivClosing, ivSeen, ivGate, ivStage, ivRuns>>
       \/ /\ PvHoldsDst \/ ~ImageIsGated
          /\ IvGiveUp

\* The first stage not complete; the image is checked before every stage,
\* and after it.
IvNextStage ==
    /\ ivPc = "stage"
    /\ \/ /\ ImageIsGated
          /\ \E i \in IvStages : ivStage[i] = Missing
          /\ IvProceed("run")
          /\ UNCHANGED <<ivSeen, ivGate>>
       \/ ~ImageIsGated /\ IvGiveUp

\* run_stage: the tool reads the image while it is held.  One that fails, or
\* is killed, is run again as the next attempt.
IvRunStage ==
    /\ ivPc = "run"
    /\ \E i \in IvStages :
          /\ ivStage[i] = Missing /\ \A j \in 1 .. i - 1 : ivStage[j] # Missing
          /\ ivStage' = [ivStage EXCEPT ![i] = pvDst]
    /\ ivPc' = "stage"
    /\ UNCHANGED <<ivClosing, ivSeen, ivGate, ivManifest, ivPhase, ivRuns, pvReaders>>

\* Faulty: after the last stage the image is not looked at again.
IvCloseUnchecked ==
    /\ ivPc = "stage"
    /\ \A i \in IvStages : ivStage[i] # Missing
    /\ ivClosing' = TRUE
    /\ ivPc' = "marker"
    /\ UNCHANGED <<ivSeen, ivGate, ivManifest, ivPhase, ivStage, ivRuns, pvReaders>>

\* All stages are complete and the catalog is written.
IvClose ==
    /\ ivPc = "stage"
    /\ ImageIsGated
    /\ \A i \in IvStages : ivStage[i] # Missing
    /\ ivClosing' = TRUE
    /\ ivPc' = "marker"
    /\ UNCHANGED <<ivSeen, ivGate, ivManifest, ivPhase, ivStage, ivRuns, pvReaders>>
IvFinish ==
    /\ ivPc = "finish"
    /\ ivPhase' = "complete"
    /\ ivPc' = "idle"
    /\ pvReaders' = FALSE
    /\ UNCHANGED <<ivClosing, ivSeen, ivGate, ivManifest, ivStage, ivRuns>>

\* Killed, or the power is lost
IvStop ==
    /\ ivPc' = "idle"
    /\ pvReaders' = FALSE
    /\ UNCHANGED <<ivClosing, ivSeen, ivGate, ivManifest, ivPhase, ivStage, ivRuns>>

\* A tool, a write or a limit fails, or the inventory is killed.
IvFault == ivPc # "idle" /\ PvEvent /\ (IvGiveUp \/ IvStop)

IvStep ==
    \/ IvFresh \/ IvResume \/ IvStart \/ IvMarker \/ IvReadManifest \/ IvReadStatus
    \/ IvDigests \/ IvOpen \/ IvNextStage \/ IvRunStage \/ IvClose \/ IvFinish

InventoryInit == PvInit /\ IvInit
InventoryNext ==
    \/ /\ (IvStep /\ UNCHANGED pvEvents) \/ IvFault
       /\ UNCHANGED <<pvSource, pvDst, pvSynced, pvEdits, pvDir, pvRecords, pvLock,
                      pvPc, pvRead, pvCounts>>
    \/ /\ (\E p \in PvProcs : PvStep(p)) \/ PvOther
       /\ UNCHANGED ivVars
    \/ PvPowerLoss /\ IvStop
InventorySpec == InventoryInit /\ [][InventoryNext]_<<pvVars, ivVars>>
-----------------------------------------------------------------------------
IvTypeOK ==
    /\ ivPc \in IvSteps
    /\ ivClosing \in BOOLEAN
    /\ ivSeen \in IvGates /\ ivGate \in IvGates
    /\ ivManifest \in IvGates \cup {Missing}
    /\ ivPhase \in IvPhases \cup {Missing}
    /\ ivStage \in [IvStages -> PvFiles \cup {Missing}]
    /\ ivRuns \in 0 .. IvMaxRuns

\* Every stage of a complete inventory, in whatever run it was done, read the
\* whole of the copy that was verified, and not a change to it.
IvCompleteReadVerified ==
    ivPhase = "complete" =>
        \A i \in IvStages : ivStage[i] = [b \in 1 .. PvBlocks |-> ivManifest.m.source]

\* While the tools have the image, no preservation attempt has it: an
\* attempt that validated before fails, one that copies is waited for.
IvExcludesCopy == pvReaders => ~PvHoldsDst
=============================================================================
