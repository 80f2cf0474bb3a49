---------------------------- MODULE PreserveImage ----------------------------
(***************************************************************************)
(* scripts/preserve_image.py: an image file is copied block by block, the  *)
(* copy is read again in full, and its state directory keeps a manifest    *)
(* and a status.  An attempt that failed or was killed is resumed: what is *)
(* there is compared with the source, then the copy goes on.               *)
(*                                                                         *)
(* A block holds the version of the source it was read from, or Damaged.   *)
(* Source, destination and lock file are open for as long as an attempt    *)
(* runs, so it has them to itself: the source changes, as its metadata     *)
(* then shows, but nobody writes to the destination while it is copied     *)
(* (the program asks for that protection where the system gives none).     *)
(* Manifest and status are replaced atomically and are durable; blocks of  *)
(* the copy are durable once the destination is synced.                    *)
(***************************************************************************)
EXTENDS Integers, Sequences

CONSTANTS
    PvProcs,        \* runs of the program
    PvBlocks,       \* blocks in the image
    PvMaxAttempts,  \* bound: attempts that hold the lock
    PvMaxEvents,    \* bound: faults, kills, power losses, changes
    Damaged,        \* a block that is not what was written
    Missing         \* no file, no holder

PvPhases == {"validating_resume", "verifying_resume_prefix", "copying",
             "verifying_destination", "failed", "complete"}
PvStatusRecord == [phase : PvPhases, checkpoint : 0 .. PvBlocks,
                   attempt : 1 .. PvMaxAttempts]
PvManifestRecord == [source : 0 .. PvMaxEvents, verified : 0 .. PvMaxAttempts,
                     edits : 0 .. PvMaxEvents]
PvFiles == Seq(0 .. PvMaxEvents \cup {Damaged})

ASSUME PvConstants ==
    /\ PvBlocks \in Nat \ {0}
    /\ PvMaxAttempts \in Nat /\ PvMaxEvents \in Nat
    /\ Damaged \notin Nat /\ Damaged # Missing
    /\ Missing \notin {"0", "1"} \cup Nat \cup PvProcs
    /\ Missing \notin PvFiles \cup PvManifestRecord \cup PvStatusRecord

VARIABLES
    pvSource,    \* version of the source
    pvDst,       \* blocks of the destination, or Missing
    pvSynced,    \* how many of them are durable
    pvEdits,     \* changes of the destination by others, as its mtime shows
    pvDir,       \* is there a state directory?
    pvManifest,  \* manifest.json: source version, and the last verification
    pvStatus,    \* status.json
    pvExit,      \* the exit marker, which the caller writes
    pvLock,      \* who holds run.lock
    pvPc,        \* per run: what it does next
    pvRead,      \* blocks the attempt has read from the source (its digest)
    pvReaders,   \* is the destination held by a reader, with a shared lock?
    pvAttempts,  \* attempts so far; the number of the last is its time stamp
    pvTried,     \* history: the last attempt that got to the source and destination
    pvEvents     \* faults and changes so far

pvRecords == <<pvManifest, pvStatus, pvExit>>
pvCounts  == <<pvAttempts, pvTried>>
pvVars == <<pvSource, pvDst, pvSynced, pvEdits, pvDir, pvRecords, pvLock, pvPc,
            pvRead, pvReaders, pvCounts, pvEvents>>

PvSteps == {"idle", "create", "manifest", "resume", "begin", "validate", "prefix", "copy",
            "verify", "verified", "complete"}

PvInit ==
    /\ pvSource = 0
    /\ pvDst = Missing /\ pvSynced = 0 /\ pvEdits = 0
    /\ pvDir = FALSE
    /\ pvManifest = Missing /\ pvStatus = Missing /\ pvExit = Missing
    /\ pvLock = Missing
    /\ pvPc = [p \in PvProcs |-> "idle"]
    /\ pvRead = <<>>
    /\ pvReaders = FALSE
    /\ pvAttempts = 0 /\ pvTried = 0 /\ pvEvents = 0

PvGo(p, step) == pvPc' = [pvPc EXCEPT ![p] = step]
PvEvent == pvEvents < PvMaxEvents /\ pvEvents' = pvEvents + 1

\* Recorder.update: the rest of the status is kept.
PvSay(phase, checkpoint) ==
    pvStatus' = [phase |-> phase, checkpoint |-> checkpoint, attempt |-> pvAttempts]

\* record_failure, then the lock is released: the status is left alone where
\* it cannot be written, or when there is no recorder yet.
PvGiveUp(p) ==
    /\ \/ /\ pvPc[p] \notin {"create", "manifest"}
          /\ PvSay("failed", IF pvStatus = Missing THEN 0 ELSE pvStatus.checkpoint)
       \/ UNCHANGED pvStatus
    /\ pvExit' = "1"
    /\ pvLock' = Missing
    /\ PvGo(p, "idle")

PvAttempt(p) ==
    /\ pvPc[p] = "idle" /\ pvLock = Missing
    /\ pvAttempts < PvMaxAttempts
    /\ pvAttempts' = pvAttempts + 1
    /\ pvLock' = p
    /\ pvRead' = <<>>
-----------------------------------------------------------------------------
\* A fresh run: nothing may be there; the state directory is made exclusively.
PvFresh(p) ==
    /\ ~pvDir /\ pvDst = Missing
    /\ PvAttempt(p)
    /\ pvDir' = TRUE
    /\ PvGo(p, "create")
    /\ UNCHANGED <<pvSource, pvDst, pvSynced, pvEdits, pvRecords, pvReaders, pvTried,
                   pvEvents>>

\* The source is opened, then the destination, which must be new; the
\* manifest follows.  Killed in between, neither a resume nor a fresh run is
\* possible.
PvCreate(p) ==
    /\ pvPc[p] = "create"
    /\ pvDst' = <<>>
    /\ pvTried' = pvAttempts
    /\ PvGo(p, "manifest")
    /\ UNCHANGED <<pvSource, pvSynced, pvEdits, pvDir, pvRecords, pvLock, pvRead,
                   pvReaders, pvAttempts, pvEvents>>
PvBind(p) ==
    /\ pvPc[p] = "manifest"
    /\ pvManifest' = [source |-> pvSource, verified |-> 0, edits |-> 0]
    /\ PvGo(p, "begin")
    /\ UNCHANGED <<pvSource, pvDst, pvSynced, pvEdits, pvDir, pvStatus, pvExit, pvLock,
                   pvRead, pvReaders, pvCounts, pvEvents>>

\* preserve: a resume reads the manifest, then takes the lock of the state
\* directory; without the lock it changes nothing.
PvResume(p) ==
    /\ pvManifest # Missing
    /\ PvAttempt(p)
    /\ PvGo(p, "resume")
    /\ UNCHANGED <<pvSource, pvDst, pvSynced, pvEdits, pvDir, pvRecords, pvReaders,
                   pvTried, pvEvents>>

\* Under the lock the manifest is no more what it was before: an attempt in
\* between has verified the copy.  Nothing is recorded of the refusal.
PvRefuse(p) ==
    /\ pvPc[p] = "resume"
    /\ pvManifest.verified >= 1
    /\ pvExit' = "1"
    /\ pvLock' = Missing
    /\ PvGo(p, "idle")
    /\ UNCHANGED <<pvSource, pvDst, pvSynced, pvEdits, pvDir, pvManifest, pvStatus, pvRead,
                   pvReaders, pvCounts, pvEvents>>

\* Faulty: the status of the attempt before stays until something is copied.
PvAnnounceQuietly(p) ==
    /\ pvPc[p] = "resume"
    /\ PvGo(p, "validate")
    /\ UNCHANGED <<pvSource, pvDst, pvSynced, pvEdits, pvDir, pvRecords, pvLock, pvRead,
                   pvReaders, pvCounts, pvEvents>>

\* The first write replaces any earlier success.  Where it fails (PvRaise) or
\* the attempt is killed before it (PvKill), the earlier status may stand.
PvAnnounce(p) ==
    /\ pvPc[p] = "resume"
    /\ PvSay("validating_resume", 0)
    /\ PvGo(p, "validate")
    /\ UNCHANGED <<pvSource, pvDst, pvSynced, pvEdits, pvDir, pvManifest, pvExit, pvLock,
                   pvRead, pvReaders, pvCounts, pvEvents>>

\* Does an attempt have the destination open, with an exclusive lock?
PvHoldsDst ==
    \E p \in PvProcs : pvPc[p] \notin {"idle", "create", "resume", "validate"}

\* Faulty: a lock that others have on the destination is not respected.
PvValidateUnlocked(p) ==
    /\ pvPc[p] = "validate"
    /\ pvTried' = pvAttempts
    /\ \/ /\ pvSource = pvManifest.source
          /\ PvGo(p, "begin")
          /\ UNCHANGED <<pvStatus, pvExit, pvLock>>
       \/ /\ pvSource # pvManifest.source
          /\ PvGiveUp(p)
    /\ UNCHANGED <<pvSource, pvDst, pvSynced, pvEdits, pvDir, pvManifest, pvRead,
                   pvReaders, pvAttempts, pvEvents>>

\* preflight, and the opened files against the manifest
PvValidate(p) ==
    /\ pvPc[p] = "validate"
    /\ pvTried' = pvAttempts
    /\ \/ /\ pvSource = pvManifest.source
          /\ ~pvReaders
          /\ PvGo(p, "begin")
          /\ UNCHANGED <<pvStatus, pvExit, pvLock>>
       \/ /\ pvSource # pvManifest.source \/ pvReaders
          /\ PvGiveUp(p)
    /\ UNCHANGED <<pvSource, pvDst, pvSynced, pvEdits, pvDir, pvManifest, pvRead,
                   pvReaders, pvAttempts, pvEvents>>

PvBegin(p) ==
    /\ pvPc[p] = "begin"
    /\ PvSay(IF pvDst = <<>> THEN "copying" ELSE "verifying_resume_prefix", 0)
    /\ PvGo(p, "prefix")
    /\ UNCHANGED <<pvSource, pvDst, pvSynced, pvEdits, pvDir, pvManifest, pvExit, pvLock,
                   pvRead, pvReaders, pvCounts, pvEvents>>

\* verify_prefix: every block that is there is compared with the source, one
\* after the other; then copying begins, at a checkpoint.
PvPrefix(p) ==
    /\ pvPc[p] = "prefix"
    /\ \/ /\ Len(pvRead) < Len(pvDst)
          /\ pvDst[Len(pvRead) + 1] = pvSource
          /\ pvRead' = Append(pvRead, pvSource)
          /\ UNCHANGED <<pvPc, pvStatus, pvExit, pvLock>>
       \/ /\ Len(pvRead) < Len(pvDst)
          /\ pvDst[Len(pvRead) + 1] # pvSource
          /\ PvGiveUp(p)
          /\ UNCHANGED pvRead
       \/ /\ Len(pvRead) = Len(pvDst)
          /\ PvSay("copying", Len(pvDst))
          /\ PvGo(p, "copy")
          /\ UNCHANGED <<pvRead, pvExit, pvLock>>
    /\ UNCHANGED <<pvSource, pvDst, pvSynced, pvEdits, pvDir, pvManifest, pvReaders,
                   pvCounts, pvEvents>>

\* Faulty: copying does not end at the size of the source.
PvCopyPastEnd(p) ==
    /\ pvPc[p] = "copy"
    /\ pvRead' = Append(pvRead, pvSource)
    /\ pvDst' = Append(pvDst, pvSource)
    /\ UNCHANGED <<pvSource, pvSynced, pvEdits, pvDir, pvRecords, pvLock, pvPc,
                   pvReaders, pvCounts, pvEvents>>

\* One block; the medium may keep something else.
PvCopy(p) ==
    /\ pvPc[p] = "copy"
    /\ Len(pvDst) < PvBlocks
    /\ pvRead' = Append(pvRead, pvSource)
    /\ \/ pvDst' = Append(pvDst, pvSource) /\ UNCHANGED pvEvents
       \/ PvEvent /\ pvDst' = Append(pvDst, Damaged)
    /\ UNCHANGED <<pvSource, pvSynced, pvEdits, pvDir, pvRecords, pvLock, pvPc,
                   pvReaders, pvCounts>>

\* From time to time the destination is synced, then the status says so.
PvCheckpoint(p) ==
    /\ pvPc[p] = "copy"
    /\ pvStatus.checkpoint < Len(pvDst)
    /\ pvSynced' = Len(pvDst)
    /\ PvSay("copying", Len(pvDst))
    /\ UNCHANGED <<pvSource, pvDst, pvEdits, pvDir, pvManifest, pvExit, pvLock, pvPc,
                   pvRead, pvReaders, pvCounts, pvEvents>>

\* All is copied and the source has not changed: the destination is synced.
PvFinish(p) ==
    /\ pvPc[p] = "copy"
    /\ Len(pvDst) = PvBlocks
    /\ \/ /\ pvSource = pvManifest.source
          /\ pvSynced' = PvBlocks
          /\ PvSay("verifying_destination", PvBlocks)
          /\ PvGo(p, "verify")
          /\ UNCHANGED <<pvExit, pvLock>>
       \/ /\ pvSource # pvManifest.source
          /\ PvGiveUp(p)
          /\ UNCHANGED pvSynced
    /\ UNCHANGED <<pvSource, pvDst, pvEdits, pvDir, pvManifest, pvRead, pvReaders,
                   pvCounts, pvEvents>>

\* Faulty: the destination is not read again.
PvVerifyUnread(p) ==
    /\ pvPc[p] = "verify"
    /\ PvGo(p, "verified")
    /\ UNCHANGED <<pvSource, pvDst, pvSynced, pvEdits, pvDir, pvRecords, pvLock, pvRead,
                   pvReaders, pvCounts, pvEvents>>

\* verify_destination: the hash of all of the destination is that of what was
\* read from the source.
PvVerify(p) ==
    /\ pvPc[p] = "verify"
    /\ \/ /\ pvDst = pvRead /\ pvSource = pvManifest.source
          /\ PvGo(p, "verified")
          /\ UNCHANGED <<pvStatus, pvExit, pvLock>>
       \/ /\ pvDst # pvRead \/ pvSource # pvManifest.source
          /\ PvGiveUp(p)
    /\ UNCHANGED <<pvSource, pvDst, pvSynced, pvEdits, pvDir, pvManifest, pvRead,
                   pvReaders, pvCounts, pvEvents>>

\* The manifest gets the verification, then the status is complete.
PvRecordVerified(p) ==
    /\ pvPc[p] = "verified"
    /\ pvManifest' = [source |-> pvManifest.source, verified |-> pvAttempts, edits |-> pvEdits]
    /\ PvGo(p, "complete")
    /\ UNCHANGED <<pvSource, pvDst, pvSynced, pvEdits, pvDir, pvStatus, pvExit, pvLock,
                   pvRead, pvReaders, pvCounts, pvEvents>>
PvComplete(p) ==
    /\ pvPc[p] = "complete"
    /\ PvSay("complete", PvBlocks)
    /\ pvExit' = "0"
    /\ pvLock' = Missing
    /\ PvGo(p, "idle")
    /\ UNCHANGED <<pvSource, pvDst, pvSynced, pvEdits, pvDir, pvManifest, pvRead,
                   pvReaders, pvCounts, pvEvents>>

\* A read, write or capacity check fails.
PvRaise(p) ==
    /\ pvPc[p] # "idle"
    /\ PvEvent
    /\ PvGiveUp(p)
    /\ UNCHANGED <<pvSource, pvDst, pvSynced, pvEdits, pvDir, pvManifest, pvRead,
                   pvReaders, pvCounts>>

\* The attempt is killed: the exit marker stays as it was.
PvKill(p) ==
    /\ pvPc[p] # "idle"
    /\ PvEvent
    /\ pvLock' = Missing
    /\ PvGo(p, "idle")
    /\ UNCHANGED <<pvSource, pvDst, pvSynced, pvEdits, pvDir, pvRecords, pvRead,
                   pvReaders, pvCounts>>

PvStep(p) ==
    \/ PvFresh(p) \/ PvCreate(p) \/ PvBind(p) \/ PvResume(p) \/ PvRefuse(p)
    \/ PvAnnounce(p) \/ PvValidate(p) \/ PvBegin(p) \/ PvPrefix(p) \/ PvCopy(p)
    \/ PvCheckpoint(p) \/ PvFinish(p) \/ PvVerify(p) \/ PvRecordVerified(p) \/ PvComplete(p)
    \/ PvRaise(p) \/ PvKill(p)

\* The power fails: of the blocks that are not durable, some are lost and
\* some hold nothing that was written.
PvPowerLoss ==
    /\ pvDst \notin {Missing, <<>>}
    /\ PvEvent
    /\ \E kept \in pvSynced .. Len(pvDst), whole \in pvSynced .. Len(pvDst) :
          pvDst' = [b \in 1 .. kept |-> IF b <= whole THEN pvDst[b] ELSE Damaged]
    /\ pvSynced' = Len(pvDst')
    /\ pvLock' = Missing
    /\ pvPc' = [p \in PvProcs |-> "idle"]
    /\ pvReaders' = FALSE
    /\ UNCHANGED <<pvSource, pvEdits, pvDir, pvRecords, pvRead, pvCounts>>

\* Someone changes the source; or, between attempts, the destination.
PvOther ==
    /\ PvEvent
    /\ \/ pvSource' = pvSource + 1 /\ UNCHANGED <<pvDst, pvEdits>>
       \/ /\ pvLock = Missing /\ pvDst \notin {Missing, <<>>}
          /\ \E b \in DOMAIN pvDst : pvDst' = [pvDst EXCEPT ![b] = Damaged]
          /\ pvEdits' = pvEdits + 1
          /\ UNCHANGED pvSource
    /\ UNCHANGED <<pvSynced, pvDir, pvRecords, pvLock, pvPc, pvRead, pvReaders, pvCounts>>

PvNext == (\E p \in PvProcs : PvStep(p)) \/ PvPowerLoss \/ PvOther
PvSpec == PvInit /\ [][PvNext]_pvVars
-----------------------------------------------------------------------------
PvTypeOK ==
    /\ pvSource \in 0 .. PvMaxEvents /\ pvEdits \in 0 .. PvMaxEvents
    /\ pvDst \in PvFiles \cup {Missing}
    /\ pvSynced \in 0 .. PvBlocks
    /\ pvDir \in BOOLEAN /\ pvReaders \in BOOLEAN
    /\ pvManifest \in PvManifestRecord \cup {Missing}
    /\ pvStatus \in PvStatusRecord \cup {Missing}
    /\ pvExit \in {"0", "1", Missing}
    /\ pvLock \in PvProcs \cup {Missing}
    /\ pvPc \in [PvProcs -> PvSteps]
    /\ pvRead \in PvFiles
    /\ pvAttempts \in 0 .. PvMaxAttempts /\ pvTried \in 0 .. PvMaxAttempts
    /\ pvEvents \in 0 .. PvMaxEvents

\* image-preservation.md: only phase complete is preservation completion.
\* Then the destination, unless someone changed it since, is durable and is,
\* block for block, the source the manifest names, whatever attempts failed,
\* were killed or lost power before.
PvCompleteIsCopy ==
    (pvStatus # Missing /\ pvStatus.phase = "complete" /\ pvEdits = pvManifest.edits)
        => /\ pvDst = [b \in 1 .. PvBlocks |-> pvManifest.source]
           /\ pvSynced = PvBlocks

\* image-preservation.md:22 "atomically replaces any previous success status
\* ... Source/path/metadata, capacity, and prefix checks follow": a completion
\* on record is that of the last attempt that got as far as these checks,
\* however it or later ones failed, were killed or lost their writes.  (An
\* attempt that ends before its first write has looked at nothing and leaves
\* the earlier completion standing.)
PvCompleteIsLatest ==
    (pvStatus # Missing /\ pvStatus.phase = "complete") => pvStatus.attempt = pvTried

\* image-preservation.md:24 "Copy checkpoints follow a destination
\* flush/fsync": what a checkpoint counts is durable.
PvCheckpointDurable ==
    (pvStatus # Missing /\ pvStatus.phase = "copying") => pvStatus.checkpoint <= pvSynced
=============================================================================
