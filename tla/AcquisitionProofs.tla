-------------------------- MODULE AcquisitionProofs --------------------------
(* What acquisition calls complete is so.  Gzip intake publishes the       *)
(* expected raw image and nothing else; an image preservation that says    *)
(* complete has a durable copy of one version of the source, and a         *)
(* complete inventory read that copy; for any number of runs, attempts,    *)
(* blocks, stages, faults and power losses.                                *)
EXTENDS MCAcquisition, SequenceTheorems, TLAPS

-----------------------------------------------------------------------------
(* Gzip intake                                                             *)

\* The one run that has the status name, and with it the partial file.
GzOwns(p) == gzPc[p] \notin {"idle", "reserve"}

\* The steps at which the partial file is that of the run.
GzWriting == {"decompress", "hash", "rehash", "publish", "unlink"}

\* The status name, once made, stays, so one run at most ever gets past it.
GzOwnInv ==
    \A p \in GzProcs : GzOwns(p) =>
        /\ gzStatus # Absent
        /\ \A q \in GzProcs : GzOwns(q) => q = p

\* What that run has checked when it is at a step; a file at the destination
\* is that run's own, or another program's.
GzFileInv ==
    /\ \A p \in GzProcs :
          /\ GzOwns(p) => gzStatus # "complete"
          /\ gzPc[p] \in GzWriting => gzPartial \in {Raw, Bad}
          /\ gzPc[p] \in {"rehash", "publish"} => gzRead[p] = Raw
          /\ gzPc[p] = "publish" => gzPartial = Raw
          /\ gzPc[p] \in {"unlink", "complete", "failLate"} => gzDst = Raw
    /\ GzPublishedIsVerified
    /\ GzCompleteIsPublished

GzInv == GzTypeOK /\ GzOwnInv /\ GzFileInv

\* The invariant holds before any run has started.
LEMMA GzInvInit == GzInit => GzInv
<1>1. GzInit => gzTmp \in BOOLEAN
  BY Zenon DEF GzInit
<1> QED
  BY <1>1, GzConstants
  DEF GzInit, GzInv, GzOwnInv, GzFileInv, GzStages, GzTypeOK, GzSteps, GzOwns,
      GzWriting, GzPublishedIsVerified, GzCompleteIsPublished

\* A leftover temporary file is there or is not.
LEMMA GzTmpStep ==
  ASSUME gzTmp \in BOOLEAN, [GzNext]_gzVars
  PROVE  gzTmp' \in BOOLEAN
<1> USE DEF GzGo, GzEvent, gzFiles, GzSave, GzSaveFails
<1>1. ASSUME NEW p \in GzProcs, GzValidate(p) PROVE gzTmp' \in BOOLEAN
  BY <1>1, Zenon DEF GzValidate
<1>2. ASSUME NEW p \in GzProcs, GzReserve(p) PROVE gzTmp' \in BOOLEAN
  BY <1>2, Zenon DEF GzReserve
<1>3. ASSUME NEW p \in GzProcs, GzOpen(p) PROVE gzTmp' \in BOOLEAN
  BY <1>3, Zenon DEF GzOpen
<1>4. ASSUME NEW p \in GzProcs, GzDecompress(p) PROVE gzTmp' \in BOOLEAN
  BY <1>4, Zenon DEF GzDecompress
<1>5. ASSUME NEW p \in GzProcs, GzHash(p) PROVE gzTmp' \in BOOLEAN
  BY <1>5, Zenon DEF GzHash
<1>6. ASSUME NEW p \in GzProcs, GzRehash(p) PROVE gzTmp' \in BOOLEAN
  BY <1>6, Zenon DEF GzRehash
<1>7. ASSUME NEW p \in GzProcs, GzPublish(p) PROVE gzTmp' \in BOOLEAN
  BY <1>7, Zenon DEF GzPublish
<1>8. ASSUME NEW p \in GzProcs, GzUnlink(p) PROVE gzTmp' \in BOOLEAN
  BY <1>8, Zenon DEF GzUnlink
<1>9. ASSUME NEW p \in GzProcs, GzComplete(p) PROVE gzTmp' \in BOOLEAN
  BY <1>9, Zenon DEF GzComplete
<1>10. ASSUME NEW p \in GzProcs, GzRaise(p) PROVE gzTmp' \in BOOLEAN
  BY <1>10, Zenon DEF GzRaise
<1>11. ASSUME NEW p \in GzProcs, GzFail(p) PROVE gzTmp' \in BOOLEAN
  BY <1>11, Zenon DEF GzFail
<1>12. ASSUME NEW p \in GzProcs, GzKill(p) PROVE gzTmp' \in BOOLEAN
  BY <1>12, Zenon DEF GzKill
<1>13. CASE GzOther
  BY <1>13 DEF GzOther
<1>14. CASE UNCHANGED gzVars
  BY <1>14 DEF gzVars
<1> QED
  BY <1>1, <1>2, <1>3, <1>4, <1>5, <1>6, <1>7, <1>8, <1>9, <1>10, <1>11, <1>12,
     <1>13, <1>14 DEF GzNext, GzStep

\* Every step keeps the manifest, the files and the locals in their types.
LEMMA GzTypeStep ==
  ASSUME GzTypeOK, [GzNext]_gzVars
  PROVE  GzTypeOK'
<1>tmp. gzTmp' \in BOOLEAN
  BY GzTmpStep DEF GzTypeOK
<1> USE <1>tmp, GzConstants
    DEF GzTypeOK, GzSteps, GzStages, GzGo, GzEvent, gzFiles, GzSave, GzSaveFails
<1>1. ASSUME NEW p \in GzProcs, GzValidate(p) PROVE GzTypeOK'
  BY <1>1 DEF GzValidate
<1>2. ASSUME NEW p \in GzProcs, GzReserve(p) PROVE GzTypeOK'
  BY <1>2 DEF GzReserve
<1>3. ASSUME NEW p \in GzProcs, GzOpen(p) PROVE GzTypeOK'
  BY <1>3 DEF GzOpen
<1>4. ASSUME NEW p \in GzProcs, GzDecompress(p) PROVE GzTypeOK'
  BY <1>4 DEF GzDecompress
<1>5. ASSUME NEW p \in GzProcs, GzHash(p) PROVE GzTypeOK'
  BY <1>5 DEF GzHash
<1>6. ASSUME NEW p \in GzProcs, GzRehash(p) PROVE GzTypeOK'
  BY <1>6 DEF GzRehash
<1>7. ASSUME NEW p \in GzProcs, GzPublish(p) PROVE GzTypeOK'
  BY <1>7 DEF GzPublish
<1>8. ASSUME NEW p \in GzProcs, GzUnlink(p) PROVE GzTypeOK'
  BY <1>8 DEF GzUnlink
<1>9. ASSUME NEW p \in GzProcs, GzComplete(p) PROVE GzTypeOK'
  BY <1>9 DEF GzComplete
<1>10. ASSUME NEW p \in GzProcs, GzRaise(p) PROVE GzTypeOK'
  BY <1>10 DEF GzRaise
<1>11. ASSUME NEW p \in GzProcs, GzFail(p) PROVE GzTypeOK'
  BY <1>11 DEF GzFail
<1>12. ASSUME NEW p \in GzProcs, GzKill(p) PROVE GzTypeOK'
  BY <1>12 DEF GzKill
<1>13. CASE GzOther
  BY <1>13 DEF GzOther
<1>14. CASE UNCHANGED gzVars
  BY <1>14 DEF gzVars
<1> QED
  BY <1>1, <1>2, <1>3, <1>4, <1>5, <1>6, <1>7, <1>8, <1>9, <1>10, <1>11, <1>12,
     <1>13, <1>14 DEF GzNext, GzStep

\* Whatever happens, the temporary file at a run's own path is that run's.
LEMMA GzOwnStep ==
  ASSUME GzTypeOK, GzOwnInv, [GzNext]_gzVars
  PROVE  GzOwnInv'
<1> USE GzConstants
    DEF GzTypeOK, GzOwnInv, GzOwns, GzStages, GzGo, GzEvent, gzFiles, GzSave, GzSaveFails
<1>1. ASSUME NEW p \in GzProcs, GzValidate(p) PROVE GzOwnInv'
  BY <1>1 DEF GzValidate
<1>2. ASSUME NEW p \in GzProcs, GzReserve(p) PROVE GzOwnInv'
  BY <1>2 DEF GzReserve
<1>3. ASSUME NEW p \in GzProcs, GzOpen(p) PROVE GzOwnInv'
  BY <1>3 DEF GzOpen
<1>4. ASSUME NEW p \in GzProcs, GzDecompress(p) PROVE GzOwnInv'
  BY <1>4 DEF GzDecompress
<1>5. ASSUME NEW p \in GzProcs, GzHash(p) PROVE GzOwnInv'
  BY <1>5 DEF GzHash
<1>6. ASSUME NEW p \in GzProcs, GzRehash(p) PROVE GzOwnInv'
  BY <1>6 DEF GzRehash
<1>7. ASSUME NEW p \in GzProcs, GzPublish(p) PROVE GzOwnInv'
  BY <1>7 DEF GzPublish
<1>8. ASSUME NEW p \in GzProcs, GzUnlink(p) PROVE GzOwnInv'
  BY <1>8 DEF GzUnlink
<1>9. ASSUME NEW p \in GzProcs, GzComplete(p) PROVE GzOwnInv'
  BY <1>9 DEF GzComplete
<1>10. ASSUME NEW p \in GzProcs, GzRaise(p) PROVE GzOwnInv'
  BY <1>10 DEF GzRaise
<1>11. ASSUME NEW p \in GzProcs, GzFail(p) PROVE GzOwnInv'
  BY <1>11 DEF GzFail
<1>12. ASSUME NEW p \in GzProcs, GzKill(p) PROVE GzOwnInv'
  BY <1>12 DEF GzKill
<1>13. CASE GzOther
  BY <1>13 DEF GzOther
<1>14. CASE UNCHANGED gzVars
  BY <1>14 DEF gzVars
<1> QED
  BY <1>1, <1>2, <1>3, <1>4, <1>5, <1>6, <1>7, <1>8, <1>9, <1>10, <1>11, <1>12,
     <1>13, <1>14 DEF GzNext, GzStep

\* Every step keeps what the stages say about the files, for all runs at once.
LEMMA GzFileStep ==
  ASSUME GzTypeOK, GzOwnInv, GzFileInv, [GzNext]_gzVars
  PROVE  GzFileInv'
<1> USE GzConstants
    DEF GzTypeOK, GzOwnInv, GzFileInv, GzOwns, GzWriting, GzStages, GzPublishedIsVerified,
        GzCompleteIsPublished, GzGo, GzEvent, gzFiles, GzSave, GzSaveFails
<1>1. ASSUME NEW p \in GzProcs, GzValidate(p) PROVE GzFileInv'
  BY <1>1 DEF GzValidate
<1>2. ASSUME NEW p \in GzProcs, GzReserve(p) PROVE GzFileInv'
  BY <1>2 DEF GzReserve
<1>3. ASSUME NEW p \in GzProcs, GzOpen(p) PROVE GzFileInv'
  BY <1>3 DEF GzOpen
<1>4. ASSUME NEW p \in GzProcs, GzDecompress(p) PROVE GzFileInv'
  BY <1>4 DEF GzDecompress
<1>5. ASSUME NEW p \in GzProcs, GzHash(p) PROVE GzFileInv'
  BY <1>5 DEF GzHash
<1>6. ASSUME NEW p \in GzProcs, GzRehash(p) PROVE GzFileInv'
  BY <1>6 DEF GzRehash
<1>7. ASSUME NEW p \in GzProcs, GzPublish(p) PROVE GzFileInv'
  BY <1>7 DEF GzPublish
<1>8. ASSUME NEW p \in GzProcs, GzUnlink(p) PROVE GzFileInv'
  BY <1>8 DEF GzUnlink
<1>9. ASSUME NEW p \in GzProcs, GzComplete(p) PROVE GzFileInv'
  BY <1>9 DEF GzComplete
<1>10. ASSUME NEW p \in GzProcs, GzRaise(p) PROVE GzFileInv'
  BY <1>10 DEF GzRaise
<1>11. ASSUME NEW p \in GzProcs, GzFail(p) PROVE GzFileInv'
  BY <1>11 DEF GzFail
<1>12. ASSUME NEW p \in GzProcs, GzKill(p) PROVE GzFileInv'
  BY <1>12 DEF GzKill
<1>13. CASE GzOther
  BY <1>13 DEF GzOther
<1>14. CASE UNCHANGED gzVars
  BY <1>14 DEF gzVars
<1> QED
  BY <1>1, <1>2, <1>3, <1>4, <1>5, <1>6, <1>7, <1>8, <1>9, <1>10, <1>11, <1>12,
     <1>13, <1>14 DEF GzNext, GzStep

\* The exclusive status name makes every run but one harmless.
THEOREM GzInvariant == GzSpec => []GzInv
  BY GzInvInit, GzTypeStep, GzOwnStep, GzFileStep, PTL DEF GzSpec, GzInv

\* The destination holds what another program put there, or the raw image.
THEOREM GzPublishedIsVerifiedAlways == GzSpec => []GzPublishedIsVerified
<1>1. GzInv => GzPublishedIsVerified
  BY DEF GzInv, GzFileInv
<1> QED
  BY <1>1, GzInvariant, PTL

\* A status that says complete stands beside the published image, for good.
THEOREM GzCompleteIsPublishedAlways == GzSpec => []GzCompleteIsPublished
<1>1. GzInv => GzCompleteIsPublished
  BY DEF GzInv, GzFileInv
<1> QED
  BY <1>1, GzInvariant, PTL

\* os.link refuses a name that is taken: no step replaces a destination.
THEOREM GzKeepsDestinationAlways == GzSpec => GzKeepsDestination
<1>1. [GzNext]_gzVars => [gzDst # Absent => gzDst' = gzDst]_gzVars
  BY DEF GzNext, GzStep, gzVars, gzFiles, GzValidate, GzReserve, GzOpen, GzDecompress,
         GzHash, GzRehash, GzPublish, GzUnlink, GzComplete, GzRaise, GzFail, GzKill, GzOther
<1> QED
  BY <1>1, PTL DEF GzSpec, GzKeepsDestination

-----------------------------------------------------------------------------
(* Image preservation                                                      *)

\* The copy of a source that stays what it is
PvWhole(version) == [b \in 1 .. PvBlocks |-> version]

\* Where the attempt is tells what is there, and only the holder of the
\* lock is anywhere.
PvLockInv ==
    /\ \A p \in PvProcs :
          /\ pvPc[p] # "idle" => pvLock = p /\ pvDir /\ pvAttempts >= 1
          /\ pvPc[p] \in {"create", "manifest"} => pvManifest = Missing
          /\ pvPc[p] \notin {"idle", "create", "manifest"} => pvManifest # Missing
          /\ pvPc[p] = "create" => pvDst = Missing
          /\ pvPc[p] = "manifest" => pvDst # Missing
    /\ ~pvDir => pvManifest = Missing
    /\ pvManifest # Missing => pvDst # Missing
    /\ pvStatus # Missing => pvManifest # Missing
    /\ pvExit = "0" => pvStatus # Missing

\* What is never more than what
PvBoundInv ==
    /\ pvSource + pvEdits <= pvEvents
    /\ pvDst = Missing => pvSynced = 0
    /\ pvDst # Missing => Len(pvDst) <= PvBlocks /\ pvSynced <= Len(pvDst)
    /\ pvManifest # Missing => /\ pvManifest.source <= pvSource
                               /\ pvManifest.edits <= pvEdits
                               /\ pvManifest.verified <= pvAttempts

\* A source that was the manifest's before the reading and after it was it
\* at every block: versions only grow.
PvReadInv ==
    \A p \in PvProcs :
        /\ pvPc[p] \in {"create", "manifest", "resume", "validate", "begin"}
              => pvRead = <<>>
        /\ pvPc[p] = "prefix" => Len(pvRead) <= Len(pvDst)
        /\ pvPc[p] = "copy" => Len(pvRead) = Len(pvDst)
        /\ pvPc[p] \in {"prefix", "copy"} =>
              \A b \in 1 .. Len(pvRead) :
                  pvRead[b] \in pvManifest.source .. pvSource
        /\ pvPc[p] \in {"verify", "verified", "complete"} =>
              /\ pvRead = PvWhole(pvManifest.source)
              /\ Len(pvDst) = PvBlocks /\ pvSynced = PvBlocks
        /\ pvPc[p] = "verified" => pvDst = PvWhole(pvManifest.source)

\* A verification on record stands until somebody changes the copy: no later
\* attempt, fault or power loss takes anything from it.
PvVerifiedStands ==
    (pvManifest # Missing /\ pvManifest.verified >= 1 /\ pvManifest.edits = pvEdits)
        => pvDst = PvWhole(pvManifest.source) /\ pvSynced = PvBlocks

\* Completion is that of the last attempt that got to the files, and on the
\* record; only an attempt that has not announced itself finds one.
PvPhaseInv ==
    /\ \A p \in PvProcs :
          /\ pvPc[p] = "complete" => pvManifest.verified >= 1
          /\ pvPc[p] \notin {"idle", "create", "resume", "validate"}
                => pvTried = pvAttempts
    /\ (pvStatus # Missing /\ pvStatus.phase = "complete") =>
          /\ \A p \in PvProcs : pvPc[p] \in {"idle", "resume"}
          /\ pvStatus.attempt = pvTried
          /\ pvManifest.verified >= 1

PvInv ==
    /\ PvTypeOK /\ PvLockInv /\ PvBoundInv
    /\ PvReadInv /\ PvVerifiedStands /\ PvPhaseInv

\* A step of the inventory leaves all but readers and events alone.
PvBeside ==
    /\ UNCHANGED <<pvSource, pvDst, pvSynced, pvEdits, pvDir, pvRecords, pvLock,
                   pvPc, pvRead, pvCounts>>
    /\ pvReaders' \in BOOLEAN
    /\ UNCHANGED pvEvents \/ PvEvent

PvMove == PvNext \/ PvBeside

-----------------------------------------------------------------------------
\* The gate: m was read from a manifest with a verification on record, and
\* its source is that of the manifest of today.
IvGood(m) ==
    /\ m \in PvManifestRecord /\ m.verified >= 1
    /\ pvManifest # Missing
    /\ m.source = pvManifest.source
    /\ m.verified <= pvManifest.verified /\ m.edits <= pvManifest.edits

IvRead(m) ==
    /\ m \in PvManifestRecord
    /\ pvManifest # Missing
    /\ m.source = pvManifest.source
    /\ m.verified <= pvManifest.verified /\ m.edits <= pvManifest.edits

\* Readings of the gate, and the gate of the stages that are complete.
IvGateInv ==
    /\ ivPc \in {"manifest", "status", "digests", "open", "stage", "run", "finish"} =>
          pvManifest # Missing /\ pvStatus # Missing
    /\ ivPc = "status" => IvRead(ivSeen.m)
    /\ ivPc = "digests" => IvGood(ivSeen.m)
    /\ ivPc \in {"open", "stage", "run", "finish"} => IvGood(ivGate.m)
    /\ ivPc = "open" => ivManifest \in {NoGate, ivGate}
    /\ ivPc \in {"stage", "run", "finish"} => ivManifest = ivGate
    /\ (ivClosing /\ ivPc \in {"marker", "manifest", "status", "digests", "finish"}) =>
          ivManifest = ivGate /\ IvGood(ivGate.m)
    /\ ivManifest \notin {Missing, NoGate} => IvGood(ivManifest.m)

\* Readers hold the copy of an attempt that is over; none has it meanwhile.
IvReadersInv == pvReaders => pvManifest # Missing /\ ~PvHoldsDst

\* What the complete stages read: the verified copy, or a later change to
\* it, and then the gate they were done under is no more.
IvWhole(i) == ivStage[i] = PvWhole(ivManifest.m.source)

\* From the check at the close of the last stage on, until the next run
IvClosed ==
    \/ ivPhase = "complete"
    \/ ivPc \in {"marker", "manifest", "status", "digests"} /\ ivClosing
    \/ ivPc = "finish"

IvStageInv ==
    /\ \A i \in IvStages : ivStage[i] # Missing =>
          /\ ivManifest \notin {Missing, NoGate}
          /\ IvWhole(i) \/ pvEdits > ivManifest.m.edits
    /\ IvClosed => /\ \A i \in IvStages : IvWhole(i)
                   /\ ivManifest \notin {Missing, NoGate}
    /\ ivPc = "finish" => ivClosing
    /\ ivPc \in {"open", "stage", "run"} => ~ivClosing
    /\ ivPhase = "complete" => ivPc \in {"idle", "start"}

IvInv == PvInv /\ IvTypeOK /\ IvReadersInv /\ IvGateInv /\ IvStageInv
-----------------------------------------------------------------------------
\* Append adds one block and leaves the others.
LEMMA PvAppended ==
  ASSUME NEW s \in PvFiles, NEW v \in 0 .. PvMaxEvents \cup {Damaged}
  PROVE  /\ Append(s, v) \in PvFiles
         /\ Len(Append(s, v)) = Len(s) + 1
         /\ \A b \in 1 .. Len(s) : Append(s, v)[b] = s[b]
         /\ Append(s, v)[Len(s) + 1] = v
  BY AppendProperties DEF PvFiles

\* A file has as many blocks as it is long; one of no length is empty.
LEMMA PvFileLen ==
  ASSUME NEW s \in PvFiles
  PROVE  /\ Len(s) \in Nat
         /\ s = [b \in 1 .. Len(s) |-> s[b]]
         /\ DOMAIN s = 1 .. Len(s)
         /\ \A b \in 1 .. Len(s) : s[b] \in 0 .. PvMaxEvents \cup {Damaged}
  BY LenProperties DEF PvFiles

\* A function on the first numbers is a file of that length.
LEMMA PvFunctionFile ==
  ASSUME NEW n \in Nat, NEW f \in [1 .. n -> 0 .. PvMaxEvents \cup {Damaged}]
  PROVE  f \in PvFiles /\ Len(f) = n
<1>1. f \in PvFiles
  BY SeqDef DEF PvFiles
<1>2. DOMAIN f = 1 .. n /\ DOMAIN f = 1 .. Len(f) /\ Len(f) \in Nat
  BY <1>1, PvFileLen
<1> QED
  BY <1>1, <1>2

\* What a power loss leaves is a file with the durable blocks as they were.
LEMMA PvCutFile ==
  ASSUME NEW s \in PvFiles, NEW kept \in 0 .. Len(s), NEW whole \in 0 .. Len(s)
  PROVE  LET cut == [b \in 1 .. kept |-> IF b <= whole THEN s[b] ELSE Damaged]
         IN  cut \in PvFiles /\ Len(cut) = kept
  BY PvFileLen, PvFunctionFile

\* A power loss keeps the blocks that are durable, and may keep more.
LEMMA PvPowerLossCuts ==
  ASSUME PvTypeOK, PvBoundInv, PvPowerLoss
  PROVE  /\ pvDst' \in PvFiles
         /\ Len(pvDst') \in pvSynced .. Len(pvDst)
         /\ \A b \in 1 .. pvSynced : pvDst'[b] = pvDst[b]
<1>1. PICK kept \in pvSynced .. Len(pvDst), whole \in pvSynced .. Len(pvDst) :
          pvDst' = [b \in 1 .. kept |-> IF b <= whole THEN pvDst[b] ELSE Damaged]
  BY DEF PvPowerLoss
<1>2. pvDst \in PvFiles /\ Len(pvDst) \in Nat /\ pvSynced \in Nat
  BY PvFileLen, PvConstants DEF PvPowerLoss, PvTypeOK
<1>3. kept \in 0 .. Len(pvDst) /\ whole \in 0 .. Len(pvDst)
  BY <1>2
<1>4. pvDst' \in PvFiles /\ Len(pvDst') = kept
  BY <1>1, <1>2, <1>3, PvCutFile
<1> QED
  BY <1>1, <1>2, <1>3, <1>4

\* A new destination is an empty file.
LEMMA PvEmptyFile == <<>> \in PvFiles /\ Len(<<>>) = 0 /\ <<>> # Missing
  BY EmptySeq, PvConstants DEF PvFiles

\* Copying adds one block to what was read and to the destination.
LEMMA PvCopyAdds ==
  ASSUME PvTypeOK, PvLockInv, NEW p \in PvProcs, PvCopy(p)
  PROVE  /\ pvDst \in PvFiles /\ pvDst' \in PvFiles /\ pvRead' \in PvFiles
         /\ pvRead' = Append(pvRead, pvSource)
         /\ Len(pvDst) < PvBlocks
         /\ Len(pvDst') = Len(pvDst) + 1 /\ Len(pvRead') = Len(pvRead) + 1
<1>1. pvPc[p] = "copy" /\ pvSource \in 0 .. PvMaxEvents \cup {Damaged}
  BY DEF PvCopy, PvTypeOK
<1>2. pvDst \in PvFiles /\ pvRead \in PvFiles
  BY <1>1 DEF PvTypeOK, PvLockInv
<1>3. \A s \in PvFiles, v \in 0 .. PvMaxEvents \cup {Damaged} :
         Append(s, v) \in PvFiles /\ Len(Append(s, v)) = Len(s) + 1
  BY PvAppended
<1>4. pvRead' = Append(pvRead, pvSource) /\ Len(pvDst) < PvBlocks
  BY DEF PvCopy
<1>5. pvDst' = Append(pvDst, pvSource) \/ pvDst' = Append(pvDst, Damaged)
  BY DEF PvCopy
<1> QED
  BY <1>1, <1>2, <1>3, <1>4, <1>5

\* A change by others leaves the size what it is.
LEMMA PvOtherKeepsLen ==
  ASSUME PvTypeOK, PvOther
  PROVE  /\ pvDst' = pvDst \/ (pvDst' \in PvFiles /\ pvDst \in PvFiles)
         /\ Len(pvDst') = Len(pvDst)
<1>1. CASE pvDst' = pvDst
  BY <1>1
<1>2. CASE pvDst \notin {Missing, <<>>}
           /\ \E b \in DOMAIN pvDst : pvDst' = [pvDst EXCEPT ![b] = Damaged]
  <2>1. pvDst \in PvFiles
    BY <1>2 DEF PvTypeOK
  <2>2. PICK b \in DOMAIN pvDst : pvDst' = [pvDst EXCEPT ![b] = Damaged]
    BY <1>2
  <2>3. b \in 1 .. Len(pvDst)
    BY <2>1, <2>2, PvFileLen
  <2> QED
    BY <2>1, <2>2, <2>3, ExceptSeq DEF PvFiles
<1> QED
  BY <1>1, <1>2 DEF PvOther

\* The destination and what was read are files after every step, and a
\* destination that is there is never removed.
LEMMA PvFileStep ==
  ASSUME PvTypeOK, PvLockInv, PvBoundInv, PvMove
  PROVE  /\ pvDst' \in PvFiles \cup {Missing} /\ pvRead' \in PvFiles
         /\ pvDst # Missing => pvDst' # Missing
<1> USE PvConstants DEF PvTypeOK, PvBoundInv, PvGiveUp, PvAttempt, pvRecords, pvCounts
<1> DEFINE Kept == /\ pvDst' \in PvFiles \cup {Missing} /\ pvRead' \in PvFiles
                   /\ pvDst # Missing => pvDst' # Missing
<1>a. \A r \in PvFiles : Append(r, pvSource) \in PvFiles /\ Append(r, Damaged) \in PvFiles
  BY PvAppended
<1>1. ASSUME NEW p \in PvProcs, PvFresh(p) PROVE Kept
  BY <1>1, PvEmptyFile DEF PvFresh
<1>2. ASSUME NEW p \in PvProcs, PvCreate(p) PROVE Kept
  BY <1>2, PvEmptyFile DEF PvCreate
<1>3. ASSUME NEW p \in PvProcs, PvBind(p) PROVE Kept
  BY <1>3 DEF PvBind
<1>4. ASSUME NEW p \in PvProcs, PvResume(p) PROVE Kept
  BY <1>4, PvEmptyFile DEF PvResume
<1>19. ASSUME NEW p \in PvProcs, PvRefuse(p) PROVE Kept
  BY <1>19, PvEmptyFile DEF PvRefuse
<1>20. ASSUME NEW p \in PvProcs, PvAnnounce(p) PROVE Kept
  BY <1>20, PvEmptyFile DEF PvAnnounce
<1>5. ASSUME NEW p \in PvProcs, PvValidate(p) PROVE Kept
  BY <1>5 DEF PvValidate
<1>6. ASSUME NEW p \in PvProcs, PvBegin(p) PROVE Kept
  BY <1>6 DEF PvBegin
<1>7. ASSUME NEW p \in PvProcs, PvPrefix(p) PROVE Kept
  BY <1>7, <1>a DEF PvPrefix
<1>8. ASSUME NEW p \in PvProcs, PvCopy(p) PROVE Kept
  BY <1>8, PvCopyAdds
<1>9. ASSUME NEW p \in PvProcs, PvCheckpoint(p) PROVE Kept
  BY <1>9 DEF PvCheckpoint
<1>10. ASSUME NEW p \in PvProcs, PvFinish(p) PROVE Kept
  BY <1>10 DEF PvFinish
<1>11. ASSUME NEW p \in PvProcs, PvVerify(p) PROVE Kept
  BY <1>11 DEF PvVerify
<1>12. ASSUME NEW p \in PvProcs, PvRecordVerified(p) PROVE Kept
  BY <1>12 DEF PvRecordVerified
<1>13. ASSUME NEW p \in PvProcs, PvComplete(p) PROVE Kept
  BY <1>13 DEF PvComplete
<1>14. ASSUME NEW p \in PvProcs, PvRaise(p) PROVE Kept
  BY <1>14 DEF PvRaise
<1>15. ASSUME NEW p \in PvProcs, PvKill(p) PROVE Kept
  BY <1>15 DEF PvKill
<1>16. CASE PvPowerLoss
  BY <1>16, PvPowerLossCuts DEF PvPowerLoss
<1>17. CASE PvOther
  BY <1>17, PvOtherKeepsLen DEF PvOther
<1>18. CASE PvBeside
  BY <1>18 DEF PvBeside
<1> QED
  BY <1>1, <1>2, <1>3, <1>4, <1>5, <1>6, <1>7, <1>8, <1>9, <1>10, <1>11, <1>12,
     <1>13, <1>14, <1>15, <1>16, <1>17, <1>18, <1>19, <1>20
  DEF PvMove, PvNext, PvStep

\* Statuses and manifests are what their records allow, and a status comes
\* before the exit marker of a success.
LEMMA PvRecordStep ==
  ASSUME PvTypeOK, PvLockInv, PvBoundInv, PvMove
  PROVE  /\ pvManifest' \in PvManifestRecord \cup {Missing}
         /\ pvStatus' \in PvStatusRecord \cup {pvStatus}
         /\ pvExit' = "0" => pvStatus' \in PvStatusRecord \/ UNCHANGED <<pvExit, pvStatus>>
<1>f. pvDst # Missing => Len(pvDst) \in Nat
  BY PvFileLen DEF PvTypeOK
<1> DEFINE Records == /\ pvManifest' \in PvManifestRecord \cup {Missing}
                      /\ pvStatus' \in PvStatusRecord \cup {pvStatus}
                      /\ pvExit' = "0" => \/ pvStatus' \in PvStatusRecord
                                          \/ UNCHANGED <<pvExit, pvStatus>>
<1> USE <1>f, PvConstants
    DEF PvTypeOK, PvLockInv, PvBoundInv, PvSay, PvGiveUp, PvAttempt, PvManifestRecord,
        PvStatusRecord, PvPhases, pvRecords, pvCounts
<1>1. ASSUME NEW p \in PvProcs, PvFresh(p) PROVE Records
  BY <1>1 DEF PvFresh
<1>2. ASSUME NEW p \in PvProcs, PvCreate(p) PROVE Records
  BY <1>2 DEF PvCreate
<1>3. ASSUME NEW p \in PvProcs, PvBind(p) PROVE Records
  BY <1>3 DEF PvBind
<1>4. ASSUME NEW p \in PvProcs, PvResume(p) PROVE Records
  BY <1>4 DEF PvResume
<1>19. ASSUME NEW p \in PvProcs, PvRefuse(p) PROVE Records
  BY <1>19 DEF PvRefuse
<1>20. ASSUME NEW p \in PvProcs, PvAnnounce(p) PROVE Records
  BY <1>20 DEF PvAnnounce
<1>5. ASSUME NEW p \in PvProcs, PvValidate(p) PROVE Records
  BY <1>5 DEF PvValidate
<1>6. ASSUME NEW p \in PvProcs, PvBegin(p) PROVE Records
  BY <1>6 DEF PvBegin
<1>7. ASSUME NEW p \in PvProcs, PvPrefix(p) PROVE Records
  <2>1. pvAttempts \in 1 .. PvMaxAttempts /\ pvManifest' = pvManifest
    BY <1>7 DEF PvPrefix
  <2>2. CASE UNCHANGED <<pvStatus, pvExit>>
    BY <2>1, <2>2
  <2>3. CASE PvSay("copying", Len(pvDst)) /\ UNCHANGED pvExit /\ pvDst # Missing
    BY <2>1, <2>3
  <2>4. CASE PvGiveUp(p)
    BY <2>1, <2>4
  <2> QED
    BY <1>7, <2>2, <2>3, <2>4 DEF PvPrefix
<1>8. ASSUME NEW p \in PvProcs, PvCopy(p) PROVE Records
  BY <1>8 DEF PvCopy
<1>9. ASSUME NEW p \in PvProcs, PvCheckpoint(p) PROVE Records
  BY <1>9 DEF PvCheckpoint
<1>10. ASSUME NEW p \in PvProcs, PvFinish(p) PROVE Records
  BY <1>10 DEF PvFinish
<1>11. ASSUME NEW p \in PvProcs, PvVerify(p) PROVE Records
  BY <1>11 DEF PvVerify
<1>12. ASSUME NEW p \in PvProcs, PvRecordVerified(p) PROVE Records
  BY <1>12 DEF PvRecordVerified
<1>13. ASSUME NEW p \in PvProcs, PvComplete(p) PROVE Records
  BY <1>13 DEF PvComplete
<1>14. ASSUME NEW p \in PvProcs, PvRaise(p) PROVE Records
  BY <1>14 DEF PvRaise
<1>15. ASSUME NEW p \in PvProcs, PvKill(p) PROVE Records
  BY <1>15 DEF PvKill
<1>16. CASE PvPowerLoss
  BY <1>16 DEF PvPowerLoss
<1>17. CASE PvOther
  BY <1>17 DEF PvOther
<1>18. CASE PvBeside
  BY <1>18 DEF PvBeside
<1> QED
  BY <1>1, <1>2, <1>3, <1>4, <1>5, <1>6, <1>7, <1>8, <1>9, <1>10, <1>11, <1>12,
     <1>13, <1>14, <1>15, <1>16, <1>17, <1>18, <1>19, <1>20
  DEF PvMove, PvNext, PvStep

\* A process in the locked part keeps the others out of it until it leaves or dies.
LEMMA PvLockStep ==
  ASSUME PvTypeOK, PvLockInv, PvBoundInv, PvMove
  PROVE  PvLockInv'
<1>f. /\ pvDst' \in PvFiles \cup {Missing}
      /\ pvDst # Missing => pvDst' # Missing
      /\ pvStatus' \in PvStatusRecord \cup {pvStatus}
      /\ pvExit' = "0" => pvStatus' \in PvStatusRecord \/ UNCHANGED <<pvExit, pvStatus>>
  BY PvFileStep, PvRecordStep
<1> USE <1>f, PvConstants
    DEF PvTypeOK, PvLockInv, PvGo, PvSay, PvGiveUp, PvAttempt, PvEvent, pvRecords, pvCounts,
        PvManifestRecord, PvSteps
<1>1. ASSUME NEW p \in PvProcs, PvFresh(p) PROVE PvLockInv'
  BY <1>1 DEF PvFresh
<1>2. ASSUME NEW p \in PvProcs, PvCreate(p) PROVE PvLockInv'
  BY <1>2, PvEmptyFile DEF PvCreate
<1>3. ASSUME NEW p \in PvProcs, PvBind(p) PROVE PvLockInv'
  <2>1. pvManifest' # Missing => pvDst # Missing
    BY <1>3 DEF PvBind
  <2> QED
    BY <1>3, <2>1 DEF PvBind
<1>4. ASSUME NEW p \in PvProcs, PvResume(p) PROVE PvLockInv'
  BY <1>4 DEF PvResume
<1>19. ASSUME NEW p \in PvProcs, PvRefuse(p) PROVE PvLockInv'
  BY <1>19 DEF PvRefuse
<1>20. ASSUME NEW p \in PvProcs, PvAnnounce(p) PROVE PvLockInv'
  BY <1>20 DEF PvAnnounce
<1>5. ASSUME NEW p \in PvProcs, PvValidate(p) PROVE PvLockInv'
  BY <1>5 DEF PvValidate
<1>6. ASSUME NEW p \in PvProcs, PvBegin(p) PROVE PvLockInv'
  BY <1>6 DEF PvBegin
<1>7. ASSUME NEW p \in PvProcs, PvPrefix(p) PROVE PvLockInv'
  BY <1>7 DEF PvPrefix
<1>8. ASSUME NEW p \in PvProcs, PvCopy(p) PROVE PvLockInv'
  BY <1>8 DEF PvCopy
<1>9. ASSUME NEW p \in PvProcs, PvCheckpoint(p) PROVE PvLockInv'
  BY <1>9 DEF PvCheckpoint
<1>10. ASSUME NEW p \in PvProcs, PvFinish(p) PROVE PvLockInv'
  BY <1>10 DEF PvFinish
<1>11. ASSUME NEW p \in PvProcs, PvVerify(p) PROVE PvLockInv'
  BY <1>11 DEF PvVerify
<1>12. ASSUME NEW p \in PvProcs, PvRecordVerified(p) PROVE PvLockInv'
  BY <1>12 DEF PvRecordVerified
<1>13. ASSUME NEW p \in PvProcs, PvComplete(p) PROVE PvLockInv'
  BY <1>13 DEF PvComplete
<1>14. ASSUME NEW p \in PvProcs, PvRaise(p) PROVE PvLockInv'
  BY <1>14 DEF PvRaise
<1>15. ASSUME NEW p \in PvProcs, PvKill(p) PROVE PvLockInv'
  BY <1>15 DEF PvKill
<1>16. CASE PvPowerLoss
  BY <1>16 DEF PvPowerLoss
<1>17. CASE PvOther
  BY <1>17 DEF PvOther
<1>18. CASE PvBeside
  BY <1>18 DEF PvBeside
<1> QED
  BY <1>1, <1>2, <1>3, <1>4, <1>5, <1>6, <1>7, <1>8, <1>9, <1>10, <1>11, <1>12,
     <1>13, <1>14, <1>15, <1>16, <1>17, <1>18, <1>19, <1>20
  DEF PvMove, PvNext, PvStep

\* What is copied, durable or compared never exceeds what the file or the source holds.
LEMMA PvBoundStep ==
  ASSUME PvTypeOK, PvLockInv, PvBoundInv, PvMove
  PROVE  PvBoundInv'
<1>f. pvDst # Missing => Len(pvDst) \in Nat /\ pvDst \in PvFiles
  BY PvFileLen DEF PvTypeOK
<1> USE <1>f, PvConstants
    DEF PvTypeOK, PvLockInv, PvBoundInv, PvGo, PvSay, PvGiveUp, PvAttempt, PvEvent, pvRecords, pvCounts,
        PvManifestRecord
<1>1. ASSUME NEW p \in PvProcs, PvFresh(p) PROVE PvBoundInv'
  BY <1>1 DEF PvFresh
<1>2. ASSUME NEW p \in PvProcs, PvCreate(p) PROVE PvBoundInv'
  BY <1>2, PvEmptyFile DEF PvCreate
<1>3. ASSUME NEW p \in PvProcs, PvBind(p) PROVE PvBoundInv'
  BY <1>3 DEF PvBind
<1>4. ASSUME NEW p \in PvProcs, PvResume(p) PROVE PvBoundInv'
  BY <1>4 DEF PvResume
<1>19. ASSUME NEW p \in PvProcs, PvRefuse(p) PROVE PvBoundInv'
  BY <1>19 DEF PvRefuse
<1>20. ASSUME NEW p \in PvProcs, PvAnnounce(p) PROVE PvBoundInv'
  BY <1>20 DEF PvAnnounce
<1>5. ASSUME NEW p \in PvProcs, PvValidate(p) PROVE PvBoundInv'
  BY <1>5 DEF PvValidate
<1>6. ASSUME NEW p \in PvProcs, PvBegin(p) PROVE PvBoundInv'
  BY <1>6 DEF PvBegin
<1>7. ASSUME NEW p \in PvProcs, PvPrefix(p) PROVE PvBoundInv'
  BY <1>7 DEF PvPrefix
<1>8. ASSUME NEW p \in PvProcs, PvCopy(p) PROVE PvBoundInv'
  <2>1. Len(pvDst') = Len(pvDst) + 1 /\ Len(pvDst) < PvBlocks /\ pvDst # Missing
    BY <1>8, PvCopyAdds
  <2>2. /\ UNCHANGED <<pvSource, pvSynced, pvEdits, pvManifest, pvAttempts>>
        /\ pvEvents' \in {pvEvents, pvEvents + 1}
    BY <1>8 DEF PvCopy
  <2>3. Len(pvDst) \in Nat /\ pvDst' # Missing
    BY <1>8, <2>1, PvFileStep
  <2> QED
    BY <2>1, <2>2, <2>3
<1>9. ASSUME NEW p \in PvProcs, PvCheckpoint(p) PROVE PvBoundInv'
  BY <1>9 DEF PvCheckpoint
<1>10. ASSUME NEW p \in PvProcs, PvFinish(p) PROVE PvBoundInv'
  BY <1>10 DEF PvFinish
<1>11. ASSUME NEW p \in PvProcs, PvVerify(p) PROVE PvBoundInv'
  BY <1>11 DEF PvVerify
<1>12. ASSUME NEW p \in PvProcs, PvRecordVerified(p) PROVE PvBoundInv'
  BY <1>12 DEF PvRecordVerified
<1>13. ASSUME NEW p \in PvProcs, PvComplete(p) PROVE PvBoundInv'
  BY <1>13 DEF PvComplete
<1>14. ASSUME NEW p \in PvProcs, PvRaise(p) PROVE PvBoundInv'
  BY <1>14 DEF PvRaise
<1>15. ASSUME NEW p \in PvProcs, PvKill(p) PROVE PvBoundInv'
  BY <1>15 DEF PvKill
<1>16. CASE PvPowerLoss
  <2>1. Len(pvDst') \in pvSynced .. Len(pvDst)
    BY <1>16, PvPowerLossCuts
  <2>2. Len(pvDst) \in Nat /\ Len(pvDst) <= PvBlocks /\ pvDst # Missing
    BY <1>16 DEF PvPowerLoss
  <2>3. /\ UNCHANGED <<pvSource, pvEdits, pvManifest, pvAttempts>>
        /\ pvSynced' = Len(pvDst') /\ pvEvents' = pvEvents + 1
    BY <1>16 DEF PvPowerLoss
  <2>4. pvDst' # Missing
    BY PvFileStep, <2>2
  <2> QED
    BY <2>1, <2>2, <2>3, <2>4
<1>17. CASE PvOther
  <2>1. Len(pvDst') = Len(pvDst) /\ (pvDst' = Missing => pvDst = Missing)
    BY <1>17, PvOtherKeepsLen
  <2> QED
    BY <1>17, <2>1, SMTT(20) DEF PvOther
<1>18. CASE PvBeside
  BY <1>18 DEF PvBeside
<1> QED
  BY <1>1, <1>2, <1>3, <1>4, <1>5, <1>6, <1>7, <1>8, <1>9, <1>10, <1>11, <1>12,
     <1>13, <1>14, <1>15, <1>16, <1>17, <1>18, <1>19, <1>20
  DEF PvMove, PvNext, PvStep

\* Flags are raised and cleared.
LEMMA PvFlagStep ==
  ASSUME pvDir \in BOOLEAN, pvReaders \in BOOLEAN, PvMove
  PROVE  pvDir' \in BOOLEAN /\ pvReaders' \in BOOLEAN
<1> DEFINE Flags == pvDir' \in BOOLEAN /\ pvReaders' \in BOOLEAN
<1> USE DEF pvRecords, pvCounts
<1>1. ASSUME NEW p \in PvProcs, PvFresh(p) PROVE Flags
  BY <1>1, Zenon DEF PvFresh
<1>2. ASSUME NEW p \in PvProcs, PvCreate(p) PROVE Flags
  BY <1>2, Zenon DEF PvCreate
<1>3. ASSUME NEW p \in PvProcs, PvBind(p) PROVE Flags
  BY <1>3, Zenon DEF PvBind
<1>4. ASSUME NEW p \in PvProcs, PvResume(p) PROVE Flags
  BY <1>4, Zenon DEF PvResume
<1>19. ASSUME NEW p \in PvProcs, PvRefuse(p) PROVE Flags
  BY <1>19, Zenon DEF PvRefuse
<1>20. ASSUME NEW p \in PvProcs, PvAnnounce(p) PROVE Flags
  BY <1>20, Zenon DEF PvAnnounce
<1>5. ASSUME NEW p \in PvProcs, PvValidate(p) PROVE Flags
  BY <1>5, Zenon DEF PvValidate
<1>6. ASSUME NEW p \in PvProcs, PvBegin(p) PROVE Flags
  BY <1>6, Zenon DEF PvBegin
<1>7. ASSUME NEW p \in PvProcs, PvPrefix(p) PROVE Flags
  BY <1>7, Zenon DEF PvPrefix
<1>8. ASSUME NEW p \in PvProcs, PvCopy(p) PROVE Flags
  BY <1>8, Zenon DEF PvCopy
<1>9. ASSUME NEW p \in PvProcs, PvCheckpoint(p) PROVE Flags
  BY <1>9, Zenon DEF PvCheckpoint
<1>10. ASSUME NEW p \in PvProcs, PvFinish(p) PROVE Flags
  BY <1>10, Zenon DEF PvFinish
<1>11. ASSUME NEW p \in PvProcs, PvVerify(p) PROVE Flags
  BY <1>11, Zenon DEF PvVerify
<1>12. ASSUME NEW p \in PvProcs, PvRecordVerified(p) PROVE Flags
  BY <1>12, Zenon DEF PvRecordVerified
<1>13. ASSUME NEW p \in PvProcs, PvComplete(p) PROVE Flags
  BY <1>13, Zenon DEF PvComplete
<1>14. ASSUME NEW p \in PvProcs, PvRaise(p) PROVE Flags
  BY <1>14, Zenon DEF PvRaise
<1>15. ASSUME NEW p \in PvProcs, PvKill(p) PROVE Flags
  BY <1>15, Zenon DEF PvKill
<1>16. CASE PvPowerLoss
  BY <1>16, Zenon DEF PvPowerLoss
<1>17. CASE PvOther
  BY <1>17, Zenon DEF PvOther
<1>18. CASE PvBeside
  BY <1>18, Zenon DEF PvBeside
<1> QED
  BY <1>1, <1>2, <1>3, <1>4, <1>5, <1>6, <1>7, <1>8, <1>9, <1>10, <1>11, <1>12,
     <1>13, <1>14, <1>15, <1>16, <1>17, <1>18, <1>19, <1>20
  DEF PvMove, PvNext, PvStep

\* Every step keeps the files, the records and the locals in their types.
LEMMA PvTypeStep ==
  ASSUME PvTypeOK, PvLockInv, PvBoundInv, PvMove
  PROVE  PvTypeOK'
<1>a. PvBoundInv' /\ pvDst' \in PvFiles \cup {Missing} /\ pvRead' \in PvFiles
  BY PvBoundStep, PvFileStep
<1>b. pvDir' \in BOOLEAN /\ pvReaders' \in BOOLEAN
  BY PvFlagStep DEF PvTypeOK
<1>c. /\ pvManifest' \in PvManifestRecord \cup {Missing}
      /\ pvStatus' \in PvStatusRecord \cup {Missing}
  BY PvRecordStep DEF PvTypeOK
<1> DEFINE Rest == /\ pvSource' \in Nat /\ pvEdits' \in Nat
                   /\ pvSynced' \in 0 .. PvBlocks
                   /\ pvExit' \in {"0", "1", Missing}
                   /\ pvLock' \in PvProcs \cup {Missing}
                   /\ pvPc' \in [PvProcs -> PvSteps]
                   /\ pvAttempts' \in 0 .. PvMaxAttempts /\ pvTried' \in 0 .. PvMaxAttempts
                   /\ pvEvents' \in 0 .. PvMaxEvents
<1>d. Rest
  <2>f. pvDst # Missing => Len(pvDst) \in Nat
    BY PvFileLen DEF PvTypeOK
  <2> USE <2>f, PvConstants
      DEF PvTypeOK, PvLockInv, PvBoundInv, PvGo, PvEvent, PvSay, PvGiveUp, PvAttempt,
          PvSteps, pvRecords, pvCounts
  <2>1. ASSUME NEW p \in PvProcs, PvFresh(p) PROVE Rest
    BY <2>1 DEF PvFresh
  <2>2. ASSUME NEW p \in PvProcs, PvCreate(p) PROVE Rest
    BY <2>2 DEF PvCreate
  <2>3. ASSUME NEW p \in PvProcs, PvBind(p) PROVE Rest
    BY <2>3 DEF PvBind
  <2>4. ASSUME NEW p \in PvProcs, PvResume(p) PROVE Rest
    BY <2>4 DEF PvResume
  <2>19. ASSUME NEW p \in PvProcs, PvRefuse(p) PROVE Rest
    BY <2>19 DEF PvRefuse
  <2>20. ASSUME NEW p \in PvProcs, PvAnnounce(p) PROVE Rest
    BY <2>20 DEF PvAnnounce
  <2>5. ASSUME NEW p \in PvProcs, PvValidate(p) PROVE Rest
    BY <2>5 DEF PvValidate
  <2>6. ASSUME NEW p \in PvProcs, PvBegin(p) PROVE Rest
    BY <2>6 DEF PvBegin
  <2>7. ASSUME NEW p \in PvProcs, PvPrefix(p) PROVE Rest
    BY <2>7 DEF PvPrefix
  <2>8. ASSUME NEW p \in PvProcs, PvCopy(p) PROVE Rest
    BY <2>8 DEF PvCopy
  <2>9. ASSUME NEW p \in PvProcs, PvCheckpoint(p) PROVE Rest
    BY <2>9 DEF PvCheckpoint
  <2>10. ASSUME NEW p \in PvProcs, PvFinish(p) PROVE Rest
    BY <2>10 DEF PvFinish
  <2>11. ASSUME NEW p \in PvProcs, PvVerify(p) PROVE Rest
    BY <2>11 DEF PvVerify
  <2>12. ASSUME NEW p \in PvProcs, PvRecordVerified(p) PROVE Rest
    BY <2>12 DEF PvRecordVerified
  <2>13. ASSUME NEW p \in PvProcs, PvComplete(p) PROVE Rest
    BY <2>13 DEF PvComplete
  <2>14. ASSUME NEW p \in PvProcs, PvRaise(p) PROVE Rest
    BY <2>14 DEF PvRaise
  <2>15. ASSUME NEW p \in PvProcs, PvKill(p) PROVE Rest
    BY <2>15 DEF PvKill
  <2>16. CASE PvPowerLoss
    <3>1. Len(pvDst') \in pvSynced .. Len(pvDst)
      BY <2>16, PvPowerLossCuts
    <3> QED
      BY <2>16, <3>1 DEF PvPowerLoss
  <2>17. CASE PvOther
    <3>1. /\ pvSource' \in {pvSource, pvSource + 1} /\ pvEdits' \in {pvEdits, pvEdits + 1}
          /\ pvEvents' = pvEvents + 1 /\ pvEvents < PvMaxEvents
          /\ UNCHANGED <<pvSynced, pvExit, pvLock, pvPc, pvAttempts, pvTried>>
      BY <2>17 DEF PvOther
    <3> QED
      BY <3>1
  <2>18. CASE PvBeside
    BY <2>18 DEF PvBeside
  <2> QED
    BY <2>1, <2>2, <2>3, <2>4, <2>5, <2>6, <2>7, <2>8, <2>9, <2>10, <2>11, <2>12,
       <2>13, <2>14, <2>15, <2>16, <2>17, <2>18, <2>19, <2>20
    DEF PvMove, PvNext, PvStep
<1> QED
  BY <1>a, <1>b, <1>c, <1>d, PvConstants DEF PvTypeOK, PvBoundInv

\* The whole of a version is a file of all the blocks, and a file of all the
\* blocks that are of one version is the whole of it.
LEMMA PvWholeFile ==
  /\ \A v \in 0 .. PvMaxEvents : PvWhole(v) \in PvFiles /\ Len(PvWhole(v)) = PvBlocks
  /\ \A v \in 0 .. PvMaxEvents, s \in PvFiles :
        (Len(s) = PvBlocks /\ \A b \in 1 .. PvBlocks : s[b] = v) => s = PvWhole(v)
<1>1. ASSUME NEW v \in 0 .. PvMaxEvents
      PROVE  PvWhole(v) \in PvFiles /\ Len(PvWhole(v)) = PvBlocks
  <2>1. PvWhole(v) \in [1 .. PvBlocks -> 0 .. PvMaxEvents \cup {Damaged}]
    BY DEF PvWhole
  <2> QED
    BY <2>1, PvFunctionFile, PvConstants
<1>2. ASSUME NEW v \in 0 .. PvMaxEvents, NEW s \in PvFiles,
             Len(s) = PvBlocks, \A b \in 1 .. PvBlocks : s[b] = v
      PROVE  s = PvWhole(v)
  <2>1. s = [b \in 1 .. PvBlocks |-> s[b]]
    BY <1>2, PvFileLen
  <2> QED
    BY <1>2, <2>1 DEF PvWhole
<1> QED
  BY <1>1, <1>2

\* What an attempt has read, of one version after the other
PvReadSoFar == \A b \in 1 .. Len(pvRead) : pvRead[b] \in pvManifest.source .. pvSource

\* One more compared block extends the compared prefix by that block.
LEMMA PvReadMore ==
  ASSUME PvTypeOK, PvBoundInv, pvManifest # Missing, PvReadSoFar,
         pvRead' = Append(pvRead, pvSource), UNCHANGED <<pvManifest, pvSource>>
  PROVE  PvReadSoFar' /\ Len(pvRead') = Len(pvRead) + 1
<1>1. /\ Len(pvRead') = Len(pvRead) + 1 /\ Len(pvRead) \in Nat
      /\ \A b \in 1 .. Len(pvRead) : pvRead'[b] = pvRead[b]
      /\ pvRead'[Len(pvRead) + 1] = pvSource
  BY PvAppended, PvFileLen DEF PvTypeOK
<1>2. pvSource \in pvManifest.source .. pvSource
  BY DEF PvTypeOK, PvBoundInv, PvManifestRecord
<1> QED
  BY <1>1, <1>2 DEF PvReadSoFar

\* What a process has compared of the destination stays what the source holds there.
LEMMA PvReadStep ==
  ASSUME PvTypeOK, PvLockInv, PvBoundInv, PvReadInv, PvMove
  PROVE  PvReadInv'
<1>f. (pvDst # Missing => Len(pvDst) \in Nat) /\ Len(pvRead) \in Nat /\ Len(<<>>) = 0
  BY PvFileLen, PvEmptyFile DEF PvTypeOK
<1> USE <1>f, PvConstants
    DEF PvTypeOK, PvLockInv, PvBoundInv, PvReadInv, PvGo, PvSay, PvGiveUp, PvAttempt, PvEvent,
        PvManifestRecord, PvSteps, pvRecords, pvCounts
<1>1. ASSUME NEW p \in PvProcs, PvFresh(p) PROVE PvReadInv'
  BY <1>1 DEF PvFresh
<1>2. ASSUME NEW p \in PvProcs, PvCreate(p) PROVE PvReadInv'
  BY <1>2 DEF PvCreate
<1>3. ASSUME NEW p \in PvProcs, PvBind(p) PROVE PvReadInv'
  BY <1>3 DEF PvBind
<1>4. ASSUME NEW p \in PvProcs, PvResume(p) PROVE PvReadInv'
  BY <1>4 DEF PvResume
<1>19. ASSUME NEW p \in PvProcs, PvRefuse(p) PROVE PvReadInv'
  BY <1>19 DEF PvRefuse
<1>20. ASSUME NEW p \in PvProcs, PvAnnounce(p) PROVE PvReadInv'
  BY <1>20 DEF PvAnnounce
<1>5. ASSUME NEW p \in PvProcs, PvValidate(p) PROVE PvReadInv'
  BY <1>5 DEF PvValidate
<1>6. ASSUME NEW p \in PvProcs, PvBegin(p) PROVE PvReadInv'
  BY <1>6 DEF PvBegin
<1>7. ASSUME NEW p \in PvProcs, PvPrefix(p) PROVE PvReadInv'
  <2>1. CASE pvRead' = Append(pvRead, pvSource)
    <3>1. /\ Len(pvRead) < Len(pvDst) /\ pvPc[p] = "prefix"
          /\ UNCHANGED <<pvDst, pvPc, pvManifest, pvSource>>
      BY <1>7, <2>1, PvFileLen DEF PvPrefix
    <3>2. PvReadSoFar' /\ Len(pvRead') = Len(pvRead) + 1
      BY <1>7, <2>1, <3>1, PvReadMore DEF PvReadSoFar
    <3>3. \A q \in PvProcs : q # p => pvPc[q] = "idle"
      BY <1>7 DEF PvPrefix
    <3>4. Len(pvRead') <= Len(pvDst') /\ pvPc' = pvPc
      BY <3>1, <3>2
    <3> QED
      BY <3>1, <3>2, <3>3, <3>4 DEF PvReadSoFar
  <2>2. CASE pvRead' = pvRead
    <3>1. /\ pvPc[p] = "prefix"
          /\ \/ pvPc'[p] = "idle"
             \/ pvPc'[p] = "copy" /\ Len(pvRead) = Len(pvDst)
             \/ pvPc'[p] = "prefix"
          /\ UNCHANGED <<pvDst, pvSource, pvManifest, pvSynced>>
      BY <1>7, <2>2 DEF PvPrefix
    <3>2. \A q \in PvProcs : q # p => pvPc'[q] = "idle"
      BY <1>7, <2>2 DEF PvPrefix
    <3> QED
      BY <2>2, <3>1, <3>2
  <2>3. pvRead' = Append(pvRead, pvSource) \/ pvRead' = pvRead
    BY <1>7 DEF PvPrefix
  <2> QED
    BY <2>1, <2>2, <2>3
<1>8. ASSUME NEW p \in PvProcs, PvCopy(p) PROVE PvReadInv'
  <2>1. /\ pvPc[p] = "copy" /\ pvRead' = Append(pvRead, pvSource)
        /\ UNCHANGED <<pvPc, pvManifest, pvSource>>
    BY <1>8 DEF PvCopy
  <2>2. PvReadSoFar' /\ Len(pvRead') = Len(pvRead) + 1
    BY <2>1, PvReadMore DEF PvReadSoFar
  <2>3. Len(pvDst') = Len(pvDst) + 1
    BY <1>8, PvCopyAdds
  <2> QED
    BY <2>1, <2>2, <2>3 DEF PvReadSoFar
<1>9. ASSUME NEW p \in PvProcs, PvCheckpoint(p) PROVE PvReadInv'
  BY <1>9 DEF PvCheckpoint
<1>10. ASSUME NEW p \in PvProcs, PvFinish(p) PROVE PvReadInv'
  <2>1. CASE pvSource = pvManifest.source
    <3>1. /\ pvRead \in PvFiles /\ Len(pvRead) = PvBlocks
          /\ \A b \in 1 .. PvBlocks : pvRead[b] = pvSource
      BY <1>10, <2>1 DEF PvFinish
    <3>2. pvRead = PvWhole(pvManifest.source)
      BY <2>1, <3>1, PvWholeFile
    <3> QED
      BY <1>10, <2>1, <3>2 DEF PvFinish
  <2>2. CASE pvSource # pvManifest.source
    BY <1>10, <2>2 DEF PvFinish
  <2> QED
    BY <2>1, <2>2
<1>11. ASSUME NEW p \in PvProcs, PvVerify(p) PROVE PvReadInv'
  BY <1>11 DEF PvVerify
<1>12. ASSUME NEW p \in PvProcs, PvRecordVerified(p) PROVE PvReadInv'
  BY <1>12 DEF PvRecordVerified
<1>13. ASSUME NEW p \in PvProcs, PvComplete(p) PROVE PvReadInv'
  BY <1>13 DEF PvComplete
<1>14. ASSUME NEW p \in PvProcs, PvRaise(p) PROVE PvReadInv'
  BY <1>14 DEF PvRaise
<1>15. ASSUME NEW p \in PvProcs, PvKill(p) PROVE PvReadInv'
  BY <1>15 DEF PvKill
<1>16. CASE PvPowerLoss
  BY <1>16 DEF PvPowerLoss
<1>17. CASE PvOther
  BY <1>17 DEF PvOther
<1>18. CASE PvBeside
  BY <1>18 DEF PvBeside
<1> QED
  BY <1>1, <1>2, <1>3, <1>4, <1>5, <1>6, <1>7, <1>8, <1>9, <1>10, <1>11, <1>12,
     <1>13, <1>14, <1>15, <1>16, <1>17, <1>18, <1>19, <1>20
  DEF PvMove, PvNext, PvStep

\* Once verified, the destination is the source until another program writes to it.
LEMMA PvVerifiedStep ==
  ASSUME PvTypeOK, PvLockInv, PvBoundInv, PvReadInv, PvVerifiedStands, PvMove
  PROVE  PvVerifiedStands'
<1>f. /\ pvDst # Missing => Len(pvDst) \in Nat
      /\ pvManifest # Missing => Len(PvWhole(pvManifest.source)) = PvBlocks
  BY PvFileLen, PvWholeFile DEF PvTypeOK, PvManifestRecord
<1> USE <1>f, PvConstants
    DEF PvTypeOK, PvLockInv, PvBoundInv, PvReadInv, PvVerifiedStands, PvGo, PvSay, PvGiveUp,
        PvAttempt, PvEvent, PvManifestRecord, pvRecords, pvCounts
<1>1. ASSUME NEW p \in PvProcs, PvFresh(p) PROVE PvVerifiedStands'
  BY <1>1 DEF PvFresh
<1>2. ASSUME NEW p \in PvProcs, PvCreate(p) PROVE PvVerifiedStands'
  BY <1>2 DEF PvCreate
<1>3. ASSUME NEW p \in PvProcs, PvBind(p) PROVE PvVerifiedStands'
  BY <1>3 DEF PvBind
<1>4. ASSUME NEW p \in PvProcs, PvResume(p) PROVE PvVerifiedStands'
  BY <1>4 DEF PvResume
<1>19. ASSUME NEW p \in PvProcs, PvRefuse(p) PROVE PvVerifiedStands'
  BY <1>19 DEF PvRefuse
<1>20. ASSUME NEW p \in PvProcs, PvAnnounce(p) PROVE PvVerifiedStands'
  BY <1>20 DEF PvAnnounce
<1>5. ASSUME NEW p \in PvProcs, PvValidate(p) PROVE PvVerifiedStands'
  BY <1>5 DEF PvValidate
<1>6. ASSUME NEW p \in PvProcs, PvBegin(p) PROVE PvVerifiedStands'
  BY <1>6 DEF PvBegin
<1>7. ASSUME NEW p \in PvProcs, PvPrefix(p) PROVE PvVerifiedStands'
  BY <1>7 DEF PvPrefix
<1>8. ASSUME NEW p \in PvProcs, PvCopy(p) PROVE PvVerifiedStands'
  <2>1. Len(pvDst) < PvBlocks /\ UNCHANGED <<pvManifest, pvEdits>>
    BY <1>8 DEF PvCopy
  <2> QED
    BY <2>1
<1>9. ASSUME NEW p \in PvProcs, PvCheckpoint(p) PROVE PvVerifiedStands'
  BY <1>9 DEF PvCheckpoint
<1>10. ASSUME NEW p \in PvProcs, PvFinish(p) PROVE PvVerifiedStands'
  BY <1>10 DEF PvFinish
<1>11. ASSUME NEW p \in PvProcs, PvVerify(p) PROVE PvVerifiedStands'
  BY <1>11 DEF PvVerify
<1>12. ASSUME NEW p \in PvProcs, PvRecordVerified(p) PROVE PvVerifiedStands'
  BY <1>12 DEF PvRecordVerified
<1>13. ASSUME NEW p \in PvProcs, PvComplete(p) PROVE PvVerifiedStands'
  BY <1>13 DEF PvComplete
<1>14. ASSUME NEW p \in PvProcs, PvRaise(p) PROVE PvVerifiedStands'
  BY <1>14 DEF PvRaise
<1>15. ASSUME NEW p \in PvProcs, PvKill(p) PROVE PvVerifiedStands'
  BY <1>15 DEF PvKill
<1>16. CASE PvPowerLoss
  <2>1. /\ pvDst' \in PvFiles /\ Len(pvDst') \in pvSynced .. Len(pvDst)
        /\ \A b \in 1 .. pvSynced : pvDst'[b] = pvDst[b]
    BY <1>16, PvPowerLossCuts
  <2>2. UNCHANGED <<pvManifest, pvEdits>> /\ pvSynced' = Len(pvDst')
    BY <1>16 DEF PvPowerLoss
  <2>3. CASE pvDst = PvWhole(pvManifest.source) /\ pvSynced = PvBlocks /\ pvManifest # Missing
    <3>1. Len(pvDst') = PvBlocks
      BY <2>1, <2>3
    <3>2. \A b \in 1 .. PvBlocks : pvDst'[b] = pvManifest.source
      BY <2>1, <2>3 DEF PvWhole
    <3>3. pvManifest.source \in 0 .. PvMaxEvents
      BY <2>3
    <3>4. pvDst' = PvWhole(pvManifest.source)
      BY <2>1, <3>1, <3>2, <3>3, PvWholeFile
    <3> QED
      BY <2>2, <3>1, <3>4
  <2> QED
    BY <2>2, <2>3
<1>17. CASE PvOther
  BY <1>17 DEF PvOther
<1>18. CASE PvBeside
  BY <1>18 DEF PvBeside
<1> QED
  BY <1>1, <1>2, <1>3, <1>4, <1>5, <1>6, <1>7, <1>8, <1>9, <1>10, <1>11, <1>12,
     <1>13, <1>14, <1>15, <1>16, <1>17, <1>18, <1>19, <1>20
  DEF PvMove, PvNext, PvStep

\* The phase a process is in and the records on disk keep agreeing.
LEMMA PvPhaseStep ==
  ASSUME PvTypeOK, PvLockInv, PvPhaseInv, PvMove
  PROVE  PvPhaseInv'
<1> USE PvConstants
    DEF PvTypeOK, PvLockInv, PvPhaseInv, PvGo, PvSay, PvGiveUp, PvAttempt, PvEvent, PvSteps,
        PvManifestRecord, PvStatusRecord, pvRecords, pvCounts
<1>1. ASSUME NEW p \in PvProcs, PvFresh(p) PROVE PvPhaseInv'
  BY <1>1 DEF PvFresh
<1>2. ASSUME NEW p \in PvProcs, PvCreate(p) PROVE PvPhaseInv'
  BY <1>2 DEF PvCreate
<1>3. ASSUME NEW p \in PvProcs, PvBind(p) PROVE PvPhaseInv'
  BY <1>3 DEF PvBind
<1>4. ASSUME NEW p \in PvProcs, PvResume(p) PROVE PvPhaseInv'
  BY <1>4 DEF PvResume
<1>19. ASSUME NEW p \in PvProcs, PvRefuse(p) PROVE PvPhaseInv'
  BY <1>19 DEF PvRefuse
<1>20. ASSUME NEW p \in PvProcs, PvAnnounce(p) PROVE PvPhaseInv'
  BY <1>20 DEF PvAnnounce
<1>5. ASSUME NEW p \in PvProcs, PvValidate(p) PROVE PvPhaseInv'
  BY <1>5 DEF PvValidate
<1>6. ASSUME NEW p \in PvProcs, PvBegin(p) PROVE PvPhaseInv'
  BY <1>6 DEF PvBegin
<1>7. ASSUME NEW p \in PvProcs, PvPrefix(p) PROVE PvPhaseInv'
  BY <1>7 DEF PvPrefix
<1>8. ASSUME NEW p \in PvProcs, PvCopy(p) PROVE PvPhaseInv'
  BY <1>8 DEF PvCopy
<1>9. ASSUME NEW p \in PvProcs, PvCheckpoint(p) PROVE PvPhaseInv'
  BY <1>9 DEF PvCheckpoint
<1>10. ASSUME NEW p \in PvProcs, PvFinish(p) PROVE PvPhaseInv'
  BY <1>10 DEF PvFinish
<1>11. ASSUME NEW p \in PvProcs, PvVerify(p) PROVE PvPhaseInv'
  BY <1>11 DEF PvVerify
<1>12. ASSUME NEW p \in PvProcs, PvRecordVerified(p) PROVE PvPhaseInv'
  BY <1>12 DEF PvRecordVerified
<1>13. ASSUME NEW p \in PvProcs, PvComplete(p) PROVE PvPhaseInv'
  BY <1>13 DEF PvComplete
<1>14. ASSUME NEW p \in PvProcs, PvRaise(p) PROVE PvPhaseInv'
  BY <1>14 DEF PvRaise
<1>15. ASSUME NEW p \in PvProcs, PvKill(p) PROVE PvPhaseInv'
  BY <1>15 DEF PvKill
<1>16. CASE PvPowerLoss
  BY <1>16 DEF PvPowerLoss
<1>17. CASE PvOther
  BY <1>17 DEF PvOther
<1>18. CASE PvBeside
  BY <1>18 DEF PvBeside
<1> QED
  BY <1>1, <1>2, <1>3, <1>4, <1>5, <1>6, <1>7, <1>8, <1>9, <1>10, <1>11, <1>12,
     <1>13, <1>14, <1>15, <1>16, <1>17, <1>18, <1>19, <1>20
  DEF PvMove, PvNext, PvStep

\* The invariant of the preservation holds before any process has started.
LEMMA PvInvInit == PvInit => PvInv
<1>1. PvInit => pvDir \in BOOLEAN /\ pvReaders \in BOOLEAN
  BY Zenon DEF PvInit
<1>2. PvInit => PvTypeOK
  BY <1>1, PvEmptyFile, PvConstants DEF PvInit, PvTypeOK, PvSteps
<1>3. PvInit => PvLockInv /\ PvBoundInv /\ PvReadInv /\ PvVerifiedStands /\ PvPhaseInv
  BY PvConstants
  DEF PvInit, PvLockInv, PvBoundInv, PvReadInv, PvVerifiedStands, PvPhaseInv
<1> QED
  BY <1>2, <1>3 DEF PvInv

\* The invariant of the preservation is kept by every step of any process, crash or program.
LEMMA PvInvStep ==
  ASSUME PvInv, PvMove
  PROVE  PvInv'
  BY PvTypeStep, PvLockStep, PvBoundStep, PvReadStep, PvVerifiedStep, PvPhaseStep DEF PvInv

\* Nothing an attempt, a fault, a power loss or a change by others does takes
\* the copy of a verified version away unseen.
LEMMA PvInvMeans == PvInv => PvTypeOK /\ PvCompleteIsCopy /\ PvCompleteIsLatest
  BY DEF PvInv, PvLockInv, PvVerifiedStands, PvPhaseInv, PvCompleteIsCopy, PvCompleteIsLatest,
         PvWhole

\* Preservation alone, with any number of runs.
THEOREM PvInvariant == PvSpec => []PvInv
<1>1. PvInv /\ [PvNext]_pvVars => PvInv'
  <2>1. CASE UNCHANGED pvVars
    BY <2>1 DEF pvVars, pvRecords, pvCounts, PvInv, PvTypeOK, PvLockInv, PvBoundInv, PvReadInv,
                PvVerifiedStands, PvPhaseInv
  <2> QED
    BY <2>1, PvInvStep DEF PvMove
<1> QED
  BY <1>1, PvInvInit, PTL DEF PvSpec

\* What an inventory relies on: the manifest, once made, keeps the version
\* of the source, and its verification only gets newer.
LEMMA PvManifestStep ==
  ASSUME PvInv, PvMove, pvManifest # Missing
  PROVE  /\ pvManifest \in PvManifestRecord /\ pvManifest' \in PvManifestRecord
         /\ pvManifest' # Missing
         /\ pvManifest'.source = pvManifest.source
         /\ pvManifest.verified <= pvManifest'.verified
         /\ pvManifest.edits <= pvManifest'.edits
         /\ pvEdits \in Nat /\ pvEdits' \in Nat /\ pvEdits <= pvEdits'
<1>1. PvTypeOK /\ PvTypeOK' /\ PvLockInv /\ PvBoundInv
  BY PvInvStep DEF PvInv
<1>2. \/ UNCHANGED <<pvManifest, pvEdits>>
      \/ pvManifest' = pvManifest /\ pvEdits' = pvEdits + 1
      \/ \E p \in PvProcs : PvBind(p) \/ PvRecordVerified(p)
  BY DEF PvMove, PvNext, PvStep, PvFresh, PvCreate, PvResume, PvRefuse, PvAnnounce, PvValidate, PvBegin,
         PvPrefix, PvCopy, PvCheckpoint, PvFinish, PvVerify, PvComplete, PvRaise, PvKill,
         PvPowerLoss, PvOther, PvBeside, pvRecords
<1>3. CASE \E p \in PvProcs : PvBind(p)
  BY <1>1, <1>3 DEF PvLockInv, PvBind
<1>4. ASSUME NEW p \in PvProcs, PvRecordVerified(p)
      PROVE  /\ pvManifest'.source = pvManifest.source /\ pvEdits' = pvEdits
             /\ pvManifest.verified <= pvManifest'.verified
             /\ pvManifest.edits <= pvManifest'.edits
             /\ pvManifest' # Missing
  BY <1>1, <1>4, PvConstants DEF PvTypeOK, PvLockInv, PvBoundInv, PvRecordVerified, PvManifestRecord
<1>5. CASE UNCHANGED pvManifest /\ pvEdits' \in {pvEdits, pvEdits + 1}
  BY <1>1, <1>5, PvConstants DEF PvTypeOK, PvManifestRecord
<1>6. pvManifest \in PvManifestRecord
  BY <1>1 DEF PvTypeOK
<1>7. pvManifest' \in PvManifestRecord \cup {Missing} /\ pvEdits \in Nat /\ pvEdits' \in Nat
  BY <1>1 DEF PvTypeOK
<1> QED
  BY <1>2, <1>3, <1>4, <1>5, <1>6, <1>7

\* A step of the inventory or one beside it, the power loss included
IvMove ==
    \/ IvFresh \/ IvResume \/ IvStart \/ IvMarker \/ IvReadManifest \/ IvReadStatus
    \/ IvDigests \/ IvOpen \/ IvNextStage \/ IvRunStage \/ IvClose \/ IvFinish
    \/ IvFault \/ UNCHANGED ivVars \/ IvStop

\* The image is held open or it is not, after every step of the inventory.
LEMMA IvReadersStep ==
  ASSUME pvReaders \in BOOLEAN, IvStep \/ IvFault
  PROVE  pvReaders' \in BOOLEAN
<1> USE DEF IvGiveUp, IvProceed, IvStop, TakeImage
<1>1. CASE IvFresh
  BY <1>1, Zenon DEF IvFresh
<1>2. CASE IvResume
  BY <1>2, Zenon DEF IvResume
<1>3. CASE IvStart
  BY <1>3, Zenon DEF IvStart
<1>4. CASE IvMarker
  BY <1>4, Zenon DEF IvMarker
<1>5. CASE IvReadManifest
  BY <1>5, Zenon DEF IvReadManifest
<1>6. CASE IvReadStatus
  BY <1>6, Zenon DEF IvReadStatus
<1>7. CASE IvDigests
  BY <1>7, Zenon DEF IvDigests
<1>8. CASE IvOpen
  BY <1>8, Zenon DEF IvOpen
<1>9. CASE IvNextStage
  BY <1>9, Zenon DEF IvNextStage
<1>10. CASE IvRunStage
  BY <1>10, Zenon DEF IvRunStage
<1>11. CASE IvClose
  BY <1>11, Zenon DEF IvClose
<1>12. CASE IvFinish
  BY <1>12, Zenon DEF IvFinish
<1>13. CASE IvFault
  BY <1>13, Zenon DEF IvFault
<1> QED
  BY <1>1, <1>2, <1>3, <1>4, <1>5, <1>6, <1>7, <1>8, <1>9, <1>10, <1>11, <1>12,
     <1>13 DEF IvStep

\* Whatever happens in the composition is a move of both parts.
LEMMA InventoryMove ==
  ASSUME PvTypeOK, [InventoryNext]_<<pvVars, ivVars>>
  PROVE  PvMove /\ IvMove
<1>1. CASE /\ (IvStep /\ UNCHANGED pvEvents) \/ IvFault
           /\ UNCHANGED <<pvSource, pvDst, pvSynced, pvEdits, pvDir, pvRecords, pvLock,
                          pvPc, pvRead, pvCounts>>
  <2>1. IvMove
    BY <1>1 DEF IvMove, IvStep
  <2>2. pvReaders' \in BOOLEAN
    BY <1>1, IvReadersStep DEF PvTypeOK
  <2>3. UNCHANGED pvEvents \/ PvEvent
    BY <1>1 DEF IvFault
  <2> QED
    BY <1>1, <2>1, <2>2, <2>3 DEF PvMove, PvBeside
<1>2. CASE ((\E p \in PvProcs : PvStep(p)) \/ PvOther) /\ UNCHANGED ivVars
  BY <1>2 DEF PvMove, PvNext, IvMove
<1>3. CASE PvPowerLoss /\ IvStop
  BY <1>3 DEF PvMove, PvNext, IvMove
<1>4. CASE UNCHANGED <<pvVars, ivVars>>
  BY <1>4 DEF PvMove, PvBeside, IvMove, pvVars, ivVars, PvTypeOK
<1> QED
  BY <1>1, <1>2, <1>3, <1>4 DEF InventoryNext

\* An inventory is closing or it is not, after every step.
LEMMA IvClosingStep ==
  ASSUME ivClosing \in BOOLEAN, IvMove
  PROVE  ivClosing' \in BOOLEAN
<1> USE DEF IvGiveUp, IvProceed, IvStop
<1>1. CASE IvFresh
  BY <1>1, Zenon DEF IvFresh
<1>2. CASE IvResume
  BY <1>2, Zenon DEF IvResume
<1>3. CASE IvStart
  BY <1>3, Zenon DEF IvStart
<1>4. CASE IvMarker
  BY <1>4, Zenon DEF IvMarker
<1>5. CASE IvReadManifest
  BY <1>5, Zenon DEF IvReadManifest
<1>6. CASE IvReadStatus
  BY <1>6, Zenon DEF IvReadStatus
<1>7. CASE IvDigests
  BY <1>7, Zenon DEF IvDigests
<1>8. CASE IvOpen
  BY <1>8, Zenon DEF IvOpen
<1>9. CASE IvNextStage
  BY <1>9, Zenon DEF IvNextStage
<1>10. CASE IvRunStage
  BY <1>10, Zenon DEF IvRunStage
<1>11. CASE IvClose
  BY <1>11, Zenon DEF IvClose
<1>12. CASE IvFinish
  BY <1>12, Zenon DEF IvFinish
<1>13. CASE IvFault
  BY <1>13, Zenon DEF IvFault
<1>14. CASE UNCHANGED ivVars
  BY <1>14 DEF ivVars
<1>15. CASE IvStop
  BY <1>15, Zenon DEF IvStop
<1> QED
  BY <1>1, <1>2, <1>3, <1>4, <1>5, <1>6, <1>7, <1>8, <1>9, <1>10, <1>11, <1>12,
     <1>13, <1>14, <1>15 DEF IvMove

\* Every step keeps the inventory's records and locals in their types.
LEMMA IvTypeStep ==
  ASSUME PvTypeOK, IvTypeOK, IvMove
  PROVE  IvTypeOK'
<1>c. ivClosing' \in BOOLEAN
  BY IvClosingStep DEF IvTypeOK
<1> DEFINE Digests == (PvManifestRecord \cup {Missing}) \X (PvStatusRecord \cup {Missing})
                        \X {"0", "1", Missing}
<1>g. NoGate \in IvGates
  BY DEF NoGate, IvGates
<1>r. pvRecords \in Digests
  BY DEF PvTypeOK, pvRecords
<1>1. /\ ivPc' \in IvSteps
      /\ ivPhase' \in IvPhases \cup {Missing}
      /\ ivRuns' \in 0 .. IvMaxRuns
  BY IvConstants
  DEF IvMove, IvTypeOK, IvSteps, IvPhases, IvFresh, IvResume, IvStart, IvMarker, IvReadManifest,
      IvReadStatus, IvDigests, IvOpen, IvNextStage, IvRunStage, IvClose, IvFinish, IvFault,
      IvStop, IvGiveUp, IvProceed, ivVars
<1>2. ivStage' \in [IvStages -> PvFiles \cup {Missing}]
  BY DEF IvMove, IvTypeOK, PvTypeOK, IvFresh, IvResume, IvStart, IvMarker, IvReadManifest,
      IvReadStatus, IvDigests, IvOpen, IvNextStage, IvRunStage, IvClose, IvFinish, IvFault,
      IvStop, IvGiveUp, IvProceed, ivVars
<1>3. ivSeen' \in IvGates
  <2>1. CASE ivSeen' = ivSeen \/ ivSeen' = NoGate
    BY <2>1, <1>g DEF IvTypeOK
  <2>2. CASE IvReadManifest
    BY <2>2 DEF IvReadManifest, IvTypeOK, PvTypeOK, IvGates
  <2>3. CASE IvReadStatus
    BY <2>3 DEF IvReadStatus, IvTypeOK, PvTypeOK, IvGates, IvGiveUp
  <2> QED
    BY <2>1, <2>2, <2>3
    DEF IvMove, IvFresh, IvResume, IvStart, IvMarker, IvDigests, IvOpen, IvNextStage,
        IvRunStage, IvClose, IvFinish, IvFault, IvStop, IvGiveUp, IvProceed, ivVars
<1>4. ivGate' \in IvGates
  <2>1. CASE ivGate' = ivGate \/ ivGate' = NoGate
    BY <2>1, <1>g DEF IvTypeOK
  <2>2. [ivSeen EXCEPT !.digests = pvRecords] \in IvGates
    BY <1>r DEF IvTypeOK, IvGates
  <2>3. CASE ivGate' = [ivSeen EXCEPT !.digests = pvRecords]
    BY <2>2, <2>3
  <2> QED
    BY <2>1, <2>3
    DEF IvMove, IvFresh, IvResume, IvStart, IvMarker, IvReadManifest, IvReadStatus, IvDigests,
        IvOpen, IvNextStage, IvRunStage, IvClose, IvFinish, IvFault, IvStop, IvGiveUp,
        IvProceed, ivVars
<1>5. ivManifest' \in IvGates \cup {Missing}
  <2>1. ivManifest' \in {ivManifest, NoGate, ivGate}
    BY DEF IvMove, IvFresh, IvResume, IvStart, IvMarker, IvReadManifest, IvReadStatus,
        IvDigests, IvOpen, IvNextStage, IvRunStage, IvClose, IvFinish, IvFault, IvStop,
        IvGiveUp, IvProceed, ivVars
  <2> QED
    BY <2>1, <1>g DEF IvTypeOK
<1> QED
  BY <1>c, <1>1, <1>2, <1>3, <1>4, <1>5 DEF IvTypeOK

\* The gate stays good whatever attempts do meanwhile.
LEMMA IvGateStep ==
  ASSUME PvInv, IvTypeOK, IvGateInv, IvStageInv, PvMove, IvMove
  PROVE  IvGateInv'
<1>m. pvManifest # Missing =>
         /\ pvManifest \in PvManifestRecord /\ pvManifest' \in PvManifestRecord
         /\ pvManifest' # Missing /\ pvManifest'.source = pvManifest.source
         /\ pvManifest.verified <= pvManifest'.verified
         /\ pvManifest.edits <= pvManifest'.edits
  BY PvManifestStep
<1>s. /\ pvStatus \in PvStatusRecord \cup {Missing}
      /\ pvStatus # Missing => pvManifest # Missing /\ pvStatus' # Missing
      /\ pvExit = "0" => pvStatus # Missing
      /\ \A r \in PvStatusRecord : r.attempt \in Nat /\ r.attempt >= 1
  BY PvRecordStep, PvConstants DEF PvInv, PvTypeOK, PvLockInv, PvStatusRecord
<1>n. \A m \in PvManifestRecord : m.verified \in Nat /\ m.edits \in Nat
  BY PvConstants DEF PvManifestRecord
<1> USE <1>m, <1>s, <1>n, IvConstants
    DEF IvGood, IvRead, NoGate, IvGates, IvGateInv, IvTypeOK, IvGiveUp, IvProceed, IvStop, IvSteps
<1>1. CASE IvFresh
  BY <1>1 DEF IvFresh
<1>2. CASE IvResume
  BY <1>2 DEF IvResume
<1>3. CASE IvStart
  BY <1>3 DEF IvStart
<1>4. CASE IvMarker
  BY <1>4, SMTT(20) DEF IvMarker
<1>5. CASE IvReadManifest
  BY <1>5 DEF IvReadManifest
<1>6. CASE IvReadStatus
  <2>1. CASE /\ pvStatus.phase = "complete" /\ pvStatus.attempt = ivSeen.m.verified
             /\ ivSeen' = [ivSeen EXCEPT !.s = pvStatus]
             /\ IvProceed("digests") /\ UNCHANGED ivGate /\ ivPc = "status"
    <3>1. IvGood(ivSeen.m)
      BY <2>1
    <3>2. ivSeen'.m = ivSeen.m
      BY <2>1
    <3> QED
      BY <2>1, <3>1, <3>2
  <2>2. CASE IvGiveUp
    BY <2>2
  <2> QED
    BY <1>6, <2>1, <2>2 DEF IvReadStatus
<1>7. CASE IvDigests
  <2> DEFINE gate == [ivSeen EXCEPT !.digests = pvRecords]
  <2>0. gate.m = ivSeen.m /\ IvGood(ivSeen.m) /\ ivPc = "digests"
    BY <1>7 DEF IvDigests
  <2>1. CASE /\ ivClosing /\ gate = ivGate /\ ivGate' = gate /\ IvProceed("finish")
    BY <2>0, <2>1
  <2>2. CASE /\ ~ivClosing /\ ivManifest \in {NoGate, gate} /\ ivGate' = gate
             /\ IvProceed("open")
    BY <2>0, <2>2
  <2>3. CASE IvGiveUp
    BY <2>3
  <2> QED
    BY <1>7, <2>1, <2>2, <2>3 DEF IvDigests
<1>8. CASE IvOpen
  BY <1>8, SMTT(20) DEF IvOpen
<1>9. CASE IvNextStage
  BY <1>9 DEF IvNextStage
<1>10. CASE IvRunStage
  BY <1>10 DEF IvRunStage
<1>11. CASE IvClose
  BY <1>11 DEF IvClose
<1>12. CASE IvFinish
  BY <1>12 DEF IvFinish
<1>13. CASE IvFault
  BY <1>13, SMTT(20) DEF IvFault
<1>14. CASE UNCHANGED ivVars
  BY <1>14 DEF ivVars
<1>15. CASE IvStop
  BY <1>15 DEF IvStop
<1> QED
  BY <1>1, <1>2, <1>3, <1>4, <1>5, <1>6, <1>7, <1>8, <1>9, <1>10, <1>11, <1>12,
     <1>13, <1>14, <1>15 DEF IvMove

\* What the stages under a gate read: as long as the copy has the edits of a
\* good gate, it is the whole of the version that the gate names.
LEMMA IvGateIsCopy ==
  ASSUME PvInv, NEW m, IvGood(m)
  PROVE  /\ m.edits \in Nat /\ pvEdits \in Nat
         /\ pvDst = PvWhole(m.source) \/ pvEdits > m.edits
<1> USE PvConstants DEF PvInv, PvTypeOK, PvBoundInv, IvGood, PvManifestRecord
<1>1. m.edits \in Nat /\ pvEdits \in Nat /\ pvManifest.edits \in Nat
  OBVIOUS
<1>2. m.edits <= pvManifest.edits /\ pvManifest.edits <= pvEdits
  OBVIOUS
<1>3. pvManifest.verified >= 1 /\ m.source = pvManifest.source
  OBVIOUS
<1> QED
  BY <1>1, <1>2, <1>3 DEF PvVerifiedStands

\* A recorded stage was read from the image that the gate describes.
LEMMA IvStageStep ==
  ASSUME PvInv, IvTypeOK, IvGateInv, IvStageInv, PvMove, IvMove
  PROVE  IvStageInv'
<1>e. pvManifest # Missing => pvEdits \in Nat /\ pvEdits' \in Nat /\ pvEdits <= pvEdits'
  BY PvManifestStep
<1>g. \A m : IvGood(m) => /\ pvManifest # Missing /\ m.edits \in Nat
                          /\ pvDst = PvWhole(m.source) \/ pvEdits > m.edits
  BY IvGateIsCopy DEF IvGood
<1> USE <1>e, <1>g, IvConstants
    DEF IvStageInv, IvGateInv, IvTypeOK, IvWhole, IvClosed, IvGiveUp,
        IvProceed, IvStop, IvSteps, IvPhases
<1>1. CASE IvFresh
  BY <1>1 DEF IvFresh
<1>2. CASE IvResume
  BY <1>2 DEF IvResume
<1>3. CASE IvStart
  BY <1>3 DEF IvStart
<1>4. CASE IvMarker
  BY <1>4 DEF IvMarker
<1>5. CASE IvReadManifest
  BY <1>5 DEF IvReadManifest
<1>6. CASE IvReadStatus
  BY <1>6 DEF IvReadStatus
<1>7. CASE IvDigests
  BY <1>7 DEF IvDigests
<1>8. CASE IvOpen
  BY <1>8 DEF IvOpen
<1>9. CASE IvNextStage
  BY <1>9 DEF IvNextStage
<1>10. CASE IvRunStage
  <2>1. /\ IvGood(ivGate.m) /\ ivManifest = ivGate /\ ~ivClosing /\ ivPhase # "complete"
        /\ ivPc' = "stage"
        /\ UNCHANGED <<ivManifest, ivClosing, ivPhase>>
    BY <1>10 DEF IvRunStage
  <2>2. ivGate \notin {Missing, NoGate}
    BY <2>1, PvConstants DEF IvGood, NoGate
  <2>3. PICK i \in IvStages : ivStage' = [ivStage EXCEPT ![i] = pvDst]
    BY <1>10 DEF IvRunStage
  <2>4. pvManifest # Missing /\ ivManifest.m.edits \in Nat
        /\ (pvDst = PvWhole(ivManifest.m.source) \/ pvEdits > ivManifest.m.edits)
    BY <2>1, <1>g
  <2>5. \A j \in IvStages : IvWhole(j)' \/ pvEdits' > ivManifest'.m.edits \/ ivStage'[j] = Missing
    BY <2>1, <2>3, <2>4
  <2> QED
    BY <2>1, <2>2, <2>5
<1>11. CASE IvClose
  <2>1. /\ IvGood(ivGate.m) /\ ivManifest = ivGate /\ ivPc = "stage"
        /\ pvEdits = ivGate.m.edits /\ \A i \in IvStages : ivStage[i] # Missing
        /\ ivPhase # "complete" /\ ivPc' = "marker"
        /\ UNCHANGED <<ivManifest, ivStage, ivPhase>>
    BY <1>11 DEF IvClose, ImageIsGated
  <2>2. ivGate \notin {Missing, NoGate}
    BY <2>1, PvConstants DEF IvGood, NoGate
  <2>3. pvEdits \in Nat
    BY <2>1, <1>g
  <2>4. \A i \in IvStages : IvWhole(i)
    BY <2>1, <2>3
  <2> QED
    BY <2>1, <2>2, <2>3, <2>4
<1>12. CASE IvFinish
  BY <1>12 DEF IvFinish
<1>13. CASE IvFault
  BY <1>13 DEF IvFault
<1>14. CASE UNCHANGED ivVars
  BY <1>14 DEF ivVars
<1>15. CASE IvStop
  BY <1>15 DEF IvStop
<1> QED
  BY <1>1, <1>2, <1>3, <1>4, <1>5, <1>6, <1>7, <1>8, <1>9, <1>10, <1>11, <1>12,
     <1>13, <1>14, <1>15 DEF IvMove

\* The image is opened for reading when no attempt has it, and an attempt is
\* refused as long as it is read.
LEMMA IvReadersInvStep ==
  ASSUME PvInv, IvTypeOK, IvGateInv, IvReadersInv, [InventoryNext]_<<pvVars, ivVars>>
  PROVE  IvReadersInv'
<1>t. PvTypeOK /\ PvLockInv
  BY DEF PvInv
<1>1. CASE /\ IvStep \/ IvFault
           /\ UNCHANGED <<pvManifest, pvPc>>
  <2>1. CASE IvOpen
    BY <1>1, <2>1 DEF IvOpen, IvReadersInv, IvGateInv, TakeImage, PvHoldsDst, IvGiveUp
  <2>2. pvReaders' = FALSE \/ pvReaders' = pvReaders \/ IvOpen
    BY <1>1, Zenon
    DEF IvStep, IvFresh, IvResume, IvStart, IvMarker, IvReadManifest, IvReadStatus, IvDigests,
        IvNextStage, IvRunStage, IvClose, IvFinish, IvFault, IvStop, IvGiveUp, IvProceed
  <2> QED
    BY <1>1, <2>1, <2>2 DEF IvReadersInv, PvHoldsDst
<1>2. ASSUME NEW p \in PvProcs, PvStep(p) PROVE IvReadersInv'
  <2>1. pvReaders' = pvReaders
    BY <1>2
    DEF PvStep, PvFresh, PvCreate, PvBind, PvResume, PvRefuse, PvAnnounce, PvValidate, PvBegin, PvPrefix, PvCopy,
        PvCheckpoint, PvFinish, PvVerify, PvRecordVerified, PvComplete, PvRaise, PvKill
  <2>2. ASSUME pvReaders PROVE pvManifest' # Missing /\ ~PvHoldsDst'
    <3>1. pvManifest # Missing /\ ~PvHoldsDst
      BY <2>2 DEF IvReadersInv
    <3>2. pvManifest' # Missing
      BY <1>2, <3>1, PvManifestStep DEF PvMove, PvNext
    <3>3. \A q \in PvProcs : pvPc[q] \in {"idle", "resume", "validate"}
      BY <3>1, <1>t DEF PvHoldsDst, PvLockInv
    <3>4. \/ pvPc' = [pvPc EXCEPT ![p] = "idle"]
          \/ pvPc' = [pvPc EXCEPT ![p] = "create"]
          \/ pvPc' = [pvPc EXCEPT ![p] = "resume"]
          \/ pvPc' = [pvPc EXCEPT ![p] = "validate"]
      BY <1>2, <2>2, <3>3
      DEF PvStep, PvFresh, PvCreate, PvBind, PvResume, PvRefuse, PvAnnounce, PvValidate, PvBegin, PvPrefix, PvCopy,
          PvCheckpoint, PvFinish, PvVerify, PvRecordVerified, PvComplete, PvRaise, PvKill,
          PvGo, PvGiveUp
    <3> QED
      BY <3>2, <3>3, <3>4, <1>t DEF PvHoldsDst, PvTypeOK
  <2> QED
    BY <2>1, <2>2 DEF IvReadersInv
<1>3. CASE PvPowerLoss
  BY <1>3 DEF PvPowerLoss, IvReadersInv
<1>4. CASE PvOther \/ UNCHANGED <<pvVars, ivVars>>
  BY <1>4 DEF PvOther, pvVars, pvRecords, pvCounts, IvReadersInv, PvHoldsDst
<1> QED
  BY <1>1, <1>2, <1>3, <1>4 DEF InventoryNext, pvRecords

\* The invariant of the inventory holds before it has started.
LEMMA IvInvInit == InventoryInit => IvInv
<1>1. InventoryInit => PvInv
  BY PvInvInit DEF InventoryInit
<1>2. InventoryInit => ivClosing \in BOOLEAN /\ ~pvReaders /\ ~ivClosing
  BY Zenon DEF InventoryInit, IvInit, PvInit
<1>3. NoGate \in IvGates
  BY DEF NoGate, IvGates
<1>4. InventoryInit => IvTypeOK
  BY <1>2, <1>3, IvConstants DEF InventoryInit, IvInit, IvTypeOK, IvSteps
<1>5. InventoryInit => IvReadersInv /\ IvGateInv /\ IvStageInv
  BY <1>2, IvConstants
  DEF InventoryInit, IvInit, IvReadersInv, IvGateInv, IvStageInv, IvClosed, IvPhases
<1> QED
  BY <1>1, <1>4, <1>5 DEF IvInv

\* The invariant of the inventory is kept by every step, the preservation's included.
LEMMA IvInvStep ==
  ASSUME IvInv, [InventoryNext]_<<pvVars, ivVars>>
  PROVE  IvInv'
<1>1. PvMove /\ IvMove
  BY InventoryMove DEF IvInv, PvInv
<1>2. PvInv' /\ IvTypeOK'
  BY <1>1, PvInvStep, IvTypeStep DEF IvInv, PvInv
<1>3. IvGateInv' /\ IvStageInv' /\ IvReadersInv'
  BY <1>1, IvGateStep, IvStageStep, IvReadersInvStep DEF IvInv
<1> QED
  BY <1>2, <1>3 DEF IvInv

\* The inventory beside preservation attempts, with any number of stages.
THEOREM InventoryInvariant == InventorySpec => []IvInv
  BY IvInvInit, IvInvStep, PTL DEF InventorySpec

\* A completion on record is a durable copy of the version the manifest names.
THEOREM PvCompleteIsCopyAlways == InventorySpec => []PvCompleteIsCopy
<1>1. IvInv => PvCompleteIsCopy
  BY PvInvMeans DEF IvInv
<1> QED
  BY <1>1, InventoryInvariant, PTL

\* Whatever attempts fail, are killed or lose their writes, none that got as
\* far as the source and the destination leaves an earlier success standing.
THEOREM PvCompleteIsLatestAlways == InventorySpec => []PvCompleteIsLatest
<1>1. IvInv => PvCompleteIsLatest
  BY PvInvMeans DEF IvInv
<1> QED
  BY <1>1, InventoryInvariant, PTL

\* What a complete inventory tells of, in all its stages and whatever runs
\* did them, is the copy that was verified.
THEOREM IvCompleteReadVerifiedAlways == InventorySpec => []IvCompleteReadVerified
<1>1. IvInv => IvCompleteReadVerified
  BY DEF IvInv, IvStageInv, IvClosed, IvWhole, IvCompleteReadVerified, PvWhole
<1> QED
  BY <1>1, InventoryInvariant, PTL

\* The locks on the image keep its readers and its writer apart.
THEOREM IvExcludesCopyAlways == InventorySpec => []IvExcludesCopy
<1>1. IvInv => IvExcludesCopy
  BY DEF IvInv, IvReadersInv, IvExcludesCopy
<1> QED
  BY <1>1, InventoryInvariant, PTL

\* The two routes of the checked instance, whatever its size, keep the types
\* of all three components.
THEOREM AcquisitionTypes == Spec => []TypeOK
<1>1. Init => GzInit /\ InventoryInit
  BY DEF Init
<1>2. [Next]_vars => [GzNext]_gzVars /\ [InventoryNext]_<<pvVars, ivVars>>
  BY DEF Next, vars
<1>3. Spec => GzSpec /\ InventorySpec
  BY <1>1, <1>2, PTL DEF Spec, GzSpec, InventorySpec
<1>4. GzInv /\ IvInv => TypeOK
  BY DEF GzInv, IvInv, PvInv, TypeOK
<1> QED
  BY <1>3, <1>4, GzInvariant, InventoryInvariant, PTL
=============================================================================
