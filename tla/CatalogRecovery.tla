--------------------------- MODULE CatalogRecovery ---------------------------
(***************************************************************************)
(* scripts/recover_catalog.py: the rows of an inventory's catalog go into  *)
(* a database of streams (several rows, aliases, may name one stream), and *)
(* icat exports each wanted stream into a numbered file, within a limit on *)
(* the bytes of all files that are kept, failed attempts included.  A run  *)
(* that stopped is resumed under the same inputs and lock.                 *)
(*                                                                         *)
(* crTx is what the open database connection sees, crDb what is committed: *)
(* a run that is killed loses the difference, one that raises commits it.  *)
(* A file is [size, sound]: unsound if the medium kept other bytes, or if  *)
(* somebody changed it.                                                    *)
(***************************************************************************)
EXTENDS Integers, Sequences, FiniteSets, Functions

CONSTANTS
    CrStreams,    \* numbers of the streams, in the order of their export
    CrCatalogs,   \* catalogs: sequences of [stream, size, flag]
    CrModes,      \* which streams are wanted: "all" or "deleted"
    CrBatch,      \* rows between commits of the import
    CrLimit,      \* limit on the bytes of all kept files
    CrMaxRuns,    \* bound: runs started
    CrMaxEvents,  \* bound: faults, kills and changes by others
    CrNil           \* no stream, no phase

CrStates     == {"pending", "ambiguous_allocation", "conflict", "not_selected",
                 "deferred", "complete", "partial", "failed"}
CrExportable == {"pending", "complete", "partial", "failed", "deferred"}
CrAttempts   == {"running", "complete", "partial", "failed", "interrupted"}

CrRow    == [stream : CrStreams, size : Nat, flag : {"deleted", "allocated", "unsure"}]
CrStream == [size : Nat, deleted : BOOLEAN, state : CrStates]
CrExport == [state : CrAttempts, size : Nat]
CrFile   == [size : Nat, sound : BOOLEAN]

ASSUME CrConstants ==
    /\ CrCatalogs \subseteq Seq(CrRow)
    /\ CrStreams \subseteq Nat /\ CrModes \subseteq {"all", "deleted"}
    /\ CrBatch \in Nat \ {0} /\ CrLimit \in Nat
    /\ CrMaxRuns \in Nat /\ CrMaxEvents \in Nat
    /\ CrNil \notin CrStreams \cup CrStream \cup {"complete"}

VARIABLES
    crCatalog, crMode,  \* the bound inputs
    crDb,      \* committed: rows imported, streams, attempts per stream
    crTx,      \* the same, as the open transaction has it
    crFiles,   \* per stream, the files of its attempts
    crPhase,   \* "phase" of status.json
    crPc,      \* what the run does next
    crAt,      \* the stream it is at
    crDone,    \* streams this run has been at
    crUsed,    \* bytes it counts as used
    crCopied,  \* bytes of the attempt under way that are written
    crSent,    \* chunks its tool has given to the reader thread
    crQueue,   \* what the reader has queued: "data", at last "end"
    crFailed,  \* the copy has a failure to report
    crRuns, crEvents

crCopy == <<crCopied, crSent, crQueue, crFailed>>
crVars == <<crCatalog, crMode, crDb, crTx, crFiles, crPhase, crPc, crAt, crDone,
            crUsed, crCopy, crRuns, crEvents>>

CrSteps     == {"idle", "import", "ref", "used", "reconcile", "export", "create", "copy",
                "record", "update", "finish"}
NoDb == [rows |-> 0, streams |-> [s \in CrStreams |-> CrNil],
         exports |-> [s \in CrStreams |-> <<>>]]

CrInit ==
    /\ crCatalog \in CrCatalogs /\ crMode \in CrModes
    /\ crDb = NoDb /\ crTx = NoDb
    /\ crFiles = [s \in CrStreams |-> <<>>]
    /\ crPhase = CrNil
    /\ crPc = "idle" /\ crAt = CrNil /\ crDone = {}
    /\ crUsed = 0
    /\ crCopied = 0 /\ crSent = 0 /\ crQueue = <<>> /\ crFailed = FALSE
    /\ crRuns = 0 /\ crEvents = 0

CrEvent == crEvents < CrMaxEvents /\ crEvents' = crEvents + 1
CrCommit(tx) == crTx' = tx /\ crDb' = tx
BytesIn(files) == UNION {UNION {{<<s, a, b>> : b \in 1 .. files[s][a].size} :
                                   a \in DOMAIN files[s]} : s \in CrStreams}
FileBytes(files) == Cardinality(BytesIn(files))
LastFile(s) == crFiles[s][Len(crFiles[s])]
LastExport(s) == crTx.exports[s][Len(crTx.exports[s])]
WithStream(tx, s, stream) == [tx EXCEPT !.streams = [tx.streams EXCEPT ![s] = stream]]
WithExports(tx, s, exports) == [tx EXCEPT !.exports = [tx.exports EXCEPT ![s] = exports]]
EndAttempt(tx, s, export) ==
    WithExports(tx, s, [tx.exports[s] EXCEPT ![Len(tx.exports[s])] = export])
-----------------------------------------------------------------------------
\* A fresh run, or a resume: that one invalidates the status first.
CrStart ==
    /\ crPc = "idle" /\ crRuns < CrMaxRuns
    /\ crRuns' = crRuns + 1
    /\ crTx' = crDb
    /\ crPhase' = "validating"
    /\ crPc' = "import" /\ crAt' = CrNil /\ crDone' = {}
    /\ UNCHANGED <<crCatalog, crMode, crDb, crFiles, crUsed, crCopy, crEvents>>

Row == crCatalog[crTx.rows + 1]
Corroborated == Row.flag # "unsure"

\* The stream a row makes, or what it does to the one that is there: sizes
\* that disagree are a conflict, for good; a stream whose allocation no row
\* has corroborated waits for one that does.
CrImported ==
    LET old == crTx.streams[Row.stream]
    IN  IF old = CrNil
        THEN [size |-> Row.size, deleted |-> Row.flag = "deleted",
              state |-> IF Corroborated THEN "pending" ELSE "ambiguous_allocation"]
        ELSE [size |-> old.size, deleted |-> old.deleted \/ Row.flag = "deleted",
              state |-> IF Row.size # old.size THEN "conflict"
                        ELSE IF old.state = "ambiguous_allocation" /\ Corroborated
                        THEN "pending" ELSE old.state]

\* Faulty: the row is entered first, what it says of its stream after it.
CrImportRefFirst ==
    /\ crPc = "import"
    /\ crTx.rows < Len(crCatalog)
    /\ \/ crTx' = [WithStream(crTx, Row.stream, CrImported) EXCEPT !.rows = crTx.rows + 1]
       \/ crTx' = [crTx EXCEPT !.rows = @ + 1]
    /\ crPc' = "import"
    /\ UNCHANGED <<crCatalog, crMode, crDb, crFiles, crPhase, crAt, crDone, crUsed,
                   crCopy, crRuns, crEvents>>

CrImport ==
    /\ crPc = "import"
    /\ crTx.rows < Len(crCatalog)
    /\ crTx' = WithStream(crTx, Row.stream, CrImported)
    /\ crPc' = "ref"
    /\ UNCHANGED <<crCatalog, crMode, crDb, crFiles, crPhase, crAt, crDone, crUsed,
                   crCopy, crRuns, crEvents>>

\* Then the row itself, by which a resume knows where to go on
CrImportRef ==
    /\ crPc = "ref"
    /\ LET tx == [crTx EXCEPT !.rows = crTx.rows + 1]
       IN  IF tx.rows % CrBatch = 0 THEN CrCommit(tx) ELSE crTx' = tx /\ UNCHANGED crDb
    /\ crPc' = "import"
    /\ UNCHANGED <<crCatalog, crMode, crFiles, crPhase, crAt, crDone, crUsed, crCopy,
                   crRuns, crEvents>>

\* The import ends; streams that are not deleted are not wanted, unless all are.
CrSelect ==
    /\ crPc = "import"
    /\ crTx.rows = Len(crCatalog)
    /\ LET streams == crTx.streams
       IN  CrCommit([crTx EXCEPT !.streams = [s \in CrStreams |->
               IF streams[s] # CrNil /\ streams[s].state = "pending"
                  /\ crMode = "deleted" /\ ~streams[s].deleted
               THEN [streams[s] EXCEPT !.state = "not_selected"] ELSE streams[s]]])
    /\ crPc' = "used"
    /\ UNCHANGED <<crCatalog, crMode, crFiles, crPhase, crAt, crDone, crUsed, crCopy,
                   crRuns, crEvents>>

\* Faulty: only what is recorded as complete counts.
CrCountUsedComplete ==
    /\ crPc = "used"
    /\ crUsed' = Cardinality({b \in BytesIn(crFiles) : crTx.exports[b[1]][b[2]].state = "complete"})
    /\ crPc' = "reconcile"
    /\ UNCHANGED <<crCatalog, crMode, crDb, crTx, crFiles, crPhase, crAt, crDone,
                   crCopy, crRuns, crEvents>>

\* known_output_bytes: every file must belong to an attempt; all count.
CrCountUsed ==
    /\ crPc = "used"
    /\ \A s \in CrStreams : Len(crFiles[s]) <= Len(crTx.exports[s])
    /\ crUsed' = FileBytes(crFiles)
    /\ crPc' = "reconcile"
    /\ UNCHANGED <<crCatalog, crMode, crDb, crTx, crFiles, crPhase, crAt, crDone,
                   crCopy, crRuns, crEvents>>

\* reconcile_interrupted: attempts a dead run left running
CrReconcile ==
    /\ crPc = "reconcile"
    /\ LET exports == crTx.exports
       IN  CrCommit([crTx EXCEPT !.exports = [s \in CrStreams |-> [a \in DOMAIN exports[s] |->
               IF exports[s][a].state = "running"
               THEN [state |-> "interrupted",
                     size |-> IF a \in DOMAIN crFiles[s] THEN crFiles[s][a].size ELSE 0]
               ELSE exports[s][a]]]])
    /\ crPc' = "export"
    /\ UNCHANGED <<crCatalog, crMode, crFiles, crPhase, crAt, crDone, crUsed, crCopy,
                   crRuns, crEvents>>

\* The next stream of the run, in their order
CrWanted(s) ==
    s \notin crDone /\ crTx.streams[s] # CrNil /\ crTx.streams[s].state \in CrExportable
CrNextStream(s) == CrWanted(s) /\ ~\E t \in CrStreams : t < s /\ CrWanted(t)

\* Its last attempt is complete and its file is what was recorded.
CrReusable(s) ==
    /\ crTx.exports[s] # <<>>
    /\ LastExport(s).state = "complete"
    /\ LastFile(s).sound

CrTakeState(s, state) ==
    CrCommit(WithStream(crTx, s, [crTx.streams[s] EXCEPT !.state = state]))

\* Faulty: an attempt that is on record as complete is not compared.
CrReuseOnRecord(s) ==
    /\ crPc = "export" /\ CrNextStream(s)
    /\ crTx.exports[s] # <<>>
    /\ LastExport(s).state \in {"complete", "interrupted"}
    /\ CrTakeState(s, "complete")
    /\ crDone' = crDone \cup {s}
    /\ UNCHANGED <<crCatalog, crMode, crFiles, crPhase, crPc, crAt, crUsed, crCopy,
                   crRuns, crEvents>>

CrReuse(s) ==
    /\ crPc = "export" /\ CrNextStream(s) /\ CrReusable(s)
    /\ CrTakeState(s, "complete")
    /\ crDone' = crDone \cup {s}
    /\ UNCHANGED <<crCatalog, crMode, crFiles, crPhase, crPc, crAt, crUsed, crCopy,
                   crRuns, crEvents>>

\* What may not fit, in the limit or on the disk, is deferred, and with it all
\* that follows.
CrDefer(s) ==
    /\ crPc = "export" /\ CrNextStream(s) /\ ~CrReusable(s)
    /\ IF crTx.streams[s].size > CrLimit - crUsed THEN UNCHANGED crEvents ELSE CrEvent
    /\ CrTakeState(s, "deferred")
    /\ crPc' = "finish"
    /\ UNCHANGED <<crCatalog, crMode, crFiles, crPhase, crAt, crDone, crUsed, crCopy, crRuns>>

\* A new attempt is committed as running before its file is made.
CrAttempt(s) ==
    /\ crPc = "export" /\ CrNextStream(s) /\ ~CrReusable(s)
    /\ crTx.streams[s].size <= CrLimit - crUsed
    /\ CrCommit(WithExports(crTx, s, Append(crTx.exports[s], [state |-> "running", size |-> 0])))
    /\ crAt' = s
    /\ crPhase' = "recovering"
    /\ crPc' = "create"
    /\ UNCHANGED <<crCatalog, crMode, crFiles, crDone, crUsed, crCopy, crRuns, crEvents>>

\* copy_tool_output.  The file is new; what the medium keeps of it may be
\* something else in the end.
CrCreate ==
    /\ crPc = "create"
    /\ LET n == Len(crTx.exports[crAt])
       IN  \E sound \in BOOLEAN :
              /\ crFiles' = [crFiles EXCEPT ![crAt] = [a \in 1 .. n |->
                    IF a \in DOMAIN crFiles[crAt] THEN crFiles[crAt][a]
                    ELSE [size |-> 0, sound |-> a = n /\ sound]]]
              /\ IF sound THEN UNCHANGED crEvents ELSE CrEvent
    /\ crCopied' = 0 /\ crSent' = 0 /\ crQueue' = <<>> /\ crFailed' = FALSE
    /\ crPc' = "copy"
    /\ UNCHANGED <<crCatalog, crMode, crDb, crTx, crPhase, crAt, crDone, crUsed, crRuns>>

\* Faulty: the queue takes whatever the tool writes.
CrReadUnbounded ==
    /\ crPc = "copy"
    /\ "end" \notin Range(crQueue)
    /\ \/ /\ crSent <= crTx.streams[crAt].size
          /\ crSent' = crSent + 1 /\ crQueue' = Append(crQueue, "data")
       \/ crQueue' = Append(crQueue, "end") /\ UNCHANGED crSent
    /\ UNCHANGED <<crCatalog, crMode, crDb, crTx, crFiles, crPhase, crPc, crAt, crDone, crUsed,
                   crCopied, crFailed, crRuns, crEvents>>

\* The reader thread queues what the tool writes, too little or too much of
\* it, then the end; a queue of two makes it wait.
CrRead ==
    /\ crPc = "copy"
    /\ Len(crQueue) < 2 /\ "end" \notin Range(crQueue)
    /\ \/ /\ crSent <= crTx.streams[crAt].size
          /\ crSent' = crSent + 1 /\ crQueue' = Append(crQueue, "data")
       \/ crQueue' = Append(crQueue, "end") /\ UNCHANGED crSent
    /\ UNCHANGED <<crCatalog, crMode, crDb, crTx, crFiles, crPhase, crPc, crAt, crDone, crUsed,
                   crCopied, crFailed, crRuns, crEvents>>

\* The run writes what is queued; what goes beyond the expected size it does
\* not write.  Or it stops the tool, for time, space or its exit code.
CrWrite ==
    /\ crPc = "copy"
    /\ \/ /\ crQueue # <<>> /\ Head(crQueue) = "data" /\ crCopied < crTx.streams[crAt].size
          /\ crQueue' = Tail(crQueue)
          /\ crCopied' = crCopied + 1
          /\ crFiles' = [crFiles EXCEPT ![crAt] = [crFiles[crAt] EXCEPT
                ![Len(crFiles[crAt])] = [size |-> crCopied + 1, sound |-> LastFile(crAt).sound]]]
          /\ UNCHANGED <<crPc, crFailed>>
       \/ /\ crQueue # <<>> /\ Head(crQueue) = "end"
          /\ crFailed' = (crCopied # crTx.streams[crAt].size)
          /\ crPc' = "record" /\ UNCHANGED <<crQueue, crCopied, crFiles>>
       \/ crFailed' = TRUE /\ crPc' = "record" /\ UNCHANGED <<crQueue, crCopied, crFiles>>
    /\ UNCHANGED <<crCatalog, crMode, crDb, crTx, crPhase, crAt, crDone, crUsed, crSent, crRuns,
                   crEvents>>

\* The attempt is complete if nothing failed and the file, read again, is
\* what was copied; else it is kept, as partial or as failed.
CrRecord ==
    /\ crPc = "record"
    /\ LET file   == LastFile(crAt)
           state  == IF crFailed THEN (IF crCopied > 0 THEN "partial" ELSE "failed")
                     ELSE IF file.sound THEN "complete" ELSE "failed"
       IN  CrCommit(EndAttempt(crTx, crAt, [state |-> state, size |-> file.size]))
    /\ crPc' = "update"
    /\ UNCHANGED <<crCatalog, crMode, crFiles, crPhase, crAt, crDone, crUsed, crCopy,
                   crRuns, crEvents>>

CrUpdate ==
    /\ crPc = "update"
    /\ CrTakeState(crAt, LastExport(crAt).state)
    /\ crUsed' = crUsed + LastExport(crAt).size
    /\ crDone' = crDone \cup {crAt}
    /\ crPc' = "export"
    /\ UNCHANGED <<crCatalog, crMode, crFiles, crPhase, crAt, crCopy, crRuns, crEvents>>

StreamsIn(states) == \E s \in CrStreams : crTx.streams[s] # CrNil /\ crTx.streams[s].state \in states

\* Nothing is left: what the run has come to
CrFinish ==
    /\ \/ crPc = "finish"
       \/ crPc = "export" /\ ~\E s \in CrStreams : CrNextStream(s)
    /\ crPhase' = IF StreamsIn({"pending", "deferred"}) THEN "deferred"
                  ELSE IF StreamsIn({"failed", "partial", "conflict", "ambiguous_allocation"})
                  THEN "complete_with_errors" ELSE "complete"
    /\ crPc' = "idle"
    /\ UNCHANGED <<crCatalog, crMode, crDb, crTx, crFiles, crAt, crDone, crUsed, crCopy,
                   crRuns, crEvents>>

\* An exception: the open transaction is committed as it is; an attempt that
\* is being copied is kept as interrupted.
CrRaise ==
    /\ crPc # "idle" /\ CrEvent
    /\ CrCommit(IF crPc # "copy" THEN crTx
                ELSE EndAttempt(crTx, crAt, [state |-> "interrupted", size |-> crCopied]))
    /\ crPhase' = "failed"
    /\ crPc' = "idle"
    /\ UNCHANGED <<crCatalog, crMode, crFiles, crAt, crDone, crUsed, crCopy, crRuns>>

CrKill ==
    /\ crPc # "idle" /\ CrEvent
    /\ crPc' = "idle"
    /\ UNCHANGED <<crCatalog, crMode, crDb, crTx, crFiles, crPhase, crAt, crDone, crUsed,
                   crCopy, crRuns>>

\* Between runs somebody changes an exported file.
CrAlter ==
    /\ crPc = "idle" /\ CrEvent
    /\ \E s \in CrStreams : \E a \in DOMAIN crFiles[s] :
          crFiles' = [crFiles EXCEPT ![s] = [crFiles[s] EXCEPT
                ![a] = [size |-> crFiles[s][a].size, sound |-> FALSE]]]
    /\ crPhase' = crPhase
    /\ UNCHANGED <<crCatalog, crMode, crDb, crTx, crPc, crAt, crDone, crUsed, crCopy, crRuns>>

CrNext ==
    \/ CrStart \/ CrImport \/ CrImportRef \/ CrSelect \/ CrCountUsed \/ CrReconcile
    \/ \E s \in CrStreams : CrReuse(s) \/ CrDefer(s) \/ CrAttempt(s)
    \/ CrCreate \/ CrRead \/ CrWrite \/ CrRecord \/ CrUpdate \/ CrFinish \/ CrRaise \/ CrKill \/ CrAlter
CrSpec == CrInit /\ [][CrNext]_crVars
-----------------------------------------------------------------------------
CrTypeOK ==
    /\ crCatalog \in Seq(CrRow)
    /\ \A db \in {crDb, crTx} :
          /\ db \in [rows : Nat, streams : [CrStreams -> CrStream \cup {CrNil}],
                     exports : [CrStreams -> Seq(CrExport)]]
          /\ db.rows <= Len(crCatalog)
    /\ crFiles \in [CrStreams -> Seq(CrFile)]
    /\ crPc \in CrSteps
    /\ crAt \in CrStreams \cup {CrNil}
    /\ crDone \subseteq CrStreams
    /\ crUsed \in Nat /\ crCopied \in Nat /\ crSent \in Nat /\ crFailed \in BOOLEAN
    /\ crQueue \in Seq({"data", "end"}) /\ Len(crQueue) <= 2

\* What the rows of a catalog say of a stream, in whatever order they come
RowsOf(s) == {n \in DOMAIN crCatalog : crCatalog[n].stream = s}
Disagree(s)  == \E m, n \in RowsOf(s) : crCatalog[m].size # crCatalog[n].size
Sure(s)      == \E n \in RowsOf(s) : crCatalog[n].flag # "unsure"
IsDeleted(s) == \E n \in RowsOf(s) : crCatalog[n].flag = "deleted"

\* Once the catalog is imported, over however many runs that were killed or
\* raised between any two statements, each stream is what all of its rows
\* together say: none is lost, and one that is imported twice changes nothing.
CrStreamsAreCatalog ==
    crDb.rows = Len(crCatalog) =>
        \A s \in CrStreams :
            LET stream == crDb.streams[s]
            IN  IF RowsOf(s) = {} THEN stream = CrNil
                ELSE /\ stream # CrNil /\ stream.deleted = IsDeleted(s)
                     /\ (stream.state = "conflict") = Disagree(s)
                     /\ (stream.state = "ambiguous_allocation") = (~Disagree(s) /\ ~Sure(s))

\* catalog-recovery.md: the limit is on all retained bytes; no sequence of
\* failed, killed and repeated attempts goes beyond it, and every file that
\* is there belongs to an attempt on record.
CrWithinLimit ==
    /\ FileBytes(crFiles) <= CrLimit
    /\ \A s \in CrStreams : Len(crFiles[s]) <= Len(crDb.exports[s])

\* A run that says complete has, for every stream its catalog makes wanted, a
\* last attempt with all of its bytes, though earlier attempts failed, were
\* killed or had their file changed before it began.
CrCompleteIsAll ==
    [][ (crPhase # "complete" /\ crPhase' = "complete") =>
          \A s \in CrStreams : (RowsOf(s) # {} /\ (crMode = "all" \/ IsDeleted(s))) =>
              /\ crFiles[s] # <<>>
              /\ LastFile(s) = [size |-> crDb.streams[s].size, sound |-> TRUE] ]_crVars
=============================================================================
