-------------------------- MODULE PatternAnalysis ---------------------------
(***************************************************************************)
(* scripts/run_pattern_analysis.py: the jobs of a manifest are run one     *)
(* after the other.  Two threads copy stdout and stderr of a job's tool    *)
(* into files under one budget of bytes and lines, while the main thread   *)
(* polls the tool, the clock and the budget.  The captures then replace    *)
(* the earlier ones, and at the end one provenance record, which vouches   *)
(* for all outputs, replaces the earlier one.                              *)
(*                                                                         *)
(* What a tool writes is a sequence of characters and newlines; a capture  *)
(* is always a beginning of it.                                            *)
(***************************************************************************)
EXTENDS Integers, Sequences, FiniteSets

CONSTANTS
    PaJobs,       \* jobs a manifest may list, numbers in their order
    PaOutputs,    \* what a tool may write: [stdout, stderr], sequences of 0 and 1 (a newline)
    PaChunk,      \* bytes of one read of a pipe
    PaMaxBytes, PaMaxLines, \* limits of a job
    PaMaxRuns,    \* bound: runs started
    PaMaxEvents,  \* bound: failures and kills
    PaNil

PaStreams == {"stdout", "stderr"}

ASSUME PaConstants ==
    /\ PaJobs \subseteq Nat
    /\ PaOutputs \subseteq [PaStreams -> Seq({0, 1})]
    /\ PaChunk \in Nat \ {0} /\ PaMaxBytes \in Nat \ {0} /\ PaMaxLines \in Nat \ {0}
    /\ PaMaxRuns \in Nat /\ PaMaxEvents \in Nat
    /\ PaNil \notin {"bytes", "lines", "terminated"}

VARIABLES
    paOut,       \* outputs of each job: per stream PaNil or [run, text]
    paProv,      \* pattern-analysis provenance: PaNil or the results by job
    paPc,        \* what the main thread does next
    paOpen,      \* jobs it has still to do
    paAt,        \* the job it is at
    paTool,      \* what the tool of this job has to say
    paTaken,     \* per stream, bytes read from the pipe
    paHeld,      \* per stream, bytes read and admitted but not yet written
    paWritten,   \* per stream, bytes in the partial file
    paReader,    \* per stream, what its thread does
    paBytes, paLines, paTruncated, paReason, paStop, \* OutputBudget
    paEnd,       \* how the tool ended: PaNil while it runs
    paTimedOut,  \* the deadline was what ended it
    paResults,   \* results of the jobs done
    paRuns, paEvents

paBudget == <<paBytes, paLines, paTruncated, paReason, paStop>>
paPipes  == <<paTool, paTaken, paHeld, paWritten, paReader>>
paChild  == <<paEnd, paTimedOut>>
paVars == <<paOut, paProv, paPc, paOpen, paAt, paPipes, paBudget, paChild, paResults,
            paRuns, paEvents>>

PaSteps == {"idle", "jobs", "polling", "joining", "unlink", "stdout", "stderr", "classify",
            "unlink_final", "publish"}
Quiet   == [s \in PaStreams |-> <<>>]
Nothing == [s \in PaStreams |-> 0]
Lines(text) == Cardinality({i \in DOMAIN text : text[i] = 1})

PaInit ==
    /\ paOut = [j \in PaJobs |-> [s \in PaStreams |-> PaNil]]
    /\ paProv = PaNil /\ paPc = "idle"
    /\ paOpen = {} /\ paResults = <<>>
    /\ paAt = PaNil /\ paTool = Quiet /\ paTaken = Nothing /\ paHeld = Nothing
    /\ paWritten = Nothing /\ paReader = [s \in PaStreams |-> "done"]
    /\ paBytes = 0 /\ paLines = 0 /\ paTruncated = FALSE /\ paReason = PaNil /\ paStop = FALSE
    /\ paEnd = PaNil /\ paTimedOut = FALSE
    /\ paRuns = 0 /\ paEvents = 0

PaEvent == paEvents < PaMaxEvents /\ paEvents' = paEvents + 1

\* What was local to run_bounded and to a job is gone.
PaForget ==
    /\ paAt' = PaNil /\ paTool' = Quiet /\ paTaken' = Nothing /\ paHeld' = Nothing
    /\ paWritten' = Nothing /\ paReader' = [s \in PaStreams |-> "done"]
    /\ paBytes' = 0 /\ paLines' = 0 /\ paTruncated' = FALSE /\ paReason' = PaNil
    /\ paStop' = FALSE /\ paEnd' = PaNil /\ paTimedOut' = FALSE
-----------------------------------------------------------------------------
\* A run of a manifest that lists some of the jobs, or a plan of one (dry).  An
\* earlier provenance is in its way unless --force is given; a run that is
\* refused for it changes nothing.
PaStart ==
    /\ paPc = "idle" /\ paRuns < PaMaxRuns
    /\ \E jobs \in SUBSET PaJobs \ {{}}, dry \in BOOLEAN :
          /\ paOpen' = jobs
          /\ paPc' = IF dry THEN "unlink_final" ELSE "jobs"
          /\ paResults' = [j \in (IF dry THEN jobs ELSE {}) |-> PaNil]
    /\ paRuns' = paRuns + 1
    /\ UNCHANGED <<paOut, paProv, paAt, paPipes, paBudget, paChild, paEvents>>

\* run_bounded: the tool is started, with a thread at each of its pipes.
PaJob ==
    /\ paPc = "jobs" /\ paOpen # {}
    /\ paAt' = CHOOSE j \in paOpen : \A k \in paOpen : j <= k
    /\ paOpen' = paOpen \ {paAt'}
    /\ paTool' \in PaOutputs
    /\ paTaken' = Nothing /\ paHeld' = Nothing /\ paWritten' = Nothing
    /\ paReader' = [s \in PaStreams |-> "reading"]
    /\ paBytes' = 0 /\ paLines' = 0 /\ paTruncated' = FALSE /\ paReason' = PaNil
    /\ paStop' = FALSE
    /\ paEnd' = PaNil /\ paTimedOut' = FALSE
    /\ paPc' = "polling"
    /\ UNCHANGED <<paOut, paProv, paResults, paRuns, paEvents>>

\* How much of data the limits admit: whole lines up to the limit of lines
PaAdmitted(data) ==
    LET room == PaMaxBytes - paBytes
        cut  == SubSeq(data, 1, IF Len(data) <= room THEN Len(data) ELSE room)
        left == PaMaxLines - paLines
    IN  IF left <= 0 THEN 0
        ELSE IF Lines(cut) > left
        THEN CHOOSE n \in DOMAIN cut : cut[n] = 1 /\ Lines(SubSeq(cut, 1, n)) = left
        ELSE Len(cut)

\* Faulty: a budget that is used up counts as exceeded.
PaBoundedFull(s, data) ==
    IF paStop
    THEN paHeld' = [paHeld EXCEPT ![s] = 0] /\ UNCHANGED paBudget
    ELSE LET n == PaAdmitted(data)
         IN  /\ paHeld' = [paHeld EXCEPT ![s] = n]
             /\ paBytes' = paBytes + n
             /\ paLines' = paLines + Lines(SubSeq(data, 1, n))
             /\ IF paBytes' < PaMaxBytes /\ n = Len(data)
                THEN UNCHANGED <<paTruncated, paReason, paStop>>
                ELSE /\ paTruncated' = (n < Len(data)) /\ paStop' = TRUE
                     /\ paReason' = "bytes"

\* OutputBudget.bounded, under its lock: what is admitted is counted, and the
\* first time that anything is not, both threads and the tool are to stop.
PaBounded(s, data) ==
    IF paStop
    THEN paHeld' = [paHeld EXCEPT ![s] = 0] /\ UNCHANGED paBudget
    ELSE LET n == PaAdmitted(data)
         IN  /\ paHeld' = [paHeld EXCEPT ![s] = n]
             /\ paBytes' = paBytes + n
             /\ paLines' = paLines + Lines(SubSeq(data, 1, n))
             /\ IF n = Len(data)
                THEN UNCHANGED <<paTruncated, paReason, paStop>>
                ELSE /\ paTruncated' = TRUE /\ paStop' = TRUE
                     /\ paReason' = IF paBytes < PaMaxBytes /\ paLines' >= PaMaxLines
                                    THEN "lines" ELSE "bytes"

\* copy_pipe reads a chunk, all that is left of a tool that has ended, or as
\* much as a tool that was terminated had written.  Nothing is the end.
PaRead(s) ==
    /\ paReader[s] = "reading"
    /\ LET left == Len(paTool[s]) - paTaken[s]
           full == IF left < PaChunk THEN left ELSE PaChunk
       IN  \E n \in (IF paEnd = "terminated" THEN 0 .. full ELSE {full}) :
             /\ n < PaChunk => paEnd # PaNil \/ n = left
             /\ paTaken' = [paTaken EXCEPT ![s] = @ + n]
             /\ IF n = 0
                THEN paReader' = [paReader EXCEPT ![s] = "done"] /\ UNCHANGED <<paHeld, paBudget>>
                ELSE /\ PaBounded(s, SubSeq(paTool[s], paTaken[s] + 1, paTaken[s] + n))
                     /\ paReader' = [paReader EXCEPT ![s] =
                                       IF paHeld'[s] > 0 THEN "writing"
                                       ELSE IF paStop' THEN "done" ELSE "reading"]
    /\ UNCHANGED <<paOut, paProv, paPc, paOpen, paAt, paTool, paWritten, paChild,
                   paResults, paRuns, paEvents>>

\* The write, outside the lock; then the thread looks whether it is to stop.
PaWrite(s) ==
    /\ paReader[s] = "writing"
    /\ paWritten' = [paWritten EXCEPT ![s] = @ + paHeld[s]]
    /\ paHeld' = [paHeld EXCEPT ![s] = 0]
    /\ paReader' = [paReader EXCEPT ![s] = IF paStop THEN "done" ELSE "reading"]
    /\ UNCHANGED <<paOut, paProv, paPc, paOpen, paAt, paTool, paTaken, paBudget,
                   paChild, paResults, paRuns, paEvents>>

\* A write fails: its thread ends, and nobody hears of it.
PaWriteFails(s) ==
    /\ paReader[s] = "writing" /\ PaEvent
    /\ paReader' = [paReader EXCEPT ![s] = "dead"]
    /\ UNCHANGED <<paOut, paProv, paPc, paOpen, paAt, paTool, paTaken, paHeld,
                   paWritten, paBudget, paChild, paResults, paRuns>>

\* The loop that polls: the tool has ended, or is terminated because the
\* budget is used up or the time is over.
PaPoll ==
    /\ paPc = "polling"
    /\ \/ paEnd' \in {"accepted", "not_accepted"} /\ UNCHANGED paTimedOut
       \/ paStop /\ paEnd' = "terminated" /\ UNCHANGED paTimedOut
       \/ ~paStop /\ paEnd' = "terminated" /\ paTimedOut' = TRUE
    /\ paPc' = "joining"
    /\ UNCHANGED <<paOut, paProv, paOpen, paAt, paPipes, paBudget, paResults, paRuns,
                   paEvents>>

\* Both threads are waited for, five seconds each, and then the files are
\* closed: a thread that is not done by then fails with its next write.
PaJoin ==
    /\ paPc = "joining"
    /\ \/ \A s \in PaStreams : paReader[s] \in {"done", "dead"} /\ UNCHANGED <<paReader, paEvents>>
       \/ /\ \E s \in PaStreams : paReader[s] \notin {"done", "dead"}
          /\ PaEvent
          /\ paReader' = [s \in PaStreams |-> IF paReader[s] = "done" THEN "done" ELSE "dead"]
    /\ paPc' = "unlink"
    /\ UNCHANGED <<paOut, paProv, paOpen, paAt, paTool, paTaken, paHeld, paWritten,
                   paBudget, paChild, paResults, paRuns>>

\* Faulty: the earlier provenance stays until the new one replaces it.
PaUnlinkLater ==
    /\ paPc = "unlink"
    /\ paPc' = "stdout"
    /\ UNCHANGED <<paOut, paProv, paOpen, paAt, paPipes, paBudget, paChild, paResults,
                   paRuns, paEvents>>

\* The earlier provenance goes before the first output it speaks of does.
PaUnlink ==
    /\ paPc = "unlink"
    /\ paProv' = PaNil
    /\ paPc' = "stdout"
    /\ UNCHANGED <<paOut, paOpen, paAt, paPipes, paBudget, paChild, paResults,
                   paRuns, paEvents>>

Captured(s) == [run |-> paRuns, text |-> SubSeq(paTool[s], 1, paWritten[s])]

PaReplace(s) ==
    /\ paPc = s
    /\ paOut' = [paOut EXCEPT ![paAt][s] = Captured(s)]
    /\ paPc' = IF s = "stdout" THEN "stderr" ELSE "classify"
    /\ UNCHANGED <<paProv, paOpen, paAt, paPipes, paBudget, paChild, paResults,
                   paRuns, paEvents>>

\* classify_execution
PaStatus ==
    IF paTimedOut THEN "failed"
    ELSE IF paTruncated THEN "completed_with_limit"
    ELSE IF paEnd = "accepted" THEN "completed" ELSE "failed"

\* The result of the job, its outputs hashed where they are now.  That both
\* threads came to their end is known to nobody; the properties ask for it.
PaClassify ==
    /\ paPc = "classify"
    /\ paResults' = [j \in DOMAIN paResults \cup {paAt} |->
                       IF j # paAt THEN paResults[j]
                       ELSE [status |-> PaStatus, reason |-> paReason, outputs |-> paOut[paAt],
                             bytes |-> paBytes, lines |-> paLines, tool |-> paTool,
                             readers |-> {paReader[s] : s \in PaStreams}]]
    /\ PaForget
    /\ paPc' = "jobs"
    /\ UNCHANGED <<paOut, paProv, paOpen, paRuns, paEvents>>

PaJobsDone ==
    /\ paPc = "jobs" /\ paOpen = {}
    /\ paPc' = "unlink_final"
    /\ UNCHANGED <<paOut, paProv, paOpen, paAt, paPipes, paBudget, paChild, paResults,
                   paRuns, paEvents>>

\* A plan made with --force also takes the place of an earlier record.
PaUnlinkFinal ==
    /\ paPc = "unlink_final"
    /\ paProv' = PaNil
    /\ paPc' = "publish"
    /\ UNCHANGED <<paOut, paOpen, paAt, paPipes, paBudget, paChild, paResults,
                   paRuns, paEvents>>

PaPublish ==
    /\ paPc = "publish"
    /\ paProv' = paResults
    /\ paPc' = "idle" /\ paResults' = <<>>
    /\ UNCHANGED <<paOut, paOpen, paAt, paPipes, paBudget, paChild, paRuns, paEvents>>

\* The run raises or is killed; what it has published stays.
PaAbort ==
    /\ paPc # "idle" /\ PaEvent
    /\ paPc' = "idle" /\ paOpen' = {} /\ paResults' = <<>>
    /\ PaForget
    /\ UNCHANGED <<paOut, paProv, paRuns>>

PaNext ==
    \/ PaStart \/ PaJob \/ PaPoll \/ PaJoin \/ PaUnlink \/ PaClassify \/ PaJobsDone
    \/ PaUnlinkFinal \/ PaPublish \/ PaAbort
    \/ \E s \in PaStreams : PaRead(s) \/ PaWrite(s) \/ PaWriteFails(s) \/ PaReplace(s)
PaSpec == PaInit /\ [][PaNext]_paVars
-----------------------------------------------------------------------------
PaTypeOK ==
    /\ paPc \in PaSteps /\ paOpen \subseteq PaJobs /\ paAt \in PaJobs \cup {PaNil}
    /\ paReader \in [PaStreams -> {"reading", "writing", "done", "dead"}]
    /\ \A s \in PaStreams : paWritten[s] + paHeld[s] <= paTaken[s]
    /\ paBytes \in 0 .. PaMaxBytes /\ paLines \in 0 .. PaMaxLines
    /\ paTruncated = paStop /\ paStop = (paReason # PaNil)
    /\ paEnd \in {PaNil, "accepted", "not_accepted", "terminated"}

\* The outputs on disk are the ones a record speaks of: never a mix of two runs.
PaOutputsAreThose(j, result) == paOut[j] = result.outputs

\* Neither limit is exceeded, and the one that is named was reached.
PaWithinLimits(result) ==
    LET text(s) == result.outputs[s].text
    IN  /\ Len(text("stdout")) + Len(text("stderr")) <= PaMaxBytes
        /\ Lines(text("stdout")) + Lines(text("stderr")) <= PaMaxLines
        /\ result.reason = "bytes" => result.bytes = PaMaxBytes
        /\ result.reason = "lines" => result.lines = PaMaxLines

\* A completed job has captured all that its tool wrote, and a job that has is
\* not reported as limited, unless a thread was lost or late.
PaCompletedIsWhole(result) ==
    result.readers = {"done"} =>
        LET whole == \A s \in PaStreams : result.outputs[s].text = result.tool[s]
        IN  /\ result.status = "completed" => whole
            /\ result.status = "completed_with_limit" => ~whole

\* A provenance record that is there speaks the truth of every job in it: its
\* outputs are the ones on disk, however often runs were killed or forced over
\* one another; they keep both limits; and completed means everything.
PaRecordIsTrue ==
    paProv # PaNil =>
        \A j \in DOMAIN paProv : paProv[j] # PaNil =>
            /\ PaOutputsAreThose(j, paProv[j])
            /\ PaWithinLimits(paProv[j])
            /\ PaCompletedIsWhole(paProv[j])
=============================================================================
