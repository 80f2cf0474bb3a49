----------------------------- MODULE MediaProbe -----------------------------
(***************************************************************************)
(* scripts/probe_recovered_media.py: two native tools look at each of the  *)
(* selected exports of a closed producer.  An attempt at a row makes a     *)
(* numbered directory of captures, then its record, then the entry of that *)
(* record in records-index.json; a run that is resumed reuses a last       *)
(* attempt that is proved intact by the index and makes a new one          *)
(* otherwise.                                                              *)
(*                                                                         *)
(* An export is supported by its header or not, and still what its         *)
(* producer recorded or not.  What a tool reports is its outcome.          *)
(***************************************************************************)
EXTENDS Integers, Sequences

CONSTANTS
    MpRows,       \* selected rows, numbers in the order of processing
    MpUnknowns,   \* which of them may have a header that no tool is trusted with
    MpMaxRuns,    \* bound: runs started
    MpMaxEvents,  \* bound: failures, kills and changes by others
    MpNil

MpStates == {"processing", "probe_ok", "probe_incomplete", "deferred_resource",
             "deferred_unsupported_signature"}

ASSUME MpConstants ==
    /\ MpRows \subseteq Nat /\ MpUnknowns \subseteq SUBSET MpRows
    /\ MpMaxRuns \in Nat /\ MpMaxEvents \in Nat
    /\ MpNil \notin MpStates

VARIABLES
    mpUnknown, \* rows with a header that no tool is trusted with
    mpGood,    \* rows whose export is what the producer recorded
    mpSource,  \* the producer's own files are what the batch binds
    mpTries,   \* per row its attempts: [captured, record, indexed, intact]
    mpPhase,   \* "phase" of status.json
    mpPc,      \* what the run does next
    mpResumed, \* this run is a resume
    mpAt,      \* the row it is at
    mpOpen,    \* rows it has still to do
    mpState,   \* state of the attempt under way
    mpMade,    \* this attempt has made its directory
    mpTools,   \* tools it has still to run
    mpOk,      \* rows counted as probe_ok
    mpWhy,     \* how a run that raised ends
    mpRuns, mpEvents

mpInputs == <<mpUnknown, mpGood, mpSource>>
mpVars == <<mpInputs, mpTries, mpPhase, mpPc, mpResumed, mpAt, mpOpen, mpState,
            mpMade, mpTools, mpOk, mpWhy, mpRuns, mpEvents>>

MpPhases == {MpNil, "validating", "validating_resume", "processing", "complete",
             "complete_with_gaps", "deferred", "failed"}
MpSteps  == {"idle", "bind", "rows", "hash", "tools", "rehash", "record", "index",
             "raised", "raised_outside"}
MpTry    == [captured : BOOLEAN, record : MpStates \cup {MpNil}, indexed : BOOLEAN,
             intact : BOOLEAN]

MpInit ==
    /\ mpUnknown \in MpUnknowns /\ mpGood = MpRows /\ mpSource = TRUE
    /\ mpTries = [r \in MpRows |-> <<>>]
    /\ mpPhase = MpNil /\ mpPc = "idle" /\ mpResumed = FALSE
    /\ mpAt = MpNil /\ mpOpen = {} /\ mpState = "processing" /\ mpMade = FALSE
    /\ mpTools = {} /\ mpOk = {} /\ mpWhy = MpNil
    /\ mpRuns = 0 /\ mpEvents = 0

MpEvent == mpEvents < MpMaxEvents /\ mpEvents' = mpEvents + 1
Last(r) == mpTries[r][Len(mpTries[r])]
MpMark(r, n, try) == mpTries' = [mpTries EXCEPT ![r] = [mpTries[r] EXCEPT ![n] = try]]
-----------------------------------------------------------------------------
\* A fresh run, or a resume: that one takes the earlier verdict back at once.
MpStart ==
    /\ mpPc = "idle" /\ mpRuns < MpMaxRuns
    /\ mpRuns' = mpRuns + 1
    /\ mpResumed' = (mpPhase # MpNil)
    /\ mpPhase' = IF mpPhase # MpNil THEN "validating_resume" ELSE mpPhase
    /\ mpPc' = "bind"
    /\ mpAt' = MpNil /\ mpOpen' = {} /\ mpState' = "processing" /\ mpMade' = FALSE
    /\ mpTools' = {} /\ mpOk' = {} /\ mpWhy' = MpNil
    /\ UNCHANGED <<mpInputs, mpTries, mpEvents>>

MpRaiseAs(why) == mpWhy' = why /\ mpPc' = "raised"

\* bind_source: the documents of a closed producer agree with one another and
\* with its outputs, and a resume finds what the batch was made from.
MpSourceBinds == mpSource

\* It runs outside the handler of the run, so a fresh run that is
\* refused leaves no status, and a resume only that of the outer handler.
MpBind ==
    /\ mpPc = "bind"
    /\ IF MpSourceBinds
       THEN /\ mpPhase' = IF mpResumed THEN "validating_resume" ELSE "validating"
            /\ mpOpen' = MpRows /\ mpPc' = "rows" /\ UNCHANGED mpWhy
       ELSE /\ mpPc' = IF mpResumed THEN "raised_outside" ELSE "idle"
            /\ mpWhy' = "failed"
            /\ UNCHANGED <<mpPhase, mpOpen>>
    /\ UNCHANGED <<mpInputs, mpTries, mpResumed, mpAt, mpState, mpMade, mpTools, mpOk,
                   mpRuns, mpEvents>>

MpRow ==
    /\ mpPc = "rows" /\ mpOpen # {}
    /\ \E r \in mpOpen :
          /\ \A q \in mpOpen : r <= q
          /\ mpAt' = r /\ mpOpen' = mpOpen \ {r}
    /\ mpPhase' = "processing"
    /\ mpState' = "processing" /\ mpMade' = FALSE
    /\ mpPc' = "hash"
    /\ UNCHANGED <<mpInputs, mpTries, mpResumed, mpTools, mpOk, mpWhy, mpRuns, mpEvents>>

\* Faulty: a record is taken for what it says, indexed and intact or not.
MpReusableOnRecord(r) ==
    /\ mpTries[r] # <<>>
    /\ Last(r).record = "probe_ok"

\* reusable_record: the last attempt of all has a record that is the one in
\* the index, says probe_ok, and its captures are the ones it records.
MpReusable(r) ==
    /\ mpTries[r] # <<>>
    /\ Last(r).indexed /\ Last(r).record = "probe_ok" /\ Last(r).intact

\* signature: the header is one of those a tool is trusted with.
MpSupported(r) == r \notin mpUnknown

NewTry(captured) == [captured |-> captured, record |-> MpNil, indexed |-> FALSE, intact |-> TRUE]

\* The export is hashed, if there is time for it; an earlier result is reused,
\* or an attempt begins with a directory of its own.
MpHash ==
    /\ mpPc = "hash"
    /\ \/ /\ mpState' \in {"deferred_resource"} \cup (IF mpAt \in mpGood THEN {} ELSE {"probe_incomplete"})
          /\ mpPc' = "record"
          /\ UNCHANGED <<mpTries, mpMade, mpOk, mpTools>>
       \/ /\ mpAt \in mpGood /\ MpReusable(mpAt)
          /\ mpOk' = mpOk \cup {mpAt} /\ mpPc' = "rows"
          /\ UNCHANGED <<mpTries, mpMade, mpState, mpTools>>
       \/ /\ mpAt \in mpGood /\ ~MpReusable(mpAt) /\ ~MpSupported(mpAt)
          /\ mpState' = "deferred_unsupported_signature" /\ mpPc' = "rehash"
          /\ UNCHANGED <<mpTries, mpMade, mpOk, mpTools>>
       \/ /\ mpAt \in mpGood /\ ~MpReusable(mpAt) /\ MpSupported(mpAt)
          /\ mpTries' = [mpTries EXCEPT ![mpAt] = Append(@, NewTry(TRUE))] /\ mpMade' = TRUE
          /\ mpState' = "probe_ok" /\ mpTools' = {"exiftool", "ffprobe"} /\ mpPc' = "tools"
          /\ UNCHANGED mpOk
    /\ UNCHANGED <<mpInputs, mpPhase, mpResumed, mpAt, mpOpen, mpWhy, mpRuns, mpEvents>>

\* child: it answers well; or it fails, takes too long, writes too much or is
\* stopped for the space that is left, and the row is incomplete; or its
\* readers do not end, and nothing more is done about the row.
MpChild ==
    /\ mpPc = "tools"
    /\ \/ \E tool \in mpTools :
             /\ mpTools' = mpTools \ {tool}
             /\ mpState' \in {mpState, "probe_incomplete"}
             /\ mpPc' = IF mpTools' = {} THEN "rehash" ELSE "tools"
       \/ mpState' = "probe_incomplete" /\ mpTools' = {} /\ mpPc' = "record"
    /\ UNCHANGED <<mpInputs, mpTries, mpPhase, mpResumed, mpAt, mpOpen, mpMade, mpOk, mpWhy,
                   mpRuns, mpEvents>>

\* The export must still be what it was; no time for it defers the row.
MpRehash ==
    /\ mpPc = "rehash"
    /\ \/ mpState' = IF mpAt \in mpGood THEN mpState ELSE "probe_incomplete"
       \/ mpState' = "deferred_resource"
    /\ mpPc' = "record"
    /\ UNCHANGED <<mpInputs, mpTries, mpPhase, mpResumed, mpAt, mpOpen, mpMade, mpTools,
                   mpOk, mpWhy, mpRuns, mpEvents>>

\* The record of the attempt: the first trace of one that made no directory
MpRecord ==
    /\ mpPc = "record"
    /\ IF mpMade THEN MpMark(mpAt, Len(mpTries[mpAt]), [Last(mpAt) EXCEPT !.record = mpState])
       ELSE mpTries' = [mpTries EXCEPT
                ![mpAt] = Append(mpTries[mpAt], [NewTry(FALSE) EXCEPT !.record = mpState])]
    /\ mpPc' = "index"
    /\ UNCHANGED <<mpInputs, mpPhase, mpResumed, mpAt, mpOpen, mpState, mpMade, mpTools,
                   mpOk, mpWhy, mpRuns, mpEvents>>

MpIndex ==
    /\ mpPc = "index"
    /\ MpMark(mpAt, Len(mpTries[mpAt]), [Last(mpAt) EXCEPT !.indexed = TRUE])
    /\ mpOk' = IF mpState = "probe_ok" THEN mpOk \cup {mpAt} ELSE mpOk
    /\ mpPc' = "rows"
    /\ UNCHANGED <<mpInputs, mpPhase, mpResumed, mpAt, mpOpen, mpState, mpMade, mpTools,
                   mpWhy, mpRuns, mpEvents>>

\* All rows are done: what the batch binds is compared once more.
MpFinish ==
    /\ mpPc = "rows" /\ mpOpen = {}
    /\ IF mpSource
       THEN /\ mpPhase' = IF mpOk = MpRows THEN "complete" ELSE "complete_with_gaps"
            /\ mpPc' = "idle" /\ UNCHANGED mpWhy
       ELSE MpRaiseAs("failed") /\ UNCHANGED mpPhase
    /\ UNCHANGED <<mpInputs, mpTries, mpResumed, mpAt, mpOpen, mpState, mpMade, mpTools,
                   mpOk, mpRuns, mpEvents>>

\* A threshold is reached between two rows, or anything else is raised there
\* or while a record is written.
MpRaise ==
    /\ MpEvent
    /\ \/ mpPc = "rows" /\ mpOpen # {} /\ MpRaiseAs("deferred")
       \/ mpPc \in MpSteps \ {"idle", "bind", "raised", "raised_outside"} /\ MpRaiseAs("failed")
    /\ UNCHANGED <<mpInputs, mpTries, mpPhase, mpResumed, mpAt, mpOpen, mpState, mpMade,
                   mpTools, mpOk, mpRuns>>

\* The run's own handler, then for a resume the one around it: that one
\* writes failed over whatever the first has said.
MpHandle ==
    /\ mpPc = "raised"
    /\ mpPhase' = mpWhy
    /\ mpPc' = IF mpResumed THEN "raised_outside" ELSE "idle"
    /\ UNCHANGED <<mpInputs, mpTries, mpResumed, mpAt, mpOpen, mpState, mpMade, mpTools,
                   mpOk, mpWhy, mpRuns, mpEvents>>

MpHandleOutside ==
    /\ mpPc = "raised_outside"
    /\ mpPhase' = "failed"
    /\ mpPc' = "idle"
    /\ UNCHANGED <<mpInputs, mpTries, mpResumed, mpAt, mpOpen, mpState, mpMade, mpTools,
                   mpOk, mpWhy, mpRuns, mpEvents>>

MpKill ==
    /\ mpPc # "idle" /\ MpEvent
    /\ mpPc' = "idle"
    /\ UNCHANGED <<mpInputs, mpTries, mpPhase, mpResumed, mpAt, mpOpen, mpState, mpMade,
                   mpTools, mpOk, mpWhy, mpRuns>>

\* Between runs others change an export, a capture or a record, or the
\* producer goes on.
MpAlter ==
    /\ mpPc = "idle" /\ MpEvent
    /\ \/ \E r \in mpGood : mpGood' = mpGood \ {r} /\ UNCHANGED <<mpSource, mpTries>>
       \/ \E r \in MpRows : \E n \in DOMAIN mpTries[r] :
             /\ MpMark(r, n, [mpTries[r][n] EXCEPT !.intact = FALSE])
             /\ UNCHANGED <<mpGood, mpSource>>
       \/ mpSource' = FALSE /\ UNCHANGED <<mpGood, mpTries>>
    /\ UNCHANGED <<mpUnknown, mpPhase, mpPc, mpResumed, mpAt, mpOpen, mpState, mpMade,
                   mpTools, mpOk, mpWhy, mpRuns>>

MpNext ==
    \/ MpStart \/ MpBind \/ MpRow \/ MpHash \/ MpChild \/ MpRehash \/ MpRecord \/ MpIndex
    \/ MpFinish \/ MpRaise \/ MpHandle \/ MpHandleOutside \/ MpKill \/ MpAlter
MpSpec == MpInit /\ [][MpNext]_mpVars
-----------------------------------------------------------------------------
MpTypeOK ==
    /\ mpGood \subseteq MpRows /\ mpOk \subseteq MpRows /\ mpOpen \subseteq MpRows
    /\ mpTries \in [MpRows -> Seq(MpTry)]
    /\ \A r \in MpRows : \A n \in DOMAIN mpTries[r] :
          mpTries[r][n].indexed => mpTries[r][n].record # MpNil
    /\ mpPhase \in MpPhases /\ mpPc \in MpSteps
    /\ mpState \in MpStates
    /\ mpAt \in MpRows \cup {MpNil}
    /\ mpWhy \in {MpNil, "failed", "deferred"}

\* A batch that says complete has, for every selected export, a last attempt
\* in which both tools answered well about the bytes the producer recorded,
\* with its record in the index and its captures intact; nothing that a killed
\* run left half written, or that was changed since, counts for it.
MpCompleteIsProbed ==
    [][ (mpPhase # "complete" /\ mpPhase' = "complete") =>
          /\ mpSource
          /\ \A r \in MpRows : /\ mpTries[r] # <<>> /\ r \in mpGood \ mpUnknown
                               /\ Last(r) = [captured |-> TRUE, record |-> "probe_ok",
                                             indexed |-> TRUE, intact |-> TRUE] ]_mpVars
=============================================================================
