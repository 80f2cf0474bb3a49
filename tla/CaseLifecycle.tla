--------------------------- MODULE CaseLifecycle ---------------------------
(***************************************************************************)
(* The completion gate of one case directory, scripts/paired_vm_case.py:   *)
(* the commands verify, record-result, prepare-review and finalize-report  *)
(* run as processes that share the files of the case root, while an        *)
(* examiner edits the report, re-runs tools and the evidence may change.   *)
(*                                                                         *)
(* A file is the value of a variable; its SHA-256 is that value itself     *)
(* (an ideal hash); None is an absent file.  A step of a process is the    *)
(* code between two points where another process can change a file it      *)
(* reads or writes.  .case-state.lock serialises record-result,            *)
(* prepare-review, finalize-report and the last step of verify; the rest   *)
(* of verify runs without it.                                              *)
(***************************************************************************)
EXTENDS Naturals

CONSTANTS
    Procs,            \* command processes that can run at one time
    Sources,          \* paired sources: a disk image, a memory dump, manifests
    Listed,           \* the sources whose digests a supplied manifest lists
    Lanes,            \* work lanes of a source; "integrity" is one of them
    OptionalLanes,    \* NOT_APPLICABLE_LANES
    VerifyModes,      \* which options of verify are used
    Bodies,           \* texts of the working report
    Acceptable,       \* the texts that validate_report accepts
    Stub,             \* the text that init writes
    Eols,             \* line terminators the examiner's editor may write
    NativeEol,        \* the terminator Path.write_text writes on this platform
    LockGivesUp,      \* TRUE on Windows: msvcrt LK_LOCK fails after ten tries
    ConcurrentEdits,  \* may people write files while the gate holds the lock?
    MaxCommands,      \* bound: commands started
    MaxEvents,        \* bound: edits, tool runs and changes of evidence
    Incidents,        \* bound: which kinds of them happen, and "crash"
    None              \* an absent file or value

Contents == {"original", "altered", "damaged"}    \* "damaged": gzip fails
Modes    == {"hash_only", "gzip", "gzip_and_disks"}
Terminal == {"completed", "not_applicable"}       \* TERMINAL_WORK_STATUSES
Statuses == Terminal \cup {"pending", "failed"}   \* WORK_STATUSES

ASSUME ConstantsAssumption ==
    /\ Listed \subseteq Sources
    /\ "integrity" \in Lanes
    /\ OptionalLanes \subseteq Lanes \ {"integrity"}
    /\ VerifyModes \subseteq Modes
    /\ Acceptable \subseteq Bodies
    /\ Stub \in Bodies \ Acceptable
    /\ NativeEol \in Eols
    /\ LockGivesUp \in BOOLEAN
    /\ ConcurrentEdits \in BOOLEAN
    /\ MaxCommands \in Nat
    /\ MaxEvents \in Nat
    /\ Incidents \subseteq {"edit", "tool", "evidence", "disk", "crash"}
    /\ None \notin Procs

VARIABLES
    evidence,    \* per source: content, and whether size or mtime moved
    disk,        \* per source: disk.raw with its metadata
    output,      \* per source: version of the examiner's outputs, 0 = none
    report,      \* reports/CASE.working.md
    review,      \* the peer reviewer's JSON
    integrity,   \* integrity.json
    case,        \* case.json
    coverage,    \* reviews/completion-snapshot.json
    bundle,      \* reviews/review-bundle.json
    finalFile,   \* reports/CASE.final.md
    completion,  \* completion.json
    lock,        \* the process that holds .case-state.lock
    pc,          \* per process: the step it does next
    job,         \* per process: the command it runs
    run,         \* per process: verify's arguments and its `output` so far
    bound,       \* per process: finalize's current_report_sha256
    relied,      \* history: the integrity results of the last passed gate
    approvals,   \* history: the bundles a review said ready of
    cutOff,      \* history: the verify that closed the gate ended without a verdict
    commands,    \* commands started; also the time stamp of a verify run
    events       \* edits, tool runs and evidence changes so far

world    == <<evidence, disk, output, report, review>>
reviewed == <<coverage, bundle, finalFile, completion>>
locals   == <<job, run, bound>>
history  == <<relied, approvals, cutOff>>
vars     == <<world, integrity, case, reviewed, lock, pc, locals, history,
              commands, events>>

-----------------------------------------------------------------------------
(* The contents of the files.                                              *)

Report    == [body : Bodies, eol : Eols]
Result    == [sha : Contents, moved : BOOLEAN, tested : BOOLEAN]
Results   == [Sources -> Result \cup {None}]
Integrity == [stamp : Nat, status : {"in_progress", "verified", "failed"},
              results : Results]
\* A work item and the artifacts recorded for it: integrity.json, the outputs
Item      == [status : Statuses, gate : Integrity \cup {None},
              out : Nat \cup {None}]
Work      == [Sources -> [Lanes -> Item]]
\* coverage_document: rev stands for the histories and times of the items
Document  == [rev : Nat, work : Work]

CaseState == [lifecycle : {"in_progress", "review_ready", "finalized"},
              bundled : BOOLEAN, rev : Nat, work : Work,
              finalSha : Report \cup {None}]
Bundle    == [report : Report, coverage : Document]
Review    == [recommendation : {"ready", "ready_with_caveats"},
              report : Report, coverage : Document]

Completion == [report : Report, coverage : Document, review : Review \cup {None}]
\* what a running verify carries: time, options, selection, results so far
VerifyRun  == [stamp : Nat, mode : Modes, selected : SUBSET Sources,
               results : Results]

ASSUME NoneIsNoFile == None \notin Report \cup Bundle \cup Review \cup Completion

NoResults == [s \in Sources |-> None]
Ledger    == [rev |-> case.rev, work |-> case.work]

(* What verify holds against a source: the manifest, the gzip stream, and  *)
(* the inventory that init took.                                           *)
Mismatch(s, r) == s \in Listed /\ r.sha # "original"
GzipBad(r)     == r.tested /\ r.sha = "damaged"
Bad(s, r)      == r.moved \/ Mismatch(s, r) \/ GzipBad(r)

-----------------------------------------------------------------------------
(* init has run: inventory taken, ledger pending, report stub written.     *)
Init ==
    /\ evidence \in [Sources -> [content : Contents, moved : {FALSE}]]
    /\ disk = [s \in Sources |-> None]
    /\ output = [s \in Sources |-> 0]
    /\ report = [body |-> Stub, eol |-> NativeEol]
    /\ case = [lifecycle |-> "in_progress", bundled |-> FALSE, rev |-> 0,
               work |-> [s \in Sources |-> [l \in Lanes |->
                   [status |-> "pending", gate |-> None, out |-> None]]],
               finalSha |-> None]
    /\ integrity = None /\ review = None /\ coverage = None
    /\ bundle = None /\ finalFile = None /\ completion = None
    /\ lock = None
    /\ pc = [p \in Procs |-> "idle"]
    /\ job = [p \in Procs |-> None]
    /\ run = [p \in Procs |-> None]
    /\ bound = [p \in Procs |-> None]
    /\ relied = NoResults
    /\ approvals = {}
    /\ cutOff = FALSE
    /\ commands = 0
    /\ events = 0

Start(p, command) ==
    /\ pc[p] = "idle"
    /\ commands < MaxCommands
    /\ commands' = commands + 1
    /\ job' = [job EXCEPT ![p] = command]

Goto(p, step) == pc' = [pc EXCEPT ![p] = step]

\* (faulty: no `finally` around the lock)
FinishHoldingLock(p) ==
    /\ Goto(p, "idle")
    /\ job' = [job EXCEPT ![p] = None]
    /\ run' = [run EXCEPT ![p] = None]
    /\ bound' = [bound EXCEPT ![p] = None]
    /\ lock' = lock

\* A command ends: its locals are gone, a lock it held is released.
Finish(p) ==
    /\ Goto(p, "idle")
    /\ job' = [job EXCEPT ![p] = None]
    /\ run' = [run EXCEPT ![p] = None]
    /\ bound' = [bound EXCEPT ![p] = None]
    /\ lock' = IF lock = p THEN None ELSE lock

-----------------------------------------------------------------------------
(* verify: no lock until the last step.                                    *)

\* load the case, refuse a finalized one, select sources
VerifyBegin(p) ==
    /\ Start(p, "verify")
    /\ case.lifecycle # "finalized"
    /\ \E sel \in SUBSET Sources \ {{}}, mode \in VerifyModes :
          run' = [run EXCEPT ![p] = [stamp |-> commands, mode |-> mode,
                                     selected |-> sel, results |-> NoResults]]
    /\ Goto(p, "opened")
    /\ UNCHANGED <<world, integrity, case, reviewed, lock, bound, history, events>>

\* (faulty: a status name that no reader knows)
VerifyInvalidateMisnamed(p) ==
    /\ pc[p] = "opened"
    /\ integrity' = [stamp |-> run[p].stamp, status |-> "running",
                     results |-> NoResults]
    /\ cutOff' = FALSE
    /\ Goto(p, "scanning")
    /\ UNCHANGED <<world, case, reviewed, lock, locals, relied, approvals,
                   commands, events>>

\* an older verified gate is gone before anything is read
VerifyInvalidate(p) ==
    /\ pc[p] = "opened"
    /\ integrity' = [stamp |-> run[p].stamp, status |-> "in_progress",
                     results |-> NoResults]
    /\ cutOff' = FALSE
    /\ Goto(p, "scanning")
    /\ UNCHANGED <<world, case, reviewed, lock, locals, relied, approvals,
                   commands, events>>

Unhashed(p) == {s \in run[p].selected : run[p].results[s] = None}

\* what verify finds of a source
Found(p, s) == [sha |-> evidence[s].content, moved |-> evidence[s].moved,
                tested |-> run[p].mode # "hash_only"]

\* with --prepare-working-disks: the expanded disk becomes disk.raw
Promotes(p, s) ==
    /\ run[p].mode = "gzip_and_disks"
    /\ disk[s] = None
    /\ ~ GzipBad(Found(p, s))
    /\ ~ Mismatch(s, Found(p, s))

\* hash one source, and write its disk
VerifySource(p) ==
    /\ pc[p] = "scanning"
    /\ \E s \in Unhashed(p) :
          /\ run' = [run EXCEPT ![p].results[s] = Found(p, s)]
          /\ disk' = IF Promotes(p, s) THEN [disk EXCEPT ![s] = "recorded"]
                     ELSE disk
    /\ UNCHANGED <<evidence, output, report, review, integrity, case, reviewed,
                   lock, pc, job, bound, history, commands, events>>

\* What a scan that breaks off leaves of the disks: one may have been renamed
\* into place, with its metadata or still without.
DisksLeft(p) ==
    {disk} \cup {[disk EXCEPT ![s] = d] :
                    s \in {s \in Unhashed(p) : Promotes(p, s)},
                    d \in {"recorded", "changed"}}

\* The scan ends without a verdict.  CaseError: a manifest or the evidence is
\* missing, manifests conflict, too little free space, an existing disk does
\* not fit its metadata, a partial is in the way; OSError: a read or a write
\* fails; or the process is killed.  integrity.json says in_progress still.
VerifyRaise(p) ==
    /\ pc[p] = "scanning"
    /\ disk' \in DisksLeft(p)
    /\ cutOff' = (cutOff \/ integrity.stamp = run[p].stamp)
    /\ Finish(p)
    /\ UNCHANGED <<evidence, output, report, review, integrity, case, reviewed,
                   relied, approvals, commands, events>>

\* (faulty: a failed gzip stream does not clear overall_ok)
OverallOkGzipForgotten(results) ==
    \A s \in Sources : results[s] # None =>
        ~ results[s].moved /\ ~ Mismatch(s, results[s])

\* overall_ok over the selected sources
OverallOk(results) ==
    \A s \in Sources : results[s] # None => ~ Bad(s, results[s])

\* (faulty: a failing run returns before it writes integrity.json)
VerifyPublishOnSuccess(p) ==
    /\ pc[p] = "scanning"
    /\ Unhashed(p) = {}
    /\ integrity' = IF OverallOk(run[p].results)
                    THEN [stamp |-> run[p].stamp, status |-> "verified",
                          results |-> run[p].results]
                    ELSE integrity
    /\ cutOff' = (cutOff /\ ~ OverallOk(run[p].results))
    /\ Goto(p, "recording")
    /\ UNCHANGED <<world, case, reviewed, lock, locals, relied, approvals,
                   commands, events>>

\* the final integrity.json, the gate of everything downstream
VerifyPublish(p) ==
    /\ pc[p] = "scanning"
    /\ Unhashed(p) = {}
    /\ integrity' =
         [stamp   |-> run[p].stamp,
          status  |-> IF OverallOk(run[p].results) THEN "verified" ELSE "failed",
          results |-> run[p].results]
    /\ cutOff' = FALSE
    /\ Goto(p, "recording")
    /\ UNCHANGED <<world, case, reviewed, lock, locals, relied, approvals,
                   commands, events>>

\* update_integrity_work_items; the artifact is integrity.json as it is NOW
LedgerAfterVerify(p) ==
    [s \in Sources |->
       IF run[p].results[s] = None THEN case.work[s]
       ELSE [case.work[s] EXCEPT !["integrity"] =
               [status |-> IF Bad(s, run[p].results[s]) THEN "failed"
                           ELSE "completed",
                gate |-> integrity, out |-> None]]]

\* (faulty: the lifecycle is left as it was)
AmendInReview(work) == case' = [case EXCEPT !.rev = @ + 1, !.work = work]

\* Every change of the ledger takes the case back out of review.
Amend(work) ==
    case' = [lifecycle |-> "in_progress", bundled |-> FALSE,
             rev |-> case.rev + 1, work |-> work, finalSha |-> case.finalSha]

\* (faulty: the lifecycle is not read again under the lock)
VerifyLedgerUnguarded(p) ==
    /\ pc[p] = "recording"
    /\ lock = None
    /\ Amend(LedgerAfterVerify(p))
    /\ Finish(p)
    /\ UNCHANGED <<world, integrity, reviewed, history, commands, events>>

\* update_integrity_work_items: the lifecycle again, then the amendment
VerifyLedger(p) ==
    /\ pc[p] = "recording"
    /\ lock = None
    /\ case.lifecycle # "finalized"
    /\ Amend(LedgerAfterVerify(p))
    /\ Finish(p)
    /\ UNCHANGED <<world, integrity, reviewed, history, commands, events>>

\* finalized while verify ran, or the lock was not obtained in time
VerifyTooLate(p) ==
    /\ pc[p] = "recording"
    /\ \/ lock = None /\ case.lifecycle = "finalized"
       \/ lock # None /\ LockGivesUp
    /\ Finish(p)
    /\ UNCHANGED <<world, integrity, case, reviewed, history, commands, events>>

-----------------------------------------------------------------------------
(* record-result: one transaction under the lock.                          *)

\* The items a user can record for a lane of s, as the files are now
Recordable(s, l) ==
    LET gates == {None} \cup (IF integrity = None THEN {} ELSE {integrity})
        outs  == {None} \cup (IF output[s] = 0 THEN {} ELSE {output[s]})
    IN  {i \in [status : {"completed"}, gate : gates, out : outs] :
             i.gate # None \/ i.out # None}
        \cup {[status |-> st, gate |-> None, out |-> None] :
                 st \in {"failed"}
                        \cup (IF l \in OptionalLanes THEN {"not_applicable"} ELSE {})}

Record(p) ==
    /\ Start(p, None)
    /\ lock = None
    /\ case.lifecycle # "finalized"
    /\ \E s \in Sources, l \in Lanes : \E item \in Recordable(s, l) :
          Amend([case.work EXCEPT ![s][l] = item])
    /\ UNCHANGED <<world, integrity, reviewed, lock, pc, run, bound, history,
                   events>>

-----------------------------------------------------------------------------
(* prepare-review and finalize-report: both hold the lock to the end and   *)
(* begin with the same readiness check.                                    *)

GateBegin(p, command) ==
    /\ Start(p, command)
    /\ lock = None
    /\ case.lifecycle # "finalized"
    /\ lock' = p
    /\ Goto(p, "evidence")
    /\ UNCHANGED <<world, integrity, case, reviewed, run, bound, history, events>>

\* validate_current_evidence with rehash
EvidenceReady ==
    /\ integrity # None
    /\ integrity.status = "verified"
    /\ \A s \in Sources :
          /\ ~ evidence[s].moved
          /\ integrity.results[s] # None
          /\ integrity.results[s].sha = evidence[s].content
          /\ disk[s] = "recorded"

\* (faulty: non-terminal statuses pass)
ItemReadyAnyStatus(s, l) ==
    LET i == case.work[s][l]
    IN  i.status = "completed" => /\ i.gate \in {None, integrity}
                                  /\ i.out \in {None, output[s]}

\* validate_work_completion; a completed item's artifacts are hashed again
ItemReady(s, l) ==
    LET i == case.work[s][l]
    IN  /\ i.status \in Terminal
        /\ i.status = "not_applicable" => l \in OptionalLanes
        /\ i.status = "completed" => /\ i.gate # None \/ i.out # None
                                     /\ i.gate \in {None, integrity}
                                     /\ i.out \in {None, output[s]}

WorkReady == \A s \in Sources, l \in Lanes : ItemReady(s, l)

ReportReady == report.body \in Acceptable

CheckEvidence(p) ==
    /\ pc[p] = "evidence"
    /\ EvidenceReady
    /\ relied' = integrity.results
    /\ Goto(p, "work")
    /\ UNCHANGED <<world, integrity, case, reviewed, lock, locals, approvals,
                   cutOff, commands, events>>

CheckWork(p) ==
    /\ pc[p] = "work"
    /\ WorkReady
    /\ Goto(p, "report")
    /\ UNCHANGED <<world, integrity, case, reviewed, lock, locals, history,
                   commands, events>>

CheckReport(p) ==
    /\ pc[p] = "report"
    /\ ReportReady
    /\ Goto(p, IF job[p] = "prepare" THEN "coverage" ELSE "bind")
    /\ UNCHANGED <<world, integrity, case, reviewed, lock, locals, history,
                   commands, events>>

\* prepare-review: snapshot, bundle with the hash of the report, case state
WriteCoverage(p) ==
    /\ pc[p] = "coverage"
    /\ coverage' = Ledger
    /\ Goto(p, "bundle")
    /\ UNCHANGED <<world, integrity, case, bundle, finalFile, completion, lock,
                   locals, history, commands, events>>

WriteBundle(p) ==
    /\ pc[p] = "bundle"
    /\ bundle' = [report |-> report, coverage |-> Ledger]
    /\ Goto(p, "commit")
    /\ UNCHANGED <<world, integrity, case, coverage, finalFile, completion, lock,
                   locals, history, commands, events>>

CommitReview(p) ==
    /\ pc[p] = "commit"
    /\ case' = [case EXCEPT !.lifecycle = "review_ready", !.bundled = TRUE]
    /\ Finish(p)
    /\ UNCHANGED <<world, integrity, reviewed, history, commands, events>>

\* finalize-report: hash the report, compare with bundle, ledger, snapshot
BindReady ==
    /\ case.bundled
    /\ bundle # None
    /\ bundle.report = report
    /\ coverage = Ledger
    /\ bundle.coverage = Ledger

Bind(p) ==
    /\ pc[p] = "bind"
    /\ BindReady
    /\ bound' = [bound EXCEPT ![p] = report]
    /\ Goto(p, "review")
    /\ UNCHANGED <<world, integrity, case, reviewed, lock, job, run, history,
                   commands, events>>

\* (faulty: the report hash of the review is not compared)
ReviewReadyOfCoverage(p) ==
    /\ review # None
    /\ review.recommendation = "ready"
    /\ review.coverage = Ledger

\* (faulty: any recommendation passes)
ReviewReadyWithCaveats(p) ==
    /\ review # None
    /\ review.report = bound[p]
    /\ review.coverage = Ledger

\* the peer review: exactly ready, of this report and of this coverage
ReviewReady(p) ==
    /\ review # None
    /\ review.recommendation = "ready"
    /\ review.report = bound[p]
    /\ review.coverage = Ledger

CheckReview(p) ==
    /\ pc[p] = "review"
    /\ ReviewReady(p)
    /\ Goto(p, "publish")
    /\ UNCHANGED <<world, integrity, case, reviewed, lock, locals, history,
                   commands, events>>

\* (faulty: an earlier final report is overwritten)
OverwriteFinal(p) == TRUE

\* an earlier final report must have the bound hash
NoOtherFinal(p) == finalFile \in {None, bound[p]}

\* read_text drops the terminators, write_text writes the platform's own
Publish(p) ==
    /\ pc[p] = "publish"
    /\ NoOtherFinal(p)
    /\ finalFile' = [report EXCEPT !.eol = NativeEol]
    /\ Goto(p, "complete")
    /\ UNCHANGED <<world, integrity, case, coverage, bundle, completion, lock,
                   locals, history, commands, events>>

\* completion.json: the bound hash of the report, a new hash of the review
Complete(p) ==
    /\ pc[p] = "complete"
    /\ completion' = [report |-> bound[p], coverage |-> Ledger, review |-> review]
    /\ Goto(p, "seal")
    /\ UNCHANGED <<world, integrity, case, coverage, bundle, finalFile, lock,
                   locals, history, commands, events>>

Seal(p) ==
    /\ pc[p] = "seal"
    /\ case' = [case EXCEPT !.lifecycle = "finalized", !.finalSha = bound[p]]
    /\ Finish(p)
    /\ UNCHANGED <<world, integrity, reviewed, history, commands, events>>

\* CaseError: a check fails and the command ends without writing
Refuse(p) ==
    /\ \/ pc[p] = "evidence" /\ ~ EvidenceReady
       \/ pc[p] = "work"     /\ ~ WorkReady
       \/ pc[p] = "report"   /\ ~ ReportReady
       \/ pc[p] = "bind"     /\ ~ BindReady
       \/ pc[p] = "review"   /\ ~ ReviewReady(p)
       \/ pc[p] = "publish"  /\ ~ NoOtherFinal(p)
    /\ Finish(p)
    /\ UNCHANGED <<world, integrity, case, reviewed, history, commands, events>>

-----------------------------------------------------------------------------
(* Around the commands.                                                    *)

\* A process dies (or a write fails) at any other step; the kernel drops its
\* lock.  In the scan of verify this is VerifyRaise.
Crash(p) ==
    /\ "crash" \in Incidents
    /\ pc[p] \notin {"idle", "scanning"}
    /\ Finish(p)
    /\ UNCHANGED <<world, integrity, case, reviewed, history, commands, events>>

Happens(kind) == kind \in Incidents /\ events < MaxEvents /\ events' = events + 1
PeopleWrite   == ConcurrentEdits \/ lock = None

EditReport ==
    /\ Happens("edit")
    /\ PeopleWrite
    /\ report' \in Report \ {report}
    /\ UNCHANGED <<evidence, disk, output, review, integrity, case, reviewed,
                   lock, pc, locals, history, commands>>

\* The reviewer answers for the bundle that is there.
WriteReview ==
    /\ PeopleWrite
    /\ bundle # None
    /\ \E rec \in {"ready", "ready_with_caveats"} :
          /\ review' = [recommendation |-> rec, report |-> bundle.report,
                        coverage |-> bundle.coverage]
          /\ approvals' = IF rec = "ready" THEN approvals \cup {bundle}
                          ELSE approvals
    /\ review' # review
    /\ UNCHANGED <<evidence, disk, output, report, integrity, case, reviewed,
                   lock, pc, locals, relied, cutOff, commands, events>>

RunTool ==
    /\ Happens("tool")
    /\ \E s \in Sources : output' = [output EXCEPT ![s] = @ + 1]
    /\ UNCHANGED <<evidence, disk, report, review, integrity, case, reviewed,
                   lock, pc, locals, history, commands>>

AlterEvidence ==
    /\ Happens("evidence")
    /\ \E s \in Sources, c \in Contents, m \in BOOLEAN :
          evidence' = [evidence EXCEPT ![s] = [content |-> c, moved |-> m]]
    /\ evidence' # evidence
    /\ UNCHANGED <<disk, output, report, review, integrity, case, reviewed, lock,
                   pc, locals, history, commands>>

AlterDisk ==
    /\ Happens("disk")
    /\ \E s \in Sources : /\ disk[s] = "recorded"
                          /\ disk' = [disk EXCEPT ![s] = "changed"]
    /\ UNCHANGED <<evidence, output, report, review, integrity, case, reviewed,
                   lock, pc, locals, history, commands>>

\* The steps a started command takes by itself
Continue(p) ==
    \/ VerifyInvalidate(p) \/ VerifySource(p) \/ VerifyRaise(p)
    \/ VerifyPublish(p) \/ VerifyLedger(p) \/ VerifyTooLate(p)
    \/ CheckEvidence(p) \/ CheckWork(p) \/ CheckReport(p)
    \/ WriteCoverage(p) \/ WriteBundle(p) \/ CommitReview(p)
    \/ Bind(p) \/ CheckReview(p) \/ Publish(p) \/ Complete(p) \/ Seal(p)
    \/ Refuse(p)

Begin(p) ==
    \/ VerifyBegin(p) \/ Record(p)
    \/ GateBegin(p, "prepare") \/ GateBegin(p, "finalize")

Outside == EditReport \/ WriteReview \/ RunTool \/ AlterEvidence \/ AlterDisk

Next == (\E p \in Procs : Begin(p) \/ Continue(p) \/ Crash(p)) \/ Outside

Spec == Init /\ [][Next]_vars

-----------------------------------------------------------------------------
(* Properties.                                                             *)

Steps == {"idle", "opened", "scanning", "recording", "evidence", "work",
          "report", "coverage", "bundle", "commit", "bind", "review",
          "publish", "complete", "seal"}

\* Every file and every local has the shape its writers give it.
TypeOK ==
    /\ evidence \in [Sources -> [content : Contents, moved : BOOLEAN]]
    /\ disk \in [Sources -> {None, "recorded", "changed"}]
    /\ output \in [Sources -> Nat]
    /\ report \in Report
    /\ review \in Review \cup {None}
    /\ integrity \in Integrity \cup {None}
    /\ case \in CaseState
    /\ coverage \in Document \cup {None}
    /\ bundle \in Bundle \cup {None}
    /\ finalFile \in Report \cup {None}
    /\ completion \in Completion \cup {None}
    /\ lock \in Procs \cup {None}
    /\ pc \in [Procs -> Steps]
    /\ job \in [Procs -> {None, "verify", "prepare", "finalize"}]
    /\ run \in [Procs -> VerifyRun \cup {None}]
    /\ bound \in [Procs -> Report \cup {None}]
    /\ relied \in Results
    /\ approvals \subseteq Bundle
    /\ cutOff \in BOOLEAN
    /\ commands \in Nat
    /\ events \in Nat

\* A case under review has a bundle and a snapshot of the ledger it has NOW:
\* record-result and verify's last step take it out of review when they
\* change the ledger.
ReviewMatchesLedger ==
    case.lifecycle = "review_ready" =>
        /\ case.bundled
        /\ bundle # None /\ bundle.coverage = Ledger
        /\ coverage = Ledger

\* A finalized case: completion.json, the snapshot, the bundle and the ledger
\* speak of one report and one coverage, and every lane is terminal.
FinalizedBound ==
    case.lifecycle = "finalized" =>
        /\ completion # None
        /\ completion.report = case.finalSha
        /\ completion.coverage = Ledger
        /\ coverage = Ledger
        /\ bundle # None
        /\ bundle = [report |-> case.finalSha, coverage |-> Ledger]
        /\ \A s \in Sources, l \in Lanes : case.work[s][l].status \in Terminal

\* No command, and no leftover step of a verify that was already running,
\* changes the ledger or a frozen file of a finalized case.
FinalizedFrozen ==
    [][case.lifecycle = "finalized" => UNCHANGED <<case, reviewed>>]_vars

\* The results the last gate relied on hold nothing against any source: an
\* integrity.json is `verified` only if every source in it is clean.
ReliedIsClean ==
    case.lifecycle \in {"review_ready", "finalized"} =>
        \A s \in Sources : relied[s] # None /\ ~ Bad(s, relied[s])

\* With nobody writing into the gate: the review that completion.json binds
\* said ready, of that report and that ledger.
PeerApproved ==
    completion # None =>
        /\ completion.review # None
        /\ completion.review.recommendation = "ready"
        /\ completion.review.report = completion.report
        /\ completion.review.coverage = completion.coverage

\* With nobody writing into the gate, on a platform whose terminator the
\* report uses: the published text was accepted by validate_report and is
\* the one completion.json names, through crashes and retries.
FinalMatchesCompletion ==
    /\ finalFile # None => finalFile.body \in Acceptable
    /\ completion # None => finalFile = completion.report

\* Under the same conditions a final report is published once and for all.
FinalWrittenOnce ==
    [][finalFile # None => finalFile' = finalFile]_vars

-----------------------------------------------------------------------------
(* The gate implements CaseGate: what is under review is the bundle, once  *)
(* the case state points at it; what is released is what completion.json   *)
(* names, once the case state says finalized.                              *)
Gate == INSTANCE CaseGate WITH
    Reports  <- Report,
    Ledgers  <- Document,
    ledger   <- Ledger,
    phase    <- case.lifecycle,
    frozen   <- IF case.lifecycle = "in_progress" THEN None ELSE bundle,
    released <- IF case.lifecycle = "finalized"
                THEN [report |-> completion.report,
                      coverage |-> completion.coverage]
                ELSE None

\* Whatever is released was approved, as the pair it is, after the last
\* change of the ledger: prepare-review, record-result, verify and
\* finalize-report only ever take the steps of the abstract gate.
ImplementsGate == Gate!Spec

-----------------------------------------------------------------------------
(* Liveness, where the lock blocks (flock).  A started command runs on by  *)
(* itself until it ends, raises or dies; nothing is assumed of people.     *)
FairSpec == Spec /\ \A p \in Procs : WF_vars(Continue(p))

\* Every command ends: nobody waits for the lock for ever, on any path out
\* of the gate, refusals included.
CommandsEnd == \A p \in Procs : pc[p] # "idle" ~> pc[p] = "idle"

\* A gate that verify closed gets a verdict again, whatever verifies overlap,
\* fail their sources or are refused by the ledger, unless the very scan whose
\* mark integrity.json bears ends on an error: then it stays closed.
GateClosed  == integrity # None /\ integrity.status = "in_progress"
GateDecided == GateClosed ~> (~ GateClosed \/ cutOff)

-----------------------------------------------------------------------------
(* What the documents and messages say and the code does not do.           *)

\* "Case is finalized; integrity state cannot be changed": verify looks at
\* the lifecycle once, without the lock, before it writes integrity.json.
FinalizedIntegrityFrozen ==
    [][case.lifecycle = "finalized" => UNCHANGED integrity]_vars

\* The final report has the hash completion.json binds, which formal
\* rendering rechecks.
FinalHashBound ==
    case.lifecycle = "finalized" => finalFile = completion.report
=============================================================================
