------------------------ MODULE CaseLifecycleProofs ------------------------
(* Proofs about CaseLifecycle, for any number of processes, sources, lanes,*)
(* texts and commands, with crashes and with people writing at any time.   *)
EXTENDS CaseLifecycle, TLAPS

-----------------------------------------------------------------------------
(* Types.  TypeOK is not inductive: what a step reads from the locals of   *)
(* its process is typed by where the process is.                           *)

VerifySteps == {"opened", "scanning", "recording"}
BoundSteps  == {"review", "publish", "complete", "seal"}

TypeInv ==
    /\ TypeOK
    /\ \A p \in Procs : pc[p] \in VerifySteps => run[p] \in VerifyRun
    /\ \A p \in Procs : pc[p] = "recording" => integrity \in Integrity
    /\ \A p \in Procs : pc[p] \in BoundSteps => bound[p] \in Report

\* The initial case has the shapes.
LEMMA TypeInit == Init => TypeInv
<1> SUFFICES ASSUME Init PROVE TypeInv
  OBVIOUS
<1>1. case \in CaseState
  BY ConstantsAssumption DEF Init, CaseState, Work, Item, Statuses, Terminal
<1>2. report \in Report
  BY ConstantsAssumption DEF Init, Report
<1>3. relied \in Results
  BY DEF Init, NoResults, Results
<1>4. evidence \in [Sources -> [content : Contents, moved : BOOLEAN]]
  BY DEF Init
<1> QED
  BY <1>1, <1>2, <1>3, <1>4
  DEF Init, TypeInv, TypeOK, Steps, VerifySteps, BoundSteps

\* What Amend does to the case state, field by field.
LEMMA Amended ==
  ASSUME case \in CaseState, NEW w \in Work, Amend(w)
  PROVE  /\ case' \in CaseState
         /\ case'.lifecycle = "in_progress" /\ case'.bundled = FALSE
         /\ case'.rev = case.rev + 1 /\ case'.work = w
  BY DEF Amend, CaseState

\* What verify writes is a ledger.
LEMMA VerifyLedgerIsWork ==
  ASSUME TypeInv, NEW p \in Procs, run[p] \in VerifyRun, integrity \in Integrity
  PROVE  LedgerAfterVerify(p) \in Work
<1>1. case.work \in Work
  BY DEF TypeInv, TypeOK, CaseState
<1>2. ASSUME NEW s \in Sources
      PROVE  [case.work[s] EXCEPT !["integrity"] =
               [status |-> IF Bad(s, run[p].results[s]) THEN "failed"
                           ELSE "completed",
                gate |-> integrity, out |-> None]] \in [Lanes -> Item]
  BY <1>1 DEF Work, Item, Statuses, Terminal
<1> QED
  BY <1>1, <1>2 DEF LedgerAfterVerify, Work

\* The steps of verify keep the shapes.
LEMMA TypeVerify ==
  ASSUME TypeInv, NEW p \in Procs,
         \/ VerifyBegin(p) \/ VerifyInvalidate(p) \/ VerifySource(p)
         \/ VerifyPublish(p) \/ VerifyLedger(p) \/ VerifyTooLate(p)
         \/ VerifyRaise(p)
  PROVE  TypeInv'
<1>1. CASE VerifyBegin(p)
  BY <1>1, ConstantsAssumption
  DEF VerifyBegin, Start, Goto, TypeInv, TypeOK, Steps, VerifySteps, BoundSteps,
      VerifyRun, NoResults, Results, world, reviewed, history
<1>2. CASE VerifyInvalidate(p)
  BY <1>2
  DEF VerifyInvalidate, Goto, TypeInv, TypeOK, Steps, VerifySteps, BoundSteps,
      VerifyRun, NoResults, Results, Integrity, world, reviewed, locals, history
<1>3. CASE VerifySource(p)
  <2>1. run[p] \in VerifyRun
    BY <1>3 DEF VerifySource, TypeInv, VerifySteps
  <2>2. PICK s \in Unhashed(p) :
          /\ run' = [run EXCEPT ![p].results[s] = Found(p, s)]
          /\ disk' = IF Promotes(p, s) THEN [disk EXCEPT ![s] = "recorded"]
                     ELSE disk
    BY <1>3 DEF VerifySource
  <2>3. s \in Sources /\ Found(p, s) \in Result
    BY <2>1, <2>2 DEF Unhashed, VerifyRun, Found, Result, TypeInv, TypeOK
  <2>4. run'[p] \in VerifyRun
    BY <2>1, <2>2, <2>3 DEF VerifyRun, Results, TypeInv, TypeOK
  <2>5. disk' \in [Sources -> {None, "recorded", "changed"}]
    BY <2>2, <2>3 DEF TypeInv, TypeOK
  <2>6. run' \in [Procs -> VerifyRun \cup {None}]
        /\ \A q \in Procs : q # p => run'[q] = run[q]
    BY <2>2, <2>4 DEF TypeInv, TypeOK
  <2> QED
    BY <1>3, <2>4, <2>5, <2>6
    DEF VerifySource, TypeInv, TypeOK, VerifySteps, BoundSteps, reviewed, history
<1>4. CASE VerifyPublish(p)
  BY <1>4
  DEF VerifyPublish, Goto, TypeInv, TypeOK, Steps, VerifySteps, BoundSteps,
      VerifyRun, Integrity, world, reviewed, locals, history
<1>5. CASE VerifyLedger(p)
  <2>1. integrity \in Integrity
    BY <1>5 DEF VerifyLedger, TypeInv
  <2>2. case' \in CaseState
    BY <1>5, <2>1, Amended, VerifyLedgerIsWork
    DEF VerifyLedger, TypeInv, TypeOK, VerifySteps
  <2> QED
    BY <1>5, <2>2
    DEF VerifyLedger, Finish, Goto, TypeInv, TypeOK, Steps, VerifySteps,
        BoundSteps, world, reviewed, history
<1>6. CASE VerifyTooLate(p)
  BY <1>6
  DEF VerifyTooLate, Finish, Goto, TypeInv, TypeOK, Steps, VerifySteps,
      BoundSteps, world, reviewed, history
<1>7. CASE VerifyRaise(p)
  <2>1. disk' \in [Sources -> {None, "recorded", "changed"}]
    BY <1>7 DEF VerifyRaise, DisksLeft, Unhashed, VerifyRun, TypeInv, TypeOK
  <2>2. cutOff' \in BOOLEAN
    BY <1>7 DEF VerifyRaise
  <2>3. \A q \in Procs : pc'[q] # "idle" =>
           pc'[q] = pc[q] /\ run'[q] = run[q] /\ bound'[q] = bound[q]
    BY <1>7 DEF VerifyRaise, Finish, Goto, TypeInv, TypeOK
  <2>4. /\ pc' \in [Procs -> Steps] /\ lock' \in Procs \cup {None}
        /\ job' \in [Procs -> {None, "verify", "prepare", "finalize"}]
        /\ run' \in [Procs -> VerifyRun \cup {None}]
        /\ bound' \in [Procs -> Report \cup {None}]
    BY <1>7 DEF VerifyRaise, Finish, Goto, TypeInv, TypeOK, Steps
  <2> QED
    BY <1>7, <2>1, <2>2, <2>3, <2>4
    DEF VerifyRaise, TypeInv, TypeOK, VerifySteps, BoundSteps, reviewed
<1> QED
  BY <1>1, <1>2, <1>3, <1>4, <1>5, <1>6, <1>7

\* record-result replaces the work by other work.
LEMMA RecordAmends ==
  ASSUME TypeInv, NEW p \in Procs, Record(p)
  PROVE  \E w \in Work : Amend(w)
<1>1. PICK s \in Sources, l \in Lanes : \E item \in Recordable(s, l) :
         Amend([case.work EXCEPT ![s][l] = item])
  BY DEF Record
<1>2. PICK item \in Recordable(s, l) : Amend([case.work EXCEPT ![s][l] = item])
  BY <1>1
<1>3. item \in Item
  BY <1>2 DEF Recordable, Item, Statuses, Terminal, TypeInv, TypeOK
<1>4. [case.work EXCEPT ![s][l] = item] \in Work
  BY <1>3 DEF Work, CaseState, TypeInv, TypeOK
<1> QED
  BY <1>2, <1>4

\* record-result keeps the shapes.
LEMMA TypeRecord ==
  ASSUME TypeInv, NEW p \in Procs, Record(p)
  PROVE  TypeInv'
<1>1. case' \in CaseState
  BY RecordAmends, Amended DEF TypeInv, TypeOK
<1> QED
  BY <1>1 DEF Record, Start, TypeInv, TypeOK, VerifySteps, BoundSteps, world,
              reviewed, history

\* The steps of the gate keep the shapes.
LEMMA TypeGate ==
  ASSUME TypeInv, NEW p \in Procs,
         \/ GateBegin(p, "prepare") \/ GateBegin(p, "finalize")
         \/ CheckEvidence(p) \/ CheckWork(p) \/ CheckReport(p)
         \/ WriteCoverage(p) \/ WriteBundle(p) \/ CommitReview(p)
         \/ Bind(p) \/ CheckReview(p) \/ Publish(p) \/ Complete(p) \/ Seal(p)
         \/ Refuse(p) \/ Crash(p)
  PROVE  TypeInv'
<1> USE DEF TypeInv, TypeOK, Steps, VerifySteps, BoundSteps, Goto, world,
            reviewed, locals, history
<1>0. Ledger \in Document
  BY DEF Ledger, Document, CaseState
<1>1. CASE GateBegin(p, "prepare") \/ GateBegin(p, "finalize")
  BY <1>1 DEF GateBegin, Start
<1>2. CASE CheckEvidence(p)
  BY <1>2 DEF CheckEvidence, EvidenceReady, Integrity
<1>3. CASE CheckWork(p) \/ CheckReport(p) \/ CheckReview(p)
  BY <1>3 DEF CheckWork, CheckReport, CheckReview
<1>4. CASE WriteCoverage(p)
  BY <1>0, <1>4 DEF WriteCoverage
<1>5. CASE WriteBundle(p)
  BY <1>0, <1>5 DEF WriteBundle, Bundle
<1>6. CASE CommitReview(p)
  <2>1. case' \in CaseState
    BY <1>6 DEF CommitReview, CaseState
  <2> QED
    BY <1>6, <2>1 DEF CommitReview, Finish
<1>7. CASE Bind(p)
  BY <1>7 DEF Bind
<1>8. CASE Publish(p)
  BY <1>8, ConstantsAssumption DEF Publish, Report
<1>9. CASE Complete(p)
  BY <1>0, <1>9 DEF Complete, Completion
<1>10. CASE Seal(p)
  <2>1. case' \in CaseState
    BY <1>10 DEF Seal, CaseState
  <2> QED
    BY <1>10, <2>1 DEF Seal, Finish
<1>11. CASE Refuse(p) \/ Crash(p)
  BY <1>11 DEF Refuse, Crash, Finish
<1> QED
  BY <1>1, <1>2, <1>3, <1>4, <1>5, <1>6, <1>7, <1>8, <1>9, <1>10, <1>11

\* So do tools, people and the evidence.
LEMMA TypeOutside == ASSUME TypeInv, Outside PROVE TypeInv'
<1> USE DEF TypeInv, TypeOK, VerifySteps, BoundSteps, reviewed, locals, history,
            Happens
<1>1. CASE EditReport
  BY <1>1 DEF EditReport
<1>2. CASE WriteReview
  <2>1. review' \in Review /\ approvals' \subseteq Bundle
    BY <1>2 DEF WriteReview, Review, Bundle
  <2> QED
    BY <1>2, <2>1 DEF WriteReview
<1>3. CASE RunTool
  BY <1>3 DEF RunTool
<1>4. CASE AlterEvidence
  BY <1>4 DEF AlterEvidence
<1>5. CASE AlterDisk
  BY <1>5 DEF AlterDisk
<1> QED
  BY <1>1, <1>2, <1>3, <1>4, <1>5 DEF Outside

\* So does every step.
LEMMA TypeStep == TypeInv /\ [Next]_vars => TypeInv'
<1> SUFFICES ASSUME TypeInv, [Next]_vars PROVE TypeInv'
  OBVIOUS
<1>1. CASE UNCHANGED vars
  BY <1>1 DEF vars, world, reviewed, locals, history, TypeInv, TypeOK
<1>2. CASE Outside
  BY <1>2, TypeOutside
<1>3. ASSUME NEW p \in Procs, Begin(p) \/ Continue(p) \/ Crash(p)
      PROVE  TypeInv'
  BY <1>3, TypeVerify, TypeRecord, TypeGate DEF Begin, Continue
<1> QED
  BY <1>1, <1>2, <1>3 DEF Next

\* The shapes hold in every state.
THEOREM TypeInvariant == Spec => []TypeInv
  BY TypeInit, TypeStep, PTL DEF Spec

\* Every file and every local keeps its shape in every execution.
THEOREM TypeCorrect == Spec => []TypeOK
  BY TypeInvariant, PTL DEF TypeInv

-----------------------------------------------------------------------------
(* The inductive invariant of the gate: who holds the lock, and what each  *)
(* step of prepare-review and finalize-report may count on because it does.*)

BindSteps == {"review", "publish", "complete", "seal"}
PassedWork == BindSteps \cup {"report", "coverage", "bundle", "commit", "bind"}
GateSteps == PassedWork \cup {"evidence", "work"}

AllTerminal == \A s \in Sources, l \in Lanes : case.work[s][l].status \in Terminal

LockHeld == \A p \in Procs : pc[p] \in GateSteps <=> lock = p

GateOpen ==
    \A p \in Procs : pc[p] \in GateSteps => case.lifecycle # "finalized"

WorkChecked == \A p \in Procs : pc[p] \in PassedWork => AllTerminal

BundledUnderReview == case.bundled <=> case.lifecycle # "in_progress"

Preparing ==
    \A p \in Procs :
       /\ pc[p] \in {"bundle", "commit"} => coverage = Ledger
       /\ pc[p] = "commit" => bundle \in Bundle /\ bundle.coverage = Ledger

Binding ==
    \A p \in Procs : pc[p] \in BindSteps =>
       /\ case.bundled
       /\ coverage = Ledger
       /\ bundle = [report |-> bound[p], coverage |-> Ledger]

Sealing ==
    \A p \in Procs : pc[p] = "seal" =>
       /\ completion \in Completion
       /\ completion.report = bound[p]
       /\ completion.coverage = Ledger

UnderReview ==
    case.lifecycle # "in_progress" =>
       /\ bundle \in Bundle /\ bundle.coverage = Ledger
       /\ coverage = Ledger

Finalized ==
    case.lifecycle = "finalized" =>
       /\ completion \in Completion
       /\ completion.report = case.finalSha
       /\ completion.coverage = Ledger
       /\ bundle = [report |-> case.finalSha, coverage |-> Ledger]
       /\ AllTerminal

GateInv ==
    /\ TypeInv /\ LockHeld /\ GateOpen /\ WorkChecked /\ BundledUnderReview
    /\ Preparing /\ Binding /\ Sealing /\ UnderReview /\ Finalized

\* No command is in the gate.
LEMMA GateInit == Init => GateInv
<1> SUFFICES ASSUME Init PROVE GateInv
  OBVIOUS
<1>1. TypeInv
  BY TypeInit
<1> QED
  BY <1>1, ConstantsAssumption
  DEF Init, GateInv, LockHeld, GateOpen, WorkChecked, BundledUnderReview,
      Preparing, Binding, Sealing, UnderReview, Finalized, GateSteps,
      PassedWork, BindSteps

\* A step that leaves the case files alone and moves nobody into, or within,
\* the gate keeps every conjunct but LockHeld.
LEMMA GateFrame ==
  ASSUME GateInv, TypeInv', LockHeld', UNCHANGED <<case, coverage, bundle, completion>>,
         \A q \in Procs : pc'[q] \in GateSteps =>
                            pc'[q] = pc[q] /\ bound'[q] = bound[q]
  PROVE  GateInv'
<1>1. Ledger' = Ledger /\ AllTerminal' = AllTerminal
  BY DEF Ledger, AllTerminal
<1>2. GateOpen' /\ WorkChecked' /\ BundledUnderReview'
  BY <1>1 DEF GateInv, GateOpen, WorkChecked, BundledUnderReview, GateSteps
<1>3. Preparing' /\ Binding' /\ Sealing'
  BY <1>1 DEF GateInv, Preparing, Binding, Sealing, GateSteps, PassedWork, BindSteps
<1>4. UnderReview' /\ Finalized'
  BY <1>1 DEF GateInv, UnderReview, Finalized
<1> QED
  BY <1>2, <1>3, <1>4 DEF GateInv

\* With the lock free nobody is in the gate, so only the state of the case
\* itself has to be looked at after an amendment.
LEMMA GateAmend ==
  ASSUME GateInv, TypeInv', lock = None, lock' = None, NEW w \in Work, Amend(w),
         \A q \in Procs : pc'[q] = pc[q] \/ pc'[q] = "idle"
  PROVE  GateInv'
<1>1. \A q \in Procs : pc'[q] \notin GateSteps
  BY ConstantsAssumption
  DEF GateInv, LockHeld, GateSteps, PassedWork, BindSteps
<1>2. case'.lifecycle = "in_progress" /\ case'.bundled = FALSE
  BY Amended DEF GateInv, TypeInv, TypeOK
<1>3. LockHeld'
  BY <1>1, ConstantsAssumption DEF LockHeld
<1> QED
  BY <1>1, <1>2, <1>3
  DEF GateInv, GateOpen, WorkChecked, BundledUnderReview, Preparing, Binding,
      Sealing, UnderReview, Finalized, GateSteps, PassedWork, BindSteps

\* The steps of verify keep the gate invariant.
LEMMA GateVerify ==
  ASSUME GateInv, TypeInv', NEW p \in Procs,
         \/ VerifyBegin(p) \/ VerifyInvalidate(p) \/ VerifySource(p)
         \/ VerifyPublish(p) \/ VerifyLedger(p) \/ VerifyTooLate(p) \/ Record(p)
         \/ VerifyRaise(p)
  PROVE  GateInv'
<1> USE DEF GateInv, TypeInv, TypeOK, LockHeld, GateSteps, PassedWork, BindSteps,
            Goto, reviewed, locals
<1>1. CASE VerifyBegin(p)
  BY <1>1, GateFrame DEF VerifyBegin, Start
<1>2. CASE VerifyInvalidate(p)
  BY <1>2, GateFrame DEF VerifyInvalidate
<1>3. CASE VerifySource(p)
  BY <1>3, GateFrame DEF VerifySource
<1>4. CASE VerifyPublish(p)
  BY <1>4, GateFrame DEF VerifyPublish
<1>5. CASE VerifyTooLate(p)
  BY <1>5, GateFrame DEF VerifyTooLate, Finish
<1>8. CASE VerifyRaise(p)
  <2>1. UNCHANGED <<case, coverage, bundle, completion>> /\ pc[p] = "scanning"
    BY <1>8 DEF VerifyRaise
  <2>2. \A q \in Procs : IF q = p THEN pc'[q] = "idle"
                         ELSE pc'[q] = pc[q] /\ bound'[q] = bound[q]
    BY <1>8 DEF VerifyRaise, Finish
  <2>3. lock' = lock
    BY <1>8 DEF VerifyRaise, Finish
  <2>4. LockHeld'
    BY <2>1, <2>2, <2>3
  <2> QED
    BY <2>1, <2>2, <2>4, GateFrame
<1>6. CASE VerifyLedger(p)
  <2>1. LedgerAfterVerify(p) \in Work
    BY <1>6, VerifyLedgerIsWork DEF VerifyLedger, VerifySteps
  <2> QED
    BY <1>6, <2>1, GateAmend DEF VerifyLedger, Finish
<1>7. CASE Record(p)
  <2>1. PICK w \in Work : Amend(w)
    BY <1>7, RecordAmends
  <2> QED
    BY <1>7, <2>1, GateAmend DEF Record, Start
<1> QED
  BY <1>1, <1>2, <1>3, <1>4, <1>5, <1>6, <1>7, <1>8

\* The steps of a command that holds the lock.  Everybody else is outside
\* the gate, so each conjunct is a matter of the process that steps.
LEMMA GateLocked ==
  ASSUME GateInv, TypeInv', NEW p \in Procs,
         \/ GateBegin(p, "prepare") \/ GateBegin(p, "finalize")
         \/ CheckEvidence(p) \/ CheckWork(p) \/ CheckReport(p)
         \/ WriteCoverage(p) \/ WriteBundle(p) \/ CommitReview(p)
         \/ Bind(p) \/ CheckReview(p) \/ Publish(p) \/ Complete(p) \/ Seal(p)
         \/ Refuse(p) \/ Crash(p)
  PROVE  GateInv'
<1> USE DEF GateInv, TypeInv, TypeOK, LockHeld, GateSteps, PassedWork, BindSteps,
            Goto, reviewed, locals
<1>0. lock = p => \A q \in Procs \ {p} : pc[q] \notin GateSteps
  BY ConstantsAssumption
<1>1. CASE GateBegin(p, "prepare") \/ GateBegin(p, "finalize")
  BY <1>1, ConstantsAssumption
  DEF GateBegin, Start, GateOpen, WorkChecked, BundledUnderReview, Preparing,
      Binding, Sealing, UnderReview, Finalized, Ledger, AllTerminal
<1>2. CASE CheckEvidence(p)
  BY <1>2
  DEF CheckEvidence, GateOpen, WorkChecked, BundledUnderReview, Preparing,
      Binding, Sealing, UnderReview, Finalized, Ledger, AllTerminal
<1>3. CASE CheckWork(p)
  <2>1. AllTerminal
    BY <1>3 DEF CheckWork, WorkReady, ItemReady, AllTerminal
  <2> QED
    BY <1>3, <2>1
    DEF CheckWork, GateOpen, WorkChecked, BundledUnderReview, Preparing,
        Binding, Sealing, UnderReview, Finalized, Ledger, AllTerminal
<1>4. CASE CheckReport(p)
  BY <1>4
  DEF CheckReport, GateOpen, WorkChecked, BundledUnderReview, Preparing,
      Binding, Sealing, UnderReview, Finalized, Ledger, AllTerminal
<1>5. CASE WriteCoverage(p)
  BY <1>0, <1>5
  DEF WriteCoverage, GateOpen, WorkChecked, BundledUnderReview, Preparing,
      Binding, Sealing, UnderReview, Finalized, Ledger, AllTerminal
<1>6. CASE WriteBundle(p)
  <2>1. bundle' \in Bundle /\ bundle'.coverage = Ledger
    BY <1>6 DEF WriteBundle, Bundle, Ledger, Document, CaseState
  <2> QED
    BY <1>0, <1>6, <2>1
    DEF WriteBundle, GateOpen, WorkChecked, BundledUnderReview, Preparing,
        Binding, Sealing, UnderReview, Finalized, Ledger, AllTerminal
<1>7. CASE CommitReview(p)
  <2>1. /\ case'.lifecycle = "review_ready" /\ case'.bundled = TRUE
        /\ Ledger' = Ledger /\ AllTerminal' = AllTerminal
    BY <1>7 DEF CommitReview, CaseState, Ledger, AllTerminal
  <2>2. \A q \in Procs : pc'[q] \notin GateSteps /\ lock' = None
    BY <1>0, <1>7 DEF CommitReview, Finish
  <2> QED
    BY <1>7, <2>1, <2>2, ConstantsAssumption
    DEF CommitReview, GateOpen, WorkChecked, BundledUnderReview, Preparing,
        Binding, Sealing, UnderReview, Finalized
<1>8. CASE Bind(p)
  <2>1. bundle \in Bundle /\ bundle.report = report /\ bundle.coverage = Ledger
    BY <1>8 DEF Bind, BindReady
  <2>2. bundle = [report |-> report, coverage |-> Ledger]
    BY <2>1 DEF Bundle
  <2> QED
    BY <1>0, <1>8, <2>2
    DEF Bind, BindReady, GateOpen, WorkChecked, BundledUnderReview, Preparing,
        Binding, Sealing, UnderReview, Finalized, Ledger, AllTerminal
<1>9. CASE CheckReview(p)
  BY <1>9
  DEF CheckReview, GateOpen, WorkChecked, BundledUnderReview, Preparing,
      Binding, Sealing, UnderReview, Finalized, Ledger, AllTerminal
<1>10. CASE Publish(p)
  BY <1>10
  DEF Publish, GateOpen, WorkChecked, BundledUnderReview, Preparing,
      Binding, Sealing, UnderReview, Finalized, Ledger, AllTerminal
<1>11. CASE Complete(p)
  <2>1. completion' \in Completion
    BY <1>11 DEF Complete, Completion, Ledger, Document, CaseState, BoundSteps
  <2> QED
    BY <1>0, <1>11, <2>1
    DEF Complete, GateOpen, WorkChecked, BundledUnderReview, Preparing,
        Binding, Sealing, UnderReview, Finalized, Ledger, AllTerminal
<1>12. CASE Seal(p)
  <2>1. /\ case'.lifecycle = "finalized" /\ case'.bundled = case.bundled
        /\ case'.finalSha = bound[p]
        /\ Ledger' = Ledger /\ AllTerminal' = AllTerminal
    BY <1>12 DEF Seal, CaseState, Ledger, AllTerminal
  <2>2. \A q \in Procs : pc'[q] \notin GateSteps /\ lock' = None
    BY <1>0, <1>12 DEF Seal, Finish
  <2>3. bundle = [report |-> bound[p], coverage |-> Ledger] /\ Ledger \in Document
    BY <1>12 DEF Seal, Binding, Ledger, Document, CaseState
  <2> QED
    BY <1>12, <2>1, <2>2, <2>3, ConstantsAssumption
    DEF Seal, GateOpen, WorkChecked, BundledUnderReview, Preparing, Binding,
        Sealing, UnderReview, Finalized, Bundle, BoundSteps
<1>13. CASE Refuse(p) \/ Crash(p)
  BY <1>13, <1>0, ConstantsAssumption, GateFrame DEF Refuse, Crash, Finish
<1> QED
  BY <1>1, <1>2, <1>3, <1>4, <1>5, <1>6, <1>7, <1>8, <1>9, <1>10, <1>11,
     <1>12, <1>13

\* Every step keeps the gate invariant.
LEMMA GateStep == GateInv /\ [Next]_vars => GateInv'
<1> SUFFICES ASSUME GateInv, [Next]_vars PROVE GateInv'
  OBVIOUS
<1>1. TypeInv'
  BY TypeStep DEF GateInv
<1>2. CASE UNCHANGED vars
  BY <1>1, <1>2, GateFrame DEF vars, reviewed, locals, GateInv, LockHeld
<1>3. CASE Outside
  BY <1>1, <1>3, GateFrame
  DEF Outside, EditReport, WriteReview, RunTool, AlterEvidence, AlterDisk,
      reviewed, locals, GateInv, LockHeld
<1>4. ASSUME NEW p \in Procs, Begin(p) \/ Continue(p) \/ Crash(p)
      PROVE  GateInv'
  BY <1>1, <1>4, GateVerify, GateLocked DEF Begin, Continue
<1> QED
  BY <1>2, <1>3, <1>4 DEF Next

\* The gate invariant holds in every state.
THEOREM GateInvariant == Spec => []GateInv
  BY GateInit, GateStep, PTL DEF Spec

\* A case under review is under review with the ledger it has.
THEOREM ReviewMatchesLedgerAlways == Spec => []ReviewMatchesLedger
<1>1. GateInv => ReviewMatchesLedger
  BY NoneIsNoFile
  DEF GateInv, UnderReview, BundledUnderReview, ReviewMatchesLedger
<1> QED
  BY <1>1, GateInvariant, PTL

\* completion.json, snapshot, bundle and ledger of a finalized case agree,
\* and no lane was left open.
THEOREM FinalizedBoundAlways == Spec => []FinalizedBound
<1>1. GateInv => FinalizedBound
  BY NoneIsNoFile
  DEF GateInv, UnderReview, Finalized, FinalizedBound, AllTerminal, Bundle
<1> QED
  BY <1>1, GateInvariant, PTL

\* Nothing a command does, or had already begun to do, changes the ledger,
\* the bundle, the snapshot, the final report or completion.json of a
\* finalized case.
THEOREM FinalizedFrozenAlways == Spec => FinalizedFrozen
<1>1. ASSUME GateInv, [Next]_vars, case.lifecycle = "finalized"
      PROVE  UNCHANGED <<case, reviewed>>
  <2>1. \A p \in Procs : pc[p] \notin GateSteps
    BY <1>1 DEF GateInv, GateOpen
  <2>2. CASE UNCHANGED vars
    BY <2>2 DEF vars
  <2>3. CASE Outside
    BY <2>3 DEF Outside, EditReport, WriteReview, RunTool, AlterEvidence, AlterDisk
  <2>4. ASSUME NEW p \in Procs, Begin(p) PROVE UNCHANGED <<case, reviewed>>
    BY <1>1, <2>4 DEF Begin, VerifyBegin, Record, GateBegin
  <2>5. ASSUME NEW p \in Procs, Continue(p) PROVE UNCHANGED <<case, reviewed>>
    BY <1>1, <2>1, <2>5
    DEF Continue, VerifyInvalidate, VerifySource, VerifyPublish, VerifyLedger,
        VerifyTooLate, VerifyRaise, CheckEvidence, CheckWork, CheckReport,
        WriteCoverage,
        WriteBundle, CommitReview, Bind, CheckReview, Publish, Complete, Seal,
        Refuse, GateSteps, PassedWork, BindSteps
  <2>6. ASSUME NEW p \in Procs, Crash(p) PROVE UNCHANGED <<case, reviewed>>
    BY <2>6 DEF Crash
  <2> QED
    BY <1>1, <2>2, <2>3, <2>4, <2>5, <2>6 DEF Next
<1> QED
  BY <1>1, GateInvariant, PTL DEF Spec, FinalizedFrozen

-----------------------------------------------------------------------------
(* What the gate relied on.  integrity.json is shared and rewritten without*)
(* the lock, but whoever reads `verified` in it reads clean results.       *)

Clean(results) == \A s \in Sources : results[s] # None => ~ Bad(s, results[s])
Whole(results) == \A s \in Sources : results[s] # None

RelyInv ==
    /\ integrity # None /\ integrity.status = "verified" => Clean(integrity.results)
    /\ (\E p \in Procs : pc[p] \in GateSteps \ {"evidence"})
          \/ case.lifecycle # "in_progress"
       => Clean(relied) /\ Whole(relied)

\* Every step keeps what is relied on clean.
LEMMA RelyStep == GateInv /\ GateInv' /\ RelyInv /\ [Next]_vars => RelyInv'
<1> SUFFICES ASSUME GateInv, GateInv', RelyInv, [Next]_vars PROVE RelyInv'
  OBVIOUS
<1> USE DEF RelyInv, GateSteps, PassedWork, BindSteps, Goto, history, locals, reviewed
<1>1. CASE UNCHANGED vars
  BY <1>1 DEF vars, Clean, Whole
<1>2. CASE Outside
  <2>1. UNCHANGED <<integrity, pc, case, relied>>
    BY <1>2
    DEF Outside, EditReport, WriteReview, RunTool, AlterEvidence, AlterDisk
  <2> QED
    BY <2>1 DEF Clean, Whole
<1>3. ASSUME NEW p \in Procs, Begin(p) PROVE RelyInv'
  <2>1. UNCHANGED <<integrity, relied>>
    BY <1>3 DEF Begin, VerifyBegin, Record, GateBegin
  <2>2. case' = case \/ case'.lifecycle = "in_progress"
    BY <1>3 DEF Begin, VerifyBegin, Record, GateBegin, Amend
  <2>3. \A q \in Procs : pc'[q] \in GateSteps \ {"evidence"} => pc'[q] = pc[q]
    BY <1>3
    DEF Begin, VerifyBegin, Record, GateBegin, Start, GateInv, TypeInv, TypeOK
  <2> QED
    BY <2>1, <2>2, <2>3 DEF Clean, Whole
<1>4. ASSUME NEW p \in Procs, VerifyInvalidate(p) \/ VerifyPublish(p)
      PROVE  RelyInv'
  <2>1. CASE VerifyInvalidate(p)
    BY <2>1 DEF VerifyInvalidate, GateInv, TypeInv, TypeOK
  <2>2. CASE VerifyPublish(p)
    BY <2>2 DEF VerifyPublish, OverallOk, Clean, GateInv, TypeInv, TypeOK
  <2> QED
    BY <1>4, <2>1, <2>2
<1>5. ASSUME NEW p \in Procs,
             \/ VerifySource(p) \/ VerifyLedger(p) \/ VerifyTooLate(p)
             \/ VerifyRaise(p)
      PROVE  RelyInv'
  <2>1. CASE VerifySource(p)
    BY <2>1 DEF VerifySource, GateInv, TypeInv, TypeOK
  <2>2. CASE VerifyLedger(p)
    BY <2>2 DEF VerifyLedger, Amend, Finish, GateInv, TypeInv, TypeOK
  <2>3. CASE VerifyTooLate(p)
    BY <2>3 DEF VerifyTooLate, Finish, GateInv, TypeInv, TypeOK
  <2>4. CASE VerifyRaise(p)
    BY <2>4 DEF VerifyRaise, Finish, GateInv, TypeInv, TypeOK
  <2> QED
    BY <1>5, <2>1, <2>2, <2>3, <2>4
<1>6. ASSUME NEW p \in Procs, CheckEvidence(p) PROVE RelyInv'
  BY <1>6 DEF CheckEvidence, EvidenceReady, Clean, Whole
<1>7. ASSUME NEW p \in Procs,
             \/ CheckWork(p) \/ CheckReport(p) \/ WriteCoverage(p)
             \/ WriteBundle(p) \/ CommitReview(p) \/ Bind(p) \/ CheckReview(p)
             \/ Publish(p) \/ Complete(p) \/ Seal(p)
      PROVE  RelyInv'
  BY <1>7
  DEF CheckWork, CheckReport, WriteCoverage, WriteBundle, CommitReview, Bind,
      CheckReview, Publish, Complete, Seal, Finish, GateInv, TypeInv, TypeOK
<1>8. ASSUME NEW p \in Procs, Refuse(p) \/ Crash(p) PROVE RelyInv'
  BY <1>8 DEF Refuse, Crash, Finish, GateInv, TypeInv, TypeOK
<1> QED
  BY <1>1, <1>2, <1>3, <1>4, <1>5, <1>6, <1>7, <1>8 DEF Next, Continue

\* A case under review or finalized passed its gate on results that cover
\* every source and hold nothing against any of them.
THEOREM ReliedIsCleanAlways == Spec => []ReliedIsClean
<1>1. Init => RelyInv
  BY DEF Init, RelyInv, GateSteps, PassedWork, BindSteps
<1>2. RelyInv => ReliedIsClean
  BY DEF RelyInv, ReliedIsClean, Clean, Whole
<1> QED
  BY <1>1, <1>2, RelyStep, GateInvariant, PTL DEF Spec

-----------------------------------------------------------------------------
(* The commands implement CaseGate.                                        *)

ApprovedSteps == {"publish", "complete", "seal"}

ApprovalInv ==
    /\ review \in Review /\ review.recommendation = "ready"
         => [report |-> review.report, coverage |-> review.coverage] \in approvals
    /\ \A p \in Procs : pc[p] \in ApprovedSteps =>
         [report |-> bound[p], coverage |-> Ledger] \in approvals

\* Every step keeps what was approved.
LEMMA ApprovalStep == GateInv /\ GateInv' /\ ApprovalInv /\ [Next]_vars => ApprovalInv'
<1> SUFFICES ASSUME GateInv, GateInv', ApprovalInv, [Next]_vars PROVE ApprovalInv'
  OBVIOUS
<1> USE DEF ApprovalInv, ApprovedSteps, Goto, history, locals, reviewed, world,
            GateInv, TypeInv, TypeOK
<1>1. CASE UNCHANGED vars
  BY <1>1 DEF vars, Ledger
<1>2. CASE EditReport \/ RunTool \/ AlterEvidence \/ AlterDisk
  BY <1>2 DEF EditReport, RunTool, AlterEvidence, AlterDisk, Ledger
<1>3. CASE WriteReview
  <2>1. bundle \in Bundle /\ Ledger' = Ledger
    BY <1>3 DEF WriteReview, Ledger
  <2>2. bundle = [report |-> bundle.report, coverage |-> bundle.coverage]
    BY <2>1 DEF Bundle
  <2> QED
    BY <1>3, <2>1, <2>2 DEF WriteReview
<1>4. ASSUME NEW p \in Procs, VerifyLedger(p) \/ Record(p) PROVE ApprovalInv'
  <2>1. \A q \in Procs : pc'[q] \notin ApprovedSteps
    BY <1>4, ConstantsAssumption
    DEF VerifyLedger, Record, Start, Finish, LockHeld, GateSteps, PassedWork,
        BindSteps
  <2> QED
    BY <1>4, <2>1 DEF VerifyLedger, Record
<1>5. ASSUME NEW p \in Procs,
             \/ VerifyBegin(p) \/ GateBegin(p, "prepare") \/ GateBegin(p, "finalize")
             \/ VerifyInvalidate(p) \/ VerifySource(p) \/ VerifyPublish(p)
             \/ VerifyTooLate(p) \/ VerifyRaise(p) \/ Refuse(p) \/ Crash(p)
      PROVE  ApprovalInv'
  BY <1>5
  DEF VerifyBegin, GateBegin, Start, VerifyInvalidate, VerifySource,
      VerifyPublish, VerifyTooLate, VerifyRaise, Refuse, Crash, Finish, Ledger
<1>6. ASSUME NEW p \in Procs,
             \/ CheckEvidence(p) \/ CheckWork(p) \/ CheckReport(p)
             \/ WriteCoverage(p) \/ WriteBundle(p) \/ Bind(p)
             \/ Publish(p) \/ Complete(p)
      PROVE  ApprovalInv'
  BY <1>6
  DEF CheckEvidence, CheckWork, CheckReport, WriteCoverage, WriteBundle, Bind,
      Publish, Complete, Ledger
<1>7. ASSUME NEW p \in Procs, CommitReview(p) \/ Seal(p) PROVE ApprovalInv'
  <2>1. CASE CommitReview(p)
    <3>1. Ledger' = Ledger
      BY <2>1 DEF CommitReview, Ledger, CaseState
    <3> QED
      BY <2>1, <3>1 DEF CommitReview, Finish
  <2>2. CASE Seal(p)
    <3>1. Ledger' = Ledger
      BY <2>2 DEF Seal, Ledger, CaseState
    <3> QED
      BY <2>2, <3>1 DEF Seal, Finish
  <2> QED
    BY <1>7, <2>1, <2>2
<1>8. ASSUME NEW p \in Procs, CheckReview(p) PROVE ApprovalInv'
  BY <1>8 DEF CheckReview, ReviewReady, Ledger
<1> QED
  BY <1>1, <1>2, <1>3, <1>4, <1>5, <1>6, <1>7, <1>8
  DEF Next, Begin, Continue, Outside

\* Every step is one of the abstract gate, or a stutter.
LEMMA GateRefinement ==
  GateInv /\ GateInv' /\ ApprovalInv /\ [Next]_vars => [Gate!Next]_Gate!vars
<1> SUFFICES ASSUME GateInv, GateInv', ApprovalInv, [Next]_vars
             PROVE  [Gate!Next]_Gate!vars
  OBVIOUS
<1> USE DEF Goto, history, locals, reviewed, world, GateInv, TypeInv, TypeOK
<1>0. Ledger \in Document /\ Ledger' \in Document
  BY DEF Ledger, Document, CaseState
<1>a. ASSUME UNCHANGED <<case, bundle, completion, approvals>>
      PROVE  UNCHANGED Gate!vars
  BY <1>a DEF Gate!vars, Ledger
<1>1. CASE UNCHANGED vars
  BY <1>1, <1>a DEF vars
<1>2. CASE EditReport \/ RunTool \/ AlterEvidence \/ AlterDisk
  BY <1>2, <1>a DEF EditReport, RunTool, AlterEvidence, AlterDisk
<1>3. CASE WriteReview
  BY <1>3 DEF WriteReview, Gate!Next, Gate!Approve, Gate!Pair, Bundle, Ledger
<1>4. ASSUME NEW p \in Procs, VerifyLedger(p) \/ Record(p)
      PROVE  Gate!Amend
  <2>1. PICK w \in Work : Amend(w)
    BY <1>4, RecordAmends, VerifyLedgerIsWork DEF VerifyLedger, VerifySteps
  <2>2. case'.lifecycle = "in_progress" /\ case'.rev # case.rev
    <3>1. case'.lifecycle = "in_progress" /\ case'.rev = case.rev + 1
      BY <2>1, Amended
    <3>2. case.rev \in Nat
      BY DEF CaseState
    <3> QED
      BY <3>1, <3>2
  <2>3. Ledger' # Ledger
    BY <2>2 DEF Ledger
  <2> QED
    BY <1>0, <1>4, <2>2, <2>3 DEF Gate!Amend, VerifyLedger, Record
<1>5. ASSUME NEW p \in Procs,
             \/ VerifyBegin(p) \/ GateBegin(p, "prepare") \/ GateBegin(p, "finalize")
             \/ VerifyInvalidate(p) \/ VerifySource(p) \/ VerifyPublish(p)
             \/ VerifyTooLate(p) \/ VerifyRaise(p)
             \/ CheckEvidence(p) \/ CheckWork(p)
             \/ CheckReport(p) \/ WriteCoverage(p) \/ Bind(p) \/ CheckReview(p)
             \/ Publish(p) \/ Refuse(p) \/ Crash(p)
      PROVE  UNCHANGED Gate!vars
  BY <1>5, <1>a
  DEF VerifyBegin, GateBegin, VerifyInvalidate, VerifySource, VerifyPublish,
      VerifyTooLate, VerifyRaise, CheckEvidence, CheckWork, CheckReport,
      WriteCoverage, Bind, CheckReview, Publish, Refuse, Crash
<1>6. ASSUME NEW p \in Procs, WriteBundle(p)
      PROVE  Gate!Freeze \/ UNCHANGED Gate!vars
  <2>1. case.lifecycle # "finalized" /\ Ledger' = Ledger
    BY <1>6 DEF WriteBundle, GateOpen, GateSteps, PassedWork, Ledger
  <2>2. bundle' \in Bundle /\ bundle'.coverage = Ledger
    BY <1>0, <1>6 DEF WriteBundle, Bundle
  <2>3. CASE case.lifecycle = "in_progress"
    BY <1>6, <2>1, <2>3 DEF WriteBundle, Gate!vars
  <2>4. CASE case.lifecycle = "review_ready"
    BY <1>6, <2>1, <2>2, <2>4
    DEF WriteBundle, Gate!Freeze, Gate!Pair, Bundle
  <2> QED
    BY <2>1, <2>3, <2>4 DEF CaseState
<1>7. ASSUME NEW p \in Procs, CommitReview(p) PROVE Gate!Freeze
  <2>1. /\ case.lifecycle # "finalized" /\ case'.lifecycle = "review_ready"
        /\ Ledger' = Ledger
    BY <1>7 DEF CommitReview, GateOpen, GateSteps, PassedWork, CaseState, Ledger
  <2>2. bundle \in Bundle /\ bundle.coverage = Ledger
    BY <1>7 DEF CommitReview, Preparing
  <2> QED
    BY <1>7, <2>1, <2>2 DEF CommitReview, Gate!Freeze, Gate!Pair, Bundle
<1>8. ASSUME NEW p \in Procs, Complete(p) PROVE UNCHANGED Gate!vars
  <2>1. case.lifecycle # "finalized" /\ Ledger' = Ledger
    BY <1>8 DEF Complete, GateOpen, GateSteps, PassedWork, BindSteps, Ledger
  <2> QED
    BY <1>8, <2>1 DEF Complete, Gate!vars
<1>9. ASSUME NEW p \in Procs, Seal(p) PROVE Gate!Release
  <2>1. /\ case'.lifecycle = "finalized" /\ Ledger' = Ledger
        /\ case.lifecycle = "review_ready"
    BY <1>9
    DEF Seal, Binding, BindSteps, GateOpen, GateSteps, PassedWork,
        BundledUnderReview, CaseState, Ledger
  <2>2. /\ bundle = [report |-> bound[p], coverage |-> Ledger]
        /\ completion.report = bound[p] /\ completion.coverage = Ledger
        /\ bundle \in approvals
    BY <1>9 DEF Seal, Binding, Sealing, BindSteps, ApprovalInv, ApprovedSteps
  <2> QED
    BY <1>9, <2>1, <2>2 DEF Seal, Gate!Release
<1> QED
  BY <1>1, <1>2, <1>3, <1>4, <1>5, <1>6, <1>7, <1>8, <1>9
  DEF Next, Begin, Continue, Outside, Gate!Next

\* Only an approved report, frozen with the ledger as it stands, is ever
\* released: the four commands, in any interleaving, with crashes and with
\* people writing at any moment, take only steps of the abstract gate.
THEOREM GateImplemented == Spec => ImplementsGate
<1>1. Init => Gate!Init
  <2> SUFFICES ASSUME Init PROVE Gate!Init
    OBVIOUS
  <2>1. Ledger \in Document
    BY TypeInit DEF TypeInv, TypeOK, Ledger, Document, CaseState
  <2> QED
    BY <2>1 DEF Init, Gate!Init
<1>2. Init => ApprovalInv
  BY NoneIsNoFile DEF Init, ApprovalInv, ApprovedSteps
<1> QED
  BY <1>1, <1>2, ApprovalStep, GateRefinement, GateInvariant, PTL
  DEF Spec, ImplementsGate, Gate!Spec
-----------------------------------------------------------------------------
(* With nobody writing into the gate.  What was read under the lock is then *)
(* still there when it is used: the review, and the text of the report.     *)

PassedReport == BindSteps \cup {"coverage", "bundle", "commit", "bind"}

ReviewHeld == \A p \in Procs : pc[p] \in ApprovedSteps => ReviewReady(p)

ReportHeld ==
    \A p \in Procs :
       /\ pc[p] \in PassedReport => ReportReady
       /\ pc[p] \in BindSteps => bound[p] = report

\* What a completion that is under way, or has been, was about
FinalHeld ==
    /\ \A p \in Procs : pc[p] \in {"complete", "seal"} => finalFile = bound[p]
    /\ FinalMatchesCompletion

QuietInv == ReviewHeld /\ PeerApproved /\ ReportHeld

\* Nobody steps into a file of a command that is in the gate.
LEMMA QuietOthers ==
  ASSUME GateInv, ~ ConcurrentEdits, NEW p \in Procs, pc[p] \in GateSteps
  PROVE  /\ ~ EditReport /\ ~ WriteReview
         /\ \A q \in Procs \ {p} : pc[q] \notin GateSteps
  BY ConstantsAssumption DEF GateInv, LockHeld, EditReport, WriteReview, PeopleWrite

\* The steps of people and of verify leave what the gate has read.
LEMMA QuietFrame ==
  ASSUME GateInv, QuietInv, UNCHANGED <<report, review, completion>>,
         \A q \in Procs : pc'[q] \in GateSteps =>
            pc'[q] = pc[q] /\ bound'[q] = bound[q] /\ Ledger' = Ledger
  PROVE  QuietInv'
<1> USE DEF GateSteps, PassedWork, PassedReport, BindSteps, ApprovedSteps
<1>1. ReviewHeld'
  BY DEF QuietInv, ReviewHeld, ReviewReady
<1>2. PeerApproved'
  BY DEF QuietInv, PeerApproved
<1>3. ReportHeld'
  BY DEF QuietInv, ReportHeld, ReportReady
<1> QED
  BY <1>1, <1>2, <1>3 DEF QuietInv

\* Every step keeps it.
LEMMA QuietStep ==
  ASSUME ~ ConcurrentEdits, GateInv, GateInv', QuietInv, [Next]_vars
  PROVE  QuietInv'
<1> USE DEF Goto, history, locals, reviewed, world, GateInv, TypeInv, TypeOK
<1>1. CASE UNCHANGED vars
  BY <1>1, QuietFrame DEF vars, Ledger
<1>2. CASE RunTool \/ AlterEvidence \/ AlterDisk
  BY <1>2, QuietFrame DEF RunTool, AlterEvidence, AlterDisk, Ledger
<1>3. CASE EditReport \/ WriteReview
  <2>1. \A p \in Procs : pc[p] \notin GateSteps
    BY <1>3, QuietOthers
  <2> QED
    BY <1>3, <2>1
    DEF QuietInv, ReviewHeld, ReportHeld, PeerApproved, EditReport, WriteReview,
        GateSteps, PassedWork, PassedReport, BindSteps, ApprovedSteps
<1>4. ASSUME NEW p \in Procs, VerifyLedger(p) \/ Record(p) PROVE QuietInv'
  <2>1. \A q \in Procs : pc'[q] \notin GateSteps
    BY <1>4, ConstantsAssumption DEF VerifyLedger, Record, Start, Finish, LockHeld
  <2> QED
    BY <1>4, <2>1, QuietFrame DEF VerifyLedger, Record
<1>5. ASSUME NEW p \in Procs,
             \/ VerifyBegin(p) \/ VerifyInvalidate(p) \/ VerifySource(p) \/ VerifyPublish(p)
             \/ VerifyTooLate(p) \/ VerifyRaise(p) \/ Refuse(p) \/ Crash(p)
      PROVE  QuietInv'
  <2>1. \A q \in Procs : pc'[q] \in GateSteps => pc'[q] = pc[q] /\ bound'[q] = bound[q]
    BY <1>5
    DEF VerifyBegin, Start, VerifyInvalidate, VerifySource, VerifyPublish, VerifyTooLate,
        VerifyRaise, Refuse, Crash, Finish, GateSteps, PassedWork, BindSteps
  <2>2. UNCHANGED <<report, review, completion, case>>
    BY <1>5
    DEF VerifyBegin, VerifyInvalidate, VerifySource, VerifyPublish, VerifyTooLate,
        VerifyRaise, Refuse, Crash
  <2> QED
    BY <2>1, <2>2, QuietFrame DEF Ledger
<1>6. ASSUME NEW p \in Procs, GateBegin(p, "prepare") \/ GateBegin(p, "finalize")
      PROVE  QuietInv'
  BY <1>6
  DEF GateBegin, Start, QuietInv, ReviewHeld, ReviewReady, PeerApproved, ReportHeld, ReportReady,
      PassedReport, BindSteps, ApprovedSteps, Ledger
<1>7. ASSUME NEW p \in Procs,
             \/ CheckEvidence(p) \/ CheckWork(p) \/ CheckReport(p) \/ WriteCoverage(p)
             \/ WriteBundle(p) \/ Bind(p) \/ CheckReview(p) \/ Publish(p)
      PROVE  QuietInv'
  BY <1>7
  DEF CheckEvidence, CheckWork, CheckReport, WriteCoverage, WriteBundle, Bind, CheckReview,
      Publish, QuietInv, ReviewHeld, ReviewReady, PeerApproved, ReportHeld, ReportReady,
      PassedReport, BindSteps, ApprovedSteps, Ledger
<1>8. ASSUME NEW p \in Procs, CommitReview(p) \/ Seal(p) PROVE QuietInv'
  <2>1. \A q \in Procs : pc'[q] \notin GateSteps
    BY <1>8, QuietOthers
    DEF CommitReview, Seal, Finish, GateSteps, PassedWork, BindSteps
  <2> QED
    BY <1>8, <2>1, QuietFrame DEF CommitReview, Seal
<1>9. ASSUME NEW p \in Procs, Complete(p) PROVE QuietInv'
  <2>1. ReviewReady(p)
    BY <1>9 DEF Complete, QuietInv, ReviewHeld, ApprovedSteps
  <2>2. PeerApproved'
    BY <1>9, <2>1 DEF Complete, PeerApproved, ReviewReady
  <2> QED
    BY <1>9, <2>2
    DEF Complete, QuietInv, ReviewHeld, ReviewReady, ReportHeld, ReportReady,
        PassedReport, BindSteps, ApprovedSteps, Ledger
<1> QED
  BY <1>1, <1>2, <1>3, <1>4, <1>5, <1>6, <1>7, <1>8, <1>9
  DEF Next, Begin, Continue, Outside

\* It holds in every state.
LEMMA QuietInvariant ==
  ASSUME ~ ConcurrentEdits PROVE Spec => [](GateInv /\ QuietInv)
<1>1. Init => QuietInv
  BY DEF Init, QuietInv, ReviewHeld, ReportHeld, PeerApproved, PassedReport, BindSteps, ApprovedSteps
<1>2. GateInv /\ GateInv' /\ QuietInv /\ [Next]_vars => QuietInv'
  BY QuietStep
<1> QED
  BY <1>1, <1>2, GateInvariant, PTL DEF Spec

\* Nobody writing into the gate, and whatever crashes: the review that
\* completion.json binds said ready, of the report and of the coverage that
\* completion.json names.
THEOREM PeerApprovedAlways ==
  ASSUME ~ ConcurrentEdits PROVE Spec => []PeerApproved
<1>1. QuietInv => PeerApproved
  BY DEF QuietInv
<1> QED
  BY <1>1, QuietInvariant, PTL

\* With one terminator, what is published is what was bound.
LEMMA FinalStep ==
  ASSUME Eols = {NativeEol}, GateInv, GateInv', QuietInv, FinalHeld, [Next]_vars
  PROVE  FinalHeld' /\ (finalFile # None => finalFile' = finalFile)
<1> USE DEF Goto, history, locals, reviewed, world, GateInv, TypeInv, TypeOK
<1>1. CASE UNCHANGED vars
  BY <1>1 DEF vars, FinalHeld, FinalMatchesCompletion
<1>2. CASE Outside
  BY <1>2
  DEF Outside, EditReport, WriteReview, RunTool, AlterEvidence, AlterDisk, FinalHeld,
      FinalMatchesCompletion
<1>3. ASSUME NEW p \in Procs,
             \/ VerifyBegin(p) \/ Record(p) \/ GateBegin(p, "prepare") \/ GateBegin(p, "finalize")
             \/ VerifyInvalidate(p) \/ VerifySource(p) \/ VerifyPublish(p) \/ VerifyLedger(p)
             \/ VerifyTooLate(p) \/ VerifyRaise(p) \/ Refuse(p) \/ Crash(p)
      PROVE  FinalHeld' /\ finalFile' = finalFile
  BY <1>3
  DEF VerifyBegin, Record, GateBegin, Start, VerifyInvalidate, VerifySource, VerifyPublish,
      VerifyLedger, VerifyTooLate, VerifyRaise, Refuse, Crash, Finish, FinalHeld,
      FinalMatchesCompletion
<1>4. ASSUME NEW p \in Procs,
             \/ CheckEvidence(p) \/ CheckWork(p) \/ CheckReport(p) \/ WriteCoverage(p)
             \/ WriteBundle(p) \/ CommitReview(p) \/ Bind(p) \/ CheckReview(p) \/ Seal(p)
      PROVE  FinalHeld' /\ finalFile' = finalFile
  BY <1>4
  DEF CheckEvidence, CheckWork, CheckReport, WriteCoverage, WriteBundle, CommitReview, Bind,
      CheckReview, Seal, Finish, FinalHeld, FinalMatchesCompletion
<1>5. ASSUME NEW p \in Procs, Publish(p)
      PROVE  FinalHeld' /\ (finalFile # None => finalFile' = finalFile)
  <2>1. bound[p] = report /\ report.body \in Acceptable
    BY <1>5 DEF Publish, QuietInv, ReportHeld, ReportReady, PassedReport, BindSteps
  <2>2. finalFile' = report
    BY <1>5 DEF Publish, Report
  <2>3. finalFile \in {None, report}
    BY <1>5, <2>1 DEF Publish, NoOtherFinal
  <2>4. \A q \in Procs \ {p} : pc'[q] \notin {"complete", "seal"}
    BY <1>5, ConstantsAssumption DEF Publish, LockHeld, GateSteps, PassedWork, BindSteps
  <2>5. completion # None => completion.report \in Report
    BY DEF Completion
  <2>6. FinalMatchesCompletion'
    BY <1>5, <2>1, <2>2, <2>3, <2>5, NoneIsNoFile DEF Publish, FinalHeld, FinalMatchesCompletion
  <2> QED
    BY <1>5, <2>1, <2>2, <2>3, <2>4, <2>6 DEF Publish, FinalHeld
<1>6. ASSUME NEW p \in Procs, Complete(p)
      PROVE  FinalHeld' /\ finalFile' = finalFile
  BY <1>6 DEF Complete, FinalHeld, FinalMatchesCompletion
<1> QED
  BY <1>1, <1>2, <1>3, <1>4, <1>5, <1>6 DEF Next, Begin, Continue

\* Nobody writing into the gate and one line terminator: through crashes and
\* retries, what is published is what was accepted, and is the report that
\* completion.json names.
THEOREM FinalMatchesCompletionAlways ==
  ASSUME ~ ConcurrentEdits, Eols = {NativeEol} PROVE Spec => []FinalMatchesCompletion
<1>1. Init => FinalHeld
  BY DEF Init, FinalHeld, FinalMatchesCompletion
<1>2. GateInv /\ GateInv' /\ QuietInv /\ FinalHeld /\ [Next]_vars => FinalHeld'
  BY FinalStep
<1>3. FinalHeld => FinalMatchesCompletion
  BY DEF FinalHeld
<1> QED
  BY <1>1, <1>2, <1>3, QuietInvariant, PTL DEF Spec

\* And it is published once: no later command writes another text over it.
THEOREM FinalWrittenOnceAlways ==
  ASSUME ~ ConcurrentEdits, Eols = {NativeEol} PROVE Spec => FinalWrittenOnce
<1>1. Init => FinalHeld
  BY DEF Init, FinalHeld, FinalMatchesCompletion
<1>2. GateInv /\ GateInv' /\ QuietInv /\ FinalHeld /\ [Next]_vars => FinalHeld'
  BY FinalStep
<1>3. GateInv /\ GateInv' /\ QuietInv /\ FinalHeld /\ [Next]_vars
        => [finalFile # None => finalFile' = finalFile]_vars
  BY FinalStep
<1> QED
  BY <1>1, <1>2, <1>3, QuietInvariant, PTL DEF Spec, FinalWrittenOnce
=============================================================================
