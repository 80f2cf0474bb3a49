------------------------- MODULE PhotorecSupervisor -------------------------
(***************************************************************************)
(* scripts/supervise_photorec.py: one fresh carve of a preserved image.    *)
(* The native tool writes, renames and reports files while the supervisor  *)
(* walks the output directory, name by name, against the limits; when the  *)
(* tool has ended, its log, its report and every file are validated.  What *)
(* a consumer accepts (bind_source of probe_recovered_media.py) is a       *)
(* status "complete" together with a supervisor-exit.json of 0.            *)
(*                                                                         *)
(* An output is ordinary, a thumbnail, or of a family that is only         *)
(* reported; its content is its size.  The children that read the NTFS     *)
(* bitmap before are left out: they run under the same code.               *)
(***************************************************************************)
EXTENDS Integers, Sequences, FiniteSets

CONSTANTS
    PhOrdinary, PhThumbs, PhDetections,  \* the outputs, by family
    PhMaxBytes,   \* stop threshold on retained bytes
    PhMaxFiles,   \* stop threshold on their number
    PhMaxSize,    \* bound: bytes of one output
    PhMaxEvents,  \* bound: faults of the tool, the machine or the operator
    PhNil

PhOutputs == PhOrdinary \cup PhThumbs \cup PhDetections
PhFile    == [name : 1 .. 2, size : 0 .. PhMaxSize]

\* normalize refuses a threshold that is not positive.
ASSUME PhConstants ==
    /\ PhMaxBytes \in Nat \ {0} /\ PhMaxFiles \in Nat \ {0}
    /\ PhMaxSize \in Nat /\ PhMaxEvents \in Nat
    /\ PhNil \notin PhFile \cup {0, "complete", "incomplete", "failed"}
    /\ PhOrdinary \cap (PhThumbs \cup PhDetections) = {} /\ PhThumbs \cap PhDetections = {}

VARIABLES
    phFiles,   \* outputs that are there: [name, size], a rename changes the name
    phReport,  \* the sizes that report.xml gives an output, once for every entry
    phLog,     \* the log of the tool: "open", "normal", "error"
    phCount,   \* the number of files it says it found
    phChild,   \* the tool: PhNil, "alive", or how it ended: "ok", "bad"
    phCapture, \* a reader of its output gave up, or its limit was passed
    phLate,    \* the run has lasted longer than it may
    phPhase,   \* "phase" of status.json
    phExit,    \* exit_code of supervisor-exit.json
    phPc,      \* what the supervisor does next
    phWalk,    \* <<output, name>> a walk of the directory has still to look at
    phTotal, phSeen, \* bytes and files of this walk
    phManifest,  \* outputs in output-manifest.jsonl
    phReason,  \* how a run that has been stopped ends
    phEvents

phTool == <<phFiles, phReport, phLog, phCount>>
phVars == <<phTool, phChild, phCapture, phLate, phPhase, phExit, phPc, phWalk,
            phTotal, phSeen, phManifest, phReason, phEvents>>

PhMonitors == {"watch", "ended", "final"}  \* the walks: running, after the exit, at the end
PhSteps    == {"start", "spawn", "look", "log", "reports", "files", "close",
               "exit", "stop", "stopped", "exited", "gone"} \cup PhMonitors

PhInit ==
    /\ phFiles = [o \in PhOutputs |-> PhNil] /\ phReport = [o \in PhOutputs |-> <<>>]
    /\ phLog = "open" /\ phCount = 0
    /\ phChild = PhNil /\ phCapture = FALSE /\ phLate = FALSE
    /\ phPhase = PhNil /\ phExit = PhNil
    /\ phPc = "start"
    /\ phWalk = {} /\ phTotal = 0 /\ phSeen = 0
    /\ phManifest = {} /\ phReason = PhNil /\ phEvents = 0

PhEvent == phEvents < PhMaxEvents /\ phEvents' = phEvents + 1
There      == {o \in PhOutputs : phFiles[o] # PhNil}
BytesOf(S) == UNION {{<<o, b>> : b \in 1 .. phFiles[o].size} : o \in S}
PhBytes    == Cardinality(BytesOf(There))
-----------------------------------------------------------------------------
\* The state directory is new; status.json says running before the carve.
PhStart ==
    /\ phPc = "start"
    /\ phPhase' = "running"
    /\ phPc' = "spawn"
    /\ UNCHANGED <<phTool, phChild, phCapture, phLate, phExit, phWalk, phTotal, phSeen,
                   phManifest, phReason, phEvents>>

PhSpawn ==
    /\ phPc = "spawn"
    /\ phChild' = "alive"
    /\ phPc' = "watch"
    /\ UNCHANGED <<phTool, phCapture, phLate, phPhase, phExit, phWalk, phTotal, phSeen,
                   phManifest, phReason, phEvents>>

PhGiveUp(reason) == phReason' = reason /\ phPc' = "stop"

AfterWalk == CASE phPc = "watch" -> "look" [] phPc = "ended" -> "log" [] phPc = "final" -> "close"

\* Faulty: only the readers of the output stop a run, its time does not.
PhCheckCaptureOnly ==
    /\ phPc \in PhMonitors /\ phWalk = {}
    /\ phPc = "watch" => phChild = "alive"
    /\ phTotal' = 0 /\ phSeen' = 0
    /\ IF phCapture
       THEN PhGiveUp("incomplete") /\ UNCHANGED phWalk
       ELSE /\ UNCHANGED phReason
            /\ phWalk' = {<<o, phFiles[o].name>> : o \in There}
            /\ phPc' = IF There # {} THEN phPc ELSE AfterWalk
    /\ UNCHANGED <<phTool, phChild, phCapture, phLate, phPhase, phExit, phManifest, phEvents>>

\* Recorder.check, first half: it is over, or a walk begins with the names
\* that are there.  The same in the loop, after the exit, and at the end.
PhCheck ==
    /\ phPc \in PhMonitors /\ phWalk = {}
    /\ phPc = "watch" => phChild = "alive"
    /\ phTotal' = 0 /\ phSeen' = 0
    /\ IF phCapture \/ phLate
       THEN PhGiveUp("incomplete") /\ UNCHANGED phWalk
       ELSE /\ UNCHANGED phReason
            /\ phWalk' = {<<o, phFiles[o].name>> : o \in There}
            /\ phPc' = IF There # {} THEN phPc ELSE AfterWalk
    /\ UNCHANGED <<phTool, phChild, phCapture, phLate, phPhase, phExit, phManifest, phEvents>>

\* The next name: counted if it is still there.  If it is not, the tool may
\* have renamed it, but only while it is alive.
PhVisit ==
    /\ phPc \in PhMonitors
    /\ \E e \in phWalk :
          LET o     == e[1]
              here  == phFiles[o] # PhNil /\ phFiles[o].name = e[2]
              total == IF here THEN phTotal + phFiles[o].size ELSE phTotal
              seen  == IF here THEN phSeen + 1 ELSE phSeen
          IN  /\ phTotal' = total /\ phSeen' = seen
              /\ IF ~here /\ ~(phPc = "watch" /\ phChild = "alive")
                 THEN PhGiveUp("failed") /\ phWalk' = {}
                 ELSE IF total >= PhMaxBytes \/ seen > PhMaxFiles
                 THEN PhGiveUp("incomplete") /\ phWalk' = {}
                 ELSE /\ phWalk' = phWalk \ {e}
                      /\ UNCHANGED phReason
                      /\ phPc' = IF phWalk' # {} THEN phPc ELSE AfterWalk
    /\ UNCHANGED <<phTool, phChild, phCapture, phLate, phPhase, phExit, phManifest, phEvents>>

\* check_log_errors, of as much of the log as there is
LogHasError == phLog = "error"

\* The part of the log that is there, then again, until the tool has ended.
PhLook ==
    /\ phPc = "look"
    /\ IF LogHasError THEN PhGiveUp("failed") ELSE phPc' = "watch" /\ UNCHANGED phReason
    /\ UNCHANGED <<phTool, phChild, phCapture, phLate, phPhase, phExit, phWalk, phTotal,
                   phSeen, phManifest, phEvents>>

\* The tool has ended and its output is read to the end.
PhJoin ==
    /\ phPc = "watch" /\ phWalk = {} /\ phChild \in {"ok", "bad"}
    /\ phPc' = "ended" /\ UNCHANGED phReason
    /\ UNCHANGED <<phTool, phChild, phCapture, phLate, phPhase, phExit, phWalk, phTotal,
                   phSeen, phManifest, phEvents>>

\* Its exit code and its whole log
PhReadLog ==
    /\ phPc = "log"
    /\ IF phChild = "ok" /\ phLog = "normal" THEN phPc' = "reports" /\ UNCHANGED phReason
       ELSE PhGiveUp("failed")
    /\ UNCHANGED <<phTool, phChild, phCapture, phLate, phPhase, phExit, phWalk, phTotal,
                   phSeen, phManifest, phEvents>>

\* report_records: what the reports say of an output, a size for each record;
\* its refusal of a size of zero is in PhReports.
RecordsOf(o) == phReport[o]

\* validate_outputs: no record is of a size of zero, no output is reported twice.
PhReports ==
    /\ phPc = "reports"
    /\ IF \A o \in PhOutputs : RecordsOf(o) # << 0 >> /\ Len(RecordsOf(o)) <= 1
       THEN phPc' = "files" /\ UNCHANGED phReason
       ELSE PhGiveUp("failed")
    /\ UNCHANGED <<phTool, phChild, phCapture, phLate, phPhase, phExit, phWalk, phTotal,
                   phSeen, phManifest, phEvents>>

\* Faulty: an output that is reported is entered whatever its size.
PhTakeAnySize(o) ==
    /\ phPc = "files" /\ o \in There \ phManifest
    /\ IF RecordsOf(o) = <<>> /\ o \notin PhThumbs
       THEN PhGiveUp("failed") /\ UNCHANGED phManifest
       ELSE phManifest' = phManifest \cup {o} /\ UNCHANGED <<phReason, phPc>>
    /\ UNCHANGED <<phTool, phChild, phCapture, phLate, phPhase, phExit, phWalk, phTotal,
                   phSeen, phEvents>>

\* Each file is hashed and entered: reported with its size, or a thumbnail.
PhTake(o) ==
    /\ phPc = "files" /\ o \in There \ phManifest
    /\ IF RecordsOf(o) = <<phFiles[o].size>> \/ (RecordsOf(o) = <<>> /\ o \in PhThumbs)
       THEN phManifest' = phManifest \cup {o} /\ UNCHANGED <<phReason, phPc>>
       ELSE PhGiveUp("failed") /\ UNCHANGED phManifest
    /\ UNCHANGED <<phTool, phChild, phCapture, phLate, phPhase, phExit, phWalk, phTotal,
                   phSeen, phEvents>>

\* Then what is reported and not there; and the number the tool gave.
PhLeftovers ==
    /\ phPc = "files" /\ There \subseteq phManifest
    /\ LET missing == {o \in PhOutputs \ There : RecordsOf(o) # <<>>}
       IN  IF missing \subseteq PhDetections /\ Cardinality(There \ PhThumbs) = phCount
           THEN phManifest' = phManifest \cup missing /\ phPc' = "final" /\ UNCHANGED phReason
           ELSE PhGiveUp("failed") /\ UNCHANGED phManifest
    /\ UNCHANGED <<phTool, phChild, phCapture, phLate, phPhase, phExit, phWalk, phTotal,
                   phSeen, phEvents>>

PhClose ==
    /\ phPc = "close"
    /\ phPhase' = "complete"
    /\ phPc' = "exit"
    /\ UNCHANGED <<phTool, phChild, phCapture, phLate, phExit, phWalk, phTotal, phSeen,
                   phManifest, phReason, phEvents>>

PhExitCode ==
    /\ phPc = "exit"
    /\ phExit' = 0
    /\ phPc' = "exited"
    /\ UNCHANGED <<phTool, phChild, phCapture, phLate, phPhase, phWalk, phTotal, phSeen,
                   phManifest, phReason, phEvents>>

\* The run is over without success: the tool is ended first.
PhStop ==
    /\ phPc = "stop"
    /\ phChild' = IF phChild = "alive" THEN "bad" ELSE phChild
    /\ phPhase' = phReason
    /\ phPc' = "stopped"
    /\ UNCHANGED <<phTool, phCapture, phLate, phExit, phWalk, phTotal, phSeen, phManifest,
                   phReason, phEvents>>

PhStoppedCode ==
    /\ phPc = "stopped"
    /\ phExit' = IF phReason = "incomplete" THEN 2 ELSE 1
    /\ phPc' = "exited"
    /\ UNCHANGED <<phTool, phChild, phCapture, phLate, phPhase, phWalk, phTotal, phSeen,
                   phManifest, phReason, phEvents>>

PhStep ==
    \/ PhStart \/ PhSpawn \/ PhCheck \/ PhVisit \/ PhLook \/ PhJoin \/ PhReadLog \/ PhReports
    \/ \E o \in PhOutputs : PhTake(o)
    \/ PhLeftovers \/ PhClose \/ PhExitCode \/ PhStop \/ PhStoppedCode
-----------------------------------------------------------------------------
\* The tool carves: a file is new, grows or gets another name.
PhCarve ==
    /\ phChild = "alive" /\ phLog = "open"
    /\ \E o \in PhOrdinary \cup PhThumbs :
          \/ phFiles[o] = PhNil /\ phFiles' = [phFiles EXCEPT ![o] = [name |-> 1, size |-> 0]]
          \/ /\ phFiles[o] # PhNil /\ phFiles[o].size < PhMaxSize
             /\ phFiles' = [phFiles EXCEPT ![o] = [name |-> phFiles[o].name, size |-> phFiles[o].size + 1]]
          \/ /\ phFiles[o] # PhNil
             /\ phFiles' = [phFiles EXCEPT ![o] = [name |-> 3 - phFiles[o].name, size |-> phFiles[o].size]]
    /\ UNCHANGED <<phReport, phLog, phCount, phChild, phCapture, phLate, phPhase, phExit, phPc,
                   phWalk, phTotal, phSeen, phManifest, phReason, phEvents>>

\* It writes its reports and the end of its log: right, or in an event wrong
\* about one output or about the count, or with an error.
TrueReport(detected) == [o \in PhOutputs |->
    IF o \in There \cap PhOrdinary THEN <<phFiles[o].size>>
    ELSE IF o \in detected THEN << 1 >> ELSE <<>>]

PhReport ==
    /\ phChild = "alive" /\ phLog = "open"
    /\ \E detected \in SUBSET PhDetections :
          LET right == TrueReport(detected)
              found == Cardinality(There \ PhThumbs)
          IN  \/ /\ phReport' = right /\ phCount' = found /\ phLog' = "normal"
                 /\ UNCHANGED phEvents
              \/ /\ PhEvent
                 /\ \/ \E o \in PhOutputs, wrong \in {<<>>, << 0 >>, << 1 >>, <<1, 1>>} :
                          phReport' = [right EXCEPT ![o] = wrong] /\ phCount' = found
                          /\ phLog' = "normal"
                    \/ phReport' = right /\ phCount' = found + 1 /\ phLog' = "normal"
                    \/ phReport' = right /\ phCount' = found /\ phLog' = "error"
    /\ UNCHANGED <<phFiles, phChild, phCapture, phLate, phPhase, phExit, phPc, phWalk, phTotal,
                   phSeen, phManifest, phReason>>

\* It ends; it may end badly, or before it has reported.
PhToolEnds ==
    /\ phChild = "alive"
    /\ \/ phLog # "open" /\ phChild' = "ok" /\ UNCHANGED phEvents
       \/ phChild' = "bad" /\ PhEvent
    /\ UNCHANGED <<phTool, phCapture, phLate, phPhase, phExit, phPc, phWalk, phTotal, phSeen,
                   phManifest, phReason>>

PhTimePasses ==
    /\ ~phLate /\ phPc \in PhMonitors \cup {"look"}
    /\ phLate' = TRUE
    /\ UNCHANGED <<phTool, phChild, phCapture, phPhase, phExit, phPc, phWalk, phTotal, phSeen,
                   phManifest, phReason, phEvents>>

\* A pump of the child's output stops: too much, or its sink failed.
PhPumpStops ==
    /\ phChild = "alive" /\ ~phCapture /\ PhEvent
    /\ phCapture' = TRUE
    /\ UNCHANGED <<phTool, phChild, phLate, phPhase, phExit, phPc, phWalk, phTotal, phSeen,
                   phManifest, phReason>>

PhTry == PhSteps \ {"start", "stop", "stopped", "gone"}

\* An exception or an interrupt between any two statements of the run, also
\* after success was written, before it returned.
PhRaise ==
    /\ phPc \in PhTry /\ phExit # 1 /\ phExit # 2 /\ PhEvent
    /\ \E reason \in {"incomplete", "failed"} : PhGiveUp(reason)
    /\ phWalk' = {}
    /\ UNCHANGED <<phTool, phChild, phCapture, phLate, phPhase, phExit, phTotal, phSeen, phManifest>>

\* The supervisor is killed, and with its job the tool.
PhKill ==
    /\ phPc \notin {"start", "exited", "gone"} /\ PhEvent
    /\ phPc' = "gone"
    /\ phChild' = IF phChild = "alive" THEN "bad" ELSE phChild
    /\ UNCHANGED <<phTool, phCapture, phLate, phPhase, phExit, phWalk, phTotal, phSeen,
                   phManifest, phReason>>

PhNext ==
    PhStep \/ PhCarve \/ PhReport \/ PhToolEnds \/ PhTimePasses \/ PhPumpStops \/ PhRaise \/ PhKill
PhSpec == PhInit /\ [][PhNext]_phVars
-----------------------------------------------------------------------------
PhTypeOK ==
    /\ phFiles \in [PhOutputs -> PhFile \cup {PhNil}] /\ phReport \in [PhOutputs -> Seq(Nat)]
    /\ phLog \in {"open", "normal", "error"} /\ phCount \in Nat
    /\ phChild \in {PhNil, "alive", "ok", "bad"}
    /\ phCapture \in BOOLEAN /\ phLate \in BOOLEAN
    /\ phPhase \in {PhNil, "running", "complete", "incomplete", "failed"}
    /\ phExit \in {PhNil, 0, 1, 2}
    /\ phPc \in PhSteps
    /\ phWalk \subseteq PhOutputs \X (1 .. 2) /\ phTotal \in Nat /\ phSeen \in Nat
    /\ phManifest \subseteq PhOutputs
    /\ phReason \in {PhNil, "incomplete", "failed"}

\* A carve a consumer accepts is what the docs promise: the tool ended well and
\* said so; the bytes and files are below the thresholds, though the walks that
\* watched it skipped names that it was changing; each file that is there is
\* entered once, with the size of its only report; nothing reported is missing.
PhAcceptedIsMapped ==
    (phPhase = "complete" /\ phExit = 0) =>
        /\ phChild = "ok" /\ phLog = "normal"
        /\ PhBytes < PhMaxBytes /\ Cardinality(There) <= PhMaxFiles
        /\ phCount = Cardinality(There \ PhThumbs)
        /\ \A o \in There : o \in phManifest /\
              (phReport[o] = <<phFiles[o].size>> \/ (o \in PhThumbs /\ phReport[o] = <<>>))
        /\ \A o \in PhOutputs \ There : phReport[o] # <<>> =>
              (o \in PhDetections \cap phManifest /\ Len(phReport[o]) = 1)

\* A tool that goes on, reports nothing and never ends is stopped, once the
\* time of the run is over and the supervisor goes on with its own steps.
PhStopsCarving == phLate ~> phChild # "alive"
=============================================================================
