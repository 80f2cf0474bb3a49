---------------------------- MODULE DerivedFile -----------------------------
(***************************************************************************)
(* The single files that scripts/paired_vm_case.py derives: the working    *)
(* disk (prepare-disks), the converted memory dump (memory-convert), Plaso *)
(* timelines (disk-timeline, recovered-timeline), and what is queried from *)
(* them (timeline-query, timeline-slice).  All are made as a partial file, *)
(* hashed, renamed into place, and described in metadata that are written  *)
(* after that; a file that is there is reused, or with --force made again. *)
(*                                                                         *)
(* A file is its content and, for a query, the content of the timeline it  *)
(* was made from.  Users of a file compare its size with the metadata; a   *)
(* query copies the hash of the timeline from there into its own.          *)
(***************************************************************************)
EXTENDS Integers

CONSTANTS
    DfSizes,      \* contents a tool can make, numbers, and the size of each
    DfMaxRuns,    \* bound: commands started
    DfMaxEvents,  \* bound: kills
    DfNil

ASSUME DfConstants == DfMaxRuns \in Nat /\ DfMaxEvents \in Nat

DfKinds == {"disk", "dump", "timeline", "query"}

VARIABLES
    dfPartial, \* per kind the partial file: DfNil or [content, from, whole]
    dfFile,    \* the file in its place
    dfMeta,    \* its metadata: DfNil or [content, from], as hashes
    dfExit,    \* per kind, exit status of the last command for it, DfNil if killed
    dfPc, dfKind, \* what the command does next, and to which kind
    dfSeen,    \* hash of the timeline that a query took from the timeline's metadata
    dfTorn,    \* kinds with a file that its metadata are not, or not rightly, about
    dfRuns, dfEvents

dfVars == <<dfPartial, dfFile, dfMeta, dfExit, dfPc, dfKind, dfSeen, dfTorn, dfRuns, dfEvents>>

\* The evidence is one; a tool may answer differently when it is run again.
DfContents(k) == IF k = "disk" THEN {CHOOSE c \in DOMAIN DfSizes : TRUE} ELSE DOMAIN DfSizes
DfNone == [k \in DfKinds |-> DfNil]

DfInit ==
    /\ dfPartial = DfNone /\ dfFile = DfNone /\ dfMeta = DfNone /\ dfExit = DfNone
    /\ dfPc = "idle" /\ dfKind = "disk" /\ dfSeen = DfNil /\ dfTorn = {}
    /\ dfRuns = 0 /\ dfEvents = 0

\* validated_working_disk_metadata and its like: both are there and agree on
\* the size.
Validated(k) ==
    /\ dfFile[k] # DfNil /\ dfMeta[k] # DfNil
    /\ DfSizes[dfFile[k].content] = DfSizes[dfMeta[k].content]

InputsOf(k) == IF k = "timeline" THEN {"disk"} ELSE IF k = "query" THEN {"timeline"} ELSE {}
InputReady(k) == \A i \in InputsOf(k) : Validated(i)
-----------------------------------------------------------------------------
DfBegin(k) ==
    /\ dfPc = "idle" /\ dfRuns < DfMaxRuns
    /\ dfRuns' = dfRuns + 1 /\ dfKind' = k
    /\ UNCHANGED <<dfMeta, dfTorn, dfEvents>>

\* Nothing to do, or a reason not to: the input is not ready, a partial file is
\* in the way without --restart; a disk or a dump that is there is validated,
\* any other file is just reused.
DfDecline(k) ==
    /\ DfBegin(k)
    /\ \/ ~InputReady(k) /\ dfExit' = [dfExit EXCEPT ![k] = 1]
       \/ /\ InputReady(k) /\ dfFile[k] # DfNil
          /\ dfExit' = [dfExit EXCEPT ![k] =
                          IF k \in {"disk", "dump"} /\ ~Validated(k) THEN 1 ELSE 0]
       \/ /\ InputReady(k) /\ dfPartial[k] # DfNil
          /\ dfExit' = [dfExit EXCEPT ![k] = 1]
    /\ UNCHANGED <<dfPartial, dfFile, dfPc, dfSeen>>

\* With --force an earlier file is made again: the disk is removed at once, any
\* other stays until it is replaced.  With --restart a partial file is removed.
DfMake(k) ==
    /\ DfBegin(k)
    /\ InputReady(k)
    /\ dfPartial' = [dfPartial EXCEPT ![k] = DfNil]
    /\ dfFile' = IF k = "disk" THEN [dfFile EXCEPT !["disk"] = DfNil] ELSE dfFile
    /\ dfSeen' = IF k = "query" THEN dfMeta["timeline"].content ELSE DfNil
    /\ dfExit' = [dfExit EXCEPT ![k] = DfNil]
    /\ dfPc' = "work"

DfProduct(whole) ==
    {[content |-> c, whole |-> whole,
      from |-> IF dfKind = "query" THEN dfFile["timeline"].content ELSE DfNil] :
        c \in DfContents(dfKind)}

\* Faulty: a tool that has left a file has done its work.
DfWorkByFile ==
    /\ dfPc = "work"
    /\ \E p \in DfProduct(TRUE) \cup DfProduct(FALSE) : dfPartial' = [dfPartial EXCEPT ![dfKind] = p]
    /\ dfPc' = "rename"
    /\ UNCHANGED <<dfFile, dfMeta, dfExit, dfKind, dfSeen, dfTorn, dfRuns, dfEvents>>

\* The tool ends well and its output, Plaso's log too, reports no error; or it
\* fails, and what it wrote is kept as partial.
DfWork ==
    /\ dfPc = "work"
    /\ \/ /\ \E p \in DfProduct(TRUE) : dfPartial' = [dfPartial EXCEPT ![dfKind] = p]
          /\ dfPc' = "rename" /\ UNCHANGED dfExit
       \/ /\ \E p \in DfProduct(FALSE) \cup {DfNil} : dfPartial' = [dfPartial EXCEPT ![dfKind] = p]
          /\ dfExit' = [dfExit EXCEPT ![dfKind] = 2]
          /\ dfPc' = "idle"
    /\ UNCHANGED <<dfFile, dfMeta, dfKind, dfSeen, dfTorn, dfRuns, dfEvents>>

\* os.replace: from here to the metadata a kill leaves a file that is not
\* described, or that is described as the one it replaced.
DfRename ==
    /\ dfPc = "rename"
    /\ dfFile' = [dfFile EXCEPT ![dfKind] = dfPartial[dfKind]]
    /\ dfPartial' = [dfPartial EXCEPT ![dfKind] = DfNil]
    /\ dfTorn' = dfTorn \cup {dfKind}
    /\ dfPc' = "describe"
    /\ UNCHANGED <<dfMeta, dfExit, dfKind, dfSeen, dfRuns, dfEvents>>

DfDescribe ==
    /\ dfPc = "describe"
    /\ dfMeta' = [dfMeta EXCEPT ![dfKind] = [content |-> dfFile[dfKind].content, from |-> dfSeen]]
    /\ dfTorn' = IF InputsOf(dfKind) \cap dfTorn # {} THEN dfTorn ELSE dfTorn \ {dfKind}
    /\ dfExit' = [dfExit EXCEPT ![dfKind] = 0]
    /\ dfPc' = "idle"
    /\ UNCHANGED <<dfPartial, dfFile, dfKind, dfSeen, dfRuns, dfEvents>>

\* A tool that is killed may have begun its partial file.
DfKill ==
    /\ dfPc # "idle" /\ dfEvents < DfMaxEvents
    /\ dfEvents' = dfEvents + 1
    /\ IF dfPc = "work"
       THEN \E p \in DfProduct(FALSE) : dfPartial' = [dfPartial EXCEPT ![dfKind] = p]
       ELSE UNCHANGED dfPartial
    /\ dfPc' = "idle"
    /\ UNCHANGED <<dfFile, dfMeta, dfExit, dfKind, dfSeen, dfTorn, dfRuns>>

DfNext ==
    \/ \E k \in DfKinds : DfDecline(k) \/ DfMake(k)
    \/ DfWork \/ DfRename \/ DfDescribe \/ DfKill
DfSpec == DfInit /\ [][DfNext]_dfVars
-----------------------------------------------------------------------------
\* A file that is in its place is the whole output of one run of its tool, and
\* its metadata, if it has them, hold its hash and that of what it was made
\* from, whichever commands were killed, retried or forced; but for one that
\* was killed between the two, or that relied on the metadata of such a file.
DfRecordsDescribe ==
    \A k \in DfKinds : dfFile[k] # DfNil =>
        /\ dfFile[k].whole
        /\ (dfMeta[k] # DfNil /\ k \notin dfTorn) =>
              /\ dfMeta[k].content = dfFile[k].content
              /\ dfMeta[k].from = dfFile[k].from

\* "Completed Plaso timeline is missing; run timeline first" (line 2343): a
\* timeline command that ends with status zero leaves a timeline that is usable.
DfZeroIsUsable == dfExit["timeline"] = 0 => Validated("timeline")
=============================================================================
