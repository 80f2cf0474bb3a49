---------------------------- MODULE DerivedTree -----------------------------
(***************************************************************************)
(* Trees of recovered and carved files in scripts/paired_vm_case.py        *)
(* (disk-recover, disk-recover-manifest, disk-carve, carve-finalize-       *)
(* external): a tool fills a partial tree; then a manifest of its files is *)
(* written, the tree renamed into place, metadata written beside it, and   *)
(* the result recorded in the work ledger with the hashes of the last two. *)
(* readiness_errors compares all of them again before a case is completed. *)
(*                                                                         *)
(* A tree is known by the run that made it, by whether that run was        *)
(* complete, and by whether it was altered since; a manifest is the tree   *)
(* that it lists.  Commands run one at a time and may be killed anywhere.  *)
(***************************************************************************)
EXTENDS Integers

CONSTANTS
    DtMaxRuns,    \* bound: commands started
    DtMaxEvents,  \* bound: failures, kills and changes by others
    DtNil

DtKinds == {"recovered", "carved"}

\* Trees and manifests of them, metadata, and what the ledger records
DtTrees == [run : Nat, whole : BOOLEAN, altered : BOOLEAN]
DtMetas == [lists : DtTrees \cup {DtNil}]
DtLanes == [meta : DtMetas \cup {DtNil}, manifest : DtTrees \cup {DtNil},
            by : {"command", "hand"}]

ASSUME DtConstants ==
    /\ DtMaxRuns \in Nat /\ DtMaxEvents \in Nat
    /\ DtNil \notin DtTrees \cup DtMetas \cup DtLanes

VARIABLES
    dtPartial,  \* per kind the partial tree, or DtNil
    dtTree,     \* the tree in its place, or DtNil
    dtTmp,      \* the temporary manifest is there
    dtManifest, \* the manifest: the tree it lists, or DtNil
    dtMeta,     \* metadata: DtNil or [lists], what its manifest_sha256 is the hash of
    dtLane,     \* the ledger: DtNil, or the hashes of both and who recorded it
    dtPc, dtKind, \* what the command does next, and with which tree
    dtReady,    \* readiness_errors has just found none
    dtRuns, dtEvents

dtFiles == <<dtPartial, dtTree, dtTmp, dtManifest, dtMeta>>
dtVars == <<dtFiles, dtLane, dtPc, dtKind, dtReady, dtRuns, dtEvents>>

DtSteps == {"idle", "tool", "hash", "hashing", "rename", "describe", "record",
            "retrofit", "retrofit_hashing", "retrofit_describe"}
Made(run, whole) == [run |-> run, whole |-> whole, altered |-> FALSE]

\* An earlier version may have left a recovered tree without a manifest.
DtInit ==
    /\ dtPartial = [k \in DtKinds |-> DtNil]
    /\ \E old \in BOOLEAN :
          /\ dtTree = [k \in DtKinds |-> IF old /\ k = "recovered" THEN Made(0, TRUE) ELSE DtNil]
          /\ dtMeta = [k \in DtKinds |-> IF old /\ k = "recovered" THEN [lists |-> DtNil] ELSE DtNil]
    /\ dtTmp = [k \in DtKinds |-> FALSE]
    /\ dtManifest = [k \in DtKinds |-> DtNil]
    /\ dtLane = [k \in DtKinds |-> DtNil]
    /\ dtPc = "idle" /\ dtKind = "recovered" /\ dtReady = FALSE
    /\ dtRuns = 0 /\ dtEvents = 0

DtEvent == dtEvents < DtMaxEvents /\ dtEvents' = dtEvents + 1
Put(f, v) == [f EXCEPT ![dtKind] = v]
-----------------------------------------------------------------------------
\* A command begins; dtReady is what was true before it.
DtBegin(k, step) ==
    /\ dtPc = "idle" /\ dtRuns < DtMaxRuns
    /\ dtRuns' = dtRuns + 1
    /\ dtKind' = k /\ dtPc' = step /\ dtReady' = FALSE

\* recover_disk_files: a tree that is there is skipped, or its metadata refused.
\* A partial tree is removed with --restart, and is in the way without.
DtRecover ==
    /\ dtTree["recovered"] = DtNil
    /\ DtBegin("recovered", "tool")
    /\ dtPartial' = [dtPartial EXCEPT !["recovered"] = Made(dtRuns', FALSE)]
    /\ UNCHANGED <<dtTree, dtTmp, dtManifest, dtMeta, dtLane, dtEvents>>

\* carve_disks: any trace of a tree is in the way, its manifest or metadata too.
DtCarvable == dtTree["carved"] = DtNil /\ dtMeta["carved"] = DtNil /\ dtManifest["carved"] = DtNil
DtCarve ==
    /\ DtCarvable
    /\ DtBegin("carved", "tool")
    /\ dtPartial' = [dtPartial EXCEPT !["carved"] = Made(dtRuns', FALSE)]
    /\ UNCHANGED <<dtTree, dtTmp, dtManifest, dtMeta, dtLane, dtEvents>>

\* The tool does all it should: exit status zero and, if it carves, the line of
\* a normal exit in its log.  Or it fails, and the partial tree stays.
DtTool ==
    /\ dtPc = "tool"
    /\ \/ dtPartial' = Put(dtPartial, [dtPartial[dtKind] EXCEPT !.whole = TRUE]) /\ dtPc' = "hash"
       \/ dtPc' = "idle" /\ UNCHANGED dtPartial
    /\ UNCHANGED <<dtTree, dtTmp, dtManifest, dtMeta, dtLane, dtKind, dtReady, dtRuns, dtEvents>>

\* A carve under the supervisor of its own, whose partial tree is complete or
\* not when carve-finalize-external is asked to take it: it looks for the log.
DtSupervised ==
    /\ dtPc = "idle" /\ dtPartial["carved"] = DtNil /\ dtRuns < DtMaxRuns
    /\ \E whole \in BOOLEAN :
          dtPartial' = [dtPartial EXCEPT !["carved"] = Made(dtRuns + 1, whole)]
    /\ dtRuns' = dtRuns + 1
    /\ UNCHANGED <<dtTree, dtTmp, dtManifest, dtMeta, dtLane, dtPc, dtKind, dtReady, dtEvents>>

DtFinalizeExternal ==
    /\ DtCarvable
    /\ dtPartial["carved"] # DtNil /\ dtPartial["carved"].whole
    /\ DtBegin("carved", "hash")
    /\ UNCHANGED <<dtFiles, dtLane, dtEvents>>

\* write_carving_manifest opens its temporary file, which must not be there.
DtOpenManifest ==
    /\ dtPc \in {"hash", "retrofit"}
    /\ dtPc = "retrofit" => dtManifest[dtKind] = DtNil
    /\ IF dtTmp[dtKind]
       THEN dtPc' = "idle" /\ UNCHANGED dtTmp
       ELSE /\ dtTmp' = Put(dtTmp, TRUE)
            /\ dtPc' = IF dtPc = "hash" THEN "hashing" ELSE "retrofit_hashing"
    /\ UNCHANGED <<dtPartial, dtTree, dtManifest, dtMeta, dtLane, dtKind, dtReady, dtRuns,
                   dtEvents>>

\* It lists the files as they are, and replaces what was listed before.
DtWriteManifest ==
    /\ dtPc = "hashing"
    /\ dtManifest' = Put(dtManifest, dtPartial[dtKind])
    /\ dtTmp' = Put(dtTmp, FALSE)
    /\ dtPc' = "rename"
    /\ UNCHANGED <<dtPartial, dtTree, dtMeta, dtLane, dtKind, dtReady, dtRuns, dtEvents>>

DtRename ==
    /\ dtPc = "rename"
    /\ dtTree' = Put(dtTree, dtPartial[dtKind])
    /\ dtPartial' = Put(dtPartial, DtNil)
    /\ dtPc' = "describe"
    /\ UNCHANGED <<dtTmp, dtManifest, dtMeta, dtLane, dtKind, dtReady, dtRuns, dtEvents>>

\* The metadata hold the hash that was computed as the manifest was written.
DtDescribe ==
    /\ dtPc = "describe"
    /\ dtMeta' = Put(dtMeta, [lists |-> dtManifest[dtKind]])
    /\ dtPc' = "record"
    /\ UNCHANGED <<dtPartial, dtTree, dtTmp, dtManifest, dtLane, dtKind, dtReady, dtRuns,
                   dtEvents>>

\* record_work_result with both files: their hashes are taken now.
DtRecord ==
    /\ dtPc = "record"
    /\ dtLane' = Put(dtLane, [meta |-> dtMeta[dtKind], manifest |-> dtManifest[dtKind],
                              by |-> "command"])
    /\ dtPc' = "idle"
    /\ UNCHANGED <<dtFiles, dtKind, dtReady, dtRuns, dtEvents>>

\* An examiner records the files with work-result, whatever they are.
DtRecordByHand(k) ==
    /\ dtMeta[k] # DtNil /\ dtManifest[k] # DtNil
    /\ DtBegin(k, "idle")
    /\ dtLane' = [dtLane EXCEPT ![k] = [meta |-> dtMeta[k], manifest |-> dtManifest[k],
                                        by |-> "hand"]]
    /\ UNCHANGED <<dtFiles, dtEvents>>

\* manifest_completed_recovery: a tree that is described gets a manifest.
DtRetrofit ==
    /\ dtTree["recovered"] # DtNil /\ dtMeta["recovered"] # DtNil
    /\ DtBegin("recovered", "retrofit")
    /\ UNCHANGED <<dtFiles, dtLane, dtEvents>>

\* Faulty: a manifest that is there is taken for the one of the metadata.
DtReuseAny ==
    /\ dtPc = "retrofit" /\ dtManifest[dtKind] # DtNil
    /\ dtPc' = "record"
    /\ UNCHANGED <<dtFiles, dtLane, dtKind, dtReady, dtRuns, dtEvents>>

\* A manifest that is there must be the one that the metadata are bound to.
DtReuse ==
    /\ dtPc = "retrofit" /\ dtManifest[dtKind] # DtNil
    /\ dtPc' = IF dtMeta[dtKind].lists = dtManifest[dtKind] THEN "record" ELSE "idle"
    /\ UNCHANGED <<dtFiles, dtLane, dtKind, dtReady, dtRuns, dtEvents>>

\* The counts of files and bytes must be those that were recorded; a tree that
\* was altered may keep them.  If not, the new manifest is removed.
DtRetrofitWrite ==
    /\ dtPc = "retrofit_hashing"
    /\ dtTmp' = Put(dtTmp, FALSE)
    /\ \/ dtManifest' = Put(dtManifest, dtTree[dtKind]) /\ dtPc' = "retrofit_describe"
       \/ dtTree[dtKind].altered /\ dtManifest' = Put(dtManifest, DtNil) /\ dtPc' = "idle"
    /\ UNCHANGED <<dtPartial, dtTree, dtMeta, dtLane, dtKind, dtReady, dtRuns, dtEvents>>

DtRetrofitDescribe ==
    /\ dtPc = "retrofit_describe"
    /\ dtMeta' = Put(dtMeta, [lists |-> dtManifest[dtKind]])
    /\ dtPc' = "record"
    /\ UNCHANGED <<dtPartial, dtTree, dtTmp, dtManifest, dtLane, dtKind, dtReady, dtRuns,
                   dtEvents>>

\* Killed, or a step raises
DtKill ==
    /\ dtPc # "idle" /\ DtEvent
    /\ dtPc' = "idle"
    /\ UNCHANGED <<dtFiles, dtLane, dtKind, dtReady, dtRuns>>

\* Others alter the files of a tree, or its manifest; or an examiner removes a
\* temporary manifest that is in the way.
DtOthers ==
    /\ dtPc = "idle"
    /\ \E k \in DtKinds :
          \/ /\ dtTree[k] # DtNil /\ DtEvent
             /\ dtTree' = [dtTree EXCEPT ![k].altered = TRUE]
             /\ UNCHANGED <<dtTmp, dtManifest>>
          \/ /\ dtManifest[k] # DtNil /\ DtEvent
             /\ dtManifest' = [dtManifest EXCEPT ![k].altered = TRUE]
             /\ UNCHANGED <<dtTmp, dtTree>>
          \/ /\ dtTmp[k] /\ dtTmp' = [dtTmp EXCEPT ![k] = FALSE]
             /\ UNCHANGED <<dtTree, dtManifest, dtEvents>>
    /\ dtReady' = FALSE
    /\ UNCHANGED <<dtPartial, dtMeta, dtLane, dtPc, dtKind, dtRuns>>

\* Faulty: only the paths are looked for.
DtLaneHoldsByPath(k) ==
    /\ dtLane[k].manifest = dtManifest[k] /\ dtLane[k].meta = dtMeta[k]
    /\ dtTree[k] # DtNil

\* What readiness_errors asks of a recorded lane: validate_work_completion has
\* both artifacts unchanged, validate_derived_tree_artifacts the tree that the
\* metadata name, and no file in it missing, changed or unlisted.
DtLaneHolds(k) ==
    /\ dtLane[k].manifest = dtManifest[k] /\ dtLane[k].meta = dtMeta[k]
    /\ dtTree[k] = dtManifest[k]

DtCheckReady ==
    /\ dtPc = "idle" /\ ~dtReady
    /\ dtReady' = \A k \in DtKinds : dtLane[k] # DtNil /\ DtLaneHolds(k)
    /\ UNCHANGED <<dtFiles, dtLane, dtPc, dtKind, dtRuns, dtEvents>>

DtNext ==
    \/ DtRecover \/ DtCarve \/ DtTool \/ DtSupervised \/ DtFinalizeExternal
    \/ DtOpenManifest \/ DtWriteManifest \/ DtRename \/ DtDescribe \/ DtRecord
    \/ DtRetrofit \/ DtReuse \/ DtRetrofitWrite \/ DtRetrofitDescribe
    \/ DtKill \/ DtOthers \/ DtCheckReady
    \/ \E k \in DtKinds : DtRecordByHand(k)
DtSpec == DtInit /\ [][DtNext]_dtVars
-----------------------------------------------------------------------------
DtTypeOK ==
    /\ dtPc \in DtSteps /\ dtKind \in DtKinds
    /\ \A k \in DtKinds :
          /\ dtTree[k] # DtNil => dtTree[k].whole
          /\ dtMeta[k] # DtNil => dtTree[k] # DtNil
          /\ dtLane[k] # DtNil => dtMeta[k] # DtNil
    /\ dtPartial \in [DtKinds -> DtTrees \cup {DtNil}]
    /\ dtTree \in [DtKinds -> DtTrees \cup {DtNil}]
    /\ dtManifest \in [DtKinds -> DtTrees \cup {DtNil}]
    /\ dtMeta \in [DtKinds -> DtMetas \cup {DtNil}]
    /\ dtLane \in [DtKinds -> DtLanes \cup {DtNil}]
    /\ dtRuns \in Nat
    /\ dtTmp \in [DtKinds -> BOOLEAN] /\ dtReady \in BOOLEAN

\* A case is found ready only when each tree is, file by file, the one that its
\* manifest listed when the work was recorded, made by a run that came to its
\* end; and where a command has recorded it, the metadata vouch for that very
\* manifest.  That no kill, retry, retrofit or late change slips through.
DtReadyTreesHold ==
    [][ (~dtReady /\ dtReady') =>
          \A k \in DtKinds :
              /\ dtTree[k] # DtNil /\ dtTree[k].whole
              /\ dtTree[k] = dtLane[k].manifest
              /\ dtLane[k].by = "command" => dtMeta[k].lists = dtTree[k] ]_dtVars
=============================================================================
