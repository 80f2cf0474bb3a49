---------------------------- MODULE OutputsProofs ----------------------------
(* What the commands that derive outputs say of them is so: the pattern    *)
(* analysis with its limits, the virtual machine with its block maps, the  *)
(* recovered trees at the gate and the derived files with their metadata,  *)
(* for any sizes and any number of runs, kills and foreign changes.        *)
EXTENDS MCOutputs, SuperTimelineProofs, AtomicWriteProofs, SequenceTheorems,
        FiniteSetTheorems, WellFoundedInduction, TLAPS

-----------------------------------------------------------------------------
(* DerivedFile                                                             *)

\* What the file of a command will say it was made from
DfFrom == IF dfKind = "query" THEN dfFile["timeline"].content ELSE DfNil

DfShape ==
    /\ dfPc \in {"idle", "work", "rename", "describe"} /\ dfKind \in DfKinds
    /\ DOMAIN dfPartial = DfKinds /\ DOMAIN dfFile = DfKinds /\ DOMAIN dfMeta = DfKinds

\* A command that is under way holds what it needs: the timeline that it
\* queries is the one it has taken the hash of, and what it renames is whole.
DfUnderWay ==
    dfPc # "idle" =>
        /\ dfSeen = IF dfKind = "query" THEN dfMeta["timeline"].content ELSE DfNil
        /\ dfKind = "query" => dfFile["timeline"] # DfNil /\ dfMeta["timeline"] # DfNil
        /\ dfPc = "rename" => dfPartial[dfKind].whole /\ dfPartial[dfKind].from = DfFrom
        /\ dfPc = "describe" => /\ dfFile[dfKind].whole /\ dfFile[dfKind].from = DfFrom
                                /\ dfKind \in dfTorn

DfInv == DfShape /\ DfUnderWay /\ DfRecordsDescribe

\* There are no files.
LEMMA DfInvInit == DfInit => DfInv
  BY DEF DfInit, DfInv, DfShape, DfUnderWay, DfRecordsDescribe, DfNone, DfKinds

\* Every step keeps every part.
LEMMA DfInvStep ==
  ASSUME DfInv, [DfNext]_dfVars
  PROVE  DfInv'
<1> USE DEF DfInv, DfShape, DfUnderWay, DfRecordsDescribe, DfFrom, DfKinds
<1>1. ASSUME NEW k \in DfKinds, DfDecline(k) PROVE DfInv'
  BY <1>1 DEF DfDecline, DfBegin
<1>2. ASSUME NEW k \in DfKinds, DfMake(k) PROVE DfInv'
  BY <1>2 DEF DfMake, DfBegin, InputReady, InputsOf, Validated
<1>3. CASE DfWork
  BY <1>3 DEF DfWork, DfProduct
<1>4. CASE DfRename
  BY <1>4 DEF DfRename
<1>5. CASE DfDescribe
  BY <1>5 DEF DfDescribe, InputsOf
<1>6. CASE DfKill
  BY <1>6 DEF DfKill, DfProduct
<1>7. CASE UNCHANGED dfVars
  BY <1>7 DEF dfVars
<1> QED
  BY <1>1, <1>2, <1>3, <1>4, <1>5, <1>6, <1>7 DEF DfNext

\* A derived file is whole and its metadata describe it, for all kinds, sizes
\* and numbers of commands and kills.
THEOREM DfInvariant == DfSpec => []DfInv
  BY DfInvInit, DfInvStep, PTL DEF DfSpec

\* DfRecordsDescribe: as the run checks it
THEOREM DfRecordsDescribeAlways == DfSpec => []DfRecordsDescribe
<1>1. DfInv => DfRecordsDescribe
  BY DEF DfInv
<1> QED
  BY <1>1, DfInvariant, PTL

-----------------------------------------------------------------------------
(* DerivedTree                                                             *)

\* What a command that is under way has to do it with
DtUnderWay ==
    /\ dtPc = "tool" => dtPartial[dtKind] # DtNil
    /\ dtPc \in {"hash", "hashing", "rename"} => dtPartial[dtKind] # DtNil /\ dtPartial[dtKind].whole
    /\ dtPc \in {"describe", "record", "retrofit", "retrofit_hashing", "retrofit_describe"} =>
          dtTree[dtKind] # DtNil
    /\ dtPc \in {"retrofit", "record"} => dtMeta[dtKind] # DtNil
    /\ dtPc = "record" => dtMeta[dtKind].lists = dtManifest[dtKind]

\* What a command has recorded are metadata that vouch for the manifest.
DtLanesVouch ==
    \A k \in DtKinds : dtLane[k] # DtNil =>
        (dtLane[k].by = "command" => dtLane[k].meta # DtNil /\ dtLane[k].meta.lists = dtLane[k].manifest)

DtInv == DtTypeOK /\ DtUnderWay /\ DtLanesVouch

\* Trees are records.
LEMMA DtMade ==
  ASSUME NEW r \in Nat, NEW w \in BOOLEAN
  PROVE  Made(r, w) \in DtTrees /\ Made(r, w) # DtNil /\ (Made(r, w).whole <=> w)
<1>1. \A a, b \in BOOLEAN : [run |-> r, whole |-> a, altered |-> b] \in DtTrees
  BY DEF DtTrees
<1>2. Made(r, w) \in DtTrees
  BY <1>1 DEF Made
<1>3. Made(r, w).whole <=> w
  BY DEF Made
<1> QED
  BY <1>2, <1>3, DtConstants

\* What is done to a tree leaves a tree.
LEMMA DtTreeMove ==
  ASSUME NEW t \in DtTrees
  PROVE  /\ [t EXCEPT !.whole = TRUE] \in DtTrees /\ [t EXCEPT !.whole = TRUE].whole
         /\ [t EXCEPT !.altered = TRUE] \in DtTrees
         /\ [t EXCEPT !.altered = TRUE].whole <=> t.whole
  BY DEF DtTrees

\* Nothing is no tree, no metadata and no entry.
LEMMA DtNotNil == DtNil \notin DtTrees /\ DtNil \notin DtMetas /\ DtNil \notin DtLanes
  BY DtConstants

\* Metadata are records of a manifest.
LEMMA DtMetaOf ==
  ASSUME NEW l \in DtTrees \cup {DtNil}
  PROVE  [lists |-> l] \in DtMetas /\ [lists |-> l] # DtNil
  BY DtConstants DEF DtMetas

\* Entries of the ledger are records of both.
LEMMA DtLaneOf ==
  ASSUME NEW m \in DtMetas \cup {DtNil}, NEW l \in DtTrees \cup {DtNil}, NEW b \in {"command", "hand"}
  PROVE  [meta |-> m, manifest |-> l, by |-> b] \in DtLanes
  BY DEF DtLanes

\* Nothing, or an old tree with metadata and no manifest.
LEMMA DtInvInit == DtInit => DtInv
<1> SUFFICES ASSUME DtInit PROVE DtInv
  OBVIOUS
<1>1. PICK old \in BOOLEAN :
          /\ dtTree = [k \in DtKinds |-> IF old /\ k = "recovered" THEN Made(0, TRUE) ELSE DtNil]
          /\ dtMeta = [k \in DtKinds |-> IF old /\ k = "recovered" THEN [lists |-> DtNil] ELSE DtNil]
  BY DEF DtInit
<1>2. Made(0, TRUE) \in DtTrees /\ Made(0, TRUE) # DtNil /\ Made(0, TRUE).whole
  BY DtMade
<1>3. [lists |-> DtNil] \in DtMetas
  BY DtMetaOf
<1>4. /\ dtTree \in [DtKinds -> DtTrees \cup {DtNil}] /\ dtMeta \in [DtKinds -> DtMetas \cup {DtNil}]
      /\ \A k \in DtKinds : /\ dtTree[k] # DtNil => dtTree[k].whole
                            /\ dtMeta[k] # DtNil => dtTree[k] # DtNil
  BY <1>1, <1>2, <1>3
<1>5. DtTypeOK
  BY <1>4 DEF DtInit, DtTypeOK, DtKinds, DtSteps
<1> QED
  BY <1>5 DEF DtInit, DtInv, DtUnderWay, DtLanesVouch

\* Every step keeps the shapes, and what each trace of a tree says of the others.
LEMMA DtTypeStep ==
  ASSUME DtTypeOK, DtUnderWay, [DtNext]_dtVars
  PROVE  DtTypeOK'
<1> USE DEF DtTypeOK, DtKinds, DtSteps, DtBegin, Put
<1>1. CASE DtRecover
  <2>1. dtRuns' \in Nat
    BY <1>1 DEF DtRecover
  <2>2. Made(dtRuns', FALSE) \in DtTrees
    BY <2>1, DtMade
  <2> QED
    BY <1>1, <2>1, <2>2 DEF DtRecover
<1>2. CASE DtCarve
  <2>1. dtRuns' \in Nat
    BY <1>2 DEF DtCarve
  <2>2. Made(dtRuns', FALSE) \in DtTrees
    BY <2>1, DtMade
  <2> QED
    BY <1>2, <2>1, <2>2 DEF DtCarve, DtCarvable
<1>3. CASE DtTool
  <2>1. dtPartial[dtKind] \in DtTrees
    BY <1>3 DEF DtTool, DtUnderWay
  <2>2. [dtPartial[dtKind] EXCEPT !.whole = TRUE] \in DtTrees
    BY <2>1, DtTreeMove
  <2> QED
    BY <1>3, <2>2 DEF DtTool
<1>4. CASE DtSupervised
  <2>1. \A w \in BOOLEAN : Made(dtRuns + 1, w) \in DtTrees
    BY DtMade
  <2> QED
    BY <1>4, <2>1 DEF DtSupervised
<1>5. CASE DtFinalizeExternal
  <2>1. UNCHANGED <<dtPartial, dtTree, dtTmp, dtManifest, dtMeta, dtLane>> /\ dtPc' \in DtSteps /\ dtKind' \in DtKinds /\ dtReady' = FALSE
        /\ dtRuns' = dtRuns + 1
    BY <1>5 DEF DtFinalizeExternal, dtFiles
  <2>5. dtReady' \in BOOLEAN
    BY <2>1, Zenon
  <2>6. dtRuns' \in Nat
    BY <2>1
  <2> QED
    BY <2>1, <2>5, <2>6
<1>6. CASE DtOpenManifest
  BY <1>6 DEF DtOpenManifest
<1>7. CASE DtWriteManifest
  BY <1>7 DEF DtWriteManifest
<1>8. CASE DtRename
  BY <1>8 DEF DtRename, DtUnderWay
<1>9. CASE DtDescribe
  BY DtMetaOf, <1>9 DEF DtDescribe, DtUnderWay
<1>10. CASE DtRecord
  BY DtLaneOf, <1>10 DEF DtRecord, dtFiles, DtUnderWay
<1>11. ASSUME NEW k \in DtKinds, DtRecordByHand(k) PROVE DtTypeOK'
  <2>1. UNCHANGED <<dtPartial, dtTree, dtTmp, dtManifest, dtMeta>> /\ dtPc' \in DtSteps /\ dtKind' \in DtKinds /\ dtReady' = FALSE
        /\ dtRuns' = dtRuns + 1
    BY <1>11 DEF DtRecordByHand, dtFiles
  <2>5. dtReady' \in BOOLEAN
    BY <2>1, Zenon
  <2>6. dtRuns' \in Nat
    BY <2>1
  <2>2. [meta |-> dtMeta[k], manifest |-> dtManifest[k], by |-> "hand"] \in DtLanes
    BY <1>11, DtLaneOf DEF DtRecordByHand
  <2>3. dtLane' \in [DtKinds -> DtLanes \cup {DtNil}]
    BY <1>11, <2>2 DEF DtRecordByHand
  <2>4. dtMeta[k] # DtNil /\ \A q \in DtKinds \ {k} : dtLane'[q] = dtLane[q]
    BY <1>11 DEF DtRecordByHand
  <2> QED
    BY <2>1, <2>3, <2>4, <2>5, <2>6
<1>12. CASE DtRetrofit
  <2>1. UNCHANGED <<dtPartial, dtTree, dtTmp, dtManifest, dtMeta, dtLane>> /\ dtPc' \in DtSteps /\ dtKind' \in DtKinds /\ dtReady' = FALSE
        /\ dtRuns' = dtRuns + 1
    BY <1>12 DEF DtRetrofit, dtFiles
  <2>5. dtReady' \in BOOLEAN
    BY <2>1, Zenon
  <2>6. dtRuns' \in Nat
    BY <2>1
  <2> QED
    BY <2>1, <2>5, <2>6
<1>13. CASE DtReuse
  BY <1>13 DEF DtReuse, dtFiles
<1>14. CASE DtRetrofitWrite
  BY <1>14 DEF DtRetrofitWrite, DtUnderWay
<1>15. CASE DtRetrofitDescribe
  BY DtMetaOf, <1>15 DEF DtRetrofitDescribe, DtUnderWay
<1>16. CASE DtKill
  BY <1>16 DEF DtKill, dtFiles
<1>17. CASE DtOthers
  <2>1. ASSUME NEW t \in DtTrees
        PROVE  [t EXCEPT !.altered = TRUE] \in DtTrees /\ ([t EXCEPT !.altered = TRUE].whole <=> t.whole)
    BY DtTreeMove
  <2>2. dtPc' = dtPc /\ dtKind' = dtKind /\ dtReady' = FALSE /\ UNCHANGED <<dtPartial, dtMeta, dtLane, dtRuns>>
    BY <1>17 DEF DtOthers
  <2>3. PICK k \in DtKinds :
          \/ /\ dtTree[k] # DtNil /\ dtTree' = [dtTree EXCEPT ![k].altered = TRUE]
             /\ UNCHANGED <<dtTmp, dtManifest>>
          \/ /\ dtManifest[k] # DtNil /\ dtManifest' = [dtManifest EXCEPT ![k].altered = TRUE]
             /\ UNCHANGED <<dtTmp, dtTree>>
          \/ dtTmp' = [dtTmp EXCEPT ![k] = FALSE] /\ UNCHANGED <<dtTree, dtManifest>>
    BY <1>17 DEF DtOthers
  <2>4. CASE dtTree[k] # DtNil /\ dtTree' = [dtTree EXCEPT ![k].altered = TRUE] /\ UNCHANGED <<dtTmp, dtManifest>>
    <3>1. dtTree[k] \in DtTrees /\ dtTree[k].whole
      BY <2>4
    <3>2. dtTree'[k] \in DtTrees /\ dtTree'[k].whole /\ \A q \in DtKinds \ {k} : dtTree'[q] = dtTree[q]
      BY <2>1, <2>4, <3>1
    <3>3. dtTree' \in [DtKinds -> DtTrees \cup {DtNil}]
      BY <2>1, <2>4, <3>1
    <3> QED
      BY <2>2, <2>4, <3>2, <3>3, DtNotNil
  <2>5. CASE dtManifest[k] # DtNil /\ dtManifest' = [dtManifest EXCEPT ![k].altered = TRUE]
             /\ UNCHANGED <<dtTmp, dtTree>>
    BY <2>1, <2>2, <2>5
  <2>6. CASE dtTmp' = [dtTmp EXCEPT ![k] = FALSE] /\ UNCHANGED <<dtTree, dtManifest>>
    BY <2>2, <2>6
  <2> QED
    BY <2>3, <2>4, <2>5, <2>6
<1>18. CASE DtCheckReady
  BY <1>18 DEF DtCheckReady, dtFiles
<1>19. CASE UNCHANGED dtVars
  BY <1>19 DEF dtVars, dtFiles
<1> QED
  BY <1>1, <1>2, <1>3, <1>4, <1>5, <1>6, <1>7, <1>8, <1>9, <1>10, <1>11, <1>12, <1>13, <1>14, <1>15, <1>16, <1>17, <1>18, <1>19 DEF DtNext

\* A command that is under way goes on with what it has.
LEMMA DtUnderWayStep ==
  ASSUME DtTypeOK, DtUnderWay, [DtNext]_dtVars
  PROVE  DtUnderWay'
<1> USE DEF DtTypeOK, DtUnderWay, DtKinds, DtBegin, Put
<1>1. CASE DtRecover
  <2>1. dtRuns' \in Nat
    BY <1>1 DEF DtRecover
  <2>2. Made(dtRuns', FALSE) # DtNil
    BY <2>1, DtMade
  <2> QED
    BY <1>1, <2>1, <2>2 DEF DtRecover
<1>2. CASE DtCarve
  <2>1. dtRuns' \in Nat
    BY <1>2 DEF DtCarve
  <2>2. Made(dtRuns', FALSE) # DtNil
    BY <2>1, DtMade
  <2> QED
    BY <1>2, <2>1, <2>2 DEF DtCarve, DtCarvable
<1>3. CASE DtTool
  <2>1. dtPartial[dtKind] \in DtTrees
    BY <1>3 DEF DtTool
  <2>2. LET t == [dtPartial[dtKind] EXCEPT !.whole = TRUE] IN t.whole /\ t # DtNil
    BY <2>1, DtTreeMove, DtNotNil
  <2> QED
    BY <1>3, <2>2 DEF DtTool
<1>4. CASE DtSupervised
  BY <1>4 DEF DtSupervised
<1>5. CASE DtFinalizeExternal
  BY <1>5 DEF DtFinalizeExternal, DtCarvable, dtFiles
<1>6. CASE DtOpenManifest
  BY <1>6 DEF DtOpenManifest
<1>7. CASE DtWriteManifest
  BY <1>7 DEF DtWriteManifest
<1>8. CASE DtRename
  BY <1>8 DEF DtRename
<1>9. CASE DtDescribe
  BY DtMetaOf, <1>9 DEF DtDescribe
<1>10. CASE DtRecord
  BY <1>10 DEF DtRecord, dtFiles
<1>11. ASSUME NEW k \in DtKinds, DtRecordByHand(k) PROVE DtUnderWay'
  BY <1>11 DEF DtRecordByHand, dtFiles
<1>12. CASE DtRetrofit
  BY <1>12 DEF DtRetrofit, dtFiles
<1>13. CASE DtReuse
  BY <1>13 DEF DtReuse, dtFiles
<1>14. CASE DtRetrofitWrite
  BY <1>14 DEF DtRetrofitWrite
<1>15. CASE DtRetrofitDescribe
  BY DtMetaOf, <1>15 DEF DtRetrofitDescribe
<1>16. CASE DtKill
  BY <1>16 DEF DtKill, dtFiles
<1>17. CASE DtOthers
  BY <1>17 DEF DtOthers
<1>18. CASE DtCheckReady
  BY <1>18 DEF DtCheckReady, dtFiles
<1>19. CASE UNCHANGED dtVars
  BY <1>19 DEF dtVars, dtFiles
<1> QED
  BY <1>1, <1>2, <1>3, <1>4, <1>5, <1>6, <1>7, <1>8, <1>9, <1>10, <1>11, <1>12, <1>13, <1>14, <1>15, <1>16, <1>17, <1>18, <1>19 DEF DtNext

\* Only DtRecord records as a command.
LEMMA DtVouchStep ==
  ASSUME DtTypeOK, DtUnderWay, DtLanesVouch, [DtNext]_dtVars
  PROVE  DtLanesVouch'
<1> USE DEF DtTypeOK, DtLanesVouch, DtKinds
<1>1. CASE DtRecover
  BY <1>1 DEF DtRecover
<1>2. CASE DtCarve
  BY <1>2 DEF DtCarve, DtCarvable
<1>3. CASE DtTool
  BY <1>3 DEF DtTool
<1>4. CASE DtSupervised
  BY <1>4 DEF DtSupervised
<1>5. CASE DtFinalizeExternal
  BY <1>5 DEF DtFinalizeExternal, DtCarvable, dtFiles
<1>6. CASE DtOpenManifest
  BY <1>6 DEF DtOpenManifest
<1>7. CASE DtWriteManifest
  BY <1>7 DEF DtWriteManifest
<1>8. CASE DtRename
  BY <1>8 DEF DtRename
<1>9. CASE DtDescribe
  BY <1>9 DEF DtDescribe
<1>10. CASE DtRecord
  <2>1. dtMeta[dtKind] # DtNil /\ dtMeta[dtKind].lists = dtManifest[dtKind] /\ UNCHANGED dtFiles
    BY <1>10 DEF DtRecord, DtUnderWay
  <2>2. dtLane' = [dtLane EXCEPT ![dtKind] = [meta |-> dtMeta[dtKind], manifest |-> dtManifest[dtKind],
                                              by |-> "command"]]
    BY <1>10 DEF DtRecord, Put
  <2>3. dtLane'[dtKind].meta # DtNil /\ dtLane'[dtKind].meta.lists = dtLane'[dtKind].manifest
    BY <2>1, <2>2
  <2>4. \A q \in DtKinds \ {dtKind} : dtLane'[q] = dtLane[q]
    BY <2>2
  <2> QED
    BY <2>3, <2>4
<1>11. ASSUME NEW k \in DtKinds, DtRecordByHand(k) PROVE DtLanesVouch'
  BY <1>11 DEF DtRecordByHand, dtFiles
<1>12. CASE DtRetrofit
  BY <1>12 DEF DtRetrofit, dtFiles
<1>13. CASE DtReuse
  BY <1>13 DEF DtReuse, dtFiles
<1>14. CASE DtRetrofitWrite
  BY <1>14 DEF DtRetrofitWrite
<1>15. CASE DtRetrofitDescribe
  BY <1>15 DEF DtRetrofitDescribe
<1>16. CASE DtKill
  BY <1>16 DEF DtKill, dtFiles
<1>17. CASE DtOthers
  BY <1>17 DEF DtOthers
<1>18. CASE DtCheckReady
  BY <1>18 DEF DtCheckReady, dtFiles
<1>19. CASE UNCHANGED dtVars
  BY <1>19 DEF dtVars, dtFiles
<1> QED
  BY <1>1, <1>2, <1>3, <1>4, <1>5, <1>6, <1>7, <1>8, <1>9, <1>10, <1>11, <1>12, <1>13, <1>14, <1>15, <1>16, <1>17, <1>18, <1>19 DEF DtNext

\* Recorded metadata vouch for the manifest that was recorded with them, and
\* what is in its place is whole, for any number of commands and kills.
THEOREM DtInvariant == DtSpec => []DtInv
<1>1. DtInv /\ [DtNext]_dtVars => DtInv'
  BY DtTypeStep, DtUnderWayStep, DtVouchStep DEF DtInv
<1> QED
  BY <1>1, DtInvInit, PTL DEF DtSpec

\* DtReadyTreesHold: only the check sets dtReady, and only to what it has seen.
THEOREM DtReadyTreesHoldAlways == DtSpec => DtReadyTreesHold
<1> DEFINE Holds == (~dtReady /\ dtReady') =>
          \A k \in DtKinds :
              /\ dtTree[k] # DtNil /\ dtTree[k].whole
              /\ dtTree[k] = dtLane[k].manifest
              /\ dtLane[k].by = "command" => dtMeta[k].lists = dtTree[k]
<1>1. ASSUME DtInv, [DtNext]_dtVars PROVE [Holds]_dtVars
  <2>1. CASE DtCheckReady
    <3> SUFFICES ASSUME ~dtReady, dtReady', NEW k \in DtKinds
                 PROVE  /\ dtTree[k] # DtNil /\ dtTree[k].whole
                        /\ dtTree[k] = dtLane[k].manifest
                        /\ dtLane[k].by = "command" => dtMeta[k].lists = dtTree[k]
      OBVIOUS
    <3>1. dtLane[k] # DtNil /\ DtLaneHolds(k)
      BY <2>1 DEF DtCheckReady
    <3>2. dtMeta[k] # DtNil /\ dtTree[k] # DtNil /\ dtTree[k].whole
      BY <1>1, <3>1 DEF DtInv, DtTypeOK
    <3> QED
      BY <1>1, <3>1, <3>2 DEF DtLaneHolds, DtInv, DtLanesVouch
  <2>2. CASE ~(~dtReady /\ dtReady')
    BY <2>2
  <2>3. dtReady' => dtReady \/ DtCheckReady
    BY <1>1 DEF DtNext, dtVars, dtFiles, DtBegin, DtRecover, DtCarve, DtTool, DtSupervised, DtFinalizeExternal,
       DtOpenManifest, DtWriteManifest, DtRename, DtDescribe, DtRecord, DtRecordByHand, DtRetrofit,
       DtReuse, DtRetrofitWrite, DtRetrofitDescribe, DtKill, DtOthers
  <2> QED
    BY <2>1, <2>2, <2>3
<1> HIDE DEF Holds
<1>2. DtSpec => [][Holds]_dtVars
  BY <1>1, DtInvariant, PTL DEF DtSpec
<1> QED
  BY <1>2 DEF DtReadyTreesHold, Holds

-----------------------------------------------------------------------------
(* ForensicVm: the extents                                                 *)

\* The extents of the first n blocks
Account(before, after, n, es) ==
    /\ es \in Extents
    /\ \A i \in DOMAIN es : es[i].first <= es[i].last /\ es[i].last < n
    /\ \A i \in 1 .. Len(es) - 1 : es[i].last + 1 < es[i + 1].first
    /\ \A b \in 0 .. n - 1 :
          before[b] # after[b] <=> \E i \in DOMAIN es : es[i].first <= b /\ b <= es[i].last

\* Extents are of blocks.
LEMMA ExtentsHold ==
  ASSUME NEW es \in Extents
  PROVE  /\ Len(es) \in Nat /\ DOMAIN es = 1 .. Len(es)
         /\ \A i \in DOMAIN es : /\ es[i] \in [first : Blocks, last : Blocks]
                               /\ es[i].first \in Nat /\ es[i].last \in Nat
<1>1. es \in Seq([first : Blocks, last : Blocks])
  BY DEF Extents
<1> DEFINE S == [first : Blocks, last : Blocks]
<1> HIDE DEF S
<1>2. Len(es) \in Nat /\ DOMAIN es = 1 .. Len(es) /\ \A i \in DOMAIN es : es[i] \in S
  <2>1. es \in Seq(S)
    BY <1>1 DEF S
  <2>2. Len(es) \in Nat /\ DOMAIN es = 1 .. Len(es)
    BY <2>1
  <2>3. ASSUME NEW i \in DOMAIN es PROVE es[i] \in S
    BY <2>1, <2>2
  <2> QED
    BY <2>2, <2>3
<1>3. \A b \in Blocks : b \in Nat
  BY VmConstants DEF Blocks
<1>4. \A e \in [first : Blocks, last : Blocks] : e.first \in Blocks /\ e.last \in Blocks
  OBVIOUS
<1> QED
  BY <1>2, <1>3, <1>4 DEF S

\* No block, no extent
LEMMA AccountNone ==
  ASSUME NEW before, NEW after
  PROVE  Account(before, after, 0, <<>>)
  BY DEF Account, Extents

\* The same extents, if the next block is the same
LEMMA AccountSame ==
  ASSUME NEW before, NEW after, NEW b \in Blocks, NEW es, Account(before, after, b, es),
         before[b] = after[b]
  PROVE  Account(before, after, b + 1, es)
<1> USE VmConstants DEF Blocks
<1>1. b \in Nat /\ \A c \in 0 .. b : c = b \/ c \in 0 .. b - 1
  OBVIOUS
<1>2. \A i \in DOMAIN es : es[i].first \in Nat /\ es[i].last \in Nat
  BY ExtentsHold DEF Account
<1>3. \A i \in DOMAIN es : es[i].last < b
  BY DEF Account
<1>4. \A i \in DOMAIN es : es[i].last < b + 1 /\ ~(b <= es[i].last)
  BY <1>1, <1>2, <1>3
<1> QED
  BY <1>1, <1>4 DEF Account

\* The last extent grows.
LEMMA AccountGrow ==
  ASSUME NEW before, NEW after, NEW b \in Blocks, NEW es, Account(before, after, b, es),
         before[b] # after[b], es # <<>>, es[Len(es)].last = b - 1
  PROVE  Account(before, after, b + 1, [es EXCEPT ![Len(es)].last = b])
<1> DEFINE new == [es EXCEPT ![Len(es)].last = b]
<1>0. b \in Nat
  BY VmConstants DEF Blocks
<1>1. es \in Seq([first : Blocks, last : Blocks]) /\ Len(es) \in Nat \ {0} /\ DOMAIN es = 1 .. Len(es)
      /\ Len(es) \in DOMAIN es
  BY DEF Account, Extents
<1>2. [es[Len(es)] EXCEPT !.last = b] \in [first : Blocks, last : Blocks]
  <2>1. es[Len(es)] \in [first : Blocks, last : Blocks]
    BY <1>1, ExtentsHold DEF Account
  <2> QED
    BY <2>1
<1>3. new \in Extents /\ Len(new) = Len(es) /\ DOMAIN new = DOMAIN es
  BY <1>1, <1>2 DEF Extents
<1>4. /\ new[Len(es)].first = es[Len(es)].first /\ new[Len(es)].last = b
      /\ \A i \in DOMAIN es \ {Len(es)} : new[i] = es[i]
  BY <1>1
<1> HIDE DEF new
<1>5. \A i \in DOMAIN es : es[i].first \in Nat /\ es[i].last \in Nat /\ es[i].first <= es[i].last /\ es[i].last < b
  BY ExtentsHold DEF Account
<1>6. \A i \in DOMAIN new : new[i].first = es[i].first
  BY <1>3, <1>4
<1>7. \A i \in DOMAIN new : new[i].first <= new[i].last /\ new[i].last < b + 1
  BY <1>0, <1>1, <1>3, <1>4, <1>5
<1>8. \A i \in 1 .. Len(new) - 1 : new[i].last + 1 < new[i + 1].first
  <2> SUFFICES ASSUME NEW i \in 1 .. Len(new) - 1 PROVE new[i].last + 1 < new[i + 1].first
    OBVIOUS
  <2>1. i \in DOMAIN es \ {Len(es)} /\ i + 1 \in DOMAIN new /\ i \in 1 .. Len(es) - 1
    <3>1. \A n \in Nat \ {0} : \A j \in 1 .. n - 1 : j \in (1 .. n) \ {n} /\ j + 1 \in 1 .. n
      OBVIOUS
    <3> QED
      BY <1>1, <1>3, <3>1
  <2>2. es[i].last + 1 < es[i + 1].first
    BY <2>1 DEF Account
  <2> QED
    BY <1>4, <1>6, <2>1, <2>2
<1>9. ASSUME NEW c \in 0 .. b
      PROVE  before[c] # after[c] <=> \E i \in DOMAIN new : new[i].first <= c /\ c <= new[i].last
  <2>1. CASE c = b
    <3>1. new[Len(es)].first <= c /\ c <= new[Len(es)].last
      BY <1>0, <1>1, <1>4, <1>5, <2>1
    <3> QED
      BY <1>1, <1>3, <2>1, <3>1
  <2>2. CASE c # b
    <3>1. c \in 0 .. b - 1 /\ c \in Nat
      BY <1>0, <2>2
    <3>2. \A i \in DOMAIN es : (new[i].first <= c /\ c <= new[i].last) <=> (es[i].first <= c /\ c <= es[i].last)
      BY <1>0, <1>1, <1>4, <1>5, <3>1
    <3> QED
      BY <1>3, <3>1, <3>2 DEF Account
  <2> QED
    BY <2>1, <2>2
<1>10. \A c \in 0 .. (b + 1) - 1 : c \in 0 .. b
  BY <1>0
<1> QED
  BY <1>3, <1>7, <1>8, <1>9, <1>10 DEF Account, new

\* A new extent is not next to the last.
LEMMA AccountNew ==
  ASSUME NEW before, NEW after, NEW b \in Blocks, NEW es, Account(before, after, b, es),
         before[b] # after[b], ~(es # <<>> /\ es[Len(es)].last = b - 1)
  PROVE  Account(before, after, b + 1, Append(es, [first |-> b, last |-> b]))
<1> DEFINE x == [first |-> b, last |-> b]
           new == Append(es, x)
<1>0. b \in Nat
  BY VmConstants DEF Blocks
<1>1. es \in Seq([first : Blocks, last : Blocks]) /\ Len(es) \in Nat /\ DOMAIN es = 1 .. Len(es)
  BY DEF Account, Extents
<1>2. x \in [first : Blocks, last : Blocks]
  OBVIOUS
<1>3. new \in Extents /\ Len(new) = Len(es) + 1 /\ DOMAIN new = 1 .. Len(es) + 1
  BY <1>1, <1>2 DEF Extents
<1>4. /\ new[Len(es) + 1] = x /\ x.first = b /\ x.last = b
      /\ \A i \in DOMAIN es : new[i] = es[i]
  BY <1>1, <1>2
<1> HIDE DEF new, x
<1>5. \A i \in DOMAIN es : es[i].first \in Nat /\ es[i].last \in Nat /\ es[i].first <= es[i].last /\ es[i].last < b
  BY ExtentsHold DEF Account
<1>6. \A i \in DOMAIN new : i = Len(es) + 1 \/ i \in DOMAIN es
  BY <1>1, <1>3
<1>7. \A i \in DOMAIN new : new[i].first <= new[i].last /\ new[i].last < b + 1
  BY <1>0, <1>4, <1>5, <1>6
<1>8. \A i \in 1 .. Len(new) - 1 : new[i].last + 1 < new[i + 1].first
  <2> SUFFICES ASSUME NEW i \in 1 .. Len(new) - 1 PROVE new[i].last + 1 < new[i + 1].first
    OBVIOUS
  <2>1. i \in DOMAIN es /\ i \in Nat /\ new[i] = es[i] /\ es # <<>>
    BY <1>1, <1>3, <1>4
  <2>2. CASE i = Len(es)
    <3>1. es[i].last # b - 1
      BY <2>1, <2>2
    <3> QED
      BY <1>0, <1>4, <1>5, <2>1, <2>2, <3>1
  <2>3. CASE i # Len(es)
    <3>1. i \in 1 .. Len(es) - 1 /\ i + 1 \in DOMAIN es
      BY <1>1, <2>1, <2>3
    <3> QED
      BY <1>4, <2>1, <3>1 DEF Account
  <2> QED
    BY <2>2, <2>3
<1>9. ASSUME NEW c \in 0 .. b
      PROVE  before[c] # after[c] <=> \E i \in DOMAIN new : new[i].first <= c /\ c <= new[i].last
  <2>1. CASE c = b
    <3>1. new[Len(es) + 1].first <= c /\ c <= new[Len(es) + 1].last /\ Len(es) + 1 \in DOMAIN new
      BY <1>0, <1>1, <1>3, <1>4, <2>1
    <3> QED
      BY <2>1, <3>1
  <2>2. CASE c # b
    <3>1. c \in 0 .. b - 1 /\ c \in Nat /\ ~(b <= c)
      BY <1>0, <2>2
    <3>2. \A i \in DOMAIN es : i \in DOMAIN new
      BY <1>1, <1>3
    <3>3. (\E i \in DOMAIN new : new[i].first <= c /\ c <= new[i].last)
            <=> (\E i \in DOMAIN es : es[i].first <= c /\ c <= es[i].last)
      BY <1>4, <1>6, <3>1, <3>2
    <3> QED
      BY <3>1, <3>3 DEF Account
  <2> QED
    BY <2>1, <2>2
<1>10. \A c \in 0 .. (b + 1) - 1 : c \in 0 .. b
  BY <1>0
<1> QED
  BY <1>3, <1>7, <1>8, <1>9, <1>10 DEF Account, new, x

\* Each block keeps the account.
LEMMA AccountBlock ==
  ASSUME NEW before, NEW after, NEW b \in Blocks, NEW es, Account(before, after, b, es)
  PROVE  Account(before, after, b + 1, WithBlock(before, after, es, b))
<1>1. CASE before[b] = after[b]
  BY <1>1, AccountSame DEF WithBlock
<1>2. CASE before[b] # after[b] /\ es # <<>> /\ es[Len(es)].last = b - 1
  BY <1>2, AccountGrow DEF WithBlock
<1>3. CASE before[b] # after[b] /\ ~(es # <<>> /\ es[Len(es)].last = b - 1)
  BY <1>3, AccountNew DEF WithBlock
<1> QED
  BY <1>1, <1>2, <1>3

\* changed_extents of any two images accounts for all their blocks.
LEMMA ExtentsAccount ==
  ASSUME NEW before, NEW after
  PROVE  Account(before, after, VmBlocks, ChangedExtents(before, after))
<1> DEFINE Upto(m, f) == f = [n \in 0 .. m |-> IF n = 0 THEN <<>> ELSE WithBlock(before, after, f[n - 1], n - 1)]
           Missing == {m \in 0 .. VmBlocks : ~ \E f : Upto(m, f)}
<1>0. VmBlocks \in Nat \ {0}
  BY VmConstants
<1>1. Missing = {}
  <2> SUFFICES ASSUME Missing # {} PROVE FALSE
    OBVIOUS
  <2>1. Missing \in SUBSET Nat
    BY <1>0
  <2>2. PICK m \in Missing : \A n \in Missing : ~(n < m)
    BY <2>1, LeastNumber
  <2>3. m # 0
    <3> DEFINE f == [n \in 0 .. 0 |-> <<>>]
    <3>1. Upto(0, f)
      OBVIOUS
    <3> QED
      BY <2>2, <3>1
  <2>4. m - 1 \in 0 .. VmBlocks /\ m - 1 < m /\ m \in Nat /\ m - 1 \in Nat
    BY <1>0, <2>2, <2>3
  <2>5. PICK g : Upto(m - 1, g)
    BY <2>2, <2>4
  <2> DEFINE f == [n \in 0 .. m |-> IF n < m THEN g[n] ELSE WithBlock(before, after, g[m - 1], m - 1)]
  <2>6. ASSUME NEW n \in 0 .. m
        PROVE  f[n] = IF n = 0 THEN <<>> ELSE WithBlock(before, after, f[n - 1], n - 1)
    <3>1. CASE n = 0
      <4>1. g[0] = <<>>
        BY <2>4, <2>5
      <4> QED
        BY <2>4, <3>1, <4>1
    <3>2. CASE n # 0 /\ n < m
      <4>1. n \in 0 .. m - 1 /\ n - 1 \in 0 .. m - 1 /\ n - 1 \in 0 .. m /\ n - 1 < m
        BY <2>4, <3>2
      <4>2. g[n] = WithBlock(before, after, g[n - 1], n - 1)
        BY <2>5, <3>2, <4>1
      <4>3. f[n] = g[n] /\ f[n - 1] = g[n - 1]
        BY <3>2, <4>1
      <4> QED
        BY <3>2, <4>2, <4>3
    <3>3. CASE n = m
      <4>1. n - 1 \in 0 .. m /\ n - 1 < m /\ ~(n < m)
        BY <2>4, <3>3
      <4>2. f[n - 1] = g[n - 1] /\ f[n] = WithBlock(before, after, g[n - 1], n - 1)
        BY <3>3, <4>1
      <4> QED
        BY <2>3, <3>3, <4>2
    <3> QED
      BY <2>4, <3>1, <3>2, <3>3
  <2>7. Upto(m, f)
    <3>1. f = [n \in 0 .. m |-> f[n]]
      OBVIOUS
    <3> HIDE DEF f
    <3> QED
      BY <2>6, <3>1
  <2> QED
    BY <2>2, <2>7
<1>2. \E f : Upto(VmBlocks, f)
  BY <1>0, <1>1
<1>3. ChangedExtents(before, after) = (CHOOSE f : Upto(VmBlocks, f))[VmBlocks]
  BY DEF ChangedExtents
<1> DEFINE upto == CHOOSE f : Upto(VmBlocks, f)
<1>4. Upto(VmBlocks, upto)
  <2> HIDE DEF Upto
  <2> QED
    BY <1>2
<1> HIDE DEF upto
<1>5. /\ upto[0] = <<>>
      /\ \A b \in Blocks : upto[b + 1] = WithBlock(before, after, upto[b], b)
  <2>1. upto[0] = <<>>
    BY <1>0, <1>4
  <2>2. ASSUME NEW b \in Blocks PROVE upto[b + 1] = WithBlock(before, after, upto[b], b)
    <3>1. b + 1 \in 0 .. VmBlocks /\ b + 1 # 0 /\ (b + 1) - 1 = b
      BY <1>0 DEF Blocks
    <3> QED
      BY <1>4, <3>1
  <2> QED
    BY <2>1, <2>2
<1> HIDE DEF Upto, Missing
<1> DEFINE Wrong == {n \in 0 .. VmBlocks : ~Account(before, after, n, upto[n])}
<1>6. Wrong = {}
  <2> SUFFICES ASSUME Wrong # {} PROVE FALSE
    OBVIOUS
  <2>1. Wrong \in SUBSET Nat
    BY <1>0
  <2>2. PICK m \in Wrong : \A n \in Wrong : ~(n < m)
    BY <2>1, LeastNumber
  <2>3. m # 0
    BY <1>5, <2>2, AccountNone
  <2>4. m - 1 \in Blocks /\ m - 1 \in 0 .. VmBlocks /\ m - 1 < m /\ (m - 1) + 1 = m
    BY <1>0, <2>2, <2>3 DEF Blocks
  <2>5. Account(before, after, m - 1, upto[m - 1])
    BY <2>2, <2>4
  <2>6. Account(before, after, m, upto[m])
    BY <1>5, <2>4, <2>5, AccountBlock
  <2> QED
    BY <2>2, <2>6
<1> QED
  BY <1>0, <1>3, <1>6 DEF upto

-----------------------------------------------------------------------------
(* ForensicVm: the runs                                                    *)

VmInRun == {"before", "proof", "launch", "running", "after", "verdict"}

\* Some run before the n-th is a completed scan of the target.
VmScanned(runs, n, target) ==
    \E k \in 1 .. n - 1 : /\ runs[k].mode = "scan" /\ runs[k].target = target
                          /\ runs[k].record # VmNil /\ runs[k].record.complete

\* What a run that is under way has seen; a container that goes on alone is of
\* a run, so that the derivative is there.
VmUnderWay ==
    /\ vmPc = "copy" => vmPartial \in Images
    /\ vmPc = "describe" => vmDerivative # VmNil
    /\ vmPc \in VmInRun => /\ vmDescriptor # VmNil /\ vmRuns # <<>>
                           /\ This.record = VmNil
    /\ vmPc = "proof" => This.mode = "repair" /\ vmBefore = vmDescriptor
    /\ vmPc \in {"launch", "running", "after", "verdict"} /\ This.mode = "repair" =>
          VmScanned(vmRuns, Len(vmRuns), This.target)
    /\ vmPc = "verdict" => vmAfter \in Images
    /\ vmStray => vmDescriptor # VmNil

\* What the i-th run has recorded accounts for the derivative.
VmRunAccounts(runs, i) ==
    LET run == runs[i]  record == run.record  es == record.extents
    IN  record # VmNil =>
          /\ record.before = Pristine
          /\ BlocksOf(es) = ChangedBlocks(record.before, record.after)
          /\ \A k \in 1 .. Len(es) - 1 : es[k].last + 1 < es[k + 1].first
          /\ run.mode = "scan" /\ record.complete => record.after = record.before
          /\ run.mode = "repair" /\ record.complete => VmScanned(runs, i, run.target)

VmInv == VmTypeOK /\ VmUnderWay /\ VmRunsAccount

\* The runs, one by one
LEMMA VmAccounts == VmRunsAccount <=> \A i \in DOMAIN vmRuns : VmRunAccounts(vmRuns, i)
  BY DEF VmRunsAccount, VmRunAccounts, VmScanned

\* Nothing is there but the source.
LEMMA VmInvInit == VmInit => VmInv
<1> SUFFICES ASSUME VmInit PROVE VmInv
  OBVIOUS
<1>1. Pristine \in Images
  BY DEF Pristine, Images
<1>2. <<>> \in Seq(VmRun) /\ DOMAIN <<>> = {}
  OBVIOUS
<1>3. VmTypeOK
  BY <1>1, <1>2 DEF VmInit, VmTypeOK, VmSteps
<1>4. VmUnderWay
  BY DEF VmInit, VmUnderWay, VmInRun
<1>5. VmRunsAccount
  BY <1>2 DEF VmInit, VmRunsAccount
<1> QED
  BY <1>3, <1>4, <1>5 DEF VmInv

\* Images stay images where a block is written.
LEMMA VmImageMove ==
  ASSUME NEW image \in Images, NEW b \in Blocks
  PROVE  [image EXCEPT ![b] = 1] \in Images /\ [image EXCEPT ![b] = 1] # VmNil
<1>1. [image EXCEPT ![b] = 1] \in Images
  BY DEF Images
<1> QED
  BY <1>1, VmConstants

\* A run is started behind the others.
LEMMA VmStartMove ==
  ASSUME NEW runs \in Seq(VmRun), NEW run \in VmRun
  PROVE  /\ Append(runs, run) \in Seq(VmRun) /\ Append(runs, run) # <<>>
         /\ Len(Append(runs, run)) = Len(runs) + 1 /\ Len(runs) \in Nat
         /\ DOMAIN runs = 1 .. Len(runs)
         /\ DOMAIN Append(runs, run) = 1 .. Len(runs) + 1
         /\ Append(runs, run)[Len(runs) + 1] = run
         /\ \A i \in 1 .. Len(runs) : Append(runs, run)[i] = runs[i]
  OBVIOUS

\* The last run gets its record.
LEMMA VmRecordMove ==
  ASSUME NEW runs \in Seq(VmRun), runs # <<>>, NEW r \in VmRecords
  PROVE  LET new == [runs EXCEPT ![Len(runs)].record = r]
         IN  /\ new \in Seq(VmRun) /\ Len(new) = Len(runs) /\ DOMAIN new = 1 .. Len(runs)
             /\ Len(runs) \in Nat \ {0}
             /\ \A i \in 1 .. Len(runs) - 1 : new[i] = runs[i]
             /\ new[Len(runs)].mode = runs[Len(runs)].mode
             /\ new[Len(runs)].target = runs[Len(runs)].target
             /\ new[Len(runs)].record = r
<1> DEFINE new == [runs EXCEPT ![Len(runs)].record = r]
<1>1. Len(runs) \in Nat \ {0} /\ DOMAIN runs = 1 .. Len(runs)
  BY EmptySeq
<1>2. runs[Len(runs)] \in VmRun
  BY <1>1
<1>3. \A run \in VmRun : /\ [run EXCEPT !.record = r] \in VmRun
                         /\ [run EXCEPT !.record = r].mode = run.mode
                         /\ [run EXCEPT !.record = r].target = run.target
                         /\ [run EXCEPT !.record = r].record = r
  BY DEF VmRun
<1>4. [runs[Len(runs)] EXCEPT !.record = r] \in VmRun
  BY <1>2, <1>3
<1>5. new = [runs EXCEPT ![Len(runs)] = [runs[Len(runs)] EXCEPT !.record = r]]
  OBVIOUS
<1>6. ASSUME NEW x \in VmRun
      PROVE  /\ [runs EXCEPT ![Len(runs)] = x] \in Seq(VmRun)
             /\ Len([runs EXCEPT ![Len(runs)] = x]) = Len(runs)
             /\ DOMAIN [runs EXCEPT ![Len(runs)] = x] = 1 .. Len(runs)
             /\ \A i \in 1 .. Len(runs) - 1 : [runs EXCEPT ![Len(runs)] = x][i] = runs[i]
             /\ [runs EXCEPT ![Len(runs)] = x][Len(runs)] = x
  <2>1. Len(runs) \in 1 .. Len(runs) /\ \A i \in 1 .. Len(runs) - 1 : i \in 1 .. Len(runs) /\ i # Len(runs)
    <3>1. \A n \in Nat \ {0} : n \in 1 .. n /\ \A i \in 1 .. n - 1 : i \in 1 .. n /\ i # n
      OBVIOUS
    <3> QED
      BY <1>1, <3>1
  <2>2. [runs EXCEPT ![Len(runs)] = x] \in Seq(VmRun) /\ Len([runs EXCEPT ![Len(runs)] = x]) = Len(runs)
    BY <2>1, ExceptSeq
  <2>3. DOMAIN [runs EXCEPT ![Len(runs)] = x] = DOMAIN runs
    OBVIOUS
  <2> QED
    BY <1>1, <2>1, <2>2, <2>3
<1> HIDE DEF new
<1> QED
  BY <1>1, <1>2, <1>3, <1>4, <1>5, <1>6 DEF new

\* What the extents of two images cover is where they differ.
LEMMA VmExtentsMove ==
  ASSUME NEW before \in Images, NEW after \in Images
  PROVE  LET es == ChangedExtents(before, after)
         IN  /\ es \in Extents
             /\ BlocksOf(es) = ChangedBlocks(before, after)
             /\ \A k \in 1 .. Len(es) - 1 : es[k].last + 1 < es[k + 1].first
<1> DEFINE es == ChangedExtents(before, after)
<1>1. Account(before, after, VmBlocks, es)
  BY ExtentsAccount
<1> HIDE DEF es
<1>2. es \in Extents /\ \A k \in 1 .. Len(es) - 1 : es[k].last + 1 < es[k + 1].first
  BY <1>1 DEF Account
<1>3. \A b \in Blocks : before[b] # after[b] <=> \E i \in DOMAIN es : es[i].first <= b /\ b <= es[i].last
  BY <1>1 DEF Account, Blocks
<1>4. \A i \in DOMAIN es : es[i].first \in Blocks /\ es[i].last \in Blocks
  BY <1>2, ExtentsHold
<1>5. \A f, l \in Blocks : \A b : b \in f .. l <=> b \in Blocks /\ f <= b /\ b <= l
  BY VmConstants DEF Blocks
<1>6. ASSUME NEW b PROVE b \in BlocksOf(es) <=> b \in ChangedBlocks(before, after)
  <2>1. b \in BlocksOf(es) <=> \E i \in DOMAIN es : b \in es[i].first .. es[i].last
    BY DEF BlocksOf
  <2>2. b \in BlocksOf(es) <=> \E i \in DOMAIN es : b \in Blocks /\ es[i].first <= b /\ b <= es[i].last
    BY <1>4, <1>5, <2>1
  <2> QED
    BY <1>3, <2>2 DEF ChangedBlocks
<1> QED
  BY <1>2, <1>6 DEF es

\* Everything but the end of a run leaves the records alone.
LEMMA VmTypeStep ==
  ASSUME VmTypeOK, VmUnderWay, [VmNext]_vmVars
  PROVE  VmTypeOK'
<1> USE DEF VmTypeOK, VmSteps, VmRaise, VmForget, VmEvent, vmFiles, vmLocal
<1>0. Pristine \in Images /\ VmNil \notin Images
  BY VmConstants DEF Pristine, Images
<1>1. CASE VmPrepare
  BY <1>1 DEF VmPrepare
<1>2. CASE VmPromote
  BY <1>0, <1>2 DEF VmPromote, VmUnderWay, VmInRun
<1>3. CASE VmDescribe
  BY <1>0, <1>3 DEF VmDescribe, VmUnderWay
<1>4. CASE VmStart
  <2>1. PICK mode \in {"scan", "repair"}, target \in VmTargets :
          vmRuns' = Append(vmRuns, [mode |-> mode, target |-> target, record |-> VmNil])
    BY <1>4 DEF VmStart
  <2>2. [mode |-> mode, target |-> target, record |-> VmNil] \in VmRun
    BY DEF VmRun
  <2>3. vmRuns' \in Seq(VmRun)
    BY <2>1, <2>2, VmStartMove
  <2>4. vmPc' = "before" /\ UNCHANGED <<vmSource, vmPartial, vmDerivative, vmDescriptor, vmStray,
                                        vmBefore, vmExit, vmFailure, vmGuest, vmAfter>>
    BY <1>4 DEF VmStart
  <2> QED
    BY <2>3, <2>4
<1>5. CASE VmBefore
  BY <1>0, <1>5 DEF VmBefore, VmUnderWay, VmInRun, VmIsDescribed
<1>6. CASE VmProof
  BY <1>6 DEF VmProof, VmUnderWay
<1>7. CASE VmLaunch
  BY <1>7 DEF VmLaunch
<1>8. CASE VmGuestWrites
  <2>1. vmDerivative \in Images
    BY <1>8 DEF VmGuestWrites, VmUnderWay, VmInRun
  <2>2. \A b \in Blocks : [vmDerivative EXCEPT ![b] = 1] \in Images
    BY <2>1, VmImageMove
  <2>3. vmDerivative' \in Images
    BY <1>8, <2>1, <2>2 DEF VmGuestWrites
  <2>4. /\ UNCHANGED <<vmSource, vmPartial, vmDescriptor, vmStray, vmRuns, vmPc>>
        /\ UNCHANGED <<vmBefore, vmExit, vmFailure, vmAfter>> /\ vmGuest' \in BOOLEAN
    BY <1>8 DEF VmGuestWrites
  <2> QED
    BY <1>0, <2>3, <2>4
<1>9. CASE VmEnds
  BY <1>9 DEF VmEnds
<1>10. CASE VmTimeout
  BY <1>10 DEF VmTimeout
<1>11. CASE VmAfter
  BY <1>11 DEF VmAfter
<1>12. CASE VmVerdict
  <2> DEFINE Record(c) == [complete |-> c, before |-> vmBefore, after |-> vmAfter,
                           extents |-> ChangedExtents(vmBefore, vmAfter)]
  <2>1. PICK c \in BOOLEAN : vmRuns' = [vmRuns EXCEPT ![Len(vmRuns)].record = Record(c)]
    BY <1>12 DEF VmVerdict
  <2>2. vmBefore \in Images /\ vmAfter \in Images /\ vmRuns # <<>>
    BY <1>12 DEF VmVerdict, VmUnderWay, VmInRun
  <2>3. Record(c) \in VmRecords
    BY <2>2, VmExtentsMove DEF VmRecords
  <2> HIDE DEF Record
  <2>4. vmRuns' \in Seq(VmRun)
    <3>1. [vmRuns EXCEPT ![Len(vmRuns)].record = Record(c)] \in Seq(VmRun)
      BY <2>2, <2>3, VmRecordMove
    <3> QED
      BY <2>1, <3>1
  <2>5. VmRaise /\ UNCHANGED <<vmFiles, vmEvents>>
    BY <1>12 DEF VmVerdict
  <2> QED
    BY <2>4, <2>5
<1>13. CASE VmKill
  BY <1>13 DEF VmKill
<1>14. CASE VmStrayEnds
  <2>1. /\ vmStray' = FALSE
        /\ UNCHANGED <<vmSource, vmPartial, vmDerivative, vmDescriptor, vmRuns, vmPc>>
        /\ UNCHANGED <<vmBefore, vmExit, vmFailure, vmGuest, vmAfter>>
    BY <1>14 DEF VmStrayEnds
  <2>2. vmStray' \in BOOLEAN /\ vmRuns' \in Seq(VmRun)
    BY <2>1
  <2>3. vmSource' \in Images /\ vmPartial' \in Images \cup {VmNil} /\ vmDerivative' \in Images \cup {VmNil}
    BY <2>1
  <2>4. vmBefore' \in Images \cup {VmNil} /\ vmAfter' \in Images \cup {VmNil}
    BY <2>1
  <2> QED
    BY <2>1, <2>2, <2>3, <2>4
<1>15. CASE VmOthers
  <2>1. \A b \in Blocks : [vmSource EXCEPT ![b] = 1] \in Images
    BY VmImageMove
  <2>2. vmSource' \in Images
    BY <1>15, <2>1 DEF VmOthers
  <2>3. /\ vmPartial' \in {vmPartial, VmNil} /\ vmDerivative' \in {vmDerivative, VmNil}
        /\ vmDescriptor # VmNil => vmDerivative' = vmDerivative
    BY <1>15 DEF VmOthers
  <2>4. vmPc = "idle" /\ UNCHANGED <<vmDescriptor, vmStray, vmRuns, vmPc, vmBefore, vmExit, vmFailure, vmGuest, vmAfter>>
    BY <1>15 DEF VmOthers
  <2> QED
    BY <2>2, <2>3, <2>4
<1>16. CASE UNCHANGED vmVars
  BY <1>16 DEF vmVars
<1> QED
  BY <1>1, <1>2, <1>3, <1>4, <1>5, <1>6, <1>7, <1>8, <1>9, <1>10, <1>11, <1>12, <1>13, <1>14,
     <1>15, <1>16 DEF VmNext

\* A run goes on with what it has seen.
LEMMA VmUnderWayStep ==
  ASSUME VmTypeOK, VmUnderWay, [VmNext]_vmVars
  PROVE  VmUnderWay'
<1> USE DEF VmTypeOK, VmUnderWay, VmInRun, VmRaise, VmForget, VmEvent, vmFiles, vmLocal, This
<1>0. Pristine \in Images /\ VmNil \notin Images
  BY VmConstants DEF Pristine, Images
<1>1. CASE VmPrepare
  BY <1>1 DEF VmPrepare
<1>2. CASE VmPromote
  BY <1>0, <1>2 DEF VmPromote
<1>3. CASE VmDescribe
  BY <1>0, <1>3 DEF VmDescribe
<1>4. CASE VmStart
  <2>1. PICK mode \in {"scan", "repair"}, target \in VmTargets :
          vmRuns' = Append(vmRuns, [mode |-> mode, target |-> target, record |-> VmNil])
    BY <1>4 DEF VmStart
  <2>2. [mode |-> mode, target |-> target, record |-> VmNil] \in VmRun
    BY DEF VmRun
  <2>3. vmRuns' # <<>> /\ vmRuns'[Len(vmRuns')] = [mode |-> mode, target |-> target, record |-> VmNil]
    BY <2>1, <2>2, VmStartMove
  <2>4. vmPc' = "before" /\ vmDescriptor # VmNil /\ UNCHANGED <<vmDescriptor, vmStray>>
    BY <1>4 DEF VmStart
  <2> QED
    BY <2>3, <2>4
<1>5. CASE VmBefore
  <2>1. CASE VmIsDescribed(vmDerivative)
    <3>1. vmBefore' = vmDescriptor /\ vmPc' = (IF This.mode = "repair" THEN "proof" ELSE "launch")
      BY <1>5, <2>1 DEF VmBefore, VmIsDescribed
    <3>2. vmPc = "before" /\ UNCHANGED <<vmRuns, vmDescriptor, vmStray>>
      BY <1>5 DEF VmBefore
    <3> QED
      BY <3>1, <3>2
  <2>2. CASE ~VmIsDescribed(vmDerivative)
    BY <1>5, <2>2 DEF VmBefore
  <2> QED
    BY <2>1, <2>2
<1>6. CASE VmProof
  <2>1. CASE vmPc' = "idle"
    BY <1>6, <2>1 DEF VmProof
  <2>2. CASE vmPc' = "launch"
    <3>1. PICK i \in DOMAIN vmRuns : VmProves(vmRuns[i])
      BY <1>6, <2>2 DEF VmProof
    <3>2. vmPc = "proof" /\ UNCHANGED <<vmRuns, vmDescriptor, vmStray, vmBefore>>
      BY <1>6, <2>2 DEF VmProof
    <3>3. i # Len(vmRuns)
      BY <3>1, <3>2 DEF VmProves
    <3>4. DOMAIN vmRuns = 1 .. Len(vmRuns) /\ Len(vmRuns) \in Nat
      OBVIOUS
    <3>5. i \in 1 .. Len(vmRuns) - 1
      BY <3>3, <3>4
    <3>6. VmScanned(vmRuns, Len(vmRuns), This.target)
      BY <3>1, <3>5 DEF VmProves, VmScanned
    <3> QED
      BY <2>2, <3>2, <3>6
  <2> QED
    BY <1>6, <2>1, <2>2 DEF VmProof
<1>7. CASE VmLaunch
  BY <1>7 DEF VmLaunch
<1>8. CASE VmGuestWrites
  <2>1. vmDerivative \in Images
    BY <1>8 DEF VmGuestWrites
  <2>2. vmDerivative' # VmNil
    BY <1>8, <2>1, VmImageMove DEF VmGuestWrites
  <2> QED
    BY <1>8, <2>2 DEF VmGuestWrites
<1>9. CASE VmEnds
  BY <1>9 DEF VmEnds
<1>10. CASE VmTimeout
  BY <1>10 DEF VmTimeout
<1>11. CASE VmAfter
  BY <1>11 DEF VmAfter
<1>12. CASE VmVerdict
  BY <1>12 DEF VmVerdict
<1>13. CASE VmKill
  BY <1>13 DEF VmKill
<1>14. CASE VmStrayEnds
  BY <1>14 DEF VmStrayEnds
<1>15. CASE VmOthers
  BY <1>15 DEF VmOthers
<1>16. CASE UNCHANGED vmVars
  BY <1>16 DEF vmVars
<1> QED
  BY <1>1, <1>2, <1>3, <1>4, <1>5, <1>6, <1>7, <1>8, <1>9, <1>10, <1>11, <1>12, <1>13, <1>14,
     <1>15, <1>16 DEF VmNext

\* A run is started without a record and gets one that accounts for it; the
\* records before it stay.
LEMMA VmAccountStep ==
  ASSUME VmTypeOK, VmUnderWay, VmRunsAccount, [VmNext]_vmVars
  PROVE  VmRunsAccount'
<1>0. \A i \in DOMAIN vmRuns : VmRunAccounts(vmRuns, i)
  BY VmAccounts
<1>1. vmRuns \in Seq(VmRun) /\ Len(vmRuns) \in Nat /\ DOMAIN vmRuns = 1 .. Len(vmRuns)
  BY DEF VmTypeOK
<1>s. ASSUME NEW new, NEW i \in 1 .. Len(vmRuns), new[i] = vmRuns[i],
             \A k \in 1 .. i - 1 : new[k] = vmRuns[k]
      PROVE  VmRunAccounts(new, i)
  <2>1. VmRunAccounts(vmRuns, i)
    BY <1>0, <1>1
  <2>2. \A target : VmScanned(vmRuns, i, target) => VmScanned(new, i, target)
    BY <1>s DEF VmScanned
  <2> QED
    BY <1>s, <2>1, <2>2 DEF VmRunAccounts
<1>2. CASE VmStart
  <2>1. PICK mode \in {"scan", "repair"}, target \in VmTargets :
          vmRuns' = Append(vmRuns, [mode |-> mode, target |-> target, record |-> VmNil])
    BY <1>2 DEF VmStart
  <2>2. [mode |-> mode, target |-> target, record |-> VmNil] \in VmRun
    BY DEF VmRun
  <2>3. /\ DOMAIN vmRuns' = 1 .. Len(vmRuns) + 1
        /\ \A i \in 1 .. Len(vmRuns) : vmRuns'[i] = vmRuns[i]
        /\ vmRuns'[Len(vmRuns) + 1].record = VmNil
    BY <1>1, <2>1, <2>2, VmStartMove
  <2>4. ASSUME NEW i \in 1 .. Len(vmRuns) PROVE VmRunAccounts(vmRuns', i)
    <3>1. \A k \in 1 .. i - 1 : k \in 1 .. Len(vmRuns)
      BY <1>1
    <3> QED
      BY <1>s, <2>3, <3>1
  <2>5. VmRunAccounts(vmRuns', Len(vmRuns) + 1)
    BY <2>3 DEF VmRunAccounts
  <2>6. \A i \in 1 .. Len(vmRuns) + 1 : i \in 1 .. Len(vmRuns) \/ i = Len(vmRuns) + 1
    BY <1>1
  <2>7. \A i \in DOMAIN vmRuns' : VmRunAccounts(vmRuns', i)
    BY <2>3, <2>4, <2>5, <2>6
  <2> QED
    BY <2>7 DEF VmRunsAccount, VmRunAccounts, VmScanned
<1>3. CASE VmVerdict
  <2> DEFINE n == Len(vmRuns)
             es == ChangedExtents(vmBefore, vmAfter)
             Record(c) == [complete |-> c, before |-> vmBefore, after |-> vmAfter, extents |-> es]
  <2>1. PICK c \in BOOLEAN : /\ vmRuns' = [vmRuns EXCEPT ![Len(vmRuns)].record = Record(c)]
                             /\ This.mode = "scan" /\ c => vmAfter = vmBefore
    BY <1>3 DEF VmVerdict
  <2>2. vmBefore \in Images /\ vmBefore = Pristine /\ vmAfter \in Images /\ vmRuns # <<>> /\ vmPc = "verdict"
    BY <1>3, VmConstants DEF VmVerdict, VmUnderWay, VmInRun, VmTypeOK
  <2>3. Record(c) \in VmRecords
    BY <2>2, VmExtentsMove DEF VmRecords
  <2>4. /\ DOMAIN vmRuns' = 1 .. n /\ n \in Nat \ {0}
        /\ \A i \in 1 .. n - 1 : vmRuns'[i] = vmRuns[i]
        /\ vmRuns'[n].mode = This.mode /\ vmRuns'[n].target = This.target
        /\ vmRuns'[n].record = Record(c)
    BY <1>1, <2>1, <2>2, <2>3, VmRecordMove DEF This
  <2>5. ASSUME NEW i \in 1 .. n - 1 PROVE VmRunAccounts(vmRuns', i)
    <3>1. i \in 1 .. n /\ \A k \in 1 .. i - 1 : k \in 1 .. n - 1
      BY <2>4
    <3> QED
      BY <1>s, <2>4, <3>1
  <2>6. VmRunAccounts(vmRuns', n)
    <3>1. /\ BlocksOf(es) = ChangedBlocks(vmBefore, vmAfter)
          /\ \A k \in 1 .. Len(es) - 1 : es[k].last + 1 < es[k + 1].first
      BY <2>2, VmExtentsMove
    <3>2. This.mode = "repair" => VmScanned(vmRuns', n, This.target)
      <4>1. This.mode = "repair" => VmScanned(vmRuns, n, This.target)
        BY <2>2 DEF VmUnderWay
      <4> QED
        BY <2>4, <4>1 DEF VmScanned
    <3>3. /\ Record(c).before = vmBefore /\ Record(c).after = vmAfter /\ Record(c).extents = es
          /\ Record(c).complete = c
      OBVIOUS
    <3> HIDE DEF Record, es
    <3> QED
      BY <2>1, <2>2, <2>4, <3>1, <3>2, <3>3 DEF VmRunAccounts
  <2>7. \A i \in 1 .. n : i \in 1 .. n - 1 \/ i = n
    BY <2>4
  <2>8. \A i \in DOMAIN vmRuns' : VmRunAccounts(vmRuns', i)
    BY <2>4, <2>5, <2>6, <2>7
  <2> QED
    BY <2>8 DEF VmRunsAccount, VmRunAccounts, VmScanned
<1>4. CASE UNCHANGED vmRuns
  BY <1>4 DEF VmRunsAccount
<1> QED
  BY <1>2, <1>3, <1>4 DEF VmNext, vmVars, VmPrepare, VmPromote, VmDescribe, VmBefore, VmProof,
     VmLaunch, VmGuestWrites, VmEnds, VmTimeout, VmAfter, VmKill, VmStrayEnds, VmOthers

\* Every record of a run accounts for the derivative, for images of any size
\* and any number of runs, kills and containers left alone.
THEOREM VmInvariant == VmSpec => []VmInv
<1>1. VmInv /\ [VmNext]_vmVars => VmInv'
  BY VmTypeStep, VmUnderWayStep, VmAccountStep DEF VmInv
<1> QED
  BY <1>1, VmInvInit, PTL DEF VmSpec

\* VmRunsAccount: as the run checks it
THEOREM VmRunsAccountAlways == VmSpec => []VmRunsAccount
<1>1. VmInv => VmRunsAccount
  BY DEF VmInv
<1> QED
  BY <1>1, VmInvariant, PTL

-----------------------------------------------------------------------------
(* PatternAnalysis: lines                                                  *)

Texts01 == Seq({0, 1})

\* The newlines among the first n bytes
LinesTo(text, n) == Cardinality({i \in 1 .. n : text[i] = 1})

\* Byte by byte
LEMMA LinesNext ==
  ASSUME NEW text, NEW n \in Nat
  PROVE  /\ IsFiniteSet({i \in 1 .. n : text[i] = 1}) /\ LinesTo(text, n) \in Nat
         /\ LinesTo(text, 0) = 0
         /\ LinesTo(text, n + 1) = LinesTo(text, n) + (IF text[n + 1] = 1 THEN 1 ELSE 0)
<1> DEFINE Ones(k) == {i \in 1 .. k : text[i] = 1}
<1>1. \A k \in Nat : IsFiniteSet(Ones(k))
  <2> SUFFICES ASSUME NEW k \in Nat PROVE IsFiniteSet(Ones(k))
    OBVIOUS
  <2>1. IsFiniteSet(1 .. k)
    BY FS_Interval
  <2>2. Ones(k) \in SUBSET (1 .. k)
    OBVIOUS
  <2> QED
    BY <2>1, <2>2, FS_Subset
<1>2. Cardinality(Ones(n)) \in Nat
  BY <1>1, FS_CardinalityType
<1>3. Ones(0) = {}
  OBVIOUS
<1>4. Cardinality(Ones(0)) = 0
  BY <1>3, FS_EmptySet
<1>5. Ones(n + 1) = IF text[n + 1] = 1 THEN Ones(n) \cup {n + 1} ELSE Ones(n)
  OBVIOUS
<1>6. n + 1 \notin Ones(n)
  OBVIOUS
<1>7. Cardinality(Ones(n) \cup {n + 1}) = Cardinality(Ones(n)) + 1
  BY <1>1, <1>6, FS_AddElement
<1> HIDE DEF Ones
<1>8. Cardinality(Ones(n + 1)) = Cardinality(Ones(n)) + (IF text[n + 1] = 1 THEN 1 ELSE 0)
  <2>1. CASE text[n + 1] = 1
    BY <1>5, <1>7, <2>1
  <2>2. CASE text[n + 1] # 1
    BY <1>2, <1>5, <2>2
  <2> QED
    BY <2>1, <2>2
<1> QED
  BY <1>1, <1>2, <1>4, <1>8 DEF LinesTo, Ones

\* Lines are numbers.
LEMMA LinesNat == \A text : \A n \in Nat : LinesTo(text, n) \in Nat
  BY LinesNext

\* More bytes have no fewer lines.
LEMMA LinesGrow ==
  ASSUME NEW text, NEW m \in Nat, NEW n \in Nat, m <= n
  PROVE  LinesTo(text, m) <= LinesTo(text, n)
<1>1. {i \in 1 .. m : text[i] = 1} \in SUBSET {i \in 1 .. n : text[i] = 1}
  OBVIOUS
<1>2. IsFiniteSet({i \in 1 .. n : text[i] = 1})
  BY LinesNext
<1> QED
  BY <1>1, <1>2, FS_Subset DEF LinesTo

\* Lines of a text and of its beginnings
LEMMA LinesOfText ==
  ASSUME NEW text \in Texts01, NEW n \in 0 .. Len(text)
  PROVE  /\ Lines(text) = LinesTo(text, Len(text))
         /\ SubSeq(text, 1, n) \in Texts01 /\ Len(SubSeq(text, 1, n)) = n
         /\ \A i \in 1 .. n : SubSeq(text, 1, n)[i] = text[i]
         /\ Lines(SubSeq(text, 1, n)) = LinesTo(text, n)
<1>1. Len(text) \in Nat /\ DOMAIN text = 1 .. Len(text) /\ n \in Nat
  BY DEF Texts01
<1>2. Lines(text) = LinesTo(text, Len(text))
  BY <1>1 DEF Lines, LinesTo
<1>3. \A i \in 1 .. n : text[i] \in {0, 1}
  <2> SUFFICES ASSUME NEW i \in 1 .. n PROVE text[i] \in {0, 1}
    OBVIOUS
  <2>1. i \in 1 .. Len(text)
    BY <1>1
  <2> QED
    BY <2>1, ElementOfSeq DEF Texts01
<1>4. /\ SubSeq(text, 1, n) \in Seq({0, 1})
      /\ Len(SubSeq(text, 1, n)) = IF 1 <= n THEN n - 1 + 1 ELSE 0
      /\ \A i \in 1 .. n - 1 + 1 : SubSeq(text, 1, n)[i] = text[1 + i - 1]
  BY <1>1, <1>3, SubSeqProperties
<1>5. Len(SubSeq(text, 1, n)) = n
  BY <1>1, <1>4
<1>6. \A i \in 1 .. n : SubSeq(text, 1, n)[i] = text[i]
  <2> SUFFICES ASSUME NEW i \in 1 .. n PROVE SubSeq(text, 1, n)[i] = text[i]
    OBVIOUS
  <2>1. i \in 1 .. n - 1 + 1 /\ 1 + i - 1 = i
    BY <1>1
  <2> QED
    BY <1>4, <2>1
<1>7. DOMAIN SubSeq(text, 1, n) = 1 .. n
  BY <1>4, <1>5, LenProperties
<1>8. {i \in DOMAIN SubSeq(text, 1, n) : SubSeq(text, 1, n)[i] = 1} = {i \in 1 .. n : text[i] = 1}
  BY <1>6, <1>7
<1> QED
  BY <1>2, <1>4, <1>5, <1>6, <1>8 DEF Lines, LinesTo, Texts01

\* Lines of what follows add up.
LEMMA LinesSplit ==
  ASSUME NEW text, NEW data, NEW a \in Nat, NEW m \in Nat, \A i \in 1 .. m : data[i] = text[a + i]
  PROVE  LinesTo(text, a + m) = LinesTo(text, a) + LinesTo(data, m)
<1> DEFINE Wrong == {k \in 0 .. m : LinesTo(text, a + k) # LinesTo(text, a) + LinesTo(data, k)}
<1> SUFFICES Wrong = {}
  OBVIOUS
<1> SUFFICES ASSUME Wrong # {} PROVE FALSE
  OBVIOUS
<1>1. Wrong \in SUBSET Nat
  OBVIOUS
<1>2. PICK k \in Wrong : \A n \in Wrong : ~(n < k)
  BY <1>1, LeastNumber
<1>3. k # 0
  <2>1. LinesTo(data, 0) = 0
    BY LinesNext
  <2>2. LinesTo(text, a) \in Nat
    BY LinesNext
  <2>3. a + 0 = a
    OBVIOUS
  <2>4. LinesTo(text, a) = LinesTo(text, a) + 0
    BY <2>2
  <2> QED
    BY <1>2, <2>1, <2>3, <2>4
<1>4. k \in Nat /\ k \in 1 .. m /\ k - 1 \in 0 .. m /\ k - 1 < k /\ k - 1 \in Nat /\ a + (k - 1) \in Nat
      /\ (k - 1) + 1 = k /\ (a + (k - 1)) + 1 = a + k
  BY <1>2, <1>3
<1>5. LinesTo(text, a + (k - 1)) = LinesTo(text, a) + LinesTo(data, k - 1)
  BY <1>2, <1>4
<1>6. LinesTo(text, a + k) = LinesTo(text, a + (k - 1)) + (IF text[a + k] = 1 THEN 1 ELSE 0)
  <2>1. \A j \in Nat : LinesTo(text, j + 1) = LinesTo(text, j) + (IF text[j + 1] = 1 THEN 1 ELSE 0)
    BY LinesNext
  <2> HIDE DEF Wrong
  <2>2. LinesTo(text, (a + (k - 1)) + 1)
          = LinesTo(text, a + (k - 1)) + (IF text[(a + (k - 1)) + 1] = 1 THEN 1 ELSE 0)
    BY <1>4, <2>1
  <2> QED
    BY <1>4, <2>2
<1>7. LinesTo(data, k) = LinesTo(data, k - 1) + (IF data[k] = 1 THEN 1 ELSE 0)
  <2>1. \A j \in Nat : LinesTo(data, j + 1) = LinesTo(data, j) + (IF data[j + 1] = 1 THEN 1 ELSE 0)
    BY LinesNext
  <2> HIDE DEF Wrong
  <2>2. LinesTo(data, (k - 1) + 1)
          = LinesTo(data, k - 1) + (IF data[(k - 1) + 1] = 1 THEN 1 ELSE 0)
    BY <1>4, <2>1
  <2> QED
    BY <1>4, <2>2
<1>8. LinesTo(text, a) \in Nat /\ LinesTo(data, k - 1) \in Nat
  BY <1>4, LinesNext
<1>9. data[k] = text[a + k]
  BY <1>4
<1> HIDE DEF Wrong
<1>10. LinesTo(text, a + k) = LinesTo(text, a) + LinesTo(data, k)
  BY <1>5, <1>6, <1>7, <1>8, <1>9
<1> QED
  BY <1>2, <1>10 DEF Wrong

\* Where there are more lines than some number, one newline is the one of
\* that number.
LEMMA LinesReached ==
  ASSUME NEW text, NEW n \in Nat, NEW left \in Nat \ {0}, LinesTo(text, n) > left
  PROVE  \E k \in 1 .. n : text[k] = 1 /\ LinesTo(text, k) = left
<1> DEFINE Enough == {k \in 0 .. n : LinesTo(text, k) >= left}
<1>0. \A k \in Nat : LinesTo(text, k) \in Nat
  BY LinesNext
<1>1. Enough \in SUBSET Nat /\ n \in Enough
  BY <1>0
<1>2. PICK k \in Enough : \A j \in Enough : ~(j < k)
  BY <1>1, LeastNumber
<1>3. k # 0
  <2>1. LinesTo(text, 0) = 0
    BY LinesNext
  <2> QED
    BY <1>2, <2>1
<1>4. k \in Nat /\ k \in 1 .. n /\ k - 1 \in 0 .. n /\ k - 1 < k /\ k - 1 \in Nat /\ (k - 1) + 1 = k
  BY <1>2, <1>3
<1>5. LinesTo(text, k) = LinesTo(text, k - 1) + (IF text[k] = 1 THEN 1 ELSE 0)
  BY <1>4, LinesNext
<1>6. ~(LinesTo(text, k - 1) >= left) /\ LinesTo(text, k) >= left
  BY <1>2, <1>4
<1>7. LinesTo(text, k - 1) \in Nat
  BY <1>0, <1>4
<1> HIDE DEF Enough
<1>8. text[k] = 1 /\ LinesTo(text, k) = left
  BY <1>5, <1>6, <1>7
<1> QED
  BY <1>4, <1>8

\* What OutputBudget admits keeps both limits, and if it is not all, one of
\* them is reached.
LEMMA PaAdmits ==
  ASSUME NEW data \in Texts01, paBytes \in 0 .. PaMaxBytes, paLines \in 0 .. PaMaxLines
  PROVE  LET n == PaAdmitted(data)
         IN  /\ n \in 0 .. Len(data)
             /\ paBytes + n <= PaMaxBytes /\ paLines + LinesTo(data, n) <= PaMaxLines
             /\ n < Len(data) =>
                  \/ paBytes < PaMaxBytes /\ paLines + LinesTo(data, n) = PaMaxLines
                  \/ paBytes + n = PaMaxBytes
<1> DEFINE room == PaMaxBytes - paBytes
           size == IF Len(data) <= room THEN Len(data) ELSE room
           cut  == SubSeq(data, 1, size)
           left == PaMaxLines - paLines
           n    == PaAdmitted(data)
<1>1. room \in Nat /\ left \in Nat /\ Len(data) \in Nat /\ size \in 0 .. Len(data) /\ size <= room /\ size \in Nat
      /\ PaMaxBytes \in Nat /\ PaMaxLines \in Nat /\ paBytes \in Nat /\ paLines \in Nat
  BY PaConstants DEF Texts01
<1>2. /\ cut \in Texts01 /\ Len(cut) = size /\ Lines(cut) = LinesTo(data, size)
      /\ \A i \in 1 .. size : cut[i] = data[i]
  BY <1>1, LinesOfText
<1>3. n = IF left <= 0 THEN 0
          ELSE IF Lines(cut) > left
          THEN CHOOSE k \in DOMAIN cut : cut[k] = 1 /\ Lines(SubSeq(cut, 1, k)) = left
          ELSE Len(cut)
  BY DEF PaAdmitted
<1>4. \A k \in Nat : LinesTo(data, k) \in Nat
  BY LinesNext
<1>5. LinesTo(data, 0) = 0
  BY LinesNext
<1>6. paBytes + room = PaMaxBytes /\ paLines + left = PaMaxLines /\ (size < Len(data) => size = room)
  BY <1>1
<1> HIDE DEF n, cut, size, room, left
<1>7. CASE left <= 0
  <2>1. n = 0 /\ left = 0
    BY <1>1, <1>3, <1>7
  <2> QED
    BY <1>1, <1>5, <1>6, <2>1 DEF n
<1>8. CASE left > 0 /\ Lines(cut) > left
  <2> DEFINE Fits(k) == cut[k] = 1 /\ Lines(SubSeq(cut, 1, k)) = left
  <2>1. LinesTo(data, size) > left /\ left \in Nat \ {0}
    BY <1>1, <1>2, <1>8
  <2>2. PICK k \in 1 .. size : data[k] = 1 /\ LinesTo(data, k) = left
    BY <1>1, <2>1, LinesReached
  <2>3. DOMAIN cut = 1 .. size
    BY <1>2 DEF Texts01
  <2>4. \A j \in 1 .. size : Lines(SubSeq(cut, 1, j)) = LinesTo(data, j)
    <3> SUFFICES ASSUME NEW j \in 1 .. size PROVE Lines(SubSeq(cut, 1, j)) = LinesTo(data, j)
      OBVIOUS
    <3>1. j \in 0 .. Len(cut) /\ \A i \in 1 .. j : i \in 1 .. size
      BY <1>1, <1>2
    <3>2. Lines(SubSeq(cut, 1, j)) = LinesTo(cut, j)
      BY <1>2, <3>1, LinesOfText
    <3>3. {i \in 1 .. j : cut[i] = 1} = {i \in 1 .. j : data[i] = 1}
      BY <1>2, <3>1
    <3> QED
      BY <3>2, <3>3 DEF LinesTo
  <2>5. n = CHOOSE j \in DOMAIN cut : Fits(j)
    BY <1>1, <1>3, <1>8
  <2>6. k \in DOMAIN cut /\ Fits(k)
    BY <1>2, <2>2, <2>3, <2>4
  <2> HIDE DEF Fits
  <2>7. n \in DOMAIN cut /\ Fits(n)
    BY <2>5, <2>6
  <2>8. n \in 1 .. size /\ LinesTo(data, n) = left
    BY <2>3, <2>4, <2>7 DEF Fits
  <2>9. n \in 0 .. Len(data) /\ paBytes + n <= PaMaxBytes
    BY <1>1, <1>6, <2>8
  <2>10. paLines + LinesTo(data, n) = PaMaxLines
    BY <1>6, <2>8
  <2>11. paBytes < PaMaxBytes \/ paBytes + n = PaMaxBytes
    BY <1>1, <2>9
  <2> QED
    BY <1>1, <2>9, <2>10, <2>11 DEF n
<1>9. CASE left > 0 /\ ~(Lines(cut) > left)
  <2>1. n = size /\ LinesTo(data, n) <= left
    BY <1>1, <1>2, <1>3, <1>4, <1>9
  <2>2. paLines + LinesTo(data, n) <= PaMaxLines
    BY <1>1, <1>4, <1>6, <2>1
  <2> QED
    BY <1>1, <1>6, <2>1, <2>2 DEF n
<1> QED
  BY <1>1, <1>7, <1>8, <1>9

-----------------------------------------------------------------------------
(* PatternAnalysis: the budget and the record                              *)

PaOutput == [run : Nat, text : Texts01]
PaCapture == [PaStreams -> PaOutput \cup {PaNil}]

PaShape ==
    /\ paOut \in [PaJobs -> PaCapture]
    /\ paPc \in PaSteps /\ paOpen \subseteq PaJobs /\ paAt \in PaJobs \cup {PaNil}
    /\ paTool \in [PaStreams -> Texts01]
    /\ paTaken \in [PaStreams -> Nat] /\ paHeld \in [PaStreams -> Nat]
    /\ paWritten \in [PaStreams -> Nat]
    /\ paReader \in [PaStreams -> {"reading", "writing", "done", "dead"}]
    /\ paBytes \in 0 .. PaMaxBytes /\ paLines \in 0 .. PaMaxLines
    /\ paStop \in BOOLEAN /\ paTruncated = paStop
    /\ paReason \in {PaNil, "bytes", "lines"} /\ paStop = (paReason # PaNil)
    /\ paEnd \in {PaNil, "accepted", "not_accepted", "terminated"} /\ paTimedOut \in BOOLEAN
    /\ paRuns \in Nat

\* A stream is written up to what was read as long as nothing was refused; a
\* thread that ends of its own accord has read all, unless the tool was
\* terminated.
PaStreamOK(tool, taken, held, written, reader) ==
    /\ taken <= Len(tool) /\ written + held <= taken
    /\ reader \in {"reading", "done"} => held = 0
    /\ reader = "reading" => written = taken
    /\ reader = "writing" /\ ~paStop => written + held = taken
    /\ reader = "done" /\ ~paStop /\ paEnd # "terminated" => written = Len(tool)

PaStreamsInv ==
    \A s \in PaStreams : PaStreamOK(paTool[s], paTaken[s], paHeld[s], paWritten[s], paReader[s])

\* The budget counts what both threads may write, and once it has refused
\* something, one of them has not written all that it read.
Kept(s) == paWritten[s] + paHeld[s]
PaBudgetInv ==
    /\ paBytes = Kept("stdout") + Kept("stderr")
    /\ paLines = LinesTo(paTool["stdout"], Kept("stdout")) + LinesTo(paTool["stderr"], Kept("stderr"))
    /\ paReason = "bytes" => paBytes = PaMaxBytes
    /\ paReason = "lines" => paLines = PaMaxLines
    /\ paStop => \E s \in PaStreams : Kept(s) < paTaken[s]

PaInJob == {"polling", "joining", "unlink", "stdout", "stderr", "classify"}

\* The job under way is none of those done or to be done; its captures are
\* replaced when nothing vouches for them.
PaJobInv ==
    /\ paPc \notin {"polling", "joining"} => \A s \in PaStreams : paReader[s] \in {"done", "dead"}
    /\ paPc = "polling" => paEnd = PaNil
    /\ DOMAIN paResults \subseteq PaJobs
    /\ paPc \in PaInJob => paAt \in PaJobs /\ paAt \notin paOpen /\ paAt \notin DOMAIN paResults
    /\ paPc \in PaInJob \cup {"jobs"} => paOpen \cap DOMAIN paResults = {}
    /\ paPc \in {"stdout", "stderr"} => paProv = PaNil
    /\ paPc \in {"stderr", "classify"} => paOut[paAt]["stdout"].text = Captured("stdout").text
    /\ paPc = "classify" => paOut[paAt]["stderr"].text = Captured("stderr").text

\* Results that are true of the outputs
PaTrue(results) ==
    \A j \in DOMAIN results : results[j] # PaNil =>
        /\ PaOutputsAreThose(j, results[j])
        /\ PaWithinLimits(results[j])
        /\ PaCompletedIsWhole(results[j])
PaTruthInv == PaTrue(paResults) /\ (paProv # PaNil => DOMAIN paProv \subseteq PaJobs /\ PaTrue(paProv))

PaInv == PaShape /\ PaStreamsInv /\ PaBudgetInv /\ PaJobInv /\ PaTruthInv

\* No run
LEMMA PaInvInit == PaInit => PaInv
<1> SUFFICES ASSUME PaInit PROVE PaInv
  OBVIOUS
<1>1. /\ PaMaxBytes \in Nat /\ PaMaxLines \in Nat /\ 0 \in 0 .. PaMaxBytes /\ 0 \in 0 .. PaMaxLines
      /\ PaNil \notin {"bytes", "lines", "terminated"}
  BY PaConstants
<1>2. <<>> \in Texts01 /\ Len(<<>>) = 0 /\ DOMAIN <<>> = {}
  BY DEF Texts01
<1>3. \A t : LinesTo(t, 0) = 0
  BY LinesNext
<1>4. [s \in PaStreams |-> PaNil] \in PaCapture
  BY DEF PaCapture
<1>5. PaShape
  BY <1>1, <1>2, <1>4 DEF PaInit, PaShape, PaSteps, Quiet, Nothing
<1>6. PaStreamsInv
  BY <1>1, <1>2 DEF PaInit, PaStreamsInv, PaStreamOK, Quiet, Nothing
<1>7. PaBudgetInv
  BY <1>1, <1>3 DEF PaInit, PaBudgetInv, Kept, Nothing, PaStreams
<1>8. PaJobInv
  BY <1>2 DEF PaInit, PaJobInv, PaInJob
<1>9. PaTruthInv
  BY <1>2 DEF PaInit, PaTruthInv, PaTrue
<1> QED
  BY <1>5, <1>6, <1>7, <1>8, <1>9 DEF PaInv

\* A tool and its threads start, or are gone: nothing read, nothing counted.
PaClean == /\ paTaken' = Nothing /\ paHeld' = Nothing /\ paWritten' = Nothing
           /\ paBytes' = 0 /\ paLines' = 0 /\ paTruncated' = FALSE /\ paReason' = PaNil
           /\ paStop' = FALSE /\ paEnd' = PaNil /\ paTimedOut' = FALSE

\* Nothing read, nothing counted
LEMMA PaCleanMove ==
  ASSUME PaClean, paTool' \in [PaStreams -> Texts01],
         \/ paReader' = [s \in PaStreams |-> "reading"]
         \/ paReader' = [s \in PaStreams |-> "done"] /\ paTool' = Quiet
  PROVE  PaStreamsInv' /\ PaBudgetInv'
<1>1. /\ PaMaxBytes \in Nat /\ PaMaxLines \in Nat
      /\ PaNil \notin {"bytes", "lines", "terminated"}
  BY PaConstants
<1>2. Len(<<>>) = 0 /\ \A t \in Texts01 : Len(t) \in Nat
  BY DEF Texts01
<1>3. \A t : LinesTo(t, 0) = 0
  BY LinesNext
<1>4. PaStreamsInv'
  BY <1>1, <1>2 DEF PaClean, PaStreamsInv, PaStreamOK, Nothing, Quiet
<1>5. PaBudgetInv'
  BY <1>1, <1>3 DEF PaClean, PaBudgetInv, Kept, Nothing, PaStreams
<1> QED
  BY <1>4, <1>5

\* What a thread has read: n bytes, of which k are admitted
PaTakes(s, n, k) ==
    /\ paReader[s] = "reading" /\ n \in Nat /\ k \in 0 .. n
    /\ paTaken[s] + n <= Len(paTool[s])
    /\ paTaken' = [paTaken EXCEPT ![s] = paTaken[s] + n]
    /\ paHeld' = [paHeld EXCEPT ![s] = k]
    /\ paBytes' = paBytes + k /\ paBytes' \in 0 .. PaMaxBytes
    /\ paLines' \in 0 .. PaMaxLines
    /\ paLines' + LinesTo(paTool[s], paWritten[s]) = paLines + LinesTo(paTool[s], paWritten[s] + k)
    /\ \/ /\ k = n /\ UNCHANGED <<paTruncated, paReason, paStop>>
          /\ n > 0 => ~paStop
          /\ n = 0 => paEnd = "terminated" \/ paTaken[s] = Len(paTool[s])
          /\ paReader' = [paReader EXCEPT ![s] = IF n = 0 THEN "done" ELSE "writing"]
       \/ /\ k = 0 /\ paStop /\ UNCHANGED <<paTruncated, paReason, paStop>>
          /\ paReader' = [paReader EXCEPT ![s] = "done"]
       \/ /\ k < n /\ ~paStop /\ paStop' = TRUE /\ paTruncated' = TRUE
          /\ \/ paReason' = "lines" /\ paLines' = PaMaxLines
             \/ paReason' = "bytes" /\ paBytes' = PaMaxBytes
          /\ paReader' = [paReader EXCEPT ![s] = IF k > 0 THEN "writing" ELSE "done"]

\* What is read is counted, and no more is admitted than the budget has.
LEMMA PaReadMove ==
  ASSUME PaShape, PaStreamsInv, NEW s \in PaStreams, PaRead(s)
  PROVE  \E n, k : PaTakes(s, n, k)
<1> DEFINE left == Len(paTool[s]) - paTaken[s]
           full == IF left < PaChunk THEN left ELSE PaChunk
           Chunk(n) == SubSeq(paTool[s], paTaken[s] + 1, paTaken[s] + n)
<1>1. PICK n \in (IF paEnd = "terminated" THEN 0 .. full ELSE {full}) :
             /\ n < PaChunk => paEnd # PaNil \/ n = left
             /\ paTaken' = [paTaken EXCEPT ![s] = paTaken[s] + n]
             /\ IF n = 0
                THEN paReader' = [paReader EXCEPT ![s] = "done"] /\ UNCHANGED <<paHeld, paBudget>>
                ELSE /\ PaBounded(s, Chunk(n))
                     /\ paReader' = [paReader EXCEPT ![s] =
                                       IF paHeld'[s] > 0 THEN "writing"
                                       ELSE IF paStop' THEN "done" ELSE "reading"]
  BY DEF PaRead
<1>2. /\ paReader[s] = "reading" /\ paTool[s] \in Texts01 /\ paTaken[s] \in Nat /\ paTaken[s] <= Len(paTool[s])
      /\ paHeld[s] = 0 /\ paWritten[s] = paTaken[s] /\ UNCHANGED <<paTool, paWritten>>
      /\ paHeld \in [PaStreams -> Nat] /\ paBytes \in 0 .. PaMaxBytes /\ paLines \in 0 .. PaMaxLines
  BY DEF PaRead, PaShape, PaStreamsInv, PaStreamOK
<1>3. Len(paTool[s]) \in Nat /\ PaChunk \in Nat \ {0} /\ PaMaxBytes \in Nat /\ PaMaxLines \in Nat
  BY <1>2, PaConstants DEF Texts01
<1>4. left \in Nat /\ full \in 0 .. left /\ (full = 0 => left = 0)
  BY <1>2, <1>3
<1>5. n \in 0 .. left /\ (n = 0 => paEnd = "terminated" \/ left = 0)
  BY <1>1, <1>4
<1>6. n \in Nat /\ paTaken[s] + n <= Len(paTool[s]) /\ (left = 0 => paTaken[s] = Len(paTool[s]))
  BY <1>2, <1>3, <1>4, <1>5
<1>7. LinesTo(paTool[s], paWritten[s]) \in Nat /\ paWritten[s] + 0 = paWritten[s]
  BY <1>2, LinesNat
<1> HIDE DEF left, full, Chunk
<1>8. CASE n = 0
  <2>1. paHeld' = [paHeld EXCEPT ![s] = 0]
    BY <1>1, <1>2, <1>8
  <2>2. UNCHANGED <<paBytes, paLines, paTruncated, paReason, paStop>>
        /\ paReader' = [paReader EXCEPT ![s] = "done"]
    BY <1>1, <1>8 DEF paBudget
  <2>3. paBytes' = paBytes + 0 /\ paLines' + LinesTo(paTool[s], paWritten[s]) = paLines + LinesTo(paTool[s], paWritten[s] + 0)
    BY <1>2, <1>7, <2>2
  <2>4. PaTakes(s, 0, 0)
    BY <1>1, <1>2, <1>5, <1>6, <1>8, <2>1, <2>2, <2>3 DEF PaTakes
  <2> QED
    BY <2>4
<1>9. CASE n # 0 /\ paStop
  <2>1. paHeld' = [paHeld EXCEPT ![s] = 0] /\ UNCHANGED <<paBytes, paLines, paTruncated, paReason, paStop>>
    BY <1>1, <1>9 DEF PaBounded, paBudget
  <2>2. paReader' = [paReader EXCEPT ![s] = "done"]
    <3>1. paHeld'[s] = 0
      BY <1>2, <2>1
    <3> QED
      BY <1>1, <1>9, <2>1, <3>1
  <2>3. paBytes' = paBytes + 0 /\ paLines' + LinesTo(paTool[s], paWritten[s]) = paLines + LinesTo(paTool[s], paWritten[s] + 0)
    BY <1>2, <1>7, <2>1
  <2>4. PaTakes(s, n, 0)
    BY <1>1, <1>2, <1>6, <1>9, <2>1, <2>2, <2>3 DEF PaTakes
  <2> QED
    BY <2>4
<1>10. CASE n # 0 /\ ~paStop
  <2> DEFINE k == PaAdmitted(Chunk(n))
  <2>1. /\ Chunk(n) \in Texts01 /\ Len(Chunk(n)) = n
        /\ \A i \in 1 .. n : Chunk(n)[i] = paTool[s][paTaken[s] + i]
    <3>1. \A i \in paTaken[s] + 1 .. paTaken[s] + n : paTool[s][i] \in {0, 1}
      <4> SUFFICES ASSUME NEW i \in paTaken[s] + 1 .. paTaken[s] + n PROVE paTool[s][i] \in {0, 1}
        OBVIOUS
      <4>1. i \in 1 .. Len(paTool[s])
        BY <1>2, <1>3, <1>6
      <4> QED
        BY <1>2, <4>1, ElementOfSeq DEF Texts01
    <3>2. paTaken[s] + 1 \in Int /\ paTaken[s] + n \in Int
      BY <1>2, <1>6
    <3>3. /\ Chunk(n) \in Seq({0, 1})
          /\ Len(Chunk(n)) = IF paTaken[s] + 1 <= paTaken[s] + n
                             THEN (paTaken[s] + n) - (paTaken[s] + 1) + 1 ELSE 0
          /\ \A i \in 1 .. (paTaken[s] + n) - (paTaken[s] + 1) + 1 :
                Chunk(n)[i] = paTool[s][(paTaken[s] + 1) + i - 1]
      BY <3>1, <3>2, SubSeqProperties DEF Chunk
    <3>4. (paTaken[s] + n) - (paTaken[s] + 1) + 1 = n /\ paTaken[s] + 1 <= paTaken[s] + n
      BY <1>2, <1>6, <1>10
    <3>5. \A i \in 1 .. n : (paTaken[s] + 1) + i - 1 = paTaken[s] + i
      BY <1>2, <1>6
    <3> QED
      BY <3>3, <3>4, <3>5 DEF Texts01
  <2>2. /\ k \in 0 .. n /\ paBytes + k <= PaMaxBytes /\ paLines + LinesTo(Chunk(n), k) <= PaMaxLines
        /\ k < n => \/ paBytes < PaMaxBytes /\ paLines + LinesTo(Chunk(n), k) = PaMaxLines
                    \/ paBytes + k = PaMaxBytes
    BY <1>2, <2>1, PaAdmits
  <2>3. Lines(SubSeq(Chunk(n), 1, k)) = LinesTo(Chunk(n), k)
    BY <2>1, <2>2, LinesOfText
  <2>4. /\ paHeld' = [paHeld EXCEPT ![s] = k]
        /\ paBytes' = paBytes + k
        /\ paLines' = paLines + LinesTo(Chunk(n), k)
        /\ IF k = n
           THEN UNCHANGED <<paTruncated, paReason, paStop>>
           ELSE /\ paTruncated' = TRUE /\ paStop' = TRUE
                /\ paReason' = IF paBytes < PaMaxBytes /\ paLines' >= PaMaxLines
                               THEN "lines" ELSE "bytes"
    BY <1>1, <1>10, <2>1, <2>3 DEF PaBounded
  <2> HIDE DEF k
  <2>5. LinesTo(Chunk(n), k) \in Nat /\ k \in Nat
    BY <1>6, <2>2, LinesNat
  <2>6. LinesTo(paTool[s], paTaken[s] + k) = LinesTo(paTool[s], paTaken[s]) + LinesTo(Chunk(n), k)
    <3>1. \A i \in 1 .. k : Chunk(n)[i] = paTool[s][paTaken[s] + i]
      BY <1>6, <2>1, <2>2
    <3>2. \A text, data : \A a, m \in Nat : (\A i \in 1 .. m : data[i] = text[a + i]) =>
            LinesTo(text, a + m) = LinesTo(text, a) + LinesTo(data, m)
      BY LinesSplit
    <3>3. PICK text : text = paTool[s]
      OBVIOUS
    <3>4. PICK data : data = Chunk(n)
      OBVIOUS
    <3>5. PICK a \in Nat : a = paTaken[s]
      BY <1>2
    <3>6. PICK m \in Nat : m = k
      BY <2>5
    <3>7. \A i \in 1 .. m : data[i] = text[a + i]
      BY <3>1, <3>3, <3>4, <3>5, <3>6
    <3>8. LinesTo(text, a + m) = LinesTo(text, a) + LinesTo(data, m)
      BY <3>2, <3>7
    <3> QED
      BY <3>3, <3>4, <3>5, <3>6, <3>8
  <2>7. paLines' + LinesTo(paTool[s], paWritten[s]) = paLines + LinesTo(paTool[s], paWritten[s] + k)
    BY <1>2, <1>7, <2>4, <2>5, <2>6
  <2>8. paBytes' \in 0 .. PaMaxBytes /\ paLines' \in 0 .. PaMaxLines
    BY <1>2, <1>3, <2>2, <2>4, <2>5
  <2>9. paHeld'[s] = k
    BY <1>2, <2>4
  <2>10. CASE k = n
    <3>1. paReader' = [paReader EXCEPT ![s] = "writing"]
      BY <1>1, <1>6, <1>10, <2>9, <2>10
    <3>2. PaTakes(s, n, k)
      BY <1>1, <1>2, <1>6, <1>10, <2>2, <2>4, <2>7, <2>8, <2>10, <3>1 DEF PaTakes
    <3> QED
      BY <3>2
  <2>11. CASE k # n
    <3>1. k < n
      BY <1>6, <2>2, <2>11
    <3>2. paReader' = [paReader EXCEPT ![s] = IF k > 0 THEN "writing" ELSE "done"]
      BY <1>1, <1>10, <2>4, <2>9, <2>11
    <3>3. \/ paReason' = "lines" /\ paLines' = PaMaxLines
          \/ paReason' = "bytes" /\ paBytes' = PaMaxBytes
      BY <1>2, <1>3, <2>2, <2>4, <2>5, <2>8, <2>11, <3>1
    <3>4. PaTakes(s, n, k)
      BY <1>1, <1>2, <1>6, <1>10, <2>2, <2>4, <2>7, <2>8, <2>11, <3>1, <3>2, <3>3 DEF PaTakes
    <3> QED
      BY <3>4
  <2> QED
    BY <2>10, <2>11
<1> QED
  BY <1>8, <1>9, <1>10

\* What the threads and their budget are made of
PaLocal == <<paTool, paTaken, paHeld, paWritten, paReader, paBytes, paLines, paTruncated, paReason,
             paStop, paEnd, paTimedOut>>

\* A step that leaves it alone
LEMMA PaLocalStep ==
  ASSUME PaStreamsInv, PaBudgetInv, UNCHANGED PaLocal
  PROVE  PaStreamsInv' /\ PaBudgetInv'
<1>1. /\ paTool' = paTool /\ paTaken' = paTaken /\ paHeld' = paHeld /\ paWritten' = paWritten
      /\ paReader' = paReader /\ paBytes' = paBytes /\ paLines' = paLines /\ paReason' = paReason
      /\ paStop' = paStop /\ paEnd' = paEnd
  BY DEF PaLocal
<1>2. PaStreamsInv'
  BY <1>1 DEF PaStreamsInv, PaStreamOK
<1>3. PaBudgetInv'
  BY <1>1 DEF PaBudgetInv, Kept
<1> QED
  BY <1>2, <1>3

\* A thread that has read keeps the account.
LEMMA PaTakesMove ==
  ASSUME PaShape, PaStreamsInv, PaBudgetInv, NEW s \in PaStreams, NEW n, NEW k, PaTakes(s, n, k),
         UNCHANGED <<paTool, paWritten, paEnd>>
  PROVE  PaStreamsInv' /\ PaBudgetInv'
<1>1. /\ paTaken \in [PaStreams -> Nat] /\ paHeld \in [PaStreams -> Nat] /\ paWritten \in [PaStreams -> Nat]
      /\ paTool \in [PaStreams -> Texts01] /\ paBytes \in Nat /\ paLines \in Nat
      /\ paReader \in [PaStreams -> {"reading", "writing", "done", "dead"}]
      /\ paStop \in BOOLEAN
  BY PaConstants DEF PaShape
<1>2. \A r \in PaStreams : Len(paTool[r]) \in Nat
  BY <1>1 DEF Texts01
<1>3. /\ paReader[s] = "reading" /\ n \in Nat /\ k \in 0 .. n /\ k \in Nat
      /\ paTaken[s] + n <= Len(paTool[s])
      /\ paTaken' = [paTaken EXCEPT ![s] = paTaken[s] + n]
      /\ paHeld' = [paHeld EXCEPT ![s] = k]
      /\ paBytes' = paBytes + k /\ paBytes' \in 0 .. PaMaxBytes /\ paLines' \in 0 .. PaMaxLines
      /\ paLines' + LinesTo(paTool[s], paWritten[s]) = paLines + LinesTo(paTool[s], paWritten[s] + k)
  BY DEF PaTakes
<1>4. /\ paTool' = paTool /\ paWritten' = paWritten /\ paEnd' = paEnd
  OBVIOUS
<1>5. paHeld[s] = 0 /\ paWritten[s] = paTaken[s]
  BY <1>3 DEF PaStreamsInv, PaStreamOK
<1>6. \/ /\ k = n /\ paStop' = paStop /\ paReason' = paReason
         /\ n > 0 => ~paStop
         /\ n = 0 => paEnd = "terminated" \/ paTaken[s] = Len(paTool[s])
         /\ paReader' = [paReader EXCEPT ![s] = IF n = 0 THEN "done" ELSE "writing"]
      \/ /\ k = 0 /\ paStop /\ paStop' = paStop /\ paReason' = paReason
         /\ paReader' = [paReader EXCEPT ![s] = "done"]
      \/ /\ k < n /\ ~paStop /\ paStop'
         /\ \/ paReason' = "lines" /\ paLines' = PaMaxLines
            \/ paReason' = "bytes" /\ paBytes' = PaMaxBytes
         /\ paReader' = [paReader EXCEPT ![s] = IF k > 0 THEN "writing" ELSE "done"]
  BY DEF PaTakes
<1>7. \A r \in PaStreams : r # s =>
        /\ paTaken'[r] = paTaken[r] /\ paHeld'[r] = paHeld[r] /\ paReader'[r] = paReader[r]
  BY <1>1, <1>3, <1>6
<1>8. paTaken'[s] = paTaken[s] + n /\ paHeld'[s] = k
  BY <1>1, <1>3
<1>9. PaStreamsInv'
  <2> SUFFICES ASSUME NEW r \in PaStreams
               PROVE  PaStreamOK(paTool[r], paTaken[r], paHeld[r], paWritten[r], paReader[r])'
    BY DEF PaStreamsInv
  <2>1. CASE r # s
    <3>1. paStop => paStop'
      BY <1>6
    <3>2. PaStreamOK(paTool[r], paTaken[r], paHeld[r], paWritten[r], paReader[r])
      BY DEF PaStreamsInv
    <3> QED
      BY <1>4, <1>7, <2>1, <3>1, <3>2 DEF PaStreamOK
  <2>2. CASE r = s
    <3>1. paTaken[s] \in Nat /\ Len(paTool[s]) \in Nat
      BY <1>1, <1>2
    <3>2. \/ k = n /\ n = 0 /\ paReader'[s] = "done" /\ (paEnd = "terminated" \/ paTaken[s] = Len(paTool[s]))
          \/ k = n /\ n > 0 /\ paReader'[s] = "writing"
          \/ k = 0 /\ paStop' /\ paReader'[s] = "done"
          \/ k > 0 /\ paStop' /\ paReader'[s] = "writing"
      BY <1>1, <1>3, <1>6
    <3> QED
      BY <1>3, <1>4, <1>5, <1>8, <2>2, <3>1, <3>2 DEF PaStreamOK
  <2> QED
    BY <2>1, <2>2
<1>10. Kept(s)' = Kept(s) + k /\ \A r \in PaStreams : r # s => Kept(r)' = Kept(r)
  BY <1>1, <1>3, <1>4, <1>5, <1>7, <1>8 DEF Kept
<1>11. \A r \in PaStreams : Kept(r) \in Nat
  BY <1>1 DEF Kept
<1>12. Kept(s) = paWritten[s] /\ Kept(s)' = paWritten[s] + k
  BY <1>1, <1>3, <1>5, <1>10 DEF Kept
<1>13. paBytes' = Kept("stdout")' + Kept("stderr")'
  <2>1. paBytes = Kept("stdout") + Kept("stderr")
    BY DEF PaBudgetInv
  <2>2. s = "stdout" \/ s = "stderr"
    BY DEF PaStreams
  <2>3. Kept("stdout") \in Nat /\ Kept("stderr") \in Nat
    BY <1>11 DEF PaStreams
  <2>4. CASE s = "stdout"
    <3>1. Kept("stdout")' = Kept("stdout") + k /\ Kept("stderr")' = Kept("stderr")
      BY <1>10, <2>4 DEF PaStreams
    <3> QED
      BY <1>3, <2>1, <2>3, <3>1
  <2>5. CASE s = "stderr"
    <3>1. Kept("stderr")' = Kept("stderr") + k /\ Kept("stdout")' = Kept("stdout")
      BY <1>10, <2>5 DEF PaStreams
    <3> QED
      BY <1>3, <2>1, <2>3, <3>1
  <2> QED
    BY <2>2, <2>4, <2>5
<1>14. paLines' = LinesTo(paTool["stdout"], Kept("stdout"))' + LinesTo(paTool["stderr"], Kept("stderr"))'
  <2>1. paLines = LinesTo(paTool["stdout"], Kept("stdout")) + LinesTo(paTool["stderr"], Kept("stderr"))
    BY DEF PaBudgetInv
  <2>2. s = "stdout" \/ s = "stderr"
    BY DEF PaStreams
  <2>3. \A r \in PaStreams : LinesTo(paTool[r], Kept(r)) \in Nat
    BY <1>11, LinesNat
  <2>4. LinesTo(paTool[s], Kept(s))' = LinesTo(paTool[s], paWritten[s] + k)
    BY <1>4, <1>12
  <2>5. \A r \in PaStreams : r # s => LinesTo(paTool[r], Kept(r))' = LinesTo(paTool[r], Kept(r))
    BY <1>4, <1>10
  <2>6. LinesTo(paTool[s], Kept(s)) = LinesTo(paTool[s], paWritten[s])
    BY <1>12
  <2>7. LinesTo(paTool[s], paWritten[s] + k) \in Nat
    <3>1. paWritten[s] + k \in Nat
      BY <1>1, <1>3
    <3> QED
      BY <3>1, LinesNat
  <2>8. paLines' \in Nat
    BY <1>3, PaConstants
  <2>9. \A a, b, c, d, e \in Nat : e + a = (a + b) + c => e = c + b
    OBVIOUS
  <2>10. CASE s = "stdout"
    <3>1. LinesTo(paTool["stderr"], Kept("stderr"))' = LinesTo(paTool["stderr"], Kept("stderr"))
          /\ LinesTo(paTool["stderr"], Kept("stderr")) \in Nat
      BY <2>3, <2>5, <2>10 DEF PaStreams
    <3>2. LinesTo(paTool["stdout"], Kept("stdout")) \in Nat
      BY <2>3 DEF PaStreams
    <3>3. paLines' + LinesTo(paTool["stdout"], Kept("stdout"))
            = (LinesTo(paTool["stdout"], Kept("stdout")) + LinesTo(paTool["stderr"], Kept("stderr")))
              + LinesTo(paTool["stdout"], Kept("stdout"))'
      BY <1>3, <2>1, <2>4, <2>6, <2>10
    <3>4. LinesTo(paTool["stdout"], Kept("stdout"))' \in Nat
      BY <2>4, <2>7, <2>10
    <3> QED
      BY <2>8, <3>1, <3>2, <3>3, <3>4
  <2>11. CASE s = "stderr"
    <3>1. LinesTo(paTool["stdout"], Kept("stdout"))' = LinesTo(paTool["stdout"], Kept("stdout"))
          /\ LinesTo(paTool["stdout"], Kept("stdout")) \in Nat
      BY <2>3, <2>5, <2>11 DEF PaStreams
    <3>2. LinesTo(paTool["stderr"], Kept("stderr")) \in Nat
      BY <2>3 DEF PaStreams
    <3>3. paLines' + LinesTo(paTool["stderr"], Kept("stderr"))
            = (LinesTo(paTool["stdout"], Kept("stdout")) + LinesTo(paTool["stderr"], Kept("stderr")))
              + LinesTo(paTool["stderr"], Kept("stderr"))'
      BY <1>3, <2>1, <2>4, <2>6, <2>11
    <3>4. LinesTo(paTool["stderr"], Kept("stderr"))' \in Nat
      BY <2>4, <2>7, <2>11
    <3> QED
      BY <2>8, <3>1, <3>2, <3>3, <3>4
  <2> QED
    BY <2>2, <2>10, <2>11
<1>15. /\ paReason' = "bytes" => paBytes' = PaMaxBytes
       /\ paReason' = "lines" => paLines' = PaMaxLines
  <2>1. CASE paReason' = paReason
    <3>1. paReason = "bytes" \/ paReason = "lines" => paStop
      BY PaConstants DEF PaShape
    <3>2. CASE k = 0
      <4>1. paBytes' = paBytes
        BY <1>1, <1>3, <3>2
      <4>2. paLines' = paLines
        <5>1. paWritten[s] + k = paWritten[s] /\ LinesTo(paTool[s], paWritten[s]) \in Nat
          BY <1>1, <3>2, LinesNat
        <5>2. paLines' \in Nat
          BY <1>3, PaConstants
        <5> QED
          BY <1>1, <1>3, <5>1, <5>2
      <4> QED
        BY <2>1, <4>1, <4>2 DEF PaBudgetInv
    <3>3. CASE k # 0
      BY <1>3, <1>6, <2>1, <3>1, <3>3
    <3> QED
      BY <3>2, <3>3
  <2>2. CASE paReason' # paReason
    BY <1>6, <2>2
  <2> QED
    BY <2>1, <2>2
<1>16. paStop' => \E r \in PaStreams : Kept(r)' < paTaken'[r]
  <2> SUFFICES ASSUME paStop' PROVE \E r \in PaStreams : Kept(r)' < paTaken'[r]
    OBVIOUS
  <2>1. CASE paStop
    <3>1. PICK r \in PaStreams : Kept(r) < paTaken[r]
      BY <2>1 DEF PaBudgetInv
    <3>2. r # s
      BY <1>1, <1>5, <1>12, <3>1
    <3> QED
      BY <1>7, <1>10, <3>1, <3>2
  <2>2. CASE ~paStop
    <3>1. k < n
      BY <1>6, <2>2
    <3>2. Kept(s)' < paTaken'[s]
      BY <1>1, <1>3, <1>5, <1>8, <1>12, <3>1
    <3> QED
      BY <3>2
  <2> QED
    BY <2>1, <2>2
<1>17. PaBudgetInv'
  BY <1>13, <1>14, <1>15, <1>16 DEF PaBudgetInv
<1> QED
  BY <1>9, <1>17

\* What only the main thread changes
PaMain == <<paOut, paProv, paPc, paOpen, paAt, paEnd, paTimedOut, paResults, paRuns, paTool>>

\* While a thread moves, the main thread is waiting.
LEMMA PaThreadAside ==
  ASSUME PaShape, PaJobInv, PaTruthInv, NEW s \in PaStreams, paReader[s] \in {"reading", "writing"},
         UNCHANGED PaMain
  PROVE  PaJobInv' /\ PaTruthInv'
<1>1. /\ paOut' = paOut /\ paProv' = paProv /\ paPc' = paPc /\ paOpen' = paOpen /\ paAt' = paAt
      /\ paEnd' = paEnd /\ paResults' = paResults
  BY DEF PaMain
<1>2. paPc \in {"polling", "joining"}
  BY DEF PaJobInv
<1>3. PaJobInv'
  BY <1>1, <1>2 DEF PaJobInv, PaInJob
<1>4. PaTruthInv'
  BY <1>1 DEF PaTruthInv, PaTrue, PaOutputsAreThose
<1> QED
  BY <1>3, <1>4

\* The threads' steps
LEMMA PaReadStep ==
  ASSUME PaInv, NEW s \in PaStreams, PaRead(s)
  PROVE  PaInv'
<1>1. PaShape /\ PaStreamsInv /\ PaBudgetInv /\ PaJobInv /\ PaTruthInv
  BY DEF PaInv
<1>2. PICK n, k : PaTakes(s, n, k)
  BY <1>1, PaReadMove
<1>3. /\ UNCHANGED PaMain /\ paWritten' = paWritten /\ paReader[s] \in {"reading", "writing"}
      /\ UNCHANGED <<paTool, paWritten, paEnd>>
  BY DEF PaRead, PaMain, paChild
<1>4. PaStreamsInv' /\ PaBudgetInv'
  BY <1>1, <1>2, <1>3, PaTakesMove
<1>5. PaJobInv' /\ PaTruthInv'
  BY <1>1, <1>3, PaThreadAside
<1>6. PaShape'
  <2>1. /\ n \in Nat /\ k \in Nat
        /\ paTaken' = [paTaken EXCEPT ![s] = paTaken[s] + n]
        /\ paHeld' = [paHeld EXCEPT ![s] = k]
        /\ paBytes' \in 0 .. PaMaxBytes /\ paLines' \in 0 .. PaMaxLines
    BY <1>2 DEF PaTakes
  <2>2. /\ paTaken' \in [PaStreams -> Nat] /\ paHeld' \in [PaStreams -> Nat]
    BY <1>1, <2>1 DEF PaShape
  <2>3. paReader' \in [PaStreams -> {"reading", "writing", "done", "dead"}]
    BY <1>1, <1>2 DEF PaShape, PaTakes
  <2>4. \/ UNCHANGED <<paTruncated, paReason, paStop>>
        \/ paStop' = TRUE /\ paTruncated' = TRUE /\ paReason' \in {"bytes", "lines"}
    BY <1>2 DEF PaTakes
  <2>5. /\ paStop' \in BOOLEAN /\ paTruncated' = paStop'
        /\ paReason' \in {PaNil, "bytes", "lines"} /\ paStop' = (paReason' # PaNil)
    BY <1>1, <2>4, PaConstants DEF PaShape
  <2>6. /\ paOut' = paOut /\ paPc' = paPc /\ paOpen' = paOpen /\ paAt' = paAt /\ paTool' = paTool
        /\ paEnd' = paEnd /\ paTimedOut' = paTimedOut /\ paRuns' = paRuns
    BY <1>3 DEF PaMain
  <2> QED
    BY <1>1, <1>3, <2>1, <2>2, <2>3, <2>5, <2>6 DEF PaShape
<1> QED
  BY <1>4, <1>5, <1>6 DEF PaInv

\* A thread writes what was admitted.
LEMMA PaWriteStep ==
  ASSUME PaInv, NEW s \in PaStreams, PaWrite(s)
  PROVE  PaInv'
<1>1. PaShape /\ PaStreamsInv /\ PaBudgetInv /\ PaJobInv /\ PaTruthInv
  BY DEF PaInv
<1>2. /\ UNCHANGED PaMain /\ paReader[s] = "writing" /\ paTaken' = paTaken
      /\ paTool' = paTool /\ paEnd' = paEnd
      /\ paBytes' = paBytes /\ paLines' = paLines /\ paTruncated' = paTruncated
      /\ paReason' = paReason /\ paStop' = paStop
      /\ paWritten' = [paWritten EXCEPT ![s] = paWritten[s] + paHeld[s]]
      /\ paHeld' = [paHeld EXCEPT ![s] = 0]
      /\ paReader' = [paReader EXCEPT ![s] = IF paStop THEN "done" ELSE "reading"]
  BY DEF PaWrite, PaMain, paChild, paBudget
<1>3. /\ paTaken \in [PaStreams -> Nat] /\ paHeld \in [PaStreams -> Nat] /\ paWritten \in [PaStreams -> Nat]
      /\ paReader \in [PaStreams -> {"reading", "writing", "done", "dead"}] /\ paStop \in BOOLEAN
      /\ paTool \in [PaStreams -> Texts01]
  BY <1>1 DEF PaShape
<1>4. PaShape'
  <2>1. /\ paHeld' \in [PaStreams -> Nat] /\ paWritten' \in [PaStreams -> Nat]
        /\ paReader' \in [PaStreams -> {"reading", "writing", "done", "dead"}]
    BY <1>2, <1>3
  <2>2. /\ paOut' = paOut /\ paPc' = paPc /\ paOpen' = paOpen /\ paAt' = paAt
        /\ paTimedOut' = paTimedOut /\ paRuns' = paRuns
    BY <1>2 DEF PaMain
  <2> QED
    BY <1>1, <1>2, <2>1, <2>2 DEF PaShape
<1>5. PaJobInv' /\ PaTruthInv'
  BY <1>1, <1>2, PaThreadAside
<1>6. \A r \in PaStreams : Len(paTool[r]) \in Nat
  BY <1>3 DEF Texts01
<1>7. \A r \in PaStreams : r # s =>
        paWritten'[r] = paWritten[r] /\ paHeld'[r] = paHeld[r] /\ paReader'[r] = paReader[r]
  BY <1>2, <1>3
<1>8. /\ paWritten'[s] = paWritten[s] + paHeld[s] /\ paHeld'[s] = 0
      /\ paReader'[s] = IF paStop THEN "done" ELSE "reading"
  BY <1>2, <1>3
<1>9. PaStreamsInv'
  <2> SUFFICES ASSUME NEW r \in PaStreams
               PROVE  PaStreamOK(paTool[r], paTaken[r], paHeld[r], paWritten[r], paReader[r])'
    BY DEF PaStreamsInv
  <2>1. PaStreamOK(paTool[r], paTaken[r], paHeld[r], paWritten[r], paReader[r])
    BY <1>1 DEF PaStreamsInv
  <2>2. CASE r # s
    BY <1>2, <1>7, <2>1, <2>2 DEF PaStreamOK
  <2>3. CASE r = s
    BY <1>2, <1>3, <1>6, <1>8, <2>1, <2>3 DEF PaStreamOK
  <2> QED
    BY <2>2, <2>3
<1>10. \A r \in PaStreams : Kept(r)' = Kept(r)
  <2> SUFFICES ASSUME NEW r \in PaStreams PROVE Kept(r)' = Kept(r)
    OBVIOUS
  <2>1. CASE r # s
    BY <1>7, <2>1 DEF Kept
  <2>2. CASE r = s
    BY <1>3, <1>8, <2>2 DEF Kept
  <2> QED
    BY <2>1, <2>2
<1>11. Kept("stdout")' = Kept("stdout") /\ Kept("stderr")' = Kept("stderr")
  BY <1>10 DEF PaStreams
<1>12. PaBudgetInv'
  <2>1. paBytes' = Kept("stdout")' + Kept("stderr")'
    BY <1>1, <1>2, <1>11 DEF PaBudgetInv
  <2>2. paLines' = LinesTo(paTool["stdout"], Kept("stdout"))' + LinesTo(paTool["stderr"], Kept("stderr"))'
    BY <1>1, <1>2, <1>11 DEF PaBudgetInv
  <2>3. paStop' => \E r \in PaStreams : Kept(r)' < paTaken'[r]
    BY <1>1, <1>2, <1>10 DEF PaBudgetInv
  <2> QED
    BY <1>1, <1>2, <2>1, <2>2, <2>3 DEF PaBudgetInv
<1> QED
  BY <1>4, <1>5, <1>9, <1>12 DEF PaInv

\* Threads that are lost lose nothing that was counted.
LEMMA PaLostMove ==
  ASSUME PaShape, PaStreamsInv, PaBudgetInv,
         paReader' \in [PaStreams -> {"reading", "writing", "done", "dead"}],
         \A s \in PaStreams : paReader'[s] \in {paReader[s], "dead"},
         UNCHANGED <<paTool, paTaken, paHeld, paWritten, paBytes, paLines, paReason, paStop, paEnd>>
  PROVE  PaStreamsInv' /\ PaBudgetInv'
<1>1. PaStreamsInv'
  <2> SUFFICES ASSUME NEW r \in PaStreams
               PROVE  PaStreamOK(paTool[r], paTaken[r], paHeld[r], paWritten[r], paReader[r])'
    BY DEF PaStreamsInv
  <2>1. PaStreamOK(paTool[r], paTaken[r], paHeld[r], paWritten[r], paReader[r])
    BY DEF PaStreamsInv
  <2> QED
    BY <2>1 DEF PaStreamOK
<1>2. PaBudgetInv'
  BY DEF PaBudgetInv, Kept
<1> QED
  BY <1>1, <1>2

\* A thread cannot write, and ends.
LEMMA PaWriteFailsStep ==
  ASSUME PaInv, NEW s \in PaStreams, PaWriteFails(s)
  PROVE  PaInv'
<1>1. PaShape /\ PaStreamsInv /\ PaBudgetInv /\ PaJobInv /\ PaTruthInv
  BY DEF PaInv
<1>2. /\ UNCHANGED PaMain /\ paReader[s] = "writing"
      /\ UNCHANGED <<paTool, paTaken, paHeld, paWritten, paBytes, paLines, paReason, paStop, paEnd>>
      /\ paReader' = [paReader EXCEPT ![s] = "dead"] /\ paTruncated' = paTruncated
  BY DEF PaWriteFails, PaMain, paChild, paBudget
<1>3. paReader \in [PaStreams -> {"reading", "writing", "done", "dead"}]
  BY <1>1 DEF PaShape
<1>4. /\ paReader' \in [PaStreams -> {"reading", "writing", "done", "dead"}]
      /\ \A r \in PaStreams : paReader'[r] \in {paReader[r], "dead"}
  BY <1>2, <1>3
<1>5. PaStreamsInv' /\ PaBudgetInv'
  BY <1>1, <1>2, <1>4, PaLostMove
<1>6. PaJobInv' /\ PaTruthInv'
  BY <1>1, <1>2, PaThreadAside
<1>7. PaShape'
  <2>1. /\ paOut' = paOut /\ paPc' = paPc /\ paOpen' = paOpen /\ paAt' = paAt
        /\ paTimedOut' = paTimedOut /\ paRuns' = paRuns
    BY <1>2 DEF PaMain
  <2> QED
    BY <1>1, <1>2, <1>4, <2>1 DEF PaShape
<1> QED
  BY <1>5, <1>6, <1>7 DEF PaInv

\* The tool ends, or is made to.
LEMMA PaPollStep ==
  ASSUME PaInv, PaPoll
  PROVE  PaInv'
<1>1. PaShape /\ PaStreamsInv /\ PaBudgetInv /\ PaJobInv /\ PaTruthInv
  BY DEF PaInv
<1>2. /\ paPc = "polling" /\ paPc' = "joining"
      /\ UNCHANGED <<paOut, paProv, paOpen, paAt, paResults, paRuns>>
      /\ UNCHANGED <<paTool, paTaken, paHeld, paWritten, paReader>>
      /\ UNCHANGED <<paBytes, paLines, paTruncated, paReason, paStop>>
      /\ paEnd' \in {"accepted", "not_accepted", "terminated"}
      /\ paTimedOut' = paTimedOut \/ paTimedOut' = TRUE
  BY DEF PaPoll, paPipes, paBudget
<1>3. paEnd # "terminated"
  BY <1>1, <1>2, PaConstants DEF PaJobInv
<1>4. PaStreamsInv'
  BY <1>1, <1>2, <1>3 DEF PaStreamsInv, PaStreamOK
<1>5. PaBudgetInv'
  BY <1>1, <1>2 DEF PaBudgetInv, Kept
<1>6. PaJobInv'
  BY <1>1, <1>2 DEF PaJobInv, PaInJob
<1>7. PaTruthInv'
  BY <1>1, <1>2 DEF PaTruthInv, PaTrue, PaOutputsAreThose
<1>8. PaShape'
  <2>1. paTimedOut' \in BOOLEAN
    BY <1>1, <1>2 DEF PaShape
  <2> QED
    BY <1>1, <1>2, <2>1 DEF PaShape, PaSteps
<1> QED
  BY <1>4, <1>5, <1>6, <1>7, <1>8 DEF PaInv

\* The threads are waited for, or given up.
LEMMA PaJoinStep ==
  ASSUME PaInv, PaJoin
  PROVE  PaInv'
<1>1. PaShape /\ PaStreamsInv /\ PaBudgetInv /\ PaJobInv /\ PaTruthInv
  BY DEF PaInv
<1>2. /\ paPc = "joining" /\ paPc' = "unlink"
      /\ UNCHANGED <<paOut, paProv, paOpen, paAt, paResults, paRuns>>
      /\ UNCHANGED <<paTool, paTaken, paHeld, paWritten, paBytes, paLines, paReason, paStop, paEnd>>
      /\ paTruncated' = paTruncated /\ paTimedOut' = paTimedOut
      /\ \/ \A s \in PaStreams : paReader[s] \in {"done", "dead"} /\ paReader' = paReader
         \/ paReader' = [s \in PaStreams |-> IF paReader[s] = "done" THEN "done" ELSE "dead"]
  BY DEF PaJoin, paBudget, paChild
<1>3. paReader \in [PaStreams -> {"reading", "writing", "done", "dead"}]
  BY <1>1 DEF PaShape
<1>4. /\ paReader' \in [PaStreams -> {"reading", "writing", "done", "dead"}]
      /\ \A s \in PaStreams : paReader'[s] \in {paReader[s], "dead"} /\ paReader'[s] \in {"done", "dead"}
  BY <1>2, <1>3 DEF PaStreams
<1>5. PaStreamsInv' /\ PaBudgetInv'
  BY <1>1, <1>2, <1>4, PaLostMove
<1>6. PaJobInv'
  BY <1>1, <1>2, <1>4 DEF PaJobInv, PaInJob
<1>7. PaTruthInv'
  BY <1>1, <1>2 DEF PaTruthInv, PaTrue, PaOutputsAreThose
<1>8. PaShape'
  BY <1>1, <1>2, <1>4 DEF PaShape, PaSteps
<1> QED
  BY <1>5, <1>6, <1>7, <1>8 DEF PaInv

\* The next job
LEMMA PaJobStep ==
  ASSUME PaInv, PaJob
  PROVE  PaInv'
<1>1. PaShape /\ PaStreamsInv /\ PaBudgetInv /\ PaJobInv /\ PaTruthInv
  BY DEF PaInv
<1>2. /\ paPc = "jobs" /\ paPc' = "polling" /\ paOpen # {}
      /\ paAt' = CHOOSE j \in paOpen : \A k \in paOpen : j <= k
      /\ paOpen' = paOpen \ {paAt'}
      /\ paTool' \in PaOutputs
      /\ UNCHANGED <<paOut, paProv, paResults, paRuns>>
      /\ paReader' = [s \in PaStreams |-> "reading"]
      /\ PaClean
  BY DEF PaJob, PaClean
<1>3. /\ paOpen \subseteq PaJobs /\ PaJobs \subseteq Nat
      /\ PaOutputs \subseteq [PaStreams -> Texts01]
      /\ PaNil \notin {"bytes", "lines", "terminated"} /\ PaMaxBytes \in Nat /\ PaMaxLines \in Nat
  BY <1>1, PaConstants DEF PaShape, Texts01
<1>4. paAt' \in paOpen
  <2>1. paOpen \in SUBSET Nat
    BY <1>3
  <2>2. PICK m \in paOpen : \A n \in paOpen : ~(n < m)
    BY <1>2, <2>1, LeastNumber
  <2>3. \A n \in paOpen : m <= n
    BY <2>1, <2>2
  <2> QED
    BY <1>2, <2>2, <2>3
<1>5. paTool' \in [PaStreams -> Texts01]
  BY <1>2, <1>3
<1>6. PaStreamsInv' /\ PaBudgetInv'
  BY <1>2, <1>5, PaCleanMove
<1>7. PaShape'
  <2>1. /\ paTaken' \in [PaStreams -> Nat] /\ paHeld' \in [PaStreams -> Nat]
        /\ paWritten' \in [PaStreams -> Nat]
        /\ paReader' \in [PaStreams -> {"reading", "writing", "done", "dead"}]
    BY <1>2 DEF PaClean, Nothing
  <2>2. /\ paBytes' \in 0 .. PaMaxBytes /\ paLines' \in 0 .. PaMaxLines
    BY <1>2, <1>3 DEF PaClean
  <2>3. paOpen' \subseteq PaJobs /\ paAt' \in PaJobs
    BY <1>2, <1>3, <1>4
  <2>4. /\ paStop' = FALSE /\ paTruncated' = FALSE /\ paTimedOut' = FALSE /\ paReason' = PaNil
        /\ paEnd' = PaNil
    BY <1>2 DEF PaClean
  <2>5. paOut' = paOut /\ paRuns' = paRuns /\ paPc' \in PaSteps
    BY <1>2 DEF PaSteps
  <2> QED
    BY <1>1, <1>5, <2>1, <2>2, <2>3, <2>4, <2>5 DEF PaShape
<1>8. PaJobInv'
  <2>1. paOpen \cap DOMAIN paResults = {}
    BY <1>1, <1>2 DEF PaJobInv
  <2>2. /\ paOpen' = paOpen \ {paAt'} /\ paResults' = paResults
        /\ DOMAIN paResults \subseteq PaJobs /\ paOpen \subseteq PaJobs
    BY <1>1, <1>2 DEF PaJobInv, PaShape
  <2>4. paAt' \in PaJobs /\ paAt' \notin paOpen' /\ paAt' \notin DOMAIN paResults'
        /\ paOpen' \cap DOMAIN paResults' = {} /\ DOMAIN paResults' \subseteq PaJobs
    BY <1>4, <2>1, <2>2
  <2>3. paEnd' = PaNil
    BY <1>2 DEF PaClean
  <2> QED
    BY <1>2, <2>3, <2>4 DEF PaJobInv, PaInJob
<1>9. PaTruthInv'
  BY <1>1, <1>2 DEF PaTruthInv, PaTrue, PaOutputsAreThose
<1> QED
  BY <1>6, <1>7, <1>8, <1>9 DEF PaInv

\* The main thread's steps that are about records only
LEMMA PaRecordStep ==
  ASSUME PaInv, PaStart \/ PaJobsDone \/ PaUnlink \/ PaUnlinkFinal \/ PaPublish
  PROVE  PaInv'
<1>1. PaShape /\ PaStreamsInv /\ PaBudgetInv /\ PaJobInv /\ PaTruthInv
  BY DEF PaInv
<1>2. UNCHANGED PaLocal /\ paOut' = paOut /\ paAt' = paAt
  BY DEF PaStart, PaJobsDone, PaUnlink, PaUnlinkFinal, PaPublish, PaLocal, paPipes, paBudget, paChild
<1>3. PaStreamsInv' /\ PaBudgetInv'
  BY <1>1, <1>2, PaLocalStep
<1>4. /\ paPc \notin {"polling", "joining"} /\ paPc' \notin {"polling", "joining", "classify", "stderr"}
      /\ paPc' \in PaSteps
  BY DEF PaStart, PaJobsDone, PaUnlink, PaUnlinkFinal, PaPublish, PaSteps
<1>5. paOpen' \subseteq PaJobs /\ paRuns' \in Nat
  BY <1>1 DEF PaShape, PaStart, PaJobsDone, PaUnlink, PaUnlinkFinal, PaPublish
<1>6. PaShape'
  <2>1. /\ paTool' = paTool /\ paTaken' = paTaken /\ paHeld' = paHeld /\ paWritten' = paWritten
        /\ paReader' = paReader /\ paBytes' = paBytes /\ paLines' = paLines
        /\ paTruncated' = paTruncated /\ paReason' = paReason /\ paStop' = paStop /\ paEnd' = paEnd
        /\ paTimedOut' = paTimedOut
    BY <1>2 DEF PaLocal
  <2> QED
    BY <1>1, <1>2, <1>4, <1>5, <2>1 DEF PaShape
<1>7. \A s \in PaStreams : paReader'[s] \in {"done", "dead"}
  BY <1>1, <1>2, <1>4 DEF PaJobInv, PaLocal
<1>8. CASE PaStart
  <2>1. PICK jobs \in SUBSET PaJobs, dry \in BOOLEAN :
           /\ paOpen' = jobs /\ paPc' = IF dry THEN "unlink_final" ELSE "jobs"
           /\ paResults' = [j \in (IF dry THEN jobs ELSE {}) |-> PaNil]
    BY <1>8 DEF PaStart
  <2>2. DOMAIN paResults' = (IF dry THEN jobs ELSE {}) /\ \A j \in DOMAIN paResults' : paResults'[j] = PaNil
    BY <2>1
  <2>3. paProv' = paProv
    BY <1>8 DEF PaStart
  <2>4. PaJobInv'
    BY <1>7, <2>1, <2>2 DEF PaJobInv, PaInJob
  <2>5. PaTruthInv'
    BY <1>1, <1>2, <2>2, <2>3 DEF PaTruthInv, PaTrue, PaOutputsAreThose
  <2> QED
    BY <1>3, <1>6, <2>4, <2>5 DEF PaInv
<1>9. CASE PaJobsDone
  <2>1. paPc' = "unlink_final" /\ paResults' = paResults /\ paProv' = paProv
    BY <1>9 DEF PaJobsDone
  <2>2. PaJobInv'
    BY <1>1, <1>7, <2>1 DEF PaJobInv, PaInJob
  <2>3. PaTruthInv'
    BY <1>1, <1>2, <2>1 DEF PaTruthInv, PaTrue, PaOutputsAreThose
  <2> QED
    BY <1>3, <1>6, <2>2, <2>3 DEF PaInv
<1>10. CASE PaUnlink
  <2>1. paPc = "unlink" /\ paPc' = "stdout" /\ paResults' = paResults /\ paProv' = PaNil /\ paOpen' = paOpen
    BY <1>10 DEF PaUnlink
  <2>2. PaJobInv'
    BY <1>1, <1>2, <1>7, <2>1 DEF PaJobInv, PaInJob
  <2>3. PaTruthInv'
    BY <1>1, <1>2, <2>1 DEF PaTruthInv, PaTrue, PaOutputsAreThose
  <2> QED
    BY <1>3, <1>6, <2>2, <2>3 DEF PaInv
<1>11. CASE PaUnlinkFinal
  <2>1. paPc' = "publish" /\ paResults' = paResults /\ paProv' = PaNil
    BY <1>11 DEF PaUnlinkFinal
  <2>2. PaJobInv'
    BY <1>1, <1>7, <2>1 DEF PaJobInv, PaInJob
  <2>3. PaTruthInv'
    BY <1>1, <1>2, <2>1 DEF PaTruthInv, PaTrue, PaOutputsAreThose
  <2> QED
    BY <1>3, <1>6, <2>2, <2>3 DEF PaInv
<1>12. CASE PaPublish
  <2>1. paPc' = "idle" /\ paResults' = <<>> /\ paProv' = paResults
    BY <1>12 DEF PaPublish
  <2>2. DOMAIN paResults' = {}
    BY <2>1
  <2>3. PaJobInv'
    BY <1>7, <2>1, <2>2 DEF PaJobInv, PaInJob
  <2>4. DOMAIN paProv' \subseteq PaJobs
    BY <1>1, <2>1 DEF PaJobInv
  <2>5. PaTruthInv'
    BY <1>1, <1>2, <2>1, <2>2, <2>4 DEF PaTruthInv, PaTrue, PaOutputsAreThose
  <2> QED
    BY <1>3, <1>6, <2>3, <2>5 DEF PaInv
<1> QED
  BY <1>8, <1>9, <1>10, <1>11, <1>12

\* A capture takes its place.
LEMMA PaReplaceStep ==
  ASSUME PaInv, NEW s \in PaStreams, PaReplace(s)
  PROVE  PaInv'
<1>1. PaShape /\ PaStreamsInv /\ PaBudgetInv /\ PaJobInv /\ PaTruthInv
  BY DEF PaInv
<1>2. /\ paPc = s /\ paPc' = (IF s = "stdout" THEN "stderr" ELSE "classify")
      /\ paOut' = [paOut EXCEPT ![paAt][s] = Captured(s)]
      /\ UNCHANGED PaLocal
      /\ UNCHANGED <<paProv, paOpen, paAt, paResults, paRuns>>
  BY DEF PaReplace, PaLocal, paPipes, paBudget, paChild
<1>3. PaStreamsInv' /\ PaBudgetInv'
  BY <1>1, <1>2, PaLocalStep
<1>4. /\ paTool' = paTool /\ paTaken' = paTaken /\ paHeld' = paHeld /\ paWritten' = paWritten
      /\ paReader' = paReader /\ paBytes' = paBytes /\ paLines' = paLines
      /\ paTruncated' = paTruncated /\ paReason' = paReason /\ paStop' = paStop /\ paEnd' = paEnd
      /\ paTimedOut' = paTimedOut /\ paRuns' = paRuns
  BY <1>2 DEF PaLocal
<1>5. s = "stdout" \/ s = "stderr"
  BY DEF PaStreams
<1>6. /\ paAt \in PaJobs /\ paAt \notin DOMAIN paResults /\ paAt \notin paOpen /\ paProv = PaNil
      /\ paOut \in [PaJobs -> PaCapture]
  BY <1>1, <1>2, <1>5 DEF PaJobInv, PaInJob, PaShape
<1>7. Captured(s) \in PaOutput
  <2>1. /\ paTool[s] \in Texts01 /\ paWritten[s] \in Nat /\ paRuns \in Nat /\ paHeld[s] \in Nat
        /\ paTaken[s] \in Nat
    BY <1>1 DEF PaShape
  <2>2. paTaken[s] <= Len(paTool[s]) /\ paWritten[s] + paHeld[s] <= paTaken[s]
    BY <1>1 DEF PaStreamsInv, PaStreamOK
  <2>3. Len(paTool[s]) \in Nat
    BY <2>1 DEF Texts01
  <2>4. paWritten[s] \in 0 .. Len(paTool[s])
    BY <2>1, <2>2, <2>3
  <2>5. SubSeq(paTool[s], 1, paWritten[s]) \in Texts01
    BY <2>1, <2>4, LinesOfText
  <2> QED
    BY <2>1, <2>5 DEF Captured, PaOutput
<1>8. paOut[paAt] \in PaCapture
  BY <1>6
<1>9. paOut' = [paOut EXCEPT ![paAt] = [paOut[paAt] EXCEPT ![s] = Captured(s)]]
  BY <1>2
<1>10. [paOut[paAt] EXCEPT ![s] = Captured(s)] \in PaCapture
  BY <1>7, <1>8 DEF PaCapture
<1>11. /\ paOut' \in [PaJobs -> PaCapture]
       /\ paOut'[paAt] = [paOut[paAt] EXCEPT ![s] = Captured(s)]
       /\ \A j \in PaJobs : j # paAt => paOut'[j] = paOut[j]
  BY <1>6, <1>9, <1>10
<1>12. paOut'[paAt][s] = Captured(s) /\ \A r \in PaStreams : r # s => paOut'[paAt][r] = paOut[paAt][r]
  BY <1>8, <1>11 DEF PaCapture
<1>13. \A r : Captured(r)' = Captured(r)
  BY <1>4 DEF Captured
<1>14. PaShape'
  BY <1>1, <1>2, <1>4, <1>5, <1>11 DEF PaShape, PaSteps
<1>15. PaJobInv'
  <2>1. CASE s = "stdout"
    <3>1. paPc' = "stderr" /\ paOut'[paAt']["stdout"].text = Captured("stdout")'.text
      BY <1>2, <1>12, <1>13, <2>1
    <3> QED
      BY <1>1, <1>2, <1>4, <1>6, <2>1, <3>1 DEF PaJobInv, PaInJob
  <2>2. CASE s = "stderr"
    <3>1. paPc' = "classify" /\ paOut'[paAt']["stderr"].text = Captured("stderr")'.text
      BY <1>2, <1>12, <1>13, <2>2
    <3>2. paOut'[paAt']["stdout"].text = Captured("stdout")'.text
      <4>1. paOut[paAt]["stdout"].text = Captured("stdout").text
        BY <1>1, <1>2, <2>2 DEF PaJobInv
      <4>2. paOut'[paAt']["stdout"] = paOut[paAt]["stdout"]
        BY <1>2, <1>12, <2>2 DEF PaStreams
      <4> QED
        BY <1>13, <4>1, <4>2
    <3> QED
      BY <1>1, <1>2, <1>4, <1>6, <2>2, <3>1, <3>2 DEF PaJobInv, PaInJob
  <2> QED
    BY <1>5, <2>1, <2>2
<1>16. PaTruthInv'
  <2>1. \A j \in DOMAIN paResults : j \in PaJobs /\ j # paAt
    BY <1>1, <1>6 DEF PaJobInv
  <2>2. PaTrue(paResults)'
    BY <1>1, <1>2, <1>11, <2>1 DEF PaTruthInv, PaTrue, PaOutputsAreThose
  <2> QED
    BY <1>2, <1>6, <2>2 DEF PaTruthInv
<1> QED
  BY <1>3, <1>14, <1>15, <1>16 DEF PaInv

\* Reverts to nothing: no tool, no threads
LEMMA PaForgetMove ==
  ASSUME PaForget
  PROVE  /\ PaStreamsInv' /\ PaBudgetInv' /\ paAt' = PaNil
         /\ paTool' \in [PaStreams -> Texts01]
         /\ paTaken' \in [PaStreams -> Nat] /\ paHeld' \in [PaStreams -> Nat]
         /\ paWritten' \in [PaStreams -> Nat]
         /\ paReader' = [s \in PaStreams |-> "done"]
         /\ paBytes' \in 0 .. PaMaxBytes /\ paLines' \in 0 .. PaMaxLines
         /\ paStop' = FALSE /\ paTruncated' = FALSE /\ paReason' = PaNil /\ paEnd' = PaNil
         /\ paTimedOut' = FALSE
<1>1. /\ PaClean /\ paTool' = Quiet /\ paAt' = PaNil
      /\ paReader' = [s \in PaStreams |-> "done"]
  BY DEF PaForget, PaClean
<1>2. paTool' \in [PaStreams -> Texts01]
  BY <1>1 DEF Quiet, Texts01
<1>3. PaStreamsInv' /\ PaBudgetInv'
  BY <1>1, <1>2, PaCleanMove
<1> QED
  BY <1>1, <1>2, <1>3, PaConstants DEF PaClean, Nothing

\* What a job that is over has captured is within the limits, and is all there
\* was if it is said to be.
LEMMA PaClassified ==
  ASSUME PaInv, paPc = "classify",
         NEW r, r = [status |-> PaStatus, reason |-> paReason, outputs |-> paOut[paAt],
                     bytes |-> paBytes, lines |-> paLines, tool |-> paTool,
                     readers |-> {paReader[s] : s \in PaStreams}]
  PROVE  PaWithinLimits(r) /\ PaCompletedIsWhole(r)
<1>1. PaShape /\ PaStreamsInv /\ PaBudgetInv /\ PaJobInv /\ PaTruthInv
  BY DEF PaInv
<1>2. /\ paTaken \in [PaStreams -> Nat] /\ paHeld \in [PaStreams -> Nat] /\ paWritten \in [PaStreams -> Nat]
      /\ paTool \in [PaStreams -> Texts01] /\ paBytes \in 0 .. PaMaxBytes /\ paLines \in 0 .. PaMaxLines
      /\ paTruncated = paStop
  BY <1>1 DEF PaShape
<1>3. PaMaxBytes \in Nat /\ PaMaxLines \in Nat
  BY PaConstants
<1>4. /\ r.status = PaStatus /\ r.reason = paReason /\ r.outputs = paOut[paAt] /\ r.bytes = paBytes
      /\ r.lines = paLines /\ r.tool = paTool /\ r.readers = {paReader[s] : s \in PaStreams}
  OBVIOUS
<1>5. \A s \in PaStreams : r.outputs[s].text = SubSeq(paTool[s], 1, paWritten[s])
  <2>1. /\ paOut[paAt]["stdout"].text = SubSeq(paTool["stdout"], 1, paWritten["stdout"])
        /\ paOut[paAt]["stderr"].text = SubSeq(paTool["stderr"], 1, paWritten["stderr"])
    BY <1>1 DEF PaJobInv, Captured
  <2> QED
    BY <1>4, <2>1 DEF PaStreams
<1>6. \A s \in PaStreams :
        /\ paTool[s] \in Texts01 /\ Len(paTool[s]) \in Nat /\ paTaken[s] \in Nat /\ paHeld[s] \in Nat
        /\ paWritten[s] \in 0 .. Len(paTool[s]) /\ paTaken[s] <= Len(paTool[s])
        /\ Kept(s) \in Nat /\ paWritten[s] <= Kept(s)
  <2> SUFFICES ASSUME NEW s \in PaStreams
               PROVE  /\ paTool[s] \in Texts01 /\ Len(paTool[s]) \in Nat /\ paTaken[s] \in Nat /\ paHeld[s] \in Nat
                      /\ paWritten[s] \in 0 .. Len(paTool[s]) /\ paTaken[s] <= Len(paTool[s])
                      /\ Kept(s) \in Nat /\ paWritten[s] <= Kept(s)
    OBVIOUS
  <2>1. paTool[s] \in Texts01 /\ paTaken[s] \in Nat /\ paHeld[s] \in Nat /\ paWritten[s] \in Nat
    BY <1>2
  <2>2. Len(paTool[s]) \in Nat
    BY <2>1 DEF Texts01
  <2>3. paTaken[s] <= Len(paTool[s]) /\ paWritten[s] + paHeld[s] <= paTaken[s]
    BY <1>1 DEF PaStreamsInv, PaStreamOK
  <2> QED
    BY <2>1, <2>2, <2>3 DEF Kept
<1>7. \A s \in PaStreams :
        /\ Len(r.outputs[s].text) = paWritten[s]
        /\ Lines(r.outputs[s].text) = LinesTo(paTool[s], paWritten[s])
  <2> SUFFICES ASSUME NEW s \in PaStreams
               PROVE  /\ Len(r.outputs[s].text) = paWritten[s]
                      /\ Lines(r.outputs[s].text) = LinesTo(paTool[s], paWritten[s])
    OBVIOUS
  <2>1. PICK text \in Texts01 : text = paTool[s]
    BY <1>6
  <2>2. PICK n \in 0 .. Len(text) : n = paWritten[s]
    BY <1>6, <2>1
  <2>3. Len(SubSeq(text, 1, n)) = n /\ Lines(SubSeq(text, 1, n)) = LinesTo(text, n)
    BY LinesOfText
  <2> QED
    BY <1>5, <2>1, <2>2, <2>3
<1>8. \A s \in PaStreams :
        LinesTo(paTool[s], paWritten[s]) \in Nat /\ LinesTo(paTool[s], Kept(s)) \in Nat
        /\ LinesTo(paTool[s], paWritten[s]) <= LinesTo(paTool[s], Kept(s))
  <2> SUFFICES ASSUME NEW s \in PaStreams
               PROVE  LinesTo(paTool[s], paWritten[s]) \in Nat /\ LinesTo(paTool[s], Kept(s)) \in Nat
                      /\ LinesTo(paTool[s], paWritten[s]) <= LinesTo(paTool[s], Kept(s))
    OBVIOUS
  <2>1. PICK a \in Nat : a = paWritten[s]
    BY <1>2
  <2>2. PICK b \in Nat : b = Kept(s)
    BY <1>6
  <2>3. a <= b
    BY <1>6, <2>1, <2>2
  <2>4. PICK text : text = paTool[s]
    OBVIOUS
  <2>5. LinesTo(text, a) <= LinesTo(text, b)
    BY <2>3, LinesGrow
  <2>6. LinesTo(text, a) \in Nat /\ LinesTo(text, b) \in Nat
    BY LinesNat
  <2> QED
    BY <2>1, <2>2, <2>4, <2>5, <2>6
<1>9. PaWithinLimits(r)
  <2>1. Len(r.outputs["stdout"].text) + Len(r.outputs["stderr"].text) <= PaMaxBytes
    <3>1. paBytes = Kept("stdout") + Kept("stderr")
      BY <1>1 DEF PaBudgetInv
    <3>2. /\ Len(r.outputs["stdout"].text) \in Nat /\ Len(r.outputs["stdout"].text) <= Kept("stdout")
          /\ Len(r.outputs["stderr"].text) \in Nat /\ Len(r.outputs["stderr"].text) <= Kept("stderr")
          /\ Kept("stdout") \in Nat /\ Kept("stderr") \in Nat
      BY <1>2, <1>6, <1>7 DEF PaStreams
    <3>3. Kept("stdout") + Kept("stderr") <= PaMaxBytes
      BY <1>2, <1>3, <3>1
    <3>4. \A a, b, c, d, m \in Nat : a <= c /\ b <= d /\ c + d <= m => a + b <= m
      OBVIOUS
    <3> QED
      BY <1>3, <3>2, <3>3, <3>4
  <2>2. Lines(r.outputs["stdout"].text) + Lines(r.outputs["stderr"].text) <= PaMaxLines
    <3>1. paLines = LinesTo(paTool["stdout"], Kept("stdout")) + LinesTo(paTool["stderr"], Kept("stderr"))
      BY <1>1 DEF PaBudgetInv
    <3>2. /\ Lines(r.outputs["stdout"].text) \in Nat
          /\ Lines(r.outputs["stdout"].text) <= LinesTo(paTool["stdout"], Kept("stdout"))
          /\ LinesTo(paTool["stdout"], Kept("stdout")) \in Nat
      BY <1>7, <1>8 DEF PaStreams
    <3>3. /\ Lines(r.outputs["stderr"].text) \in Nat
          /\ Lines(r.outputs["stderr"].text) <= LinesTo(paTool["stderr"], Kept("stderr"))
          /\ LinesTo(paTool["stderr"], Kept("stderr")) \in Nat
      BY <1>7, <1>8 DEF PaStreams
    <3> QED
      BY <1>2, <1>3, <3>1, <3>2, <3>3
  <2>3. /\ r.reason = "bytes" => r.bytes = PaMaxBytes
        /\ r.reason = "lines" => r.lines = PaMaxLines
    BY <1>1, <1>4 DEF PaBudgetInv
  <2> QED
    BY <2>1, <2>2, <2>3 DEF PaWithinLimits
<1>10. PaCompletedIsWhole(r)
  <2> SUFFICES ASSUME r.readers = {"done"}
               PROVE  /\ r.status = "completed" => \A s \in PaStreams : r.outputs[s].text = r.tool[s]
                      /\ r.status = "completed_with_limit" =>
                           ~(\A s \in PaStreams : r.outputs[s].text = r.tool[s])
    BY DEF PaCompletedIsWhole
  <2>1. \A s \in PaStreams : paReader[s] = "done"
    BY <1>4
  <2>2. ASSUME r.status = "completed", NEW s \in PaStreams PROVE r.outputs[s].text = r.tool[s]
    <3>1. ~paStop /\ paEnd = "accepted"
      BY <1>2, <1>4, <2>2 DEF PaStatus
    <3>2. paWritten[s] = Len(paTool[s])
      BY <1>1, <2>1, <3>1 DEF PaStreamsInv, PaStreamOK
    <3>3. SubSeq(paTool[s], 1, Len(paTool[s])) = paTool[s]
      <4>1. paTool[s] \in Seq({0, 1})
        BY <1>6 DEF Texts01
      <4> QED
        BY <4>1
    <3> QED
      BY <1>4, <1>5, <3>2, <3>3
  <2>3. ASSUME r.status = "completed_with_limit"
        PROVE  ~(\A s \in PaStreams : r.outputs[s].text = r.tool[s])
    <3>1. paStop
      BY <1>2, <1>4, <2>3 DEF PaStatus
    <3>2. PICK s \in PaStreams : Kept(s) < paTaken[s]
      BY <1>1, <3>1 DEF PaBudgetInv
    <3>3. /\ Len(paTool[s]) \in Nat /\ paTaken[s] \in Nat /\ Kept(s) \in Nat /\ paWritten[s] \in Nat
          /\ paWritten[s] <= Kept(s) /\ paTaken[s] <= Len(paTool[s])
      BY <1>2, <1>6
    <3>4. paWritten[s] # Len(paTool[s])
      BY <3>2, <3>3
    <3>5. Len(r.outputs[s].text) = paWritten[s]
      BY <1>7
    <3>6. r.outputs[s].text # r.tool[s]
      BY <1>4, <3>4, <3>5
    <3> QED
      BY <3>6
  <2> QED
    BY <2>2, <2>3
<1> QED
  BY <1>9, <1>10

\* The job is over.
LEMMA PaClassifyStep ==
  ASSUME PaInv, PaClassify
  PROVE  PaInv'
<1>1. PaShape /\ PaStreamsInv /\ PaBudgetInv /\ PaJobInv /\ PaTruthInv
  BY DEF PaInv
<1> DEFINE result == [status |-> PaStatus, reason |-> paReason, outputs |-> paOut[paAt],
                      bytes |-> paBytes, lines |-> paLines, tool |-> paTool,
                      readers |-> {paReader[s] : s \in PaStreams}]
<1>2. PICK r : r = result
  OBVIOUS
<1>3. /\ paPc = "classify" /\ paPc' = "jobs" /\ PaForget
      /\ paOut' = paOut /\ paProv' = paProv /\ paOpen' = paOpen /\ paRuns' = paRuns
  BY DEF PaClassify
<1>4. paResults' = [j \in DOMAIN paResults \cup {paAt} |-> IF j # paAt THEN paResults[j] ELSE r]
  BY <1>2 DEF PaClassify
<1>5. PaWithinLimits(r) /\ PaCompletedIsWhole(r)
  BY <1>2, <1>3, PaClassified
<1>6. r.outputs = paOut[paAt]
  BY <1>2
<1> HIDE DEF result
<1>7. /\ PaStreamsInv' /\ PaBudgetInv' /\ paAt' = PaNil
      /\ paTool' \in [PaStreams -> Texts01]
      /\ paTaken' \in [PaStreams -> Nat] /\ paHeld' \in [PaStreams -> Nat]
      /\ paWritten' \in [PaStreams -> Nat]
      /\ paReader' = [s \in PaStreams |-> "done"]
      /\ paBytes' \in 0 .. PaMaxBytes /\ paLines' \in 0 .. PaMaxLines
      /\ paStop' = FALSE /\ paTruncated' = FALSE /\ paReason' = PaNil /\ paEnd' = PaNil
      /\ paTimedOut' = FALSE
  BY <1>3, PaForgetMove
<1>8. PaShape'
  <2>1. paReader' \in [PaStreams -> {"reading", "writing", "done", "dead"}]
    BY <1>7
  <2> QED
    BY <1>1, <1>3, <1>7, <2>1 DEF PaShape, PaSteps
<1>9. /\ paAt \in PaJobs /\ paAt \notin paOpen /\ paOpen \cap DOMAIN paResults = {}
      /\ DOMAIN paResults \subseteq PaJobs
  BY <1>1, <1>3 DEF PaJobInv, PaInJob
<1>10. DOMAIN paResults' = DOMAIN paResults \cup {paAt}
  BY <1>4
<1>11. PaJobInv'
  <2>1. paOpen' \cap DOMAIN paResults' = {} /\ DOMAIN paResults' \subseteq PaJobs
    BY <1>3, <1>9, <1>10
  <2>2. \A s \in PaStreams : paReader'[s] \in {"done", "dead"}
    BY <1>7
  <2> QED
    BY <1>3, <2>1, <2>2 DEF PaJobInv, PaInJob
<1>12. PaTruthInv'
  <2>1. \A j \in DOMAIN paResults' : paResults'[j] = IF j # paAt THEN paResults[j] ELSE r
    BY <1>4, <1>10
  <2>2. PaTrue(paResults) /\ (paProv # PaNil => DOMAIN paProv \subseteq PaJobs /\ PaTrue(paProv))
    BY <1>1 DEF PaTruthInv
  <2>3. PaTrue(paResults)'
    <3> SUFFICES ASSUME NEW j \in DOMAIN paResults', paResults'[j] # PaNil
                 PROVE  /\ PaOutputsAreThose(j, paResults[j])'
                        /\ PaWithinLimits(paResults[j])' /\ PaCompletedIsWhole(paResults[j])'
      BY DEF PaTrue
    <3>1. CASE j = paAt
      <4>1. paResults'[j] = r
        BY <2>1, <3>1
      <4>2. PaWithinLimits(paResults'[j]) /\ PaCompletedIsWhole(paResults'[j])
        BY <1>5, <4>1
      <4>3. paOut'[j] = paResults'[j].outputs
        BY <1>3, <1>6, <3>1, <4>1
      <4> QED
        BY <4>2, <4>3 DEF PaOutputsAreThose
    <3>2. CASE j # paAt
      <4>1. j \in DOMAIN paResults /\ paResults'[j] = paResults[j]
        BY <1>10, <2>1, <3>2
      <4>2. PaOutputsAreThose(j, paResults[j]) /\ PaWithinLimits(paResults[j]) /\ PaCompletedIsWhole(paResults[j])
        BY <2>2, <4>1 DEF PaTrue
      <4>3. paOut'[j] = paResults'[j].outputs
        BY <1>3, <4>1, <4>2 DEF PaOutputsAreThose
      <4>4. PaWithinLimits(paResults'[j]) /\ PaCompletedIsWhole(paResults'[j])
        BY <4>1, <4>2
      <4> QED
        BY <4>3, <4>4 DEF PaOutputsAreThose
    <3> QED
      BY <3>1, <3>2
  <2>4. paProv' # PaNil => DOMAIN paProv' \subseteq PaJobs /\ PaTrue(paProv)'
    BY <1>3, <2>2 DEF PaTrue, PaOutputsAreThose
  <2> QED
    BY <2>3, <2>4 DEF PaTruthInv
<1> QED
  BY <1>7, <1>8, <1>11, <1>12 DEF PaInv

\* The run is over before its time.
LEMMA PaAbortStep ==
  ASSUME PaInv, PaAbort
  PROVE  PaInv'
<1>1. PaShape /\ PaTruthInv
  BY DEF PaInv
<1>2. /\ paPc' = "idle" /\ PaForget /\ paOpen' = {} /\ paResults' = <<>>
      /\ paOut' = paOut /\ paProv' = paProv /\ paRuns' = paRuns
  BY DEF PaAbort
<1>3. /\ PaStreamsInv' /\ PaBudgetInv' /\ paAt' = PaNil
      /\ paTool' \in [PaStreams -> Texts01]
      /\ paTaken' \in [PaStreams -> Nat] /\ paHeld' \in [PaStreams -> Nat]
      /\ paWritten' \in [PaStreams -> Nat]
      /\ paReader' = [s \in PaStreams |-> "done"]
      /\ paBytes' \in 0 .. PaMaxBytes /\ paLines' \in 0 .. PaMaxLines
      /\ paStop' = FALSE /\ paTruncated' = FALSE /\ paReason' = PaNil /\ paEnd' = PaNil
      /\ paTimedOut' = FALSE
  BY <1>2, PaForgetMove
<1>4. PaShape'
  <2>1. paReader' \in [PaStreams -> {"reading", "writing", "done", "dead"}]
    BY <1>3
  <2> QED
    BY <1>1, <1>2, <1>3, <2>1 DEF PaShape, PaSteps
<1>5. DOMAIN paResults' = {}
  BY <1>2
<1>6. \A s \in PaStreams : paReader'[s] \in {"done", "dead"}
  BY <1>3
<1>7. PaJobInv'
  BY <1>2, <1>5, <1>6 DEF PaJobInv, PaInJob
<1>8. PaTruthInv'
  BY <1>1, <1>2, <1>5 DEF PaTruthInv, PaTrue, PaOutputsAreThose
<1> QED
  BY <1>3, <1>4, <1>7, <1>8 DEF PaInv

\* The account of the threads and the budget, and the truth of what was
\* recorded, hold throughout.
THEOREM PaInvariant == PaSpec => []PaInv
<1>1. PaInit => PaInv
  BY PaInvInit
<1>2. PaInv /\ [PaNext]_paVars => PaInv'
  <2> SUFFICES ASSUME PaInv, [PaNext]_paVars PROVE PaInv'
    OBVIOUS
  <2>1. CASE PaStart \/ PaJobsDone \/ PaUnlink \/ PaUnlinkFinal \/ PaPublish
    BY <2>1, PaRecordStep
  <2>2. CASE PaJob
    BY <2>2, PaJobStep
  <2>3. CASE PaPoll
    BY <2>3, PaPollStep
  <2>4. CASE PaJoin
    BY <2>4, PaJoinStep
  <2>5. CASE PaClassify
    BY <2>5, PaClassifyStep
  <2>6. CASE PaAbort
    BY <2>6, PaAbortStep
  <2>7. CASE \E s \in PaStreams : PaRead(s) \/ PaWrite(s) \/ PaWriteFails(s) \/ PaReplace(s)
    BY <2>7, PaReadStep, PaWriteStep, PaWriteFailsStep, PaReplaceStep
  <2>8. CASE UNCHANGED paVars
    <3>1. /\ paOut' = paOut /\ paProv' = paProv /\ paPc' = paPc /\ paOpen' = paOpen /\ paAt' = paAt
          /\ paResults' = paResults /\ paRuns' = paRuns /\ UNCHANGED PaLocal
      BY <2>8 DEF paVars, paPipes, paBudget, paChild, PaLocal
    <3>2. PaStreamsInv' /\ PaBudgetInv'
      BY <3>1, PaLocalStep DEF PaInv
    <3>3. /\ paTool' = paTool /\ paTaken' = paTaken /\ paHeld' = paHeld /\ paWritten' = paWritten
          /\ paReader' = paReader /\ paBytes' = paBytes /\ paLines' = paLines
          /\ paTruncated' = paTruncated /\ paReason' = paReason /\ paStop' = paStop /\ paEnd' = paEnd
          /\ paTimedOut' = paTimedOut
      BY <3>1 DEF PaLocal
    <3>4. PaShape'
      BY <3>1, <3>3 DEF PaInv, PaShape
    <3>5. PaJobInv'
      BY <3>1, <3>3 DEF PaInv, PaJobInv, Captured
    <3>6. PaTruthInv'
      BY <3>1 DEF PaInv, PaTruthInv, PaTrue, PaOutputsAreThose
    <3> QED
      BY <3>2, <3>4, <3>5, <3>6 DEF PaInv
  <2> QED
    BY <2>1, <2>2, <2>3, <2>4, <2>5, <2>6, <2>7, <2>8 DEF PaNext
<1> QED
  BY <1>1, <1>2, PTL DEF PaSpec

\* For any outputs, chunks and limits, and however often runs are killed or
\* forced over one another: a provenance record that is there speaks of the
\* outputs on disk, which keep both limits, and completed means everything.
THEOREM PaRecordIsTrueAlways == PaSpec => []PaRecordIsTrue
<1>1. PaInv => PaRecordIsTrue
  BY DEF PaInv, PaTruthInv, PaTrue, PaRecordIsTrue
<1> QED
  BY <1>1, PaInvariant, PTL
-----------------------------------------------------------------------------
(* The composition                                                         *)

\* The routes of the checked instance, whatever their constants, keep the
\* shapes of all components' states; of a state file the writers exclude each
\* other, as they do under the lock of the case.
THEOREM OutputTypes == ASSUME Serial PROVE Spec => []TypeOK
<1>1. Init => PaInit /\ StInit /\ VmInit /\ DtInit /\ AwInit
  BY DEF Init
<1>2. [Next]_vars => /\ [PaNext]_paVars /\ [StNext]_stVars /\ [VmNext]_vmVars
                     /\ [DtNext]_dtVars /\ [AwNext]_awVars
  BY DEF Next, vars, Pattern, Timeline, Machine, Tree, File, StateFile, Sectors
<1>3. Spec => PaSpec /\ StSpec /\ VmSpec /\ DtSpec /\ AwSpec
  BY <1>1, <1>2, PTL DEF Spec, PaSpec, StSpec, VmSpec, DtSpec, AwSpec
<1>4. PaInv => PaTypeOK
  <2> SUFFICES ASSUME PaInv PROVE PaTypeOK
    OBVIOUS
  <2>1. /\ paPc \in PaSteps /\ paOpen \subseteq PaJobs /\ paAt \in PaJobs \cup {PaNil}
        /\ paReader \in [PaStreams -> {"reading", "writing", "done", "dead"}]
        /\ paBytes \in 0 .. PaMaxBytes /\ paLines \in 0 .. PaMaxLines
        /\ paTruncated = paStop /\ paStop = (paReason # PaNil)
        /\ paEnd \in {PaNil, "accepted", "not_accepted", "terminated"}
    BY DEF PaInv, PaShape
  <2>2. \A s \in PaStreams : paWritten[s] + paHeld[s] <= paTaken[s]
    BY DEF PaInv, PaStreamsInv, PaStreamOK
  <2> QED
    BY <2>1, <2>2 DEF PaTypeOK
<1>5. VmInv => VmTypeOK
  BY DEF VmInv
<1>6. DtInv => DtTypeOK
  BY DEF DtInv
<1>7. RegisterInv => AwTypeOK
  BY DEF RegisterInv, TypeInv
<1>8. PaInv /\ StInv /\ VmInv /\ DtInv /\ RegisterInv => TypeOK
  BY <1>4, <1>5, <1>6, <1>7, StTyped DEF TypeOK
<1> QED
  BY <1>3, <1>8, PaInvariant, StInvariant, VmInvariant, DtInvariant, RegisterInvariant, PTL
=============================================================================
