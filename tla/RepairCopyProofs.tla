-------------------------- MODULE RepairCopyProofs --------------------------
(* Proofs about RepairCopy, for any number of commands, preparations of the *)
(* disk, edits and outcomes of TestDisk, with commands stopped anywhere.    *)
EXTENDS RepairCopy, TLAPS

-----------------------------------------------------------------------------
(* The disk.                                                               *)

\* disk.raw is the newest preparation, or gone; what disk.raw.json describes,
\* or will, was renamed by then.
NewestInv ==
    /\ disk # None => disk = newest
    /\ diskMeta <= newest
    /\ \A n \in owed : n <= newest

-----------------------------------------------------------------------------
(* Types, whether or not copies overlap.                                   *)

Writing == {"copy_write", "copy_replace"}

\* What a step reads is there; open(partial, "xb") lets one command write.
TypeInv ==
    /\ TypeOK
    /\ NewestInv
    /\ \A p \in Procs :
          /\ pc[p] \in Writing \cup {"copy_publish"} => data[p] \in Nat
          /\ pc[p] \in Writing => partial # None
          /\ pc[p] = "copy_replace" => partial \in Nat
          /\ pc[p] \in LockedSteps \ {"repair_check"}
                => read[p] \in Metadata /\ partition # None
          /\ pc[p] = "repair_settle" => data[p] \in Bytes
          /\ pc[p] = "repair_record" => meta \in Metadata
    /\ \A p, q \in Procs : pc[p] \in Writing /\ pc[q] \in Writing => p = q

\* The two ways in which the copy opens its files.
OpenFails(p) ==
    /\ pc' = [pc EXCEPT ![p] = "idle"]
    /\ lock' = IF lock = p THEN None ELSE lock
    /\ dir' = dir \/ dir' = TRUE
    /\ UNCHANGED <<partial, data>>
OpenWorks(p) ==
    /\ disk \in Nat
    /\ partial = None
    /\ dir' = TRUE
    /\ partial' = Torn
    /\ data' = [data EXCEPT ![p] = disk]
    /\ pc' = [pc EXCEPT ![p] = "copy_write"]
    /\ lock' = lock

\* One of them is taken, and nothing else changes.
LEMMA Opened ==
  ASSUME TypeOK, NEW p \in Procs, CopyOpen(p)
  PROVE  /\ pc[p] = "copy_open"
         /\ OpenFails(p) \/ OpenWorks(p)
         /\ UNCHANGED <<working, partition, meta, lane, tools, named, read, ok,
                        history, bounds>>
<1>1. CASE /\ disk = None \/ partial # None
           /\ UNCHANGED dir \/ dir' = TRUE
           /\ End(p)
           /\ UNCHANGED <<partial, data>>
  <2>1. OpenFails(p)
    BY <1>1 DEF OpenFails, End
  <2> QED
    BY <2>1 DEF CopyOpen
<1>2. CASE /\ disk # None /\ partial = None /\ dir' = TRUE /\ partial' = Torn
           /\ data' = [data EXCEPT ![p] = disk] /\ Goto(p, "copy_write")
           /\ UNCHANGED lock
  <2>1. disk \in Nat
    BY <1>2 DEF TypeOK
  <2>2. OpenWorks(p)
    BY <1>2, <2>1 DEF OpenWorks, Goto
  <2> QED
    BY <2>2 DEF CopyOpen
<1> QED
  BY <1>1, <1>2 DEF CopyOpen

\* What a preparation of the disk can change.
LEMMA Prepared ==
  ASSUME TypeOK, NewestInv, Prepare
  PROVE  /\ disk' \in Nat \cup {None} /\ diskMeta' \in Nat
         /\ newest' \in Nat /\ owed' \subseteq Nat /\ events' \in Nat
         /\ NewestInv' /\ newest <= newest'
         /\ UNCHANGED <<files, lock, tools, pc, locals, history, commands>>
<1> USE DEF TypeOK, NewestInv, bounds
<1>1. CASE PrepareUnlink
  BY <1>1 DEF PrepareUnlink
<1>2. CASE PrepareReplace
  <2>1. /\ newest' \in Nat /\ newest <= newest' /\ disk' = newest'
        /\ owed' = owed \cup {newest'} /\ diskMeta' = diskMeta /\ events' \in Nat
    BY <1>2 DEF PrepareReplace
  <2>2. owed' \subseteq Nat
    BY <2>1
  <2>3. diskMeta' <= newest' /\ \A n \in owed' : n <= newest'
    BY <2>1
  <2> QED
    BY <1>2, <2>1, <2>2, <2>3 DEF PrepareReplace
<1>3. CASE PrepareDescribe
  BY <1>3 DEF PrepareDescribe
<1> QED
  BY <1>1, <1>2, <1>3 DEF Prepare

\* The initial case has the shapes.
LEMMA TypeInit == Init => TypeInv
<1> SUFFICES ASSUME Init PROVE TypeInv
  OBVIOUS
<1>1. ok \in [Procs -> BOOLEAN] /\ dir \in BOOLEAN
  BY DEF Init
<1>2. TypeOK
  BY <1>1 DEF Init, TypeOK, Bytes, Steps
<1>3. \A p \in Procs : pc[p] = "idle"
  BY DEF Init
<1> QED
  <2>1. NewestInv
    BY DEF Init, NewestInv
  <2> QED
    BY <1>2, <1>3, <2>1 DEF TypeInv, LockedSteps, Writing

\* So does a step of a command that has read nothing yet.
LEMMA TypeFrame ==
  ASSUME TypeInv, TypeOK', NewestInv',
         UNCHANGED <<data, partial, partition, read, meta>>,
         \A q \in Procs : pc'[q] = pc[q] \/ pc'[q] = "copy_check"
  PROVE  TypeInv'
  BY DEF TypeInv, Writing, LockedSteps

\* A copy that begins reads no more than disk.raw.json.
LEMMA TypeCopyBegin ==
  ASSUME TypeInv, NEW p \in Procs, CopyBegin(p)
  PROVE  TypeInv'
<1>1. /\ pc' = [pc EXCEPT ![p] = "copy_check"]
      /\ named' = [named EXCEPT ![p] = diskMeta]
      /\ commands' = commands + 1
      /\ UNCHANGED <<working, files, lock, tools, data, read, ok, history, events>>
  BY DEF CopyBegin, Begin
<1>2. TypeOK'
  <2>1. /\ pc' \in [Procs -> Steps] /\ named' \in [Procs -> Nat]
        /\ commands' \in Nat
    BY <1>1 DEF TypeInv, TypeOK, Steps, CopySteps
  <2> QED
    BY <1>1, <2>1 DEF TypeInv, TypeOK, working, files, history
<1>3. NewestInv'
  BY <1>1 DEF TypeInv, NewestInv, working
<1>4. \A q \in Procs : pc'[q] = pc[q] \/ pc'[q] = "copy_check"
  BY <1>1 DEF TypeInv, TypeOK
<1> QED
  BY <1>1, <1>2, <1>3, <1>4, TypeFrame DEF files

\* Every step keeps the shapes.
LEMMA TypeStep == TypeInv /\ [Next]_vars => TypeInv'
<1> SUFFICES ASSUME TypeInv, [Next]_vars PROVE TypeInv'
  OBVIOUS
<1> USE DEF TypeInv, TypeOK, NewestInv, Steps, CopySteps, LockedSteps, Writing,
            working, files, locals, history, bounds, Goto, Begin, End
<1>1. ASSUME NEW p \in Procs, CopyBegin(p) PROVE TypeInv'
  BY <1>1, TypeCopyBegin
<1>2. ASSUME NEW p \in Procs, CopyCheck(p) PROVE TypeInv'
  BY <1>2 DEF CopyCheck
<1>3. ASSUME NEW p \in Procs, CopyOpen(p) PROVE TypeInv'
  <2>1. CASE OpenFails(p)
    <3>1. UNCHANGED <<working, partition, meta, lane, tools, named, read, ok,
                      history, bounds>>
      BY <1>3, <2>1, Opened
    <3>2. dir' \in BOOLEAN /\ lock' \in Procs \cup {None}
      BY <2>1 DEF OpenFails
    <3>3. pc' \in [Procs -> Steps] /\ \A q \in Procs : pc'[q] \in {pc[q], "idle"}
      BY <2>1 DEF OpenFails
    <3> QED
      BY <2>1, <3>1, <3>2, <3>3 DEF OpenFails
  <2>2. CASE OpenWorks(p)
    <3>1. data' \in [Procs -> Bytes \cup {None}] /\ data'[p] \in Nat
      BY <2>2 DEF OpenWorks, Bytes
    <3>2. Torn # None
      BY RepairConstants
    <3>3. \A q \in Procs : q # p => pc'[q] = pc[q] /\ data'[q] = data[q]
      BY <2>2 DEF OpenWorks
    <3>4. \A q \in Procs : pc[q] \notin Writing
      BY <2>2 DEF OpenWorks
    <3>5. pc[p] = "copy_open" /\ pc'[p] = "copy_write"
          /\ UNCHANGED <<working, partition, meta, lane, tools, named, read, ok,
                         history, bounds>>
      BY <1>3, <2>2, Opened DEF OpenWorks
    <3>6. TypeOK'
      BY <2>2, <3>1, <3>5 DEF OpenWorks
    <3>7. NewestInv'
      BY <3>5
    <3> QED
      BY <2>2, <3>1, <3>2, <3>3, <3>4, <3>5, <3>6, <3>7 DEF OpenWorks
  <2> QED
    BY <1>3, <2>1, <2>2, Opened
<1>4. ASSUME NEW p \in Procs, CopyWrite(p) PROVE TypeInv'
  BY <1>4, RepairConstants DEF CopyWrite, Bytes
<1>5. ASSUME NEW p \in Procs, CopyReplace(p) PROVE TypeInv'
  BY <1>5, RepairConstants DEF CopyReplace, Bytes
<1>6. ASSUME NEW p \in Procs, CopyPublish(p) PROVE TypeInv'
  BY <1>6 DEF CopyPublish, Metadata, Bytes
<1>7. ASSUME NEW p \in Procs, RepairBegin(p) PROVE TypeInv'
  BY <1>7 DEF RepairBegin
<1>8. ASSUME NEW p \in Procs, RepairLock(p) PROVE TypeInv'
  BY <1>8 DEF RepairLock
<1>9. ASSUME NEW p \in Procs, RepairCheck(p) PROVE TypeInv'
  <2>1. CASE Fresh
    <3>1. /\ partition # None /\ meta \in Metadata
          /\ pc' = [pc EXCEPT ![p] = "repair_hash"]
          /\ read' = [read EXCEPT ![p] = meta]
          /\ vouched' = (disk = diskMeta)
          /\ UNCHANGED <<working, files, lock, tools, named, data, ok, attempts,
                         openedOn, bounds>>
      BY <1>9, <2>1 DEF RepairCheck, Fresh
    <3>2. TypeOK'
      BY <3>1
    <3> QED
      BY <3>1, <3>2
  <2>2. CASE ~ Fresh
    BY <1>9, <2>2 DEF RepairCheck
  <2> QED
    BY <2>1, <2>2
<1>10. ASSUME NEW p \in Procs, RepairHash(p) PROVE TypeInv'
  BY <1>10 DEF RepairHash
<1>11. ASSUME NEW p \in Procs, RepairMark(p) PROVE TypeInv'
  <2>1. meta' \in Metadata
    BY <1>11 DEF RepairMark, Metadata
  <2> QED
    BY <1>11, <2>1 DEF RepairMark
<1>12. ASSUME NEW p \in Procs, RepairStart(p) PROVE TypeInv'
  <2>1. openedOn' \subseteq Bytes
    BY <1>12 DEF RepairStart, Bytes
  <2> QED
    BY <1>12, <2>1 DEF RepairStart
<1>13. ASSUME NEW p \in Procs, ToolWrite(p) PROVE TypeInv'
  BY <1>13, RepairConstants DEF ToolWrite, Bytes
<1>14. ASSUME NEW p \in Procs, ToolExit(p) PROVE TypeInv'
  <2>1. ok' \in [Procs -> BOOLEAN]
    BY <1>14 DEF ToolExit
  <2> QED
    BY <1>14, <2>1 DEF ToolExit
<1>22. ASSUME NEW p \in Procs, RepairLosesDisk(p) PROVE TypeInv'
  BY <1>22 DEF RepairLosesDisk
<1>15. ASSUME NEW p \in Procs, RepairMeasure(p) PROVE TypeInv'
  <2>1. CASE partition \in WrongLength
    BY <1>15, <2>1 DEF RepairMeasure
  <2>2. CASE partition \notin WrongLength
    BY <1>15, <2>2 DEF RepairMeasure
  <2> QED
    BY <2>1, <2>2
<1>16. ASSUME NEW p \in Procs, RepairSettle(p) PROVE TypeInv'
  BY <1>16 DEF RepairSettle, Metadata, Verdict, Verdicts
<1>17. ASSUME NEW p \in Procs, RepairRecord(p) PROVE TypeInv'
  BY <1>17 DEF RepairRecord, Lane
<1>18. ASSUME NEW p \in Procs, Stop(p) PROVE TypeInv'
  BY <1>18 DEF Stop
<1>19. CASE Prepare
  BY <1>19, Prepared
<1>20. CASE Edit
  BY <1>20, RepairConstants DEF Edit, Bytes
<1>21. CASE UNCHANGED vars
  BY <1>21 DEF vars
<1> QED
  BY <1>1, <1>2, <1>3, <1>4, <1>5, <1>6, <1>7, <1>8, <1>9, <1>10, <1>11, <1>12,
     <1>13, <1>14, <1>15, <1>16, <1>17, <1>18, <1>19, <1>20, <1>21,
     <1>22
  DEF Next, Continue, Copy, Repair, Tool

\* Types, for the code's shape of every file and command.
THEOREM RepairTypeCorrect == Spec => []TypeOK
<1>1. TypeInv => TypeOK
  BY DEF TypeInv
<1> QED
  BY <1>1, TypeInit, TypeStep, PTL DEF Spec
-----------------------------------------------------------------------------
(* One attempt, where copies of one target do not overlap: a second copy   *)
(* that has seen no target would replace it.                               *)

\* The repairs exclude each other, and a copy and an announced target do.
Exclusion ==
    /\ \A p \in Procs : pc[p] \in LockedSteps => lock = p
    /\ \A p, q \in Procs : pc[p] \in CopySteps /\ pc[q] \in CopySteps => p = q
    /\ \A p \in Procs : pc[p] \in CopySteps \ {"copy_check"} => meta = None
    /\ \A p \in Procs : pc[p] \in LockedSteps \ {"repair_check"} => meta # None
    /\ \A p \in Procs : pc[p] \in Writing \cup {"copy_publish"} => dir
    /\ ~dir => meta = None

Trying == {"repair_tool", "repair_measure", "repair_settle"}

\* partition.json tells how far the attempt is, and a command that goes on
\* with one has read partition.json as it is.
StageInv ==
    /\ Stage \in {"none", "copied"} => attempts = 0
    /\ Stage = "marked" => attempts \in {0, 1}
    /\ Stage = "settled" => attempts = 1
    /\ attempts = 0 => openedOn = {} /\ tools = {} /\ lane = None
    /\ \A p \in Procs :
          /\ pc[p] \in {"repair_hash", "repair_mark"}
                => Stage = "copied" /\ read[p] = meta
          /\ pc[p] = "repair_start" => Stage = "marked" /\ attempts = 0
          /\ pc[p] \in Trying => Stage = "marked" /\ attempts = 1
          /\ pc[p] \in Trying \cup {"repair_start"}
                => meta.source = read[p].source /\ meta.pre = read[p].pre
          /\ pc[p] = "repair_record" => Stage = "settled"

\* What a verdict says happened, and what the ledger holds of it.
VerdictInv ==
    /\ Stage = "settled" /\ meta.status = "tool_completed_with_changes"
          => meta.post # meta.pre
    /\ LedgerCitesAttempt

\* The bytes of a copy are at least as new as the disk it names; they are
\* those of the disk it names once a repair found it to be the present one.
SliceInv ==
    /\ \A p \in Procs :
          /\ pc[p] \in CopySteps => named[p] <= newest
          /\ pc[p] \in Writing \cup {"copy_publish"}
                => named[p] <= data[p] /\ data[p] <= newest
          /\ pc[p] \in {"repair_hash", "repair_mark", "repair_start"} \cup Trying
                => (vouched => read[p].pre = read[p].source)
          /\ pc[p] \in {"repair_mark", "repair_start"}
                => partition = read[p].pre
    /\ meta # None => /\ meta.pre \in Nat
                      /\ meta.source <= meta.pre /\ meta.pre <= newest
    /\ Stage \in {"marked", "settled"} => (vouched => meta.pre = meta.source)
    /\ attempts = 1 => openedOn = {meta.pre}

OneAttemptInv == TypeInv /\ Exclusion /\ StageInv /\ VerdictInv /\ SliceInv

\* What the two writes of a repair leave in partition.json.
LEMMA MarkedMeta ==
  ASSUME TypeInv, NEW p \in Procs, RepairMark(p)
  PROVE  /\ meta' \in Metadata /\ meta' # None
         /\ meta'.status = "running"
         /\ meta'.source = read[p].source /\ meta'.pre = read[p].pre
<1>1. read[p] \in Metadata
  BY DEF TypeInv, RepairMark, LockedSteps
<1> QED
  BY <1>1, NoneIsNoFile DEF RepairMark, Metadata

\* What is settled is still metadata of an attempt.
LEMMA SettledMeta ==
  ASSUME TypeInv, NEW p \in Procs, RepairSettle(p)
  PROVE  /\ meta' \in Metadata /\ meta' # None
         /\ meta'.status = Verdict(p) /\ Verdict(p) \in Verdicts
         /\ meta'.source = read[p].source /\ meta'.pre = read[p].pre
         /\ meta'.post = data[p]
         /\ pc[p] = "repair_settle"
         /\ pc' = [pc EXCEPT ![p] = "repair_record"]
         /\ UNCHANGED <<working, dir, partial, partition, lane, lock, tools, locals,
                        history, bounds>>
<1>1. read[p] \in Metadata /\ data[p] \in Bytes
  BY DEF TypeInv, RepairSettle, LockedSteps
<1>2. PICK valid \in BOOLEAN :
        meta' = [source |-> read[p].source, pre |-> read[p].pre,
                 status |-> Verdict(p), post |-> data[p], valid |-> valid]
  BY DEF RepairSettle
<1>3. Verdict(p) \in Verdicts
  BY DEF Verdict, Verdicts
<1>4. meta' \in Metadata
  BY <1>1, <1>2, <1>3 DEF Metadata
<1> QED
  BY <1>2, <1>3, <1>4, NoneIsNoFile DEF RepairSettle, Goto

\* Every step keeps commands on one copy apart.
LEMMA ExclusionStep ==
  ASSUME TypeInv, Exclusion, ~ConcurrentCopies, [Next]_vars
  PROVE  Exclusion'
<1> USE RepairConstants DEF Exclusion, TypeInv, TypeOK, Writing, CopySteps, LockedSteps, working, files, locals, history, bounds, Goto, Begin, End
<1>1. ASSUME NEW p \in Procs, CopyBegin(p) PROVE Exclusion'
  BY <1>1 DEF CopyBegin
<1>2. ASSUME NEW p \in Procs, CopyCheck(p) PROVE Exclusion'
  BY <1>2 DEF CopyCheck
<1>3. ASSUME NEW p \in Procs, CopyOpen(p) PROVE Exclusion'
  <2>0. /\ pc[p] = "copy_open"
        /\ UNCHANGED <<disk, diskMeta, newest, owed, partition, meta, lane, tools,
                       named, read, ok, attempts, openedOn, vouched, commands,
                       events>>
    BY <1>3, Opened
  <2>1. CASE OpenFails(p)
    <3>1. \A q \in Procs : pc'[q] \in CopySteps \cup LockedSteps => pc'[q] = pc[q]
      BY <2>1 DEF OpenFails
    <3> QED
      BY <2>0, <2>1, <3>1 DEF OpenFails
  <2>2. CASE OpenWorks(p)
    <3>1. \A q \in Procs : q # p => pc'[q] = pc[q]
      BY <2>2 DEF OpenWorks
    <3>2. pc'[p] = "copy_write" /\ dir' = TRUE /\ lock' = lock
      BY <2>2 DEF OpenWorks
    <3> QED
      BY <2>0, <3>1, <3>2
  <2> QED
    BY <1>3, <2>1, <2>2, Opened
<1>4. ASSUME NEW p \in Procs, CopyWrite(p) PROVE Exclusion'
  BY <1>4 DEF CopyWrite
<1>5. ASSUME NEW p \in Procs, CopyReplace(p) PROVE Exclusion'
  BY <1>5 DEF CopyReplace
<1>6. ASSUME NEW p \in Procs, CopyPublish(p) PROVE Exclusion'
  BY <1>6 DEF CopyPublish
<1>7. ASSUME NEW p \in Procs, RepairBegin(p) PROVE Exclusion'
  BY <1>7 DEF RepairBegin
<1>8. ASSUME NEW p \in Procs, RepairLock(p) PROVE Exclusion'
  BY <1>8 DEF RepairLock
<1>9. ASSUME NEW p \in Procs, RepairCheck(p) PROVE Exclusion'
  BY <1>9 DEF RepairCheck, Fresh
<1>10. ASSUME NEW p \in Procs, RepairHash(p) PROVE Exclusion'
  BY <1>10 DEF RepairHash
<1>11. ASSUME NEW p \in Procs, RepairMark(p) PROVE Exclusion'
  <2>1. meta' # None
    BY <1>11, MarkedMeta
  <2>2. /\ pc[p] = "repair_mark" /\ pc' = [pc EXCEPT ![p] = "repair_start"]
        /\ UNCHANGED <<dir, lock>>
    BY <1>11 DEF RepairMark
  <2>3. \A q \in Procs : pc[q] \notin CopySteps \ {"copy_check"}
    BY <2>2
  <2> QED
    BY <2>1, <2>2, <2>3
<1>12. ASSUME NEW p \in Procs, RepairStart(p) PROVE Exclusion'
  BY <1>12 DEF RepairStart
<1>13. ASSUME NEW p \in Procs, ToolWrite(p) PROVE Exclusion'
  BY <1>13 DEF ToolWrite
<1>14. ASSUME NEW p \in Procs, ToolExit(p) PROVE Exclusion'
  BY <1>14 DEF ToolExit
<1>22. ASSUME NEW p \in Procs, RepairLosesDisk(p) PROVE Exclusion'
  BY <1>22 DEF RepairLosesDisk
<1>15. ASSUME NEW p \in Procs, RepairMeasure(p) PROVE Exclusion'
  BY <1>15 DEF RepairMeasure
<1>16. ASSUME NEW p \in Procs, RepairSettle(p) PROVE Exclusion'
  BY <1>16, SettledMeta
<1>17. ASSUME NEW p \in Procs, RepairRecord(p) PROVE Exclusion'
  BY <1>17 DEF RepairRecord
<1>18. ASSUME NEW p \in Procs, Stop(p) PROVE Exclusion'
  BY <1>18 DEF Stop
<1>19. CASE Prepare
  BY <1>19, Prepared
<1>20. CASE Edit
  BY <1>20 DEF Edit
<1>21. CASE UNCHANGED vars
  BY <1>21 DEF vars
<1> QED
  BY <1>1, <1>2, <1>3, <1>4, <1>5, <1>6, <1>7, <1>8, <1>9, <1>10, <1>11, <1>12,
     <1>13, <1>14, <1>15, <1>16, <1>17, <1>18, <1>19, <1>20, <1>21,
     <1>22
  DEF Next, Continue, Copy, Repair, Tool

\* Every step keeps the stage of the attempt on record.
LEMMA StageStep ==
  ASSUME TypeInv, Exclusion, StageInv, [Next]_vars
  PROVE  StageInv'
<1> USE NoneIsNoFile DEF StageInv, Stage, TypeInv, TypeOK, Exclusion, Trying, CopySteps, LockedSteps, working, files, locals, history, bounds, Goto, Begin, End
<1>1. ASSUME NEW p \in Procs, CopyBegin(p) PROVE StageInv'
  BY <1>1 DEF CopyBegin
<1>2. ASSUME NEW p \in Procs, CopyCheck(p) PROVE StageInv'
  BY <1>2 DEF CopyCheck
<1>3. ASSUME NEW p \in Procs, CopyOpen(p) PROVE StageInv'
  <2>1. CASE OpenFails(p)
    BY <1>3, <2>1, Opened DEF OpenFails
  <2>2. CASE OpenWorks(p)
    BY <1>3, <2>2, Opened DEF OpenWorks
  <2> QED
    BY <1>3, <2>1, <2>2, Opened
<1>4. ASSUME NEW p \in Procs, CopyWrite(p) PROVE StageInv'
  BY <1>4 DEF CopyWrite
<1>5. ASSUME NEW p \in Procs, CopyReplace(p) PROVE StageInv'
  BY <1>5 DEF CopyReplace
<1>6. ASSUME NEW p \in Procs, CopyPublish(p) PROVE StageInv'
  BY <1>6 DEF CopyPublish
<1>7. ASSUME NEW p \in Procs, RepairBegin(p) PROVE StageInv'
  BY <1>7 DEF RepairBegin
<1>8. ASSUME NEW p \in Procs, RepairLock(p) PROVE StageInv'
  BY <1>8 DEF RepairLock
<1>9. ASSUME NEW p \in Procs, RepairCheck(p) PROVE StageInv'
  BY <1>9 DEF RepairCheck, Fresh
<1>10. ASSUME NEW p \in Procs, RepairHash(p) PROVE StageInv'
  BY <1>10 DEF RepairHash
<1>11. ASSUME NEW p \in Procs, RepairMark(p) PROVE StageInv'
  <2>1. /\ meta' # None /\ meta'.status = "running"
        /\ meta'.source = read[p].source /\ meta'.pre = read[p].pre
    BY <1>11, MarkedMeta
  <2>2. /\ pc[p] = "repair_mark" /\ pc' = [pc EXCEPT ![p] = "repair_start"]
        /\ UNCHANGED <<lane, lock, tools, read, attempts, openedOn>>
    BY <1>11 DEF RepairMark
  <2> QED
    BY <2>1, <2>2
<1>12. ASSUME NEW p \in Procs, RepairStart(p) PROVE StageInv'
  BY <1>12 DEF RepairStart
<1>13. ASSUME NEW p \in Procs, ToolWrite(p) PROVE StageInv'
  BY <1>13 DEF ToolWrite
<1>14. ASSUME NEW p \in Procs, ToolExit(p) PROVE StageInv'
  BY <1>14 DEF ToolExit
<1>22. ASSUME NEW p \in Procs, RepairLosesDisk(p) PROVE StageInv'
  BY <1>22 DEF RepairLosesDisk
<1>15. ASSUME NEW p \in Procs, RepairMeasure(p) PROVE StageInv'
  BY <1>15 DEF RepairMeasure
<1>16. ASSUME NEW p \in Procs, RepairSettle(p) PROVE StageInv'
  BY <1>16, SettledMeta DEF Verdicts
<1>17. ASSUME NEW p \in Procs, RepairRecord(p) PROVE StageInv'
  BY <1>17 DEF RepairRecord
<1>18. ASSUME NEW p \in Procs, Stop(p) PROVE StageInv'
  BY <1>18 DEF Stop
<1>19. CASE Prepare
  BY <1>19, Prepared
<1>20. CASE Edit
  BY <1>20 DEF Edit
<1>21. CASE UNCHANGED vars
  BY <1>21 DEF vars
<1> QED
  BY <1>1, <1>2, <1>3, <1>4, <1>5, <1>6, <1>7, <1>8, <1>9, <1>10, <1>11, <1>12,
     <1>13, <1>14, <1>15, <1>16, <1>17, <1>18, <1>19, <1>20, <1>21,
     <1>22
  DEF Next, Continue, Copy, Repair, Tool

\* Every step keeps the verdict that the ledger has.
LEMMA VerdictStep ==
  ASSUME TypeInv, Exclusion, StageInv, VerdictInv, [Next]_vars
  PROVE  VerdictInv'
<1> USE NoneIsNoFile DEF VerdictInv, LedgerCitesAttempt, Stage, TypeInv, TypeOK, Exclusion, StageInv, Trying, CopySteps, LockedSteps, working, files, locals, history, bounds, Goto, Begin, End
<1>1. ASSUME NEW p \in Procs, CopyBegin(p) PROVE VerdictInv'
  BY <1>1 DEF CopyBegin
<1>2. ASSUME NEW p \in Procs, CopyCheck(p) PROVE VerdictInv'
  BY <1>2 DEF CopyCheck
<1>3. ASSUME NEW p \in Procs, CopyOpen(p) PROVE VerdictInv'
  BY <1>3, Opened DEF OpenFails, OpenWorks
<1>4. ASSUME NEW p \in Procs, CopyWrite(p) PROVE VerdictInv'
  BY <1>4 DEF CopyWrite
<1>5. ASSUME NEW p \in Procs, CopyReplace(p) PROVE VerdictInv'
  BY <1>5 DEF CopyReplace
<1>6. ASSUME NEW p \in Procs, CopyPublish(p) PROVE VerdictInv'
  BY <1>6 DEF CopyPublish
<1>7. ASSUME NEW p \in Procs, RepairBegin(p) PROVE VerdictInv'
  BY <1>7 DEF RepairBegin
<1>8. ASSUME NEW p \in Procs, RepairLock(p) PROVE VerdictInv'
  BY <1>8 DEF RepairLock
<1>9. ASSUME NEW p \in Procs, RepairCheck(p) PROVE VerdictInv'
  BY <1>9 DEF RepairCheck, Fresh
<1>10. ASSUME NEW p \in Procs, RepairHash(p) PROVE VerdictInv'
  BY <1>10 DEF RepairHash
<1>11. ASSUME NEW p \in Procs, RepairMark(p) PROVE VerdictInv'
  BY <1>11, MarkedMeta DEF RepairMark
<1>12. ASSUME NEW p \in Procs, RepairStart(p) PROVE VerdictInv'
  BY <1>12 DEF RepairStart
<1>13. ASSUME NEW p \in Procs, ToolWrite(p) PROVE VerdictInv'
  BY <1>13 DEF ToolWrite
<1>14. ASSUME NEW p \in Procs, ToolExit(p) PROVE VerdictInv'
  BY <1>14 DEF ToolExit
<1>22. ASSUME NEW p \in Procs, RepairLosesDisk(p) PROVE VerdictInv'
  BY <1>22 DEF RepairLosesDisk
<1>15. ASSUME NEW p \in Procs, RepairMeasure(p) PROVE VerdictInv'
  BY <1>15 DEF RepairMeasure
<1>16. ASSUME NEW p \in Procs, RepairSettle(p) PROVE VerdictInv'
  BY <1>16, SettledMeta DEF Verdict, Verdicts, Changed, NeedsDisk
<1>17. ASSUME NEW p \in Procs, RepairRecord(p) PROVE VerdictInv'
  <2>1. Stage = "settled" /\ meta # None /\ UNCHANGED <<meta, attempts>>
    BY <1>17 DEF RepairRecord
  <2>2. lane' = lane \/ /\ lane'.evidence = meta
                        /\ lane'.status = "completed"
                             => meta.status = "tool_completed_with_changes"
    BY <1>17 DEF RepairRecord
  <2>3. meta.status \in Verdicts
    BY <2>1 DEF Metadata
  <2> QED
    BY <2>1, <2>2, <2>3
<1>18. ASSUME NEW p \in Procs, Stop(p) PROVE VerdictInv'
  BY <1>18 DEF Stop
<1>19. CASE Prepare
  BY <1>19, Prepared
<1>20. CASE Edit
  BY <1>20 DEF Edit
<1>21. CASE UNCHANGED vars
  BY <1>21 DEF vars
<1> QED
  BY <1>1, <1>2, <1>3, <1>4, <1>5, <1>6, <1>7, <1>8, <1>9, <1>10, <1>11, <1>12,
     <1>13, <1>14, <1>15, <1>16, <1>17, <1>18, <1>19, <1>20, <1>21,
     <1>22
  DEF Next, Continue, Copy, Repair, Tool

\* Every step keeps the slice that was verified.
LEMMA SliceStep ==
  ASSUME TypeInv, Exclusion, StageInv, SliceInv, [Next]_vars
  PROVE  SliceInv'
<1> USE NoneIsNoFile, RepairConstants DEF SliceInv, Stage, TypeInv, TypeOK, Exclusion, StageInv, Trying, Writing, CopySteps, LockedSteps, working, files, locals, history, bounds, Goto, Begin, End
<1>1. ASSUME NEW p \in Procs, CopyBegin(p) PROVE SliceInv'
  BY <1>1 DEF CopyBegin, NewestInv
<1>2. ASSUME NEW p \in Procs, CopyCheck(p) PROVE SliceInv'
  BY <1>2 DEF CopyCheck
<1>3. ASSUME NEW p \in Procs, CopyOpen(p) PROVE SliceInv'
  <2>0. /\ pc[p] = "copy_open"
        /\ UNCHANGED <<disk, diskMeta, newest, owed, partition, meta, lane, tools,
                       named, read, ok, attempts, openedOn, vouched, commands,
                       events>>
    BY <1>3, Opened
  <2>1. CASE OpenFails(p)
    <3>1. \A q \in Procs : pc'[q] \in CopySteps \cup LockedSteps => pc'[q] = pc[q]
      BY <2>1 DEF OpenFails
    <3> QED
      BY <2>0, <2>1, <3>1 DEF OpenFails
  <2>2. CASE OpenWorks(p)
    <3>1. data'[p] = newest /\ disk = newest
      BY <2>2 DEF OpenWorks, NewestInv
    <3>2. named[p] <= newest /\ newest <= newest
      BY <1>3, Opened
    <3>3. \A q \in Procs : q # p => pc'[q] = pc[q] /\ data'[q] = data[q]
      BY <2>2 DEF OpenWorks
    <3>4. pc'[p] = "copy_write"
      BY <2>2 DEF OpenWorks
    <3> QED
      BY <2>0, <3>1, <3>2, <3>3, <3>4
  <2> QED
    BY <1>3, <2>1, <2>2, Opened
<1>4. ASSUME NEW p \in Procs, CopyWrite(p) PROVE SliceInv'
  BY <1>4 DEF CopyWrite
<1>5. ASSUME NEW p \in Procs, CopyReplace(p) PROVE SliceInv'
  BY <1>5 DEF CopyReplace
<1>6. ASSUME NEW p \in Procs, CopyPublish(p) PROVE SliceInv'
  BY <1>6 DEF CopyPublish
<1>7. ASSUME NEW p \in Procs, RepairBegin(p) PROVE SliceInv'
  BY <1>7 DEF RepairBegin
<1>8. ASSUME NEW p \in Procs, RepairLock(p) PROVE SliceInv'
  BY <1>8 DEF RepairLock
<1>9. ASSUME NEW p \in Procs, RepairCheck(p) PROVE SliceInv'
  <2>1. CASE ~ Fresh
    BY <1>9, <2>1 DEF RepairCheck
  <2>2. CASE Fresh
    <3>1. /\ Stage = "copied" /\ meta # None /\ meta \in Metadata
          /\ read' = [read EXCEPT ![p] = meta]
          /\ vouched' = (disk = diskMeta)
          /\ pc[p] = "repair_check" /\ pc' = [pc EXCEPT ![p] = "repair_hash"]
          /\ UNCHANGED <<working, files, lock, tools, named, data, ok, attempts,
                         openedOn, bounds>>
      BY <1>9, <2>2 DEF RepairCheck, Fresh
    <3>2. disk = diskMeta => meta.pre = meta.source
      BY <2>2, <3>1 DEF Fresh, NewestInv, Metadata
    <3>3. \A q \in Procs : q # p =>
             pc[q] \notin {"repair_hash", "repair_mark", "repair_start"} \cup Trying
      BY <3>1
    <3> QED
      BY <3>1, <3>2, <3>3
  <2> QED
    BY <2>1, <2>2
<1>10. ASSUME NEW p \in Procs, RepairHash(p) PROVE SliceInv'
  BY <1>10 DEF RepairHash
<1>11. ASSUME NEW p \in Procs, RepairMark(p) PROVE SliceInv'
  BY <1>11, MarkedMeta DEF RepairMark
<1>12. ASSUME NEW p \in Procs, RepairStart(p) PROVE SliceInv'
  BY <1>12 DEF RepairStart
<1>13. ASSUME NEW p \in Procs, ToolWrite(p) PROVE SliceInv'
  BY <1>13 DEF ToolWrite
<1>14. ASSUME NEW p \in Procs, ToolExit(p) PROVE SliceInv'
  BY <1>14 DEF ToolExit
<1>22. ASSUME NEW p \in Procs, RepairLosesDisk(p) PROVE SliceInv'
  BY <1>22 DEF RepairLosesDisk
<1>15. ASSUME NEW p \in Procs, RepairMeasure(p) PROVE SliceInv'
  BY <1>15 DEF RepairMeasure
<1>16. ASSUME NEW p \in Procs, RepairSettle(p) PROVE SliceInv'
  <2>1. pc[p] \in Trying /\ Stage = "marked"
    BY <1>16, SettledMeta
  <2>2. Stage' = "settled"
    BY <1>16, SettledMeta DEF Verdicts
  <2> QED
    BY <1>16, <2>1, <2>2, SettledMeta
<1>17. ASSUME NEW p \in Procs, RepairRecord(p) PROVE SliceInv'
  BY <1>17 DEF RepairRecord
<1>18. ASSUME NEW p \in Procs, Stop(p) PROVE SliceInv'
  BY <1>18 DEF Stop
<1>19. CASE Prepare
  <2>1. newest <= newest' /\ newest' \in Nat
        /\ UNCHANGED <<files, lock, tools, pc, locals, history, commands>>
    BY <1>19, Prepared
  <2>2. \A p \in Procs : named[p] \in Nat
    BY DEF TypeInv, TypeOK
  <2>3. meta # None => meta.pre <= newest'
    BY <2>1
  <2>4. \A p \in Procs : pc[p] \in CopySteps => named[p] <= newest'
    BY <2>1, <2>2
  <2>5. \A p \in Procs : pc[p] \in Writing \cup {"copy_publish"} => data[p] <= newest'
    BY <2>1
  <2> QED
    BY <2>1, <2>3, <2>4, <2>5
<1>20. CASE Edit
  BY <1>20, RepairConstants DEF Edit
<1>21. CASE UNCHANGED vars
  BY <1>21 DEF vars
<1> QED
  BY <1>1, <1>2, <1>3, <1>4, <1>5, <1>6, <1>7, <1>8, <1>9, <1>10, <1>11, <1>12,
     <1>13, <1>14, <1>15, <1>16, <1>17, <1>18, <1>19, <1>20, <1>21,
     <1>22
  DEF Next, Continue, Copy, Repair, Tool

\* There is one attempt at most, if copies do not overlap.
THEOREM OneAttempt == ASSUME ~ConcurrentCopies PROVE Spec => []OneAttemptInv
<1>1. Init => OneAttemptInv
  <2> SUFFICES ASSUME Init PROVE OneAttemptInv
    OBVIOUS
  <2>1. TypeInv
    BY TypeInit
  <2>2. Stage = "none" /\ \A p \in Procs : pc[p] = "idle"
    BY DEF Init, Stage
  <2> QED
    BY <2>1, <2>2
    DEF Init, OneAttemptInv, Exclusion, StageInv, VerdictInv, SliceInv,
        NewestInv, LedgerCitesAttempt, Trying, Writing, CopySteps, LockedSteps
<1>2. OneAttemptInv /\ [Next]_vars => OneAttemptInv'
  BY TypeStep, ExclusionStep, StageStep, VerdictStep, SliceStep
  DEF OneAttemptInv
<1> QED
  BY <1>1, <1>2, PTL DEF Spec

\* TestDisk only ever gets the bytes that partition.json hashes, and if the
\* disk was the one its metadata describes when the repair accepted the copy,
\* those of the disk that partition.json names: whatever preparations do to
\* the disk, stopped or overlapping, and people to the slice.
THEOREM OpensVerifiedSliceAlways ==
  ASSUME ~ConcurrentCopies PROVE Spec => []OpensVerifiedSlice
<1>1. OneAttemptInv => OpensVerifiedSlice
  BY DEF OneAttemptInv, OpensVerifiedSlice, SliceInv, StageInv, Stage, TypeInv,
         TypeOK
<1> QED
  BY <1>1, OneAttempt, PTL

\* The ledger cites the one attempt, with partition.json as it still is.
THEOREM LedgerCitesAttemptAlways ==
  ASSUME ~ConcurrentCopies PROVE Spec => []LedgerCitesAttempt
<1>1. OneAttemptInv => LedgerCitesAttempt
  BY DEF OneAttemptInv, VerdictInv
<1> QED
  BY <1>1, OneAttempt, PTL

-----------------------------------------------------------------------------
(* The refinement.                                                         *)

\* Every step is one of the abstract attempt, or a stutter.
LEMMA AttemptStep ==
  ASSUME OneAttemptInv, OneAttemptInv', [Next]_vars
  PROVE  [Attempt!Next]_Attempt!vars
<1> USE DEF OneAttemptInv, Stage
<1>1. UNCHANGED <<meta, attempts>> => UNCHANGED Attempt!vars
  BY DEF Attempt!vars
<1>2. ASSUME NEW p \in Procs, CopyPublish(p) PROVE Attempt!Announce
  <2>1. meta = None
    BY <1>2 DEF CopyPublish, Exclusion, CopySteps
  <2>2. named[p] \in Nat /\ data[p] \in Nat
    BY <1>2 DEF CopyPublish, TypeInv, TypeOK
  <2>3. meta' \in Metadata /\ meta'.status = "not_attempted"
    BY <1>2, <2>2 DEF CopyPublish, Metadata, Bytes
  <2> QED
    BY <1>2, <2>1, <2>3, NoneIsNoFile
    DEF CopyPublish, Attempt!Announce, history
<1>3. ASSUME NEW p \in Procs, RepairMark(p) PROVE Attempt!Mark
  <2>1. meta # None /\ meta.status = "not_attempted"
    BY <1>3 DEF RepairMark, StageInv
  <2> QED
    BY <1>3, <2>1, MarkedMeta DEF RepairMark, Attempt!Mark, history
<1>4. ASSUME NEW p \in Procs, RepairStart(p) PROVE Attempt!Try
  BY <1>4 DEF RepairStart, StageInv, Attempt!Try, files
<1>5. ASSUME NEW p \in Procs, RepairSettle(p) PROVE Attempt!Settle
  <2>1. Stage = "marked" /\ attempts = 1
    BY <1>5 DEF RepairSettle, StageInv, Trying
  <2> QED
    BY <1>5, <2>1, SettledMeta
    DEF Attempt!Settle, Attempt!Verdicts, Verdicts, history
<1> QED
  BY <1>1, <1>2, <1>3, <1>4, <1>5
  DEF Next, Continue, Copy, Repair, Tool, vars, files, history, Attempt!Next,
      CopyBegin, CopyCheck, CopyOpen, CopyWrite, CopyReplace, RepairBegin,
      RepairLock, RepairCheck, RepairHash, ToolWrite, ToolExit, RepairMeasure,
      RepairLosesDisk, RepairRecord, Stop, Prepare, PrepareUnlink,
      PrepareReplace, PrepareDescribe, Edit

\* One attempt per copy, marked before it is made, never taken back.
THEOREM AttemptImplemented ==
  ASSUME ~ConcurrentCopies PROVE Spec => ImplementsAttempt
<1>1. Init => Attempt!Init
  BY DEF Init, Attempt!Init, Stage
<1>2. OneAttemptInv /\ OneAttemptInv' /\ [Next]_vars
        => [Attempt!Next]_Attempt!vars
  BY AttemptStep
<1> QED
  BY <1>1, <1>2, OneAttempt, PTL DEF Spec, ImplementsAttempt, Attempt!Spec

=============================================================================
