--------------------------- MODULE RecoveryProofs ---------------------------
(***************************************************************************)
(* Proofs about the recovery components, for all catalogs, file sets and   *)
(* limits: CatalogRecovery, PhotorecSupervisor and MediaProbe, and last    *)
(* the composition that TLC checks.  Each part gives an inductive          *)
(* invariant, one lemma per part of it with a step per action, and the     *)
(* theorems; "Move" lemmas say what one action does to sequences and       *)
(* records, so that the steps need not look into them.                     *)
(***************************************************************************)
EXTENDS MCRecovery, SequenceTheorems, FiniteSetTheorems, WellFoundedInduction, TLAPS

-----------------------------------------------------------------------------
(* CatalogRecovery                                                         *)

\* What the first k rows of a catalog say of a stream
RowsTo(catalog, s, k) == {n \in DOMAIN catalog : catalog[n].stream = s /\ n <= k}
SaysOf(catalog, s, stream, k) ==
    LET rows == RowsTo(catalog, s, k)
    IN  IF rows = {} THEN stream = CrNil
        ELSE /\ stream # CrNil
             /\ \E n \in rows : stream.size = catalog[n].size
             /\ stream.deleted <=> \E n \in rows : catalog[n].flag = "deleted"
             /\ stream.state = "conflict" <=> \E n \in rows : catalog[n].size # stream.size
             /\ stream.state = "ambiguous_allocation" <=>
                   \A n \in rows : catalog[n].size = stream.size /\ catalog[n].flag = "unsure"
SaysAll(catalog, db, k) == \A s \in CrStreams : SaysOf(catalog, s, db.streams[s], k)

\* A database says what its rows say, or one row more: the stream of that
\* row was written, the row itself was not.  Before the import is over no
\* stream has a state of the export; only streams that a run for deleted
\* ones does not want are not selected.
Steady(catalog, db) ==
    \/ SaysAll(catalog, db, db.rows)
    \/ db.rows < Len(catalog) /\ SaysAll(catalog, db, db.rows + 1)
Fresh(stream) == stream.state \in {"pending", "ambiguous_allocation", "conflict"}
Early(catalog, db) == db.rows < Len(catalog) =>
    \A s \in CrStreams : db.streams[s] # CrNil => Fresh(db.streams[s])
Unwanted(mode, db) ==
    \A s \in CrStreams : (db.streams[s] # CrNil /\ db.streams[s].state = "not_selected") =>
        mode = "deleted" /\ ~db.streams[s].deleted
Imported(catalog, mode, db) == Steady(catalog, db) /\ Early(catalog, db) /\ Unwanted(mode, db)

CrSelected == {"used", "reconcile", "export", "create", "copy", "record", "update", "finish"}
CrInAttempt == {"create", "copy", "record", "update"}

CrImportInv ==
    /\ Imported(crCatalog, crMode, crDb)
    /\ crPc = "import" => Imported(crCatalog, crMode, crTx)
    /\ crPc = "ref" => /\ crTx.rows < Len(crCatalog) /\ SaysAll(crCatalog, crTx, crTx.rows + 1)
                       /\ Early(crCatalog, crTx) /\ Unwanted(crMode, crTx)
    /\ crPc \in CrSelected => crTx = crDb /\ crDb.rows = Len(crCatalog)
    /\ crTx.exports = crDb.exports

\* Attempts on record as complete have all bytes of their stream in a file.
Backed(files, db) == \A s \in CrStreams : \A a \in DOMAIN db.exports[s] :
    db.exports[s][a].state = "complete" =>
        /\ a \in DOMAIN files[s] /\ db.streams[s] # CrNil
        /\ files[s][a].size = db.streams[s].size

\* The attempt under way is the last of its stream, and its file, once there
\* is one, has the bytes that were copied.
CrAttemptInv ==
    /\ crPc \in CrInAttempt =>
          /\ crAt \in CrStreams \ crDone /\ crTx.exports[crAt] # <<>>
          /\ crTx.streams[crAt] # CrNil /\ crTx.streams[crAt].state \in CrExportable
    /\ crPc = "create" => Len(crFiles[crAt]) < Len(crTx.exports[crAt])
    /\ crPc \in {"copy", "record", "update"} =>
          /\ crFiles[crAt] # <<>> /\ Len(crFiles[crAt]) = Len(crTx.exports[crAt])
    /\ crPc \in {"create", "copy", "record"} => LastExport(crAt).state = "running"
    /\ crPc \in {"copy", "record"} =>
          LastFile(crAt).size = crCopied /\ crCopied <= crTx.streams[crAt].size
    /\ crPc = "record" /\ ~crFailed => crCopied = crTx.streams[crAt].size
    /\ crPc = "update" =>
          /\ LastExport(crAt).size = LastFile(crAt).size
          /\ LastExport(crAt).state \in {"complete", "partial", "failed"}
          /\ LastExport(crAt).state = "complete" => LastFile(crAt).sound

\* A stream the run has done has its state from a last attempt.
HasAll(s) == crFiles[s] # <<>> /\ LastFile(s) = [size |-> crTx.streams[s].size, sound |-> TRUE]
CrDoneInv ==
    /\ crPc \in {"import", "ref", "used", "reconcile"} => crDone = {}
    /\ crPc # "idle" => \A s \in crDone :
          /\ crTx.streams[s] # CrNil /\ crTx.streams[s].state \in {"complete", "partial", "failed"}
          /\ crTx.streams[s].state = "complete" => HasAll(s)
    /\ crPc = "finish" => StreamsIn({"deferred"})

CrFilesInv ==
    /\ \A s \in CrStreams : Len(crFiles[s]) <= Len(crDb.exports[s])
    /\ Backed(crFiles, crDb) /\ (crPc # "idle" => Backed(crFiles, crTx))

\* What is counted as used is what the files hold, but for the attempt under
\* way, and that fits.
CrUsedInv ==
    /\ IsFiniteSet(BytesIn(crFiles)) /\ FileBytes(crFiles) <= CrLimit
    /\ crPc \in {"reconcile", "export", "create"} => crUsed = FileBytes(crFiles)
    /\ crPc \in {"copy", "record"} => FileBytes(crFiles) = crUsed + crCopied
    /\ crPc = "update" => FileBytes(crFiles) = crUsed + LastExport(crAt).size
    /\ crPc \in {"create", "copy", "record"} => crTx.streams[crAt].size <= CrLimit - crUsed

CrInv == CrTypeOK /\ CrImportInv /\ CrAttemptInv /\ CrDoneInv /\ CrFilesInv /\ CrUsedInv
-----------------------------------------------------------------------------
\* A sequence with one of its elements replaced
LEMMA SeqSet ==
  ASSUME NEW S, NEW s \in Seq(S), NEW n \in 1 .. Len(s), NEW e \in S
  PROVE  LET set == [s EXCEPT ![n] = e]
         IN  /\ set \in Seq(S) /\ Len(set) = Len(s) /\ DOMAIN set = DOMAIN s
             /\ set[n] = e /\ \A m \in DOMAIN s : m # n => set[m] = s[m]
BY ExceptSeq, LenProperties

\* A sequence with one more element
LEMMA SeqAdd ==
  ASSUME NEW S, NEW s \in Seq(S), NEW e \in S
  PROVE  /\ Append(s, e) \in Seq(S) /\ Append(s, e) # <<>>
         /\ Len(Append(s, e)) = Len(s) + 1 /\ Append(s, e)[Len(s) + 1] = e
         /\ DOMAIN Append(s, e) = 1 .. Len(s) + 1 /\ Len(s) \in Nat /\ DOMAIN s = 1 .. Len(s)
         /\ \A n \in 1 .. Len(s) : Append(s, e)[n] = s[n]
BY AppendProperties, LenProperties

\* Elements of a sequence
LEMMA SeqHas ==
  ASSUME NEW S, NEW s \in Seq(S)
  PROVE  /\ Len(s) \in Nat /\ DOMAIN s = 1 .. Len(s)
         /\ s # <<>> => Len(s) \in 1 .. Len(s) /\ Len(s) \in DOMAIN s
         /\ \A n \in DOMAIN s : s[n] \in S
BY LenProperties, EmptySeq, ElementOfSeq

CrDbs == [rows : Nat, streams : [CrStreams -> CrStream \cup {CrNil}],
          exports : [CrStreams -> Seq(CrExport)]]

\* A database with another stream, and one with other attempts of a stream
LEMMA CrStreamSet ==
  ASSUME NEW tx \in CrDbs, NEW s \in CrStreams, NEW stream \in CrStream
  PROVE  LET new == WithStream(tx, s, stream)
         IN  /\ new \in CrDbs /\ new.rows = tx.rows /\ new.exports = tx.exports
             /\ new.streams[s] = stream
             /\ \A t \in CrStreams : t # s => new.streams[t] = tx.streams[t]
BY DEF WithStream, CrDbs

\* A database with other attempts of a stream
LEMMA CrExportsSet ==
  ASSUME NEW tx \in CrDbs, NEW s \in CrStreams, NEW exports \in Seq(CrExport)
  PROVE  LET new == WithExports(tx, s, exports)
         IN  /\ new \in CrDbs /\ new.rows = tx.rows /\ new.streams = tx.streams
             /\ new.exports[s] = exports
             /\ \A t \in CrStreams : t # s => new.exports[t] = tx.exports[t]
BY DEF WithExports, CrDbs

\* A database whose last attempt of a stream is another one
LEMMA CrAttemptEnded ==
  ASSUME NEW tx \in CrDbs, NEW s \in CrStreams, tx.exports[s] # <<>>, NEW export \in CrExport
  PROVE  LET new == EndAttempt(tx, s, export)
             n   == Len(tx.exports[s])
         IN  /\ new \in CrDbs /\ new.rows = tx.rows /\ new.streams = tx.streams
             /\ new.exports[s] # <<>> /\ Len(new.exports[s]) = n
             /\ DOMAIN new.exports[s] = DOMAIN tx.exports[s] /\ new.exports[s][n] = export
             /\ \A a \in DOMAIN tx.exports[s] : a # n => new.exports[s][a] = tx.exports[s][a]
             /\ \A t \in CrStreams : t # s => new.exports[t] = tx.exports[t]
<1> DEFINE old == tx.exports[s]
           n == Len(old)
           set == [old EXCEPT ![n] = export]
<1>1. old \in Seq(CrExport)
  BY DEF CrDbs
<1>2. n \in 1 .. Len(old) /\ n \in Nat
  BY <1>1, SeqHas
<1>3. /\ set \in Seq(CrExport) /\ Len(set) = n /\ DOMAIN set = DOMAIN old /\ set[n] = export
      /\ \A m \in DOMAIN old : m # n => set[m] = old[m]
  BY <1>1, <1>2, SeqSet
<1>4. set # <<>>
  BY <1>2, <1>3, EmptySeq
<1>5. EndAttempt(tx, s, export) = WithExports(tx, s, set)
  BY DEF EndAttempt
<1> HIDE DEF set
<1> QED
  BY <1>3, <1>4, <1>5, CrExportsSet

\* What a row does to its stream is a stream again.
LEMMA CrImportedType ==
  ASSUME CrTypeOK, crTx.rows < Len(crCatalog)
  PROVE  /\ Row \in CrRow /\ Row.stream \in CrStreams /\ CrImported \in CrStream
         /\ crTx.streams[Row.stream] \in CrStream \cup {CrNil}
<1>1. crTx \in CrDbs /\ crCatalog \in Seq(CrRow)
  BY DEF CrTypeOK, CrDbs
<1>2. crTx.rows \in Nat
  BY <1>1 DEF CrDbs
<1>3. crTx.rows + 1 \in DOMAIN crCatalog
  BY <1>1, <1>2, SeqHas
<1>4. Row \in CrRow
  BY <1>1, <1>3, SeqHas DEF Row
<1>5. Row.stream \in CrStreams /\ Row.size \in Nat
  BY <1>4 DEF CrRow
<1>6. crTx.streams[Row.stream] \in CrStream \cup {CrNil}
  BY <1>1, <1>5 DEF CrDbs
<1>7. CrImported \in CrStream
  BY <1>5, <1>6 DEF CrImported, CrStream, CrStates
<1> QED
  BY <1>4, <1>5, <1>6, <1>7

\* A function on the first n numbers is a sequence of that length.
LEMMA SeqOf ==
  ASSUME NEW S, NEW n \in Nat, NEW s \in [1 .. n -> S]
  PROVE  s \in Seq(S) /\ Len(s) = n /\ DOMAIN s = 1 .. n
<1>1. s \in Seq(S)
  BY SeqDef
<1>2. Len(s) \in Nat /\ DOMAIN s = 1 .. Len(s)
  BY <1>1, LenProperties
<1>3. 1 .. Len(s) = 1 .. n
  BY <1>2
<1>4. Len(s) = n
  BY <1>2, <1>3
<1> QED
  BY <1>1, <1>4

\* What has become of the databases: both have another state of a stream.
CrTaken(s, state) ==
    /\ crTx' \in CrDbs /\ crDb' = crTx' /\ crTx'.rows = crTx.rows /\ crTx'.exports = crTx.exports
    /\ crTx'.streams[s] \in CrStream /\ crTx'.streams[s].size = crTx.streams[s].size
    /\ crTx'.streams[s].deleted = crTx.streams[s].deleted /\ crTx'.streams[s].state = state
    /\ \A t \in CrStreams : t # s => crTx'.streams[t] = crTx.streams[t]

\* CrTakeState does that, and no more.
LEMMA CrTakeMove ==
  ASSUME CrTypeOK, NEW s \in CrStreams, crTx.streams[s] # CrNil, NEW state \in CrStates,
         CrTakeState(s, state)
  PROVE  CrTaken(s, state)
<1> DEFINE stream == [crTx.streams[s] EXCEPT !.state = state]
<1>1. crTx \in CrDbs
  BY DEF CrTypeOK, CrDbs
<1>2. crTx.streams[s] \in CrStream
  BY <1>1 DEF CrDbs
<1>3. /\ stream \in CrStream /\ stream.size = crTx.streams[s].size
      /\ stream.deleted = crTx.streams[s].deleted /\ stream.state = state
  BY <1>2 DEF CrStream
<1>4. crTx' = WithStream(crTx, s, stream) /\ crDb' = crTx'
  BY DEF CrTakeState, CrCommit
<1> HIDE DEF stream
<1> QED
  BY <1>1, <1>3, <1>4, CrStreamSet DEF CrTaken

\* The row's stream is written in the open transaction.
LEMMA CrImportMove ==
  ASSUME CrTypeOK, CrImport
  PROVE  /\ crTx.rows < Len(crCatalog) /\ Row.stream \in CrStreams
         /\ crTx' \in CrDbs /\ crTx'.rows = crTx.rows /\ crTx'.exports = crTx.exports
         /\ crTx'.streams[Row.stream] = CrImported /\ CrImported \in CrStream
         /\ \A t \in CrStreams : t # Row.stream => crTx'.streams[t] = crTx.streams[t]
<1>1. crTx \in CrDbs
  BY DEF CrTypeOK, CrDbs
<1>2. crTx.rows < Len(crCatalog) /\ crTx' = WithStream(crTx, Row.stream, CrImported)
  BY DEF CrImport
<1>3. Row.stream \in CrStreams /\ CrImported \in CrStream
  BY <1>2, CrImportedType
<1> QED
  BY <1>1, <1>2, <1>3, CrStreamSet

\* The row itself is counted, and at times all of it is committed.
LEMMA CrImportRefMove ==
  ASSUME CrTypeOK, CrImportRef
  PROVE  /\ crTx' \in CrDbs /\ crTx'.rows = crTx.rows + 1 /\ crTx'.exports = crTx.exports
         /\ crTx'.streams = crTx.streams /\ crDb' \in {crDb, crTx'}
<1>1. crTx \in CrDbs
  BY DEF CrTypeOK, CrDbs
<1>2. crTx' = [crTx EXCEPT !.rows = crTx.rows + 1] /\ crDb' \in {crDb, crTx'}
  BY DEF CrImportRef, CrCommit
<1> QED
  BY <1>1, <1>2 DEF CrDbs

\* Only streams that wait and are not wanted change.
LEMMA CrSelectMove ==
  ASSUME CrTypeOK, CrSelect
  PROVE  /\ crTx' \in CrDbs /\ crDb' = crTx' /\ crTx'.rows = crTx.rows /\ crTx'.exports = crTx.exports
         /\ \A s \in CrStreams :
               \/ crTx'.streams[s] = crTx.streams[s]
               \/ /\ crTx.streams[s] # CrNil /\ crTx.streams[s].state = "pending"
                  /\ crMode = "deleted" /\ ~crTx.streams[s].deleted
                  /\ crTx'.streams[s] \in CrStream
                  /\ crTx'.streams[s].size = crTx.streams[s].size
                  /\ crTx'.streams[s].deleted = crTx.streams[s].deleted
                  /\ crTx'.streams[s].state = "not_selected"
<1> DEFINE old == crTx.streams
           out(s) == /\ old[s] # CrNil /\ old[s].state = "pending"
                     /\ crMode = "deleted" /\ ~old[s].deleted
           new == [s \in CrStreams |-> IF out(s) THEN [old[s] EXCEPT !.state = "not_selected"] ELSE old[s]]
<1>1. crTx \in CrDbs /\ old \in [CrStreams -> CrStream \cup {CrNil}]
  BY DEF CrTypeOK, CrDbs
<1>2. crTx' = [crTx EXCEPT !.streams = new] /\ crDb' = crTx'
  BY DEF CrSelect, CrCommit
<1>3. ASSUME NEW s \in CrStreams
      PROVE  /\ new[s] \in CrStream \cup {CrNil}
             /\ \/ new[s] = old[s]
                \/ /\ out(s) /\ new[s] \in CrStream /\ new[s].size = old[s].size
                   /\ new[s].deleted = old[s].deleted /\ new[s].state = "not_selected"
  BY <1>1 DEF CrStream, CrStates
<1>4. new \in [CrStreams -> CrStream \cup {CrNil}]
  BY <1>3
<1> HIDE DEF new
<1>5. /\ crTx' \in CrDbs /\ crTx'.rows = crTx.rows /\ crTx'.exports = crTx.exports
      /\ crTx'.streams = new
  BY <1>1, <1>2, <1>4 DEF CrDbs
<1> QED
  BY <1>2, <1>3, <1>5

\* Attempts that were running are interrupted, the others stay.
LEMMA CrReconcileMove ==
  ASSUME CrTypeOK, CrReconcile
  PROVE  /\ crTx' \in CrDbs /\ crDb' = crTx' /\ crTx'.rows = crTx.rows /\ crTx'.streams = crTx.streams
         /\ \A s \in CrStreams :
               /\ Len(crTx'.exports[s]) = Len(crTx.exports[s])
               /\ DOMAIN crTx'.exports[s] = DOMAIN crTx.exports[s]
               /\ \A a \in DOMAIN crTx.exports[s] :
                     crTx'.exports[s][a].state # "interrupted" => crTx'.exports[s][a] = crTx.exports[s][a]
<1> DEFINE old == crTx.exports
           size(s, a) == IF a \in DOMAIN crFiles[s] THEN crFiles[s][a].size ELSE 0
           ended(s, a) == IF old[s][a].state = "running"
                          THEN [state |-> "interrupted", size |-> size(s, a)] ELSE old[s][a]
           new == [s \in CrStreams |-> [a \in DOMAIN old[s] |-> ended(s, a)]]
<1>1. crTx \in CrDbs /\ old \in [CrStreams -> Seq(CrExport)]
  BY DEF CrTypeOK, CrDbs
<1>2. crTx' = [crTx EXCEPT !.exports = new] /\ crDb' = crTx'
  BY DEF CrReconcile, CrCommit
<1>3. ASSUME NEW s \in CrStreams
      PROVE  /\ new[s] \in Seq(CrExport) /\ Len(new[s]) = Len(old[s])
             /\ DOMAIN new[s] = DOMAIN old[s]
             /\ \A a \in DOMAIN old[s] : new[s][a].state # "interrupted" => new[s][a] = old[s][a]
  <2>1. /\ Len(old[s]) \in Nat /\ DOMAIN old[s] = 1 .. Len(old[s])
        /\ \A a \in DOMAIN old[s] : old[s][a] \in CrExport
    BY <1>1, SeqHas
  <2>2. \A a \in DOMAIN old[s] : size(s, a) \in Nat
    <3>1. crFiles[s] \in Seq(CrFile)
      BY DEF CrTypeOK
    <3>2. \A a \in DOMAIN crFiles[s] : crFiles[s][a] \in CrFile
      BY <3>1, SeqHas
    <3> QED
      BY <3>2 DEF CrFile
  <2> HIDE DEF size
  <2>3. \A a \in DOMAIN old[s] : ended(s, a) \in CrExport
    BY <2>1, <2>2 DEF CrExport, CrAttempts
  <2>4. new[s] \in [1 .. Len(old[s]) -> CrExport]
    BY <2>1, <2>3
  <2>5. new[s] \in Seq(CrExport) /\ Len(new[s]) = Len(old[s]) /\ DOMAIN new[s] = DOMAIN old[s]
    BY <2>1, <2>4, SeqOf
  <2>6. ASSUME NEW a \in DOMAIN old[s]
        PROVE  new[s][a].state # "interrupted" => new[s][a] = old[s][a]
    OBVIOUS
  <2> QED
    BY <2>5, <2>6
<1>4. new \in [CrStreams -> Seq(CrExport)]
  BY <1>3
<1> HIDE DEF new
<1>5. /\ crTx' \in CrDbs /\ crTx'.rows = crTx.rows /\ crTx'.streams = crTx.streams
      /\ crTx'.exports = new
  BY <1>1, <1>2, <1>4 DEF CrDbs
<1> QED
  BY <1>2, <1>3, <1>5

\* One more attempt, on record as running
LEMMA CrAttemptMove ==
  ASSUME CrTypeOK, NEW s \in CrStreams, CrAttempt(s)
  PROVE  LET n == Len(crTx.exports[s]) + 1
         IN  /\ crTx' \in CrDbs /\ crDb' = crTx' /\ crTx'.rows = crTx.rows
             /\ crTx'.streams = crTx.streams
             /\ crTx'.exports[s] # <<>> /\ Len(crTx'.exports[s]) = n /\ n \in Nat
             /\ DOMAIN crTx'.exports[s] = 1 .. n
             /\ crTx'.exports[s][n] = [state |-> "running", size |-> 0]
             /\ \A a \in DOMAIN crTx.exports[s] :
                   a \in 1 .. n - 1 /\ crTx'.exports[s][a] = crTx.exports[s][a]
             /\ \A a \in 1 .. n - 1 : a \in DOMAIN crTx.exports[s]
             /\ \A t \in CrStreams : t # s => crTx'.exports[t] = crTx.exports[t]
<1> DEFINE new == Append(crTx.exports[s], [state |-> "running", size |-> 0])
<1>1. crTx \in CrDbs
  BY DEF CrTypeOK, CrDbs
<1>2. crTx.exports[s] \in Seq(CrExport) /\ [state |-> "running", size |-> 0] \in CrExport
  BY <1>1 DEF CrDbs, CrExport, CrAttempts
<1>3. crTx' = WithExports(crTx, s, new) /\ crDb' = crTx'
  BY DEF CrAttempt, CrCommit
<1>4. /\ new \in Seq(CrExport) /\ new # <<>> /\ Len(new) = Len(crTx.exports[s]) + 1
      /\ Len(crTx.exports[s]) \in Nat
      /\ new[Len(crTx.exports[s]) + 1] = [state |-> "running", size |-> 0]
      /\ DOMAIN new = 1 .. Len(crTx.exports[s]) + 1
      /\ DOMAIN crTx.exports[s] = 1 .. Len(crTx.exports[s])
      /\ \A n \in 1 .. Len(crTx.exports[s]) : new[n] = crTx.exports[s][n]
  BY <1>2, SeqAdd
<1> HIDE DEF new
<1>5. /\ crTx' \in CrDbs /\ crTx'.rows = crTx.rows /\ crTx'.streams = crTx.streams
      /\ crTx'.exports[s] = new
      /\ \A t \in CrStreams : t # s => crTx'.exports[t] = crTx.exports[t]
  BY <1>1, <1>3, <1>4, CrExportsSet
<1> QED
  BY <1>3, <1>4, <1>5

\* The last attempt of the stream at hand is ended.
CrEnded(state, size) ==
    LET n == Len(crTx.exports[crAt])
    IN  /\ crTx' \in CrDbs /\ crDb' = crTx' /\ crTx'.rows = crTx.rows
        /\ crTx'.streams = crTx.streams
        /\ crTx'.exports[crAt] # <<>> /\ Len(crTx'.exports[crAt]) = n
        /\ DOMAIN crTx'.exports[crAt] = DOMAIN crTx.exports[crAt]
        /\ crTx'.exports[crAt][n] = [state |-> state, size |-> size]
        /\ \A a \in DOMAIN crTx.exports[crAt] :
              a # n => crTx'.exports[crAt][a] = crTx.exports[crAt][a]
        /\ \A t \in CrStreams : t # crAt => crTx'.exports[t] = crTx.exports[t]

\* EndAttempt, committed, does that.
LEMMA CrEndMove ==
  ASSUME CrTypeOK, crAt \in CrStreams, crTx.exports[crAt] # <<>>,
         NEW state \in CrAttempts, NEW size \in Nat,
         CrCommit(EndAttempt(crTx, crAt, [state |-> state, size |-> size]))
  PROVE  CrEnded(state, size)
<1>1. crTx \in CrDbs
  BY DEF CrTypeOK, CrDbs
<1>2. [state |-> state, size |-> size] \in CrExport
  BY DEF CrExport
<1>3. crTx' = EndAttempt(crTx, crAt, [state |-> state, size |-> size]) /\ crDb' = crTx'
  BY DEF CrCommit
<1> QED
  BY <1>1, <1>2, <1>3, CrAttemptEnded DEF CrEnded

\* The last file of the stream at hand
LEMMA CrLastFile ==
  ASSUME CrTypeOK, NEW s \in CrStreams, crFiles[s] # <<>>
  PROVE  /\ crFiles[s] \in Seq(CrFile) /\ Len(crFiles[s]) \in DOMAIN crFiles[s]
         /\ DOMAIN crFiles[s] = 1 .. Len(crFiles[s]) /\ Len(crFiles[s]) \in Nat
         /\ LastFile(s) \in CrFile
<1>1. crFiles[s] \in Seq(CrFile)
  BY DEF CrTypeOK
<1> QED
  BY <1>1, SeqHas DEF LastFile

\* The new file, and empty ones before it for attempts that made none
LEMMA CrCreateMove ==
  ASSUME CrTypeOK, crAt \in CrStreams, crTx.exports[crAt] # <<>>,
         Len(crFiles[crAt]) < Len(crTx.exports[crAt]), CrCreate
  PROVE  /\ crFiles' \in [CrStreams -> Seq(CrFile)]
         /\ crFiles'[crAt] # <<>> /\ Len(crFiles'[crAt]) = Len(crTx.exports[crAt])
         /\ \A a \in DOMAIN crFiles[crAt] :
               a \in DOMAIN crFiles'[crAt] /\ crFiles'[crAt][a] = crFiles[crAt][a]
         /\ \A a \in DOMAIN crFiles'[crAt] \ DOMAIN crFiles[crAt] : crFiles'[crAt][a].size = 0
         /\ Len(crFiles'[crAt]) \in DOMAIN crFiles'[crAt] \ DOMAIN crFiles[crAt]
         /\ \A t \in CrStreams : t # crAt => crFiles'[t] = crFiles[t]
<1> DEFINE n == Len(crTx.exports[crAt])
           old == crFiles[crAt]
<1>1. old \in Seq(CrFile) /\ crTx.exports[crAt] \in Seq(CrExport)
  BY DEF CrTypeOK
<1>2. n \in Nat /\ n \in 1 .. n /\ Len(old) \in Nat /\ DOMAIN old = 1 .. Len(old)
  BY <1>1, SeqHas
<1>3. PICK sound \in BOOLEAN : crFiles' = [crFiles EXCEPT ![crAt] = [a \in 1 .. n |->
          IF a \in DOMAIN old THEN old[a] ELSE [size |-> 0, sound |-> a = n /\ sound]]]
  BY DEF CrCreate
<1> DEFINE file(a) == IF a \in DOMAIN old THEN old[a] ELSE [size |-> 0, sound |-> a = n /\ sound]
           new == [a \in 1 .. n |-> file(a)]
<1>4. \A a \in 1 .. n : file(a) \in CrFile
  <2>1. \A a \in DOMAIN old : old[a] \in CrFile
    BY <1>1, SeqHas
  <2>2. \A a \in 1 .. n : [size |-> 0, sound |-> a = n /\ sound] \in CrFile
    <3>1. \A b \in BOOLEAN : [size |-> 0, sound |-> b] \in CrFile
      BY DEF CrFile
    <3>2. \A a \in 1 .. n : (a = n /\ sound) \in BOOLEAN
      OBVIOUS
    <3> QED
      BY <3>1, <3>2
  <2> QED
    BY <2>1, <2>2
<1>5. /\ new \in [1 .. n -> CrFile]
      /\ \A a \in DOMAIN old : a \in 1 .. n /\ new[a] = old[a]
      /\ \A a \in (1 .. n) \ DOMAIN old : new[a].size = 0
      /\ n \in (1 .. n) \ DOMAIN old
  BY <1>2, <1>4
<1>6. crFiles' = [crFiles EXCEPT ![crAt] = new]
  BY <1>3
<1> HIDE DEF new
<1>7. new \in Seq(CrFile) /\ Len(new) = n /\ DOMAIN new = 1 .. n
  BY <1>2, <1>5, SeqOf
<1>8. new # <<>>
  BY <1>2, <1>7, EmptySeq
<1>9. crFiles' \in [CrStreams -> Seq(CrFile)] /\ crFiles'[crAt] = new
      /\ \A t \in CrStreams : t # crAt => crFiles'[t] = crFiles[t]
  BY <1>6, <1>7 DEF CrTypeOK
<1> QED
  BY <1>5, <1>7, <1>8, <1>9

\* One file of a stream is another one; there are as many.
CrFileSet(s, a, file) ==
    /\ crFiles' \in [CrStreams -> Seq(CrFile)] /\ s \in CrStreams /\ a \in DOMAIN crFiles[s]
    /\ crFiles'[s] # <<>> /\ Len(crFiles'[s]) = Len(crFiles[s])
    /\ DOMAIN crFiles'[s] = DOMAIN crFiles[s]
    /\ crFiles'[s][a] = file /\ file \in CrFile
    /\ \A b \in DOMAIN crFiles[s] : b # a => crFiles'[s][b] = crFiles[s][b]
    /\ \A t \in CrStreams : t # s => crFiles'[t] = crFiles[t]

\* An EXCEPT on the files does that.
LEMMA CrFileMove ==
  ASSUME CrTypeOK, NEW s \in CrStreams, NEW a \in DOMAIN crFiles[s], NEW file \in CrFile,
         crFiles' = [crFiles EXCEPT ![s] = [crFiles[s] EXCEPT ![a] = file]]
  PROVE  CrFileSet(s, a, file)
<1> DEFINE new == [crFiles[s] EXCEPT ![a] = file]
<1>1. crFiles[s] \in Seq(CrFile)
  BY DEF CrTypeOK
<1>2. a \in 1 .. Len(crFiles[s]) /\ Len(crFiles[s]) \in Nat
  BY <1>1, SeqHas
<1>3. /\ new \in Seq(CrFile) /\ Len(new) = Len(crFiles[s]) /\ DOMAIN new = DOMAIN crFiles[s]
      /\ new[a] = file /\ \A b \in DOMAIN crFiles[s] : b # a => new[b] = crFiles[s][b]
  BY <1>1, <1>2, SeqSet
<1>4. new # <<>>
  BY <1>2, <1>3, EmptySeq
<1>5. crFiles' = [crFiles EXCEPT ![s] = new]
  OBVIOUS
<1> HIDE DEF new
<1>6. crFiles' \in [CrStreams -> Seq(CrFile)] /\ crFiles'[s] = new
      /\ \A t \in CrStreams : t # s => crFiles'[t] = crFiles[t]
  BY <1>3, <1>5 DEF CrTypeOK
<1> QED
  BY <1>3, <1>4, <1>6 DEF CrFileSet

\* What the steps of an attempt do
LEMMA CrReuseMove ==
  ASSUME CrTypeOK, NEW s \in CrStreams, CrReuse(s)
  PROVE  CrTaken(s, "complete") /\ s \notin crDone /\ crTx.streams[s].state \in CrExportable
         /\ crTx.streams[s] # CrNil
BY CrTakeMove DEF CrReuse, CrNextStream, CrWanted, CrStates

\* What a stream that is deferred was before
LEMMA CrDeferMove ==
  ASSUME CrTypeOK, NEW s \in CrStreams, CrDefer(s)
  PROVE  CrTaken(s, "deferred") /\ s \notin crDone /\ crTx.streams[s].state \in CrExportable
         /\ crTx.streams[s] # CrNil
BY CrTakeMove DEF CrDefer, CrNextStream, CrWanted, CrStates

\* The stream at hand takes the state of its attempt.
LEMMA CrUpdateMove ==
  ASSUME CrTypeOK, CrAttemptInv, CrUpdate
  PROVE  /\ crAt \in CrStreams \ crDone /\ CrTaken(crAt, LastExport(crAt).state)
         /\ LastExport(crAt).state \in {"complete", "partial", "failed"}
         /\ crTx.streams[crAt].state \in CrExportable /\ crTx.streams[crAt] # CrNil
<1>1. /\ crAt \in CrStreams \ crDone /\ crTx.streams[crAt] # CrNil
      /\ LastExport(crAt).state \in {"complete", "partial", "failed"}
      /\ crTx.streams[crAt].state \in CrExportable
  BY DEF CrAttemptInv, CrUpdate, CrInAttempt
<1>2. LastExport(crAt).state \in CrStates
  BY <1>1 DEF CrStates
<1> QED
  BY <1>1, <1>2, CrTakeMove DEF CrUpdate

\* The attempt is ended with the size of its file, as complete only if nothing
\* failed and the file is what was copied.
LEMMA CrRecordMove ==
  ASSUME CrTypeOK, CrAttemptInv, CrRecord
  PROVE  /\ crAt \in CrStreams /\ crFiles[crAt] # <<>>
         /\ \E state \in {"complete", "partial", "failed"} :
               /\ CrEnded(state, LastFile(crAt).size)
               /\ state = "complete" => ~crFailed /\ LastFile(crAt).sound
<1>1. crAt \in CrStreams /\ crTx.exports[crAt] # <<>> /\ crFiles[crAt] # <<>>
  BY DEF CrAttemptInv, CrRecord, CrInAttempt
<1>2. LastFile(crAt).size \in Nat
  BY <1>1, CrLastFile DEF CrFile
<1>3. PICK state \in {"complete", "partial", "failed"} :
        /\ CrCommit(EndAttempt(crTx, crAt, [state |-> state, size |-> LastFile(crAt).size]))
        /\ state = "complete" => ~crFailed /\ LastFile(crAt).sound
  BY DEF CrRecord
<1>4. state \in CrAttempts
  BY DEF CrAttempts
<1> QED
  BY <1>1, <1>2, <1>3, <1>4, CrEndMove

\* An exception ends the attempt that is being copied, and no other.
LEMMA CrRaiseMove ==
  ASSUME CrTypeOK, CrAttemptInv, CrRaise
  PROVE  IF crPc = "copy" THEN crAt \in CrStreams /\ CrEnded("interrupted", crCopied)
         ELSE crTx' = crTx /\ crDb' = crTx
<1>1. CASE crPc = "copy"
  <2>1. crAt \in CrStreams /\ crTx.exports[crAt] # <<>> /\ crCopied \in Nat
    BY <1>1 DEF CrAttemptInv, CrInAttempt, CrTypeOK
  <2>2. CrCommit(EndAttempt(crTx, crAt, [state |-> "interrupted", size |-> crCopied]))
    BY <1>1 DEF CrRaise
  <2>3. "interrupted" \in CrAttempts
    BY DEF CrAttempts
  <2> QED
    BY <1>1, <2>1, <2>2, <2>3, CrEndMove
<1>2. CASE crPc # "copy"
  BY <1>2 DEF CrRaise, CrCommit
<1> QED
  BY <1>1, <1>2

\* One byte more in the last file, or the copy is over.
LEMMA CrWriteMove ==
  ASSUME CrTypeOK, CrAttemptInv, CrWrite
  PROVE  /\ crAt \in CrStreams /\ crFiles[crAt] # <<>> /\ crCopied \in Nat
         /\ crTx.streams[crAt].size \in Nat
         /\ \/ /\ CrFileSet(crAt, Len(crFiles[crAt]),
                            [size |-> crCopied + 1, sound |-> LastFile(crAt).sound])
               /\ crCopied < crTx.streams[crAt].size /\ crCopied' = crCopied + 1
               /\ crPc' = "copy" /\ UNCHANGED crFailed
            \/ /\ UNCHANGED <<crFiles, crCopied>> /\ crPc' = "record"
               /\ crFailed' \in BOOLEAN /\ (~crFailed' => crCopied = crTx.streams[crAt].size)
<1>1. /\ crAt \in CrStreams /\ crFiles[crAt] # <<>> /\ crCopied \in Nat
      /\ crTx.streams[crAt] \in CrStream
  BY DEF CrAttemptInv, CrWrite, CrInAttempt, CrTypeOK
<1>2. crTx.streams[crAt].size \in Nat
  BY <1>1 DEF CrStream
<1>3. CASE crCopied' = crCopied + 1 /\ crPc' = crPc
  <2>1. /\ Len(crFiles[crAt]) \in DOMAIN crFiles[crAt]
        /\ [size |-> crCopied + 1, sound |-> LastFile(crAt).sound] \in CrFile
    BY <1>1, CrLastFile DEF CrFile
  <2>2. /\ crFiles' = [crFiles EXCEPT ![crAt] = [crFiles[crAt] EXCEPT
              ![Len(crFiles[crAt])] = [size |-> crCopied + 1, sound |-> LastFile(crAt).sound]]]
        /\ crCopied < crTx.streams[crAt].size /\ crPc = "copy" /\ UNCHANGED crFailed
    BY <1>1, <1>3 DEF CrWrite
  <2>3. CrFileSet(crAt, Len(crFiles[crAt]),
                  [size |-> crCopied + 1, sound |-> LastFile(crAt).sound])
    BY <1>1, <2>1, <2>2, CrFileMove
  <2> QED
    BY <1>1, <1>2, <1>3, <2>2, <2>3
<1>4. CASE UNCHANGED <<crFiles, crCopied>> /\ crPc' = "record"
  <2>1. crFailed' \in BOOLEAN /\ (~crFailed' => crCopied = crTx.streams[crAt].size)
    BY <1>1, <1>4 DEF CrWrite
  <2> QED
    BY <1>1, <1>2, <1>4, <2>1
<1> QED
  BY <1>3, <1>4 DEF CrWrite

\* Another file of the same size, and unsound
LEMMA CrAlterMove ==
  ASSUME CrTypeOK, CrAlter
  PROVE  \E s \in CrStreams : \E a \in DOMAIN crFiles[s] :
            /\ CrFileSet(s, a, [size |-> crFiles[s][a].size, sound |-> FALSE])
            /\ crFiles[s][a].size \in Nat
<1>1. PICK s \in CrStreams : \E a \in DOMAIN crFiles[s] :
          crFiles' = [crFiles EXCEPT ![s] = [crFiles[s] EXCEPT
                        ![a] = [size |-> crFiles[s][a].size, sound |-> FALSE]]]
  BY DEF CrAlter
<1>0. PICK a \in DOMAIN crFiles[s] :
          crFiles' = [crFiles EXCEPT ![s] = [crFiles[s] EXCEPT
                        ![a] = [size |-> crFiles[s][a].size, sound |-> FALSE]]]
  BY <1>1
<1>2. crFiles[s] \in Seq(CrFile)
  BY DEF CrTypeOK
<1>3. crFiles[s][a] \in CrFile
  BY <1>2, SeqHas
<1>4. crFiles[s][a].size \in Nat /\ [size |-> crFiles[s][a].size, sound |-> FALSE] \in CrFile
  BY <1>3 DEF CrFile
<1> QED
  BY <1>0, <1>4, CrFileMove

\* Shapes are kept.
LEMMA CrTypeStep ==
  ASSUME CrTypeOK, CrImportInv, CrAttemptInv, CrUsedInv, [CrNext]_crVars
  PROVE  CrTypeOK'
<1>c. /\ crTx \in CrDbs /\ crDb \in CrDbs /\ crTx.rows <= Len(crCatalog)
      /\ crDb.rows <= Len(crCatalog) /\ crCatalog \in Seq(CrRow) /\ Len(crCatalog) \in Nat
      /\ crTx.rows \in Nat
  <2>1. crCatalog \in Seq(CrRow) /\ crTx \in CrDbs /\ crDb \in CrDbs
    BY DEF CrTypeOK, CrDbs
  <2>2. Len(crCatalog) \in Nat
    BY <2>1, LenProperties
  <2> QED
    BY <2>1, <2>2 DEF CrTypeOK, CrDbs
<1>q. crQueue \in Seq({"data", "end"}) /\ Len(crQueue) <= 2 /\ Len(crQueue) \in Nat
  BY LenProperties DEF CrTypeOK
<1>u. FileBytes(crFiles) \in Nat
  BY FS_CardinalityType DEF CrUsedInv, FileBytes
<1>t. (/\ crCatalog' = crCatalog /\ crTx' \in CrDbs /\ crDb' \in CrDbs
       /\ crTx'.rows <= Len(crCatalog) /\ crDb'.rows <= Len(crCatalog)
       /\ crFiles' \in [CrStreams -> Seq(CrFile)]
       /\ crPc' \in CrSteps /\ crAt' \in CrStreams \cup {CrNil} /\ crDone' \subseteq CrStreams
       /\ crUsed' \in Nat /\ crCopied' \in Nat /\ crSent' \in Nat /\ crFailed' \in BOOLEAN
       /\ crQueue' \in Seq({"data", "end"}) /\ Len(crQueue') <= 2)
      => CrTypeOK'
  BY <1>c DEF CrTypeOK, CrDbs
<1>p. /\ crFiles \in [CrStreams -> Seq(CrFile)]
      /\ crPc \in CrSteps /\ crAt \in CrStreams \cup {CrNil} /\ crDone \subseteq CrStreams
      /\ crUsed \in Nat /\ crCopied \in Nat /\ crSent \in Nat /\ crFailed \in BOOLEAN
  BY DEF CrTypeOK
<1>1. CASE CrStart
  BY <1>1, <1>c, <1>q, <1>t, <1>p DEF CrStart, CrSteps, crCopy
<1>2. CASE CrImport
  <2>1. crTx' \in CrDbs /\ crTx'.rows = crTx.rows
    BY <1>2, CrImportMove
  <2> QED
    BY <1>2, <1>c, <1>q, <1>t, <1>p, <2>1 DEF CrImport, CrSteps, crCopy
<1>3. CASE CrImportRef
  <2>1. crTx' \in CrDbs /\ crTx'.rows = crTx.rows + 1 /\ crDb' \in {crDb, crTx'}
    BY <1>3, CrImportRefMove
  <2>2. crTx.rows < Len(crCatalog)
    BY <1>3 DEF CrImportRef, CrImportInv
  <2> QED
    BY <1>3, <1>c, <1>q, <1>t, <1>p, <2>1, <2>2 DEF CrImportRef, CrSteps, crCopy
<1>4. CASE CrSelect
  <2>1. crTx' \in CrDbs /\ crDb' = crTx' /\ crTx'.rows = crTx.rows
    BY <1>4, CrSelectMove
  <2> QED
    BY <1>4, <1>c, <1>q, <1>t, <1>p, <2>1 DEF CrSelect, CrSteps, crCopy
<1>5. CASE CrCountUsed
  BY <1>5, <1>c, <1>q, <1>t, <1>p, <1>u DEF CrCountUsed, CrSteps, crCopy
<1>6. CASE CrReconcile
  <2>1. crTx' \in CrDbs /\ crDb' = crTx' /\ crTx'.rows = crTx.rows
    BY <1>6, CrReconcileMove
  <2> QED
    BY <1>6, <1>c, <1>q, <1>t, <1>p, <2>1 DEF CrReconcile, CrSteps, crCopy
<1>7. ASSUME NEW s \in CrStreams, CrReuse(s) PROVE CrTypeOK'
  <2>1. crTx' \in CrDbs /\ crDb' = crTx' /\ crTx'.rows = crTx.rows
    BY <1>7, CrReuseMove DEF CrTaken
  <2> QED
    BY <1>7, <1>c, <1>q, <1>t, <1>p, <2>1 DEF CrReuse, CrSteps, crCopy
<1>8. ASSUME NEW s \in CrStreams, CrDefer(s) PROVE CrTypeOK'
  <2>1. crTx' \in CrDbs /\ crDb' = crTx' /\ crTx'.rows = crTx.rows
    BY <1>8, CrDeferMove DEF CrTaken
  <2> QED
    BY <1>8, <1>c, <1>q, <1>t, <1>p, <2>1 DEF CrDefer, CrSteps, crCopy
<1>9. ASSUME NEW s \in CrStreams, CrAttempt(s) PROVE CrTypeOK'
  <2>1. crTx' \in CrDbs /\ crDb' = crTx' /\ crTx'.rows = crTx.rows
    BY <1>9, CrAttemptMove
  <2> QED
    BY <1>9, <1>c, <1>q, <1>t, <1>p, <2>1 DEF CrAttempt, CrSteps, crCopy
<1>10. CASE CrCreate
  <2>1. crFiles' \in [CrStreams -> Seq(CrFile)]
    BY <1>10, CrCreateMove DEF CrAttemptInv, CrInAttempt, CrCreate
  <2>2. <<>> \in Seq({"data", "end"}) /\ Len(<<>>) <= 2
    BY EmptySeq
  <2> QED
    BY <1>10, <1>c, <1>q, <1>t, <1>p, <2>1, <2>2 DEF CrCreate, CrSteps
<1>11. CASE CrRead
  <2>1. \A e \in {"data", "end"} :
          Append(crQueue, e) \in Seq({"data", "end"}) /\ Len(Append(crQueue, e)) = Len(crQueue) + 1
    BY <1>q, SeqAdd
  <2>2. crQueue' \in Seq({"data", "end"}) /\ Len(crQueue') <= 2 /\ crSent' \in Nat
    BY <1>11, <1>q, <1>p, <2>1 DEF CrRead
  <2> QED
    BY <1>11, <1>c, <1>t, <1>p, <2>2 DEF CrRead, CrSteps
<1>12. CASE CrWrite
  <2>1. /\ crFiles' \in [CrStreams -> Seq(CrFile)] /\ crCopied' \in Nat /\ crFailed' \in BOOLEAN
        /\ crPc' \in CrSteps
    BY <1>12, <1>p, CrWriteMove DEF CrFileSet, CrSteps
  <2>2. crQueue' \in Seq({"data", "end"}) /\ Len(crQueue') <= 2
    <3>1. crQueue # <<>> => /\ Tail(crQueue) \in Seq({"data", "end"})
                            /\ Len(Tail(crQueue)) = Len(crQueue) - 1
      BY <1>q, HeadTailProperties
    <3> QED
      BY <1>12, <1>q, <3>1 DEF CrWrite
  <2> QED
    BY <1>12, <1>c, <1>t, <1>p, <2>1, <2>2 DEF CrWrite
<1>13. CASE CrRecord
  <2>1. crTx' \in CrDbs /\ crDb' = crTx' /\ crTx'.rows = crTx.rows
    BY <1>13, CrRecordMove DEF CrEnded
  <2> QED
    BY <1>13, <1>c, <1>q, <1>t, <1>p, <2>1 DEF CrRecord, CrSteps, crCopy
<1>14. CASE CrUpdate
  <2>1. crAt \in CrStreams /\ crTx' \in CrDbs /\ crDb' = crTx' /\ crTx'.rows = crTx.rows
    BY <1>14, CrUpdateMove DEF CrTaken
  <2>2. LastExport(crAt).size \in Nat
    <3>1. crTx.exports[crAt] \in Seq(CrExport) /\ crTx.exports[crAt] # <<>>
      BY <1>14, <1>c, <2>1 DEF CrDbs, CrUpdate, CrAttemptInv, CrInAttempt
    <3>2. LastExport(crAt) \in CrExport
      BY <3>1, SeqHas DEF LastExport
    <3> QED
      BY <3>2 DEF CrExport
  <2> QED
    BY <1>14, <1>c, <1>q, <1>t, <1>p, <2>1, <2>2 DEF CrUpdate, CrSteps, crCopy
<1>15. CASE CrFinish
  BY <1>15, <1>c, <1>q, <1>t, <1>p DEF CrFinish, CrSteps, crCopy
<1>16. CASE CrRaise
  <2>1. crTx' \in CrDbs /\ crDb' \in CrDbs /\ crTx'.rows = crTx.rows /\ crDb'.rows = crTx.rows
    BY <1>16, <1>c, CrRaiseMove DEF CrEnded
  <2> QED
    BY <1>16, <1>c, <1>q, <1>t, <1>p, <2>1 DEF CrRaise, CrSteps, crCopy
<1>17. CASE CrKill
  BY <1>17, <1>c, <1>q, <1>t, <1>p DEF CrKill, CrSteps, crCopy
<1>18. CASE CrAlter
  <2>1. crFiles' \in [CrStreams -> Seq(CrFile)]
    BY <1>18, CrAlterMove DEF CrFileSet
  <2> QED
    BY <1>18, <1>c, <1>q, <1>t, <1>p, <2>1 DEF CrAlter, CrSteps, crCopy
<1>19. CASE UNCHANGED crVars
  BY <1>19, <1>c, <1>q, <1>t, <1>p DEF crVars, crCopy
<1> QED
  BY <1>1, <1>2, <1>3, <1>4, <1>5, <1>6, <1>7, <1>8, <1>9, <1>10, <1>11, <1>12, <1>13, <1>14,
     <1>15, <1>16, <1>17, <1>18, <1>19 DEF CrNext

\* What a row makes of the stream that is there, on its own
After(row, old) ==
    IF old = CrNil
    THEN [size |-> row.size, deleted |-> row.flag = "deleted",
          state |-> IF row.flag # "unsure" THEN "pending" ELSE "ambiguous_allocation"]
    ELSE [size |-> old.size, deleted |-> old.deleted \/ row.flag = "deleted",
          state |-> IF row.size # old.size THEN "conflict"
                    ELSE IF old.state = "ambiguous_allocation" /\ row.flag # "unsure"
                    THEN "pending" ELSE old.state]

\* The rows of a stream up to the next row are one more if that is one of its own.
LEMMA CrRowsNext ==
  ASSUME NEW catalog \in Seq(CrRow), NEW k \in Nat, k < Len(catalog), NEW s
  PROVE  /\ catalog[k + 1] \in CrRow
         /\ RowsTo(catalog, s, k + 1) = IF catalog[k + 1].stream = s
                                        THEN RowsTo(catalog, s, k) \cup {k + 1}
                                        ELSE RowsTo(catalog, s, k)
         /\ \A n \in RowsTo(catalog, s, k) : catalog[n] \in CrRow
<1>1. Len(catalog) \in Nat /\ DOMAIN catalog = 1 .. Len(catalog)
  BY SeqHas
<1>2. k + 1 \in DOMAIN catalog /\ \A n \in DOMAIN catalog : n \in Nat /\ (n <= k + 1 <=> n <= k \/ n = k + 1)
  BY <1>1
<1>3. \A n \in DOMAIN catalog : catalog[n] \in CrRow
  BY SeqHas
<1> QED
  BY <1>2, <1>3 DEF RowsTo

\* A row brings its stream up to date, also one that it had written before.
LEMMA CrSaysNext ==
  ASSUME NEW catalog \in Seq(CrRow), NEW k \in Nat, k < Len(catalog),
         NEW old \in CrStream \cup {CrNil},
         SaysOf(catalog, catalog[k + 1].stream, old, k)
             \/ SaysOf(catalog, catalog[k + 1].stream, old, k + 1),
         old # CrNil => Fresh(old)
  PROVE  LET new == After(catalog[k + 1], old)
         IN  /\ SaysOf(catalog, catalog[k + 1].stream, new, k + 1)
             /\ new \in CrStream /\ new # CrNil /\ Fresh(new)
<1> DEFINE row == catalog[k + 1]
           s == row.stream
           rows == RowsTo(catalog, s, k)
           next == RowsTo(catalog, s, k + 1)
           new == After(row, old)
<1>1. /\ row \in CrRow /\ next = rows \cup {k + 1} /\ \A n \in rows : catalog[n] \in CrRow
  BY CrRowsNext
<1>2. /\ row.size \in Nat /\ row.flag \in {"deleted", "allocated", "unsure"}
      /\ \A n \in next : catalog[n].size \in Nat
  BY <1>1 DEF CrRow
<1>3. /\ new \in CrStream /\ new # CrNil /\ Fresh(new)
  <2>1. \A size \in Nat : \A deleted \in BOOLEAN : \A state \in CrStates :
            [size |-> size, deleted |-> deleted, state |-> state] \in CrStream
    BY DEF CrStream
  <2>2. /\ (row.flag = "deleted") \in BOOLEAN
        /\ (old.deleted \/ row.flag = "deleted") \in BOOLEAN
    OBVIOUS
  <2>3. CASE old = CrNil
    <3>1. new = [size |-> row.size, deleted |-> (row.flag = "deleted"),
                 state |-> IF row.flag # "unsure" THEN "pending" ELSE "ambiguous_allocation"]
      BY <2>3 DEF After
    <3>2. /\ (IF row.flag # "unsure" THEN "pending" ELSE "ambiguous_allocation") \in CrStates
          /\ Fresh(new)
      BY <3>1 DEF CrStates, Fresh
    <3>3. new \in CrStream
      BY <1>2, <2>1, <2>2, <3>1, <3>2
    <3> QED
      BY <3>2, <3>3, CrConstants
  <2>4. CASE old # CrNil
    <3>1. new = [size |-> old.size, deleted |-> (old.deleted \/ row.flag = "deleted"),
                 state |-> new.state]
      BY <2>4 DEF After
    <3>2. new.state \in CrStates /\ Fresh(new) /\ old.size \in Nat
      BY <2>4 DEF After, CrStates, CrStream, Fresh
    <3>3. new \in CrStream
      BY <2>1, <2>2, <3>1, <3>2
    <3> QED
      BY <3>2, <3>3, CrConstants
  <2> QED
    BY <2>3, <2>4
<1>s. (/\ next # {} /\ \E n \in next : new.size = catalog[n].size
       /\ new.deleted <=> \E n \in next : catalog[n].flag = "deleted"
       /\ new.state = "conflict" <=> \E n \in next : catalog[n].size # new.size
       /\ new.state = "ambiguous_allocation" <=>
            \A n \in next : catalog[n].size = new.size /\ catalog[n].flag = "unsure")
      => SaysOf(catalog, s, new, k + 1)
  <2> HIDE DEF new, s
  <2> QED
    BY <1>3 DEF SaysOf
<1>4. CASE old = CrNil
  <2>1. rows = {}
    BY <1>1, <1>4 DEF SaysOf
  <2>2. next = {k + 1}
    BY <1>1, <2>1
  <2>3. /\ new.size = row.size /\ (new.deleted <=> row.flag = "deleted")
        /\ new.state = IF row.flag # "unsure" THEN "pending" ELSE "ambiguous_allocation"
    BY <1>4 DEF After
  <2> HIDE DEF new, next
  <2>4. SaysOf(catalog, s, new, k + 1)
    BY <1>s, <2>2, <2>3
  <2> QED
    BY <1>3, <2>4 DEF new
<1>5. CASE old # CrNil
  <2> DEFINE said == IF rows # {} /\ SaysOf(catalog, s, old, k) THEN rows ELSE next
  <2>1. /\ said # {} /\ next = said \cup {k + 1}
        /\ \E n \in said : old.size = catalog[n].size
        /\ old.deleted <=> \E n \in said : catalog[n].flag = "deleted"
        /\ old.state = "conflict" <=> \E n \in said : catalog[n].size # old.size
        /\ old.state = "ambiguous_allocation" <=>
              \A n \in said : catalog[n].size = old.size /\ catalog[n].flag = "unsure"
    BY <1>1, <1>5 DEF SaysOf
  <2>2. /\ new.size = old.size /\ (new.deleted <=> old.deleted \/ row.flag = "deleted")
        /\ new.state = IF row.size # old.size THEN "conflict"
                       ELSE IF old.state = "ambiguous_allocation" /\ row.flag # "unsure"
                       THEN "pending" ELSE old.state
    BY <1>5 DEF After
  <2> HIDE DEF new, next, said
  <2>3. \E n \in next : new.size = catalog[n].size
    BY <2>1, <2>2
  <2>4. new.deleted <=> \E n \in next : catalog[n].flag = "deleted"
    BY <2>1, <2>2
  <2>5. new.state = "conflict" <=> \E n \in next : catalog[n].size # new.size
    BY <2>1, <2>2
  <2>6. new.state = "ambiguous_allocation" <=>
            \A n \in next : catalog[n].size = new.size /\ catalog[n].flag = "unsure"
    BY <2>1, <2>2
  <2>7. next # {}
    BY <2>1
  <2>8. SaysOf(catalog, s, new, k + 1)
    BY <1>s, <2>3, <2>4, <2>5, <2>6, <2>7
  <2> QED
    BY <1>3, <2>8 DEF new
<1> QED
  BY <1>3, <1>4, <1>5

\* What is said of a stream does not depend on where its export is.
LEMMA CrSaysExport ==
  ASSUME NEW catalog, NEW s, NEW k, NEW old, NEW new, new # CrNil, old # CrNil,
         SaysOf(catalog, s, old, k), new.size = old.size, new.deleted = old.deleted,
         old.state \notin {"conflict", "ambiguous_allocation"},
         new.state \notin {"conflict", "ambiguous_allocation"}
  PROVE  SaysOf(catalog, s, new, k)
BY DEF SaysOf

\* The import goes on from what is committed and misses nothing.
LEMMA CrImportedNext ==
  ASSUME NEW catalog \in Seq(CrRow), NEW mode, NEW old \in CrDbs, NEW new \in CrDbs,
         Imported(catalog, mode, old), old.rows < Len(catalog),
         LET s == catalog[old.rows + 1].stream
         IN  /\ s \in CrStreams /\ new.streams[s] = After(catalog[old.rows + 1], old.streams[s])
             /\ \A t \in CrStreams : t # s => new.streams[t] = old.streams[t],
         new.rows = old.rows
  PROVE  SaysAll(catalog, new, new.rows + 1) /\ Early(catalog, new) /\ Unwanted(mode, new)
<1> DEFINE k == old.rows
           row == catalog[k + 1]
           s == row.stream
<1>1. k \in Nat /\ k < Len(catalog) /\ s \in CrStreams
  BY DEF CrDbs
<1>2. PICK m \in {k, k + 1} : SaysAll(catalog, old, m)
  BY DEF Imported, Steady
<1>3. /\ old.streams[s] \in CrStream \cup {CrNil}
      /\ \A t \in CrStreams : old.streams[t] # CrNil => Fresh(old.streams[t])
  BY <1>1 DEF CrDbs, Imported, Early
<1>4. \A t \in CrStreams : SaysOf(catalog, t, old.streams[t], m)
  BY <1>2 DEF SaysAll
<1>5. /\ SaysOf(catalog, s, After(row, old.streams[s]), k + 1)
      /\ After(row, old.streams[s]) # CrNil /\ Fresh(After(row, old.streams[s]))
  <2>1. SaysOf(catalog, s, old.streams[s], k) \/ SaysOf(catalog, s, old.streams[s], k + 1)
    BY <1>1, <1>2, <1>4
  <2> QED
    BY <1>1, <1>3, <2>1, CrSaysNext
<1>6. ASSUME NEW t \in CrStreams, t # s
      PROVE  SaysOf(catalog, t, new.streams[t], k + 1)
  <2>1. RowsTo(catalog, t, k + 1) = RowsTo(catalog, t, k)
    <3>1. catalog[k + 1].stream # t
      BY <1>6
    <3> HIDE DEF k
    <3> QED
      BY <1>1, <3>1, CrRowsNext
  <2>2. SaysOf(catalog, t, old.streams[t], k + 1)
    <3>1. SaysOf(catalog, t, old.streams[t], m)
      BY <1>4
    <3>2. CASE m = k
      BY <2>1, <3>1, <3>2 DEF SaysOf
    <3>3. CASE m = k + 1
      BY <3>1, <3>3
    <3> QED
      BY <3>2, <3>3
  <2> QED
    BY <1>6, <2>2
<1>7. SaysAll(catalog, new, new.rows + 1)
  BY <1>5, <1>6 DEF SaysAll
<1>8. \A t \in CrStreams : new.streams[t] # CrNil => Fresh(new.streams[t])
  BY <1>3, <1>5
<1> QED
  BY <1>7, <1>8 DEF Early, Unwanted, Fresh

\* A database with all rows says what they say.
LEMMA CrAllRows ==
  ASSUME NEW catalog \in Seq(CrRow), NEW mode, NEW db, db.rows = Len(catalog)
  PROVE  Imported(catalog, mode, db) <=> SaysAll(catalog, db, Len(catalog)) /\ Unwanted(mode, db)
<1>1. Len(catalog) \in Nat
  BY SeqHas
<1> QED
  BY <1>1 DEF Imported, Steady, Early

\* A stream that gets a state of the export is still what its rows say.
LEMMA CrTakenImported ==
  ASSUME CrTypeOK, crTx.rows = Len(crCatalog), Imported(crCatalog, crMode, crTx),
         NEW s \in CrStreams, crTx.streams[s] # CrNil, crTx.streams[s].state \in CrExportable,
         NEW state \in {"complete", "partial", "failed", "deferred"}, CrTaken(s, state)
  PROVE  Imported(crCatalog, crMode, crTx')
<1>1. crCatalog \in Seq(CrRow)
  BY DEF CrTypeOK
<1>2. SaysAll(crCatalog, crTx, Len(crCatalog)) /\ Unwanted(crMode, crTx)
  BY <1>1, CrAllRows
<1>3. /\ crTx'.streams[s] # CrNil /\ crTx'.streams[s].size = crTx.streams[s].size
      /\ crTx'.streams[s].deleted = crTx.streams[s].deleted /\ crTx'.streams[s].state = state
      /\ \A t \in CrStreams : t # s => crTx'.streams[t] = crTx.streams[t]
      /\ crTx'.rows = Len(crCatalog)
  BY CrConstants DEF CrTaken
<1>4. SaysOf(crCatalog, s, crTx'.streams[s], Len(crCatalog))
  <2>1. SaysOf(crCatalog, s, crTx.streams[s], Len(crCatalog))
    BY <1>2 DEF SaysAll
  <2>2. crTx.streams[s].state \notin {"conflict", "ambiguous_allocation"}
    BY DEF CrExportable
  <2> QED
    BY <1>3, <2>1, <2>2, CrSaysExport
<1>5. SaysAll(crCatalog, crTx', Len(crCatalog))
  BY <1>2, <1>3, <1>4 DEF SaysAll
<1>6. Unwanted(crMode, crTx')
  BY <1>2, <1>3 DEF Unwanted
<1> QED
  BY <1>1, <1>3, <1>5, <1>6, CrAllRows

\* The databases stay true to the catalog.
LEMMA CrImportStep ==
  ASSUME CrTypeOK, CrImportInv, CrAttemptInv, [CrNext]_crVars
  PROVE  CrImportInv'
<1>c. /\ crTx \in CrDbs /\ crDb \in CrDbs /\ crCatalog \in Seq(CrRow) /\ Len(crCatalog) \in Nat
      /\ crTx.rows <= Len(crCatalog)
  BY SeqHas DEF CrTypeOK, CrDbs
<1>i. /\ Imported(crCatalog, crMode, crDb)
      /\ crPc = "import" => Imported(crCatalog, crMode, crTx)
      /\ crPc = "ref" => /\ crTx.rows < Len(crCatalog) /\ SaysAll(crCatalog, crTx, crTx.rows + 1)
                         /\ Early(crCatalog, crTx) /\ Unwanted(crMode, crTx)
      /\ crPc \in CrSelected => crTx = crDb /\ crDb.rows = Len(crCatalog)
      /\ crTx.exports = crDb.exports
  BY DEF CrImportInv
<1>k. ASSUME UNCHANGED <<crCatalog, crMode, crDb, crTx>>,
             crPc' = crPc \/ crPc' = "idle" \/ (crPc \in CrSelected /\ crPc' \in CrSelected)
      PROVE  CrImportInv'
  BY <1>i, <1>k DEF CrImportInv, CrSelected
<1>t. ASSUME UNCHANGED <<crCatalog, crMode>>, crPc \in CrSelected, crPc' \in CrSelected,
             NEW s \in CrStreams, crTx.streams[s] # CrNil, crTx.streams[s].state \in CrExportable,
             NEW state \in {"complete", "partial", "failed", "deferred"}, CrTaken(s, state)
      PROVE  CrImportInv'
  <2>1. Imported(crCatalog, crMode, crTx')
    BY <1>i, <1>t, CrTakenImported
  <2> QED
    BY <1>i, <1>t, <2>1 DEF CrImportInv, CrTaken, CrSelected
<1>e. ASSUME UNCHANGED <<crCatalog, crMode>>, crPc \in CrSelected,
             crPc' \in CrSelected \/ crPc' = "idle",
             crTx'.rows = crTx.rows, crTx'.streams = crTx.streams, crDb' = crTx'
      PROVE  CrImportInv'
  <2>1. Imported(crCatalog, crMode, crTx')
    BY <1>i, <1>e DEF Imported, Steady, Early, Unwanted, SaysAll
  <2> QED
    BY <1>i, <1>e, <2>1 DEF CrImportInv, CrSelected
<1>1. CASE CrStart
  BY <1>1, <1>i DEF CrStart, CrImportInv, CrSelected
<1>2. CASE CrImport
  <2>1. /\ crTx.rows < Len(crCatalog) /\ Row.stream \in CrStreams /\ crTx' \in CrDbs
        /\ crTx'.rows = crTx.rows /\ crTx'.exports = crTx.exports
        /\ crTx'.streams[Row.stream] = CrImported
        /\ \A t \in CrStreams : t # Row.stream => crTx'.streams[t] = crTx.streams[t]
    BY <1>2, CrImportMove
  <2>2. CrImported = After(Row, crTx.streams[Row.stream]) /\ Row = crCatalog[crTx.rows + 1]
    BY DEF CrImported, After, Row, Corroborated
  <2>3. /\ SaysAll(crCatalog, crTx', crTx'.rows + 1) /\ Early(crCatalog, crTx')
        /\ Unwanted(crMode, crTx')
    <3>1. Imported(crCatalog, crMode, crTx)
      BY <1>2, <1>i DEF CrImport
    <3> QED
      BY <1>c, <2>1, <2>2, <3>1, CrImportedNext
  <2> QED
    BY <1>2, <1>i, <2>1, <2>3 DEF CrImport, CrImportInv, CrSelected
<1>3. CASE CrImportRef
  <2>1. /\ crTx' \in CrDbs /\ crTx'.rows = crTx.rows + 1 /\ crTx'.exports = crTx.exports
        /\ crTx'.streams = crTx.streams /\ crDb' \in {crDb, crTx'}
    BY <1>3, CrImportRefMove
  <2>2. crPc = "ref" /\ crPc' = "import" /\ UNCHANGED <<crCatalog, crMode>>
    BY <1>3 DEF CrImportRef
  <2>3. Imported(crCatalog, crMode, crTx')
    <3>1. SaysAll(crCatalog, crTx', crTx'.rows)
      BY <1>i, <2>1, <2>2 DEF SaysAll
    <3>2. Early(crCatalog, crTx') /\ Unwanted(crMode, crTx')
      BY <1>c, <1>i, <2>1, <2>2 DEF Early, Unwanted, CrDbs
    <3> QED
      BY <3>1, <3>2 DEF Imported, Steady
  <2> QED
    BY <1>i, <2>1, <2>2, <2>3 DEF CrImportInv, CrSelected
<1>4. CASE CrSelect
  <2>1. /\ crTx' \in CrDbs /\ crDb' = crTx' /\ crTx'.rows = crTx.rows /\ crTx'.exports = crTx.exports
        /\ \A s \in CrStreams :
              \/ crTx'.streams[s] = crTx.streams[s]
              \/ /\ crTx.streams[s] # CrNil /\ crTx.streams[s].state = "pending"
                 /\ crMode = "deleted" /\ ~crTx.streams[s].deleted
                 /\ crTx'.streams[s] \in CrStream
                 /\ crTx'.streams[s].size = crTx.streams[s].size
                 /\ crTx'.streams[s].deleted = crTx.streams[s].deleted
                 /\ crTx'.streams[s].state = "not_selected"
    BY <1>4, CrSelectMove
  <2>2. /\ crPc = "import" /\ crPc' = "used" /\ UNCHANGED <<crCatalog, crMode>>
        /\ crTx.rows = Len(crCatalog)
    BY <1>4 DEF CrSelect
  <2>3. SaysAll(crCatalog, crTx, Len(crCatalog)) /\ Unwanted(crMode, crTx)
    BY <1>c, <1>i, <2>2, CrAllRows
  <2>4. ASSUME NEW s \in CrStreams
        PROVE  SaysOf(crCatalog, s, crTx'.streams[s], Len(crCatalog))
    <3>1. SaysOf(crCatalog, s, crTx.streams[s], Len(crCatalog))
      BY <2>3 DEF SaysAll
    <3>2. CASE crTx'.streams[s] = crTx.streams[s]
      BY <3>1, <3>2
    <3>3. CASE crTx'.streams[s] # crTx.streams[s]
      <4>1. /\ crTx.streams[s] # CrNil /\ crTx.streams[s].state = "pending"
            /\ crTx'.streams[s] # CrNil
            /\ crTx'.streams[s].size = crTx.streams[s].size
            /\ crTx'.streams[s].deleted = crTx.streams[s].deleted
            /\ crTx'.streams[s].state = "not_selected"
        BY <2>1, <3>3, CrConstants
      <4> QED
        BY <3>1, <4>1, CrSaysExport
    <3> QED
      BY <3>2, <3>3
  <2>5. SaysAll(crCatalog, crTx', Len(crCatalog)) /\ Unwanted(crMode, crTx')
    BY <2>1, <2>3, <2>4 DEF SaysAll, Unwanted
  <2>6. Imported(crCatalog, crMode, crTx')
    BY <1>c, <2>1, <2>2, <2>5, CrAllRows
  <2> QED
    BY <2>1, <2>2, <2>6 DEF CrImportInv, CrSelected
<1>5. CASE CrCountUsed
  BY <1>5, <1>k DEF CrCountUsed, CrSelected
<1>6. CASE CrReconcile
  <2>1. crDb' = crTx' /\ crTx'.rows = crTx.rows /\ crTx'.streams = crTx.streams
    BY <1>6, CrReconcileMove
  <2> QED
    BY <1>6, <1>e, <2>1 DEF CrReconcile, CrSelected
<1>7. ASSUME NEW s \in CrStreams, CrReuse(s) PROVE CrImportInv'
  BY <1>7, <1>t, CrReuseMove DEF CrReuse, CrSelected
<1>8. ASSUME NEW s \in CrStreams, CrDefer(s) PROVE CrImportInv'
  BY <1>8, <1>t, CrDeferMove DEF CrDefer, CrSelected
<1>9. ASSUME NEW s \in CrStreams, CrAttempt(s) PROVE CrImportInv'
  <2>1. crDb' = crTx' /\ crTx'.rows = crTx.rows /\ crTx'.streams = crTx.streams
    BY <1>9, CrAttemptMove
  <2> QED
    BY <1>9, <1>e, <2>1 DEF CrAttempt, CrSelected
<1>10. CASE CrCreate
  BY <1>10, <1>k DEF CrCreate, CrSelected
<1>11. CASE CrRead
  BY <1>11, <1>k DEF CrRead, CrSelected
<1>12. CASE CrWrite
  BY <1>12, <1>k DEF CrWrite, CrSelected
<1>13. CASE CrRecord
  <2>1. crDb' = crTx' /\ crTx'.rows = crTx.rows /\ crTx'.streams = crTx.streams
    BY <1>13, CrRecordMove DEF CrEnded
  <2> QED
    BY <1>13, <1>e, <2>1 DEF CrRecord, CrSelected
<1>14. CASE CrUpdate
  BY <1>14, <1>t, CrUpdateMove DEF CrUpdate, CrSelected
<1>15. CASE CrFinish
  BY <1>15, <1>k DEF CrFinish
<1>16. CASE CrRaise
  <2>1. CASE crPc = "copy"
    <3>1. crDb' = crTx' /\ crTx'.rows = crTx.rows /\ crTx'.streams = crTx.streams
      BY <1>16, <2>1, CrRaiseMove DEF CrEnded
    <3> QED
      BY <1>16, <1>e, <2>1, <3>1 DEF CrRaise, CrSelected
  <2>2. CASE crPc # "copy"
    <3>1. crTx' = crTx /\ crDb' = crTx
      BY <1>16, <2>2, CrRaiseMove
    <3>2. Imported(crCatalog, crMode, crTx)
      <4>1. CASE crPc = "ref"
        BY <1>i, <4>1 DEF Imported, Steady
      <4>2. CASE crPc \in CrSelected
        BY <1>i, <4>2
      <4>3. crPc \in {"import", "ref"} \cup CrSelected
        <5>1. crPc \in CrSteps /\ crPc # "idle"
          BY <1>16 DEF CrRaise, CrTypeOK
        <5> QED
          BY <5>1 DEF CrSteps, CrSelected
      <4> QED
        BY <1>i, <4>1, <4>2, <4>3
    <3> QED
      BY <1>16, <3>1, <3>2 DEF CrRaise, CrImportInv, CrSelected
  <2> QED
    BY <2>1, <2>2
<1>17. CASE CrKill
  BY <1>17, <1>k DEF CrKill
<1>18. CASE CrAlter
  BY <1>18, <1>k DEF CrAlter
<1>19. CASE UNCHANGED crVars
  BY <1>19, <1>k DEF crVars
<1> QED
  BY <1>1, <1>2, <1>3, <1>4, <1>5, <1>6, <1>7, <1>8, <1>9, <1>10, <1>11, <1>12, <1>13, <1>14,
     <1>15, <1>16, <1>17, <1>18, <1>19 DEF CrNext

\* What a database with all rows says is what the property asks.
LEMMA CrStreamsAreSaid ==
  ASSUME CrTypeOK, CrImportInv
  PROVE  CrStreamsAreCatalog
<1> SUFFICES ASSUME crDb.rows = Len(crCatalog), NEW s \in CrStreams
             PROVE  LET stream == crDb.streams[s]
                    IN  IF RowsOf(s) = {} THEN stream = CrNil
                        ELSE /\ stream # CrNil /\ stream.deleted = IsDeleted(s)
                             /\ (stream.state = "conflict") = Disagree(s)
                             /\ (stream.state = "ambiguous_allocation") = (~Disagree(s) /\ ~Sure(s))
  BY DEF CrStreamsAreCatalog
<1>1. crCatalog \in Seq(CrRow) /\ crDb.streams[s] \in CrStream \cup {CrNil}
  BY DEF CrTypeOK
<1>2. SaysOf(crCatalog, s, crDb.streams[s], Len(crCatalog))
  BY <1>1, CrAllRows DEF CrImportInv, SaysAll
<1>3. RowsTo(crCatalog, s, Len(crCatalog)) = RowsOf(s)
  BY <1>1, SeqHas DEF RowsTo, RowsOf
<1>4. CASE RowsOf(s) = {}
  BY <1>2, <1>3, <1>4 DEF SaysOf
<1>5. CASE RowsOf(s) # {}
  <2> DEFINE stream == crDb.streams[s]
  <2>1. /\ stream # CrNil /\ \E n \in RowsOf(s) : stream.size = crCatalog[n].size
        /\ stream.deleted <=> \E n \in RowsOf(s) : crCatalog[n].flag = "deleted"
        /\ stream.state = "conflict" <=> \E n \in RowsOf(s) : crCatalog[n].size # stream.size
        /\ stream.state = "ambiguous_allocation" <=>
              \A n \in RowsOf(s) : crCatalog[n].size = stream.size /\ crCatalog[n].flag = "unsure"
    BY <1>2, <1>3, <1>5 DEF SaysOf
  <2>2. stream.deleted \in BOOLEAN
    BY <1>1, <2>1 DEF CrStream
  <2> HIDE DEF stream
  <2>3. Disagree(s) <=> \E n \in RowsOf(s) : crCatalog[n].size # stream.size
    BY <2>1 DEF Disagree
  <2>4. (\A n \in RowsOf(s) : crCatalog[n].size = stream.size /\ crCatalog[n].flag = "unsure")
            <=> (~Disagree(s) /\ ~Sure(s))
    BY <2>3 DEF Sure
  <2>5. stream.deleted = IsDeleted(s)
    BY <2>1, <2>2 DEF IsDeleted
  <2>6. (stream.state = "conflict") = Disagree(s)
    BY <2>1, <2>3 DEF Disagree
  <2>7. (stream.state = "ambiguous_allocation") = (~Disagree(s) /\ ~Sure(s))
    BY <2>1, <2>4
  <2> QED
    BY <1>5, <2>1, <2>5, <2>6, <2>7 DEF stream
<1> QED
  BY <1>4, <1>5

\* An attempt goes through its steps in their order.
LEMMA CrAttemptStep ==
  ASSUME CrTypeOK, CrImportInv, CrAttemptInv, CrFilesInv, [CrNext]_crVars
  PROVE  CrAttemptInv'
<1>o. crPc' \notin CrInAttempt => CrAttemptInv'
  BY DEF CrAttemptInv, CrInAttempt
<1>i. crPc \in CrInAttempt =>
          /\ crAt \in CrStreams \ crDone /\ crTx.exports[crAt] # <<>>
          /\ crTx.streams[crAt] # CrNil /\ crTx.streams[crAt].state \in CrExportable
  BY DEF CrAttemptInv
<1>1. CASE CrStart \/ CrImport \/ CrImportRef \/ CrSelect \/ CrCountUsed \/ CrReconcile
  BY <1>1, <1>o DEF CrStart, CrImport, CrImportRef, CrSelect, CrCountUsed, CrReconcile, CrInAttempt
<1>2. ASSUME NEW s \in CrStreams, CrReuse(s) \/ CrDefer(s) PROVE CrAttemptInv'
  BY <1>2, <1>o DEF CrReuse, CrDefer, CrInAttempt
<1>3. ASSUME NEW s \in CrStreams, CrAttempt(s) PROVE CrAttemptInv'
  <2>1. /\ crPc = "export" /\ crPc' = "create" /\ crAt' = s /\ UNCHANGED <<crFiles, crDone>>
        /\ s \notin crDone /\ crTx.streams[s] # CrNil /\ crTx.streams[s].state \in CrExportable
    BY <1>3 DEF CrAttempt, CrNextStream, CrWanted
  <2>2. LET n == Len(crTx.exports[s]) + 1
        IN  /\ crTx'.streams = crTx.streams /\ crTx'.exports[s] # <<>> /\ n \in Nat
            /\ Len(crTx'.exports[s]) = n /\ crTx'.exports[s][n] = [state |-> "running", size |-> 0]
    BY <1>3, CrAttemptMove
  <2>3. Len(crFiles[s]) <= Len(crTx.exports[s]) /\ Len(crFiles[s]) \in Nat /\ Len(crTx.exports[s]) \in Nat
    <3>1. crFiles[s] \in Seq(CrFile) /\ crTx.exports[s] \in Seq(CrExport)
      BY DEF CrTypeOK
    <3>2. Len(crFiles[s]) \in Nat /\ Len(crTx.exports[s]) \in Nat
      BY <3>1, SeqHas
    <3> QED
      BY <2>1, <3>2 DEF CrFilesInv, CrImportInv
  <2>4. LastExport(s)' = [state |-> "running", size |-> 0]
    BY <2>2 DEF LastExport
  <2>5. Len(crFiles'[s]) < Len(crTx'.exports[s])
    BY <2>1, <2>2, <2>3
  <2>6. LastExport(crAt)'.state = "running"
    BY <2>1, <2>2 DEF LastExport
  <2> QED
    BY <2>1, <2>2, <2>5, <2>6 DEF CrAttemptInv, CrInAttempt
<1>4. CASE CrCreate
  <2>1. /\ crPc = "create" /\ crPc' = "copy" /\ UNCHANGED <<crTx, crAt, crDone>> /\ crCopied' = 0
        /\ crAt \in CrStreams /\ crTx.exports[crAt] # <<>>
        /\ Len(crFiles[crAt]) < Len(crTx.exports[crAt]) /\ LastExport(crAt).state = "running"
    BY <1>4 DEF CrCreate, CrAttemptInv, CrInAttempt
  <2>2. /\ crFiles'[crAt] # <<>> /\ Len(crFiles'[crAt]) = Len(crTx.exports[crAt])
        /\ crFiles'[crAt][Len(crFiles'[crAt])].size = 0
    BY <1>4, <2>1, CrCreateMove
  <2>3. LastFile(crAt)'.size = 0 /\ LastExport(crAt)' = LastExport(crAt)
    BY <2>1, <2>2 DEF LastFile, LastExport
  <2>4. crTx.streams[crAt].size \in Nat
    BY <1>i, <2>1 DEF CrTypeOK, CrStream, CrInAttempt
  <2> QED
    BY <1>i, <2>1, <2>2, <2>3, <2>4 DEF CrAttemptInv, CrInAttempt
<1>5. CASE CrRead
  BY <1>5 DEF CrRead, CrAttemptInv, LastFile, LastExport
<1>6. CASE CrWrite
  <2>1. /\ crPc = "copy" /\ UNCHANGED <<crTx, crAt, crDone>> /\ LastExport(crAt).state = "running"
        /\ crFiles[crAt] # <<>> /\ Len(crFiles[crAt]) = Len(crTx.exports[crAt])
        /\ LastFile(crAt).size = crCopied /\ crCopied <= crTx.streams[crAt].size
    BY <1>6 DEF CrWrite, CrAttemptInv
  <2>2. LastExport(crAt)' = LastExport(crAt)
    BY <2>1 DEF LastExport
  <2>3. CASE /\ CrFileSet(crAt, Len(crFiles[crAt]),
                          [size |-> crCopied + 1, sound |-> LastFile(crAt).sound])
             /\ crCopied < crTx.streams[crAt].size /\ crCopied' = crCopied + 1
             /\ crPc' = "copy"
    <3>1. /\ crFiles'[crAt] # <<>> /\ Len(crFiles'[crAt]) = Len(crFiles[crAt])
          /\ crFiles'[crAt][Len(crFiles[crAt])].size = crCopied + 1
      BY <2>3 DEF CrFileSet
    <3>2. LastFile(crAt)'.size = crCopied'
      BY <2>1, <2>3, <3>1 DEF LastFile
    <3>3. crCopied' <= crTx.streams[crAt].size
      BY <1>6, <2>3, CrWriteMove
    <3> QED
      BY <1>i, <2>1, <2>2, <2>3, <3>1, <3>2, <3>3 DEF CrAttemptInv, CrInAttempt
  <2>4. CASE /\ UNCHANGED <<crFiles, crCopied>> /\ crPc' = "record"
             /\ (~crFailed' => crCopied = crTx.streams[crAt].size)
    <3>1. LastFile(crAt)' = LastFile(crAt)
      BY <2>1, <2>4 DEF LastFile
    <3> QED
      BY <1>i, <2>1, <2>2, <2>4, <3>1 DEF CrAttemptInv, CrInAttempt
  <2> QED
    BY <1>6, <2>3, <2>4, CrWriteMove
<1>7. CASE CrRecord
  <2>1. /\ crPc = "record" /\ crPc' = "update" /\ UNCHANGED <<crFiles, crAt, crDone>>
        /\ crFiles[crAt] # <<>> /\ Len(crFiles[crAt]) = Len(crTx.exports[crAt])
    BY <1>7 DEF CrRecord, CrAttemptInv
  <2>2. PICK state \in {"complete", "partial", "failed"} :
           /\ CrEnded(state, LastFile(crAt).size)
           /\ state = "complete" => ~crFailed /\ LastFile(crAt).sound
    BY <1>7, CrRecordMove
  <2>3. /\ crTx'.streams = crTx.streams /\ crTx'.exports[crAt] # <<>>
        /\ Len(crTx'.exports[crAt]) = Len(crTx.exports[crAt])
        /\ crTx'.exports[crAt][Len(crTx.exports[crAt])]
              = [state |-> state, size |-> LastFile(crAt).size]
    BY <2>2 DEF CrEnded
  <2>4. LastExport(crAt)' = [state |-> state, size |-> LastFile(crAt).size]
    BY <2>1, <2>3 DEF LastExport
  <2>5. LastFile(crAt)' = LastFile(crAt)
    BY <2>1 DEF LastFile
  <2> QED
    BY <1>i, <2>1, <2>2, <2>3, <2>4, <2>5 DEF CrAttemptInv, CrInAttempt
<1>8. CASE CrUpdate \/ CrFinish \/ CrRaise \/ CrKill \/ CrAlter
  BY <1>8, <1>o DEF CrUpdate, CrFinish, CrRaise, CrKill, CrAlter, CrInAttempt
<1>9. CASE UNCHANGED crVars
  BY <1>9 DEF crVars, crCopy, CrAttemptInv, LastFile, LastExport
<1> QED
  BY <1>1, <1>2, <1>3, <1>4, <1>5, <1>6, <1>7, <1>8, <1>9 DEF CrNext

\* An attempt on record as complete that is reused has its file.
LEMMA CrReusedHasAll ==
  ASSUME CrTypeOK, CrImportInv, CrFilesInv, crPc = "export", NEW s \in CrStreams, CrReusable(s)
  PROVE  HasAll(s)
<1> DEFINE n == Len(crTx.exports[s])
<1>1. crTx.exports[s] \in Seq(CrExport) /\ crFiles[s] \in Seq(CrFile)
  BY DEF CrTypeOK
<1>2. n \in DOMAIN crTx.exports[s] /\ crTx.exports[s][n].state = "complete" /\ LastFile(s).sound
  BY <1>1, SeqHas DEF CrReusable, LastExport
<1>3. n \in DOMAIN crFiles[s] /\ crFiles[s][n].size = crTx.streams[s].size
  BY <1>2 DEF CrFilesInv, Backed
<1>4. Len(crFiles[s]) <= n
  BY DEF CrFilesInv, CrImportInv
<1>5. Len(crFiles[s]) = n /\ crFiles[s] # <<>>
  <2>1. n \in 1 .. Len(crFiles[s]) /\ Len(crFiles[s]) \in Nat
    BY <1>1, <1>3, SeqHas
  <2> QED
    BY <1>4, <2>1, EmptySeq
<1>6. LastFile(s) \in CrFile /\ LastFile(s).size = crTx.streams[s].size
  BY <1>3, <1>5, CrLastFile DEF LastFile
<1>7. LastFile(s).sound = TRUE
  BY <1>2, <1>6 DEF CrFile
<1> QED
  BY <1>5, <1>6, <1>7 DEF HasAll, CrFile

\* What a run says it has done stays done while it goes on.
LEMMA CrDoneStep ==
  ASSUME CrTypeOK, CrImportInv, CrAttemptInv, CrDoneInv, CrFilesInv, [CrNext]_crVars
  PROVE  CrDoneInv'
<1> DEFINE done(s) == /\ crTx.streams[s] # CrNil
                      /\ crTx.streams[s].state \in {"complete", "partial", "failed"}
                      /\ crTx.streams[s].state = "complete" => HasAll(s)
<1>i. /\ crPc \in {"import", "ref", "used", "reconcile"} => crDone = {}
      /\ crPc # "idle" => \A s \in crDone : done(s)
      /\ crDone \subseteq CrStreams
  BY DEF CrDoneInv, CrTypeOK
<1>e. ASSUME crDone' = {}, crPc' # "finish"
      PROVE  CrDoneInv'
  BY <1>e DEF CrDoneInv
<1>x. ASSUME crPc' = "idle"
      PROVE  CrDoneInv'
  BY <1>x DEF CrDoneInv
<1>k. \A s \in CrStreams :
          (crFiles'[s] = crFiles[s] /\ crTx'.streams[s] = crTx.streams[s] /\ done(s)) => done(s)'
  BY DEF HasAll, LastFile
<1>s. ASSUME crPc \in {"export", "create", "copy", "record"}, crPc' \in CrInAttempt,
             crTx'.streams = crTx.streams, crDone' = crDone,
             \A s \in crDone : crFiles'[s] = crFiles[s]
      PROVE  CrDoneInv'
  <2>1. \A s \in crDone' : done(s)'
    BY <1>i, <1>k, <1>s
  <2> QED
    BY <1>s, <2>1 DEF CrDoneInv, CrInAttempt
<1>t. ASSUME NEW s \in CrStreams \ crDone, NEW state, CrTaken(s, state), crPc # "idle", crFiles' = crFiles
      PROVE  \A t \in crDone : done(t)'
  BY <1>i, <1>k, <1>t DEF CrTaken
<1>1. CASE CrStart
  BY <1>1, <1>e DEF CrStart
<1>2. CASE CrImport \/ CrImportRef \/ CrSelect \/ CrCountUsed
  BY <1>2, <1>e, <1>i DEF CrImport, CrImportRef, CrSelect, CrCountUsed
<1>3. CASE CrReconcile
  BY <1>3, <1>e, <1>i DEF CrReconcile
<1>4. ASSUME NEW s \in CrStreams, CrReuse(s) PROVE CrDoneInv'
  <2>1. /\ CrTaken(s, "complete") /\ s \notin crDone /\ HasAll(s)
        /\ crPc = "export" /\ crPc' = "export" /\ crDone' = crDone \cup {s} /\ crFiles' = crFiles
    BY <1>4, CrReuseMove, CrReusedHasAll DEF CrReuse
  <2>2. /\ crTx'.streams[s] # CrNil /\ crTx'.streams[s].state = "complete" /\ HasAll(s)'
    BY <2>1, CrConstants DEF CrTaken, HasAll, LastFile
  <2>3. \A t \in crDone' : done(t)'
    BY <1>t, <2>1, <2>2
  <2> QED
    BY <2>1, <2>3 DEF CrDoneInv
<1>5. ASSUME NEW s \in CrStreams, CrDefer(s) PROVE CrDoneInv'
  <2>1. /\ CrTaken(s, "deferred") /\ s \notin crDone
        /\ crPc = "export" /\ crPc' = "finish" /\ crDone' = crDone /\ crFiles' = crFiles
    BY <1>5, CrDeferMove DEF CrDefer
  <2>2. \A t \in crDone' : done(t)'
    BY <1>t, <2>1
  <2>3. StreamsIn({"deferred"})'
    BY <2>1, CrConstants DEF StreamsIn, CrTaken
  <2> QED
    BY <2>1, <2>2, <2>3 DEF CrDoneInv
<1>6. ASSUME NEW s \in CrStreams, CrAttempt(s) PROVE CrDoneInv'
  <2>1. crTx'.streams = crTx.streams
    BY <1>6, CrAttemptMove
  <2> QED
    BY <1>6, <1>s, <2>1 DEF CrAttempt, CrInAttempt
<1>a. crPc \in CrInAttempt => crAt \in CrStreams \ crDone
  BY DEF CrAttemptInv
<1>7. CASE CrCreate
  <2>1. \A t \in CrStreams : t # crAt => crFiles'[t] = crFiles[t]
    BY <1>7, CrCreateMove DEF CrCreate, CrAttemptInv, CrInAttempt
  <2> QED
    BY <1>7, <1>a, <1>i, <1>s, <2>1 DEF CrCreate, CrInAttempt
<1>8. CASE CrRead
  BY <1>8, <1>s DEF CrRead, CrInAttempt
<1>9. CASE CrWrite
  <2>1. \A t \in CrStreams : t # crAt => crFiles'[t] = crFiles[t]
    BY <1>9, CrWriteMove DEF CrFileSet
  <2>2. crPc' \in CrInAttempt
    BY <1>9, CrWriteMove DEF CrInAttempt
  <2> QED
    BY <1>9, <1>a, <1>i, <1>s, <2>1, <2>2 DEF CrWrite, CrInAttempt
<1>10. CASE CrRecord
  <2>1. crTx'.streams = crTx.streams
    BY <1>10, CrRecordMove DEF CrEnded
  <2> QED
    BY <1>10, <1>s, <2>1 DEF CrRecord, CrInAttempt
<1>11. CASE CrUpdate
  <2>1. /\ crAt \in CrStreams \ crDone /\ CrTaken(crAt, LastExport(crAt).state)
        /\ LastExport(crAt).state \in {"complete", "partial", "failed"}
    BY <1>11, CrUpdateMove
  <2>2. crPc = "update" /\ crPc' = "export" /\ crDone' = crDone \cup {crAt} /\ UNCHANGED <<crFiles, crAt>>
    BY <1>11 DEF CrUpdate
  <2>3. LastExport(crAt).state = "complete" => HasAll(crAt)
    <3>1. /\ crFiles[crAt] # <<>> /\ Len(crFiles[crAt]) = Len(crTx.exports[crAt])
          /\ LastExport(crAt).state = "complete" => LastFile(crAt).sound
      BY <2>2 DEF CrAttemptInv
    <3>2. crTx.exports[crAt] \in Seq(CrExport) /\ crTx.exports[crAt] # <<>>
      BY <2>1, <2>2 DEF CrTypeOK, CrAttemptInv, CrInAttempt
    <3>3. Len(crTx.exports[crAt]) \in DOMAIN crTx.exports[crAt]
      BY <3>2, SeqHas
    <3> DEFINE n == Len(crTx.exports[crAt])
    <3>e. Backed(crFiles, crTx) /\ n = Len(crFiles[crAt]) /\ n \in DOMAIN crTx.exports[crAt]
      BY <2>2, <3>1, <3>3 DEF CrFilesInv
    <3>f. LastExport(crAt) = crTx.exports[crAt][n] /\ LastFile(crAt) = crFiles[crAt][n]
      BY <3>e DEF LastExport, LastFile
    <3> HIDE DEF n
    <3>4. LastExport(crAt).state = "complete" => LastFile(crAt).size = crTx.streams[crAt].size
      BY <2>1, <3>e, <3>f DEF Backed
    <3>5. LastFile(crAt) \in CrFile
      BY <2>1, <3>1, CrLastFile
    <3> QED
      BY <3>1, <3>4, <3>5 DEF HasAll, CrFile
  <2>4. done(crAt)'
    BY <2>1, <2>2, <2>3, CrConstants DEF CrTaken, HasAll, LastFile
  <2>5. \A t \in crDone : done(t)'
    BY <1>t, <2>1, <2>2
  <2>6. \A t \in crDone' : done(t)'
    BY <2>2, <2>4, <2>5
  <2> QED
    BY <2>2, <2>6 DEF CrDoneInv
<1>12. CASE CrFinish \/ CrRaise \/ CrKill \/ CrAlter
  BY <1>12, <1>x DEF CrFinish, CrRaise, CrKill, CrAlter
<1>13. CASE UNCHANGED crVars
  BY <1>13 DEF crVars, crCopy, CrDoneInv, HasAll, LastFile, StreamsIn
<1> QED
  BY <1>1, <1>2, <1>3, <1>4, <1>5, <1>6, <1>7, <1>8, <1>9, <1>10, <1>11, <1>12, <1>13 DEF CrNext

\* Attempts stay backed if none becomes complete, streams keep their sizes and
\* so do the files of attempts that are complete.
LEMMA CrBackedStays ==
  ASSUME NEW files, NEW db, NEW more, NEW new, Backed(files, db),
         \A s \in CrStreams : \A a \in DOMAIN new.exports[s] :
             new.exports[s][a].state = "complete" =>
                 a \in DOMAIN db.exports[s] /\ db.exports[s][a].state = "complete",
         \A s \in CrStreams : db.streams[s] # CrNil =>
             new.streams[s] # CrNil /\ new.streams[s].size = db.streams[s].size,
         \A s \in CrStreams : \A a \in DOMAIN db.exports[s] :
             (db.exports[s][a].state = "complete" /\ a \in DOMAIN files[s]) =>
                 a \in DOMAIN more[s] /\ more[s][a].size = files[s][a].size
  PROVE  Backed(more, new)
BY DEF Backed

\* Files belong to attempts, and attempts that are complete have their files.
LEMMA CrFilesStep ==
  ASSUME CrTypeOK, CrImportInv, CrAttemptInv, CrFilesInv, [CrNext]_crVars
  PROVE  CrFilesInv'
<1>i. /\ \A s \in CrStreams : Len(crFiles[s]) <= Len(crDb.exports[s])
      /\ Backed(crFiles, crDb) /\ (crPc # "idle" => Backed(crFiles, crTx))
      /\ crTx.exports = crDb.exports
  BY DEF CrFilesInv, CrImportInv
<1>a. crPc \in CrInAttempt => crAt \in CrStreams \ crDone /\ crTx.streams[crAt] # CrNil
  BY DEF CrAttemptInv
<1>b. ASSUME crFiles' = crFiles, crDb' \in {crDb, crTx'},
             \A s \in CrStreams : Len(crTx'.exports[s]) >= Len(crTx.exports[s]),
             Backed(crFiles, crTx'), Backed(crFiles, crDb'),
             \A s \in CrStreams : Len(crTx'.exports[s]) \in Nat /\ Len(crTx.exports[s]) \in Nat
                                   /\ Len(crFiles[s]) \in Nat
      PROVE  CrFilesInv'
  BY <1>i, <1>b DEF CrFilesInv
<1>n. /\ \A s \in CrStreams : /\ Len(crTx.exports[s]) \in Nat /\ Len(crFiles[s]) \in Nat
                              /\ DOMAIN crTx.exports[s] = 1 .. Len(crTx.exports[s])
                              /\ DOMAIN crFiles[s] = 1 .. Len(crFiles[s])
      /\ crTx \in CrDbs
  <2>1. crTx \in CrDbs /\ \A s \in CrStreams : crTx.exports[s] \in Seq(CrExport) /\ crFiles[s] \in Seq(CrFile)
    BY DEF CrTypeOK, CrDbs
  <2> QED
    BY <2>1, SeqHas
<1>k. ASSUME crFiles' = crFiles, crDb' = crDb, crTx' = crTx, crPc # "idle" \/ crPc' = "idle"
      PROVE  CrFilesInv'
  BY <1>i, <1>k DEF CrFilesInv
<1>t. ASSUME NEW s \in CrStreams, NEW state, CrTaken(s, state), crPc # "idle", crFiles' = crFiles
      PROVE  CrFilesInv'
  <2>1. Backed(crFiles, crTx')
    BY <1>i, <1>t, CrConstants DEF Backed, CrTaken
  <2> QED
    BY <1>b, <1>n, <1>t, <2>1 DEF CrTaken
<1>1. CASE CrStart
  BY <1>1, <1>i DEF CrStart, CrFilesInv
<1>2. CASE CrImport
  <2>1. /\ Row.stream \in CrStreams /\ crTx'.exports = crTx.exports
        /\ crTx'.streams[Row.stream] = CrImported /\ CrImported \in CrStream
        /\ \A t \in CrStreams : t # Row.stream => crTx'.streams[t] = crTx.streams[t]
    BY <1>2, CrImportMove
  <2>2. crTx.streams[Row.stream] # CrNil => CrImported.size = crTx.streams[Row.stream].size
    BY DEF CrImported
  <2>3. crPc # "idle" /\ crDb' = crDb /\ crFiles' = crFiles
    BY <1>2 DEF CrImport
  <2>b. Backed(crFiles, crTx) /\ crTx'.streams[Row.stream] # CrNil
    BY <1>i, <2>1, <2>3, CrConstants
  <2>c. \A t \in CrStreams : crTx.streams[t] # CrNil =>
            crTx'.streams[t] # CrNil /\ crTx'.streams[t].size = crTx.streams[t].size
    BY <2>1, <2>2, <2>b
  <2>4. Backed(crFiles, crTx')
    BY <2>1, <2>b, <2>c DEF Backed
  <2> QED
    BY <1>b, <1>i, <1>n, <2>1, <2>3, <2>4
<1>3. CASE CrImportRef
  <2>1. /\ crTx'.exports = crTx.exports /\ crTx'.streams = crTx.streams /\ crDb' \in {crDb, crTx'}
    BY <1>3, CrImportRefMove
  <2>2. crPc # "idle" /\ crFiles' = crFiles
    BY <1>3 DEF CrImportRef
  <2>3. Backed(crFiles, crTx')
    BY <1>i, <2>1, <2>2 DEF Backed
  <2> QED
    BY <1>b, <1>i, <1>n, <2>1, <2>2, <2>3
<1>4. CASE CrSelect
  <2>1. /\ crDb' = crTx' /\ crTx'.exports = crTx.exports
        /\ \A s \in CrStreams :
              \/ crTx'.streams[s] = crTx.streams[s]
              \/ /\ crTx'.streams[s] \in CrStream
                 /\ crTx'.streams[s].size = crTx.streams[s].size
    BY <1>4, CrSelectMove
  <2>2. crPc # "idle" /\ crFiles' = crFiles
    BY <1>4 DEF CrSelect
  <2>c. \A s \in CrStreams : crTx.streams[s] # CrNil =>
            crTx'.streams[s] # CrNil /\ crTx'.streams[s].size = crTx.streams[s].size
    BY <2>1, CrConstants
  <2>3. Backed(crFiles, crTx')
    BY <1>i, <2>1, <2>2, <2>c, CrBackedStays
  <2> QED
    BY <1>b, <1>n, <2>1, <2>2, <2>3
<1>5. CASE CrCountUsed
  BY <1>5, <1>k DEF CrCountUsed
<1>6. CASE CrReconcile
  <2>1. /\ crTx' \in CrDbs /\ crDb' = crTx' /\ crTx'.streams = crTx.streams
        /\ \A s \in CrStreams :
               /\ Len(crTx'.exports[s]) = Len(crTx.exports[s])
               /\ DOMAIN crTx'.exports[s] = DOMAIN crTx.exports[s]
               /\ \A a \in DOMAIN crTx.exports[s] :
                     crTx'.exports[s][a].state # "interrupted" => crTx'.exports[s][a] = crTx.exports[s][a]
    BY <1>6, CrReconcileMove
  <2>2. crPc # "idle" /\ crFiles' = crFiles
    BY <1>6 DEF CrReconcile
  <2>3. Backed(crFiles, crTx')
    BY <1>i, <2>1, <2>2 DEF Backed
  <2> QED
    BY <1>b, <1>n, <2>1, <2>2, <2>3
<1>7. ASSUME NEW s \in CrStreams, CrReuse(s) PROVE CrFilesInv'
  BY <1>7, <1>t, CrReuseMove DEF CrReuse
<1>8. ASSUME NEW s \in CrStreams, CrDefer(s) PROVE CrFilesInv'
  BY <1>8, <1>t, CrDeferMove DEF CrDefer
<1>9. ASSUME NEW s \in CrStreams, CrAttempt(s) PROVE CrFilesInv'
  <2> DEFINE n == Len(crTx.exports[s]) + 1
  <2>1. /\ crDb' = crTx' /\ crTx'.streams = crTx.streams
        /\ Len(crTx'.exports[s]) = n /\ n \in Nat /\ DOMAIN crTx'.exports[s] = 1 .. n
        /\ crTx'.exports[s][n] = [state |-> "running", size |-> 0]
        /\ \A a \in DOMAIN crTx.exports[s] : crTx'.exports[s][a] = crTx.exports[s][a]
        /\ \A a \in 1 .. n - 1 : a \in DOMAIN crTx.exports[s]
        /\ \A t \in CrStreams : t # s => crTx'.exports[t] = crTx.exports[t]
    BY <1>9, CrAttemptMove
  <2>2. crPc # "idle" /\ crFiles' = crFiles
    BY <1>9 DEF CrAttempt
  <2>3. \A a \in DOMAIN crTx'.exports[s] : crTx'.exports[s][a].state = "complete" =>
            a \in DOMAIN crTx.exports[s] /\ crTx.exports[s][a].state = "complete"
    BY <2>1
  <2>c. \A t \in CrStreams : \A a \in DOMAIN crTx'.exports[t] :
            crTx'.exports[t][a].state = "complete" =>
                a \in DOMAIN crTx.exports[t] /\ crTx.exports[t][a].state = "complete"
    BY <2>1, <2>3
  <2>4. Backed(crFiles, crTx')
    BY <1>i, <2>1, <2>2, <2>c, CrBackedStays
  <2>5. \A t \in CrStreams : Len(crTx'.exports[t]) >= Len(crTx.exports[t]) /\ Len(crTx'.exports[t]) \in Nat
    BY <1>n, <2>1
  <2> QED
    BY <1>b, <1>n, <2>1, <2>2, <2>4, <2>5
<1>10. CASE CrCreate
  <2>1. /\ crPc = "create" /\ crAt \in CrStreams /\ UNCHANGED <<crTx, crDb>>
        /\ crTx.exports[crAt] # <<>> /\ Len(crFiles[crAt]) < Len(crTx.exports[crAt])
    BY <1>10, <1>a DEF CrCreate, CrAttemptInv, CrInAttempt
  <2>2. /\ Len(crFiles'[crAt]) = Len(crTx.exports[crAt])
        /\ \A a \in DOMAIN crFiles[crAt] :
               a \in DOMAIN crFiles'[crAt] /\ crFiles'[crAt][a] = crFiles[crAt][a]
        /\ \A t \in CrStreams : t # crAt => crFiles'[t] = crFiles[t]
    BY <1>10, <2>1, CrCreateMove
  <2>3. Backed(crFiles', crTx) /\ Backed(crFiles', crDb)
    BY <1>i, <2>1, <2>2 DEF Backed
  <2>4. \A s \in CrStreams : Len(crFiles'[s]) <= Len(crDb.exports[s])
    BY <1>i, <1>n, <2>2
  <2> QED
    BY <2>1, <2>3, <2>4 DEF CrFilesInv
<1>11. CASE CrRead
  BY <1>11, <1>k DEF CrRead
<1>12. CASE CrWrite
  <2>1. CASE crFiles' = crFiles
    BY <1>12, <1>k, <2>1 DEF CrWrite
  <2>2. CASE crFiles' # crFiles
    <3> DEFINE n == Len(crFiles[crAt])
    <3>1. /\ crPc = "copy" /\ UNCHANGED <<crTx, crDb>> /\ crAt \in CrStreams
          /\ n = Len(crTx.exports[crAt]) /\ crTx.exports[crAt][n].state = "running"
      BY <1>12, <1>a DEF CrWrite, CrAttemptInv, CrInAttempt, LastExport
    <3>2. /\ Len(crFiles'[crAt]) = n /\ DOMAIN crFiles'[crAt] = DOMAIN crFiles[crAt]
          /\ \A b \in DOMAIN crFiles[crAt] : b # n => crFiles'[crAt][b] = crFiles[crAt][b]
          /\ \A t \in CrStreams : t # crAt => crFiles'[t] = crFiles[t]
      BY <1>12, <2>2, CrWriteMove DEF CrFileSet
    <3> HIDE DEF n
    <3>c. \A s \in CrStreams : \A a \in DOMAIN crTx.exports[s] :
              (crTx.exports[s][a].state = "complete" /\ a \in DOMAIN crFiles[s]) =>
                  a \in DOMAIN crFiles'[s] /\ crFiles'[s][a].size = crFiles[s][a].size
      BY <3>1, <3>2
    <3>d. Backed(crFiles, crTx) /\ Backed(crFiles, crDb)
      BY <1>i, <3>1
    <3>3. Backed(crFiles', crTx) /\ Backed(crFiles', crDb)
      BY <1>i, <3>c, <3>d, CrBackedStays
    <3>4. \A s \in CrStreams : Len(crFiles'[s]) <= Len(crDb.exports[s])
      BY <1>i, <3>2 DEF n
    <3> QED
      BY <3>1, <3>3, <3>4 DEF CrFilesInv
  <2> QED
    BY <2>1, <2>2
<1>13. CASE CrRecord
  <2> DEFINE n == Len(crTx.exports[crAt])
  <2>1. /\ crPc = "record" /\ crFiles' = crFiles /\ crAt \in CrStreams /\ crTx.streams[crAt] # CrNil
        /\ n = Len(crFiles[crAt]) /\ crFiles[crAt] # <<>> /\ LastFile(crAt).size = crCopied
        /\ ~crFailed => crCopied = crTx.streams[crAt].size
    BY <1>13, <1>a DEF CrRecord, CrAttemptInv, CrInAttempt
  <2>2. PICK state \in {"complete", "partial", "failed"} :
           /\ CrEnded(state, LastFile(crAt).size) /\ (state = "complete" => ~crFailed)
    BY <1>13, CrRecordMove
  <2>3. /\ crDb' = crTx' /\ crTx'.streams = crTx.streams /\ Len(crTx'.exports[crAt]) = n
        /\ DOMAIN crTx'.exports[crAt] = DOMAIN crTx.exports[crAt]
        /\ crTx'.exports[crAt][n] = [state |-> state, size |-> LastFile(crAt).size]
        /\ \A a \in DOMAIN crTx.exports[crAt] :
              a # n => crTx'.exports[crAt][a] = crTx.exports[crAt][a]
        /\ \A t \in CrStreams : t # crAt => crTx'.exports[t] = crTx.exports[t]
    BY <2>2 DEF CrEnded
  <2>4. n \in DOMAIN crFiles[crAt]
    BY <2>1, CrLastFile
  <2>5. state = "complete" => crFiles[crAt][n].size = crTx.streams[crAt].size
    BY <2>1, <2>2 DEF LastFile
  <2> HIDE DEF n
  <2>6. Backed(crFiles, crTx')
    BY <1>i, <2>1, <2>3, <2>4, <2>5 DEF Backed
  <2>7. \A t \in CrStreams : Len(crTx'.exports[t]) = Len(crTx.exports[t])
    BY <2>3 DEF n
  <2> QED
    BY <1>b, <1>n, <2>1, <2>3, <2>6, <2>7
<1>14. CASE CrUpdate
  BY <1>14, <1>t, CrUpdateMove DEF CrUpdate
<1>15. CASE CrFinish
  BY <1>15, <1>k DEF CrFinish
<1>16. CASE CrRaise
  <2>0. crPc # "idle" /\ crPc' = "idle" /\ crFiles' = crFiles
    BY <1>16 DEF CrRaise
  <2>1. CASE crPc = "copy"
    <3> DEFINE n == Len(crTx.exports[crAt])
    <3>1. crAt \in CrStreams /\ CrEnded("interrupted", crCopied)
      BY <1>16, <2>1, CrRaiseMove
    <3>2. /\ crDb' = crTx' /\ crTx'.streams = crTx.streams /\ Len(crTx'.exports[crAt]) = n
          /\ DOMAIN crTx'.exports[crAt] = DOMAIN crTx.exports[crAt]
          /\ crTx'.exports[crAt][n] = [state |-> "interrupted", size |-> crCopied]
          /\ \A a \in DOMAIN crTx.exports[crAt] :
                a # n => crTx'.exports[crAt][a] = crTx.exports[crAt][a]
          /\ \A t \in CrStreams : t # crAt => crTx'.exports[t] = crTx.exports[t]
      BY <3>1 DEF CrEnded
    <3> HIDE DEF n
    <3>3. Backed(crFiles, crTx')
      BY <1>i, <2>0, <3>1, <3>2 DEF Backed
    <3>4. \A t \in CrStreams : Len(crTx'.exports[t]) = Len(crTx.exports[t])
      BY <3>2 DEF n
    <3> QED
      BY <1>b, <1>n, <2>0, <3>2, <3>3, <3>4
  <2>2. CASE crPc # "copy"
    <3>1. crTx' = crTx /\ crDb' = crTx
      BY <1>16, <2>2, CrRaiseMove
    <3> QED
      BY <1>i, <2>0, <3>1 DEF CrFilesInv
  <2> QED
    BY <2>1, <2>2
<1>17. CASE CrKill
  BY <1>17, <1>k DEF CrKill
<1>18. CASE CrAlter
  <2>1. PICK s \in CrStreams : \E a \in DOMAIN crFiles[s] :
           CrFileSet(s, a, [size |-> crFiles[s][a].size, sound |-> FALSE])
    BY <1>18, CrAlterMove
  <2>2. PICK a \in DOMAIN crFiles[s] : CrFileSet(s, a, [size |-> crFiles[s][a].size, sound |-> FALSE])
    BY <2>1
  <2>3. \A t \in CrStreams : /\ DOMAIN crFiles'[t] = DOMAIN crFiles[t]
                             /\ Len(crFiles'[t]) = Len(crFiles[t])
                             /\ \A b \in DOMAIN crFiles[t] : crFiles'[t][b].size = crFiles[t][b].size
    BY <2>2 DEF CrFileSet
  <2>4. Backed(crFiles', crDb)
    BY <1>i, <2>3 DEF Backed
  <2>5. crPc' = "idle" /\ crDb' = crDb
    BY <1>18 DEF CrAlter
  <2> QED
    BY <1>i, <2>3, <2>4, <2>5 DEF CrFilesInv
<1>19. CASE UNCHANGED crVars
  BY <1>19, <1>k, <1>i DEF crVars
<1> QED
  BY <1>1, <1>2, <1>3, <1>4, <1>5, <1>6, <1>7, <1>8, <1>9, <1>10, <1>11, <1>12, <1>13, <1>14,
     <1>15, <1>16, <1>17, <1>18, <1>19 DEF CrNext

\* Files of the same sizes, and empty ones besides, hold the same bytes.
LEMMA CrBytesSame ==
  ASSUME NEW files, NEW more,
         \A s \in CrStreams : \A a \in DOMAIN files[s] :
             a \in DOMAIN more[s] /\ more[s][a].size = files[s][a].size,
         \A s \in CrStreams : \A a \in DOMAIN more[s] \ DOMAIN files[s] : more[s][a].size = 0
  PROVE  BytesIn(more) = BytesIn(files)
<1>1. ASSUME NEW s \in CrStreams, NEW a \in DOMAIN more[s], NEW b \in 1 .. more[s][a].size
      PROVE  a \in DOMAIN files[s] /\ b \in 1 .. files[s][a].size
  OBVIOUS
<1>2. \A x \in BytesIn(more) : x \in BytesIn(files)
  BY <1>1 DEF BytesIn
<1>3. \A x \in BytesIn(files) : x \in BytesIn(more)
  BY DEF BytesIn
<1> QED
  BY <1>2, <1>3

\* A file that is one byte longer: one byte more
LEMMA CrBytesAdd ==
  ASSUME CrTypeOK, NEW s \in CrStreams, NEW a \in DOMAIN crFiles[s], NEW k \in Nat, NEW sound,
         crFiles[s][a].size = k, CrFileSet(s, a, [size |-> k + 1, sound |-> sound]),
         IsFiniteSet(BytesIn(crFiles))
  PROVE  IsFiniteSet(BytesIn(crFiles')) /\ FileBytes(crFiles') = FileBytes(crFiles) + 1
<1> DEFINE new == <<s, a, k + 1>>
<1>1. /\ DOMAIN crFiles'[s] = DOMAIN crFiles[s] /\ crFiles'[s][a].size = k + 1
      /\ \A b \in DOMAIN crFiles[s] : b # a => crFiles'[s][b] = crFiles[s][b]
      /\ \A t \in CrStreams : t # s => crFiles'[t] = crFiles[t]
  BY DEF CrFileSet
<1>2. \A x : x \in BytesIn(crFiles) <=>
          \E t \in CrStreams : \E b \in DOMAIN crFiles[t] : \E c \in 1 .. crFiles[t][b].size :
              x = <<t, b, c>>
  BY DEF BytesIn
<1>3. \A x : x \in BytesIn(crFiles') <=>
          \E t \in CrStreams : \E b \in DOMAIN crFiles'[t] : \E c \in 1 .. crFiles'[t][b].size :
              x = <<t, b, c>>
  BY DEF BytesIn
<1>4. new \notin BytesIn(crFiles)
  BY <1>2
<1>5. new \in BytesIn(crFiles')
  <2>1. k + 1 \in 1 .. crFiles'[s][a].size
    BY <1>1
  <2> QED
    BY <1>1, <1>3, <2>1
<1>6. ASSUME NEW x \in BytesIn(crFiles) PROVE x \in BytesIn(crFiles')
  <2>1. PICK t \in CrStreams : \E b \in DOMAIN crFiles[t] : \E c \in 1 .. crFiles[t][b].size :
           x = <<t, b, c>>
    BY <1>2, <1>6
  <2>2. PICK b \in DOMAIN crFiles[t] : \E c \in 1 .. crFiles[t][b].size : x = <<t, b, c>>
    BY <2>1
  <2>3. PICK c \in 1 .. crFiles[t][b].size : x = <<t, b, c>>
    BY <2>2
  <2>4. b \in DOMAIN crFiles'[t] /\ c \in 1 .. crFiles'[t][b].size
    BY <1>1
  <2> QED
    BY <1>3, <2>3, <2>4
<1>7. ASSUME NEW x \in BytesIn(crFiles') PROVE x \in BytesIn(crFiles) \cup {new}
  <2>1. PICK t \in CrStreams : \E b \in DOMAIN crFiles'[t] : \E c \in 1 .. crFiles'[t][b].size :
           x = <<t, b, c>>
    BY <1>3, <1>7
  <2>2. PICK b \in DOMAIN crFiles'[t] : \E c \in 1 .. crFiles'[t][b].size : x = <<t, b, c>>
    BY <2>1
  <2>3. PICK c \in 1 .. crFiles'[t][b].size : x = <<t, b, c>>
    BY <2>2
  <2>4. b \in DOMAIN crFiles[t]
    BY <1>1
  <2>5. c \in 1 .. crFiles[t][b].size \/ (t = s /\ b = a /\ c = k + 1)
    BY <1>1
  <2> QED
    BY <1>2, <2>3, <2>4, <2>5
<1>8. BytesIn(crFiles') = BytesIn(crFiles) \cup {new}
  BY <1>5, <1>6, <1>7
<1> HIDE DEF new
<1>9. /\ IsFiniteSet(BytesIn(crFiles) \cup {new})
      /\ Cardinality(BytesIn(crFiles) \cup {new}) = Cardinality(BytesIn(crFiles)) + 1
  BY <1>4, FS_AddElement
<1> QED
  BY <1>8, <1>9 DEF FileBytes

\* What is counted as used stays what the files hold.
LEMMA CrUsedStep ==
  ASSUME CrTypeOK, CrAttemptInv, CrUsedInv, [CrNext]_crVars
  PROVE  CrUsedInv'
<1>i. /\ IsFiniteSet(BytesIn(crFiles)) /\ FileBytes(crFiles) <= CrLimit
      /\ FileBytes(crFiles) \in Nat /\ crUsed \in Nat /\ crCopied \in Nat /\ CrLimit \in Nat
  BY CrConstants, FS_CardinalityType DEF CrUsedInv, CrTypeOK, FileBytes
<1>s. ASSUME IsFiniteSet(BytesIn(crFiles')), FileBytes(crFiles') = FileBytes(crFiles),
             crPc' \notin {"reconcile", "export", "create", "copy", "record", "update"}
      PROVE  CrUsedInv'
  BY <1>i, <1>s DEF CrUsedInv
<1>1. CASE CrStart \/ CrImport \/ CrImportRef \/ CrSelect \/ CrFinish \/ CrRaise \/ CrKill
  BY <1>1, <1>i, <1>s DEF CrStart, CrImport, CrImportRef, CrSelect, CrFinish, CrRaise, CrKill
<1>2. CASE CrCountUsed
  BY <1>2, <1>i DEF CrCountUsed, CrUsedInv
<1>3. CASE CrReconcile
  BY <1>3, <1>i DEF CrReconcile, CrUsedInv
<1>4. ASSUME NEW s \in CrStreams, CrReuse(s) \/ CrDefer(s) PROVE CrUsedInv'
  BY <1>4, <1>i DEF CrReuse, CrDefer, CrUsedInv
<1>5. ASSUME NEW s \in CrStreams, CrAttempt(s) PROVE CrUsedInv'
  <2>1. crTx'.streams = crTx.streams
    BY <1>5, CrAttemptMove
  <2>2. /\ crPc = "export" /\ crPc' = "create" /\ crAt' = s /\ UNCHANGED <<crFiles, crUsed>>
        /\ crTx.streams[s].size <= CrLimit - crUsed
    BY <1>5 DEF CrAttempt
  <2> QED
    BY <1>i, <2>1, <2>2 DEF CrUsedInv
<1>6. CASE CrCreate
  <2>1. /\ crPc = "create" /\ crPc' = "copy" /\ UNCHANGED <<crTx, crAt, crUsed>> /\ crCopied' = 0
        /\ crAt \in CrStreams /\ crTx.exports[crAt] # <<>>
        /\ Len(crFiles[crAt]) < Len(crTx.exports[crAt])
    BY <1>6 DEF CrCreate, CrAttemptInv, CrInAttempt
  <2>2. /\ \A a \in DOMAIN crFiles[crAt] :
               a \in DOMAIN crFiles'[crAt] /\ crFiles'[crAt][a] = crFiles[crAt][a]
        /\ \A a \in DOMAIN crFiles'[crAt] \ DOMAIN crFiles[crAt] : crFiles'[crAt][a].size = 0
        /\ \A t \in CrStreams : t # crAt => crFiles'[t] = crFiles[t]
    BY <1>6, <2>1, CrCreateMove
  <2>3. BytesIn(crFiles') = BytesIn(crFiles)
    <3>1. \A s \in CrStreams : \A a \in DOMAIN crFiles[s] :
              a \in DOMAIN crFiles'[s] /\ crFiles'[s][a].size = crFiles[s][a].size
      BY <2>2
    <3>2. \A s \in CrStreams : \A a \in DOMAIN crFiles'[s] \ DOMAIN crFiles[s] :
              crFiles'[s][a].size = 0
      BY <2>2
    <3> QED
      BY <3>1, <3>2, CrBytesSame
  <2>4. FileBytes(crFiles') = FileBytes(crFiles)
    BY <2>3 DEF FileBytes
  <2> QED
    BY <1>i, <2>1, <2>3, <2>4 DEF CrUsedInv
<1>7. CASE CrRead
  BY <1>7, <1>i DEF CrRead, CrUsedInv
<1>8. CASE CrWrite
  <2>1. /\ crPc = "copy" /\ UNCHANGED <<crTx, crAt, crUsed>> /\ LastFile(crAt).size = crCopied
        /\ FileBytes(crFiles) = crUsed + crCopied /\ crTx.streams[crAt].size <= CrLimit - crUsed
    BY <1>8 DEF CrWrite, CrAttemptInv, CrUsedInv
  <2>2. crAt \in CrStreams /\ crFiles[crAt] # <<>> /\ crTx.streams[crAt].size \in Nat
    BY <1>8, CrWriteMove
  <2>3. CASE UNCHANGED <<crFiles, crCopied>> /\ crPc' = "record"
    BY <1>i, <2>1, <2>3 DEF CrUsedInv
  <2>4. CASE /\ CrFileSet(crAt, Len(crFiles[crAt]),
                          [size |-> crCopied + 1, sound |-> LastFile(crAt).sound])
             /\ crCopied < crTx.streams[crAt].size /\ crCopied' = crCopied + 1 /\ crPc' = "copy"
    <3>1. Len(crFiles[crAt]) \in DOMAIN crFiles[crAt]
      BY <2>2, CrLastFile
    <3>2. crFiles[crAt][Len(crFiles[crAt])].size = crCopied
      BY <2>1 DEF LastFile
    <3>3. IsFiniteSet(BytesIn(crFiles')) /\ FileBytes(crFiles') = FileBytes(crFiles) + 1
      BY <1>i, <2>2, <2>4, <3>1, <3>2, CrBytesAdd
    <3> QED
      BY <1>i, <2>1, <2>2, <2>4, <3>3 DEF CrUsedInv
  <2> QED
    BY <1>8, <2>3, <2>4, CrWriteMove
<1>9. CASE CrRecord
  <2>1. /\ crPc = "record" /\ crPc' = "update" /\ UNCHANGED <<crFiles, crAt, crUsed>>
        /\ LastFile(crAt).size = crCopied /\ FileBytes(crFiles) = crUsed + crCopied
    BY <1>9 DEF CrRecord, CrAttemptInv, CrUsedInv
  <2>2. PICK state \in {"complete", "partial", "failed"} : CrEnded(state, LastFile(crAt).size)
    BY <1>9, CrRecordMove
  <2>3. /\ Len(crTx'.exports[crAt]) = Len(crTx.exports[crAt])
        /\ crTx'.exports[crAt][Len(crTx.exports[crAt])].size = crCopied
    BY <2>1, <2>2 DEF CrEnded
  <2>4. LastExport(crAt)'.size = crCopied
    BY <2>1, <2>3 DEF LastExport
  <2> QED
    BY <1>i, <2>1, <2>4 DEF CrUsedInv
<1>10. CASE CrUpdate
  BY <1>10, <1>i DEF CrUpdate, CrUsedInv
<1>11. CASE CrAlter
  <2>1. PICK s \in CrStreams : \E a \in DOMAIN crFiles[s] :
           CrFileSet(s, a, [size |-> crFiles[s][a].size, sound |-> FALSE])
    BY <1>11, CrAlterMove
  <2>2. PICK a \in DOMAIN crFiles[s] : CrFileSet(s, a, [size |-> crFiles[s][a].size, sound |-> FALSE])
    BY <2>1
  <2>3. /\ \A t \in CrStreams : \A b \in DOMAIN crFiles[t] :
              b \in DOMAIN crFiles'[t] /\ crFiles'[t][b].size = crFiles[t][b].size
        /\ \A t \in CrStreams : DOMAIN crFiles'[t] = DOMAIN crFiles[t]
    <3>1. /\ DOMAIN crFiles'[s] = DOMAIN crFiles[s] /\ crFiles'[s][a].size = crFiles[s][a].size
          /\ \A b \in DOMAIN crFiles[s] : b # a => crFiles'[s][b] = crFiles[s][b]
          /\ \A t \in CrStreams : t # s => crFiles'[t] = crFiles[t]
      BY <2>2 DEF CrFileSet
    <3>2. \A b \in DOMAIN crFiles[s] : crFiles'[s][b].size = crFiles[s][b].size
      BY <3>1
    <3> QED
      BY <3>1, <3>2
  <2>4. BytesIn(crFiles') = BytesIn(crFiles)
    BY <2>3, CrBytesSame
  <2>5. crPc' = "idle"
    BY <1>11 DEF CrAlter
  <2> QED
    BY <1>i, <1>s, <2>4, <2>5 DEF FileBytes
<1>12. CASE UNCHANGED crVars
  BY <1>12, <1>i DEF crVars, crCopy, CrUsedInv, LastExport
<1> QED
  BY <1>1, <1>2, <1>3, <1>4, <1>5, <1>6, <1>7, <1>8, <1>9, <1>10, <1>11, <1>12 DEF CrNext

\* A set of numbers that has a member has a least one.
LEMMA LeastOf ==
  ASSUME NEW S \in SUBSET Nat, S # {}
  PROVE  \E m \in S : \A n \in S : ~(n < m)
<1> DEFINE R == OpToRel(<, Nat)
<1>1. IsWellFoundedOn(R, Nat)
  BY NatLessThanWellFounded
<1>2. R = {ss \in Nat \X Nat : ss[1] < ss[2]}
  BY DEF OpToRel
<1> HIDE DEF R
<1>3. PICK m \in S : \A n \in S : ~(<<n, m>> \in R)
  BY <1>1, WFMin
<1> QED
  BY <1>2, <1>3

\* While a stream is wanted there is a next one.
LEMMA CrNextThereIs ==
  ASSUME NEW s \in CrStreams, CrWanted(s)
  PROVE  \E t \in CrStreams : CrNextStream(t)
<1> DEFINE S == {t \in CrStreams : CrWanted(t)}
<1>1. S \in SUBSET Nat /\ S # {}
  BY CrConstants
<1>2. PICK m \in S : \A n \in S : ~(n < m)
  BY <1>1, LeastOf
<1> QED
  BY <1>2 DEF CrNextStream

\* The empty database: no row, no stream, no attempt
LEMMA CrInvInit ==
  ASSUME CrInit
  PROVE  CrInv
<1>0. /\ crDb = NoDb /\ crTx = NoDb /\ crCatalog \in Seq(CrRow) /\ CrStreams \subseteq Nat
      /\ crFiles = [s \in CrStreams |-> <<>>] /\ crPc = "idle" /\ crDone = {} /\ crAt = CrNil
      /\ crUsed = 0 /\ crCopied = 0 /\ crSent = 0 /\ crQueue = <<>> /\ crFailed = FALSE
  BY CrConstants DEF CrInit
<1>1. /\ NoDb \in CrDbs /\ NoDb.rows = 0 /\ \A s \in CrStreams : NoDb.streams[s] = CrNil
      /\ \A s \in CrStreams : NoDb.exports[s] = <<>>
  <2>1. <<>> \in Seq(CrExport)
    BY EmptySeq
  <2> QED
    BY <2>1 DEF NoDb, CrDbs
<1>2. <<>> \in Seq(CrFile) /\ <<>> \in Seq({"data", "end"}) /\ Len(<<>>) = 0 /\ DOMAIN <<>> = {}
  BY EmptySeq
<1>3. Len(crCatalog) \in Nat /\ DOMAIN crCatalog = 1 .. Len(crCatalog)
  BY <1>0, SeqHas
<1>4. CrTypeOK
  <2>1. crFiles \in [CrStreams -> Seq(CrFile)]
    BY <1>0, <1>2
  <2>2. \A db \in {crDb, crTx} : db \in CrDbs /\ db.rows <= Len(crCatalog)
    BY <1>0, <1>1, <1>3
  <2>3. crQueue \in Seq({"data", "end"}) /\ Len(crQueue) <= 2
    BY <1>0, <1>2
  <2> QED
    BY <1>0, <2>1, <2>2, <2>3 DEF CrTypeOK, CrSteps, CrDbs
<1>5. CrImportInv
  <2>1. SaysAll(crCatalog, NoDb, 0)
    BY <1>1, <1>3 DEF SaysAll, SaysOf, RowsTo
  <2> QED
    BY <1>0, <1>1, <2>1 DEF CrImportInv, Imported, Steady, Early, Unwanted, CrSelected
<1>6. CrAttemptInv /\ CrDoneInv
  BY <1>0 DEF CrAttemptInv, CrDoneInv, CrInAttempt
<1>7. CrFilesInv
  <2>1. \A s \in CrStreams : crFiles[s] = <<>> /\ crDb.exports[s] = <<>>
    BY <1>0, <1>1
  <2>2. \A s \in CrStreams : Len(crFiles[s]) <= Len(crDb.exports[s]) /\ DOMAIN crDb.exports[s] = {}
    BY <1>2, <2>1
  <2> QED
    BY <1>0, <2>2 DEF CrFilesInv, Backed
<1>8. CrUsedInv
  <2>1. BytesIn(crFiles) = {}
    BY <1>0, <1>2 DEF BytesIn
  <2>2. IsFiniteSet(BytesIn(crFiles)) /\ FileBytes(crFiles) = 0
    BY <2>1, FS_EmptySet DEF FileBytes
  <2> QED
    BY <1>0, <2>2, CrConstants DEF CrUsedInv
<1> QED
  BY <1>4, <1>5, <1>6, <1>7, <1>8 DEF CrInv

\* Every step keeps every part.
LEMMA CrInvStep ==
  ASSUME CrInv, [CrNext]_crVars
  PROVE  CrInv'
BY CrTypeStep, CrImportStep, CrAttemptStep, CrDoneStep, CrFilesStep, CrUsedStep DEF CrInv

\* The database, the files and the count of a run stay in step over runs that
\* raise and runs that are killed.
THEOREM CrInvariant == CrSpec => []CrInv
  BY CrInvInit, CrInvStep, PTL DEF CrSpec

\* However often the import of a catalog is cut off and resumed, what it ends
\* with is what all its rows say.
THEOREM CrStreamsAreCatalogAlways == CrSpec => []CrStreamsAreCatalog
<1>1. CrInv => CrStreamsAreCatalog
  BY CrStreamsAreSaid DEF CrInv
<1> QED
  BY <1>1, CrInvariant, PTL

\* The files never hold more than the limit, and each belongs to an attempt on
\* record.
THEOREM CrWithinLimitAlways == CrSpec => []CrWithinLimit
<1>1. CrInv => CrWithinLimit
  BY DEF CrInv, CrUsedInv, CrFilesInv, CrWithinLimit
<1> QED
  BY <1>1, CrInvariant, PTL

\* A run that ends as complete has all bytes of every stream that is wanted.
THEOREM CrCompleteIsAllAlways == CrSpec => CrCompleteIsAll
<1> DEFINE Wanted(s) == RowsOf(s) # {} /\ (crMode = "all" \/ IsDeleted(s))
           Has(s) == /\ crFiles[s] # <<>>
                     /\ LastFile(s) = [size |-> crDb.streams[s].size, sound |-> TRUE]
           Complete == (crPhase # "complete" /\ crPhase' = "complete") =>
                           \A s \in CrStreams : Wanted(s) => Has(s)
<1>1. ASSUME CrInv, [CrNext]_crVars, crPhase # "complete", crPhase' = "complete",
             NEW s \in CrStreams, Wanted(s)
      PROVE  Has(s)
  <2>1. CrFinish
    BY <1>1
    DEF CrNext, crVars, CrStart, CrImport, CrImportRef, CrSelect, CrCountUsed, CrReconcile,
        CrReuse, CrDefer, CrAttempt, CrCreate, CrRead, CrWrite, CrRecord, CrUpdate, CrRaise,
        CrKill, CrAlter
  <2>2. /\ ~StreamsIn({"pending", "deferred"})
        /\ ~StreamsIn({"failed", "partial", "conflict", "ambiguous_allocation"})
    BY <1>1, <2>1 DEF CrFinish
  <2>3. crPc = "export" /\ ~\E t \in CrStreams : CrNextStream(t)
    BY <1>1, <2>1, <2>2 DEF CrFinish, CrInv, CrDoneInv, StreamsIn
  <2>4. crTx = crDb /\ crDb.rows = Len(crCatalog) /\ Unwanted(crMode, crDb)
    BY <1>1, <2>3 DEF CrInv, CrImportInv, Imported, CrSelected
  <2>5. crDb.streams[s] # CrNil /\ crDb.streams[s].deleted = IsDeleted(s)
    BY <1>1, <2>4, CrStreamsAreSaid DEF CrInv, CrStreamsAreCatalog
  <2>6. crTx.streams[s] \in CrStream
    BY <1>1, <2>4, <2>5 DEF CrInv, CrTypeOK
  <2>7. crTx.streams[s].state \in {"complete", "not_selected"}
    BY <2>2, <2>4, <2>5, <2>6 DEF StreamsIn, CrStream, CrStates
  <2>8. crTx.streams[s].state = "complete"
    BY <1>1, <2>4, <2>5, <2>7 DEF Unwanted
  <2>9. s \in crDone
    BY <2>3, <2>4, <2>5, <2>8, CrNextThereIs DEF CrWanted, CrExportable
  <2> QED
    BY <1>1, <2>3, <2>4, <2>8, <2>9 DEF CrInv, CrDoneInv, HasAll
<1>2. CrInv /\ [CrNext]_crVars => [Complete]_crVars
  BY <1>1
<1> QED
  BY <1>2, CrInvariant, PTL DEF CrSpec, CrCompleteIsAll
-----------------------------------------------------------------------------
(* PhotorecSupervisor                                                      *)

\* What the validation has found of the outputs: as many as the tool says;
\* each that is there entered with its only report, and none reported missing.
PhEntered(o) == phReport[o] = <<phFiles[o].size>> \/ (o \in PhThumbs /\ phReport[o] = <<>>)
PhValidated ==
    /\ phCount = Cardinality(There \ PhThumbs)
    /\ \A o \in There : o \in phManifest /\ PhEntered(o)
    /\ \A o \in PhOutputs \ There : phReport[o] # <<>> =>
          (o \in PhDetections \cap phManifest /\ Len(phReport[o]) = 1)
PhWithin == PhBytes < PhMaxBytes /\ Cardinality(There) <= PhMaxFiles

PhAfterLog == {"reports", "files", "final", "close", "exit"}
\* The tool is over when its log is read; what is over stays as it is.
PhEndedInv ==
    /\ phPc \in PhAfterLog => phChild = "ok" /\ phLog = "normal"
    /\ phPc \in {"start", "spawn"} => phPhase # "complete"
    /\ phPc \in {"stop", "stopped"} => phReason \in {"incomplete", "failed"}
    /\ IsFiniteSet(There)

\* How far the validation is
PhManifestInv ==
    /\ phPc \in {"start", "spawn", "watch", "look", "ended", "log", "reports"} => phManifest = {}
    /\ phPc = "files" => /\ \A o \in PhOutputs : Len(phReport[o]) <= 1
                         /\ \A o \in phManifest : o \in There /\ PhEntered(o)
    /\ phPc \in {"final", "close", "exit"} => PhValidated

\* The last walk, on files that nobody changes: what it has counted so far is
\* what is there but for what it has still to look at.
PhWalked == There \ {e[1] : e \in phWalk}
PhWalkInv ==
    /\ phPc \notin PhMonitors \cup {"gone"} => phWalk = {}
    /\ phPc = "final" /\ phWalk # {} =>
          /\ \A e \in phWalk : e[1] \in There /\ e[2] = phFiles[e[1]].name
          /\ IsFiniteSet(BytesOf(PhWalked))
          /\ phTotal = Cardinality(BytesOf(PhWalked)) /\ phSeen = Cardinality(PhWalked)
    /\ phPc \in {"close", "exit"} => PhWithin

PhCompleteInv ==
    phPhase = "complete" => phChild = "ok" /\ phLog = "normal" /\ PhValidated /\ PhWithin

PhInv == PhTypeOK /\ PhEndedInv /\ PhManifestInv /\ PhWalkInv /\ PhCompleteInv
-----------------------------------------------------------------------------
\* What depends on the outputs alone stays when they do.
LEMMA PhFrozen ==
  ASSUME UNCHANGED phTool
  PROVE  /\ There' = There /\ PhBytes' = PhBytes
         /\ \A o : PhEntered(o)' <=> PhEntered(o)
         /\ \A S : BytesOf(S)' = BytesOf(S)
BY DEF phTool, There, PhBytes, BytesOf, PhEntered

\* A sequence that is not empty has one record if it has no more.
LEMMA PhOneRecord ==
  ASSUME NEW s \in Seq(Nat), s # <<>>, Len(s) <= 1
  PROVE  Len(s) = 1
<1>1. Len(s) \in Nat \ {0}
  BY EmptySeq
<1>2. \A n \in Nat \ {0} : n <= 1 => n = 1
  OBVIOUS
<1> QED
  BY <1>1, <1>2

\* Outputs keep their shape.
LEMMA PhTypeStep ==
  ASSUME PhTypeOK, PhEndedInv, [PhNext]_phVars
  PROVE  PhTypeOK'
<1> USE PhConstants DEF PhTypeOK, phTool, PhGiveUp, AfterWalk, PhSteps, PhMonitors, PhTry, PhEvent, PhFile, There
<1>1. CASE PhStart
  BY <1>1 DEF PhStart
<1>2. CASE PhSpawn
  BY <1>2 DEF PhSpawn
<1>3. CASE PhCheck
  BY <1>3 DEF PhCheck
<1>4. CASE PhVisit
  <2>1. \A o \in PhOutputs : phFiles[o] # PhNil => phFiles[o].size \in Nat
    OBVIOUS
  <2>2. \A e \in phWalk : e[1] \in PhOutputs
    OBVIOUS
  <2>3. phTotal' \in Nat /\ phSeen' \in Nat
    BY <1>4, <2>1, <2>2 DEF PhVisit
  <2>4. /\ phWalk' \subseteq phWalk /\ phPc' \in PhSteps
        /\ phReason' \in {phReason, "incomplete", "failed"}
    BY <1>4 DEF PhVisit
  <2>5. UNCHANGED <<phTool, phChild, phCapture, phLate, phPhase, phExit, phManifest>>
    BY <1>4 DEF PhVisit
  <2> QED
    BY <2>3, <2>4, <2>5
<1>5. CASE PhLook
  BY <1>5 DEF PhLook
<1>6. CASE PhJoin
  BY <1>6 DEF PhJoin
<1>7. CASE PhReadLog
  BY <1>7 DEF PhReadLog
<1>8. CASE PhReports
  BY <1>8 DEF PhReports
<1>9. CASE \E o \in PhOutputs : PhTake(o)
  BY <1>9 DEF PhTake
<1>10. CASE PhLeftovers
  BY <1>10 DEF PhLeftovers
<1>11. CASE PhClose
  BY <1>11 DEF PhClose
<1>12. CASE PhExitCode
  BY <1>12 DEF PhExitCode
<1>13. CASE PhStop
  BY <1>13 DEF PhStop
<1>14. CASE PhStoppedCode
  BY <1>14 DEF PhStoppedCode
<1>15. CASE PhCarve
  BY <1>15 DEF PhCarve
<1>16. CASE PhReport
  <2>1. Cardinality(There \ PhThumbs) \in Nat
    <3>1. IsFiniteSet(There \ PhThumbs)
      BY FS_Difference DEF PhEndedInv
    <3> QED
      BY <3>1, FS_CardinalityType
  <2>2. ASSUME NEW detected \in SUBSET PhDetections
        PROVE  TrueReport(detected) \in [PhOutputs -> Seq(Nat)]
    <3>1. \A o \in There : phFiles[o].size \in Nat
      OBVIOUS
    <3>2. <<>> \in Seq(Nat) /\ << 1 >> \in Seq(Nat) /\ \A n \in Nat : <<n>> \in Seq(Nat)
      OBVIOUS
    <3> QED
      BY <3>1, <3>2 DEF TrueReport
  <2>3. /\ <<>> \in Seq(Nat) /\ << 0 >> \in Seq(Nat) /\ << 1 >> \in Seq(Nat)
        /\ <<1, 1>> \in Seq(Nat)
    OBVIOUS
  <2>4. phReport' \in [PhOutputs -> Seq(Nat)]
    <3>1. \A report \in [PhOutputs -> Seq(Nat)] : \A o \in PhOutputs : \A w \in Seq(Nat) :
              [report EXCEPT ![o] = w] \in [PhOutputs -> Seq(Nat)]
      OBVIOUS
    <3>2. PICK detected \in SUBSET PhDetections :
              \/ phReport' = TrueReport(detected)
              \/ \E o \in PhOutputs : \E w \in {<<>>, << 0 >>, << 1 >>, <<1, 1>>} :
                    phReport' = [TrueReport(detected) EXCEPT ![o] = w]
      BY <1>16 DEF PhReport
    <3>3. TrueReport(detected) \in [PhOutputs -> Seq(Nat)]
      BY <2>2
    <3>4. ASSUME NEW o \in PhOutputs, NEW w \in {<<>>, << 0 >>, << 1 >>, <<1, 1>>},
                 phReport' = [TrueReport(detected) EXCEPT ![o] = w]
          PROVE  phReport' \in [PhOutputs -> Seq(Nat)]
      <4>1. w \in Seq(Nat)
        BY <2>3
      <4> QED
        BY <3>1, <3>3, <3>4, <4>1
    <3> QED
      BY <3>2, <3>3, <3>4
  <2>5. phCount' \in Nat /\ phLog' \in {"normal", "error"}
    BY <1>16, <2>1 DEF PhReport
  <2> QED
    BY <1>16, <2>4, <2>5 DEF PhReport
<1>17. CASE PhToolEnds
  BY <1>17 DEF PhToolEnds
<1>18. CASE PhTimePasses
  BY <1>18 DEF PhTimePasses
<1>19. CASE PhPumpStops
  BY <1>19 DEF PhPumpStops
<1>20. CASE PhRaise
  BY <1>20 DEF PhRaise
<1>21. CASE PhKill
  BY <1>21 DEF PhKill
<1>22. CASE UNCHANGED phVars
  BY <1>22 DEF phVars
<1> QED
  BY <1>1, <1>2, <1>3, <1>4, <1>5, <1>6, <1>7, <1>8, <1>9, <1>10, <1>11, <1>12, <1>13, <1>14, <1>15, <1>16, <1>17, <1>18, <1>19, <1>20, <1>21, <1>22 DEF PhNext, PhStep

\* The tool is over before its log is read, and what it left is finite.
LEMMA PhEndedStep ==
  ASSUME PhTypeOK, PhEndedInv, [PhNext]_phVars
  PROVE  PhEndedInv'
<1>f. UNCHANGED phFiles => There' = There
  BY DEF There
<1>i. IsFiniteSet(There)
  BY DEF PhEndedInv
<1> USE PhConstants DEF PhEndedInv, PhTypeOK, phTool, PhGiveUp, AfterWalk, PhSteps, PhMonitors, PhTry, PhAfterLog
<1>1. CASE PhStart
  BY <1>1, <1>f DEF PhStart
<1>2. CASE PhSpawn
  BY <1>2, <1>f DEF PhSpawn
<1>3. CASE PhCheck
  BY <1>3, <1>f DEF PhCheck
<1>4. CASE PhVisit
  BY <1>4, <1>f DEF PhVisit
<1>5. CASE PhLook
  BY <1>5, <1>f DEF PhLook
<1>6. CASE PhJoin
  BY <1>6, <1>f DEF PhJoin
<1>7. CASE PhReadLog
  BY <1>7, <1>f DEF PhReadLog
<1>8. CASE PhReports
  BY <1>8, <1>f DEF PhReports
<1>9. CASE \E o \in PhOutputs : PhTake(o)
  BY <1>9, <1>f DEF PhTake
<1>10. CASE PhLeftovers
  BY <1>10, <1>f DEF PhLeftovers
<1>11. CASE PhClose
  BY <1>11, <1>f DEF PhClose
<1>12. CASE PhExitCode
  BY <1>12, <1>f DEF PhExitCode
<1>13. CASE PhStop
  BY <1>13, <1>f DEF PhStop
<1>14. CASE PhStoppedCode
  BY <1>14, <1>f DEF PhStoppedCode
<1>15. CASE PhCarve
  <2>1. PICK o \in PhOutputs : \E e \in PhFile : phFiles' = [phFiles EXCEPT ![o] = e]
    <3>1. PICK o \in PhOrdinary \cup PhThumbs :
            \/ phFiles' = [phFiles EXCEPT ![o] = [name |-> 1, size |-> 0]]
            \/ /\ phFiles[o] # PhNil /\ phFiles[o].size < PhMaxSize
               /\ phFiles' = [phFiles EXCEPT ![o] = [name |-> phFiles[o].name, size |-> phFiles[o].size + 1]]
            \/ /\ phFiles[o] # PhNil
               /\ phFiles' = [phFiles EXCEPT ![o] = [name |-> 3 - phFiles[o].name, size |-> phFiles[o].size]]
      BY <1>15 DEF PhCarve
    <3>2. o \in PhOutputs /\ phFiles[o] \in PhFile \cup {PhNil}
      BY <3>1 DEF PhOutputs
    <3>3. [name |-> 1, size |-> 0] \in PhFile
      BY DEF PhFile
    <3>4. (phFiles[o] # PhNil /\ phFiles[o].size < PhMaxSize)
             => [name |-> phFiles[o].name, size |-> phFiles[o].size + 1] \in PhFile
      BY <3>2 DEF PhFile
    <3>5. phFiles[o] # PhNil => [name |-> 3 - phFiles[o].name, size |-> phFiles[o].size] \in PhFile
      BY <3>2 DEF PhFile
    <3> QED
      BY <3>1, <3>2, <3>3, <3>4, <3>5
  <2>2. There' = There \cup {o}
    BY <2>1 DEF There
  <2>3. IsFiniteSet(There')
    BY <1>i, <2>2, FS_AddElement
  <2> QED
    BY <1>15, <2>3 DEF PhCarve
<1>16. CASE PhReport
  BY <1>16, <1>f DEF PhReport
<1>17. CASE PhToolEnds
  BY <1>17, <1>f DEF PhToolEnds
<1>18. CASE PhTimePasses
  BY <1>18, <1>f DEF PhTimePasses
<1>19. CASE PhPumpStops
  BY <1>19, <1>f DEF PhPumpStops
<1>20. CASE PhRaise
  BY <1>20, <1>f DEF PhRaise
<1>21. CASE PhKill
  BY <1>21, <1>f DEF PhKill
<1>22. CASE UNCHANGED phVars
  BY <1>22, <1>f DEF phVars
<1> QED
  BY <1>1, <1>2, <1>3, <1>4, <1>5, <1>6, <1>7, <1>8, <1>9, <1>10, <1>11, <1>12, <1>13, <1>14, <1>15, <1>16, <1>17, <1>18, <1>19, <1>20, <1>21, <1>22 DEF PhNext, PhStep

\* What the validation has entered is there, and what was reported of it.
LEMMA PhManifestStep ==
  ASSUME PhTypeOK, PhEndedInv, PhManifestInv, [PhNext]_phVars
  PROVE  PhManifestInv'
<1>f. UNCHANGED phTool => /\ There' = There
                          /\ \A o : PhEntered(o)' <=> PhEntered(o)
  BY PhFrozen
<1>v. UNCHANGED <<phTool, phManifest>> /\ PhValidated => PhValidated'
  BY <1>f DEF PhValidated, phTool
<1>c. phChild = "alive" => phPc \notin PhAfterLog
  BY DEF PhEndedInv
<1> USE DEF PhManifestInv, PhGiveUp, AfterWalk, PhMonitors, PhTry, PhSteps, PhAfterLog, RecordsOf, phTool
<1>1. CASE PhStart
  BY <1>1, <1>f, <1>v, <1>c DEF PhStart
<1>2. CASE PhSpawn
  BY <1>2, <1>f, <1>v, <1>c DEF PhSpawn
<1>3. CASE PhCheck
  BY <1>3, <1>f, <1>v, <1>c DEF PhCheck
<1>4. CASE PhVisit
  BY <1>4, <1>f, <1>v, <1>c DEF PhVisit
<1>5. CASE PhLook
  BY <1>5, <1>f, <1>v, <1>c DEF PhLook
<1>6. CASE PhJoin
  BY <1>6, <1>f, <1>v, <1>c DEF PhJoin
<1>7. CASE PhReadLog
  BY <1>7, <1>f, <1>v, <1>c DEF PhReadLog
<1>8. CASE PhReports
  BY <1>8, <1>f, <1>v, <1>c DEF PhReports
<1>9. CASE \E o \in PhOutputs : PhTake(o)
  <2>1. /\ phTool' = phTool /\ phPc = "files"
        /\ \/ phPc' = "stop"
           \/ /\ phPc' = "files"
              /\ \E o \in There : PhEntered(o) /\ phManifest' = phManifest \cup {o}
    BY <1>9 DEF PhTake, PhEntered
  <2> QED
    BY <2>1, <1>f
<1>10. CASE PhLeftovers
  <2>1. CASE phPc' = "final"
    <3>1. /\ \A o \in There : o \in phManifest' /\ PhEntered(o)
          /\ phManifest' = phManifest \cup {o \in PhOutputs \ There : phReport[o] # <<>>}
          /\ {o \in PhOutputs \ There : phReport[o] # <<>>} \subseteq PhDetections
          /\ phCount = Cardinality(There \ PhThumbs)
      BY <1>10, <2>1 DEF PhLeftovers
    <3>2. \A o \in PhOutputs : phReport[o] # <<>> => Len(phReport[o]) = 1
      <4>1. SUFFICES ASSUME NEW o \in PhOutputs, phReport[o] # <<>>
                     PROVE  Len(phReport[o]) = 1
        OBVIOUS
      <4>2. phReport[o] \in Seq(Nat) /\ Len(phReport[o]) <= 1
        BY <1>10 DEF PhTypeOK, PhLeftovers
      <4> QED
        BY <4>1, <4>2, PhOneRecord
    <3>3. phCount' = phCount /\ phReport' = phReport /\ There' = There /\ \A o : PhEntered(o)' <=> PhEntered(o)
      BY <1>10, <1>f DEF PhLeftovers, phTool
    <3>4. PhValidated'
      BY <3>1, <3>2, <3>3 DEF PhValidated
    <3> QED
      BY <2>1, <3>4
  <2> QED
    BY <1>10, <2>1 DEF PhLeftovers
<1>11. CASE PhClose
  BY <1>11, <1>f, <1>v, <1>c DEF PhClose
<1>12. CASE PhExitCode
  BY <1>12, <1>f, <1>v, <1>c DEF PhExitCode
<1>13. CASE PhStop
  BY <1>13, <1>f, <1>v, <1>c DEF PhStop
<1>14. CASE PhStoppedCode
  BY <1>14, <1>f, <1>v, <1>c DEF PhStoppedCode
<1>15. CASE PhCarve
  BY <1>15, <1>f, <1>v, <1>c DEF PhCarve
<1>16. CASE PhReport
  BY <1>16, <1>f, <1>v, <1>c DEF PhReport
<1>17. CASE PhToolEnds
  BY <1>17, <1>f, <1>v, <1>c DEF PhToolEnds
<1>18. CASE PhTimePasses
  BY <1>18, <1>f, <1>v, <1>c DEF PhTimePasses
<1>19. CASE PhPumpStops
  BY <1>19, <1>f, <1>v, <1>c DEF PhPumpStops
<1>20. CASE PhRaise
  BY <1>20, <1>f, <1>v, <1>c DEF PhRaise
<1>21. CASE PhKill
  BY <1>21, <1>f, <1>v, <1>c DEF PhKill
<1>22. CASE UNCHANGED phVars
  BY <1>22, <1>f, <1>v, <1>c DEF phVars
<1> QED
  BY <1>1, <1>2, <1>3, <1>4, <1>5, <1>6, <1>7, <1>8, <1>9, <1>10, <1>11, <1>12, <1>13, <1>14, <1>15, <1>16, <1>17, <1>18, <1>19, <1>20, <1>21, <1>22 DEF PhNext, PhStep

\* An output has as many bytes as its size says.
LEMMA PhBytesOfOne ==
  ASSUME NEW o, NEW size \in Nat
  PROVE  IsFiniteSet({o} \X (1 .. size)) /\ Cardinality({o} \X (1 .. size)) = size
<1>1. IsFiniteSet({o}) /\ Cardinality({o}) = 1
  BY FS_Singleton
<1>2. IsFiniteSet(1 .. size) /\ Cardinality(1 .. size) = size
  BY FS_Interval
<1>3. /\ IsFiniteSet({o} \X (1 .. size))
      /\ Cardinality({o} \X (1 .. size)) = Cardinality({o}) * Cardinality(1 .. size)
  BY <1>1, <1>2, FS_Product
<1>4. 1 * size = size
  OBVIOUS
<1> QED
  BY <1>1, <1>2, <1>3, <1>4

\* The bytes of one more output are counted on top of those of the others.
LEMMA PhBytesAdded ==
  ASSUME PhTypeOK, NEW S, IsFiniteSet(BytesOf(S)), NEW o \in There, o \notin S
  PROVE  /\ IsFiniteSet(BytesOf(S \cup {o}))
         /\ Cardinality(BytesOf(S \cup {o})) = Cardinality(BytesOf(S)) + phFiles[o].size
         /\ phFiles[o].size \in Nat /\ Cardinality(BytesOf(S)) \in Nat
<1> DEFINE size == phFiles[o].size
           added == {o} \X (1 .. size)
<1>1. size \in Nat
  BY PhConstants DEF PhTypeOK, There, PhFile
<1>2. BytesOf(S \cup {o}) = BytesOf(S) \cup added
  BY DEF BytesOf
<1>3. BytesOf(S) \cap added = {}
  BY DEF BytesOf
<1>4. IsFiniteSet(added) /\ Cardinality(added) = size
  BY <1>1, PhBytesOfOne
<1>5. Cardinality(BytesOf(S)) \in Nat
  BY FS_CardinalityType
<1> HIDE DEF size, added
<1>6. /\ IsFiniteSet(BytesOf(S) \cup added)
      /\ Cardinality(BytesOf(S) \cup added)
           = Cardinality(BytesOf(S)) + Cardinality(added) - Cardinality(BytesOf(S) \cap added)
  BY <1>4, FS_Union
<1>7. Cardinality(BytesOf(S) \cap added) = 0
  BY <1>3, FS_EmptySet
<1>8. Cardinality(BytesOf(S) \cup added) = Cardinality(BytesOf(S)) + size
  BY <1>1, <1>4, <1>5, <1>6, <1>7
<1> QED
  BY <1>1, <1>2, <1>5, <1>6, <1>8 DEF size

\* The last walk counts every output once.
LEMMA PhWalkStep ==
  ASSUME PhTypeOK, PhEndedInv, PhWalkInv, [PhNext]_phVars
  PROVE  PhWalkInv'
<1>f. UNCHANGED phTool => /\ There' = There /\ PhBytes' = PhBytes
                          /\ \A S : BytesOf(S)' = BytesOf(S)
  BY PhFrozen
<1>w. UNCHANGED <<phTool, phWalk>> => PhWalked' = PhWalked
  BY <1>f DEF PhWalked
<1>v. UNCHANGED phTool /\ PhWithin => PhWithin'
  BY <1>f DEF PhWithin
<1>c. phChild = "alive" => phPc \notin PhAfterLog
  BY DEF PhEndedInv
<1>e. IsFiniteSet({}) /\ Cardinality({}) = 0 /\ BytesOf({}) = {} /\ BytesOf({})' = {}
  BY FS_EmptySet DEF BytesOf
<1>i. IsFiniteSet(There)
  BY DEF PhEndedInv
<1> USE DEF PhWalkInv, PhGiveUp, AfterWalk, PhMonitors, PhTry, PhSteps, PhAfterLog, phTool
<1>1. CASE PhStart
  BY <1>1, <1>f, <1>w, <1>v, <1>c DEF PhStart
<1>2. CASE PhSpawn
  BY <1>2, <1>f, <1>w, <1>v, <1>c DEF PhSpawn
<1>3. CASE PhCheck
  <2>t. UNCHANGED phTool /\ There' = There
    BY <1>3, <1>f DEF PhCheck
  <2>1. CASE phPc' = "stop"
    BY <1>3, <2>1 DEF PhCheck
  <2>2. CASE phPc' # "stop" /\ There = {}
    <3>1. phPc' = AfterWalk /\ phWalk' = {}
      BY <1>3, <2>2 DEF PhCheck
    <3>2. PhWithin'
      BY <1>e, <2>2, <2>t, PhConstants DEF PhWithin, PhBytes
    <3> QED
      BY <1>3, <3>1, <3>2 DEF PhCheck
  <2>3. CASE phPc' # "stop" /\ There # {}
    <3>1. phPc' = phPc /\ phWalk' = {<<o, phFiles[o].name>> : o \in There} /\ phTotal' = 0 /\ phSeen' = 0
      BY <1>3, <2>3 DEF PhCheck
    <3>2. PhWalked' = {}
      <4>1. ASSUME NEW o \in There PROVE o \in {e[1] : e \in phWalk'}
        <5>1. <<o, phFiles[o].name>> \in phWalk' /\ <<o, phFiles[o].name>>[1] = o
          BY <3>1
        <5> QED
          BY <5>1
      <4> QED
        BY <2>t, <4>1 DEF PhWalked
    <3>3. \A e \in phWalk' : e[1] \in There' /\ e[2] = phFiles'[e[1]].name
      BY <2>t, <3>1
    <3>4. BytesOf(PhWalked)' = {}
      BY <2>t, <1>e, <3>2, <1>f
    <3> QED
      BY <1>3, <1>e, <3>1, <3>2, <3>3, <3>4 DEF PhCheck
  <2> QED
    BY <2>1, <2>2, <2>3
<1>4. CASE PhVisit
  <2>t. UNCHANGED phTool /\ There' = There
    BY <1>4, <1>f DEF PhVisit
  <2>1. CASE phPc # "final" \/ phPc' = "stop"
    BY <1>4, <2>1 DEF PhVisit
  <2>2. CASE phPc = "final" /\ phPc' # "stop"
    <3>1. PICK e \in phWalk :
            /\ phFiles[e[1]] # PhNil /\ phFiles[e[1]].name = e[2] =>
                  phTotal' = phTotal + phFiles[e[1]].size /\ phSeen' = phSeen + 1
            /\ phTotal' < PhMaxBytes /\ phSeen' <= PhMaxFiles
            /\ phWalk' = phWalk \ {e}
            /\ phPc' = IF phWalk' # {} THEN phPc ELSE AfterWalk
      <4>1. PICK e \in phWalk :
              LET here  == phFiles[e[1]] # PhNil /\ phFiles[e[1]].name = e[2]
                  total == IF here THEN phTotal + phFiles[e[1]].size ELSE phTotal
                  seen  == IF here THEN phSeen + 1 ELSE phSeen
              IN  /\ phTotal' = total /\ phSeen' = seen
                  /\ ~(total >= PhMaxBytes \/ seen > PhMaxFiles)
                  /\ phWalk' = phWalk \ {e}
                  /\ phPc' = IF phWalk' # {} THEN phPc ELSE AfterWalk
        BY <1>4, <2>2 DEF PhVisit
      <4>2. phFiles[e[1]] # PhNil => phFiles[e[1]].size \in Nat
        BY PhConstants DEF PhTypeOK, PhFile
      <4>3. phTotal \in Nat /\ phSeen \in Nat /\ PhMaxBytes \in Nat /\ PhMaxFiles \in Nat
        BY PhConstants DEF PhTypeOK
      <4> QED
        BY <4>1, <4>2, <4>3
    <3>2. /\ e[1] \in There /\ e[2] = phFiles[e[1]].name
          /\ \A x \in phWalk : x[1] = e[1] => x = e
      <4>1. \A x \in phWalk : x = <<x[1], x[2]>> /\ x[1] \in PhOutputs
        BY DEF PhTypeOK
      <4>2. \A x \in phWalk : x[1] \in There /\ x[2] = phFiles[x[1]].name
        BY <2>2
      <4> QED
        BY <3>1, <4>1, <4>2
    <3>3. PhWalked' = PhWalked \cup {e[1]} /\ e[1] \notin PhWalked
      BY <2>t, <3>1, <3>2 DEF PhWalked
    <3>4. /\ phTotal' = phTotal + phFiles[e[1]].size /\ phSeen' = phSeen + 1
      BY <3>1, <3>2 DEF There
    <3>5. /\ IsFiniteSet(BytesOf(PhWalked \cup {e[1]}))
          /\ phTotal' = Cardinality(BytesOf(PhWalked \cup {e[1]}))
      BY <2>2, <3>1, <3>2, <3>3, <3>4, PhBytesAdded
    <3>6. phSeen' = Cardinality(PhWalked \cup {e[1]})
      <4>1. IsFiniteSet(PhWalked)
        BY <1>i, FS_Difference DEF PhWalked
      <4> QED
        BY <2>2, <3>1, <3>3, <3>4, <4>1, FS_AddElement
    <3>7. BytesOf(PhWalked)' = BytesOf(PhWalked \cup {e[1]})
      BY <1>f, <2>t, <3>3
    <3>8. CASE phWalk' # {}
      BY <2>2, <2>t, <3>1, <3>3, <3>5, <3>6, <3>7, <3>8
    <3>9. CASE phWalk' = {}
      <4>1. PhWalked \cup {e[1]} = There
        BY <2>t, <3>3, <3>9 DEF PhWalked
      <4>2. PhWithin
        BY <3>1, <3>5, <3>6, <4>1 DEF PhWithin, PhBytes
      <4> QED
        BY <1>v, <2>2, <2>t, <3>1, <3>9, <4>2
    <3> QED
      BY <3>8, <3>9
  <2> QED
    BY <2>1, <2>2
<1>5. CASE PhLook
  BY <1>5, <1>f, <1>w, <1>v, <1>c DEF PhLook
<1>6. CASE PhJoin
  BY <1>6, <1>f, <1>w, <1>v, <1>c DEF PhJoin
<1>7. CASE PhReadLog
  BY <1>7, <1>f, <1>w, <1>v, <1>c DEF PhReadLog
<1>8. CASE PhReports
  BY <1>8, <1>f, <1>w, <1>v, <1>c DEF PhReports
<1>9. CASE \E o \in PhOutputs : PhTake(o)
  BY <1>9, <1>f, <1>w, <1>v, <1>c DEF PhTake
<1>10. CASE PhLeftovers
  BY <1>10, <1>f, <1>w, <1>v, <1>c DEF PhLeftovers
<1>11. CASE PhClose
  BY <1>11, <1>f, <1>w, <1>v, <1>c DEF PhClose
<1>12. CASE PhExitCode
  BY <1>12, <1>f, <1>w, <1>v, <1>c DEF PhExitCode
<1>13. CASE PhStop
  BY <1>13, <1>f, <1>w, <1>v, <1>c DEF PhStop
<1>14. CASE PhStoppedCode
  BY <1>14, <1>f, <1>w, <1>v, <1>c DEF PhStoppedCode
<1>15. CASE PhCarve
  BY <1>15, <1>f, <1>w, <1>v, <1>c DEF PhCarve
<1>16. CASE PhReport
  BY <1>16, <1>f, <1>w, <1>v, <1>c DEF PhReport
<1>17. CASE PhToolEnds
  BY <1>17, <1>f, <1>w, <1>v, <1>c DEF PhToolEnds
<1>18. CASE PhTimePasses
  BY <1>18, <1>f, <1>w, <1>v, <1>c DEF PhTimePasses
<1>19. CASE PhPumpStops
  BY <1>19, <1>f, <1>w, <1>v, <1>c DEF PhPumpStops
<1>20. CASE PhRaise
  BY <1>20, <1>f, <1>w, <1>v, <1>c DEF PhRaise
<1>21. CASE PhKill
  BY <1>21, <1>f, <1>w, <1>v, <1>c DEF PhKill
<1>22. CASE UNCHANGED phVars
  BY <1>22, <1>f, <1>w, <1>v, <1>c DEF phVars
<1> QED
  BY <1>1, <1>2, <1>3, <1>4, <1>5, <1>6, <1>7, <1>8, <1>9, <1>10, <1>11, <1>12, <1>13, <1>14, <1>15, <1>16, <1>17, <1>18, <1>19, <1>20, <1>21, <1>22 DEF PhNext, PhStep

\* Nothing that was complete is changed before the run says otherwise.
LEMMA PhCompleteStep ==
  ASSUME PhTypeOK, PhEndedInv, PhManifestInv, PhWalkInv, PhCompleteInv, [PhNext]_phVars
  PROVE  PhCompleteInv'
<1>f. UNCHANGED phTool => /\ There' = There /\ PhBytes' = PhBytes
                          /\ \A o : PhEntered(o)' <=> PhEntered(o)
  BY PhFrozen
<1>v. /\ UNCHANGED <<phTool, phManifest>> /\ PhValidated => PhValidated'
      /\ UNCHANGED phTool /\ PhWithin => PhWithin'
  <2>1. UNCHANGED <<phTool, phManifest>> /\ PhValidated => PhValidated'
    BY <1>f DEF PhValidated, phTool
  <2>2. UNCHANGED phTool /\ PhWithin => PhWithin'
    BY <1>f DEF PhWithin
  <2> QED
    BY <2>1, <2>2
<1>c. phPc \in PhAfterLog => phChild = "ok" /\ phLog = "normal"
  BY DEF PhEndedInv
<1> USE PhConstants DEF PhCompleteInv, PhGiveUp, PhAfterLog, phTool
<1>1. CASE PhStart
  BY <1>1 DEF PhStart
<1>2. CASE PhSpawn
  BY <1>2 DEF PhSpawn, PhEndedInv
<1>3. CASE PhCheck
  BY <1>3, <1>v, <1>c DEF PhCheck
<1>4. CASE PhVisit
  BY <1>4, <1>v, <1>c DEF PhVisit
<1>5. CASE PhLook
  BY <1>5, <1>v, <1>c DEF PhLook
<1>6. CASE PhJoin
  BY <1>6, <1>v, <1>c DEF PhJoin
<1>7. CASE PhReadLog
  BY <1>7, <1>v, <1>c DEF PhReadLog
<1>8. CASE PhReports
  BY <1>8, <1>v, <1>c DEF PhReports
<1>9. CASE \E o \in PhOutputs : PhTake(o)
  <2>1. /\ UNCHANGED phTool /\ UNCHANGED <<phChild, phPhase>> /\ phManifest \subseteq phManifest'
    BY <1>9 DEF PhTake
  <2>2. PhValidated => PhValidated'
    BY <1>f, <2>1 DEF PhValidated
  <2> QED
    BY <1>v, <2>1, <2>2
<1>10. CASE PhLeftovers
  <2>1. /\ UNCHANGED phTool /\ UNCHANGED <<phChild, phPhase>> /\ phManifest \subseteq phManifest'
    BY <1>10 DEF PhLeftovers
  <2>2. PhValidated => PhValidated'
    BY <1>f, <2>1 DEF PhValidated
  <2> QED
    BY <1>v, <2>1, <2>2
<1>11. CASE PhClose
  BY <1>11, <1>v, <1>c DEF PhClose, PhManifestInv, PhWalkInv
<1>12. CASE PhExitCode
  BY <1>12, <1>v, <1>c DEF PhExitCode
<1>13. CASE PhStop
  BY <1>13, <1>v, <1>c DEF PhStop, PhEndedInv
<1>14. CASE PhStoppedCode
  BY <1>14, <1>v, <1>c DEF PhStoppedCode
<1>15. CASE PhCarve
  BY <1>15, <1>v, <1>c DEF PhCarve
<1>16. CASE PhReport
  BY <1>16, <1>v, <1>c DEF PhReport
<1>17. CASE PhToolEnds
  BY <1>17, <1>v, <1>c DEF PhToolEnds
<1>18. CASE PhTimePasses
  BY <1>18, <1>v, <1>c DEF PhTimePasses
<1>19. CASE PhPumpStops
  BY <1>19, <1>v, <1>c DEF PhPumpStops
<1>20. CASE PhRaise
  BY <1>20, <1>v, <1>c DEF PhRaise
<1>21. CASE PhKill
  BY <1>21, <1>v, <1>c DEF PhKill
<1>22. CASE UNCHANGED phVars
  BY <1>22, <1>v, <1>c DEF phVars
<1> QED
  BY <1>1, <1>2, <1>3, <1>4, <1>5, <1>6, <1>7, <1>8, <1>9, <1>10, <1>11, <1>12, <1>13, <1>14, <1>15, <1>16, <1>17, <1>18, <1>19, <1>20, <1>21, <1>22 DEF PhNext, PhStep

\* Nothing has been carved, and nothing is entered in a manifest.
LEMMA PhInvInit == PhInit => PhInv
<1> SUFFICES ASSUME PhInit PROVE PhInv
  OBVIOUS
<1>1. There = {}
  BY DEF PhInit, There
<1>2. PhTypeOK
  <2>1. <<>> \in Seq(Nat)
    BY EmptySeq
  <2> QED
    BY <2>1, PhConstants DEF PhInit, PhTypeOK, PhSteps
<1>3. IsFiniteSet(There)
  BY <1>1, FS_EmptySet
<1> QED
  BY <1>2, <1>3, PhConstants DEF PhInit, PhInv, PhEndedInv, PhManifestInv, PhWalkInv, PhCompleteInv,
     PhAfterLog

\* Each step of the supervisor, of the tool and of others keeps it.
LEMMA PhInvStep == PhInv /\ [PhNext]_phVars => PhInv'
BY PhTypeStep, PhEndedStep, PhManifestStep, PhWalkStep, PhCompleteStep DEF PhInv

\* From the end of the tool to the end of the run, what the supervisor has
\* validated is what the tool left.
THEOREM PhInvariant == PhSpec => []PhInv
<1>1. PhInit => PhInv
  BY PhInvInit
<1>2. PhInv /\ [PhNext]_phVars => PhInv'
  BY PhInvStep
<1> QED
  BY <1>1, <1>2, PTL DEF PhSpec

\* What a run accepts as complete is ended normally, is mapped file by file to
\* a report, and is within the limits, whatever the tool did meanwhile.
THEOREM PhAcceptedIsMappedAlways == PhSpec => []PhAcceptedIsMapped
<1>1. PhInv => PhAcceptedIsMapped
  BY DEF PhInv, PhCompleteInv, PhValidated, PhWithin, PhEntered, PhAcceptedIsMapped
<1> QED
  BY <1>1, PhInvariant, PTL
-----------------------------------------------------------------------------
(* MediaProbe                                                              *)

\* A run is at a row it took from the open ones; what it counted is done.
MpRowInv ==
    /\ mpPc = "bind" => mpOk = {}
    /\ mpOpen \cap mpOk = {}
    /\ mpPc \in {"hash", "tools", "rehash", "record", "index"} =>
          mpAt \in MpRows /\ mpAt \notin mpOpen \cup mpOk
    /\ mpPc = "raised" => mpWhy \in {"failed", "deferred"}

\* What the attempt under way has left so far
MpAttemptInv ==
    /\ mpPc = "hash" => mpState = "processing" /\ ~mpMade
    /\ mpPc \in {"tools", "rehash", "record"} /\ mpMade =>
          mpTries[mpAt] # <<>> /\ Last(mpAt) = NewTry(TRUE)
    /\ mpPc = "index" =>
          /\ mpTries[mpAt] # <<>> /\ Last(mpAt).record = mpState
          /\ ~Last(mpAt).indexed /\ Last(mpAt).intact
    /\ mpPc \in {"tools", "rehash", "record", "index"} /\ mpState = "probe_ok" =>
          mpMade /\ mpAt \in mpGood \ mpUnknown

\* What holds of each attempt, whatever became of it: indexed attempts have a
\* record, and one that says probe_ok is of captures of a supported export.
MpSound(r, try) ==
    /\ try.indexed => try.record # MpNil
    /\ try.record = "probe_ok" => try.captured /\ r \notin mpUnknown
MpAllSound == \A r \in MpRows : \A n \in DOMAIN mpTries[r] : MpSound(r, mpTries[r][n])

\* A row the run counted is proved by its last attempt, until the run ends.
MpProbed(r) ==
    /\ mpTries[r] # <<>> /\ r \in mpGood \ mpUnknown
    /\ Last(r).captured /\ Last(r).record = "probe_ok" /\ Last(r).indexed /\ Last(r).intact
MpOkInv == mpPc # "idle" => \A r \in mpOk : MpProbed(r)

MpInv == MpTypeOK /\ MpRowInv /\ MpAttemptInv /\ MpAllSound /\ MpOkInv
-----------------------------------------------------------------------------
\* An attempt that is marked leaves the others, and they their number.
LEMMA MpMarked ==
  ASSUME NEW s \in Seq(MpTry), NEW n \in 1 .. Len(s), NEW e \in MpTry
  PROVE  LET marked == [s EXCEPT ![n] = e]
         IN  /\ marked \in Seq(MpTry) /\ Len(marked) = Len(s) /\ marked # <<>>
             /\ marked[n] = e /\ \A m \in 1 .. Len(s) : m # n => marked[m] = s[m]
             /\ DOMAIN marked = 1 .. Len(s) /\ DOMAIN s = 1 .. Len(s) /\ Len(s) \in Nat
BY ExceptSeq, LenProperties, EmptySeq

\* A sequence has attempts exactly if it has a last one.
LEMMA MpHasLast ==
  ASSUME NEW s \in Seq(MpTry)
  PROVE  /\ Len(s) \in Nat /\ DOMAIN s = 1 .. Len(s)
         /\ s # <<>> <=> Len(s) \in 1 .. Len(s)
         /\ \A n \in 1 .. Len(s) : s[n] \in MpTry
BY LenProperties, EmptySeq, ElementOfSeq


\* The attempts after a step: a row has one more, or one is marked
MpAdded(r, e) ==
    /\ r \in MpRows /\ e \in MpTry
    /\ mpTries' = [mpTries EXCEPT ![r] = Append(mpTries[r], e)]
MpMarkedAt(r, n, e) ==
    /\ r \in MpRows /\ n \in 1 .. Len(mpTries[r]) /\ e \in MpTry
    /\ MpMark(r, n, e)

\* An attempt that is added is the last of its row.
LEMMA MpAddedFacts ==
  ASSUME mpTries \in [MpRows -> Seq(MpTry)], NEW r, NEW e, MpAdded(r, e)
  PROVE  /\ mpTries' \in [MpRows -> Seq(MpTry)]
         /\ mpTries'[r] # <<>> /\ mpTries'[r][Len(mpTries'[r])] = e
         /\ \A n \in DOMAIN mpTries'[r] :
               mpTries'[r][n] = e \/ (n \in DOMAIN mpTries[r] /\ mpTries'[r][n] = mpTries[r][n])
         /\ \A q \in MpRows : q # r => mpTries'[q] = mpTries[q]
<1>1. mpTries[r] \in Seq(MpTry) /\ e \in MpTry
  BY DEF MpAdded
<1>2. mpTries'[r] = Append(mpTries[r], e) /\ \A q \in MpRows : q # r => mpTries'[q] = mpTries[q]
  BY DEF MpAdded
<1>3. Append(mpTries[r], e) \in Seq(MpTry)
  BY <1>1, SeqAdd
<1>4. mpTries' \in [MpRows -> Seq(MpTry)]
  BY <1>3 DEF MpAdded
<1>5. /\ Append(mpTries[r], e) # <<>>
      /\ Len(Append(mpTries[r], e)) = Len(mpTries[r]) + 1
      /\ Append(mpTries[r], e)[Len(mpTries[r]) + 1] = e
      /\ DOMAIN Append(mpTries[r], e) = 1 .. Len(mpTries[r]) + 1 /\ Len(mpTries[r]) \in Nat
      /\ \A n \in 1 .. Len(mpTries[r]) : Append(mpTries[r], e)[n] = mpTries[r][n]
  BY <1>1, SeqAdd
<1>6. DOMAIN mpTries[r] = 1 .. Len(mpTries[r])
  BY <1>1, MpHasLast
<1> QED
  BY <1>2, <1>4, <1>5, <1>6

\* An attempt that is marked keeps its place, and all others.
LEMMA MpMarkedFacts ==
  ASSUME mpTries \in [MpRows -> Seq(MpTry)], NEW r, NEW n, NEW e, MpMarkedAt(r, n, e)
  PROVE  /\ mpTries' \in [MpRows -> Seq(MpTry)]
         /\ mpTries'[r] # <<>> /\ DOMAIN mpTries'[r] = DOMAIN mpTries[r]
         /\ mpTries[r] # <<>> /\ Len(mpTries'[r]) = Len(mpTries[r])
         /\ mpTries'[r][n] = e /\ n \in DOMAIN mpTries[r]
         /\ \A m \in DOMAIN mpTries[r] : m # n => mpTries'[r][m] = mpTries[r][m]
         /\ \A q \in MpRows : q # r => mpTries'[q] = mpTries[q]
<1>1. mpTries[r] \in Seq(MpTry) /\ n \in 1 .. Len(mpTries[r]) /\ e \in MpTry
  BY DEF MpMarkedAt
<1> DEFINE marked == [mpTries[r] EXCEPT ![n] = e]
<1>2. mpTries'[r] = marked /\ \A q \in MpRows : q # r => mpTries'[q] = mpTries[q]
  BY DEF MpMarkedAt, MpMark
<1>3. /\ marked \in Seq(MpTry) /\ Len(marked) = Len(mpTries[r]) /\ marked # <<>>
      /\ marked[n] = e
      /\ \A m \in 1 .. Len(mpTries[r]) : m # n => marked[m] = mpTries[r][m]
      /\ DOMAIN marked = 1 .. Len(mpTries[r]) /\ DOMAIN mpTries[r] = 1 .. Len(mpTries[r])
  BY <1>1, MpMarked
<1>4. mpTries' \in [MpRows -> Seq(MpTry)]
  BY <1>3 DEF MpMarkedAt, MpMark
<1>5. mpTries[r] # <<>>
  BY <1>1, EmptySeq
<1> QED
  BY <1>1, <1>2, <1>3, <1>4, <1>5

MpWorks == MpTypeOK /\ MpRowInv /\ MpAttemptInv

\* What a step that has a row does to its attempts
LEMMA MpHashMove ==
  ASSUME MpWorks, MpHash
  PROVE  /\ mpAt \in MpRows /\ UNCHANGED <<mpUnknown, mpGood, mpAt>>
         /\ \/ /\ mpPc' \in {"record", "rehash"} /\ ~mpMade' /\ mpState' # "probe_ok"
               /\ UNCHANGED <<mpTries, mpOk>>
            \/ /\ mpPc' = "rows" /\ mpAt \in mpGood /\ MpReusable(mpAt)
               /\ mpTries' = mpTries /\ mpOk' = mpOk \cup {mpAt}
            \/ /\ mpPc' = "tools" /\ mpMade' /\ mpAt \in mpGood \ mpUnknown
               /\ MpAdded(mpAt, NewTry(TRUE)) /\ mpOk' = mpOk
<1>1. /\ mpAt \in MpRows /\ UNCHANGED <<mpUnknown, mpGood, mpAt>> /\ ~mpMade
      /\ NewTry(TRUE) \in MpTry
  BY DEF MpWorks, MpHash, MpRowInv, MpAttemptInv, mpInputs, NewTry, MpTry
<1>a. CASE mpPc' = "record" /\ UNCHANGED <<mpTries, mpMade, mpOk, mpTools>>
  <2>1. mpState' \in {"deferred_resource", "probe_incomplete"}
    BY <1>a DEF MpHash
  <2> QED
    BY <1>1, <1>a, <2>1
<1>b. CASE mpAt \in mpGood /\ MpReusable(mpAt) /\ mpOk' = mpOk \cup {mpAt} /\ mpPc' = "rows" /\ UNCHANGED mpTries
  BY <1>1, <1>b
<1>c. CASE mpPc' = "rehash" /\ mpState' = "deferred_unsupported_signature" /\ UNCHANGED <<mpTries, mpMade, mpOk>>
  BY <1>1, <1>c
<1>d. CASE /\ mpAt \in mpGood /\ MpSupported(mpAt) /\ UNCHANGED mpOk
           /\ mpTries' = [mpTries EXCEPT ![mpAt] = Append(@, NewTry(TRUE))]
           /\ mpMade' = TRUE /\ mpPc' = "tools"
  BY <1>1, <1>d DEF MpAdded, MpSupported
<1> QED
  BY <1>a, <1>b, <1>c, <1>d DEF MpHash

\* A record is the last trace of its attempt.
LEMMA MpRecordMove ==
  ASSUME MpWorks, MpRecord
  PROVE  \/ ~mpMade /\ MpAdded(mpAt, [NewTry(FALSE) EXCEPT !.record = mpState])
         \/ /\ mpMade /\ Last(mpAt) = NewTry(TRUE)
            /\ MpMarkedAt(mpAt, Len(mpTries[mpAt]), [Last(mpAt) EXCEPT !.record = mpState])
<1>1. mpAt \in MpRows /\ mpTries[mpAt] \in Seq(MpTry) /\ mpState \in MpStates
  BY DEF MpWorks, MpTypeOK, MpRowInv, MpRecord
<1>2. /\ [NewTry(FALSE) EXCEPT !.record = mpState] \in MpTry
      /\ [NewTry(TRUE) EXCEPT !.record = mpState] \in MpTry
  BY <1>1 DEF NewTry, MpTry
<1>3. CASE mpMade
  <2>1. mpTries[mpAt] # <<>> /\ Last(mpAt) = NewTry(TRUE)
    BY <1>3 DEF MpWorks, MpRecord, MpAttemptInv
  <2>2. Len(mpTries[mpAt]) \in 1 .. Len(mpTries[mpAt])
    BY <1>1, <2>1, MpHasLast
  <2> QED
    BY <1>1, <1>2, <1>3, <2>1, <2>2 DEF MpRecord, MpMarkedAt
<1>4. CASE ~mpMade
  BY <1>1, <1>2, <1>4 DEF MpRecord, MpAdded
<1> QED
  BY <1>3, <1>4

\* The index comes after the record it names.
LEMMA MpIndexMove ==
  ASSUME MpWorks, MpIndex
  PROVE  /\ Last(mpAt) \in MpTry /\ Last(mpAt).record = mpState
         /\ MpMarkedAt(mpAt, Len(mpTries[mpAt]), [Last(mpAt) EXCEPT !.indexed = TRUE])
<1>1. /\ mpAt \in MpRows /\ mpTries[mpAt] \in Seq(MpTry)
      /\ mpTries[mpAt] # <<>> /\ Last(mpAt).record = mpState
  BY DEF MpWorks, MpTypeOK, MpRowInv, MpAttemptInv, MpIndex
<1>2. Len(mpTries[mpAt]) \in 1 .. Len(mpTries[mpAt]) /\ Last(mpAt) \in MpTry
  BY <1>1, MpHasLast DEF Last
<1>3. [Last(mpAt) EXCEPT !.indexed = TRUE] \in MpTry
  BY <1>2 DEF MpTry
<1> QED
  BY <1>1, <1>2, <1>3 DEF MpIndex, MpMarkedAt

\* Others change captures and records, and never make an attempt.
LEMMA MpAlterMove ==
  ASSUME MpWorks, MpAlter
  PROVE  \/ mpTries' = mpTries
         \/ \E r \in MpRows : \E n \in 1 .. Len(mpTries[r]) :
               /\ mpTries[r][n] \in MpTry /\ n \in DOMAIN mpTries[r]
               /\ MpMarkedAt(r, n, [mpTries[r][n] EXCEPT !.intact = FALSE])
<1>1. ASSUME NEW r \in MpRows, NEW n \in DOMAIN mpTries[r],
             MpMark(r, n, [mpTries[r][n] EXCEPT !.intact = FALSE])
      PROVE  /\ n \in 1 .. Len(mpTries[r]) /\ mpTries[r][n] \in MpTry
             /\ MpMarkedAt(r, n, [mpTries[r][n] EXCEPT !.intact = FALSE])
  <2>1. mpTries[r] \in Seq(MpTry)
    BY DEF MpWorks, MpTypeOK
  <2>2. n \in 1 .. Len(mpTries[r]) /\ mpTries[r][n] \in MpTry
    BY <2>1, MpHasLast
  <2>3. [mpTries[r][n] EXCEPT !.intact = FALSE] \in MpTry
    BY <2>2 DEF MpTry
  <2> QED
    BY <1>1, <2>2, <2>3 DEF MpMarkedAt
<1> QED
  BY <1>1 DEF MpAlter

\* The row a run is at is neither open nor counted.
LEMMA MpRowStep ==
  ASSUME MpTypeOK, MpRowInv, [MpNext]_mpVars
  PROVE  MpRowInv'
<1> USE DEF MpRowInv, MpTypeOK, MpStates, mpInputs, MpRaiseAs, MpSteps
<1>1. CASE MpStart
  BY <1>1 DEF MpStart
<1>2. CASE MpBind
  BY <1>2 DEF MpBind
<1>3. CASE MpRow
  BY <1>3 DEF MpRow
<1>4. CASE MpHash
  BY <1>4 DEF MpHash
<1>5. CASE MpChild
  BY <1>5 DEF MpChild
<1>6. CASE MpRehash
  BY <1>6 DEF MpRehash
<1>7. CASE MpRecord
  BY <1>7 DEF MpRecord
<1>8. CASE MpIndex
  BY <1>8 DEF MpIndex
<1>9. CASE MpFinish
  BY <1>9 DEF MpFinish
<1>10. CASE MpRaise
  BY <1>10 DEF MpRaise
<1>11. CASE MpHandle
  BY <1>11 DEF MpHandle
<1>12. CASE MpHandleOutside
  BY <1>12 DEF MpHandleOutside
<1>13. CASE MpKill
  BY <1>13 DEF MpKill
<1>14. CASE MpAlter
  BY <1>14 DEF MpAlter
<1>15. CASE UNCHANGED mpVars
  BY <1>15 DEF mpVars
<1> QED
  BY <1>1, <1>2, <1>3, <1>4, <1>5, <1>6, <1>7, <1>8, <1>9,
     <1>10, <1>11, <1>12, <1>13, <1>14, <1>15 DEF MpNext

\* An attempt that is sound can be added or be put in another's place.
LEMMA MpAddedSound ==
  ASSUME mpTries \in [MpRows -> Seq(MpTry)], MpAllSound, mpUnknown' = mpUnknown,
         NEW r, NEW e, MpAdded(r, e), MpSound(r, e)
  PROVE  mpTries' \in [MpRows -> Seq(MpTry)] /\ MpAllSound'
<1>1. /\ mpTries' \in [MpRows -> Seq(MpTry)]
      /\ \A n \in DOMAIN mpTries'[r] :
               mpTries'[r][n] = e \/ (n \in DOMAIN mpTries[r] /\ mpTries'[r][n] = mpTries[r][n])
      /\ \A q \in MpRows : q # r => mpTries'[q] = mpTries[q]
  BY MpAddedFacts
<1>2. ASSUME NEW q \in MpRows, NEW n \in DOMAIN mpTries'[q]
      PROVE  MpSound(q, mpTries'[q][n])
  <2>1. CASE q = r
    BY <1>1, <1>2, <2>1 DEF MpAllSound
  <2>2. CASE q # r
    BY <1>1, <1>2, <2>2 DEF MpAllSound
  <2> QED
    BY <2>1, <2>2
<1> QED
  BY <1>1, <1>2 DEF MpAllSound, MpSound

\* Neither does one that is marked make the others unsound.
LEMMA MpMarkedSound ==
  ASSUME mpTries \in [MpRows -> Seq(MpTry)], MpAllSound, mpUnknown' = mpUnknown,
         NEW r, NEW n, NEW e, MpMarkedAt(r, n, e), MpSound(r, e)
  PROVE  mpTries' \in [MpRows -> Seq(MpTry)] /\ MpAllSound'
<1>1. /\ mpTries' \in [MpRows -> Seq(MpTry)]
      /\ DOMAIN mpTries'[r] = DOMAIN mpTries[r]
      /\ mpTries'[r][n] = e
      /\ \A m \in DOMAIN mpTries[r] : m # n => mpTries'[r][m] = mpTries[r][m]
      /\ \A q \in MpRows : q # r => mpTries'[q] = mpTries[q]
  BY MpMarkedFacts
<1>2. ASSUME NEW q \in MpRows, NEW m \in DOMAIN mpTries'[q]
      PROVE  MpSound(q, mpTries'[q][m])
  <2>1. CASE q = r
    BY <1>1, <1>2, <2>1 DEF MpAllSound
  <2>2. CASE q # r
    BY <1>1, <1>2, <2>2 DEF MpAllSound
  <2> QED
    BY <2>1, <2>2
<1> QED
  BY <1>1, <1>2 DEF MpAllSound, MpSound

\* Every step keeps the attempts in their type and sound.
LEMMA MpSoundStep ==
  ASSUME MpWorks, MpAllSound, [MpNext]_mpVars
  PROVE  mpTries' \in [MpRows -> Seq(MpTry)] /\ MpAllSound'
<1>t. mpTries \in [MpRows -> Seq(MpTry)] /\ mpState \in MpStates
  BY DEF MpWorks, MpTypeOK
<1>u. mpUnknown' = mpUnknown
  BY DEF MpNext, mpVars, mpInputs, MpStart, MpBind, MpRow, MpHash, MpChild, MpRehash,
         MpRecord, MpIndex, MpFinish, MpRaise, MpHandle, MpHandleOutside, MpKill, MpAlter
<1>s. mpTries' = mpTries => mpTries' \in [MpRows -> Seq(MpTry)] /\ MpAllSound'
  BY <1>t, <1>u DEF MpAllSound, MpSound
<1>a. /\ NewTry(FALSE) \in MpTry /\ NewTry(TRUE) \in MpTry
      /\ NewTry(TRUE).record = MpNil /\ NewTry(FALSE).record = MpNil
      /\ NewTry(TRUE).captured /\ ~NewTry(TRUE).indexed /\ ~NewTry(FALSE).indexed
  BY DEF NewTry, MpTry
<1>n. MpNil # "probe_ok" /\ mpState # MpNil
  BY <1>t, MpConstants DEF MpStates
<1>b. ASSUME NEW e \in MpTry
      PROVE  LET recorded == [e EXCEPT !.record = mpState]
                 indexed == [e EXCEPT !.indexed = TRUE]
                 changed == [e EXCEPT !.intact = FALSE]
             IN  /\ recorded.record = mpState /\ recorded.captured = e.captured
                 /\ indexed.record = e.record /\ indexed.captured = e.captured
                 /\ changed.record = e.record /\ changed.captured = e.captured
                 /\ changed.indexed = e.indexed
  BY DEF MpTry
<1>c. ASSUME NEW r \in MpRows, NEW n \in DOMAIN mpTries[r]
      PROVE  mpTries[r][n] \in MpTry /\ MpSound(r, mpTries[r][n])
  BY <1>t, MpHasLast DEF MpAllSound
<1>1. CASE MpStart
  BY <1>1, <1>s DEF MpStart
<1>2. CASE MpBind
  BY <1>2, <1>s DEF MpBind
<1>3. CASE MpRow
  BY <1>3, <1>s DEF MpRow
<1>4. CASE MpHash
  <2>1. CASE MpAdded(mpAt, NewTry(TRUE))
    BY <1>t, <1>u, <2>1, <1>a, <1>n, MpAddedSound DEF MpSound
  <2> QED
    BY <1>4, <1>t, <1>u, <1>s, <2>1, MpHashMove
<1>5. CASE MpChild
  BY <1>5, <1>s DEF MpChild
<1>6. CASE MpRehash
  BY <1>6, <1>s DEF MpRehash
<1>7. CASE MpRecord
  <2>1. CASE ~mpMade /\ MpAdded(mpAt, [NewTry(FALSE) EXCEPT !.record = mpState])
    <3>1. mpState # "probe_ok"
      BY <1>7, <2>1 DEF MpRecord, MpWorks, MpAttemptInv
    <3>2. MpSound(mpAt, [NewTry(FALSE) EXCEPT !.record = mpState])
      BY <3>1, <1>a, <1>b, <1>n DEF MpSound
    <3> QED
      BY <1>t, <1>u, <2>1, <3>2, MpAddedSound
  <2>2. CASE /\ mpMade /\ Last(mpAt) = NewTry(TRUE)
             /\ MpMarkedAt(mpAt, Len(mpTries[mpAt]), [Last(mpAt) EXCEPT !.record = mpState])
    <3>1. mpState = "probe_ok" => mpAt \notin mpUnknown
      BY <1>7 DEF MpRecord, MpWorks, MpAttemptInv
    <3>2. MpSound(mpAt, [NewTry(TRUE) EXCEPT !.record = mpState])
      BY <3>1, <1>a, <1>b, <1>n DEF MpSound
    <3>3. MpSound(mpAt, [Last(mpAt) EXCEPT !.record = mpState])
      BY <2>2, <3>2
    <3> QED
      BY <1>t, <1>u, <2>2, <3>3, MpMarkedSound
  <2> QED
    BY <1>7, <2>1, <2>2, MpRecordMove
<1>8. CASE MpIndex
  <2>1. /\ Last(mpAt) \in MpTry /\ Last(mpAt).record = mpState
        /\ MpMarkedAt(mpAt, Len(mpTries[mpAt]), [Last(mpAt) EXCEPT !.indexed = TRUE])
    BY <1>8, MpIndexMove
  <2>2. MpSound(mpAt, Last(mpAt))
    BY <1>t, <1>c, <2>1, MpMarkedFacts DEF MpMarkedAt, Last
  <2>3. MpSound(mpAt, [Last(mpAt) EXCEPT !.indexed = TRUE])
    BY <2>1, <2>2, <1>b, <1>n DEF MpSound
  <2> QED
    BY <1>t, <1>u, <2>1, <2>3, MpMarkedSound
<1>9. CASE MpFinish
  BY <1>9, <1>s DEF MpFinish
<1>10. CASE MpRaise
  BY <1>10, <1>s DEF MpRaise
<1>11. CASE MpHandle
  BY <1>11, <1>s DEF MpHandle
<1>12. CASE MpHandleOutside
  BY <1>12, <1>s DEF MpHandleOutside
<1>13. CASE MpKill
  BY <1>13, <1>s DEF MpKill
<1>14. CASE MpAlter
  <2>1. ASSUME NEW r \in MpRows, NEW n \in 1 .. Len(mpTries[r]),
               mpTries[r][n] \in MpTry /\ n \in DOMAIN mpTries[r],
               MpMarkedAt(r, n, [mpTries[r][n] EXCEPT !.intact = FALSE])
        PROVE  mpTries' \in [MpRows -> Seq(MpTry)] /\ MpAllSound'
    <3>1. MpSound(r, [mpTries[r][n] EXCEPT !.intact = FALSE])
      BY <2>1, <1>b, <1>c DEF MpSound
    <3> QED
      BY <1>t, <1>u, <2>1, <3>1, MpMarkedSound
  <2> QED
    BY <1>14, <1>t, <1>u, <1>s, <2>1, MpAlterMove
<1>15. CASE UNCHANGED mpVars
  BY <1>15, <1>s DEF mpVars
<1> QED
  BY <1>1, <1>2, <1>3, <1>4, <1>5, <1>6, <1>7, <1>8, <1>9,
     <1>10, <1>11, <1>12, <1>13, <1>14, <1>15 DEF MpNext

\* What an attempt has left so far is as the step the run is at says.
LEMMA MpAttemptStep ==
  ASSUME MpWorks, [MpNext]_mpVars
  PROVE  MpAttemptInv'
<1>t. mpTries \in [MpRows -> Seq(MpTry)] /\ mpState \in MpStates
  BY DEF MpWorks, MpTypeOK
<1>n. ASSUME NEW captured \in BOOLEAN
      PROVE  /\ [NewTry(captured) EXCEPT !.record = mpState].record = mpState
             /\ ~[NewTry(captured) EXCEPT !.record = mpState].indexed
             /\ [NewTry(captured) EXCEPT !.record = mpState].intact
  BY DEF NewTry
<1> USE DEF MpAttemptInv, MpWorks, mpInputs, MpRaiseAs, MpStates, MpSteps
<1>1. CASE MpStart
  BY <1>1 DEF MpStart
<1>2. CASE MpBind
  BY <1>2 DEF MpBind
<1>3. CASE MpRow
  BY <1>3 DEF MpRow
<1>4. CASE MpHash
  <2>1. CASE MpAdded(mpAt, NewTry(TRUE)) /\ mpPc' = "tools"
    <3>1. mpTries'[mpAt] # <<>> /\ mpTries'[mpAt][Len(mpTries'[mpAt])] = NewTry(TRUE)
      BY <1>t, <2>1, MpAddedFacts
    <3> QED
      BY <1>4, <2>1, <3>1, MpHashMove DEF Last, NewTry
  <2> QED
    BY <1>4, <2>1, MpHashMove
<1>5. CASE MpChild
  BY <1>5 DEF MpChild, Last
<1>6. CASE MpRehash
  BY <1>6 DEF MpRehash, Last
<1>7. CASE MpRecord
  <2>1. CASE ~mpMade /\ MpAdded(mpAt, [NewTry(FALSE) EXCEPT !.record = mpState])
    <3>1. /\ mpTries'[mpAt] # <<>>
          /\ mpTries'[mpAt][Len(mpTries'[mpAt])] = [NewTry(FALSE) EXCEPT !.record = mpState]
      BY <1>t, <2>1, MpAddedFacts
    <3> QED
      BY <1>7, <1>n, <3>1 DEF MpRecord, Last
  <2>2. CASE /\ mpMade /\ Last(mpAt) = NewTry(TRUE)
             /\ MpMarkedAt(mpAt, Len(mpTries[mpAt]), [Last(mpAt) EXCEPT !.record = mpState])
    <3>1. /\ mpTries'[mpAt] # <<>>
          /\ mpTries'[mpAt][Len(mpTries'[mpAt])] = [NewTry(TRUE) EXCEPT !.record = mpState]
      BY <1>t, <2>2, MpMarkedFacts
    <3> QED
      BY <1>7, <1>n, <3>1 DEF MpRecord, Last
  <2> QED
    BY <1>7, <2>1, <2>2, MpRecordMove
<1>8. CASE MpIndex
  BY <1>8 DEF MpIndex
<1>9. CASE MpFinish
  BY <1>9 DEF MpFinish
<1>10. CASE MpRaise
  BY <1>10 DEF MpRaise
<1>11. CASE MpHandle
  BY <1>11 DEF MpHandle
<1>12. CASE MpHandleOutside
  BY <1>12 DEF MpHandleOutside
<1>13. CASE MpKill
  BY <1>13 DEF MpKill
<1>14. CASE MpAlter
  BY <1>14 DEF MpAlter
<1>15. CASE UNCHANGED mpVars
  BY <1>15 DEF mpVars, Last
<1> QED
  BY <1>1, <1>2, <1>3, <1>4, <1>5, <1>6, <1>7, <1>8, <1>9,
     <1>10, <1>11, <1>12, <1>13, <1>14, <1>15 DEF MpNext

\* What is counted stays proved while the run goes on.
LEMMA MpOkStep ==
  ASSUME MpWorks, MpAllSound, MpOkInv, [MpNext]_mpVars
  PROVE  MpOkInv'
<1>t. mpTries \in [MpRows -> Seq(MpTry)] /\ mpState \in MpStates /\ mpOk \subseteq MpRows
  BY DEF MpWorks, MpTypeOK
<1>o. mpPc \in {"hash", "tools", "rehash", "record", "index"} => mpAt \in MpRows /\ mpAt \notin mpOk
  BY DEF MpWorks, MpRowInv
<1>k. /\ mpPc # "idle" => \A r \in mpOk : MpProbed(r)
      /\ \A r : (mpTries'[r] = mpTries[r] /\ mpGood' = mpGood /\ mpUnknown' = mpUnknown /\ MpProbed(r))
                   => MpProbed(r)'
  BY DEF MpOkInv, MpProbed, Last
<1>q. (\A r \in mpOk' : MpProbed(r)') => MpOkInv'
  BY DEF MpOkInv
<1>1. CASE MpStart
  BY <1>1 DEF MpStart, MpOkInv
<1>2. CASE MpBind
  BY <1>2, <1>k DEF MpBind, mpInputs, MpRaiseAs, MpOkInv, MpProbed, Last
<1>3. CASE MpRow
  BY <1>3, <1>k DEF MpRow, mpInputs, MpRaiseAs, MpOkInv, MpProbed, Last
<1>4. CASE MpHash
  <2>1. CASE UNCHANGED <<mpTries, mpOk, mpGood, mpUnknown>>
    BY <1>4, <1>k, <1>q, <2>1 DEF MpHash
  <2>2. CASE MpAdded(mpAt, NewTry(TRUE)) /\ mpOk' = mpOk
    <3>1. \A q \in MpRows : q # mpAt => mpTries'[q] = mpTries[q]
      BY <1>t, <2>2, MpAddedFacts
    <3> QED
      BY <1>4, <1>t, <1>o, <1>k, <1>q, <2>2, <3>1, MpHashMove DEF MpHash
  <2>3. CASE mpTries' = mpTries /\ mpOk' = mpOk \cup {mpAt} /\ MpReusable(mpAt) /\ mpAt \in mpGood
    <3>1. Len(mpTries[mpAt]) \in DOMAIN mpTries[mpAt]
      BY <1>4, <1>t, <1>o, <2>3, MpHasLast DEF MpHash, MpReusable
    <3>2. MpSound(mpAt, Last(mpAt))
      BY <1>4, <1>o, <3>1 DEF MpHash, MpAllSound, Last
    <3>3. MpProbed(mpAt)
      BY <2>3, <3>2 DEF MpProbed, MpReusable, MpSound
    <3> QED
      BY <1>4, <1>k, <1>q, <2>3, <3>3, MpHashMove DEF MpHash
  <2> QED
    BY <1>4, <2>1, <2>2, <2>3, MpHashMove
<1>5. CASE MpChild
  BY <1>5, <1>k DEF MpChild, mpInputs, MpRaiseAs, MpOkInv, MpProbed, Last
<1>6. CASE MpRehash
  BY <1>6, <1>k DEF MpRehash, mpInputs, MpRaiseAs, MpOkInv, MpProbed, Last
<1>7. CASE MpRecord
  <2>1. \A q \in MpRows : q # mpAt => mpTries'[q] = mpTries[q]
    <3>1. CASE MpAdded(mpAt, [NewTry(FALSE) EXCEPT !.record = mpState])
      BY <1>t, <3>1, MpAddedFacts
    <3>2. CASE MpMarkedAt(mpAt, Len(mpTries[mpAt]), [Last(mpAt) EXCEPT !.record = mpState])
      BY <1>t, <3>2, MpMarkedFacts
    <3> QED
      BY <1>7, <3>1, <3>2, MpRecordMove
  <2>2. mpPc # "idle" /\ mpAt \notin mpOk /\ UNCHANGED <<mpOk, mpGood, mpUnknown>>
    BY <1>7, <1>o DEF MpRecord, mpInputs
  <2> QED
    BY <1>t, <1>k, <1>q, <2>1, <2>2
<1>8. CASE MpIndex
  <2>1. /\ Last(mpAt) \in MpTry /\ Last(mpAt).record = mpState
        /\ MpMarkedAt(mpAt, Len(mpTries[mpAt]), [Last(mpAt) EXCEPT !.indexed = TRUE])
    BY <1>8, MpIndexMove
  <2>2. /\ \A q \in MpRows : q # mpAt => mpTries'[q] = mpTries[q]
        /\ mpTries'[mpAt] # <<>>
        /\ mpTries'[mpAt][Len(mpTries'[mpAt])] = [Last(mpAt) EXCEPT !.indexed = TRUE]
        /\ Len(mpTries[mpAt]) \in DOMAIN mpTries[mpAt]
    BY <1>t, <2>1, MpMarkedFacts
  <2>3. ASSUME mpState = "probe_ok" PROVE MpProbed(mpAt)'
    <3>1. MpSound(mpAt, Last(mpAt)) /\ Last(mpAt).intact /\ mpAt \in mpGood \ mpUnknown
      BY <1>8, <1>o, <2>2, <2>3 DEF MpIndex, MpAllSound, Last, MpWorks, MpAttemptInv
    <3>2. LET e == [Last(mpAt) EXCEPT !.indexed = TRUE]
          IN  e.captured /\ e.record = "probe_ok" /\ e.indexed /\ e.intact
      BY <2>1, <2>3, <3>1 DEF MpTry, MpSound
    <3> QED
      BY <1>8, <2>2, <3>1, <3>2 DEF MpIndex, mpInputs, MpProbed, Last
  <2>4. /\ mpPc # "idle" /\ mpAt \notin mpOk /\ UNCHANGED <<mpAt, mpGood, mpUnknown>>
        /\ mpOk' = IF mpState = "probe_ok" THEN mpOk \cup {mpAt} ELSE mpOk
    BY <1>8, <1>o DEF MpIndex, mpInputs
  <2>5. \A q \in mpOk : MpProbed(q)'
    BY <1>t, <1>k, <2>2, <2>4
  <2>6. mpState = "probe_ok" => \A q : q = mpAt => MpProbed(q)'
    BY <2>3, <2>4 DEF MpProbed, Last
  <2> QED
    BY <1>q, <2>4, <2>5, <2>6
<1>9. CASE MpFinish
  BY <1>9, <1>k DEF MpFinish, mpInputs, MpRaiseAs, MpOkInv, MpProbed, Last
<1>10. CASE MpRaise
  BY <1>10, <1>k DEF MpRaise, mpInputs, MpRaiseAs, MpOkInv, MpProbed, Last
<1>11. CASE MpHandle
  BY <1>11, <1>k DEF MpHandle, mpInputs, MpRaiseAs, MpOkInv, MpProbed, Last
<1>12. CASE MpHandleOutside
  BY <1>12 DEF MpHandleOutside, MpOkInv
<1>13. CASE MpKill
  BY <1>13 DEF MpKill, MpOkInv
<1>14. CASE MpAlter
  BY <1>14 DEF MpAlter, MpOkInv
<1>15. CASE UNCHANGED mpVars
  BY <1>15, <1>k DEF mpVars, mpInputs, MpOkInv
<1> QED
  BY <1>1, <1>2, <1>3, <1>4, <1>5, <1>6, <1>7, <1>8, <1>9,
     <1>10, <1>11, <1>12, <1>13, <1>14, <1>15 DEF MpNext

\* Every step keeps the files, the records and the locals in their types.
LEMMA MpTypeStep ==
  ASSUME MpWorks, MpAllSound, [MpNext]_mpVars
  PROVE  MpTypeOK'
<1> DEFINE Rest == /\ mpGood' \subseteq MpRows /\ mpOk' \subseteq MpRows /\ mpOpen' \subseteq MpRows
                   /\ mpPhase' \in MpPhases /\ mpPc' \in MpSteps
                   /\ mpState' \in MpStates
                   /\ mpAt' \in MpRows \cup {MpNil}
                   /\ mpWhy' \in {MpNil, "failed", "deferred"}
<1>r. /\ mpGood \subseteq MpRows /\ mpOk \subseteq MpRows /\ mpOpen \subseteq MpRows
      /\ mpPhase \in MpPhases /\ mpPc \in MpSteps
      /\ mpState \in MpStates
      /\ mpAt \in MpRows \cup {MpNil}
      /\ mpWhy \in {MpNil, "failed", "deferred"}
      /\ mpPc = "hash" => mpAt \in MpRows
      /\ mpPc = "index" => mpAt \in MpRows
      /\ mpPc = "raised" => mpWhy \in {"failed", "deferred"}
  BY DEF MpWorks, MpTypeOK, MpRowInv
<1>s. mpTries' \in [MpRows -> Seq(MpTry)] /\ MpAllSound'
  BY MpSoundStep
<1>z. Rest => MpTypeOK'
  BY <1>s DEF MpTypeOK, MpAllSound, MpSound
<1>1. CASE MpStart
  BY <1>1, <1>r, <1>z DEF MpStart, MpStates, MpPhases, MpSteps, mpInputs, MpRaiseAs
<1>2. CASE MpBind
  BY <1>2, <1>r, <1>z DEF MpBind, MpStates, MpPhases, MpSteps, mpInputs, MpRaiseAs
<1>3. CASE MpRow
  BY <1>3, <1>r, <1>z DEF MpRow, MpStates, MpPhases, MpSteps, mpInputs, MpRaiseAs
<1>4. CASE MpHash
  BY <1>4, <1>r, <1>z DEF MpHash, MpStates, MpPhases, MpSteps, mpInputs, MpRaiseAs
<1>5. CASE MpChild
  BY <1>5, <1>r, <1>z DEF MpChild, MpStates, MpPhases, MpSteps, mpInputs, MpRaiseAs
<1>6. CASE MpRehash
  BY <1>6, <1>r, <1>z DEF MpRehash, MpStates, MpPhases, MpSteps, mpInputs, MpRaiseAs
<1>7. CASE MpRecord
  BY <1>7, <1>r, <1>z DEF MpRecord, MpStates, MpPhases, MpSteps, mpInputs, MpRaiseAs
<1>8. CASE MpIndex
  BY <1>8, <1>r, <1>z DEF MpIndex, MpStates, MpPhases, MpSteps, mpInputs, MpRaiseAs
<1>9. CASE MpFinish
  BY <1>9, <1>r, <1>z DEF MpFinish, MpStates, MpPhases, MpSteps, mpInputs, MpRaiseAs
<1>10. CASE MpRaise
  BY <1>10, <1>r, <1>z DEF MpRaise, MpStates, MpPhases, MpSteps, mpInputs, MpRaiseAs
<1>11. CASE MpHandle
  BY <1>11, <1>r, <1>z DEF MpHandle, MpStates, MpPhases, MpSteps, mpInputs, MpRaiseAs
<1>12. CASE MpHandleOutside
  BY <1>12, <1>r, <1>z DEF MpHandleOutside, MpStates, MpPhases, MpSteps, mpInputs, MpRaiseAs
<1>13. CASE MpKill
  BY <1>13, <1>r, <1>z DEF MpKill, MpStates, MpPhases, MpSteps, mpInputs, MpRaiseAs
<1>14. CASE MpAlter
  BY <1>14, <1>r, <1>z DEF MpAlter, MpStates, MpPhases, MpSteps, mpInputs, MpRaiseAs
<1>15. CASE UNCHANGED mpVars
  BY <1>15, <1>r, <1>z DEF mpVars, mpInputs
<1> QED
  BY <1>1, <1>2, <1>3, <1>4, <1>5, <1>6, <1>7, <1>8, <1>9,
     <1>10, <1>11, <1>12, <1>13, <1>14, <1>15 DEF MpNext

\* No row has been tried.
LEMMA MpInvInit == MpInit => MpInv
<1>1. ASSUME MpInit, NEW r \in MpRows PROVE mpTries[r] = <<>> /\ DOMAIN mpTries[r] = {}
  BY <1>1 DEF MpInit
<1>2. MpInit => mpTries \in [MpRows -> Seq(MpTry)]
  BY EmptySeq DEF MpInit
<1>3. MpInit => MpAllSound
  BY <1>1 DEF MpAllSound
<1>4. ASSUME MpInit PROVE MpTypeOK
  BY <1>1, <1>2, <1>4 DEF MpInit, MpTypeOK, MpPhases, MpSteps, MpStates
<1> QED
  BY <1>3, <1>4 DEF MpInit, MpInv, MpRowInv, MpAttemptInv, MpOkInv

\* Every step keeps every part.
LEMMA MpInvStep ==
  ASSUME MpInv, [MpNext]_mpVars
  PROVE  MpInv'
<1>1. MpWorks
  BY DEF MpInv, MpWorks
<1> QED
  BY <1>1, MpTypeStep, MpRowStep, MpAttemptStep, MpSoundStep, MpOkStep DEF MpInv

\* A batch keeps what its run has counted, over kills, resumes and changes by
\* others between the runs.
THEOREM MpInvariant == MpSpec => []MpInv
  BY MpInvInit, MpInvStep, PTL DEF MpSpec

\* Only the end of a run over all rows says complete, and what it counted has
\* a last attempt by both tools that is recorded, indexed and intact.
THEOREM MpCompleteIsProbedAlways == MpSpec => MpCompleteIsProbed
<1> DEFINE Probed(r) == /\ mpTries[r] # <<>> /\ r \in mpGood \ mpUnknown
                        /\ Last(r) = [captured |-> TRUE, record |-> "probe_ok",
                                      indexed |-> TRUE, intact |-> TRUE]
           Complete == (mpPhase # "complete" /\ mpPhase' = "complete") =>
                           mpSource /\ \A r \in MpRows : Probed(r)
<1>1. ASSUME MpInv, [MpNext]_mpVars, mpPhase # "complete", mpPhase' = "complete"
      PROVE  mpSource /\ \A r \in MpRows : Probed(r)
  <2>1. MpFinish /\ mpSource /\ mpOk = MpRows
    BY <1>1
    DEF MpNext, mpVars, mpInputs, MpStart, MpBind, MpRow, MpHash, MpChild, MpRehash, MpRecord,
        MpIndex, MpFinish, MpRaise, MpHandle, MpHandleOutside, MpKill, MpAlter, MpRaiseAs,
        MpInv, MpRowInv
  <2>2. \A r \in MpRows : MpProbed(r) /\ mpTries[r] \in Seq(MpTry)
    BY <1>1, <2>1 DEF MpInv, MpOkInv, MpFinish, MpTypeOK
  <2>3. ASSUME NEW r \in MpRows PROVE Probed(r)
    <3>1. mpTries[r] # <<>> /\ Last(r) \in MpTry
      BY <2>2, MpHasLast DEF MpProbed, Last
    <3>2. /\ Last(r).captured = TRUE /\ Last(r).record = "probe_ok"
          /\ Last(r).indexed = TRUE /\ Last(r).intact = TRUE
      BY <2>2, <3>1 DEF MpProbed, MpTry
    <3> QED
      BY <2>2, <3>1, <3>2 DEF MpTry, MpProbed
  <2> QED
    BY <2>1, <2>3
<1>2. MpInv /\ [MpNext]_mpVars => [Complete]_mpVars
  BY <1>1
<1> QED
  BY <1>2, MpInvariant, PTL DEF MpSpec, MpCompleteIsProbed
-----------------------------------------------------------------------------
(* The composition                                                         *)

\* The three routes of the checked instance, whatever their constants, keep
\* the shapes of all components' states.
THEOREM RecoveryTypes == Spec => []TypeOK
<1>1. Init => CrInit /\ PhInit /\ MpInit
  BY DEF Init
<1>2. [Next]_vars => [CrNext]_crVars /\ [PhNext]_phVars /\ [MpNext]_mpVars
  BY DEF Next, vars
<1>3. Spec => CrSpec /\ PhSpec /\ MpSpec
  BY <1>1, <1>2, PTL DEF Spec, CrSpec, PhSpec, MpSpec
<1>4. CrInv /\ PhInv /\ MpInv => TypeOK
  BY DEF CrInv, PhInv, MpInv, TypeOK
<1> QED
  BY <1>3, <1>4, CrInvariant, PhInvariant, MpInvariant, PTL
=============================================================================
