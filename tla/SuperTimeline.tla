--------------------------- MODULE SuperTimeline ----------------------------
(***************************************************************************)
(* scripts/build_super_timeline.py: the events of several timelines are    *)
(* sorted in memory by chunks, the chunks merged with a heap, and the      *)
(* merged events written to partial files, to the summary too as long as   *)
(* that has room.  When all files and their provenance are complete they   *)
(* are renamed into place one after the other.                             *)
(*                                                                         *)
(* A row is its time or StBad, when it cannot be made an event.  The CSV   *)
(* and the HTML of the same events are not told apart from the JSONL and   *)
(* the summary: they are files whose contents are those two lists.         *)
(***************************************************************************)
EXTENDS Integers, Sequences, FiniteSets

CONSTANTS
    StManifests,    \* what a manifest may list: sequences of [label, rows]
    StTold,         \* times that the expressions for the summary match
    StChunk,        \* events of a chunk
    StSummaryLimit, \* events of the summary
    StMaxRuns,      \* bound: runs started
    StMaxEvents,    \* bound: failures and kills
    StBad, StNil

StOrder == <<"jsonl", "csv", "summary_csv", "summary_html">>
StFiles == {StOrder[i] : i \in DOMAIN StOrder}

ASSUME StConstants ==
    /\ StManifests \subseteq Seq([label : Nat, rows : Seq(Nat \cup {StBad})])
    /\ StChunk \in Nat \ {0} /\ StSummaryLimit \in Nat
    /\ StMaxRuns \in Nat /\ StMaxEvents \in Nat
    /\ StBad \notin Nat

VARIABLES
    stFile,     \* the four outputs: StNil or the events they hold
    stProv,     \* provenance: StNil or [manifest, hashes, count, rejected, matches]
    stPc,       \* what the run does next
    stManifest, \* the manifest of this run
    stAt,       \* the input it reads, and
    stRow,      \* the row of it
    stRecords,  \* events in memory
    stChunks,   \* the chunks: what is still to be merged of each
    stRejected, \* rows that were rejected
    stMerged,   \* events written so far, in their order, and
    stSummary,  \* those of them in the summary
    stMatches,  \* how many would have been
    stLeft,     \* outputs that are still to be renamed
    stRuns, stEvents

stWork == <<stManifest, stAt, stRow, stRecords, stChunks, stRejected, stMerged, stSummary, stMatches>>
stVars == <<stFile, stProv, stPc, stWork, stLeft, stRuns, stEvents>>

StSteps == {"idle", "read", "merge", "unlink", "rename", "provenance"}

\* sort_key of normalize_event: time, labels of evidence and source, input, row
KeyBefore(d, e) ==
    \/ d.time < e.time
    \/ d.time = e.time /\ d.label < e.label
    \/ d.time = e.time /\ d.label = e.label /\ d.input < e.input
    \/ d.time = e.time /\ d.label = e.label /\ d.input = e.input /\ d.row < e.row

StInit ==
    /\ stFile = [f \in StFiles |-> StNil] /\ stProv = StNil
    /\ stPc = "idle" /\ stManifest = <<>> /\ stAt = 1 /\ stRow = 1
    /\ stRecords = {} /\ stChunks = <<>> /\ stRejected = 0
    /\ stMerged = <<>> /\ stSummary = <<>> /\ stMatches = 0
    /\ stLeft = <<>> /\ stRuns = 0 /\ stEvents = 0

StEvent == stEvents < StMaxEvents /\ stEvents' = stEvents + 1

\* The temporary directory and the partial files are removed, however it ends.
StForget ==
    /\ stManifest' = <<>> /\ stAt' = 1 /\ stRow' = 1
    /\ stRecords' = {} /\ stChunks' = <<>> /\ stRejected' = 0
    /\ stMerged' = <<>> /\ stSummary' = <<>> /\ stMatches' = 0
    /\ stLeft' = <<>>
-----------------------------------------------------------------------------
\* Outputs of an earlier run are in the way unless --force is given; a run that
\* is refused for them changes nothing.
StStart ==
    /\ stPc = "idle" /\ stRuns < StMaxRuns
    /\ stManifest' \in StManifests
    /\ stPc' = "read"
    /\ stRuns' = stRuns + 1
    /\ UNCHANGED <<stFile, stProv, stAt, stRow, stRecords, stChunks, stRejected, stMerged,
                   stSummary, stMatches, stLeft, stEvents>>

\* A set of events in the order of their keys, which no two share
SortedByKey(records) ==
    CHOOSE s \in [1 .. Cardinality(records) -> records] :
        \A i, j \in DOMAIN s : i < j => KeyBefore(s[i], s[j])

NextRow == stManifest[stAt].rows[stRow]

\* normalize_event: the event of a row, with all that its key is made of
Normalized == [time |-> NextRow, label |-> stManifest[stAt].label, input |-> stAt, row |-> stRow]

\* The next row is an event, or one more rejected.  A full chunk is sorted and
\* written.
StReadRow ==
    /\ stPc = "read" /\ stAt <= Len(stManifest) /\ stRow <= Len(stManifest[stAt].rows)
    /\ LET now == stRecords \cup (IF NextRow = StBad THEN {} ELSE {Normalized})
       IN  /\ stRejected' = stRejected + (IF NextRow = StBad THEN 1 ELSE 0)
           /\ IF Cardinality(now) >= StChunk
              THEN stChunks' = Append(stChunks, SortedByKey(now)) /\ stRecords' = {}
              ELSE stRecords' = now /\ UNCHANGED stChunks
    /\ stRow' = stRow + 1
    /\ UNCHANGED <<stFile, stProv, stPc, stManifest, stAt, stMerged, stSummary, stMatches,
                   stLeft, stRuns, stEvents>>

StNextInput ==
    /\ stPc = "read" /\ stAt <= Len(stManifest) /\ stRow > Len(stManifest[stAt].rows)
    /\ stAt' = stAt + 1 /\ stRow' = 1
    /\ UNCHANGED <<stFile, stProv, stPc, stManifest, stRecords, stChunks, stRejected, stMerged,
                   stSummary, stMatches, stLeft, stRuns, stEvents>>

\* Faulty: what is left in memory is only written if nothing was before.
StReadAllDropTail ==
    /\ stPc = "read" /\ stAt > Len(stManifest)
    /\ stRecords # {} \/ stChunks # <<>>
    /\ stRecords' = {}
    /\ stChunks' = IF stRecords = {} \/ stChunks # <<>> THEN stChunks
                   ELSE Append(stChunks, SortedByKey(stRecords))
    /\ stPc' = "merge"
    /\ UNCHANGED <<stFile, stProv, stManifest, stAt, stRow, stRejected, stMerged, stSummary,
                   stMatches, stLeft, stRuns, stEvents>>

\* The rest is the last chunk.
StReadAll ==
    /\ stPc = "read" /\ stAt > Len(stManifest)
    /\ stRecords # {} \/ stChunks # <<>>
    /\ stRecords' = {}
    /\ stChunks' = IF stRecords = {} THEN stChunks ELSE Append(stChunks, SortedByKey(stRecords))
    /\ stPc' = "merge"
    /\ UNCHANGED <<stFile, stProv, stManifest, stAt, stRow, stRejected, stMerged, stSummary,
                   stMatches, stLeft, stRuns, stEvents>>

\* No event at all is an error.
StNoEvents ==
    /\ stPc = "read" /\ stAt > Len(stManifest)
    /\ stRecords = {} /\ stChunks = <<>>
    /\ stPc' = "idle"
    /\ StForget
    /\ UNCHANGED <<stFile, stProv, stRuns, stEvents>>

StOpenChunks == {c \in DOMAIN stChunks : stChunks[c] # <<>>}

\* The chunk whose head merge_chunks takes from its heap
IsLeast(c) == \A d \in StOpenChunks \ {c} : KeyBefore(Head(stChunks[c]), Head(stChunks[d]))

Matches(event) == event.time \in StTold

\* merge_chunks yields the least of the heads; all files get it, the summary
\* if it matches and there is room.
StMerge ==
    /\ stPc = "merge" /\ StOpenChunks # {}
    /\ \E c \in StOpenChunks :
          LET event == Head(stChunks[c])
              told  == Matches(event)
          IN  /\ IsLeast(c)
              /\ stChunks' = [stChunks EXCEPT ![c] = Tail(@)]
              /\ stMerged' = Append(stMerged, event)
              /\ stMatches' = stMatches + (IF told THEN 1 ELSE 0)
              /\ stSummary' = IF told /\ Len(stSummary) < StSummaryLimit
                              THEN Append(stSummary, event) ELSE stSummary
    /\ UNCHANGED <<stFile, stProv, stPc, stManifest, stAt, stRow, stRecords, stRejected,
                   stLeft, stRuns, stEvents>>

\* The partial files are complete and hashed, the provenance beside them.
StMergedAll ==
    /\ stPc = "merge" /\ StOpenChunks = {}
    /\ stPc' = "unlink"
    /\ UNCHANGED <<stFile, stProv, stWork, stLeft, stRuns, stEvents>>

\* The earlier provenance goes first.
StUnlink ==
    /\ stPc = "unlink"
    /\ stProv' = StNil
    /\ stLeft' = StOrder
    /\ stPc' = "rename"
    /\ UNCHANGED <<stFile, stWork, stRuns, stEvents>>

Contents(f) == IF f \in {"jsonl", "csv"} THEN stMerged ELSE stSummary

StRename ==
    /\ stPc = "rename"
    /\ stFile' = [stFile EXCEPT ![Head(stLeft)] = Contents(Head(stLeft))]
    /\ stLeft' = Tail(stLeft)
    /\ stPc' = IF stLeft' = <<>> THEN "provenance" ELSE "rename"
    /\ UNCHANGED <<stProv, stWork, stRuns, stEvents>>

StPublish ==
    /\ stPc = "provenance"
    /\ stProv' = [manifest |-> stManifest, hashes |-> [f \in StFiles |-> Contents(f)],
                  count |-> Len(stMerged), rejected |-> stRejected, matches |-> stMatches]
    /\ stPc' = "idle"
    /\ StForget
    /\ UNCHANGED <<stFile, stRuns, stEvents>>

\* The run raises or is killed.
StAbort ==
    /\ stPc # "idle" /\ StEvent
    /\ stPc' = "idle"
    /\ StForget
    /\ UNCHANGED <<stFile, stProv, stRuns>>

StNext ==
    \/ StStart \/ StReadRow \/ StNextInput \/ StReadAll \/ StNoEvents \/ StMerge \/ StMergedAll
    \/ StUnlink \/ StRename \/ StPublish \/ StAbort
StSpec == StInit /\ [][StNext]_stVars
-----------------------------------------------------------------------------
StTypeOK ==
    /\ stPc \in StSteps /\ Len(stLeft) <= Len(StOrder)
    /\ stRow \in Nat /\ stRejected \in Nat /\ stMatches \in Nat
    /\ Cardinality(stRecords) < StChunk
    /\ Len(stSummary) <= StSummaryLimit

\* All rows of a manifest, and all events
RowsOf(m) == UNION {{<<i, r>> : r \in DOMAIN m[i].rows} : i \in DOMAIN m}
EventsOf(m) ==
    {[time |-> m[p[1]].rows[p[2]], label |-> m[p[1]].label, input |-> p[1], row |-> p[2]] :
        p \in {q \in RowsOf(m) : m[q[1]].rows[q[2]] # StBad}}

\* The first events of all that match, as many as there is room for
SummaryOf(events) ==
    LET told == SortedByKey({e \in events : e.time \in StTold})
    IN  SubSeq(told, 1, IF Len(told) < StSummaryLimit THEN Len(told) ELSE StSummaryLimit)

\* When the provenance is there, the four outputs are those of its run and not
\* a mix with an earlier one; they hold every event of its manifest once, in
\* the order of the keys, the summary the first that match; and what it counts
\* is so.  Chunks of any size, a kill between any two renames and runs forced
\* over one another make no difference.
StProvenanceIsTrue ==
    stProv # StNil =>
        LET events  == EventsOf(stProv.manifest)
            matches == Cardinality({e \in events : e.time \in StTold})
        IN  /\ \A f \in StFiles : stFile[f] = stProv.hashes[f]
            /\ stFile["jsonl"] = SortedByKey(events)
            /\ stFile["csv"] = stFile["jsonl"]
            /\ stFile["summary_csv"] = SummaryOf(events)
            /\ stFile["summary_html"] = SummaryOf(events)
            /\ stProv.count = Cardinality(events) /\ stProv.matches = matches
            /\ stProv.rejected = Cardinality(RowsOf(stProv.manifest)) - Cardinality(events)
=============================================================================
