--------------------------- MODULE ChangedSectors ---------------------------
(***************************************************************************)
(* changed_sector_ranges, scripts/paired_vm_case.py: which sectors of a    *)
(* repair copy differ from the slice of the disk it was cut from.  Both    *)
(* files are read in chunks; equal chunks are skipped as a whole, and a run*)
(* of changed sectors may go on from one chunk into the next.              *)
(***************************************************************************)
EXTENDS Integers, Sequences, FiniteSets

CONSTANTS Bytes,         \* contents of a sector
          ChunkSectors,  \* sectors in a chunk
          MaxSectors,    \* bound: sectors of a file
          CsNil           \* current_start is None

ASSUME SectorConstants ==
    /\ ChunkSectors \in Nat \ {0}
    /\ MaxSectors \in Nat
    /\ CsNil \notin Nat

VARIABLES original,    \* the disk from the offset on; sector i is [i + 1]
          repaired,    \* the derivative, not empty
          state,       \* before a chunk, in one ("sector"), or at the end
          sector,      \* sector_index
          chunkEnd,    \* where the chunk being compared ends
          start,       \* current_start
          end,         \* current_end
          ranges,      \* the closed runs, as <<first, last>>
          count        \* changed_count

files   == <<original, repaired>>
current == <<start, end, ranges>>
csVars    == <<files, state, sector, chunkEnd, current, count>>

CsInit ==
    /\ \E n \in 0 .. MaxSectors : original \in [1 .. n -> Bytes]
    /\ \E n \in 1 .. MaxSectors : repaired \in [1 .. n -> Bytes]
    /\ state = "chunk"
    /\ sector = 0
    /\ chunkEnd = 0
    /\ start = CsNil /\ end = CsNil
    /\ ranges = <<>>
    /\ count = 0

Differs(i) == original[i + 1] # repaired[i + 1]

Forget == start' = CsNil /\ end' = CsNil

\* Faulty: a run that reaches the end of a chunk is dropped with it.
CloseRunForgotten == Forget /\ UNCHANGED ranges

\* if current_start is not None: ranges.append
CloseRun ==
    \/ start = CsNil /\ UNCHANGED current
    \/ start # CsNil /\ Forget /\ ranges' = Append(ranges, <<start, end>>)

OpenRun ==
    /\ start' = IF start = CsNil THEN sector ELSE start
    /\ end' = sector
    /\ UNCHANGED ranges

\* The end of the chunk that starts at `sector`, the last one being shorter
NextEnd == IF sector + ChunkSectors < Len(repaired)
           THEN sector + ChunkSectors ELSE Len(repaired)

\* len(left) != len(right): raise
ShortSource ==
    /\ state = "chunk"
    /\ sector < Len(repaired)
    /\ Len(original) < NextEnd
    /\ state' = "short"
    /\ UNCHANGED <<files, sector, chunkEnd, current, count>>

ReadChunk ==
    /\ state = "chunk"
    /\ sector < Len(repaired)
    /\ NextEnd <= Len(original)
    /\ \/ /\ \A i \in sector .. NextEnd - 1 : ~Differs(i)
          /\ sector' = NextEnd
          /\ CloseRun
          /\ UNCHANGED <<state, chunkEnd>>
       \/ /\ \E i \in sector .. NextEnd - 1 : Differs(i)
          /\ state' = "sector"
          /\ chunkEnd' = NextEnd
          /\ UNCHANGED <<sector, current>>
    /\ UNCHANGED <<files, count>>

CompareSector ==
    /\ state = "sector"
    /\ \/ Differs(sector) /\ OpenRun /\ count' = count + 1
       \/ ~Differs(sector) /\ CloseRun /\ UNCHANGED count
    /\ sector' = sector + 1
    /\ state' = IF sector + 1 = chunkEnd THEN "chunk" ELSE "sector"
    /\ UNCHANGED <<files, chunkEnd>>

Finish ==
    /\ state = "chunk"
    /\ sector = Len(repaired)
    /\ CloseRun
    /\ state' = "done"
    /\ UNCHANGED <<files, sector, chunkEnd, count>>

CsNext == ShortSource \/ ReadChunk \/ CompareSector \/ Finish

CsSpec == CsInit /\ [][CsNext]_csVars

-----------------------------------------------------------------------------
Covers(r, i) == r[1] <= i /\ i <= r[2]

\* The result is exact wherever chunks begin and end: a sector differs iff a
\* range covers it, no range can be extended or joined to the next, ranges are
\* in order, and the count is the number of sectors that differ.
RangesAreTheRuns ==
    state = "done" =>
      /\ \A i \in 0 .. Len(repaired) - 1 :
            Differs(i) <=> \E k \in DOMAIN ranges : Covers(ranges[k], i)
      /\ \A k \in DOMAIN ranges :
            /\ 0 <= ranges[k][1] /\ ranges[k][1] <= ranges[k][2]
            /\ ranges[k][2] < Len(repaired)
      /\ \A k \in 2 .. Len(ranges) : ranges[k - 1][2] + 1 < ranges[k][1]
      /\ count = Cardinality({i \in 0 .. Len(repaired) - 1 : Differs(i)})
=============================================================================
