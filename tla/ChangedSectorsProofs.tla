------------------------ MODULE ChangedSectorsProofs ------------------------
(* changed_sector_ranges is exact for files and chunks of any length.      *)
EXTENDS ChangedSectors, FiniteSetTheorems, TLAPS

Runs == Seq(Nat \X Nat)

TypeInv ==
    /\ original \in Seq(Bytes) /\ repaired \in Seq(Bytes)
    /\ state \in {"chunk", "sector", "done", "short"}
    /\ sector \in Nat /\ sector <= Len(repaired)
    /\ chunkEnd \in Nat
    /\ start \in Nat \cup {CsNil} /\ end \in Nat \cup {CsNil}
    /\ ranges \in Runs
    /\ count \in Nat
    /\ state = "sector" => sector < chunkEnd /\ chunkEnd <= Len(repaired)

\* The run that is open ends at the sector before this one.
OpenInv ==
    /\ start # CsNil => end \in Nat /\ start <= end /\ end + 1 = sector
    /\ state = "done" => start = CsNil /\ sector = Len(repaired)

Open(i)   == start # CsNil /\ Covers(<<start, end>>, i)
Closed(i) == \E k \in DOMAIN ranges : Covers(ranges[k], i)

\* Up to here, what is covered is what differs.
CoverInv == \A i \in 0 .. sector - 1 : Differs(i) <=> Closed(i) \/ Open(i)

\* Closed runs lie apart from each other and from whatever follows.
ApartInv ==
    /\ \A k \in DOMAIN ranges :
          /\ ranges[k][1] <= ranges[k][2]
          /\ ranges[k][2] < sector
          /\ state # "done" => ranges[k][2] + 1 < sector
          /\ start # CsNil => ranges[k][2] + 1 < start
    /\ \A k \in 2 .. Len(ranges) : ranges[k - 1][2] + 1 < ranges[k][1]

Changed(n) == {i \in 0 .. n - 1 : Differs(i)}
CountInv   == count = Cardinality(Changed(sector))

\* A chunk ends behind its start and not behind the file.
LEMMA NextEndBounds ==
  ASSUME TypeInv, sector < Len(repaired)
  PROVE  NextEnd \in Nat /\ sector < NextEnd /\ NextEnd <= Len(repaired)
  BY SectorConstants DEF TypeInv, NextEnd

\* Every step keeps the types.
LEMMA TypeStep == TypeInv /\ OpenInv /\ [CsNext]_csVars => TypeInv'
<1> SUFFICES ASSUME TypeInv, OpenInv, [CsNext]_csVars PROVE TypeInv'
  OBVIOUS
<1> USE DEF TypeInv, OpenInv, files, current
<1>1. CASE ShortSource
  BY <1>1 DEF ShortSource
<1>2. ASSUME CloseRun PROVE /\ ranges' \in Runs
                            /\ start' \in Nat \cup {CsNil}
                            /\ end' \in Nat \cup {CsNil}
  <2>1. CASE start = CsNil
    BY <1>2, <2>1 DEF CloseRun, Forget
  <2>2. CASE start # CsNil
    <3>1. <<start, end>> \in Nat \X Nat
      BY <2>2
    <3>2. ranges' = Append(ranges, <<start, end>>) /\ start' = CsNil /\ end' = CsNil
      BY <1>2, <2>2 DEF CloseRun, Forget
    <3> QED
      BY <3>1, <3>2 DEF Runs
  <2> QED
    BY <2>1, <2>2
<1>3. CASE ReadChunk
  BY <1>2, <1>3, NextEndBounds DEF ReadChunk
<1>4. CASE CompareSector
  <2>1. /\ ranges' \in Runs /\ start' \in Nat \cup {CsNil}
        /\ end' \in Nat \cup {CsNil} /\ count' \in Nat
    BY <1>2, <1>4 DEF CompareSector, OpenRun
  <2> QED
    BY <1>4, <2>1 DEF CompareSector
<1>5. CASE Finish
  BY <1>2, <1>5 DEF Finish
<1>6. CASE UNCHANGED csVars
  BY <1>6 DEF csVars
<1> QED
  BY <1>1, <1>3, <1>4, <1>5, <1>6 DEF CsNext

\* Every step keeps the open run one of differing sectors.
LEMMA OpenStep == TypeInv /\ OpenInv /\ [CsNext]_csVars => OpenInv'
<1> SUFFICES ASSUME TypeInv, OpenInv, [CsNext]_csVars PROVE OpenInv'
  OBVIOUS
<1> USE SectorConstants DEF TypeInv, OpenInv, files, current, CloseRun, Forget,
        OpenRun
<1>1. CASE ShortSource
  BY <1>1 DEF ShortSource
<1>2. CASE ReadChunk
  BY <1>2, NextEndBounds DEF ReadChunk
<1>3. CASE CompareSector
  BY <1>3 DEF CompareSector
<1>4. CASE Finish
  BY <1>4 DEF Finish
<1>5. CASE UNCHANGED csVars
  BY <1>5 DEF csVars
<1> QED
  BY <1>1, <1>2, <1>3, <1>4, <1>5 DEF CsNext

\* Closing a run moves what was open to what is closed.
LEMMA Closing ==
  ASSUME TypeInv, OpenInv, ApartInv, CloseRun
  PROVE  /\ start' = CsNil
         /\ \A i \in Nat : Closed(i)' <=> Closed(i) \/ Open(i)
         /\ \A k \in DOMAIN ranges' :
               /\ ranges'[k][1] <= ranges'[k][2]
               /\ ranges'[k][2] < sector
         /\ \A k \in 2 .. Len(ranges') : ranges'[k - 1][2] + 1 < ranges'[k][1]
<1>1. CASE start = CsNil
  BY <1>1 DEF CloseRun, Forget, Closed, Open, Covers, ApartInv, TypeInv, current
<1>2. CASE start # CsNil
  <2>1. /\ start \in Nat /\ end \in Nat /\ start <= end /\ end + 1 = sector
    BY <1>2 DEF TypeInv, OpenInv
  <2>2. start' = CsNil /\ ranges' = Append(ranges, <<start, end>>)
    BY <1>2 DEF CloseRun, Forget
  <2>3. /\ Len(ranges') = Len(ranges) + 1
        /\ \A k \in 1 .. Len(ranges) : ranges'[k] = ranges[k]
        /\ ranges'[Len(ranges) + 1] = <<start, end>>
        /\ Len(ranges) \in Nat
        /\ DOMAIN ranges = 1 .. Len(ranges)
        /\ DOMAIN ranges' = 1 .. Len(ranges')
    BY <2>1, <2>2 DEF TypeInv, Runs
  <2>4. \A i \in Nat : Closed(i)' <=> Closed(i) \/ Open(i)
    BY <1>2, <2>3 DEF Closed, Open
  <2>5. \A k \in DOMAIN ranges' :
           /\ ranges'[k][1] <= ranges'[k][2]
           /\ ranges'[k][2] < sector
    BY <2>1, <2>3 DEF ApartInv
  <2>6. \A k \in 2 .. Len(ranges') : ranges'[k - 1][2] + 1 < ranges'[k][1]
    BY <1>2, <2>1, <2>3 DEF ApartInv
  <2> QED
    BY <2>2, <2>4, <2>5, <2>6
<1> QED
  BY <1>1, <1>2
\* Reading nothing new leaves the three invariants as they are.
LEMMA SameCover ==
  ASSUME UNCHANGED <<original, repaired, sector, start, end, ranges, count>>
  PROVE  /\ CoverInv => CoverInv'
         /\ CountInv => CountInv'
  BY DEF CoverInv, CountInv, Changed, Differs, Closed, Open, Covers

\* Every step keeps what was compared covered by the runs.
LEMMA CoverStep ==
  ASSUME TypeInv, OpenInv, ApartInv, CoverInv, [CsNext]_csVars
  PROVE  CoverInv'
<1> USE DEF files, current
<1>1. CASE ShortSource
  BY <1>1, SameCover DEF ShortSource
<1>2. CASE ReadChunk
  <2>1. CASE \E i \in sector .. NextEnd - 1 : Differs(i)
    BY <1>2, <2>1, SameCover DEF ReadChunk
  <2>2. CASE \A i \in sector .. NextEnd - 1 : ~Differs(i)
    <3>1. /\ sector' = NextEnd /\ CloseRun
          /\ \A i \in Nat : Differs(i)' = Differs(i)
          /\ NextEnd \in Nat /\ sector < NextEnd /\ sector \in Nat
      BY <1>2, <2>2, NextEndBounds DEF ReadChunk, Differs, TypeInv
    <3>2. start' = CsNil /\ \A i \in Nat : Closed(i)' <=> Closed(i) \/ Open(i)
      BY <3>1, Closing
    <3>3. \A i \in sector .. NextEnd - 1 : ~Closed(i) /\ ~Open(i)
      BY <3>1 DEF Closed, Open, Covers, ApartInv, OpenInv, TypeInv, Runs
    <3>4. \A i \in Nat : ~Open(i)'
      BY <3>2 DEF Open
    <3> QED
      BY <2>2, <3>1, <3>2, <3>3, <3>4 DEF CoverInv
  <2> QED
    BY <2>1, <2>2
<1>3. CASE CompareSector
  <2>1. /\ sector' = sector + 1 /\ sector \in Nat
        /\ \A i \in Nat : Differs(i)' = Differs(i)
    BY <1>3 DEF CompareSector, Differs, TypeInv
  <2>2. ~Closed(sector) /\ ~Open(sector)
    BY DEF Closed, Open, Covers, ApartInv, OpenInv, TypeInv, Runs
  <2>3. CASE Differs(sector)
    <3>1. OpenRun
      BY <1>3, <2>3 DEF CompareSector
    <3>2. \A i \in 0 .. sector : Open(i)' <=> Open(i) \/ i = sector
      BY <2>1, <3>1, SectorConstants DEF OpenRun, Open, Covers, OpenInv, TypeInv
    <3>3. \A i \in Nat : Closed(i)' <=> Closed(i)
      BY <3>1 DEF OpenRun, Closed
    <3> QED
      BY <2>1, <2>3, <3>2, <3>3 DEF CoverInv
  <2>4. CASE ~Differs(sector)
    <3>1. CloseRun
      BY <1>3, <2>4 DEF CompareSector
    <3>2. start' = CsNil /\ \A i \in Nat : Closed(i)' <=> Closed(i) \/ Open(i)
      BY <3>1, Closing
    <3>3. \A i \in Nat : ~Open(i)'
      BY <3>2 DEF Open
    <3> QED
      BY <2>1, <2>2, <2>4, <3>2, <3>3 DEF CoverInv
  <2> QED
    BY <2>3, <2>4
<1>4. CASE Finish
  <2>1. /\ sector' = sector /\ sector \in Nat /\ CloseRun
        /\ \A i \in Nat : Differs(i)' = Differs(i)
    BY <1>4 DEF Finish, Differs, TypeInv
  <2>2. start' = CsNil /\ \A i \in Nat : Closed(i)' <=> Closed(i) \/ Open(i)
    BY <2>1, Closing
  <2>3. \A i \in Nat : ~Open(i)'
    BY <2>2 DEF Open
  <2> QED
    BY <2>1, <2>2, <2>3 DEF CoverInv
<1>5. CASE UNCHANGED csVars
  BY <1>5, SameCover DEF csVars
<1> QED
  BY <1>1, <1>2, <1>3, <1>4, <1>5 DEF CsNext

\* Every step keeps the runs apart and in order.
LEMMA ApartStep ==
  ASSUME TypeInv, OpenInv, ApartInv, [CsNext]_csVars
  PROVE  ApartInv'
<1> USE DEF files, current
<1>1. CASE ShortSource
  BY <1>1 DEF ShortSource, ApartInv
<1>2. ASSUME CloseRun, sector' \in Nat, sector < sector' \/ state' = "done",
             sector <= sector'
      PROVE  ApartInv'
  <2>1. \A k \in DOMAIN ranges' : ranges'[k] \in Nat \X Nat
    <3>1. CASE start = CsNil
      BY <1>2, <3>1 DEF CloseRun, TypeInv, Runs
    <3>2. CASE start # CsNil
      <4>1. ranges' = Append(ranges, <<start, end>>)
        BY <1>2, <3>2 DEF CloseRun
      <4>2. <<start, end>> \in Nat \X Nat
        BY <3>2 DEF TypeInv, OpenInv
      <4> QED
        BY <4>1, <4>2 DEF TypeInv, Runs
    <3> QED
      BY <3>1, <3>2
  <2>2. sector \in Nat
    BY DEF TypeInv
  <2> QED
    BY <1>2, <2>1, <2>2, Closing DEF ApartInv
<1>3. CASE ReadChunk
  <2>1. CASE \E i \in sector .. NextEnd - 1 : Differs(i)
    BY <1>3, <2>1 DEF ReadChunk, ApartInv
  <2>2. CASE \A i \in sector .. NextEnd - 1 : ~Differs(i)
    BY <1>2, <1>3, <2>2, NextEndBounds DEF ReadChunk, TypeInv
  <2> QED
    BY <2>1, <2>2
<1>4. CASE CompareSector
  <2>1. CASE Differs(sector)
    BY <1>4, <2>1, SectorConstants
    DEF CompareSector, OpenRun, ApartInv, OpenInv, TypeInv, Runs
  <2>2. CASE ~Differs(sector)
    BY <1>2, <1>4, <2>2 DEF CompareSector, TypeInv
  <2> QED
    BY <2>1, <2>2
<1>5. CASE Finish
  BY <1>2, <1>5 DEF Finish, TypeInv
<1>6. CASE UNCHANGED csVars
  BY <1>6 DEF csVars, ApartInv
<1> QED
  BY <1>1, <1>3, <1>4, <1>5, <1>6 DEF CsNext

\* Every step keeps the count.
LEMMA CountStep ==
  ASSUME TypeInv, CountInv, [CsNext]_csVars
  PROVE  CountInv'
<1> USE DEF files, current
<1>1. CASE ShortSource
  BY <1>1, SameCover DEF ShortSource
<1>2. CASE ReadChunk
  <2>1. CASE \E i \in sector .. NextEnd - 1 : Differs(i)
    BY <1>2, <2>1, SameCover DEF ReadChunk
  <2>2. CASE \A i \in sector .. NextEnd - 1 : ~Differs(i)
    <3>1. /\ sector' = NextEnd /\ sector \in Nat /\ NextEnd \in Nat
          /\ sector < NextEnd /\ UNCHANGED <<original, repaired, count>>
      BY <1>2, <2>2, NextEndBounds DEF ReadChunk, TypeInv
    <3>2. Changed(sector)' = Changed(sector)
      BY <2>2, <3>1 DEF Changed, Differs
    <3> QED
      BY <3>1, <3>2 DEF CountInv
  <2> QED
    BY <2>1, <2>2
<1>3. CASE CompareSector
  <2>1. /\ sector' = sector + 1 /\ sector \in Nat
        /\ UNCHANGED <<original, repaired>>
    BY <1>3 DEF CompareSector, TypeInv
  <2>2. IsFiniteSet(Changed(sector)) /\ sector \notin Changed(sector)
    <3>1. IsFiniteSet(0 .. sector - 1)
      BY <2>1, FS_Interval
    <3> QED
      BY <2>1, <3>1, FS_Subset DEF Changed
  <2>3. CASE Differs(sector)
    <3>1. Changed(sector)' = Changed(sector) \cup {sector}
      BY <2>1, <2>3 DEF Changed, Differs
    <3>2. Cardinality(Changed(sector) \cup {sector})
            = Cardinality(Changed(sector)) + 1
      BY <2>2, FS_AddElement
    <3> QED
      BY <1>3, <2>3, <3>1, <3>2 DEF CompareSector, CountInv
  <2>4. CASE ~Differs(sector)
    <3>1. Changed(sector)' = Changed(sector)
      BY <2>1, <2>4 DEF Changed, Differs
    <3> QED
      BY <1>3, <2>4, <3>1 DEF CompareSector, CountInv
  <2> QED
    BY <2>3, <2>4
<1>4. CASE Finish
  <2>1. UNCHANGED <<original, repaired, sector, count>>
    BY <1>4 DEF Finish
  <2> QED
    BY <2>1 DEF CountInv, Changed, Differs
<1>5. CASE UNCHANGED csVars
  BY <1>5, SameCover DEF csVars
<1> QED
  BY <1>1, <1>2, <1>3, <1>4, <1>5 DEF CsNext

LoopInv == TypeInv /\ OpenInv /\ CoverInv /\ ApartInv /\ CountInv

\* Nothing is compared yet.
LEMMA LoopInit == CsInit => LoopInv
<1> SUFFICES ASSUME CsInit PROVE LoopInv
  OBVIOUS
<1>1. original \in Seq(Bytes) /\ repaired \in Seq(Bytes)
  BY SectorConstants DEF CsInit
<1>2. TypeInv /\ OpenInv /\ CoverInv /\ ApartInv
  BY <1>1 DEF CsInit, TypeInv, OpenInv, CoverInv, ApartInv, Runs
<1>3. CountInv
  <2>1. Changed(sector) = {}
    BY DEF CsInit, Changed
  <2> QED
    BY <2>1, FS_EmptySet DEF CsInit, CountInv
<1> QED
  BY <1>2, <1>3 DEF LoopInv

\* The recorded ranges are exactly the changed sectors, for every pair of
\* files and every chunk size.
THEOREM RangesAreExact == CsSpec => []RangesAreTheRuns
<1>1. LoopInv /\ [CsNext]_csVars => LoopInv'
  BY TypeStep, OpenStep, CoverStep, ApartStep, CountStep DEF LoopInv
<1>2. LoopInv => RangesAreTheRuns
  <2> SUFFICES ASSUME LoopInv, state = "done" PROVE RangesAreTheRuns
    BY DEF RangesAreTheRuns
  <2>1. /\ sector = Len(repaired) /\ \A i \in Nat : ~Open(i)
        /\ \A k \in DOMAIN ranges : ranges[k] \in Nat \X Nat
    BY DEF LoopInv, OpenInv, Open, TypeInv, Runs
  <2>2. \A i \in 0 .. Len(repaired) - 1 :
          Differs(i) <=> \E k \in DOMAIN ranges : Covers(ranges[k], i)
    BY <2>1 DEF LoopInv, CoverInv, Closed
  <2>3. /\ \A k \in DOMAIN ranges :
              /\ 0 <= ranges[k][1] /\ ranges[k][1] <= ranges[k][2]
              /\ ranges[k][2] < Len(repaired)
        /\ \A k \in 2 .. Len(ranges) : ranges[k - 1][2] + 1 < ranges[k][1]
    BY <2>1 DEF LoopInv, ApartInv
  <2>4. count = Cardinality({i \in 0 .. Len(repaired) - 1 : Differs(i)})
    BY <2>1 DEF LoopInv, CountInv, Changed
  <2> QED
    BY <2>2, <2>3, <2>4 DEF RangesAreTheRuns
<1> QED
  BY <1>1, <1>2, LoopInit, PTL DEF CsSpec

=============================================================================
