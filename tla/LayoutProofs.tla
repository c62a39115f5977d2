---------------------------- MODULE LayoutProofs ----------------------------
(***************************************************************************)
(* Theorems about the layouts of a board.  DiskLayout: whatever layout the *)
(* rules accept, of any number of partitions and regions and any sizes, is *)
(* written where the device and the verifier read it.  FlashLayout: every  *)
(* flash.tsv, any factory content and any size of the blocks.              *)
(***************************************************************************)
EXTENDS DiskLayout, FlashLayout, FiniteSetTheorems, TLAPS, WellFoundedInduction

-----------------------------------------------------------------------------
(* The invariant.                                                           *)

\* The partitions before the k-th: numbered, after the GPT, in order and apart.
PartsRead(k) ==
  /\ \A i \in DOMAIN Parts : i < k =>
       /\ Parts[i].number = NumberOf(i)
       /\ FirstSector <= Parts[i].start /\ Parts[i].start + Parts[i].size <= end
  /\ \A i, j \in DOMAIN Parts : i < j /\ j < k => Parts[i].start + Parts[i].size <= Parts[j].start

RegionsRead(k) == \A r \in DOMAIN Regions : r < k => RegionHolds(r)

\* The loader is no longer than the region that is written of it.
LoaderFits(i) ==
  \A r \in From("loader") : Regions[r].partition = Parts[i].name => layout.loaderBytes <= Regions[r].size

\* A partition is written over all of its own sectors.
PartWritten(i) ==
  \A b \in Extent(Parts[i]) : disk[b] = BuiltByte(Parts[i], b - Parts[i].start * SectorBytes)

\* The disk after the first partitions were written to it.
DiskWritten(k) ==
  /\ DOMAIN disk = Bytes(0, DiskBytes)
  /\ \A b \in Gpt : disk[b] = GptByte
  /\ \A i \in DOMAIN Parts : i < k =>
       LoaderFits(i) /\ PartWritten(i)

Whole == {"regions", "records", "accepted", "assembling", "written"}

DiskInv ==
  /\ layout \in Layouts /\ index \in Nat \ {0} /\ end \in Nat /\ FirstSector <= end
  /\ phase = "partitions" => PartsRead(index)
  /\ phase \in {"whole"} \cup Whole => PartsRead(Len(Parts) + 1)
  /\ phase \in Whole => Unique /\ RolesHold
  /\ phase = "whole" => index = 1
  /\ phase = "regions" => RegionsRead(index)
  /\ phase \in Whole \ {"regions"} => RegionsRead(Len(Regions) + 1)
  /\ phase \in {"accepted", "assembling", "written"} => RecordsHold
  /\ phase \in {"assembling", "written"} => LoaderPlaced
  /\ phase = "assembling" => DiskWritten(index)
  /\ phase = "written" => DiskWritten(Len(Parts) + 1)

\* What the types come to for the layout that is read.
LEMMA DiskRows ==
  ASSUME LayoutAssumption, layout \in Layouts
  PROVE  /\ Len(Parts) \in Nat /\ DOMAIN Parts = 1 .. Len(Parts)
         /\ Len(Regions) \in Nat /\ DOMAIN Regions = 1 .. Len(Regions)
         /\ \A i \in DOMAIN Parts :
              Parts[i] \in PartRow /\ Parts[i].start \in Nat /\ Parts[i].size \in Nat \ {0}
         /\ \A r \in DOMAIN Regions :
              /\ Regions[r] \in RegionRow /\ Regions[r].offset \in Nat /\ Regions[r].size \in Nat \ {0}
              /\ Regions[r].source \in Sources
         /\ layout.loaderBytes \in Nat
<1>1. Parts \in Seq(PartRow) /\ Regions \in Seq(RegionRow) /\ layout.loaderBytes \in Nat
  BY DEF LayoutAssumption, Parts, Regions
<1>2. \A i \in DOMAIN Parts : Parts[i] \in PartRow
  BY <1>1
<1>3. \A r \in DOMAIN Regions : Regions[r] \in RegionRow
  BY <1>1
<1> QED
  BY <1>1, <1>2, <1>3 DEF PartRow, RegionRow

-----------------------------------------------------------------------------
(* Sectors and bytes.                                                       *)

\* What is before in sectors is before in bytes.
LEMMA InBytes ==
  ASSUME LayoutAssumption, NEW a \in Nat, NEW b \in Nat
  PROVE  /\ a * SectorBytes \in Nat
         /\ a <= b => a * SectorBytes <= b * SectorBytes
         /\ (a + b) * SectorBytes = a * SectorBytes + b * SectorBytes
<1>1. SectorBytes \in Nat
  BY DEF LayoutAssumption
<1>2. ASSUME a <= b PROVE a * SectorBytes <= b * SectorBytes
  <2>1. (b - a) \in Nat /\ (b - a) * SectorBytes \in Nat
    BY <1>1, <1>2
  <2>2. b * SectorBytes = a * SectorBytes + (b - a) * SectorBytes
    BY <1>1
  <2> QED BY <1>1, <2>1, <2>2
<1> QED
  BY <1>1, <1>2

\* One run of bytes that ends before another begins.
LEMMA SpansApart ==
  ASSUME NEW a \in Nat, NEW n \in Nat, NEW c \in Nat, NEW m \in Nat, a + n <= c
  PROVE  Bytes(a, n) \cap Bytes(c, m) = {} /\ Bytes(a, n) \subseteq Bytes(0, c)
BY DEF Bytes

\* The same, of runs of sectors.
LEMMA SectorsApart ==
  ASSUME LayoutAssumption, NEW a \in Nat, NEW n \in Nat, NEW c \in Nat, NEW m \in Nat, a + n <= c
  PROVE  /\ Bytes(a * SectorBytes, n * SectorBytes) \cap Bytes(c * SectorBytes, m * SectorBytes) = {}
         /\ Bytes(a * SectorBytes, n * SectorBytes) \subseteq Bytes(0, c * SectorBytes)
<1> DEFINE A == a * SectorBytes  N == n * SectorBytes  C == c * SectorBytes  M == m * SectorBytes
<1>1. A \in Nat /\ N \in Nat /\ C \in Nat /\ M \in Nat
  BY InBytes
<1>2. a + n \in Nat /\ (a + n) * SectorBytes = A + N
  BY InBytes
<1>3. (a + n) * SectorBytes <= C
  BY <1>2, InBytes
<1> HIDE DEF A, N, C, M
<1>4. A + N <= C
  BY <1>1, <1>2, <1>3
<1>5. Bytes(A, N) \cap Bytes(C, M) = {} /\ Bytes(A, N) \subseteq Bytes(0, C)
  BY <1>1, <1>4, SpansApart
<1> QED
  BY <1>5 DEF A, N, C, M

\* The partitions that were read are on the disk, off the GPT and off each other.
LEMMA PartsApart ==
  ASSUME LayoutAssumption, layout \in Layouts, end \in Nat, FirstSector <= end, NEW k \in Nat, PartsRead(k)
  PROVE  /\ \A i \in DOMAIN Parts : i < k =>
              Extent(Parts[i]) \subseteq Bytes(0, DiskBytes) /\ Extent(Parts[i]) \cap Gpt = {}
         /\ \A i, j \in DOMAIN Parts : i < k /\ j < k /\ i # j => Extent(Parts[i]) \cap Extent(Parts[j]) = {}
         /\ Gpt \subseteq Bytes(0, DiskBytes)
<1>1. \A i \in DOMAIN Parts : i < k =>
        /\ Parts[i].start \in Nat /\ Parts[i].size \in Nat
        /\ FirstSector <= Parts[i].start /\ Parts[i].start + Parts[i].size <= end
  BY DiskRows DEF PartsRead
<1>2. FirstSector \in Nat /\ TailSectors \in Nat /\ end + TailSectors \in Nat /\ end <= end + TailSectors
  BY DEF LayoutAssumption
<1>3. ASSUME NEW i \in DOMAIN Parts, i < k
      PROVE  Extent(Parts[i]) \subseteq Bytes(0, DiskBytes) /\ Extent(Parts[i]) \cap Gpt = {}
  <2> DEFINE p == Parts[i]
  <2>1. p.start \in Nat /\ p.size \in Nat /\ FirstSector <= p.start /\ p.start + p.size <= end
    BY <1>1, <1>3
  <2>2. p.start + p.size <= end + TailSectors
    BY <1>2, <2>1
  <2> HIDE DEF p
  <2>3. Bytes(p.start * SectorBytes, p.size * SectorBytes) \subseteq Bytes(0, (end + TailSectors) * SectorBytes)
    BY <1>2, <2>1, <2>2, SectorsApart
  <2>4. Bytes(p.start * SectorBytes, p.size * SectorBytes)
          \cap Bytes(end * SectorBytes, TailSectors * SectorBytes) = {}
    BY <1>2, <2>1, SectorsApart
  <2>5. Bytes(0, FirstSector * SectorBytes) \cap Bytes(p.start * SectorBytes, p.size * SectorBytes) = {}
    <3> DEFINE F == FirstSector * SectorBytes  P == p.start * SectorBytes  S == p.size * SectorBytes
    <3>1. F \in Nat /\ P \in Nat /\ S \in Nat /\ F <= P
      BY <1>2, <2>1, InBytes
    <3> HIDE DEF F, P, S
    <3>2. Bytes(0, F) \cap Bytes(P, S) = {}
      BY <3>1 DEF Bytes
    <3> QED BY <3>2 DEF F, P, S
  <2> QED BY <2>3, <2>4, <2>5 DEF Extent, DiskBytes, Gpt, p
<1>4. ASSUME NEW i \in DOMAIN Parts, NEW j \in DOMAIN Parts, i < j, j < k
      PROVE  Extent(Parts[i]) \cap Extent(Parts[j]) = {}
  <2>1. /\ Parts[i].start \in Nat /\ Parts[i].size \in Nat
        /\ Parts[j].start \in Nat /\ Parts[j].size \in Nat
        /\ Parts[i].start + Parts[i].size <= Parts[j].start
    BY <1>4, DiskRows DEF PartsRead
  <2> QED BY <2>1, SectorsApart DEF Extent
<1>5. ASSUME NEW i \in DOMAIN Parts, NEW j \in DOMAIN Parts, i < k, j < k, i # j
      PROVE  Extent(Parts[i]) \cap Extent(Parts[j]) = {}
  <2>1. i < j \/ j < i
    BY <1>5, DiskRows
  <2> QED BY <1>4, <1>5, <2>1
<1>6. Gpt \subseteq Bytes(0, DiskBytes)
  <2> DEFINE F == FirstSector * SectorBytes  E == end * SectorBytes  T == TailSectors * SectorBytes
  <2>1. F \in Nat /\ E \in Nat /\ T \in Nat /\ F <= E /\ DiskBytes = E + T
    BY <1>2, InBytes DEF DiskBytes
  <2> HIDE DEF F, E, T
  <2>2. Bytes(0, F) \subseteq Bytes(0, E + T) /\ Bytes(E, T) \subseteq Bytes(0, E + T)
    BY <2>1 DEF Bytes
  <2> QED BY <2>1, <2>2 DEF Gpt, F, E, T
<1> QED
  BY <1>3, <1>5, <1>6

-----------------------------------------------------------------------------
(* The numbers of the partitions.                                           *)

\* No two partitions have one number: what is before a partition is before the
\* ones after it too.
LEMMA NumbersApart ==
  ASSUME LayoutAssumption, layout \in Layouts, NEW i \in DOMAIN Parts, NEW j \in DOMAIN Parts, NumberOf(i) = NumberOf(j)
  PROVE  i = j
<1> DEFINE before(x) == {y \in DOMAIN Parts : IF Parts[x].role = "preserved"
                                              THEN Parts[y].role # "preserved" \/ y < x
                                              ELSE Parts[y].role # "preserved" /\ y < x}
<1>1. DOMAIN Parts = 1 .. Len(Parts) /\ Len(Parts) \in Nat
  BY DiskRows
<1>2. IsFiniteSet(DOMAIN Parts)
  BY <1>1, FS_Interval
<1>3. \A x \in DOMAIN Parts : before(x) \in SUBSET DOMAIN Parts
  OBVIOUS
<1>4. IsFiniteSet(before(i)) /\ IsFiniteSet(before(j))
  BY <1>2, <1>3, FS_Subset
<1>5. Cardinality(before(i)) = Cardinality(before(j))
  <2> DEFINE m == Cardinality(before(i))  n == Cardinality(before(j))
  <2>1. 1 + m = 1 + n
    BY DEF NumberOf
  <2>2. m \in Nat /\ n \in Nat
    BY <1>4, FS_CardinalityType
  <2>3. m = n
    <3> HIDE DEF m, n
    <3> QED BY <2>1, <2>2
  <2> QED BY <2>3
<1>6. i \notin before(i) /\ j \notin before(j)
  BY <1>1
<1>7. \A x, y \in DOMAIN Parts : x # y => \/ before(x) \subseteq before(y) /\ x \in before(y)
                                          \/ before(y) \subseteq before(x) /\ y \in before(x)
  BY <1>1
<1>8. /\ before(i) \subseteq before(j) => before(i) = before(j)
      /\ before(j) \subseteq before(i) => before(i) = before(j)
  <2> HIDE DEF before
  <2> QED BY <1>4, <1>5, FS_Subset
<1> HIDE DEF before
<1> QED
  BY <1>6, <1>7, <1>8

-----------------------------------------------------------------------------
(* The bytes of a raw partition.                                            *)

\* The partition a region names.
LEMMA PartitionOf ==
  ASSUME NEW r, RegionHolds(r)
  PROVE  /\ In(Regions[r]) \in DOMAIN Parts /\ Parts[In(Regions[r])].name = Regions[r].partition
         /\ Parts[In(Regions[r])].role = "raw"
         /\ Regions[r].offset + Regions[r].size <= Parts[In(Regions[r])].size * SectorBytes
<1>1. Named(Regions[r]) /\ Parts[In(Regions[r])].role = "raw"
      /\ Regions[r].offset + Regions[r].size <= Parts[In(Regions[r])].size * SectorBytes
  BY DEF RegionHolds
<1>2. In(Regions[r]) \in DOMAIN Parts /\ Parts[In(Regions[r])].name = Regions[r].partition
  BY <1>1 DEF Named, In
<1> QED
  BY <1>1, <1>2

\* No region writes over another: each reads as its source, from its first byte.
LEMMA RegionBytes ==
  ASSUME LayoutAssumption, layout \in Layouts, RegionsRead(Len(Regions) + 1),
         NEW r \in DOMAIN Regions, LoaderFits(In(Regions[r])),
         NEW i \in Nat, i < Length(Regions[r])
  PROVE  /\ Regions[r].offset + i < Parts[In(Regions[r])].size * SectorBytes
         /\ RawByte(Parts[In(Regions[r])], Regions[r].offset + i) = <<Regions[r].source, i>>
<1> DEFINE p == Parts[In(Regions[r])]  b == Regions[r].offset + i
           over == {k \in DOMAIN Regions : /\ Regions[k].partition = p.name
                                           /\ b \in Bytes(Regions[k].offset, Length(Regions[k]))}
<1>1. \A k \in DOMAIN Regions :
        /\ Regions[k].offset \in Nat /\ Regions[k].size \in Nat /\ Length(Regions[k]) \in Nat
        /\ RegionHolds(k)
  BY DiskRows DEF RegionsRead, Length
<1>2. In(Regions[r]) \in DOMAIN Parts /\ p.name = Regions[r].partition
      /\ Regions[r].offset + Regions[r].size <= p.size * SectorBytes
  BY <1>1, PartitionOf
<1>3. \A k \in DOMAIN Regions : Regions[k].partition = p.name => Length(Regions[k]) <= Regions[k].size
  BY <1>1 DEF LoaderFits, Length, From
<1>4. r \in over
  BY <1>1, <1>2 DEF Bytes
<1>5. ASSUME NEW k \in DOMAIN Regions, k # r, Regions[k].partition = p.name,
             b \in Bytes(Regions[k].offset, Length(Regions[k]))
      PROVE  FALSE
  <2>1. Apart(Regions[k], Regions[r])
    BY <1>1, <1>2, <1>5 DEF RegionHolds
  <2>2. /\ Regions[k].offset <= b /\ b < Regions[k].offset + Length(Regions[k])
        /\ Length(Regions[k]) <= Regions[k].size /\ Length(Regions[r]) <= Regions[r].size
    BY <1>1, <1>2, <1>3, <1>5 DEF Bytes
  <2>3. /\ Regions[k].offset \in Nat /\ Regions[k].size \in Nat /\ Length(Regions[k]) \in Nat
        /\ Regions[r].offset \in Nat /\ Regions[r].size \in Nat /\ Length(Regions[r]) \in Nat
    BY <1>1
  <2>4. Regions[r].offset <= b /\ b < Regions[r].offset + Regions[r].size
    BY <2>2, <2>3
  <2>5. b < Regions[k].offset + Regions[k].size /\ b \in Nat
    BY <2>2, <2>3
  <2>6. Regions[k].offset + Regions[k].size <= Regions[r].offset
        \/ Regions[r].offset + Regions[r].size <= Regions[k].offset
    BY <2>1 DEF Apart
  <2> HIDE DEF b, p, over
  <2>7. CASE Regions[k].offset + Regions[k].size <= Regions[r].offset
    BY <2>3, <2>4, <2>5, <2>7
  <2>8. CASE Regions[r].offset + Regions[r].size <= Regions[k].offset
    BY <2>2, <2>3, <2>4, <2>5, <2>8
  <2> QED BY <2>6, <2>7, <2>8
<1>6. over = {r}
  BY <1>4, <1>5
<1>7. (CHOOSE k \in over : \A o \in over : o <= k) = r
  <2>1. r <= r
    BY DiskRows
  <2> HIDE DEF over
  <2> QED BY <1>6, <2>1
<1>8. RawByte(p, b) = SourceByte(Regions[r], b - Regions[r].offset)
  BY <1>6, <1>7 DEF RawByte
<1>9. b - Regions[r].offset = i
  BY <1>1
<1>10. b < p.size * SectorBytes
  <2> DEFINE whole == p.size * SectorBytes
  <2>1. p.size \in Nat /\ whole \in Nat
    BY <1>2, DiskRows, InBytes
  <2>2. Regions[r].offset + Regions[r].size <= whole /\ Length(Regions[r]) <= Regions[r].size
    BY <1>2, <1>3
  <2> HIDE DEF whole, p
  <2>3. b < whole
    BY <1>1, <2>1, <2>2
  <2> QED BY <2>3 DEF whole
<1> QED
  BY <1>8, <1>9, <1>10 DEF SourceByte

-----------------------------------------------------------------------------
(* The steps.                                                               *)

\* What is said of the layout alone stays.
LEMMA SameLayout ==
  ASSUME UNCHANGED layout
  PROVE  /\ Parts' = Parts /\ Regions' = Regions
         /\ \A i : NumberOf(i)' = NumberOf(i)
         /\ \A r : RegionHolds(r) => RegionHolds(r)'
         /\ \A i : LoaderFits(i) => LoaderFits(i)'
         /\ \A p, b : BuiltByte(p, b)' = BuiltByte(p, b)
         /\ Unique => Unique'
         /\ RolesHold => RolesHold'
         /\ RecordsHold => RecordsHold'
         /\ LoaderPlaced => LoaderPlaced'
<1>1. Parts' = Parts /\ Regions' = Regions
  BY DEF Parts, Regions
<1>2. \A i : NumberOf(i)' = NumberOf(i)
  BY <1>1 DEF NumberOf
<1>3. \A r : RegionHolds(r) => RegionHolds(r)'
  BY <1>1 DEF RegionHolds, Named, In
<1>4. \A s : From(s)' = From(s) /\ Of(s)' = Of(s)
  BY <1>1 DEF From, Of
<1>5. \A i : LoaderFits(i) => LoaderFits(i)'
  BY <1>1, <1>4 DEF LoaderFits
<1>6. \A p, b : BuiltByte(p, b)' = BuiltByte(p, b)
  <2>1. \A p, b : RawByte(p, b)' = RawByte(p, b)
    BY <1>1 DEF RawByte, Length
  <2> QED BY <2>1 DEF BuiltByte
<1>7. Unique => Unique'
  BY <1>1 DEF Unique
<1>8. RolesHold => RolesHold'
  BY <1>1, <1>4 DEF RolesHold
<1>9. RecordsHold => RecordsHold'
  BY <1>1, <1>4 DEF RecordsHold, SamePartition
<1>10. LoaderPlaced => LoaderPlaced'
  BY <1>1, <1>4 DEF LoaderPlaced
<1> QED
  BY <1>1, <1>2, <1>3, <1>5, <1>6, <1>7, <1>8, <1>9, <1>10

\* What a step that leaves the layout says of the disk after it.
LEMMA WrittenAfter ==
  ASSUME UNCHANGED layout
  PROVE  \A i : PartWritten(i)' = \A b \in Extent(Parts[i]) :
                                    disk'[b] = BuiltByte(Parts[i], b - Parts[i].start * SectorBytes)
BY DEF PartWritten, Extent, BuiltByte, RawByte, Bytes, Parts, Regions, Length, SourceByte, Zero

\* What was read stays read.
LEMMA StaysRead ==
  ASSUME UNCHANGED <<layout, end>>
  PROVE  /\ PartsRead(Len(Parts) + 1) => PartsRead(Len(Parts) + 1)'
         /\ RegionsRead(Len(Regions) + 1) => RegionsRead(Len(Regions) + 1)'
BY SameLayout DEF PartsRead, RegionsRead

\* The reading of the partitions keeps the invariant.
LEMMA PartitionSteps ==
  ASSUME LayoutAssumption, DiskInv, ReadPartition \/ ReadPartitions \/ CheckWhole
  PROVE  DiskInv'
<1>1. layout' = layout /\ layout \in Layouts /\ index \in Nat \ {0} /\ end \in Nat /\ FirstSector <= end
  BY DEF DiskInv, ReadPartition, ReadPartitions, CheckWhole, RefuseLayout
<1>2. phase' = "refused" /\ UNCHANGED <<layout, index, end, disk>> => DiskInv'
  BY <1>1 DEF DiskInv, Whole
<1>3. ASSUME phase = "partitions", index \in DOMAIN Parts,
             Parts[index].number = NumberOf(index), Parts[index].start >= end,
             index' = index + 1, end' = Parts[index].start + Parts[index].size, phase' = phase
      PROVE  DiskInv'
  <2>1. /\ \A i \in DOMAIN Parts : i \in Nat /\ Parts[i].start \in Nat /\ Parts[i].size \in Nat
        /\ FirstSector \in Nat
    BY <1>1, DiskRows DEF LayoutAssumption
  <2>2. end' \in Nat /\ end <= end' /\ FirstSector <= end' /\ index' \in Nat \ {0}
    BY <1>1, <1>3, <2>1
  <2>3. PartsRead(index)
    BY <1>3 DEF DiskInv
  <2>4. \A i \in DOMAIN Parts : i < index + 1 =>
          /\ Parts[i].number = NumberOf(i)
          /\ FirstSector <= Parts[i].start /\ Parts[i].start + Parts[i].size <= end'
    <3> SUFFICES ASSUME NEW i \in DOMAIN Parts, i < index + 1
                 PROVE  /\ Parts[i].number = NumberOf(i)
                        /\ FirstSector <= Parts[i].start /\ Parts[i].start + Parts[i].size <= end'
      OBVIOUS
    <3>1. CASE i = index
      BY <1>1, <1>3, <2>1, <2>2, <3>1
    <3>2. CASE i < index
      BY <1>1, <2>1, <2>2, <2>3, <3>2 DEF PartsRead
    <3> QED BY <1>1, <2>1, <3>1, <3>2
  <2>5. \A i, j \in DOMAIN Parts : i < j /\ j < index + 1 => Parts[i].start + Parts[i].size <= Parts[j].start
    <3> SUFFICES ASSUME NEW i \in DOMAIN Parts, NEW j \in DOMAIN Parts, i < j, j < index + 1
                 PROVE  Parts[i].start + Parts[i].size <= Parts[j].start
      OBVIOUS
    <3>1. CASE j = index
      BY <1>1, <1>3, <2>1, <2>3, <3>1 DEF PartsRead
    <3>2. CASE j < index
      BY <2>3, <3>2 DEF PartsRead
    <3> QED BY <1>1, <2>1, <3>1, <3>2
  <2>6. PartsRead(index)'
    BY <1>1, <1>3, <2>4, <2>5, SameLayout DEF PartsRead
  <2> QED BY <1>1, <1>3, <2>2, <2>6 DEF DiskInv, Whole
<1>4. ASSUME phase = "partitions", index > Len(Parts), phase' = "whole", index' = 1, end' = end
      PROVE  DiskInv'
  <2>1. PartsRead(index) /\ Len(Parts) \in Nat /\ \A i \in DOMAIN Parts : i < index /\ i \in Nat
    BY <1>1, <1>4, DiskRows DEF DiskInv
  <2>2. PartsRead(Len(Parts) + 1)'
    BY <1>1, <1>4, <2>1, SameLayout DEF PartsRead
  <2> QED BY <1>1, <1>4, <2>2 DEF DiskInv, Whole
<1>5. ASSUME phase = "whole", Unique, RolesHold, phase' = "regions", UNCHANGED <<index, end>>
      PROVE  DiskInv'
  <2>1. PartsRead(Len(Parts) + 1) /\ index = 1
    BY <1>5 DEF DiskInv
  <2>2. Unique' /\ RolesHold' /\ PartsRead(Len(Parts) + 1)'
    BY <1>1, <1>5, <2>1, SameLayout, StaysRead
  <2>3. RegionsRead(index)'
    BY <1>1, <1>5, <2>1, DiskRows, SameLayout DEF RegionsRead
  <2> QED BY <1>1, <1>5, <2>2, <2>3 DEF DiskInv, Whole
<1>6. CASE ReadPartition
  <2>1. phase = "partitions" /\ index <= Len(Parts)
    BY <1>6 DEF ReadPartition
  <2>2. CASE Parts[index].number = NumberOf(index) /\ FitsAfter(Parts[index])
    <3>1. /\ index' = index + 1 /\ end' = Parts[index].start + Parts[index].size /\ phase' = phase
          /\ Parts[index].start >= end
      BY <1>6, <2>2 DEF ReadPartition, FitsAfter
    <3>2. index # 0
      BY <2>1 DEF DiskInv
    <3>3. index \in DOMAIN Parts
      BY <1>1, <2>1, <3>2, DiskRows
    <3> QED BY <1>3, <2>1, <2>2, <3>1, <3>3
  <2>3. CASE RefuseLayout
    BY <1>2, <2>3 DEF RefuseLayout
  <2> QED BY <1>6, <2>2, <2>3 DEF ReadPartition
<1>7. CASE ReadPartitions
  BY <1>4, <1>7 DEF ReadPartitions
<1>8. CASE CheckWhole
  BY <1>2, <1>5, <1>8 DEF CheckWhole, RefuseLayout
<1> QED
  BY <1>6, <1>7, <1>8

\* The reading of the regions keeps the invariant.
LEMMA RegionSteps ==
  ASSUME LayoutAssumption, DiskInv, ReadRegion \/ ReadRegions \/ CheckRecords
  PROVE  DiskInv'
<1>1. /\ UNCHANGED <<layout, end, disk>>
      /\ layout \in Layouts /\ index \in Nat \ {0} /\ end \in Nat /\ FirstSector <= end
      /\ phase \in {"regions", "records"} /\ PartsRead(Len(Parts) + 1) /\ Unique /\ RolesHold
  BY DEF DiskInv, Whole, ReadRegion, ReadRegions, CheckRecords, RefuseLayout
<1>2. PartsRead(Len(Parts) + 1)' /\ Unique' /\ RolesHold'
  BY <1>1, SameLayout, StaysRead
<1>3. CASE RefuseLayout
  BY <1>1, <1>3 DEF DiskInv, Whole, RefuseLayout
<1>4. ASSUME phase = "regions", index <= Len(Regions), RegionHolds(index), index' = index + 1, phase' = phase
      PROVE  DiskInv'
  <2>1. RegionsRead(index) /\ \A r \in DOMAIN Regions : r \in Nat
    BY <1>1, <1>4, DiskRows DEF DiskInv
  <2>2. RegionsRead(index)'
    BY <1>1, <1>4, <2>1, SameLayout DEF RegionsRead
  <2> QED BY <1>1, <1>2, <1>4, <2>2 DEF DiskInv, Whole
<1>5. ASSUME phase = "regions", index > Len(Regions), phase' = "records", index' = 1
      PROVE  DiskInv'
  <2>1. RegionsRead(index) /\ Len(Regions) \in Nat /\ \A r \in DOMAIN Regions : r < index
    BY <1>1, <1>5, DiskRows DEF DiskInv
  <2>2. RegionsRead(Len(Regions) + 1)'
    BY <1>1, <2>1, SameLayout DEF RegionsRead
  <2> QED BY <1>1, <1>2, <1>5, <2>2 DEF DiskInv, Whole
<1>6. ASSUME phase = "records", RecordsHold, phase' = "accepted", index' = index
      PROVE  DiskInv'
  <2>1. RegionsRead(Len(Regions) + 1)
    BY <1>6 DEF DiskInv, Whole
  <2>2. RegionsRead(Len(Regions) + 1)' /\ RecordsHold'
    BY <1>1, <1>6, <2>1, SameLayout, StaysRead
  <2> QED BY <1>1, <1>2, <1>6, <2>2 DEF DiskInv, Whole
<1> QED
  BY <1>3, <1>4, <1>5, <1>6 DEF ReadRegion, ReadRegions, CheckRecords

\* The assembly keeps the invariant: a partition is written over the zeros of its
\* own sectors only.
LEMMA AssemblySteps ==
  ASSUME LayoutAssumption, DiskInv, StartAssembly \/ WritePartition \/ Finish
  PROVE  DiskInv'
<1>1. /\ UNCHANGED <<layout, end>>
      /\ layout \in Layouts /\ index \in Nat \ {0} /\ end \in Nat /\ FirstSector <= end
      /\ phase \in {"accepted", "assembling"} /\ PartsRead(Len(Parts) + 1) /\ Unique /\ RolesHold
      /\ RegionsRead(Len(Regions) + 1) /\ RecordsHold
  BY DEF DiskInv, Whole, StartAssembly, WritePartition, Finish, RefuseLayout
<1>2. PartsRead(Len(Parts) + 1)' /\ Unique' /\ RolesHold' /\ RegionsRead(Len(Regions) + 1)' /\ RecordsHold'
  BY <1>1, SameLayout, StaysRead
<1>3. Gpt' = Gpt /\ DiskBytes' = DiskBytes /\ \A p : Extent(p)' = Extent(p)
  BY <1>1 DEF Gpt, DiskBytes, Extent
<1>4. /\ Len(Parts) \in Nat /\ Len(Parts) + 1 \in Nat
      /\ \A i \in DOMAIN Parts : i \in Nat \ {0} /\ i < Len(Parts) + 1
  BY <1>1, DiskRows
<1>5. /\ \A i \in DOMAIN Parts : Extent(Parts[i]) \subseteq Bytes(0, DiskBytes) /\ Extent(Parts[i]) \cap Gpt = {}
      /\ \A i, j \in DOMAIN Parts : i # j => Extent(Parts[i]) \cap Extent(Parts[j]) = {}
      /\ Gpt \subseteq Bytes(0, DiskBytes)
  BY <1>1, <1>4, PartsApart
<1>6. CASE RefuseLayout
  BY <1>1, <1>6 DEF DiskInv, Whole, RefuseLayout
<1>7. ASSUME phase = "accepted", LoaderPlaced, phase' = "assembling", index' = 1,
             disk' = [b \in Bytes(0, DiskBytes) |-> IF b \in Gpt THEN GptByte ELSE Zero]
      PROVE  DiskInv'
  <2>1. LoaderPlaced'
    BY <1>1, <1>7, SameLayout
  <2>2. \A b \in Gpt : disk'[b] = GptByte
    BY <1>5, <1>7
  <2>3. DiskWritten(index)'
    BY <1>1, <1>3, <1>4, <1>7, <2>2, SameLayout DEF DiskWritten, Bytes
  <2> QED BY <1>1, <1>2, <1>7, <2>1, <2>3 DEF DiskInv, Whole
<1>8. ASSUME phase = "assembling", index \in DOMAIN Parts, LoaderFits(index), index' = index + 1, phase' = phase,
             disk' = [b \in DOMAIN disk |->
                        IF b \in Extent(Parts[index])
                        THEN BuiltByte(Parts[index], b - Parts[index].start * SectorBytes) ELSE disk[b]]
      PROVE  DiskInv'
  <2>1. DiskWritten(index) /\ LoaderPlaced
    BY <1>8 DEF DiskInv
  <2>2. DOMAIN disk' = Bytes(0, DiskBytes) /\ \A b \in Gpt : disk'[b] = GptByte
    BY <1>5, <1>8, <2>1 DEF DiskWritten
  <2>3. \A i \in DOMAIN Parts : i < index + 1 =>
          /\ LoaderFits(i)
          /\ \A b \in Extent(Parts[i]) : disk'[b] = BuiltByte(Parts[i], b - Parts[i].start * SectorBytes)
    <3> SUFFICES ASSUME NEW i \in DOMAIN Parts, i < index + 1
                 PROVE  /\ LoaderFits(i)
                        /\ \A b \in Extent(Parts[i]) :
                             disk'[b] = BuiltByte(Parts[i], b - Parts[i].start * SectorBytes)
      OBVIOUS
    <3>1. Extent(Parts[i]) \subseteq DOMAIN disk
      BY <1>5, <2>1 DEF DiskWritten
    <3>2. CASE i = index
      BY <1>8, <3>1, <3>2
    <3>3. CASE i < index
      <4>0. i # index
        BY <1>1, <1>4, <3>3
      <4>1. \A b \in Extent(Parts[i]) : b \notin Extent(Parts[index])
        <5>1. Extent(Parts[i]) \cap Extent(Parts[index]) = {}
          BY <1>5, <1>8, <4>0
        <5> QED BY <5>1
      <4>2. \A b \in Extent(Parts[i]) : disk'[b] = disk[b]
        BY <1>8, <3>1, <4>1
      <4> QED BY <2>1, <3>3, <4>2 DEF DiskWritten, PartWritten
    <3> QED BY <1>1, <1>4, <3>2, <3>3
  <2>4. LoaderPlaced' /\ Bytes(0, DiskBytes)' = Bytes(0, DiskBytes)
    BY <1>1, <1>3, <2>1, SameLayout DEF Bytes
  <2>5. DiskWritten(index)'
    <3>1. Parts' = Parts /\ \A i : LoaderFits(i) => LoaderFits(i)'
      BY <1>1, SameLayout
    <3>2. \A i : PartWritten(i)' = \A b \in Extent(Parts[i]) :
                                      disk'[b] = BuiltByte(Parts[i], b - Parts[i].start * SectorBytes)
      BY <1>1, WrittenAfter
    <3>3. (\A b \in Gpt : disk[b] = GptByte)'
      BY <1>3, <2>2 DEF GptByte
    <3> QED BY <1>8, <2>2, <2>3, <2>4, <3>1, <3>2, <3>3 DEF DiskWritten
  <2> QED BY <1>1, <1>2, <1>8, <2>4, <2>5 DEF DiskInv, Whole
<1>9. ASSUME phase = "assembling", index > Len(Parts), phase' = "written", UNCHANGED <<index, disk>>
      PROVE  DiskInv'
  <2>1. DiskWritten(index) /\ LoaderPlaced
    BY <1>9 DEF DiskInv
  <2>2. \A i \in DOMAIN Parts : i < index
    BY <1>1, <1>4, <1>9
  <2>3. LoaderPlaced' /\ Bytes(0, DiskBytes)' = Bytes(0, DiskBytes)
    BY <1>1, <1>3, <2>1, SameLayout DEF Bytes
  <2>4. DiskWritten(Len(Parts) + 1)'
    <3>1. Parts' = Parts /\ \A i : LoaderFits(i) => LoaderFits(i)'
      BY <1>1, SameLayout
    <3>2. \A i : PartWritten(i) => PartWritten(i)'
      BY <1>1, <1>9, WrittenAfter DEF PartWritten
    <3>3. (\A b \in Gpt : disk[b] = GptByte)'
      BY <1>3, <1>9, <2>1 DEF DiskWritten, GptByte
    <3> QED BY <1>9, <2>1, <2>2, <2>3, <3>1, <3>2, <3>3 DEF DiskWritten
  <2> QED BY <1>1, <1>2, <1>9, <2>3, <2>4 DEF DiskInv, Whole
<1>10. CASE WritePartition
  <2>1. phase = "assembling" /\ index \in DOMAIN Parts
    BY <1>1, <1>10, DiskRows DEF WritePartition
  <2>2. CASE \E k \in From("loader") :
               Regions[k].partition = Parts[index].name /\ layout.loaderBytes > Regions[k].size
    BY <1>6, <1>10, <2>2 DEF WritePartition
  <2>3. CASE ~\E k \in From("loader") :
               Regions[k].partition = Parts[index].name /\ layout.loaderBytes > Regions[k].size
    <3>1. LoaderFits(index)
      BY <1>1, <2>3, DiskRows DEF LoaderFits, From
    <3> QED BY <1>8, <1>10, <2>1, <2>3, <3>1 DEF WritePartition
  <2> QED BY <2>2, <2>3
<1> QED
  BY <1>6, <1>7, <1>9, <1>10 DEF StartAssembly, Finish

\* The invariant holds of the initial states.
LEMMA DiskInitHolds ==
  ASSUME LayoutAssumption, LayoutInit
  PROVE  DiskInv
<1>1. /\ layout \in Layouts /\ index = 1 /\ end \in Nat /\ FirstSector <= end /\ phase = "partitions"
  BY DEF LayoutInit, LayoutAssumption
<1>2. PartsRead(index)
  BY <1>1, DiskRows DEF PartsRead
<1> QED
  BY <1>1, <1>2 DEF DiskInv, Whole

\* Every step preserves it.
LEMMA DiskStepHolds ==
  ASSUME LayoutAssumption, DiskInv, [LayoutNext]_layoutVars
  PROVE  DiskInv'
<1>1. CASE ReadPartition \/ ReadPartitions \/ CheckWhole
  BY <1>1, PartitionSteps
<1>2. CASE ReadRegion \/ ReadRegions \/ CheckRecords
  BY <1>2, RegionSteps
<1>3. CASE StartAssembly \/ WritePartition \/ Finish
  BY <1>3, AssemblySteps
<1>4. CASE UNCHANGED layoutVars
  <2>1. /\ layout' = layout /\ index' = index /\ end' = end /\ phase' = phase /\ disk' = disk
        /\ Parts' = Parts
    BY <1>4, SameLayout DEF layoutVars
  <2>2. /\ PartsRead(index) => PartsRead(index)'
        /\ PartsRead(Len(Parts) + 1) => PartsRead(Len(Parts) + 1)'
        /\ RegionsRead(index) => RegionsRead(index)'
        /\ RegionsRead(Len(Regions) + 1) => RegionsRead(Len(Regions) + 1)'
    BY <2>1, SameLayout DEF PartsRead, RegionsRead
  <2>3. /\ (Unique => Unique') /\ (RolesHold => RolesHold')
        /\ (RecordsHold => RecordsHold') /\ (LoaderPlaced => LoaderPlaced')
    BY <2>1, SameLayout
  <2>4. /\ DiskWritten(index) => DiskWritten(index)'
        /\ DiskWritten(Len(Parts) + 1) => DiskWritten(Len(Parts) + 1)'
    <3>1. /\ Bytes(0, DiskBytes)' = Bytes(0, DiskBytes)
          /\ (\A b \in Gpt : disk[b] = GptByte) => (\A b \in Gpt : disk[b] = GptByte)'
      BY <2>1 DEF Bytes, DiskBytes, Gpt, GptByte
    <3>2. \A i : (LoaderFits(i) => LoaderFits(i)') /\ (PartWritten(i) => PartWritten(i)')
      BY <2>1, SameLayout, WrittenAfter DEF PartWritten
    <3> QED BY <2>1, <3>1, <3>2 DEF DiskWritten
  <2> QED BY <2>1, <2>2, <2>3, <2>4 DEF DiskInv, Whole
<1> QED
  BY <1>1, <1>2, <1>3, <1>4 DEF LayoutNext

\* The invariant holds of every reachable state.
LEMMA DiskInvCorrect ==
  ASSUME LayoutAssumption
  PROVE  LayoutSpec => []DiskInv
<1>1. LayoutInit => DiskInv
  BY DiskInitHolds
<1>2. DiskInv /\ [LayoutNext]_layoutVars => DiskInv'
  BY DiskStepHolds
<1> QED
  BY <1>1, <1>2, PTL DEF LayoutSpec

-----------------------------------------------------------------------------
(* What is read back.                                                       *)

\* A byte of a partition is the byte of its image.
LEMMA ByteOf ==
  ASSUME LayoutAssumption, layout \in Layouts, NEW i \in DOMAIN Parts, PartWritten(i),
         NEW k \in Nat, k < Parts[i].size * SectorBytes
  PROVE  disk[Parts[i].start * SectorBytes + k] = BuiltByte(Parts[i], k)
<1> DEFINE from == Parts[i].start * SectorBytes  count == Parts[i].size * SectorBytes
<1>1. from \in Nat /\ count \in Nat /\ k < count
  BY DiskRows, InBytes
<1>2. \A b \in Bytes(from, count) : disk[b] = BuiltByte(Parts[i], b - from)
  BY DEF PartWritten, Extent
<1> HIDE DEF from, count
<1>3. from + k \in Bytes(from, count) /\ (from + k) - from = k
  BY <1>1 DEF Bytes
<1>4. disk[from + k] = BuiltByte(Parts[i], k)
  BY <1>2, <1>3
<1> QED
  BY <1>4 DEF from

\* A region reads as its source.
LEMMA RegionReads ==
  ASSUME LayoutAssumption, layout \in Layouts, RegionsRead(Len(Regions) + 1),
         \A i \in DOMAIN Parts : LoaderFits(i) /\ PartWritten(i),
         NEW r \in DOMAIN Regions
  PROVE  Holds(Regions[r].source, DiskOffset(r), Length(Regions[r]))
<1> DEFINE from == Parts[In(Regions[r])].start * SectorBytes
<1>1. RegionHolds(r) /\ Regions[r].offset \in Nat /\ Length(Regions[r]) \in Nat
  BY DiskRows DEF RegionsRead, Length
<1>2. In(Regions[r]) \in DOMAIN Parts /\ Parts[In(Regions[r])].role = "raw"
  BY <1>1, PartitionOf
<1>3. from \in Nat
  BY <1>2, DiskRows, InBytes
<1>4. ASSUME NEW k \in 0 .. Length(Regions[r]) - 1
      PROVE  disk[DiskOffset(r) + k] = <<Regions[r].source, k>>
  <2>1. k \in Nat /\ k < Length(Regions[r]) /\ Regions[r].offset + k \in Nat
    BY <1>1
  <2>2. /\ Regions[r].offset + k < Parts[In(Regions[r])].size * SectorBytes
        /\ RawByte(Parts[In(Regions[r])], Regions[r].offset + k) = <<Regions[r].source, k>>
    BY <1>2, <2>1, RegionBytes
  <2>3. disk[from + (Regions[r].offset + k)] = BuiltByte(Parts[In(Regions[r])], Regions[r].offset + k)
    BY <1>2, <2>1, <2>2, ByteOf
  <2>4. BuiltByte(Parts[In(Regions[r])], Regions[r].offset + k) = <<Regions[r].source, k>>
    BY <1>2, <2>2 DEF BuiltByte
  <2>5. DiskOffset(r) + k = from + (Regions[r].offset + k)
    <3> HIDE DEF from
    <3>1. (from + Regions[r].offset) + k = from + (Regions[r].offset + k)
      BY <1>1, <1>3, <2>1
    <3> QED BY <3>1 DEF DiskOffset, from
  <2> QED BY <2>3, <2>4, <2>5
<1> QED
  BY <1>4 DEF Holds

\* A source has one region at most, whichever of its regions is chosen.
LEMMA OneRegion ==
  ASSUME LayoutAssumption, layout \in Layouts, NEW s \in Sources \ {"file"}, RecordsHold, NEW k \in From(s)
  PROVE  (CHOOSE x \in From(s) : TRUE) = k
<1>1. IsFiniteSet(DOMAIN Regions)
  BY DiskRows, FS_Interval
<1>2. IsFiniteSet(From(s))
  <2>1. From(s) \subseteq DOMAIN Regions
    BY DEF From
  <2> QED BY <1>1, <2>1, FS_Subset
<1>3. Cardinality(From(s)) <= 1 /\ Cardinality(From(s)) \in Nat /\ Cardinality(From(s)) # 0
  BY <1>2, FS_CardinalityType, FS_EmptySet DEF RecordsHold
<1>4. Cardinality(From(s)) = 1
  <2> DEFINE n == Cardinality(From(s))
  <2>1. n <= 1 /\ n \in Nat /\ n # 0
    BY <1>3
  <2> HIDE DEF n
  <2>2. n = 1
    BY <2>1
  <2> QED BY <2>2 DEF n
<1>5. PICK x : From(s) = {x}
  BY <1>2, <1>4, FS_Singleton
<1> QED
  BY <1>5

\* The disk that was written holds everything where it is read.
LEMMA ReadsBack ==
  ASSUME LayoutAssumption, DiskInv
  PROVE  WrittenWhereRead
<1> SUFFICES ASSUME phase = "written" PROVE WrittenWhereRead
  BY DEF WrittenWhereRead
<1>1. /\ layout \in Layouts /\ PartsRead(Len(Parts) + 1) /\ Unique /\ RolesHold
      /\ RegionsRead(Len(Regions) + 1) /\ RecordsHold /\ LoaderPlaced /\ DiskWritten(Len(Parts) + 1)
  BY DEF DiskInv, Whole
<1>2. \A i \in DOMAIN Parts : i < Len(Parts) + 1
  BY <1>1, DiskRows
<1>3. \A b \in Gpt : disk[b] = GptByte
  BY <1>1 DEF DiskWritten
<1>4. \A i \in DOMAIN Parts : LoaderFits(i) /\ PartWritten(i)
  BY <1>1, <1>2 DEF DiskWritten
<1>5. \A i, j \in DOMAIN Parts : Parts[i].number = Parts[j].number \/ Parts[i].id = Parts[j].id => i = j
  <2>1. \A i \in DOMAIN Parts : Parts[i].number = NumberOf(i)
    BY <1>1, <1>2 DEF PartsRead
  <2>2. \A i, j \in DOMAIN Parts : NumberOf(i) = NumberOf(j) => i = j
    BY <1>1, NumbersApart
  <2> QED BY <1>1, <2>1, <2>2 DEF Unique
<1>6. ASSUME NEW i \in DOMAIN Parts, Parts[i].fs # "-"
      PROVE  Holds(Parts[i].name, Parts[i].start * SectorBytes, Parts[i].size * SectorBytes)
  <2>1. \A k : BuiltByte(Parts[i], k) = <<Parts[i].name, k>>
    BY <1>1, <1>6 DEF RolesHold, BuiltByte
  <2>2. \A k \in 0 .. Parts[i].size * SectorBytes - 1 : k \in Nat /\ k < Parts[i].size * SectorBytes
    <3> DEFINE count == Parts[i].size * SectorBytes
    <3>1. count \in Nat
      BY <1>1, DiskRows, InBytes
    <3> HIDE DEF count
    <3>2. \A k \in 0 .. count - 1 : k \in Nat /\ k < count
      BY <3>1
    <3> QED BY <3>2 DEF count
  <2>3. \A k \in 0 .. Parts[i].size * SectorBytes - 1 :
          disk[Parts[i].start * SectorBytes + k] = BuiltByte(Parts[i], k)
    BY <1>1, <1>4, <2>2, ByteOf
  <2> QED BY <2>1, <2>3 DEF Holds
<1>7. ASSUME NEW i \in DOMAIN Parts, Parts[i].role = "preserved"
      PROVE  \A b \in Extent(Parts[i]) : disk[b] = Zero
  BY <1>4, <1>7 DEF PartWritten, BuiltByte
<1>8. \A r \in DOMAIN Regions : Holds(Regions[r].source, DiskOffset(r), Length(Regions[r]))
  BY <1>1, <1>4, RegionReads
<1>9. ASSUME layout.backend = "uboot-fit", NEW s \in {"records-a", "records-b"}
      PROVE  Holds(s, RecordAt(s), RecordBytes)
  <2>1. PICK a \in From("records-a"), b \in From("records-b") : SamePartition(Regions[a], Regions[b])
    BY <1>1, <1>9 DEF RecordsHold
  <2>2. PICK k \in From(s) : Regions[k].partition = Regions[a].partition
    BY <1>9, <2>1 DEF SamePartition
  <2>3. (CHOOSE x \in From("records-a") : TRUE) = a /\ (CHOOSE x \in From(s) : TRUE) = k
    BY <1>1, <1>9, <2>1, <2>2, OneRegion DEF Sources
  <2>4. k \in DOMAIN Regions /\ Regions[k].source = s /\ In(Regions[k]) = In(Regions[a])
    BY <2>2 DEF From, In
  <2>5. RecordAt(s) = DiskOffset(k)
    BY <2>3, <2>4 DEF RecordAt, DiskOffset
  <2>6. Length(Regions[k]) = RecordBytes
    BY <1>1, <1>9, <2>4, DiskRows DEF RegionsRead, RegionHolds, Length
  <2> QED BY <1>8, <2>4, <2>5, <2>6
<1>10. ASSUME layout.firmware = "disk"
       PROVE  \E k \in From("loader") : Holds("loader", DiskOffset(k), layout.loaderBytes)
  <2>1. PICK k \in From("loader") : TRUE
    BY <1>1, <1>10 DEF LoaderPlaced
  <2>2. k \in DOMAIN Regions /\ Regions[k].source = "loader" /\ Length(Regions[k]) = layout.loaderBytes
    BY <2>1 DEF From, Length
  <2>3. Holds("loader", DiskOffset(k), layout.loaderBytes)
    BY <1>8, <2>2
  <2> QED BY <2>1, <2>3
<1>11. \A k \in From("file") : Holds("file", DiskOffset(k), Regions[k].size)
  BY <1>8 DEF From, Length
<1> QED
  BY <1>3, <1>5, <1>6, <1>7, <1>9, <1>10, <1>11 DEF WrittenWhereRead

\* A layout of any number of partitions and regions that parseLayout accepts is
\* written with nothing over anything else, and every part of it where the board
\* policy, the firmware receipt and the verifier look for it.
THEOREM LayoutCorrect ==
  ASSUME LayoutAssumption
  PROVE  LayoutSpec => []WrittenWhereRead
<1>1. DiskInv => WrittenWhereRead
  BY ReadsBack
<1> QED
  BY <1>1, DiskInvCorrect, PTL

-----------------------------------------------------------------------------
(* The layout of a flash.                                                   *)

\* A nonempty set of numbers has a least one.
LEMMA LeastNumber ==
  ASSUME NEW S \in SUBSET Nat, S # {}
  PROVE  \E n \in S : \A m \in S : n <= m
<1> DEFINE R == OpToRel(<, Nat)
<1>1. PICK n \in S : \A m \in S : ~(<<m, n>> \in R)
  <2>1. IsWellFoundedOn(R, Nat)
    BY NatLessThanWellFounded
  <2> HIDE DEF R
  <2> QED BY <2>1, WFMin
<1>2. \A m \in S : n <= m
  <2> TAKE m \in S
  <2>1. n \in Nat /\ m \in Nat
    OBVIOUS
  <2>2. m < n => <<m, n>> \in R
    BY <2>1 DEF OpToRel
  <2> HIDE DEF R
  <2>3. ~(m < n)
    BY <1>1, <2>2
  <2> QED BY <2>1, <2>3
<1> QED BY <1>2

-----------------------------------------------------------------------------
(* The LEBs of a list of objects, added up and compared.                    *)

\* The LEBs of the first objects of a list.
SumOf(s, w) ==
  /\ DOMAIN w = 0 .. Len(s) /\ w[0] = 0
  /\ \A i \in 1 .. Len(s) : w[i] = w[i - 1] + Lebs(s[i])

\* The largest of them.
TopOf(s, w) ==
  /\ DOMAIN w = 0 .. Len(s) /\ w[0] = 0
  /\ \A i \in 1 .. Len(s) : w[i] = IF Lebs(s[i]) > w[i - 1] THEN Lebs(s[i]) ELSE w[i - 1]

\* Rounded up, a size is a number of LEBs.
LEMMA LebsType ==
  ASSUME Leb \in Nat \ {0}
  PROVE  \A n \in Nat : Lebs(n) \in Nat
<1>1. \A n \in Nat, d \in Nat \ {0} : (n + d - 1) \div d \in Nat
  OBVIOUS
<1> HIDE DEF Leb
<1> QED BY <1>1 DEF Lebs, Ceil

\* Every list has its sums, and Total is the last of them.
LEMMA SumExists ==
  ASSUME NEW s \in Seq(Nat)
  PROVE  \E w : SumOf(s, w) /\ Total(s, Lebs) = w[Len(s)]
<1> DEFINE First(n, w) == w = [i \in 0 .. n |-> IF i = 0 THEN 0 ELSE w[i - 1] + Lebs(s[i])]
           S == {n \in Nat : ~\E w : First(n, w)}
<1>1. S = {}
  <2> SUFFICES ASSUME S # {}
               PROVE  FALSE
    OBVIOUS
  <2>1. PICK n \in S : \A m \in S : n <= m
    BY LeastNumber
  <2>2. n \in Nat /\ ~\E w : First(n, w)
    OBVIOUS
  <2>3. CASE n = 0
    <3> DEFINE w == [i \in 0 .. 0 |-> 0]
    <3>1. w = [i \in 0 .. 0 |-> IF i = 0 THEN 0 ELSE w[i - 1] + Lebs(s[i])]
      OBVIOUS
    <3> HIDE DEF w
    <3> QED BY <2>2, <2>3, <3>1
  <2>4. CASE n # 0
    <3>1. n - 1 \in Nat /\ n - 1 < n
      BY <2>2, <2>4
    <3>2. n - 1 \notin S
      <4> HIDE DEF S
      <4> QED BY <2>1, <2>2, <3>1
    <3>3. PICK v : First(n - 1, v)
      BY <3>1, <3>2
    <3> DEFINE w == [i \in 0 .. n |-> IF i = n THEN v[n - 1] + Lebs(s[n]) ELSE v[i]]
    <3>4. \A i \in 0 .. n : w[i] = IF i = 0 THEN 0 ELSE w[i - 1] + Lebs(s[i])
      <4> TAKE i \in 0 .. n
      <4>1. CASE i = n
        <5>1. n \in 0 .. n /\ n - 1 \in 0 .. n /\ n - 1 # n /\ i # 0
          BY <2>2, <2>4, <4>1
        <5>2. w[n] = v[n - 1] + Lebs(s[n]) /\ w[n - 1] = v[n - 1]
          BY <5>1
        <5> QED BY <4>1, <5>1, <5>2
      <4>2. CASE i # n
        <5>1. i \in 0 .. (n - 1) /\ w[i] = v[i] /\ (i # 0 => i - 1 \in 0 .. n /\ i - 1 # n /\ w[i - 1] = v[i - 1])
          BY <2>2, <4>2
        <5>2. v[i] = IF i = 0 THEN 0 ELSE v[i - 1] + Lebs(s[i])
          BY <3>3, <5>1
        <5> QED BY <5>1, <5>2
      <4> QED BY <4>1, <4>2
    <3>5. w = [i \in 0 .. n |-> w[i]]
      OBVIOUS
    <3> HIDE DEF w
    <3>6. w = [i \in 0 .. n |-> IF i = 0 THEN 0 ELSE w[i - 1] + Lebs(s[i])]
      BY <3>4, <3>5
    <3> QED BY <2>2, <3>6
  <2> QED BY <2>3, <2>4
<1>2. Len(s) \in Nat
  OBVIOUS
<1>3. \E w : First(Len(s), w)
  BY <1>1, <1>2
<1> DEFINE w == CHOOSE w : First(Len(s), w)
<1>4. Total(s, Lebs) = w[Len(s)]
  BY DEF Total
<1>5. First(Len(s), w)
  BY <1>3
<1> HIDE DEF w
<1>6. SumOf(s, w)
  BY <1>2, <1>5 DEF SumOf
<1> QED BY <1>4, <1>6

\* Sums are numbers and only grow.
LEMMA SumGrows ==
  ASSUME Leb \in Nat \ {0}, NEW s \in Seq(Nat), NEW w, SumOf(s, w)
  PROVE  /\ \A i \in 0 .. Len(s) : w[i] \in Nat
         /\ \A i \in 0 .. Len(s), j \in 0 .. Len(s) : i <= j => w[i] <= w[j]
<1>1. Len(s) \in Nat /\ \A i \in 1 .. Len(s) : Lebs(s[i]) \in Nat
  <2>1. \A n \in Nat : Lebs(n) \in Nat
    BY LebsType
  <2>2. Len(s) \in Nat /\ \A i \in 1 .. Len(s) : s[i] \in Nat
    OBVIOUS
  <2> QED BY <2>1, <2>2
<1>2. w[0] = 0 /\ \A i \in 1 .. Len(s) : w[i] = w[i - 1] + Lebs(s[i])
  BY DEF SumOf
<1> HIDE DEF Leb
<1>3. \A i \in 0 .. Len(s) : w[i] \in Nat
  <2> DEFINE S == {i \in 0 .. Len(s) : w[i] \notin Nat}
  <2> SUFFICES ASSUME S # {}
               PROVE  FALSE
    OBVIOUS
  <2>1. S \in SUBSET Nat
    BY <1>1
  <2>2. PICK i \in S : \A m \in S : i <= m
    BY <2>1, LeastNumber
  <2>3. i \in 1 .. Len(s) /\ i - 1 \in 0 .. Len(s) /\ i - 1 \notin S
    BY <1>1, <1>2, <2>2
  <2>4. w[i - 1] \in Nat /\ w[i] = w[i - 1] + Lebs(s[i]) /\ Lebs(s[i]) \in Nat
    BY <1>1, <1>2, <2>3
  <2> QED BY <2>4
<1>4. ASSUME NEW i \in 0 .. Len(s), NEW j \in 0 .. Len(s), i <= j
      PROVE  w[i] <= w[j]
  <2> DEFINE S == {m \in 0 .. Len(s) : i <= m /\ ~(w[i] <= w[m])}
  <2> SUFFICES ASSUME S # {}
               PROVE  FALSE
    BY <1>4
  <2>1. S \in SUBSET Nat
    BY <1>1
  <2>2. PICK m \in S : \A k \in S : m <= k
    BY <2>1, LeastNumber
  <2>3. m # i
    BY <1>3
  <2>4. m \in 1 .. Len(s) /\ m - 1 \in 0 .. Len(s) /\ i <= m - 1 /\ m - 1 \notin S
    BY <1>1, <2>2, <2>3
  <2>5. w[i] <= w[m - 1]
    BY <2>4
  <2>6. w[m] = w[m - 1] + Lebs(s[m]) /\ Lebs(s[m]) \in Nat
    BY <1>1, <1>2, <2>4
  <2>7. w[i] \in Nat /\ w[m] \in Nat /\ w[m - 1] \in Nat
    BY <1>3, <2>4
  <2>8. ~(w[i] <= w[m])
    OBVIOUS
  <2> HIDE DEF S
  <2> QED BY <2>5, <2>6, <2>7, <2>8
<1> QED BY <1>3, <1>4

\* One list after the other.
Follows(r, s, t) ==
  /\ Len(r) = Len(s) + Len(t)
  /\ \A i \in 1 .. Len(s) : r[i] = s[i]
  /\ \A i \in 1 .. Len(t) : r[Len(s) + i] = t[i]

\* The sums of a list and of another after it.
LEMMA SumConcat ==
  ASSUME Leb \in Nat \ {0}, NEW s \in Seq(Nat), NEW t \in Seq(Nat),
         NEW r \in Seq(Nat), Follows(r, s, t),
         NEW u, SumOf(s, u), NEW v, SumOf(t, v), NEW w, SumOf(r, w)
  PROVE  w[Len(r)] = u[Len(s)] + v[Len(t)]
<1> PICK n : n = Len(s)
  OBVIOUS
<1> PICK m : m = Len(t)
  OBVIOUS
<1>1. /\ n \in Nat /\ m \in Nat /\ r \in Seq(Nat) /\ Len(r) = n + m
      /\ \A i \in 1 .. n : r[i] = s[i]
      /\ \A i \in 1 .. m : r[n + i] = t[i]
  BY DEF Follows
<1>2. /\ u[0] = 0 /\ \A i \in 1 .. n : u[i] = u[i - 1] + Lebs(s[i])
      /\ v[0] = 0 /\ \A i \in 1 .. m : v[i] = v[i - 1] + Lebs(t[i])
      /\ w[0] = 0 /\ \A i \in 1 .. (n + m) : w[i] = w[i - 1] + Lebs(r[i])
  BY <1>1 DEF SumOf
<1>3. /\ \A i \in 0 .. n : u[i] \in Nat
      /\ \A i \in 0 .. m : v[i] \in Nat
      /\ \A i \in 0 .. (n + m) : w[i] \in Nat
  BY <1>1, SumGrows
<1>4. \A i \in Nat : Lebs(i) \in Nat
  BY LebsType
<1>5. \A i \in 0 .. n : w[i] = u[i]
  <2> DEFINE S == {i \in 0 .. n : w[i] # u[i]}
  <2> SUFFICES ASSUME S # {}
               PROVE  FALSE
    OBVIOUS
  <2>1. S \in SUBSET Nat
    BY <1>1
  <2>2. PICK i \in S : \A k \in S : i <= k
    BY <2>1, LeastNumber
  <2>3. i \in 1 .. n /\ i - 1 \in 0 .. n /\ i - 1 \notin S
    BY <1>1, <1>2, <2>2
  <2>4. w[i - 1] = u[i - 1] /\ r[i] = s[i] /\ i \in 1 .. (n + m)
    BY <1>1, <2>3
  <2>5. w[i] = u[i]
    BY <1>2, <2>3, <2>4
  <2> QED BY <2>5
<1>6. \A i \in 0 .. m : w[n + i] = u[n] + v[i]
  <2> DEFINE S == {i \in 0 .. m : w[n + i] # u[n] + v[i]}
  <2> SUFFICES ASSUME S # {}
               PROVE  FALSE
    OBVIOUS
  <2>1. S \in SUBSET Nat
    BY <1>1
  <2>2. PICK i \in S : \A k \in S : i <= k
    BY <2>1, LeastNumber
  <2>3. w[n + 0] = u[n] + v[0]
    <3>1. n + 0 = n /\ n \in 0 .. n
      BY <1>1
    <3>2. w[n] = u[n] /\ u[n] \in Nat
      BY <1>3, <1>5, <3>1
    <3> QED BY <1>2, <3>1, <3>2
  <2>4. i \in 1 .. m /\ i - 1 \in 0 .. m /\ i - 1 \notin S
    BY <1>1, <2>2, <2>3
  <2>5. w[n + (i - 1)] = u[n] + v[i - 1]
    <3>1. PICK j \in 0 .. m : j = i - 1
      BY <2>4
    <3>2. j \notin S
      BY <2>4, <3>1
    <3>3. w[n + j] = u[n] + v[j]
      BY <3>2
    <3> HIDE DEF S
    <3> QED BY <3>1, <3>3
  <2>6. n + i \in 1 .. (n + m) /\ (n + i) - 1 = n + (i - 1) /\ r[n + i] = t[i] /\ t[i] \in Nat
    <3>1. n \in Nat /\ m \in Nat /\ i \in 1 .. m
      BY <1>1, <2>4
    <3> HIDE DEF S
    <3>2. n + i \in 1 .. (n + m) /\ (n + i) - 1 = n + (i - 1)
      BY <3>1
    <3>3. t[i] \in Nat
      BY <3>1
    <3>4. r[n + i] = t[i]
      BY <1>1, <3>1
    <3> QED BY <3>2, <3>3, <3>4
  <2>7. w[n + i] = w[n + (i - 1)] + Lebs(t[i])
    <3>1. PICK j : j = n + i
      OBVIOUS
    <3>2. j \in 1 .. (n + m) /\ j - 1 = n + (i - 1) /\ r[j] = t[i]
      BY <2>6, <3>1
    <3>3. w[j] = w[j - 1] + Lebs(r[j])
      BY <1>2, <3>2
    <3> QED BY <3>1, <3>2, <3>3
  <2>8. v[i] = v[i - 1] + Lebs(t[i])
    BY <1>2, <2>4
  <2>9. u[n] \in Nat /\ v[i - 1] \in Nat /\ Lebs(t[i]) \in Nat
    <3>1. n \in 0 .. n
      BY <1>1
    <3>2. Lebs(t[i]) \in Nat
      BY <1>4, <2>6
    <3> QED BY <1>3, <2>4, <3>1, <3>2
  <2>10. w[n + i] = u[n] + v[i]
    BY <2>5, <2>7, <2>8, <2>9
  <2> QED BY <2>10
<1>7. w[n + m] = u[n] + v[m]
  BY <1>1, <1>6
<1> QED BY <1>1, <1>7

\* A list has one sum.
LEMMA SumSame ==
  ASSUME Leb \in Nat \ {0}, NEW s \in Seq(Nat), NEW u, SumOf(s, u), NEW w, SumOf(s, w)
  PROVE  w[Len(s)] = u[Len(s)]
<1> DEFINE S == {i \in 0 .. Len(s) : w[i] # u[i]}
<1>1. Len(s) \in Nat
  OBVIOUS
<1>2. S = {}
  <2> SUFFICES ASSUME S # {}
               PROVE  FALSE
    OBVIOUS
  <2>1. S \in SUBSET Nat
    BY <1>1
  <2>2. PICK i \in S : \A k \in S : i <= k
    BY <2>1, LeastNumber
  <2>3. w[0] = 0 /\ u[0] = 0
    BY DEF SumOf
  <2>4. i \in 1 .. Len(s) /\ i - 1 \in 0 .. Len(s) /\ i - 1 \notin S
    BY <1>1, <2>2, <2>3
  <2>5. w[i - 1] = u[i - 1]
    BY <2>4
  <2>6. w[i] = w[i - 1] + Lebs(s[i]) /\ u[i] = u[i - 1] + Lebs(s[i])
    BY <2>4 DEF SumOf
  <2> QED BY <2>5, <2>6
<1> QED BY <1>1, <1>2

\* Every list has its largest ones, and Largest is the last of them.
LEMMA TopExists ==
  ASSUME NEW s \in Seq(Nat)
  PROVE  \E w : TopOf(s, w) /\ Largest(s, Lebs) = w[Len(s)]
<1> DEFINE First(n, w) == w = [i \in 0 .. n |-> IF i = 0 THEN 0 ELSE IF Lebs(s[i]) > w[i - 1] THEN Lebs(s[i]) ELSE w[i - 1]]
           S == {n \in Nat : ~\E w : First(n, w)}
<1>1. S = {}
  <2> SUFFICES ASSUME S # {}
               PROVE  FALSE
    OBVIOUS
  <2>1. PICK n \in S : \A m \in S : n <= m
    BY LeastNumber
  <2>2. n \in Nat /\ ~\E w : First(n, w)
    OBVIOUS
  <2>3. CASE n = 0
    <3> DEFINE w == [i \in 0 .. 0 |-> 0]
    <3>1. w = [i \in 0 .. 0 |-> IF i = 0 THEN 0 ELSE IF Lebs(s[i]) > w[i - 1] THEN Lebs(s[i]) ELSE w[i - 1]]
      OBVIOUS
    <3> HIDE DEF w
    <3> QED BY <2>2, <2>3, <3>1
  <2>4. CASE n # 0
    <3>1. n - 1 \in Nat /\ n - 1 < n
      BY <2>2, <2>4
    <3>2. n - 1 \notin S
      <4> HIDE DEF S
      <4> QED BY <2>1, <2>2, <3>1
    <3>3. PICK v : First(n - 1, v)
      BY <3>1, <3>2
    <3> DEFINE w == [i \in 0 .. n |-> IF i = n THEN (IF Lebs(s[n]) > v[n - 1] THEN Lebs(s[n]) ELSE v[n - 1]) ELSE v[i]]
    <3>4. \A i \in 0 .. n : w[i] = IF i = 0 THEN 0 ELSE IF Lebs(s[i]) > w[i - 1] THEN Lebs(s[i]) ELSE w[i - 1]
      <4> TAKE i \in 0 .. n
      <4>1. CASE i = n
        <5>1. n \in 0 .. n /\ n - 1 \in 0 .. n /\ n - 1 # n /\ i # 0
          BY <2>2, <2>4, <4>1
        <5>2. (w[n] = IF Lebs(s[n]) > v[n - 1] THEN Lebs(s[n]) ELSE v[n - 1]) /\ w[n - 1] = v[n - 1]
          BY <5>1
        <5> QED BY <4>1, <5>1, <5>2
      <4>2. CASE i # n
        <5>1. i \in 0 .. (n - 1) /\ w[i] = v[i] /\ (i # 0 => i - 1 \in 0 .. n /\ i - 1 # n /\ w[i - 1] = v[i - 1])
          BY <2>2, <4>2
        <5>2. v[i] = IF i = 0 THEN 0 ELSE IF Lebs(s[i]) > v[i - 1] THEN Lebs(s[i]) ELSE v[i - 1]
          BY <3>3, <5>1
        <5> QED BY <5>1, <5>2
      <4> QED BY <4>1, <4>2
    <3>5. w = [i \in 0 .. n |-> w[i]]
      OBVIOUS
    <3> HIDE DEF w
    <3>6. w = [i \in 0 .. n |-> IF i = 0 THEN 0 ELSE IF Lebs(s[i]) > w[i - 1] THEN Lebs(s[i]) ELSE w[i - 1]]
      BY <3>4, <3>5
    <3> QED BY <2>2, <3>6
  <2> QED BY <2>3, <2>4
<1>2. Len(s) \in Nat
  OBVIOUS
<1>3. \E w : First(Len(s), w)
  BY <1>1, <1>2
<1> DEFINE w == CHOOSE w : First(Len(s), w)
<1>4. Largest(s, Lebs) = w[Len(s)]
  BY DEF Largest
<1>5. First(Len(s), w)
  BY <1>3
<1> HIDE DEF w
<1>6. TopOf(s, w)
  <2>1. DOMAIN w = 0 .. Len(s)
    BY <1>5
  <2>2. w[0] = 0
    BY <1>2, <1>5
  <2>3. ASSUME NEW i \in 1 .. Len(s)
        PROVE  w[i] = IF Lebs(s[i]) > w[i - 1] THEN Lebs(s[i]) ELSE w[i - 1]
    <3>1. i \in 0 .. Len(s) /\ i # 0
      BY <1>2
    <3>2. w[i] = IF i = 0 THEN 0 ELSE IF Lebs(s[i]) > w[i - 1] THEN Lebs(s[i]) ELSE w[i - 1]
      BY <1>5, <3>1
    <3> QED BY <3>1, <3>2
  <2> QED BY <2>1, <2>2, <2>3 DEF TopOf
<1> QED BY <1>4, <1>6

\* Nothing in a list is larger than its largest.
LEMMA LargestBounds ==
  ASSUME Leb \in Nat \ {0}, NEW s \in Seq(Nat)
  PROVE  /\ Largest(s, Lebs) \in Nat
         /\ \A i \in 1 .. Len(s) : Lebs(s[i]) <= Largest(s, Lebs)
<1> PICK w : TopOf(s, w) /\ Largest(s, Lebs) = w[Len(s)]
  BY TopExists
<1>1. Len(s) \in Nat /\ \A i \in 1 .. Len(s) : Lebs(s[i]) \in Nat
  <2>1. \A n \in Nat : Lebs(n) \in Nat
    BY LebsType
  <2>2. Len(s) \in Nat /\ \A i \in 1 .. Len(s) : s[i] \in Nat
    OBVIOUS
  <2> QED BY <2>1, <2>2
<1>2. w[0] = 0 /\ \A i \in 1 .. Len(s) : w[i] = IF Lebs(s[i]) > w[i - 1] THEN Lebs(s[i]) ELSE w[i - 1]
  BY DEF TopOf
<1> HIDE DEF Leb
<1>3. \A i \in 0 .. Len(s) : w[i] \in Nat
  <2> DEFINE S == {i \in 0 .. Len(s) : w[i] \notin Nat}
  <2> SUFFICES ASSUME S # {}
               PROVE  FALSE
    OBVIOUS
  <2>1. S \in SUBSET Nat
    BY <1>1
  <2>2. PICK i \in S : \A m \in S : i <= m
    BY <2>1, LeastNumber
  <2>3. i \in 1 .. Len(s) /\ i - 1 \in 0 .. Len(s) /\ i - 1 \notin S
    BY <1>1, <1>2, <2>2
  <2>4. w[i - 1] \in Nat /\ w[i] \in {w[i - 1], Lebs(s[i])} /\ Lebs(s[i]) \in Nat
    BY <1>1, <1>2, <2>3
  <2> QED BY <2>4
<1>4. ASSUME NEW i \in 1 .. Len(s)
      PROVE  Lebs(s[i]) <= w[Len(s)]
  <2> DEFINE S == {m \in 1 .. Len(s) : i <= m /\ ~(Lebs(s[i]) <= w[m])}
  <2>1. S = {}
    <3> SUFFICES ASSUME S # {}
                 PROVE  FALSE
      OBVIOUS
    <3>1. S \in SUBSET Nat
      BY <1>1
    <3>2. PICK m \in S : \A k \in S : m <= k
      BY <3>1, LeastNumber
    <3>3. m \in 1 .. Len(s) /\ i <= m /\ ~(Lebs(s[i]) <= w[m])
      OBVIOUS
    <3>4. w[m] = IF Lebs(s[m]) > w[m - 1] THEN Lebs(s[m]) ELSE w[m - 1]
      BY <1>2, <3>3
    <3>5. Lebs(s[i]) \in Nat /\ Lebs(s[m]) \in Nat /\ w[m - 1] \in Nat
      <4>1. m - 1 \in 0 .. Len(s)
        BY <1>1, <3>3
      <4> QED BY <1>1, <1>3, <3>3, <4>1
    <3>6. m # i
      BY <3>3, <3>4, <3>5
    <3>7. m - 1 \in 1 .. Len(s) /\ i <= m - 1 /\ m - 1 \notin S
      <4> HIDE DEF S
      <4> QED BY <1>1, <3>1, <3>2, <3>3, <3>6
    <3>8. Lebs(s[i]) <= w[m - 1]
      BY <3>7
    <3> HIDE DEF S
    <3> QED BY <3>3, <3>4, <3>5, <3>8
  <2>2. Len(s) \in 1 .. Len(s) /\ i <= Len(s)
    BY <1>1
  <2> QED BY <2>1, <2>2
<1>5. w[Len(s)] \in Nat
  BY <1>1, <1>3
<1> QED BY <1>4, <1>5
-----------------------------------------------------------------------------
(* The invariant.                                                           *)

\* Where the first regions of the table end, and that they follow each other.
EndOf(i) == IF i = 0 THEN 0 ELSE MtdRegions[i].offset + MtdRegions[i].size
Contiguous(n) == \A i \in 1 .. n : MtdRegions[i].offset = EndOf(i - 1)

\* A block of the flash lies in a region.
On(b, i) == b * Chip.eraseBlock \in MtdRegions[i].offset .. MtdRegions[i].offset + MtdRegions[i].size - 1

FlashTypeOK ==
  /\ flash \in Flashes /\ content \in Contents /\ stage \in Stages
  /\ row \in Nat \ {0} /\ covered \in Nat /\ data \in Nat /\ taken \in Nat
  /\ blocks = [b \in 0 .. Chip.size \div Chip.eraseBlock - 1 |-> blocks[b]]

\* What has been read, checked and held against the content.
ReadInv ==
  /\ stage = "regions" => row <= Len(MtdRegions) + 1 /\ Contiguous(row - 1) /\ covered = EndOf(row - 1)
  /\ stage \notin {"regions", "refused"} => Contiguous(Len(MtdRegions)) /\ covered = EndOf(Len(MtdRegions))
  /\ stage \in {"whole", "accepted"} => row = 1
  /\ stage \notin {"regions", "whole", "refused"} => FlashHolds
  /\ stage \notin {"regions", "whole", "accepted", "refused"} => ContentHolds

\* What has been written is the region a block lies in.
WrittenInv ==
  /\ stage = "writing" =>
       /\ row <= Len(MtdRegions) + 1
       /\ \A b \in DOMAIN blocks :
            (\E i \in 1 .. (row - 1) : On(b, i)) =>
              \E i \in 1 .. (row - 1) : On(b, i) /\ blocks[b] = MtdRegions[i].name
  /\ stage \in {"flashed", "grown", "updating", "updated"} =>
       \A b \in DOMAIN blocks : \E i \in 1 .. Len(MtdRegions) : On(b, i) /\ blocks[b] = MtdRegions[i].name

\* What the update has taken is the sum of the objects it has written.
TakenInv ==
  /\ stage \in {"grown", "updating", "updated"} => data = flash.data \/ (flash.storeReserve > 0 /\ data = Grown)
  /\ stage \notin {"updating", "updated", "refused"} => taken = 0
  /\ stage = "updating" => row <= Len(Update) + 1 /\ \E w : SumOf(Update, w) /\ taken = w[row - 1]
  /\ stage = "updated" => \E w : SumOf(Update, w) /\ taken = w[Len(Update)]

FlashInv == FlashTypeOK /\ ReadInv /\ WrittenInv /\ TakenInv

-----------------------------------------------------------------------------
(* The table and the content.                                               *)

LEMMA FlashRows ==
  ASSUME flash \in Flashes, content \in Contents
  PROVE  /\ Chip.eraseBlock \in Nat \ {0} /\ Chip.size \in Nat /\ Chip.vid \in Nat /\ Chip.minIo \in Nat \ {0}
         /\ MtdRegions \in Seq(Mtds) /\ Len(MtdRegions) \in Nat /\ DOMAIN MtdRegions = 1 .. Len(MtdRegions)
         /\ \A i \in 1 .. Len(MtdRegions) : MtdRegions[i].offset \in Nat /\ MtdRegions[i].size \in Nat
         /\ \A i \in 0 .. Len(MtdRegions) : EndOf(i) \in Nat
         /\ flash.system \in Nat /\ flash.data \in Nat /\ flash.systemReserve \in Nat /\ flash.storeReserve \in Nat
         /\ flash.raw \in Nat
         /\ content.deployment \in Seq(Nat) /\ content.cores \in Seq(Nat) /\ Update \in Seq(Nat)
<1>1. flash \in Tables /\ content \in [deployment: Seq(Nat), cores: Seq(Nat), loader: Nat]
  BY FlashAssumption
<1>2. Chip \in Chips /\ MtdRegions \in Seq(Mtds)
  BY <1>1 DEF Tables, Chip, MtdRegions
<1>3. Chip.eraseBlock \in Nat \ {0} /\ Chip.size \in Nat /\ Chip.vid \in Nat /\ Chip.minIo \in Nat \ {0}
  BY <1>2 DEF Chips
<1>4. /\ flash.system \in Nat /\ flash.data \in Nat /\ flash.systemReserve \in Nat /\ flash.storeReserve \in Nat
      /\ flash.raw \in Nat
  BY <1>1 DEF Tables
<1>5. content.deployment \in Seq(Nat) /\ content.cores \in Seq(Nat) /\ content.deployment \o content.cores \in Seq(Nat)
  BY <1>1
<1>6. Update \in Seq(Nat)
  BY <1>5 DEF Update
<1>7. Len(MtdRegions) \in Nat /\ DOMAIN MtdRegions = 1 .. Len(MtdRegions)
  BY <1>2
<1>8. \A i \in 1 .. Len(MtdRegions) : MtdRegions[i] \in Mtds
  BY <1>2
<1>9. \A i \in 1 .. Len(MtdRegions) : MtdRegions[i].offset \in Nat /\ MtdRegions[i].size \in Nat
  BY <1>8 DEF Mtds
<1>10. \A i \in 0 .. Len(MtdRegions) : EndOf(i) \in Nat
  <2> TAKE i \in 0 .. Len(MtdRegions)
  <2>1. i = 0 \/ i \in 1 .. Len(MtdRegions)
    BY <1>7
  <2> QED BY <1>9, <2>1 DEF EndOf
<1> QED BY <1>2, <1>3, <1>4, <1>5, <1>6, <1>7, <1>9, <1>10

\* A flash that is not read anew is the same to every rule.
LEMMA Static ==
  ASSUME flash' = flash, content' = content
  PROVE  /\ Chip' = Chip /\ MtdRegions' = MtdRegions /\ Leb' = Leb /\ Ubi' = Ubi /\ Available' = Available
         /\ \A n : Lebs(n)' = Lebs(n)
         /\ \A i : EndOf(i)' = EndOf(i)
         /\ \A n : Contiguous(n)' <=> Contiguous(n)
         /\ \A b, i : On(b, i)' <=> On(b, i)
         /\ Update' = Update /\ \A w : SumOf(Update, w)' <=> SumOf(Update, w)
         /\ Grown' = Grown /\ (ContentHolds' <=> ContentHolds)
<1>1. Chip' = Chip /\ MtdRegions' = MtdRegions
  BY DEF Chip, MtdRegions
<1>2. Leb' = Leb /\ Ubi' = Ubi
  BY <1>1 DEF Ubi, Leb, Align, Ceil
<1>3. Available' = Available
  BY <1>1, <1>2 DEF Available, BadBlocks, Ceil
<1>4. \A n : Lebs(n)' = Lebs(n)
  BY <1>2 DEF Lebs, Ceil
<1>5. \A i : EndOf(i)' = EndOf(i)
  BY <1>1 DEF EndOf
<1>6. \A n : Contiguous(n)' <=> Contiguous(n)
  BY <1>1, <1>5 DEF Contiguous
<1>7. \A b, i : On(b, i)' <=> On(b, i)
  BY <1>1 DEF On
<1>8. Update' = Update
  BY DEF Update
<1>9. \A w : SumOf(Update, w)' <=> SumOf(Update, w)
  BY <1>4, <1>8 DEF SumOf
<1>10. One' = One /\ Cores' = Cores
  BY DEF One, Cores, Total, Lebs, Leb, Chip, Align, Ceil
<1>11. LargestObject' = LargestObject
  BY DEF LargestObject, Largest, Lebs, Leb, Chip, Align, Ceil
<1>12. Factory' = Factory /\ Store' = Store /\ SystemReserve' = SystemReserve /\ Fixed' = Fixed
  BY <1>4, <1>10 DEF Factory, Store, SystemReserve, Fixed
<1>13. Grown' = Grown
  BY <1>3, <1>12 DEF Grown
<1>14. Staging' = Staging
  BY DEF Staging, Total, Same
<1>15. \A n : Usable(n)' = Usable(n)
  BY <1>2 DEF Usable
<1>16. CapacityHolds' <=> CapacityHolds
  BY <1>3, <1>10, <1>11, <1>12, <1>13, <1>14, <1>15 DEF CapacityHolds
<1>17. ContentHolds' <=> ContentHolds
  BY <1>1, <1>16 DEF ContentHolds
<1> QED BY <1>1, <1>2, <1>3, <1>4, <1>5, <1>6, <1>7, <1>8, <1>9, <1>13, <1>17

LEMMA StaticHolds ==
  ASSUME flash' = flash, content' = content, covered' = covered
  PROVE  FlashHolds' <=> FlashHolds
<1>1. Chip' = Chip /\ MtdRegions' = MtdRegions /\ Leb' = Leb /\ Ubi' = Ubi /\ Available' = Available
  BY Static
<1> QED BY <1>1 DEF FlashHolds, VolumesFit
\* A table that is accepted has LEBs, and one UBI region in which UBI keeps its own.
LEMMA Held ==
  ASSUME flash \in Flashes, content \in Contents, FlashHolds
  PROVE  /\ Leb \in Nat \ {0} /\ Available \in Int
         /\ Ubi.offset \in Nat /\ Ubi.size \in Nat
         /\ \A i \in 1 .. Len(MtdRegions) : MtdRegions[i].role = "ubi" => MtdRegions[i] = Ubi
<1>1. /\ Chip.eraseBlock \in Nat \ {0} /\ Chip.size \in Nat /\ Chip.vid \in Nat /\ Chip.minIo \in Nat \ {0}
      /\ DOMAIN MtdRegions = 1 .. Len(MtdRegions)
      /\ \A i \in 1 .. Len(MtdRegions) : MtdRegions[i].offset \in Nat /\ MtdRegions[i].size \in Nat
  BY FlashRows
<1>2. Header \in Nat /\ ReservedPebs \in Nat /\ CopyBytes \in Nat \ {0}
  BY FlashAssumption
<1>3. Leb \in Nat \ {0}
  <2>1. \A n \in Nat, d \in Nat \ {0} : Align(n, d) \in Int
    <3> TAKE n \in Nat, d \in Nat \ {0}
    <3>1. (n + d - 1) \div d \in Int
      OBVIOUS
    <3> QED BY <3>1 DEF Align, Ceil
  <2>2. Align(Chip.vid + Header, Chip.minIo) \in Int
    <3>1. Chip.vid + Header \in Nat /\ Chip.minIo \in Nat \ {0}
      BY <1>1, <1>2
    <3> QED BY <2>1, <3>1
  <2>3. Leb >= CopyBytes
    BY DEF FlashHolds, VolumesFit
  <2> QED BY <1>1, <1>2, <2>2, <2>3 DEF Leb
<1>4. PICK u \in 1 .. Len(MtdRegions) :
        MtdRegions[u].role = "ubi" /\ \A j \in 1 .. Len(MtdRegions) : MtdRegions[j].role = "ubi" => u = j
  BY <1>1 DEF FlashHolds
<1> DEFINE R == {r \in {MtdRegions[i] : i \in DOMAIN MtdRegions} : r.role = "ubi"}
<1>5. MtdRegions[u] \in R /\ \A r \in R : r = MtdRegions[u]
  BY <1>1, <1>4
<1>6. Ubi = CHOOSE r \in R : TRUE
  <2>1. Ubi = CHOOSE r \in {MtdRegions[i] : i \in DOMAIN MtdRegions} : r.role = "ubi"
    BY DEF Ubi
  <2>2. Ubi \in {MtdRegions[i] : i \in DOMAIN MtdRegions} /\ Ubi.role = "ubi"
    BY <1>1, <1>4, <2>1
  <2>3. Ubi \in R
    BY <2>2
  <2> QED BY <1>5, <2>3
<1>7. Ubi = MtdRegions[u]
  BY <1>5, <1>6
<1>8. Ubi.offset \in Nat /\ Ubi.size \in Nat
  BY <1>1, <1>7
<1>9. \A n \in Nat, d \in Nat \ {0} : n \div d \in Int /\ Ceil(n, d) \in Int
  BY DEF Ceil
<1>10. Ubi.size \div Chip.eraseBlock \in Int
  BY <1>1, <1>8, <1>9
<1>11. BadBlocks \in Int
  <2>1. Chip.size \div Chip.eraseBlock \in Nat
    <3>1. \A n \in Nat, d \in Nat \ {0} : n \div d \in Nat
      OBVIOUS
    <3> QED BY <1>1, <3>1
  <2>2. (Chip.size \div Chip.eraseBlock) * 20 \in Nat /\ 1024 \in Nat \ {0}
    BY <2>1
  <2> QED BY <1>9, <2>2 DEF BadBlocks
<1>12. Available \in Int
  BY <1>2, <1>10, <1>11 DEF Available
<1> QED BY <1>3, <1>4, <1>7, <1>8, <1>12

\* What the capacity rule adds up are numbers.
LEMMA Amounts ==
  ASSUME flash \in Flashes, content \in Contents, FlashHolds
  PROVE  /\ One \in Nat /\ Cores \in Nat /\ Factory = One + Cores
         /\ LargestObject \in Nat /\ SystemReserve \in Nat /\ Store \in Nat
         /\ Fixed = flash.system + flash.data + 2 /\ Grown \in Nat
<1>1. Leb \in Nat \ {0} /\ Available \in Int
  BY Held
<1>2. /\ content.deployment \in Seq(Nat) /\ content.cores \in Seq(Nat)
      /\ flash.system \in Nat /\ flash.data \in Nat /\ flash.systemReserve \in Nat /\ flash.storeReserve \in Nat
  BY FlashRows
<1>3. One \in Nat /\ Cores \in Nat
  <2>1. ASSUME NEW s \in Seq(Nat)
        PROVE  Total(s, Lebs) \in Nat
    <3>1. PICK w : SumOf(s, w) /\ Total(s, Lebs) = w[Len(s)]
      BY SumExists
    <3>2. Len(s) \in 0 .. Len(s)
      OBVIOUS
    <3> QED BY <1>1, <3>1, <3>2, SumGrows
  <2> QED BY <1>2, <2>1 DEF One, Cores
<1>4. LargestObject \in Nat
  <2>1. content.deployment \o content.cores \in Seq(Nat)
    BY <1>2
  <2> QED BY <1>1, <2>1, LargestBounds DEF LargestObject
<1>5. \A n \in Nat : Lebs(n) \in Nat
  BY <1>1, LebsType
<1>6. SystemReserve \in Nat /\ Store \in Nat
  <2>1. flash.systemReserve * Mebibyte \in Nat /\ flash.storeReserve * Mebibyte \in Nat
    BY <1>2, FlashAssumption
  <2> QED BY <1>5, <2>1 DEF SystemReserve, Store
<1>7. Grown \in Nat
  BY <1>1, <1>2, <1>3, <1>6 DEF Grown, Factory
<1> QED BY <1>3, <1>4, <1>6, <1>7 DEF Factory, Fixed

\* Every block of the flash lies in one of the regions that cover it.
LEMMA Covered ==
  ASSUME flash \in Flashes, content \in Contents, Contiguous(Len(MtdRegions)), EndOf(Len(MtdRegions)) = Chip.size,
         NEW b \in 0 .. Chip.size \div Chip.eraseBlock - 1
  PROVE  \E i \in 1 .. Len(MtdRegions) : On(b, i)
<1>1. /\ Chip.eraseBlock \in Nat \ {0} /\ Chip.size \in Nat /\ Len(MtdRegions) \in Nat
      /\ \A i \in 1 .. Len(MtdRegions) : MtdRegions[i].offset \in Nat /\ MtdRegions[i].size \in Nat
      /\ \A i \in 0 .. Len(MtdRegions) : EndOf(i) \in Nat
  BY FlashRows
<1>2. \A n \in Nat, d \in Nat \ {0} : \A k \in 0 .. n \div d - 1 : k * d \in Nat /\ k * d < n
  <2> TAKE n \in Nat, d \in Nat \ {0}
  <2> TAKE k \in 0 .. n \div d - 1
  <2>1. n \div d \in Nat /\ k \in Nat /\ k + 1 <= n \div d
    OBVIOUS
  <2>2. (n \div d) * d <= n
    OBVIOUS
  <2>3. (k + 1) * d <= (n \div d) * d
    BY <2>1
  <2>4. (k + 1) * d = k * d + d /\ k * d \in Nat
    BY <2>1
  <2> QED BY <2>1, <2>2, <2>3, <2>4
<1> DEFINE at == b * Chip.eraseBlock
           S == {i \in 0 .. Len(MtdRegions) : at < EndOf(i)}
<1>3. at \in Nat /\ at < Chip.size
  BY <1>1, <1>2
<1> HIDE DEF at
<1>4. Len(MtdRegions) \in S /\ S \in SUBSET Nat
  BY <1>1, <1>3
<1>5. PICK i \in S : \A m \in S : i <= m
  BY <1>4, LeastNumber
<1>6. i \in 0 .. Len(MtdRegions) /\ at < EndOf(i) /\ i # 0
  BY <1>3 DEF EndOf
<1>7. i \in 1 .. Len(MtdRegions) /\ i - 1 \in 0 .. Len(MtdRegions) /\ i - 1 < i
  BY <1>1, <1>6
<1>8. i - 1 \notin S
  <2> HIDE DEF S
  <2> QED BY <1>4, <1>5, <1>7
<1>9. EndOf(i - 1) <= at
  BY <1>1, <1>3, <1>7, <1>8
<1>10. MtdRegions[i].offset = EndOf(i - 1) /\ EndOf(i) = MtdRegions[i].offset + MtdRegions[i].size
  BY <1>6, <1>7 DEF Contiguous, EndOf
<1>11. at \in MtdRegions[i].offset .. MtdRegions[i].offset + MtdRegions[i].size - 1
  BY <1>1, <1>3, <1>6, <1>7, <1>9, <1>10
<1> QED BY <1>7, <1>11 DEF On, at
\* The LEBs of an update: those of a deployment and, where a store reserve counts one, of a core set;
\* and no object of it has more than the largest.
LEMMA UpdateFacts ==
  ASSUME flash \in Flashes, content \in Contents, FlashHolds, NEW w, SumOf(Update, w)
  PROVE  /\ w[Len(Update)] = IF flash.storeReserve > 0 THEN One + Cores ELSE One
         /\ \A i \in 1 .. Len(Update) : Lebs(Update[i]) \in Nat /\ Lebs(Update[i]) <= LargestObject
<1>d. PICK d : d = content.deployment
  OBVIOUS
<1>c. PICK c : c = content.cores
  OBVIOUS
<1>r. PICK r : r = d \o c
  OBVIOUS
<1>1. d \in Seq(Nat) /\ c \in Seq(Nat) /\ Update \in Seq(Nat)
  <2>1. content.deployment \in Seq(Nat) /\ content.cores \in Seq(Nat) /\ Update \in Seq(Nat)
    BY FlashRows
  <2> QED BY <1>d, <1>c, <2>1
<1>2. r \in Seq(Nat) /\ Len(r) = Len(d) + Len(c) /\ (\A i \in 1 .. Len(d) : r[i] = d[i])
      /\ \A i \in 1 .. Len(c) : r[Len(d) + i] = c[i]
  <2>1. d \o c \in Seq(Nat) /\ Len(d \o c) = Len(d) + Len(c) /\ (\A i \in 1 .. Len(d) : (d \o c)[i] = d[i])
        /\ \A i \in 1 .. Len(c) : (d \o c)[Len(d) + i] = c[i]
    BY <1>1
  <2> QED BY <1>r, <2>1
<1>3. Leb \in Nat \ {0}
  BY Held
<1>4. PICK u : SumOf(d, u) /\ One = u[Len(d)]
  BY <1>1, <1>d, SumExists DEF One
<1>5. PICK v : SumOf(c, v) /\ Cores = v[Len(c)]
  BY <1>1, <1>c, SumExists DEF Cores
<1>6. \A i \in 1 .. Len(r) : Lebs(r[i]) <= LargestObject
  <2>1. LargestObject = Largest(r, Lebs)
    BY <1>d, <1>c, <1>r DEF LargestObject
  <2> QED BY <1>2, <1>3, <2>1, LargestBounds
<1>7. \A i \in 1 .. Len(Update) : Lebs(Update[i]) \in Nat
  <2>1. \A i \in 1 .. Len(Update) : Update[i] \in Nat
    BY <1>1
  <2>2. \A n \in Nat : Lebs(n) \in Nat
    BY <1>3, LebsType
  <2> QED BY <2>1, <2>2
<1>8. CASE flash.storeReserve > 0
  <2>1. Update = r
    BY <1>8, <1>d, <1>c, <1>r DEF Update
  <2>2. SumOf(r, w) /\ SumOf(d, u) /\ SumOf(c, v) /\ Follows(r, d, c)
    BY <1>2, <1>4, <1>5, <2>1 DEF Follows
  <2>3. w[Len(r)] = u[Len(d)] + v[Len(c)]
    BY <1>1, <1>2, <1>3, <2>2, SumConcat
  <2> QED BY <1>4, <1>5, <1>6, <1>7, <1>8, <2>1, <2>3
<1>9. CASE ~(flash.storeReserve > 0)
  <2>1. Update = d
    BY <1>9, <1>d DEF Update
  <2>2. SumOf(d, w) /\ SumOf(d, u)
    BY <1>4, <2>1
  <2>3. w[Len(d)] = u[Len(d)]
    BY <1>1, <1>3, <2>2, SumSame
  <2>4. \A i \in 1 .. Len(d) : i \in 1 .. Len(r) /\ r[i] = d[i]
    <3>1. Len(d) \in Nat /\ Len(c) \in Nat
      BY <1>1
    <3> QED BY <1>2, <3>1
  <2>5. \A i \in 1 .. Len(Update) : Lebs(Update[i]) <= LargestObject
    BY <1>6, <2>1, <2>4
  <2> QED BY <1>4, <1>7, <1>9, <2>1, <2>3, <2>5
<1> QED BY <1>8, <1>9

\* The rule over numbers: with a store reserve, and without one.
LEMMA Sums ==
  ASSUME NEW a \in Int, NEW s \in Nat, NEW d \in Nat, NEW e \in Nat, NEW f \in Nat, NEW c \in Nat,
         NEW l \in Nat, NEW r \in Nat, NEW m \in Nat, NEW g \in Nat, NEW t \in Nat, NEW x \in Nat, x <= l
  PROVE  /\ /\ g = IF a - s - 2 - (f + c) - m > e THEN a - s - 2 - (f + c) - m ELSE e
            /\ d \in {e, g} /\ f + c + l + r <= m /\ s + e + 2 + (f + c) + m <= a /\ t + x <= f + c
            => a - s - d - 2 - (f + c) - t - 2 * x >= r
         /\ d = e /\ s + e + 2 + 2 * f + c + l + r <= a /\ t + x <= f
            => a - s - d - 2 - (f + c) - t - 2 * x >= r
<1>1. ASSUME g = IF a - s - 2 - (f + c) - m > e THEN a - s - 2 - (f + c) - m ELSE e,
             d \in {e, g}, f + c + l + r <= m, s + e + 2 + (f + c) + m <= a, t + x <= f + c
      PROVE  a - s - d - 2 - (f + c) - t - 2 * x >= r
  <2>1. e <= a - s - 2 - (f + c) - m
    BY <1>1
  <2>2. g <= a - s - 2 - (f + c) - m
    BY <1>1, <2>1
  <2>3. d <= a - s - 2 - (f + c) - m
    BY <1>1, <2>1, <2>2
  <2> QED BY <1>1, <2>3
<1>2. d = e /\ s + e + 2 + 2 * f + c + l + r <= a /\ t + x <= f
      => a - s - d - 2 - (f + c) - t - 2 * x >= r
  OBVIOUS
<1> QED BY <1>1, <1>2

\* The capacity rule leaves the system reserve beside what an update has taken and,
\* twice, the object it is writing.
LEMMA Room ==
  ASSUME flash \in Flashes, content \in Contents, FlashHolds, ContentHolds,
         data = flash.data \/ (flash.storeReserve > 0 /\ data = Grown),
         NEW w, SumOf(Update, w), NEW k \in 1 .. Len(Update) + 1, taken = w[k - 1]
  PROVE  /\ taken \in Nat
         /\ Available - flash.system - data - 2 - Factory - taken >= SystemReserve
         /\ k <= Len(Update) =>
              Available - flash.system - data - 2 - Factory - taken - 2 * Lebs(Update[k]) >= SystemReserve
<1>n. PICK n : n = Len(Update)
  OBVIOUS
<1>1. Leb \in Nat \ {0} /\ Available \in Int
  BY Held
<1>2. Update \in Seq(Nat) /\ flash.system \in Nat /\ flash.data \in Nat /\ flash.storeReserve \in Nat /\ n \in Nat
  BY <1>n, FlashRows
<1>3. /\ One \in Nat /\ Cores \in Nat /\ Factory = One + Cores
      /\ LargestObject \in Nat /\ SystemReserve \in Nat /\ Store \in Nat
      /\ Fixed = flash.system + flash.data + 2 /\ Grown \in Nat
  BY Amounts
<1>4. /\ w[n] = IF flash.storeReserve > 0 THEN One + Cores ELSE One
      /\ \A i \in 1 .. n : Lebs(Update[i]) \in Nat /\ Lebs(Update[i]) <= LargestObject
  BY <1>n, UpdateFacts
<1>5. /\ \A i \in 0 .. n : w[i] \in Nat
      /\ \A i \in 0 .. n, j \in 0 .. n : i <= j => w[i] <= w[j]
  BY <1>1, <1>2, <1>n, SumGrows
<1>6. taken \in Nat /\ taken <= w[n] /\ w[n] \in Nat
  <2>1. k - 1 \in 0 .. n /\ n \in 0 .. n /\ k - 1 <= n
    BY <1>2, <1>n
  <2> QED BY <1>5, <2>1
<1>7. ASSUME k <= n
      PROVE  Lebs(Update[k]) \in Nat /\ Lebs(Update[k]) <= LargestObject /\ taken + Lebs(Update[k]) <= w[n]
  <2>1. k \in 1 .. n /\ k \in 0 .. n /\ n \in 0 .. n /\ k <= n
    BY <1>2, <1>7, <1>n
  <2>2. w[k] = w[k - 1] + Lebs(Update[k])
    BY <1>n, <2>1 DEF SumOf
  <2>3. w[k] <= w[n]
    BY <1>5, <2>1
  <2> QED BY <1>4, <2>1, <2>2, <2>3
<1>8. CapacityHolds
  BY DEF ContentHolds
<1>a. PICK a : a = Available
  OBVIOUS
<1>s. PICK s : s = flash.system
  OBVIOUS
<1>d. PICK d : d = data
  OBVIOUS
<1>e. PICK e : e = flash.data
  OBVIOUS
<1>f. PICK f : f = One
  OBVIOUS
<1>c. PICK c : c = Cores
  OBVIOUS
<1>l. PICK l : l = LargestObject
  OBVIOUS
<1>r. PICK r : r = SystemReserve
  OBVIOUS
<1>m. PICK m : m = Store
  OBVIOUS
<1>t. PICK t : t = taken
  OBVIOUS
<1>g. PICK g : g = Grown
  OBVIOUS
<1>9. /\ a \in Int /\ s \in Nat /\ e \in Nat /\ f \in Nat /\ c \in Nat /\ l \in Nat /\ r \in Nat /\ m \in Nat
      /\ t \in Nat /\ g \in Nat /\ Factory = f + c /\ Fixed = s + e + 2
  BY <1>a, <1>s, <1>e, <1>f, <1>c, <1>l, <1>r, <1>m, <1>t, <1>g, <1>1, <1>2, <1>3, <1>6
<1>10. d \in Nat
  BY <1>d, <1>2, <1>3
<1>11. ASSUME flash.storeReserve > 0
       PROVE  /\ f + c + l + r <= m
              /\ s + e + 2 + (f + c) + m <= a
              /\ t <= f + c
              /\ k <= n => t + Lebs(Update[k]) <= f + c
  <2>1. One + Cores + LargestObject + SystemReserve <= Store /\ Fixed + Factory + Store <= Available
    BY <1>8, <1>11 DEF CapacityHolds
  <2>2. w[n] = f + c
    BY <1>f, <1>c, <1>4, <1>11
  <2>3. k <= n => t + Lebs(Update[k]) <= w[n]
    BY <1>t, <1>7
  <2> QED BY <1>a, <1>f, <1>c, <1>l, <1>r, <1>m, <1>t, <1>6, <1>9, <2>1, <2>2, <2>3
<1>12. ASSUME ~(flash.storeReserve > 0)
       PROVE  /\ s + e + 2 + 2 * f + c + l + r <= a
              /\ t <= f
              /\ k <= n => t + Lebs(Update[k]) <= f
  <2>1. Fixed + 2 * One + Cores + LargestObject + SystemReserve <= Available
    BY <1>8, <1>12 DEF CapacityHolds
  <2>2. w[n] = f
    BY <1>f, <1>4, <1>12
  <2>3. k <= n => t + Lebs(Update[k]) <= w[n]
    BY <1>t, <1>7
  <2> QED BY <1>a, <1>f, <1>c, <1>l, <1>r, <1>m, <1>t, <1>6, <1>9, <2>1, <2>2, <2>3
<1>13. k <= n => Lebs(Update[k]) \in Nat /\ Lebs(Update[k]) <= l
  BY <1>l, <1>7
<1>14. g = IF a - s - 2 - (f + c) - m > e THEN a - s - 2 - (f + c) - m ELSE e
  BY <1>a, <1>s, <1>e, <1>m, <1>g, <1>9 DEF Grown
<1>15. ASSUME NEW x \in Nat, x <= l,
              flash.storeReserve > 0 => t + x <= f + c,
              ~(flash.storeReserve > 0) => t + x <= f
       PROVE  a - s - d - 2 - (f + c) - t - 2 * x >= r
  <2>1. CASE flash.storeReserve > 0
    <3>1. f + c + l + r <= m /\ s + e + 2 + (f + c) + m <= a /\ t + x <= f + c
      BY <1>11, <1>15, <2>1
    <3>2. d \in {e, g}
      BY <1>d, <1>e, <1>g
    <3> QED BY <1>9, <1>10, <1>14, <1>15, <3>1, <3>2, Sums
  <2>2. CASE ~(flash.storeReserve > 0)
    <3>1. s + e + 2 + 2 * f + c + l + r <= a /\ t + x <= f /\ d = e
      BY <1>d, <1>e, <1>12, <1>15, <2>2
    <3> QED BY <1>9, <1>10, <1>15, <3>1, Sums
  <2> QED BY <2>1, <2>2
<1>16. a - s - d - 2 - (f + c) - t >= r
  <2>1. 0 \in Nat /\ 0 <= l /\ t + 0 = t
    BY <1>9
  <2>2. a - s - d - 2 - (f + c) - t - 2 * 0 >= r
    BY <1>11, <1>12, <1>15, <2>1
  <2> QED BY <1>9, <1>10, <2>2
<1>17. k <= n => a - s - d - 2 - (f + c) - t - 2 * Lebs(Update[k]) >= r
  BY <1>11, <1>12, <1>13, <1>15
<1>18. k <= n <=> k <= Len(Update)
  BY <1>n
<1> QED BY <1>a, <1>s, <1>d, <1>r, <1>t, <1>9, <1>16, <1>17, <1>18
-----------------------------------------------------------------------------
(* The invariant holds at first and is kept by every step.                  *)

LEMMA InitHolds ==
  ASSUME FlashInit
  PROVE  FlashInv
<1>1. flash \in Flashes /\ content \in Contents /\ row = 1 /\ covered = 0 /\ stage = "regions"
      /\ data = flash.data /\ taken = 0
      /\ blocks = [b \in 0 .. flash.chip.size \div flash.chip.eraseBlock - 1 |-> "erased"]
  BY DEF FlashInit
<1>2. flash.data \in Nat /\ Len(MtdRegions) \in Nat
  BY <1>1, FlashRows
<1>3. blocks = [b \in 0 .. Chip.size \div Chip.eraseBlock - 1 |-> blocks[b]]
  BY <1>1 DEF Chip
<1>4. FlashTypeOK
  BY <1>1, <1>2, <1>3 DEF FlashTypeOK, Stages
<1>5. ReadInv
  BY <1>1, <1>2 DEF ReadInv, Contiguous, EndOf
<1>6. WrittenInv /\ TakenInv
  BY <1>1 DEF WrittenInv, TakenInv
<1> QED BY <1>4, <1>5, <1>6 DEF FlashInv

\* A step that writes no block keeps the type of what it leaves alone.
LEMMA TypeKept ==
  ASSUME FlashTypeOK, flash' = flash, content' = content, blocks' = blocks,
         stage' \in Stages, row' \in Nat \ {0}, covered' \in Nat, data' \in Nat, taken' \in Nat
  PROVE  FlashTypeOK'
<1>1. Chip' = Chip
  BY Static
<1> QED BY <1>1 DEF FlashTypeOK

LEMMA Refused ==
  ASSUME FlashInv, RefuseFlash
  PROVE  FlashInv'
<1>1. stage' = "refused" /\ UNCHANGED <<flash, content, row, covered, blocks, data, taken>>
  BY DEF RefuseFlash
<1>2. FlashTypeOK'
  <2>1. FlashTypeOK
    BY DEF FlashInv
  <2>2. stage' \in Stages
    BY <1>1 DEF Stages
  <2>3. row' \in Nat \ {0} /\ covered' \in Nat /\ data' \in Nat /\ taken' \in Nat
    BY <1>1, <2>1 DEF FlashTypeOK
  <2> QED BY <1>1, <2>1, <2>2, <2>3, TypeKept
<1>3. ReadInv' /\ WrittenInv' /\ TakenInv'
  BY <1>1 DEF ReadInv, WrittenInv, TakenInv
<1> QED BY <1>2, <1>3 DEF FlashInv

LEMMA RegionRead ==
  ASSUME FlashInv, ReadFlashRegion
  PROVE  FlashInv'
<1>1. FlashTypeOK /\ ReadInv /\ TakenInv
  BY DEF FlashInv
<1>2. CASE RefuseFlash
  BY <1>2, Refused
<1>3. CASE ChipHolds /\ RegionFollows(MtdRegions[row]) /\ ~RefuseFlash
  <2>1. /\ stage = "regions" /\ row <= Len(MtdRegions)
        /\ row' = row + 1 /\ covered' = MtdRegions[row].offset + MtdRegions[row].size
        /\ UNCHANGED <<flash, content, stage, blocks, data, taken>>
    BY <1>3 DEF ReadFlashRegion
  <2>2. flash \in Flashes /\ content \in Contents /\ row \in Nat \ {0} /\ data \in Nat /\ taken \in Nat
    BY <1>1 DEF FlashTypeOK
  <2>3. /\ Len(MtdRegions) \in Nat
        /\ \A i \in 1 .. Len(MtdRegions) : MtdRegions[i].offset \in Nat /\ MtdRegions[i].size \in Nat
    BY <2>2, FlashRows
  <2>4. row \in 1 .. Len(MtdRegions)
    BY <2>1, <2>2, <2>3
  <2>5. FlashTypeOK'
    <3>1. stage' \in Stages
      BY <2>1 DEF Stages
    <3>2. row' \in Nat \ {0} /\ covered' \in Nat /\ data' \in Nat /\ taken' \in Nat
      BY <2>1, <2>2, <2>3, <2>4
    <3> QED BY <1>1, <2>1, <3>1, <3>2, TypeKept
  <2>6. Contiguous(row - 1) /\ covered = EndOf(row - 1)
    BY <1>1, <2>1 DEF ReadInv
  <2>7. MtdRegions[row].offset = EndOf(row - 1)
    BY <1>3, <2>6 DEF RegionFollows
  <2>8. Contiguous(row)
    <3>1. \A i \in 1 .. row : i \in 1 .. (row - 1) \/ i = row
      BY <2>2
    <3> QED BY <2>6, <2>7, <3>1 DEF Contiguous
  <2>9. covered' = EndOf(row)
    BY <2>1, <2>2 DEF EndOf
  <2>10. MtdRegions' = MtdRegions /\ (\A i : EndOf(i)' = EndOf(i)) /\ (\A n : Contiguous(n)' <=> Contiguous(n))
    BY <2>1, Static
  <2>11. row' - 1 = row /\ row' <= Len(MtdRegions) + 1
    BY <2>1, <2>3, <2>4
  <2>12. stage' = "regions" /\ (row <= Len(MtdRegions) + 1)'
    BY <2>1, <2>10, <2>11
  <2>13. (Contiguous(row - 1) /\ covered = EndOf(row - 1))'
    <3>1. PICK n : n = row
      OBVIOUS
    <3>2. Contiguous(n)' /\ covered' = EndOf(n)' /\ row' - 1 = n
      BY <2>8, <2>9, <2>10, <2>11, <3>1
    <3> QED BY <3>2
  <2>14. ReadInv'
    BY <2>12, <2>13 DEF ReadInv
  <2>15. WrittenInv' /\ TakenInv'
    BY <1>1, <2>1 DEF WrittenInv, TakenInv
  <2> QED BY <2>5, <2>14, <2>15 DEF FlashInv
<1> QED BY <1>2, <1>3 DEF ReadFlashRegion

LEMMA FlashRegionsRead ==
  ASSUME FlashInv, ReadFlashRegions
  PROVE  FlashInv'
<1>1. FlashTypeOK /\ ReadInv /\ TakenInv
  BY DEF FlashInv
<1>2. /\ stage = "regions" /\ row > Len(MtdRegions) /\ stage' = "whole" /\ row' = 1
      /\ UNCHANGED <<flash, content, covered, blocks, data, taken>>
  BY DEF ReadFlashRegions, Stage
<1>3. /\ flash \in Flashes /\ content \in Contents /\ row \in Nat \ {0} /\ covered \in Nat /\ data \in Nat
      /\ taken \in Nat
  BY <1>1 DEF FlashTypeOK
<1>4. Len(MtdRegions) \in Nat
  BY <1>3, FlashRows
<1>5. FlashTypeOK'
  <2>1. stage' \in Stages /\ row' \in Nat \ {0}
    BY <1>2 DEF Stages
  <2> QED BY <1>1, <1>2, <1>3, <2>1, TypeKept
<1>6. row <= Len(MtdRegions) + 1 /\ Contiguous(row - 1) /\ covered = EndOf(row - 1)
  BY <1>1, <1>2 DEF ReadInv
<1>7. row - 1 = Len(MtdRegions)
  BY <1>2, <1>3, <1>4, <1>6
<1>8. MtdRegions' = MtdRegions /\ (\A i : EndOf(i)' = EndOf(i)) /\ (\A n : Contiguous(n)' <=> Contiguous(n))
  BY <1>2, Static
<1>9. (Contiguous(Len(MtdRegions)) /\ covered = EndOf(Len(MtdRegions)))'
  BY <1>2, <1>6, <1>7, <1>8
<1>10. ReadInv'
  BY <1>2, <1>9 DEF ReadInv
<1>11. WrittenInv' /\ TakenInv'
  BY <1>1, <1>2 DEF WrittenInv, TakenInv
<1> QED BY <1>5, <1>10, <1>11 DEF FlashInv

\* What a table that was read whole keeps when the flash is left alone.
LEMMA ReadKept ==
  ASSUME FlashInv, flash' = flash, content' = content, covered' = covered, stage \notin {"regions", "refused"}
  PROVE  /\ (Contiguous(Len(MtdRegions)) /\ covered = EndOf(Len(MtdRegions)))'
         /\ stage # "whole" => FlashHolds /\ FlashHolds'
         /\ stage \notin {"whole", "accepted"} => ContentHolds /\ ContentHolds'
<1>1. ReadInv
  BY DEF FlashInv
<1>2. Contiguous(Len(MtdRegions)) /\ covered = EndOf(Len(MtdRegions))
  BY <1>1 DEF ReadInv
<1>3. MtdRegions' = MtdRegions /\ (\A i : EndOf(i)' = EndOf(i)) /\ (\A n : Contiguous(n)' <=> Contiguous(n))
  BY Static
<1>4. (Contiguous(Len(MtdRegions)) /\ covered = EndOf(Len(MtdRegions)))'
  BY <1>2, <1>3
<1>5. stage # "whole" => FlashHolds
  BY <1>1 DEF ReadInv
<1>6. stage \notin {"whole", "accepted"} => ContentHolds
  BY <1>1 DEF ReadInv
<1>7. (FlashHolds' <=> FlashHolds) /\ (ContentHolds' <=> ContentHolds)
  BY Static, StaticHolds
<1> QED BY <1>4, <1>5, <1>6, <1>7

LEMMA FlashChecked ==
  ASSUME FlashInv, CheckFlash
  PROVE  FlashInv'
<1>1. FlashTypeOK /\ ReadInv /\ TakenInv
  BY DEF FlashInv
<1>2. CASE RefuseFlash
  BY <1>2, Refused
<1>3. CASE FlashHolds /\ ~RefuseFlash
  <2>1. /\ stage = "whole" /\ stage' = "accepted" /\ row' = row
        /\ UNCHANGED <<flash, content, covered, blocks, data, taken>>
    BY <1>3 DEF CheckFlash, Stage
  <2>2. row \in Nat \ {0} /\ covered \in Nat /\ data \in Nat /\ taken \in Nat /\ row = 1
    BY <1>1, <2>1 DEF FlashTypeOK, ReadInv
  <2>3. FlashTypeOK'
    <3>1. stage' \in Stages
      BY <2>1 DEF Stages
    <3> QED BY <1>1, <2>1, <2>2, <3>1, TypeKept
  <2>4. (Contiguous(Len(MtdRegions)) /\ covered = EndOf(Len(MtdRegions)))'
    BY <2>1, ReadKept
  <2>5. FlashHolds'
    BY <1>3, <2>1, StaticHolds
  <2>6. ReadInv'
    BY <2>1, <2>2, <2>4, <2>5 DEF ReadInv
  <2>7. WrittenInv' /\ TakenInv'
    BY <1>1, <2>1 DEF WrittenInv, TakenInv
  <2> QED BY <2>3, <2>6, <2>7 DEF FlashInv
<1> QED BY <1>2, <1>3 DEF CheckFlash

LEMMA ContentChecked ==
  ASSUME FlashInv, CheckContent
  PROVE  FlashInv'
<1>1. FlashTypeOK /\ ReadInv /\ TakenInv
  BY DEF FlashInv
<1>2. CASE RefuseFlash
  BY <1>2, Refused
<1>3. CASE ContentHolds /\ ~RefuseFlash
  <2>1. /\ stage = "accepted" /\ stage' = "writing" /\ row' = row
        /\ UNCHANGED <<flash, content, covered, blocks, data, taken>>
    BY <1>3 DEF CheckContent, Stage
  <2>2. /\ flash \in Flashes /\ content \in Contents
        /\ row \in Nat \ {0} /\ covered \in Nat /\ data \in Nat /\ taken \in Nat /\ row = 1
    BY <1>1, <2>1 DEF FlashTypeOK, ReadInv
  <2>3. FlashTypeOK'
    <3>1. stage' \in Stages
      BY <2>1 DEF Stages
    <3> QED BY <1>1, <2>1, <2>2, <3>1, TypeKept
  <2>4. (Contiguous(Len(MtdRegions)) /\ covered = EndOf(Len(MtdRegions)))' /\ FlashHolds'
    BY <2>1, ReadKept
  <2>5. ContentHolds'
    BY <1>3, <2>1, Static
  <2>6. ReadInv'
    BY <2>1, <2>2, <2>4, <2>5 DEF ReadInv
  <2>7. WrittenInv'
    <3>1. Len(MtdRegions) \in Nat /\ MtdRegions' = MtdRegions
      BY <2>1, <2>2, FlashRows, Static
    <3>2. (row <= Len(MtdRegions) + 1)' /\ \A i \in 1 .. (row' - 1) : FALSE
      BY <2>1, <2>2, <3>1
    <3> QED BY <2>1, <3>2 DEF WrittenInv
  <2>8. TakenInv'
    BY <1>1, <2>1 DEF TakenInv
  <2> QED BY <2>3, <2>6, <2>7, <2>8 DEF FlashInv
<1> QED BY <1>2, <1>3 DEF CheckContent
\* Writing a region gives its blocks its name and keeps those of the regions before it.
LEMMA RegionWritten ==
  ASSUME FlashInv, WriteRegion
  PROVE  FlashInv'
<1>1. FlashTypeOK /\ ReadInv /\ WrittenInv /\ TakenInv
  BY DEF FlashInv
<1> DEFINE mine == {b \in DOMAIN blocks :
                      b * Chip.eraseBlock \in MtdRegions[row].offset .. MtdRegions[row].offset + MtdRegions[row].size - 1}
<1>2. /\ stage = "writing" /\ row <= Len(MtdRegions) /\ row' = row + 1
      /\ blocks' = [b \in DOMAIN blocks |-> IF b \in mine THEN MtdRegions[row].name ELSE blocks[b]]
      /\ UNCHANGED <<flash, content, covered, stage, data, taken>>
  BY DEF WriteRegion
<1>3. /\ flash \in Flashes /\ content \in Contents
      /\ row \in Nat \ {0} /\ covered \in Nat /\ data \in Nat /\ taken \in Nat /\ stage \in Stages
      /\ blocks = [b \in 0 .. Chip.size \div Chip.eraseBlock - 1 |-> blocks[b]]
  BY <1>1 DEF FlashTypeOK
<1>4. Len(MtdRegions) \in Nat
  BY <1>3, FlashRows
<1>5. Chip' = Chip /\ MtdRegions' = MtdRegions /\ \A b, i : On(b, i)' <=> On(b, i)
  BY <1>2, Static
<1>6. DOMAIN blocks = 0 .. Chip.size \div Chip.eraseBlock - 1 /\ DOMAIN blocks' = DOMAIN blocks
  BY <1>2, <1>3
<1>7. \A b \in DOMAIN blocks : b \in mine <=> On(b, row)
  BY DEF On
<1>8. \A b \in DOMAIN blocks : blocks'[b] = IF On(b, row) THEN MtdRegions[row].name ELSE blocks[b]
  BY <1>2, <1>7
<1>9. blocks' = [b \in 0 .. Chip.size \div Chip.eraseBlock - 1 |-> blocks'[b]]
  BY <1>2, <1>6
<1> HIDE DEF mine
<1>10. FlashTypeOK'
  <2>1. row' \in Nat \ {0}
    BY <1>2, <1>3
  <2> QED BY <1>2, <1>3, <1>5, <1>9, <2>1 DEF FlashTypeOK
<1>11. (Contiguous(Len(MtdRegions)) /\ covered = EndOf(Len(MtdRegions)))' /\ FlashHolds' /\ ContentHolds'
  BY <1>2, ReadKept
<1>12. ReadInv'
  BY <1>2, <1>11 DEF ReadInv
<1>13. ASSUME NEW b \in DOMAIN blocks, NEW i \in 1 .. row, On(b, i)
       PROVE  \E j \in 1 .. row : On(b, j) /\ blocks'[b] = MtdRegions[j].name
  <2>1. CASE On(b, row)
    <3>1. row \in 1 .. row
      BY <1>3
    <3> QED BY <1>8, <2>1, <3>1
  <2>2. CASE ~On(b, row)
    <3>1. i \in 1 .. (row - 1)
      BY <1>3, <1>13, <2>2
    <3>2. PICK j \in 1 .. (row - 1) : On(b, j) /\ blocks[b] = MtdRegions[j].name
      BY <1>1, <1>2, <1>13, <3>1 DEF WrittenInv
    <3>3. j \in 1 .. row
      BY <1>3, <3>2
    <3> QED BY <1>8, <2>2, <3>2, <3>3
  <2> QED BY <2>1, <2>2
<1>14. row' - 1 = row /\ row' <= Len(MtdRegions) + 1
  BY <1>2, <1>3, <1>4
<1>15. (\A b \in DOMAIN blocks :
          (\E i \in 1 .. (row - 1) : On(b, i)) =>
            \E i \in 1 .. (row - 1) : On(b, i) /\ blocks[b] = MtdRegions[i].name)'
  <2>1. PICK n : n = row
    OBVIOUS
  <2>2. \A b \in DOMAIN blocks' : (\E i \in 1 .. n : On(b, i)) => \E j \in 1 .. n : On(b, j) /\ blocks'[b] = MtdRegions[j].name
    BY <1>6, <1>13, <2>1
  <2>3. row' - 1 = n
    BY <1>14, <2>1
  <2> QED BY <1>5, <2>2, <2>3
<1>16. WrittenInv'
  BY <1>2, <1>5, <1>14, <1>15 DEF WrittenInv
<1>17. TakenInv'
  BY <1>1, <1>2 DEF TakenInv
<1> QED BY <1>10, <1>12, <1>16, <1>17 DEF FlashInv

\* When all regions are written every block has the name of one it lies in.
LEMMA RegionsWritten ==
  ASSUME FlashInv, WriteRegions
  PROVE  FlashInv'
<1>1. FlashTypeOK /\ ReadInv /\ WrittenInv /\ TakenInv
  BY DEF FlashInv
<1>2. /\ stage = "writing" /\ row > Len(MtdRegions) /\ stage' = "flashed" /\ row' = 1
      /\ UNCHANGED <<flash, content, covered, blocks, data, taken>>
  BY DEF WriteRegions, Stage
<1>3. /\ flash \in Flashes /\ content \in Contents
      /\ row \in Nat \ {0} /\ covered \in Nat /\ data \in Nat /\ taken \in Nat
      /\ DOMAIN blocks = 0 .. Chip.size \div Chip.eraseBlock - 1
  BY <1>1 DEF FlashTypeOK
<1>4. Len(MtdRegions) \in Nat
  BY <1>3, FlashRows
<1>5. FlashTypeOK'
  <2>1. stage' \in Stages /\ row' \in Nat \ {0}
    BY <1>2 DEF Stages
  <2> QED BY <1>1, <1>2, <1>3, <2>1, TypeKept
<1>6. (Contiguous(Len(MtdRegions)) /\ covered = EndOf(Len(MtdRegions)))' /\ FlashHolds' /\ ContentHolds'
  BY <1>2, ReadKept
<1>7. ReadInv'
  BY <1>2, <1>6 DEF ReadInv
<1>8. Contiguous(Len(MtdRegions)) /\ EndOf(Len(MtdRegions)) = Chip.size
  <2>1. covered = EndOf(Len(MtdRegions)) /\ Contiguous(Len(MtdRegions)) /\ FlashHolds
    BY <1>1, <1>2 DEF ReadInv
  <2> QED BY <2>1 DEF FlashHolds
<1>9. row - 1 = Len(MtdRegions)
  BY <1>1, <1>2, <1>3, <1>4 DEF WrittenInv
<1>10. ASSUME NEW b \in DOMAIN blocks
       PROVE  \E i \in 1 .. Len(MtdRegions) : On(b, i) /\ blocks[b] = MtdRegions[i].name
  <2>1. b \in 0 .. Chip.size \div Chip.eraseBlock - 1
    BY <1>3
  <2>2. \E i \in 1 .. Len(MtdRegions) : On(b, i)
    BY <1>3, <1>8, <2>1, Covered
  <2> QED BY <1>1, <1>2, <1>9, <2>2 DEF WrittenInv
<1>11. MtdRegions' = MtdRegions /\ \A b, i : On(b, i)' <=> On(b, i)
  BY <1>2, Static
<1>12. (\A b \in DOMAIN blocks : \E i \in 1 .. Len(MtdRegions) : On(b, i) /\ blocks[b] = MtdRegions[i].name)'
  BY <1>2, <1>10, <1>11
<1>13. WrittenInv'
  BY <1>2, <1>12 DEF WrittenInv
<1>14. TakenInv'
  BY <1>1, <1>2 DEF TakenInv
<1> QED BY <1>5, <1>7, <1>13, <1>14 DEF FlashInv

\* What the device's steps leave alone of a flash that is written.
LEMMA DeviceKept ==
  ASSUME FlashInv, flash' = flash, content' = content, covered' = covered, blocks' = blocks,
         stage \in {"flashed", "grown", "updating", "updated"}, stage' \in {"grown", "updating", "updated"}
  PROVE  ReadInv' /\ WrittenInv'
<1>1. ReadInv /\ WrittenInv
  BY DEF FlashInv
<1>2. (Contiguous(Len(MtdRegions)) /\ covered = EndOf(Len(MtdRegions)))' /\ FlashHolds' /\ ContentHolds'
  BY ReadKept
<1>3. ReadInv'
  BY <1>2 DEF ReadInv
<1>4. \A b \in DOMAIN blocks : \E i \in 1 .. Len(MtdRegions) : On(b, i) /\ blocks[b] = MtdRegions[i].name
  BY <1>1 DEF WrittenInv
<1>5. MtdRegions' = MtdRegions /\ \A b, i : On(b, i)' <=> On(b, i)
  BY Static
<1>6. (\A b \in DOMAIN blocks : \E i \in 1 .. Len(MtdRegions) : On(b, i) /\ blocks[b] = MtdRegions[i].name)'
  BY <1>4, <1>5
<1>7. WrittenInv'
  BY <1>6 DEF WrittenInv
<1> QED BY <1>3, <1>7

LEMMA Booted ==
  ASSUME FlashInv, FirstBoot
  PROVE  FlashInv'
<1>1. FlashTypeOK /\ ReadInv /\ TakenInv
  BY DEF FlashInv
<1>2. /\ stage = "flashed" /\ stage' = "grown" /\ UNCHANGED <<flash, content, row, covered, blocks, taken>>
      /\ data' = flash.data \/ (flash.storeReserve > 0 /\ data' = Grown)
  BY DEF FirstBoot
<1>3. flash \in Flashes /\ content \in Contents /\ row \in Nat \ {0} /\ covered \in Nat /\ taken \in Nat
  BY <1>1 DEF FlashTypeOK
<1>4. data' \in Nat
  <2>1. FlashHolds
    BY <1>1, <1>2 DEF ReadInv
  <2>2. flash.data \in Nat /\ Grown \in Nat
    BY <1>3, <2>1, FlashRows, Amounts
  <2> QED BY <1>2, <2>2
<1>5. FlashTypeOK'
  <2>1. stage' \in Stages
    BY <1>2 DEF Stages
  <2> QED BY <1>1, <1>2, <1>3, <1>4, <2>1, TypeKept
<1>6. ReadInv' /\ WrittenInv'
  BY <1>2, DeviceKept
<1>7. (data = flash.data \/ (flash.storeReserve > 0 /\ data = Grown))'
  BY <1>2, Static
<1>8. TakenInv'
  BY <1>1, <1>2, <1>7 DEF TakenInv
<1> QED BY <1>5, <1>6, <1>8 DEF FlashInv

LEMMA Staged ==
  ASSUME FlashInv, StageUpdate
  PROVE  FlashInv'
<1>1. FlashTypeOK /\ TakenInv
  BY DEF FlashInv
<1>2. /\ stage = "grown" /\ stage' = "updating" /\ row' = 1
      /\ UNCHANGED <<flash, content, covered, blocks, data, taken>>
  BY DEF StageUpdate, Stage
<1>3. flash \in Flashes /\ content \in Contents /\ covered \in Nat /\ data \in Nat /\ taken \in Nat
  BY <1>1 DEF FlashTypeOK
<1>4. FlashTypeOK'
  <2>1. stage' \in Stages /\ row' \in Nat \ {0}
    BY <1>2 DEF Stages
  <2> QED BY <1>1, <1>2, <1>3, <2>1, TypeKept
<1>5. ReadInv' /\ WrittenInv'
  BY <1>2, DeviceKept
<1>6. (data = flash.data \/ (flash.storeReserve > 0 /\ data = Grown)) /\ taken = 0
  BY <1>1, <1>2 DEF TakenInv
<1>7. (data = flash.data \/ (flash.storeReserve > 0 /\ data = Grown))'
  BY <1>2, <1>6, Static
<1>8. Update \in Seq(Nat) /\ Len(Update) \in Nat
  BY <1>3, FlashRows
<1>9. PICK w : SumOf(Update, w)
  BY <1>8, SumExists
<1>10. w[0] = 0
  BY <1>9 DEF SumOf
<1>11. Update' = Update /\ SumOf(Update, w)'
  BY <1>2, <1>9, Static
<1>12. (row <= Len(Update) + 1 /\ \E v : SumOf(Update, v) /\ taken = v[row - 1])'
  <2>1. row' <= Len(Update') + 1
    BY <1>2, <1>8, <1>11
  <2>2. taken' = w[row' - 1]
    BY <1>2, <1>6, <1>10
  <2> QED BY <1>11, <2>1, <2>2
<1>13. TakenInv'
  BY <1>2, <1>7, <1>12 DEF TakenInv
<1> QED BY <1>4, <1>5, <1>13 DEF FlashInv

LEMMA ObjectWritten ==
  ASSUME FlashInv, WriteObject
  PROVE  FlashInv'
<1>1. FlashTypeOK /\ ReadInv /\ TakenInv
  BY DEF FlashInv
<1>2. /\ stage = "updating" /\ row <= Len(Update) /\ taken' = taken + Lebs(Update[row]) /\ row' = row + 1
      /\ UNCHANGED <<flash, content, covered, stage, blocks, data>>
  BY DEF WriteObject
<1>3. flash \in Flashes /\ content \in Contents /\ row \in Nat \ {0} /\ covered \in Nat /\ data \in Nat /\ stage \in Stages
  BY <1>1 DEF FlashTypeOK
<1>4. Leb \in Nat \ {0}
  BY <1>1, <1>2, <1>3, Held DEF ReadInv
<1>5. Update \in Seq(Nat) /\ Len(Update) \in Nat
  BY <1>3, FlashRows
<1>6. PICK w : SumOf(Update, w) /\ taken = w[row - 1]
  BY <1>1, <1>2 DEF TakenInv
<1>7. row \in 1 .. Len(Update) /\ row \in 0 .. Len(Update) /\ row' - 1 = row /\ row' \in Nat \ {0}
  BY <1>2, <1>3, <1>5
<1>8. taken' = w[row]
  BY <1>2, <1>6, <1>7 DEF SumOf
<1>9. w[row] \in Nat
  BY <1>4, <1>5, <1>6, <1>7, SumGrows
<1>10. FlashTypeOK'
  <2>1. taken' \in Nat
    BY <1>8, <1>9
  <2> QED BY <1>1, <1>2, <1>3, <1>7, <2>1, TypeKept
<1>11. ReadInv' /\ WrittenInv'
  BY <1>2, DeviceKept
<1>12. (data = flash.data \/ (flash.storeReserve > 0 /\ data = Grown))'
  <2>1. data = flash.data \/ (flash.storeReserve > 0 /\ data = Grown)
    BY <1>1, <1>2 DEF TakenInv
  <2> QED BY <1>2, <2>1, Static
<1>13. Update' = Update /\ SumOf(Update, w)'
  BY <1>2, <1>6, Static
<1>14. (row <= Len(Update) + 1 /\ \E v : SumOf(Update, v) /\ taken = v[row - 1])'
  <2>1. row' <= Len(Update') + 1
    BY <1>2, <1>3, <1>5, <1>13
  <2>2. taken' = w[row' - 1]
    BY <1>7, <1>8
  <2> QED BY <1>13, <2>1, <2>2
<1>15. TakenInv'
  BY <1>2, <1>12, <1>14 DEF TakenInv
<1> QED BY <1>10, <1>11, <1>15 DEF FlashInv

LEMMA UpdateEnded ==
  ASSUME FlashInv, EndUpdate
  PROVE  FlashInv'
<1>1. FlashTypeOK /\ TakenInv
  BY DEF FlashInv
<1>2. /\ stage = "updating" /\ row > Len(Update) /\ stage' = "updated" /\ row' = row
      /\ UNCHANGED <<flash, content, covered, blocks, data, taken>>
  BY DEF EndUpdate, Stage
<1>3. /\ flash \in Flashes /\ content \in Contents /\ row \in Nat \ {0} /\ covered \in Nat /\ data \in Nat
      /\ taken \in Nat
  BY <1>1 DEF FlashTypeOK
<1>4. FlashTypeOK'
  <2>1. stage' \in Stages
    BY <1>2 DEF Stages
  <2> QED BY <1>1, <1>2, <1>3, <2>1, TypeKept
<1>5. ReadInv' /\ WrittenInv'
  BY <1>2, DeviceKept
<1>6. Len(Update) \in Nat
  BY <1>3, FlashRows
<1>7. PICK w : row <= Len(Update) + 1 /\ SumOf(Update, w) /\ taken = w[row - 1]
  BY <1>1, <1>2 DEF TakenInv
<1>8. row - 1 = Len(Update)
  BY <1>2, <1>3, <1>6, <1>7
<1>9. Update' = Update /\ SumOf(Update, w)'
  BY <1>2, <1>7, Static
<1>10. (\E v : SumOf(Update, v) /\ taken = v[Len(Update)])'
  <2>1. taken' = w[Len(Update')]
    BY <1>2, <1>7, <1>8, <1>9
  <2> QED BY <1>9, <2>1
<1>11. (data = flash.data \/ (flash.storeReserve > 0 /\ data = Grown))'
  <2>1. data = flash.data \/ (flash.storeReserve > 0 /\ data = Grown)
    BY <1>1, <1>2 DEF TakenInv
  <2> QED BY <1>2, <2>1, Static
<1>12. TakenInv'
  BY <1>2, <1>10, <1>11 DEF TakenInv
<1> QED BY <1>4, <1>5, <1>12 DEF FlashInv

LEMMA StepHolds ==
  ASSUME FlashInv, [FlashNext]_flashVars
  PROVE  FlashInv'
<1>1. CASE UNCHANGED flashVars
  <2>1. flash' = flash /\ content' = content /\ row' = row /\ covered' = covered /\ stage' = stage /\ blocks' = blocks
        /\ data' = data /\ taken' = taken
    BY <1>1 DEF flashVars
  <2>2. FlashTypeOK /\ ReadInv /\ WrittenInv /\ TakenInv
    BY DEF FlashInv
  <2>3. /\ Chip' = Chip /\ MtdRegions' = MtdRegions /\ Update' = Update /\ Grown' = Grown
        /\ (\A i : EndOf(i)' = EndOf(i)) /\ (\A n : Contiguous(n)' <=> Contiguous(n))
        /\ (\A b, i : On(b, i)' <=> On(b, i)) /\ (\A w : SumOf(Update, w)' <=> SumOf(Update, w))
        /\ (ContentHolds' <=> ContentHolds) /\ (FlashHolds' <=> FlashHolds)
    BY <2>1, Static, StaticHolds
  <2>4. FlashTypeOK'
    BY <2>1, <2>2, <2>3 DEF FlashTypeOK
  <2>5. ReadInv'
    BY <2>1, <2>2, <2>3 DEF ReadInv
  <2>6. WrittenInv'
    BY <2>1, <2>2, <2>3 DEF WrittenInv
  <2>7. TakenInv'
    BY <2>1, <2>2, <2>3 DEF TakenInv
  <2> QED BY <2>4, <2>5, <2>6, <2>7 DEF FlashInv
<1>2. CASE FlashNext
  BY <1>2, RegionRead, FlashRegionsRead, FlashChecked, ContentChecked, RegionWritten, RegionsWritten, Booted, Staged,
     ObjectWritten, UpdateEnded DEF FlashNext
<1> QED BY <1>1, <1>2
-----------------------------------------------------------------------------
(* What the invariant says of the image and of the device.                  *)

\* Each block has the name of a region it lies in, and none of the raw blocks that of UBI.
LEMMA BlocksHold ==
  ASSUME FlashInv, stage \in {"flashed", "grown", "updating", "updated"}, NEW b \in DOMAIN blocks
  PROVE  \E i \in DOMAIN MtdRegions :
           /\ blocks[b] = MtdRegions[i].name
           /\ b < flash.raw => MtdRegions[i].role # "ubi"
           /\ b * Chip.eraseBlock \in MtdRegions[i].offset .. MtdRegions[i].offset + MtdRegions[i].size - 1
<1>1. FlashTypeOK /\ ReadInv /\ WrittenInv
  BY DEF FlashInv
<1>2. flash \in Flashes /\ content \in Contents /\ DOMAIN blocks = 0 .. Chip.size \div Chip.eraseBlock - 1 /\ FlashHolds
  BY <1>1 DEF FlashTypeOK, ReadInv
<1>3. /\ Chip.eraseBlock \in Nat \ {0} /\ flash.raw \in Nat /\ DOMAIN MtdRegions = 1 .. Len(MtdRegions)
      /\ \A i \in 1 .. Len(MtdRegions) : MtdRegions[i].offset \in Nat /\ MtdRegions[i].size \in Nat
  BY <1>2, FlashRows
<1>4. Ubi.offset \in Nat /\ \A i \in 1 .. Len(MtdRegions) : MtdRegions[i].role = "ubi" => MtdRegions[i] = Ubi
  BY <1>2, Held
<1>5. PICK i \in 1 .. Len(MtdRegions) : On(b, i) /\ blocks[b] = MtdRegions[i].name
  BY <1>1 DEF WrittenInv
<1>6. b \in Nat
  BY <1>2
<1>7. ASSUME b < flash.raw, MtdRegions[i].role = "ubi"
      PROVE  FALSE
  <2>1. flash.raw > 0
    BY <1>3, <1>6, <1>7
  <2>2. flash.raw * Chip.eraseBlock <= Ubi.offset
    BY <1>2, <2>1 DEF FlashHolds
  <2>3. MtdRegions[i] = Ubi
    BY <1>4, <1>7
  <2>4. b * Chip.eraseBlock >= Ubi.offset
    BY <1>3, <1>5, <2>3 DEF On
  <2>5. \A m \in Nat, n \in Nat, e \in Nat \ {0} : m < n => m * e \in Nat /\ n * e \in Nat /\ m * e < n * e
    <3> TAKE m \in Nat, n \in Nat, e \in Nat \ {0}
    <3> HAVE m < n
    <3>1. m + 1 <= n /\ m * e \in Nat /\ n * e \in Nat /\ (m + 1) * e = m * e + e
      OBVIOUS
    <3>2. (m + 1) * e <= n * e
      BY <3>1
    <3> QED BY <3>1, <3>2
  <2>6. b * Chip.eraseBlock \in Nat /\ flash.raw * Chip.eraseBlock \in Nat
        /\ b * Chip.eraseBlock < flash.raw * Chip.eraseBlock
    BY <1>3, <1>6, <1>7, <2>5
  <2> QED BY <1>4, <2>2, <2>4, <2>6
<1> QED BY <1>3, <1>5, <1>7 DEF On

\* The device keeps the system reserve, whatever object it is at.
LEMMA FreeHolds ==
  ASSUME FlashInv, stage \in {"grown", "updating", "updated"}
  PROVE  Free >= SystemReserve
<1>1. FlashTypeOK /\ ReadInv /\ TakenInv
  BY DEF FlashInv
<1>2. /\ flash \in Flashes /\ content \in Contents /\ row \in Nat \ {0} /\ FlashHolds /\ ContentHolds
      /\ data = flash.data \/ (flash.storeReserve > 0 /\ data = Grown)
  BY <1>1 DEF FlashTypeOK, ReadInv, TakenInv
<1>3. Update \in Seq(Nat) /\ Len(Update) \in Nat
  BY <1>2, FlashRows
<1>4. \E w : SumOf(Update, w) /\ \E k \in 1 .. Len(Update) + 1 : taken = w[k - 1] /\ (stage = "updating" => k = row)
  <2>1. CASE stage = "grown"
    <3>1. PICK w : SumOf(Update, w)
      BY <1>3, SumExists
    <3>2. taken = 0 /\ w[0] = 0
      BY <1>1, <2>1, <3>1 DEF TakenInv, SumOf
    <3>3. 1 \in 1 .. Len(Update) + 1 /\ 1 - 1 = 0
      BY <1>3
    <3> QED BY <2>1, <3>1, <3>2, <3>3
  <2>2. CASE stage = "updating"
    <3>1. PICK w : SumOf(Update, w) /\ taken = w[row - 1]
      BY <1>1, <2>2 DEF TakenInv
    <3>2. row \in 1 .. Len(Update) + 1
      BY <1>1, <1>2, <1>3, <2>2 DEF TakenInv
    <3> QED BY <3>1, <3>2
  <2>3. CASE stage = "updated"
    <3>1. PICK w : SumOf(Update, w) /\ taken = w[Len(Update)]
      BY <1>1, <2>3 DEF TakenInv
    <3>2. PICK k : k = Len(Update) + 1
      OBVIOUS
    <3>3. k \in 1 .. Len(Update) + 1 /\ k - 1 = Len(Update)
      BY <1>3, <3>2
    <3>4. taken = w[k - 1] /\ (stage = "updating" => k = row)
      BY <2>3, <3>1, <3>3
    <3> QED BY <3>1, <3>3, <3>4
  <2> QED BY <2>1, <2>2, <2>3
<1>5. PICK w, k : SumOf(Update, w) /\ k \in 1 .. Len(Update) + 1 /\ taken = w[k - 1] /\ (stage = "updating" => k = row)
  BY <1>4
<1>6. /\ Available - flash.system - data - 2 - Factory - taken >= SystemReserve
      /\ k <= Len(Update) =>
           Available - flash.system - data - 2 - Factory - taken - 2 * Lebs(Update[k]) >= SystemReserve
  BY <1>2, <1>5, Room
<1>7. Available - flash.system - data - 2 - Factory - taken \in Int
  <2>1. Available \in Int /\ flash.system \in Nat /\ Factory \in Int
    BY <1>2, Held, FlashRows, Amounts
  <2>2. data \in Nat /\ taken \in Nat
    BY <1>1 DEF FlashTypeOK
  <2> QED BY <2>1, <2>2
<1>8. CASE stage = "updating" /\ row <= Len(Update)
  <2>1. Free = Available - flash.system - data - 2 - Factory - taken - 2 * Lebs(Update[row])
    BY <1>8 DEF Free
  <2> QED BY <1>5, <1>6, <1>8, <2>1
<1>9. CASE ~(stage = "updating" /\ row <= Len(Update))
  <2>1. Free = Available - flash.system - data - 2 - Factory - taken - 0
    BY <1>9 DEF Free
  <2> QED BY <1>6, <1>7, <2>1
<1> QED BY <1>8, <1>9

LEMMA FlashInvCorrect == FlashSpec => []FlashInv
<1>1. FlashInit => FlashInv
  BY InitHolds
<1>2. FlashInv /\ [FlashNext]_flashVars => FlashInv'
  BY StepHolds
<1> QED BY <1>1, <1>2, PTL DEF FlashSpec

-----------------------------------------------------------------------------

\* For every flash layout that parseFlashLayout accepts and every factory content
\* that ubiCapacity lets through: the image assembleFlash writes covers the flash
\* region by region, with no raw block in the UBI region, and the device keeps the
\* system reserve at every step of an update, grown on its first boot or not.
THEOREM UpdateFitsStoreCorrect == FlashSpec => []UpdateFitsStore
<1>1. FlashInv => UpdateFitsStore
  BY BlocksHold, FreeHolds DEF UpdateFitsStore
<1> QED BY <1>1, FlashInvCorrect, PTL

\* The reading, the assembly and the device keep the types of their state.
THEOREM FlashTypeCorrect == FlashSpec => []FlashTypeOK
<1>1. FlashInv => FlashTypeOK
  BY DEF FlashInv
<1> QED BY <1>1, FlashInvCorrect, PTL

=============================================================================
