---------------------------- MODULE DiskLayout ----------------------------
(***************************************************************************)
(* A board's layout.tsv, from the rules it is held to                      *)
(* (src/image/file-layout.ts, regions.ts) to the bytes of the factory disk *)
(* (file-image.ts, roles/) and the places they are read from: the signed   *)
(* board policy the device follows and the verifier of the image.          *)
(***************************************************************************)
EXTENDS Integers, Sequences, FiniteSets

CONSTANTS
  Layouts,      \* the layouts a board may declare
  SectorBytes,  \* 512
  RecordBytes,  \* the bytes of one copy of the boot records, 65536
  FirstSector,  \* the first sector after the primary GPT, 34
  TailSectors   \* the sectors kept after the last partition, 2048

VARIABLES
  layout,   \* the layout being read
  index,    \* the partition, then the region, the reader is at
  end,      \* the first sector after the partitions read so far
  phase,    \* where the reading or the assembly is
  disk      \* the bytes of the disk, as what was written there

layoutVars == <<layout, index, end, phase, disk>>

PartRoles == {"esp", "system", "data", "raw", "vfat", "ext4", "preserved"}
Sources == {"loader", "records-a", "records-b", "file"}

\* A row of either kind once integer() and the names were checked: no size is zero.
PartRow ==
  [number : Nat, name : STRING, role : PartRoles, start : Nat, size : Nat \ {0}, id : STRING, fs : STRING]
RegionRow ==
  [name : STRING, partition : STRING, offset : Nat, size : Nat \ {0}, source : Sources]

LayoutAssumption ==
  /\ {SectorBytes, RecordBytes, FirstSector, TailSectors} \subseteq Nat \ {0}
  /\ \A l \in Layouts :
       l.parts \in Seq(PartRow) /\ l.regions \in Seq(RegionRow) /\ l.loaderBytes \in Nat

Phases == {"partitions", "whole", "regions", "records", "accepted", "assembling", "written", "refused"}

Parts == layout.parts
Regions == layout.regions
Of(role) == {i \in DOMAIN Parts : Parts[i].role = role}
From(source) == {r \in DOMAIN Regions : Regions[r].source = source}

-----------------------------------------------------------------------------
(* Reading the layout: the rules of parseLayout.                            *)

\* The partitions of the project are numbered first, then the preserved ones,
\* each group in the order of the disk.
NumberOf(i) ==
  LET before(j) == IF Parts[i].role = "preserved"
                   THEN Parts[j].role # "preserved" \/ j < i
                   ELSE Parts[j].role # "preserved" /\ j < i
  IN 1 + Cardinality({j \in DOMAIN Parts : before(j)})

\* A mutant: the end of the partition before is not looked at.
StartsAligned(p) == p.start % layout.align = 0

\* A start on the alignment, after the GPT and after the partition before it.
FitsAfter(p) == p.start % layout.align = 0 /\ p.start >= end

RefuseLayout == phase' = "refused" /\ UNCHANGED <<layout, index, end, disk>>

ReadPartition ==
  /\ phase = "partitions" /\ index <= Len(Parts)
  /\ LET p == Parts[index] IN
       IF p.number = NumberOf(index) /\ FitsAfter(p)
       THEN index' = index + 1 /\ end' = p.start + p.size /\ UNCHANGED <<layout, phase, disk>>
       ELSE RefuseLayout

ReadPartitions ==
  /\ phase = "partitions" /\ index > Len(Parts)
  /\ phase' = "whole" /\ index' = 1 /\ UNCHANGED <<layout, end, disk>>

\* No two partitions share a name, and nothing on the disk an identity.
Unique ==
  \A i, j \in DOMAIN Parts :
    /\ layout.guid \notin {Parts[i].id, Parts[i].fs}
    /\ Parts[i].id # Parts[j].fs
    /\ i # j => /\ Parts[i].name # Parts[j].name
                /\ Parts[i].id # Parts[j].id
                /\ Parts[i].fs = "-" \/ Parts[i].fs # Parts[j].fs

\* One SYSTEM, one DATA and it the last, which is the one that grows; an ESP
\* on a board that boots one and on no other.
RolesHold ==
  /\ \A i \in DOMAIN Parts : (Parts[i].fs = "-") = (Parts[i].role \in {"raw", "preserved"})
  /\ Of("preserved") # {} => ~layout.discard
  /\ Cardinality(Of("system")) = 1 /\ Cardinality(Of("data")) = 1
  /\ Parts[Len(Parts)].role = "data"
  /\ Cardinality(Of("esp")) = IF layout.backend = "systemd-boot" THEN 1 ELSE 0

\* The boot objects live on SYSTEM where there is no ESP (checkCapacity); two
\* deployments and the reserve fit where they are kept.
Keeps(i, bytes, reserve) == bytes > 0 /\ 2 * bytes + reserve <= Parts[i].size * SectorBytes
Capacity ==
  IF Of("esp") = {}
  THEN \A i \in Of("system") : Keeps(i, layout.systemBytes + layout.bootBytes, layout.reserve["system"])
  ELSE /\ \A i \in Of("system") : Keeps(i, layout.systemBytes, layout.reserve["system"])
       /\ \A i \in Of("esp") : Keeps(i, layout.bootBytes, layout.reserve["esp"])

CheckWhole ==
  /\ phase = "whole"
  /\ IF Len(Parts) > 0 /\ Unique /\ RolesHold
     THEN phase' = "regions" /\ UNCHANGED <<layout, index, end, disk>>
     ELSE RefuseLayout

\* The index of the partition a region names.
In(r) == CHOOSE i \in DOMAIN Parts : Parts[i].name = r.partition
Named(r) == \E i \in DOMAIN Parts : Parts[i].name = r.partition

Apart(r, o) == r.offset + r.size <= o.offset \/ o.offset + o.size <= r.offset

RegionHolds(k) ==
  LET r == Regions[k] IN
  /\ Named(r) /\ Parts[In(r)].role = "raw"
  /\ r.offset + r.size <= Parts[In(r)].size * SectorBytes
  /\ \A o \in DOMAIN Regions \ {k} : Regions[o].partition = r.partition => Apart(r, Regions[o])
  /\ r.source \in {"records-a", "records-b"} => r.size = RecordBytes

ReadRegion ==
  /\ phase = "regions" /\ index <= Len(Regions)
  /\ IF RegionHolds(index) THEN index' = index + 1 /\ UNCHANGED <<layout, end, phase, disk>> ELSE RefuseLayout

ReadRegions ==
  /\ phase = "regions" /\ index > Len(Regions)
  /\ phase' = "records" /\ index' = 1 /\ UNCHANGED <<layout, end, disk>>

\* A mutant: the copies may be in two partitions.
AnyPartition(a, b) == TRUE

\* Both copies in one partition, each on a sector; a board with an ESP has
\* neither copies nor a loader region.
SamePartition(a, b) == a.partition = b.partition
RecordsHold ==
  /\ \A s \in Sources \ {"file"} : Cardinality(From(s)) <= 1
  /\ IF layout.backend = "uboot-fit"
     THEN \E a \in From("records-a"), b \in From("records-b") :
            /\ SamePartition(Regions[a], Regions[b])
            /\ Regions[a].offset % SectorBytes = 0 /\ Regions[b].offset % SectorBytes = 0
     ELSE From("records-a") = {} /\ From("records-b") = {} /\ From("loader") = {}

\* checkLoaderPlacement: a loader region where, and only where, the board's
\* firmware goes to the disk, of the size the firmware may have.
LoaderPlaced ==
  IF layout.firmware = "disk"
  THEN From("loader") # {} /\ \A k \in From("loader") : Regions[k].size = layout.loaderMax
  ELSE From("loader") = {}

CheckRecords ==
  /\ phase = "records"
  /\ IF RecordsHold THEN phase' = "accepted" /\ UNCHANGED <<layout, index, end, disk>> ELSE RefuseLayout

-----------------------------------------------------------------------------
(* Assembling the disk: the GPT, then partition by partition.               *)

DiskBytes == (end + TailSectors) * SectorBytes
Bytes(from, count) == from .. from + count - 1
Extent(p) == Bytes(p.start * SectorBytes, p.size * SectorBytes)
Gpt == Bytes(0, FirstSector * SectorBytes) \cup Bytes(end * SectorBytes, TailSectors * SectorBytes)

Zero == <<"zero", 0>>
GptByte == <<"gpt", 0>>

\* What a source's bytes are; a loader may be shorter than its region.
Length(r) == IF r.source = "loader" THEN layout.loaderBytes ELSE r.size
SourceByte(r, i) == <<r.source, i>>

\* writeRawPartition: the regions of the partition in their order over zeros.
RawByte(p, b) ==
  LET over == {k \in DOMAIN Regions : /\ Regions[k].partition = p.name
                                      /\ b \in Bytes(Regions[k].offset, Length(Regions[k]))}
      last == CHOOSE k \in over : \A o \in over : o <= k
  IN IF over = {} THEN Zero ELSE SourceByte(Regions[last], b - Regions[last].offset)

\* ROLES[role].build: zeros for a preserved slot, a file system elsewhere.
BuiltByte(p, b) ==
  CASE p.role = "raw" -> RawByte(p, b)
    [] p.role = "preserved" -> Zero
    [] OTHER -> <<p.name, b>>

StartAssembly ==
  /\ phase = "accepted"
  /\ IF LoaderPlaced /\ Capacity
     THEN /\ phase' = "assembling" /\ index' = 1
          /\ disk' = [b \in Bytes(0, DiskBytes) |-> IF b \in Gpt THEN GptByte ELSE Zero]
          /\ UNCHANGED <<layout, end>>
     ELSE RefuseLayout

\* dd of the partition's image at its start, in the order of the layout; a
\* loader that is longer than its region is refused by its writer.
WritePartition ==
  /\ phase = "assembling" /\ index <= Len(Parts)
  /\ LET p == Parts[index] IN
       IF \E k \in From("loader") : Regions[k].partition = p.name /\ layout.loaderBytes > Regions[k].size
       THEN RefuseLayout
       ELSE /\ disk' = [b \in DOMAIN disk |->
                          IF b \in Extent(p) THEN BuiltByte(p, b - p.start * SectorBytes) ELSE disk[b]]
            /\ index' = index + 1 /\ UNCHANGED <<layout, end, phase>>

Finish ==
  /\ phase = "assembling" /\ index > Len(Parts)
  /\ phase' = "written" /\ UNCHANGED <<layout, index, end, disk>>

LayoutInit ==
  /\ layout \in Layouts /\ index = 1 /\ end = FirstSector
  /\ phase = "partitions" /\ disk = << >>

LayoutNext ==
  \/ ReadPartition \/ ReadPartitions \/ CheckWhole \/ ReadRegion \/ ReadRegions \/ CheckRecords
  \/ StartAssembly \/ WritePartition \/ Finish

LayoutSpec == LayoutInit /\ [][LayoutNext]_layoutVars

-----------------------------------------------------------------------------
(* Reading the disk: where the device, told by the signed board policy, and *)
(* the verifier of the image look.                                          *)

\* boardPolicy: the partition the first copy is in, and an offset for each.
RecordAt(s) ==
  LET a == CHOOSE k \in From("records-a") : TRUE
      k == CHOOSE x \in From(s) : TRUE
  IN Parts[In(Regions[a])].start * SectorBytes + Regions[k].offset

\* regionOf: where the loader is on the disk.
DiskOffset(k) == Parts[In(Regions[k])].start * SectorBytes + Regions[k].offset

Holds(s, from, count) == \A i \in 0 .. count - 1 : disk[from + i] = <<s, i>>

\* A layout that is accepted is written without anything overwriting anything
\* else: the GPT, every file system in the partition of its number and its
\* identity, both copies of the boot records where the board policy sends the
\* device, the loader where the firmware receipt names it, every file of the
\* board in its region, and zeros in the slots of the vendor
\* (file-layout.ts parseLayout, file-image.ts assembleFileImage, regions.ts).
WrittenWhereRead ==
  phase = "written" =>
    /\ \A b \in Gpt : disk[b] = GptByte
    /\ \A i, j \in DOMAIN Parts :
         Parts[i].number = Parts[j].number \/ Parts[i].id = Parts[j].id => i = j
    /\ \A i \in DOMAIN Parts :
         /\ Parts[i].fs # "-" => Holds(Parts[i].name, Parts[i].start * SectorBytes, Parts[i].size * SectorBytes)
         /\ Parts[i].role = "preserved" => \A b \in Extent(Parts[i]) : disk[b] = Zero
    /\ layout.backend = "uboot-fit" =>
         \A s \in {"records-a", "records-b"} : Holds(s, RecordAt(s), RecordBytes)
    /\ layout.firmware = "disk" =>
         \E k \in From("loader") : Holds("loader", DiskOffset(k), layout.loaderBytes)
    /\ \A k \in From("file") : Holds("file", DiskOffset(k), Regions[k].size)

=============================================================================
