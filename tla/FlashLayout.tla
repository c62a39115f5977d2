--------------------------- MODULE FlashLayout ---------------------------
(***************************************************************************)
(* A UBI board's flash.tsv (src/image/flash-layout.ts): its rules, the     *)
(* capacity rule the factory content is held to, the flash image           *)
(* (flash-image.ts), and the device that grows DATA on its first boot and  *)
(* then takes an update, which is external and told by the signed policy.  *)
(***************************************************************************)
EXTENDS Integers, Sequences

CONSTANTS
  Flashes,     \* the flash layouts a board may declare
  Contents,    \* factory contents: the bytes of each object of the deployments and of the core set
  Header,      \* the bytes of a UBI header, 64
  ReservedPebs, \* the blocks UBI keeps, 4
  CopyBytes,   \* the bytes of one copy of the boot records, 65536
  Mebibyte     \* 1048576

VARIABLES
  flash,    \* the layout
  content,  \* the factory content
  row,      \* the region the reader, then the writer is at; then the update's object
  covered,  \* the bytes of the flash the regions read so far cover
  stage,    \* where the reading, the assembly or the device is
  blocks,   \* the region each erase block of the image was written for
  data,     \* the LEBs of the DATA volume on the device
  taken     \* the LEBs the update has taken

flashVars == <<flash, content, row, covered, stage, blocks, data, taken>>

\* The rows of a flash.tsv as they are read.
Chips == [kind: {"nor", "nand"}, eraseBlock: Nat \ {0}, minIo: Nat \ {0}, subPage: Nat \ {0}, vid: Nat, size: Nat]
Mtds == [name: STRING, role: {"fixed", "loader", "ubi"}, offset: Nat, size: Nat]
Tables == [chip: Chips, regions: Seq(Mtds), system: Nat, data: Nat,
           systemReserve: Nat, dataReserve: Nat, storeReserve: Nat, raw: Nat]

ASSUME FlashAssumption ==
  /\ Flashes \subseteq Tables
  /\ Contents \subseteq [deployment: Seq(Nat), cores: Seq(Nat), loader: Nat]
  /\ Header \in Nat /\ ReservedPebs \in Nat /\ CopyBytes \in Nat \ {0} /\ Mebibyte \in Nat

Stages == {"regions", "whole", "accepted", "writing", "flashed", "grown", "updating", "updated", "refused"}

Ceil(n, d) == (n + d - 1) \div d
Align(n, to) == Ceil(n, to) * to
Total(bytes, F(_)) ==
  LET sum[i \in 0 .. Len(bytes)] == IF i = 0 THEN 0 ELSE sum[i - 1] + F(bytes[i])
  IN sum[Len(bytes)]
Largest(bytes, F(_)) ==
  LET top[i \in 0 .. Len(bytes)] ==
        IF i = 0 THEN 0 ELSE IF F(bytes[i]) > top[i - 1] THEN F(bytes[i]) ELSE top[i - 1]
  IN top[Len(bytes)]
Same(b) == b

-----------------------------------------------------------------------------
(* Reading flash.tsv: the rules of parseFlashLayout.                        *)

Chip == flash.chip
MtdRegions == flash.regions
Ubi == CHOOSE r \in {MtdRegions[i] : i \in DOMAIN MtdRegions} : r.role = "ubi"

\* ubiGeometry: on NAND, blocks are kept for those that go bad.
Leb == Chip.eraseBlock - Align(Chip.vid + Header, Chip.minIo)
BadBlocks == IF Chip.kind = "nand" THEN Ceil((Chip.size \div Chip.eraseBlock) * 20, 1024) ELSE 0
Available ==
  LET left == Ubi.size \div Chip.eraseBlock - ReservedPebs - BadBlocks
  IN IF left > 0 THEN left ELSE 0
Lebs(bytes) == Ceil(bytes, Leb)

ChipHolds ==
  /\ Chip.minIo <= Chip.eraseBlock /\ Chip.eraseBlock % Chip.minIo = 0
  /\ Chip.subPage <= Chip.minIo /\ Chip.minIo % Chip.subPage = 0
  /\ Chip.vid % Chip.subPage = 0 /\ Chip.vid >= Align(Header, Chip.subPage)
  /\ Chip.vid + Header <= Chip.eraseBlock
  /\ Chip.size % Chip.eraseBlock = 0

\* A mutant: a region may start anywhere.
RegionAligned(r) ==
  /\ r.offset % Chip.eraseBlock = 0 /\ r.size % Chip.eraseBlock = 0
  /\ \A i, j \in DOMAIN MtdRegions : MtdRegions[i].name = MtdRegions[j].name => i = j

RegionFollows(r) ==
  /\ r.offset = covered
  /\ r.offset % Chip.eraseBlock = 0 /\ r.size % Chip.eraseBlock = 0
  /\ \A i, j \in DOMAIN MtdRegions : MtdRegions[i].name = MtdRegions[j].name => i = j

RefuseFlash == stage' = "refused" /\ UNCHANGED <<flash, content, row, covered, blocks, data, taken>>
Stage(next) == stage' = next /\ UNCHANGED <<flash, content, covered, blocks, data, taken>>

ReadFlashRegion ==
  /\ stage = "regions" /\ row <= Len(MtdRegions)
  /\ IF ChipHolds /\ RegionFollows(MtdRegions[row])
     THEN /\ row' = row + 1 /\ covered' = MtdRegions[row].offset + MtdRegions[row].size
          /\ UNCHANGED <<flash, content, stage, blocks, data, taken>>
     ELSE RefuseFlash

ReadFlashRegions ==
  /\ stage = "regions" /\ row > Len(MtdRegions)
  /\ Stage("whole") /\ row' = 1

\* The records, SYSTEM and DATA have fixed volumes; a store reserve holds the
\* system reserve and the object that is being written.
VolumesFit ==
  /\ Leb >= CopyBytes
  /\ flash.system + flash.data + 2 <= Available
  /\ flash.storeReserve > 0 => flash.storeReserve * Mebibyte >= flash.systemReserve * Mebibyte + Leb

FlashHolds ==
  /\ covered = Chip.size
  /\ \E i \in DOMAIN MtdRegions :
       MtdRegions[i].role = "ubi" /\ \A j \in DOMAIN MtdRegions : MtdRegions[j].role = "ubi" => i = j
  /\ \A i, j \in DOMAIN MtdRegions : MtdRegions[i].role = "loader" /\ MtdRegions[j].role = "loader" => i = j
  /\ flash.raw > 0 => Chip.kind = "nand" /\ flash.raw * Chip.eraseBlock <= Ubi.offset
  /\ VolumesFit

CheckFlash ==
  /\ stage = "whole"
  /\ IF FlashHolds THEN Stage("accepted") /\ UNCHANGED row ELSE RefuseFlash

-----------------------------------------------------------------------------
(* The capacity rule over whole LEBs: ubiCapacity and dataGrowth.           *)

One == Total(content.deployment, Lebs)
Cores == Total(content.cores, Lebs)
Factory == One + Cores
\* A mutant: the object that is written is not counted twice.
WrittenOnce == 0
LargestObject == Largest(content.deployment \o content.cores, Lebs)
SystemReserve == Lebs(flash.systemReserve * Mebibyte)
Store == Lebs(flash.storeReserve * Mebibyte)
Fixed == flash.system + flash.data + 2

\* What the first boot leaves DATA beside the factory content and the store reserve.
Grown ==
  LET left == Available - flash.system - 2 - Factory - Store
  IN IF left > flash.data THEN left ELSE flash.data
Usable(lebs) == (lebs * Leb * 4) \div 5
Staging == Total(content.deployment \o content.cores, Same) + flash.dataReserve * Mebibyte

CapacityHolds ==
  IF flash.storeReserve > 0
  THEN /\ One + Cores + LargestObject + SystemReserve <= Store
       /\ Fixed + Factory + Store <= Available
       /\ Staging <= Usable(Grown)
  ELSE Fixed + 2 * One + Cores + LargestObject + SystemReserve <= Available

\* checkFlashContent.
ContentHolds ==
  /\ \E i \in DOMAIN MtdRegions :
       MtdRegions[i].role = "loader" /\ content.loader > 0 /\ content.loader <= MtdRegions[i].size
  /\ CapacityHolds

CheckContent ==
  /\ stage = "accepted"
  /\ IF ContentHolds THEN Stage("writing") /\ UNCHANGED row ELSE RefuseFlash

\* assembleFlash: each region at its offset, padded with erased bytes to its end.
WriteRegion ==
  /\ stage = "writing" /\ row <= Len(MtdRegions)
  /\ LET r == MtdRegions[row]
         mine == {b \in DOMAIN blocks : b * Chip.eraseBlock \in r.offset .. r.offset + r.size - 1}
     IN blocks' = [b \in DOMAIN blocks |-> IF b \in mine THEN r.name ELSE blocks[b]]
  /\ row' = row + 1
  /\ UNCHANGED <<flash, content, covered, stage, data, taken>>

WriteRegions ==
  /\ stage = "writing" /\ row > Len(MtdRegions)
  /\ Stage("flashed") /\ row' = 1

-----------------------------------------------------------------------------
(* The device.                                                              *)

\* ubiPolicy: the reserves that are signed; the store's is not among them.
SignedReserves == {"system", "data"}

\* The first boot grows DATA where the device is told of a store reserve: by
\* the policy it carries, or by one that would carry what flash.tsv declares.
FirstBoot ==
  /\ stage = "flashed"
  /\ \E told \in {"store" \in SignedReserves, TRUE} :
       data' = IF told /\ flash.storeReserve > 0 THEN Grown ELSE flash.data
  /\ stage' = "grown" /\ UNCHANGED <<flash, content, row, covered, blocks, taken>>

\* An update brings a deployment, and where a store reserve counts one, a core set.
Update == IF flash.storeReserve > 0 THEN content.deployment \o content.cores ELSE content.deployment

\* Every object of it is on DATA first; then each is written as p.<name>.
StageUpdate ==
  /\ stage = "grown" /\ Stage("updating") /\ row' = 1

WriteObject ==
  /\ stage = "updating" /\ row <= Len(Update)
  /\ taken' = taken + Lebs(Update[row]) /\ row' = row + 1
  /\ UNCHANGED <<flash, content, covered, stage, blocks, data>>

EndUpdate ==
  /\ stage = "updating" /\ row > Len(Update)
  /\ Stage("updated") /\ UNCHANGED row

FlashInit ==
  /\ flash \in Flashes /\ content \in Contents
  /\ row = 1 /\ covered = 0 /\ stage = "regions"
  /\ blocks = [b \in 0 .. flash.chip.size \div flash.chip.eraseBlock - 1 |-> "erased"]
  /\ data = flash.data /\ taken = 0

FlashNext ==
  \/ ReadFlashRegion \/ ReadFlashRegions \/ CheckFlash \/ CheckContent
  \/ WriteRegion \/ WriteRegions \/ FirstBoot \/ StageUpdate \/ WriteObject \/ EndUpdate

FlashSpec == FlashInit /\ [][FlashNext]_flashVars

-----------------------------------------------------------------------------

\* The LEBs left on the device; the object under way counts as p.<name> too.
Free ==
  Available - flash.system - data - 2 - Factory - taken
    - (IF stage = "updating" /\ row <= Len(Update) THEN 2 * Lebs(Update[row]) ELSE 0)

\* A factory image that is accepted covers the whole flash with its regions and
\* leaves its device, grown or not, the system reserve at every step of an
\* update (flash-layout.ts ubiCapacity, flash-image.ts assembleFlash).
UpdateFitsStore ==
  /\ stage \in {"flashed", "grown", "updating", "updated"} =>
       \A b \in DOMAIN blocks : \E i \in DOMAIN MtdRegions :
         /\ blocks[b] = MtdRegions[i].name
         /\ b < flash.raw => MtdRegions[i].role # "ubi"
         /\ b * Chip.eraseBlock \in MtdRegions[i].offset .. MtdRegions[i].offset + MtdRegions[i].size - 1
  /\ stage \in {"grown", "updating", "updated"} =>
       Free >= SystemReserve

=============================================================================
