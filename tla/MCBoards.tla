----------------------------- MODULE MCBoards -----------------------------
(***************************************************************************)
(* Small boards for the checks: layouts of the four shapes the boards of   *)
(* the repository have, each with one or two places moved or one thing     *)
(* changed; NAND and NOR flashes around the sizes where the capacity rule  *)
(* turns; and inputs of a factory image that differ in one thing from a    *)
(* pair that goes together.                                                *)
(***************************************************************************)
EXTENDS Integers, Sequences, TLC

-----------------------------------------------------------------------------
(* layout.tsv: sectors of 2 bytes, copies of the boot records of 2.         *)

PartOf(number, name, role, start, size, fs) ==
  [number |-> number, name |-> name, role |-> role, start |-> start, size |-> size, id |-> name, fs |-> fs]
RegionOf(name, offset, size) ==
  [name |-> name, partition |-> "firmware", offset |-> offset, size |-> size, source |-> name]
BoardOf(backend, firmware, discard, parts, regions) ==
  [backend |-> backend, firmware |-> firmware, discard |-> discard, guid |-> "disk", align |-> 2, parts |-> parts,
   regions |-> regions, systemBytes |-> 1, bootBytes |-> 1, reserve |-> [system |-> 1, esp |-> 1], loaderBytes |-> 3, loaderMax |-> 4]
EspBoard ==
  BoardOf("systemd-boot", "esp", TRUE,
    <<PartOf(1, "esp", "esp", 2, 2, "fat"), PartOf(2, "system", "system", 4, 3, "uuid1"), PartOf(3, "data", "data", 8, 2, "uuid2")>>,
    << >>)
LoaderBoard ==
  BoardOf("uboot-fit", "disk", TRUE,
    <<PartOf(1, "firmware", "raw", 2, 5, "-"), PartOf(2, "system", "system", 8, 3, "uuid1"), PartOf(3, "data", "data", 12, 2, "uuid2")>>,
    <<RegionOf("loader", 0, 4), RegionOf("records-a", 4, 2), RegionOf("records-b", 8, 2)>>)
VendorBoard ==
  BoardOf("uboot-fit", "beside", FALSE,
    <<PartOf(4, "vendor", "preserved", 2, 2, "-"), PartOf(1, "firmware", "raw", 4, 3, "-"),
      PartOf(2, "system", "system", 8, 3, "uuid1"), PartOf(3, "data", "data", 12, 2, "uuid2")>>,
    <<RegionOf("records-a", 0, 2), RegionOf("records-b", 4, 2)>>)
\* A partition or a region moved or resized, and anything else about it.
PartMoves(p) ==
  {[p EXCEPT !.start = @ + d] : d \in {x \in {-2, -1, 2} : p.start + x >= 0}}
  \cup {[p EXCEPT !.size = @ + d] : d \in {x \in {-1, 1, 2} : p.size + x > 0}}
RegionMoves(r) ==
  {[r EXCEPT !.offset = @ + d] : d \in {x \in {-2, -1, 1, 2} : r.offset + x >= 0}}
  \cup {[r EXCEPT !.size = @ + d] : d \in {x \in {-1, 1} : r.size + x > 0}}
PartEdits(p) ==
  {[p EXCEPT !.number = n] : n \in 1 .. 4} \cup {[p EXCEPT !.role = r] : r \in {"raw", "data", "vfat", "preserved"}}
  \cup {[p EXCEPT !.id = "system"], [p EXCEPT !.fs = "-"], [p EXCEPT !.fs = "uuid1"], [p EXCEPT !.name = "data"]}
RegionEdits(r) ==
  {[r EXCEPT !.source = s] : s \in {"file", "records-a"}} \cup {[r EXCEPT !.partition = n] : n \in {"other", "system"}}
Moves(l) ==
  UNION {{[l EXCEPT !.parts[i] = p] : p \in PartMoves(l.parts[i])} : i \in DOMAIN l.parts}
  \cup UNION {{[l EXCEPT !.regions[k] = r] : r \in RegionMoves(l.regions[k])} : k \in DOMAIN l.regions}
Edits(l) ==
  UNION {{[l EXCEPT !.parts[i] = p] : p \in PartEdits(l.parts[i])} : i \in DOMAIN l.parts}
  \cup UNION {{[l EXCEPT !.regions[k] = r] : r \in RegionEdits(l.regions[k])} : k \in DOMAIN l.regions}
  \cup {[l EXCEPT !.discard = ~@], [l EXCEPT !.loaderBytes = 5], [l EXCEPT !.systemBytes = 3], [l EXCEPT !.firmware = "beside"]}
\* Two raw partitions, a file of the board in the second: a copy may stray.
TwoRawBoard ==
  BoardOf("uboot-fit", "beside", TRUE,
    <<PartOf(1, "firmware", "raw", 2, 4, "-"), PartOf(2, "other", "raw", 6, 2, "-"),
      PartOf(3, "system", "system", 8, 3, "uuid1"), PartOf(4, "data", "data", 12, 2, "uuid2")>>,
    <<RegionOf("records-a", 0, 2), RegionOf("records-b", 2, 2),
      [RegionOf("logo", 0, 2) EXCEPT !.partition = "other", !.source = "file"]>>)
Boards == {EspBoard, LoaderBoard, VendorBoard, TwoRawBoard}
MCLayouts ==
  LET moved == UNION {Moves(l) : l \in Boards}
  IN Boards \cup UNION {Edits(l) : l \in Boards} \cup moved \cup UNION {Moves(l) : l \in moved}

-----------------------------------------------------------------------------
(* flash.tsv: erase blocks of 8 bytes, of which 4 are a LEB.                 *)

Mtd(name, role, first, count) == [name |-> name, role |-> role, offset |-> 8 * first, size |-> 8 * count]
\* A chip whose last region is UBI, of a number of blocks.
FlashOf(kind, count, dataLebs, store, raw) ==
  [chip |-> [kind |-> kind, eraseBlock |-> 8, minIo |-> 2, subPage |-> 1, vid |-> 2, size |-> 8 * (count + 3)],
   regions |-> <<Mtd("vendor", "fixed", 0, 1), Mtd("loader", "loader", 1, 2), Mtd("ubi", "ubi", 3, count)>>,
   system |-> 1, data |-> dataLebs, systemReserve |-> 1, dataReserve |-> 1, storeReserve |-> store, raw |-> raw]
MtdMoves(r) == {m \in {[r EXCEPT !.offset = @ + 8], [r EXCEPT !.size = @ + 8], [r EXCEPT !.size = @ - 8],
  [r EXCEPT !.size = @ + 4], [r EXCEPT !.role = "ubi"], [r EXCEPT !.name = "ubi"]} : m.size > 0}
FlashSizes == {FlashOf(kind, count, d, store, 3) : kind \in {"nand"}, count \in 12 .. 23, d \in {1, 3}, store \in {0, 1, 6, 7, 8}}
MtdMoved(l) == UNION {{[l EXCEPT !.regions[i] = r] : r \in MtdMoves(l.regions[i])} : i \in DOMAIN l.regions}
MCFlashes ==
  FlashSizes \cup UNION {MtdMoved(l) : l \in MtdMoved(FlashOf("nand", 20, 1, 0, 0)) \cup {FlashOf("nand", 20, 1, 0, 0)}}
  \cup {FlashOf("nor", 16, 1, 0, r) : r \in {0, 1}} \cup {FlashOf("nand", 20, 1, 0, r) : r \in {0, 3, 4}}
  \cup {[FlashOf("nand", 20, 1, 0, 0) EXCEPT !.chip.vid = v] : v \in {0, 1, 4, 8}}
MCContents ==
  {[deployment |-> d, cores |-> c, loader |-> l] :
     d \in {<<4>>, <<3, 5>>, <<4, 5, 4>>}, c \in {<<4>>, <<2, 9>>}, l \in {3, 17}}

-----------------------------------------------------------------------------
(* The inputs of a factory image.                                           *)

Deploy(kernel, root, generation, board, arch, set) ==
  [kernel |-> kernel, root |-> root, generation |-> generation, board |-> board, arch |-> arch, set |-> set]
\* d1 and d2 are a pair; the others differ from d1 in one thing.
MCDescriptor ==
  "d1" :> Deploy("k1", "r1", 1, "b", "x", "none") @@ "d2" :> Deploy("k2", "r2", 2, "b", "x", "s1")
  @@ "newer" :> Deploy("k1", "r1", 2, "b", "x", "none") @@ "later set" :> Deploy("k1", "r1", 1, "b", "x", "s2")
  @@ "kernel" :> Deploy("kx", "r1", 1, "b", "x", "none") @@ "board" :> Deploy("k1", "r1", 1, "other", "x", "none")
  @@ "arch" :> Deploy("k1", "r1", 1, "b", "y", "none") @@ "half" :> Deploy("k1", "r3", 1, "b", "x", "s1")
  @@ "shadow" :> Deploy("k1", "r4", 1, "b", "x", "s1") @@ "level" :> Deploy("k1", "r5", 1, "b", "x", "none") @@ "same objects" :> Deploy("k2", "r2", 1, "b", "x", "s1")
\* The components of the third set need one that it lacks.
MCCoreSet == [s \in {"s1", "s2", "s3"} |->
                [components |-> IF s = "s3" THEN {"c2"} ELSE {"c1", "c2"}, arch |-> "x"]]
MCFirmware == "f1" :> [board |-> "b", artifact |-> "l1"] @@ "f2" :> [board |-> "b", artifact |-> "l2"]
              @@ "f3" :> [board |-> "other", artifact |-> "l1"]
FactoryInput(storage, first) ==
  [storage |-> storage, first |-> first, second |-> "d2", board |-> "b", seed |-> "s1", firmware |-> "f1", loader |-> "l1",
   kernels |-> [k \in {"k1", "k2", "kx"} |-> k], broken |-> {}]
OtherInputs(storage) ==
  LET g == FactoryInput(storage, "d1") IN
  {[g EXCEPT !.firmware = "f2", !.loader = "l2"], [g EXCEPT !.firmware = "f3"], [g EXCEPT !.loader = "l2"],
   [g EXCEPT !.kernels["k1"] = "k2"], [g EXCEPT !.broken = {<<"root", "r2">>}], [g EXCEPT !.seed = "s2"], [g EXCEPT !.seed = "s3"]}
MCInputs == {FactoryInput(storage, d) : storage \in {"esp", "disk", "flash"}, d \in DOMAIN MCDescriptor}
            \cup UNION {OtherInputs(storage) : storage \in {"esp", "beside", "flash"}}
MCFeatures == [r1 |-> {"f1"}, r2 |-> {"f1", "f2"}, r3 |-> {"f2"}, r4 |-> {"f1"}, r5 |-> {"f1"}]
MCServes == [c1 |-> {"f1"}, c2 |-> {"f2"}]
MCDependsOn == [c1 |-> {}, c2 |-> {"c1"}]
MCRunsOn == {"r1", "r2", "r3", "r4"} \X {"c1", "c2"} \cup {<<"r5", "c2">>}
MCShadows == {<<"r4", "c1">>}

=============================================================================
