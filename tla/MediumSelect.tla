----------------------------- MODULE MediumSelect -----------------------------
(***************************************************************************)
(* Which medium an s905x5m boots from: valid_layout and select_medium of   *)
(* boards/s905x5m/loader/mica-file-boot.c.  FitLoader's SelectMedium is    *)
(* this decision.  Media are damaged and cards swapped between two boots;  *)
(* what U-Boot's partition drivers answer about a damaged table is         *)
(* external.                                                               *)
(***************************************************************************)
EXTENDS Integers, FiniteSets

CONSTANT MaxDamage   \* bound: damages of a behaviour, to the card that is in and to the eMMC

VARIABLES
  sd,      \* the card in slot 0
  emmc,    \* the soldered medium, device 1
  origin,  \* what was written to the card: "mica", "unrelated", "none"
  damage,  \* damages to this card so far
  chosen   \* the answer of the last boot: "sd", "emmc", "recovery", or "off"

vars == <<sd, emmc, origin, damage, chosen>>

(***************************************************************************)
(* A medium: LBA 0 and 1, the backup table and the partitions by number.   *)
(* On a card 5 and 6 stand for the numbers 5 to 16.  A partition's `place` *)
(* says whether its start and size are those of the profile for its number.*)
(***************************************************************************)
Numbers == 1 .. 6
Main == 1 .. 3
names == <<"firmware", "system", "data">>

Partition(profile, n) ==
  [uuid |-> <<profile, n>>, place |-> TRUE, name |-> IF n = 4 THEN "reserved" ELSE names[n]]

\* The eMMC profile has one vendor partition after the three.
Last(profile) == IF profile = "emmc" THEN 4 ELSE 3

Image(profile) ==
  [present |-> TRUE, io |-> TRUE, mbr |-> "protective", primary |-> TRUE, backup |-> TRUE, guid |-> profile,
   table |-> [n \in 1 .. Last(profile) |-> Partition(profile, n)]]

Foreign(mbr, name) ==
  [present |-> TRUE, io |-> TRUE, mbr |-> mbr, primary |-> mbr = "protective", backup |-> mbr = "protective",
   guid |-> "other", table |-> [n \in 1 .. 1 |-> [uuid |-> <<"other", n>>, place |-> FALSE, name |-> name]]]

Empty == [present |-> FALSE, io |-> TRUE, mbr |-> "blank", primary |-> FALSE, backup |-> FALSE,
          guid |-> "other", table |-> <<>>]

\* U-Boot's drivers (external): the type of the table, and the partitions it
\* answers part_get_info for.
part_type(disk) ==
  IF disk.mbr = "protective" /\ (disk.primary \/ disk.backup) THEN "efi"
  ELSE IF disk.mbr = "dos" THEN "dos" ELSE "none"

Listed(disk) == IF part_type(disk) = "none" THEN {} ELSE DOMAIN disk.table

(***************************************************************************)
(* valid_layout: 1 for the exact image, 0 for an unrelated card, -1 for    *)
(* everything else.                                                        *)
(***************************************************************************)
\* A number that is looked at: all of them on the card, three on the eMMC.
Scanned(disk, profile) == {n \in Listed(disk) : profile = "sd" \/ n \in Main}

\* An identity that only a Mica image carries: its disk GUID or the UUID of a
\* partition; the first three numbers are held to the profile's own UUIDs.
recognized(disk, profile) ==
  \/ profile = "sd" /\ disk.primary /\ disk.guid = "sd"
  \/ \E n \in Scanned(disk, profile) :
       \E owner \in (IF n \in Main THEN {profile} ELSE {"sd", "emmc"}) :
         disk.table[n].uuid \in {<<owner, m>> : m \in Main}

\* Mutant of named: the name of the third partition counts as well.
namedAny(disk, profile) == \E n \in Scanned(disk, profile) : disk.table[n].name \in {names[j] : j \in Main}

named(disk, profile) == \E n \in Scanned(disk, profile) : disk.table[n].name \in {"firmware", "system"}

\* Mutant of Exact: a partition is taken by its UUID alone.
Identified(disk, profile, n) == n \in Listed(disk) /\ disk.table[n].uuid = <<profile, n>>

Exact(disk, profile, n) == n \in Listed(disk) /\ disk.table[n] = Partition(profile, n)

\* Mutant of valid_layout: the number after the last one is not looked at.
UpToTheLast(disk, profile) ==
  IF \/ ~disk.io
     \/ profile = "emmc" /\ ~(disk.primary /\ disk.guid = "emmc")
     \/ Listed(disk) \cap Main = {} /\ (part_type(disk) = "efi" \/ disk.primary \/ disk.mbr = "protective")
  THEN -1
  ELSE IF ~recognized(disk, profile) /\ ~named(disk, profile) THEN 0
  ELSE IF part_type(disk) = "efi" /\ \A n \in 1 .. Last(profile) : Exact(disk, profile, n) THEN 1 ELSE -1

\* Mutant of valid_layout: only the first three numbers say what a card is.
FirstThreeOnly(disk, profile) ==
  LET marks == {n \in Listed(disk) \cap Main : disk.table[n].uuid[1] = profile}
  IN  IF ~disk.io \/ (profile = "emmc" /\ ~(disk.primary /\ disk.guid = "emmc")) THEN -1
      ELSE IF marks = {} THEN 0
      ELSE IF (\A n \in 1 .. Last(profile) : Exact(disk, profile, n)) THEN 1 ELSE -1

valid_layout(disk, profile) ==
  IF \/ ~disk.io
     \/ profile = "emmc" /\ ~(disk.primary /\ disk.guid = "emmc")
     \/ Listed(disk) \cap Main = {} /\ (part_type(disk) = "efi" \/ disk.primary \/ disk.mbr = "protective")
  THEN -1
  ELSE IF ~recognized(disk, profile) /\ ~named(disk, profile) THEN 0
  ELSE IF /\ part_type(disk) = "efi"
          /\ \A n \in 1 .. Last(profile) : Exact(disk, profile, n)
          /\ Last(profile) + 1 \notin Listed(disk)
  THEN 1 ELSE -1

\* Mutant of select_medium: without a medium the boot goes on.
select_any ==
  LET card == IF sd.present THEN valid_layout(sd, "sd") ELSE 0
  IN  IF card = 1 THEN "sd"
      ELSE IF card = 0 /\ valid_layout(emmc, "emmc") = 1 THEN "emmc" ELSE "none"

\* SD first; only an unrelated card, or none, leads to the eMMC.
select_medium ==
  LET card == IF sd.present THEN valid_layout(sd, "sd") ELSE 0
  IN  IF card = 1 THEN "sd"
      ELSE IF card = 0 /\ valid_layout(emmc, "emmc") = 1 THEN "emmc" ELSE "recovery"

(***************************************************************************)
(* Cards and boots.                                                        *)
(***************************************************************************)
Unrelated == {Foreign("dos", "other"), Foreign("protective", "other"), Foreign("dos", "data")}

Soldered == {Image("emmc"), Foreign("protective", "other")}

Insert ==
  \/ origin' = "mica" /\ sd' = Image("sd")
  \/ origin' = "unrelated" /\ sd' \in Unrelated
  \/ origin' = "none" /\ sd' = Empty

Init ==
  /\ origin \in {"mica", "unrelated", "none"}
  /\ sd \in CASE origin = "mica"      -> {Image("sd")}
              [] origin = "unrelated" -> Unrelated
              [] OTHER                -> {Empty}
  /\ emmc \in Soldered
  /\ damage = 0
  /\ chosen = "off"

Boot ==
  /\ chosen = "off"
  /\ chosen' = select_medium
  /\ UNCHANGED <<sd, emmc, origin, damage>>

PowerOff ==
  /\ chosen # "off"
  /\ chosen' = "off"
  /\ UNCHANGED <<sd, emmc, origin, damage>>

\* Another card is put in, the card is taken out (external).
Swap == chosen = "off" /\ damage' = 0 /\ Insert /\ UNCHANGED <<emmc, chosen>>

Without(table, n) == [m \in DOMAIN table \ {n} |-> table[m]]
With(table, k, partition) == [m \in DOMAIN table \cup {k} |-> IF m = k THEN partition ELSE table[m]]

\* A partition is dropped, edited, moved to another number, added, or entered twice.
DamagedTables(table) ==
  {Without(table, n) : n \in DOMAIN table}
    \cup {[table EXCEPT ![n].uuid = <<"other", n>>] : n \in DOMAIN table}
    \cup {[table EXCEPT ![n].place = FALSE] : n \in DOMAIN table}
    \cup {[table EXCEPT ![n].name = "other"] : n \in DOMAIN table}
    \cup {With(Without(table, n), k, table[n]) : n \in DOMAIN table, k \in Numbers \ DOMAIN table}
    \cup {With(table, k, [uuid |-> <<"other", k>>, place |-> FALSE, name |-> "other"]) : k \in Numbers \ DOMAIN table}
    \cup {With(table, k, [table[n] EXCEPT !.place = FALSE]) : n \in DOMAIN table, k \in Numbers \ DOMAIN table}

\* One thing about a medium changes (external): its table, or a sector is lost.
Damaged(disk) ==
  {[disk EXCEPT !.table = table] : table \in DamagedTables(disk.table)}
    \cup {[disk EXCEPT !.guid = "other"], [disk EXCEPT !.mbr = "blank"], [disk EXCEPT !.primary = FALSE],
            [disk EXCEPT !.backup = FALSE], [disk EXCEPT !.io = FALSE]}

Damage ==
  /\ chosen = "off"
  /\ sd.present
  /\ damage + (IF emmc \in Soldered THEN 0 ELSE 1) < MaxDamage
  /\ damage' = damage + 1
  /\ sd' \in Damaged(sd)
  /\ UNCHANGED <<emmc, origin, chosen>>

\* The eMMC is damaged once at most.
DamageSoldered ==
  /\ chosen = "off"
  /\ emmc = Image("emmc")
  /\ damage < MaxDamage
  /\ emmc' \in Damaged(emmc)
  /\ UNCHANGED <<sd, origin, damage, chosen>>

Next == Boot \/ PowerOff \/ Swap \/ Damage \/ DamageSoldered
Spec == Init /\ [][Next]_vars

(***************************************************************************)
(* Properties.                                                             *)
(***************************************************************************)
TypeOK ==
  /\ origin \in {"mica", "unrelated", "none"}
  /\ damage \in 0 .. MaxDamage
  /\ chosen \in {"sd", "emmc", "recovery", "off"}
  /\ DOMAIN sd.table \subseteq Numbers /\ DOMAIN emmc.table \subseteq Numbers

\* What the card is decides: "a shifted or partly missing Mica GPT must not turn
\* SD into eMMC fallback", so a card that was written with a Mica image and lost
\* something since, but not both of its first two sectors, is booted or refused,
\* never passed over for an older system on the eMMC; and an unrelated card,
\* undamaged, never keeps a sound eMMC from booting.
HeadLost == sd.mbr = "blank" /\ ~sd.primary
CardDecides ==
  /\ origin = "mica" /\ ~HeadLost => chosen # "emmc"
  /\ origin = "unrelated" /\ damage = 0 /\ emmc = Image("emmc") /\ chosen # "off" => chosen = "emmc"

\* What is booted carries the exact layout the copies and the system are
\* addressed by, and nothing at the number after it, whatever was done to the
\* two media: a partition that was added there, or one of the profile that is
\* there a second time, is refused.  Numbers further on are not looked at.
First(table, n) == [m \in DOMAIN table \cap (1 .. n) |-> table[m]]
Carries(disk, profile) == First(disk.table, Last(profile) + 1) = Image(profile).table
BootsExactLayout ==
  /\ chosen = "sd" => Carries(sd, "sd")
  /\ chosen = "emmc" => Carries(emmc, "emmc") /\ emmc.io /\ emmc.primary /\ emmc.guid = "emmc"

=============================================================================
