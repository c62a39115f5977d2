------------------------------ MODULE BootRecords ------------------------------
(***************************************************************************)
(* The boot records of a uboot-fit board: what common/uboot/mica-records.h *)
(* accepts, which entry it boots next and which of the two redundant       *)
(* copies it believes.  src/image/fit-environment.ts encodes the same      *)
(* records for a factory image under the same rules.                       *)
(*                                                                         *)
(* A deployment id stands for the pair of 64-digit hex names (deployment   *)
(* and kernel) of an entry: no step of a loader tells the two apart.  The  *)
(* text of a copy is abstracted to the list it decodes to; RecordText      *)
(* models the text itself.                                                 *)
(***************************************************************************)
EXTENDS Integers

CONSTANTS
  Deployments,      \* the deployment ids
  MaxTries,         \* trials of a new entry (3 in the code)
  GenerationLimit,  \* MICA_BOOT_GENERATION_LIMIT (2^53 - 1 in the code)
  FlagLimit         \* the largest value of the 8-bit flag byte (255)

ASSUME RecordsAssumption ==
  /\ Deployments # {}
  /\ MaxTries \in Nat \ {0}
  /\ GenerationLimit \in Nat \ {0}
  /\ FlagLimit \in Nat
  /\ FlagLimit >= 2

MICA_BOOT_RECORD_LIMIT == 2

\* The tries of an entry the system has confirmed: '-' in the text.
Confirmed == -1

Flags == 0 .. FlagLimit

mica_boot_record ==
  [id : Deployments, generation : 1 .. GenerationLimit, tries : Confirmed .. MaxTries]

Lists == UNION {[1 .. n -> mica_boot_record] : n \in 1 .. MICA_BOOT_RECORD_LIMIT}

\* The lists the text of a copy may decode to: ids differ, generations fall.
Ordered(list) ==
  \A i, j \in DOMAIN list :
    i < j => list[i].id # list[j].id /\ list[i].generation > list[j].generation

Records == {list \in Lists : Ordered(list)}

\* mica_boot_parse succeeds; mica_boot_render accepts exactly what parses.
mica_boot_parse(list) == list \in Records
mica_boot_render(list) == mica_boot_parse(list)

\* Entry i is the first one with tries left or a confirmation.
mica_boot_next(list, i) ==
  /\ i \in DOMAIN list
  /\ list[i].tries # 0
  /\ \A j \in DOMAIN list : j < i => list[j].tries = 0

\* Mutant of Exhausted: the loop ends after the first entry.
FirstExhausted(list) == list[1].tries = 0

\* mica_boot_next returns -1.
Exhausted(list) == \A i \in DOMAIN list : list[i].tries = 0

(***************************************************************************)
(* The redundant copies, 0 and 1.  A copy is sound when its CRC matches;   *)
(* the flag byte is outside the CRC.                                       *)
(***************************************************************************)
Slots == {0, 1}

Copy ==
  [sound : {TRUE}, flag : Flags, records : Records]
    \cup [sound : {FALSE}, flag : {0}, records : {<<>>}]

\* What an interrupted write leaves: bytes whose CRC does not match.
TornCopy == [sound |-> FALSE, flag |-> 0, records |-> <<>>]

\* Mutant of NextFlag: the byte is widened.
NextFlagWide(flag) == flag + 1

\* The flag of the next write: one more, in an unsigned char.
NextFlag(flag) == (flag + 1) % (FlagLimit + 1)

\* Mutant of mica_boot_slot: the larger flag wins, the wrap forgotten.
LargerFlag(validA, a, validB, b) ==
  IF ~validA THEN (IF validB THEN 1 ELSE -1)
  ELSE IF validB /\ b > a THEN 1 ELSE 0

mica_boot_slot(validA, a, validB, b) ==
  IF ~validA THEN (IF validB THEN 1 ELSE -1)
  ELSE IF ~validB THEN 0
  ELSE IF \/ a = FlagLimit /\ b = 0
          \/ b > a /\ ~(b = FlagLimit /\ a = 0)
       THEN 1 ELSE 0

\* The slot a loader that can read both copies of the medium m chooses.
Active(m) == mica_boot_slot(m[0].sound, m[0].flag, m[1].sound, m[1].flag)

=============================================================================
