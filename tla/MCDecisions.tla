---------------------------- MODULE MCDecisions ----------------------------
(***************************************************************************)
(* Decisions that share nothing, in one run: the medium a board boots      *)
(* from, the text of the boot records, the layout of a disk, the layout    *)
(* and the room of a flash, the content of a factory image, and the        *)
(* verification of a packed root.  A behaviour is about one of them.       *)
(***************************************************************************)
EXTENDS ImageVerify, RecordText, DiskLayout, FlashLayout, MCBoards

CONSTANTS
  MaxCardDamage,
  Inputs, Features, Serves, DependsOn, RunsOn, Shadows, ForeignKernels, BundleLoader, Descriptor, CoreSet, Firmware,
  MaxHarm, Bad
VARIABLES
  topic,
  sd, emmc, origin, damage, chosen,
  input, image, harm, said

Medium == INSTANCE MediumSelect WITH MaxDamage <- MaxCardDamage
Images == INSTANCE FactoryImage
ASSUME DiskAssumption == LayoutAssumption

\* Three damages leave a mark of the project on a card; a fourth may take the
\* last one.  The policy of a boot menu has a name no deployment has, and the
\* loader of the bundle is no damaged file.
CardSetting == MaxCardDamage \in 0 .. 3
FactorySetting == "loader.conf" \notin DOMAIN Descriptor /\ BundleLoader # Bad
ASSUME DecisionsAssumption == CardSetting /\ FactorySetting

\* Four products, over both init systems, both engines and both SSH servers;
\* the one that selects no engine is of a board of raw flash, without a layout.
Everything == {"micad", "ui", "ssh", "tools", "mqtt", "wifi", "bluetooth", "containers"}

MCProducts ==
  {[init |-> "systemd", engine |-> "podman", ssh |-> "dropbear", radio |-> TRUE, layout |-> TRUE, features |-> Everything],
   [init |-> "systemd", engine |-> "docker", ssh |-> "openssh", radio |-> FALSE, layout |-> TRUE, features |-> Everything],
   [init |-> "openrc", engine |-> "podman", ssh |-> "dropbear", radio |-> TRUE, layout |-> TRUE,
    features |-> Everything \ {"bluetooth"}],
   [init |-> "openrc", engine |-> "", ssh |-> "", radio |-> FALSE, layout |-> FALSE, features |-> {}]}

\* Five numerals stand for the code's ten.
MCNumerals == <<"0", "1", "2", "3", "4">>

mediumVars == <<sd, emmc, origin, damage, chosen>>
factoryVars == <<input, image, harm, said>>

\* Variables that a behaviour is not about.
NoMedium == sd = "" /\ emmc = "" /\ origin = "" /\ damage = "" /\ chosen = ""
NoText == text = "" /\ at = "" /\ out = "" /\ id = "" /\ kernel = "" /\ generation = ""
NoImage == product = "" /\ part = "" /\ root = "" /\ damaged = "" /\ result = ""
NoDisk == layout = "" /\ index = "" /\ end = "" /\ phase = "" /\ disk = ""
NoFlash == flash = "" /\ content = "" /\ row = "" /\ covered = "" /\ stage = "" /\ blocks = "" /\ data = "" /\ taken = ""
NoFactory == input = "" /\ image = "" /\ harm = "" /\ said = ""

DecisionsInit ==
  \/ topic = "medium" /\ Medium!Init /\ NoText /\ NoImage /\ NoDisk /\ NoFlash /\ NoFactory
  \/ topic = "text" /\ TextInit /\ NoMedium /\ NoImage /\ NoDisk /\ NoFlash /\ NoFactory
  \/ topic = "image" /\ Init /\ NoMedium /\ NoText /\ NoDisk /\ NoFlash /\ NoFactory
  \/ topic = "disk" /\ LayoutInit /\ NoMedium /\ NoText /\ NoImage /\ NoFlash /\ NoFactory
  \/ topic = "flash" /\ FlashInit /\ NoMedium /\ NoText /\ NoImage /\ NoDisk /\ NoFactory
  \/ topic = "factory" /\ Images!FactoryInit /\ NoMedium /\ NoText /\ NoImage /\ NoDisk /\ NoFlash

About(t) == topic = t /\ UNCHANGED topic
MediumStep == About("medium") /\ Medium!Next /\ UNCHANGED <<vars, textVars, layoutVars, flashVars, factoryVars>>
TextStep == About("text") /\ TextNext /\ UNCHANGED <<vars, mediumVars, layoutVars, flashVars, factoryVars>>
ImageStep == About("image") /\ Next /\ UNCHANGED <<textVars, mediumVars, layoutVars, flashVars, factoryVars>>
DiskStep == About("disk") /\ LayoutNext /\ UNCHANGED <<vars, textVars, mediumVars, flashVars, factoryVars>>
FlashStep == About("flash") /\ FlashNext /\ UNCHANGED <<vars, textVars, mediumVars, layoutVars, factoryVars>>
FactoryStep == About("factory") /\ Images!FactoryNext /\ UNCHANGED <<vars, textVars, mediumVars, layoutVars, flashVars>>
DecisionsNext == MediumStep \/ TextStep \/ ImageStep \/ DiskStep \/ FlashStep \/ FactoryStep

DecisionsSpec ==
  DecisionsInit /\ [][DecisionsNext]_<<topic, vars, mediumVars, textVars, layoutVars, flashVars, factoryVars>>

\* The types of all six.
AllTypeOK ==
  /\ topic = "image" => TypeOK
  /\ topic = "medium" => Medium!TypeOK
  /\ topic = "text" => TextTypeOK
  /\ topic = "disk" => phase \in Phases
  /\ topic = "flash" => stage \in Stages
  /\ topic = "factory" => said \in Images!Answers

\* A damaged card of the project is never passed over, an unrelated one always
\* is, and what is booted carries the exact layout of its profile
\* (mica-file-boot.c valid_layout, select_medium).
CardDecides == topic = "medium" => Medium!CardDecides /\ Medium!BootsExactLayout

\* What is written is read back, and nothing else is (RecordText).
TextExact == topic = "text" => ScannerExact

\* A root that passes has every place right that the register looks at, and a
\* root as it was composed passes (smoke.ts, image.ts and the registers).
VerifyExact == topic = "image" => PassIsWhole /\ ComposedPasses

\* A factory image that passes comes up (FactoryImage).
FactoryExact == topic = "factory" => Images!FactoryExact

=============================================================================
