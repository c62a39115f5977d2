--------------------------- MODULE FactoryImage ---------------------------
(***************************************************************************)
(* What a factory image carries: the assembly from two signed deployments, *)
(* a core set and a loader (src/image/file-image.ts, flash-image.ts), the  *)
(* verification of the image (src/verify/file-image.ts, flash-image.ts)    *)
(* and what a device makes of it.  An image is a function from the places  *)
(* of it to what they hold; the bytes of a thing are the thing.            *)
(***************************************************************************)
EXTENDS Naturals, FiniteSets

CONSTANTS
  Inputs,      \* what an assembly is given
  Features,    \* the features of each root
  Serves,      \* the features each core component serves
  DependsOn,   \* the components each of them needs
  RunsOn,      \* the pairs of a root and a component that runs on it
  Shadows,     \* the pairs where the component holds a file of the root
  ForeignKernels,     \* kernels built for another board or another layout
  BundleLoader, \* the loader of the board's bundle
  Descriptor,  \* the signed deployments, each with what it says
  CoreSet,     \* the signed core sets
  Firmware,    \* the signed firmware receipts
  MaxHarm,     \* how many places are harmed at most
  Bad          \* bytes that are none of these

VARIABLES
  input,   \* the storage, the deployments, the seed set, the loader and the files
  image,   \* the image, or no place at all
  harm,    \* how many places of it were harmed since
  said  \* what the assembly, then the verification says

factoryVars == <<input, image, harm, said>>

Answers == {"none", "unassembled", "assembled", "pass", "fail"}

OnFlash == input.storage = "flash"
HasEsp == input.storage = "esp"

-----------------------------------------------------------------------------
(* Places.                                                                  *)

Deployment(d) == <<"deployment", d>>
Image(o) == <<"image", o>>
Signature(o) == <<"signature", o>>
RootHash(o) == <<"hash", o>>
Boot(k) == <<"boot", k>>
SetFile(s) == <<"set", s>>
State == <<"state", "current">>
Loader == <<"loader", "loader">>
Receipt == <<"receipt", "firmware">>
Entry(d) == <<"entry", d>>
Policy == <<"entry", "loader.conf">>
Copy(x) == <<"records", x>>
Table == <<"table", "gpt">>
System == <<"filesystem", "system">>
Data == <<"filesystem", "data">>

Root(d) == <<"root", Descriptor[d].root>>
KernelOf(d) == Descriptor[d].kernel
Support(d) == <<"support", KernelOf(d)>>
Core(c) == <<"core", c>>
ObjectsOf(ds, s) == {Root(d) : d \in ds} \cup {Support(d) : d \in ds} \cup {Core(c) : c \in CoreSet[s].components}

\* The boot records of a pair, newest first, and an entry: three tries each.
Records(ds) == {[id |-> d, kernel |-> KernelOf(d), generation |-> Descriptor[d].generation, tries |-> 3] : d \in ds}
EntryText(d) == [generation |-> Descriptor[d].generation, kernel |-> KernelOf(d), tries |-> 3]

-----------------------------------------------------------------------------
(* The assembly.                                                            *)

Deployments == {input.first, input.second}
Generations(ds) == Cardinality({Descriptor[d].generation : d \in ds})

\* The kernel a boot object says it is, in the initrd it carries (bootPolicy).
BootIdentity(k) == input.kernels[k]

\* The kernel of each deployment is the one its directory holds, built for
\* this board and this layout (verifyDeployment, checkKernelLayout,
\* checkFlashKernel).
KernelsBound == \A d \in Deployments : BootIdentity(KernelOf(d)) = KernelOf(d) /\ KernelOf(d) \notin ForeignKernels

\* A signed set is read only if it carries a component, and what each of its
\* components needs (parseCoreSet).
SetParses(s) ==
  /\ s \in DOMAIN CoreSet /\ CoreSet[s].components # {}
  /\ \A c \in CoreSet[s].components : DependsOn[c] \subseteq CoreSet[s].components

\* A signed receipt of this board (parseFirmware).
ReceiptParses(f) == f \in DOMAIN Firmware /\ Firmware[f].board = input.board

InputsAgree ==
  /\ Deployments \subseteq DOMAIN Descriptor /\ SetParses(input.seed)
  /\ Cardinality(Deployments) = 2 /\ Generations(Deployments) = 2
  /\ \A d \in Deployments : /\ Descriptor[d].board = input.board
                           /\ Descriptor[d].arch = CoreSet[input.seed].arch
  /\ KernelsBound
  /\ ReceiptParses(input.firmware)
  /\ input.loader = Firmware[input.firmware].artifact
  /\ input.broken \cap (ObjectsOf(Deployments, input.seed) \cup {Boot(KernelOf(d)) : d \in Deployments}) = {}

PlacesOf(ds, s) ==
  LET objects == ObjectsOf(ds, s) IN
  {Deployment(d) : d \in ds} \cup {Boot(KernelOf(d)) : d \in ds} \cup {SetFile(s), State, Loader, System, Data}
    \cup {Image(o) : o \in objects} \cup {Signature(o) : o \in objects} \cup {RootHash(o) : o \in objects}
    \cup (IF OnFlash THEN {} ELSE {Table, Receipt})
    \cup (IF HasEsp THEN {Entry(d) : d \in ds} \cup {Policy} ELSE {Copy("a"), Copy("b")})

\* What the assembly writes at each place.
Written(place) ==
  CASE place = State -> input.seed
    [] place = Loader -> input.loader
    [] place = Receipt -> input.firmware
    [] place = Policy -> "timeout0"
    [] place[1] = "entry" /\ place # Policy -> EntryText(place[2])
    [] place[1] = "records" -> Records(Deployments)
    [] place[1] = "table" \/ place[1] = "filesystem" -> "clean"
    [] OTHER -> place[2]

Assemble ==
  /\ said = "none"
  /\ IF InputsAgree
     THEN /\ image' = [place \in PlacesOf(Deployments, input.seed) |-> Written(place)]
          /\ said' = "assembled"
     ELSE said' = "unassembled" /\ UNCHANGED image
  /\ UNCHANGED <<input, harm>>

-----------------------------------------------------------------------------
(* Harm: a place lost or spoilt, or something signed put where it is not.   *)

Strays ==
  {Deployment(d) : d \in DOMAIN Descriptor} \cup {SetFile(x) : x \in DOMAIN CoreSet}
    \cup {Entry(Bad), Image(Core(Bad)), Image(<<"root", Bad>>), <<"cores", Bad>>}

Signed(kind) ==
  CASE kind = "deployment" -> DOMAIN Descriptor
    [] kind \in {"set", "state"} -> DOMAIN CoreSet
    [] kind = "receipt" -> DOMAIN Firmware
    [] OTHER -> {}

Harm ==
  /\ said = "assembled" /\ harm < MaxHarm
  /\ \/ \E place \in DOMAIN image : image' = [p \in DOMAIN image \ {place} |-> image[p]]
     \/ \E place \in DOMAIN image : \E x \in {Bad} \cup Signed(place[1]) : image[place] # x /\ image' = [image EXCEPT ![place] = x]
     \/ \E place \in Strays \ DOMAIN image :
          image' = [p \in DOMAIN image \cup {place} |-> IF p = place THEN place[2] ELSE image[p]]
  /\ harm' = harm + 1 /\ UNCHANGED <<input, said>>

-----------------------------------------------------------------------------
(* The verification.                                                        *)

Is(place, x) == place \in DOMAIN image /\ image[place] = x
Kind(kind) == {place \in DOMAIN image : place[1] = kind}
Held(kind) == {image[place] : place \in Kind(kind)}

\* A file of /deployments is named by the identity of what it holds.
NamedRight(kind) == \A place \in Kind(kind) : image[place] \in Signed(kind) /\ image[place] = place[2]

\* authenticateFactoryRecords.
FactoryRecords ==
  /\ Cardinality(Kind("deployment")) = 2 /\ NamedRight("deployment")
  /\ Generations(Held("deployment")) = 2
  /\ \A d \in Held("deployment") : Descriptor[d].board = input.board

\* A mutant: a root hash is not looked at.
WholeUnhashed(o) == Is(Image(o), o) /\ Is(Signature(o), o)

\* The image, its detached signature, its root hash and the verity tree.
Whole(o) == Is(Image(o), o) /\ Is(Signature(o), o) /\ Is(RootHash(o), o)

\* Exactly one signed set, the current one, with exactly its components.
Stored == {place[2] : place \in {p \in Kind("image") \cup Kind("hash") \cup Kind("signature") : p[2][1] = "core"}}
\* A mutant: any set may be the current one.
CurrentNamed(s) == State \in DOMAIN image
CurrentSet(s) == Is(State, s)
FactorySet(s) ==
  /\ Kind("set") = {SetFile(s)} /\ NamedRight("set") /\ SetParses(s) /\ Kind("cores") = {}
  /\ CurrentSet(s)
  /\ Stored = {Core(c) : c \in CoreSet[s].components}
  /\ \A c \in CoreSet[s].components : Whole(Core(c))

\* composeFactoryRoots: the components a root selects run on it, with what they
\* need, and shadow no file of it (selectComponents, checkComposition).
Selected(root, s) == {c \in CoreSet[s].components : Serves[c] \cap Features[root] # {}}
Composes(root, s) ==
  \A c \in Selected(root, s) :
    <<root, c>> \in RunsOn /\ DependsOn[c] \subseteq Selected(root, s) /\ <<root, c>> \notin Shadows

SetNamed(d, s) == Descriptor[d].set \in {"none", s}
DeploymentWhole(d, s) ==
  /\ Descriptor[d].arch = CoreSet[s].arch /\ SetNamed(d, s)
  /\ Whole(Root(d)) /\ Whole(Support(d))
  /\ Is(Boot(KernelOf(d)), KernelOf(d)) /\ KernelOf(d) \notin ForeignKernels
  /\ Composes(Descriptor[d].root, s)

\* The boot selection names both deployments with three attempts each, and no other.
Selection(ds) ==
  IF HasEsp
  THEN /\ Kind("entry") \ {Policy} = {Entry(d) : d \in ds} /\ Is(Policy, "timeout0")
       /\ \A d \in ds : Is(Entry(d), EntryText(d))
  ELSE Kind("entry") = {} /\ \A x \in {"a", "b"} : Is(Copy(x), Records(ds))

\* On a disk the loader is the signed receipt's, on flash the board bundle's.
LoaderRight ==
  IF OnFlash THEN Is(Loader, BundleLoader)
  ELSE \E f \in Held("receipt") : ReceiptParses(f) /\ Is(Loader, Firmware[f].artifact)

\* On flash no volume is there that nothing names; on a disk a stray root is not seen.
NothingElse(ds) == OnFlash => \A place \in Kind("image") : place[2][1] = "root" => place[2] \in {Root(d) : d \in ds}

Verified ==
  /\ OnFlash \/ Is(Table, "clean")
  /\ Is(System, "clean") /\ Is(Data, "clean")
  /\ FactoryRecords
  /\ \E s \in Held("set") : FactorySet(s) /\ \A d \in Held("deployment") : DeploymentWhole(d, s)
  /\ Selection(Held("deployment"))
  /\ LoaderRight /\ NothingElse(Held("deployment"))

Verify ==
  /\ said = "assembled"
  /\ said' = (IF Verified THEN "pass" ELSE "fail")
  /\ UNCHANGED <<input, image, harm>>

FactoryInit == input \in Inputs /\ image = << >> /\ harm = 0 /\ said = "none"
FactoryNext == Assemble \/ Harm \/ Verify
FactorySpec == FactoryInit /\ [][FactoryNext]_factoryVars

-----------------------------------------------------------------------------

\* A device mounts an object of which all three files are there.
Mounts(o) == \A place \in {Image(o), Signature(o), RootHash(o)} : Is(place, o)

\* The deployments the loader of the device finds to try.
Tried ==
  IF HasEsp THEN {place[2] : place \in Kind("entry") \ {Policy}}
  ELSE {r.id : r \in image[Copy("a")]}

\* What a device needs to bring a deployment up: its file, its kernel, its
\* support and root with their hashes, and of the current set, which is the one
\* the deployment was made for, the components its root selects.
ComesUp(d) ==
  /\ d \in DOMAIN Descriptor /\ Is(Deployment(d), d) /\ Is(Boot(KernelOf(d)), KernelOf(d))
  /\ Mounts(Root(d)) /\ Mounts(Support(d))
  /\ \E s \in DOMAIN CoreSet :
       /\ Is(State, s) /\ Is(SetFile(s), s) /\ Descriptor[d].set \in {"none", s}
       /\ \A c \in Selected(Descriptor[d].root, s) : Mounts(Core(c)) /\ <<Descriptor[d].root, c>> \notin Shadows

\* What an undamaged image may be refused for: only the verifier looks at the
\* set a deployment names, at what its root selects, and on flash at the bundle.
Unchecked ==
  \/ \E d \in Deployments : ~SetNamed(d, input.seed) \/ ~Composes(Descriptor[d].root, input.seed)
  \/ OnFlash /\ input.loader # BundleLoader

\* An image that passes comes up on a device whichever of its two deployments is
\* tried, and an image as it was assembled passes but for what the assembly does
\* not look at (verify/file-image.ts verifyFactoryImage, verify/flash-image.ts
\* verifyFlashImage against assembleFileImage and assembleFlashImage).
FactoryExact ==
  /\ said = "pass" =>
       /\ Cardinality(Tried) = 2 /\ Generations(Tried) = 2
       /\ \A d \in Tried : ComesUp(d)
       /\ \E f \in DOMAIN Firmware : Is(Loader, Firmware[f].artifact)
  /\ said = "fail" /\ harm = 0 => Unchecked

=============================================================================
