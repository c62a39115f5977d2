--------------------------- MODULE ProductBuild ---------------------------
(***************************************************************************)
(* One worktree in which products of a board are built, over and over:     *)
(* make <board>-kernel, board-pool and product (src/product/build.ts),     *)
(* with what they keep under _out/ between two commands -- the local       *)
(* kernel and its record, the assembled board bundle, the package pool and *)
(* its index, and the outputs of each product with their receipt.  Between *)
(* the commands and during them the tree is edited, committed and checked  *)
(* out, and every command may fail or be killed at every step, also where  *)
(* it is half done with what it replaces.                                  *)
(***************************************************************************)
EXTENDS Naturals

CONSTANTS
  Products,      \* the products of one board
  Commits,       \* the commits of the tree
  Kernel,        \* the kernel inputs of each commit
  Config(_),     \* the configuration a kernel of given inputs carries
  Lock,          \* the imported archive each commit locks
  OwnVersion,    \* the version each commit declares of the board package
  MaxDisturbed,  \* bound: how often a command is killed half done, or the tree moved under it
  None           \* no such file

ASSUME CommitsAssumption ==
  /\ DOMAIN Kernel = Commits /\ DOMAIN Lock = Commits /\ DOMAIN OwnVersion = Commits
ASSUME MaxDisturbedAssumption == MaxDisturbed \in Nat

VARIABLES
  tree,     \* the checkout: its commit, and whether files of it are edited
  kernel,   \* _out/<board>/kernel, as the inputs it was built from
  record,   \* _out/<board>/kernel.inputs
  bundle,   \* _out/boards/<board>: the inputs of the kernel in it
  imported, \* the imported archive in the pool
  own,      \* the version of the board package's archive in the pool
  index,    \* the pool's SHA256SUMS and manifest
  build,    \* build/ of each product: the composed root
  packages, \* build/rootfs-packages.txt
  parts,    \* root/, kernel/ and deployments/ of each product
  image,    \* its image and update archives
  receipt,  \* its receipt.txt
  command,  \* the command under way, and of which product
  step,     \* the step it is at
  want,     \* the receipt the product's build computed
  reading,  \* what the command read and goes on to use
  ended,    \* how the last product command ended
  moved,    \* history: the tree was changed while this command ran
  cut,      \* history: what a command left behind half done, "kernel" or a product
  disturbed \* how often a command was killed half done, or the tree moved under it

vars == <<tree, kernel, record, bundle, imported, own, index, build, packages,
          parts, image, receipt, command, step, want, reading, ended, moved, cut, disturbed>>
history == <<moved, cut, disturbed>>
board == <<kernel, record, bundle>>
pool == <<imported, own, index>>
outputs == <<build, packages, parts, image, receipt>>

Trees == [commit : Commits, dirty : BOOLEAN]

\* src/boards/inputs.ts hash: of the tracked files as they are in the checkout.
Inputs(t) == IF t.dirty THEN <<"edited", t.commit>> ELSE <<"clean", Kernel[t.commit]>>

AllInputs == {Inputs(t) : t \in Trees}
Locked == {Lock[c] : c \in Commits}
Versions == {OwnVersion[c] : c \in Commits}
Archives == [imported : Locked \cup {None}, own : Versions \cup {None}]
Roots == [commit : Commits, archives : Archives]
Images == [root : Roots \cup {None}, kernel : AllInputs \cup {None}]
Receipts == [tree : Trees, config : {Config(i) : i \in AllInputs}]
Steps == {"idle", "start", "export", "record", "remove", "fetch", "index", "board", "check",
          "compose", "list", "smoke", "clear", "clear image", "clear receipt", "parts", "image", "receipt"}

FilesOK ==
  /\ kernel \in AllInputs \cup {None} /\ record \in AllInputs \cup {None}
  /\ bundle \in AllInputs \cup {None}
  /\ imported \in Locked \cup {None} /\ own \in Versions \cup {None}
  /\ index \in Archives \cup {None}

OutputsOK ==
  /\ build \in [Products -> Roots \cup {None}]
  /\ packages \in [Products -> Archives \cup {None}]
  /\ parts \in [Products -> Images \cup {None}]
  /\ image \in [Products -> Images \cup {None}]
  /\ receipt \in [Products -> Receipts \cup {None}]

CommandOK ==
  /\ tree \in Trees
  /\ command \in {None, "kernel", "board-pool"} \cup Products
  /\ step \in Steps
  /\ want \in Receipts \cup {None}
  /\ command = "kernel" => reading \in AllInputs
  /\ command = "board-pool" => reading \in Versions
  /\ command \in Products \cup {None} => reading \in Archives \cup {None}
  /\ ended \in {None} \cup [product : Products, how : {"built", "up to date"}]

HistoryOK ==
  moved \in BOOLEAN /\ cut \subseteq {"kernel"} \cup Products /\ disturbed \in 0 .. MaxDisturbed

TypeOK == FilesOK /\ OutputsOK /\ CommandOK /\ HistoryOK

Nothing == [p \in Products |-> None]

Init ==
  /\ tree \in [commit : Commits, dirty : {FALSE}]
  /\ kernel = None /\ record = None /\ bundle = None
  /\ imported = None /\ own = None /\ index = None
  /\ build = Nothing /\ packages = Nothing /\ parts = Nothing
  /\ image = Nothing /\ receipt = Nothing
  /\ command = None /\ step = "idle" /\ want = None /\ reading = None /\ ended = None
  /\ moved = FALSE /\ cut = {} /\ disturbed = 0

-----------------------------------------------------------------------------
(* The operator.                                                            *)

Begin(name, first) ==
  /\ command = None
  /\ command' = name /\ step' = first
  /\ ended' = None

Finish ==
  /\ command' = None /\ step' = "idle" /\ want' = None /\ reading' = None
  /\ moved' = FALSE

Edit ==
  /\ tree' \in Trees \ {tree}
  /\ moved' = (command # None)
  /\ disturbed' = disturbed + (IF command = None THEN 0 ELSE 1) /\ disturbed' <= MaxDisturbed
  /\ ended' = None
  /\ UNCHANGED <<board, pool, outputs, command, step, want, reading, cut>>

\* What is half done at a step: the kernel without its record, and the outputs
\* of a product some of which are gone.
HalfDone ==
  CASE step = "record" -> {"kernel"}
    [] command \in Products /\ step \in {"clear image", "clear receipt"} -> {command}
    [] OTHER -> {}

\* The image directory without its image, but with the SHA256SUMS that names it.
NamedOnly == [root |-> None, kernel |-> None]

\* A command fails or is killed: what it did so far stays, and of a directory
\* that it removes, some of the files.
Stop ==
  /\ command # None
  /\ cut' = cut \cup HalfDone
  /\ disturbed' = disturbed + (IF HalfDone = {} THEN 0 ELSE 1) /\ disturbed' <= MaxDisturbed
  /\ \/ UNCHANGED image
     \/ step = "clear image" /\ image[command] # None /\ image' = [image EXCEPT ![command] = NamedOnly]
  /\ Finish
  /\ UNCHANGED <<tree, board, pool, build, packages, parts, receipt, ended>>

-----------------------------------------------------------------------------
(* make <board>-kernel: the build exports over what is there, then the      *)
(* record is written, of the tree as it is by then.                         *)

StartKernel ==
  /\ Begin("kernel", "export")
  /\ reading' = Inputs(tree)
  /\ UNCHANGED <<tree, board, pool, outputs, want, history>>

ExportKernel ==
  /\ command = "kernel" /\ step = "export"
  /\ kernel' = reading
  /\ step' = "record"
  /\ UNCHANGED <<tree, record, bundle, pool, outputs, command, want, reading, ended, history>>

RecordKernel ==
  /\ command = "kernel" /\ step = "record"
  /\ record' = Inputs(tree)
  /\ cut' = IF moved THEN cut \cup {"kernel"} ELSE cut \ {"kernel"}
  /\ Finish
  /\ UNCHANGED <<tree, kernel, bundle, pool, outputs, ended, disturbed>>

(* make board-pool: this producer's previous archive goes first.            *)

StartPack ==
  /\ Begin("board-pool", "remove")
  /\ reading' = OwnVersion[tree.commit]
  /\ UNCHANGED <<tree, board, pool, outputs, want, history>>

RemoveOwn ==
  /\ command = "board-pool" /\ step = "remove"
  /\ own' = None
  /\ step' = "export"
  /\ UNCHANGED <<tree, board, imported, index, outputs, command, want, reading, ended, history>>

ExportOwn ==
  /\ command = "board-pool" /\ step = "export"
  /\ own' = reading
  /\ Finish
  /\ UNCHANGED <<tree, board, imported, index, outputs, ended, cut, disturbed>>

-----------------------------------------------------------------------------
(* make product.                                                            *)

\* Mutant of StaleLocalBuild: a local kernel counts whatever its record says.
StaleNever == FALSE

\* staleLocalBuild: a local kernel counts only with the record of these inputs.
StaleLocalBuild == record # Inputs(tree)

\* reuse: the component of the newest release, when its inputs are these.
Reused == Inputs(tree)

\* board-pool --fetch: the local build, else the reused component, staged aside
\* and moved into place; or a refusal.
Assemble ==
  IF kernel # None
    THEN ~StaleLocalBuild /\ bundle' = kernel
    ELSE bundle' = Reused

\* The reuse key, of what is on disk when the build starts.
Receipt == [tree |-> tree, config |-> Config(bundle)]

UpToDate(p) == receipt[p] = Receipt /\ image[p] # None

BoardFetch ==
  /\ command = None
  /\ Assemble
  /\ ended' = None
  /\ UNCHANGED <<tree, kernel, record, pool, outputs, command, step, want, reading, history>>

\* Mutant of StartBuild: the reuse key is computed before the board is assembled.
StartBuildUnassembled(p) ==
  /\ Begin(p, "fetch")
  /\ ~UpToDate(p)
  /\ want' = Receipt
  /\ UNCHANGED <<tree, board, pool, outputs, reading, history>>

\* The first assembly of a fresh clone, before the product is read.
FirstFetch(p) ==
  /\ Begin(p, "start")
  /\ bundle = None
  /\ Assemble
  /\ UNCHANGED <<tree, kernel, record, pool, outputs, want, reading, history>>

StartBuild(p) ==
  /\ \/ Begin(p, "fetch")
     \/ command = p /\ step = "start" /\ step' = "fetch" /\ UNCHANGED <<command, ended>>
  /\ bundle # None
  /\ ~UpToDate(p)
  /\ want' = Receipt
  /\ UNCHANGED <<tree, board, pool, outputs, reading, history>>

Reuse(p) ==
  /\ command = None
  /\ bundle # None
  /\ UpToDate(p)
  /\ ended' = [product |-> p, how |-> "up to date"]
  /\ UNCHANGED <<tree, board, pool, outputs, command, step, want, reading, history>>

At(p, s) == command = p /\ step = s

\* pool fetch: the locked archive in place of any other of that package.
FetchPool(p) ==
  /\ At(p, "fetch")
  /\ imported' = Lock[tree.commit]
  /\ step' = "index"
  /\ UNCHANGED <<tree, board, own, index, outputs, command, want, reading, ended, history>>

\* rows, ownRows: the archive the locks name, and this tree's own at the version
\* it declares.
LockedRow == imported = Lock[tree.commit]
OwnRow == own \in {None, OwnVersion[tree.commit]}

\* The index refuses an archive that is no row by its name; the digests are left
\* to the composition.
IndexPool(p) ==
  /\ At(p, "index")
  /\ OwnRow
  /\ index' = [imported |-> imported, own |-> own]
  /\ step' = "board"
  /\ UNCHANGED <<tree, board, imported, own, outputs, command, want, reading, ended, history>>

FetchBoard(p) ==
  /\ At(p, "board")
  /\ Assemble
  /\ step' = "check"
  /\ UNCHANGED <<tree, kernel, record, pool, outputs, command, want, reading, ended, history>>

\* poolIdentity: every archive is its row.
PoolIsRows == LockedRow /\ OwnRow

\* Mutant of CheckPool: the record of the earlier root stays until the new one is written.
CheckPoolKeepsRecord(p) ==
  /\ At(p, "check")
  /\ index = [imported |-> imported, own |-> own]
  /\ PoolIsRows
  /\ own # None
  /\ ~tree.dirty
  /\ reading' = index
  /\ step' = "compose"
  /\ UNCHANGED <<tree, board, pool, build, packages, parts, image, receipt, command, want, ended, history>>

\* compose: the index is of the archives beside it, each a row, the checkout is
\* its commit and no package is missing; then the record of an earlier root goes.
CheckPool(p) ==
  /\ At(p, "check")
  /\ index = [imported |-> imported, own |-> own]
  /\ PoolIsRows
  /\ own # None
  /\ ~tree.dirty
  /\ packages' = [packages EXCEPT ![p] = None]
  /\ reading' = index
  /\ step' = "compose"
  /\ UNCHANGED <<tree, board, pool, build, parts, image, receipt, command, want, ended, history>>

\* The pool is indexed once more, and the chain writes the root.
ComposeRoot(p) ==
  /\ At(p, "compose")
  /\ OwnRow
  /\ index' = [imported |-> imported, own |-> own]
  /\ build' = [build EXCEPT ![p] = [commit |-> tree.commit, archives |-> index']]
  /\ step' = "list"
  /\ UNCHANGED <<tree, board, imported, own, packages, parts, image, receipt, command, want, reading, ended, history>>

\* Only now the record, out of the rows that were read before.
ListPackages(p) ==
  /\ At(p, "list")
  /\ packages' = [packages EXCEPT ![p] = reading]
  /\ step' = "smoke"
  /\ UNCHANGED <<tree, board, pool, build, parts, image, receipt, command, want, reading, ended, history>>

\* The checks of the root and the smoke run (RootBuild) end well; else Stop.
SmokeRoot(p) ==
  /\ At(p, "smoke")
  /\ step' = "clear"
  /\ UNCHANGED <<tree, board, pool, outputs, command, want, reading, ended, history>>

\* Mutant of ClearParts: the clearing takes the directories and leaves the files.
ClearPartsOnly(p) ==
  /\ At(p, "clear")
  /\ parts' = [parts EXCEPT ![p] = None]
  /\ step' = "parts"
  /\ UNCHANGED <<tree, board, pool, build, packages, image, receipt, command, want, reading, ended, history>>

\* clear: the outputs one directory after another, the receipt among the last.
ClearParts(p) ==
  /\ At(p, "clear")
  /\ parts' = [parts EXCEPT ![p] = None]
  /\ step' = "clear image"
  /\ UNCHANGED <<tree, board, pool, build, packages, image, receipt, command, want, reading, ended, history>>

ClearImage(p) ==
  /\ At(p, "clear image")
  /\ image' = [image EXCEPT ![p] = None]
  /\ step' = "clear receipt"
  /\ UNCHANGED <<tree, board, pool, build, packages, parts, receipt, command, want, reading, ended, history>>

ClearReceipt(p) ==
  /\ At(p, "clear receipt")
  /\ receipt' = [receipt EXCEPT ![p] = None]
  /\ cut' = cut \ {p}
  /\ step' = "parts"
  /\ UNCHANGED <<tree, board, pool, build, packages, parts, image, command, want, reading, ended, moved, disturbed>>

\* The components, signed: the composed root and the bundle's kernel.
MakeParts(p) ==
  /\ At(p, "parts")
  /\ parts' = [parts EXCEPT ![p] = [root |-> build[p], kernel |-> bundle]]
  /\ step' = "image"
  /\ UNCHANGED <<tree, board, pool, build, packages, image, receipt, command, want, reading, ended, history>>

MakeImage(p) ==
  /\ At(p, "image")
  /\ image' = [image EXCEPT ![p] = parts[p]]
  /\ step' = "receipt"
  /\ UNCHANGED <<tree, board, pool, build, packages, parts, receipt, command, want, reading, ended, history>>

WriteReceipt(p) ==
  /\ At(p, "receipt")
  /\ receipt' = [receipt EXCEPT ![p] = want]
  /\ cut' = IF moved \/ "kernel" \in cut THEN cut \cup {p} ELSE cut
  /\ ended' = [product |-> p, how |-> "built"]
  /\ Finish
  /\ UNCHANGED <<tree, board, pool, build, packages, parts, image, disturbed>>

Product(p) ==
  \/ FirstFetch(p) \/ StartBuild(p) \/ Reuse(p) \/ FetchPool(p) \/ IndexPool(p) \/ FetchBoard(p)
  \/ CheckPool(p) \/ ComposeRoot(p) \/ ListPackages(p) \/ SmokeRoot(p)
  \/ ClearParts(p) \/ ClearImage(p) \/ ClearReceipt(p)
  \/ MakeParts(p) \/ MakeImage(p) \/ WriteReceipt(p)

Next ==
  \/ Edit \/ Stop
  \/ StartKernel \/ ExportKernel \/ RecordKernel
  \/ StartPack \/ RemoveOwn \/ ExportOwn \/ BoardFetch
  \/ \E p \in Products : Product(p)

Spec == Init /\ [][Next]_vars

-----------------------------------------------------------------------------

\* The image of the tree: root and kernel of its commit, from what it locks and
\* declares.
Current(p) ==
  image[p] = [root |-> [commit |-> tree.commit,
                        archives |-> [imported |-> Lock[tree.commit], own |-> OwnVersion[tree.commit]]],
              kernel |-> <<"clean", Kernel[tree.commit]>>]

\* Whenever a product command ends well, by building or by finding the product
\* up to date, its image is the one of the tree as it is: nothing an earlier
\* build left -- a kernel, a bundle, an archive, an image -- took its place.
\* Excepted is a product that was half cleared, or built while the tree moved or
\* of a kernel whose record is not its own, until it is built anew.
EndsCurrent == ended # None /\ ended.product \notin cut => Current(ended.product) /\ ~tree.dirty

\* What a product command that ends well points at is whole: the image beside the
\* parts it was made of and, after a build, the composed root they came from; but
\* for a half cleared product that is then found up to date.
EndsWhole ==
  ended # None => /\ \/ parts[ended.product] = image[ended.product]
                     \/ ended.how = "up to date" /\ ended.product \in cut
                  /\ ended.how = "built" => build[ended.product] = image[ended.product].root

\* build.ts of an up-to-date product: "every input ... is unchanged and the image
\* exists; nothing to do".  So the image is there, and all that is made beside it.
UpToDateIsWhole ==
  ended # None /\ ended.how = "up to date" =>
    image[ended.product].root # None /\ parts[ended.product] = image[ended.product]

\* rootfs-packages.txt lists what the root beside it was composed of, also
\* after a composition that was killed.
RecordDescribesRoot ==
  \A p \in Products : packages[p] # None => build[p] # None /\ packages[p] = build[p].archives

=============================================================================
