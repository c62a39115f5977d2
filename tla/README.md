# Models of mica-build

mica-build builds Mica OS images for a set of boards and releases them. These
TLA+ modules follow a product from the installed packages to a running device:
what of the packages a root carries, how roots are composed and smoke-tested side
by side, how a product is built again and again in one worktree, how images and
flashes are laid out and filled and what their verification sees, how releases
are published by jobs that fail and overlap, how they reach the resource service,
and which deployment a board starts after any loss of power. TLC checks small
instances; TLAPS proves, for every value of the constants, all the invariants the runs
check but three, and both refinements: of the boot records and their text, the medium,
the loader, the releases and their posting, what a root carries and the root that is
smoke-tested, the product build, the layouts of a disk and of a flash, and the factory image.

## The system

| component | state it keeps | operations |
| --- | --- | --- |
| boot records (`common/uboot/mica-records.h`, `src/image/fit-environment.ts`) | two redundant copies of a list of at most two entries: deployment, kernel, generation, tries | parse, render, next entry, choice of the copy, factory encoding |
| loaders (`boards/*/loader/mica-*-boot.c`) | RAM only; the copies are on SD, eMMC or UBI | arm the watchdog, select the medium, read, charge a trial, persist, load, retire, restart, recovery |
| product release (`src/release/scoped.ts`, `release.yml`, `release-product.yml`) | the GitHub releases and their locks; the plan and rows of a run | plan, collect, publish, attach, res |
| board pool and components (`src/pool/`, `src/release/publish-components.ts`, `src/boards/reuse.ts`, `board-pool.ts`) | manifests under tags of the registry | version guard, publish, reuse, fetch |
| resource service client (`src/release/res.ts`, `transfer.ts`, `chunks.ts`) | nothing local; records and objects of a remote service | stage, publish, transfer indexes, record, read back |
| core release (`src/release/core.ts`, `release-core.yml`) | releases of the core set | plan, publish |
| root file system (`src/rootfs/runtime/`, `src/image/stages.ts`, `src/verify/smoke.ts`) | the installed tree, the selection; tags and images of a docker daemon, OCI layouts | select, compose, export, load, run the register |
| product build (`src/product/build.ts`, `src/pool/pool.ts`, `src/boards/`) | `_out/`: kernel and its record, bundle, pool and index, outputs and receipt | fetch, index, compose, clear, make, record, reuse |
| image assembly (`src/image/`) | files in a work directory | read layouts, place partitions, regions and records, fill deployments, core set, loader |
| image verification (`src/verify/`) | none | checks of a packed root, of a disk, of a flash |
| package pool build (`src/pool/build.ts`, `gate.ts`) | `_out/debs` | build, gate |
| board inputs and contracts (`src/boards/`) | none | input hashes, board facts, kernel configuration checks |
| locks and offline builds (`src/locks/`, `src/offline/`) | pins | resolve, local build, local release |
| board support (`boards/`, `common/`) | none here | kernels, drivers, service scripts of the devices |

How they interact. A product build takes the board's bundle and the package
pool, composes a root through the selection and the chain of stages, has it
smoke-tested on the daemon, and assembles the image, into which
`encodeFitEnvironment` writes the factory records; a loader and later the running
system rewrite them. A release is one run of `release.yml`: plan, components
(build or reuse of the kernel), the board's pool and its guard, the board
artifacts in the registry, the product, its bundles in the registry, the GitHub
release, the resource service. Runs of one product never overlap
(`concurrency: release-<product>`); runs of different products do, and they share
the board's pool, its component tags and the list of releases. A failed job may
be run again at any time.

What is hard, per component, and what makes it correct:

* Records and loaders: power can go at any instruction and again at the next
  boot; a block device tears a write and keeps accepted writes in a cache; any
  single operation may fail. Correct means: there is always a copy to boot
  from; a candidate runs at most three times before it is confirmed, each time
  after its charge is durable; a boot ends.
* System medium: a damaged Mica card must be booted exactly or refused, an
  unrelated one ignored.
* Release: checks made in one step are used in a later one, a step fails after
  its effect, a failed run is taken up again after another one, and two
  products share a board. Correct means: a visible release is complete, its
  generation and its packages follow the product's last release, a package
  version names one archive, a tag never changes.
* Resource client: an answer is lost after the effect and the call is made
  again, a document read back is stale, runs post side by side. Correct means: a
  release that res names is complete, a green run has posted what it listed, a
  retry never fails what is already done, a reset service is restored.
* Root: a closure that grows while it is walked, under the rules of a loader that
  will run elsewhere; a daemon, its tags and its emulator that others use too.
  Correct means: what ships is closed and loads, and what was smoke-tested ships.
* Product build: a command is stopped anywhere and the tree moves on. Correct
  means: success is the image of the tree as it is, whole.
* Image: many rules on one side, arithmetic on the other. Correct means: what is
  accepted is written where it is read, an update fits later on, and what passes
  the verification comes up.

## Modules

| module | models |
| --- | --- |
| `BootRecords` | the rules of the list, `mica_boot_next`, `mica_boot_slot`, the flag byte |
| `FitLoader` (extends it) | the four loaders on one medium, with the device, the power, the watchdog and the running system around them |
| `BootAttempts` | abstract: the records as one register that changes atomically, every trial paid for first |
| `MCFitLoader` | the refinement mapping from `FitLoader` to `BootAttempts` |
| `FitLoaderProofs` | lemmas and theorems about `FitLoader`, and that it implements `BootAttempts` |
| `MediumSelect` | `valid_layout` and `select_medium` of the s905x5m over damaged cards |
| `RecordText` | `mica_boot_parse` as a scanner of tokens against `mica_boot_render` |
| `RecordTextProofs` | lemmas and theorems about `RecordText` |
| `RuntimeSelect` | `select.ts` and the accounts of `compose.ts`: roots, closure, libraries, licences |
| `RootBuild` | the chain of stages, the two exports, the smoke run, of several worktrees on one daemon |
| `MCTrees`, `MCRootfs` | small installed roots; both halves of a root in one run |
| `RootfsProofs` | lemmas and theorems about `RootBuild`, `RuntimeSelect` and their run |
| `ProductBuild`, `MCProductBuild` | one worktree, its `_out/` and the commands that are run in it |
| `ProductBuildProofs` | lemmas and theorems about `ProductBuild` |
| `DiskLayout` | `layout.tsv`: its rules, the disk written by it, the places it is read from |
| `FlashLayout` | `flash.tsv`: its rules, the capacity rule, the flash written, the device's first boot and update |
| `LayoutProofs` | lemmas and theorems about `DiskLayout` and `FlashLayout` |
| `FactoryImage` | what an image carries: assembly, harm, verification, and the device that brings it up |
| `MCBoards` | small boards, flashes and inputs of an image |
| `RootImage` | what a check of the register finds at a path of a packed root |
| `EngineChecks`, `ConndChecks`, `MqttChecks`, `ShadowChecks`, `RootChecks`, `SystemChecks` (extend it) | the checks of `checks-*.ts` |
| `ImageVerify` (extends them) | the register run over a damaged root, one result |
| `MCDecisions` | media, text, disk, flash, factory image and packed root in one run |
| `DecisionsProofs` | lemmas and theorems about `MediumSelect`, `FactoryImage`, the types of `ImageVerify`, and the run of all six |
| `ScopedRelease` | the releases of one board's products, from dispatch to the published release |
| `ReleaseLine` | abstract: what the releases promise a device that follows one product |
| `MCScopedRelease` | symmetry and the refinement mapping to `ReleaseLine` |
| `ScopedReleaseProofs` | lemmas and theorems about `ScopedRelease`, and that it implements `ReleaseLine` |
| `ResPublish` | published releases, product and core, posted to the resource service |
| `MCResPublish` | two releases of a product and a core release of two architectures |
| `ResPublishProofs` | lemmas and theorems about `ResPublish` |

### FitLoader and the code

`pc` is the place in `mica_file_boot` or `mica_ubi_boot`. `ArmWatchdog` and
`SelectMedium` are the early returns into `recovery`; `read_environment` reads
both copies and takes one that cannot be read for invalid, as the code does;
`SelectTrial`, `SelectConfirmed` and `SelectNone` are the outcomes of
`mica_boot_next`; `WriteCopy`, `flush_medium` and `ReadBack` are
`persist_environment`, split where power may go. `Launch` is `bootm` that does not come back;
`LoadFails` is every way in which the selected FIT is not started, with the
retirement of a confirmed entry and the restart. `view` is what the device
answers, `durable` what survives a loss of power: they differ between an
accepted write and the flush. The constant `Medium` picks the variant. `"ubi"` has the
atomic LEB change and no loader watchdog; on `"sd"` a completed write is
durable; `"emmc"` has a cache and a flush that can fail.

`attempts` is a history variable: loads of a deployment as a trial since it was
installed. No guard reads it.

The running system is not in this repository. `OsInstall`, `OsConfirm` and
`OsReboot` use the copies as the loaders do: they read the active copy, write
the other with the next flag, and a confirmation is for the deployment that
runs. They never report a failed write but they lose power like any other.

Assumptions about the world: a reset without loss of power does not lose the cache
of the device; what a cut leaves of a write is the old bytes, the new bytes or
bytes whose CRC does not match; UBI's LEB change is atomic; a running
deployment outside `Good` is ended by a watchdog, the loader's on the MMC boards
and the kernel's own on the UBI boards, whose loaders arm none.

### ScopedRelease and the code

A run is a record whose `pc` is the step of the job it is in. `Plan` is `plan` on
the releases of that moment; `Replan` is the step "The plan line of the product"
of `release-product.yml`, which plans again and refuses another generation.
`PlanComponents` is `build-boards.yml`, `VersionGuard` the guard,
`ChooseComponent` is `publishComponents`, `Build` is the product with `collect`
and `kernelGuard`. `CheckTag`, `PutTag` and `ReadBackTag` are the separate
requests of `Oci.tagManifest` and of the read back. `ghCreateDraft`, `ghUpload`,
`ghPublish` and `ReadBackRelease` are `attach`, whose uploads go in the order
of the code: the assets, the lock, `SHA256SUMS`. `Fail` is a step that fails
before it acts; a step whose answer was lost after it acted is the same `Fail`
after the step. `Rerun` starts the failed job from its first step on the run's
own commit and plan, as GitHub's "re-run failed jobs" does.

One package stands for the pool and one component, the kernel, for those built.
Inputs, kernels and bytes are values compared for equality. The listing of the
releases is `Page`. A draft that a failed attempt left behind stays and is
ignored by every reader, as in the code; the next attempt makes its own.

### ResPublish and the code

A run is one process of `scoped-release res` or `core-release res`: `Dispatch` is
`publish-res.yml` (one at a time, over all releases or one), `Attach` the last
step of `release.yml` or `release-core.yml`, right after a release became visible on GitHub.
`Onward` is the loop of `publishAllToRes`: whatever becomes of a release, the
next one, the oldest that is left, is posted. One release goes through
`ReadRelease` (lock, bundles, descriptor), `Stage` for each asset, `PublishAssets`
(one batch), `ReadArchive`, then for each archive `Upload` of each index,
`PublishIndexes` in batches and `ReadTransfer`, then `PostRecord`, and for each
archive `ReadManifest` and `ReadDocument`. A core release has the archive of each
architecture at hand and an archive, a manifest line and a document for each. `call`
has the outcomes of the function of that name: answered, lost before or after
res acted (and made again or given up, `Again`), refused. `Poll` is `eventually`
and the loop at the end of `publishTransfer`.

`named` and `alone` are history variables; no guard reads them.

Abstractions: an upload is one step for the request of its URL and the PUT. The
objects of one read back of a document are one poll. A document read is that of res,
or that of an edge which still has the one from before the last post.

Assumptions about res, which is not in this repository, from the way the code
uses it and from `transfer.test.ts`: a batch and a record are all or nothing; a
second post of the same thing changes nothing; the latest release of a line is
the recorded one with the newest stamp; an index or a chunk is served once its batch is published.

### RuntimeSelect and the code

A tree gives each path a node: absent, directory, link, or a file with a body, an
interpreter, the command an env script names (its candidates along the PATH), needed libraries, the name
a library has for itself (SONAME), a search path and an owner. `trail` follows the links of a path (`onward`), `links` and `resolve` are the
paths on it and its end. `DeclareRoots` is the first
half of `select`: the rules, the scripts a glob leaves (`interpreterMissing`) and the
units that start them (`leaveUnits`). `Add` is `add` for one path, `Beyond` what it calls
itself for: the target of a link, but for the links the system makes at run time and the masks
(links to `/dev/null`, carried as they are), the interpreter of a script and, where that is `Env`, the first
candidate that is there. `Unambiguous` and `Bound` are the names of an object, the one it was asked for by and
its own, each one file. Adding an ELF program starts a trace: `LoadInterpreter`, `Load` and
`ObjectLoaded` are the loop of `elfDependencies` with its queue, the names the program
has loaded and the one file each name has over all programs. `License` and
`compose` are the licences and the accounts of what stays behind. The code goes depth first; here the paths to add are
a set and one order stands for it, since the result is a set and a refusal is a refusal;
likewise one order stands for that in which an object names its libraries (`NextNeed`), the same for the
trace and for the device, as both read it from the file.
`DeviceLoads` is the loader of the device, written from the rules of
`ld.so`, over the root that ships; it shares nothing with `Load` but the tree.

### RootBuild and the code

`ComposeStage`, `PackStage` and `ExportRoot` are the builds of `planChain`, chained by
a tag of the daemon (the `docker` driver) or by an OCI layout of the build's own.
`LoadRoot` to `Fallback` are `loadImage`, the preflight and the fallback of `smokeRun`,
`CheckArtifact` is one entry of the register and `Judge` is `judge`. `KillLoad`,
`KillControl` and `KillArtifact` are the budgets of `capture`. `defect` is what a program
of a root really is, chosen when it first runs, and `overtaken` is a history variable: the steps of a
build before which another one moved its stage tag. No guard of the code's side reads either.
The daemon and its emulator are external.

### ProductBuild and the code

`tree` is the checkout: `Edit` commits, checks out or edits files between two
commands and during one. Each command is split at what it writes: `ExportKernel` and `RecordKernel`
are the Makefile's two lines, `RemoveOwn` and `ExportOwn` `make board-pool`, and the steps
of `Product` the calls of `build` in `product/build.ts` in their order. `Stop` is a command that fails or
is killed, at any step; what it wrote stays. `Assemble` is `board-pool --fetch` with
`staleLocalBuild` and the reuse of the published component, `Receipt` the reuse key.

Two kinds of disturbance are counted and bounded (`MaxDisturbed`): a command that is stopped half
done (`HalfDone`), which is between an exported kernel and its record and within `clear`, and an edit while a
command runs. The history variable `moved` says that the tree was changed under this command, `cut` what a half
done or overtaken command left: the kernel, until it is built anew, or a product, until it is cleared and built anew. No
guard reads them; the properties name with them the exceptions that the code makes, and the run
`product_half_cleared` shows the first of them.

### The image modules and the code

`DiskLayout` reads a layout row by row as `parseLayout` does, then applies the rules
over the whole, the regions and the records, and writes the disk byte by byte as
`assembleFileImage` and `writeRawPartition` do. `WrittenWhereRead` looks where the signed
policy (`boardPolicy`) and the receipt send a device. `FlashLayout` does the same for
`parseFlashLayout`, `ubiCapacity` and `assembleFlash`; the first boot and the update
that follow are the device's, which is external and known from the comments of
`flash-layout.ts`. `FactoryImage` maps each place of an image to what it holds:
`Assemble` with the checks before it, `Harm` that loses, spoils or misplaces one thing, even a
signed one, `Verify` as `verifyFactoryImage` or `verifyFlashImage`; `ComesUp` is what a
device needs, from the loaders and from what the verification calls are named for.

`ImageVerify` composes a root for a product, lets up to `MaxDamage` places of one
part go wrong in the ways of `Faults`, and runs the register. A check that throws is an
error of the run, as in `runChecks`. Each part's places are the paths and lines its
`checks-*.ts` asks for; the expectation (`EngineContent` and so on) says what a product's root
is to hold, from the features and the init it selected. `Harmless` and `Unseen` are
the two ways in which a damaged root passes; `Unseen` is a list of what the register does not tell:
what is only asked to exist may be a directory, what the health gate's configuration requires
is looked at only where it can be read, a link to nowhere counts as an
enabled service in three places, and `50-mica-x.netdev` is nowhere asked.

## Runs

| run | question | bounds |
| --- | --- | --- |
| `loader_power` | are trials bounded and paid for, and is the protocol one atomic register, through power cuts, torn writes and failed operations | eMMC, 3 deployments, 3 tries, flags 0..3, 2 faults |
| `loader_live` | with reads that fail too: is there always a copy to boot from, is each charge before its load, does every boot end, and does a board with a confirmed good deployment come back to a good one | eMMC, 3 deployments, 2 tries, flags 0..2, 2 faults |
| `decisions` | six decisions over every input within the bounds (`topic` says which) | 3 damages of a card and the eMMC, at most one of the eMMC, 6 partition numbers; 2 names and generations to 7; 4 products with 2 wrong places; 4 boards with up to 2 rows moved; flashes of 12 to 23 blocks around the turns of the capacity rule; 3 storages, 11 deployments, 3 core sets, 2 harms |
| `release_serial` | all guarantees of the releases for one product released twice, with a commit between, floors and one failed step anywhere | 2 of everything, 1 failure |
| `release_side_by_side` | three overlapping runs of two products, and another board in the listing: complete releases that follow one another | 3 runs, a page of 4 |
| `res_publish` | a release that is visible is complete, a green run has posted its list, nothing is given up without a reason, a reset service is restored, every run ends | 3 releases, one core set of 2 architectures, one manual and one releasing run, 1 fault |
| `rootfs` | is a selection closed and loadable, without the units that were left; is each build's root one, the smoke-tested one that ships, green only where sound; does every selection and every build end | 4665 installed roots of 18 paths, 2 libraries; 2 builds, 3 programs, every daemon of either driver |
| `product_build` | is an answer of success the image of the tree as it is, whole | 1 product, 2 commits, stops and edits anywhere, one of them half done or under a command |
| `loader_stale_copy`, `release_versions_race`, `root_shared_tags`, `product_half_cleared` | findings, below | as needed |

Why the bounds are enough. `FlagLimit` stands for 255: `mica_boot_slot` treats
only equality, order and the two values at the wrap apart, 2 or 3 lets the byte
wrap several times in a behaviour, and the proofs are for every limit of at least 2. Three
deployments allow a candidate, its fallback and one that replaces both; the list
holds two. Two faults are a fault and one more while the first is
repaired; the proofs are for any number. A card with three damages may lose its
GUID, its table and one partition at once; a damage drops, edits, moves or adds a partition or enters one
twice, so the partition after the last is at times all that is wrong. 5 and 6 stand for the numbers 5 to 16, which the
loader treats alike. The damage of the eMMC is one more of the three. Five numerals and `GenerationLimit` 7 give
`RecordText` what the overflow test needs: a base, a limit that is no multiple of it and
numbers of two digits; the proof is for every base and every limit. The text bound of 512 bytes
is left out because two records of full length stay below it.

The boards of `MCBoards` have the four shapes of the repository's (an ESP, a loader on the
disk, vendor partitions with the loader beside, two raw partitions), with sectors of
2 bytes, so that a region may lie on a sector or not; two rows moved at once let one rule
cover for another. Two harms of an image let a signed thing take another's place
and its name go with it. Two wrong places of a packed root are where one check may
hide another's fault; places of different parts are asked by different files.

A tree of `MCTrees` has a program, a shell that may be a link, an interpreter that may itself be
a script, even of the program, two libraries that may be missing, links or need one
another, call themselves by another's name, each once in the system's directory and once in a private one, an env
script whose command is found, found second or of no form env knows, and a unit with
its timer, which may be a mask, or with an alias. Two builds are one and the other that moves the tags, and the proofs are for
any number. In the two commits of a worktree the kernel, the locked archive and the own version all differ,
and what a stopped command mixes of them is told apart by the files themselves; the proofs are for any number of commits
and of disturbances.

Releases: two runs are needed for
every race of one product with itself, three for two products of a board that
interleave with an earlier release; a page of 4 is full at the end of that run.
In `res_publish` a call has one retry, a read of an archive none and a poll two reads, where the code has
three to six and 24: one fault then exhausts a call without retries and is repaired in
the others, and a batch of one index makes two batches of an archive. `Histories` has two
releases of one line, for the order of a restore, or a product release and a
core release; the third release is attached while they are posted. `VisibleComplete`
and `GreenRunPosted` are proved for any number of faults, runs and retries.

Fairness. `WF(Loader)`: a loader runs until it launches or stops, nothing else runs
on the board. `WF(WatchdogExpires)`: the watchdog of a started system that
does not feed it expires; the code arms it before it touches the medium.
`WF(OsConfirm)`: a deployment in `Good` confirms itself; that is what `Good`
means. `WF(Work(r))`: a job of GitHub that has begun goes on with its next
step. `WF(RootfsNext)`: the selection is one program that runs on, and of the builds in
flight some child process ends or is killed by its budget (`capture`); each build has finitely many steps, so this is
enough for all of them. The stage builds themselves have no budget in the code: that they end is assumed of docker. Faults, installs, dispatches, restarts, edits and operators have
none. `ScopedRelease` is checked for safety only: nothing obliges anyone to run a
failed job again. Runs with `CHECK_DEADLOCK FALSE` are those whose behaviours come to an end: a
decision is made, a root is composed, a release is attached and none is dispatched.

### Findings

Where the code and a statement of the repository part (PROJECT.json quotes them):

* `loader_stale_copy`: one read error of the newer copy makes the older one decide, and a
  candidate runs a fourth time.
* `release_versions_race`: two products of a board released side by side may
  publish one package version with two contents; both guards look at the release before both.
* `root_shared_tags`: with the default builder the tag of a stage names the board and the stage only
  (`planChain`), so a second product of the board that is composed on the same daemon moves it between the exports
  of the first, and the second export is no replay of the first one. `OneRootPerBuild`, `SmokedRootIsShipped` and
  `GreenMeansSound` say what holds all the same, of both drivers: without that move nothing is mixed up.
* `product_half_cleared`: `clear` removes the outputs one by one with `receipt.txt` among the last, so a build
  stopped in it leaves a receipt and an image whose parts are gone, or `image/` with its `SHA256SUMS` and
  without the image, which the next build takes for up to date.

Seen in the models, without a run of their own:

* Releases. `LateRerun = TRUE`: the failed publish job of an old run, run again after a
  newer release, publishes a second release of its generation. `SideBySide = TRUE` with two
  products in one minute: the tags of a board carry only the stamp, and reading a
  tag and putting it are two requests, so the second run re-points the first one's. `PageSize = 1`,
  `MaxOthers = 1`: `latestLockWith` reads one page of 100 releases and finds nothing when
  those of other boards fill it. And "a release res already holds answers unchanged"
  (`publish-res.yml:10`) is not what a run reports once res holds a newer one: the read
  back of `res.ts:182` waits for the release to be the latest of its line. It is the
  second case of `GivenUpForAReason`.
* Media. Without a card the s905x5m boots the eMMC, where its README says
  that it stops in recovery.
* Media. The loader looks for one partition more at the number after the last only: a card with the
  exact three and another at 5 or beyond is booted (`BootsExactLayout` says so).
* Flashes. `ubiPolicy` does not sign the store reserve, so DATA does not grow on the first boot, and an update
  that the capacity rule accepted does not fit on DATA although the comments of `flash-layout.ts` (12-14, 222-231)
  say so: `Staging <= Usable(data)` is false of `FlashLayout` in the stage `"updating"`.
* Roots. An alias of a unit whose program was left behind is carried as a link, and its target, the unit, comes back with
  it, against `select.ts:541-543`: `LedTo` in `LeftUnitsStayOut`. A smoke run
  whose image has no digest is of whatever the tag names; the properties leave it out
  (`source = "tag"`). `executorLimitMatch` knows the emulator by the route and by what a
  program prints, so on a foreign host a broken program that prints the same is excused:
  the last case of `GreenMeansSound`.
* Product builds. The Makefile records the inputs of a kernel after its build, so an edit during the build
  gives a stale kernel the record of the new inputs and `staleLocalBuild` takes it, against `inputs.ts:9-11`; a
  kernel build stopped before its record leaves the record of the kernel before it (`"kernel" \in cut`). The receipt is computed before the pool and the board are fetched, so an edit in
  between is in the image and not in its receipt; the properties except a product that was built while the tree
  moved. The receipt names neither the
  access-point secret nor the pool's own archives nor the loader's files, so a change of
  one of these alone is answered with "up to date"; an own archive that was built from edited
  sources keeps its declared version.
* Images. A process killed during the assembly leaves `<output>.building`, and the next
  assembly ends at its `mkdirSync`. Only the verification, not the assembly, looks at the core
  set a deployment names, at what its root selects and, on a flash, at the
  loader of the bundle (`Unchecked`). A stray root or kernel on a disk goes unseen;
  so does a missing `flash.json`. Without a store row the capacity rule counts
  no new core set and nothing DATA stages. A unit's program is followed for scripts that were left, not for
  a program that was never there; and what a run-time link requires is added
  though its unit was left.

## Proofs

`FitLoaderProofs` proves, from `RecordsAssumption` and `LoaderAssumption` alone,
for every medium, every flag limit of at least 2, every number of trials, deployments and faults:

* `TypeCorrect`: `Spec => []TypeOK`;
* `AlwaysBootableCorrect`: `Spec => []AlwaysBootable`;
* `TrialChargedCorrect`: `Spec => []TrialChargedBeforeLoad`.

The inductive invariant is `TypeOK /\ MediumInv`. `AlwaysBootable` is not inductive: it
does not say what the cache holds when power goes, nor that the copy about to
be overwritten is not the only sound one. `MediumInv` adds that two sound copies
carry flags that follow one another (all that the wrap of the byte lets `mica_boot_slot` use),
that outside a write the device and its cache agree, that during a write the
active copy is sound and untouched, and that in recovery at most one copy is at
risk. The lemmas are about the slot chosen between two sound copies with
following flags, one sound copy, and what a write or a cut leaves; then one
step per action of `Next`.

Its second half proves, from the same assumptions and `ReadFaults = FALSE`:

* `RefinementCorrect`: `Spec => ImplementsBootAttempts`, the refinement of `BootAttempts`;
* `TrialsBoundedCorrect` and `TriesAccountedCorrect`: `Spec => []TrialsBounded` and
  `Spec => []TriesAccountedFor`, which follow from an account (`Accounted`) that every step of the
  register keeps.

Without the assumption they are false (`TrialsBounded` in the run `loader_stale_copy`, see Findings). `RInv`
adds to `MediumInv` what the loader has in RAM: the records of the active copy once it has read
them, and from then to the flush a change of them that is one step of the register (`Change`).
A reset while the cache holds that change either completes it or undoes it (`SettleStep`), which is where
the two copies are one register.

`ScopedReleaseProofs` proves, from `ReleaseAssumption` and `ElsewhereAssumption`, for any products,
commits, floors, number of runs, failures and releases of others:

* `TypeCorrect` and `PublishedCompleteCorrect`: `Spec => []TypeOK` and `Spec => []PublishedComplete`,
  of every setting, runs side by side and late reruns among them;
* `TagsNeverRepointedCorrect`: `Spec => TagsNeverRepointed`, where the runs of a board follow each other
  (`~SideBySide`);
* `GenerationFollowsCorrect`, `PartialUpdatesFitCorrect` and `ReleaseLineCorrect`:
  `Spec => []GenerationFollows`, `Spec => []PartialUpdatesFit` and the refinement
  `Spec => ImplementsReleaseLine`, with runs side by side, where no failed run is resumed behind a later
  run of its product (`~LateRerun`);
* `VersionsLockedCorrect` and `LockNamesItsKernelCorrect`: `Spec => []VersionsLocked` and
  `Spec => []LockNamesItsKernel`, where both hold and the releases of other boards leave room on a
  page (`MaxOthers < PageSize`).

The conditions are needed: each of the findings about releases is a behaviour without one of
them. The invariant grows in the same three steps. `PublishInv` says what
each run has put on the tags of its bundles at each step, that its draft is still its own and
that no release of its label is visible; of any two runs at work it needs that they are of
different products. `LineInv` adds that a run past its second plan follows the
newest release of its product, by stamp, generation and lock (`OnLine`): the plan is made early and
used late, and what keeps it true is that no other run of the product publishes in between (`LastOne`).
`SerialInv` adds what links the products of a board: its visible releases are in the order of their
stamps, so the one page of the listing shows a newest one (`NewestOnPage`); releases of one stamp share the tags of the board
and so their package and kernel (`OnBoardTags`, `NewestAgree`); and a run at work keeps what the guard, the reuse and the build found
(`AgainstBoard`). A run whose label is already visible is resumed only to be refused, so `AgainstBoard`
is asked of the others. TLC checked each of these invariants on instances with two products, a failure, a
page full but for one, and two or three runs before it was proved.

`ResPublishProofs` proves, from `ResAssumption` alone, for any releases and
architectures, any number of runs at once, any retries and any number of faults:

* `ResTypeCorrect`: `Spec => []TypeOK`;
* `VisibleCompleteCorrect`: `Spec => []VisibleComplete`;
* `GreenRunCorrect`: `Spec => []GreenRunPosted`;
* `GivenUpCorrect` and `ResetCorrect`: `Spec => []GivenUpForAReason` and `Spec => []ResetRestored`.

`VisibleComplete` is not inductive: it does not say what a run that is about to
post a record has published, nor `GreenRunPosted` what a run has seen. The invariant `IInv` adds, for
each run, `StepInv` (it has what its step works on), `PostInv` (what of its release is in the
catalog, staged or still to be staged, at each step) and `SeenInv` (what it has seen of the
releases of its list), and that every release which res or an edge names as the latest is
in `named`. res only takes in more, so the invariant of one run survives
the steps of the others (`MoreFacts`); `CallFacts` and `PollFacts` then reduce every step to what
its own answer adds.

The last two rest on `IInv` and a second invariant, `ReasonInv`. `TriedInv` accounts for every
attempt of the call under way and for what was given up: a fault each, or a newer release of
the line is recorded; a run that reads documents back has recorded its release, so what is not stale and not good is
behind a newer one. `ResetInv` is about a run alone on an empty res without a fault: what GitHub holds is recorded or still to be posted, and
nothing that is recorded is newer than what is still to be posted. It is where the order of the list (`Oldest`)
is needed: of a list posted newest first the older ones would be given up. TLC checked
`ReasonInv` on the instance of the run before it was proved.

`RootfsProofs` proves of `RootBuild`, from `Setting` alone, for any number of builds on one daemon, any
drivers, any register, any packages and any behaviour of the daemon:

* `TypeCorrect`: `Spec => []TypeOK`;
* `OneRoot`: `Spec => []OneRootPerBuild`, both exports are one root, the build's own, but for a tag that another
  build moved in between;
* `SmokedIsShipped`: `Spec => []SmokedRootIsShipped`;
* `GreenIsSound`: `Spec => []GreenMeansSound`.

`Setting` says that no build is called `"none"` and that a root carries artifacts of the register; it says nothing of
the drivers. The invariant adds, for each build, `ChainInv` (its layout is its own, and so is the stage tag,
each export and what they have in common, as long as no other build moved the tag by the step it is at), `ImageInv` (an image that no tag named is its own) and `ResultInv` (what a verdict
says of the program it is about). Builds share only the daemon, so each conjunct of one
build survives the steps of the others (`SmokeKeeps`, `ChainKeeps`).

It proves of `RuntimeSelect`, from `RuntimeAssumption` alone (finitely many paths, and nodes, rules, contracts and
licences that name some of them), for every installed root and every set of declarations:

* `SelectTypeCorrect`: `SelectSpec => []SelectTypeOK`;
* `ClosedCorrect`: `SelectSpec => []Closed`.

`Closed` speaks of the composed root only. The invariant says of the walk what it has done: what a carried file
refers to is carried or still in the work (`CarriedInv`); a program is complete, or an object of the one that is being
traced; such an object has carried what it has no more open (`ObjectInv`), and what was met is carried, so that
an object met twice need not join twice. `Moves` says that a step which only adds keeps this; each step of the
walk is then a case of it, and `Loads` covers both steps that load an object. Nothing in the proof uses which path is taken
next (`Pending`), so the closure holds whatever the order of the walk. The steps rest
on `LinksFacts`: what the links of a path that leads somewhere are, and that each names the next. The trail of links is a recursive function
over numbers, and the induction theorems of the library cannot be used, so its facts
are proved by the least number that would be a counterexample (`LeastNumber`). TLC checked the invariant
on the trees of the run before it was proved.

`ProductBuildProofs` proves, from `Setting` alone (the names of the commands are apart and the absent
file is none of the roots or receipts), for any products, commits and sequence of commands:

* `TypeCorrect` and `RecordCorrect`: `Spec => []TypeOK` and `Spec => []RecordDescribesRoot`;
* `EndsCurrentCorrect` and `EndsWholeCorrect`: `Spec => []EndsCurrent` and `Spec => []EndsWhole`.

All four hold with the tree edited and commands killed at any step, the steps of `clear` and the one between an exported
kernel and its record among them, and any number of times (`MaxDisturbed` is any number). What the code does not
guarantee is in the statements: a product in `cut` is excepted from `EndsCurrent`, and found up to date from
`EndsWhole`.

`EndsCurrent` is not inductive: a product may be found up to date by the receipt some earlier
command left. The invariant adds what a kernel in `_out/` and its record say of each other
unless one was left half done (`KernelInv`), what a build works on at each step, from the pool it fetched to the parts it signed
(`BuildInv`), and that the image beside a receipt is of the tree the receipt describes, its parts
with it until they are cleared (`ReceiptInv`).

`LayoutProofs` proves `LayoutCorrect`, `LayoutSpec => []WrittenWhereRead`, for every layout: any number of
partitions and regions of any sizes. It assumes `LayoutAssumption`, the rows as their
reader takes them, with no size zero. The property speaks of the end only, so the
invariant follows the reader and then the writer row by row: the partitions before `index`
are numbered, in order and apart (`PartsRead`), the regions before it lie apart in raw
partitions (`RegionsRead`), the partitions before it are on the disk and the GPT is untouched
(`DiskWritten`). It rests on lemmas about what the rules give: `SectorsApart` and `PartsApart`,
that what is apart in sectors shares no byte; `NumbersApart`, that no two partitions get one
number; `RegionBytes`, that in a raw partition no region writes over another, even
where a loader is shorter than its own.

It proves of a flash, from `FlashAssumption` (the rows as their reader takes them; contents that are
lists of sizes) alone, for every flash, any number of regions and of objects of any size:

* `UpdateFitsStoreCorrect`: `FlashSpec => []UpdateFitsStore`;
* `FlashTypeCorrect`: `FlashSpec => []FlashTypeOK`.

The property has two halves. That the image covers the flash needs what the reader and the writer have done so
far: the regions before `row` follow each other from 0 (`ReadInv`), a block that lies in a region already
written has the name of one (`WrittenInv`); `Covered` then finds the region of each block, the first that ends behind it. That the
device keeps its reserve needs what the update has taken: it is the sum of the objects before `row`
(`TakenInv`). `Room` reduces the rest to the rule of the assembly: an object is no larger than the largest
(`LargestBounds`) and with what was taken before it no more than the whole update (`UpdateFacts`), with and without a
store reserve, and `Sums` is the arithmetic that is left. `Total` and `Largest` are functions
over the places of a list; that they exist and what they bound is proved by the least place that would be a
counterexample, as in `RootfsProofs`. TLC checked the invariant on the flashes of the run before it was proved.

`RecordTextProofs` proves `ScannerCorrect`, `TextSpec => []ScannerExact`, and `TextTypeCorrect`, from `TextAssumption`
alone: at least four numerals, all different, names, numerals and marks that are never the same token, and a limit
of at least the base. So it holds of ten numerals and of 2^53 - 1 as of the five and the 7 that TLC runs. The invariant
has two halves, one for each direction. `TextShape` says what has been read: the text so far is the
rendering of the records in `out` and of the parts of the next one, the digits read are `Decimal` of the generation they
make. `TextFollows` says what is still to come: for every list whose rendering begins with the text read,
`Expected` says where in that list the scanner is and what the rest must be. The digits rest on
`Decimal` as a recursive function of the number: that it is unique and does not begin with zero, and that
appending a digit is multiplying by the base, are proved by the least number that would be a counterexample;
that `Fits` refuses exactly the digits that would pass the limit is arithmetic with a product (`RoomIs`).

`DecisionsProofs` proves of `MCDecisions`, from the assumptions of its parts and `DecisionsAssumption`:

* `CardDecidesCorrect`: `DecisionsSpec => []CardDecides`, where a card takes at most three damages (`CardSetting`),
  partitions that are added, moved or entered twice among them. That a medium that is booted carries the exact layout
  with nothing after it follows from `valid_layout` itself, whatever was done to the card and the eMMC (`ExactIsImage`);
  that a card of the project is never passed over needs more. The invariant counts: of a card of the project no more marks are lost (the identity of the disk, those of its
  three partitions) than there were damages (`Lost`), so three leave one by which it is recognised. With four
  damages the last mark may go, and the card is an unrelated one;
* `FactoryExactCorrect`: `DecisionsSpec => []FactoryExact`, for any inputs, deployments, core sets, firmware and number of
  harms, where no deployment has the name of the boot menu's policy and the bundle's loader is no
  spoilt file (`FactorySetting`). `PassComesUp` goes through what the verification has looked at, place by place, to what
  the device needs; `WrittenVerifies` the other way, from what the assembly wrote;
* `TextExactCorrect`, and `WrittenWhereReadCorrect` and `UpdateFitsCorrect`, which carry the theorems about the text and
  the layouts over to this run;
* `AllTypeCorrect`: `DecisionsSpec => []AllTypeOK`, the register of a packed root among the six, for any products
  and any number of wrong places.

A behaviour of `MCDecisions` is about one topic, so `TopicInv` is the invariant of that topic, and `StepOfTopic` reduces a
step to one of it. `RootfsTypeCorrect` does the same for the two halves of a root.

Model-checked only, of the invariants: `VerifyExact`, a register of some two hundred places whose names are put together
from those of units and roles, which the provers cannot tell apart, and which holds by comparing the
two lists and not by an argument; and `LoadsTheSame`, that a program of the root that ships loads the files it was traced
with. That one is no theorem of every installed root: an interpreter that needs
libraries itself is traced with its program, which the loader of a device does not do, so a name may be met first from another
directory than on the device. No interpreter of the trees of the run needs one, nor does the one Debian ships. `LeftUnitsStayOut` is checked only. The expected violations
are TLC's too. Liveness under
fairness and `ENABLED` are outside the prover.

## Not modelled

* The retirement of a confirmed deployment by one failed load: the loader model does it, as the code does, and
  `BootEnds` counts the recovery that may follow as an end; no property forbids it.
* An image in which one component shadows another over the same place: `FactoryImage` gives each place one content.
* The text and signatures of a FIT, memory addresses, the kernel's own
  start: a deployment is in `Good` or not.
* Of the resource service client: how an object is cut into chunks, the dry run,
  the form of the documents. Of the core release: the plan of its generation,
  the build of its sets, attach and seed. A reset of the service in the middle of a run.
* Of a root: which packages apt resolves, the text of the declarations, the squashfs; of the smoke
  test: the console of the virtual machine, the negative runs. Of the register: the
  readers of GPT, FAT, ext4, UBI and squashfs, whose result is what a place holds.
* Of an image: time stamps, the free blocks of ext4, the provisioning
  document, the formats of archives and manifests, `component-build.ts` and
  `kernel-package.ts`, which wrap external tools.
* Package pool build and gates, locks and offline builds, keys and certificates, board support and continuous
  integration: sequential work over files, containers and external tools without state
  of their own between two steps; what they produce enters the models as a choice.
* Vendored drivers and user-space programs under `boards/*/kernel/third` and `boards/*/userland`.

## What is left

* An abstract specification of the catalog that `ResPublish` implements.
* `CoreRelease`: the core set's generations, composed with a product release.
* The Debian version order as a total order, chunk boundaries.
