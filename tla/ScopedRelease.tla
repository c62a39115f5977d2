----------------------------- MODULE ScopedRelease -----------------------------
(***************************************************************************)
(* The releases of one board's products, from the dispatch of release.yml  *)
(* to the published GitHub release:                                        *)
(*   src/release/scoped.ts              plan, collect, publish, attach      *)
(*   src/release/publish-components.ts  the board's kernel component        *)
(*   src/pool/publish.ts                the board's package pool            *)
(*   src/pool/version-guard.ts          packages against the last release   *)
(*   src/pool/registry.ts               tags of the OCI registry            *)
(*   src/boards/reuse.ts                a component of the last release     *)
(* One package stands for the packages of the pool and the kernel for the  *)
(* built components.  GitHub (its release list and its re-run of failed    *)
(* jobs) and the registry are external.  Nothing a run has done is undone   *)
(* when it fails, and a failed run is resumed at the job that failed.       *)
(***************************************************************************)
EXTENDS Integers, Sequences, FiniteSets

CONSTANTS
  Products,     \* the products of the board
  Versions,     \* versions of the package
  Inputs,       \* its inputs at one version
  Kernels,      \* inputs of the kernel component
  Bytes,        \* outputs a build of the same inputs may pack
  Floors,       \* generation floors MICA_RELEASE_GENERATIONS may give
  PageSize,     \* releases one page of the GitHub listing holds (100)
  SideBySide,   \* runs of different products may overlap
  LateRerun,    \* a failed run may be resumed after a later run started
  MaxRuns, MaxPushes, MaxMinutes, MaxOthers, MaxFailures   \* bounds

ASSUME ReleaseAssumption ==
  /\ Versions \subseteq Nat /\ Floors \subseteq Nat
  /\ SideBySide \in BOOLEAN /\ LateRerun \in BOOLEAN
  /\ {MaxRuns, MaxPushes, MaxOthers, MaxFailures} \subseteq Nat
  /\ {PageSize, MaxMinutes} \subseteq Nat \ {0}

VARIABLES
  main,       \* what the head of main declares
  minute,     \* the clock of the stamps
  runs,       \* the workflow runs, in the order of their dispatch
  registry,   \* tag -> the manifest it holds
  releases,   \* the GitHub releases, drafts included, in the order of creation
  pushes,     \* commits pushed to main so far
  failures    \* failed steps so far

vars == <<main, minute, runs, registry, releases, pushes, failures>>

Commits == [version : Versions, inputs : Inputs, kernel : Kernels]
None == {}   \* of a field that holds at most one element

\* Another board of the repository; its releases only fill the listing.
Elsewhere == "another board"
ASSUME ElsewhereAssumption == Elsewhere \notin Products

LockFiles == {"mica-build.lock", "SHA256SUMS"}

Init ==
  /\ main \in Commits
  /\ minute = 1
  /\ runs = <<>>
  /\ registry = <<>>
  /\ releases = <<>>
  /\ pushes = 0
  /\ failures = 0

(***************************************************************************)
(* What a run reads.                                                       *)
(***************************************************************************)
Published == {i \in DOMAIN releases : ~releases[i].draft}
Shown == {releases[i] : i \in Published}

\* Mutant of history: the releases of the board, whatever their product.
historyOfBoard(product, stamp) ==
  {g \in Shown : g.product \in Products /\ g.stamp # stamp /\ g.files # {}}

\* The published releases of a product but the one being built.
history(product, stamp) ==
  {g \in Shown : g.product = product /\ g.stamp # stamp /\ g.files # {}}

Newest(S) == {g \in S : \A h \in S : h.stamp <= g.stamp}

\* Mutant of plan: a floor of MICA_RELEASE_GENERATIONS is taken as it is.
planFloorTaken(product, stamp, floor) ==
  LET hist == history(product, stamp)
      line(previous, planned) == {[previous |-> previous, generation |-> IF floor = 0 THEN planned ELSE floor]}
  IN  IF \E h \in hist : ~(LockFiles \subseteq h.files) THEN {}
      ELSE IF hist = {} THEN line({}, 2)
      ELSE UNION {IF h.stamp < stamp THEN line({h}, h.lock.generation + 1) ELSE {} : h \in Newest(hist)}

\* The plan lines of a run: none when the plan is refused.
plan(product, stamp, floor) ==
  LET hist == history(product, stamp)
      line(previous, planned) ==
        IF floor # 0 /\ floor < planned THEN {}
        ELSE {[previous |-> previous, generation |-> IF floor = 0 THEN planned ELSE floor]}
  IN  IF \E h \in hist : ~(LockFiles \subseteq h.files) THEN {}
      ELSE IF hist = {} THEN line({}, 2)
      ELSE UNION {IF h.stamp < stamp THEN line({h}, h.lock.generation + 1) ELSE {} : h \in Newest(hist)}

\* latestLockWith reads one page of the listing; of several releases with the
\* newest stamp it answers the one the listing names first.
Page == {releases[i] : i \in {k \in Published : Cardinality({j \in Published : j > k}) < PageSize}}

latestLockWith(product, stamp) ==
  Newest({g \in Page : /\ g.product \in Products
                     /\ <<g.product, g.stamp>> # <<product, stamp>>
                     /\ "mica-build.lock" \in g.files})

\* The components of the last release built from the inputs of this commit.
reuse(r) ==
  {g.lock.component : g \in {h \in latestLockWith(r.product, r.stamp) :
                               h.lock.component.content.inputs = r.commit.kernel}}

\* Mutant of versionGuard: the version alone is compared.
versionGuardVersionOnly(archive, g) == archive.version >= g.lock.archive.version

\* The package of this build against the one row of the last release.
versionGuard(archive, g) ==
  LET published == g.lock.archive
  IN  \/ archive.version > published.version
      \/ archive.version = published.version /\ archive.inputs = published.inputs /\ archive.bytes = published.bytes

(***************************************************************************)
(* The runs.                                                               *)
(***************************************************************************)
Ended == {"failed", "done"}
Active == {i \in DOMAIN runs : runs[i].pc \notin Ended}

NewRun(product) ==
  [product |-> product, commit |-> main, stamp |-> 0, generation |-> 0, previous |-> None,
   archive |-> None, built |-> None, component |-> None, lock |-> None, draft |-> 0,
   pc |-> "plan", target |-> "pool", job |-> "plan"]

Dispatch(product) ==
  /\ Len(runs) < MaxRuns
  /\ IF SideBySide THEN \A i \in Active : runs[i].product # product ELSE Active = {}
  /\ runs' = Append(runs, NewRun(product))
  /\ UNCHANGED <<main, minute, registry, releases, pushes, failures>>

Step(i, r) == runs' = [runs EXCEPT ![i] = r]
Failed(r) == [r EXCEPT !.pc = "failed"]

\* A step refuses: the job, and with it the run, fails.
Refuse(i) == Step(i, Failed(runs[i]))

\* What only the run sees changes.
Local == UNCHANGED <<main, minute, registry, releases, pushes, failures>>

Plan(i) ==
  /\ runs[i].pc = "plan"
  /\ \E floor \in Floors \cup {0} :
       LET lines == plan(runs[i].product, minute, floor)
       IN  \/ \E line \in lines :
                Step(i, [runs[i] EXCEPT !.stamp = minute, !.generation = line.generation,
                                        !.previous = line.previous, !.pc = "components", !.job = "components"])
           \/ lines = {} /\ Refuse(i)
  /\ Local

\* build-boards.yml: the kernel is built unless the last release's is reused.
PlanComponents(i) ==
  /\ runs[i].pc = "components"
  /\ \E built \in IF reuse(runs[i]) # {} THEN {None}
                   ELSE {{kernel} : kernel \in [inputs : {runs[i].commit.kernel}, bytes : Bytes]} :
       Step(i, [runs[i] EXCEPT !.built = built, !.pc = "guard", !.job = "guard"])
  /\ Local

\* The pool is built and held to the last release of the board.
VersionGuard(i) ==
  /\ runs[i].pc = "guard"
  /\ \E bytes \in Bytes :
       LET r == runs[i]
           archive == [version |-> r.commit.version, inputs |-> r.commit.inputs, bytes |-> bytes]
           latest == latestLockWith(r.product, r.stamp)
       IN  \/ /\ latest = {} \/ \E g \in latest : versionGuard(archive, g)
              /\ Step(i, [r EXCEPT !.archive = archive, !.pc = "check", !.target = "pool", !.job = "board-publish"])
           \/ (\E g \in latest : ~versionGuard(archive, g)) /\ Refuse(i)
  /\ Local

(***************************************************************************)
(* A tag of the registry: read, put when it is absent, read back.          *)
(***************************************************************************)
Tag(r) ==
  IF r.target \in {"pool", "kernel"} THEN <<r.target, r.stamp>> ELSE <<r.target, r.product, r.stamp>>

\* A pool manifest says nothing about the release, a built component's names
\* it; a bundle's layers are the assets of the release.
Manifest(r) ==
  CASE r.target = "pool"   -> r.archive
    [] r.target = "kernel" -> r.component
    [] OTHER               -> [generation |-> r.lock.generation, kernel |-> r.lock.kernel,
                               rootfs |-> r.lock.rootfs, assets |-> r.lock.assets]

\* Mutant of CheckTag: a tag that holds another manifest is put again.
CheckTagPut(i) ==
  /\ runs[i].pc = "check"
  /\ LET r == runs[i]
     IN  IF Tag(r) \in DOMAIN registry /\ registry[Tag(r)] = Manifest(r)
         THEN Step(i, [r EXCEPT !.pc = "back"]) ELSE Step(i, [r EXCEPT !.pc = "put"])
  /\ Local

CheckTag(i) ==
  /\ runs[i].pc = "check"
  /\ LET r == runs[i]
     IN  CASE Tag(r) \notin DOMAIN registry    -> Step(i, [r EXCEPT !.pc = "put"])
           [] Tag(r) \in DOMAIN registry
              /\ registry[Tag(r)] = Manifest(r) -> Step(i, [r EXCEPT !.pc = "back"])
           [] OTHER                            -> Refuse(i)
  /\ Local

\* The registry stores what it is given.
PutTag(i) ==
  /\ runs[i].pc = "put"
  /\ registry' = [tag \in DOMAIN registry \cup {Tag(runs[i])} |->
                    IF tag = Tag(runs[i]) THEN Manifest(runs[i]) ELSE registry[tag]]
  /\ Step(i, [runs[i] EXCEPT !.pc = "back"])
  /\ UNCHANGED <<main, minute, releases, pushes, failures>>

\* A bundle is read back by its digest, a board artifact by its tag.
After(r) ==
  CASE r.target = "pool"   -> [r EXCEPT !.pc = "component"]
    [] r.target = "kernel" -> [r EXCEPT !.pc = "replan", !.job = "product"]
    [] r.target = "image"  -> [r EXCEPT !.pc = "check", !.target = "update"]
    [] OTHER               -> [r EXCEPT !.pc = "draft"]

ReadBackTag(i) ==
  /\ runs[i].pc = "back"
  /\ LET r == runs[i]
     IN  IF r.target \in {"pool", "kernel"} /\ registry[Tag(r)] # Manifest(r)
         THEN Refuse(i) ELSE Step(i, After(r))
  /\ Local

\* Mutant of ChooseComponent: the last release's kernel whatever its inputs.
ChooseComponentLast(i) ==
  /\ runs[i].pc = "component"
  /\ LET r == runs[i]
         latest == latestLockWith(r.product, r.stamp)
         chosen(c) == Step(i, [r EXCEPT !.component = c, !.pc = "check", !.target = "kernel"])
     IN  \/ \E g \in latest : chosen(g.lock.component)
         \/ /\ latest = {}
            /\ \E kernel \in r.built : chosen([content |-> kernel, label |-> <<r.product, r.stamp>>])
  /\ Local

\* publishComponents: the last release's kernel when its inputs are the same,
\* the one of this run otherwise, which there is only if the run planned it.
ChooseComponent(i) ==
  /\ runs[i].pc = "component"
  /\ LET r == runs[i]
         chosen(c) == Step(i, [r EXCEPT !.component = c, !.pc = "check", !.target = "kernel"])
     IN  \/ \E c \in reuse(r) : chosen(c)
         \/ /\ reuse(r) = {}
            /\ IF r.built = None THEN Refuse(i)
               ELSE \E kernel \in r.built : chosen([content |-> kernel, label |-> <<r.product, r.stamp>>])
  /\ Local

(***************************************************************************)
(* The product.                                                            *)
(***************************************************************************)
Replan(i) ==
  /\ runs[i].pc = "replan"
  /\ \E floor \in Floors \cup {0} :
       LET lines == {line \in plan(runs[i].product, runs[i].stamp, floor) :
                       line.generation = runs[i].generation}
       IN  \/ \E line \in lines : Step(i, [runs[i] EXCEPT !.previous = line.previous, !.pc = "build"])
           \/ lines = {} /\ Refuse(i)
  /\ Local

\* Mutant of Assets: every package is built whenever there is a release before.
AssetsAlways(previous, kernel, rootfs) ==
  {"image", "full"} \cup IF previous = {} THEN {} ELSE {"root", "kernel"}

\* A root package needs the previous release's kernel, a kernel package its
\* root file system.
Assets(previous, kernel, rootfs) ==
  {"image", "full"}
    \cup {"root" : g \in {h \in previous : h.lock.kernel = kernel}}
    \cup {"kernel" : g \in {h \in previous : h.lock.rootfs = rootfs}}

\* The same kernel inputs packed to other bytes.
kernelGuard(previous, kernel) ==
  \A g \in previous : g.lock.kernel.inputs = kernel.inputs => g.lock.kernel = kernel

\* The product packs the kernel of this run or, when the run built none, the
\* one the last release carries by now.
Packed(r) == IF r.built # None THEN r.built ELSE {c.content : c \in reuse(r)}

Build(i) ==
  /\ runs[i].pc = "build"
  /\ LET r == runs[i]
         Lock(kernel) == [generation |-> r.generation, kernel |-> kernel, rootfs |-> r.archive,
                          assets |-> Assets(r.previous, kernel, r.archive),
                          archive |-> r.archive, component |-> r.component]
     IN  \/ \E kernel \in Packed(r) :
              IF kernelGuard(r.previous, kernel)
              THEN Step(i, [r EXCEPT !.lock = Lock(kernel), !.pc = "check", !.target = "image", !.job = "publish"])
              ELSE Refuse(i)
         \/ Packed(r) = {} /\ Refuse(i)
  /\ Local

(***************************************************************************)
(* The GitHub release.                                                     *)
(***************************************************************************)
ghCreateDraft(i) ==
  /\ runs[i].pc = "draft"
  /\ LET r == runs[i]
     IN  IF \E g \in Shown : g.product = r.product /\ g.stamp = r.stamp
         THEN Refuse(i) /\ UNCHANGED releases
         ELSE /\ releases' = Append(releases, [product |-> r.product, stamp |-> r.stamp, draft |-> TRUE,
                                               files |-> {}, lock |-> r.lock])
              /\ Step(i, [r EXCEPT !.draft = Len(releases) + 1, !.pc = "upload"])
  /\ UNCHANGED <<main, minute, registry, pushes, failures>>

\* Mutant of Missing: every package is uploaded, in no order.
MissingAny(g) == ({"image", "full", "root", "kernel"} \cup LockFiles) \ g.files

\* The assets first, then the lock, then SHA256SUMS.
Missing(g) ==
  CASE g.lock.assets \ g.files # {}        -> g.lock.assets \ g.files
    [] "mica-build.lock" \notin g.files    -> {"mica-build.lock"}
    [] OTHER                               -> LockFiles \ g.files

ghUpload(i) ==
  /\ runs[i].pc = "upload"
  /\ LET d == runs[i].draft
     IN  /\ Missing(releases[d]) # {}
         /\ releases' = [releases EXCEPT ![d].files = @ \cup {CHOOSE f \in Missing(releases[d]) : TRUE}]
  /\ UNCHANGED <<main, minute, runs, registry, pushes, failures>>

\* Mutant of ghPublish: the draft is published before its uploads have ended.
ghPublishFirst(i) ==
  /\ runs[i].pc = "upload"
  /\ releases' = [releases EXCEPT ![runs[i].draft].draft = FALSE]
  /\ Step(i, [runs[i] EXCEPT !.pc = "verify"])
  /\ UNCHANGED <<main, minute, registry, pushes, failures>>

ghPublish(i) ==
  /\ runs[i].pc = "upload"
  /\ Missing(releases[runs[i].draft]) = {}
  /\ releases' = [releases EXCEPT ![runs[i].draft].draft = FALSE]
  /\ Step(i, [runs[i] EXCEPT !.pc = "verify"])
  /\ UNCHANGED <<main, minute, registry, pushes, failures>>

\* Every file of the release reads back with its bytes.
ReadBackRelease(i) ==
  /\ runs[i].pc = "verify"
  /\ Step(i, [runs[i] EXCEPT !.pc = "done"])
  /\ Local

(***************************************************************************)
(* The world around the runs.                                              *)
(***************************************************************************)
\* A step fails before it does anything, or its answer is lost (external).
Fail(i) ==
  /\ i \in Active
  /\ failures < MaxFailures
  /\ failures' = failures + 1
  /\ Refuse(i)
  /\ UNCHANGED <<main, minute, registry, releases, pushes>>

FirstStep(r) ==
  CASE r.job = "board-publish" -> [r EXCEPT !.pc = "check", !.target = "pool"]
    [] r.job = "product"       -> [r EXCEPT !.pc = "replan"]
    [] r.job = "publish"       -> [r EXCEPT !.pc = "check", !.target = "image"]
    [] OTHER                   -> [r EXCEPT !.pc = r.job]

\* The failed job of a run is run again, on the run's own commit (external).
Rerun(i) ==
  /\ runs[i].pc = "failed"
  /\ IF SideBySide THEN \A j \in Active : runs[j].product # runs[i].product ELSE Active = {}
  /\ LateRerun \/ \A j \in i + 1 .. Len(runs) : SideBySide /\ runs[j].product # runs[i].product
  /\ Step(i, FirstStep(runs[i]))
  /\ Local

\* A commit reaches main (external).
Push ==
  /\ pushes < MaxPushes
  /\ pushes' = pushes + 1
  /\ main' \in Commits \ {main}
  /\ UNCHANGED <<minute, runs, registry, releases, failures>>

Tick ==
  /\ minute < MaxMinutes
  /\ minute' = minute + 1
  /\ UNCHANGED <<main, runs, registry, releases, pushes, failures>>

\* Another board releases (external).
ReleaseElsewhere ==
  /\ \A k \in DOMAIN releases : releases[k].product # Elsewhere
  /\ MaxOthers > 0
  /\ releases' = releases \o [n \in 1 .. MaxOthers |->
                   [product |-> Elsewhere, stamp |-> minute, draft |-> FALSE, files |-> LockFiles, lock |-> None]]
  /\ UNCHANGED <<main, minute, runs, registry, pushes, failures>>

Next ==
  \/ Push \/ Tick \/ ReleaseElsewhere
  \/ \E product \in Products : Dispatch(product)
  \/ \E i \in DOMAIN runs :
       \/ Plan(i) \/ PlanComponents(i) \/ VersionGuard(i)
       \/ CheckTag(i) \/ PutTag(i) \/ ReadBackTag(i) \/ ChooseComponent(i)
       \/ Replan(i) \/ Build(i)
       \/ ghCreateDraft(i) \/ ghUpload(i) \/ ghPublish(i) \/ ReadBackRelease(i)
       \/ Fail(i) \/ Rerun(i)

Spec == Init /\ [][Next]_vars

(***************************************************************************)
(* Properties.                                                             *)
(***************************************************************************)
Shipped == {i \in DOMAIN releases : ~releases[i].draft /\ releases[i].product \in Products}

TypeOK ==
  /\ main \in Commits
  /\ minute \in 1 .. MaxMinutes
  /\ \A i \in DOMAIN runs :
       /\ runs[i].product \in Products
       /\ runs[i].commit \in Commits
       /\ runs[i].stamp \in 0 .. minute
       /\ runs[i].draft \in 0 .. Len(releases)
  /\ \A i \in DOMAIN releases :
       releases[i].product \in Products => releases[i].files \subseteq releases[i].lock.assets \cup LockFiles
  /\ pushes \in 0 .. MaxPushes
  /\ failures \in 0 .. MaxFailures

\* "A published release always carries all of its assets": whatever step of a
\* run failed and was run again, a release that is visible has every file its
\* lock names and the lock, there is one of its label, and the tags of its
\* bundles hold what its lock pins.
PublishedComplete ==
  \A i \in Shipped :
    LET g == releases[i]
    IN  /\ g.files = g.lock.assets \cup LockFiles
        /\ \A j \in Shipped : releases[j].product = g.product /\ releases[j].stamp = g.stamp => i = j
        /\ \A type \in {"image", "update"} :
             LET tag == <<type, g.product, g.stamp>>
             IN  tag \in DOMAIN registry /\ registry[tag].assets = g.lock.assets
                                         /\ registry[tag].generation = g.lock.generation

\* A published tag is never re-pointed, whoever else publishes the board.
TagsNeverRepointed == [][\A tag \in DOMAIN registry : registry'[tag] = registry[tag]]_vars

\* The release of the same product just before i, by its stamp.
Before(i) ==
  {j \in Shipped :
     /\ releases[j].product = releases[i].product
     /\ releases[j].stamp < releases[i].stamp
     /\ \A k \in Shipped : /\ releases[k].product = releases[i].product
                           /\ releases[k].stamp < releases[i].stamp
                           => releases[k].stamp <= releases[j].stamp}

\* A product's generation grows with its stamp: a device never meets two
\* releases of one product it cannot order.
GenerationFollows ==
  \A i \in Shipped : \A j \in Before(i) :
    releases[j].lock.generation < releases[i].lock.generation

\* A device on a product's previous release may take the partial package of
\* the next: the part that the package leaves out did not change, and the same
\* kernel inputs never became another kernel.
PartialUpdatesFit ==
  \A i \in Shipped : \A j \in Before(i) :
    LET now == releases[i].lock
        then == releases[j].lock
    IN  /\ "root" \in now.assets => now.kernel = then.kernel
        /\ "kernel" \in now.assets => now.rootfs = then.rootfs
        /\ now.kernel.inputs = then.kernel.inputs => now.kernel = then.kernel

\* A package of the board is locked by its version: over the releases of all
\* its products a version always names the same archive and, from one stamp to
\* the next, never goes back.
VersionsLocked ==
  \A i, j \in Shipped :
    LET old == releases[i].lock.archive
        new == releases[j].lock.archive
    IN  /\ old.version = new.version => old = new
        /\ releases[i].stamp < releases[j].stamp => old.version <= new.version

\* The board row of a lock names the kernel that the product was packed with.
LockNamesItsKernel ==
  \A i \in Shipped : releases[i].lock.component.content = releases[i].lock.kernel

=============================================================================
