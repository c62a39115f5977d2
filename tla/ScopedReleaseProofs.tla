------------------------- MODULE ScopedReleaseProofs -------------------------
(***************************************************************************)
(* Theorems about ScopedRelease, for any number of products, runs, commits, *)
(* failures and reruns, any floors and any number of releases of others.    *)
(***************************************************************************)
EXTENDS MCScopedRelease, FiniteSetTheorems, TLAPS

-----------------------------------------------------------------------------
(* Types.                                                                   *)

Built == [inputs : Kernels, bytes : Bytes]
Components == [content : Built, label : Products \X Nat]
AssetFiles == {"image", "full", "root", "kernel"}
Locks == [generation : Nat, kernel : Built, rootfs : Packages, assets : SUBSET AssetFiles,
          archive : Packages, component : Components]
OfBoard == [product : Products, stamp : Nat, draft : BOOLEAN, files : SUBSET (AssetFiles \cup LockFiles), lock : Locks]
OfOthers == [product : {Elsewhere}, stamp : Nat, draft : {FALSE}, files : {LockFiles}, lock : {None}]
Releases == OfBoard \cup OfOthers

Jobs == {"plan", "components", "guard", "board-publish", "product", "publish"}
Pcs == {"plan", "components", "guard", "check", "put", "back", "component", "replan", "build",
        "draft", "upload", "verify", "done", "failed"}
Runs == [product : Products, commit : Commits, stamp : Nat, generation : Nat, previous : SUBSET OfBoard,
         archive : {None} \cup Packages, built : SUBSET Built, component : {None} \cup Components,
         lock : {None} \cup Locks, draft : Nat, pc : Pcs, target : {"pool", "kernel", "image", "update"}, job : Jobs]

\* The steps of each job.
AtTag(r) == r.pc \in {"check", "put", "back"}
StepOfJob(r) ==
  /\ r.pc \in {"plan", "components", "guard"} => r.job = r.pc
  /\ AtTag(r) => \/ r.job = "board-publish" /\ r.target \in {"pool", "kernel"}
                 \/ r.job = "publish" /\ r.target \in {"image", "update"}
  /\ r.pc = "component" => r.job = "board-publish"
  /\ r.pc \in {"replan", "build"} => r.job = "product"
  /\ r.pc \in {"draft", "upload", "verify", "done"} => r.job = "publish"
  /\ r.pc = "upload" => r.draft # 0

\* The draft a run has created.
DraftOf(r, log) == r.draft <= Len(log) /\ (r.draft # 0 => log[r.draft].product = r.product)

\* The lock that is published is of this run and this release.
LockOf(r) ==
  /\ r.lock \in Locks
  /\ r.lock.generation = r.generation /\ r.lock.rootfs = r.archive /\ r.lock.archive = r.archive
  /\ r.lock.component = r.component
  /\ r.lock.assets = Assets(r.previous, r.lock.kernel, r.archive)
  /\ kernelGuard(r.previous, r.lock.kernel)

\* What the jobs before have left to a run.
Has(r) ==
  /\ r.job \in {"board-publish", "product", "publish"} => r.archive \in Packages
  /\ r.job \in {"product", "publish"} \/ (AtTag(r) /\ r.target = "kernel") => r.component \in Components
  /\ r.job = "publish" => LockOf(r)

TypeInv ==
  /\ main \in Commits /\ minute \in 1 .. MaxMinutes
  /\ pushes \in 0 .. MaxPushes /\ failures \in 0 .. MaxFailures
  /\ runs \in Seq(Runs) /\ releases \in Seq(Releases)
  /\ \A i \in DOMAIN runs : /\ runs[i].stamp <= minute /\ DraftOf(runs[i], releases)
                            /\ StepOfJob(runs[i]) /\ Has(runs[i])
  /\ \A k \in DOMAIN releases :
       releases[k].product \in Products => releases[k].files \subseteq releases[k].lock.assets \cup LockFiles

-----------------------------------------------------------------------------
(* What is published is whole.                                              *)

\* The releases of the board that are visible in a list of releases.
Ships(log) == {k \in DOMAIN log : ~log[k].draft /\ log[k].product \in Products}

\* Two runs are never at work at once, but for different products side by side.
Exclusive == \A i, j \in Active : i # j => SideBySide /\ runs[i].product # runs[j].product

\* A bundle of a run or a release is behind its tag.
Bundle(g) == [generation |-> g.lock.generation, kernel |-> g.lock.kernel, rootfs |-> g.lock.rootfs, assets |-> g.lock.assets]
Held(type, g, reg) ==
  /\ <<type, g.product, g.stamp>> \in DOMAIN reg
  /\ reg[<<type, g.product, g.stamp>>] = Bundle(g)

RunTags(r, reg) ==
  r.job = "publish" =>
    /\ r.pc = "put" => Tag(r) \notin DOMAIN reg
    /\ r.pc = "back" => Held(r.target, r, reg)
    /\ AtTag(r) /\ r.target = "update" => Held("image", r, reg)
    /\ r.pc \in {"draft", "upload"} => Held("image", r, reg) /\ Held("update", r, reg)

\* A release of the label is published.
Labelled(r, log) == \E k \in Ships(log) : log[k].product = r.product /\ log[k].stamp = r.stamp

Uploading(r, log) ==
  r.pc = "upload" =>
    /\ r.draft \in DOMAIN log /\ log[r.draft].draft
    /\ log[r.draft].product = r.product /\ log[r.draft].stamp = r.stamp /\ log[r.draft].lock = r.lock
    /\ ~Labelled(r, log)

Whole(g, reg) == g.files = g.lock.assets \cup LockFiles /\ Held("image", g, reg) /\ Held("update", g, reg)

PublishInv ==
  /\ Exclusive
  /\ \A i \in DOMAIN runs : RunTags(runs[i], registry) /\ Uploading(runs[i], releases)
  /\ \A k \in Ships(releases) : Whole(releases[k], registry)
  /\ \A j, k \in Ships(releases) :
       releases[j].product = releases[k].product /\ releases[j].stamp = releases[k].stamp => j = k

-----------------------------------------------------------------------------
(* The line of a product.                                                   *)

Line(product, log) == {k \in Ships(log) : log[k].product = product}
NewestOf(product, log) == {k \in Line(product, log) : \A j \in Line(product, log) : log[j].stamp <= log[k].stamp}

\* No later run is of the same product.
LastOne(i) == \A j \in DOMAIN runs : i < j => runs[j].product # runs[i].product

\* A run follows the newest release of its product, by stamp and generation.
OnLine(r, log) ==
  /\ \A k \in Line(r.product, log) : log[k].stamp < r.stamp /\ log[k].lock.generation < r.generation
  /\ r.previous = {log[k] : k \in NewestOf(r.product, log)}

\* A run whose plan is made for good.
Settled(r) == r.pc = "build" \/ r.job = "publish"

\* The release of the same product just before another, and what a partial update needs of it.
BeforeIn(i, log) ==
  {j \in Line(log[i].product, log) : /\ log[j].stamp < log[i].stamp
                                     /\ \A k \in Line(log[i].product, log) : log[k].stamp < log[i].stamp
                                                                               => log[k].stamp <= log[j].stamp}
Fits(now, then) ==
  /\ "root" \in now.assets => now.kernel = then.kernel
  /\ "kernel" \in now.assets => now.rootfs = then.rootfs
  /\ now.kernel.inputs = then.kernel.inputs => now.kernel = then.kernel
AllFit(log) == \A i \in Ships(log) : \A j \in BeforeIn(i, log) : Fits(log[i].lock, log[j].lock)
Grows(log) == \A j, k \in Ships(log) : log[j].product = log[k].product /\ log[j].stamp < log[k].stamp
                => log[j].lock.generation < log[k].lock.generation

LineInv ==
  /\ \A i \in Active : LastOne(i)
  /\ \A i \in DOMAIN runs :
       LastOne(i) /\ Settled(runs[i]) /\ ~Labelled(runs[i], releases) => OnLine(runs[i], releases)
  /\ Grows(releases)
  /\ AllFit(releases)

-----------------------------------------------------------------------------
(* One run at a time.                                                       *)

\* What a tag of the board holds.
Behind(type, stamp, manifest, reg) == <<type, stamp>> \in DOMAIN reg /\ reg[<<type, stamp>>] = manifest

\* The newest releases of the board, and the kernels of them that suit a run.
NewestOfBoard(log) == {k \in Ships(log) : \A j \in Ships(log) : log[j].stamp <= log[k].stamp}
Current(r, log) ==
  {log[k].lock.component : k \in {x \in NewestOfBoard(log) : log[x].lock.component.content.inputs = r.commit.kernel}}

\* What a run has put on the tags of the board.
AtKernel(r) == r.job = "board-publish" /\ r.target = "kernel"
BoardTags(r, reg) ==
  /\ r.pc = "back" => Tag(r) \in DOMAIN reg
  /\ r.pc = "component" \/ AtKernel(r) \/ r.job \in {"product", "publish"} => Behind("pool", r.stamp, r.archive, reg)
  /\ r.job \in {"product", "publish"} => Behind("kernel", r.stamp, r.component, reg)

\* A package that may be published beside another.
Follows(new, old) == old.version <= new.version /\ (old.version = new.version => old = new)

\* What a run has checked against the board.
Later(r, log) == r.job # "plan" => \A k \in Ships(log) : log[k].stamp <= r.stamp
Guarded(r, log) ==
  r.job \in {"board-publish", "product", "publish"} => \A k \in Ships(log) : Follows(r.archive, log[k].lock.archive)
OneBuilt(r, log) ==
  r.job \notin {"plan", "components"} /\ r.built # None => Current(r, log) = {} /\ \E b \in Built : r.built = {b}
Chosen(r, log) ==
  AtKernel(r) \/ r.job \in {"product", "publish"} =>
    IF r.built = None THEN r.component \in Current(r, log) ELSE r.built = {r.component.content}
AgainstBoard(r, log) ==
  /\ Later(r, log) /\ Guarded(r, log) /\ OneBuilt(r, log) /\ Chosen(r, log)
  /\ r.job = "publish" => r.lock.component.content = r.lock.kernel

\* The visible releases of the board are in the order of their stamps.
InOrder(log) ==
  /\ Ships(log) # {} => \E m \in Ships(log) : \A k \in Ships(log) : k <= m
  /\ \A j, k \in Ships(log) : j < k => log[j].stamp <= log[k].stamp

\* Those of other boards are in one place, and are few.
OthersInOnePlace(log) ==
  \E n \in Nat : \A k \in DOMAIN log : log[k].product \notin Products => k \in n + 1 .. n + MaxOthers

\* The packages of a board are locked by their version, its kernels by their label.
Locked(log) ==
  \A i, j \in Ships(log) :
    /\ log[i].lock.archive.version = log[j].lock.archive.version => log[i].lock.archive = log[j].lock.archive
    /\ log[i].stamp < log[j].stamp => log[i].lock.archive.version <= log[j].lock.archive.version
OnBoardTags(g, reg) == Behind("pool", g.stamp, g.lock.archive, reg) /\ Behind("kernel", g.stamp, g.lock.component, reg)
Named(log) == \A k \in Ships(log) : log[k].lock.component.content = log[k].lock.kernel

SerialRun(i) ==
  /\ BoardTags(runs[i], registry)
  /\ runs[i].pc = "upload" => \A k \in Ships(releases) : k < runs[i].draft
  /\ i = Len(runs) /\ ~Labelled(runs[i], releases) => AgainstBoard(runs[i], releases)

SerialInv ==
  /\ \A i \in Active : i = Len(runs)
  /\ OthersInOnePlace(releases) /\ InOrder(releases)
  /\ \A k \in Ships(releases) : releases[k].stamp <= minute /\ OnBoardTags(releases[k], registry)
  /\ \A i \in DOMAIN runs : SerialRun(i)
  /\ Locked(releases)
  /\ Named(releases)

-----------------------------------------------------------------------------
(* The operators.                                                           *)

\* A step of a run changes that run alone.
LEMMA StepRuns ==
  ASSUME runs \in Seq(Runs), NEW i \in DOMAIN runs, NEW r \in Runs, Step(i, r)
  PROVE  /\ runs' \in Seq(Runs) /\ Len(runs') = Len(runs) /\ DOMAIN runs' = DOMAIN runs
         /\ runs'[i] = r /\ \A j \in DOMAIN runs : j # i => runs'[j] = runs[j]
BY DEF Step

\* What the releases and the assets are.
LEMMA ReleaseFacts ==
  ASSUME TypeInv
  PROVE  /\ \A k \in DOMAIN releases : releases[k] \in Releases
         /\ \A k \in DOMAIN releases : releases[k].product \in Products => releases[k] \in OfBoard
         /\ \A k \in DOMAIN releases : releases[k].draft => releases[k] \in OfBoard
         /\ \A k \in Shipped : releases[k] \in OfBoard
         /\ DOMAIN releases = 1 .. Len(releases) /\ Len(releases) \in Nat
<1>1. \A k \in DOMAIN releases : releases[k] \in Releases
  BY DEF TypeInv
<1>2. \A g \in OfOthers : g.product = Elsewhere /\ ~g.draft
  BY DEF OfOthers
<1>3. \A g \in Releases : g.product \in Products \/ g.draft => g \in OfBoard
  BY <1>2, ElsewhereAssumption DEF Releases
<1> QED
  BY <1>1, <1>3 DEF TypeInv, Shipped

\* What a plan gives: the newest release of the product, and a generation beyond it.
LEMMA PlanLines ==
  ASSUME TypeInv, NEW product \in Products, NEW stamp \in Nat, NEW floor \in Floors \cup {0},
         NEW line \in plan(product, stamp, floor)
  PROVE  /\ line.generation \in Nat /\ line.previous \subseteq OfBoard
         /\ history(product, stamp) = {} => line.previous = {}
         /\ history(product, stamp) # {} =>
              \E h \in Newest(history(product, stamp)) :
                line.previous = {h} /\ h.stamp < stamp /\ h.lock.generation < line.generation
<1> DEFINE hist == history(product, stamp)
           lines(previous, planned) ==
             IF floor # 0 /\ floor < planned THEN {}
             ELSE {[previous |-> previous, generation |-> IF floor = 0 THEN planned ELSE floor]}
<1>1. hist \subseteq OfBoard
  BY ReleaseFacts DEF history, Shown, Published
<1>2. floor \in Nat
  BY ReleaseAssumption
<1>3. \A previous : \A planned \in Nat : \A x \in lines(previous, planned) :
        x.previous = previous /\ x.generation \in Nat /\ planned <= x.generation
  BY <1>2
<1>4. CASE hist = {}
  <2>1. line \in lines({}, 2)
    BY <1>4 DEF plan
  <2> QED BY <1>3, <1>4, <2>1
<1>5. CASE hist # {}
  <2>1. PICK h \in Newest(hist) : h.stamp < stamp /\ line \in lines({h}, h.lock.generation + 1)
    BY <1>5 DEF plan
  <2>2. h \in OfBoard /\ h.lock.generation \in Nat
    BY <1>1 DEF Newest, OfBoard, Locks
  <2>3. line.previous = {h} /\ line.generation \in Nat /\ h.lock.generation + 1 <= line.generation
    BY <1>3, <2>1, <2>2
  <2> QED BY <1>5, <2>1, <2>2, <2>3
<1> QED
  BY <1>4, <1>5

\* The kernels of the releases that suit a run.
LEMMA ReuseType ==
  ASSUME TypeInv, NEW r
  PROVE  reuse(r) \subseteq Components
<1>1. \A g \in latestLockWith(r.product, r.stamp) : g \in OfBoard
  BY ReleaseFacts DEF latestLockWith, Newest, Page, Published
<1>2. \A g \in OfBoard : g.lock.component \in Components
  BY DEF OfBoard, Locks
<1> QED
  BY <1>1, <1>2 DEF reuse

-----------------------------------------------------------------------------
(* Types hold.                                                              *)

\* A run that is sound at a time, with the releases so far.
Sound(r, time, log) ==
  r \in Runs /\ r.stamp <= time /\ DraftOf(r, log) /\ StepOfJob(r) /\ Has(r)

\* A step of a run that changes nothing of the world but a tag or a failure.
LEMMA RunKeepsTypes ==
  ASSUME TypeInv, NEW i \in DOMAIN runs, NEW r, Sound(r, minute, releases), Step(i, r),
         UNCHANGED <<main, minute, releases, pushes>>, failures' \in 0 .. MaxFailures
  PROVE  TypeInv'
<1>1. r \in Runs /\ runs \in Seq(Runs)
  BY DEF Sound, TypeInv
<1>2. /\ runs' \in Seq(Runs) /\ DOMAIN runs' = DOMAIN runs
      /\ runs'[i] = r /\ \A j \in DOMAIN runs : j # i => runs'[j] = runs[j]
  BY <1>1, StepRuns
<1>3. \A j \in DOMAIN runs' : /\ runs'[j].stamp <= minute' /\ DraftOf(runs'[j], releases')
                              /\ StepOfJob(runs'[j]) /\ Has(runs'[j])
  BY <1>2 DEF Sound, TypeInv
<1> QED
  BY <1>2, <1>3 DEF TypeInv

\* The runs that a step starts from.
LEMMA RunFacts ==
  ASSUME TypeInv, NEW i \in DOMAIN runs
  PROVE  /\ Sound(runs[i], minute, releases) /\ runs[i] \in Runs /\ StepOfJob(runs[i]) /\ Has(runs[i])
         /\ runs[i].product \in Products /\ runs[i].stamp \in Nat /\ minute \in Nat /\ Len(releases) \in Nat
<1>1. runs[i] \in Runs /\ Sound(runs[i], minute, releases)
  BY DEF TypeInv, Sound
<1>2. minute \in Nat /\ Len(releases) \in Nat
  BY ReleaseFacts, ReleaseAssumption DEF TypeInv
<1> QED
  BY <1>1, <1>2 DEF Sound, Runs

\* A run that fails is sound.
LEMMA FailedSound ==
  ASSUME TypeInv, NEW i \in DOMAIN runs
  PROVE  Sound(Failed(runs[i]), minute, releases)
<1> DEFINE r == runs[i]
           q == Failed(r)
<1>1. r \in Runs /\ Has(r) /\ r.stamp <= minute /\ DraftOf(r, releases)
  BY RunFacts DEF Sound
<1>2. /\ q \in Runs /\ q.pc = "failed" /\ q.stamp = r.stamp /\ q.draft = r.draft /\ q.product = r.product
      /\ q.job = r.job /\ q.archive = r.archive /\ q.component = r.component
      /\ q.lock = r.lock /\ q.generation = r.generation /\ q.previous = r.previous
  BY <1>1 DEF Failed, Runs, Pcs
<1>3. LockOf(r) => LockOf(q)
  BY <1>2 DEF LockOf
<1>4. StepOfJob(q)
  BY <1>2 DEF StepOfJob, AtTag
<1>5. Has(q)
  BY <1>1, <1>2, <1>3 DEF Has, AtTag
<1> QED
  BY <1>1, <1>2, <1>4, <1>5 DEF Sound, DraftOf

\* Planning keeps the types.
LEMMA PlanningTypes ==
  ASSUME TypeInv, NEW i \in DOMAIN runs, Plan(i) \/ PlanComponents(i) \/ VersionGuard(i) \/ Replan(i)
  PROVE  TypeInv'
<1> DEFINE r == runs[i]
<1>0. /\ UNCHANGED <<main, minute, releases, pushes>> /\ failures' \in 0 .. MaxFailures
      /\ Sound(r, minute, releases) /\ r \in Runs /\ StepOfJob(r) /\ Has(r)
      /\ minute \in Nat /\ Len(releases) \in Nat /\ r.stamp \in Nat /\ r.product \in Products
  <2>1. UNCHANGED <<main, minute, releases, pushes, failures>>
    BY DEF Local, Plan, PlanComponents, VersionGuard, Replan
  <2>2. failures \in 0 .. MaxFailures
    BY DEF TypeInv
  <2> QED BY <2>1, <2>2, RunFacts
<1>1. CASE Refuse(i)
  BY <1>0, <1>1, FailedSound, RunKeepsTypes DEF Refuse
<1>2. CASE Plan(i) /\ ~Refuse(i)
  <2>0. PICK floor \in Floors \cup {0} : \E line \in plan(r.product, minute, floor) :
          Step(i, [r EXCEPT !.stamp = minute, !.generation = line.generation,
                            !.previous = line.previous, !.pc = "components", !.job = "components"])
    BY <1>2 DEF Plan
  <2>1. PICK line \in plan(r.product, minute, floor) :
          Step(i, [r EXCEPT !.stamp = minute, !.generation = line.generation,
                            !.previous = line.previous, !.pc = "components", !.job = "components"])
    BY <2>0
  <2>2. line.generation \in Nat /\ line.previous \subseteq OfBoard
    BY <1>0, <2>1, PlanLines
  <2> DEFINE q == [r EXCEPT !.stamp = minute, !.generation = line.generation,
                            !.previous = line.previous, !.pc = "components", !.job = "components"]
  <2>3. q \in Runs
    BY <1>0, <2>2 DEF Runs, Pcs, Jobs
  <2>4. Sound(q, minute, releases)
    BY <1>0, <2>3 DEF Sound, StepOfJob, Has, AtTag, Runs, DraftOf
  <2> QED BY <1>0, <2>1, <2>4, RunKeepsTypes
<1>3. CASE PlanComponents(i)
  <2>1. PICK built : /\ built \in IF reuse(r) # {} THEN {None} ELSE {{kernel} : kernel \in [inputs : {r.commit.kernel}, bytes : Bytes]}
                     /\ Step(i, [r EXCEPT !.built = built, !.pc = "guard", !.job = "guard"])
    BY <1>3 DEF PlanComponents
  <2>2. built \in SUBSET Built
    BY <1>0, <2>1 DEF None, Built, Runs, Commits
  <2> DEFINE q == [r EXCEPT !.built = built, !.pc = "guard", !.job = "guard"]
  <2>3. q \in Runs
    BY <1>0, <2>2 DEF Runs, Pcs, Jobs
  <2>4. Sound(q, minute, releases)
    BY <1>0, <2>3 DEF Sound, StepOfJob, Has, AtTag, Runs, DraftOf
  <2> QED BY <1>0, <2>1, <2>4, RunKeepsTypes
<1>4. CASE VersionGuard(i) /\ ~Refuse(i)
  <2>1. PICK bytes \in Bytes :
          Step(i, [r EXCEPT !.archive = [version |-> r.commit.version, inputs |-> r.commit.inputs, bytes |-> bytes],
                            !.pc = "check", !.target = "pool", !.job = "board-publish"])
    BY <1>4 DEF VersionGuard
  <2> DEFINE q == [r EXCEPT !.archive = [version |-> r.commit.version, inputs |-> r.commit.inputs, bytes |-> bytes],
                            !.pc = "check", !.target = "pool", !.job = "board-publish"]
  <2>2. q \in Runs /\ q.archive \in Packages
    BY <1>0 DEF Runs, Pcs, Jobs, Packages, Commits
  <2>3. Sound(q, minute, releases)
    BY <1>0, <2>2 DEF Sound, StepOfJob, Has, AtTag, Runs, DraftOf
  <2> QED BY <1>0, <2>1, <2>3, RunKeepsTypes
<1>5. CASE Replan(i) /\ ~Refuse(i)
  <2>0. r.pc = "replan" /\ \E floor \in Floors \cup {0} : \E line \in plan(r.product, r.stamp, floor) :
          Step(i, [r EXCEPT !.previous = line.previous, !.pc = "build"])
    BY <1>5 DEF Replan
  <2>1. PICK floor \in Floors \cup {0} : \E line \in plan(r.product, r.stamp, floor) :
          Step(i, [r EXCEPT !.previous = line.previous, !.pc = "build"])
    BY <2>0
  <2>6. PICK line \in plan(r.product, r.stamp, floor) :
          Step(i, [r EXCEPT !.previous = line.previous, !.pc = "build"])
    BY <2>1
  <2>2. line.previous \subseteq OfBoard
    BY <1>0, PlanLines
  <2> DEFINE q == [r EXCEPT !.previous = line.previous, !.pc = "build"]
  <2>3. q \in Runs
    BY <1>0, <2>2 DEF Runs, Pcs, Jobs
  <2>4. Sound(q, minute, releases)
    BY <1>0, <2>0, <2>3 DEF Sound, StepOfJob, Has, AtTag, Runs, DraftOf
  <2> QED BY <1>0, <2>4, <2>6, RunKeepsTypes
<1> QED
  BY <1>1, <1>2, <1>3, <1>4, <1>5
\* A run that moves on within its job has done the same work.
SameWork(q, r) ==
  /\ q.product = r.product /\ q.commit = r.commit /\ q.stamp = r.stamp /\ q.generation = r.generation
  /\ q.previous = r.previous /\ q.archive = r.archive /\ q.built = r.built
  /\ q.component = r.component /\ q.lock = r.lock /\ q.draft = r.draft

LEMMA MovedSound ==
  ASSUME TypeInv, NEW i \in DOMAIN runs, NEW q \in Runs, SameWork(q, runs[i]), q.job = runs[i].job,
         StepOfJob(q), AtTag(q) /\ q.target = "kernel" => q.component \in Components
  PROVE  Sound(q, minute, releases)
<1> DEFINE r == runs[i]
<1>1. Has(r) /\ r.stamp <= minute /\ DraftOf(r, releases)
  BY RunFacts DEF Sound
<1>2. LockOf(r) => LockOf(q)
  BY DEF LockOf, SameWork
<1>3. Has(q)
  BY <1>1, <1>2 DEF Has, SameWork
<1> QED
  BY <1>1, <1>3 DEF Sound, SameWork, DraftOf

\* The steps at a tag keep the types.
LEMMA TagTypes ==
  ASSUME TypeInv, NEW i \in DOMAIN runs, CheckTag(i) \/ PutTag(i) \/ ReadBackTag(i)
  PROVE  TypeInv'
<1> DEFINE r == runs[i]
<1>0. /\ UNCHANGED <<main, minute, releases, pushes>> /\ failures' \in 0 .. MaxFailures
      /\ r \in Runs /\ StepOfJob(r) /\ Has(r) /\ AtTag(r)
  BY RunFacts DEF TypeInv, Local, CheckTag, PutTag, ReadBackTag, AtTag
<1>1. CASE Refuse(i)
  BY <1>0, <1>1, FailedSound, RunKeepsTypes DEF Refuse
<1>2. \A p \in {"put", "back"} : Sound([r EXCEPT !.pc = p], minute, releases)
  <2> SUFFICES ASSUME NEW p \in {"put", "back"} PROVE Sound([r EXCEPT !.pc = p], minute, releases)
    OBVIOUS
  <2> DEFINE q == [r EXCEPT !.pc = p]
  <2>1. q \in Runs /\ SameWork(q, r) /\ q.job = r.job /\ q.target = r.target /\ q.pc = p
    BY <1>0 DEF Runs, Pcs, SameWork
  <2>2. StepOfJob(q) /\ (AtTag(q) /\ q.target = "kernel" => q.component \in Components)
    BY <1>0, <2>1 DEF StepOfJob, AtTag, Has, SameWork
  <2> QED BY <2>1, <2>2, MovedSound
<1>3. CASE CheckTag(i) /\ ~Refuse(i)
  BY <1>0, <1>2, <1>3, RunKeepsTypes DEF CheckTag
<1>4. CASE PutTag(i)
  BY <1>0, <1>2, <1>4, RunKeepsTypes DEF PutTag
<1>5. CASE ReadBackTag(i) /\ ~Refuse(i)
  <2>1. Step(i, After(r))
    BY <1>5 DEF ReadBackTag
  <2>2. Sound(After(r), minute, releases)
    <3>1. r.target \in {"pool", "kernel", "image", "update"}
      BY <1>0 DEF Runs
    <3>2. CASE r.target = "kernel"
      <4> DEFINE q == [r EXCEPT !.pc = "replan", !.job = "product"]
      <4>1. /\ q \in Runs /\ SameWork(q, r) /\ q.job = "product" /\ q.pc = "replan"
        BY <1>0 DEF Runs, Pcs, Jobs, SameWork
      <4>2. r.archive \in Packages /\ r.component \in Components
        BY <1>0, <3>2 DEF Has, StepOfJob, AtTag
      <4>3. Has(q) /\ StepOfJob(q)
        BY <4>1, <4>2 DEF Has, StepOfJob, AtTag, SameWork
      <4>4. After(r) = q
        BY <3>2 DEF After
      <4>5. Sound(q, minute, releases)
        BY <4>1, <4>3, RunFacts DEF Sound, SameWork, DraftOf
      <4> QED BY <4>4, <4>5
    <3>3. CASE r.target = "pool"
      <4> DEFINE q == [r EXCEPT !.pc = "component"]
      <4>1. q \in Runs /\ SameWork(q, r) /\ q.job = r.job /\ q.pc = "component"
        BY <1>0 DEF Runs, Pcs, SameWork
      <4>2. StepOfJob(q) /\ ~AtTag(q)
        BY <1>0, <3>3, <4>1 DEF StepOfJob, AtTag
      <4>3. After(r) = q
        BY <3>3 DEF After
      <4>4. Sound(q, minute, releases)
        BY <4>1, <4>2, MovedSound
      <4> QED BY <4>3, <4>4
    <3>4. CASE r.target = "image"
      <4> DEFINE q == [r EXCEPT !.pc = "check", !.target = "update"]
      <4>1. q \in Runs /\ SameWork(q, r) /\ q.job = r.job /\ q.pc = "check" /\ q.target = "update"
        BY <1>0 DEF Runs, Pcs, SameWork
      <4>2. StepOfJob(q)
        BY <1>0, <3>4, <4>1 DEF StepOfJob, AtTag
      <4>3. After(r) = q
        BY <3>4 DEF After
      <4>4. Sound(q, minute, releases)
        BY <4>1, <4>2, MovedSound
      <4> QED BY <4>3, <4>4
    <3>5. CASE r.target = "update"
      <4> DEFINE q == [r EXCEPT !.pc = "draft"]
      <4>1. q \in Runs /\ SameWork(q, r) /\ q.job = r.job /\ q.pc = "draft"
        BY <1>0 DEF Runs, Pcs, SameWork
      <4>2. StepOfJob(q) /\ ~AtTag(q)
        BY <1>0, <3>5, <4>1 DEF StepOfJob, AtTag
      <4>3. After(r) = q
        BY <3>5 DEF After
      <4>4. Sound(q, minute, releases)
        BY <4>1, <4>2, MovedSound
      <4> QED BY <4>3, <4>4
    <3> QED BY <3>1, <3>2, <3>3, <3>4, <3>5
  <2> QED BY <1>0, <2>1, <2>2, RunKeepsTypes
<1> QED
  BY <1>1, <1>3, <1>4, <1>5

\* The choice of the component and the product's build keep the types.
LEMMA BuildTypes ==
  ASSUME TypeInv, NEW i \in DOMAIN runs, ChooseComponent(i) \/ Build(i)
  PROVE  TypeInv'
<1> DEFINE r == runs[i]
<1>0. /\ UNCHANGED <<main, minute, releases, pushes>> /\ failures' \in 0 .. MaxFailures
      /\ r \in Runs /\ StepOfJob(r) /\ Has(r) /\ r.stamp \in Nat /\ r.product \in Products
  BY RunFacts DEF TypeInv, Local, ChooseComponent, Build
<1>1. CASE Refuse(i)
  BY <1>0, <1>1, FailedSound, RunKeepsTypes DEF Refuse
<1>2. CASE ChooseComponent(i) /\ ~Refuse(i)
  <2>1. PICK c : /\ Step(i, [r EXCEPT !.component = c, !.pc = "check", !.target = "kernel"])
                 /\ c \in reuse(r) \/ \E kernel \in r.built : c = [content |-> kernel, label |-> <<r.product, r.stamp>>]
    BY <1>2 DEF ChooseComponent
  <2>2. c \in Components
    BY <1>0, <2>1, ReuseType DEF Runs, Components
  <2>3. r.job = "board-publish" /\ r.archive \in Packages
    BY <1>0, <1>2 DEF ChooseComponent, StepOfJob, Has
  <2> DEFINE q == [r EXCEPT !.component = c, !.pc = "check", !.target = "kernel"]
  <2>4. /\ q \in Runs /\ q.pc = "check" /\ q.target = "kernel" /\ q.job = "board-publish" /\ q.component = c
        /\ q.archive = r.archive /\ q.stamp = r.stamp /\ q.draft = r.draft /\ q.product = r.product
    BY <1>0, <2>2, <2>3 DEF Runs, Pcs
  <2>5. StepOfJob(q) /\ Has(q)
    BY <2>2, <2>3, <2>4 DEF StepOfJob, Has, AtTag
  <2>6. Sound(q, minute, releases)
    BY <2>4, <2>5, RunFacts DEF Sound, DraftOf
  <2> QED BY <1>0, <2>1, <2>6, RunKeepsTypes
<1>3. CASE Build(i) /\ ~Refuse(i)
  <2> DEFINE Lock(kernel) == [generation |-> r.generation, kernel |-> kernel, rootfs |-> r.archive,
                          assets |-> Assets(r.previous, kernel, r.archive),
                          archive |-> r.archive, component |-> r.component]
             q(kernel) == [r EXCEPT !.lock = Lock(kernel), !.pc = "check", !.target = "image", !.job = "publish"]
  <2>1. PICK kernel \in Packed(r) : kernelGuard(r.previous, kernel) /\ Step(i, q(kernel))
    BY <1>3 DEF Build
  <2>2. kernel \in Built
    <3>1. \A c \in Components : c.content \in Built
      BY DEF Components
    <3>2. r.built \subseteq Built
      BY <1>0 DEF Runs
    <3> QED BY <2>1, <3>1, <3>2, ReuseType DEF Packed
  <2>3. r.job = "product" /\ r.archive \in Packages /\ r.component \in Components /\ r.generation \in Nat
    BY <1>0, <1>3 DEF Build, StepOfJob, Has, Runs
  <2>4. Lock(kernel) \in Locks
    BY <2>2, <2>3 DEF Locks, Assets, AssetFiles
  <2>5. /\ q(kernel) \in Runs /\ q(kernel).pc = "check" /\ q(kernel).target = "image" /\ q(kernel).job = "publish"
        /\ q(kernel).lock = Lock(kernel) /\ q(kernel).archive = r.archive /\ q(kernel).component = r.component
        /\ q(kernel).stamp = r.stamp /\ q(kernel).draft = r.draft /\ q(kernel).generation = r.generation
        /\ q(kernel).previous = r.previous /\ q(kernel).product = r.product
    <3> HIDE DEF Lock
    <3> QED BY <1>0, <2>4 DEF Runs, Pcs, Jobs
  <2>6. LockOf(q(kernel))
    <3>1. /\ Lock(kernel).generation = r.generation /\ Lock(kernel).rootfs = r.archive
          /\ Lock(kernel).archive = r.archive /\ Lock(kernel).component = r.component
          /\ Lock(kernel).kernel = kernel /\ Lock(kernel).assets = Assets(r.previous, kernel, r.archive)
      OBVIOUS
    <3> HIDE DEF q, Lock
    <3> QED BY <2>1, <2>4, <2>5, <3>1 DEF LockOf
  <2>7. StepOfJob(q(kernel)) /\ Has(q(kernel))
    BY <2>3, <2>5, <2>6 DEF StepOfJob, Has, AtTag
  <2>8. Sound(q(kernel), minute, releases)
    BY <2>5, <2>7, RunFacts DEF Sound, DraftOf
  <2> QED BY <1>0, <2>1, <2>8, RunKeepsTypes
<1> QED
  BY <1>1, <1>2, <1>3
\* The steps at the GitHub release keep the types.
LEMMA GitHubTypes ==
  ASSUME TypeInv, NEW i \in DOMAIN runs,
         ghCreateDraft(i) \/ ghUpload(i) \/ ghPublish(i) \/ ReadBackRelease(i)
  PROVE  TypeInv'
<1> DEFINE r == runs[i]
<1>0. /\ UNCHANGED <<main, minute, pushes, failures>> /\ runs \in Seq(Runs) /\ releases \in Seq(Releases)
      /\ r \in Runs /\ StepOfJob(r) /\ Has(r) /\ Sound(r, minute, releases) /\ Len(releases) \in Nat
      /\ r.stamp \in Nat /\ r.product \in Products
  BY RunFacts DEF TypeInv, Local, ghCreateDraft, ghUpload, ghPublish, ReadBackRelease
<1>1. CASE Refuse(i) /\ UNCHANGED releases
  BY <1>0, <1>1, FailedSound, RunKeepsTypes DEF Refuse, TypeInv
<1>2. ASSUME NEW p \in {"verify", "done"}, r.job = "publish"
      PROVE  Sound([r EXCEPT !.pc = p], minute, releases) /\ [r EXCEPT !.pc = p] \in Runs
  <2> DEFINE q == [r EXCEPT !.pc = p]
  <2>1. q \in Runs /\ SameWork(q, r) /\ q.job = r.job /\ q.pc = p
    BY <1>0 DEF Runs, Pcs, SameWork
  <2>2. StepOfJob(q) /\ ~AtTag(q)
    BY <1>2, <2>1 DEF StepOfJob, AtTag
  <2> QED BY <2>1, <2>2, MovedSound
<1>3. CASE ReadBackRelease(i)
  <2>1. r.job = "publish"
    BY <1>0, <1>3 DEF ReadBackRelease, StepOfJob
  <2> QED BY <1>0, <1>2, <1>3, <2>1, RunKeepsTypes DEF ReadBackRelease, Local, TypeInv
<1>4. CASE ghCreateDraft(i) /\ ~(Refuse(i) /\ UNCHANGED releases)
  <2> DEFINE g == [product |-> r.product, stamp |-> r.stamp, draft |-> TRUE, files |-> {}, lock |-> r.lock]
             n == Len(releases) + 1
             q == [r EXCEPT !.draft = n, !.pc = "upload"]
  <2>1. Step(i, q) /\ releases' = Append(releases, g) /\ r.job = "publish"
    BY <1>0, <1>4 DEF ghCreateDraft, StepOfJob
  <2>2. g \in Releases /\ g.files = {}
    BY <1>0, <2>1 DEF Releases, OfBoard, Has, LockOf
  <2>3. /\ releases' \in Seq(Releases) /\ Len(releases') = Len(releases) + 1
        /\ \A k \in DOMAIN releases' : (k \in DOMAIN releases /\ releases'[k] = releases[k]) \/ releases'[k] = g
        /\ \A k \in DOMAIN releases : releases'[k] = releases[k]
    BY <1>0, <2>1, <2>2
  <2>4. \A k \in DOMAIN releases' :
          releases'[k].product \in Products => releases'[k].files \subseteq releases'[k].lock.assets \cup LockFiles
    BY <2>2, <2>3 DEF TypeInv
  <2>5. /\ q \in Runs /\ q.pc = "upload" /\ q.draft = n /\ q.job = r.job /\ q.stamp = r.stamp /\ q.product = r.product
        /\ q.archive = r.archive /\ q.component = r.component /\ q.lock = r.lock
        /\ q.generation = r.generation /\ q.previous = r.previous
    <3>1. n \in Nat
      BY <1>0
    <3> HIDE DEF n
    <3> QED BY <1>0, <3>1 DEF Runs, Pcs
  <2>6. Sound(q, minute, releases')
    BY <1>0, <2>1, <2>3, <2>5 DEF Sound, StepOfJob, Has, LockOf, AtTag, DraftOf
  <2>7. /\ runs' \in Seq(Runs) /\ DOMAIN runs' = DOMAIN runs
        /\ runs'[i] = q /\ \A j \in DOMAIN runs : j # i => runs'[j] = runs[j]
    BY <1>0, <2>1, <2>5, StepRuns
  <2>8. \A j \in DOMAIN runs : Sound(runs[j], minute, releases') 
    <3> SUFFICES ASSUME NEW j \in DOMAIN runs PROVE Sound(runs[j], minute, releases')
      OBVIOUS
    <3>1. Sound(runs[j], minute, releases) /\ runs[j].draft \in Nat
      BY RunFacts DEF Runs
    <3>2. runs[j].draft # 0 => runs[j].draft \in DOMAIN releases
      BY <1>0, <3>1 DEF Sound, DraftOf
    <3> QED BY <1>0, <2>3, <3>1, <3>2 DEF Sound, DraftOf
  <2>9. \A j \in DOMAIN runs' : Sound(runs'[j], minute, releases')
    BY <2>6, <2>7, <2>8
  <2> QED BY <1>0, <2>3, <2>4, <2>7, <2>9 DEF TypeInv, Sound
<1>5. CASE ghUpload(i) \/ ghPublish(i)
  <2> DEFINE d == r.draft
             g == releases[d]
  <2>1. d \in DOMAIN releases /\ g \in OfBoard /\ g.files \subseteq g.lock.assets \cup LockFiles /\ g.lock.assets \subseteq AssetFiles
    <3>1. r.pc = "upload" /\ d # 0 /\ d \in Nat /\ d <= Len(releases) /\ g.product = r.product
      BY <1>0, <1>5 DEF ghUpload, ghPublish, StepOfJob, Sound, DraftOf, Runs
    <3>2. d \in DOMAIN releases /\ g \in OfBoard
      BY <1>0, <3>1, ReleaseFacts
    <3> QED BY <1>0, <3>1, <3>2 DEF TypeInv, OfBoard, Locks
  <2>2. PICK h \in OfBoard : /\ releases' = [releases EXCEPT ![d] = h]
                            /\ h.product = g.product /\ h.files \subseteq h.lock.assets \cup LockFiles
    <3>1. CASE ghUpload(i)
      <4> DEFINE more == {CHOOSE f \in Missing(g) : TRUE}
                 h == [g EXCEPT !.files = g.files \cup more]
      <4>1. more \subseteq g.lock.assets \cup LockFiles
        BY <3>1 DEF ghUpload, Missing, LockFiles
      <4>2. releases' = [releases EXCEPT ![d] = h]
        BY <1>0, <2>1, <3>1 DEF ghUpload
      <4> HIDE DEF more
      <4>3. h \in OfBoard /\ h.product = g.product /\ h.files \subseteq h.lock.assets \cup LockFiles
        BY <2>1, <4>1 DEF OfBoard
      <4> QED BY <4>2, <4>3
    <3>2. CASE ghPublish(i)
      <4> DEFINE h == [g EXCEPT !.draft = FALSE]
      <4>1. releases' = [releases EXCEPT ![d] = h]
        BY <1>0, <2>1, <3>2 DEF ghPublish
      <4>2. h \in OfBoard /\ h.product = g.product /\ h.files \subseteq h.lock.assets \cup LockFiles
        BY <2>1 DEF OfBoard
      <4> QED BY <4>1, <4>2
    <3> QED BY <1>5, <3>1, <3>2
  <2>3. /\ releases' \in Seq(Releases) /\ DOMAIN releases' = DOMAIN releases /\ Len(releases') = Len(releases)
        /\ releases'[d] = h /\ \A k \in DOMAIN releases : k # d => releases'[k] = releases[k]
    BY <1>0, <2>1, <2>2 DEF Releases
  <2>4. \A k \in DOMAIN releases' :
          releases'[k].product \in Products => releases'[k].files \subseteq releases'[k].lock.assets \cup LockFiles
    BY <2>2, <2>3 DEF TypeInv
  <2>5. \A q : \A time : Sound(q, time, releases) => Sound(q, time, releases')
    <3> SUFFICES ASSUME NEW q, NEW time, Sound(q, time, releases) PROVE DraftOf(q, releases')
      BY DEF Sound
    <3>1. q.draft # 0 => q.draft \in DOMAIN releases
      BY <1>0 DEF Sound, DraftOf, Runs
    <3> QED BY <2>2, <2>3, <3>1 DEF Sound, DraftOf
  <2>6. \A j \in DOMAIN runs : Sound(runs[j], minute, releases')
    BY <2>5, RunFacts
  <2>7. CASE ghUpload(i)
    BY <1>0, <2>3, <2>4, <2>6, <2>7 DEF ghUpload, TypeInv, Sound
  <2>8. CASE ghPublish(i)
    <3> DEFINE q == [r EXCEPT !.pc = "verify"]
    <3>1. Step(i, q) /\ Sound(q, minute, releases) /\ q \in Runs
      BY <1>0, <1>2, <2>8 DEF ghPublish, StepOfJob
    <3>2. /\ runs' \in Seq(Runs) /\ DOMAIN runs' = DOMAIN runs
          /\ runs'[i] = q /\ \A j \in DOMAIN runs : j # i => runs'[j] = runs[j]
      BY <1>0, <3>1, StepRuns
    <3>3. \A j \in DOMAIN runs' : Sound(runs'[j], minute, releases')
      BY <2>5, <2>6, <3>1, <3>2
    <3> QED BY <1>0, <2>3, <2>4, <3>2, <3>3 DEF TypeInv, Sound
  <2> QED BY <1>5, <2>7, <2>8
<1> QED
  BY <1>1, <1>3, <1>4, <1>5
\* Where a job starts again: its work so far is kept.
LEMMA FirstStepFacts ==
  ASSUME NEW r \in Runs
  PROVE  LET q == FirstStep(r)
         IN  /\ q \in Runs /\ SameWork(q, r) /\ q.job = r.job /\ q.pc # "upload" /\ q.pc \notin Ended
             /\ r.job = "board-publish" => q.pc = "check" /\ q.target = "pool"
             /\ r.job = "product" => q.pc = "replan"
             /\ r.job = "publish" => q.pc = "check" /\ q.target = "image"
             /\ r.job \in {"plan", "components", "guard"} => q.pc = r.job
<1> DEFINE Starts == {"plan", "components", "guard", "check", "replan"}
<1>1. \A p \in Starts : \A t \in {"pool", "image"} :
        LET s == [r EXCEPT !.pc = p, !.target = t]
        IN  s \in Runs /\ SameWork(s, r) /\ s.job = r.job /\ s.pc = p /\ s.target = t
  <2> SUFFICES ASSUME NEW p \in Starts, NEW t \in {"pool", "image"}
               PROVE  LET s == [r EXCEPT !.pc = p, !.target = t]
                      IN  s \in Runs /\ SameWork(s, r) /\ s.job = r.job /\ s.pc = p /\ s.target = t
    OBVIOUS
  <2>1. p \in Pcs
    BY DEF Pcs
  <2> HIDE DEF Starts
  <2> QED BY <2>1 DEF Runs, SameWork
<1>2. \A p \in Starts :
        LET s == [r EXCEPT !.pc = p]
        IN  s \in Runs /\ SameWork(s, r) /\ s.job = r.job /\ s.pc = p
  BY DEF Runs, SameWork, Pcs
<1>3. r.job \in {"plan", "components", "guard", "board-publish", "product", "publish"}
  BY DEF Runs, Jobs
<1>4. \A p \in Starts : p # "upload" /\ p \notin Ended
  BY DEF Ended
<1>5. CASE r.job = "board-publish"
  BY <1>1, <1>4, <1>5 DEF FirstStep
<1>6. CASE r.job = "product"
  BY <1>2, <1>4, <1>6 DEF FirstStep
<1>7. CASE r.job = "publish"
  BY <1>1, <1>4, <1>7 DEF FirstStep
<1>8. CASE r.job \in {"plan", "components", "guard"}
  BY <1>2, <1>4, <1>8 DEF FirstStep
<1> QED
  BY <1>3, <1>5, <1>6, <1>7, <1>8

\* A failure and a rerun keep the types.
LEMMA RerunTypes ==
  ASSUME TypeInv, NEW i \in DOMAIN runs, Fail(i) \/ Rerun(i)
  PROVE  TypeInv'
<1> DEFINE r == runs[i]
<1>0. /\ UNCHANGED <<main, minute, releases, pushes>>
      /\ r \in Runs /\ StepOfJob(r) /\ Has(r)
  BY RunFacts DEF Fail, Rerun, Local
<1>1. failures' \in 0 .. MaxFailures
  BY ReleaseAssumption DEF Fail, Rerun, Local, TypeInv
<1>2. CASE Fail(i)
  BY <1>0, <1>1, <1>2, FailedSound, RunKeepsTypes DEF Fail, Refuse
<1>3. CASE Rerun(i)
  <2> DEFINE q == FirstStep(r)
  <2>1. Step(i, q) /\ r.job \in Jobs
    BY <1>0, <1>3 DEF Rerun, Runs
  <2>2. /\ q \in Runs /\ SameWork(q, r) /\ q.job = r.job /\ q.pc # "upload"
        /\ r.job = "board-publish" => q.pc = "check" /\ q.target = "pool"
        /\ r.job = "product" => q.pc = "replan"
        /\ r.job = "publish" => q.pc = "check" /\ q.target = "image"
        /\ r.job \in {"plan", "components", "guard"} => q.pc = r.job
    BY <1>0, FirstStepFacts
  <2>3. StepOfJob(q) /\ ~(AtTag(q) /\ q.target = "kernel")
    BY <2>1, <2>2 DEF StepOfJob, AtTag, Jobs
  <2>4. Sound(q, minute, releases)
    BY <2>2, <2>3, MovedSound
  <2> QED BY <1>0, <1>1, <2>1, <2>4, RunKeepsTypes
<1> QED
  BY <1>2, <1>3

\* A dispatch and the world around the runs keep the types.
LEMMA WorldTypes ==
  ASSUME TypeInv, Push \/ Tick \/ ReleaseElsewhere \/ (\E product \in Products : Dispatch(product)) \/ UNCHANGED vars
  PROVE  TypeInv'
<1>0. /\ runs \in Seq(Runs) /\ releases \in Seq(Releases) /\ minute \in Nat /\ MaxOthers \in Nat /\ MaxMinutes \in Nat
      /\ MaxPushes \in Nat
      /\ \A j \in DOMAIN runs : Sound(runs[j], minute, releases)
  BY RunFacts, ReleaseAssumption DEF TypeInv
<1>1. CASE Push
  BY <1>0, <1>1 DEF Push, TypeInv
<1>2. CASE Tick
  <2>1. \A j \in DOMAIN runs : runs[j].stamp <= minute'
    BY <1>0, <1>2 DEF Tick, Sound, Runs
  <2> QED BY <1>0, <1>2, <2>1 DEF Tick, TypeInv
<1>3. CASE ReleaseElsewhere
  <2> DEFINE other == [product |-> Elsewhere, stamp |-> minute, draft |-> FALSE, files |-> LockFiles, lock |-> None]
             others == [n \in 1 .. MaxOthers |-> other]
  <2>1. releases' = releases \o others /\ UNCHANGED <<main, minute, runs, pushes, failures>>
    BY <1>3 DEF ReleaseElsewhere
  <2>2. other \in Releases /\ other.product = Elsewhere
    BY <1>0 DEF Releases, OfOthers
  <2>3. others \in Seq(Releases) /\ Len(others) = MaxOthers /\ \A n \in 1 .. MaxOthers : others[n] = other
    <3> HIDE DEF other
    <3> QED BY <1>0, <2>2
  <2>4. /\ releases' \in Seq(Releases) /\ Len(releases) <= Len(releases')
        /\ \A k \in DOMAIN releases : releases'[k] = releases[k]
        /\ \A k \in DOMAIN releases' : k \in DOMAIN releases \/ releases'[k].product = Elsewhere
    <3> HIDE DEF others
    <3> QED BY <1>0, <2>1, <2>2, <2>3
  <2>5. \A k \in DOMAIN releases' :
          releases'[k].product \in Products => releases'[k].files \subseteq releases'[k].lock.assets \cup LockFiles
    BY <2>4, ElsewhereAssumption DEF TypeInv
  <2>6. \A j \in DOMAIN runs : DraftOf(runs[j], releases')
    <3> SUFFICES ASSUME NEW j \in DOMAIN runs PROVE DraftOf(runs[j], releases')
      OBVIOUS
    <3>1. DraftOf(runs[j], releases) /\ runs[j].draft \in Nat
      BY <1>0 DEF Sound, Runs
    <3>2. runs[j].draft # 0 => runs[j].draft \in DOMAIN releases
      BY <1>0, <3>1 DEF DraftOf
    <3> QED BY <1>0, <2>4, <3>1, <3>2 DEF DraftOf
  <2> QED BY <1>0, <2>1, <2>4, <2>5, <2>6 DEF TypeInv
<1>4. CASE \E product \in Products : Dispatch(product)
  <2>1. PICK product \in Products : Dispatch(product)
    BY <1>4
  <2> DEFINE r == NewRun(product)
  <2>2. runs' = Append(runs, r) /\ UNCHANGED <<main, minute, releases, pushes, failures>>
    BY <2>1 DEF Dispatch
  <2>3. r \in Runs /\ StepOfJob(r) /\ Has(r) /\ r.stamp = 0 /\ r.draft = 0
    BY DEF TypeInv, NewRun, Runs, Pcs, Jobs, StepOfJob, Has, AtTag, None
  <2>4. Sound(r, minute, releases)
    BY <1>0, <2>3 DEF Sound, DraftOf
  <2>5. runs' \in Seq(Runs) /\ \A j \in DOMAIN runs' : (j \in DOMAIN runs /\ runs'[j] = runs[j]) \/ runs'[j] = r
    <3> HIDE DEF r
    <3> QED BY <1>0, <2>2, <2>3
  <2>6. \A j \in DOMAIN runs' : Sound(runs'[j], minute, releases)
    BY <1>0, <2>4, <2>5
  <2> QED BY <2>2, <2>5, <2>6 DEF TypeInv, Sound
<1>5. CASE UNCHANGED vars
  BY <1>5 DEF vars, TypeInv, DraftOf
<1> QED
  BY <1>1, <1>2, <1>3, <1>4, <1>5

\* A step of a run, by its name.
RunStep(i) ==
  \/ Plan(i) \/ PlanComponents(i) \/ VersionGuard(i)
  \/ CheckTag(i) \/ PutTag(i) \/ ReadBackTag(i) \/ ChooseComponent(i)
  \/ Replan(i) \/ Build(i)
  \/ ghCreateDraft(i) \/ ghUpload(i) \/ ghPublish(i) \/ ReadBackRelease(i)
  \/ Fail(i) \/ Rerun(i)
WorldStep == Push \/ Tick \/ ReleaseElsewhere \/ (\E product \in Products : Dispatch(product)) \/ UNCHANGED vars

LEMMA StepCases ==
  ASSUME [Next]_vars
  PROVE  WorldStep \/ \E i \in DOMAIN runs : RunStep(i)
BY DEF Next, WorldStep, RunStep

LEMMA TypeInit ==
  ASSUME Init
  PROVE  TypeInv
<1>1. runs \in Seq(Runs) /\ releases \in Seq(Releases) /\ DOMAIN runs = {} /\ DOMAIN releases = {}
  BY DEF Init
<1>2. main \in Commits /\ minute \in 1 .. MaxMinutes /\ pushes \in 0 .. MaxPushes /\ failures \in 0 .. MaxFailures
  BY ReleaseAssumption DEF Init
<1> QED BY <1>1, <1>2 DEF TypeInv

LEMMA TypeStep ==
  ASSUME TypeInv, [Next]_vars
  PROVE  TypeInv'
<1>1. CASE WorldStep
  BY <1>1, WorldTypes DEF WorldStep
<1>2. ASSUME NEW i \in DOMAIN runs, RunStep(i)
      PROVE  TypeInv'
  BY <1>2, PlanningTypes, TagTypes, BuildTypes, GitHubTypes, RerunTypes DEF RunStep
<1> QED
  BY <1>1, <1>2, StepCases

LEMMA TypeAlways == Spec => []TypeInv
<1> QED BY TypeInit, TypeStep, PTL DEF Spec

\* Every run, release and counter keeps its type: a run is of a product and of a
\* stamp that has come, its draft is one of the releases, and a release holds no
\* file that its lock does not name.
THEOREM TypeCorrect == Spec => []TypeOK
<1>1. TypeInv => TypeOK
  <2> SUFFICES ASSUME TypeInv PROVE TypeOK
    OBVIOUS
  <2>1. \A i \in DOMAIN runs : /\ runs[i].product \in Products /\ runs[i].commit \in Commits
                               /\ runs[i].stamp \in 0 .. minute /\ runs[i].draft \in 0 .. Len(releases)
    BY RunFacts DEF Sound, DraftOf, Runs
  <2> QED BY <2>1 DEF TypeInv, TypeOK
<1> QED
  BY <1>1, TypeAlways, PTL
-----------------------------------------------------------------------------
(* What is published is whole.                                              *)

LEMMA ShippedShips == Shipped = Ships(releases)
BY DEF Shipped, Ships

\* A step of a run leaves the other runs alone.
LEMMA StepOthers ==
  ASSUME TypeInv, NEW i \in DOMAIN runs, NEW q, Step(i, q)
  PROVE  /\ DOMAIN runs' = DOMAIN runs /\ Len(runs') = Len(runs)
         /\ runs'[i] = q /\ \A j \in DOMAIN runs : j # i => runs'[j] = runs[j]
BY DEF TypeInv, Step

\* A run that was at work, or is not, keeps the others out.
LEMMA StepExclusive ==
  ASSUME TypeInv, Exclusive, NEW i \in DOMAIN runs, NEW q, Step(i, q), q.product = runs[i].product,
         q.pc \in Ended \/ runs[i].pc \notin Ended
  PROVE  Exclusive'
<1>1. /\ DOMAIN runs' = DOMAIN runs
      /\ \A j \in DOMAIN runs : runs'[j].product = runs[j].product
      /\ Active' \subseteq Active
  BY StepOthers DEF Active
<1>2. \A j \in Active : j \in DOMAIN runs
  BY DEF Active
<1> QED
  BY <1>1, <1>2 DEF Exclusive

\* A step that only the run sees.
LEMMA LocalPublish ==
  ASSUME TypeInv, PublishInv, NEW i \in DOMAIN runs, NEW q, Step(i, q), Exclusive',
         RunTags(q, registry), Uploading(q, releases), UNCHANGED <<registry, releases>>
  PROVE  PublishInv'
<1>1. \A j \in DOMAIN runs' : RunTags(runs'[j], registry) /\ Uploading(runs'[j], releases)
  BY StepOthers DEF PublishInv
<1> QED
  BY <1>1 DEF PublishInv

\* A run that is not at its bundles or its draft.
LEMMA Elsewhen ==
  ASSUME NEW q, NEW reg, NEW log, q.pc # "upload", q.job = "publish" => q.pc \in {"failed", "done", "verify"}
  PROVE  RunTags(q, reg) /\ Uploading(q, log)
BY DEF RunTags, Uploading, AtTag

\* The steps before the bundles.
LEMMA EarlyPublish ==
  ASSUME TypeInv, PublishInv, NEW i \in DOMAIN runs,
         Plan(i) \/ PlanComponents(i) \/ VersionGuard(i) \/ ChooseComponent(i) \/ Replan(i) \/ Build(i)
           \/ ReadBackRelease(i) \/ Fail(i)
  PROVE  PublishInv'
<1> DEFINE r == runs[i]
<1>0. r \in Runs /\ StepOfJob(r) /\ UNCHANGED <<registry, releases>> /\ Exclusive
  BY RunFacts DEF Local, Plan, PlanComponents, VersionGuard, ChooseComponent, Replan, Build,
                  ReadBackRelease, Fail, PublishInv
<1>1. CASE Refuse(i)
  <2> DEFINE q == Failed(r)
  <2>1. q.pc = "failed" /\ q.product = r.product
    BY <1>0 DEF Failed, Runs
  <2>2. RunTags(q, registry) /\ Uploading(q, releases)
    BY <2>1, Elsewhen
  <2>3. Step(i, q)
    BY <1>1 DEF Refuse
  <2>4. Exclusive'
    BY <1>0, <2>1, <2>3, StepExclusive DEF Ended
  <2> QED BY <1>0, <2>2, <2>3, <2>4, LocalPublish
<1>2. ASSUME NEW q, Step(i, q), q.product = r.product, r.pc \notin Ended, q.pc # "upload",
             q.job = "publish" => q.pc = "done" \/ (q.pc = "check" /\ q.target = "image")
      PROVE  PublishInv'
  <2>1. RunTags(q, registry) /\ Uploading(q, releases)
    BY <1>2 DEF RunTags, Uploading, AtTag
  <2>2. Exclusive'
    BY <1>0, <1>2, StepExclusive
  <2> QED BY <1>0, <1>2, <2>1, <2>2, LocalPublish
<1>3. CASE Plan(i) /\ ~Refuse(i)
  <2>1. PICK a, b, c : Step(i, [r EXCEPT !.stamp = a, !.generation = b, !.previous = c, !.pc = "components", !.job = "components"])
    BY <1>3 DEF Plan
  <2>2. r.pc \notin Ended
    BY <1>3 DEF Plan, Ended
  <2> QED BY <1>0, <1>2, <2>1, <2>2 DEF Runs
<1>4. CASE PlanComponents(i)
  <2>1. PICK a : Step(i, [r EXCEPT !.built = a, !.pc = "guard", !.job = "guard"])
    BY <1>4 DEF PlanComponents
  <2>2. r.pc \notin Ended
    BY <1>4 DEF PlanComponents, Ended
  <2> QED BY <1>0, <1>2, <2>1, <2>2 DEF Runs
<1>5. CASE VersionGuard(i) /\ ~Refuse(i)
  <2>1. PICK a : Step(i, [r EXCEPT !.archive = a, !.pc = "check", !.target = "pool", !.job = "board-publish"])
    BY <1>5 DEF VersionGuard
  <2>2. r.pc \notin Ended
    BY <1>5 DEF VersionGuard, Ended
  <2> QED BY <1>0, <1>2, <2>1, <2>2 DEF Runs
<1>6. CASE ChooseComponent(i) /\ ~Refuse(i)
  <2>1. PICK c : Step(i, [r EXCEPT !.component = c, !.pc = "check", !.target = "kernel"])
    BY <1>6 DEF ChooseComponent
  <2>2. r.pc \notin Ended /\ r.job = "board-publish"
    BY <1>0, <1>6 DEF ChooseComponent, Ended, StepOfJob
  <2> QED BY <1>0, <1>2, <2>1, <2>2 DEF Runs
<1>7. CASE Replan(i) /\ ~Refuse(i)
  <2>1. PICK a : Step(i, [r EXCEPT !.previous = a, !.pc = "build"])
    BY <1>7 DEF Replan
  <2>2. r.pc \notin Ended /\ r.job = "product"
    BY <1>0, <1>7 DEF Replan, Ended, StepOfJob
  <2> QED BY <1>0, <1>2, <2>1, <2>2 DEF Runs
<1>8. CASE Build(i) /\ ~Refuse(i)
  <2>1. PICK a : Step(i, [r EXCEPT !.lock = a, !.pc = "check", !.target = "image", !.job = "publish"])
    BY <1>8 DEF Build
  <2>2. r.pc \notin Ended
    BY <1>8 DEF Build, Ended
  <2> QED BY <1>0, <1>2, <2>1, <2>2 DEF Runs
<1>9. CASE ReadBackRelease(i)
  <2>1. Step(i, [r EXCEPT !.pc = "done"]) /\ r.pc \notin Ended
    BY <1>9 DEF ReadBackRelease, Ended
  <2> QED BY <1>0, <1>2, <2>1 DEF Runs
<1> QED
  BY <1>1, <1>3, <1>4, <1>5, <1>6, <1>7, <1>8, <1>9 DEF Fail

\* What a bundle's run compares is what its release will be held to.
LEMMA BundleTag ==
  ASSUME NEW r, NEW reg, r.target \in {"image", "update"}
  PROVE  /\ Tag(r) = <<r.target, r.product, r.stamp>> /\ Manifest(r) = Bundle(r)
         /\ Held(r.target, r, reg) <=> Tag(r) \in DOMAIN reg /\ reg[Tag(r)] = Manifest(r)
BY DEF Tag, Manifest, Bundle, Held

\* The steps at a tag.
LEMMA TagPublish ==
  ASSUME TypeInv, PublishInv, NEW i \in DOMAIN runs, CheckTag(i) \/ ReadBackTag(i)
  PROVE  PublishInv'
<1> DEFINE r == runs[i]
<1>0. /\ r \in Runs /\ StepOfJob(r) /\ UNCHANGED <<registry, releases>> /\ Exclusive
      /\ AtTag(r) /\ r.pc \notin Ended /\ RunTags(r, registry)
  BY RunFacts DEF Local, CheckTag, ReadBackTag, PublishInv, AtTag, Ended
<1>1. ASSUME NEW q, Step(i, q), q.product = r.product, RunTags(q, registry), q.pc # "upload"
      PROVE  PublishInv'
  <2>1. Uploading(q, releases)
    BY <1>1 DEF Uploading
  <2>2. Exclusive'
    BY <1>0, <1>1, StepExclusive
  <2> QED BY <1>0, <1>1, <2>1, <2>2, LocalPublish
<1>2. CASE Refuse(i)
  <2> DEFINE q == Failed(r)
  <2>1. q.pc = "failed" /\ q.product = r.product
    BY <1>0 DEF Failed, Runs
  <2>2. RunTags(q, registry)
    BY <2>1 DEF RunTags, AtTag
  <2> QED BY <1>1, <1>2, <2>1, <2>2 DEF Refuse
<1>3. ASSUME NEW p \in {"put", "back"},
             p = "put" => Tag(r) \notin DOMAIN registry,
             p = "back" => Tag(r) \in DOMAIN registry /\ registry[Tag(r)] = Manifest(r),
             Step(i, [r EXCEPT !.pc = p])
      PROVE  PublishInv'
  <2> DEFINE q == [r EXCEPT !.pc = p]
  <2>1. /\ q.pc = p /\ q.job = r.job /\ q.target = r.target /\ q.product = r.product
        /\ q.stamp = r.stamp /\ q.lock = r.lock
    BY <1>0 DEF Runs
  <2>2. Tag(q) = Tag(r) /\ \A type : Held(type, q, registry) <=> Held(type, r, registry)
    BY <2>1 DEF Tag, Held, Bundle
  <2>3. q.job = "publish" => q.target \in {"image", "update"}
    BY <1>0, <2>1 DEF StepOfJob
  <2>4. q.job = "publish" /\ p = "back" => Held(q.target, q, registry)
    BY <1>3, <2>1, <2>2, <2>3, BundleTag
  <2>5. q.job = "publish" /\ q.target = "update" => Held("image", q, registry)
    BY <1>0, <2>1, <2>2 DEF RunTags
  <2>6. RunTags(q, registry)
    BY <1>3, <2>1, <2>2, <2>4, <2>5 DEF RunTags, AtTag
  <2> QED BY <1>1, <1>3, <2>1, <2>6
<1>4. CASE CheckTag(i) /\ ~Refuse(i)
  BY <1>3, <1>4 DEF CheckTag
<1>5. CASE ReadBackTag(i) /\ ~Refuse(i)
  <2>0. Step(i, After(r)) /\ r.pc = "back" /\ r.target \in {"pool", "kernel", "image", "update"}
    BY <1>0, <1>5 DEF ReadBackTag, Runs
  <2>1. CASE r.target = "pool"
    <3> DEFINE q == [r EXCEPT !.pc = "component"]
    <3>1. After(r) = q /\ q.pc = "component" /\ q.product = r.product /\ q.job = r.job
      BY <1>0, <2>1 DEF After, Runs
    <3>2. RunTags(q, registry)
      BY <3>1 DEF RunTags, AtTag
    <3> QED BY <1>1, <2>0, <3>1, <3>2
  <2>2. CASE r.target = "kernel"
    <3> DEFINE q == [r EXCEPT !.pc = "replan", !.job = "product"]
    <3>1. After(r) = q /\ q.pc = "replan" /\ q.product = r.product
      BY <1>0, <2>2 DEF After, Runs
    <3>2. RunTags(q, registry)
      BY <3>1 DEF RunTags, AtTag
    <3> QED BY <1>1, <2>0, <3>1, <3>2
  <2>3. CASE r.target = "image"
    <3> DEFINE q == [r EXCEPT !.pc = "check", !.target = "update"]
    <3>1. /\ After(r) = q /\ q.pc = "check" /\ q.target = "update" /\ q.product = r.product
          /\ q.stamp = r.stamp /\ q.lock = r.lock /\ q.job = r.job
      BY <1>0, <2>3 DEF After, Runs
    <3>2. r.job = "publish" => Held("image", r, registry)
      BY <1>0, <2>0, <2>3 DEF RunTags
    <3>3. RunTags(q, registry)
      BY <3>1, <3>2 DEF RunTags, AtTag, Held, Bundle
    <3> QED BY <1>1, <2>0, <3>1, <3>3
  <2>4. CASE r.target = "update"
    <3> DEFINE q == [r EXCEPT !.pc = "draft"]
    <3>1. /\ After(r) = q /\ q.pc = "draft" /\ q.product = r.product
          /\ q.stamp = r.stamp /\ q.lock = r.lock /\ q.job = r.job
      BY <1>0, <2>4 DEF After, Runs
    <3>2. r.job = "publish" => Held("image", r, registry) /\ Held("update", r, registry)
      BY <1>0, <2>0, <2>4 DEF RunTags
    <3>3. RunTags(q, registry)
      BY <3>1, <3>2 DEF RunTags, AtTag, Held, Bundle
    <3> QED BY <1>1, <2>0, <3>1, <3>3
  <2> QED BY <2>0, <2>1, <2>2, <2>3, <2>4
<1> QED
  BY <1>2, <1>4, <1>5

\* A tag that is put stays, and no bundle of another run or release moves.
LEMMA PutTagPublish ==
  ASSUME TypeInv, PublishInv, NEW i \in DOMAIN runs, PutTag(i)
  PROVE  PublishInv'
<1> DEFINE r == runs[i]
           q == [r EXCEPT !.pc = "back"]
<1>0. /\ r \in Runs /\ StepOfJob(r) /\ UNCHANGED releases /\ Exclusive /\ Step(i, q)
      /\ AtTag(r) /\ r.pc = "put" /\ r.pc \notin Ended /\ RunTags(r, registry)
      /\ registry' = [tag \in DOMAIN registry \cup {Tag(r)} |-> IF tag = Tag(r) THEN Manifest(r) ELSE registry[tag]]
  BY RunFacts DEF PutTag, PublishInv, AtTag, Ended
<1>1. /\ q.pc = "back" /\ q.job = r.job /\ q.target = r.target /\ q.product = r.product
      /\ q.stamp = r.stamp /\ q.lock = r.lock
  BY <1>0 DEF Runs
<1>2. \/ r.job = "board-publish" /\ r.target \in {"pool", "kernel"} /\ Tag(r) = <<r.target, r.stamp>>
      \/ r.job = "publish" /\ r.target \in {"image", "update"} /\ Tag(r) \notin DOMAIN registry
           /\ Tag(r) = <<r.target, r.product, r.stamp>>
  BY <1>0 DEF StepOfJob, Tag, RunTags
<1>3. /\ DOMAIN registry' = DOMAIN registry \cup {Tag(r)} /\ registry'[Tag(r)] = Manifest(r)
      /\ \A tag \in DOMAIN registry : tag # Tag(r) => registry'[tag] = registry[tag]
  BY <1>0
<1>4. \A type : \A g : Held(type, g, registry) => Held(type, g, registry')
  <2> SUFFICES ASSUME NEW type, NEW g, Held(type, g, registry) PROVE Held(type, g, registry')
    OBVIOUS
  <2>1. <<type, g.product, g.stamp>> # Tag(r)
    BY <1>2 DEF Held
  <2> QED BY <1>3, <2>1 DEF Held
<1>5. RunTags(q, registry') /\ Uploading(q, releases)
  <2>1. r.job = "publish" => Held(q.target, q, registry')
    <3> SUFFICES ASSUME r.job = "publish" PROVE Held(q.target, q, registry')
      OBVIOUS
    <3>1. q.target \in {"image", "update"} /\ Tag(q) = Tag(r) /\ Manifest(q) = Manifest(r)
      BY <1>1, <1>2 DEF Tag, Manifest
    <3> HIDE DEF q
    <3> QED BY <1>3, <3>1, BundleTag
  <2>2. r.job = "publish" /\ r.target = "update" => Held("image", r, registry')
    BY <1>0, <1>4 DEF RunTags
  <2>3. r.job = "publish" /\ q.target = "update" => Held("image", q, registry')
    BY <1>1, <2>2 DEF Held, Bundle
  <2> QED BY <1>1, <2>1, <2>3 DEF RunTags, Uploading, AtTag
<1>6. ASSUME NEW j \in DOMAIN runs, j # i
      PROVE  RunTags(runs[j], registry')
  <2> DEFINE s == runs[j]
  <2>1. RunTags(s, registry) /\ StepOfJob(s) /\ s \in Runs
    BY RunFacts DEF PublishInv
  <2>2. s.job = "publish" /\ s.pc = "put" => Tag(s) \notin DOMAIN registry'
    <3> SUFFICES ASSUME s.job = "publish", s.pc = "put" PROVE Tag(s) \notin DOMAIN registry'
      OBVIOUS
    <3>1. Tag(s) \notin DOMAIN registry /\ Tag(s) = <<s.target, s.product, s.stamp>>
      BY <2>1 DEF RunTags, StepOfJob, AtTag, Tag
    <3>2. s.product # r.product
      BY <1>0, <1>6 DEF Exclusive, Active, Ended
    <3>3. Tag(s) # Tag(r)
      BY <1>2, <3>1, <3>2
    <3> QED BY <1>3, <3>1, <3>3
  <2> QED BY <1>4, <2>1, <2>2 DEF RunTags
<1>7. Exclusive'
  BY <1>0, <1>1, StepExclusive
<1>8. \A j \in DOMAIN runs' : RunTags(runs'[j], registry') /\ Uploading(runs'[j], releases)
  <2>1. /\ DOMAIN runs' = DOMAIN runs /\ runs'[i] = q /\ \A j \in DOMAIN runs : j # i => runs'[j] = runs[j]
    BY <1>0, StepOthers
  <2> HIDE DEF q
  <2>2. \A j \in DOMAIN runs : Uploading(runs[j], releases)
    BY DEF PublishInv
  <2> QED BY <1>5, <1>6, <2>1, <2>2
<1>9. \A k \in Ships(releases) : Whole(releases[k], registry')
  BY <1>4 DEF PublishInv, Whole
<1> QED
  BY <1>0, <1>7, <1>8, <1>9 DEF PublishInv
\* A rerun starts its job anew when no run of its product is at work.
LEMMA RerunPublish ==
  ASSUME TypeInv, PublishInv, NEW i \in DOMAIN runs, Rerun(i)
  PROVE  PublishInv'
<1> DEFINE r == runs[i]
           q == FirstStep(r)
<1>0. r \in Runs /\ Step(i, q) /\ UNCHANGED <<registry, releases>> /\ Exclusive
  BY RunFacts DEF Rerun, Local, PublishInv
<1>1. /\ q.product = r.product /\ q.job = r.job /\ q.pc # "upload"
      /\ r.job = "publish" => q.pc = "check" /\ q.target = "image"
  BY <1>0, FirstStepFacts DEF SameWork
<1> HIDE DEF q
<1>2. RunTags(q, registry) /\ Uploading(q, releases)
  BY <1>1 DEF RunTags, Uploading, AtTag
<1>3. Exclusive'
  <2>1. /\ DOMAIN runs' = DOMAIN runs /\ runs'[i] = q /\ \A j \in DOMAIN runs : j # i => runs'[j] = runs[j]
    BY <1>0, StepOthers
  <2>2. \A j \in DOMAIN runs : runs'[j].product = runs[j].product
    BY <1>1, <2>1
  <2>3. \A j \in Active' : j \in DOMAIN runs /\ (j # i => j \in Active)
    BY <2>1 DEF Active
  <2>4. \A j \in Active : SideBySide /\ runs[j].product # r.product
    BY DEF Rerun
  <2> QED BY <1>0, <2>2, <2>3, <2>4 DEF Exclusive
<1> QED
  BY <1>0, <1>2, <1>3, LocalPublish

\* The releases of the board that are visible do not change.
SameShips(old, new) ==
  /\ Ships(new) = Ships(old) /\ DOMAIN old \subseteq DOMAIN new
  /\ \A k \in Ships(old) : new[k] = old[k]
  /\ \A k \in DOMAIN old : new[k].draft = old[k].draft /\ new[k].product = old[k].product
                           /\ new[k].stamp = old[k].stamp /\ new[k].lock = old[k].lock

\* What is true of the visible releases, of a run and of a draft stays so.
LEMMA SameShipsPublish ==
  ASSUME PublishInv, Exclusive', SameShips(releases, releases'), UNCHANGED registry,
         \A j \in DOMAIN runs' : /\ RunTags(runs'[j], registry)
                                 /\ Uploading(runs'[j], releases) \/ Uploading(runs'[j], releases')
  PROVE  PublishInv'
<1>1. \A q : Uploading(q, releases) => Uploading(q, releases')
  <2> SUFFICES ASSUME NEW q, Uploading(q, releases) PROVE Uploading(q, releases')
    OBVIOUS
  <2>1. Labelled(q, releases') => Labelled(q, releases)
    BY DEF Labelled, SameShips
  <2> QED BY <2>1 DEF Uploading, SameShips
<1>2. \A k \in Ships(releases') : Whole(releases'[k], registry)
  BY DEF PublishInv, SameShips
<1>3. \A j, k \in Ships(releases') :
        releases'[j].product = releases'[k].product /\ releases'[j].stamp = releases'[k].stamp => j = k
  BY DEF PublishInv, SameShips
<1> QED
  BY <1>1, <1>2, <1>3 DEF PublishInv

\* The draft of a release and its files.
LEMMA DraftPublish ==
  ASSUME TypeInv, PublishInv, NEW i \in DOMAIN runs, ghCreateDraft(i) \/ ghUpload(i)
  PROVE  PublishInv'
<1> DEFINE r == runs[i]
<1>0. /\ r \in Runs /\ StepOfJob(r) /\ Has(r) /\ UNCHANGED registry /\ Exclusive /\ releases \in Seq(Releases)
      /\ RunTags(r, registry) /\ Uploading(r, releases) /\ r.pc \notin Ended /\ r.job = "publish"
      /\ r.product \in Products
  BY RunFacts DEF ghCreateDraft, ghUpload, PublishInv, TypeInv, Ended, StepOfJob
<1>1. CASE Refuse(i) /\ UNCHANGED releases
  <2> DEFINE q == Failed(r)
  <2>1. q.pc = "failed" /\ q.product = r.product
    BY <1>0 DEF Failed, Runs
  <2>2. RunTags(q, registry) /\ Uploading(q, releases)
    BY <2>1, Elsewhen
  <2>3. Step(i, q)
    BY <1>1 DEF Refuse
  <2>4. Exclusive'
    BY <1>0, <2>1, <2>3, StepExclusive DEF Ended
  <2> QED BY <1>0, <1>1, <2>2, <2>3, <2>4, LocalPublish
<1>2. CASE ghCreateDraft(i) /\ ~(Refuse(i) /\ UNCHANGED releases)
  <2> DEFINE g == [product |-> r.product, stamp |-> r.stamp, draft |-> TRUE, files |-> {}, lock |-> r.lock]
             n == Len(releases) + 1
             q == [r EXCEPT !.draft = n, !.pc = "upload"]
  <2>1. /\ Step(i, q) /\ releases' = Append(releases, g) /\ r.pc = "draft"
        /\ ~ \E h \in Shown : h.product = r.product /\ h.stamp = r.stamp
    BY <1>2 DEF ghCreateDraft
  <2>2. n \notin DOMAIN releases /\ DOMAIN releases' = DOMAIN releases \cup {n} /\ releases'[n] = g
        /\ \A k \in DOMAIN releases : releases'[k] = releases[k]
    BY <1>0, <2>1
  <2>3. SameShips(releases, releases')
    BY <2>2 DEF SameShips, Ships
  <2>4. /\ q.pc = "upload" /\ q.product = r.product /\ q.stamp = r.stamp /\ q.lock = r.lock
        /\ q.job = r.job /\ q.draft = n
    <3> HIDE DEF n
    <3> QED BY <1>0 DEF Runs
  <2>5. ~Labelled(q, releases')
    BY <2>1, <2>3, <2>4 DEF Labelled, SameShips, Ships, Shown, Published
  <2> HIDE DEF q
  <2>6. Uploading(q, releases')
    BY <2>2, <2>4, <2>5 DEF Uploading
  <2>7. RunTags(q, registry)
    BY <1>0, <2>1, <2>4 DEF RunTags, Held, Bundle, AtTag
  <2>8. Exclusive'
    BY <1>0, <2>1, <2>4, StepExclusive
  <2>9. \A j \in DOMAIN runs' : /\ RunTags(runs'[j], registry)
                                /\ Uploading(runs'[j], releases) \/ Uploading(runs'[j], releases')
    BY <2>1, <2>6, <2>7, StepOthers DEF PublishInv
  <2> QED BY <1>0, <2>3, <2>8, <2>9, SameShipsPublish
<1>3. CASE ghUpload(i)
  <2> DEFINE d == r.draft
  <2>1. PICK files : releases' = [releases EXCEPT ![d].files = files]
    BY <1>3 DEF ghUpload
  <2>2. d \in DOMAIN releases /\ releases[d].draft /\ UNCHANGED <<runs, registry>>
    BY <1>0, <1>3 DEF ghUpload, Uploading
  <2>3. /\ DOMAIN releases' = DOMAIN releases /\ \A k \in DOMAIN releases : k # d => releases'[k] = releases[k]
        /\ releases'[d] = [releases[d] EXCEPT !.files = files]
    BY <1>0, <2>1, <2>2
  <2>4. releases[d] \in OfBoard
    BY <2>2, ReleaseFacts
  <2>5. /\ releases'[d].draft = releases[d].draft /\ releases'[d].product = releases[d].product
        /\ releases'[d].stamp = releases[d].stamp /\ releases'[d].lock = releases[d].lock
    BY <2>3, <2>4 DEF OfBoard
  <2>6. SameShips(releases, releases')
    BY <2>2, <2>3, <2>5 DEF SameShips, Ships
  <2>7. Exclusive' /\ \A j \in DOMAIN runs' : RunTags(runs'[j], registry) /\ Uploading(runs'[j], releases)
    BY <2>2 DEF PublishInv, Exclusive, Active
  <2> QED BY <2>2, <2>6, <2>7, SameShipsPublish
<1> QED
  BY <1>1, <1>2, <1>3

\* A draft that is published has every file of its lock, and its bundles are behind their tags.
LEMMA DraftWhole ==
  ASSUME TypeInv, PublishInv, NEW i \in DOMAIN runs, ghPublish(i)
  PROVE  LET d == runs[i].draft
         IN  /\ d \in DOMAIN releases /\ releases[d].draft /\ releases[d] \in OfBoard
             /\ releases[d].product = runs[i].product /\ releases[d].stamp = runs[i].stamp
             /\ releases[d].lock = runs[i].lock /\ ~Labelled(runs[i], releases)
             /\ DOMAIN releases' = DOMAIN releases
             /\ \A k \in DOMAIN releases : k # d => releases'[k] = releases[k]
             /\ releases'[d] = [releases[d] EXCEPT !.draft = FALSE]
             /\ ~releases'[d].draft /\ releases'[d].product = runs[i].product /\ releases'[d].stamp = runs[i].stamp
             /\ releases'[d].lock = runs[i].lock
             /\ Ships(releases') = Ships(releases) \cup {d} /\ d \notin Ships(releases)
             /\ Whole(releases'[d], registry)
<1> DEFINE r == runs[i]
           d == r.draft
<1>1. /\ releases \in Seq(Releases) /\ Uploading(r, releases) /\ RunTags(r, registry) /\ r.pc = "upload"
      /\ r.product \in Products /\ StepOfJob(r) /\ Missing(releases[d]) = {}
      /\ releases' = [releases EXCEPT ![d].draft = FALSE]
  BY RunFacts DEF PublishInv, TypeInv, ghPublish
<1>2. /\ d \in DOMAIN releases /\ releases[d].draft /\ releases[d].product = r.product
      /\ releases[d].stamp = r.stamp /\ releases[d].lock = r.lock /\ ~Labelled(r, releases)
  BY <1>1 DEF Uploading
<1>3. releases[d] \in OfBoard /\ releases[d].files \subseteq releases[d].lock.assets \cup LockFiles
  BY <1>1, <1>2, ReleaseFacts DEF TypeInv
<1>4. /\ DOMAIN releases' = DOMAIN releases /\ \A k \in DOMAIN releases : k # d => releases'[k] = releases[k]
      /\ releases'[d] = [releases[d] EXCEPT !.draft = FALSE]
  BY <1>1, <1>2
<1>5. /\ ~releases'[d].draft /\ releases'[d].product = r.product /\ releases'[d].stamp = r.stamp
      /\ releases'[d].lock = r.lock /\ releases'[d].files = releases[d].files
  BY <1>2, <1>3, <1>4 DEF OfBoard
<1>6. Ships(releases') = Ships(releases) \cup {d} /\ d \notin Ships(releases)
  BY <1>1, <1>2, <1>4, <1>5 DEF Ships
<1>7. releases[d].files = r.lock.assets \cup LockFiles
  BY <1>1, <1>2, <1>3 DEF Missing, LockFiles
<1>8. Held("image", r, registry) /\ Held("update", r, registry)
  BY <1>1 DEF RunTags, StepOfJob
<1>9. Whole(releases'[d], registry)
  BY <1>5, <1>7, <1>8 DEF Whole, Held, Bundle
<1> QED
  BY <1>2, <1>3, <1>4, <1>5, <1>6, <1>9

LEMMA ReleasePublish ==
  ASSUME TypeInv, PublishInv, NEW i \in DOMAIN runs, ghPublish(i)
  PROVE  PublishInv'
<1> DEFINE r == runs[i]
           d == r.draft
           q == [r EXCEPT !.pc = "verify"]
<1>1. /\ r \in Runs /\ Step(i, q) /\ UNCHANGED registry /\ Exclusive /\ r.pc = "upload"
  BY RunFacts DEF ghPublish, PublishInv
<1>2. q.pc = "verify" /\ q.product = r.product
  BY <1>1 DEF Runs
<1> HIDE DEF q
<1>3. /\ DOMAIN runs' = DOMAIN runs /\ runs'[i] = q /\ \A j \in DOMAIN runs : j # i => runs'[j] = runs[j]
  BY <1>1, StepOthers
<1>4. Exclusive'
  BY <1>1, <1>2, StepExclusive DEF Ended
<1>10. /\ Ships(releases') = Ships(releases) \cup {d} /\ d \notin Ships(releases)
       /\ \A k \in Ships(releases) : releases'[k] = releases[k]
       /\ releases'[d].product = r.product /\ releases'[d].stamp = r.stamp
  BY DraftWhole DEF Ships
<1>5. RunTags(q, registry) /\ Uploading(q, releases')
  BY <1>2 DEF RunTags, Uploading, AtTag
<1>6. ASSUME NEW j \in DOMAIN runs, j # i
      PROVE  RunTags(runs[j], registry) /\ Uploading(runs[j], releases')
  <2>1. RunTags(runs[j], registry) /\ Uploading(runs[j], releases)
    BY DEF PublishInv
  <2>2. CASE runs[j].pc = "upload"
    <3>1. runs[j].product # r.product
      BY <1>1, <1>6, <2>2 DEF Exclusive, Active, Ended
    <3>2. runs[j].draft # d /\ releases'[runs[j].draft] = releases[runs[j].draft]
      BY <2>1, <2>2, <3>1, DraftWhole DEF Uploading
    <3>3. ~Labelled(runs[j], releases')
      <4> SUFFICES ASSUME NEW k \in Ships(releases'), releases'[k].product = runs[j].product,
                          releases'[k].stamp = runs[j].stamp
                   PROVE  Labelled(runs[j], releases)
        BY <2>1, <2>2 DEF Uploading, Labelled
      <4>1. k # d
        BY <1>10, <3>1
      <4> QED BY <1>10, <4>1 DEF Labelled
    <3> QED BY <2>1, <3>2, <3>3, DraftWhole DEF Uploading
  <2>3. CASE runs[j].pc # "upload"
    BY <2>1, <2>3 DEF Uploading
  <2> QED BY <2>2, <2>3
<1>7. \A j \in DOMAIN runs' : RunTags(runs'[j], registry) /\ Uploading(runs'[j], releases')
  BY <1>3, <1>5, <1>6
<1>8. \A k \in Ships(releases') : Whole(releases'[k], registry)
  BY DraftWhole DEF PublishInv, Ships
<1>9. \A j, k \in Ships(releases') :
        releases'[j].product = releases'[k].product /\ releases'[j].stamp = releases'[k].stamp => j = k
  <2>1. \A k \in Ships(releases) : releases'[k] = releases[k] /\ ~(releases[k].product = r.product /\ releases[k].stamp = r.stamp)
    BY <1>10, DraftWhole DEF Labelled
  <2> QED BY <1>10, <2>1 DEF PublishInv
<1> QED
  BY <1>1, <1>4, <1>7, <1>8, <1>9 DEF PublishInv

\* A dispatch and the world around the runs.
LEMMA WorldPublish ==
  ASSUME TypeInv, PublishInv, WorldStep
  PROVE  PublishInv'
<1>0. /\ Exclusive /\ runs \in Seq(Runs) /\ releases \in Seq(Releases) /\ MaxOthers \in Nat
      /\ \A j \in DOMAIN runs : RunTags(runs[j], registry) /\ Uploading(runs[j], releases)
  BY ReleaseAssumption DEF TypeInv, PublishInv
<1>1. CASE Push \/ Tick \/ UNCHANGED vars
  <2>1. UNCHANGED <<runs, registry, releases>>
    BY <1>1 DEF Push, Tick, vars
  <2> QED BY <1>0, <2>1 DEF PublishInv, Exclusive, Active
<1>2. CASE ReleaseElsewhere
  <2> DEFINE other == [product |-> Elsewhere, stamp |-> minute, draft |-> FALSE, files |-> LockFiles, lock |-> None]
             others == [n \in 1 .. MaxOthers |-> other]
  <2>1. releases' = releases \o others /\ UNCHANGED <<runs, registry>>
    BY <1>2 DEF ReleaseElsewhere
  <2>2. other.product = Elsewhere /\ others \in Seq({other})
    BY <1>0
  <2>3. /\ DOMAIN releases \subseteq DOMAIN releases' /\ \A k \in DOMAIN releases : releases'[k] = releases[k]
        /\ \A k \in DOMAIN releases' : k \in DOMAIN releases \/ releases'[k].product = Elsewhere
    <3> HIDE DEF others, other
    <3> QED BY <1>0, <2>1, <2>2
  <2>4. SameShips(releases, releases')
    BY <2>3, ElsewhereAssumption DEF SameShips, Ships
  <2>5. Exclusive'
    BY <1>0, <2>1 DEF Exclusive, Active
  <2> QED BY <1>0, <2>1, <2>4, <2>5, SameShipsPublish
<1>3. ASSUME NEW product \in Products, Dispatch(product)
      PROVE  PublishInv'
  <2> DEFINE r == NewRun(product)
  <2>1. runs' = Append(runs, r) /\ UNCHANGED <<registry, releases>>
    BY <1>3 DEF Dispatch
  <2>2. r.product = product /\ r.pc = "plan" /\ r.job = "plan"
    BY DEF NewRun
  <2>3. RunTags(r, registry) /\ Uploading(r, releases)
    BY <2>2, Elsewhen
  <2> HIDE DEF r
  <2>4. /\ DOMAIN runs' = DOMAIN runs \cup {Len(runs) + 1} /\ runs'[Len(runs) + 1] = r
        /\ \A j \in DOMAIN runs : runs'[j] = runs[j]
    BY <1>0, <2>1
  <2>5. Exclusive'
    <3>1. \A j \in Active : SideBySide /\ runs[j].product # product
      BY <1>3 DEF Dispatch
    <3>2. \A j \in Active' : j \in Active \/ j = Len(runs) + 1
      BY <2>4 DEF Active
    <3>3. \A j \in Active : j \in DOMAIN runs
      BY DEF Active
    <3> QED BY <1>0, <2>2, <2>4, <3>1, <3>2, <3>3 DEF Exclusive
  <2>6. \A j \in DOMAIN runs' : RunTags(runs'[j], registry) /\ Uploading(runs'[j], releases)
    BY <1>0, <2>3, <2>4
  <2> QED BY <2>1, <2>5, <2>6 DEF PublishInv
<1> QED
  BY <1>1, <1>2, <1>3 DEF WorldStep

LEMMA PublishStep ==
  ASSUME TypeInv, PublishInv, [Next]_vars
  PROVE  PublishInv'
<1>1. ASSUME NEW i \in DOMAIN runs, RunStep(i)
      PROVE  PublishInv'
  BY <1>1, EarlyPublish, TagPublish, PutTagPublish, RerunPublish, DraftPublish, ReleasePublish DEF RunStep
<1> QED
  BY <1>1, WorldPublish, StepCases

LEMMA PublishAlways == Spec => [](TypeInv /\ PublishInv)
<1>1. Init => TypeInv /\ PublishInv
  <2> SUFFICES ASSUME Init PROVE PublishInv
    BY TypeInit
  <2>1. DOMAIN runs = {} /\ DOMAIN releases = {}
    BY DEF Init
  <2> QED BY <2>1 DEF PublishInv, Exclusive, Active, Ships
<1>2. TypeInv /\ PublishInv /\ [Next]_vars => (TypeInv /\ PublishInv)'
  BY TypeStep, PublishStep
<1> QED BY <1>1, <1>2, PTL DEF Spec

\* Whatever step of a run failed, was repeated or was overtaken by a run of
\* another product, a visible release has exactly the files of its lock and the
\* lock, is alone with its label, and the tags of its bundles hold what it pins.
THEOREM PublishedCompleteCorrect == Spec => []PublishedComplete
<1>1. PublishInv => PublishedComplete
  <2> SUFFICES ASSUME PublishInv PROVE PublishedComplete
    OBVIOUS
  <2>1. \A k \in Shipped : Whole(releases[k], registry)
    BY ShippedShips DEF PublishInv
  <2>2. \A g : \A type : Held(type, g, registry) =>
          LET tag == <<type, g.product, g.stamp>>
          IN  tag \in DOMAIN registry /\ registry[tag].assets = g.lock.assets /\ registry[tag].generation = g.lock.generation
    BY DEF Held, Bundle
  <2> QED BY <2>1, <2>2, ShippedShips DEF PublishedComplete, PublishInv, Whole
<1> QED
  BY <1>1, PublishAlways, PTL
-----------------------------------------------------------------------------
(* A published tag is never re-pointed.                                     *)

\* A run puts a tag that is not there.
PutFree == \A i \in DOMAIN runs : runs[i].pc = "put" => Tag(runs[i]) \notin DOMAIN registry

\* No step but the one that reads a tag comes to put one.
LEMMA NoPut ==
  ASSUME TypeInv, NEW i \in DOMAIN runs, RunStep(i), ~CheckTag(i), ~PutTag(i)
  PROVE  /\ UNCHANGED registry /\ DOMAIN runs' = DOMAIN runs
         /\ \A j \in DOMAIN runs : runs'[j].pc = "put" => runs'[j] = runs[j]
<1> DEFINE r == runs[i]
<1>0. r \in Runs /\ runs \in Seq(Runs)
  BY RunFacts DEF TypeInv
<1>1. ASSUME NEW q, Step(i, q), q.pc # "put"
      PROVE  DOMAIN runs' = DOMAIN runs /\ \A j \in DOMAIN runs : runs'[j].pc = "put" => runs'[j] = runs[j]
  BY <1>1, StepOthers
<1>2. UNCHANGED registry
  BY DEF RunStep, Local, Plan, PlanComponents, VersionGuard, ReadBackTag, ChooseComponent, Replan, Build,
         ghCreateDraft, ghUpload, ghPublish, ReadBackRelease, Fail, Rerun
<1>3. CASE Refuse(i)
  <2>1. Failed(r).pc = "failed"
    BY <1>0 DEF Failed, Runs
  <2> QED BY <1>1, <1>2, <1>3, <2>1 DEF Refuse
<1>4. CASE ~Refuse(i) /\ (Plan(i) \/ PlanComponents(i) \/ VersionGuard(i))
  <2>1. CASE Plan(i)
    <3>1. PICK a, b, c : Step(i, [r EXCEPT !.stamp = a, !.generation = b, !.previous = c, !.pc = "components", !.job = "components"])
      BY <1>4, <2>1 DEF Plan
    <3> QED BY <1>0, <1>1, <1>2, <3>1 DEF Runs
  <2>2. CASE PlanComponents(i)
    <3>1. PICK a : Step(i, [r EXCEPT !.built = a, !.pc = "guard", !.job = "guard"])
      BY <2>2 DEF PlanComponents
    <3> QED BY <1>0, <1>1, <1>2, <3>1 DEF Runs
  <2>3. CASE VersionGuard(i)
    <3>1. PICK a : Step(i, [r EXCEPT !.archive = a, !.pc = "check", !.target = "pool", !.job = "board-publish"])
      BY <1>4, <2>3 DEF VersionGuard
    <3> QED BY <1>0, <1>1, <1>2, <3>1 DEF Runs
  <2> QED BY <1>4, <2>1, <2>2, <2>3
<1>5. CASE ~Refuse(i) /\ (ChooseComponent(i) \/ Replan(i) \/ Build(i))
  <2>1. CASE ChooseComponent(i)
    <3>1. PICK c : Step(i, [r EXCEPT !.component = c, !.pc = "check", !.target = "kernel"])
      BY <1>5, <2>1 DEF ChooseComponent
    <3> QED BY <1>0, <1>1, <1>2, <3>1 DEF Runs
  <2>2. CASE Replan(i)
    <3>1. PICK a : Step(i, [r EXCEPT !.previous = a, !.pc = "build"])
      BY <1>5, <2>2 DEF Replan
    <3> QED BY <1>0, <1>1, <1>2, <3>1 DEF Runs
  <2>3. CASE Build(i)
    <3>1. PICK a : Step(i, [r EXCEPT !.lock = a, !.pc = "check", !.target = "image", !.job = "publish"])
      BY <1>5, <2>3 DEF Build
    <3> QED BY <1>0, <1>1, <1>2, <3>1 DEF Runs
  <2> QED BY <1>5, <2>1, <2>2, <2>3
<1>6. CASE ~Refuse(i) /\ (ReadBackTag(i) \/ ReadBackRelease(i) \/ Rerun(i))
  <2>1. CASE ReadBackTag(i)
    <3>1. Step(i, After(r)) /\ r.target \in {"pool", "kernel", "image", "update"}
      BY <1>0, <1>6, <2>1 DEF ReadBackTag, Runs
    <3>2. After(r).pc # "put"
      BY <1>0, <3>1 DEF After, Runs
    <3> QED BY <1>1, <1>2, <3>1, <3>2
  <2>2. CASE ReadBackRelease(i)
    <3>1. Step(i, [r EXCEPT !.pc = "done"])
      BY <2>2 DEF ReadBackRelease
    <3> QED BY <1>0, <1>1, <1>2, <3>1 DEF Runs
  <2>3. CASE Rerun(i)
    <3>1. Step(i, FirstStep(r)) /\ r.job \in Jobs
      BY <1>0, <2>3 DEF Rerun, Runs
    <3>2. FirstStep(r).pc # "put"
      BY <1>0, <3>1, FirstStepFacts DEF Jobs
    <3> QED BY <1>1, <1>2, <3>1, <3>2
  <2> QED BY <1>6, <2>1, <2>2, <2>3
<1>7. CASE ~Refuse(i) /\ (ghCreateDraft(i) \/ ghPublish(i))
  <2>1. CASE ghCreateDraft(i)
    <3>1. PICK a : Step(i, [r EXCEPT !.draft = a, !.pc = "upload"])
      BY <1>7, <2>1 DEF ghCreateDraft
    <3> QED BY <1>0, <1>1, <1>2, <3>1 DEF Runs
  <2>2. CASE ghPublish(i)
    <3>1. Step(i, [r EXCEPT !.pc = "verify"])
      BY <2>2 DEF ghPublish
    <3> QED BY <1>0, <1>1, <1>2, <3>1 DEF Runs
  <2> QED BY <1>7, <2>1, <2>2
<1>8. CASE ghUpload(i)
  BY <1>2, <1>8 DEF ghUpload
<1> QED
  BY <1>3, <1>4, <1>5, <1>6, <1>7, <1>8 DEF RunStep, Fail

\* A board's products are released by one run at a time.
LEMMA OneActive ==
  ASSUME ~SideBySide, PublishInv, NEW i \in Active, NEW j \in Active
  PROVE  i = j
BY DEF PublishInv, Exclusive

LEMMA PutFreeStep ==
  ASSUME ~SideBySide, TypeInv, PublishInv, PutFree, [Next]_vars
  PROVE  PutFree'
<1>1. CASE WorldStep
  <2>1. UNCHANGED registry
    BY <1>1 DEF WorldStep, Push, Tick, ReleaseElsewhere, Dispatch, vars
  <2>2. \A j \in DOMAIN runs' : (j \in DOMAIN runs /\ runs'[j] = runs[j]) \/ runs'[j].pc = "plan"
    <3>1. CASE UNCHANGED runs
      BY <3>1
    <3>2. ASSUME NEW product \in Products, Dispatch(product)
          PROVE  \A j \in DOMAIN runs' : (j \in DOMAIN runs /\ runs'[j] = runs[j]) \/ runs'[j].pc = "plan"
      <4>1. runs' = Append(runs, NewRun(product)) /\ NewRun(product).pc = "plan" /\ runs \in Seq(Runs)
        BY <3>2 DEF Dispatch, NewRun, TypeInv
      <4> QED BY <4>1
    <3> QED BY <1>1, <3>1, <3>2 DEF WorldStep, Push, Tick, ReleaseElsewhere, vars
  <2> QED BY <2>1, <2>2 DEF PutFree
<1>2. ASSUME NEW i \in DOMAIN runs, RunStep(i)
      PROVE  PutFree'
  <2>1. CASE CheckTag(i)
    <3>1. UNCHANGED registry /\ runs[i] \in Runs
      BY <2>1, RunFacts DEF CheckTag, Local
    <3>2. PICK p \in {"put", "back", "failed"} :
            Step(i, [runs[i] EXCEPT !.pc = p]) /\ (p = "put" => Tag(runs[i]) \notin DOMAIN registry)
      BY <2>1 DEF CheckTag, Refuse, Failed
    <3> DEFINE q == [runs[i] EXCEPT !.pc = p]
    <3>3. q.pc = p /\ Tag(q) = Tag(runs[i])
      BY <3>1 DEF Runs, Tag
    <3> HIDE DEF q
    <3> QED BY <3>1, <3>2, <3>3, StepOthers DEF PutFree, q
  <2>2. CASE PutTag(i)
    <3>1. Step(i, [runs[i] EXCEPT !.pc = "back"]) /\ runs[i].pc = "put" /\ runs[i] \in Runs
      BY <2>2, RunFacts DEF PutTag
    <3>2. \A j \in DOMAIN runs : j # i => runs[j].pc # "put"
      BY <3>1, OneActive DEF Active, Ended
    <3>3. [runs[i] EXCEPT !.pc = "back"].pc = "back"
      BY <3>1 DEF Runs
    <3> QED BY <3>1, <3>2, <3>3, StepOthers DEF PutFree
  <2>3. CASE ~CheckTag(i) /\ ~PutTag(i)
    BY <1>2, <2>3, NoPut DEF PutFree
  <2> QED BY <2>1, <2>2, <2>3
<1> QED
  BY <1>1, <1>2, StepCases

\* What a tag holds it holds for good.
LEMMA RegistryGrows ==
  ASSUME TypeInv, PutFree, [Next]_vars
  PROVE  DOMAIN registry \subseteq DOMAIN registry' /\ \A tag \in DOMAIN registry : registry'[tag] = registry[tag]
<1>1. CASE WorldStep
  BY <1>1 DEF WorldStep, Push, Tick, ReleaseElsewhere, Dispatch, vars
<1>2. ASSUME NEW i \in DOMAIN runs, RunStep(i)
      PROVE  DOMAIN registry \subseteq DOMAIN registry' /\ \A tag \in DOMAIN registry : registry'[tag] = registry[tag]
  <2>1. CASE CheckTag(i)
    BY <2>1 DEF CheckTag, Local
  <2>2. CASE PutTag(i)
    BY <2>2 DEF PutTag, PutFree
  <2>3. CASE ~CheckTag(i) /\ ~PutTag(i)
    BY <1>2, <2>3, NoPut
  <2> QED BY <2>1, <2>2, <2>3
<1> QED
  BY <1>1, <1>2, StepCases

LEMMA PutFreeAlways ==
  ASSUME ~SideBySide
  PROVE  Spec => []PutFree
<1>1. Init => PutFree
  BY DEF Init, PutFree
<1>2. TypeInv /\ PublishInv /\ PutFree /\ [Next]_vars => PutFree'
  BY PutFreeStep
<1> QED BY <1>1, <1>2, PublishAlways, PTL DEF Spec

\* As long as one run publishes a board at a time, whatever fails and is run
\* again, a tag of the registry holds for good what it was first given.
THEOREM TagsNeverRepointedCorrect ==
  ASSUME ~SideBySide
  PROVE  Spec => TagsNeverRepointed
<1>1. TypeInv /\ PutFree /\ [Next]_vars => [\A tag \in DOMAIN registry : registry'[tag] = registry[tag]]_vars
  BY RegistryGrows
<1> QED
  BY <1>1, PublishAlways, PutFreeAlways, PTL DEF Spec, TagsNeverRepointed

-----------------------------------------------------------------------------
(* The line of a product.                                                   *)

\* No step but the plan of the product settles a run or changes what is settled.
LEMMA LineMoves ==
  ASSUME TypeInv, NEW i \in DOMAIN runs, RunStep(i), ~Replan(i) \/ Refuse(i), ~ghUpload(i)
  PROVE  \E q : /\ Step(i, q) /\ q.product = runs[i].product
                /\ Settled(q) => /\ Settled(runs[i]) /\ q.stamp = runs[i].stamp
                                 /\ q.generation = runs[i].generation /\ q.previous = runs[i].previous
<1> DEFINE r == runs[i]
           Moved(q) == /\ Step(i, q) /\ q.product = r.product
                       /\ Settled(q) => /\ Settled(r) /\ q.stamp = r.stamp
                                        /\ q.generation = r.generation /\ q.previous = r.previous
<1> SUFFICES \E q : Moved(q)
  OBVIOUS
<1> HIDE DEF Moved
<1>0. r \in Runs /\ StepOfJob(r)
  BY RunFacts
<1>1. CASE Refuse(i)
  <2>1. Moved(Failed(r))
    BY <1>0, <1>1 DEF Refuse, Failed, Runs, Settled, Moved
  <2> QED BY <2>1
<1>2. CASE ~Refuse(i) /\ (Plan(i) \/ PlanComponents(i) \/ VersionGuard(i))
  <2>1. CASE Plan(i)
    <3> DEFINE q(a, b, c) == [r EXCEPT !.stamp = a, !.generation = b, !.previous = c, !.pc = "components", !.job = "components"]
    <3>1. PICK a, b, c : Step(i, q(a, b, c))
      BY <1>2, <2>1 DEF Plan
    <3>2. Moved(q(a, b, c))
      BY <1>0, <3>1 DEF Runs, Settled, Moved
    <3> QED BY <3>2
  <2>2. CASE PlanComponents(i)
    <3> DEFINE q(a) == [r EXCEPT !.built = a, !.pc = "guard", !.job = "guard"]
    <3>1. PICK a : Step(i, q(a))
      BY <2>2 DEF PlanComponents
    <3>2. Moved(q(a))
      BY <1>0, <3>1 DEF Runs, Settled, Moved
    <3> QED BY <3>2
  <2>3. CASE VersionGuard(i)
    <3> DEFINE q(a) == [r EXCEPT !.archive = a, !.pc = "check", !.target = "pool", !.job = "board-publish"]
    <3>1. PICK a : Step(i, q(a))
      BY <1>2, <2>3 DEF VersionGuard
    <3>2. Moved(q(a))
      BY <1>0, <3>1 DEF Runs, Settled, Moved
    <3> QED BY <3>2
  <2> QED BY <1>2, <2>1, <2>2, <2>3
<1>3. CASE ~Refuse(i) /\ (ChooseComponent(i) \/ Build(i))
  <2>1. CASE ChooseComponent(i)
    <3> DEFINE q(a) == [r EXCEPT !.component = a, !.pc = "check", !.target = "kernel"]
    <3>1. PICK a : Step(i, q(a))
      BY <1>3, <2>1 DEF ChooseComponent
    <3>2. Moved(q(a))
      BY <1>0, <2>1, <3>1 DEF Runs, Settled, StepOfJob, ChooseComponent, Moved
    <3> QED BY <3>2
  <2>2. CASE Build(i)
    <3> DEFINE q(a) == [r EXCEPT !.lock = a, !.pc = "check", !.target = "image", !.job = "publish"]
    <3>1. PICK a : Step(i, q(a))
      BY <1>3, <2>2 DEF Build
    <3>2. Moved(q(a))
      BY <1>0, <2>2, <3>1 DEF Runs, Settled, Build, Moved
    <3> QED BY <3>2
  <2> QED BY <1>3, <2>1, <2>2
<1>4. ASSUME NEW p \in Pcs \ {"build"}, Step(i, [r EXCEPT !.pc = p])
      PROVE  Moved([r EXCEPT !.pc = p])
  BY <1>0, <1>4 DEF Runs, Settled, Moved
<1>5. CASE ~Refuse(i) /\ (CheckTag(i) \/ PutTag(i) \/ ghPublish(i) \/ ReadBackRelease(i))
  <2>1. PICK p \in {"put", "back", "verify", "done"} : Step(i, [r EXCEPT !.pc = p])
    BY <1>5 DEF CheckTag, PutTag, ghPublish, ReadBackRelease
  <2>2. p \in Pcs \ {"build"}
    BY DEF Pcs
  <2>3. Moved([r EXCEPT !.pc = p])
    BY <1>4, <2>1, <2>2
  <2> QED BY <2>3
<1>6. CASE ~Refuse(i) /\ ReadBackTag(i)
  <2>1. Step(i, After(r)) /\ r.target \in {"pool", "kernel", "image", "update"}
    BY <1>0, <1>6 DEF ReadBackTag, Runs
  <2>2. Moved(After(r))
    BY <1>0, <2>1 DEF After, Runs, Settled, Moved
  <2> QED BY <2>2
<1>7. CASE ~Refuse(i) /\ ghCreateDraft(i)
  <2> DEFINE q(a) == [r EXCEPT !.draft = a, !.pc = "upload"]
  <2>1. PICK a : Step(i, q(a))
    BY <1>7 DEF ghCreateDraft
  <2>2. Moved(q(a))
    BY <1>0, <2>1 DEF Runs, Settled, Moved
  <2> QED BY <2>2
<1>8. CASE Rerun(i)
  <2> DEFINE q == FirstStep(r)
  <2>1. Step(i, q) /\ r.job \in Jobs
    BY <1>0, <1>8 DEF Rerun, Runs
  <2>2. SameWork(q, r) /\ q.job = r.job /\ q.pc # "build"
    BY <1>0, <2>1, FirstStepFacts DEF Jobs
  <2> HIDE DEF q
  <2>3. Moved(q)
    BY <2>1, <2>2 DEF SameWork, Settled, Moved
  <2> QED BY <2>3
<1> QED
  BY <1>1, <1>2, <1>3, <1>5, <1>6, <1>7, <1>8 DEF RunStep, Fail

\* Only the steps at a draft change the releases.
LEMMA ReleasesKept ==
  ASSUME NEW i, RunStep(i), ~ghCreateDraft(i), ~ghUpload(i), ~ghPublish(i)
  PROVE  UNCHANGED releases
BY DEF RunStep, Local, Plan, PlanComponents, VersionGuard, CheckTag, PutTag, ReadBackTag, ChooseComponent,
       Replan, Build, ReadBackRelease, Fail, Rerun

\* A draft, its files and the releases of others leave the visible ones alone.
LEMMA ShipsKept ==
  ASSUME TypeInv, PublishInv, NEW i \in DOMAIN runs, RunStep(i), ~ghPublish(i)
  PROVE  SameShips(releases, releases')
<1> DEFINE r == runs[i]
<1>0. releases \in Seq(Releases) /\ Uploading(r, releases)
  BY DEF TypeInv, PublishInv
<1>1. CASE UNCHANGED releases
  BY <1>1 DEF SameShips, Ships
<1>2. CASE ghCreateDraft(i)
  <2> DEFINE g == [product |-> r.product, stamp |-> r.stamp, draft |-> TRUE, files |-> {}, lock |-> r.lock]
  <2>1. CASE releases' = Append(releases, g)
    <3>1. DOMAIN releases' = DOMAIN releases \cup {Len(releases) + 1} /\ releases'[Len(releases) + 1].draft
          /\ \A k \in DOMAIN releases : releases'[k] = releases[k]
      BY <1>0, <2>1
    <3> QED BY <3>1 DEF SameShips, Ships
  <2> QED BY <1>1, <1>2, <2>1 DEF ghCreateDraft
<1>3. CASE ghUpload(i)
  <2> DEFINE d == r.draft
  <2>1. PICK files : releases' = [releases EXCEPT ![d].files = files]
    BY <1>3 DEF ghUpload
  <2>2. d \in DOMAIN releases /\ releases[d].draft
    BY <1>0, <1>3 DEF ghUpload, Uploading
  <2>3. /\ DOMAIN releases' = DOMAIN releases /\ \A k \in DOMAIN releases : k # d => releases'[k] = releases[k]
        /\ releases'[d] = [releases[d] EXCEPT !.files = files]
    BY <1>0, <2>1, <2>2
  <2>4. releases[d] \in OfBoard
    BY <2>2, ReleaseFacts
  <2>5. /\ releases'[d].draft = releases[d].draft /\ releases'[d].product = releases[d].product
        /\ releases'[d].stamp = releases[d].stamp /\ releases'[d].lock = releases[d].lock
    BY <2>3, <2>4 DEF OfBoard
  <2> QED BY <2>2, <2>3, <2>5 DEF SameShips, Ships
<1> QED
  BY <1>1, <1>2, <1>3, ReleasesKept

LEMMA WorldShipsKept ==
  ASSUME TypeInv, WorldStep
  PROVE  /\ SameShips(releases, releases') /\ UNCHANGED registry
         /\ DOMAIN runs \subseteq DOMAIN runs' /\ Len(runs) <= Len(runs') /\ \A j \in DOMAIN runs : runs'[j] = runs[j]
         /\ UNCHANGED runs \/ \E product \in Products :
              /\ Dispatch(product) /\ DOMAIN runs' = DOMAIN runs \cup {Len(runs) + 1} /\ Len(runs') = Len(runs) + 1
              /\ runs'[Len(runs) + 1] = NewRun(product)
<1>0. runs \in Seq(Runs) /\ releases \in Seq(Releases) /\ MaxOthers \in Nat /\ Len(runs) \in Nat
  BY ReleaseAssumption DEF TypeInv
<1>1. UNCHANGED registry
  BY DEF WorldStep, Push, Tick, ReleaseElsewhere, Dispatch, vars
<1>2. SameShips(releases, releases')
  <2>1. CASE UNCHANGED releases
    BY <2>1 DEF SameShips, Ships
  <2>2. CASE ReleaseElsewhere
    <3> DEFINE other == [product |-> Elsewhere, stamp |-> minute, draft |-> FALSE, files |-> LockFiles, lock |-> None]
               others == [n \in 1 .. MaxOthers |-> other]
    <3>1. releases' = releases \o others
      BY <2>2 DEF ReleaseElsewhere
    <3>2. other.product = Elsewhere /\ others \in Seq({other})
      BY <1>0
    <3>3. /\ DOMAIN releases \subseteq DOMAIN releases' /\ \A k \in DOMAIN releases : releases'[k] = releases[k]
          /\ \A k \in DOMAIN releases' : k \in DOMAIN releases \/ releases'[k].product = Elsewhere
      <4> HIDE DEF others, other
      <4> QED BY <1>0, <3>1, <3>2
    <3> QED BY <3>3, ElsewhereAssumption DEF SameShips, Ships
  <2> QED BY <2>1, <2>2 DEF WorldStep, Push, Tick, Dispatch, vars
<1>3. UNCHANGED runs \/ \E product \in Products : Dispatch(product)
  BY DEF WorldStep, Push, Tick, ReleaseElsewhere, vars
<1>4. ASSUME NEW product \in Products, Dispatch(product)
      PROVE  /\ DOMAIN runs' = DOMAIN runs \cup {Len(runs) + 1} /\ Len(runs') = Len(runs) + 1
             /\ runs'[Len(runs) + 1] = NewRun(product) /\ \A j \in DOMAIN runs : runs'[j] = runs[j]
  <2>1. runs' = Append(runs, NewRun(product))
    BY <1>4 DEF Dispatch
  <2> QED BY <1>0, <2>1
<1>5. CASE UNCHANGED runs
  BY <1>0, <1>1, <1>2, <1>5
<1>6. CASE \E product \in Products : Dispatch(product)
  <2>1. PICK product \in Products : Dispatch(product)
    BY <1>6
  <2>2. /\ DOMAIN runs' = DOMAIN runs \cup {Len(runs) + 1} /\ Len(runs') = Len(runs) + 1
        /\ runs'[Len(runs) + 1] = NewRun(product) /\ \A j \in DOMAIN runs : runs'[j] = runs[j]
    BY <1>4, <2>1
  <2>3. DOMAIN runs \subseteq DOMAIN runs' /\ Len(runs) <= Len(runs')
    BY <1>0, <2>2
  <2>4. \E p \in Products :
          /\ Dispatch(p) /\ DOMAIN runs' = DOMAIN runs \cup {Len(runs) + 1} /\ Len(runs') = Len(runs) + 1
          /\ runs'[Len(runs) + 1] = NewRun(p)
    BY <2>1, <2>2, Zenon
  <2> QED BY <1>1, <1>2, <2>2, <2>3, <2>4
<1> QED
  BY <1>3, <1>5, <1>6
\* What is visible of a product, and what a run follows, is the same.
LEMMA SameLine ==
  ASSUME NEW old, NEW new, SameShips(old, new)
  PROVE  /\ \A r : Labelled(r, old) <=> Labelled(r, new)
         /\ \A r : OnLine(r, old) <=> OnLine(r, new)
<1>1. \A r : Labelled(r, old) <=> Labelled(r, new)
  BY DEF SameShips, Labelled
<1>2. \A product : Line(product, new) = Line(product, old) /\ \A k \in Line(product, old) : new[k] = old[k]
  BY DEF SameShips, Line
<1>3. \A product : NewestOf(product, new) = NewestOf(product, old)
  BY <1>2 DEF NewestOf
<1>4. \A product : {new[k] : k \in NewestOf(product, new)} = {old[k] : k \in NewestOf(product, old)}
  BY <1>2, <1>3 DEF NewestOf
<1>5. \A r : OnLine(r, old) <=> OnLine(r, new)
  <2> SUFFICES ASSUME NEW r PROVE OnLine(r, old) <=> OnLine(r, new)
    OBVIOUS
  <2>1. {new[k] : k \in NewestOf(r.product, new)} = {old[k] : k \in NewestOf(r.product, old)}
    BY <1>4
  <2>2. Line(r.product, new) = Line(r.product, old) /\ \A k \in Line(r.product, old) : new[k] = old[k]
    BY <1>2
  <2> QED BY <2>1, <2>2, Zenon DEF OnLine
<1> QED
  BY <1>1, <1>5

\* They are the releases that GenerationFollows and PartialUpdatesFit compare.
LEMMA BeforeIsBefore ==
  /\ PartialUpdatesFit <=> AllFit(releases)
  /\ Grows(releases) => GenerationFollows
<1>1. \A i \in Ships(releases) : BeforeIn(i, releases) = Before(i)
  BY ShippedShips DEF BeforeIn, Line, Before
<1>2. \A i : Before(i) \subseteq Ships(releases)
  BY ShippedShips DEF Before
<1>3. PartialUpdatesFit <=> AllFit(releases)
  BY <1>1, ShippedShips DEF PartialUpdatesFit, AllFit, Fits
<1>4. Grows(releases) => GenerationFollows
  BY <1>2, ShippedShips DEF GenerationFollows, Grows, Before
<1> QED
  BY <1>3, <1>4

LEMMA SameFits ==
  ASSUME NEW old, NEW new, SameShips(old, new), AllFit(old), Grows(old)
  PROVE  AllFit(new) /\ Grows(new)
<1>1. \A product : Line(product, new) = Line(product, old) /\ \A k \in Line(product, old) : new[k] = old[k]
  BY DEF SameShips, Line
<1>2. \A i \in Ships(old) : BeforeIn(i, new) = BeforeIn(i, old)
  BY <1>1 DEF SameShips, BeforeIn
<1>3. \A i : BeforeIn(i, old) \subseteq Ships(old)
  BY DEF BeforeIn, Line
<1> QED
  BY <1>2, <1>3 DEF AllFit, Grows, SameShips

\* The runs at work are the last of their products.
LEMMA LastOneStep ==
  ASSUME ~LateRerun, TypeInv, \A j \in Active : LastOne(j), NEW i \in DOMAIN runs, NEW q, Step(i, q),
         q.product = runs[i].product, runs[i].pc \notin Ended \/ q.pc \in Ended \/ Rerun(i)
  PROVE  /\ (\A j \in Active : LastOne(j))'
         /\ \A j \in DOMAIN runs : LastOne(j)' <=> LastOne(j)
<1>1. DOMAIN runs' = DOMAIN runs /\ \A j \in DOMAIN runs : runs'[j].product = runs[j].product
  BY StepOthers
<1>2. \A j \in DOMAIN runs : LastOne(j)' <=> LastOne(j)
  BY <1>1 DEF LastOne
<1>3. \A j \in Active' : j \in Active \/ (j = i /\ Rerun(i))
  BY StepOthers DEF Active
<1>4. Rerun(i) => LastOne(i)
  <2> SUFFICES ASSUME Rerun(i), NEW j \in DOMAIN runs, i < j PROVE runs[j].product # runs[i].product
    BY DEF LastOne
  <2>1. j \in i + 1 .. Len(runs)
    BY DEF TypeInv
  <2> QED BY <2>1 DEF Rerun
<1>5. \A j \in Active' : j \in DOMAIN runs
  BY <1>1 DEF Active
<1> QED
  BY <1>2, <1>3, <1>4, <1>5
\* The plan of a product gives a run its product's newest release, and a generation beyond it.
LEMMA ReplanOnLine ==
  ASSUME TypeInv, PublishInv, Grows(releases), NEW r \in Runs, ~Labelled(r, releases), NEW floor \in Floors \cup {0},
         NEW line \in plan(r.product, r.stamp, floor), line.generation = r.generation,
         NEW q, q.product = r.product, q.stamp = r.stamp, q.generation = r.generation, q.previous = line.previous
  PROVE  OnLine(q, releases)
<1> DEFINE L == Line(r.product, releases)
           N == NewestOf(r.product, releases)
           H == history(r.product, r.stamp)
<1>0. r.product \in Products /\ r.stamp \in Nat
  BY DEF Runs
<1>1. \A k \in L : releases[k] \in OfBoard /\ releases[k].stamp \in Nat /\ releases[k].product = r.product
                   /\ k \in Ships(releases)
  <2>1. \A k \in L : releases[k] \in OfBoard
    BY ReleaseFacts, ShippedShips DEF Line
  <2> QED BY <2>1 DEF OfBoard, Line
<1>2. H = {releases[k] : k \in L}
  <2>1. \A k \in L : releases[k].stamp # r.stamp
    BY <1>1 DEF Labelled
  <2>2. \A k \in L : releases[k].files # {}
    BY <1>1 DEF PublishInv, Whole, LockFiles
  <2>3. \A k \in L : releases[k] \in H
    BY <1>1, <2>1, <2>2 DEF history, Shown, Published, Ships
  <2>4. \A g \in H : \E k \in L : g = releases[k]
    BY <1>0 DEF history, Shown, Published, Line, Ships
  <2> QED BY <2>3, <2>4
<1>3. CASE H = {}
  <2>1. L = {} /\ line.previous = {}
    BY <1>0, <1>2, <1>3, PlanLines
  <2>2. N = {}
    BY <2>1 DEF NewestOf
  <2> QED BY <2>1, <2>2 DEF OnLine
<1>4. CASE H # {}
  <2>1. PICK h \in Newest(H) : line.previous = {h} /\ h.stamp < r.stamp /\ h.lock.generation < r.generation
    BY <1>0, <1>4, PlanLines
  <2>2. PICK m \in L : h = releases[m]
    BY <1>2 DEF Newest
  <2>3. \A k \in L : releases[k].stamp <= releases[m].stamp
    BY <1>2, <2>1, <2>2 DEF Newest
  <2>4. m \in N
    BY <2>2, <2>3 DEF NewestOf
  <2>5. \A k \in L : releases[k].stamp = releases[m].stamp => k = m
    BY <1>1, <2>2 DEF PublishInv
  <2>6. \A k \in N : k = m
    BY <1>1, <2>2, <2>3, <2>5 DEF NewestOf
  <2>7. \A k \in L : releases[k].lock.generation \in Nat
    BY <1>1 DEF OfBoard, Locks
  <2>8. \A k \in L : k # m => releases[k].stamp < releases[m].stamp
    BY <1>1, <2>3, <2>5
  <2>9. \A k \in L : k # m => releases[k].lock.generation < releases[m].lock.generation
    BY <1>1, <2>8 DEF Grows
  <2>10. r.generation \in Nat
    BY DEF Runs
  <2>11. \A k \in L : releases[k].stamp < r.stamp
    BY <1>0, <1>1, <2>1, <2>2, <2>3
  <2>12. \A k \in L : releases[k].lock.generation < r.generation
    BY <2>1, <2>2, <2>7, <2>9, <2>10
  <2>13. {releases[k] : k \in N} = {h}
    BY <2>2, <2>4, <2>6
  <2> QED BY <2>1, <2>11, <2>12, <2>13 DEF OnLine
<1> QED
  BY <1>3, <1>4

\* A step that only a run sees keeps the line.
LEMMA LineRun ==
  ASSUME ~LateRerun, TypeInv, PublishInv, LineInv, NEW i \in DOMAIN runs, RunStep(i), ~ghPublish(i)
  PROVE  LineInv'
<1> DEFINE r == runs[i]
<1>0. SameShips(releases, releases') /\ r \in Runs
  BY ShipsKept, RunFacts
<1>1. AllFit(releases') /\ Grows(releases')
  BY <1>0, SameFits DEF LineInv
<1>2. \A q : /\ Labelled(q, releases) <=> Labelled(q, releases')
             /\ OnLine(q, releases) <=> OnLine(q, releases')
  BY <1>0, SameLine
<1>3. CASE ghUpload(i)
  <2>1. UNCHANGED runs
    BY <1>3 DEF ghUpload
  <2> QED BY <1>1, <1>2, <2>1 DEF LineInv, Active, LastOne
<1>4. ASSUME NEW q, Step(i, q), q.product = r.product, r.pc \notin Ended \/ q.pc \in Ended \/ Rerun(i),
             Settled(q) /\ ~Labelled(q, releases) => OnLine(q, releases) \/ (Settled(r) /\ q.stamp = r.stamp
                /\ q.generation = r.generation /\ q.previous = r.previous)
      PROVE  LineInv'
  <2>1. (\A j \in Active : LastOne(j))' /\ \A j \in DOMAIN runs : LastOne(j)' <=> LastOne(j)
    BY <1>4, LastOneStep DEF LineInv
  <2>2. DOMAIN runs' = DOMAIN runs /\ runs'[i] = q /\ \A j \in DOMAIN runs : j # i => runs'[j] = runs[j]
    BY <1>4, StepOthers
  <2>3. LastOne(i) /\ Settled(q) /\ ~Labelled(q, releases) => OnLine(q, releases)
    <3> SUFFICES ASSUME LastOne(i), Settled(r), ~Labelled(q, releases), q.stamp = r.stamp,
                        q.generation = r.generation, q.previous = r.previous
                 PROVE  OnLine(q, releases)
      BY <1>4
    <3>1. ~Labelled(r, releases)
      BY <1>4 DEF Labelled
    <3>2. OnLine(r, releases)
      BY <3>1 DEF LineInv
    <3> QED BY <1>4, <3>2 DEF OnLine
  <2>4. \A j \in DOMAIN runs' :
          LastOne(j)' /\ Settled(runs'[j]) /\ ~Labelled(runs'[j], releases') => OnLine(runs'[j], releases')
    BY <1>2, <2>1, <2>2, <2>3 DEF LineInv
  <2> QED BY <1>1, <2>1, <2>4 DEF LineInv
<1>5. CASE Replan(i) /\ ~Refuse(i)
  <2>0. r.pc = "replan" /\ \E floor \in Floors \cup {0} : \E line \in plan(r.product, r.stamp, floor) :
          line.generation = r.generation /\ Step(i, [r EXCEPT !.previous = line.previous, !.pc = "build"])
    BY <1>5 DEF Replan
  <2>1. PICK floor \in Floors \cup {0} : \E line \in plan(r.product, r.stamp, floor) :
          line.generation = r.generation /\ Step(i, [r EXCEPT !.previous = line.previous, !.pc = "build"])
    BY <2>0
  <2>2. PICK line \in plan(r.product, r.stamp, floor) :
          line.generation = r.generation /\ Step(i, [r EXCEPT !.previous = line.previous, !.pc = "build"])
    BY <2>1
  <2> DEFINE q == [r EXCEPT !.previous = line.previous, !.pc = "build"]
  <2>3. q.product = r.product /\ q.stamp = r.stamp /\ q.generation = r.generation /\ q.previous = line.previous
    BY <1>0 DEF Runs
  <2> HIDE DEF q
  <2>4. ~Labelled(q, releases) => OnLine(q, releases)
    <3>1. Labelled(r, releases) => Labelled(q, releases)
      BY <2>3 DEF Labelled
    <3> QED BY <1>0, <2>2, <2>3, <3>1, ReplanOnLine DEF LineInv
  <2>5. r.pc \notin Ended
    BY <2>0 DEF Ended
  <2> QED BY <1>4, <2>2, <2>3, <2>4, <2>5 DEF q
<1>6. CASE ~ghUpload(i) /\ (~Replan(i) \/ Refuse(i))
  <2>1. PICK q : /\ Step(i, q) /\ q.product = r.product
                 /\ Settled(q) => /\ Settled(r) /\ q.stamp = r.stamp
                                  /\ q.generation = r.generation /\ q.previous = r.previous
    BY <1>6, LineMoves
  <2>2. r.pc \notin Ended \/ Rerun(i)
    BY DEF RunStep, Plan, PlanComponents, VersionGuard, CheckTag, PutTag, ReadBackTag, ChooseComponent, Replan, Build,
           ghCreateDraft, ghUpload, ghPublish, ReadBackRelease, Fail, Active, Ended
  <2> QED BY <1>4, <2>1, <2>2
<1> QED
  BY <1>3, <1>5, <1>6

\* A release that is published goes on the end of its product's line.
LEMMA LinePublish ==
  ASSUME ~LateRerun, TypeInv, PublishInv, LineInv, NEW i \in DOMAIN runs, ghPublish(i)
  PROVE  LineInv' /\ OnLine(runs[i], releases) /\ LockOf(runs[i])
<1> DEFINE r == runs[i]
           d == r.draft
           q == [r EXCEPT !.pc = "verify"]
           new == releases'
<1>1. /\ d \in DOMAIN releases /\ ~Labelled(r, releases)
      /\ \A k \in Ships(releases) : new[k] = releases[k]
      /\ new[d].product = r.product /\ new[d].stamp = r.stamp /\ new[d].lock = r.lock
      /\ Ships(new) = Ships(releases) \cup {d} /\ d \notin Ships(releases)
  BY DraftWhole DEF Ships
<1>2. /\ r \in Runs /\ StepOfJob(r) /\ Has(r) /\ r.pc = "upload" /\ Step(i, q) /\ r.stamp \in Nat /\ r.generation \in Nat
      /\ i \in Active
  BY RunFacts DEF ghPublish, Runs, Active, Ended
<1>3. q.pc = "verify" /\ q.product = r.product /\ q.stamp = r.stamp
  BY <1>2 DEF Runs
<1> HIDE DEF q, new
<1>4. LastOne(i) /\ r.job = "publish" /\ LockOf(r)
  BY <1>2 DEF StepOfJob, Has, LineInv
<1>5. OnLine(r, releases)
  BY <1>1, <1>4 DEF LineInv, Settled
<1>6. r.lock.generation = r.generation
  BY <1>4 DEF LockOf
<1>7. \A k \in Line(r.product, releases) : releases[k].stamp < r.stamp /\ releases[k].lock.generation < r.generation
                                           /\ releases[k].stamp \in Nat /\ k \in Ships(releases)
  <2>1. \A k \in Line(r.product, releases) : releases[k].stamp \in Nat /\ k \in Ships(releases)
    BY ReleaseFacts, ShippedShips DEF Line, OfBoard
  <2> QED BY <1>5, <2>1 DEF OnLine
<1>8. Grows(new)
  <2> SUFFICES ASSUME NEW j \in Ships(new), NEW k \in Ships(new), new[j].product = new[k].product, new[j].stamp < new[k].stamp
               PROVE  new[j].lock.generation < new[k].lock.generation
    BY DEF Grows
  <2>1. CASE j # d /\ k # d
    BY <1>1, <2>1 DEF LineInv, Grows
  <2>2. CASE j = d
    <3>1. k # d /\ k \in Line(r.product, releases) /\ releases[k].stamp > r.stamp
      BY <1>1, <1>2, <2>2 DEF Line
    <3> QED BY <1>2, <1>7, <3>1
  <2>3. CASE j # d /\ k = d
    <3>1. j \in Line(r.product, releases)
      BY <1>1, <2>3 DEF Line
    <3> QED BY <1>1, <1>6, <1>7, <2>3, <3>1
  <2> QED BY <2>1, <2>2, <2>3
<1>9. \A p : Line(p, new) = IF p = r.product THEN Line(p, releases) \cup {d} ELSE Line(p, releases)
  BY <1>1 DEF Line
<1>10. AllFit(new)
  <2> SUFFICES ASSUME NEW k \in Ships(new), NEW j \in BeforeIn(k, new) PROVE Fits(new[k].lock, new[j].lock)
    BY DEF AllFit
  <2>0. j \in Ships(new) /\ new[j].product = new[k].product /\ new[j].stamp < new[k].stamp
    BY DEF BeforeIn, Line
  <2>1. CASE k = d
    <3>1. j # d
      BY <1>1, <1>2, <2>0, <2>1
    <3>2. j \in Line(r.product, releases) /\ new[j] = releases[j]
      BY <1>1, <2>0, <2>1, <3>1 DEF Line
    <3>3. \A x \in Line(r.product, releases) : releases[x].stamp <= releases[j].stamp
      <4> SUFFICES ASSUME NEW x \in Line(r.product, releases) PROVE releases[x].stamp <= releases[j].stamp
        OBVIOUS
      <4>1. x \in Line(new[k].product, new) /\ new[x] = releases[x] /\ new[x].stamp < new[k].stamp
        BY <1>1, <1>7, <1>9, <2>1
      <4> QED BY <3>2, <4>1 DEF BeforeIn
    <3>4. releases[j] \in r.previous
      BY <1>5, <3>2, <3>3 DEF OnLine, NewestOf
    <3>5. \A h \in r.previous : h = releases[j]
      <4> SUFFICES ASSUME NEW x \in NewestOf(r.product, releases) PROVE x = j
        BY <1>5 DEF OnLine
      <4>1. x \in Line(r.product, releases) /\ releases[j].stamp <= releases[x].stamp /\ releases[x].stamp <= releases[j].stamp
        BY <3>2, <3>3 DEF NewestOf
      <4> QED BY <1>7, <3>2, <4>1 DEF PublishInv, Line
    <3>6. kernelGuard(r.previous, r.lock.kernel) /\ r.lock.rootfs = r.archive /\ r.lock.assets = Assets(r.previous, r.lock.kernel, r.archive)
      BY <1>4 DEF LockOf
    <3>7. Fits(r.lock, releases[j].lock)
      BY <3>4, <3>5, <3>6 DEF Fits, Assets, kernelGuard
    <3> QED BY <1>1, <2>1, <3>2, <3>7
  <2>2. CASE k # d
    <3>1. k \in Ships(releases) /\ new[k] = releases[k]
      BY <1>1, <2>2
    <3>2. j # d
      <4> SUFFICES ASSUME j = d PROVE FALSE
        OBVIOUS
      <4>1. k \in Line(r.product, releases) /\ r.stamp < releases[k].stamp
        BY <1>1, <2>0, <3>1 DEF Line
      <4> QED BY <1>2, <1>7, <4>1
    <3>3. j \in Ships(releases) /\ new[j] = releases[j]
      BY <1>1, <2>0, <3>2
    <3>4. j \in BeforeIn(k, releases)
      BY <1>1, <1>9, <2>0, <3>1, <3>3 DEF BeforeIn, Line
    <3> QED BY <3>1, <3>3, <3>4 DEF LineInv, AllFit
  <2> QED BY <2>1, <2>2
<1>11. /\ (\A j \in Active : LastOne(j))'
       /\ \A j \in DOMAIN runs : LastOne(j)' <=> LastOne(j)
  BY <1>2, <1>3, LastOneStep DEF LineInv, Ended
<1>12. DOMAIN runs' = DOMAIN runs /\ runs'[i] = q /\ \A j \in DOMAIN runs : j # i => runs'[j] = runs[j]
  BY <1>2, StepOthers
<1>13. \A j \in DOMAIN runs' : LastOne(j)' /\ Settled(runs'[j]) /\ ~Labelled(runs'[j], new) => OnLine(runs'[j], new)
  <2> SUFFICES ASSUME NEW j \in DOMAIN runs', LastOne(j), Settled(runs'[j]), ~Labelled(runs'[j], new)
               PROVE  OnLine(runs'[j], new)
    BY <1>11, <1>12
  <2>1. j # i
    BY <1>1, <1>3, <1>12 DEF Labelled
  <2>2. runs[j].product # r.product
    <3>1. j \in DOMAIN runs /\ (i < j \/ j < i)
      BY <1>12, <2>1 DEF TypeInv
    <3> QED BY <1>4, <3>1 DEF LastOne
  <2>3. Line(runs[j].product, new) = Line(runs[j].product, releases)
    BY <1>9, <2>2
  <2>4. \A k \in Line(runs[j].product, releases) : new[k] = releases[k]
    BY <1>1 DEF Line
  <2>5. ~Labelled(runs[j], releases)
    BY <1>1, <1>12, <2>1 DEF Labelled
  <2>6. OnLine(runs[j], releases)
    BY <1>12, <2>1, <2>5 DEF LineInv
  <2>7. NewestOf(runs[j].product, new) = NewestOf(runs[j].product, releases)
    BY <2>3, <2>4 DEF NewestOf
  <2>8. {new[k] : k \in NewestOf(runs[j].product, new)} = {releases[k] : k \in NewestOf(runs[j].product, releases)}
    BY <2>4, <2>7 DEF NewestOf
  <2>9. OnLine(runs[j], new)
    BY <2>3, <2>4, <2>6, <2>8 DEF OnLine
  <2> QED BY <1>12, <2>1, <2>9
<1> QED
  BY <1>4, <1>5, <1>8, <1>10, <1>11, <1>13 DEF LineInv, new
\* A dispatch and the world around the runs keep the line.
LEMMA LineWorld ==
  ASSUME TypeInv, LineInv, WorldStep
  PROVE  LineInv'
<1>0. /\ SameShips(releases, releases') /\ \A j \in DOMAIN runs : runs'[j] = runs[j]
      /\ DOMAIN runs = 1 .. Len(runs) /\ Len(runs) \in Nat
  BY WorldShipsKept DEF TypeInv
<1>1. AllFit(releases') /\ Grows(releases')
  BY <1>0, SameFits DEF LineInv
<1>2. \A q : /\ Labelled(q, releases) <=> Labelled(q, releases')
             /\ OnLine(q, releases) <=> OnLine(q, releases')
  BY <1>0, SameLine
<1>3. CASE UNCHANGED runs
  BY <1>1, <1>2, <1>3 DEF LineInv, Active, LastOne
<1>4. ASSUME NEW product \in Products, NEW n, n = Len(runs) + 1, Dispatch(product),
             DOMAIN runs' = DOMAIN runs \cup {n}, runs'[n] = NewRun(product)
      PROVE  LineInv'
  <2> DEFINE r == NewRun(product)
  <2>1. r.product = product /\ ~Settled(r)
    BY DEF NewRun, Settled
  <2> HIDE DEF r
  <2>2. \A j \in Active : runs[j].product # product
    BY <1>4 DEF Dispatch
  <2>3. \A j \in Active' : j = n \/ j \in Active
    BY <1>0, <1>4 DEF Active
  <2>4. LastOne(n)'
    BY <1>0, <1>4 DEF LastOne
  <2>5. \A j \in Active : LastOne(j)'
    <3> SUFFICES ASSUME NEW j \in Active, NEW k \in DOMAIN runs', j < k PROVE runs'[k].product # runs'[j].product
      BY DEF LastOne
    <3>1. j \in DOMAIN runs /\ LastOne(j)
      BY DEF Active, LineInv
    <3>2. CASE k = n
      BY <1>0, <1>4, <2>1, <2>2, <3>1, <3>2 DEF r
    <3>3. CASE k \in DOMAIN runs
      BY <1>0, <3>1, <3>3 DEF LastOne
    <3> QED BY <1>4, <3>2, <3>3
  <2>6. (\A j \in Active : LastOne(j))'
    BY <2>3, <2>4, <2>5
  <2>7. \A j \in DOMAIN runs : LastOne(j)' => LastOne(j)
    BY <1>0, <1>4 DEF LastOne
  <2>8. \A j \in DOMAIN runs' :
          LastOne(j)' /\ Settled(runs'[j]) /\ ~Labelled(runs'[j], releases') => OnLine(runs'[j], releases')
    <3> SUFFICES ASSUME NEW j \in DOMAIN runs', LastOne(j)', Settled(runs'[j]), ~Labelled(runs'[j], releases')
                 PROVE  OnLine(runs'[j], releases')
      OBVIOUS
    <3>1. j \in DOMAIN runs /\ runs'[j] = runs[j]
      BY <1>0, <1>4, <2>1 DEF r
    <3> QED BY <1>2, <2>7, <3>1 DEF LineInv
  <2> QED BY <1>1, <2>6, <2>8 DEF LineInv
<1> QED
  BY <1>3, <1>4, WorldShipsKept

LEMMA LineStep ==
  ASSUME ~LateRerun, TypeInv, PublishInv, LineInv, [Next]_vars
  PROVE  LineInv'
<1>1. ASSUME NEW i \in DOMAIN runs, RunStep(i)
      PROVE  LineInv'
  BY <1>1, LineRun, LinePublish
<1> QED
  BY <1>1, LineWorld, StepCases

LEMMA LineAlways ==
  ASSUME ~LateRerun
  PROVE  Spec => []LineInv
<1>1. Init => LineInv
  <2> SUFFICES ASSUME Init PROVE LineInv
    OBVIOUS
  <2>1. DOMAIN runs = {} /\ DOMAIN releases = {}
    BY DEF Init
  <2> QED BY <2>1 DEF LineInv, Active, Ships, AllFit, Grows
<1>2. TypeInv /\ PublishInv /\ LineInv /\ [Next]_vars => LineInv'
  BY LineStep
<1> QED BY <1>1, <1>2, PublishAlways, PTL DEF Spec

\* As long as a run that failed is not resumed behind a later run of its
\* product, a product's generation grows with the stamp of its releases,
\* whatever floors were asked for.
THEOREM GenerationFollowsCorrect ==
  ASSUME ~LateRerun
  PROVE  Spec => []GenerationFollows
<1>1. LineInv => GenerationFollows
  BY BeforeIsBefore DEF LineInv
<1> QED BY <1>1, LineAlways, PTL

\* Under the same condition, a partial package of a release fits a device on
\* the release of its product just before.
THEOREM PartialUpdatesFitCorrect ==
  ASSUME ~LateRerun
  PROVE  Spec => []PartialUpdatesFit
<1>1. LineInv => PartialUpdatesFit
  BY BeforeIsBefore DEF LineInv
<1> QED BY <1>1, LineAlways, PTL

-----------------------------------------------------------------------------
(* The releases a device may be offered grow as ReleaseLine says.           *)

Offer(k, log) ==
  [product |-> log[k].product, stamp |-> log[k].stamp,
   generation |-> log[k].lock.generation, kernel |-> log[k].lock.kernel,
   rootfs |-> log[k].lock.rootfs, assets |-> log[k].files \ LockFiles]

LEMMA OfferedIs == Offered = {Offer(k, releases) : k \in Ships(releases)}
BY ShippedShips DEF Offered, Offer

\* A step that publishes nothing is a stutter of the line.
LEMMA OfferedKept ==
  ASSUME SameShips(releases, releases')
  PROVE  Offered' = Offered
<1>1. Offered' = {Offer(k, releases') : k \in Ships(releases')}
  BY DEF Offered, Offer, Shipped, Ships
<1> QED
  BY <1>1, OfferedIs DEF SameShips, Offer

\* A draft that is published is one release of the line.
LEMMA OfferedGrows ==
  ASSUME ~LateRerun, TypeInv, PublishInv, LineInv, NEW i \in DOMAIN runs, ghPublish(i)
  PROVE  Abstract!LNext
<1> DEFINE r == runs[i]
           d == r.draft
           new == releases'
           g == Offer(d, new)
<1>1. /\ \A k \in Ships(releases) : new[k] = releases[k]
      /\ new[d].product = r.product /\ new[d].stamp = r.stamp /\ new[d].lock = r.lock
      /\ Ships(new) = Ships(releases) \cup {d} /\ Whole(new[d], registry) /\ ~Labelled(r, releases)
  BY DraftWhole DEF Ships
<1>2. r.product \in Products /\ OnLine(r, releases) /\ LockOf(r)
  BY RunFacts, LinePublish
<1> HIDE DEF new
<1>3. Offered' = {Offer(k, new) : k \in Ships(new)}
  BY DEF Offered, Offer, Shipped, Ships, new
<1>4. Offered' = Offered \cup {g}
  <2>1. \A k \in Ships(releases) : Offer(k, new) = Offer(k, releases)
    BY <1>1 DEF Offer
  <2> QED BY <1>1, <1>3, <2>1, OfferedIs
<1>5. /\ g.product = r.product /\ g.stamp = r.stamp /\ g.generation = r.generation
      /\ g.kernel = r.lock.kernel /\ g.rootfs = r.archive
      /\ g.assets = Assets(r.previous, r.lock.kernel, r.archive)
  <2>1. new[d].files \ LockFiles = r.lock.assets
    <3>1. r.lock.assets \subseteq AssetFiles
      BY <1>2 DEF LockOf, Locks
    <3>2. AssetFiles \cap LockFiles = {}
      BY DEF AssetFiles, LockFiles
    <3> QED BY <1>1, <3>1, <3>2 DEF Whole
  <2> QED BY <1>1, <1>2, <2>1 DEF Offer, LockOf
<1> HIDE DEF g
<1>6. g \notin Offered
  <2>1. \A k \in Ships(releases) : Offer(k, releases) # g
    BY <1>1, <1>5 DEF Labelled, Offer
  <2> QED BY <2>1, OfferedIs
<1>7. g.kernel \in [inputs : Kernels, bytes : Bytes] /\ g.rootfs \in Packages
  BY <1>2, <1>5 DEF LockOf, Locks, Built
<1>8. \A h \in Offered : h.product = r.product =>
        \E k \in Line(r.product, releases) : h = Offer(k, releases) /\ h.stamp = releases[k].stamp
          /\ h.generation = releases[k].lock.generation
          /\ h.kernel = releases[k].lock.kernel /\ h.rootfs = releases[k].lock.rootfs
  BY OfferedIs DEF Offer, Line
<1>9. \A k \in Line(r.product, releases) :
        /\ Offer(k, releases) \in Offered /\ Offer(k, releases).product = r.product
        /\ Offer(k, releases).stamp = releases[k].stamp
        /\ Offer(k, releases).kernel = releases[k].lock.kernel /\ Offer(k, releases).rootfs = releases[k].lock.rootfs
  BY OfferedIs DEF Offer, Line
<1>10. \A h \in Abstract!Of(g.product) : h.stamp < g.stamp /\ h.generation < g.generation
  BY <1>2, <1>5, <1>8 DEF Abstract!Of, OnLine
<1>11. \A x \in r.previous : \E h \in Abstract!Newest(g.product) : h.kernel = x.lock.kernel /\ h.rootfs = x.lock.rootfs
  <2> SUFFICES ASSUME NEW k \in NewestOf(r.product, releases)
               PROVE  \E h \in Abstract!Newest(g.product) :
                        h.kernel = releases[k].lock.kernel /\ h.rootfs = releases[k].lock.rootfs
    BY <1>2 DEF OnLine
  <2> DEFINE h == Offer(k, releases)
  <2>1. k \in Line(r.product, releases) /\ \A j \in Line(r.product, releases) : releases[j].stamp <= releases[k].stamp
    BY DEF NewestOf
  <2>2. /\ h \in Offered /\ h.product = r.product /\ h.stamp = releases[k].stamp
        /\ h.kernel = releases[k].lock.kernel /\ h.rootfs = releases[k].lock.rootfs
    BY <1>9, <2>1
  <2> HIDE DEF h
  <2>3. \A x \in Offered : x.product = r.product => x.stamp <= h.stamp
    BY <1>8, <2>1, <2>2
  <2>4. h \in Abstract!Newest(g.product)
    BY <1>5, <2>2, <2>3 DEF Abstract!Newest, Abstract!Of
  <2> QED BY <2>2, <2>4
<1>12. Abstract!Complete(g, Abstract!Newest(g.product))
  <2>1. {"image", "full"} \subseteq g.assets
    BY <1>5 DEF Assets
  <2>2. "root" \in g.assets => \E x \in r.previous : x.lock.kernel = g.kernel
    BY <1>5 DEF Assets
  <2>3. "kernel" \in g.assets => \E x \in r.previous : x.lock.rootfs = g.rootfs
    BY <1>5 DEF Assets
  <2> QED BY <1>11, <2>1, <2>2, <2>3 DEF Abstract!Complete
<1>13. Abstract!Release(g)
  BY <1>2, <1>4, <1>5, <1>7, <1>10, <1>12 DEF Abstract!Release
<1> QED
  BY <1>4, <1>6, <1>13 DEF Abstract!LNext

\* The runs of a board's products, in many steps, failing and run again and side
\* by side with each other, publish as if each release were one atomic step over
\* the last one of its product.
THEOREM ReleaseLineCorrect ==
  ASSUME ~LateRerun
  PROVE  Spec => ImplementsReleaseLine
<1>1. Init => Abstract!LInit
  <2> SUFFICES ASSUME Init PROVE Offered = {}
    BY DEF Abstract!LInit
  <2> QED BY OfferedIs DEF Init, Ships
<1>2. TypeInv /\ PublishInv /\ LineInv /\ [Next]_vars => [Abstract!LNext]_Offered
  <2> SUFFICES ASSUME TypeInv, PublishInv, LineInv, [Next]_vars PROVE Abstract!LNext \/ Offered' = Offered
    OBVIOUS
  <2>1. CASE WorldStep
    BY <2>1, WorldShipsKept, OfferedKept
  <2>2. ASSUME NEW i \in DOMAIN runs, RunStep(i)
        PROVE  Abstract!LNext \/ Offered' = Offered
    BY <2>2, ShipsKept, OfferedKept, OfferedGrows
  <2> QED BY <2>1, <2>2, StepCases
<1> QED
  BY <1>1, <1>2, PublishAlways, LineAlways, PTL DEF Spec, ImplementsReleaseLine, Abstract!LSpec
-----------------------------------------------------------------------------
(* One run at a time.                                                       *)

LEMMA SerialProperties ==
  /\ Locked(releases) => VersionsLocked
  /\ Named(releases) => LockNamesItsKernel
BY ShippedShips DEF Locked, Named, VersionsLocked, LockNamesItsKernel

\* What is visible of the board is the same.
LEMMA SameBoard ==
  ASSUME NEW old, NEW new, SameShips(old, new)
  PROVE  /\ \A r : Current(r, new) = Current(r, old)
         /\ \A r : AgainstBoard(r, old) => AgainstBoard(r, new)
         /\ InOrder(old) => InOrder(new)
         /\ Locked(old) => Locked(new)
         /\ Named(old) => Named(new)
<1>1. Ships(new) = Ships(old) /\ \A k \in Ships(old) : new[k] = old[k]
  BY DEF SameShips
<1>2. NewestOfBoard(new) = NewestOfBoard(old) /\ NewestOfBoard(old) \subseteq Ships(old)
  BY <1>1 DEF NewestOfBoard
<1>3. \A r : Current(r, new) = Current(r, old)
  BY <1>1, <1>2 DEF Current
<1>4. \A r : Later(r, old) /\ Guarded(r, old) => Later(r, new) /\ Guarded(r, new)
  BY <1>1 DEF Later, Guarded
<1>5. \A r : OneBuilt(r, old) /\ Chosen(r, old) => OneBuilt(r, new) /\ Chosen(r, new)
  BY <1>3 DEF OneBuilt, Chosen
<1>6. \A r : AgainstBoard(r, old) => AgainstBoard(r, new)
  BY <1>4, <1>5 DEF AgainstBoard
<1>7. InOrder(old) => InOrder(new)
  BY <1>1 DEF InOrder
<1>8. (Locked(old) => Locked(new)) /\ (Named(old) => Named(new))
  BY <1>1 DEF Locked, Named
<1> QED
  BY <1>3, <1>6, <1>7, <1>8

\* The fields of a release of the board.
LEMMA ShipFacts ==
  ASSUME TypeInv, NEW k \in Ships(releases)
  PROVE  /\ k \in DOMAIN releases /\ k \in Nat /\ releases[k] \in OfBoard /\ releases[k].product \in Products
         /\ releases[k].stamp \in Nat /\ releases[k].lock.archive \in Packages
         /\ releases[k].lock.archive.version \in Nat /\ releases[k].lock.component \in Components
<1>1. releases[k] \in OfBoard /\ k \in DOMAIN releases /\ releases[k].product \in Products
  BY ReleaseFacts, ShippedShips DEF Ships
<1>2. releases[k].lock.archive \in Packages /\ releases[k].lock.component \in Components /\ releases[k].stamp \in Nat
  BY <1>1 DEF OfBoard, Locks
<1>3. \A a \in Packages : a.version \in Nat
  BY ReleaseAssumption DEF Packages
<1> QED
  BY <1>1, <1>2, <1>3, ReleaseFacts

\* The newest release of the board is on the first page of the listing.
LEMMA NewestOnPage ==
  ASSUME MaxOthers < PageSize, TypeInv, OthersInOnePlace(releases), NEW m \in Ships(releases),
         \A k \in Ships(releases) : k <= m
  PROVE  releases[m] \in Page
<1> DEFINE later == {j \in Published : j > m}
<1>1. PICK n \in Nat : \A k \in DOMAIN releases : releases[k].product \notin Products => k \in n + 1 .. n + MaxOthers
  BY DEF OthersInOnePlace
<1>2. MaxOthers \in Nat /\ PageSize \in Nat
  BY ReleaseAssumption
<1>3. m \in Nat /\ DOMAIN releases \subseteq Nat
  BY ShipFacts, ReleaseFacts
<1>4. later \subseteq n + 1 .. n + MaxOthers
  <2> SUFFICES ASSUME NEW j \in later PROVE j \in n + 1 .. n + MaxOthers
    OBVIOUS
  <2>1. j \in DOMAIN releases /\ ~releases[j].draft /\ j > m /\ j \in Nat
    BY <1>3 DEF Published
  <2>2. j \notin Ships(releases)
    BY <1>3, <2>1
  <2> QED BY <1>1, <2>1, <2>2 DEF Ships
<1>5. IsFiniteSet(n + 1 .. n + MaxOthers) /\ Cardinality(n + 1 .. n + MaxOthers) <= MaxOthers
  <2>1. n + 1 \in Int /\ n + MaxOthers \in Int
    BY <1>2
  <2>2. /\ IsFiniteSet(n + 1 .. n + MaxOthers)
        /\ Cardinality(n + 1 .. n + MaxOthers) = IF n + 1 > n + MaxOthers THEN 0 ELSE (n + MaxOthers) - (n + 1) + 1
    BY <2>1, FS_Interval
  <2> QED BY <1>2, <2>2
<1>6. IsFiniteSet(later) /\ Cardinality(later) <= MaxOthers /\ Cardinality(later) \in Nat
  BY <1>4, <1>5, <1>2, FS_Subset, FS_CardinalityType
<1>7. Cardinality(later) < PageSize
  BY <1>2, <1>6
<1>8. m \in Published
  BY DEF Published, Ships
<1> QED
  BY <1>7, <1>8 DEF Page

\* The releases the listing answers with are newest ones, and there is one if there is any.
LEMMA LatestNewest ==
  ASSUME MaxOthers < PageSize, TypeInv, PublishInv, SerialInv, NEW r \in Runs, ~Labelled(r, releases)
  PROVE  /\ \A g \in latestLockWith(r.product, r.stamp) : \E k \in NewestOfBoard(releases) : g = releases[k]
         /\ Ships(releases) # {} =>
              \E m \in NewestOfBoard(releases) : releases[m] \in latestLockWith(r.product, r.stamp)
<1> DEFINE P == {g \in Page : /\ g.product \in Products
                              /\ <<g.product, g.stamp>> # <<r.product, r.stamp>>
                              /\ "mica-build.lock" \in g.files}
<1>1. latestLockWith(r.product, r.stamp) = Newest(P)
  BY DEF latestLockWith
<1>2. \A g \in P : \E k \in Ships(releases) : g = releases[k]
  BY DEF Page, Published, Ships
<1>3. CASE Ships(releases) = {}
  BY <1>1, <1>2, <1>3 DEF Newest
<1>4. CASE Ships(releases) # {}
  <2>1. PICK m \in Ships(releases) : \A k \in Ships(releases) : k <= m
    BY <1>4 DEF SerialInv, InOrder
  <2>2. \A k \in Ships(releases) : releases[k].stamp <= releases[m].stamp
    <3> SUFFICES ASSUME NEW k \in Ships(releases) PROVE releases[k].stamp <= releases[m].stamp
      OBVIOUS
    <3>1. k \in Nat /\ m \in Nat /\ releases[m].stamp \in Nat
      BY ShipFacts
    <3>2. k <= m
      BY <2>1
    <3>3. CASE k = m
      BY <3>1, <3>3
    <3>4. CASE k < m
      BY <3>4 DEF SerialInv, InOrder
    <3> QED BY <3>1, <3>2, <3>3, <3>4
  <2>3. m \in NewestOfBoard(releases)
    BY <2>2 DEF NewestOfBoard
  <2>4. releases[m] \in P
    <3>1. releases[m] \in Page
      BY <2>1, NewestOnPage DEF SerialInv
    <3>2. releases[m].product \in Products /\ "mica-build.lock" \in releases[m].files
      BY DEF PublishInv, Whole, LockFiles, Ships
    <3>3. ~(releases[m].product = r.product /\ releases[m].stamp = r.stamp)
      BY DEF Labelled
    <3> QED BY <3>1, <3>2, <3>3
  <2>5. releases[m] \in Newest(P)
    BY <1>2, <2>2, <2>4 DEF Newest
  <2>6. \A g \in Newest(P) : \E k \in NewestOfBoard(releases) : g = releases[k]
    <3> SUFFICES ASSUME NEW g \in Newest(P) PROVE \E k \in NewestOfBoard(releases) : g = releases[k]
      OBVIOUS
    <3>1. PICK k \in Ships(releases) : g = releases[k]
      BY <1>2 DEF Newest
    <3>2. releases[m].stamp <= releases[k].stamp
      BY <2>4, <3>1 DEF Newest
    <3>3. \A j \in Ships(releases) : releases[j].stamp <= releases[k].stamp
      BY <2>2, <3>2, ShipFacts
    <3> QED BY <3>1, <3>3 DEF NewestOfBoard
  <2> QED BY <1>1, <2>3, <2>5, <2>6
<1> QED
  BY <1>3, <1>4

\* The newest releases of a board have one archive and one kernel between them.
LEMMA NewestAgree ==
  ASSUME TypeInv, SerialInv, NEW j \in NewestOfBoard(releases), NEW k \in NewestOfBoard(releases)
  PROVE  releases[j].lock.archive = releases[k].lock.archive /\ releases[j].lock.component = releases[k].lock.component
<1>1. j \in Ships(releases) /\ k \in Ships(releases) /\ releases[j].stamp <= releases[k].stamp /\ releases[k].stamp <= releases[j].stamp
  BY DEF NewestOfBoard
<1>2. releases[j].stamp = releases[k].stamp
  BY <1>1, ShipFacts
<1> QED
  BY <1>1, <1>2 DEF SerialInv, OnBoardTags, Behind

\* The kernels that the release before offers are the current ones.
LEMMA ReuseIsCurrent ==
  ASSUME MaxOthers < PageSize, TypeInv, PublishInv, SerialInv, NEW r \in Runs, ~Labelled(r, releases)
  PROVE  /\ reuse(r) = Current(r, releases)
         /\ \A c, e \in Current(r, releases) : c = e
<1> DEFINE L == latestLockWith(r.product, r.stamp)
<1>1. \A c \in reuse(r) : c \in Current(r, releases)
  <2> SUFFICES ASSUME NEW g \in L, g.lock.component.content.inputs = r.commit.kernel
               PROVE  g.lock.component \in Current(r, releases)
    BY DEF reuse
  <2> QED BY LatestNewest DEF Current
<1>2. \A c \in Current(r, releases) : c \in reuse(r)
  <2> SUFFICES ASSUME NEW k \in NewestOfBoard(releases), releases[k].lock.component.content.inputs = r.commit.kernel
               PROVE  releases[k].lock.component \in reuse(r)
    BY DEF Current
  <2>1. Ships(releases) # {}
    BY DEF NewestOfBoard
  <2>2. PICK m \in NewestOfBoard(releases) : releases[m] \in L
    BY <2>1, LatestNewest
  <2>3. releases[m].lock.component = releases[k].lock.component
    BY NewestAgree
  <2> QED BY <2>2, <2>3 DEF reuse
<1>3. \A c, e \in Current(r, releases) : c = e
  BY NewestAgree DEF Current
<1> QED
  BY <1>1, <1>2, <1>3

\* A package that passes the guard may be published beside every release.
LEMMA GuardFollows ==
  ASSUME MaxOthers < PageSize, TypeInv, PublishInv, SerialInv, NEW r \in Runs, ~Labelled(r, releases),
         NEW archive \in Packages,
         \/ latestLockWith(r.product, r.stamp) = {}
         \/ \E g \in latestLockWith(r.product, r.stamp) : versionGuard(archive, g)
  PROVE  \A k \in Ships(releases) : Follows(archive, releases[k].lock.archive)
<1> SUFFICES ASSUME NEW k \in Ships(releases) PROVE Follows(archive, releases[k].lock.archive)
  OBVIOUS
<1>1. PICK g \in latestLockWith(r.product, r.stamp) : versionGuard(archive, g)
  BY LatestNewest
<1>2. PICK m \in NewestOfBoard(releases) : g = releases[m]
  BY LatestNewest
<1>3. m \in Ships(releases) /\ releases[k].stamp <= releases[m].stamp
  BY <1>2 DEF NewestOfBoard
<1> DEFINE last == releases[m].lock.archive
           old == releases[k].lock.archive
<1>4. /\ last \in Packages /\ last.version \in Nat /\ old \in Packages /\ old.version \in Nat
      /\ releases[k].stamp \in Nat /\ releases[m].stamp \in Nat
  BY <1>3, ShipFacts
<1>5. archive.version \in Nat
  BY ReleaseAssumption DEF Packages
<1>6. old.version <= last.version /\ (old.version = last.version => old = last)
  <2>1. CASE releases[k].stamp < releases[m].stamp
    BY <1>3, <2>1 DEF SerialInv, Locked
  <2>2. CASE releases[k].stamp = releases[m].stamp
    <3>1. old = last
      BY <1>3, <2>2 DEF SerialInv, OnBoardTags, Behind
    <3> QED BY <1>4, <3>1
  <2> QED BY <1>3, <1>4, <2>1, <2>2
<1>7. archive.version > last.version \/ archive = last
  <2>1. \/ archive.version > last.version
        \/ archive.version = last.version /\ archive.inputs = last.inputs /\ archive.bytes = last.bytes
    BY <1>1, <1>2 DEF versionGuard
  <2> QED BY <1>4, <2>1 DEF Packages
<1> HIDE DEF last, old
<1> QED
  BY <1>4, <1>5, <1>6, <1>7 DEF Follows, old
\* A run that keeps its work keeps what it has checked and what it has put.
KeepsWork(q, r) ==
  /\ q.product = r.product /\ q.commit = r.commit /\ q.stamp = r.stamp /\ q.archive = r.archive
  /\ q.built = r.built /\ q.component = r.component /\ q.lock = r.lock

LEMMA KeptAgainst ==
  ASSUME NEW q, NEW r, NEW log, KeepsWork(q, r), q.job = r.job, AtKernel(q) => AtKernel(r), AgainstBoard(r, log)
  PROVE  AgainstBoard(q, log)
<1>1. Current(q, log) = Current(r, log)
  BY DEF Current, KeepsWork
<1>2. Later(q, log) /\ Guarded(q, log)
  BY DEF AgainstBoard, Later, Guarded, KeepsWork
<1>3. OneBuilt(q, log)
  BY <1>1 DEF AgainstBoard, OneBuilt, KeepsWork
<1>4. Chosen(q, log)
  BY <1>1 DEF AgainstBoard, Chosen, KeepsWork
<1> QED
  BY <1>2, <1>3, <1>4 DEF AgainstBoard, KeepsWork

LEMMA KeptTags ==
  ASSUME NEW q, NEW r, NEW reg, KeepsWork(q, r), q.job = r.job, AtKernel(q) => AtKernel(r), BoardTags(r, reg),
         q.pc = "back" => Tag(q) \in DOMAIN reg,
         q.pc = "component" => Behind("pool", q.stamp, q.archive, reg)
  PROVE  BoardTags(q, reg)
BY DEF BoardTags, KeepsWork

LEMMA GrownTags ==
  ASSUME NEW old, NEW new, DOMAIN old \subseteq DOMAIN new, \A tag \in DOMAIN old : new[tag] = old[tag]
  PROVE  /\ \A r : BoardTags(r, old) => BoardTags(r, new)
         /\ \A g : OnBoardTags(g, old) => OnBoardTags(g, new)
<1>1. \A type, stamp, manifest : Behind(type, stamp, manifest, old) => Behind(type, stamp, manifest, new)
  BY DEF Behind
<1> QED
  BY <1>1 DEF BoardTags, OnBoardTags

\* Only the last run is at work.
LEMMA RunIsLast ==
  ASSUME ~SideBySide, ~LateRerun, TypeInv, SerialInv, NEW i \in DOMAIN runs, RunStep(i)
  PROVE  i = Len(runs)
<1>1. DOMAIN runs = 1 .. Len(runs) /\ Len(runs) \in Nat
  BY DEF TypeInv
<1>2. CASE i \in Active
  BY <1>2 DEF SerialInv
<1>3. CASE Rerun(i)
  <2>1. i + 1 .. Len(runs) = {}
    BY <1>3 DEF Rerun
  <2> QED BY <1>1, <2>1
<1>4. i \in Active \/ Rerun(i)
  BY DEF RunStep, Plan, PlanComponents, VersionGuard, CheckTag, PutTag, ReadBackTag, ChooseComponent, Replan, Build,
         ghCreateDraft, ghUpload, ghPublish, ReadBackRelease, Fail, Active, Ended
<1> QED
  BY <1>2, <1>3, <1>4

\* A step of a run adds no release of others.
LEMMA RunOthers ==
  ASSUME TypeInv, PublishInv, NEW i \in DOMAIN runs, RunStep(i)
  PROVE  \A k \in DOMAIN releases' : releases'[k].product \notin Products =>
           k \in DOMAIN releases /\ releases[k].product \notin Products
<1> DEFINE r == runs[i]
<1>0. releases \in Seq(Releases) /\ r.product \in Products /\ Uploading(r, releases)
  BY RunFacts DEF TypeInv, PublishInv
<1>1. CASE UNCHANGED releases
  BY <1>1
<1>2. CASE ghCreateDraft(i) /\ ~UNCHANGED releases
  <2> DEFINE g == [product |-> r.product, stamp |-> r.stamp, draft |-> TRUE, files |-> {}, lock |-> r.lock]
  <2>1. releases' = Append(releases, g) /\ g.product = r.product
    BY <1>2 DEF ghCreateDraft
  <2> HIDE DEF g
  <2>2. /\ DOMAIN releases' = DOMAIN releases \cup {Len(releases) + 1} /\ releases'[Len(releases) + 1] = g
        /\ \A k \in DOMAIN releases : releases'[k] = releases[k]
    BY <1>0, <2>1
  <2> QED BY <1>0, <2>1, <2>2
<1>3. CASE ghUpload(i) \/ ghPublish(i)
  <2>1. /\ DOMAIN releases' = DOMAIN releases
        /\ \A k \in DOMAIN releases : k # r.draft => releases'[k] = releases[k]
    BY <1>0, <1>3 DEF ghUpload, ghPublish
  <2>2. r.draft \in DOMAIN releases /\ releases[r.draft].product = r.product /\ releases[r.draft] \in OfBoard
    BY <1>0, <1>3, ReleaseFacts DEF ghUpload, ghPublish, Uploading
  <2>3. releases'[r.draft].product = r.product
    BY <1>0, <1>3, <2>2 DEF ghUpload, ghPublish, OfBoard
  <2> QED BY <1>0, <2>1, <2>2, <2>3
<1> QED
  BY <1>1, <1>2, <1>3, ReleasesKept

\* A step of the last run that publishes nothing.
LEMMA SerialMove ==
  ASSUME ~SideBySide, ~LateRerun, TypeInv, PublishInv, PutFree, SerialInv, [Next]_vars,
         NEW i \in DOMAIN runs, RunStep(i), SameShips(releases, releases'), UNCHANGED minute, NEW q, Step(i, q), q.product = runs[i].product,
         BoardTags(q, registry'),
         q.pc = "upload" => \A k \in Ships(releases) : k < q.draft,
         ~Labelled(q, releases) => AgainstBoard(q, releases)
  PROVE  SerialInv'
<1>1. i = Len(runs) /\ SameShips(releases, releases') /\ DOMAIN runs = 1 .. Len(runs)
  BY RunIsLast DEF TypeInv
<1>2. /\ DOMAIN runs' = DOMAIN runs /\ Len(runs') = Len(runs) /\ runs'[i] = q
      /\ \A j \in DOMAIN runs : j # i => runs'[j] = runs[j]
  BY StepOthers
<1>3. \A j \in Active' : j = Len(runs')
  BY <1>1, <1>2 DEF Active, SerialInv
<1>4. OthersInOnePlace(releases')
  BY RunOthers DEF OthersInOnePlace, SerialInv
<1>5. DOMAIN registry \subseteq DOMAIN registry' /\ \A tag \in DOMAIN registry : registry'[tag] = registry[tag]
  BY RegistryGrows
<1>6. /\ \A s : BoardTags(s, registry) => BoardTags(s, registry')
      /\ \A g : OnBoardTags(g, registry) => OnBoardTags(g, registry')
  BY <1>5, GrownTags
<1>7. \A k \in Ships(releases') : releases'[k].stamp <= minute' /\ OnBoardTags(releases'[k], registry')
  BY <1>1, <1>6 DEF SerialInv, SameShips
<1>8. InOrder(releases') /\ Locked(releases') /\ Named(releases')
      /\ \A s : AgainstBoard(s, releases) => AgainstBoard(s, releases')
  BY <1>1, SameBoard DEF SerialInv
<1>9. Ships(releases') = Ships(releases) /\ \A s : Labelled(s, releases) <=> Labelled(s, releases')
  BY <1>1, SameLine DEF SameShips
<1>10. \A j \in DOMAIN runs' : SerialRun(j)'
  <2> SUFFICES ASSUME NEW j \in DOMAIN runs PROVE SerialRun(j)'
    BY <1>2
  <2>1. CASE j = i
    <3>1. BoardTags(runs'[j], registry')
      BY <1>2, <2>1
    <3>2. runs'[j].pc = "upload" => \A k \in Ships(releases') : k < runs'[j].draft
      BY <1>2, <1>9, <2>1
    <3>3. ~Labelled(runs'[j], releases') => AgainstBoard(runs'[j], releases')
      BY <1>2, <1>8, <1>9, <2>1
    <3> QED BY <3>1, <3>2, <3>3 DEF SerialRun
  <2>2. CASE j # i
    BY <1>1, <1>2, <1>6, <1>9, <2>2 DEF SerialInv, SerialRun
  <2> QED BY <2>1, <2>2
<1> QED
  BY <1>3, <1>4, <1>7, <1>8, <1>10 DEF SerialInv
\* What the last run starts a step from.
LEMMA SerialFacts ==
  ASSUME ~SideBySide, ~LateRerun, TypeInv, SerialInv, NEW i \in DOMAIN runs, RunStep(i)
  PROVE  /\ runs[i] \in Runs /\ StepOfJob(runs[i]) /\ Has(runs[i]) /\ BoardTags(runs[i], registry) /\ UNCHANGED minute
         /\ ~Labelled(runs[i], releases) => AgainstBoard(runs[i], releases)
<1>1. i = Len(runs) /\ SerialRun(i)
  BY RunIsLast DEF SerialInv
<1>2. UNCHANGED minute
  BY DEF RunStep, Local, Plan, PlanComponents, VersionGuard, CheckTag, PutTag, ReadBackTag, ChooseComponent, Replan, Build,
         ghCreateDraft, ghUpload, ghPublish, ReadBackRelease, Fail, Rerun
<1> QED
  BY <1>1, <1>2, RunFacts DEF SerialRun

\* Steps at which a run keeps its work and its job.
LEMMA SerialKeeps ==
  ASSUME ~SideBySide, ~LateRerun, TypeInv, PublishInv, PutFree, SerialInv, [Next]_vars,
         NEW i \in DOMAIN runs, RunStep(i), SameShips(releases, releases'), NEW q, Step(i, q), KeepsWork(q, runs[i]), q.job = runs[i].job,
         AtKernel(q) => AtKernel(runs[i]),
         q.pc = "back" => Tag(q) \in DOMAIN registry',
         q.pc = "component" => Behind("pool", q.stamp, q.archive, registry'),
         q.pc = "upload" => \A k \in Ships(releases) : k < q.draft
  PROVE  SerialInv'
<1> DEFINE r == runs[i]
<1>1. BoardTags(r, registry) /\ (~Labelled(r, releases) => AgainstBoard(r, releases)) /\ UNCHANGED minute
  BY SerialFacts
<1>2. BoardTags(r, registry')
  BY <1>1, RegistryGrows, GrownTags
<1>3. BoardTags(q, registry')
  BY <1>2, KeptTags
<1>4. Labelled(q, releases) <=> Labelled(r, releases)
  BY DEF Labelled, KeepsWork
<1>5. ~Labelled(q, releases) => AgainstBoard(q, releases)
  BY <1>1, <1>4, KeptAgainst
<1> QED
  BY <1>1, <1>3, <1>5, SerialMove DEF KeepsWork

LEMMA SerialPc ==
  ASSUME ~SideBySide, ~LateRerun, TypeInv, PublishInv, PutFree, SerialInv, [Next]_vars,
         NEW i \in DOMAIN runs, RunStep(i), SameShips(releases, releases'), NEW p, Step(i, [runs[i] EXCEPT !.pc = p]),
         p \notin {"component", "upload"}, p = "back" => Tag(runs[i]) \in DOMAIN registry'
  PROVE  SerialInv'
<1> DEFINE r == runs[i]
           q == [r EXCEPT !.pc = p]
<1>1. r \in Runs
  BY RunFacts
<1>2. KeepsWork(q, r) /\ q.job = r.job /\ q.target = r.target /\ q.pc = p
  BY <1>1 DEF Runs, KeepsWork
<1>3. Tag(q) = Tag(r) /\ (AtKernel(q) => AtKernel(r))
  BY <1>2 DEF Tag, AtKernel, KeepsWork
<1> HIDE DEF q
<1> QED
  BY <1>2, <1>3, SerialKeeps DEF q

\* A step after which nothing is published has left the releases alone.
LEMMA StillShips ==
  ASSUME UNCHANGED releases
  PROVE  SameShips(releases, releases')
BY DEF SameShips, Ships

\* The steps at which a run keeps its work.
LEMMA SerialSame ==
  ASSUME ~SideBySide, ~LateRerun, TypeInv, PublishInv, PutFree, SerialInv, [Next]_vars, NEW i \in DOMAIN runs,
         CheckTag(i) \/ PutTag(i) \/ ReadBackRelease(i) \/ Fail(i) \/ Replan(i) \/ Rerun(i) \/ ghCreateDraft(i)
  PROVE  SerialInv'
<1> DEFINE r == runs[i]
<1>0. RunStep(i) /\ r \in Runs /\ StepOfJob(r) /\ BoardTags(r, registry) /\ releases \in Seq(Releases)
  BY RunFacts, SerialFacts DEF RunStep, TypeInv
<1>1. CASE CheckTag(i)
  <2>1. PICK p \in {"put", "back", "failed"} : Step(i, [r EXCEPT !.pc = p]) /\ (p = "back" => Tag(r) \in DOMAIN registry)
    BY <1>1 DEF CheckTag, Refuse, Failed
  <2>2. UNCHANGED <<releases, registry>>
    BY <1>1 DEF CheckTag, Local
  <2> QED BY <1>0, <2>1, <2>2, SerialPc, StillShips
<1>2. CASE PutTag(i)
  <2>1. PICK p \in {"back"} : Step(i, [r EXCEPT !.pc = p]) /\ Tag(r) \in DOMAIN registry' /\ UNCHANGED releases
    BY <1>2 DEF PutTag
  <2> QED BY <1>0, <2>1, SerialPc, StillShips
<1>3. CASE ReadBackRelease(i)
  <2>1. PICK p \in {"done"} : Step(i, [r EXCEPT !.pc = p]) /\ UNCHANGED releases
    BY <1>3 DEF ReadBackRelease, Local
  <2> QED BY <1>0, <2>1, SerialPc, StillShips
<1>4. CASE Refuse(i) /\ UNCHANGED releases
  <2>1. PICK p \in {"failed"} : Step(i, [r EXCEPT !.pc = p])
    BY <1>4 DEF Refuse, Failed
  <2> QED BY <1>0, <1>4, <2>1, SerialPc, StillShips
<1>5. CASE Replan(i) /\ ~Refuse(i)
  <2>1. PICK a : Step(i, [r EXCEPT !.previous = a, !.pc = "build"])
    BY <1>5 DEF Replan
  <2> DEFINE q == [r EXCEPT !.previous = a, !.pc = "build"]
  <2>2. UNCHANGED releases
    BY <1>5 DEF Replan, Local
  <2>3. KeepsWork(q, r) /\ q.job = r.job /\ q.pc = "build" /\ q.target = r.target
    BY <1>0 DEF Runs, KeepsWork
  <2>4. AtKernel(q) => AtKernel(r)
    BY <2>3 DEF AtKernel
  <2> HIDE DEF q
  <2> QED BY <1>0, <2>1, <2>2, <2>3, <2>4, SerialKeeps, StillShips DEF q
<1>6. CASE Rerun(i)
  <2> DEFINE q == FirstStep(r)
  <2>1. Step(i, q) /\ UNCHANGED releases /\ r.job \in Jobs
    BY <1>0, <1>6 DEF Rerun, Local, Runs
  <2>2. /\ SameWork(q, r) /\ q.job = r.job /\ q.pc \notin {"back", "component", "upload"}
        /\ q.job = "board-publish" => q.target = "pool"
    BY <1>0, <2>1, FirstStepFacts DEF Jobs
  <2> HIDE DEF q
  <2>3. KeepsWork(q, r) /\ (AtKernel(q) => AtKernel(r))
    BY <2>2 DEF SameWork, KeepsWork, AtKernel
  <2> QED BY <1>0, <2>1, <2>2, <2>3, SerialKeeps, StillShips
<1>7. CASE ghCreateDraft(i) /\ ~(Refuse(i) /\ UNCHANGED releases)
  <2> DEFINE n == Len(releases) + 1
             q == [r EXCEPT !.draft = n, !.pc = "upload"]
  <2>1. Step(i, q) /\ r.pc = "draft"
    BY <1>7 DEF ghCreateDraft
  <2>2. KeepsWork(q, r) /\ q.job = r.job /\ q.pc = "upload" /\ q.target = r.target /\ q.draft = n
    <3> HIDE DEF n
    <3> QED BY <1>0 DEF Runs, KeepsWork
  <2>3. AtKernel(q) => AtKernel(r)
    BY <2>2 DEF AtKernel
  <2>4. \A k \in Ships(releases) : k < n
    BY <1>0, ReleaseFacts, ShipFacts
  <2>5. SameShips(releases, releases')
    <3>1. ~ghPublish(i)
      BY <2>1 DEF ghPublish
    <3> QED BY <1>0, <3>1, ShipsKept
  <2> HIDE DEF q
  <2> QED BY <1>0, <2>1, <2>2, <2>3, <2>4, <2>5, SerialKeeps
<1> QED
  BY <1>1, <1>2, <1>3, <1>4, <1>5, <1>6, <1>7 DEF Fail, Replan, Local

\* A tag of the board that reads back holds what the run has put there.
LEMMA SerialReadBack ==
  ASSUME ~SideBySide, ~LateRerun, TypeInv, PublishInv, PutFree, SerialInv, [Next]_vars, NEW i \in DOMAIN runs, ReadBackTag(i)
  PROVE  SerialInv'
<1> DEFINE r == runs[i]
<1>0. /\ RunStep(i) /\ r \in Runs /\ StepOfJob(r) /\ BoardTags(r, registry) /\ UNCHANGED <<releases, registry, minute>>
      /\ r.pc = "back" /\ r.target \in {"pool", "kernel", "image", "update"}
      /\ ~Labelled(r, releases) => AgainstBoard(r, releases)
  BY RunFacts, SerialFacts DEF RunStep, ReadBackTag, Local, Runs
<1>1. CASE Refuse(i)
  <2>1. Step(i, [r EXCEPT !.pc = "failed"])
    BY <1>1 DEF Refuse, Failed
  <2> QED BY <1>0, <2>1, SerialPc, StillShips
<1>2. CASE ~Refuse(i) /\ r.target = "pool"
  <2> DEFINE q == [r EXCEPT !.pc = "component"]
  <2>1. Step(i, q) /\ registry[Tag(r)] = Manifest(r)
    BY <1>2 DEF ReadBackTag, After
  <2>2. KeepsWork(q, r) /\ q.job = r.job /\ q.pc = "component" /\ q.target = r.target
    BY <1>0 DEF Runs, KeepsWork
  <2>3. Behind("pool", r.stamp, r.archive, registry)
    BY <1>0, <1>2, <2>1 DEF BoardTags, Behind, Tag, Manifest
  <2>4. ~AtKernel(q) /\ Behind("pool", q.stamp, q.archive, registry')
    BY <1>0, <1>2, <2>2, <2>3 DEF AtKernel, KeepsWork
  <2> HIDE DEF q
  <2> QED BY <1>0, <2>1, <2>2, <2>4, SerialKeeps, StillShips
<1>3. CASE ~Refuse(i) /\ r.target = "kernel"
  <2> DEFINE q == [r EXCEPT !.pc = "replan", !.job = "product"]
  <2>1. Step(i, q) /\ registry[Tag(r)] = Manifest(r)
    BY <1>3 DEF ReadBackTag, After
  <2>2. KeepsWork(q, r) /\ q.job = "product" /\ q.pc = "replan"
    BY <1>0 DEF Runs, KeepsWork
  <2>3. AtKernel(r) /\ r.job = "board-publish"
    BY <1>0, <1>3 DEF AtKernel, StepOfJob, AtTag
  <2>4. Behind("kernel", r.stamp, r.component, registry) /\ Behind("pool", r.stamp, r.archive, registry)
    BY <1>0, <1>3, <2>1, <2>3 DEF BoardTags, Behind, Tag, Manifest
  <2> HIDE DEF q
  <2>5. BoardTags(q, registry')
    BY <1>0, <2>2, <2>4 DEF BoardTags, KeepsWork
  <2>6. Labelled(q, releases) <=> Labelled(r, releases)
    BY <2>2 DEF Labelled, KeepsWork
  <2>7. Current(q, releases) = Current(r, releases)
    BY <2>2 DEF Current, KeepsWork
  <2>8. ~Labelled(q, releases) => AgainstBoard(q, releases)
    BY <1>0, <2>2, <2>3, <2>6, <2>7 DEF AgainstBoard, Later, Guarded, OneBuilt, Chosen, KeepsWork
  <2> QED BY <1>0, <2>1, <2>2, <2>5, <2>8, SerialMove, StillShips DEF KeepsWork
<1>4. CASE ~Refuse(i) /\ r.target = "image"
  <2> DEFINE q == [r EXCEPT !.pc = "check", !.target = "update"]
  <2>1. Step(i, q)
    BY <1>4 DEF ReadBackTag, After
  <2>2. KeepsWork(q, r) /\ q.job = r.job /\ q.pc = "check" /\ q.target = "update"
    BY <1>0 DEF Runs, KeepsWork
  <2>3. ~AtKernel(q)
    BY <2>2 DEF AtKernel
  <2> HIDE DEF q
  <2> QED BY <1>0, <2>1, <2>2, <2>3, SerialKeeps, StillShips
<1>5. CASE ~Refuse(i) /\ r.target = "update"
  <2>1. Step(i, [r EXCEPT !.pc = "draft"])
    BY <1>5 DEF ReadBackTag, After
  <2> QED BY <1>0, <2>1, SerialPc, StillShips
<1> QED
  BY <1>0, <1>1, <1>2, <1>3, <1>4, <1>5

\* A run that is planned knows every release of the board, and builds a kernel
\* only when no newest release has one of its inputs.
LEMMA SerialPlanning ==
  ASSUME ~SideBySide, ~LateRerun, MaxOthers < PageSize, TypeInv, PublishInv, PutFree, SerialInv, [Next]_vars,
         NEW i \in DOMAIN runs, Plan(i) \/ PlanComponents(i) \/ VersionGuard(i)
  PROVE  SerialInv'
<1> DEFINE r == runs[i]
<1>0. /\ RunStep(i) /\ r \in Runs /\ StepOfJob(r) /\ BoardTags(r, registry) /\ UNCHANGED <<releases, registry, minute>>
      /\ ~Labelled(r, releases) => AgainstBoard(r, releases)
      /\ SameShips(releases, releases')
  BY RunFacts, SerialFacts, StillShips DEF RunStep, Local, Plan, PlanComponents, VersionGuard
<1>1. CASE Refuse(i)
  <2>1. PICK p \in {"failed"} : Step(i, [r EXCEPT !.pc = p])
    BY <1>1 DEF Refuse, Failed
  <2> QED BY <1>0, <2>1, SerialPc
<1>2. CASE Plan(i) /\ ~Refuse(i)
  <2>0. PICK floor \in Floors \cup {0} : \E line \in plan(r.product, minute, floor) :
          Step(i, [r EXCEPT !.stamp = minute, !.generation = line.generation,
                            !.previous = line.previous, !.pc = "components", !.job = "components"])
    BY <1>2 DEF Plan
  <2>1. PICK line \in plan(r.product, minute, floor) :
          Step(i, [r EXCEPT !.stamp = minute, !.generation = line.generation,
                            !.previous = line.previous, !.pc = "components", !.job = "components"])
    BY <2>0
  <2> DEFINE q == [r EXCEPT !.stamp = minute, !.generation = line.generation,
                            !.previous = line.previous, !.pc = "components", !.job = "components"]
  <2>2. q.product = r.product /\ q.job = "components" /\ q.pc = "components" /\ q.stamp = minute
    BY <1>0 DEF Runs
  <2> HIDE DEF q
  <2>3. Later(q, releases)
    BY <2>2 DEF Later, SerialInv
  <2>4. ~AtKernel(q) /\ BoardTags(q, registry')
    BY <2>2 DEF BoardTags, AtKernel
  <2>5. AgainstBoard(q, releases)
    BY <2>2, <2>3, <2>4 DEF AgainstBoard, Guarded, OneBuilt, Chosen
  <2> QED BY <1>0, <2>1, <2>2, <2>4, <2>5, SerialMove DEF q
<1>3. CASE PlanComponents(i)
  <2>1. PICK built : /\ built \in IF reuse(r) # {} THEN {None} ELSE {{kernel} : kernel \in [inputs : {r.commit.kernel}, bytes : Bytes]}
                     /\ Step(i, [r EXCEPT !.built = built, !.pc = "guard", !.job = "guard"])
    BY <1>3 DEF PlanComponents
  <2> DEFINE q == [r EXCEPT !.built = built, !.pc = "guard", !.job = "guard"]
  <2>2. /\ q.product = r.product /\ q.stamp = r.stamp /\ q.commit = r.commit /\ q.built = built
        /\ q.job = "guard" /\ q.pc = "guard"
    BY <1>0 DEF Runs
  <2>3. r.job = "components"
    BY <1>0, <1>3 DEF PlanComponents, StepOfJob
  <2> HIDE DEF q
  <2>4. ~AtKernel(q) /\ BoardTags(q, registry')
    BY <2>2 DEF BoardTags, AtKernel
  <2>5. ASSUME ~Labelled(q, releases) PROVE AgainstBoard(q, releases)
    <3>1. ~Labelled(r, releases)
      BY <2>2, <2>5 DEF Labelled
    <3>2. Later(q, releases)
      BY <1>0, <2>2, <2>3, <3>1 DEF AgainstBoard, Later
    <3>3. reuse(r) = Current(r, releases) /\ Current(q, releases) = Current(r, releases)
      BY <1>0, <2>2, <3>1, ReuseIsCurrent DEF Current
    <3>4. built # None => reuse(r) = {} /\ \E b \in Built : built = {b}
      <4>1. r.commit.kernel \in Kernels
        BY <1>0 DEF Runs, Commits
      <4> QED BY <2>1, <4>1 DEF Built
    <3>5. OneBuilt(q, releases)
      BY <2>2, <3>3, <3>4 DEF OneBuilt
    <3> QED BY <2>2, <2>4, <3>2, <3>5 DEF AgainstBoard, Guarded, Chosen
  <2> QED BY <1>0, <2>1, <2>2, <2>4, <2>5, SerialMove DEF q
<1>4. CASE VersionGuard(i) /\ ~Refuse(i)
  <2> DEFINE latest == latestLockWith(r.product, r.stamp)
             archive(bytes) == [version |-> r.commit.version, inputs |-> r.commit.inputs, bytes |-> bytes]
  <2>1. PICK bytes \in Bytes :
          /\ latest = {} \/ \E g \in latest : versionGuard(archive(bytes), g)
          /\ Step(i, [r EXCEPT !.archive = archive(bytes), !.pc = "check", !.target = "pool", !.job = "board-publish"])
    BY <1>4 DEF VersionGuard
  <2> DEFINE a == archive(bytes)
             q == [r EXCEPT !.archive = a, !.pc = "check", !.target = "pool", !.job = "board-publish"]
  <2>2. a \in Packages /\ (latest = {} \/ \E g \in latest : versionGuard(a, g))
    BY <1>0, <2>1 DEF Packages, Commits, Runs
  <2>3. Step(i, q)
    BY <2>1
  <2> HIDE DEF archive, a
  <2>4. /\ q.product = r.product /\ q.stamp = r.stamp /\ q.commit = r.commit /\ q.built = r.built /\ q.archive = a
        /\ q.job = "board-publish" /\ q.pc = "check" /\ q.target = "pool"
    BY <1>0 DEF Runs
  <2> HIDE DEF q
  <2>5. r.job = "guard"
    BY <1>0, <1>4 DEF VersionGuard, StepOfJob
  <2>6. ~AtKernel(q) /\ BoardTags(q, registry')
    BY <2>4 DEF BoardTags, AtKernel
  <2>7. ASSUME ~Labelled(q, releases) PROVE AgainstBoard(q, releases)
    <3>1. ~Labelled(r, releases) /\ Current(q, releases) = Current(r, releases)
      BY <2>4, <2>7 DEF Labelled, Current
    <3>2. Later(q, releases) /\ OneBuilt(q, releases)
      BY <1>0, <2>4, <2>5, <3>1 DEF AgainstBoard, Later, OneBuilt
    <3>3. Guarded(q, releases)
      BY <1>0, <2>2, <2>4, <3>1, GuardFollows DEF Guarded
    <3> QED BY <2>4, <2>6, <3>2, <3>3 DEF AgainstBoard, Chosen
  <2> QED BY <1>0, <2>3, <2>4, <2>6, <2>7, SerialMove
<1> QED
  BY <1>1, <1>2, <1>3, <1>4

\* The kernel a run publishes is the one its product packs.
LEMMA SerialBuilding ==
  ASSUME ~SideBySide, ~LateRerun, MaxOthers < PageSize, TypeInv, PublishInv, PutFree, SerialInv, [Next]_vars,
         NEW i \in DOMAIN runs, ChooseComponent(i) \/ Build(i)
  PROVE  SerialInv'
<1> DEFINE r == runs[i]
<1>0. /\ RunStep(i) /\ r \in Runs /\ StepOfJob(r) /\ BoardTags(r, registry) /\ UNCHANGED <<releases, registry, minute>>
      /\ ~Labelled(r, releases) => AgainstBoard(r, releases)
      /\ SameShips(releases, releases')
  BY RunFacts, SerialFacts, StillShips DEF RunStep, Local, ChooseComponent, Build
<1>1. CASE Refuse(i)
  <2>1. PICK p \in {"failed"} : Step(i, [r EXCEPT !.pc = p])
    BY <1>1 DEF Refuse, Failed
  <2> QED BY <1>0, <2>1, SerialPc
<1>2. CASE ChooseComponent(i) /\ ~Refuse(i)
  <2>1. PICK c : /\ Step(i, [r EXCEPT !.component = c, !.pc = "check", !.target = "kernel"])
                 /\ \/ c \in reuse(r)
                    \/ reuse(r) = {} /\ r.built # None
                       /\ \E kernel \in r.built : c = [content |-> kernel, label |-> <<r.product, r.stamp>>]
    BY <1>2 DEF ChooseComponent
  <2> DEFINE q == [r EXCEPT !.component = c, !.pc = "check", !.target = "kernel"]
  <2>2. /\ q.product = r.product /\ q.stamp = r.stamp /\ q.commit = r.commit /\ q.built = r.built /\ q.archive = r.archive
        /\ q.job = r.job /\ q.pc = "check" /\ q.target = "kernel" /\ q.component = c
    BY <1>0 DEF Runs
  <2> HIDE DEF q
  <2>3. r.job = "board-publish" /\ r.pc = "component"
    BY <1>0, <1>2 DEF ChooseComponent, StepOfJob
  <2>4. BoardTags(q, registry')
    BY <1>0, <2>2, <2>3 DEF BoardTags
  <2>5. ASSUME ~Labelled(q, releases) PROVE AgainstBoard(q, releases)
    <3>1. ~Labelled(r, releases) /\ Current(q, releases) = Current(r, releases)
      BY <2>2, <2>5 DEF Labelled, Current
    <3>2. Later(q, releases) /\ OneBuilt(q, releases) /\ Guarded(q, releases)
      BY <1>0, <2>2, <2>3, <3>1 DEF AgainstBoard, Later, OneBuilt, Guarded
    <3>3. reuse(r) = Current(r, releases)
      BY <1>0, <3>1, ReuseIsCurrent
    <3>4. Chosen(q, releases)
      <4>1. CASE r.built = None
        BY <2>1, <2>2, <3>1, <3>3, <4>1 DEF Chosen
      <4>2. CASE r.built # None
        <5>1. Current(r, releases) = {} /\ \E b \in Built : r.built = {b}
          BY <1>0, <2>3, <3>1, <4>2 DEF AgainstBoard, OneBuilt
        <5>2. PICK kernel \in r.built : c = [content |-> kernel, label |-> <<r.product, r.stamp>>]
          BY <2>1, <3>3, <5>1
        <5>3. r.built = {c.content}
          BY <5>1, <5>2
        <5> QED BY <2>2, <4>2, <5>3 DEF Chosen
      <4> QED BY <4>1, <4>2
    <3> QED BY <2>2, <2>3, <3>2, <3>4 DEF AgainstBoard
  <2> QED BY <1>0, <2>1, <2>2, <2>4, <2>5, SerialMove DEF q
<1>3. CASE Build(i) /\ ~Refuse(i)
  <2> DEFINE Lock(kernel) == [generation |-> r.generation, kernel |-> kernel, rootfs |-> r.archive,
                              assets |-> Assets(r.previous, kernel, r.archive),
                              archive |-> r.archive, component |-> r.component]
  <2>1. PICK kernel \in Packed(r) :
          Step(i, [r EXCEPT !.lock = Lock(kernel), !.pc = "check", !.target = "image", !.job = "publish"])
    BY <1>3 DEF Build
  <2> DEFINE lock == Lock(kernel)
             q == [r EXCEPT !.lock = lock, !.pc = "check", !.target = "image", !.job = "publish"]
  <2>2. Step(i, q) /\ lock.kernel = kernel /\ lock.component = r.component
    BY <2>1
  <2> HIDE DEF Lock, lock
  <2>3. /\ q.product = r.product /\ q.stamp = r.stamp /\ q.commit = r.commit /\ q.built = r.built /\ q.archive = r.archive
        /\ q.job = "publish" /\ q.pc = "check" /\ q.target = "image" /\ q.component = r.component /\ q.lock = lock
    BY <1>0 DEF Runs
  <2> HIDE DEF q
  <2>4. r.job = "product"
    BY <1>0, <1>3 DEF Build, StepOfJob
  <2>5. BoardTags(q, registry')
    BY <1>0, <2>3, <2>4 DEF BoardTags
  <2>6. ASSUME ~Labelled(q, releases) PROVE AgainstBoard(q, releases)
    <3>1. ~Labelled(r, releases) /\ Current(q, releases) = Current(r, releases)
      BY <2>3, <2>6 DEF Labelled, Current
    <3>2. Later(q, releases) /\ OneBuilt(q, releases) /\ Guarded(q, releases) /\ Chosen(q, releases)
      BY <1>0, <2>3, <2>4, <3>1 DEF AgainstBoard, Later, OneBuilt, Guarded, Chosen
    <3>3. reuse(r) = Current(r, releases) /\ \A c, e \in Current(r, releases) : c = e
      BY <1>0, <3>1, ReuseIsCurrent
    <3>4. IF r.built = None THEN r.component \in Current(r, releases) ELSE r.built = {r.component.content}
      BY <1>0, <2>4, <3>1 DEF AgainstBoard, Chosen
    <3>5. r.component.content = kernel
      BY <2>1, <3>3, <3>4 DEF Packed
    <3> QED BY <2>2, <2>3, <3>2, <3>5 DEF AgainstBoard
  <2> QED BY <1>0, <2>2, <2>3, <2>5, <2>6, SerialMove
<1> QED
  BY <1>1, <1>2, <1>3

\* A file that is uploaded to a draft changes nothing that is visible.
LEMMA SerialUpload ==
  ASSUME ~SideBySide, ~LateRerun, TypeInv, PublishInv, PutFree, SerialInv, [Next]_vars,
         NEW i \in DOMAIN runs, ghUpload(i)
  PROVE  SerialInv'
<1>1. RunStep(i) /\ UNCHANGED <<minute, runs, registry>>
  BY DEF RunStep, ghUpload
<1>2. SameShips(releases, releases')
  <2>1. runs[i].pc = "upload" /\ runs[i] \in Runs /\ Missing(releases[runs[i].draft]) # {}
    BY RunFacts DEF ghUpload
  <2>2. ~ghPublish(i)
    BY <2>1 DEF ghPublish
  <2> QED BY <1>1, <2>2, ShipsKept
<1>3. OthersInOnePlace(releases')
  BY <1>1, RunOthers DEF OthersInOnePlace, SerialInv
<1>4. InOrder(releases') /\ Locked(releases') /\ Named(releases')
      /\ \A s : AgainstBoard(s, releases) => AgainstBoard(s, releases')
  BY <1>2, SameBoard DEF SerialInv
<1>5. Ships(releases') = Ships(releases) /\ \A s : Labelled(s, releases) <=> Labelled(s, releases')
  BY <1>2, SameLine DEF SameShips
<1>6. \A j \in DOMAIN runs' : SerialRun(j)'
  BY <1>1, <1>4, <1>5 DEF SerialInv, SerialRun
<1>7. \A k \in Ships(releases') : releases'[k].stamp <= minute' /\ OnBoardTags(releases'[k], registry')
  BY <1>1, <1>2 DEF SerialInv, SameShips
<1>8. \A j \in Active' : j = Len(runs')
  BY <1>1 DEF Active, SerialInv
<1> QED
  BY <1>3, <1>4, <1>6, <1>7, <1>8 DEF SerialInv

\* A release that is published is the newest of the board, and carries on where
\* the releases before have left the packages and the kernel.
LEMMA SerialPublish ==
  ASSUME ~SideBySide, ~LateRerun, TypeInv, PublishInv, PutFree, SerialInv, [Next]_vars,
         NEW i \in DOMAIN runs, ghPublish(i)
  PROVE  SerialInv'
<1> DEFINE r == runs[i]
           d == r.draft
           new == releases'
           q == [r EXCEPT !.pc = "verify"]
<1>1. /\ \A k \in Ships(releases) : new[k] = releases[k]
      /\ new[d].product = r.product /\ new[d].stamp = r.stamp /\ new[d].lock = r.lock
      /\ Ships(new) = Ships(releases) \cup {d} /\ ~Labelled(r, releases) /\ d \in DOMAIN releases
  BY DraftWhole DEF Ships
<1>2. /\ RunStep(i) /\ Step(i, q) /\ r \in Runs /\ r.pc = "upload" /\ UNCHANGED <<minute, registry>>
      /\ r.stamp \in Nat /\ r.stamp <= minute /\ d \in Nat /\ i \in Active
  BY RunFacts DEF RunStep, ghPublish, Sound, Runs, Active, Ended
<1>3. i = Len(runs) /\ SerialRun(i) /\ DOMAIN runs = 1 .. Len(runs)
  BY <1>2, RunIsLast DEF SerialInv, TypeInv
<1>4. r.job = "publish" /\ LockOf(r)
  BY <1>2, RunFacts DEF StepOfJob, Has
<1>5. /\ \A k \in Ships(releases) : k < d /\ releases[k].stamp <= r.stamp /\ Follows(r.archive, releases[k].lock.archive)
      /\ Behind("pool", r.stamp, r.archive, registry) /\ Behind("kernel", r.stamp, r.component, registry)
      /\ r.lock.component.content = r.lock.kernel
  BY <1>1, <1>2, <1>3, <1>4 DEF SerialRun, AgainstBoard, Later, Guarded, BoardTags
<1>6. r.lock.archive = r.archive /\ r.lock.component = r.component
  BY <1>4 DEF LockOf
<1>7. KeepsWork(q, r) /\ q.job = r.job /\ q.pc = "verify" /\ q.target = r.target
  BY <1>2 DEF Runs, KeepsWork
<1>8. /\ DOMAIN runs' = DOMAIN runs /\ Len(runs') = Len(runs) /\ runs'[i] = q
      /\ \A j \in DOMAIN runs : j # i => runs'[j] = runs[j]
  BY <1>2, StepOthers
<1> HIDE DEF q, new
<1>9. \A k \in Ships(releases) : k \in Nat /\ releases[k].stamp \in Nat
  BY ShipFacts
<1>10. \A j \in Active' : j = Len(runs')
  BY <1>2, <1>3, <1>8 DEF Active, SerialInv
<1>11. OthersInOnePlace(new)
  BY <1>2, RunOthers DEF OthersInOnePlace, SerialInv, new
<1>12. InOrder(new)
  <2>1. \E m \in Ships(new) : \A k \in Ships(new) : k <= m
    <3>1. \A k \in Ships(new) : k <= d
      BY <1>1, <1>2, <1>5, <1>9
    <3> QED BY <1>1, <3>1
  <2>2. ASSUME NEW j \in Ships(new), NEW k \in Ships(new), j < k
        PROVE  new[j].stamp <= new[k].stamp
    <3>1. j # d
      BY <1>1, <1>2, <1>5, <1>9, <2>2
    <3>2. CASE k = d
      BY <1>1, <1>5, <3>1, <3>2
    <3>3. CASE k # d
      BY <1>1, <2>2, <3>1, <3>3 DEF SerialInv, InOrder
    <3> QED BY <3>2, <3>3
  <2> QED BY <2>1, <2>2 DEF InOrder
<1>13. Locked(new)
  <2> SUFFICES ASSUME NEW j \in Ships(new), NEW k \in Ships(new)
               PROVE  /\ new[j].lock.archive.version = new[k].lock.archive.version => new[j].lock.archive = new[k].lock.archive
                      /\ new[j].stamp < new[k].stamp => new[j].lock.archive.version <= new[k].lock.archive.version
    BY DEF Locked
  <2>1. CASE j \in Ships(releases) /\ k \in Ships(releases)
    BY <1>1, <2>1 DEF SerialInv, Locked
  <2>2. CASE j \in Ships(releases) /\ k = d
    BY <1>1, <1>5, <1>6, <2>2 DEF Follows
  <2>3. CASE j = d /\ k \in Ships(releases)
    <3>1. ~(new[j].stamp < new[k].stamp)
      BY <1>1, <1>2, <1>5, <1>9, <2>3
    <3> QED BY <1>1, <1>5, <1>6, <2>3, <3>1 DEF Follows
  <2>4. CASE j = d /\ k = d
    BY <1>1, <1>2, <2>4
  <2> QED BY <1>1, <2>1, <2>2, <2>3, <2>4
<1>14. Named(new)
  BY <1>1, <1>5 DEF SerialInv, Named
<1>15. \A k \in Ships(new) : new[k].stamp <= minute' /\ OnBoardTags(new[k], registry')
  BY <1>1, <1>2, <1>5, <1>6 DEF SerialInv, OnBoardTags
<1>16. \A j \in DOMAIN runs' : BoardTags(runs'[j], registry') /\ runs'[j].pc # "upload"
                               /\ (j = Len(runs') => Labelled(runs'[j], new))
  <2> SUFFICES ASSUME NEW j \in DOMAIN runs
               PROVE  BoardTags(runs'[j], registry') /\ runs'[j].pc # "upload" /\ (j = Len(runs') => Labelled(runs'[j], new))
    BY <1>8
  <2>1. CASE j = i
    <3>1. BoardTags(q, registry)
      BY <1>3, <1>7, KeptTags DEF SerialRun, AtKernel
    <3>2. Labelled(q, new)
      BY <1>1, <1>7 DEF Labelled, KeepsWork
    <3> QED BY <1>2, <1>7, <1>8, <2>1, <3>1, <3>2
  <2>2. CASE j # i
    <3>1. j \notin Active
      BY <1>3, <2>2 DEF SerialInv
    <3>2. runs[j].pc # "upload"
      BY <3>1 DEF Active, Ended
    <3> QED BY <1>2, <1>3, <1>8, <2>2, <3>2 DEF SerialInv, SerialRun
  <2> QED BY <2>1, <2>2
<1> QED
  BY <1>10, <1>11, <1>12, <1>13, <1>14, <1>15, <1>16 DEF SerialInv, SerialRun, new

\* A new run, the clock and another board's releases change nothing of the board.
LEMMA SerialWorld ==
  ASSUME ~SideBySide, TypeInv, SerialInv, WorldStep
  PROVE  SerialInv'
<1>0. /\ SameShips(releases, releases') /\ UNCHANGED registry
      /\ DOMAIN runs = 1 .. Len(runs) /\ Len(runs) \in Nat /\ \A j \in DOMAIN runs : runs'[j] = runs[j]
      /\ MaxOthers \in Nat /\ minute \in Nat
  BY WorldShipsKept, ReleaseAssumption DEF TypeInv
<1>1. InOrder(releases') /\ Locked(releases') /\ Named(releases')
      /\ \A s : AgainstBoard(s, releases) => AgainstBoard(s, releases')
  BY <1>0, SameBoard DEF SerialInv
<1>2. Ships(releases') = Ships(releases) /\ \A s : Labelled(s, releases) <=> Labelled(s, releases')
  BY <1>0, SameLine DEF SameShips
<1>3. minute <= minute'
  BY <1>0 DEF WorldStep, Push, Tick, ReleaseElsewhere, Dispatch, vars
<1>4. \A k \in Ships(releases') : releases'[k].stamp <= minute' /\ OnBoardTags(releases'[k], registry')
  <2> SUFFICES ASSUME NEW k \in Ships(releases) PROVE releases[k].stamp <= minute' /\ OnBoardTags(releases[k], registry)
    BY <1>0 DEF SameShips
  <2>1. minute' \in Nat /\ releases[k].stamp \in Nat
    BY <1>0, ShipFacts DEF WorldStep, Push, Tick, ReleaseElsewhere, Dispatch, vars
  <2> QED BY <1>0, <1>3, <2>1 DEF SerialInv
<1>5. OthersInOnePlace(releases')
  <2>1. CASE UNCHANGED releases
    BY <2>1 DEF SerialInv
  <2>2. CASE ReleaseElsewhere
    <3> DEFINE other == [product |-> Elsewhere, stamp |-> minute, draft |-> FALSE, files |-> LockFiles, lock |-> None]
               others == [n \in 1 .. MaxOthers |-> other]
    <3>1. releases' = releases \o others /\ releases \in Seq(Releases) /\ \A k \in DOMAIN releases : releases[k].product # Elsewhere
      BY <2>2 DEF ReleaseElsewhere, TypeInv
    <3>2. others \in Seq({other}) /\ Len(others) = MaxOthers
      BY <1>0
    <3>3. \A k \in DOMAIN releases : releases[k].product \in Products
      <4>1. \A g \in OfOthers : g.product = Elsewhere
        BY DEF OfOthers
      <4>2. \A g \in OfBoard : g.product \in Products
        BY DEF OfBoard
      <4> QED BY <3>1, <4>1, <4>2, ReleaseFacts DEF Releases
    <3>4. \A k \in DOMAIN releases' : \/ k \in DOMAIN releases /\ releases'[k] = releases[k]
                                      \/ k \in Len(releases) + 1 .. Len(releases) + MaxOthers
      <4> HIDE DEF others, other
      <4> QED BY <1>0, <3>1, <3>2
    <3>5. Len(releases) \in Nat
      BY <3>1
    <3> QED BY <3>3, <3>4, <3>5 DEF OthersInOnePlace
  <2> QED BY <2>1, <2>2 DEF WorldStep, Push, Tick, Dispatch, vars
<1>6. CASE UNCHANGED runs
  <2>1. \A j \in DOMAIN runs' : SerialRun(j)'
    BY <1>0, <1>1, <1>2, <1>6 DEF SerialInv, SerialRun
  <2>2. \A j \in Active' : j = Len(runs')
    BY <1>6 DEF SerialInv, Active
  <2> QED BY <1>1, <1>4, <1>5, <2>1, <2>2 DEF SerialInv
<1>7. ASSUME NEW product \in Products, NEW n, n = Len(runs) + 1, Dispatch(product),
             DOMAIN runs' = DOMAIN runs \cup {n}, Len(runs') = n, runs'[n] = NewRun(product)
      PROVE  SerialInv'
  <2> DEFINE r == NewRun(product)
  <2>1. r.pc = "plan" /\ r.job = "plan"
    BY DEF NewRun
  <2> HIDE DEF r
  <2>2. BoardTags(r, registry') /\ AgainstBoard(r, releases')
    BY <2>1 DEF BoardTags, AgainstBoard, Later, Guarded, OneBuilt, Chosen, AtKernel
  <2>3. Active = {}
    BY <1>7 DEF Dispatch
  <2>4. \A j \in DOMAIN runs : j # n
    BY <1>0, <1>7
  <2>5. \A j \in Active' : j = Len(runs')
    BY <1>0, <1>7, <2>3 DEF Active
  <2>6. \A j \in DOMAIN runs' : SerialRun(j)'
    <3> SUFFICES ASSUME NEW j \in DOMAIN runs' PROVE SerialRun(j)'
      OBVIOUS
    <3>1. CASE j = n
      BY <1>7, <2>1, <2>2, <3>1 DEF SerialRun, r
    <3>2. CASE j \in DOMAIN runs
      BY <1>0, <1>2, <1>7, <2>4, <3>2 DEF SerialRun, SerialInv
    <3> QED BY <1>7, <3>1, <3>2
  <2> QED BY <1>1, <1>4, <1>5, <2>5, <2>6 DEF SerialInv
<1> QED
  BY <1>6, <1>7, <1>0, WorldShipsKept

LEMMA SerialStep ==
  ASSUME ~SideBySide, ~LateRerun, MaxOthers < PageSize, TypeInv, PublishInv, PutFree, SerialInv, [Next]_vars
  PROVE  SerialInv'
<1>1. ASSUME NEW i \in DOMAIN runs, RunStep(i)
      PROVE  SerialInv'
  BY <1>1, SerialPlanning, SerialBuilding, SerialSame, SerialReadBack, SerialUpload, SerialPublish DEF RunStep
<1> QED
  BY <1>1, SerialWorld, StepCases

LEMMA SerialAlways ==
  ASSUME ~SideBySide, ~LateRerun, MaxOthers < PageSize
  PROVE  Spec => []SerialInv
<1>1. Init => SerialInv
  <2> SUFFICES ASSUME Init PROVE SerialInv
    OBVIOUS
  <2>1. DOMAIN runs = {} /\ DOMAIN releases = {} /\ 0 \in Nat
    BY DEF Init
  <2>2. Active = {} /\ Ships(releases) = {}
    BY <2>1 DEF Active, Ships
  <2>3. OthersInOnePlace(releases) /\ InOrder(releases) /\ Locked(releases) /\ Named(releases)
    BY <2>1, <2>2 DEF OthersInOnePlace, InOrder, Locked, Named
  <2> QED BY <2>1, <2>2, <2>3 DEF SerialInv
<1>2. TypeInv /\ PublishInv /\ PutFree /\ SerialInv /\ [Next]_vars => SerialInv'
  BY SerialStep
<1> QED BY <1>1, <1>2, PublishAlways, PutFreeAlways, PTL DEF Spec

\* When the runs of a board follow each other, a failed one is not resumed
\* behind a later one, and the releases of other boards do not fill a page of
\* the listing, a version of the package always names the same archive, over all
\* products of the board, and never goes back from one stamp to the next.
THEOREM VersionsLockedCorrect ==
  ASSUME ~SideBySide, ~LateRerun, MaxOthers < PageSize
  PROVE  Spec => []VersionsLocked
<1>1. SerialInv => VersionsLocked
  BY SerialProperties DEF SerialInv
<1> QED BY <1>1, SerialAlways, PTL

\* Under the same conditions the board row of every published lock names the
\* kernel that the product was packed with.
THEOREM LockNamesItsKernelCorrect ==
  ASSUME ~SideBySide, ~LateRerun, MaxOthers < PageSize
  PROVE  Spec => []LockNamesItsKernel
<1>1. SerialInv => LockNamesItsKernel
  BY SerialProperties DEF SerialInv
<1> QED BY <1>1, SerialAlways, PTL

=============================================================================
