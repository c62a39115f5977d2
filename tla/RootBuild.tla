----------------------------- MODULE RootBuild -----------------------------
(***************************************************************************)
(* The composition of product roots on one docker daemon: the two chained  *)
(* stages (src/image/stages.ts, stages-cli.ts), the two exports of the     *)
(* last one -- the root that ships and the OCI archive of it -- and the    *)
(* smoke run over that archive (src/verify/smoke.ts), which is part of the *)
(* build.  Several worktrees compose a product of the same board at once:  *)
(* what they share is the daemon, its tags and its images.                 *)
(***************************************************************************)
EXTENDS FiniteSets

CONSTANTS
  Builds,     \* the compositions in flight, each in a worktree of its own
  Artifacts,  \* the smoke register's self-built programs
  Contract,   \* what the register asks of each: "version", "exec" or "unclaimed"
  Limited,    \* the entries that declare an executorLimit
  Selections, \* the sets of artifacts a root may carry
  Drivers     \* the buildx drivers a builder may have

None == "none"

VARIABLES
  host,     \* what the machine can do; never changes
  pc,       \* the step each build is at
  stageTag, \* the root under the board's stage tag in the daemon's store
  layout,   \* the root in each build's own OCI layout of the stage
  shipped,  \* the root each build exported as the verity image
  archive,  \* the root each build exported as factory-root.oci
  carried,  \* the artifacts the packages of each root bring
  held,     \* the roots the daemon holds by content
  rootTag,  \* the root under the board's mica-factory-root tag
  image,    \* the root each smoke run executes
  source,   \* how it was named: by "content", by "tag", as a "layout"
  route,    \* the executor of each smoke run
  defect,   \* what is wrong with each program of each root, once it ran
  results,  \* the verdicts of each smoke run
  overtaken \* history: the steps of each build before which another moved its stage tag

vars == <<host, pc, stageTag, layout, shipped, archive, carried, held, rootTag,
          image, source, route, defect, results, overtaken>>
chain == <<stageTag, layout, shipped, archive, carried, overtaken>>
daemon == <<held, rootTag>>
smoke == <<image, source, route, defect, results>>

Roots == Builds \cup {None}
Ended == {"passed", "incomplete", "failed"}
Steps == {"compose", "pack", "export", "load", "loading", "resolve", "preflight",
          "starting", "fallback", "exec", "hung"} \cup Ended
Defects == {"unknown", "sound", "skewed", "dead"}
Verdicts == {"pass", "fail", "executor-limited", "unclaimed"}

\* A daemon executes its own platform, and a foreign one where binfmt is
\* registered; its image store loads OCI archives or only docker archives.
Hosts == {h \in [driver : Drivers, native : BOOLEAN, runs : BOOLEAN, oci : BOOLEAN] :
            h.native => h.runs}

TypeOK ==
  /\ host \in Hosts
  /\ pc \in [Builds -> Steps]
  /\ stageTag \in Roots /\ rootTag \in Roots /\ held \subseteq Builds
  /\ layout \in [Builds -> Roots]
  /\ shipped \in [Builds -> Roots]
  /\ archive \in [Builds -> Roots]
  /\ image \in [Builds -> Roots]
  /\ carried \in [Builds -> SUBSET Artifacts]
  /\ source \in [Builds -> {None, "content", "tag", "layout"}]
  /\ route \in [Builds -> {None, "native", "emulated", "buildkit"}]
  /\ defect \in [Builds -> [Artifacts -> Defects]]
  /\ results \in [Builds -> [Artifacts -> Verdicts \cup {None}]]
  /\ overtaken \in [Builds -> SUBSET {"pack", "export"}]

Init ==
  /\ host \in Hosts
  /\ pc = [w \in Builds |-> "compose"]
  /\ stageTag = None /\ rootTag = None /\ held = {}
  /\ layout = [w \in Builds |-> None]
  /\ shipped = [w \in Builds |-> None]
  /\ archive = [w \in Builds |-> None]
  /\ image = [w \in Builds |-> None]
  /\ carried = [w \in Builds |-> {}]
  /\ source = [w \in Builds |-> None]
  /\ route = [w \in Builds |-> None]
  /\ defect = [w \in Builds |-> [a \in Artifacts |-> "unknown"]]
  /\ results = [w \in Builds |-> [a \in Artifacts |-> None]]
  /\ overtaken = [w \in Builds |-> {}]

Goto(w, step) == pc' = [pc EXCEPT ![w] = step]

-----------------------------------------------------------------------------
(* The chain.  Only the docker driver reads the daemon's image store, so    *)
(* only it chains by tag; the tag names the board and the stage.  Every     *)
(* other driver is handed the stage as an OCI layout under the build's own  *)
(* output directory.                                                        *)

ChainMode == IF host.driver = "docker" THEN "tags" ELSE "layouts"

Previous(w) == IF ChainMode = "tags" THEN stageTag ELSE layout[w]

\* A mutant: the layouts of a stage in one directory of the board, not of the build.
ComposeIntoShared(w) ==
  /\ pc[w] = "compose"
  /\ \E packages \in Selections : carried' = [carried EXCEPT ![w] = packages]
  /\ layout' = [v \in Builds |-> w] /\ UNCHANGED <<stageTag, overtaken>>
  /\ Goto(w, "pack")
  /\ UNCHANGED <<host, shipped, archive, daemon, smoke>>

\* 10-compose installs the resolved packages and leaves the composed root for
\* the next stage.  A layout an earlier run left was removed before.
ComposeStage(w) ==
  /\ pc[w] = "compose"
  /\ \E packages \in Selections : carried' = [carried EXCEPT ![w] = packages]
  /\ IF ChainMode = "tags"
       THEN /\ stageTag' = w /\ UNCHANGED layout
            /\ overtaken' = [v \in Builds |-> overtaken[v] \cup ({pc[v]} \cap {"pack", "export"})]
       ELSE layout' = [layout EXCEPT ![w] = w] /\ UNCHANGED <<stageTag, overtaken>>
  /\ Goto(w, "pack")
  /\ UNCHANGED <<host, shipped, archive, daemon, smoke>>

\* 90-pack closes and packs what the previous stage left: the root that ships.
PackStage(w) ==
  /\ pc[w] = "pack"
  /\ shipped' = [shipped EXCEPT ![w] = Previous(w)]
  /\ Goto(w, "export")
  /\ UNCHANGED <<host, stageTag, layout, archive, carried, overtaken, daemon, smoke>>

\* The last stage a second time, for its other target: the root as an image.
ExportRoot(w) ==
  /\ pc[w] = "export"
  /\ archive' = [archive EXCEPT ![w] = Previous(w)]
  /\ Goto(w, "load")
  /\ UNCHANGED <<host, stageTag, layout, shipped, carried, overtaken, daemon, smoke>>

\* A stage that fails ends the composition before any record is written.
StageFails(w) ==
  /\ pc[w] \in {"compose", "pack", "export"}
  /\ Goto(w, "failed")
  /\ UNCHANGED <<host, chain, daemon, smoke>>

-----------------------------------------------------------------------------
(* The image of the smoke run: named by the digest the archive carries, for *)
(* the tag is the daemon's and another build may move it.                   *)

\* readFactoryRoot: the record and the archive in the build's own directory.
factoryRoot(w) == archive[w]

\* archiveImageDigests: the digest is read out of the archive, and asked for.
InStore(w, store) == factoryRoot(w) \in store

Loaded(w) == held' = held \cup {factoryRoot(w)} /\ rootTag' = factoryRoot(w)

LoadRoot(w) ==
  /\ pc[w] = "load"
  /\ \/ carried[w] = {} /\ Goto(w, "failed") /\ UNCHANGED daemon
     \/ carried[w] # {} /\ host.oci /\ Loaded(w) /\ Goto(w, "resolve")
     \/ carried[w] # {} /\ ~host.oci /\ Goto(w, "fallback") /\ UNCHANGED daemon
     \/ Goto(w, "failed") /\ UNCHANGED daemon
     \/ carried[w] # {} /\ host.oci /\ Goto(w, "loading") /\ UNCHANGED daemon
  /\ UNCHANGED <<host, chain, smoke>>

\* The budget ran out: the load is killed.  The daemon may have finished it,
\* and only the content of its store says so.
KillLoad(w) ==
  /\ pc[w] = "loading"
  /\ Loaded(w) \/ UNCHANGED daemon
  /\ IF InStore(w, held')
       THEN /\ image' = [image EXCEPT ![w] = factoryRoot(w)]
            /\ source' = [source EXCEPT ![w] = "content"]
            /\ Goto(w, "preflight")
       ELSE /\ Goto(w, "failed")
            /\ UNCHANGED <<image, source>>
  /\ UNCHANGED <<host, chain, route, defect, results>>

\* A mutant: the tag taken for the archive's own image.
ResolveByTag(w) ==
  /\ pc[w] = "resolve"
  /\ image' = [image EXCEPT ![w] = rootTag]
  /\ source' = [source EXCEPT ![w] = "content"]
  /\ Goto(w, "preflight")
  /\ UNCHANGED <<host, chain, daemon, route, defect, results>>

\* After a load that ended well: the daemon's image of the archive's digest, or
\* where the archive or the store names none, whatever the tag names now.
ResolveImage(w) ==
  /\ pc[w] = "resolve"
  /\ \/ /\ InStore(w, held)
        /\ image' = [image EXCEPT ![w] = factoryRoot(w)]
        /\ source' = [source EXCEPT ![w] = "content"]
     \/ /\ image' = [image EXCEPT ![w] = rootTag]
        /\ source' = [source EXCEPT ![w] = "tag"]
  /\ Goto(w, "preflight")
  /\ UNCHANGED <<host, chain, daemon, route, defect, results>>

\* The route docker run takes: native for the machine's own platform.
dockerRoute == IF host.native THEN "native" ELSE "emulated"

\* /bin/true, the control: nothing is concluded on a host that cannot run it.
Preflight(w) ==
  /\ pc[w] = "preflight"
  /\ \/ /\ host.runs
        /\ route' = [route EXCEPT ![w] = dockerRoute]
        /\ Goto(w, "exec")
     \/ ~host.runs /\ Goto(w, "fallback") /\ UNCHANGED route
     \/ Goto(w, "starting") /\ UNCHANGED route
     \/ Goto(w, "failed") /\ UNCHANGED route
  /\ UNCHANGED <<host, chain, daemon, image, source, defect, results>>

\* A control that does not start within its budget ends the run.
KillControl(w) ==
  /\ pc[w] = "starting"
  /\ Goto(w, "failed")
  /\ UNCHANGED <<host, chain, daemon, smoke>>

\* The builder executes the archive's own layout, after a control of its own.
Fallback(w) ==
  /\ pc[w] = "fallback"
  /\ \/ /\ image' = [image EXCEPT ![w] = factoryRoot(w)]
        /\ source' = [source EXCEPT ![w] = "layout"]
        /\ route' = [route EXCEPT ![w] = "buildkit"]
        /\ Goto(w, "exec")
     \/ Goto(w, "failed") /\ UNCHANGED <<image, source, route>>
  /\ UNCHANGED <<host, chain, daemon, defect, results>>

-----------------------------------------------------------------------------
(* The register, one artifact after another.                                *)

Todo(w) == {a \in carried[w] : results[w][a] = None}

\* What a program of a root answers: "limit" is the status and the stderr an
\* entry declares, which an emulator, and any broken program, may produce.
Outcomes(d) ==
  CASE d = "sound"  -> {"ok"} \cup (IF host.native THEN {} ELSE {"limit", "error"})
    [] d = "skewed" -> {"skew"} \cup (IF host.native THEN {} ELSE {"limit", "error"})
    [] d = "dead"   -> {"limit", "error"}

\* A mutant: any artifact is excused, declared or not.
ExecutorLimitUndeclared(a, outcome, r) == r # "native" /\ outcome = "limit"

ExecutorLimitMatch(a, outcome, r) ==
  r # "native" /\ a \in Limited /\ outcome = "limit"

Judge(a, outcome, r) ==
  IF Contract[a] = "unclaimed" THEN "unclaimed"
  ELSE IF ExecutorLimitMatch(a, outcome, r) THEN "executor-limited"
  ELSE IF outcome = "ok" \/ (outcome = "skew" /\ Contract[a] = "exec") THEN "pass" ELSE "fail"

\* A mutant: what the program said is kept in place of the verdict.
AnswerRaw(w, a, outcome) == results' = [results EXCEPT ![w][a] = outcome]

Answer(w, a, outcome) == results' = [results EXCEPT ![w][a] = Judge(a, outcome, route[w])]

\* dockerExec: a container of the chosen image; a program of a root stays as it
\* is, and one that the root lacks does not run.
Executes(w, program, d) ==
  /\ program \in carried[image[w]] \/ d = "dead"
  /\ defect[image[w]][program] \in {"unknown", d}
  /\ defect' = [defect EXCEPT ![image[w]][program] = d]

\* An unclaimed artifact is not run; every other one is, in the chosen root.
CheckArtifact(w) ==
  /\ pc[w] = "exec" /\ Todo(w) # {}
  /\ LET program == CHOOSE a \in Todo(w) : TRUE IN
       \/ /\ Contract[program] = "unclaimed"
          /\ Answer(w, program, "ok")
          /\ UNCHANGED <<pc, defect>>
       \/ /\ Contract[program] # "unclaimed"
          /\ \E d \in Defects \ {"unknown"} :
               /\ Executes(w, program, d)
               /\ \E outcome \in Outcomes(d) : Answer(w, program, outcome)
          /\ UNCHANGED pc
       \/ Contract[program] # "unclaimed" /\ Goto(w, "hung") /\ UNCHANGED <<defect, results>>
  /\ UNCHANGED <<host, chain, daemon, image, source, route>>

\* A mutant: no budget, a program is waited for.
NeverKilled(w) == pc[w] = "hung" /\ FALSE /\ UNCHANGED vars

\* A program that does not end within its budget is killed, and fails.
KillArtifact(w) ==
  /\ pc[w] = "hung"
  /\ Answer(w, CHOOSE a \in Todo(w) : TRUE, "killed")
  /\ Goto(w, "exec")
  /\ UNCHANGED <<host, chain, daemon, image, source, route, defect>>

Said(w, verdict) == \E a \in Artifacts : results[w][a] = verdict

Conclude(w) ==
  /\ pc[w] = "exec" /\ Todo(w) = {}
  /\ Goto(w, IF Said(w, "fail") THEN "failed"
             ELSE IF Said(w, "unclaimed") THEN "incomplete" ELSE "passed")
  /\ UNCHANGED <<host, chain, daemon, smoke>>

Chain(w) == ComposeStage(w) \/ PackStage(w) \/ ExportRoot(w) \/ StageFails(w)
Smoke(w) ==
  \/ LoadRoot(w) \/ KillLoad(w) \/ ResolveImage(w) \/ Preflight(w) \/ KillControl(w)
  \/ Fallback(w) \/ CheckArtifact(w) \/ KillArtifact(w) \/ Conclude(w)

Next == \E w \in Builds : Chain(w) \/ Smoke(w)

Spec == Init /\ [][Next]_vars

\* A child process ends or is killed, so some build goes on while one is in flight.
FairSpec == Spec /\ WF_vars(Next)

-----------------------------------------------------------------------------

\* Once both exports of a build are written, they are one root unless another
\* build of the board moved the stage tag between them, and this build's root
\* unless one moved it before.  Only the docker driver chains by that tag.
OneRootPerBuild ==
  \A w \in Builds : archive[w] # None =>
    /\ "export" \notin overtaken[w] => archive[w] = shipped[w]
    /\ "pack" \notin overtaken[w] => shipped[w] = w

\* The root that ships is the one that is smoke-tested.  A smoke run that named its
\* image by content, or runs the layout, executes the archive's root, whatever the
\* daemon's tags name meanwhile, and the two exports of the build are one root:
\* stages.ts fears two "with nothing to say which was smoke-tested".
SmokedRootIsShipped ==
  /\ OneRootPerBuild
  /\ \A w \in Builds : image[w] # None /\ source[w] # "tag" =>
       /\ image[w] = archive[w]
       /\ "export" \notin overtaken[w] => image[w] = shipped[w]

\* A build that ends well ran every program of its packages in a root that has
\* it and, of those the register asks a version, was told the pinned one; what
\* is not known to be sound is an entry that declared its limit, off the native
\* route.  It says so of the root that ships, where that is the one it executed.
Concluded(w) == IF source[w] = "tag" \/ "export" \in overtaken[w] THEN {image[w]} ELSE {image[w], shipped[w]}
GreenMeansSound ==
  \A w \in Builds : pc[w] = "passed" =>
    /\ carried[w] # {}
    /\ \A r \in Concluded(w), a \in carried[w] :
         \/ defect[r][a] = "sound"
         \/ defect[r][a] = "skewed" /\ Contract[a] = "exec"
         \/ a \in Limited /\ route[w] # "native"

\* The second export is of the root the first one packed: stages.ts says of it
\* that it "must be a replay of the run that finished seconds ago".
SecondExportIsReplay == \A w \in Builds : archive[w] # None => archive[w] = shipped[w]

\* No composition waits for ever on a load, a container or a program.
EveryBuildEnds == \A w \in Builds : <>(pc[w] \in Ended)

=============================================================================
