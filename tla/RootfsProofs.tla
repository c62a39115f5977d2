---------------------------- MODULE RootfsProofs ----------------------------
(***************************************************************************)
(* Theorems about the two halves of a root file system and about the run   *)
(* of both.  RootBuild: any number of builds on one daemon, by the daemon's *)
(* own builder, which chains by a tag, and by one that is handed layouts,  *)
(* any register and any packages.  RuntimeSelect: any installed root, any  *)
(* rules of the declarations, any packages and any names of libraries.     *)
(***************************************************************************)
EXTENDS MCRootfs, TLAPS, WellFoundedInduction, FiniteSetTheorems, SequenceTheorems

-----------------------------------------------------------------------------
(* The composition on one daemon.                                           *)

\* What is assumed of the builds: None is no build, and a package's artifacts are the register's.
Setting ==
  /\ None \notin Builds
  /\ Selections \subseteq SUBSET Artifacts

\* The steps after the chain, those with an image, and those of the register.
AfterChain == Steps \ {"compose", "pack", "export", "failed"}
WithImage == {"preflight", "starting", "exec", "hung", "passed", "incomplete"}
InRegister == {"exec", "hung", "passed", "incomplete", "failed"}

\* What a build packs and exports is its own root until another build moves the
\* tag it chains by, and then the root of a build.
Packed(w) == shipped[w] \in Builds /\ ("pack" \notin overtaken[w] => shipped[w] = w)

ChainInv(w) ==
  /\ layout[w] \in {None, w}
  /\ pc[w] \in {"pack", "export"} => Previous(w) \in Builds
  /\ pc[w] = "pack" => ("pack" \notin overtaken[w] => Previous(w) = w)
  /\ pc[w] = "export" => Packed(w) /\ ("export" \notin overtaken[w] => Previous(w) = shipped[w])
  /\ pc[w] \in AfterChain => archive[w] \in Builds
  /\ pc[w] \in {"compose", "pack", "export"} => archive[w] = None
  /\ archive[w] # None =>
       Packed(w) /\ archive[w] \in Builds /\ ("export" \notin overtaken[w] => archive[w] = shipped[w])

\* A smoke run has an image from its preflight on, the archive's unless a tag named it.
ImageInv(w) ==
  /\ pc[w] \in {"compose", "pack", "export"} => image[w] = None
  /\ pc[w] = "resolve" => rootTag \in Builds
  /\ pc[w] \in WithImage => image[w] \in Builds
  /\ image[w] # None /\ source[w] # "tag" => image[w] = archive[w]

\* What the results of the register say of the programs of the executed root.
ResultInv(w) ==
  /\ pc[w] \in AfterChain \ {"load"} => carried[w] # {}
  /\ pc[w] \notin InRegister => \A art \in Artifacts : results[w][art] = None
  /\ \A art \in Artifacts :
       /\ results[w][art] = "pass" =>
            /\ image[w] \in Builds
            /\ defect[image[w]][art] = "sound" \/ (defect[image[w]][art] = "skewed" /\ Contract[art] = "exec")
       /\ results[w][art] = "executor-limited" => art \in Limited /\ route[w] # "native"
  /\ pc[w] = "passed" => \A art \in carried[w] : results[w][art] \in {"pass", "executor-limited"}

Inv ==
  /\ TypeOK
  /\ \A w \in Builds : ChainInv(w)
  /\ \A w \in Builds : ImageInv(w)
  /\ \A w \in Builds : ResultInv(w)

-----------------------------------------------------------------------------

LEMMA JudgeType ==
  ASSUME NEW art, NEW outcome, NEW r
  PROVE  Judge(art, outcome, r) \in Verdicts
BY DEF Judge, Verdicts

LEMMA TypeInit == Setting /\ Init => TypeOK
BY DEF Setting, Init, TypeOK, Roots, Steps, Defects, Hosts

LEMMA TypeStep ==
  ASSUME Setting, TypeOK, \A w \in Builds : ChainInv(w), [Next]_vars
  PROVE  TypeOK'
<1> USE DEF Setting, Roots, Steps, Ended, Goto, chain, daemon, smoke
<1>1. ASSUME NEW w \in Builds, ComposeStage(w) PROVE TypeOK'
  <2>1. pc' \in [Builds -> Steps]
    <3>1. pc' = [pc EXCEPT ![w] = "pack"] /\ pc \in [Builds -> Steps]
      BY <1>1 DEF ComposeStage, TypeOK
    <3> QED
      BY <3>1, SMTT(20)
  <2>2. carried' \in [Builds -> SUBSET Artifacts]
    BY <1>1 DEF ComposeStage, TypeOK
  <2>3. layout' \in [Builds -> Roots]
    BY <1>1, SMTT(20) DEF ComposeStage, TypeOK
  <2>4. stageTag' \in Roots
    BY <1>1 DEF ComposeStage, TypeOK
  <2>5. overtaken' \in [Builds -> SUBSET {"pack", "export"}]
    BY <1>1 DEF ComposeStage, TypeOK
  <2> QED
    BY <1>1, <2>1, <2>2, <2>3, <2>4, <2>5 DEF ComposeStage, TypeOK
<1>2. ASSUME NEW w \in Builds, PackStage(w) PROVE TypeOK'
  <2>1. pc' \in [Builds -> Steps]
    BY <1>2 DEF PackStage, TypeOK, Previous
  <2>2. shipped' \in [Builds -> Roots]
    BY <1>2 DEF PackStage, TypeOK, Previous
  <2> QED
    BY <1>2, <2>1, <2>2 DEF PackStage, TypeOK
<1>3. ASSUME NEW w \in Builds, ExportRoot(w) PROVE TypeOK'
  <2>1. pc' \in [Builds -> Steps]
    BY <1>3 DEF ExportRoot, TypeOK, Previous
  <2>2. archive' \in [Builds -> Roots]
    BY <1>3 DEF ExportRoot, TypeOK, Previous
  <2> QED
    BY <1>3, <2>1, <2>2 DEF ExportRoot, TypeOK
<1>4. ASSUME NEW w \in Builds, StageFails(w) PROVE TypeOK'
  <2>1. pc' \in [Builds -> Steps]
    BY <1>4 DEF StageFails, TypeOK
  <2> QED
    BY <1>4, <2>1 DEF StageFails, TypeOK
<1>5. ASSUME NEW w \in Builds, LoadRoot(w) PROVE TypeOK'
  <2>1. archive[w] \in Builds
    BY <1>5 DEF LoadRoot, TypeOK, ChainInv, AfterChain
  <2>2. CASE held' = held \cup {archive[w]} /\ rootTag' = archive[w] /\ Goto(w, "resolve")
    BY <1>5, <2>1, <2>2 DEF LoadRoot, TypeOK
  <2>3. CASE Goto(w, "failed") /\ UNCHANGED daemon
    BY <1>5, <2>3 DEF LoadRoot, TypeOK
  <2>4. CASE Goto(w, "fallback") /\ UNCHANGED daemon
    BY <1>5, <2>4 DEF LoadRoot, TypeOK
  <2>5. CASE Goto(w, "loading") /\ UNCHANGED daemon
    BY <1>5, <2>5 DEF LoadRoot, TypeOK
  <2> QED
    BY <1>5, <2>2, <2>3, <2>4, <2>5 DEF LoadRoot, Loaded, factoryRoot
<1>6. ASSUME NEW w \in Builds, KillLoad(w) PROVE TypeOK'
  <2>1. archive[w] \in Builds
    BY <1>6 DEF KillLoad, TypeOK, ChainInv, AfterChain, InStore, factoryRoot
  <2>2. held' \subseteq Builds /\ rootTag' \in Roots
    BY <1>6, <2>1 DEF KillLoad, Loaded, TypeOK, InStore, factoryRoot
  <2>3. CASE /\ image' = [image EXCEPT ![w] = archive[w]]
             /\ source' = [source EXCEPT ![w] = "content"] /\ Goto(w, "preflight")
    BY <1>6, <2>1, <2>2, <2>3 DEF KillLoad, TypeOK, InStore, factoryRoot
  <2>4. CASE Goto(w, "failed") /\ UNCHANGED <<image, source>>
    BY <1>6, <2>2, <2>4 DEF KillLoad, TypeOK, InStore, factoryRoot
  <2> QED
    BY <1>6, <2>3, <2>4 DEF KillLoad, InStore, factoryRoot
<1>7. ASSUME NEW w \in Builds, ResolveImage(w) PROVE TypeOK'
  <2>1. CASE image' = [image EXCEPT ![w] = archive[w]] /\ source' = [source EXCEPT ![w] = "content"]
    BY <1>7, <2>1 DEF ResolveImage, TypeOK, InStore, factoryRoot
  <2>2. CASE image' = [image EXCEPT ![w] = rootTag] /\ source' = [source EXCEPT ![w] = "tag"]
    BY <1>7, <2>2 DEF ResolveImage, TypeOK, InStore, factoryRoot
  <2> QED
    BY <1>7, <2>1, <2>2 DEF ResolveImage, InStore, factoryRoot
<1>8. ASSUME NEW w \in Builds, Preflight(w) PROVE TypeOK'
  <2>1. CASE route' = [route EXCEPT ![w] = dockerRoute] /\ Goto(w, "exec")
    BY <1>8, <2>1 DEF Preflight, TypeOK, dockerRoute
  <2>2. CASE Goto(w, "fallback") /\ UNCHANGED route
    BY <1>8, <2>2 DEF Preflight, TypeOK, dockerRoute
  <2>3. CASE Goto(w, "starting") /\ UNCHANGED route
    BY <1>8, <2>3 DEF Preflight, TypeOK, dockerRoute
  <2>4. CASE Goto(w, "failed") /\ UNCHANGED route
    BY <1>8, <2>4 DEF Preflight, TypeOK, dockerRoute
  <2> QED
    BY <1>8, <2>1, <2>2, <2>3, <2>4 DEF Preflight, dockerRoute
<1>9. ASSUME NEW w \in Builds, KillControl(w) PROVE TypeOK'
  <2>1. pc' \in [Builds -> Steps]
    BY <1>9 DEF KillControl, TypeOK
  <2> QED
    BY <1>9, <2>1 DEF KillControl, TypeOK
<1>10. ASSUME NEW w \in Builds, Fallback(w) PROVE TypeOK'
  <2>1. CASE /\ image' = [image EXCEPT ![w] = archive[w]] /\ source' = [source EXCEPT ![w] = "layout"]
             /\ route' = [route EXCEPT ![w] = "buildkit"] /\ Goto(w, "exec")
    BY <1>10, <2>1 DEF Fallback, TypeOK, factoryRoot
  <2>2. CASE Goto(w, "failed") /\ UNCHANGED <<image, source, route>>
    BY <1>10, <2>2 DEF Fallback, TypeOK, factoryRoot
  <2> QED
    BY <1>10, <2>1, <2>2 DEF Fallback, factoryRoot
<1>11. ASSUME NEW w \in Builds, CheckArtifact(w) PROVE TypeOK'
  <2> DEFINE art == CHOOSE art \in Todo(w) : TRUE
  <2>1. art \in Artifacts
    BY <1>11 DEF CheckArtifact, Todo, TypeOK, Executes
  <2>2. CASE Answer(w, art, "ok") /\ UNCHANGED <<pc, defect>>
    BY <1>11, <2>1, <2>2, JudgeType DEF CheckArtifact, Answer, TypeOK, Executes
  <2>3. ASSUME NEW d \in Defects, defect' = [defect EXCEPT ![image[w]][art] = d],
               NEW outcome, Answer(w, art, outcome), UNCHANGED pc
        PROVE  TypeOK'
    <3>1. defect' \in [Builds -> [Artifacts -> Defects]]
      BY <2>1, <2>3 DEF TypeOK
    <3>2. results' \in [Builds -> [Artifacts -> Verdicts \cup {None}]]
      BY <2>1, <2>3, JudgeType DEF Answer, TypeOK
    <3> QED
      BY <1>11, <2>3, <3>1, <3>2 DEF CheckArtifact, TypeOK, Executes
  <2>4. CASE Goto(w, "hung") /\ UNCHANGED <<defect, results>>
    BY <1>11, <2>4 DEF CheckArtifact, TypeOK, Executes
  <2> QED
    BY <1>11, <2>2, <2>3, <2>4 DEF CheckArtifact, Executes
<1>12. ASSUME NEW w \in Builds, KillArtifact(w) PROVE TypeOK'
  <2>1. pc' \in [Builds -> Steps]
    BY <1>12 DEF KillArtifact, TypeOK, Answer
  <2>2. results' \in [Builds -> [Artifacts -> Verdicts \cup {None}]]
    BY <1>12, JudgeType DEF KillArtifact, TypeOK, Answer
  <2> QED
    BY <1>12, <2>1, <2>2 DEF KillArtifact, TypeOK
<1>13. ASSUME NEW w \in Builds, Conclude(w) PROVE TypeOK'
  <2>1. pc' \in [Builds -> Steps]
    BY <1>13 DEF Conclude, TypeOK
  <2> QED
    BY <1>13, <2>1 DEF Conclude, TypeOK
<1>14. CASE UNCHANGED vars
  BY <1>14 DEF vars, TypeOK
<1> QED
  BY <1>1, <1>2, <1>3, <1>4, <1>5, <1>6, <1>7, <1>8, <1>9, <1>10, <1>11, <1>12, <1>13, <1>14
  DEF Next, Chain, Smoke

-----------------------------------------------------------------------------
(* The chain.                                                               *)

\* A step of a smoke run leaves the chain, and the other builds.
LEMMA SmokeKeeps ==
  ASSUME TypeOK, NEW w \in Builds, Smoke(w)
  PROVE  /\ UNCHANGED chain
         /\ pc[w] \in AfterChain /\ pc'[w] \in AfterChain \cup {"failed"}
         /\ \A v \in Builds \ {w} : pc'[v] = pc[v]
<1> USE DEF TypeOK, AfterChain, Steps, Ended, Goto, chain, daemon, smoke
<1>1. CASE LoadRoot(w)
  BY <1>1 DEF LoadRoot
<1>2. CASE KillLoad(w)
  BY <1>2 DEF KillLoad, InStore, factoryRoot
<1>3. CASE ResolveImage(w)
  BY <1>3 DEF ResolveImage, InStore, factoryRoot
<1>4. CASE Preflight(w)
  BY <1>4 DEF Preflight, dockerRoute
<1>5. CASE KillControl(w)
  BY <1>5 DEF KillControl
<1>6. CASE Fallback(w)
  BY <1>6 DEF Fallback, factoryRoot
<1>7. CASE CheckArtifact(w)
  BY <1>7 DEF CheckArtifact, Executes
<1>8. CASE KillArtifact(w)
  BY <1>8 DEF KillArtifact
<1>9. CASE Conclude(w)
  BY <1>9 DEF Conclude
<1> QED
  BY <1>1, <1>2, <1>3, <1>4, <1>5, <1>6, <1>7, <1>8, <1>9 DEF Smoke

\* A step of a chain leaves the chain of every other build, but for the shared tag.
LEMMA OtherChains ==
  ASSUME TypeOK, NEW w \in Builds, Chain(w), NEW v \in Builds, v # w
  PROVE  /\ pc'[v] = pc[v] /\ layout'[v] = layout[v] /\ shipped'[v] = shipped[v]
         /\ archive'[v] = archive[v] /\ carried'[v] = carried[v]
         /\ overtaken[v] \subseteq overtaken'[v]
         /\ stageTag' # stageTag => overtaken'[v] = overtaken[v] \cup ({pc[v]} \cap {"pack", "export"})
         /\ stageTag' = stageTag \/ stageTag' \in Builds
         /\ pc[v] \notin {"pack", "export"} => overtaken'[v] = overtaken[v]
<1> USE DEF TypeOK, Goto, chain
<1>1. CASE ComposeStage(w)
  BY <1>1 DEF ComposeStage
<1>2. CASE PackStage(w)
  BY <1>2 DEF PackStage
<1>3. CASE ExportRoot(w)
  BY <1>3 DEF ExportRoot
<1>4. CASE StageFails(w)
  BY <1>4 DEF StageFails
<1> QED
  BY <1>1, <1>2, <1>3, <1>4 DEF Chain

LEMMA ChainStep ==
  ASSUME Setting, TypeOK, \A w \in Builds : ChainInv(w), [Next]_vars
  PROVE  \A v \in Builds : ChainInv(v)'
<1> SUFFICES ASSUME NEW v \in Builds PROVE ChainInv(v)'
  OBVIOUS
<1> USE DEF Packed
<1>1. UNCHANGED host
  BY DEF Next, Chain, Smoke, ComposeStage, PackStage, ExportRoot, StageFails, LoadRoot, KillLoad, ResolveImage,
     Preflight, KillControl, Fallback, CheckArtifact, KillArtifact, Conclude, vars
<1>2. ASSUME NEW w \in Builds, Smoke(w) PROVE ChainInv(v)'
  <2>1. UNCHANGED chain /\ (pc'[v] = pc[v] \/ (pc[v] \in AfterChain /\ pc'[v] \in AfterChain \cup {"failed"}))
    BY <1>2, SmokeKeeps
  <2> QED
    BY <1>1, <2>1 DEF ChainInv, AfterChain, chain, Previous, ChainMode
<1>3. ASSUME NEW w \in Builds, Chain(w), v # w PROVE ChainInv(v)'
  <2>1. CASE stageTag' = stageTag
    <3>1. Previous(v)' = Previous(v)
      BY <1>1, <1>3, <2>1, OtherChains DEF Previous, ChainMode
    <3> QED
      BY <1>3, <3>1, OtherChains DEF ChainInv
  <2>2. CASE stageTag' # stageTag
    <3>1. Previous(v)' \in Builds \/ Previous(v)' = Previous(v)
      BY <1>1, <1>3, <2>2, OtherChains DEF Previous, ChainMode
    <3>2. pc[v] \in {"pack", "export"} => pc[v] \in overtaken'[v]
      BY <1>3, <2>2, OtherChains
    <3> QED
      BY <1>3, <3>1, <3>2, OtherChains DEF ChainInv
  <2> QED
    BY <2>1, <2>2
<1>4. ASSUME ComposeStage(v) PROVE ChainInv(v)'
  <2>1. pc'[v] = "pack" /\ archive'[v] = None /\ layout'[v] \in {None, v}
    BY <1>4 DEF ComposeStage, ChainInv, Goto, TypeOK
  <2>2. Previous(v)' = v
    BY <1>1, <1>4 DEF ComposeStage, Previous, ChainMode, TypeOK
  <2> QED
    BY <2>1, <2>2 DEF ChainInv, AfterChain
<1>5. ASSUME PackStage(v) PROVE ChainInv(v)'
  <2>1. pc[v] = "pack" /\ pc'[v] = "export" /\ shipped'[v] = Previous(v) /\ UNCHANGED <<layout, archive, overtaken>>
    BY <1>5 DEF PackStage, Goto, TypeOK
  <2>2. Previous(v)' = Previous(v)
    BY <1>1, <1>5 DEF PackStage, Previous, ChainMode
  <2> QED
    BY <2>1, <2>2 DEF ChainInv, AfterChain
<1>6. ASSUME ExportRoot(v) PROVE ChainInv(v)'
  <2>1. pc[v] = "export" /\ pc'[v] = "load" /\ archive'[v] = Previous(v) /\ UNCHANGED <<layout, shipped, overtaken>>
    BY <1>6 DEF ExportRoot, Goto, TypeOK
  <2> QED
    BY <2>1 DEF ChainInv, AfterChain
<1>7. ASSUME StageFails(v) PROVE ChainInv(v)'
  BY <1>7 DEF StageFails, ChainInv, AfterChain, Goto, TypeOK, chain
<1>8. CASE UNCHANGED vars
  BY <1>8 DEF vars, ChainInv, Previous, ChainMode
<1> QED
  BY <1>2, <1>3, <1>4, <1>5, <1>6, <1>7, <1>8 DEF Next, Chain

\* A step of the chain leaves the smoke runs and the daemon's images.
LEMMA ChainKeeps ==
  ASSUME TypeOK, NEW w \in Builds, Chain(w)
  PROVE  /\ UNCHANGED smoke /\ UNCHANGED daemon
         /\ pc[w] \in {"compose", "pack", "export"}
         /\ pc'[w] \in {"pack", "export", "load", "failed"}
         /\ \A v \in Builds \ {w} : pc'[v] = pc[v] /\ carried'[v] = carried[v] /\ archive'[v] = archive[v]
<1> USE DEF TypeOK, Goto
<1>1. CASE ComposeStage(w)
  BY <1>1 DEF ComposeStage
<1>2. CASE PackStage(w)
  BY <1>2 DEF PackStage
<1>3. CASE ExportRoot(w)
  BY <1>3 DEF ExportRoot
<1>4. CASE StageFails(w)
  BY <1>4 DEF StageFails, chain
<1> QED
  BY <1>1, <1>2, <1>3, <1>4 DEF Chain

-----------------------------------------------------------------------------
(* The image of a smoke run.                                                *)

LEMMA ImageStep ==
  ASSUME Setting, TypeOK, \A w \in Builds : ChainInv(w), \A w \in Builds : ImageInv(w), [Next]_vars
  PROVE  \A v \in Builds : ImageInv(v)'
<1> SUFFICES ASSUME NEW v \in Builds PROVE ImageInv(v)'
  OBVIOUS
<1> USE DEF WithImage, Goto, chain, daemon, smoke
<1>1. ASSUME NEW w \in Builds, Chain(w) PROVE ImageInv(v)'
  BY <1>1, ChainKeeps DEF ImageInv
<1>2. ASSUME NEW w \in Builds, LoadRoot(w) PROVE ImageInv(v)'
  <2>1. archive[w] \in Builds
    BY <1>2 DEF LoadRoot, ChainInv, AfterChain, Steps
  <2>2. pc' = [pc EXCEPT ![w] = pc'[w]] /\ pc'[w] \in {"resolve", "fallback", "loading", "failed"}
    BY <1>2 DEF LoadRoot, TypeOK
  <2>3. (rootTag' = archive[w] \/ (rootTag' = rootTag /\ pc'[w] # "resolve")) /\ UNCHANGED <<archive, image, source>>
    BY <1>2, <2>2 DEF LoadRoot, Loaded, factoryRoot, TypeOK
  <2> QED
    BY <2>1, <2>2, <2>3 DEF ImageInv, TypeOK
<1>3. ASSUME NEW w \in Builds, KillLoad(w) PROVE ImageInv(v)'
  <2>1. archive[w] \in Builds /\ UNCHANGED archive
    BY <1>3 DEF KillLoad, ChainInv, AfterChain, Steps, InStore, factoryRoot
  <2>2. rootTag' \in {archive[w], rootTag}
    BY <1>3 DEF KillLoad, Loaded, InStore, factoryRoot
  <2>3. CASE /\ image' = [image EXCEPT ![w] = archive[w]]
             /\ source' = [source EXCEPT ![w] = "content"] /\ Goto(w, "preflight")
    BY <2>1, <2>2, <2>3 DEF ImageInv, TypeOK, Setting
  <2>4. CASE Goto(w, "failed") /\ UNCHANGED <<image, source>>
    BY <2>1, <2>2, <2>4 DEF ImageInv, TypeOK
  <2> QED
    BY <1>3, <2>3, <2>4 DEF KillLoad, InStore, factoryRoot
<1>4. ASSUME NEW w \in Builds, ResolveImage(w) PROVE ImageInv(v)'
  <2>1. archive[w] \in Builds /\ rootTag \in Builds /\ UNCHANGED <<archive, rootTag>> /\ Goto(w, "preflight")
    BY <1>4 DEF ResolveImage, ChainInv, ImageInv, AfterChain, Steps, InStore, factoryRoot
  <2>2. CASE image' = [image EXCEPT ![w] = archive[w]] /\ source' = [source EXCEPT ![w] = "content"]
    BY <2>1, <2>2 DEF ImageInv, TypeOK
  <2>3. CASE image' = [image EXCEPT ![w] = rootTag] /\ source' = [source EXCEPT ![w] = "tag"]
    BY <2>1, <2>3 DEF ImageInv, TypeOK
  <2> QED
    BY <1>4, <2>2, <2>3 DEF ResolveImage, InStore, factoryRoot
<1>5. ASSUME NEW w \in Builds, Preflight(w) PROVE ImageInv(v)'
  BY <1>5 DEF Preflight, ImageInv, TypeOK, dockerRoute
<1>6. ASSUME NEW w \in Builds, KillControl(w) PROVE ImageInv(v)'
  BY <1>6 DEF KillControl, ImageInv, TypeOK
<1>7. ASSUME NEW w \in Builds, Fallback(w) PROVE ImageInv(v)'
  <2>1. archive[w] \in Builds /\ UNCHANGED <<archive, rootTag>>
    BY <1>7 DEF Fallback, ChainInv, AfterChain, Steps, factoryRoot
  <2>2. CASE /\ image' = [image EXCEPT ![w] = archive[w]] /\ source' = [source EXCEPT ![w] = "layout"]
             /\ Goto(w, "exec")
    BY <2>1, <2>2 DEF ImageInv, TypeOK, Setting
  <2>3. CASE Goto(w, "failed") /\ UNCHANGED <<image, source>>
    BY <2>1, <2>3 DEF ImageInv, TypeOK
  <2> QED
    BY <1>7, <2>2, <2>3 DEF Fallback, factoryRoot
<1>8. ASSUME NEW w \in Builds, CheckArtifact(w) PROVE ImageInv(v)'
  <2>1. UNCHANGED <<archive, rootTag, image, source>> /\ (UNCHANGED pc \/ Goto(w, "hung")) /\ pc[w] = "exec"
    BY <1>8 DEF CheckArtifact, Executes
  <2> QED
    BY <2>1 DEF ImageInv, TypeOK
<1>9. ASSUME NEW w \in Builds, KillArtifact(w) PROVE ImageInv(v)'
  BY <1>9 DEF KillArtifact, ImageInv, TypeOK
<1>10. ASSUME NEW w \in Builds, Conclude(w) PROVE ImageInv(v)'
  BY <1>10 DEF Conclude, ImageInv, TypeOK
<1>11. CASE UNCHANGED vars
  BY <1>11 DEF vars, ImageInv
<1> QED
  BY <1>1, <1>2, <1>3, <1>4, <1>5, <1>6, <1>7, <1>8, <1>9, <1>10, <1>11 DEF Next, Smoke

-----------------------------------------------------------------------------
(* The results of the register.                                             *)

\* What a verdict says of the program that answered: "pass" is an answer that
\* only a sound program gives, or a skewed one that is only executed.
LEMMA JudgeSays ==
  ASSUME NEW art \in Artifacts, NEW d \in Defects \ {"unknown"}, NEW outcome \in Outcomes(d), NEW r
  PROVE  /\ Judge(art, outcome, r) = "pass" => d = "sound" \/ (d = "skewed" /\ Contract[art] = "exec")
         /\ Judge(art, outcome, r) = "executor-limited" => art \in Limited /\ r # "native"
         /\ Judge(art, outcome, r) # None
BY DEF Defects, Outcomes, Judge, ExecutorLimitMatch, None

\* An entry that is not run is never passed, and one that is killed fails.
LEMMA JudgeOther ==
  ASSUME NEW art \in Artifacts, NEW r
  PROVE  /\ Contract[art] = "unclaimed" => Judge(art, "ok", r) = "unclaimed"
         /\ Judge(art, "killed", r) \in {"unclaimed", "fail"}
BY DEF Judge, ExecutorLimitMatch

\* A step of a build before its register gives no result, and takes none.
LEMMA BeforeRegister ==
  ASSUME TypeOK, NEW w \in Builds,
         KillLoad(w) \/ ResolveImage(w) \/ Preflight(w) \/ KillControl(w) \/ Fallback(w)
  PROVE  /\ UNCHANGED <<carried, defect, results>>
         /\ pc[w] \in AfterChain \ (InRegister \cup {"load"})
         /\ pc'[w] \in {"preflight", "exec", "fallback", "starting", "failed"}
         /\ \A v \in Builds \ {w} : pc'[v] = pc[v] /\ image'[v] = image[v] /\ route'[v] = route[v]
<1> USE DEF TypeOK, InRegister, AfterChain, Steps, Ended, Goto, chain, daemon, smoke
<1>1. CASE KillLoad(w)
  BY <1>1 DEF KillLoad, InStore, factoryRoot
<1>2. CASE ResolveImage(w)
  BY <1>2 DEF ResolveImage, InStore, factoryRoot
<1>3. CASE Preflight(w)
  BY <1>3 DEF Preflight, dockerRoute
<1>4. CASE KillControl(w)
  BY <1>4 DEF KillControl
<1>5. CASE Fallback(w)
  BY <1>5 DEF Fallback, factoryRoot
<1> QED
  BY <1>1, <1>2, <1>3, <1>4, <1>5

\* Every step keeps what the results say of the programs.
LEMMA ResultStep ==
  ASSUME Setting, TypeOK, \A w \in Builds : ChainInv(w), \A w \in Builds : ImageInv(w),
         \A w \in Builds : ResultInv(w), [Next]_vars
  PROVE  \A v \in Builds : ResultInv(v)'
<1> SUFFICES ASSUME NEW v \in Builds PROVE ResultInv(v)'
  OBVIOUS
<1> USE DEF InRegister, AfterChain, Steps, Ended, Goto, chain, daemon, smoke
<1>1. ASSUME NEW w \in Builds, Chain(w) PROVE ResultInv(v)'
  <2>1. UNCHANGED smoke /\ pc[w] \notin InRegister
    BY <1>1, ChainKeeps
  <2>2. CASE v = w
    BY <1>1, <2>1, <2>2, ChainKeeps DEF ResultInv
  <2>3. CASE v # w
    BY <1>1, <2>1, <2>3, ChainKeeps DEF ResultInv
  <2> QED
    BY <2>2, <2>3
<1>2. ASSUME NEW w \in Builds, LoadRoot(w) PROVE ResultInv(v)'
  BY <1>2 DEF LoadRoot, ResultInv, TypeOK
<1>3. ASSUME NEW w \in Builds,
             KillLoad(w) \/ ResolveImage(w) \/ Preflight(w) \/ KillControl(w) \/ Fallback(w)
      PROVE  ResultInv(v)'
  <2>1. CASE v = w
    BY <1>3, <2>1, BeforeRegister DEF ResultInv, None
  <2>2. CASE v # w
    BY <1>3, <2>2, BeforeRegister DEF ResultInv
  <2> QED
    BY <2>1, <2>2
<1>8. ASSUME NEW w \in Builds, CheckArtifact(w) PROVE ResultInv(v)'
  <2> DEFINE art == CHOOSE art \in Todo(w) : TRUE
  <2>1. art \in Artifacts /\ results[w][art] = None /\ pc[w] = "exec"
    BY <1>8 DEF CheckArtifact, Todo, TypeOK, Executes
  <2>2. CASE Contract[art] = "unclaimed" /\ Answer(w, art, "ok") /\ UNCHANGED <<pc, defect>>
    <3>1. results' = [results EXCEPT ![w][art] = "unclaimed"]
      BY <2>1, <2>2, JudgeOther DEF Answer
    <3> QED
      BY <1>8, <2>1, <2>2, <3>1 DEF CheckArtifact, ResultInv, TypeOK, Executes
  <2>3. ASSUME NEW d \in Defects \ {"unknown"}, defect[image[w]][art] \in {"unknown", d},
               defect' = [defect EXCEPT ![image[w]][art] = d],
               NEW outcome \in Outcomes(d), Answer(w, art, outcome), UNCHANGED pc
        PROVE  ResultInv(v)'
    <3> DEFINE said == Judge(art, outcome, route[w])
    <3>1. results' = [results EXCEPT ![w][art] = said]
      BY <2>3 DEF Answer
    <3>2. /\ said = "pass" => d = "sound" \/ (d = "skewed" /\ Contract[art] = "exec")
          /\ said = "executor-limited" => art \in Limited /\ route[w] # "native"
      BY <2>1, <2>3, JudgeSays
    <3>3. \A x \in Builds, e \in Artifacts :
            defect[x][e] \in {"sound", "skewed"} => defect'[x][e] = defect[x][e]
      <4>1. defect \in [Builds -> [Artifacts -> Defects]]
        BY DEF TypeOK
      <4> QED
        BY <2>1, <2>3, <4>1
    <3>4. image[w] \in Builds /\ defect'[image[w]][art] = d
      BY <2>1, <2>3 DEF TypeOK, ImageInv, WithImage
    <3>5. UNCHANGED <<pc, carried, image, route>>
      BY <1>8, <2>3 DEF CheckArtifact, Executes
    <3> HIDE DEF said
    <3>6. CASE v = w
      <4>1. results'[w][art] = said /\ \A e \in Artifacts \ {art} : results'[w][e] = results[w][e]
        BY <2>1, <3>1 DEF TypeOK
      <4>2. ASSUME NEW e \in Artifacts, results'[w][e] = "pass"
            PROVE  defect'[image[w]][e] = "sound" \/ (defect'[image[w]][e] = "skewed" /\ Contract[e] = "exec")
        <5>1. CASE e = art
          BY <3>2, <3>4, <4>1, <4>2, <5>1
        <5>2. CASE e # art
          BY <3>3, <4>1, <4>2, <5>2 DEF ResultInv
        <5> QED
          BY <5>1, <5>2
      <4>3. ASSUME NEW e \in Artifacts, results'[w][e] = "executor-limited"
            PROVE  e \in Limited /\ route[w] # "native"
        <5>1. CASE e = art
          BY <3>2, <4>1, <4>3, <5>1
        <5>2. CASE e # art
          BY <4>1, <4>3, <5>2 DEF ResultInv
        <5> QED
          BY <5>1, <5>2
      <4> QED
        BY <2>1, <3>4, <3>5, <3>6, <4>2, <4>3 DEF ResultInv
    <3>7. CASE v # w
      BY <2>1, <3>1, <3>3, <3>5, <3>7 DEF ResultInv, TypeOK
    <3> QED
      BY <3>6, <3>7
  <2>4. CASE Goto(w, "hung") /\ UNCHANGED <<defect, results>>
    BY <1>8, <2>1, <2>4 DEF CheckArtifact, ResultInv, TypeOK, Executes
  <2> QED
    BY <1>8, <2>2, <2>3, <2>4 DEF CheckArtifact, Executes
<1>9. ASSUME NEW w \in Builds, KillArtifact(w) PROVE ResultInv(v)'
  <2> DEFINE art == CHOOSE art \in Todo(w) : TRUE
              said == Judge(art, "killed", route[w])
  <2>1. results' = [results EXCEPT ![w][art] = said] /\ said \in {"unclaimed", "fail"}
    BY <1>9, JudgeOther DEF KillArtifact, Answer, Judge, ExecutorLimitMatch
  <2>2. pc[w] = "hung" /\ pc' = [pc EXCEPT ![w] = "exec"] /\ UNCHANGED <<carried, image, route, defect>>
    BY <1>9 DEF KillArtifact
  <2> HIDE DEF art, said
  <2> QED
    BY <2>1, <2>2 DEF ResultInv, TypeOK
<1>10. ASSUME NEW w \in Builds, Conclude(w) PROVE ResultInv(v)'
  BY <1>10 DEF Conclude, ResultInv, TypeOK, Todo, Said, Verdicts
<1>11. CASE UNCHANGED vars
  BY <1>11 DEF vars, ResultInv
<1> QED
  BY <1>1, <1>2, <1>3, <1>8, <1>9, <1>10, <1>11 DEF Next, Smoke

-----------------------------------------------------------------------------
(* The theorems.                                                            *)

LEMMA InvInit == Setting /\ Init => Inv
<1> SUFFICES ASSUME Setting, Init PROVE Inv
  OBVIOUS
<1>1. TypeOK
  BY TypeInit
<1>2. \A w \in Builds : ChainInv(w)
  BY DEF Init, ChainInv, AfterChain
<1>3. \A w \in Builds : ImageInv(w)
  BY DEF Init, ImageInv, WithImage
<1>4. \A w \in Builds : ResultInv(w)
  BY DEF Init, ResultInv, AfterChain, InRegister, None
<1> QED
  BY <1>1, <1>2, <1>3, <1>4 DEF Inv

LEMMA InvStep == Setting /\ Inv /\ [Next]_vars => Inv'
BY TypeStep, ChainStep, ImageStep, ResultStep DEF Inv

\* The invariant of the builds holds whatever the daemon and the other builds do.
THEOREM Invariance == ASSUME Setting PROVE Spec => []Inv
<1>1. Init => Inv
  BY InvInit
<1>2. Inv /\ [Next]_vars => Inv'
  BY InvStep
<1> QED
  BY <1>1, <1>2, PTL DEF Spec

\* Every variable has its type, in every state of every behaviour.
THEOREM TypeCorrect == ASSUME Setting PROVE Spec => []TypeOK
<1>1. Inv => TypeOK
  BY DEF Inv
<1> QED
  BY <1>1, Invariance, PTL

\* Both exports of a build are of one root (stages.ts) unless another build of the
\* board moved the stage tag between them, and of the build's own root unless one
\* moved it before, whichever builder is used and whatever other builds do.
THEOREM OneRoot == ASSUME Setting PROVE Spec => []OneRootPerBuild
<1>1. Inv => OneRootPerBuild
  BY DEF Inv, ChainInv, Packed, OneRootPerBuild
<1> QED
  BY <1>1, Invariance, PTL

\* The root a smoke run executes, when it is named by content or by its layout, is
\* the archive's (smoke.ts), whatever the tags of the daemon name, and the one that
\* ships unless the stage tag was moved between the two exports.
THEOREM SmokedIsShipped == ASSUME Setting PROVE Spec => []SmokedRootIsShipped
<1>1. Inv => SmokedRootIsShipped
  <2>0. Inv => OneRootPerBuild
    BY DEF Inv, ChainInv, Packed, OneRootPerBuild
  <2> SUFFICES ASSUME Inv, NEW w \in Builds, image[w] # None, source[w] # "tag"
               PROVE  image[w] = archive[w] /\ ("export" \notin overtaken[w] => image[w] = shipped[w])
    BY <2>0 DEF SmokedRootIsShipped
  <2>1. image[w] = archive[w]
    BY DEF Inv, ImageInv
  <2> QED
    BY <2>1 DEF Inv, ChainInv
<1> QED
  BY <1>1, Invariance, PTL

\* A build that passes ran every program of its packages in the root it executed and
\* found it sound there, but for what the register asks no version of and a declared
\* limit of the executor (smoke.ts, smoke-register.ts); and where that root was not
\* named by a tag and no build came between the exports, it is the root that ships.
THEOREM GreenIsSound == ASSUME Setting PROVE Spec => []GreenMeansSound
<1>1. Inv => GreenMeansSound
  <2> SUFFICES ASSUME Inv, NEW w \in Builds, pc[w] = "passed"
               PROVE  /\ carried[w] # {}
                      /\ \A r \in Concluded(w), art \in carried[w] :
                           \/ defect[r][art] = "sound"
                           \/ defect[r][art] = "skewed" /\ Contract[art] = "exec"
                           \/ art \in Limited /\ route[w] # "native"
    BY DEF GreenMeansSound
  <2>1. carried[w] # {} /\ carried[w] \subseteq Artifacts
    <3>1. carried[w] # {}
      BY DEF Inv, ResultInv, AfterChain, Steps, Ended
    <3>2. carried[w] \subseteq Artifacts
      BY DEF Inv, TypeOK
    <3> QED
      BY <3>1, <3>2
  <2>2. \A art \in carried[w] : results[w][art] \in {"pass", "executor-limited"}
    BY DEF Inv, ResultInv
  <2>3. image[w] \in Builds
    BY DEF Inv, ImageInv, WithImage
  <2>4. Concluded(w) = {image[w]}
    <3>1. CASE source[w] = "tag" \/ "export" \in overtaken[w]
      BY <3>1 DEF Concluded
    <3>2. CASE source[w] # "tag" /\ "export" \notin overtaken[w]
      <4>1. image[w] = archive[w] /\ archive[w] # None
        BY <2>3, <3>2 DEF Inv, ImageInv, Setting
      <4>2. image[w] = shipped[w]
        BY <3>2, <4>1 DEF Inv, ChainInv
      <4> QED
        BY <3>2, <4>2 DEF Concluded
    <3> QED
      BY <3>1, <3>2
  <2> QED
    BY <2>1, <2>2, <2>4 DEF Inv, ResultInv
<1> QED
  BY <1>1, Invariance, PTL

-----------------------------------------------------------------------------
(* The selection of what ships.                                             *)

\* A path that is carried, or is still to be added.
Taken(p) == p \in files \/ \E i \in work : i.path = p

\* The interpreter of a program and every library it needs are carried.
Complete(f) ==
  /\ tree[f].to # Nil => tree[f].to \in files
  /\ \A n \in tree[f].needs : bindings[n] \in files

\* The objects of the program that is being traced.
Elements(s) == {s[k] : k \in DOMAIN s}

\* What such an object has no more open is carried.
ObjectInv(o) ==
  /\ o.path \in files
  /\ o.interp => tree[o.path].to # Nil
  /\ o.interp \/ tree[o.path].to = Nil \/ tree[o.path].to \in files
  /\ \A n \in tree[o.path].needs \ o.left : bindings[n] \in files

IsScript(f) == tree[f].type = "file" /\ tree[f].body = "script"

\* What a carried file refers to is carried or still to come.
CarriedInv(f) ==
  /\ Leads(f) => Taken(tree[f].to)
  /\ IsScript(f) /\ tree[f].to # Nil => Taken(tree[f].to)
  /\ IsScript(f) /\ tree[f].to = Env => Taken(FirstOf(tree, tree[f].command))
  /\ Elf(f) => Complete(f) \/ \E o \in Elements(queue) : o.path = f

IInv ==
  /\ SelectTypeOK
  /\ \A f \in files : CarriedInv(f)
  /\ \A o \in Elements(queue) : ObjectInv(o)
  /\ seen \subseteq files
  /\ phase = "roots" => files = {} /\ queue = <<>>
  /\ phase = "composed" => work = {} /\ queue = <<>> /\ Unlicensed = {}

-----------------------------------------------------------------------------
(* The links of a path.                                                     *)

\* A nonempty set of numbers has a least one.
LEMMA LeastNumber ==
  ASSUME NEW S \in SUBSET Nat, S # {}
  PROVE  \E n \in S : \A m \in S : n <= m
<1> DEFINE R == OpToRel(<, Nat)
<1>1. PICK n \in S : \A m \in S : ~(<<m, n>> \in R)
  <2>1. IsWellFoundedOn(R, Nat)
    BY NatLessThanWellFounded
  <2> HIDE DEF R
  <2> QED BY <2>1, WFMin
<1>2. \A m \in S : n <= m
  <2> TAKE m \in S
  <2>1. n \in Nat /\ m \in Nat
    OBVIOUS
  <2>2. m < n => <<m, n>> \in R
    BY <2>1 DEF OpToRel
  <2> HIDE DEF R
  <2>3. ~(m < n)
    BY <1>1, <2>2
  <2> QED BY <2>1, <2>3
<1> QED BY <1>2

\* The first steps of a trail.
Walks(t, p, n, w) == w = [k \in 0 .. n |-> IF k = 0 THEN {p} ELSE {onward(t, q) : q \in w[k - 1]}]

LEMMA TrailExists ==
  ASSUME NEW t, NEW p
  PROVE  \A n \in Nat : \E w : Walks(t, p, n, w)
<1> DEFINE S == {n \in Nat : ~\E w : Walks(t, p, n, w)}
<1> SUFFICES ASSUME S # {}
             PROVE  FALSE
  OBVIOUS
<1>1. PICK n \in S : \A m \in S : n <= m
  BY LeastNumber
<1>2. n \in Nat /\ ~\E w : Walks(t, p, n, w)
  OBVIOUS
<1>3. CASE n = 0
  <2> DEFINE w == [k \in 0 .. 0 |-> {p}]
  <2>1. w = [k \in 0 .. 0 |-> IF k = 0 THEN {p} ELSE {onward(t, q) : q \in w[k - 1]}]
    OBVIOUS
  <2> HIDE DEF w
  <2>2. Walks(t, p, n, w)
    BY <1>3, <2>1 DEF Walks
  <2> QED BY <1>2, <2>2
<1>4. CASE n # 0
  <2>1. n - 1 \in Nat /\ n - 1 < n
    BY <1>2, <1>4
  <2>2. n - 1 \notin S
    BY <1>1, <1>2, <2>1
  <2>3. PICK v : Walks(t, p, n - 1, v)
    BY <2>1, <2>2
  <2> DEFINE w == [k \in 0 .. n |-> IF k = n THEN {onward(t, q) : q \in v[n - 1]} ELSE v[k]]
  <2>4. \A k \in 0 .. n : w[k] = IF k = 0 THEN {p} ELSE {onward(t, q) : q \in w[k - 1]}
    <3> TAKE k \in 0 .. n
    <3>1. CASE k = n
      <4>1. w[k] = {onward(t, q) : q \in v[n - 1]} /\ k # 0 /\ w[k - 1] = v[n - 1]
        BY <1>2, <1>4, <3>1
      <4> QED BY <3>1, <4>1
    <3>2. CASE k # n
      <4>1. k \in 0 .. (n - 1) /\ w[k] = v[k] /\ (k # 0 => k - 1 \in 0 .. n /\ k - 1 # n /\ w[k - 1] = v[k - 1])
        BY <1>2, <3>2
      <4>2. v[k] = IF k = 0 THEN {p} ELSE {onward(t, q) : q \in v[k - 1]}
        BY <2>3, <4>1 DEF Walks
      <4> QED BY <4>1, <4>2
    <3> QED BY <3>1, <3>2
  <2>5. w = [k \in 0 .. n |-> w[k]]
    OBVIOUS
  <2> HIDE DEF w
  <2>6. w = [k \in 0 .. n |-> IF k = 0 THEN {p} ELSE {onward(t, q) : q \in w[k - 1]}]
    BY <2>4, <2>5
  <2>7. Walks(t, p, n, w)
    BY <2>6 DEF Walks
  <2> QED BY <1>2, <2>7
<1> QED BY <1>3, <1>4

\* The number of links that are followed, and the trail by its steps.
Many == Cardinality(Paths)

LEMMA ManyType == Many \in Nat
BY RuntimeAssumption, FS_CardinalityType DEF Many

LEMMA TrailSteps ==
  ASSUME NEW t, NEW p
  PROVE  /\ DOMAIN trail(t, p) = 0 .. Many
         /\ trail(t, p)[0] = {p}
         /\ \A n \in 0 .. Many : n # 0 => trail(t, p)[n] = {onward(t, q) : q \in trail(t, p)[n - 1]}
<1>1. Many \in Nat
  BY ManyType
<1>2. \E w : Walks(t, p, Many, w)
  BY <1>1, TrailExists
<1> DEFINE w == trail(t, p)
<1>3. Walks(t, p, Many, w)
  BY <1>2 DEF trail, Walks, Many
<1> HIDE DEF w
<1>4. w = [k \in 0 .. Many |-> IF k = 0 THEN {p} ELSE {onward(t, q) : q \in w[k - 1]}]
  BY <1>3 DEF Walks
<1>5. DOMAIN w = 0 .. Many /\ w[0] = {p} /\ \A n \in 0 .. Many : n # 0 => w[n] = {onward(t, q) : q \in w[n - 1]}
  BY <1>1, <1>4
<1> QED BY <1>5 DEF w

\* Each step of a trail is one path, or Nil.
LEMMA TrailType ==
  ASSUME NEW t \in [Paths -> Node], NEW p \in Paths
  PROVE  \A n \in 0 .. Many : \E c \in Paths \cup {Nil} : trail(t, p)[n] = {c}
<1> DEFINE w == trail(t, p)
           S == {n \in 0 .. Many : ~\E c \in Paths \cup {Nil} : w[n] = {c}}
<1>1. Many \in Nat /\ w[0] = {p} /\ \A n \in 0 .. Many : n # 0 => w[n] = {onward(t, q) : q \in w[n - 1]}
  BY ManyType, TrailSteps
<1> HIDE DEF w
<1> SUFFICES ASSUME S # {}
             PROVE  FALSE
  BY DEF w
<1>2. PICK n \in S : \A m \in S : n <= m
  <2>1. S \in SUBSET Nat
    BY <1>1
  <2> QED BY <2>1, LeastNumber
<1>3. n \in 0 .. Many /\ n # 0
  BY <1>1
<1>4. n - 1 \in 0 .. Many /\ n - 1 \notin S
  BY <1>1, <1>2, <1>3
<1>5. PICK c \in Paths \cup {Nil} : w[n - 1] = {c}
  BY <1>4
<1>6. w[n] = {onward(t, c)}
  BY <1>1, <1>3, <1>5
<1>7. onward(t, c) \in Paths \cup {Nil}
  BY DEF onward, Node
<1> QED BY <1>6, <1>7

\* What no link leads on from ends the trail.
LEMMA TrailStays ==
  ASSUME NEW t, NEW p, NEW c, onward(t, c) = c, NEW n \in 0 .. Many, trail(t, p)[n] = {c}
  PROVE  trail(t, p)[Many] = {c}
<1> DEFINE w == trail(t, p)
           S == {m \in 0 .. Many : n <= m /\ w[m] # {c}}
<1>1. Many \in Nat /\ \A m \in 0 .. Many : m # 0 => w[m] = {onward(t, q) : q \in w[m - 1]}
  BY ManyType, TrailSteps
<1>2. w[n] = {c}
  OBVIOUS
<1> HIDE DEF w
<1>3. S = {}
  <2> SUFFICES ASSUME S # {}
               PROVE  FALSE
    OBVIOUS
  <2>1. PICK m \in S : \A k \in S : m <= k
    <3>1. S \in SUBSET Nat
      BY <1>1
    <3> QED BY <3>1, LeastNumber
  <2>2. m \in 0 .. Many /\ n <= m /\ w[m] # {c} /\ m # n
    BY <1>2
  <2>3. m - 1 \in 0 .. Many /\ n <= m - 1 /\ m - 1 \notin S
    BY <1>1, <2>1, <2>2
  <2>4. w[m - 1] = {c}
    BY <2>3
  <2>5. w[m] = {onward(t, c)}
    BY <1>1, <2>2, <2>4
  <2> QED BY <2>2, <2>5
<1>4. w[Many] = {c}
  BY <1>1, <1>3
<1> QED BY <1>4 DEF w

\* What the links of a path that leads somewhere are, and where it leads.
LEMMA LinksFacts ==
  ASSUME NEW t \in [Paths -> Node], NEW p \in Paths, resolve(t, p) # Nil
  PROVE  /\ resolve(t, p) \in Paths /\ resolve(t, p) \in links(t, p)
         /\ t[resolve(t, p)].type \notin {"absent", "link"}
         /\ p \in links(t, p) /\ links(t, p) \subseteq Paths
         /\ \A l \in links(t, p) : t[l].type = "link" => t[l].to \in links(t, p)
         /\ \A l \in links(t, p) : t[l].type # "link" => l = resolve(t, p)
<1> DEFINE w == trail(t, p)
<1>1. /\ Many \in Nat /\ DOMAIN w = 0 .. Many /\ w[0] = {p}
      /\ \A n \in 0 .. Many : n # 0 => w[n] = {onward(t, q) : q \in w[n - 1]}
      /\ \A n \in 0 .. Many : \E c \in Paths \cup {Nil} : w[n] = {c}
  BY ManyType, TrailSteps, TrailType
<1>2. \A c : \A n \in 0 .. Many : onward(t, c) = c /\ w[n] = {c} => w[Many] = {c}
  BY TrailStays
<1>3. links(t, p) = (UNION {w[n] : n \in 0 .. Many}) \ {Nil}
  BY <1>1 DEF links
<1>11. \A x : x \in links(t, p) <=> x # Nil /\ \E n \in 0 .. Many : x \in w[n]
  <2> HIDE DEF w
  <2> TAKE x
  <2>1. x \in links(t, p) <=> x \in UNION {w[n] : n \in 0 .. Many} /\ x # Nil
    BY <1>3
  <2>2. x \in UNION {w[n] : n \in 0 .. Many} <=> \E n \in 0 .. Many : x \in w[n]
    OBVIOUS
  <2> QED BY <2>1, <2>2
<1>4. resolve(t, p) = LET ends == {q \in w[Many] : q # Nil /\ t[q].type \notin {"absent", "link"}}
                      IN IF ends = {} THEN Nil ELSE CHOOSE q \in ends : TRUE
  BY DEF resolve, Many
<1> HIDE DEF w
<1>5. PICK c \in Paths \cup {Nil} : w[Many] = {c}
  BY <1>1
<1>6. c # Nil /\ t[c].type \notin {"absent", "link"} /\ resolve(t, p) = c
  BY <1>4, <1>5
<1>7. c \in links(t, p) /\ p \in links(t, p)
  <2>1. 0 \in 0 .. Many /\ Many \in 0 .. Many /\ p # Nil
    BY <1>1, RuntimeAssumption
  <2>2. p \in w[0] /\ c \in w[Many]
    BY <1>1, <1>5
  <2> QED BY <1>6, <1>11, <2>1, <2>2
<1>8. links(t, p) \subseteq Paths
  <2> SUFFICES ASSUME NEW l \in links(t, p)
               PROVE  l \in Paths
    OBVIOUS
  <2>1. PICK n \in 0 .. Many : l \in w[n] /\ l # Nil
    BY <1>11
  <2>2. PICK d \in Paths \cup {Nil} : w[n] = {d}
    BY <1>1
  <2> QED BY <2>1, <2>2
<1>12. \A l \in links(t, p) : \E n \in 0 .. Many : w[n] = {l} /\ l # Nil
  <2> TAKE l \in links(t, p)
  <2>1. PICK n \in 0 .. Many : l \in w[n] /\ l # Nil
    BY <1>11
  <2>2. PICK d \in Paths \cup {Nil} : w[n] = {d}
    BY <1>1
  <2>3. w[n] = {l}
    BY <2>1, <2>2
  <2> QED BY <2>1, <2>3
<1>9. ASSUME NEW l \in links(t, p), t[l].type = "link"
      PROVE  t[l].to \in links(t, p)
  <2>1. PICK n \in 0 .. Many : w[n] = {l} /\ l # Nil
    BY <1>12
  <2>2. n # Many
    BY <1>5, <1>6, <1>9, <2>1
  <2>3. n + 1 \in 0 .. Many /\ n + 1 # 0 /\ (n + 1) - 1 = n
    BY <1>1, <2>2
  <2>4. w[n + 1] = {onward(t, l)}
    <3> DEFINE m == n + 1
    <3>1. m \in 0 .. Many /\ m # 0 /\ m - 1 = n
      BY <2>3
    <3> HIDE DEF m
    <3>2. w[m] = {onward(t, l)}
      BY <1>1, <2>1, <3>1
    <3> QED BY <3>2 DEF m
  <2>5. onward(t, l) = t[l].to
    BY <1>9, <2>1 DEF onward
  <2>6. t[l].to # Nil
    <3>1. onward(t, Nil) = Nil
      BY DEF onward
    <3>2. t[l].to = Nil => w[Many] = {Nil}
      BY <1>2, <2>3, <2>4, <2>5, <3>1
    <3> QED BY <1>5, <1>6, <3>2
  <2>7. t[l].to \in w[n + 1]
    BY <2>4, <2>5
  <2> QED BY <1>11, <2>3, <2>6, <2>7
<1>10. ASSUME NEW l \in links(t, p), t[l].type # "link"
       PROVE  l = c
  <2>1. PICK n \in 0 .. Many : w[n] = {l}
    BY <1>12
  <2>2. onward(t, l) = l
    BY <1>10 DEF onward
  <2>3. w[Many] = {l}
    BY <1>2, <2>1, <2>2
  <2> QED BY <1>5, <2>3
<1> QED BY <1>6, <1>7, <1>8, <1>9, <1>10

\* A link that leads somewhere names a path.
LEMMA LinkNames ==
  ASSUME NEW t \in [Paths -> Node], NEW p \in Paths, resolve(t, p) # Nil, t[p].type = "link"
  PROVE  t[p].to \in Paths
BY LinksFacts

-----------------------------------------------------------------------------
(* The objects of a program.                                                *)

LEMMA QueueFacts ==
  ASSUME NEW s \in Seq(Objects), s # <<>>, NEW o \in Objects
  PROVE  /\ Head(s) \in Objects /\ Tail(s) \in Seq(Objects)
         /\ Elements(s) = {Head(s)} \cup Elements(Tail(s))
         /\ <<o>> \o Tail(s) \in Seq(Objects)
         /\ Elements(<<o>> \o Tail(s)) = {o} \cup Elements(Tail(s))
<1> DEFINE r == <<o>> \o Tail(s)
<1>1. Head(s) \in Objects /\ Tail(s) \in Seq(Objects) /\ r \in Seq(Objects)
  OBVIOUS
<1>2. /\ Len(s) \in Nat \ {0} /\ DOMAIN s = 1 .. Len(s) /\ s[1] = Head(s)
      /\ DOMAIN Tail(s) = 1 .. (Len(s) - 1)
      /\ \A k \in 1 .. (Len(s) - 1) : Tail(s)[k] = s[k + 1]
  OBVIOUS
<1>3. /\ DOMAIN r = 1 .. Len(s) /\ r[1] = o
      /\ \A k \in 1 .. (Len(s) - 1) : r[k + 1] = Tail(s)[k]
  BY <1>2
<1> HIDE DEF r
<1>4. \A k \in 1 .. Len(s) : k = 1 \/ (k - 1 \in 1 .. (Len(s) - 1) /\ (k - 1) + 1 = k)
  BY <1>2
<1>5. Elements(s) = {Head(s)} \cup Elements(Tail(s))
  <2>1. Elements(s) \subseteq {Head(s)} \cup Elements(Tail(s))
    <3> SUFFICES ASSUME NEW k \in 1 .. Len(s)
                 PROVE  s[k] \in {Head(s)} \cup Elements(Tail(s))
      BY <1>2 DEF Elements
    <3>1. CASE k = 1
      BY <1>2, <3>1
    <3>2. CASE k # 1
      <4> DEFINE j == k - 1
      <4>1. j \in 1 .. (Len(s) - 1) /\ j + 1 = k
        BY <1>4, <3>2
      <4> HIDE DEF j
      <4>2. s[k] = Tail(s)[j]
        BY <1>2, <4>1
      <4> QED BY <1>2, <4>1, <4>2 DEF Elements
    <3> QED BY <3>1, <3>2
  <2>2. {Head(s)} \subseteq Elements(s)
    BY <1>2 DEF Elements
  <2>3. Elements(Tail(s)) \subseteq Elements(s)
    <3> SUFFICES ASSUME NEW j \in 1 .. (Len(s) - 1)
                 PROVE  Tail(s)[j] \in Elements(s)
      BY <1>2 DEF Elements
    <3>1. j + 1 \in 1 .. Len(s) /\ Tail(s)[j] = s[j + 1]
      BY <1>2
    <3> QED BY <1>2, <3>1 DEF Elements
  <2> QED BY <2>1, <2>2, <2>3
<1>6. Elements(r) = {o} \cup Elements(Tail(s))
  <2>1. Elements(r) \subseteq {o} \cup Elements(Tail(s))
    <3> SUFFICES ASSUME NEW k \in 1 .. Len(s)
                 PROVE  r[k] \in {o} \cup Elements(Tail(s))
      BY <1>3 DEF Elements
    <3>1. CASE k = 1
      BY <1>3, <3>1
    <3>2. CASE k # 1
      <4> DEFINE j == k - 1
      <4>1. j \in 1 .. (Len(s) - 1) /\ j + 1 = k
        BY <1>4, <3>2
      <4> HIDE DEF j
      <4>2. r[k] = Tail(s)[j]
        BY <1>3, <4>1
      <4> QED BY <1>2, <4>1, <4>2 DEF Elements
    <3> QED BY <3>1, <3>2
  <2>2. {o} \subseteq Elements(r)
    BY <1>2, <1>3 DEF Elements
  <2>3. Elements(Tail(s)) \subseteq Elements(r)
    <3> SUFFICES ASSUME NEW j \in 1 .. (Len(s) - 1)
                 PROVE  Tail(s)[j] \in Elements(r)
      BY <1>2 DEF Elements
    <3>1. j + 1 \in 1 .. Len(s) /\ Tail(s)[j] = r[j + 1]
      BY <1>2, <1>3
    <3> QED BY <1>3, <3>1 DEF Elements
  <2> QED BY <2>1, <2>2, <2>3
<1> QED BY <1>1, <1>5, <1>6 DEF r

\* A program begins with one object.
LEMMA SingleFacts ==
  ASSUME NEW x \in Objects
  PROVE  <<x>> \in Seq(Objects) /\ Elements(<<x>>) = {x}
<1> PICK s : s = <<x>>
  OBVIOUS
<1>1. s \in Seq(Objects) /\ Len(s) = 1 /\ DOMAIN s = 1 .. 1 /\ s[1] = x
  OBVIOUS
<1>2. \A k : k \in 1 .. 1 <=> k = 1
  OBVIOUS
<1>3. Elements(s) = {x}
  BY <1>1, <1>2 DEF Elements
<1> QED BY <1>1, <1>3

\* An object joins the program once.
LEMMA JoinedFacts ==
  ASSUME NEW s \in Seq(Objects), NEW o \in Objects, NEW q
  PROVE  /\ Joined(q, o, s) \in Seq(Objects)
         /\ Elements(Joined(q, o, s)) = Elements(s) \cup (IF q \in seen THEN {} ELSE {o})
<1>1. /\ Append(s, o) \in Seq(Objects) /\ Len(s) \in Nat /\ DOMAIN s = 1 .. Len(s)
      /\ DOMAIN Append(s, o) = 1 .. (Len(s) + 1)
      /\ \A k \in 1 .. Len(s) : Append(s, o)[k] = s[k]
      /\ Append(s, o)[Len(s) + 1] = o
  OBVIOUS
<1>2. Elements(Append(s, o)) = Elements(s) \cup {o}
  <2> DEFINE r == Append(s, o)
  <2> HIDE DEF r
  <2>1. \A k \in 1 .. (Len(s) + 1) : k \in 1 .. Len(s) \/ k = Len(s) + 1
    BY <1>1
  <2>2. 1 .. Len(s) \subseteq 1 .. (Len(s) + 1) /\ Len(s) + 1 \in 1 .. (Len(s) + 1)
    BY <1>1
  <2>3. DOMAIN r = 1 .. (Len(s) + 1) /\ r[Len(s) + 1] = o /\ \A k \in 1 .. Len(s) : r[k] = s[k]
    BY <1>1 DEF r
  <2>4. Elements(r) = Elements(s) \cup {o}
    BY <1>1, <2>1, <2>2, <2>3 DEF Elements
  <2> QED BY <2>4 DEF r
<1> QED BY <1>1, <1>2 DEF Joined

-----------------------------------------------------------------------------
(* What every step keeps.                                                   *)

\* The first path that is there is one of those that were given.
LEMMA FirstOfFacts ==
  ASSUME NEW t, NEW s \in Seq(Paths)
  PROVE  FirstOf(t, s) \in Paths \cup {Nil}
<1>1. CASE \E k \in DOMAIN s : resolve(t, s[k]) # Nil
  <2> DEFINE C(k) == resolve(t, s[k]) # Nil /\ \A j \in 1..(k - 1) : resolve(t, s[j]) = Nil
             S == {k \in DOMAIN s : resolve(t, s[k]) # Nil}
  <2>1. DOMAIN s = 1 .. Len(s) /\ Len(s) \in Nat
    OBVIOUS
  <2>2. PICK k \in S : \A j \in S : k <= j
    <3>1. S \in SUBSET Nat /\ S # {}
      BY <1>1, <2>1
    <3> QED BY <3>1, LeastNumber
  <2>3. \A j \in 1 .. (k - 1) : j \in DOMAIN s /\ j \notin S
    BY <2>1, <2>2
  <2>4. k \in DOMAIN s /\ C(k)
    BY <2>3
  <2>5. (CHOOSE j \in DOMAIN s : C(j)) \in DOMAIN s
    <3> HIDE DEF C
    <3> QED BY <2>4
  <2>6. FirstOf(t, s) = s[CHOOSE j \in DOMAIN s : C(j)]
    BY <1>1 DEF FirstOf
  <2> HIDE DEF C
  <2> QED BY <2>5, <2>6
<1>2. CASE ~\E k \in DOMAIN s : resolve(t, s[k]) # Nil
  BY <1>2 DEF FirstOf
<1> QED BY <1>1, <1>2

\* Binding the names of an object changes them to its path and no other name.
LEMMA BoundFacts ==
  ASSUME NEW f \in [Names -> Paths \cup {Nil}], NEW p \in Paths, NEW asked \in SUBSET Names
  PROVE  /\ Bound(f, p, asked) \in [Names -> Paths \cup {Nil}]
         /\ \A n \in Names : Bound(f, p, asked)[n] = f[n] \/ Bound(f, p, asked)[n] = p
         /\ \A n \in asked : Bound(f, p, asked)[n] = p
BY DEF Bound, NamesOf

\* An object that is carried takes its names.
LEMMA NamesBound ==
  ASSUME SelectTypeOK, NEW p \in Paths, p \in files', NEW asked \in SUBSET Names,
         bindings' = Bound(bindings, p, asked), loaded' = Bound(loaded, p, asked)
  PROVE  /\ bindings' \in [Names -> Paths \cup {Nil}] /\ loaded' \in [Names -> Paths \cup {Nil}]
         /\ \A n \in Names : bindings'[n] = bindings[n] \/ bindings'[n] \in files'
<1>1. bindings \in [Names -> Paths \cup {Nil}] /\ loaded \in [Names -> Paths \cup {Nil}]
  BY DEF SelectTypeOK
<1>2. \A n \in Names : bindings'[n] = bindings[n] \/ bindings'[n] = p
  BY <1>1, BoundFacts
<1>3. bindings' \in [Names -> Paths \cup {Nil}] /\ loaded' \in [Names -> Paths \cup {Nil}]
  BY <1>1, BoundFacts
<1> QED BY <1>2, <1>3

\* What an object has not open any more stays carried, as files are only added and a
\* name is only bound to what is carried.
LEMMA ObjectStays ==
  ASSUME SelectTypeOK, NEW o \in Objects, ObjectInv(o), tree' = tree, files \subseteq files',
         \A n \in Names : bindings'[n] = bindings[n] \/ bindings'[n] \in files'
  PROVE  ObjectInv(o)'
<1>1. o.path \in Paths /\ tree[o.path].needs \subseteq Names
  BY DEF SelectTypeOK, Objects, Node
<1>2. \A n \in tree[o.path].needs \ o.left : bindings'[n] \in files'
  BY <1>1 DEF ObjectInv
<1> QED BY <1>2 DEF ObjectInv

\* A program that is complete stays so.
LEMMA CompleteStays ==
  ASSUME SelectTypeOK, NEW f \in Paths, Complete(f), tree' = tree, files \subseteq files',
         \A n \in Names : bindings'[n] = bindings[n] \/ bindings'[n] \in files'
  PROVE  Complete(f)'
<1>1. tree[f].needs \subseteq Names
  BY DEF SelectTypeOK, Node
<1>2. \A n \in tree[f].needs : bindings'[n] \in files'
  BY <1>1 DEF Complete
<1> QED BY <1>2 DEF Complete

\* A step that loses nothing that is carried or still to come keeps the invariant.
LEMMA Moves ==
  ASSUME IInv, SelectTypeOK', tree' = tree, phase' = "adding",
         files \subseteq files', seen' \subseteq files',
         \A p \in Paths \cup {Nil} : Taken(p) => Taken(p)',
         \A n \in Names : bindings'[n] = bindings[n] \/ bindings'[n] \in files',
         \A f \in files' \ files : CarriedInv(f)',
         \A o \in Elements(queue') : ObjectInv(o)',
         \A o \in Elements(queue) : (\E x \in Elements(queue') : x.path = o.path) \/ Complete(o.path)'
  PROVE  IInv'
<1>1. ASSUME NEW f \in files
      PROVE  CarriedInv(f)'
  <2>1. f \in Paths /\ tree[f].to \in Paths \cup {Nil} /\ SelectTypeOK /\ CarriedInv(f)
    BY DEF IInv, SelectTypeOK, Node
  <2>2. Taken(tree[f].to) => Taken(tree[f].to)'
    BY <2>1
  <2>3. Taken(FirstOf(tree, tree[f].command)) => Taken(FirstOf(tree, tree[f].command))'
    <3>1. tree[f].command \in Seq(Paths)
      BY <2>1 DEF SelectTypeOK, Node
    <3>2. FirstOf(tree, tree[f].command) \in Paths \cup {Nil}
      BY <3>1, FirstOfFacts
    <3>3. FirstOf(tree, tree[f].command)' = FirstOf(tree, tree[f].command)
      OBVIOUS
    <3> QED BY <3>2, <3>3 DEF Taken
  <2>4. Complete(f) => Complete(f)'
    BY <2>1, CompleteStays
  <2>5. (\E o \in Elements(queue) : o.path = f) => Complete(f)' \/ \E o \in Elements(queue') : o.path = f
    OBVIOUS
  <2>6. Leads(f) => Taken(tree[f].to)'
    BY <2>1, <2>2 DEF CarriedInv
  <2>7. /\ IsScript(f) /\ tree[f].to # Nil => Taken(tree[f].to)'
        /\ IsScript(f) /\ tree[f].to = Env => Taken(FirstOf(tree, tree[f].command))'
    BY <2>1, <2>2, <2>3 DEF CarriedInv
  <2>8. Elf(f) => Complete(f)' \/ \E o \in Elements(queue') : o.path = f
    BY <2>1, <2>4, <2>5 DEF CarriedInv
  <2>9. Elements(queue)' = Elements(queue') /\ Leads(f)' = Leads(f) /\ IsScript(f)' = IsScript(f) /\ Elf(f)' = Elf(f)
    BY DEF Elements, Leads, Mask, IsScript, Elf
  <2>10. tree[f]' = tree[f] /\ FirstOf(tree, tree[f].command)' = FirstOf(tree, tree[f].command)
    OBVIOUS
  <2> QED BY <2>6, <2>7, <2>8, <2>9, <2>10 DEF CarriedInv
<1>2. (\A f \in files : CarriedInv(f))'
  BY <1>1
<1>3. (\A o \in Elements(queue) : ObjectInv(o))'
  BY DEF Elements
<1> QED BY <1>2, <1>3 DEF IInv

\* A refusal keeps it.
LEMMA Refused ==
  ASSUME IInv, tree' = tree, phase' \in {"refused", "composed", "adding"}, work' = work, files' = files, bindings' = bindings,
         queue' = queue, loaded' = loaded, seen' = seen, unrunnable' = unrunnable,
         phase' = "composed" => work = {} /\ queue = <<>> /\ Unlicensed = {}
  PROVE  IInv'
<1>1. SelectTypeOK'
  BY DEF IInv, SelectTypeOK
<1>2. \A f : CarriedInv(f)' <=> CarriedInv(f)
  BY DEF CarriedInv, Complete, Taken, Elements, Leads, Mask, IsScript, Elf
<1>3. \A o : ObjectInv(o)' <=> ObjectInv(o)
  BY DEF ObjectInv
<1>4. Elements(queue)' = Elements(queue) /\ Unlicensed' = Unlicensed
  BY DEF Elements, Unlicensed, contributors
<1> QED BY <1>1, <1>2, <1>3, <1>4 DEF IInv

\* An object that has just joined the program has everything open.
LEMMA TracedFacts ==
  ASSUME SelectTypeOK, NEW q \in Paths, NEW inherited \in BOOLEAN, NEW scripts \in SUBSET Paths
  PROVE  /\ Traced(q, inherited, scripts) \in Objects /\ Traced(q, inherited, scripts).path = q
         /\ \A x : x = Traced(q, inherited, scripts) /\ q \in files' /\ tree' = tree => ObjectInv(x)'
<1>1. tree[q].needs \in SUBSET Names
  BY DEF SelectTypeOK, Node
<1>2. ASSUME NEW x, x = Traced(q, inherited, scripts), q \in files', tree' = tree
      PROVE  ObjectInv(x)'
  <2>1. x.path = q /\ x.interp = (tree[q].to # Nil) /\ x.left = tree[q].needs
    BY <1>2 DEF Traced
  <2> QED BY <1>2, <2>1 DEF ObjectInv
<1>3. Traced(q, inherited, scripts) \in Objects /\ Traced(q, inherited, scripts).path = q
  BY <1>1 DEF Traced, Objects
<1> QED BY <1>2, <1>3

\* A program or a library takes on what it loads.
LEMMA Loads ==
  ASSUME IInv, NEW p \in Paths, NEW q, q = resolve(tree, p), q # Nil,
         tree[q].type = "file", tree[q].body = "elf",
         NEW inherited \in BOOLEAN, NEW scripts \in SUBSET Paths, NEW rest \in Seq(Objects),
         tree' = tree, phase' = "adding", unrunnable' = unrunnable, work' = work,
         files' = files \cup links(tree, p), seen' = seen \cup {q},
         queue' = Joined(q, Traced(q, inherited, scripts), rest),
         \A n \in Names : bindings'[n] = bindings[n] \/ bindings'[n] \in files',
         bindings' \in [Names -> Paths \cup {Nil}], loaded' \in [Names -> Paths \cup {Nil}],
         \A o \in Elements(rest) : ObjectInv(o)',
         \A o \in Elements(queue) : \E x \in Elements(rest) : x.path = o.path
  PROVE  IInv'
<1> PICK x : x = Traced(q, inherited, scripts)
  OBVIOUS
<1> DEFINE L == links(tree, p)
<1>1. SelectTypeOK /\ tree \in [Paths -> Node] /\ files \subseteq Paths /\ seen \subseteq files
  BY DEF IInv, SelectTypeOK
<1>2. /\ q \in Paths /\ q \in L /\ p \in L /\ L \subseteq Paths
      /\ \A l \in L : tree[l].type = "link" => tree[l].to \in L
      /\ \A l \in L : tree[l].type # "link" => l = q
  BY <1>1, LinksFacts
<1>3. x \in Objects /\ x.path = q /\ ObjectInv(x)'
  BY <1>1, <1>2, TracedFacts
<1> HIDE DEF L
<1>4. files' = files \cup L /\ queue' = Joined(q, x, rest)
  BY DEF L
<1>5. queue' \in Seq(Objects) /\ Elements(queue') = Elements(rest) \cup (IF q \in seen THEN {} ELSE {x})
  BY <1>3, <1>4, JoinedFacts
<1>6. SelectTypeOK'
  BY <1>1, <1>2, <1>4, <1>5 DEF SelectTypeOK
<1>7. ASSUME NEW l \in files' \ files
      PROVE  CarriedInv(l)'
  <2>1. l \in L /\ l \notin seen
    BY <1>1, <1>4
  <2>2. CASE tree[l].type = "link"
    <3>1. tree[l].to \in files'
      BY <1>2, <1>4, <2>1, <2>2
    <3> QED BY <2>2, <3>1 DEF CarriedInv, Taken, Leads, IsScript, Elf
  <2>3. CASE tree[l].type # "link"
    <3>1. l = q /\ x \in Elements(queue)'
      BY <1>2, <1>5, <2>1, <2>3 DEF Elements
    <3> QED BY <1>2, <1>3, <2>3, <3>1 DEF CarriedInv, Leads, Mask, IsScript, Elf
  <2> QED BY <2>2, <2>3
<1>8. \A o \in Elements(queue') : ObjectInv(o)'
  BY <1>3, <1>5
<1>9. \A r \in Paths \cup {Nil} : Taken(r) => Taken(r)'
  BY <1>4 DEF Taken
<1>10. \A o \in Elements(queue) : \E y \in Elements(queue') : y.path = o.path
  BY <1>5
<1>11. seen' \subseteq files' /\ files \subseteq files'
  BY <1>1, <1>2, <1>4
<1> QED BY <1>6, <1>7, <1>8, <1>9, <1>10, <1>11, Moves

-----------------------------------------------------------------------------
(* The steps.                                                               *)

LEMMA DeclareRootsStep ==
  ASSUME IInv, DeclareRoots
  PROVE  IInv'
<1>1. /\ SelectTypeOK /\ files = {} /\ queue = <<>>
      /\ tree' = tree /\ files' = files /\ bindings' = bindings /\ queue' = queue
      /\ loaded' = loaded /\ seen' = seen /\ phase' \in {"refused", "adding"}
  BY DEF IInv, DeclareRoots
<1>2. \A rule \in Rules : rule.paths \subseteq Paths /\ rule.executable \in BOOLEAN
  BY RuntimeAssumption
<1>3. \A rule \in Rules : Matched(rule) \subseteq Paths
  BY <1>2 DEF Matched
<1>4. \A rule \in Rules : Left(rule) \subseteq Paths /\ RootsOf(rule) \subseteq Paths
  BY <1>3 DEF Left, RootsOf
<1>5. unrunnable' \subseteq Paths
  BY <1>4 DEF DeclareRoots
<1>6. \A p \in Paths, e \in BOOLEAN : Item(p, e, {}) \in Items
  BY DEF Item, Items
<1>7. \A p \in DOMAIN Contracts : Item(p, FALSE, {}) \in Items
  BY <1>6, RuntimeAssumption
<1>8. \A rule \in Rules : \A p \in RootsOf(rule) : Item(p, rule.executable, {}) \in Items
  BY <1>2, <1>4, <1>6
<1>9. work' \subseteq Items
  <2> SUFFICES ASSUME NEW i \in work'
               PROVE  i \in Items
    OBVIOUS
  <2>1. \/ \E p \in DOMAIN Contracts : i = Item(p, FALSE, {})
        \/ \E rule \in Rules : \E p \in RootsOf(rule) : i = Item(p, rule.executable, {})
    BY DEF DeclareRoots
  <2> QED BY <1>7, <1>8, <2>1
<1>10. SelectTypeOK'
  BY <1>1, <1>5, <1>9 DEF SelectTypeOK
<1>11. Elements(queue)' = {}
  BY <1>1 DEF Elements
<1> QED BY <1>1, <1>10, <1>11 DEF IInv

\* What a path takes on with it are paths, and among them what it refers to.
LEMMA BeyondFacts ==
  ASSUME SelectTypeOK, NEW i \in Items, Addable(i)
  PROVE  /\ Beyond(i) \subseteq Items
         /\ Leads(i.path) => \E j \in Beyond(i) : j.path = tree[i.path].to
         /\ IsScript(i.path) => \A p \in Runners(tree[i.path]) : \E j \in Beyond(i) : j.path = p
<1> DEFINE n == tree[i.path]
<1>1. /\ tree \in [Paths -> Node] /\ n \in Node /\ n.to \in Paths \cup {Nil} /\ n.command \in Seq(Paths)
      /\ i.path \in Paths /\ i.executable \in BOOLEAN /\ i.scripts \subseteq Paths
  BY DEF SelectTypeOK, Items, Node
<1>2. \A p \in Paths, e \in BOOLEAN, s \in SUBSET Paths : Item(p, e, s) \in Items /\ Item(p, e, s).path = p
  BY DEF Item, Items
<1>3. CASE i.path \in DOMAIN Contracts
  <2>1. ~Leads(i.path) /\ ~IsScript(i.path)
    BY <1>3 DEF Addable, Carried, Leads, IsScript
  <2>2. Beyond(i) = {Item(p, FALSE, {}) : p \in Contracts[i.path]}
    BY <1>3, <2>1 DEF Beyond, IsScript
  <2>3. Contracts[i.path] \subseteq Paths
    BY <1>3, RuntimeAssumption
  <2>4. \A p \in Paths : Item(p, FALSE, {}) \in Items
    BY <1>2
  <2>5. Beyond(i) \subseteq Items
    BY <2>2, <2>3, <2>4
  <2> QED BY <2>1, <2>5
<1>4. CASE Leads(i.path)
  <2>1. Beyond(i) = {Item(n.to, i.executable, i.scripts)} /\ ~IsScript(i.path) /\ n.type = "link"
    BY <1>4 DEF Beyond, Leads, IsScript
  <2>2. n.to \in Paths
    BY <1>1, <1>4, <2>1, LinkNames DEF Addable, Carried
  <2> QED BY <1>1, <1>2, <2>1, <2>2
<1>5. CASE i.path \notin DOMAIN Contracts /\ IsScript(i.path)
  <2> DEFINE taken == {Item(p, TRUE, i.scripts \cup {i.path}) : p \in Runners(n)}
  <2>1. Beyond(i) = taken /\ ~Leads(i.path)
    BY <1>5 DEF Beyond, Leads, IsScript
  <2>2. n.to \in Paths /\ (n.to = Env => FirstOf(tree, n.command) \in Paths)
    <3>1. n.to # Nil /\ (n.to = Env => FirstOf(tree, n.command) # Nil)
      BY <1>5 DEF Addable, IsScript
    <3>2. FirstOf(tree, n.command) \in Paths \cup {Nil}
      BY <1>1, FirstOfFacts
    <3> QED BY <1>1, <3>1, <3>2
  <2>3. Runners(n) \subseteq Paths
    BY <2>2 DEF Runners
  <2>4. TRUE \in BOOLEAN /\ i.scripts \cup {i.path} \in SUBSET Paths
    BY <1>1
  <2> PICK s : s = i.scripts \cup {i.path}
    OBVIOUS
  <2>5. \A p \in Runners(n) : Item(p, TRUE, s) \in Items /\ Item(p, TRUE, s).path = p
    BY <1>2, <2>3, <2>4
  <2>6. taken \subseteq Items /\ \A p \in Runners(n) : \E j \in taken : j.path = p
    BY <2>5
  <2> QED BY <2>1, <2>6
<1>6. CASE i.path \notin DOMAIN Contracts /\ ~Leads(i.path) /\ ~IsScript(i.path)
  <2>1. Beyond(i) = {}
    BY <1>6 DEF Beyond, IsScript
  <2> QED BY <1>6, <2>1
<1> QED BY <1>3, <1>4, <1>5, <1>6

LEMMA AddStep ==
  ASSUME IInv, NEW i \in work, Add(i)
  PROVE  IInv'
<1>1. /\ SelectTypeOK /\ seen \subseteq files /\ i \in Items /\ Addable(i)
      /\ phase' = "adding" /\ queue = <<>> /\ tree' = tree /\ unrunnable' = unrunnable
      /\ files' = files \cup {i.path} /\ work' = (work \ {i}) \cup Beyond(i)
  BY DEF IInv, SelectTypeOK, Add, Adding
<1>2. i.path \in Paths /\ i.scripts \subseteq Paths /\ work \subseteq Items /\ files \subseteq Paths
  BY <1>1 DEF SelectTypeOK, Items
<1>3. /\ Beyond(i) \subseteq Items
      /\ Leads(i.path) => \E j \in Beyond(i) : j.path = tree[i.path].to
      /\ IsScript(i.path) => \A p \in Runners(tree[i.path]) : \E j \in Beyond(i) : j.path = p
  BY <1>1, BeyondFacts
<1>4. work' \subseteq Items /\ files' \subseteq Paths
  BY <1>1, <1>2, <1>3
<1>5. \A p \in Paths \cup {Nil} : Taken(p) => Taken(p)'
  BY <1>1 DEF Taken
<1>6. Elements(queue) = {}
  BY <1>1 DEF Elements
<1>7. /\ queue' \in Seq(Objects) /\ loaded' \in [Names -> Paths \cup {Nil}] /\ seen' \subseteq files'
      /\ bindings' \in [Names -> Paths \cup {Nil}]
      /\ \A m \in Names : bindings'[m] = bindings[m] \/ bindings'[m] \in files'
      /\ \A o \in Elements(queue') : ObjectInv(o)'
      /\ Elf(i.path) => \E o \in Elements(queue') : o.path = i.path
  <2>1. CASE Elf(i.path)
    <3> PICK x : x = Traced(i.path, FALSE, i.scripts)
      OBVIOUS
    <3>1. /\ queue' = <<x>> /\ seen' = {i.path}
          /\ loaded' = Bound(Nothing, i.path, {}) /\ bindings' = Bound(bindings, i.path, {})
      BY <2>1 DEF Add
    <3>2. x \in Objects /\ x.path = i.path /\ ObjectInv(x)'
      BY <1>1, <1>2, TracedFacts
    <3>3. queue' \in Seq(Objects) /\ Elements(queue') = {x}
      BY <3>1, <3>2, SingleFacts
    <3>4. Nothing \in [Names -> Paths \cup {Nil}] /\ bindings \in [Names -> Paths \cup {Nil}]
      BY <1>1 DEF Nothing, SelectTypeOK
    <3>5. /\ loaded' \in [Names -> Paths \cup {Nil}] /\ bindings' \in [Names -> Paths \cup {Nil}]
          /\ \A m \in Names : bindings'[m] = bindings[m] \/ bindings'[m] = i.path
      BY <1>2, <3>1, <3>4, BoundFacts
    <3> QED BY <1>1, <3>1, <3>2, <3>3, <3>5
  <2>2. CASE ~Elf(i.path)
    <3>1. queue' = queue /\ loaded' = loaded /\ seen' = seen /\ bindings' = bindings
      BY <2>2 DEF Add
    <3> QED BY <1>1, <1>6, <2>2, <3>1 DEF SelectTypeOK
  <2> QED BY <2>1, <2>2
<1>8. SelectTypeOK'
  BY <1>1, <1>4, <1>7 DEF SelectTypeOK
<1>9. ASSUME NEW f \in files' \ files
      PROVE  CarriedInv(f)'
  <2>1. f = i.path
    BY <1>1
  <2>2. Elements(queue)' = Elements(queue')
    BY DEF Elements
  <2>3. \A j \in Beyond(i) : j \in work'
    BY <1>1
  <2>4. Leads(f) => Taken(tree[f].to)'
    BY <1>1, <1>3, <2>1, <2>3 DEF Taken
  <2>5. \A p \in Runners(tree[f]) : IsScript(f) => \E j \in work' : j.path = p
    BY <1>3, <2>1, <2>3
  <2>6. IsScript(f) => Taken(tree[f].to)' /\ (tree[f].to = Env => Taken(FirstOf(tree, tree[f].command))')
    BY <1>1, <2>5 DEF Runners, Taken
  <2>7. Elf(f) => \E o \in Elements(queue') : o.path = f
    BY <1>7, <2>1
  <2>8. /\ Leads(f)' = Leads(f) /\ IsScript(f)' = IsScript(f) /\ Elf(f)' = Elf(f)
        /\ tree[f]' = tree[f] /\ FirstOf(tree, tree[f].command)' = FirstOf(tree, tree[f].command)
    BY <1>1 DEF Leads, Mask, IsScript, Elf
  <2> QED BY <2>2, <2>4, <2>6, <2>7, <2>8 DEF CarriedInv
<1> QED BY <1>1, <1>5, <1>6, <1>7, <1>8, <1>9, Moves

LEMMA ObjectLoadedStep ==
  ASSUME IInv, ObjectLoaded
  PROVE  IInv'
<1> PICK h : h = Head(queue)
  OBVIOUS
<1>1. /\ SelectTypeOK /\ seen \subseteq files /\ queue \in Seq(Objects) /\ queue # <<>>
      /\ ~h.interp /\ h.left = {} /\ queue' = Tail(queue) /\ phase' = "adding"
      /\ tree' = tree /\ unrunnable' = unrunnable /\ work' = work /\ files' = files /\ bindings' = bindings
      /\ loaded' = loaded /\ seen' = seen
  BY DEF IInv, SelectTypeOK, ObjectLoaded
<1>2. h \in Objects /\ Tail(queue) \in Seq(Objects) /\ Elements(queue) = {h} \cup Elements(Tail(queue))
  <2>1. h \in Objects
    BY <1>1
  <2> QED BY <1>1, <2>1, QueueFacts
<1>3. ObjectInv(h) /\ h.path \in Paths /\ Complete(h.path)
  <2>1. ObjectInv(h) /\ h.path \in Paths
    BY <1>2 DEF IInv, Objects
  <2> QED BY <1>1, <2>1 DEF ObjectInv, Complete
<1>4. Complete(h.path)'
  BY <1>1, <1>3 DEF Complete
<1>5. Elements(Tail(queue)) \subseteq Objects
  BY <1>2 DEF Elements
<1>6. \A o \in Elements(queue') : ObjectInv(o)'
  BY <1>1, <1>2, <1>5, ObjectStays DEF IInv
<1>7. SelectTypeOK'
  BY <1>1, <1>2 DEF SelectTypeOK
<1>8. \A o \in Elements(queue) : (\E x \in Elements(queue') : x.path = o.path) \/ Complete(o.path)'
  BY <1>1, <1>2, <1>4
<1>9. \A p \in Paths \cup {Nil} : Taken(p) => Taken(p)'
  BY <1>1 DEF Taken
<1> QED BY <1>1, <1>6, <1>7, <1>8, <1>9, Moves

\* The interpreter of an object is an ELF file of the root.
LEMMA InterpreterFacts ==
  ASSUME NEW object, Interpreter(object)
  PROVE  LET q == resolve(tree, tree[object.path].to)
         IN q # Nil /\ tree[q].type = "file" /\ tree[q].body = "elf"
BY DEF Interpreter, Elf

LEMMA LoadInterpreterStep ==
  ASSUME IInv, LoadInterpreter
  PROVE  IInv'
<1> PICK h : h = Head(queue)
  OBVIOUS
<1> PICK q : q = resolve(tree, tree[h.path].to)
  OBVIOUS
<1>1. CASE ~Interpreter(h)
  <2>1. Refuse
    BY <1>1 DEF LoadInterpreter
  <2> QED BY <2>1, Refused DEF Refuse
<1>2. CASE Interpreter(h)
  <2> PICK g : g = [h EXCEPT !.interp = FALSE]
    OBVIOUS
  <2> PICK rest : rest = <<g>> \o Tail(queue)
    OBVIOUS
  <2> PICK p : p = tree[h.path].to
    OBVIOUS
  <2>1. /\ SelectTypeOK /\ queue \in Seq(Objects) /\ queue # <<>> /\ h.interp /\ phase' = "adding"
        /\ tree' = tree /\ unrunnable' = unrunnable /\ work' = work
        /\ bindings' = Bound(bindings, q, {}) /\ loaded' = Bound(loaded, q, {})
        /\ files' = files \cup links(tree, p) /\ seen' = seen \cup {q}
        /\ queue' = Joined(q, Traced(q, FALSE, h.scripts \cup {h.path}), rest)
    BY <1>2 DEF IInv, SelectTypeOK, LoadInterpreter
  <2>2. q # Nil /\ tree[q].type = "file" /\ tree[q].body = "elf"
    BY <1>2, InterpreterFacts
  <2>3. h \in Objects
    <3>1. queue \in Seq(Objects) /\ queue # <<>>
      BY <2>1
    <3>2. Head(queue) \in Objects
      BY <3>1
    <3> QED BY <3>2
  <2>4. /\ g \in Objects /\ g.path = h.path /\ g.interp = FALSE /\ g.left = h.left
        /\ h.path \in Paths /\ h.scripts \subseteq Paths
    BY <2>3 DEF Objects
  <2>5. /\ Elements(queue) = {h} \cup Elements(Tail(queue)) /\ Tail(queue) \in Seq(Objects)
        /\ rest \in Seq(Objects) /\ Elements(rest) = {g} \cup Elements(Tail(queue))
    BY <2>1, <2>4, QueueFacts
  <2>6. ObjectInv(h)
    BY <2>5 DEF IInv
  <2>7. p \in Paths
    BY <2>1, <2>4, <2>6 DEF ObjectInv, SelectTypeOK, Node
  <2>8. p \in files' /\ q \in Paths /\ q \in files'
    BY <2>1, <2>2, <2>7, LinksFacts DEF SelectTypeOK
  <2>14. /\ bindings' \in [Names -> Paths \cup {Nil}] /\ loaded' \in [Names -> Paths \cup {Nil}]
         /\ \A m \in Names : bindings'[m] = bindings[m] \/ bindings'[m] \in files'
    <3>1. bindings' = Bound(bindings, q, {}) /\ loaded' = Bound(loaded, q, {}) /\ SelectTypeOK
      BY <2>1
    <3>2. q \in Paths /\ q \in files' /\ {} \in SUBSET Names
      BY <2>8
    <3> QED BY <3>1, <3>2, NamesBound
  <2>17. SelectTypeOK /\ tree' = tree /\ files \subseteq files'
    BY <2>1
  <2>9. ObjectInv(h)'
    BY <2>3, <2>6, <2>14, <2>17, ObjectStays
  <2>10. ObjectInv(g)'
    <3>1. h.path \in files' /\ \A n \in tree[h.path].needs \ h.left : bindings'[n] \in files'
      BY <2>1, <2>9 DEF ObjectInv
    <3> QED BY <2>1, <2>4, <2>8, <3>1 DEF ObjectInv
  <2>11. Elements(Tail(queue)) \subseteq Objects
    BY <2>5 DEF Elements
  <2>12. \A o \in Elements(rest) : ObjectInv(o)'
    <3> SUFFICES ASSUME NEW o \in Elements(Tail(queue))
                 PROVE  ObjectInv(o)'
      BY <2>5, <2>10
    <3>1. o \in Objects /\ ObjectInv(o)
      BY <2>5, <2>11 DEF IInv
    <3> QED BY <2>14, <2>17, <3>1, ObjectStays
  <2>13. \A o \in Elements(queue) : \E x \in Elements(rest) : x.path = o.path
    BY <2>4, <2>5
  <2>15. FALSE \in BOOLEAN /\ h.scripts \cup {h.path} \in SUBSET Paths
    BY <2>4
  <2>16. q = resolve(tree, p)
    OBVIOUS
  <2> QED BY <2>1, <2>2, <2>5, <2>7, <2>12, <2>13, <2>14, <2>15, <2>16, Loads
<1> QED BY <1>1, <1>2

\* A name is loaded from a path: one of its two places, or what it was loaded from before.
LEMMA FoundFacts ==
  ASSUME SelectTypeOK, NEW object, NEW n \in Names, Found(object, n) # Nil
  PROVE  Found(object, n) \in Paths
<1>1. loaded[n] \in Paths \cup {Nil} /\ LibPath[n] \in Paths /\ PrivatePath[n] \in Paths
  BY RuntimeAssumption DEF SelectTypeOK
<1> PICK s : s = Candidates(object, n)
  OBVIOUS
<1>2. s \in Seq(Paths)
  BY <1>1 DEF Candidates
<1>3. FirstOf(tree, s) \in Paths \cup {Nil}
  BY <1>2, FirstOfFacts
<1>4. Found(object, n) \in {loaded[n], Nil, FirstOf(tree, s)}
  BY DEF Found
<1> QED BY <1>1, <1>3, <1>4

LEMMA LoadStep ==
  ASSUME IInv, NEW n \in Names, Load(n)
  PROVE  IInv'
<1> PICK h : h = Head(queue)
  OBVIOUS
<1> PICK p : p = Found(h, n)
  OBVIOUS
<1> PICK q : q = resolve(tree, p)
  OBVIOUS
<1> PICK g : g = [h EXCEPT !.left = @ \ {n}]
  OBVIOUS
<1> PICK rest : rest = <<g>> \o Tail(queue)
  OBVIOUS
<1> PICK inherited : inherited = (h.inherited \/ tree[h.path].search = "rpath")
  OBVIOUS
<1>1. /\ SelectTypeOK /\ queue \in Seq(Objects) /\ queue # <<>> /\ ~h.interp /\ phase' = "adding"
      /\ p # Nil /\ Loadable(p, n)
      /\ tree' = tree /\ unrunnable' = unrunnable /\ work' = work
      /\ bindings' = Bound(bindings, q, {n}) /\ loaded' = Bound(loaded, q, {n})
      /\ files' = files \cup links(tree, p) /\ seen' = seen \cup {q}
      /\ queue' = Joined(q, Traced(q, inherited, {}), rest)
  BY DEF IInv, SelectTypeOK, Load, Asked
<1>2. q # Nil /\ tree[q].type = "file" /\ tree[q].body = "elf"
  BY <1>1 DEF Loadable, Elf
<1>3. p \in Paths
  BY <1>1, FoundFacts
<1>4. q \in Paths /\ q \in files'
  BY <1>1, <1>2, <1>3, LinksFacts DEF SelectTypeOK
<1>5. h \in Objects
  BY <1>1
<1>6. /\ g \in Objects /\ g.path = h.path /\ g.interp = h.interp /\ g.left = h.left \ {n}
      /\ h.path \in Paths /\ inherited \in BOOLEAN /\ {} \in SUBSET Paths
  BY <1>5 DEF Objects
<1>7. /\ Elements(queue) = {h} \cup Elements(Tail(queue)) /\ Tail(queue) \in Seq(Objects)
      /\ rest \in Seq(Objects) /\ Elements(rest) = {g} \cup Elements(Tail(queue))
  BY <1>1, <1>6, QueueFacts
<1>8. /\ bindings' \in [Names -> Paths \cup {Nil}] /\ loaded' \in [Names -> Paths \cup {Nil}]
      /\ bindings'[n] = q /\ \A m \in Names : bindings'[m] = bindings[m] \/ bindings'[m] \in files'
  <2>1. bindings \in [Names -> Paths \cup {Nil}] /\ loaded \in [Names -> Paths \cup {Nil}]
    BY <1>1 DEF SelectTypeOK
  <2>2. /\ bindings' \in [Names -> Paths \cup {Nil}] /\ loaded' \in [Names -> Paths \cup {Nil}]
        /\ bindings'[n] = q /\ \A m \in Names : bindings'[m] = bindings[m] \/ bindings'[m] = q
    <3>1. \A f \in [Names -> Paths \cup {Nil}] :
            /\ Bound(f, q, {n}) \in [Names -> Paths \cup {Nil}] /\ Bound(f, q, {n})[n] = q
            /\ \A m \in Names : Bound(f, q, {n})[m] = f[m] \/ Bound(f, q, {n})[m] = q
      <4>1. {n} \in SUBSET Names /\ n \in {n}
        OBVIOUS
      <4> QED BY <1>4, <4>1, BoundFacts
    <3> QED BY <1>1, <2>1, <3>1
  <2> QED BY <1>4, <2>2
<1>9. ObjectInv(h) /\ ObjectInv(h)'
  <2>1. ObjectInv(h)
    BY <1>7 DEF IInv
  <2>2. files \subseteq files'
    BY <1>1
  <2> QED BY <1>1, <1>5, <1>8, <2>1, <2>2, ObjectStays
<1>10. ObjectInv(g)'
  <2>1. /\ h.path \in files' /\ \A m \in tree[h.path].needs \ h.left : bindings'[m] \in files'
        /\ tree[h.path].to = Nil \/ tree[h.path].to \in files'
    BY <1>1, <1>9 DEF ObjectInv
  <2>2. \A m \in tree[h.path].needs \ g.left : bindings'[m] \in files'
    BY <1>4, <1>6, <1>8, <2>1
  <2> QED BY <1>1, <1>6, <2>1, <2>2 DEF ObjectInv
<1>11. \A o \in Elements(rest) : ObjectInv(o)'
  <2> SUFFICES ASSUME NEW o \in Elements(Tail(queue))
               PROVE  ObjectInv(o)'
    BY <1>7, <1>10
  <2>1. o \in Objects /\ ObjectInv(o)
    BY <1>7 DEF IInv, Elements
  <2>2. files \subseteq files'
    BY <1>1
  <2>3. \A m \in Names : bindings'[m] = bindings[m] \/ bindings'[m] \in files'
    BY <1>8
  <2>4. SelectTypeOK /\ tree' = tree
    BY <1>1
  <2> QED BY <2>1, <2>2, <2>3, <2>4, ObjectStays
<1>12. \A o \in Elements(queue) : \E x \in Elements(rest) : x.path = o.path
  BY <1>6, <1>7
<1>13. q = resolve(tree, p)
  OBVIOUS
<1>14. /\ bindings' \in [Names -> Paths \cup {Nil}] /\ loaded' \in [Names -> Paths \cup {Nil}]
       /\ \A m \in Names : bindings'[m] = bindings[m] \/ bindings'[m] \in files'
  BY <1>8
<1>15. /\ tree' = tree /\ phase' = "adding" /\ unrunnable' = unrunnable /\ work' = work
       /\ files' = files \cup links(tree, p) /\ seen' = seen \cup {q}
       /\ queue' = Joined(q, Traced(q, inherited, {}), rest)
  BY <1>1
<1>16. inherited \in BOOLEAN /\ {} \in SUBSET Paths /\ rest \in Seq(Objects)
  BY <1>6, <1>7
<1> QED BY <1>2, <1>3, <1>11, <1>12, <1>13, <1>14, <1>15, <1>16, Loads, ZenonT(60)

LEMMA LicenseStep ==
  ASSUME IInv, License
  PROVE  IInv'
<1>1. /\ SelectTypeOK /\ work = {} /\ tree' = tree /\ phase' = "adding" /\ unrunnable' = unrunnable
      /\ files' = files /\ bindings' = bindings /\ queue' = queue /\ loaded' = loaded /\ seen' = seen
      /\ seen \subseteq files /\ queue = <<>>
  BY DEF IInv, License, Idle
<1>2. work' \subseteq Items
  <2>1. Unlicensed \subseteq Packages
    BY <1>1 DEF Unlicensed, contributors, SelectTypeOK, Node
  <2>2. \A c \in Packages : Item(Copyright[c], FALSE, {}) \in Items
    BY RuntimeAssumption DEF Item, Items
  <2>3. work' = {Item(Copyright[c], FALSE, {}) : c \in Unlicensed}
    BY DEF License
  <2> QED BY <2>1, <2>2, <2>3
<1>3. SelectTypeOK'
  BY <1>1, <1>2 DEF SelectTypeOK
<1>4. \A p \in Paths \cup {Nil} : Taken(p) => Taken(p)'
  BY <1>1 DEF Taken
<1>5. Elements(queue) = {} /\ Elements(queue') = {}
  BY <1>1 DEF Elements
<1> QED BY <1>1, <1>3, <1>4, <1>5, Moves

-----------------------------------------------------------------------------
(* The theorems.                                                            *)

LEMMA SelectInitOK == SelectInit => IInv
<1> SUFFICES ASSUME SelectInit
             PROVE  IInv
  OBVIOUS
<1>1. Nothing \in [Names -> Paths \cup {Nil}] /\ tree \in [Paths -> Node] /\ <<>> \in Seq(Objects)
  BY RuntimeAssumption DEF Nothing, SelectInit
<1>2. SelectTypeOK
  BY <1>1 DEF SelectInit, SelectTypeOK
<1>3. Elements(queue) = {}
  BY DEF SelectInit, Elements
<1> QED BY <1>2, <1>3 DEF SelectInit, IInv

LEMMA SelectNextOK == IInv /\ [SelectNext]_selectVars => IInv'
<1> SUFFICES ASSUME IInv, [SelectNext]_selectVars
             PROVE  IInv'
  OBVIOUS
<1>1. CASE DeclareRoots
  BY <1>1, DeclareRootsStep
<1>2. ASSUME NEW i \in work, Add(i)
      PROVE  IInv'
  BY <1>2, AddStep
<1>3. ASSUME Refuse
      PROVE  IInv'
  BY <1>3, Refused DEF Refuse
<1>4. ASSUME NEW n \in Names, Load(n)
      PROVE  IInv'
  BY <1>4, LoadStep
<1>5. CASE LoadInterpreter
  BY <1>5, LoadInterpreterStep
<1>6. CASE ObjectLoaded
  BY <1>6, ObjectLoadedStep
<1>7. CASE License
  BY <1>7, LicenseStep
<1>8. CASE compose
  BY <1>8, Refused DEF compose, Idle
<1>9. CASE UNCHANGED selectVars
  <2>1. phase \in {"refused", "composed", "adding"} => IInv'
    BY <1>9, Refused DEF selectVars, IInv
  <2>2. phase = "roots" => IInv'
    BY <1>9 DEF selectVars, IInv, SelectTypeOK, Elements
  <2> QED BY <2>1, <2>2 DEF IInv, SelectTypeOK
<1>10. CASE SelectEnded
  BY <1>9, <1>10 DEF SelectEnded
<1>11. (\E i \in work : RefuseAdd(i)) \/ (\E n \in Names : RefuseLoad(n)) => Refuse
  BY DEF RefuseAdd, RefuseLoad
<1> QED BY <1>1, <1>2, <1>3, <1>4, <1>5, <1>6, <1>7, <1>8, <1>9, <1>10, <1>11 DEF SelectNext, Step

\* The selection of select.ts stays within the installed root: what it carries, has still
\* to add and is tracing are paths of the root, and a name is bound to one of them.
THEOREM SelectTypeCorrect == SelectSpec => []SelectTypeOK
<1>1. IInv => SelectTypeOK
  BY DEF IInv
<1> QED BY <1>1, SelectInitOK, SelectNextOK, PTL DEF SelectSpec

\* Whatever the installed root and the declarations are, the root that compose.ts lets
\* through is closed: what a carried file refers to is carried, through links, scripts that
\* interpret one another, interpreters, libraries by the one file of their name, and licences.
THEOREM ClosedCorrect == SelectSpec => []Closed
<1>1. IInv => Closed
  <2> SUFFICES ASSUME IInv, phase = "composed", NEW f \in files
               PROVE  /\ Leads(f) => tree[f].to \in files
                      /\ tree[f].type = "file" /\ tree[f].body \in {"elf", "script"} /\ tree[f].to # Nil => tree[f].to \in files
                      /\ tree[f].type = "file" /\ tree[f].body = "script" /\ tree[f].to = Env =>
                           FirstOf(tree, tree[f].command) \in files
                      /\ Elf(f) => \A n \in tree[f].needs : bindings[n] \in files
                      /\ tree[f].owner # Nil /\ tree[f].type # "directory" => Copyright[tree[f].owner] \in files
    BY DEF Closed
  <2>1. CarriedInv(f) /\ work = {} /\ Elements(queue) = {} /\ Unlicensed = {}
    BY DEF IInv, Elements
  <2>2. \A p : Taken(p) => p \in files
    BY <2>1 DEF Taken
  <2>3. Leads(f) => tree[f].to \in files
    BY <2>1, <2>2 DEF CarriedInv
  <2>4. tree[f].type = "file" /\ tree[f].body = "script" /\ tree[f].to # Nil => tree[f].to \in files
    BY <2>1, <2>2 DEF CarriedInv, IsScript
  <2>7. tree[f].type = "file" /\ tree[f].body = "script" /\ tree[f].to = Env =>
          FirstOf(tree, tree[f].command) \in files
    BY <2>1, <2>2 DEF CarriedInv, IsScript
  <2>5. Elf(f) =>
          (tree[f].to # Nil => tree[f].to \in files) /\ \A n \in tree[f].needs : bindings[n] \in files
    BY <2>1 DEF CarriedInv, Complete
  <2>6. tree[f].owner # Nil /\ tree[f].type # "directory" => Copyright[tree[f].owner] \in files
    <3>1. tree[f].owner # Nil /\ tree[f].type # "directory" => tree[f].owner \in contributors
      BY DEF contributors
    <3> QED BY <2>1, <3>1 DEF Unlicensed
  <2> QED BY <2>3, <2>4, <2>5, <2>6, <2>7 DEF Elf
<1> QED BY <1>1, SelectInitOK, SelectNextOK, PTL DEF SelectSpec
-----------------------------------------------------------------------------
(* The run of both halves.                                                  *)

\* A behaviour is about one half: the builds keep their invariant in either, the selection
\* is there in its own.
BothInv ==
  /\ Inv
  /\ topic \in {"select", "build"}
  /\ topic = "select" => IInv
  /\ topic = "build" => phase = ""

LEMMA BothInit == Setting /\ RootfsInit => BothInv
<1> SUFFICES ASSUME Setting, RootfsInit PROVE BothInv
  OBVIOUS
<1>1. Inv
  BY InvInit DEF RootfsInit, NoBuild
<1> QED
  BY <1>1, SelectInitOK DEF RootfsInit, BothInv, NoSelect

LEMMA BothStep == Setting /\ BothInv /\ [RootfsNext]_<<topic, selectVars, vars>> => BothInv'
<1> SUFFICES ASSUME Setting, BothInv, [RootfsNext]_<<topic, selectVars, vars>> PROVE BothInv'
  OBVIOUS
<1>1. [Next]_vars /\ UNCHANGED topic /\ (topic = "select" => [SelectNext]_selectVars)
        /\ (topic = "build" => UNCHANGED selectVars)
  BY DEF RootfsNext, SelectStep, BuildStep
<1>2. Inv'
  BY <1>1, InvStep DEF BothInv
<1>3. topic = "select" => IInv'
  BY <1>1, SelectNextOK DEF BothInv
<1>4. topic = "build" => phase' = ""
  BY <1>1 DEF BothInv, selectVars
<1> QED
  BY <1>1, <1>2, <1>3, <1>4 DEF BothInv

\* And so it does, with that of the selection, where either half may run.
THEOREM BothInvariance == ASSUME Setting PROVE RootfsSpec => []BothInv
<1>1. RootfsInit => BothInv
  BY BothInit
<1>2. BothInv /\ [RootfsNext]_<<topic, selectVars, vars>> => BothInv'
  BY BothStep
<1> QED
  BY <1>1, <1>2, PTL DEF RootfsSpec

\* Every variable of both halves has its type, in every state of the run.
THEOREM RootfsTypeCorrect == ASSUME Setting PROVE RootfsSpec => []RootfsTypeOK
<1>1. BothInv => RootfsTypeOK
  BY DEF BothInv, Inv, IInv, RootfsTypeOK
<1> QED
  BY <1>1, BothInvariance, PTL

=============================================================================
