------------------------------ MODULE MCRootfs ------------------------------
(***************************************************************************)
(* The two halves of a root file system in one run: how the root is        *)
(* composed, exported and smoke-tested on one daemon (RootBuild), and what *)
(* of the installed root is carried (RuntimeSelect).  A behaviour is about *)
(* one of them.                                                            *)
(***************************************************************************)
EXTENDS RootBuild, RuntimeSelect, MCTrees

CONSTANTS crun, rsync, apid
VARIABLE topic

\* A program with a version and a declared limit, one that is only executed,
\* one that nothing may ask.
MCContract == crun :> "version" @@ rsync :> "exec" @@ apid :> "unclaimed"
MCSelections == {{}, {crun}, {rsync}, {rsync, apid}}

\* What a behaviour is not about: no selection, or builds that do not begin.
NoSelect ==
  /\ tree = "" /\ phase = "" /\ unrunnable = "" /\ leftUnits = "" /\ work = "" /\ files = ""
  /\ bindings = "" /\ queue = "" /\ loaded = "" /\ seen = ""
NoBuild == Init /\ host = CHOOSE h \in Hosts : TRUE

RootfsInit ==
  \/ topic = "select" /\ SelectInit /\ NoBuild
  \/ topic = "build" /\ Init /\ NoSelect

SelectStep == topic = "select" /\ SelectNext /\ UNCHANGED <<topic, vars>>
BuildStep == topic = "build" /\ Next /\ UNCHANGED <<topic, selectVars>>
RootfsNext == SelectStep \/ BuildStep

\* The fairness of each half: of SelectFairSpec in RuntimeSelect and of FairSpec in RootBuild.
RootfsSpec ==
  /\ RootfsInit /\ [][RootfsNext]_<<topic, selectVars, vars>>
  /\ WF_<<topic, selectVars, vars>>(RootfsNext)

\* The types of both halves.
RootfsTypeOK == TypeOK /\ (topic = "select" => SelectTypeOK)

\* What a behaviour is about comes to its end: the selection, or every composition.
EveryRunEnds ==
  <>(IF topic = "select" THEN phase \in {"composed", "refused"} ELSE \A w \in Builds : pc[w] \in Ended)

=============================================================================
