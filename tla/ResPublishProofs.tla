--------------------------- MODULE ResPublishProofs ---------------------------
(***************************************************************************)
(* Theorems about ResPublish, for any releases, any number of runs, any     *)
(* number of attempts and any number of faults.                             *)
(***************************************************************************)
EXTENDS ResPublish, TLAPS, WellFoundedInduction

\* What of a release is still to be done in the run.
AtRelease == Calls \cup {"read"}
Pending(x) == x.queue \cup (IF x.pc \in AtRelease THEN {x.label} ELSE {})

\* A run is at a release, and has what its step works on.
StepInv(x) ==
  /\ x.pc \in Calls => x.attempt <= Retries[x.pc]
  /\ x.pc \in AtRelease => x.label \in Labels
  /\ x.pc \in {"stage", "upload"} => x.todo # {}
  /\ x.pc \in {"upload", "indexes", "transferred", "manifest", "document"} => x.parts # {}
  /\ x.pc \in {"list", "report"} => x.queue = {}

\* What a run has published of its release when it is at a step.
PostInv(x, files) ==
  /\ x.pc = "stage" => Assets(x.label) \subseteq x.todo \cup x.held
  /\ x.pc = "batch" => Assets(x.label) \subseteq x.held
  /\ x.pc \in {"archive", "upload", "indexes", "transferred", "record"} => Assets(x.label) \subseteq files
  /\ x.pc = "archive" => x.parts = Parts[x.label]
  /\ x.pc \in {"upload", "indexes", "transferred", "record"} =>
       \A p \in Parts[x.label] \ x.parts : Indexes(x.label, p) \subseteq files
  /\ x.pc = "upload" => Indexes(x.label, Part(x)) \subseteq x.todo \cup x.held
  /\ x.pc = "indexes" => Indexes(x.label, Part(x)) \subseteq x.held \cup files
  /\ x.pc = "transferred" => Indexes(x.label, Part(x)) \subseteq files
  /\ x.pc = "record" => x.parts = {}

\* What a run that has not failed has seen of the releases it is done with, and of its own.
SeenInv(x, names) ==
  /\ x.ok => \A l \in x.listed : l \in Pending(x) \/ \A p \in Parts[l] : <<l, p>> \in names
  /\ x.pc \in {"manifest", "document"} => \A p \in Parts[x.label] \ x.parts : <<x.label, p>> \in names
  /\ x.pc = "document" => (Part(x) \in Parts[x.label] => <<x.label, Part(x)>> \in names)

RunInv(x, files, names) == StepInv(x) /\ PostInv(x, files) /\ SeenInv(x, names)

\* Whatever the documents of res or of an edge name as the latest has been named.
LatestNamed(records, names) ==
  \A l \in Labels : \A p \in Parts[l] : Latest(records, l, p) => <<l, p>> \in names

IInv ==
  /\ TypeOK
  /\ \A r \in Runs : RunInv(run[r], published, named)
  /\ VisibleComplete
  /\ LatestNamed(recorded, named) /\ LatestNamed(edge, named)

-----------------------------------------------------------------------------
(* The helpers. *)

\* Some release of a list is the oldest.
LEMMA OldestFacts ==
  ASSUME NEW S \in SUBSET Labels, S # {}
  PROVE  Oldest(S) \in S /\ \A l \in S : Stamp[Oldest(S)] <= Stamp[l]
<1> DEFINE T == {Stamp[l] : l \in S}
           R == OpToRel(<, Nat)
<1>1. T \subseteq Nat /\ T # {}
  BY ResAssumption
<1>2. PICK n \in T : \A m \in T : ~(<<m, n>> \in R)
  <2> HIDE DEF T, R
  <2>1. IsWellFoundedOn(R, Nat)
    BY NatLessThanWellFounded DEF R
  <2> QED BY <1>1, <2>1, WFMin
<1>3. \A m \in T : n <= m
  <2> TAKE m \in T
  <2>1. n \in Nat /\ m \in Nat
    BY <1>1
  <2>2. m < n => <<m, n>> \in R
    BY <2>1 DEF OpToRel
  <2> HIDE DEF T, R
  <2>3. ~(m < n)
    BY <1>2, <2>2
  <2> QED BY <2>1, <2>3
<1>4. PICK l \in S : Stamp[l] = n
  BY <1>2
<1>5. \A m \in S : Stamp[l] <= Stamp[m]
  BY <1>3, <1>4
<1> QED BY <1>5 DEF Oldest

\* The files of a release are files.
LEMMA FileFacts ==
  ASSUME NEW l \in Labels
  PROVE  /\ Assets(l) \subseteq Files /\ Assets(l) # {}
         /\ Parts[l] \subseteq AllParts /\ Parts[l] # {}
         /\ \A p \in AllParts : Indexes(l, p) \subseteq Files /\ Indexes(l, p) # {}
<1>1. Parts[l] \subseteq AllParts /\ Forms[l] \subseteq Items /\ Objects[l] \subseteq Items
  BY DEF AllParts, Items
<1>2. Parts[l] # {} /\ Forms[l] # {} /\ Objects[l] # {}
  BY ResAssumption
<1>3. Assets(l) \subseteq Files
  BY <1>1 DEF Assets, File, Files
<1>4. Assets(l) # {}
  BY <1>2 DEF Assets
<1>5. \A p \in AllParts : Indexes(l, p) \subseteq Files
  BY <1>1 DEF Indexes, File, Files
<1>6. \A p \in AllParts : Indexes(l, p) # {}
  BY <1>2 DEF Indexes
<1> QED BY <1>1, <1>2, <1>3, <1>4, <1>5, <1>6

\* The end of a release: the run is at the next one of its list, or reports.
LEMMA OnwardFacts ==
  ASSUME NEW x \in RunStates
  PROVE  /\ Onward(x) \in RunStates
         /\ Onward(x).pc \in {"read", "report"} /\ StepInv(Onward(x))
         /\ Onward(x).ok = x.ok /\ Onward(x).listed = x.listed
         /\ Pending(Onward(x)) = x.queue
<1> DEFINE o == Oldest(x.queue)
<1>1. x.queue \subseteq Labels
  BY DEF RunStates
<1>2. CASE x.queue = {}
  BY <1>2 DEF Onward, RunStates, Pcs, StepInv, Pending, AtRelease, Calls
<1>3. CASE x.queue # {}
  <2>1. o \in x.queue /\ o \in Labels
    BY <1>1, <1>3, OldestFacts
  <2>2. Onward(x) = [x EXCEPT !.parts = {}, !.todo = {}, !.held = {}, !.attempt = 0,
                              !.pc = "read", !.label = o, !.queue = x.queue \ {o}]
    BY <1>3 DEF Onward, RunStates
  <2> HIDE DEF o
  <2> DEFINE q == x.queue \ {o}
  <2>5. q \in SUBSET Labels
    BY <1>1
  <2> DEFINE y == [x EXCEPT !.parts = {}, !.todo = {}, !.held = {}, !.attempt = 0]
  <2>6. Onward(x) = [y EXCEPT !.pc = "read", !.label = o, !.queue = q]
    BY <2>2 DEF RunStates
  <2>7. y \in RunStates
    BY DEF RunStates
  <2> HIDE DEF q, y
  <2>8. [y EXCEPT !.pc = "read", !.label = o] \in RunStates
    BY <2>1, <2>7 DEF RunStates, Pcs
  <2>9. [y EXCEPT !.pc = "read", !.label = o, !.queue = q]
          = [[y EXCEPT !.pc = "read", !.label = o] EXCEPT !.queue = q]
    BY <2>7 DEF RunStates
  <2>3. Onward(x) \in RunStates
    BY <2>5, <2>6, <2>8, <2>9 DEF RunStates
  <2>4. /\ Onward(x).pc = "read" /\ Onward(x).label = o /\ Onward(x).queue = x.queue \ {o}
        /\ Onward(x).ok = x.ok /\ Onward(x).listed = x.listed
    BY <2>2 DEF RunStates
  <2> QED BY <2>1, <2>3, <2>4 DEF StepInv, Pending, AtRelease, Calls
<1> QED BY <1>2, <1>3

\* A release that is given up or refused leaves a run that is red.
LEMMA FailedFacts ==
  ASSUME NEW x \in RunStates, NEW files, NEW names,
         x.pc \in Pcs, x.label \in Labels
  PROVE  /\ GivenUp(x) \in RunStates /\ RunInv(GivenUp(x), files, names)
         /\ Failed(x) \in RunStates /\ RunInv(Failed(x), files, names)
<1>1. ASSUME NEW y \in RunStates, ~y.ok
      PROVE  Onward(y) \in RunStates /\ RunInv(Onward(y), files, names)
  <2>1. /\ Onward(y) \in RunStates /\ Onward(y).pc \in {"read", "report"}
        /\ StepInv(Onward(y)) /\ ~Onward(y).ok
    BY <1>1, OnwardFacts
  <2> QED BY <2>1 DEF RunInv, PostInv, SeenInv
<1>2. [x EXCEPT !.gaveUp = {<<x.label, x.pc>>}, !.ok = FALSE] \in RunStates
  <2> DEFINE g == {<<x.label, x.pc>>}
  <2>1. g \in SUBSET (Labels \X Pcs)
    OBVIOUS
  <2> HIDE DEF g
  <2>2. [x EXCEPT !.gaveUp = g, !.ok = FALSE] \in RunStates
    BY <2>1 DEF RunStates
  <2> QED BY <2>2 DEF g
<1>3. [x EXCEPT !.gaveUp = {}, !.ok = FALSE] \in RunStates
  BY DEF RunStates
<1>4. ~[x EXCEPT !.gaveUp = {<<x.label, x.pc>>}, !.ok = FALSE].ok
  BY DEF RunStates
<1>5. ~[x EXCEPT !.gaveUp = {}, !.ok = FALSE].ok
  BY DEF RunStates
<1> QED BY <1>1, <1>2, <1>3, <1>4, <1>5 DEF GivenUp, Failed

\* Another attempt is the same step of the same release.
LEMMA AgainFacts ==
  ASSUME NEW x \in RunStates, NEW files, NEW names,
         x.pc \in Calls, RunInv(x, files, names)
  PROVE  Again(x) \in RunStates /\ RunInv(Again(x), files, names)
<1>1. x.label \in Labels /\ x.pc \in Pcs
  BY DEF RunInv, StepInv, AtRelease, Calls, Pcs
<1>2. CASE x.attempt < Retries[x.pc]
  <2> DEFINE y == [x EXCEPT !.attempt = @ + 1]
  <2>1. Again(x) = y
    BY <1>2 DEF Again
  <2>2. y \in RunStates
    BY DEF RunStates
  <2>3. /\ y.pc = x.pc /\ y.label = x.label /\ y.queue = x.queue /\ y.listed = x.listed
        /\ y.parts = x.parts /\ y.todo = x.todo /\ y.held = x.held /\ y.ok = x.ok
        /\ y.attempt = x.attempt + 1
    BY DEF RunStates
  <2>4. Retries[x.pc] \in Nat /\ x.attempt \in Nat
    BY ResAssumption DEF Calls, Retries, RunStates
  <2>5. Part(y) = Part(x)
    BY <2>3 DEF Part
  <2> HIDE DEF y
  <2>6. StepInv(y)
    BY <1>2, <2>3, <2>4 DEF RunInv, StepInv
  <2>7. PostInv(y, files)
    BY <2>3, <2>5 DEF RunInv, PostInv
  <2>8. SeenInv(y, names)
    BY <2>3, <2>5 DEF RunInv, SeenInv, Pending
  <2> QED BY <2>1, <2>2, <2>6, <2>7, <2>8 DEF RunInv
<1>3. CASE ~(x.attempt < Retries[x.pc])
  BY <1>1, <1>3, FailedFacts DEF Again
<1> QED BY <1>2, <1>3

\* A run that has seen its release through has the others before it.
LEMMA SucceededFacts ==
  ASSUME NEW x \in RunStates, NEW files, NEW names,
         x.ok => \A l \in x.listed : l \in x.queue \/ \A p \in Parts[l] : <<l, p>> \in names
  PROVE  Succeeded(x) \in RunStates /\ RunInv(Succeeded(x), files, names)
<1> DEFINE y == [x EXCEPT !.gaveUp = {}]
<1>1. y \in RunStates /\ y.ok = x.ok /\ y.listed = x.listed /\ y.queue = x.queue
  BY DEF RunStates
<1> HIDE DEF y
<1>2. /\ Onward(y) \in RunStates /\ Onward(y).pc \in {"read", "report"}
      /\ StepInv(Onward(y)) /\ Onward(y).ok = x.ok /\ Onward(y).listed = x.listed
      /\ Pending(Onward(y)) = x.queue
  BY <1>1, OnwardFacts
<1>3. RunInv(Onward(y), files, names)
  BY <1>2 DEF RunInv, PostInv, SeenInv
<1> QED BY <1>2, <1>3 DEF Succeeded, y

\* What holds of a run keeps holding while res takes in more.
LEMMA MoreFacts ==
  ASSUME NEW x, NEW files, NEW names, NEW files2, NEW names2,
         files \subseteq files2, names \subseteq names2, RunInv(x, files, names)
  PROVE  RunInv(x, files2, names2)
<1>1. PostInv(x, files2)
  BY DEF RunInv, PostInv
<1>2. SeenInv(x, names2)
  BY DEF RunInv, SeenInv
<1> QED BY <1>1, <1>2 DEF RunInv

\* The next step keeps everything of a run but its place.
LEMMA StepFacts ==
  ASSUME NEW x \in RunStates, NEW pc \in Pcs
  PROVE  /\ Step(x, pc) \in RunStates
         /\ Step(x, pc).pc = pc /\ Step(x, pc).attempt = 0
         /\ Step(x, pc).label = x.label /\ Step(x, pc).queue = x.queue
         /\ Step(x, pc).listed = x.listed /\ Step(x, pc).ok = x.ok
         /\ Step(x, pc).parts = x.parts /\ Step(x, pc).todo = x.todo /\ Step(x, pc).held = x.held
         /\ Part(Step(x, pc)) = Part(x)
         /\ pc \in Calls => Step(x, pc).attempt <= Retries[pc]
<1>1. Step(x, pc) \in RunStates
  BY DEF Step, RunStates
<1>2. /\ Step(x, pc).pc = pc /\ Step(x, pc).attempt = 0
      /\ Step(x, pc).label = x.label /\ Step(x, pc).queue = x.queue
      /\ Step(x, pc).listed = x.listed /\ Step(x, pc).ok = x.ok
      /\ Step(x, pc).parts = x.parts /\ Step(x, pc).todo = x.todo /\ Step(x, pc).held = x.held
  BY DEF Step, RunStates
<1>3. Part(Step(x, pc)) = Part(x)
  BY <1>2 DEF Part
<1>4. pc \in Calls => 0 <= Retries[pc]
  BY ResAssumption DEF Calls, Retries
<1> QED BY <1>1, <1>2, <1>3, <1>4

\* Some part is the next one.
LEMMA PartFacts ==
  ASSUME NEW x, x.parts # {}
  PROVE  Part(x) \in x.parts
BY DEF Part

\* What a run at a release has seen of those before it.
Listed(x, names) ==
  x.ok => \A l \in x.listed : l \in x.queue \cup {x.label} \/ \A p \in Parts[l] : <<l, p>> \in names

\* A run at a release: what the step lemmas need of it.
LEMMA AtReleaseFacts ==
  ASSUME IInv, NEW r \in Runs, run[r].pc \in AtRelease
  PROVE  /\ run[r] \in RunStates /\ run[r].label \in Labels /\ run[r].pc \in Pcs
         /\ RunInv(run[r], published, named) /\ Listed(run[r], named)
<1>1. run[r] \in RunStates /\ RunInv(run[r], published, named)
  BY DEF IInv, TypeOK
<1>2. run[r].label \in Labels /\ run[r].pc \in Pcs
  BY <1>1 DEF RunInv, StepInv, RunStates
<1>3. Listed(run[r], named)
  <2>1. Pending(run[r]) = run[r].queue \cup {run[r].label}
    BY DEF Pending
  <2> QED BY <1>1, <2>1 DEF RunInv, SeenInv, Listed
<1> QED BY <1>1, <1>2, <1>3

\* The transfer of the archives left: those before are in the catalog.
LEMMA TransferFacts ==
  ASSUME NEW x \in RunStates, NEW files, NEW names, x.label \in Labels, Listed(x, names),
         Assets(x.label) \subseteq files,
         \A p \in Parts[x.label] \ x.parts : Indexes(x.label, p) \subseteq files
  PROVE  Transfer(x) \in RunStates /\ RunInv(Transfer(x), files, names)
<1>1. CASE x.parts = {}
  <2> DEFINE y == Step(x, "record")
  <2>1. /\ y \in RunStates /\ y.pc = "record" /\ y.label = x.label /\ y.queue = x.queue
        /\ y.listed = x.listed /\ y.ok = x.ok /\ y.parts = {} /\ y.attempt <= Retries["record"]
    BY <1>1, StepFacts DEF Pcs, Calls
  <2> HIDE DEF y
  <2>2. StepInv(y)
    BY <2>1 DEF StepInv, AtRelease, Calls
  <2>3. PostInv(y, files)
    BY <1>1, <2>1 DEF PostInv
  <2>4. SeenInv(y, names)
    BY <2>1 DEF SeenInv, Listed, Pending, AtRelease, Calls
  <2>5. Transfer(x) = y
    BY <1>1 DEF Transfer, y
  <2> QED BY <2>1, <2>2, <2>3, <2>4, <2>5 DEF RunInv
<1>2. CASE x.parts # {}
  <2> DEFINE t == Indexes(x.label, Part(x))
             z == [x EXCEPT !.todo = t, !.held = {}]
             y == Step(z, "upload")
  <2>1. t \in SUBSET Files /\ t # {}
    <3>1. Part(x) \in AllParts
      BY <1>2, PartFacts DEF RunStates
    <3> QED BY <3>1, FileFacts
  <2>2. Transfer(x) = y
    BY <1>2 DEF Transfer
  <2> HIDE DEF t
  <2>3. /\ z \in RunStates /\ z.label = x.label /\ z.queue = x.queue /\ z.listed = x.listed
        /\ z.ok = x.ok /\ z.parts = x.parts /\ z.todo = t
    BY <2>1 DEF RunStates
  <2> HIDE DEF z
  <2>4. /\ y \in RunStates /\ y.pc = "upload" /\ y.label = x.label /\ y.queue = x.queue
        /\ y.listed = x.listed /\ y.ok = x.ok /\ y.parts = x.parts /\ y.todo = t
        /\ y.attempt <= Retries["upload"]
    BY <2>3, StepFacts DEF Pcs, Calls
  <2>5. Part(y) = Part(x)
    BY <2>4 DEF Part
  <2> HIDE DEF y
  <2>6. StepInv(y)
    BY <1>2, <2>1, <2>4 DEF StepInv, AtRelease, Calls
  <2>7. PostInv(y, files)
    BY <2>4, <2>5 DEF PostInv, t
  <2>8. SeenInv(y, names)
    BY <2>4 DEF SeenInv, Listed, Pending, AtRelease, Calls
  <2> QED BY <2>2, <2>4, <2>6, <2>7, <2>8 DEF RunInv
<1> QED BY <1>1, <1>2

\* Reading back the parts left: those before have been the latest.
LEMMA ReadBackFacts ==
  ASSUME NEW x \in RunStates, NEW files, NEW names, x.label \in Labels, Listed(x, names),
         \A p \in Parts[x.label] \ x.parts : <<x.label, p>> \in names
  PROVE  ReadBack(x) \in RunStates /\ RunInv(ReadBack(x), files, names)
<1>1. CASE x.parts = {}
  <2>1. x.ok => \A l \in x.listed : l \in x.queue \/ \A p \in Parts[l] : <<l, p>> \in names
    BY <1>1 DEF Listed
  <2> QED BY <1>1, <2>1, SucceededFacts DEF ReadBack
<1>2. CASE x.parts # {}
  <2> DEFINE y == Step(x, "manifest")
  <2>1. /\ y \in RunStates /\ y.pc = "manifest" /\ y.label = x.label /\ y.queue = x.queue
        /\ y.listed = x.listed /\ y.ok = x.ok /\ y.parts = x.parts
        /\ y.attempt <= Retries["manifest"]
    BY StepFacts DEF Pcs, Calls
  <2> HIDE DEF y
  <2>2. StepInv(y)
    BY <1>2, <2>1 DEF StepInv, AtRelease, Calls
  <2>3. PostInv(y, files)
    BY <2>1 DEF PostInv
  <2>4. SeenInv(y, names)
    BY <2>1 DEF SeenInv, Listed, Pending, AtRelease, Calls
  <2>5. ReadBack(x) = y
    BY <1>2 DEF ReadBack, y
  <2> QED BY <2>1, <2>2, <2>3, <2>4, <2>5 DEF RunInv
<1> QED BY <1>1, <1>2

-----------------------------------------------------------------------------
(* Steps of one run. *)

\* A run that is not touched, and one that is, in a res that only takes in more.
LEMMA KeptFacts ==
  ASSUME IInv, NEW r \in Runs, NEW y \in RunStates,
         run' = [run EXCEPT ![r] = y], RunInv(y, published', named'),
         github' \subseteq Labels, faults' \in 0 .. MaxFaults,
         published \subseteq published', published' \subseteq Files,
         named \subseteq named', named' \subseteq Labels \X AllParts,
         recorded' \subseteq Labels, edge' \subseteq Labels,
         VisibleComplete', LatestNamed(recorded', named'), LatestNamed(edge', named')
  PROVE  IInv'
<1>1. run \in [Runs -> RunStates] /\ run' \in [Runs -> RunStates]
  BY DEF IInv, TypeOK
<1>2. \A q \in Runs : RunInv(run'[q], published', named')
  <2> TAKE q \in Runs
  <2>1. CASE q = r
    BY <1>1, <2>1
  <2>2. CASE q # r
    <3>1. run'[q] = run[q] /\ RunInv(run[q], published, named)
      BY <1>1, <2>2 DEF IInv
    <3> QED BY <3>1, MoreFacts
  <2> QED BY <2>1, <2>2
<1>3. \A q \in Runs : run'[q].pc \in Calls => run'[q].attempt <= Retries[run'[q].pc]
  BY <1>2 DEF RunInv, StepInv
<1>4. TypeOK'
  BY <1>1, <1>3 DEF TypeOK
<1> QED BY <1>2, <1>4 DEF IInv

\* One run moves on, and res is as it was.
LEMMA MovedFacts ==
  ASSUME IInv, NEW r \in Runs, NEW y \in RunStates,
         run' = [run EXCEPT ![r] = y], RunInv(y, published, named),
         github' \subseteq Labels, faults' \in 0 .. MaxFaults, UNCHANGED resVars
  PROVE  IInv'
<1>1. /\ published' = published /\ recorded' = recorded /\ edge' = edge /\ named' = named
  BY DEF resVars
<1>2. /\ published \subseteq Files /\ named \subseteq Labels \X AllParts
      /\ recorded \subseteq Labels /\ edge \subseteq Labels
      /\ VisibleComplete /\ LatestNamed(recorded, named) /\ LatestNamed(edge, named)
  BY DEF IInv, TypeOK
<1>3. VisibleComplete'
  BY <1>1, <1>2 DEF VisibleComplete
<1>4. LatestNamed(recorded', named') /\ LatestNamed(edge', named') /\ RunInv(y, published', named')
  BY <1>1, <1>2
<1> QED BY <1>1, <1>2, <1>3, <1>4, KeptFacts

\* What res takes in keeps every record complete, and names what has become the latest.
LEMMA AcceptedFacts ==
  ASSUME IInv, NEW added \in SUBSET Files, NEW records \in SUBSET Labels,
         Accepted(added, records),
         \A l \in records : Assets(l) \cup UNION {Indexes(l, p) : p \in Parts[l]} \subseteq published
  PROVE  /\ published' = published \cup added /\ published' \subseteq Files
         /\ named \subseteq named' /\ named' \subseteq Labels \X AllParts
         /\ recorded' \subseteq Labels /\ edge' \subseteq Labels
         /\ VisibleComplete' /\ LatestNamed(recorded', named') /\ LatestNamed(edge', named')
<1> USE DEF Accepted
<1>1. /\ published \subseteq Files /\ recorded \subseteq Labels /\ edge \subseteq Labels
      /\ named \subseteq Labels \X AllParts
      /\ VisibleComplete /\ LatestNamed(recorded, named) /\ LatestNamed(edge, named)
  BY DEF IInv, TypeOK
<1>2. /\ published' = published \cup added /\ published' \subseteq Files
      /\ recorded' = recorded \cup records /\ recorded' \subseteq Labels
      /\ edge' \in {edge, recorded} /\ edge' \subseteq Labels
      /\ named \subseteq named'
  BY <1>1
<1>3. named' \subseteq Labels \X AllParts
  BY <1>1
<1>4. VisibleComplete'
  BY <1>1, <1>2 DEF VisibleComplete
<1>5. LatestNamed(recorded', named')
  <2> SUFFICES ASSUME NEW l \in Labels, NEW p \in Parts[l], Latest(recorded', l, p)
               PROVE  <<l, p>> \in named'
    BY DEF LatestNamed
  <2>1. p \in AllParts
    BY DEF AllParts
  <2>2. CASE l \in records
    <3> DEFINE n == <<l, p>>
    <3>1. n \in records \X AllParts /\ n[1] = l /\ n[2] = p
      BY <2>1, <2>2
    <3>2. n \in {m \in records \X AllParts : m[2] \in Parts[m[1]] /\ Latest(recorded', m[1], m[2])}
      BY <3>1
    <3> QED BY <3>2
  <2>3. CASE l \notin records
    <3>1. Latest(recorded, l, p)
      BY <1>2, <2>3 DEF Latest
    <3> QED BY <1>1, <1>2, <3>1 DEF LatestNamed
  <2> QED BY <2>2, <2>3
<1>6. LatestNamed(edge', named')
  <2>1. LatestNamed(edge', named)
    BY <1>1, <1>2
  <2> QED BY <1>2, <2>1 DEF LatestNamed
<1> QED BY <1>2, <1>3, <1>4, <1>5, <1>6

\* A call, however it is answered.
LEMMA CallFacts ==
  ASSUME IInv, NEW r \in Runs, run[r].pc \in Calls,
         NEW added \in SUBSET Files, NEW records \in SUBSET Labels, NEW next \in RunStates,
         call(r, added, records, next),
         \A l \in records : Assets(l) \cup UNION {Indexes(l, p) : p \in Parts[l]} \subseteq published,
         RunInv(next, published \cup added, named)
  PROVE  IInv'
<1> DEFINE x == run[r]
<1>1. /\ x \in RunStates /\ RunInv(x, published, named) /\ x.label \in Labels /\ x.pc \in Pcs
      /\ run \in [Runs -> RunStates]
  BY DEF IInv, TypeOK, RunInv, StepInv, AtRelease, Calls, Pcs
<1>2. github' \subseteq Labels /\ faults \in 0 .. MaxFaults /\ MaxFaults \in Nat
  BY ResAssumption DEF IInv, TypeOK, call
<1>3. Fault => faults' \in 0 .. MaxFaults
  BY <1>2 DEF Fault
<1>4. CASE Answered(r, added, records, next)
  <2>1. Accepted(added, records) /\ run' = [run EXCEPT ![r] = next] /\ faults' = faults
    BY <1>4 DEF Answered
  <2>2. /\ published' = published \cup added /\ published' \subseteq Files
        /\ named \subseteq named' /\ named' \subseteq Labels \X AllParts
        /\ recorded' \subseteq Labels /\ edge' \subseteq Labels
        /\ VisibleComplete' /\ LatestNamed(recorded', named') /\ LatestNamed(edge', named')
    BY <2>1, AcceptedFacts
  <2>3. RunInv(next, published', named')
    BY <2>2, MoreFacts
  <2> QED BY <1>2, <2>1, <2>2, <2>3, KeptFacts
<1>5. CASE Lost(r, added, records)
  <2> DEFINE y == Again(x)
  <2>1. run' = [run EXCEPT ![r] = y] /\ faults' \in 0 .. MaxFaults
    BY <1>1, <1>3, <1>5 DEF Lost
  <2>2. y \in RunStates /\ RunInv(y, published, named)
    BY <1>1, AgainFacts
  <2> HIDE DEF y
  <2>3. CASE Accepted(added, records)
    <3>1. /\ published' = published \cup added /\ published' \subseteq Files
          /\ named \subseteq named' /\ named' \subseteq Labels \X AllParts
          /\ recorded' \subseteq Labels /\ edge' \subseteq Labels
          /\ VisibleComplete' /\ LatestNamed(recorded', named') /\ LatestNamed(edge', named')
      BY <2>3, AcceptedFacts
    <3>2. RunInv(y, published', named')
      BY <2>2, <3>1, MoreFacts
    <3> QED BY <1>2, <2>1, <2>2, <3>1, <3>2, KeptFacts
  <2>4. CASE UNCHANGED resVars
    BY <1>2, <2>1, <2>2, <2>4, MovedFacts
  <2> QED BY <1>5, <2>3, <2>4 DEF Lost
<1>6. CASE Refused(r)
  <2>1. run' = [run EXCEPT ![r] = Failed(x)] /\ faults' \in 0 .. MaxFaults /\ UNCHANGED resVars
    BY <1>1, <1>3, <1>6 DEF Refused
  <2>2. Failed(x) \in RunStates /\ RunInv(Failed(x), published, named)
    BY <1>1, FailedFacts
  <2> QED BY <1>2, <2>1, <2>2, MovedFacts
<1> QED BY <1>4, <1>5, <1>6 DEF call

\* A read, whatever it shows.
LEMMA PollFacts ==
  ASSUME IInv, NEW r \in Runs, run[r].pc \in Calls,
         NEW good, NEW stale, NEW next \in RunStates,
         Poll(r, good, stale, next), good => RunInv(next, published, named)
  PROVE  IInv'
<1> DEFINE x == run[r]
<1>1. /\ x \in RunStates /\ RunInv(x, published, named) /\ run \in [Runs -> RunStates]
      /\ github' \subseteq Labels /\ faults \in 0 .. MaxFaults /\ MaxFaults \in Nat
      /\ UNCHANGED resVars
  BY ResAssumption DEF IInv, TypeOK, Poll
<1>2. Again(x) \in RunStates /\ RunInv(Again(x), published, named)
  BY <1>1, AgainFacts
<1>3. faults' \in 0 .. MaxFaults
  BY <1>1 DEF Poll, Fault
<1>4. CASE good /\ run' = [run EXCEPT ![r] = next]
  BY <1>1, <1>3, <1>4, MovedFacts
<1>5. CASE run' = [run EXCEPT ![r] = Again(x)]
  BY <1>1, <1>2, <1>3, <1>5, MovedFacts
<1> QED BY <1>1, <1>4, <1>5 DEF Poll

-----------------------------------------------------------------------------
(* The actions. *)

\* A run that is under way when another starts.
LEMMA BesideFacts ==
  ASSUME NEW x \in RunStates, NEW files, NEW names, RunInv(x, files, names)
  PROVE  [x EXCEPT !.alone = FALSE] \in RunStates /\ RunInv([x EXCEPT !.alone = FALSE], files, names)
<1> DEFINE y == [x EXCEPT !.alone = FALSE]
<1>1. /\ y \in RunStates /\ y.pc = x.pc /\ y.label = x.label /\ y.queue = x.queue
      /\ y.listed = x.listed /\ y.ok = x.ok /\ y.parts = x.parts /\ y.todo = x.todo
      /\ y.held = x.held /\ y.attempt = x.attempt
  BY DEF RunStates
<1> HIDE DEF y
<1>2. Part(y) = Part(x)
  BY <1>1 DEF Part
<1>3. StepInv(y)
  BY <1>1 DEF RunInv, StepInv
<1>4. PostInv(y, files)
  BY <1>1, <1>2 DEF RunInv, PostInv
<1>5. SeenInv(y, names)
  BY <1>1, <1>2 DEF RunInv, SeenInv, Pending
<1>6. y \in RunStates /\ RunInv(y, files, names)
  BY <1>1, <1>3, <1>4, <1>5 DEF RunInv
<1> QED BY <1>6 DEF y

\* A run starts while others are under way.
LEMMA StartFacts ==
  ASSUME IInv, NEW r \in Runs, NEW y \in RunStates, RunInv(y, published, named),
         run' = [q \in Runs |-> IF q = r THEN y ELSE [run[q] EXCEPT !.alone = FALSE]],
         github' \subseteq Labels, UNCHANGED <<resVars, faults>>
  PROVE  IInv'
<1>1. /\ published' = published /\ recorded' = recorded /\ edge' = edge /\ named' = named
      /\ faults' = faults
  BY DEF resVars
<1>2. \A q \in Runs : run[q] \in RunStates /\ RunInv(run[q], published, named)
  BY DEF IInv, TypeOK
<1>3. \A q \in Runs : run'[q] \in RunStates /\ RunInv(run'[q], published', named')
  BY <1>1, <1>2, BesideFacts
<1>4. run' \in [Runs -> RunStates]
  BY <1>3
<1>5. \A q \in Runs : run'[q].pc \in Calls => run'[q].attempt <= Retries[run'[q].pc]
  BY <1>3 DEF RunInv, StepInv
<1>6. TypeOK'
  BY <1>1, <1>4, <1>5 DEF IInv, TypeOK
<1>7. VisibleComplete' /\ LatestNamed(recorded', named') /\ LatestNamed(edge', named')
  BY <1>1 DEF IInv, VisibleComplete
<1> QED BY <1>3, <1>6, <1>7 DEF IInv

\* A run that has started and has listed nothing yet.
LEMMA IdleFacts ==
  ASSUME NEW only \in SUBSET Labels, NEW alone \in BOOLEAN, NEW files, NEW names
  PROVE  LET x == [Idle EXCEPT !.pc = "list", !.only = only, !.alone = alone]
         IN x \in RunStates /\ RunInv(x, files, names)
BY DEF Idle, RunStates, Pcs, Nothing, RunInv, StepInv, PostInv, SeenInv, AtRelease, Calls

\* A run over every release, or one, starts with nothing listed.
LEMMA DispatchStep ==
  ASSUME IInv, NEW r \in Manual, Dispatch(r)
  PROVE  IInv'
<1>1. PICK only \in {{}} \cup {{l} : l \in Labels} :
        run' = [q \in Runs |->
          IF q = r THEN [Idle EXCEPT !.pc = "list", !.only = only, !.alone = Quiet]
                   ELSE [run[q] EXCEPT !.alone = FALSE]]
  BY DEF Dispatch
<1>2. Quiet \in BOOLEAN /\ only \in SUBSET Labels /\ r \in Runs
  BY DEF Quiet, Runs
<1> DEFINE y == [Idle EXCEPT !.pc = "list", !.only = only, !.alone = Quiet]
<1>3. y \in RunStates /\ RunInv(y, published, named)
  BY <1>2, IdleFacts
<1>4. github' \subseteq Labels /\ UNCHANGED <<resVars, faults>>
  BY DEF Dispatch, IInv, TypeOK
<1> QED BY <1>1, <1>2, <1>3, <1>4, StartFacts

\* A run with its list: each release of it is still to come.
LEMMA ListedFacts ==
  ASSUME NEW x \in RunStates, NEW labels \in SUBSET Labels, NEW files, NEW names
  PROVE  LET y == Onward([x EXCEPT !.queue = labels, !.listed = labels])
         IN y \in RunStates /\ RunInv(y, files, names)
<1> DEFINE z == [x EXCEPT !.queue = labels, !.listed = labels]
<1>1. z \in RunStates /\ z.queue = labels /\ z.listed = labels
  BY DEF RunStates
<1> HIDE DEF z
<1>2. /\ Onward(z) \in RunStates /\ Onward(z).pc \in {"read", "report"} /\ StepInv(Onward(z))
      /\ Onward(z).listed = labels /\ Pending(Onward(z)) = labels
  BY <1>1, OnwardFacts
<1>3. RunInv(Onward(z), files, names)
  BY <1>2 DEF RunInv, PostInv, SeenInv
<1> QED BY <1>2, <1>3 DEF z

\* A run of a release line starts, with its list when it is a core release.
LEMMA AttachStep ==
  ASSUME IInv, NEW r \in Releasing, NEW l \in Labels, Attach(r, l)
  PROVE  IInv'
<1> DEFINE x == [Idle EXCEPT !.only = {l}]
           y == IF l \in Cores THEN Onward([x EXCEPT !.queue = {l}, !.listed = {l}])
                ELSE [x EXCEPT !.pc = "list"]
<1>1. run' = [q \in Runs |-> IF q = r THEN y ELSE [run[q] EXCEPT !.alone = FALSE]]
  BY DEF Attach
<1>2. x \in RunStates
  BY DEF Idle, RunStates, Pcs, Nothing
<1>3. y \in RunStates /\ RunInv(y, published, named)
  <2>1. CASE l \in Cores
    <3>1. y = Onward([x EXCEPT !.queue = {l}, !.listed = {l}])
      BY <2>1
    <3> HIDE DEF x, y
    <3> QED BY <1>2, <3>1, ListedFacts
  <2>2. CASE l \notin Cores
    <3>1. y = [x EXCEPT !.pc = "list"]
      BY <2>2
    <3>2. [x EXCEPT !.pc = "list"] \in RunStates /\ RunInv([x EXCEPT !.pc = "list"], published, named)
      BY DEF Idle, RunStates, Pcs, Nothing, RunInv, StepInv, PostInv, SeenInv, AtRelease, Calls
    <3> HIDE DEF x, y
    <3> QED BY <3>1, <3>2
  <2> QED BY <2>1, <2>2
<1>4. r \in Runs /\ github' \subseteq Labels /\ UNCHANGED <<resVars, faults>>
  BY DEF Attach, IInv, TypeOK, Runs
<1> HIDE DEF y
<1> QED BY <1>1, <1>3, <1>4, StartFacts

\* A listing leaves every release of it to be posted; a run whose listing failed is red.
LEMMA ListReleasesStep ==
  ASSUME IInv, NEW r \in Runs, ListReleases(r)
  PROVE  IInv'
<1> DEFINE x == run[r]
<1>1. /\ x \in RunStates /\ RunInv(x, published, named) /\ x.pc = "list"
      /\ github \subseteq Labels /\ github' = github /\ UNCHANGED resVars
      /\ faults \in 0 .. MaxFaults /\ MaxFaults \in Nat
      /\ run \in [Runs -> RunStates]
  BY ResAssumption DEF IInv, TypeOK, ListReleases
<1>2. faults' \in 0 .. MaxFaults
  BY <1>1 DEF ListReleases, Fault
<1>3. CASE run' = [run EXCEPT ![r] =
             LET labels == IF @.only = {} THEN github ELSE @.only
             IN Onward([@ EXCEPT !.queue = labels, !.listed = labels])]
  <2> DEFINE labels == IF x.only = {} THEN github ELSE x.only
             y == Onward([x EXCEPT !.queue = labels, !.listed = labels])
  <2>1. labels \in SUBSET Labels
    BY <1>1 DEF RunStates
  <2>2. run' = [run EXCEPT ![r] = y]
    BY <1>1, <1>3
  <2> HIDE DEF labels
  <2>3. y \in RunStates /\ RunInv(y, published, named)
    BY <1>1, <2>1, ListedFacts
  <2> HIDE DEF y
  <2> QED BY <1>1, <1>2, <2>2, <2>3, MovedFacts
<1>4. CASE run' = [run EXCEPT ![r].pc = "report", ![r].ok = FALSE]
  <2> DEFINE y == [x EXCEPT !.pc = "report", !.ok = FALSE]
  <2>1. run' = [run EXCEPT ![r] = y]
    BY <1>1, <1>4
  <2>2. y \in RunStates /\ y.pc = "report" /\ ~y.ok /\ y.queue = x.queue
    <3>1. "report" \in Pcs /\ FALSE \in BOOLEAN
      BY DEF Pcs
    <3> QED BY <1>1, <3>1 DEF RunStates
  <2>3. x.queue = {}
    BY <1>1 DEF RunInv, StepInv
  <2> HIDE DEF y
  <2>4. RunInv(y, published, named)
    BY <2>2, <2>3 DEF RunInv, StepInv, PostInv, SeenInv, AtRelease, Calls
  <2> QED BY <1>1, <1>2, <2>1, <2>2, <2>4, MovedFacts
<1> QED BY <1>3, <1>4 DEF ListReleases

\* A run that is over is as it was before it began.
LEMMA ReportStep ==
  ASSUME IInv, NEW r \in Runs, Report(r)
  PROVE  IInv'
<1>1. run' = [run EXCEPT ![r] = Idle] /\ github' \subseteq Labels /\ faults' \in 0 .. MaxFaults
      /\ UNCHANGED resVars
  BY DEF Report, IInv, TypeOK
<1>2. Idle \in RunStates /\ RunInv(Idle, published, named)
  BY DEF Idle, RunStates, Pcs, Nothing, RunInv, StepInv, PostInv, SeenInv, AtRelease, Calls
<1> QED BY <1>1, <1>2, MovedFacts

\* Each step of a release leaves what the next one relies on.
LEMMA ReadReleaseStep ==
  ASSUME IInv, NEW r \in Runs, ReadRelease(r)
  PROVE  IInv'
<1> DEFINE x == run[r]
           a == Assets(x.label)
           z == [x EXCEPT !.todo = a, !.held = {}]
           y == Step(z, "stage")
<1>1. /\ x \in RunStates /\ x.label \in Labels /\ x.pc \in Pcs /\ Listed(x, named)
      /\ github' \subseteq Labels /\ UNCHANGED resVars
      /\ faults \in 0 .. MaxFaults /\ MaxFaults \in Nat
  <2>1. x.pc \in AtRelease
    BY DEF ReadRelease, AtRelease
  <2>2. github' \subseteq Labels /\ UNCHANGED resVars /\ faults \in 0 .. MaxFaults /\ MaxFaults \in Nat
    BY ResAssumption DEF ReadRelease, Refused, IInv, TypeOK
  <2> QED BY <2>1, <2>2, AtReleaseFacts
<1>2. CASE run' = [run EXCEPT ![r] = y] /\ faults' = faults
  <2>1. a \in SUBSET Files /\ a # {}
    BY <1>1, FileFacts
  <2> HIDE DEF a
  <2>2. /\ z \in RunStates /\ z.label = x.label /\ z.queue = x.queue /\ z.listed = x.listed
        /\ z.ok = x.ok /\ z.todo = a
    BY <1>1, <2>1 DEF RunStates
  <2> HIDE DEF z
  <2>3. /\ y \in RunStates /\ y.pc = "stage" /\ y.label = x.label /\ y.queue = x.queue
        /\ y.listed = x.listed /\ y.ok = x.ok /\ y.todo = a /\ y.attempt <= Retries["stage"]
    BY <2>2, StepFacts DEF Pcs, Calls
  <2> HIDE DEF y
  <2>4. StepInv(y)
    BY <1>1, <2>1, <2>3 DEF StepInv, AtRelease, Calls
  <2>5. PostInv(y, published)
    BY <2>3 DEF PostInv, a
  <2>6. SeenInv(y, named)
    BY <1>1, <2>3 DEF SeenInv, Listed, Pending, AtRelease, Calls
  <2> QED BY <1>1, <1>2, <2>3, <2>4, <2>5, <2>6, MovedFacts DEF RunInv
<1>3. CASE Refused(r)
  <2>1. run' = [run EXCEPT ![r] = Failed(x)] /\ faults' \in 0 .. MaxFaults
    <3>1. run' = [run EXCEPT ![r] = Failed(x)]
      BY <1>3 DEF Refused, IInv, TypeOK
    <3>2. faults' \in 0 .. MaxFaults
      BY <1>1, <1>3 DEF Refused, Fault
    <3> QED BY <3>1, <3>2
  <2>2. Failed(x) \in RunStates /\ RunInv(Failed(x), published, named)
    BY <1>1, FailedFacts
  <2> QED BY <1>1, <2>1, <2>2, MovedFacts
<1>4. (run' = [run EXCEPT ![r] = y] /\ faults' = faults) \/ Refused(r)
  BY DEF ReadRelease, IInv, TypeOK
<1> QED BY <1>2, <1>3, <1>4

\* An asset that is not staged yet is still to be staged.
LEMMA StageStep ==
  ASSUME IInv, NEW r \in Runs, Stage(r)
  PROVE  IInv'
<1> DEFINE x == run[r]
<1>1. /\ x \in RunStates /\ x.label \in Labels /\ RunInv(x, published, named) /\ Listed(x, named)
      /\ x.pc = "stage" /\ x.pc \in Calls
  BY AtReleaseFacts DEF Stage, AtRelease, Calls
<1> DEFINE f == CHOOSE g \in x.todo : TRUE
           t == x.todo \ {f}
           h == x.held \cup {f}
           z == [x EXCEPT !.todo = t, !.held = h]
           y == Step(z, IF z.todo = {} THEN "batch" ELSE "stage")
<1>2. f \in x.todo /\ t \in SUBSET Files /\ h \in SUBSET Files
  <2>1. x.todo # {} /\ x.todo \subseteq Files /\ x.held \subseteq Files
    BY <1>1 DEF RunInv, StepInv, RunStates
  <2> QED BY <2>1
<1>3. Assets(x.label) \subseteq t \cup h
  BY <1>1, <1>2 DEF RunInv, PostInv
<1>4. call(r, {}, {}, y)
  BY DEF Stage
<1> HIDE DEF f, t, h
<1>5. /\ z \in RunStates /\ z.label = x.label /\ z.queue = x.queue /\ z.listed = x.listed
      /\ z.ok = x.ok /\ z.todo = t /\ z.held = h
  BY <1>1, <1>2 DEF RunStates
<1> HIDE DEF z
<1>6. /\ y \in RunStates /\ y.pc = (IF t = {} THEN "batch" ELSE "stage")
      /\ y.label = x.label /\ y.queue = x.queue /\ y.listed = x.listed
      /\ y.ok = x.ok /\ y.todo = t /\ y.held = h /\ y.attempt <= Retries[y.pc]
  BY <1>5, StepFacts DEF Pcs, Calls
<1> HIDE DEF y
<1>7. StepInv(y)
  BY <1>1, <1>6 DEF StepInv, AtRelease, Calls
<1>8. PostInv(y, published)
  BY <1>3, <1>6 DEF PostInv
<1>9. SeenInv(y, named)
  BY <1>1, <1>6 DEF SeenInv, Listed, Pending, AtRelease, Calls
<1>10. RunInv(y, published \cup {}, named)
  BY <1>7, <1>8, <1>9 DEF RunInv
<1> QED BY <1>1, <1>4, <1>6, <1>10, CallFacts

\* The batch puts every asset of the release in the catalog.
LEMMA PublishAssetsStep ==
  ASSUME IInv, NEW r \in Runs, PublishAssets(r)
  PROVE  IInv'
<1> DEFINE x == run[r]
<1>1. /\ x \in RunStates /\ x.label \in Labels /\ RunInv(x, published, named) /\ Listed(x, named)
      /\ x.pc = "batch" /\ x.pc \in Calls
  BY AtReleaseFacts DEF PublishAssets, AtRelease, Calls
<1> DEFINE z == [x EXCEPT !.parts = Parts[x.label]]
           y == IF z.label \in Cores THEN Transfer(z) ELSE Step(z, "archive")
           files == published \cup x.held
<1>2. /\ z \in RunStates /\ z.label = x.label /\ z.queue = x.queue /\ z.listed = x.listed
      /\ z.ok = x.ok /\ z.held = x.held /\ z.parts = Parts[x.label]
  <2>1. Parts[x.label] \subseteq AllParts
    BY <1>1, FileFacts
  <2> QED BY <1>1, <2>1 DEF RunStates
<1>3. call(r, x.held, {}, y)
  BY <1>2 DEF PublishAssets
<1>4. Assets(x.label) \subseteq files /\ x.held \in SUBSET Files /\ Parts[x.label] # {}
  BY <1>1, FileFacts DEF RunInv, PostInv, RunStates
<1> HIDE DEF z
<1>5. Listed(z, named)
  BY <1>1, <1>2 DEF Listed
<1>6. y \in RunStates /\ RunInv(y, files, named)
  <2>1. CASE z.label \in Cores
    <3>1. Transfer(z) \in RunStates /\ RunInv(Transfer(z), files, named)
      BY <1>1, <1>2, <1>4, <1>5, TransferFacts
    <3> QED BY <2>1, <3>1
  <2>2. CASE z.label \notin Cores
    <3> DEFINE w == Step(z, "archive")
    <3>1. /\ w \in RunStates /\ w.pc = "archive" /\ w.label = x.label /\ w.queue = x.queue
          /\ w.listed = x.listed /\ w.ok = x.ok /\ w.parts = Parts[x.label]
          /\ w.attempt <= Retries["archive"]
      BY <1>2, StepFacts DEF Pcs, Calls
    <3> HIDE DEF w
    <3>2. StepInv(w)
      BY <1>1, <3>1 DEF StepInv, AtRelease, Calls
    <3>3. PostInv(w, files)
      BY <1>4, <3>1 DEF PostInv
    <3>4. SeenInv(w, named)
      BY <1>1, <3>1 DEF SeenInv, Listed, Pending, AtRelease, Calls
    <3>5. y = w
      BY <2>2 DEF w
    <3> QED BY <3>1, <3>2, <3>3, <3>4, <3>5 DEF RunInv
  <2> QED BY <2>1, <2>2
<1> HIDE DEF y
<1> QED BY <1>1, <1>3, <1>4, <1>6, CallFacts

\* No index of a part that is still to be transferred is relied on.
LEMMA ReadArchiveStep ==
  ASSUME IInv, NEW r \in Runs, ReadArchive(r)
  PROVE  IInv'
<1> DEFINE x == run[r]
<1>1. /\ x \in RunStates /\ x.label \in Labels /\ RunInv(x, published, named) /\ Listed(x, named)
      /\ x.pc = "archive" /\ x.pc \in Calls
  BY AtReleaseFacts DEF ReadArchive, AtRelease, Calls
<1>2. Assets(x.label) \subseteq published /\ x.parts = Parts[x.label]
  BY <1>1 DEF RunInv, PostInv
<1>3. Transfer(x) \in RunStates /\ RunInv(Transfer(x), published \cup {}, named)
  BY <1>1, <1>2, TransferFacts
<1>4. call(r, {}, {}, Transfer(x))
  BY DEF ReadArchive
<1> QED BY <1>1, <1>3, <1>4, CallFacts

\* An index of the part is still to be staged, or held.
LEMMA UploadStep ==
  ASSUME IInv, NEW r \in Runs, Upload(r)
  PROVE  IInv'
<1> DEFINE x == run[r]
<1>1. /\ x \in RunStates /\ x.label \in Labels /\ RunInv(x, published, named) /\ Listed(x, named)
      /\ x.pc = "upload" /\ x.pc \in Calls
  BY AtReleaseFacts DEF Upload, AtRelease, Calls
<1> DEFINE f == CHOOSE g \in x.todo : TRUE
           t == x.todo \ {f}
           h == x.held \cup {f}
           z == [x EXCEPT !.todo = t, !.held = h]
           y == Step(z, IF z.todo = {} THEN "indexes" ELSE "upload")
<1>2. f \in x.todo /\ t \in SUBSET Files /\ h \in SUBSET Files
  <2>1. x.todo # {} /\ x.todo \subseteq Files /\ x.held \subseteq Files
    BY <1>1 DEF RunInv, StepInv, RunStates
  <2> QED BY <2>1
<1>3. /\ Indexes(x.label, Part(x)) \subseteq t \cup h /\ Assets(x.label) \subseteq published
      /\ \A p \in Parts[x.label] \ x.parts : Indexes(x.label, p) \subseteq published
      /\ x.parts # {}
  BY <1>1, <1>2 DEF RunInv, StepInv, PostInv
<1>4. call(r, {}, {}, y)
  BY DEF Upload
<1> HIDE DEF f, t, h
<1>5. /\ z \in RunStates /\ z.label = x.label /\ z.queue = x.queue /\ z.listed = x.listed
      /\ z.ok = x.ok /\ z.todo = t /\ z.held = h /\ z.parts = x.parts
  BY <1>1, <1>2 DEF RunStates
<1> HIDE DEF z
<1>6. /\ y \in RunStates /\ y.pc = (IF t = {} THEN "indexes" ELSE "upload")
      /\ y.label = x.label /\ y.queue = x.queue /\ y.listed = x.listed /\ y.parts = x.parts
      /\ y.ok = x.ok /\ y.todo = t /\ y.held = h /\ y.attempt <= Retries[y.pc]
  BY <1>5, StepFacts DEF Pcs, Calls
<1>7. Part(y) = Part(x)
  BY <1>6 DEF Part
<1> HIDE DEF y
<1>8. StepInv(y)
  BY <1>1, <1>3, <1>6 DEF StepInv, AtRelease, Calls
<1>9. PostInv(y, published)
  BY <1>3, <1>6, <1>7 DEF PostInv
<1>10. SeenInv(y, named)
  BY <1>1, <1>6 DEF SeenInv, Listed, Pending, AtRelease, Calls
<1>11. RunInv(y, published \cup {}, named)
  BY <1>8, <1>9, <1>10 DEF RunInv
<1> QED BY <1>1, <1>4, <1>6, <1>11, CallFacts

\* An index of the part is held, or in the catalog; with none held, all of them are.
LEMMA PublishIndexesStep ==
  ASSUME IInv, NEW r \in Runs, PublishIndexes(r)
  PROVE  IInv'
<1> DEFINE x == run[r]
<1>1. /\ x \in RunStates /\ x.label \in Labels /\ RunInv(x, published, named) /\ Listed(x, named)
      /\ x.pc = "indexes" /\ x.pc \in Calls
  BY AtReleaseFacts DEF PublishIndexes, AtRelease, Calls
<1> DEFINE b == CHOOSE c \in SUBSET x.held : Cardinality(c) = Batch \/ c = x.held
           h == x.held \ b
           z == [x EXCEPT !.held = h]
           y == Step(z, IF z.held = {} THEN "transferred" ELSE "indexes")
           files == published \cup b
<1>2. b \subseteq x.held
  <2>1. \E c \in SUBSET x.held : Cardinality(c) = Batch \/ c = x.held
    <3>1. x.held \in SUBSET x.held
      OBVIOUS
    <3> QED BY <3>1
  <2> QED BY <2>1
<1>3. call(r, b, {}, y)
  BY DEF PublishIndexes
<1> HIDE DEF b
<1>4. b \in SUBSET Files /\ h \in SUBSET Files /\ x.held \subseteq h \cup b
  BY <1>1, <1>2 DEF RunStates
<1>5. /\ Indexes(x.label, Part(x)) \subseteq h \cup files /\ Assets(x.label) \subseteq files
      /\ \A p \in Parts[x.label] \ x.parts : Indexes(x.label, p) \subseteq files
      /\ x.parts # {}
  BY <1>1, <1>4 DEF RunInv, StepInv, PostInv
<1> HIDE DEF h, files
<1>6. /\ z \in RunStates /\ z.label = x.label /\ z.queue = x.queue /\ z.listed = x.listed
      /\ z.ok = x.ok /\ z.held = h /\ z.parts = x.parts
  BY <1>1, <1>4 DEF RunStates
<1> HIDE DEF z
<1>7. /\ y \in RunStates /\ y.pc = (IF h = {} THEN "transferred" ELSE "indexes")
      /\ y.label = x.label /\ y.queue = x.queue /\ y.listed = x.listed /\ y.parts = x.parts
      /\ y.ok = x.ok /\ y.held = h /\ y.attempt <= Retries[y.pc]
  BY <1>6, StepFacts DEF Pcs, Calls
<1>8. Part(y) = Part(x)
  BY <1>7 DEF Part
<1> HIDE DEF y
<1>9. StepInv(y)
  BY <1>1, <1>5, <1>7 DEF StepInv, AtRelease, Calls
<1>10. PostInv(y, files)
  BY <1>5, <1>7, <1>8 DEF PostInv
<1>11. SeenInv(y, named)
  BY <1>1, <1>7 DEF SeenInv, Listed, Pending, AtRelease, Calls
<1>12. RunInv(y, published \cup b, named)
  BY <1>9, <1>10, <1>11 DEF RunInv, files
<1> QED BY <1>1, <1>3, <1>4, <1>7, <1>12, CallFacts

\* The record is made of a release whose every file is in the catalog.
LEMMA PostRecordStep ==
  ASSUME IInv, NEW r \in Runs, PostRecord(r)
  PROVE  IInv'
<1> DEFINE x == run[r]
<1>1. /\ x \in RunStates /\ x.label \in Labels /\ RunInv(x, published, named) /\ Listed(x, named)
      /\ x.pc = "record" /\ x.pc \in Calls
  BY AtReleaseFacts DEF PostRecord, AtRelease, Calls
<1> DEFINE l == x.label
           z == [x EXCEPT !.parts = Parts[l]]
           y == ReadBack(z)
<1>2. /\ z \in RunStates /\ z.label = l /\ z.queue = x.queue /\ z.listed = x.listed
      /\ z.ok = x.ok /\ z.parts = Parts[l]
  <2>1. Parts[l] \subseteq AllParts
    BY <1>1, FileFacts
  <2> QED BY <1>1, <2>1 DEF RunStates
<1>3. call(r, {}, {l}, y)
  BY DEF PostRecord
<1> HIDE DEF z
<1>4. Listed(z, named)
  BY <1>1, <1>2 DEF Listed
<1>5. y \in RunStates /\ RunInv(y, published \cup {}, named)
  BY <1>1, <1>2, <1>4, ReadBackFacts
<1>6. Assets(l) \cup UNION {Indexes(l, p) : p \in Parts[l]} \subseteq published
  BY <1>1 DEF RunInv, PostInv
<1>7. {l} \in SUBSET Labels /\ {} \in SUBSET Files
  BY <1>1
<1> HIDE DEF y
<1> QED BY <1>1, <1>3, <1>5, <1>6, <1>7, CallFacts

\* A part that is read back is done with, its indexes in the catalog.
LEMMA ReadTransferStep ==
  ASSUME IInv, NEW r \in Runs, ReadTransfer(r)
  PROVE  IInv'
<1> DEFINE x == run[r]
<1>1. /\ x \in RunStates /\ x.label \in Labels /\ RunInv(x, published, named) /\ Listed(x, named)
      /\ x.pc = "transferred" /\ x.pc \in Calls
  BY AtReleaseFacts DEF ReadTransfer, AtRelease, Calls
<1> DEFINE p == Part(x)
           z == [x EXCEPT !.parts = x.parts \ {p}]
           good == Assets(x.label) \cup Indexes(x.label, p) \subseteq published
<1>2. /\ z \in RunStates /\ z.label = x.label /\ z.queue = x.queue /\ z.listed = x.listed
      /\ z.ok = x.ok /\ z.parts = x.parts \ {p}
  BY <1>1 DEF RunStates
<1>3. Poll(r, good, FALSE, Transfer(z))
  BY DEF ReadTransfer
<1> HIDE DEF z
<1>4. Listed(z, named)
  BY <1>1, <1>2 DEF Listed
<1>5. /\ Assets(x.label) \subseteq published
      /\ \A q \in Parts[x.label] \ z.parts : Indexes(x.label, q) \subseteq published
  BY <1>1, <1>2 DEF RunInv, PostInv
<1>6. Transfer(z) \in RunStates /\ RunInv(Transfer(z), published, named)
  BY <1>1, <1>2, <1>4, <1>5, TransferFacts
<1> HIDE DEF good
<1> QED BY <1>1, <1>3, <1>6, PollFacts

\* A manifest that names the release, from res or from an edge, is one that res has given.
LEMMA ReadManifestStep ==
  ASSUME IInv, NEW r \in Runs, ReadManifest(r)
  PROVE  IInv'
<1> DEFINE x == run[r]
<1>1. /\ x \in RunStates /\ x.label \in Labels /\ RunInv(x, published, named) /\ Listed(x, named)
      /\ x.pc = "manifest" /\ x.pc \in Calls
  BY AtReleaseFacts DEF ReadManifest, AtRelease, Calls
<1> DEFINE y == Step(x, "document")
<1>2. PICK seen \in {recorded, edge} :
        Poll(r, Latest(seen, x.label, Part(x)), seen # recorded, y)
  BY DEF ReadManifest
<1>3. x.parts # {}
  BY <1>1 DEF RunInv, StepInv
<1>4. /\ y \in RunStates /\ y.pc = "document" /\ y.label = x.label /\ y.queue = x.queue
      /\ y.listed = x.listed /\ y.ok = x.ok /\ y.parts = x.parts /\ Part(y) = Part(x)
      /\ y.attempt <= Retries["document"]
  BY <1>1, StepFacts DEF Pcs, Calls
<1> HIDE DEF y
<1>5. ASSUME Latest(seen, x.label, Part(x))
      PROVE  RunInv(y, published, named)
  <2>1. LatestNamed(seen, named)
    BY <1>2 DEF IInv
  <2>2. x.label \in seen /\ Part(x) \in x.parts
    BY <1>3, <1>5, PartFacts DEF Latest
  <2>3. Part(x) \in Parts[x.label] => <<x.label, Part(x)>> \in named
    BY <1>1, <1>5, <2>1 DEF LatestNamed
  <2>4. StepInv(y)
    BY <1>1, <1>3, <1>4 DEF StepInv, AtRelease, Calls
  <2>5. PostInv(y, published)
    BY <1>4 DEF PostInv
  <2>6. SeenInv(y, named)
    BY <1>1, <1>4, <2>2, <2>3 DEF RunInv, SeenInv, Listed, Pending, AtRelease, Calls
  <2> QED BY <2>4, <2>5, <2>6 DEF RunInv
<1> QED BY <1>1, <1>2, <1>4, <1>5, PollFacts

\* A part that is read back has been the latest.
LEMMA ReadDocumentStep ==
  ASSUME IInv, NEW r \in Runs, ReadDocument(r)
  PROVE  IInv'
<1> DEFINE x == run[r]
<1>1. /\ x \in RunStates /\ x.label \in Labels /\ RunInv(x, published, named) /\ Listed(x, named)
      /\ x.pc = "document" /\ x.pc \in Calls
  BY AtReleaseFacts DEF ReadDocument, AtRelease, Calls
<1> DEFINE p == Part(x)
           z == [x EXCEPT !.parts = x.parts \ {p}]
<1>2. /\ z \in RunStates /\ z.label = x.label /\ z.queue = x.queue /\ z.listed = x.listed
      /\ z.ok = x.ok /\ z.parts = x.parts \ {p}
  BY <1>1 DEF RunStates
<1>3. PICK seen \in {recorded, edge} :
        Poll(r, x.label \in seen /\ Assets(x.label) \subseteq published, seen # recorded, ReadBack(z))
  BY DEF ReadDocument
<1> HIDE DEF z
<1>4. Listed(z, named)
  BY <1>1, <1>2 DEF Listed
<1>5. \A q \in Parts[x.label] \ z.parts : <<x.label, q>> \in named
  BY <1>1, <1>2 DEF RunInv, SeenInv
<1>6. ReadBack(z) \in RunStates /\ RunInv(ReadBack(z), published, named)
  BY <1>1, <1>2, <1>4, <1>5, ReadBackFacts
<1> QED BY <1>1, <1>3, <1>6, PollFacts

-----------------------------------------------------------------------------
(* The theorems. *)

\* The invariant holds at first.
LEMMA IInvInit == Init => IInv
<1> SUFFICES ASSUME Init
             PROVE  IInv
  OBVIOUS
<1>1. /\ github \in Histories /\ published = {} /\ recorded = {} /\ edge = {} /\ named = {}
      /\ run = [r \in Runs |-> Idle] /\ faults = 0
  BY DEF Init
<1>2. Idle \in RunStates /\ RunInv(Idle, published, named)
  BY DEF Idle, RunStates, Pcs, Nothing, RunInv, StepInv, PostInv, SeenInv, AtRelease, Calls
<1>3. \A r \in Runs : run[r] \in RunStates /\ RunInv(run[r], published, named)
  BY <1>1, <1>2
<1>4. run \in [Runs -> RunStates]
  BY <1>1, <1>3
<1>5. github \subseteq Labels /\ faults \in 0 .. MaxFaults
  BY <1>1, ResAssumption
<1>6. TypeOK
  BY <1>1, <1>3, <1>4, <1>5 DEF TypeOK, RunInv, StepInv
<1>7. VisibleComplete /\ LatestNamed(recorded, named) /\ LatestNamed(edge, named)
  BY <1>1 DEF VisibleComplete, LatestNamed, Latest
<1> QED BY <1>3, <1>6, <1>7 DEF IInv

\* Every step keeps the invariant.
LEMMA IInvNext == IInv /\ [Next]_vars => IInv'
<1> SUFFICES ASSUME IInv, [Next]_vars
             PROVE  IInv'
  OBVIOUS
<1>1. ASSUME NEW r \in Manual, Dispatch(r)
      PROVE  IInv'
  BY <1>1, DispatchStep
<1>2. ASSUME NEW r \in Releasing, NEW l \in Labels, Attach(r, l)
      PROVE  IInv'
  BY <1>2, AttachStep
<1>3. ASSUME NEW r \in Runs, Work(r)
      PROVE  IInv'
  <2>1. CASE ListReleases(r)
    BY <2>1, ListReleasesStep
  <2>2. CASE ReadRelease(r)
    BY <2>2, ReadReleaseStep
  <2>3. CASE Stage(r)
    BY <2>3, StageStep
  <2>4. CASE PublishAssets(r)
    BY <2>4, PublishAssetsStep
  <2>5. CASE ReadArchive(r)
    BY <2>5, ReadArchiveStep
  <2>6. CASE Upload(r)
    BY <2>6, UploadStep
  <2>7. CASE PublishIndexes(r)
    BY <2>7, PublishIndexesStep
  <2>8. CASE ReadTransfer(r)
    BY <2>8, ReadTransferStep
  <2>9. CASE PostRecord(r)
    BY <2>9, PostRecordStep
  <2>10. CASE ReadManifest(r)
    BY <2>10, ReadManifestStep
  <2>11. CASE ReadDocument(r)
    BY <2>11, ReadDocumentStep
  <2>12. CASE Report(r)
    BY <2>12, ReportStep
  <2> QED BY <1>3, <2>1, <2>2, <2>3, <2>4, <2>5, <2>6, <2>7, <2>8, <2>9, <2>10, <2>11, <2>12 DEF Work
<1>4. CASE UNCHANGED vars
  <2>1. /\ github' = github /\ published' = published /\ recorded' = recorded /\ edge' = edge
        /\ run' = run /\ faults' = faults /\ named' = named
    BY <1>4 DEF vars, resVars
  <2>2. TypeOK'
    BY <2>1 DEF IInv, TypeOK
  <2>3. VisibleComplete' /\ LatestNamed(recorded', named') /\ LatestNamed(edge', named')
    BY <2>1 DEF IInv, VisibleComplete
  <2>4. \A r \in Runs : RunInv(run'[r], published', named')
    BY <2>1 DEF IInv
  <2> QED BY <2>2, <2>3, <2>4 DEF IInv
<1> QED BY <1>1, <1>2, <1>3, <1>4 DEF Next

\* What the other theorems rest on: the invariant of the runs and of res.
THEOREM ResInvariant == Spec => []IInv
BY IInvInit, IInvNext, PTL DEF Spec

\* Every reachable state has its type, whatever the releases and the runs.
THEOREM ResTypeCorrect == Spec => []TypeOK
<1>1. IInv => TypeOK
  BY DEF IInv
<1> QED BY <1>1, ResInvariant, PTL

\* A release that res names has every asset and every index a device will ask for, whichever
\* calls were lost, repeated or refused and however many runs post it at once.
THEOREM VisibleCompleteCorrect == Spec => []VisibleComplete
<1>1. IInv => VisibleComplete
  BY DEF IInv
<1> QED BY <1>1, ResInvariant, PTL

\* A run reports success only when each release of its list has been the latest of each of its
\* parts, however stale the documents it read back.
THEOREM GreenRunCorrect == Spec => []GreenRunPosted
<1>1. IInv => GreenRunPosted
  <2> SUFFICES ASSUME IInv, NEW r \in Runs, run[r].pc = "report", run[r].ok,
                      NEW l \in run[r].listed, NEW p \in Parts[l]
               PROVE  <<l, p>> \in named
    BY DEF GreenRunPosted
  <2>1. StepInv(run[r]) /\ SeenInv(run[r], named)
    BY DEF IInv, RunInv
  <2>2. Pending(run[r]) = {}
    BY <2>1 DEF StepInv, Pending, AtRelease, Calls
  <2> QED BY <2>1, <2>2 DEF SeenInv
<1> QED BY <1>1, ResInvariant, PTL
-----------------------------------------------------------------------------
(* Why a release is given up, and what a reset res gets back.               *)

\* A newer release of the line of a release is recorded.
Newer(l, records) == \E m \in records : Scope[m] = Scope[l] /\ Stamp[m] > Stamp[l]

\* Each attempt of a run, and what it has given up, has its reason.
TriedInv(x, n, records) ==
  /\ x.pc \in Calls => x.attempt <= n \/ Newer(x.label, records)
  /\ x.pc \in {"manifest", "document"} => x.label \in records
  /\ \A g \in x.gaveUp : g[2] \in Calls /\ (n > Retries[g[2]] \/ Newer(g[1], records))

\* A run alone on an empty res: what it has not recorded is still to come, and is newer.
ResetInv(x, n, hub, records) ==
  x.alone /\ x.only = {} /\ n = 0 /\ x.pc # "idle" =>
    /\ x.ok
    /\ x.pc = "list" => records = {}
    /\ x.pc # "list" => hub \subseteq records \cup Pending(x)
    /\ \A m \in records : \A l \in Pending(x) : Stamp[m] <= Stamp[l]
    /\ x.pc \in AtRelease => \A l \in x.queue : Stamp[x.label] <= Stamp[l]

ReasonInv ==
  /\ \A r \in Runs : TriedInv(run[r], faults, recorded) /\ ResetInv(run[r], faults, github, recorded)
  /\ \A r \in Runs : run[r].alone => \A q \in Runs \ {r} : run[q].pc = "idle"

\* The number of the faults and of the attempts.
LEMMA Numbers ==
  ASSUME IInv
  PROVE  /\ faults \in Nat /\ MaxFaults \in Nat /\ \A pc \in Calls : Retries[pc] \in Nat
         /\ \A l \in Labels : Stamp[l] \in Nat
         /\ \A r \in Runs : run[r] \in RunStates /\ RunInv(run[r], published, named)
         /\ run \in [Runs -> RunStates] /\ github \subseteq Labels /\ recorded \subseteq Labels
<1>1. \A pc \in Calls : Retries[pc] \in Nat
  BY ResAssumption DEF Calls, Retries
<1>2. faults \in 0 .. MaxFaults /\ MaxFaults \in Nat /\ \A l \in Labels : Stamp[l] \in Nat
  BY ResAssumption DEF IInv, TypeOK
<1> QED BY <1>1, <1>2 DEF IInv, TypeOK

\* The next release of a list is the oldest; nothing else of the run changes.
LEMMA OnwardKeeps ==
  ASSUME NEW x \in RunStates
  PROVE  /\ Onward(x).only = x.only /\ Onward(x).alone = x.alone /\ Onward(x).gaveUp = x.gaveUp
         /\ Onward(x).pc = "read" => \A l \in Onward(x).queue : Stamp[Onward(x).label] <= Stamp[l]
<1> DEFINE o == Oldest(x.queue)
           q == x.queue \ {o}
           y == [x EXCEPT !.parts = {}, !.todo = {}, !.held = {}, !.attempt = 0]
<1>0. y \in RunStates /\ y.only = x.only /\ y.alone = x.alone /\ y.gaveUp = x.gaveUp /\ y.queue = x.queue
      /\ x.queue \subseteq Labels
  BY DEF RunStates
<1>1. CASE x.queue = {}
  <2>1. Onward(x) = [y EXCEPT !.pc = "report", !.label = Nothing]
    BY <1>1 DEF Onward
  <2> HIDE DEF y
  <2> QED BY <1>0, <2>1 DEF RunStates
<1>2. CASE x.queue # {}
  <2>1. \A l \in q : Stamp[o] <= Stamp[l]
    BY <1>0, <1>2, OldestFacts
  <2>2. Onward(x) = [y EXCEPT !.pc = "read", !.label = o, !.queue = y.queue \ {o}]
    BY <1>2 DEF Onward
  <2> HIDE DEF y, o
  <2> QED BY <1>0, <2>1, <2>2 DEF RunStates
<1> QED BY <1>1, <1>2

\* What the run has failed at or given up, and that it goes on with the next release.
LEMMA FailedKeeps ==
  ASSUME NEW x \in RunStates, x.pc \in Pcs, x.label \in Labels
  PROVE  /\ GivenUp(x).pc \in {"read", "report"} /\ GivenUp(x).gaveUp = {<<x.label, x.pc>>}
         /\ GivenUp(x).only = x.only /\ GivenUp(x).alone = x.alone
         /\ Failed(x).pc \in {"read", "report"} /\ Failed(x).gaveUp = {}
         /\ Failed(x).only = x.only /\ Failed(x).alone = x.alone
<1> DEFINE g == {<<x.label, x.pc>>}
           y == [x EXCEPT !.gaveUp = g, !.ok = FALSE]
           z == [x EXCEPT !.gaveUp = {}, !.ok = FALSE]
<1>1. g \in SUBSET (Labels \X Pcs)
  OBVIOUS
<1>2. GivenUp(x) = Onward(y) /\ Failed(x) = Onward(z)
  BY DEF GivenUp, Failed
<1> HIDE DEF g
<1>3. /\ y \in RunStates /\ y.gaveUp = g /\ y.only = x.only /\ y.alone = x.alone
      /\ z \in RunStates /\ z.gaveUp = {} /\ z.only = x.only /\ z.alone = x.alone
  BY <1>1 DEF RunStates
<1> HIDE DEF y, z
<1> QED BY <1>2, <1>3, OnwardFacts, OnwardKeeps DEF g

\* A run that moves, and those beside it.
LEMMA ReasonKept ==
  ASSUME IInv, ReasonInv, NEW r \in Runs, run[r].pc # "idle", NEW y \in RunStates, run' = [run EXCEPT ![r] = y],
         y.alone => run[r].alone, faults' \in Nat, faults <= faults', recorded \subseteq recorded',
         TriedInv(y, faults', recorded'), ResetInv(y, faults', github', recorded')
  PROVE  ReasonInv'
<1>1. /\ run'[r] = y /\ \A q \in Runs : q # r => run'[q] = run[q]
  BY Numbers
<1>2. \A q \in Runs : q # r => ~run[q].alone
  BY DEF ReasonInv
<1>3. ASSUME NEW q \in Runs
      PROVE  TriedInv(run'[q], faults', recorded') /\ ResetInv(run'[q], faults', github', recorded')
  <2>1. CASE q = r
    BY <1>1, <2>1
  <2>2. CASE q # r
    <3>1. run'[q] = run[q] /\ TriedInv(run[q], faults, recorded) /\ run[q] \in RunStates /\ run[q].attempt \in Nat
      BY <1>1, <2>2, Numbers DEF ReasonInv, RunStates
    <3>2. \A l : Newer(l, recorded) => Newer(l, recorded')
      BY DEF Newer
    <3>3. \A k \in Nat : k <= faults => k <= faults'
      BY Numbers
    <3>4. \A g \in run[q].gaveUp : g[2] \in Calls /\ (faults > Retries[g[2]] => faults' > Retries[g[2]])
      <4> TAKE g \in run[q].gaveUp
      <4>1. g[2] \in Calls /\ Retries[g[2]] \in Nat /\ faults \in Nat
        BY <3>1, Numbers DEF TriedInv
      <4> QED BY <4>1
    <3>5. TriedInv(run[q], faults', recorded')
      BY <3>1, <3>2, <3>3, <3>4 DEF TriedInv
    <3>6. ResetInv(run[q], faults', github', recorded')
      BY <1>2, <2>2 DEF ResetInv
    <3> QED BY <3>1, <3>5, <3>6
  <2> QED BY <2>1, <2>2
<1>4. ASSUME NEW p \in Runs, run'[p].alone, NEW q \in Runs \ {p}
      PROVE  run'[q].pc = "idle"
  <2>1. p = r
    BY <1>1, <1>2, <1>4
  <2> QED BY <1>1, <1>4, <2>1 DEF ReasonInv
<1> QED BY <1>3, <1>4 DEF ReasonInv

\* The run goes on: with the next step of its release, or with the next release once this
\* one is recorded.
GoesOn(x, y, records) ==
  /\ y.only = x.only /\ y.alone = x.alone /\ y.ok = x.ok
  /\ \/ /\ y.pc \in Calls /\ y.attempt = 0
        /\ y.label = x.label /\ y.queue = x.queue /\ y.gaveUp = x.gaveUp
        /\ y.pc \in {"manifest", "document"} => x.label \in records
     \/ /\ y.pc \in {"read", "report"} /\ y.gaveUp = {} /\ Pending(y) = x.queue
        /\ y.pc = "read" => \A l \in y.queue : Stamp[y.label] <= Stamp[l]
        /\ x.label \in records

\* A run that goes on has nothing of its release left behind.
LEMMA GoesOnKept ==
  ASSUME IInv, ReasonInv, NEW r \in Runs, run[r].pc \in AtRelease, NEW y \in RunStates,
         run' = [run EXCEPT ![r] = y], GoesOn(run[r], y, recorded'),
         faults' = faults, github' = github,
         recorded \subseteq recorded', recorded' \subseteq recorded \cup {run[r].label}
  PROVE  ReasonInv'
<1> DEFINE x == run[r]
<1>1. /\ x \in RunStates /\ x.label \in Labels /\ x.queue \subseteq Labels /\ Pending(x) = x.queue \cup {x.label}
      /\ TriedInv(x, faults, recorded) /\ ResetInv(x, faults, github, recorded)
      /\ faults \in Nat /\ recorded \subseteq Labels /\ x.pc # "idle" /\ x.pc # "list"
  <2>1. x \in RunStates /\ x.label \in Labels /\ faults \in Nat /\ recorded \subseteq Labels
    BY AtReleaseFacts, Numbers
  <2>2. x.pc # "idle" /\ x.pc # "list"
    BY DEF AtRelease, Calls
  <2>3. x.queue \subseteq Labels /\ Pending(x) = x.queue \cup {x.label}
    BY <2>1 DEF Pending, RunStates
  <2> QED BY <2>1, <2>2, <2>3 DEF ReasonInv
<1>2. \A l : Newer(l, recorded) => Newer(l, recorded')
  BY DEF Newer
<1>3. TriedInv(y, faults, recorded')
  <2>1. CASE y.pc \in Calls
    <3>1. y.attempt <= faults /\ y.gaveUp = x.gaveUp /\ y.label = x.label
          /\ (y.pc \in {"manifest", "document"} => x.label \in recorded')
      BY <1>1, <2>1 DEF GoesOn, Calls
    <3> QED BY <1>1, <1>2, <3>1 DEF TriedInv
  <2>2. CASE y.pc \notin Calls
    <3>1. y.gaveUp = {} /\ y.pc \notin {"manifest", "document"}
      BY <2>2 DEF GoesOn, Calls
    <3> QED BY <2>2, <3>1 DEF TriedInv
  <2> QED BY <2>1, <2>2
<1>4. ResetInv(y, faults, github, recorded')
  <2> SUFFICES ASSUME x.alone, x.only = {}, faults = 0
               PROVE  /\ y.ok /\ y.pc # "list"
                      /\ github \subseteq recorded' \cup Pending(y)
                      /\ \A m \in recorded' : \A l \in Pending(y) : Stamp[m] <= Stamp[l]
                      /\ y.pc \in AtRelease => \A l \in y.queue : Stamp[y.label] <= Stamp[l]
    BY DEF ResetInv, GoesOn
  <2>1. /\ x.ok /\ github \subseteq recorded \cup x.queue \cup {x.label}
        /\ \A m \in recorded : \A l \in x.queue \cup {x.label} : Stamp[m] <= Stamp[l]
        /\ \A l \in x.queue : Stamp[x.label] <= Stamp[l]
    BY <1>1 DEF ResetInv
  <2>2. Stamp[x.label] <= Stamp[x.label]
    BY <1>1, Numbers
  <2>3. CASE y.pc \in Calls
    <3>1. y.label = x.label /\ y.queue = x.queue /\ y.ok = x.ok /\ y.pc # "list"
          /\ Pending(y) = x.queue \cup {x.label}
      BY <2>3 DEF GoesOn, Calls, Pending, AtRelease
    <3>2. \A m \in recorded' : \A l \in x.queue \cup {x.label} : Stamp[m] <= Stamp[l]
      BY <2>1, <2>2
    <3> QED BY <2>1, <3>1, <3>2
  <2>4. CASE y.pc \notin Calls
    <3>1. y.pc \in {"read", "report"} /\ Pending(y) = x.queue /\ y.ok = x.ok /\ x.label \in recorded'
          /\ (y.pc = "read" => \A l \in y.queue : Stamp[y.label] <= Stamp[l])
      BY <2>4 DEF GoesOn
    <3>2. \A m \in recorded' : \A l \in x.queue : Stamp[m] <= Stamp[l]
      BY <2>1
    <3>3. y.pc \in AtRelease => y.pc = "read"
      BY <2>4 DEF AtRelease
    <3> QED BY <2>1, <3>1, <3>2, <3>3
  <2> QED BY <2>3, <2>4
<1>5. /\ y.alone => x.alone
      /\ faults' \in Nat /\ faults <= faults'
      /\ TriedInv(y, faults', recorded') /\ ResetInv(y, faults', github', recorded')
  BY <1>1, <1>3, <1>4 DEF GoesOn
<1> QED BY <1>1, <1>5, ReasonKept

\* One more attempt is one more fault, or a newer release is recorded.
LEMMA AgainTried ==
  ASSUME NEW x \in RunStates, x.pc \in Calls, x.label \in Labels,
         NEW n \in Nat, NEW m \in Nat, n <= m, NEW before, NEW after, before \subseteq after,
         TriedInv(x, n, before), m = n + 1 \/ Newer(x.label, after),
         \A pc \in Calls : Retries[pc] \in Nat
  PROVE  /\ Again(x) \in RunStates /\ TriedInv(Again(x), m, after)
         /\ Again(x).only = x.only /\ Again(x).alone = x.alone
<1>1. x.pc \in Pcs /\ Retries[x.pc] \in Nat /\ x.attempt \in Nat
      /\ (x.attempt <= n \/ Newer(x.label, after))
  <2>1. Newer(x.label, before) => Newer(x.label, after)
    BY DEF Newer
  <2> QED BY <2>1 DEF TriedInv, RunStates
<1>2. CASE x.attempt < Retries[x.pc]
  <2> DEFINE y == [x EXCEPT !.attempt = x.attempt + 1]
  <2>1. /\ y \in RunStates /\ y.pc = x.pc /\ y.label = x.label /\ y.attempt = x.attempt + 1
        /\ y.gaveUp = x.gaveUp /\ y.only = x.only /\ y.alone = x.alone
    BY <1>1 DEF RunStates
  <2>2. Again(x) = y
    BY <1>2 DEF Again
  <2> HIDE DEF y
  <2>3. y.attempt <= m \/ Newer(x.label, after)
    BY <1>1, <2>1
  <2>4. \A g \in x.gaveUp : g[2] \in Calls /\ (m > Retries[g[2]] \/ Newer(g[1], after))
    <3> TAKE g \in x.gaveUp
    <3>1. g[2] \in Calls /\ Retries[g[2]] \in Nat /\ (n > Retries[g[2]] \/ Newer(g[1], before))
      BY DEF TriedInv
    <3>2. Newer(g[1], before) => Newer(g[1], after)
      BY DEF Newer
    <3>3. n > Retries[g[2]] => m > Retries[g[2]]
      BY <3>1
    <3> QED BY <3>1, <3>2, <3>3
  <2>5. TriedInv(y, m, after)
    BY <2>1, <2>3, <2>4 DEF TriedInv
  <2> QED BY <2>1, <2>2, <2>5
<1>3. CASE ~(x.attempt < Retries[x.pc])
  <2>1. Again(x) = GivenUp(x)
    BY <1>3 DEF Again
  <2>2. /\ GivenUp(x).pc \in {"read", "report"} /\ GivenUp(x).gaveUp = {<<x.label, x.pc>>}
        /\ GivenUp(x).only = x.only /\ GivenUp(x).alone = x.alone
    BY <1>1, FailedKeeps
  <2>3. GivenUp(x) \in RunStates
    BY <1>1, FailedFacts
  <2>4. m > Retries[x.pc] \/ Newer(x.label, after)
    BY <1>1, <1>3
  <2>5. TriedInv(GivenUp(x), m, after)
    BY <2>2, <2>4 DEF TriedInv, Calls
  <2> QED BY <2>1, <2>2, <2>3, <2>5
<1> QED BY <1>2, <1>3

\* An attempt that was lost, or that a newer release makes of no use.
LEMMA AgainKept ==
  ASSUME IInv, ReasonInv, NEW r \in Runs, run[r].pc \in Calls,
         run' = [run EXCEPT ![r] = Again(run[r])], recorded \subseteq recorded',
         faults' = faults + 1 \/ (faults' = faults /\ Newer(run[r].label, recorded))
  PROVE  ReasonInv'
<1> DEFINE x == run[r]
<1>1. /\ x \in RunStates /\ x.label \in Labels /\ faults \in Nat /\ x.pc # "idle"
      /\ TriedInv(x, faults, recorded) /\ ResetInv(x, faults, github, recorded)
      /\ recorded \subseteq Labels /\ x.label \in Pending(x)
  <2>1. x.pc \in AtRelease /\ x.pc # "idle"
    BY DEF AtRelease, Calls
  <2>2. x.label \in Pending(x)
    BY <2>1 DEF Pending
  <2> QED BY <2>1, <2>2, AtReleaseFacts, Numbers DEF ReasonInv
<1>2. faults' \in Nat /\ faults <= faults'
  BY <1>1
<1>3. Newer(x.label, recorded) => Newer(x.label, recorded')
  BY DEF Newer
<1>4. /\ Again(x) \in RunStates /\ TriedInv(Again(x), faults', recorded')
      /\ Again(x).only = x.only /\ Again(x).alone = x.alone
  <2>1. \A pc \in Calls : Retries[pc] \in Nat
    BY Numbers
  <2> HIDE DEF x
  <2>2. x.pc \in Calls /\ (faults' = faults + 1 \/ Newer(x.label, recorded'))
    BY <1>3 DEF x
  <2> QED BY <1>1, <1>2, <2>1, <2>2, AgainTried
<1>5. ~(x.alone /\ x.only = {} /\ faults' = 0)
  <2> SUFFICES ASSUME x.alone, x.only = {}, faults' = 0
               PROVE  FALSE
    OBVIOUS
  <2>1. faults = 0 /\ Newer(x.label, recorded)
    BY <1>1
  <2>2. PICK m \in recorded : Stamp[m] > Stamp[x.label]
    BY <2>1 DEF Newer
  <2>3. Stamp[m] <= Stamp[x.label]
    BY <1>1, <2>1 DEF ResetInv
  <2>4. Stamp[m] \in Nat /\ Stamp[x.label] \in Nat
    BY <1>1, Numbers
  <2> QED BY <2>2, <2>3, <2>4
<1>6. ResetInv(Again(x), faults', github', recorded')
  BY <1>4, <1>5 DEF ResetInv
<1> DEFINE y == Again(x)
<1>7. y \in RunStates /\ (y.alone => x.alone) /\ run' = [run EXCEPT ![r] = y]
      /\ TriedInv(y, faults', recorded') /\ ResetInv(y, faults', github', recorded')
  BY <1>4, <1>6
<1> HIDE DEF y
<1> QED BY <1>1, <1>2, <1>7, ReasonKept

\* A release that is refused: the run goes on with the next one.
LEMMA RefusedKept ==
  ASSUME IInv, ReasonInv, NEW r \in Runs, run[r].pc \in AtRelease, Refused(r)
  PROVE  ReasonInv'
<1> DEFINE x == run[r]
           y == Failed(x)
<1>1. /\ x \in RunStates /\ x.label \in Labels /\ x.pc \in Pcs /\ x.pc # "idle" /\ faults \in Nat
  BY AtReleaseFacts, Numbers DEF AtRelease, Calls
<1>2. /\ run' = [run EXCEPT ![r] = y] /\ faults' = faults + 1 /\ recorded' = recorded
  BY DEF Refused, Fault, resVars
<1>3. /\ y \in RunStates /\ y.pc \in {"read", "report"} /\ y.gaveUp = {}
      /\ y.only = x.only /\ y.alone = x.alone
  BY <1>1, FailedKeeps, FailedFacts
<1> HIDE DEF y
<1>4. TriedInv(y, faults', recorded')
  BY <1>3 DEF TriedInv, Calls
<1>5. ResetInv(y, faults', github', recorded')
  BY <1>1, <1>2 DEF ResetInv
<1>6. (y.alone => x.alone) /\ faults' \in Nat /\ faults <= faults' /\ recorded \subseteq recorded'
  BY <1>1, <1>2, <1>3
<1> QED BY <1>1, <1>2, <1>3, <1>4, <1>5, <1>6, ReasonKept

\* A call, however it is answered.
LEMMA CallKept ==
  ASSUME IInv, ReasonInv, NEW r \in Runs, run[r].pc \in Calls, NEW added,
         NEW records \in SUBSET {run[r].label}, NEW next \in RunStates,
         call(r, added, records, next), GoesOn(run[r], next, recorded \cup records)
  PROVE  ReasonInv'
<1> DEFINE x == run[r]
<1>1. x.pc \in AtRelease
  BY DEF AtRelease
<1>2. Accepted(added, records) => recorded' = recorded \cup records
  BY DEF Accepted
<1>3. UNCHANGED resVars => recorded' = recorded
  BY DEF resVars
<1>4. CASE Answered(r, added, records, next)
  <2>1. /\ run' = [run EXCEPT ![r] = next] /\ faults' = faults /\ github' = github
        /\ recorded' = recorded \cup records
    BY <1>2, <1>4 DEF Answered, call
  <2> QED BY <1>1, <2>1, GoesOnKept
<1>5. CASE Lost(r, added, records)
  <2>1. run' = [run EXCEPT ![r] = Again(x)] /\ faults' = faults + 1 /\ recorded \subseteq recorded'
    BY <1>2, <1>3, <1>5, Numbers DEF Lost, Fault
  <2> QED BY <2>1, AgainKept
<1>6. CASE Refused(r)
  BY <1>1, <1>6, RefusedKept
<1> QED BY <1>4, <1>5, <1>6 DEF call

\* A read, whatever it shows: one that res answers up to date fails for a newer release.
LEMMA PollKept ==
  ASSUME IInv, ReasonInv, NEW r \in Runs, run[r].pc \in Calls,
         NEW good \in BOOLEAN, NEW stale \in BOOLEAN, NEW next \in RunStates,
         Poll(r, good, stale, next), good => GoesOn(run[r], next, recorded),
         ~good /\ ~stale => Newer(run[r].label, recorded)
  PROVE  ReasonInv'
<1> DEFINE x == run[r]
<1>1. x.pc \in AtRelease /\ recorded' = recorded /\ github' = github
  BY DEF AtRelease, Poll, resVars
<1>2. CASE good /\ run' = [run EXCEPT ![r] = next] /\ faults' = faults
  BY <1>1, <1>2, GoesOnKept
<1>3. CASE ~good /\ ~stale /\ run' = [run EXCEPT ![r] = Again(x)] /\ faults' = faults
  BY <1>1, <1>3, AgainKept
<1>4. CASE Fault /\ run' = [run EXCEPT ![r] = Again(x)]
  BY <1>1, <1>4, AgainKept DEF Fault
<1>5. run' = [run EXCEPT ![r] = Again(@)] => run' = [run EXCEPT ![r] = Again(x)]
  BY Numbers
<1> QED BY <1>2, <1>3, <1>4, <1>5 DEF Poll

\* The next step keeps what the run was asked for and what it gave up.
LEMMA StepGoes ==
  ASSUME NEW x \in RunStates, NEW z \in RunStates, NEW pc \in Calls, NEW records,
         z.label = x.label, z.queue = x.queue, z.gaveUp = x.gaveUp,
         z.only = x.only, z.alone = x.alone, z.ok = x.ok,
         pc \in {"manifest", "document"} => x.label \in records
  PROVE  Step(z, pc) \in RunStates /\ GoesOn(x, Step(z, pc), records)
<1> DEFINE y == Step(z, pc)
<1>1. pc \in Pcs
  BY DEF Calls, Pcs
<1>2. /\ y \in RunStates /\ y.pc = pc /\ y.attempt = 0 /\ y.label = z.label /\ y.queue = z.queue
      /\ y.ok = z.ok
  BY <1>1, StepFacts
<1>3. y.gaveUp = z.gaveUp /\ y.only = z.only /\ y.alone = z.alone
  BY <1>1 DEF Step, RunStates
<1> HIDE DEF y
<1>4. y \in RunStates /\ GoesOn(x, y, records)
  BY <1>2, <1>3 DEF GoesOn
<1> QED BY <1>4 DEF y

\* So does the transfer of the next part.
LEMMA TransferGoes ==
  ASSUME NEW x \in RunStates, NEW z \in RunStates, NEW records, x.label \in Labels,
         z.label = x.label, z.queue = x.queue, z.gaveUp = x.gaveUp,
         z.only = x.only, z.alone = x.alone, z.ok = x.ok
  PROVE  Transfer(z) \in RunStates /\ GoesOn(x, Transfer(z), records)
<1>1. CASE z.parts = {}
  <2>1. Transfer(z) = Step(z, "record")
    BY <1>1 DEF Transfer
  <2>2. PICK pc \in {"record"} : TRUE
    OBVIOUS
  <2>3. pc \in Calls /\ pc \notin {"manifest", "document"} /\ Transfer(z) = Step(z, pc)
    BY <2>1 DEF Calls
  <2>4. Step(z, pc) \in RunStates /\ GoesOn(x, Step(z, pc), records)
    BY <2>3, StepGoes
  <2> QED BY <2>3, <2>4
<1>2. CASE z.parts # {}
  <2> DEFINE t == Indexes(z.label, Part(z))
             w == [z EXCEPT !.todo = t, !.held = {}]
  <2>1. t \in SUBSET Files
    <3>1. Part(z) \in AllParts
      BY <1>2, PartFacts DEF RunStates
    <3> QED BY <3>1, FileFacts
  <2>2. Transfer(z) = Step(w, "upload")
    BY <1>2 DEF Transfer
  <2> HIDE DEF t
  <2>3. /\ w \in RunStates /\ w.label = x.label /\ w.queue = x.queue /\ w.gaveUp = x.gaveUp
        /\ w.only = x.only /\ w.alone = x.alone /\ w.ok = x.ok
    BY <2>1 DEF RunStates
  <2> HIDE DEF w
  <2>4. PICK pc \in {"upload"} : TRUE
    OBVIOUS
  <2>5. pc \in Calls /\ pc \notin {"manifest", "document"} /\ Transfer(z) = Step(w, pc)
    BY <2>2, <2>4 DEF Calls
  <2>6. Step(w, pc) \in RunStates /\ GoesOn(x, Step(w, pc), records)
    BY <2>3, <2>5, StepGoes
  <2> QED BY <2>5, <2>6
<1> QED BY <1>1, <1>2

\* And reading back the next part of a recorded release, or the end of that release.
LEMMA ReadBackGoes ==
  ASSUME NEW x \in RunStates, NEW z \in RunStates, NEW records, x.label \in Labels, x.label \in records,
         z.label = x.label, z.queue = x.queue, z.gaveUp = x.gaveUp,
         z.only = x.only, z.alone = x.alone, z.ok = x.ok
  PROVE  ReadBack(z) \in RunStates /\ GoesOn(x, ReadBack(z), records)
<1>1. CASE z.parts = {}
  <2> DEFINE w == [z EXCEPT !.gaveUp = {}]
  <2>1. ReadBack(z) = Onward(w)
    BY <1>1 DEF ReadBack, Succeeded
  <2>2. /\ w \in RunStates /\ w.queue = x.queue /\ w.gaveUp = {}
        /\ w.only = x.only /\ w.alone = x.alone /\ w.ok = x.ok
    BY DEF RunStates
  <2> HIDE DEF w
  <2>3. /\ Onward(w) \in RunStates /\ Onward(w).pc \in {"read", "report"}
        /\ Onward(w).ok = w.ok /\ Pending(Onward(w)) = w.queue
    BY <2>2, OnwardFacts
  <2>4. /\ Onward(w).only = w.only /\ Onward(w).alone = w.alone /\ Onward(w).gaveUp = w.gaveUp
        /\ Onward(w).pc = "read" => \A l \in Onward(w).queue : Stamp[Onward(w).label] <= Stamp[l]
    BY <2>2, OnwardKeeps
  <2>5. GoesOn(x, Onward(w), records)
    BY <2>2, <2>3, <2>4 DEF GoesOn
  <2> QED BY <2>1, <2>3, <2>5
<1>2. CASE z.parts # {}
  <2>1. PICK pc \in {"manifest"} : TRUE
    OBVIOUS
  <2>2. pc \in Calls /\ ReadBack(z) = Step(z, pc)
    BY <1>2, <2>1 DEF Calls, ReadBack
  <2>3. Step(z, pc) \in RunStates /\ GoesOn(x, Step(z, pc), records)
    BY <2>2, StepGoes
  <2> QED BY <2>2, <2>3
<1> QED BY <1>1, <1>2
\* A run starts while others are under way: those are not alone any more.
LEMMA StartKept ==
  ASSUME IInv, ReasonInv, NEW r \in Runs, NEW y \in RunStates,
         run' = [q \in Runs |-> IF q = r THEN y ELSE [run[q] EXCEPT !.alone = FALSE]],
         UNCHANGED <<resVars, faults>>,
         y.pc \in {"list", "read", "report"}, y.gaveUp = {},
         y.alone => /\ y.pc = "list" /\ y.queue = {} /\ y.ok /\ recorded = {}
                    /\ \A q \in Runs : run[q].pc = "idle"
  PROVE  ReasonInv'
<1>1. recorded' = recorded /\ faults' = faults
  BY DEF resVars
<1>2. run'[r] = y
  OBVIOUS
<1>3. \A q \in Runs : q # r =>
        /\ run'[q].pc = run[q].pc /\ run'[q].label = run[q].label /\ run'[q].attempt = run[q].attempt
        /\ run'[q].gaveUp = run[q].gaveUp /\ ~run'[q].alone
  BY Numbers DEF RunStates
<1>4. TriedInv(y, faults', recorded') /\ ResetInv(y, faults', github', recorded')
  BY <1>1 DEF TriedInv, ResetInv, Pending, AtRelease, Calls
<1>5. \A q \in Runs : TriedInv(run'[q], faults', recorded') /\ ResetInv(run'[q], faults', github', recorded')
  <2> TAKE q \in Runs
  <2>1. CASE q = r
    BY <1>2, <1>4, <2>1
  <2>2. CASE q # r
    <3>1. TriedInv(run[q], faults, recorded)
      BY DEF ReasonInv
    <3>2. TriedInv(run'[q], faults', recorded')
      BY <1>1, <1>3, <2>2, <3>1 DEF TriedInv
    <3>3. ResetInv(run'[q], faults', github', recorded')
      BY <1>3, <2>2 DEF ResetInv
    <3> QED BY <3>2, <3>3
  <2> QED BY <2>1, <2>2
<1>6. ASSUME NEW p \in Runs, run'[p].alone, NEW q \in Runs \ {p}
      PROVE  run'[q].pc = "idle"
  <2>1. p = r
    BY <1>3, <1>6
  <2>2. run[q].pc = "idle" /\ q # r
    BY <1>2, <1>6, <2>1
  <2> QED BY <1>3, <2>2
<1> QED BY <1>5, <1>6 DEF ReasonInv

\* A run is alone when it starts on an empty res with no other under way.
LEMMA DispatchReason ==
  ASSUME IInv, ReasonInv, NEW r \in Manual, Dispatch(r)
  PROVE  ReasonInv'
<1>1. PICK only \in {{}} \cup {{l} : l \in Labels} :
        run' = [q \in Runs |->
          IF q = r THEN [Idle EXCEPT !.pc = "list", !.only = only, !.alone = Quiet]
                   ELSE [run[q] EXCEPT !.alone = FALSE]]
  BY DEF Dispatch
<1>2. Quiet \in BOOLEAN /\ only \in SUBSET Labels /\ r \in Runs
  BY DEF Quiet, Runs
<1> DEFINE y == [Idle EXCEPT !.pc = "list", !.only = only, !.alone = Quiet]
<1>3. y \in RunStates
  BY <1>2, IdleFacts
<1>4. y.pc = "list" /\ y.gaveUp = {} /\ y.queue = {} /\ y.ok /\ y.alone = Quiet
  BY DEF Idle
<1>5. Quiet => recorded = {} /\ \A q \in Runs : run[q].pc = "idle"
  BY DEF Quiet, Active
<1>6. UNCHANGED <<resVars, faults>>
  BY DEF Dispatch
<1> HIDE DEF y
<1>7. run' = [q \in Runs |-> IF q = r THEN y ELSE [run[q] EXCEPT !.alone = FALSE]]
  BY <1>1 DEF y
<1> QED BY <1>2, <1>3, <1>4, <1>5, <1>6, <1>7, StartKept

\* A run of a release line is never alone.
LEMMA AttachReason ==
  ASSUME IInv, ReasonInv, NEW r \in Releasing, NEW l \in Labels, Attach(r, l)
  PROVE  ReasonInv'
<1> DEFINE x == [Idle EXCEPT !.only = {l}]
           z == [x EXCEPT !.queue = {l}, !.listed = {l}]
           y == IF l \in Cores THEN Onward(z) ELSE [x EXCEPT !.pc = "list"]
<1>1. run' = [q \in Runs |-> IF q = r THEN y ELSE [run[q] EXCEPT !.alone = FALSE]]
  BY DEF Attach
<1>2. z \in RunStates /\ z.gaveUp = {} /\ ~z.alone
  BY DEF Idle, RunStates, Pcs, Nothing
<1>3. LET w == [x EXCEPT !.pc = "list"] IN w \in RunStates /\ w.pc = "list" /\ w.gaveUp = {} /\ ~w.alone
  BY DEF Idle, RunStates, Pcs, Nothing
<1> HIDE DEF z
<1>4. /\ Onward(z) \in RunStates /\ Onward(z).pc \in {"read", "report"}
      /\ Onward(z).gaveUp = {} /\ ~Onward(z).alone
  BY <1>2, OnwardFacts, OnwardKeeps
<1>5. y \in RunStates /\ y.pc \in {"list", "read", "report"} /\ y.gaveUp = {} /\ ~y.alone
  BY <1>3, <1>4
<1>6. r \in Runs /\ UNCHANGED <<resVars, faults>>
  BY DEF Attach, Runs
<1> HIDE DEF y
<1> QED BY <1>1, <1>5, <1>6, StartKept

\* The list of a run over every release is what GitHub holds.
LEMMA ListReleasesReason ==
  ASSUME IInv, ReasonInv, NEW r \in Runs, ListReleases(r)
  PROVE  ReasonInv'
<1> DEFINE x == run[r]
<1>1. /\ x \in RunStates /\ x.pc = "list" /\ x.pc # "idle" /\ run \in [Runs -> RunStates]
      /\ TriedInv(x, faults, recorded) /\ ResetInv(x, faults, github, recorded)
      /\ github \subseteq Labels /\ github' = github /\ recorded' = recorded /\ faults \in Nat
  BY Numbers DEF ListReleases, resVars, ReasonInv
<1>2. CASE /\ run' = [run EXCEPT ![r] =
                  LET labels == IF @.only = {} THEN github ELSE @.only
                  IN Onward([@ EXCEPT !.queue = labels, !.listed = labels])]
           /\ faults' = faults
  <2> DEFINE labels == IF x.only = {} THEN github ELSE x.only
             z == [x EXCEPT !.queue = labels, !.listed = labels]
             y == Onward(z)
  <2>1. labels \in SUBSET Labels
    BY <1>1 DEF RunStates
  <2>2. run' = [run EXCEPT ![r] = y]
    BY <1>1, <1>2
  <2>3. x.only = {} => labels = github
    OBVIOUS
  <2> HIDE DEF labels
  <2>4. /\ z \in RunStates /\ z.queue = labels /\ z.only = x.only /\ z.alone = x.alone
        /\ z.gaveUp = x.gaveUp /\ z.ok = x.ok
    BY <1>1, <2>1 DEF RunStates
  <2> HIDE DEF z
  <2>5. /\ y \in RunStates /\ y.pc \in {"read", "report"} /\ y.ok = x.ok /\ Pending(y) = labels
        /\ y.only = x.only /\ y.alone = x.alone /\ y.gaveUp = x.gaveUp
        /\ y.pc = "read" => \A l \in y.queue : Stamp[y.label] <= Stamp[l]
    BY <2>4, OnwardFacts, OnwardKeeps
  <2> HIDE DEF y
  <2>6. TriedInv(y, faults', recorded')
    <3>1. y.pc \notin Calls /\ y.pc \notin {"manifest", "document"}
      BY <2>5 DEF Calls
    <3> QED BY <1>1, <1>2, <2>5, <3>1 DEF TriedInv
  <2>7. ResetInv(y, faults', github', recorded')
    <3>1. y.pc \in AtRelease => y.pc = "read"
      BY <2>5 DEF AtRelease, Calls
    <3> QED BY <1>1, <1>2, <2>3, <2>5, <3>1 DEF ResetInv
  <2>8. (y.alone => x.alone) /\ faults' \in Nat /\ faults <= faults' /\ recorded \subseteq recorded'
    BY <1>1, <1>2, <2>5
  <2> QED BY <1>1, <2>2, <2>5, <2>6, <2>7, <2>8, ReasonKept
<1>3. CASE /\ run' = [run EXCEPT ![r].pc = "report", ![r].ok = FALSE]
           /\ (~(x.only \subseteq github) /\ UNCHANGED faults) \/ Fault
  <2> DEFINE y == [x EXCEPT !.pc = "report", !.ok = FALSE]
  <2>1. run' = [run EXCEPT ![r] = y]
    BY <1>1, <1>3
  <2>2. /\ y \in RunStates /\ y.pc = "report" /\ y.only = x.only /\ y.alone = x.alone
        /\ y.gaveUp = x.gaveUp
    <3>1. "report" \in Pcs /\ FALSE \in BOOLEAN
      BY DEF Pcs
    <3> QED BY <1>1, <3>1 DEF RunStates
  <2> HIDE DEF y
  <2>3. faults' \in Nat /\ faults <= faults' /\ (x.only = {} => faults' # 0)
    BY <1>1, <1>3 DEF Fault
  <2>4. TriedInv(y, faults', recorded')
    <3>1. y.pc \notin Calls /\ y.pc \notin {"manifest", "document"}
      BY <2>2 DEF Calls
    <3>2. \A g \in x.gaveUp : g[2] \in Calls /\ (faults > Retries[g[2]] => faults' > Retries[g[2]])
      <4> TAKE g \in x.gaveUp
      <4>1. g[2] \in Calls /\ Retries[g[2]] \in Nat
        BY <1>1, Numbers DEF TriedInv
      <4> QED BY <1>1, <2>3, <4>1
    <3> QED BY <1>1, <2>2, <3>1, <3>2 DEF TriedInv
  <2>5. ResetInv(y, faults', github', recorded')
    BY <2>2, <2>3 DEF ResetInv
  <2>6. (y.alone => x.alone) /\ recorded \subseteq recorded'
    BY <1>1, <2>2
  <2> QED BY <1>1, <2>1, <2>2, <2>3, <2>4, <2>5, <2>6, ReasonKept
<1> QED BY <1>2, <1>3 DEF ListReleases

\* A run that is over has nothing given up any more.
LEMMA ReportReason ==
  ASSUME IInv, ReasonInv, NEW r \in Runs, Report(r)
  PROVE  ReasonInv'
<1>1. /\ run' = [run EXCEPT ![r] = Idle] /\ run[r].pc # "idle"
      /\ recorded' = recorded /\ faults' = faults /\ faults \in Nat
  BY Numbers DEF Report, resVars
<1>2. Idle \in RunStates /\ ~Idle.alone /\ Idle.gaveUp = {} /\ Idle.pc = "idle"
  BY DEF Idle, RunStates, Pcs, Nothing
<1>3. TriedInv(Idle, faults', recorded') /\ ResetInv(Idle, faults', github', recorded')
  BY <1>2 DEF TriedInv, ResetInv, Calls
<1>4. (Idle.alone => run[r].alone) /\ faults' \in Nat /\ faults <= faults' /\ recorded \subseteq recorded'
  BY <1>1, <1>2
<1> QED BY <1>1, <1>2, <1>3, <1>4, ReasonKept
\* The steps of a release, each of which goes on with it or hands over to the next.
LEMMA ReadReleaseReason ==
  ASSUME IInv, ReasonInv, NEW r \in Runs, ReadRelease(r)
  PROVE  ReasonInv'
<1> DEFINE x == run[r]
           a == Assets(x.label)
           z == [x EXCEPT !.todo = a, !.held = {}]
<1>1. x \in RunStates /\ x.label \in Labels /\ x.pc \in AtRelease /\ run \in [Runs -> RunStates]
  <2>1. x.pc \in AtRelease
    BY DEF ReadRelease, AtRelease
  <2> QED BY <2>1, AtReleaseFacts, Numbers
<1>2. CASE Refused(r)
  BY <1>1, <1>2, RefusedKept
<1>3. CASE run' = [run EXCEPT ![r] = Step(z, "stage")] /\ UNCHANGED <<resVars, faults>>
  <2>1. a \in SUBSET Files
    BY <1>1, FileFacts
  <2> HIDE DEF a
  <2>2. /\ z \in RunStates /\ z.label = x.label /\ z.queue = x.queue /\ z.gaveUp = x.gaveUp
        /\ z.only = x.only /\ z.alone = x.alone /\ z.ok = x.ok
    BY <1>1, <2>1 DEF RunStates
  <2> HIDE DEF z
  <2>3. PICK pc \in {"stage"} : TRUE
    OBVIOUS
  <2>4. pc \in Calls /\ pc \notin {"manifest", "document"} /\ pc = "stage"
    BY <2>3 DEF Calls
  <2> DEFINE y == Step(z, pc)
  <2>5. y \in RunStates /\ GoesOn(x, y, recorded)
    BY <1>1, <2>2, <2>4, StepGoes
  <2>6. run' = [run EXCEPT ![r] = y] /\ faults' = faults /\ recorded' = recorded /\ github' = github
    BY <1>3, <2>4 DEF ReadRelease, resVars
  <2> HIDE DEF y
  <2> QED BY <1>1, <2>5, <2>6, GoesOnKept
<1>4. Refused(r) \/ (run' = [run EXCEPT ![r] = Step(z, "stage")] /\ UNCHANGED <<resVars, faults>>)
  BY <1>1 DEF ReadRelease
<1> QED BY <1>2, <1>3, <1>4

LEMMA StageReason ==
  ASSUME IInv, ReasonInv, NEW r \in Runs, Stage(r)
  PROVE  ReasonInv'
<1> DEFINE x == run[r]
           f == CHOOSE g \in x.todo : TRUE
           t == x.todo \ {f}
           h == x.held \cup {f}
           z == [x EXCEPT !.todo = t, !.held = h]
           y == Step(z, IF z.todo = {} THEN "batch" ELSE "stage")
<1>1. x \in RunStates /\ x.label \in Labels /\ x.pc = "stage" /\ x.pc \in Calls
      /\ RunInv(x, published, named)
  BY AtReleaseFacts DEF Stage, AtRelease, Calls
<1>2. t \in SUBSET Files /\ h \in SUBSET Files
  <2>1. x.todo # {} /\ x.todo \subseteq Files /\ x.held \subseteq Files
    BY <1>1 DEF RunInv, StepInv, RunStates
  <2> QED BY <2>1
<1>3. call(r, {}, {}, y)
  BY DEF Stage
<1> HIDE DEF f, t, h
<1>4. /\ z \in RunStates /\ z.label = x.label /\ z.queue = x.queue /\ z.gaveUp = x.gaveUp
      /\ z.only = x.only /\ z.alone = x.alone /\ z.ok = x.ok
  BY <1>1, <1>2 DEF RunStates
<1>5. PICK pc \in {"batch", "stage"} : y = Step(z, pc)
  BY DEF y
<1>6. pc \in Calls /\ pc \notin {"manifest", "document"}
  BY <1>5 DEF Calls
<1> HIDE DEF z, y
<1>7. y \in RunStates /\ GoesOn(x, y, recorded \cup {})
  BY <1>1, <1>4, <1>5, <1>6, StepGoes
<1> QED BY <1>1, <1>3, <1>7, CallKept

LEMMA PublishAssetsReason ==
  ASSUME IInv, ReasonInv, NEW r \in Runs, PublishAssets(r)
  PROVE  ReasonInv'
<1> DEFINE x == run[r]
           z == [x EXCEPT !.parts = Parts[x.label]]
           y == IF z.label \in Cores THEN Transfer(z) ELSE Step(z, "archive")
<1>1. x \in RunStates /\ x.label \in Labels /\ x.pc = "batch" /\ x.pc \in Calls
  BY AtReleaseFacts DEF PublishAssets, AtRelease, Calls
<1>2. /\ z \in RunStates /\ z.label = x.label /\ z.queue = x.queue /\ z.gaveUp = x.gaveUp
      /\ z.only = x.only /\ z.alone = x.alone /\ z.ok = x.ok
  <2>1. Parts[x.label] \subseteq AllParts
    BY <1>1, FileFacts
  <2> QED BY <1>1, <2>1 DEF RunStates
<1>3. call(r, z.held, {}, y)
  BY DEF PublishAssets
<1> HIDE DEF z
<1>4. PICK pc \in {"archive"} : TRUE
  OBVIOUS
<1>5. pc \in Calls /\ pc \notin {"manifest", "document"} /\ pc = "archive"
  BY <1>4 DEF Calls
<1>6. Step(z, pc) \in RunStates /\ GoesOn(x, Step(z, pc), recorded)
  BY <1>1, <1>2, <1>5, StepGoes
<1>7. Transfer(z) \in RunStates /\ GoesOn(x, Transfer(z), recorded)
  BY <1>1, <1>2, TransferGoes
<1>8. y \in RunStates /\ GoesOn(x, y, recorded \cup {})
  <2>1. recorded \cup {} = recorded
    OBVIOUS
  <2> QED BY <1>5, <1>6, <1>7, <2>1
<1> HIDE DEF y
<1> QED BY <1>1, <1>3, <1>8, CallKept

LEMMA ReadArchiveReason ==
  ASSUME IInv, ReasonInv, NEW r \in Runs, ReadArchive(r)
  PROVE  ReasonInv'
<1> DEFINE x == run[r]
<1>1. x \in RunStates /\ x.label \in Labels /\ x.pc = "archive" /\ x.pc \in Calls
  BY AtReleaseFacts DEF ReadArchive, AtRelease, Calls
<1>2. Transfer(x) \in RunStates /\ GoesOn(x, Transfer(x), recorded \cup {})
  BY <1>1, TransferGoes
<1>3. call(r, {}, {}, Transfer(x))
  BY DEF ReadArchive
<1> QED BY <1>1, <1>2, <1>3, CallKept

LEMMA UploadReason ==
  ASSUME IInv, ReasonInv, NEW r \in Runs, Upload(r)
  PROVE  ReasonInv'
<1> DEFINE x == run[r]
           f == CHOOSE g \in x.todo : TRUE
           t == x.todo \ {f}
           h == x.held \cup {f}
           z == [x EXCEPT !.todo = t, !.held = h]
           y == Step(z, IF z.todo = {} THEN "indexes" ELSE "upload")
<1>1. x \in RunStates /\ x.label \in Labels /\ x.pc = "upload" /\ x.pc \in Calls
      /\ RunInv(x, published, named)
  BY AtReleaseFacts DEF Upload, AtRelease, Calls
<1>2. t \in SUBSET Files /\ h \in SUBSET Files
  <2>1. x.todo # {} /\ x.todo \subseteq Files /\ x.held \subseteq Files
    BY <1>1 DEF RunInv, StepInv, RunStates
  <2> QED BY <2>1
<1>3. call(r, {}, {}, y)
  BY DEF Upload
<1> HIDE DEF f, t, h
<1>4. /\ z \in RunStates /\ z.label = x.label /\ z.queue = x.queue /\ z.gaveUp = x.gaveUp
      /\ z.only = x.only /\ z.alone = x.alone /\ z.ok = x.ok
  BY <1>1, <1>2 DEF RunStates
<1>5. PICK pc \in {"indexes", "upload"} : y = Step(z, pc)
  BY DEF y
<1>6. pc \in Calls /\ pc \notin {"manifest", "document"}
  BY <1>5 DEF Calls
<1> HIDE DEF z, y
<1>7. y \in RunStates /\ GoesOn(x, y, recorded \cup {})
  BY <1>1, <1>4, <1>5, <1>6, StepGoes
<1> QED BY <1>1, <1>3, <1>7, CallKept

LEMMA PublishIndexesReason ==
  ASSUME IInv, ReasonInv, NEW r \in Runs, PublishIndexes(r)
  PROVE  ReasonInv'
<1> DEFINE x == run[r]
           b == CHOOSE c \in SUBSET x.held : Cardinality(c) = Batch \/ c = x.held
           h == x.held \ b
           z == [x EXCEPT !.held = h]
           y == Step(z, IF z.held = {} THEN "transferred" ELSE "indexes")
<1>1. x \in RunStates /\ x.label \in Labels /\ x.pc = "indexes" /\ x.pc \in Calls
  BY AtReleaseFacts DEF PublishIndexes, AtRelease, Calls
<1>2. h \in SUBSET Files
  BY <1>1 DEF RunStates
<1>3. call(r, b, {}, y)
  BY DEF PublishIndexes
<1> HIDE DEF b, h
<1>4. /\ z \in RunStates /\ z.label = x.label /\ z.queue = x.queue /\ z.gaveUp = x.gaveUp
      /\ z.only = x.only /\ z.alone = x.alone /\ z.ok = x.ok
  BY <1>1, <1>2 DEF RunStates
<1>5. PICK pc \in {"transferred", "indexes"} : y = Step(z, pc)
  BY DEF y
<1>6. pc \in Calls /\ pc \notin {"manifest", "document"}
  BY <1>5 DEF Calls
<1> HIDE DEF z, y
<1>7. y \in RunStates /\ GoesOn(x, y, recorded \cup {})
  BY <1>1, <1>4, <1>5, <1>6, StepGoes
<1> QED BY <1>1, <1>3, <1>7, CallKept

\* What is read back of an archive is there, so that only a failed read keeps it from the run.
LEMMA ReadTransferReason ==
  ASSUME IInv, ReasonInv, NEW r \in Runs, ReadTransfer(r)
  PROVE  ReasonInv'
<1> DEFINE x == run[r]
           p == Part(x)
           z == [x EXCEPT !.parts = x.parts \ {p}]
           good == Assets(x.label) \cup Indexes(x.label, p) \subseteq published
<1>1. x \in RunStates /\ x.label \in Labels /\ x.pc = "transferred" /\ x.pc \in Calls
      /\ RunInv(x, published, named)
  BY AtReleaseFacts DEF ReadTransfer, AtRelease, Calls
<1>2. /\ z \in RunStates /\ z.label = x.label /\ z.queue = x.queue /\ z.gaveUp = x.gaveUp
      /\ z.only = x.only /\ z.alone = x.alone /\ z.ok = x.ok
  BY <1>1 DEF RunStates
<1>3. Poll(r, good, FALSE, Transfer(z))
  BY DEF ReadTransfer
<1>4. good
  BY <1>1 DEF RunInv, PostInv
<1> HIDE DEF z
<1>5. Transfer(z) \in RunStates /\ GoesOn(x, Transfer(z), recorded)
  BY <1>1, <1>2, TransferGoes
<1>6. good \in BOOLEAN /\ FALSE \in BOOLEAN
  OBVIOUS
<1> HIDE DEF good
<1> QED BY <1>1, <1>3, <1>4, <1>5, <1>6, PollKept

LEMMA PostRecordReason ==
  ASSUME IInv, ReasonInv, NEW r \in Runs, PostRecord(r)
  PROVE  ReasonInv'
<1> DEFINE x == run[r]
           l == x.label
           z == [x EXCEPT !.parts = Parts[l]]
           y == ReadBack(z)
<1>1. x \in RunStates /\ x.label \in Labels /\ x.pc = "record" /\ x.pc \in Calls
  BY AtReleaseFacts DEF PostRecord, AtRelease, Calls
<1>2. /\ z \in RunStates /\ z.label = x.label /\ z.queue = x.queue /\ z.gaveUp = x.gaveUp
      /\ z.only = x.only /\ z.alone = x.alone /\ z.ok = x.ok
  <2>1. Parts[l] \subseteq AllParts
    BY <1>1, FileFacts
  <2> QED BY <1>1, <2>1 DEF RunStates
<1>3. call(r, {}, {l}, y)
  BY DEF PostRecord
<1> HIDE DEF z
<1> DEFINE after == recorded \cup {l}
<1>4. l \in after
  OBVIOUS
<1> HIDE DEF after
<1>5. y \in RunStates /\ GoesOn(x, y, after)
  BY <1>1, <1>2, <1>4, ReadBackGoes
<1>6. {l} \in SUBSET {x.label}
  OBVIOUS
<1> HIDE DEF y
<1> QED BY <1>1, <1>3, <1>5, <1>6, CallKept DEF after

\* A manifest that is up to date names a release that is recorded, or a newer one.
LEMMA ReadManifestReason ==
  ASSUME IInv, ReasonInv, NEW r \in Runs, ReadManifest(r)
  PROVE  ReasonInv'
<1> DEFINE x == run[r]
           y == Step(x, "document")
<1>1. x \in RunStates /\ x.label \in Labels /\ x.pc = "manifest" /\ x.pc \in Calls
      /\ TriedInv(x, faults, recorded) /\ recorded \subseteq Labels
  <2>1. TriedInv(x, faults, recorded)
    BY DEF ReasonInv
  <2> QED BY <2>1, AtReleaseFacts, Numbers DEF ReadManifest, AtRelease, Calls
<1>2. PICK seen \in {recorded, edge} :
        Poll(r, Latest(seen, x.label, Part(x)), seen # recorded, y)
  BY DEF ReadManifest
<1>3. x.label \in recorded
  BY <1>1 DEF TriedInv
<1> DEFINE good == Latest(seen, x.label, Part(x))
           stale == seen # recorded
<1>4. good \in BOOLEAN /\ stale \in BOOLEAN
  BY DEF Latest
<1>5. ~good /\ ~stale => Newer(x.label, recorded)
  <2> SUFFICES ASSUME ~good, seen = recorded
               PROVE  Newer(x.label, recorded)
    OBVIOUS
  <2>1. PICK m \in recorded : Scope[m] = Scope[x.label] /\ ~(Stamp[m] <= Stamp[x.label])
    BY <1>3 DEF Latest
  <2>2. Stamp[m] \in Nat /\ Stamp[x.label] \in Nat
    BY <1>1, Numbers
  <2> QED BY <2>1, <2>2 DEF Newer
<1>6. PICK pc \in {"document"} : TRUE
  OBVIOUS
<1>7. pc \in Calls /\ y = Step(x, pc)
  BY <1>6 DEF Calls
<1>8. y \in RunStates /\ GoesOn(x, y, recorded)
  BY <1>1, <1>3, <1>7, StepGoes
<1>9. Poll(r, good, stale, y)
  BY <1>2
<1> HIDE DEF good, stale, y
<1> QED BY <1>1, <1>4, <1>5, <1>8, <1>9, PollKept

\* The document of a recorded release is complete: only a stale one keeps it from the run.
LEMMA ReadDocumentReason ==
  ASSUME IInv, ReasonInv, NEW r \in Runs, ReadDocument(r)
  PROVE  ReasonInv'
<1> DEFINE x == run[r]
           z == [x EXCEPT !.parts = x.parts \ {Part(x)}]
           y == ReadBack(z)
<1>1. x \in RunStates /\ x.label \in Labels /\ x.pc = "document" /\ x.pc \in Calls
      /\ TriedInv(x, faults, recorded) /\ VisibleComplete
  <2>1. TriedInv(x, faults, recorded) /\ VisibleComplete
    BY DEF ReasonInv, IInv
  <2> QED BY <2>1, AtReleaseFacts DEF ReadDocument, AtRelease, Calls
<1>2. PICK seen \in {recorded, edge} :
        Poll(r, x.label \in seen /\ Assets(x.label) \subseteq published, seen # recorded, y)
  BY DEF ReadDocument
<1>3. x.label \in recorded
  BY <1>1 DEF TriedInv
<1>4. Assets(x.label) \subseteq published
  BY <1>1, <1>3 DEF VisibleComplete
<1> DEFINE good == x.label \in seen /\ Assets(x.label) \subseteq published
           stale == seen # recorded
<1>5. good \in BOOLEAN /\ stale \in BOOLEAN /\ (~good => stale)
  BY <1>3, <1>4
<1>6. /\ z \in RunStates /\ z.label = x.label /\ z.queue = x.queue /\ z.gaveUp = x.gaveUp
      /\ z.only = x.only /\ z.alone = x.alone /\ z.ok = x.ok
  BY <1>1 DEF RunStates
<1> HIDE DEF z
<1>7. y \in RunStates /\ GoesOn(x, y, recorded)
  BY <1>1, <1>3, <1>6, ReadBackGoes
<1>8. Poll(r, good, stale, y)
  BY <1>2
<1> HIDE DEF good, stale, y
<1> QED BY <1>1, <1>5, <1>7, <1>8, PollKept

-----------------------------------------------------------------------------
(* The theorems about what is given up. *)

LEMMA ReasonInit == Init => ReasonInv
<1> SUFFICES ASSUME Init
             PROVE  ReasonInv
  OBVIOUS
<1>1. run = [r \in Runs |-> Idle]
  BY DEF Init
<1>2. \A r \in Runs : run[r].pc = "idle" /\ run[r].gaveUp = {} /\ ~run[r].alone
  BY <1>1 DEF Idle
<1> QED BY <1>2 DEF ReasonInv, TriedInv, ResetInv, Calls

LEMMA ReasonNext == IInv /\ ReasonInv /\ [Next]_vars => ReasonInv'
<1> SUFFICES ASSUME IInv, ReasonInv, [Next]_vars
             PROVE  ReasonInv'
  OBVIOUS
<1>1. ASSUME NEW r \in Manual, Dispatch(r)
      PROVE  ReasonInv'
  BY <1>1, DispatchReason
<1>2. ASSUME NEW r \in Releasing, NEW l \in Labels, Attach(r, l)
      PROVE  ReasonInv'
  BY <1>2, AttachReason
<1>3. ASSUME NEW r \in Runs, Work(r)
      PROVE  ReasonInv'
  <2>1. CASE ListReleases(r)
    BY <2>1, ListReleasesReason
  <2>2. CASE ReadRelease(r)
    BY <2>2, ReadReleaseReason
  <2>3. CASE Stage(r)
    BY <2>3, StageReason
  <2>4. CASE PublishAssets(r)
    BY <2>4, PublishAssetsReason
  <2>5. CASE ReadArchive(r)
    BY <2>5, ReadArchiveReason
  <2>6. CASE Upload(r)
    BY <2>6, UploadReason
  <2>7. CASE PublishIndexes(r)
    BY <2>7, PublishIndexesReason
  <2>8. CASE ReadTransfer(r)
    BY <2>8, ReadTransferReason
  <2>9. CASE PostRecord(r)
    BY <2>9, PostRecordReason
  <2>10. CASE ReadManifest(r)
    BY <2>10, ReadManifestReason
  <2>11. CASE ReadDocument(r)
    BY <2>11, ReadDocumentReason
  <2>12. CASE Report(r)
    BY <2>12, ReportReason
  <2> QED BY <1>3, <2>1, <2>2, <2>3, <2>4, <2>5, <2>6, <2>7, <2>8, <2>9, <2>10, <2>11, <2>12 DEF Work
<1>4. CASE UNCHANGED vars
  <2>1. github' = github /\ recorded' = recorded /\ run' = run /\ faults' = faults
    BY <1>4 DEF vars, resVars
  <2> QED BY <2>1 DEF ReasonInv
<1> QED BY <1>1, <1>2, <1>3, <1>4 DEF Next

LEMMA ReasonAlways == Spec => []ReasonInv
BY ResInvariant, ReasonInit, ReasonNext, PTL DEF Spec

\* A call or a poll is given up only after more faults than it has attempts to spare, or because
\* a newer release of the same line is recorded: no order of lost answers and no run beside it.
THEOREM GivenUpCorrect == Spec => []GivenUpForAReason
<1>1. ReasonInv => GivenUpForAReason
  BY DEF ReasonInv, TriedInv, Newer, GivenUpForAReason
<1> QED BY <1>1, ReasonAlways, PTL

\* A run over every release, alone on an empty res and without a fault, ends green with all of
\* them recorded, however many there are and of whatever lines.
THEOREM ResetCorrect == Spec => []ResetRestored
<1>1. IInv /\ ReasonInv => ResetRestored
  <2> SUFFICES ASSUME IInv, ReasonInv, NEW r \in Manual,
                      run[r].pc = "report", run[r].alone, run[r].only = {}, faults = 0
               PROVE  run[r].ok /\ github \subseteq recorded
    BY DEF ResetRestored
  <2>1. r \in Runs
    BY DEF Runs
  <2>2. StepInv(run[r]) /\ ResetInv(run[r], faults, github, recorded)
    BY <2>1 DEF IInv, RunInv, ReasonInv
  <2>3. Pending(run[r]) = {}
    BY <2>2 DEF StepInv, Pending, AtRelease, Calls
  <2> QED BY <2>2, <2>3 DEF ResetInv
<1> QED BY <1>1, ResInvariant, ReasonAlways, PTL

=============================================================================
