----------------------------- MODULE ResPublish -----------------------------
(***************************************************************************)
(* The published releases, posted to the resource service (res):            *)
(*   src/release/res.ts         a product release, or every release         *)
(*   src/release/core.ts        a core release: one archive per             *)
(*                              architecture                                *)
(*   src/release/transfer.ts    the transfer indexes of an archive          *)
(*   publish-res.yml, and the last step of release.yml and release-core.yml *)
(* A run posts the releases of its list one after another.  Every call may  *)
(* be lost before or after res acted on it and is made again a bounded      *)
(* number of times; what was posted stays posted when a release fails.      *)
(* res and the edge that serves its documents are external.                 *)
(***************************************************************************)
EXTENDS Naturals, FiniteSets

CONSTANTS
  Labels,        \* the releases, product and core
  Cores,         \* those among them that are core releases
  Scope,         \* label -> its product, or core.<channel>
  Stamp,         \* label -> its place in the order of postableReleases
  Parts,         \* label -> its archives: one of a product, one per architecture of a core set
  Forms,         \* label -> the assets of a part: the archive, and images
  Objects,       \* label -> the objects of its archives, each with its index
  Histories,     \* sets of releases GitHub may hold at first
  Manual,        \* runs of publish-res.yml that may be under way
  Releasing,     \* runs of release.yml and release-core.yml at their last step
  Batch,         \* indexes of one batch call (BATCH)
  StageRetries, ReadRetries, PutRetries, PostRetries,   \* of a call, after its first attempt
  Polls,         \* reads of a document before it is given up
  MaxFaults      \* bound: lost answers, refusals and stale reads

AllParts == UNION {Parts[l] : l \in Labels}
Items == UNION {Forms[l] \cup Objects[l] : l \in Labels}
Runs == Manual \cup Releasing

\* The steps that are tried again, and the attempts they have after the first.
Calls == {"stage", "batch", "archive", "upload", "indexes", "transferred", "record",
          "manifest", "document"}
Retries == [stage |-> StageRetries, batch |-> PostRetries, archive |-> ReadRetries,
            upload |-> PutRetries, indexes |-> PostRetries, transferred |-> Polls - 1,
            record |-> PostRetries, manifest |-> Polls - 1, document |-> Polls - 1]

ASSUME ResAssumption ==
  /\ Cores \subseteq Labels /\ Histories \subseteq SUBSET Labels
  /\ Stamp \in [Labels -> Nat]
  /\ \A l, m \in Labels : Stamp[l] = Stamp[m] => l = m
  /\ Batch \in Nat \ {0} /\ Polls \in Nat \ {0}
  /\ \A l \in Labels : Parts[l] # {} /\ Forms[l] # {} /\ Objects[l] # {}
  /\ {StageRetries, ReadRetries, PutRetries, PostRetries, MaxFaults} \subseteq Nat

VARIABLES
  github,     \* the releases GitHub has published
  published,  \* the files in the catalog of res
  recorded,   \* the releases res has a record of
  edge,       \* the records before the last post, as an edge may still serve them
  run,        \* what each run is doing
  faults,     \* faults so far
  named       \* history: <<label, part>> that res's manifest has named as the latest

resVars == <<published, recorded, edge, named>>
vars == <<github, resVars, run, faults>>

\* A file of mica/<scope>/<stamp>/: an asset, or the index of an object.
File(l, p, i) == [label |-> l, part |-> p, item |-> i]
Assets(l) == {File(l, p, i) : p \in Parts[l], i \in Forms[l]}
Indexes(l, p) == {File(l, p, i) : i \in Objects[l]}
Files == [label : Labels, part : AllParts, item : Items]

Nothing == "none"   \* no label

(***************************************************************************)
(* A run: where it is, the release asked for, the releases it posts and     *)
(* those still to come, the one it is at, the archives, files and uploads   *)
(* left of that one, attempts of the call under way, what it has just given *)
(* up and at which step, and whether none failed.  `alone' is a history: it *)
(* started on an empty res and no other run has posted since.               *)
(***************************************************************************)
Idle == [pc |-> "idle", only |-> {}, listed |-> {}, queue |-> {}, label |-> Nothing,
          parts |-> {}, todo |-> {}, held |-> {}, attempt |-> 0,
          gaveUp |-> {}, ok |-> TRUE, alone |-> FALSE]

\* res is empty, as it is after a reset, and GitHub holds releases.
Init ==
  /\ github \in Histories
  /\ published = {} /\ recorded = {} /\ edge = {} /\ named = {}
  /\ run = [r \in Runs |-> Idle]
  /\ faults = 0

Active(r) == run[r].pc # "idle"

\* Mutant of Oldest: the newest release is posted first.
Newest(S) == CHOOSE l \in S : \A m \in S : Stamp[m] <= Stamp[l]

\* postableReleases: by the stamp, and by the tag where stamps are equal.
Oldest(S) == CHOOSE l \in S : \A m \in S : Stamp[l] <= Stamp[m]

(***************************************************************************)
(* The release res names as the latest of a product, or of a channel and    *)
(* an architecture: the newest recorded one.                                *)
(***************************************************************************)
Latest(records, l, p) ==
  /\ l \in records
  /\ \A m \in records : Scope[m] = Scope[l] /\ p \in Parts[m] => Stamp[m] <= Stamp[l]

-----------------------------------------------------------------------------
(* The run's own bookkeeping, as values of its record. *)

\* The loop of publishAllToRes, at its next release.
Onward(x) ==
  LET y == [x EXCEPT !.parts = {}, !.todo = {}, !.held = {}, !.attempt = 0]
  IN IF x.queue = {}
     THEN [y EXCEPT !.pc = "report", !.label = Nothing]
     ELSE [y EXCEPT !.pc = "read", !.label = Oldest(x.queue), !.queue = @ \ {Oldest(x.queue)}]

\* A release that was posted, refused or given up is reported and the next one is posted.
\* Refused is also a release that cannot be read.
Succeeded(x) == Onward([x EXCEPT !.gaveUp = {}])
Failed(x) == Onward([x EXCEPT !.gaveUp = {}, !.ok = FALSE])
GivenUp(x) == Onward([x EXCEPT !.gaveUp = {<<x.label, x.pc>>}, !.ok = FALSE])

\* The next step of the same release.
Step(x, pc) == [x EXCEPT !.pc = pc, !.attempt = 0]

Part(x) == CHOOSE p \in x.parts : TRUE

\* Mutant of Transfer: only the first archive is transferred.
TransferOne(x) ==
  IF x.parts # Parts[x.label]
  THEN Step(x, "record")
  ELSE Step([x EXCEPT !.todo = Indexes(x.label, Part(x)), !.held = {}], "upload")

\* The transfer of the archives left, part by part, then the record.
Transfer(x) ==
  IF x.parts = {}
  THEN Step(x, "record")
  ELSE Step([x EXCEPT !.todo = Indexes(x.label, Part(x)), !.held = {}], "upload")

\* What is read back of the parts left.
ReadBack(x) ==
  IF x.parts = {}
  THEN Succeeded(x)
  ELSE Step(x, "manifest")

-----------------------------------------------------------------------------
(* One attempt of a call.  `added' and `records' are what it adds at res,   *)
(* `next' is the run after the answer.                                      *)

\* Mutants of Again: an attempt too many, one too few, and no end of them.
AgainOneMore(x) == IF x.attempt <= Retries[x.pc] THEN [x EXCEPT !.attempt = @ + 1] ELSE GivenUp(x)
AgainOneLess(x) == IF x.attempt + 1 < Retries[x.pc] THEN [x EXCEPT !.attempt = @ + 1] ELSE GivenUp(x)
AgainForever(x) == IF x.attempt < Retries[x.pc] THEN [x EXCEPT !.attempt = @ + 1] ELSE [x EXCEPT !.attempt = 0]

Again(x) ==
  IF x.attempt < Retries[x.pc] THEN [x EXCEPT !.attempt = @ + 1] ELSE GivenUp(x)

Fault == faults < MaxFaults /\ faults' = faults + 1

Accepted(added, records) ==
  /\ published' = published \cup added
  /\ recorded' = recorded \cup records
  /\ edge' = IF records \subseteq recorded THEN edge ELSE recorded
  /\ named' = named \cup {n \in records \X AllParts :
                            n[2] \in Parts[n[1]] /\ Latest(recorded', n[1], n[2])}

Answered(r, added, records, next) ==
  /\ Accepted(added, records)
  /\ run' = [run EXCEPT ![r] = next]
  /\ UNCHANGED faults

\* Status 0, 429 or 5xx, after res acted on the call or without that.
Lost(r, added, records) ==
  /\ Fault
  /\ Accepted(added, records) \/ UNCHANGED resVars
  /\ run' = [run EXCEPT ![r] = Again(@)]

Refused(r) ==
  /\ Fault
  /\ run' = [run EXCEPT ![r] = Failed(@)]
  /\ UNCHANGED resVars

call(r, added, records, next) ==
  /\ \/ Answered(r, added, records, next)
     \/ Lost(r, added, records)
     \/ Refused(r)
  /\ UNCHANGED github

-----------------------------------------------------------------------------
(* The start of a run. *)

Quiet == recorded = {} /\ \A q \in Runs : ~Active(q)

\* gh workflow run publish-res.yml; its concurrency group holds one run at a time.
Dispatch(r) ==
  /\ ~Active(r)
  /\ \A q \in Manual : ~Active(q)
  /\ \E only \in {{}} \cup {{l} : l \in Labels} :
       run' = [q \in Runs |->
         IF q = r THEN [Idle EXCEPT !.pc = "list", !.only = only, !.alone = Quiet]
                  ELSE [run[q] EXCEPT !.alone = FALSE]]
  /\ UNCHANGED <<github, resVars, faults>>

\* release.yml or release-core.yml has attached a release and posts it: one run of a
\* product or a channel at a time, each newer than the last.  A core release is posted unlisted.
Attach(r, l) ==
  /\ ~Active(r)
  /\ l \notin github
  /\ \A m \in github : Scope[m] = Scope[l] => Stamp[m] < Stamp[l]
  /\ \A q \in Releasing : Active(q) => \A m \in run[q].only : Scope[m] # Scope[l]
  /\ github' = github \cup {l}
  /\ LET x == [Idle EXCEPT !.only = {l}]
     IN run' = [q \in Runs |->
          IF q # r THEN [run[q] EXCEPT !.alone = FALSE]
          ELSE IF l \in Cores THEN Onward([x EXCEPT !.queue = {l}, !.listed = {l}])
          ELSE [x EXCEPT !.pc = "list"]]
  /\ UNCHANGED <<resVars, faults>>

\* listReleases and postableReleases: the releases there are now, or the one asked for,
\* which must be among them.  The listing is not retried.
ListReleases(r) ==
  /\ run[r].pc = "list"
  /\ \/ /\ run[r].only \subseteq github
        /\ run' = [run EXCEPT ![r] =
             LET labels == IF @.only = {} THEN github ELSE @.only
             IN Onward([@ EXCEPT !.queue = labels, !.listed = labels])]
        /\ UNCHANGED faults
     \/ /\ (~(run[r].only \subseteq github) /\ UNCHANGED faults) \/ Fault
        /\ run' = [run EXCEPT ![r].pc = "report", ![r].ok = FALSE]
  /\ UNCHANGED <<github, resVars>>

-----------------------------------------------------------------------------
(* One release. *)

\* The lock, the bundles and the descriptor, or the archives of a core release: the record.
ReadRelease(r) ==
  /\ run[r].pc = "read"
  /\ LET l == run[r].label IN
     \/ /\ run' = [run EXCEPT ![r] = Step([@ EXCEPT !.todo = Assets(l), !.held = {}], "stage")]
        /\ UNCHANGED <<resVars, faults>>
     \/ Refused(r)
  /\ UNCHANGED github

\* res pulls one asset; the run keeps the upload it answers.
Stage(r) ==
  /\ run[r].pc = "stage"
  /\ LET f == CHOOSE g \in run[r].todo : TRUE
         x == [run[r] EXCEPT !.todo = @ \ {f}, !.held = @ \cup {f}]
     IN call(r, {}, {}, Step(x, IF x.todo = {} THEN "batch" ELSE "stage"))

\* Every asset in one batch.
PublishAssets(r) ==
  /\ run[r].pc = "batch"
  /\ LET x == [run[r] EXCEPT !.parts = Parts[run[r].label]]
     IN call(r, x.held, {}, IF x.label \in Cores THEN Transfer(x) ELSE Step(x, "archive"))

\* The full archive, read for its objects.
ReadArchive(r) ==
  /\ run[r].pc = "archive"
  /\ call(r, {}, {}, Transfer(run[r]))

\* upload: the index of one object, staged.
Upload(r) ==
  /\ run[r].pc = "upload"
  /\ LET f == CHOOSE g \in run[r].todo : TRUE
         x == [run[r] EXCEPT !.todo = @ \ {f}, !.held = @ \cup {f}]
     IN call(r, {}, {}, Step(x, IF x.todo = {} THEN "indexes" ELSE "upload"))

\* batch: the staged indexes of one archive, Batch at a time.
PublishIndexes(r) ==
  /\ run[r].pc = "indexes"
  /\ LET b == CHOOSE c \in SUBSET run[r].held : Cardinality(c) = Batch \/ c = run[r].held
         x == [run[r] EXCEPT !.held = @ \ b]
     IN call(r, b, {}, Step(x, IF x.held = {} THEN "transferred" ELSE "indexes"))

\* The record: created, or unchanged when res has it.
PostRecord(r) ==
  /\ run[r].pc = "record"
  /\ LET l == run[r].label
         x == [run[r] EXCEPT !.parts = Parts[l]]
     IN call(r, {}, {l}, ReadBack(x))

-----------------------------------------------------------------------------
(* Reading back: each document is read up to Polls times. *)

\* A read that shows what is asked for ends the poll.  One that does not is a fault
\* when its fetch failed or its document is stale.
Poll(r, good, stale, next) ==
  /\ \/ /\ good
        /\ run' = [run EXCEPT ![r] = next]
        /\ UNCHANGED faults
     \/ /\ ~good /\ ~stale
        /\ run' = [run EXCEPT ![r] = Again(@)]
        /\ UNCHANGED faults
     \/ /\ Fault
        /\ run' = [run EXCEPT ![r] = Again(@)]
  /\ UNCHANGED <<github, resVars>>

\* The download host serves an index, and a chunk as a range of an object found through the
\* indexes of its directory.
ReadTransfer(r) ==
  /\ run[r].pc = "transferred"
  /\ LET x == run[r]
         p == Part(x)
     IN Poll(r, Assets(x.label) \cup Indexes(x.label, p) \subseteq published, FALSE,
             Transfer([x EXCEPT !.parts = @ \ {p}]))

\* Mutant of ReadManifest: any mention of the release is taken for its line.
ReadManifestAny(r) ==
  /\ run[r].pc = "manifest"
  /\ \E seen \in {recorded, edge} :
       LET x == run[r]
       IN Poll(r, x.label \in seen, seen # recorded, Step(x, "document"))

\* latestIndex, coreIndex: the device manifest, from res or from a stale edge.
ReadManifest(r) ==
  /\ run[r].pc = "manifest"
  /\ \E seen \in {recorded, edge} :
       LET x == run[r]
       IN Poll(r, Latest(seen, x.label, Part(x)), seen # recorded, Step(x, "document"))

\* releaseRefs, coreRefs and what they name: the release's own document.
ReadDocument(r) ==
  /\ run[r].pc = "document"
  /\ \E seen \in {recorded, edge} :
       LET x == run[r]
       IN Poll(r, x.label \in seen /\ Assets(x.label) \subseteq published, seen # recorded,
               ReadBack([x EXCEPT !.parts = @ \ {Part(x)}]))

\* outcomeTable and the exit status: the run is over.
Report(r) ==
  /\ run[r].pc = "report"
  /\ run' = [run EXCEPT ![r] = Idle]
  /\ UNCHANGED <<github, resVars, faults>>

-----------------------------------------------------------------------------
Work(r) ==
  \/ ListReleases(r) \/ ReadRelease(r) \/ Stage(r) \/ PublishAssets(r) \/ ReadArchive(r)
  \/ Upload(r) \/ PublishIndexes(r) \/ ReadTransfer(r) \/ PostRecord(r)
  \/ ReadManifest(r) \/ ReadDocument(r) \/ Report(r)

Next ==
  \/ \E r \in Manual : Dispatch(r)
  \/ \E r \in Releasing, l \in Labels : Attach(r, l)
  \/ \E r \in Runs : Work(r)

Fairness == \A r \in Runs : WF_vars(Work(r))

Spec == Init /\ [][Next]_vars /\ Fairness

-----------------------------------------------------------------------------
Pcs == {"idle", "list", "read", "stage", "batch", "archive", "upload", "indexes",
        "transferred", "record", "manifest", "document", "report"}

RunStates ==
  [pc : Pcs, only : SUBSET Labels, listed : SUBSET Labels, queue : SUBSET Labels,
   label : Labels \cup {Nothing}, parts : SUBSET AllParts, todo : SUBSET Files, held : SUBSET Files,
   attempt : Nat, gaveUp : SUBSET (Labels \X Pcs), ok : BOOLEAN, alone : BOOLEAN]

(* Every variable has its type. *)
TypeOK ==
  /\ github \subseteq Labels
  /\ published \subseteq Files
  /\ recorded \subseteq Labels /\ edge \subseteq Labels
  /\ run \in [Runs -> RunStates]
  /\ \A r \in Runs : run[r].pc \in Calls => run[r].attempt <= Retries[run[r].pc]
  /\ faults \in 0 .. MaxFaults
  /\ named \subseteq Labels \X AllParts

(* A device that sees a release in the catalog finds every file and every   *)
(* transfer index of it, whichever calls were lost and whichever runs       *)
(* failed half-way (res.ts step 2b).                                        *)
VisibleComplete ==
  \A l \in recorded : Assets(l) \cup UNION {Indexes(l, p) : p \in Parts[l]} \subseteq published

(* A green run posted what it listed, as res itself saw it: each release of *)
(* the list has been res's latest for each of its parts, however stale the  *)
(* documents read back and whichever answers were lost.                     *)
GreenRunPosted ==
  \A r \in Runs :
    run[r].pc = "report" /\ run[r].ok =>
      \A l \in run[r].listed : \A p \in Parts[l] : <<l, p>> \in named

(* "Every step is idempotent": no order of lost answers and no run beside   *)
(* it makes a call or a poll be given up before its attempts are used up;   *)
(* otherwise only a newer release of the same line does.                    *)
GivenUpForAReason ==
  \A r \in Runs : \A g \in run[r].gaveUp :
    \/ faults > Retries[g[2]]
    \/ \E m \in recorded : Scope[m] = Scope[g[1]] /\ Stamp[m] > Stamp[g[1]]

(* "A reset res gets every existing release back": a run of publish-res.yml *)
(* over all releases, alone on an empty res and without a fault, posts each *)
(* of them, the older ones before a newer one takes their place.            *)
ResetRestored ==
  \A r \in Manual :
    run[r].pc = "report" /\ run[r].alone /\ run[r].only = {} /\ faults = 0 =>
      run[r].ok /\ github \subseteq recorded

(* A run comes to its end: calls and polls give up, and a release that      *)
(* fails does not keep the others from being posted.                        *)
RunsEnd == \A r \in Runs : Active(r) ~> ~Active(r)
=============================================================================
