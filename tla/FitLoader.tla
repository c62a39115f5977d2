------------------------------- MODULE FitLoader -------------------------------
(***************************************************************************)
(* The signed-file boot of a uboot-fit board, from reset to the launched   *)
(* kernel, on a medium that loses power, tears writes, keeps accepted      *)
(* writes in a volatile cache and fails single operations:                 *)
(*   boards/s905x5m/loader/mica-file-boot.c   SD card or eMMC              *)
(*   boards/cx3576/loader/mica-file-boot.c    eMMC                         *)
(*   boards/ssd202d/loader/mica-ubi-boot.c    UBI volumes                  *)
(*   boards/qemu-armhf/loader/mica-ubi-boot.c UBI volumes                  *)
(* The four differ in what a write can leave behind and in the watchdog;   *)
(* the constant Medium selects the variant.  The running system, which     *)
(* installs a deployment and confirms it, is not in this repository: its   *)
(* actions, marked external, use the copies the way the loaders do.        *)
(***************************************************************************)
EXTENDS BootRecords

CONSTANTS
  Medium,      \* "sd", "emmc" or "ubi"
  Good,        \* deployments whose FIT loads, boots and is confirmed
  ReadFaults,  \* whether a read of a sound copy may fail
  MaxFaults    \* bound: power cuts and failed operations of a behaviour

ASSUME LoaderAssumption ==
  /\ Medium \in {"sd", "emmc", "ubi"}
  /\ Good \subseteq Deployments
  /\ ReadFaults \in BOOLEAN
  /\ MaxFaults \in Nat

VARIABLES
  durable,   \* slot -> the copy that survives a power cut
  view,      \* slot -> the copy a read returns (the volatile cache included)
  armed,     \* the boot watchdog runs
  pc,        \* the next step of the loader, or "running" or "recovery"
  job,       \* what the write in progress is for
  slot,      \* the slot read_environment chose
  records,   \* the loader's decoded records, in RAM
  selected,  \* the index of the entry being booted
  running,   \* the deployment launched last
  attempts,  \* history: loads of each deployment as a trial since its install
  faults     \* faults so far

media == <<durable, view>>
vars == <<durable, view, armed, pc, job, slot, records, selected, running, attempts, faults>>

Steps == {"reset", "medium", "read", "select", "write", "flush", "readback", "load",
          "running", "recovery"}

TypeOK ==
  /\ durable \in [Slots -> Copy]
  /\ view \in [Slots -> Copy]
  /\ armed \in BOOLEAN
  /\ pc \in Steps
  /\ job \in {"none", "trial", "retire", "os"}
  /\ slot \in Slots
  /\ records \in Records
  /\ selected \in 1 .. MICA_BOOT_RECORD_LIMIT
  /\ running \in Deployments
  /\ attempts \in [Deployments -> Nat]
  /\ faults \in 0 .. MaxFaults

(***************************************************************************)
(* The medium.                                                             *)
(***************************************************************************)
Fault == faults < MaxFaults /\ faults' = faults + 1

\* What a write of `new` over `old` may leave when it does not complete: UBI's
\* LEB change is atomic, a block device may tear.
Interrupted(old, new) ==
  {old, new} \cup (IF Medium = "ubi" \/ old = new THEN {} ELSE {TornCopy})

\* The copy persist_environment builds in the buffer of the other slot.
Pending == [sound |-> TRUE, flag |-> NextFlag(view[slot].flag), records |-> records]

\* A reset of the device: what was only in its cache is kept, lost or torn.
Settle ==
  /\ durable' \in {m \in [Slots -> {durable[c] : c \in Slots} \cup {view[c] : c \in Slots} \cup {TornCopy}] :
                     \A c \in Slots : m[c] \in Interrupted(durable[c], view[c])}
  /\ view' = durable'

(***************************************************************************)
(* The factory image: both copies hold the same records, every entry with  *)
(* all its trials, flag 0 in copy A and 1 in copy B.                        *)
(***************************************************************************)
Factory == {list \in Records : \A i \in DOMAIN list : list[i].tries = MaxTries}

encodeFitEnvironment(list, flag) == [sound |-> TRUE, flag |-> flag, records |-> list]

Init ==
  /\ records \in Factory
  /\ durable = [c \in Slots |-> encodeFitEnvironment(records, c)]
  /\ view = durable
  /\ armed = FALSE
  /\ pc = "reset"
  /\ job = "none"
  /\ slot = 0
  /\ selected = 1
  /\ running = records[1].id
  /\ attempts = [d \in Deployments |-> 0]
  /\ faults = 0

(***************************************************************************)
(* The loader.                                                             *)
(***************************************************************************)
recovery == pc' = "recovery"

\* Verification policy, boot source or recovery key, and the watchdog, which
\* the MMC loaders arm before they touch the medium.
ArmWatchdog ==
  /\ pc = "reset"
  /\ \/ pc' = "medium" /\ armed' = (Medium # "ubi") /\ UNCHANGED faults
     \/ Fault /\ recovery /\ UNCHANGED armed
  /\ job' = "none"
  /\ UNCHANGED <<media, slot, records, selected, running, attempts>>

\* The system medium, its layout and the buffer of the copies.
SelectMedium ==
  /\ pc = "medium"
  /\ \/ pc' = "read" /\ UNCHANGED faults
     \/ Fault /\ recovery
  /\ UNCHANGED <<media, armed, job, slot, records, selected, running, attempts>>

\* A copy that cannot be read counts as an invalid one.
read_environment ==
  /\ pc = "read"
  /\ \E readable \in [Slots -> BOOLEAN] :
       /\ \/ readable = [c \in Slots |-> TRUE] /\ UNCHANGED faults
          \/ readable # [c \in Slots |-> TRUE] /\ ReadFaults /\ Fault
       /\ LET s == mica_boot_slot(readable[0] /\ view[0].sound, view[0].flag,
                                  readable[1] /\ view[1].sound, view[1].flag)
          IN  IF s \in Slots /\ mica_boot_parse(view[s].records)
              THEN pc' = "select" /\ slot' = s /\ records' = view[s].records
              ELSE recovery /\ UNCHANGED <<slot, records>>
  /\ UNCHANGED <<media, armed, job, selected, running, attempts>>

\* An unconfirmed entry pays for its launch first.
SelectTrial ==
  /\ pc = "select"
  /\ \E i \in DOMAIN records :
       /\ mica_boot_next(records, i)
       /\ records[i].tries > 0
       /\ selected' = i
       /\ records' = [records EXCEPT ![i].tries = @ - 1]
  /\ job' = "trial"
  /\ pc' = "write"
  /\ UNCHANGED <<media, armed, slot, running, attempts, faults>>

SelectConfirmed ==
  /\ pc = "select"
  /\ \E i \in DOMAIN records :
       /\ mica_boot_next(records, i)
       /\ records[i].tries = Confirmed
       /\ selected' = i
  /\ pc' = "load"
  /\ UNCHANGED <<media, armed, job, slot, records, running, attempts, faults>>

\* Mutant of SelectNone: the board restarts when no entry is left.
SelectNoneRestarts ==
  /\ pc = "select"
  /\ Exhausted(records)
  /\ pc' = "reset"
  /\ armed' = FALSE
  /\ UNCHANGED <<media, job, slot, records, selected, running, attempts, faults>>

SelectNone ==
  /\ pc = "select"
  /\ Exhausted(records)
  /\ recovery
  /\ UNCHANGED <<media, armed, job, slot, records, selected, running, attempts, faults>>

(***************************************************************************)
(* persist_environment: the inactive copy is written, flushed and read     *)
(* back; only then does the loader go on.  The external system's writes    *)
(* (job "os") follow the same steps and never fail, but lose power too.    *)
(***************************************************************************)
\* Mutant of WriteTarget: the active copy is updated in place.
ActiveTarget == slot

WriteTarget == 1 - slot

\* The write is accepted, reports a failure, or stores something else.
WriteCopy ==
  /\ pc = "write"
  /\ \/ /\ IF mica_boot_render(records)
           THEN view' = [view EXCEPT ![WriteTarget] = Pending] /\ pc' = "flush"
           ELSE recovery /\ UNCHANGED view
        /\ UNCHANGED faults
     \/ /\ job # "os"
        /\ Fault
        /\ \E left \in Interrupted(view[WriteTarget], Pending) :
             view' = [view EXCEPT ![WriteTarget] = left]
        /\ recovery
     \/ /\ job # "os" /\ Medium # "ubi"
        /\ Fault
        /\ view' = [view EXCEPT ![WriteTarget] = TornCopy]
        /\ pc' = "flush"
  /\ UNCHANGED <<durable, armed, job, slot, records, selected, running, attempts>>

\* Mutant of flush_medium: nothing waits for the device's cache.
NoFlush ==
  /\ pc = "flush"
  /\ pc' = "readback"
  /\ UNCHANGED <<media, armed, job, slot, records, selected, running, attempts, faults>>

\* The accepted write becomes durable: the end of the write itself on an SD
\* card and on UBI, which have no flush to fail, the cache flush on eMMC.
flush_medium ==
  /\ pc = "flush"
  /\ \/ durable' = view /\ pc' = "readback" /\ UNCHANGED faults
     \/ job # "os" /\ Medium = "emmc" /\ Fault /\ recovery /\ UNCHANGED durable
  /\ UNCHANGED <<view, armed, job, slot, records, selected, running, attempts>>

AfterPersist ==
  CASE job = "trial"  -> "load"
    [] job = "retire" -> "reset"
    [] OTHER          -> "running"

\* Mutant of ReadBack: what was stored is not compared with what was meant.
ReadBackUnchecked ==
  /\ pc = "readback"
  /\ pc' = AfterPersist
  /\ armed' = (armed /\ pc' # "reset")
  /\ UNCHANGED <<media, job, slot, records, selected, running, attempts, faults>>

ReadBack ==
  /\ pc = "readback"
  /\ \/ view[WriteTarget] = Pending /\ pc' = AfterPersist /\ UNCHANGED faults
     \/ view[WriteTarget] # Pending /\ recovery /\ UNCHANGED faults
     \/ job # "os" /\ Fault /\ recovery
  /\ armed' = (armed /\ pc' # "reset")
  /\ UNCHANGED <<media, job, slot, records, selected, running, attempts>>

Attempt ==
  LET entry == records[selected]
  IN  attempts' = IF entry.tries = Confirmed THEN attempts
                  ELSE [attempts EXCEPT ![entry.id] = @ + 1]

\* The FIT is read, checked and started; the loader is gone.
Launch ==
  /\ pc = "load"
  /\ pc' = "running"
  /\ running' = records[selected].id
  /\ Attempt
  /\ UNCHANGED <<media, armed, job, slot, records, selected, faults>>

\* Loading or bootm came back: a trial is spent already, a confirmed entry is
\* retired before the restart.
LoadFails ==
  /\ pc = "load"
  /\ \/ records[selected].id \notin Good /\ UNCHANGED faults
     \/ Fault
  /\ \/ /\ records[selected].tries = Confirmed
        /\ records' = [records EXCEPT ![selected].tries = 0]
        /\ job' = "retire"
        /\ pc' = "write"
        /\ UNCHANGED armed
     \/ /\ records[selected].tries # Confirmed
        /\ pc' = "reset"
        /\ armed' = FALSE
        /\ UNCHANGED <<records, job>>
  /\ Attempt
  /\ UNCHANGED <<media, slot, selected, running>>

(***************************************************************************)
(* Power, the watchdog and the operator.                                   *)
(***************************************************************************)
PowerCut ==
  /\ pc # "reset"
  /\ Fault
  /\ Settle
  /\ pc' = "reset"
  /\ armed' = FALSE
  /\ UNCHANGED <<job, slot, records, selected, running, attempts>>

\* The operator restarts the board from its recovery console.
Restart ==
  /\ pc = "recovery"
  /\ Settle
  /\ pc' = "reset"
  /\ armed' = FALSE
  /\ UNCHANGED <<job, slot, records, selected, running, attempts, faults>>

\* A launched deployment that does not come up ends in the watchdog: the
\* loader's on an MMC board, the kernel's own on a UBI board.
WatchdogExpires ==
  /\ pc = "running"
  /\ running \notin Good
  /\ armed \/ Medium = "ubi"
  /\ pc' = "reset"
  /\ armed' = FALSE
  /\ UNCHANGED <<media, job, slot, records, selected, running, attempts, faults>>

(***************************************************************************)
(* The running system (external).                                          *)
(***************************************************************************)
Current(m) == m[Active(m)].records

\* The deployment that came up is confirmed.
OsConfirm ==
  /\ pc = "running"
  /\ running \in Good
  /\ \E i \in DOMAIN Current(view) :
       /\ Current(view)[i].id = running
       /\ Current(view)[i].tries # Confirmed
       /\ records' = [Current(view) EXCEPT ![i].tries = Confirmed]
  /\ slot' = Active(view)
  /\ job' = "os"
  /\ pc' = "write"
  /\ UNCHANGED <<media, armed, selected, running, attempts, faults>>

\* A new deployment goes in front of the confirmed one that runs.
OsInstall(d) ==
  /\ pc = "running"
  /\ running \in Good
  /\ \A i \in DOMAIN Current(view) : Current(view)[i].id # d
  /\ Current(view)[1].generation < GenerationLimit
  /\ \E i \in DOMAIN Current(view) :
       /\ Current(view)[i].id = running
       /\ Current(view)[i].tries = Confirmed
       /\ records' = <<[id |-> d, generation |-> Current(view)[1].generation + 1, tries |-> MaxTries],
                       Current(view)[i]>>
  /\ slot' = Active(view)
  /\ attempts' = [attempts EXCEPT ![d] = 0]
  /\ job' = "os"
  /\ pc' = "write"
  /\ UNCHANGED <<media, armed, selected, running, faults>>

OsReboot ==
  /\ pc = "running"
  /\ running \in Good
  /\ pc' = "reset"
  /\ armed' = FALSE
  /\ UNCHANGED <<media, job, slot, records, selected, running, attempts, faults>>

Loader ==
  \/ ArmWatchdog \/ SelectMedium \/ read_environment
  \/ SelectTrial \/ SelectConfirmed \/ SelectNone
  \/ WriteCopy \/ flush_medium \/ ReadBack
  \/ Launch \/ LoadFails

System == OsConfirm \/ (\E d \in Deployments : OsInstall(d)) \/ OsReboot

Next == Loader \/ PowerCut \/ Restart \/ WatchdogExpires \/ System

\* The loader runs until it launches or stops, a dead system meets the
\* watchdog and a live one confirms itself; faults, operators and updates
\* come as they please.
Fairness == WF_vars(Loader) /\ WF_vars(WatchdogExpires) /\ WF_vars(OsConfirm)

Spec == Init /\ [][Next]_vars
FairSpec == Spec /\ Fairness

(***************************************************************************)
(* Properties.                                                             *)
(***************************************************************************)

\* Whatever the power does, the medium keeps a copy that the next boot can
\* choose and decode: no interrupted or failed write of persist_environment
\* brings the board to "redundant environment invalid".
AlwaysBootable == Active(durable) \in Slots /\ mica_boot_parse(Current(durable))

\* The two copies never lose their order: one is always sound, and when both
\* are, one carries the flag that follows the other's, which is all that
\* mica_boot_slot can tell apart once the flag byte has wrapped.
CopiesOrdered(m) ==
  /\ \E c \in Slots : m[c].sound
  /\ (\A c \in Slots : m[c].sound) =>
       \E c \in Slots : m[1 - c].flag = NextFlag(m[c].flag)

\* A write that did not complete has touched one copy; the other is intact.
OneCopyAtRisk ==
  \E s \in Slots :
    /\ durable[s].sound
    /\ view[s] = durable[s]
    /\ \/ view[1 - s] \in {durable[1 - s], TornCopy}
       \/ view[1 - s].flag = NextFlag(durable[s].flag)

\* The medium at each step of the loader: the inductive strengthening of
\* AlwaysBootable and TrialChargedBeforeLoad.
MediumInv ==
  /\ CopiesOrdered(durable)
  /\ pc \notin {"flush", "recovery"} => view = durable
  /\ pc \in {"select", "write", "flush", "readback", "load"} => durable[slot].sound
  /\ pc = "flush" => view[slot] = durable[slot] /\ view[WriteTarget] \in {Pending, TornCopy}
  /\ pc = "recovery" => OneCopyAtRisk
  /\ pc = "load" /\ job = "trial" => durable[WriteTarget] = Pending
  /\ pc \in {"medium", "read", "select"} => job = "none"
  /\ pc \in {"write", "flush", "readback"} => job # "none"
  /\ pc = "load" => job \in {"none", "trial"}
  /\ pc = "load" \/ (pc \in {"write", "flush", "readback"} /\ job # "os") => selected \in DOMAIN records

\* When the loader loads a trial, a power cut at that moment boots from the
\* records that have already paid for it: the decrement is durable and
\* mica_boot_slot prefers it, across the wrap of the flag byte too.
TrialChargedBeforeLoad == pc = "load" /\ job = "trial" => Current(durable) = records

\* "Three trials exhaust a candidate": between its install and its
\* confirmation the loader tries a deployment at most MaxTries times.
TrialsBounded == \A d \in Deployments : attempts[d] <= MaxTries

\* A deployment the medium lists with tries left has that many trials ahead
\* at most, and together with those behind it never more than MaxTries.
TriesAccountedFor ==
  \A i \in DOMAIN Current(durable) :
    LET e == Current(durable)[i]
    IN  e.tries # Confirmed =>
          attempts[e.id] + e.tries + (IF pc = "load" /\ job = "trial" /\ records[selected].id = e.id
                                      THEN 1 ELSE 0) <= MaxTries

\* Once the faults are over, a board whose records hold a confirmed good
\* deployment comes up with a good one, however the newer entries fail:
\* their trials run out and mica_boot_next moves on.
HasGoodFallback ==
  \E i \in DOMAIN Current(durable) :
    Current(durable)[i].id \in Good /\ Current(durable)[i].tries = Confirmed

FallsBack ==
  (pc = "reset" /\ faults = MaxFaults /\ HasGoodFallback)
    ~> (pc = "running" /\ running \in Good)

\* A boot always ends: in a deployment that comes up or in the recovery
\* console.
BootEnds == (pc = "reset") ~> (pc = "recovery" \/ (pc = "running" /\ running \in Good))

=============================================================================
