----------------------------- MODULE BootAttempts -----------------------------
(***************************************************************************)
(* What a uboot-fit board promises about its boot records, as one register *)
(* that changes atomically: an entry pays for a trial before the trial     *)
(* happens, a confirmed entry is retired only as a whole, and nothing but  *)
(* the running system adds, drops or confirms an entry.  FitLoader         *)
(* implements it with two copies on a medium that may lose power.          *)
(***************************************************************************)
EXTENDS BootRecords

VARIABLES
  entries,   \* the records the next boot reads
  trying,    \* the deployments whose paid trial is about to happen
  attempts   \* trials of each deployment since its install

avars == <<entries, trying, attempts>>

AInit ==
  /\ entries \in {list \in Records : \A i \in DOMAIN list : list[i].tries = MaxTries}
  /\ trying = {}
  /\ attempts = [d \in Deployments |-> 0]

\* The next entry pays; its trial may still be lost to a power cut.
Charge ==
  /\ trying = {}
  /\ \E i \in DOMAIN entries :
       /\ mica_boot_next(entries, i)
       /\ entries[i].tries > 0
       /\ entries' = [entries EXCEPT ![i].tries = @ - 1]
       /\ trying' \in {{}, {entries[i].id}}
  /\ UNCHANGED attempts

Try ==
  /\ \E d \in trying : attempts' = [attempts EXCEPT ![d] = @ + 1]
  /\ trying' = {}
  /\ UNCHANGED entries

Lose == trying' = {} /\ UNCHANGED <<entries, attempts>>

\* A confirmed entry that failed is given up.
Retire ==
  /\ trying = {}
  /\ \E i \in DOMAIN entries :
       /\ mica_boot_next(entries, i)
       /\ entries[i].tries = Confirmed
       /\ entries' = [entries EXCEPT ![i].tries = 0]
  /\ UNCHANGED <<trying, attempts>>

Confirm ==
  /\ trying = {}
  /\ \E i \in DOMAIN entries : entries' = [entries EXCEPT ![i].tries = Confirmed]
  /\ UNCHANGED <<trying, attempts>>

\* A deployment that is not listed may forget its earlier trials; an install
\* puts it in front of one confirmed entry.
Forget(d) ==
  /\ \A i \in DOMAIN entries : entries[i].id # d
  /\ attempts' = [attempts EXCEPT ![d] = 0]
  /\ UNCHANGED <<entries, trying>>

Install(d) ==
  /\ trying = {}
  /\ attempts[d] = 0
  /\ \E i \in DOMAIN entries :
       /\ entries[i].tries = Confirmed
       /\ entries' = <<[id |-> d, generation |-> entries[1].generation + 1, tries |-> MaxTries],
                       entries[i]>>
       /\ entries' \in Records
  /\ UNCHANGED <<trying, attempts>>

ANext ==
  \/ Charge \/ Try \/ Lose \/ Retire \/ Confirm
  \/ \E d \in Deployments : Forget(d) \/ Install(d)

ASpec == AInit /\ [][ANext]_avars

=============================================================================
