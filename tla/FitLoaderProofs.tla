---------------------------- MODULE FitLoaderProofs ----------------------------
(***************************************************************************)
(* Theorems about FitLoader, for every set of deployments, every number of *)
(* trials, every width of the flag, every medium and any number of faults; *)
(* and, last, FitLoader implements BootAttempts for every medium whose     *)
(* sound copies can be read: two copies that lose power behave as one      *)
(* register, and a deployment has no more trials than its entry paid for.  *)
(***************************************************************************)
EXTENDS MCFitLoader, TLAPS

\* The flag byte of the next write stays a byte: one more, or 0 after the
\* largest value.
LEMMA NextFlagValue ==
  ASSUME NEW f \in Flags
  PROVE  /\ NextFlag(f) \in Flags
         /\ f = FlagLimit => NextFlag(f) = 0
         /\ f # FlagLimit => NextFlag(f) = f + 1
<1>1. CASE f = FlagLimit
  <2>1. (FlagLimit + 1) % (FlagLimit + 1) = 0
    BY RecordsAssumption
  <2> QED BY <1>1, <2>1, RecordsAssumption DEF NextFlag, Flags
<1>2. CASE f # FlagLimit
  <2>1. f + 1 \in 0 .. FlagLimit
    BY <1>2, RecordsAssumption DEF Flags
  <2>2. (f + 1) % (FlagLimit + 1) = f + 1
    BY <2>1, RecordsAssumption
  <2> QED BY <1>2, <2>1, <2>2 DEF NextFlag, Flags
<1> QED BY <1>1, <1>2

\* mica_boot_slot chooses the copy with the following flag, also from the
\* largest flag to 0.
LEMMA SlotChoosesNewest ==
  ASSUME NEW a \in Flags, NEW b \in Flags
  PROVE  /\ b = NextFlag(a) => mica_boot_slot(TRUE, a, TRUE, b) = 1
         /\ a = NextFlag(b) => mica_boot_slot(TRUE, a, TRUE, b) = 0
<1>1. /\ a = FlagLimit => NextFlag(a) = 0
      /\ a # FlagLimit => NextFlag(a) = a + 1
      /\ b = FlagLimit => NextFlag(b) = 0
      /\ b # FlagLimit => NextFlag(b) = b + 1
  BY NextFlagValue
<1> QED BY <1>1, RecordsAssumption DEF mica_boot_slot, Flags

\* A copy whose CRC matches holds records of the right form; the others are
\* all the torn copy.
LEMMA CopyFacts ==
  ASSUME NEW c \in Copy
  PROVE  /\ c.sound \in BOOLEAN
         /\ c.flag \in Flags
         /\ c.sound => c.records \in Records
         /\ ~c.sound => c = TornCopy
<1>1. CASE c \in [sound : {TRUE}, flag : Flags, records : Records]
  BY <1>1
<1>2. CASE c \in [sound : {FALSE}, flag : {0}, records : {<<>>}]
  <2>1. c = [sound |-> FALSE, flag |-> 0, records |-> <<>>]
    BY <1>2
  <2>2. 0 \in Flags
    BY RecordsAssumption DEF Flags
  <2> QED BY <2>1, <2>2 DEF TornCopy
<1> QED BY <1>1, <1>2 DEF Copy

\* Every copy that persist_environment builds, and a torn one, is a copy.
LEMMA CopyTypes ==
  /\ TornCopy \in Copy
  /\ \A f \in Flags, r \in Records : [sound |-> TRUE, flag |-> f, records |-> r] \in Copy
BY DEF Copy, TornCopy

\* A loader that reads both copies chooses a sound one if there is one, and
\* the newer of two.
LEMMA ActiveFacts ==
  ASSUME NEW m \in [Slots -> Copy]
  PROVE  /\ CopiesOrdered(m) => Active(m) \in Slots /\ m[Active(m)].sound
         /\ \A s \in Slots : m[s].sound /\ ~m[1 - s].sound => Active(m) = s
         /\ \A s \in Slots :
              m[s].sound /\ m[1 - s].sound /\ m[1 - s].flag = NextFlag(m[s].flag)
                => Active(m) = 1 - s
<1>1. /\ m[0] \in Copy /\ m[1] \in Copy
      /\ m[0].sound \in BOOLEAN /\ m[1].sound \in BOOLEAN
      /\ m[0].flag \in Flags /\ m[1].flag \in Flags
  BY CopyFacts DEF Slots
<1>2. Active(m) = mica_boot_slot(m[0].sound, m[0].flag, m[1].sound, m[1].flag)
  BY DEF Active
<1>3. m[0].sound /\ m[1].sound => Active(m) = mica_boot_slot(TRUE, m[0].flag, TRUE, m[1].flag)
  BY <1>1, <1>2
<1>4. \A s \in Slots : m[s].sound /\ ~m[1 - s].sound => Active(m) = s
  BY <1>1, <1>2 DEF mica_boot_slot, Slots
<1>5. \A s \in Slots :
        m[s].sound /\ m[1 - s].sound /\ m[1 - s].flag = NextFlag(m[s].flag) => Active(m) = 1 - s
  <2>1. ASSUME m[0].sound, m[1].sound, m[1].flag = NextFlag(m[0].flag) PROVE Active(m) = 1
    BY <2>1, <1>1, <1>3, SlotChoosesNewest
  <2>2. ASSUME m[0].sound, m[1].sound, m[0].flag = NextFlag(m[1].flag) PROVE Active(m) = 0
    BY <2>2, <1>1, <1>3, SlotChoosesNewest
  <2> QED BY <2>1, <2>2 DEF Slots
<1>6. CopiesOrdered(m) => Active(m) \in Slots /\ m[Active(m)].sound
  BY <1>1, <1>4, <1>5 DEF CopiesOrdered, Slots
<1> QED BY <1>4, <1>5, <1>6

\* A decoded list has one or two entries in the order mica_boot_parse asks for.
LEMMA RecordsFacts ==
  ASSUME NEW r \in Records
  PROVE  /\ DOMAIN r \in {1 .. 1, 1 .. 2}
         /\ DOMAIN r \subseteq 1 .. MICA_BOOT_RECORD_LIMIT
         /\ 1 \in DOMAIN r
         /\ r \in [DOMAIN r -> mica_boot_record]
         /\ Ordered(r)
<1>1. PICK n \in 1 .. 2 : r \in [1 .. n -> mica_boot_record]
  BY DEF Records, Lists, MICA_BOOT_RECORD_LIMIT
<1>2. n \in {1, 2} /\ DOMAIN r = 1 .. n
  BY <1>1
<1> QED BY <1>1, <1>2 DEF Records, MICA_BOOT_RECORD_LIMIT

\* One or two ordered entries are a list that mica_boot_parse accepts.
LEMMA RecordsIntro ==
  ASSUME NEW n \in {1, 2}, NEW r \in [1 .. n -> mica_boot_record], Ordered(r)
  PROVE  r \in Records
<1>1. n \in 1 .. MICA_BOOT_RECORD_LIMIT
  BY DEF MICA_BOOT_RECORD_LIMIT
<1> QED BY <1>1 DEF Records, Lists

\* Changing the tries of one entry keeps a list well formed and its ids.
LEMMA SetTries ==
  ASSUME NEW r \in Records, NEW i \in DOMAIN r, NEW t \in Confirmed .. MaxTries
  PROVE  LET q == [r EXCEPT ![i].tries = t]
         IN  /\ q \in Records
             /\ DOMAIN q = DOMAIN r
             /\ \A j \in DOMAIN r : q[j].id = r[j].id /\ q[j].generation = r[j].generation
             /\ q[i].tries = t
             /\ \A j \in DOMAIN r : j # i => q[j] = r[j]
<1> DEFINE q == [r EXCEPT ![i].tries = t]
<1>1. PICK n \in {1, 2} : DOMAIN r = 1 .. n /\ r \in [1 .. n -> mica_boot_record] /\ Ordered(r)
  BY RecordsFacts
<1>2. q \in [1 .. n -> mica_boot_record]
  BY <1>1 DEF mica_boot_record
<1>3. /\ DOMAIN q = DOMAIN r
      /\ \A j \in DOMAIN r : q[j].id = r[j].id /\ q[j].generation = r[j].generation
      /\ q[i].tries = t
      /\ \A j \in DOMAIN r : j # i => q[j] = r[j]
  BY <1>1 DEF mica_boot_record
<1>4. Ordered(q)
  BY <1>1, <1>3 DEF Ordered
<1> HIDE DEF q
<1>5. q \in Records
  BY <1>2, <1>4, RecordsIntro
<1> QED BY <1>3, <1>5 DEF q

(***************************************************************************)
(* The medium across a reset.                                              *)
(***************************************************************************)
IInv == TypeOK /\ MediumInv

\* What persist_environment is about to write is a sound copy with the flag
\* after the one of the active copy.
LEMMA PendingFacts ==
  ASSUME TypeOK
  PROVE  Pending \in Copy /\ Pending.sound /\ Pending.flag = NextFlag(view[slot].flag)
                          /\ Pending.records = records
<1>1. view[slot] \in Copy
  BY DEF TypeOK
<1>2. NextFlag(view[slot].flag) \in Flags
  BY <1>1, CopyFacts, NextFlagValue
<1> QED BY <1>2, CopyTypes DEF Pending, TypeOK

\* At every step at least one sound copy is out of danger.
LEMMA AlwaysOneIntact ==
  ASSUME IInv
  PROVE  OneCopyAtRisk
<1>1. CASE pc = "recovery"
  BY <1>1 DEF IInv, MediumInv
<1>2. CASE pc = "flush"
  <2>1. /\ durable[slot].sound /\ view[slot] = durable[slot] /\ slot \in Slots
        /\ WriteTarget = 1 - slot
        /\ view[1 - slot] = Pending \/ view[1 - slot] = TornCopy
    BY <1>2 DEF IInv, MediumInv, TypeOK, WriteTarget
  <2>2. Pending.flag = NextFlag(durable[slot].flag)
    BY <2>1, PendingFacts DEF IInv
  <2> QED BY <2>1, <2>2 DEF OneCopyAtRisk
<1>3. CASE pc \notin {"recovery", "flush"}
  <2>1. view = durable /\ \E s \in Slots : durable[s].sound
    BY <1>3 DEF IInv, MediumInv, CopiesOrdered
  <2> QED BY <2>1 DEF OneCopyAtRisk
<1> QED BY <1>1, <1>2, <1>3

\* A reset keeps, loses or tears what was in the cache of the device; the two
\* copies stay ordered.
LEMMA SettleFacts ==
  ASSUME IInv, Settle
  PROVE  /\ durable' \in [Slots -> Copy]
         /\ view' = durable'
         /\ CopiesOrdered(durable)'
<1>1. /\ durable \in [Slots -> Copy] /\ view \in [Slots -> Copy]
      /\ CopiesOrdered(durable)
  BY DEF IInv, TypeOK, MediumInv
<1>2. PICK s \in Slots :
        /\ durable[s].sound
        /\ view[s] = durable[s]
        /\ \/ view[1 - s] \in {durable[1 - s], TornCopy}
           \/ view[1 - s].flag = NextFlag(durable[s].flag)
  BY AlwaysOneIntact DEF OneCopyAtRisk
<1>3. /\ view' = durable'
      /\ DOMAIN durable' = Slots
      /\ durable' = [c \in Slots |-> durable'[c]]
      /\ \A c \in Slots : durable'[c] \in Interrupted(durable[c], view[c])
  BY DEF Settle
<1>4. \A c \in Slots : durable'[c] \in {durable[c], view[c], TornCopy}
  BY <1>3 DEF Interrupted
<1>5. \A c \in Slots : durable'[c] \in Copy
  BY <1>1, <1>4, CopyTypes
<1>6. durable'[s] = durable[s]
  BY <1>2, <1>3 DEF Interrupted
<1>7. 1 - s \in Slots /\ 1 - (1 - s) = s
  BY DEF Slots
<1>8. CopiesOrdered(durable')
  <2>1. CASE durable'[1 - s] = TornCopy
    BY <1>2, <1>6, <1>7, <2>1 DEF CopiesOrdered, TornCopy
  <2>2. CASE durable'[1 - s] = durable[1 - s]
    <3>1. \A c \in Slots : durable'[c] = durable[c]
      BY <1>6, <2>2 DEF Slots
    <3>2. \A c \in Slots : 1 - c \in Slots
      BY DEF Slots
    <3> QED BY <1>1, <3>1, <3>2 DEF CopiesOrdered
  <2>3. CASE durable'[1 - s] = view[1 - s] /\ durable'[1 - s] # durable[1 - s] /\ durable'[1 - s] # TornCopy
    <3>1. durable'[1 - s].flag = NextFlag(durable'[s].flag)
      BY <1>2, <1>6, <2>3
    <3> QED BY <1>2, <1>6, <3>1 DEF CopiesOrdered
  <2> QED BY <1>4, <1>7, <2>1, <2>2, <2>3
<1> QED BY <1>3, <1>5, <1>8 DEF CopiesOrdered

(***************************************************************************)
(* The inductive invariant.                                                *)
(***************************************************************************)

\* The factory image, with flag 0 in copy A and 1 in copy B, satisfies the
\* invariant.
LEMMA InitIInv == Init => IInv
<1> SUFFICES ASSUME Init PROVE IInv
  OBVIOUS
<1>1. records \in Records /\ 1 \in DOMAIN records /\ records[1].id \in Deployments
  <2>1. records \in Records
    BY DEF Init, Factory
  <2> QED BY <2>1, RecordsFacts DEF mica_boot_record
<1>2. \A c \in Slots : c \in Flags
  BY RecordsAssumption DEF Slots, Flags
<1>3. \A c \in Slots : durable[c] \in Copy /\ durable[c].sound /\ durable[c].flag = c
  BY <1>1, <1>2, CopyTypes DEF Init, encodeFitEnvironment
<1>4. durable \in [Slots -> Copy]
  BY <1>3 DEF Init
<1>5. TypeOK
  <2>1. armed \in BOOLEAN
    BY DEF Init
  <2>2. /\ pc \in Steps /\ job \in {"none", "trial", "retire", "os"}
        /\ slot \in Slots /\ selected \in 1 .. MICA_BOOT_RECORD_LIMIT
        /\ running \in Deployments /\ attempts \in [Deployments -> Nat]
        /\ faults \in 0 .. MaxFaults /\ view = durable
    BY <1>1, LoaderAssumption DEF Init, Slots, Steps, MICA_BOOT_RECORD_LIMIT
  <2> QED BY <1>1, <1>4, <2>1, <2>2 DEF TypeOK
<1>6. CopiesOrdered(durable)
  <2>1. NextFlag(0) = 1
    BY <1>2, NextFlagValue, RecordsAssumption DEF Slots
  <2>2. durable[1 - 0].flag = NextFlag(durable[0].flag) /\ durable[0].sound
    BY <1>3, <2>1 DEF Slots
  <2> QED BY <2>2 DEF CopiesOrdered, Slots
<1> QED BY <1>5, <1>6 DEF IInv, MediumInv, Init

\* The actions that leave the medium alone and start no write.
LEMMA QuietSteps ==
  ASSUME IInv,
         \/ ArmWatchdog \/ SelectMedium \/ SelectConfirmed \/ SelectNone
         \/ WatchdogExpires \/ OsReboot \/ UNCHANGED vars
  PROVE  IInv'
<1> USE DEF IInv
<1>1. CASE ArmWatchdog
  <2>1. TypeOK'
    <3>1. armed' \in BOOLEAN
      BY <1>1 DEF ArmWatchdog, TypeOK
    <3>2. /\ pc' \in Steps /\ job' \in {"none", "trial", "retire", "os"}
          /\ faults' \in 0 .. MaxFaults
          /\ UNCHANGED <<media, slot, records, selected, running, attempts>>
      BY <1>1, LoaderAssumption DEF ArmWatchdog, TypeOK, Steps, Fault, recovery
    <3> QED BY <3>1, <3>2 DEF TypeOK, media
  <2>2. view = durable /\ pc' \in {"medium", "recovery"}
    BY <1>1 DEF ArmWatchdog, MediumInv, recovery
  <2>3. OneCopyAtRisk'
    BY <1>1, AlwaysOneIntact DEF ArmWatchdog, OneCopyAtRisk, media
  <2>4. CopiesOrdered(durable)'
    BY <1>1 DEF ArmWatchdog, MediumInv, CopiesOrdered, media
  <2> QED BY <1>1, <2>1, <2>2, <2>3, <2>4 DEF ArmWatchdog, MediumInv, media
<1>2. CASE SelectMedium
  <2>1. TypeOK'
    BY <1>2, LoaderAssumption DEF SelectMedium, TypeOK, Steps, media, Fault, recovery
  <2>2. view = durable /\ pc' \in {"read", "recovery"} /\ job = "none"
    BY <1>2 DEF SelectMedium, MediumInv, recovery
  <2>3. OneCopyAtRisk'
    BY <1>2, AlwaysOneIntact DEF SelectMedium, OneCopyAtRisk, media
  <2>4. CopiesOrdered(durable)'
    BY <1>2 DEF SelectMedium, MediumInv, CopiesOrdered, media
  <2> QED BY <1>2, <2>1, <2>2, <2>3, <2>4 DEF SelectMedium, MediumInv, media
<1>3. CASE SelectConfirmed
  <2>1. \A i \in DOMAIN records : i \in 1 .. MICA_BOOT_RECORD_LIMIT
    BY RecordsFacts DEF TypeOK
  <2>2. TypeOK'
    BY <1>3, <2>1 DEF SelectConfirmed, TypeOK, Steps, media
  <2>3. CopiesOrdered(durable)'
    BY <1>3 DEF SelectConfirmed, MediumInv, CopiesOrdered, media
  <2> QED BY <1>3, <2>2, <2>3 DEF SelectConfirmed, MediumInv, media
<1>4. CASE SelectNone
  <2>1. TypeOK'
    BY <1>4 DEF SelectNone, TypeOK, Steps, media, recovery
  <2>2. OneCopyAtRisk'
    BY <1>4, AlwaysOneIntact DEF SelectNone, OneCopyAtRisk, media
  <2>3. CopiesOrdered(durable)'
    BY <1>4 DEF SelectNone, MediumInv, CopiesOrdered, media
  <2> QED BY <1>4, <2>1, <2>2, <2>3 DEF SelectNone, MediumInv, media, recovery
<1>5. CASE WatchdogExpires \/ OsReboot
  <2>1. TypeOK'
    BY <1>5 DEF WatchdogExpires, OsReboot, TypeOK, Steps, media
  <2>2. CopiesOrdered(durable)'
    BY <1>5 DEF WatchdogExpires, OsReboot, MediumInv, CopiesOrdered, media
  <2> QED BY <1>5, <2>1, <2>2 DEF WatchdogExpires, OsReboot, MediumInv, media
<1>6. CASE UNCHANGED vars
  <2>1. TypeOK'
    BY <1>6 DEF TypeOK, vars
  <2>2. MediumInv'
    BY <1>6 DEF MediumInv, CopiesOrdered, OneCopyAtRisk, Pending, WriteTarget, vars
  <2> QED BY <2>1, <2>2
<1> QED BY <1>1, <1>2, <1>3, <1>4, <1>5, <1>6

\* A power cut at any step, and a restart from recovery, keep the invariant.
LEMMA ResetSteps ==
  ASSUME IInv, PowerCut \/ Restart
  PROVE  IInv'
<1>1. Settle
  BY DEF PowerCut, Restart
<1>2. durable' \in [Slots -> Copy] /\ view' = durable' /\ CopiesOrdered(durable)'
  BY <1>1, SettleFacts
<1>3. TypeOK'
  <2>1. armed' \in BOOLEAN
    BY DEF PowerCut, Restart
  <2>2. /\ pc' \in Steps
        /\ faults' \in 0 .. MaxFaults
        /\ UNCHANGED <<job, slot, records, selected, running, attempts>>
    BY LoaderAssumption DEF PowerCut, Restart, Fault, IInv, TypeOK, Steps
  <2> QED BY <1>2, <2>1, <2>2 DEF IInv, TypeOK
<1>4. pc' = "reset"
  BY DEF PowerCut, Restart
<1> QED BY <1>2, <1>3, <1>4 DEF IInv, MediumInv

\* read_environment, with reads of sound copies that fail, keeps the invariant.
LEMMA ReadStep ==
  ASSUME IInv, read_environment
  PROVE  IInv'
<1>1. view = durable /\ CopiesOrdered(durable) /\ job = "none"
  BY DEF IInv, MediumInv, read_environment
<1>2. /\ UNCHANGED <<media, armed, job, selected, running, attempts>>
      /\ faults' \in 0 .. MaxFaults
  BY LoaderAssumption DEF read_environment, Fault, IInv, TypeOK
<1>3. \/ /\ pc' = "select" /\ slot' \in Slots /\ records' \in Records
         /\ durable[slot'].sound
      \/ pc' = "recovery" /\ slot' = slot /\ records' = records
  <2>1. PICK readable \in [Slots -> BOOLEAN] :
          LET s == mica_boot_slot(readable[0] /\ view[0].sound, view[0].flag,
                                  readable[1] /\ view[1].sound, view[1].flag)
          IN  IF s \in Slots /\ mica_boot_parse(view[s].records)
              THEN pc' = "select" /\ slot' = s /\ records' = view[s].records
              ELSE recovery /\ UNCHANGED <<slot, records>>
    BY DEF read_environment
  <2> DEFINE s == mica_boot_slot(readable[0] /\ view[0].sound, view[0].flag,
                                 readable[1] /\ view[1].sound, view[1].flag)
  <2>2. s \in Slots => view[s].sound
    BY DEF mica_boot_slot, Slots
  <2> QED BY <1>1, <2>1, <2>2 DEF mica_boot_parse, recovery
<1>4. TypeOK'
  BY <1>2, <1>3 DEF IInv, TypeOK, Steps, media
<1>5. OneCopyAtRisk' /\ CopiesOrdered(durable)' /\ view' = durable'
  BY <1>1, <1>2, AlwaysOneIntact DEF OneCopyAtRisk, CopiesOrdered, media
<1> QED BY <1>1, <1>2, <1>3, <1>4, <1>5 DEF IInv, MediumInv, media

\* Charging a trial in the records of the loader keeps the invariant.
LEMMA SelectTrialStep ==
  ASSUME IInv, SelectTrial
  PROVE  IInv'
<1>1. PICK i \in DOMAIN records :
        /\ records[i].tries > 0
        /\ selected' = i
        /\ records' = [records EXCEPT ![i].tries = @ - 1]
  BY DEF SelectTrial
<1>2. records \in Records /\ records[i] \in mica_boot_record
      /\ DOMAIN records \subseteq 1 .. MICA_BOOT_RECORD_LIMIT
  BY RecordsFacts DEF IInv, TypeOK
<1>3. records[i].tries - 1 \in Confirmed .. MaxTries
  BY <1>1, <1>2, RecordsAssumption DEF mica_boot_record, Confirmed
<1>4. records' \in Records /\ DOMAIN records' = DOMAIN records
  BY <1>1, <1>2, <1>3, SetTries
<1>5. TypeOK'
  BY <1>1, <1>2, <1>4 DEF SelectTrial, IInv, TypeOK, Steps, media
<1>6. view = durable /\ durable[slot].sound /\ CopiesOrdered(durable)
  BY DEF SelectTrial, IInv, MediumInv
<1>7. CopiesOrdered(durable)' /\ view' = durable' /\ durable'[slot'].sound
  BY <1>6 DEF SelectTrial, CopiesOrdered, media
<1> QED BY <1>1, <1>4, <1>5, <1>7 DEF SelectTrial, IInv, MediumInv

\* The write of the inactive copy, completed, failed or torn, keeps the
\* invariant.
LEMMA WriteStep ==
  ASSUME IInv, WriteCopy
  PROVE  IInv'
<1>1. /\ view = durable /\ durable[slot].sound /\ CopiesOrdered(durable) /\ job # "none"
      /\ slot \in Slots /\ 1 - slot \in Slots /\ WriteTarget = 1 - slot
      /\ job # "os" => selected \in DOMAIN records
  BY DEF IInv, MediumInv, WriteCopy, TypeOK, Slots, WriteTarget
<1>2. /\ UNCHANGED <<durable, armed, job, slot, records, selected, running, attempts>>
      /\ faults' \in 0 .. MaxFaults
  BY LoaderAssumption DEF WriteCopy, Fault, IInv, TypeOK
<1>3. PICK left \in {view[1 - slot], Pending, TornCopy} :
        /\ view' = [view EXCEPT ![1 - slot] = left]
        /\ \/ pc' = "flush" /\ left \in {Pending, TornCopy}
           \/ pc' = "recovery"
  <2>1. \/ view' = [view EXCEPT ![1 - slot] = Pending] /\ pc' = "flush"
        \/ view' = view /\ pc' = "recovery"
        \/ /\ \E x \in Interrupted(view[1 - slot], Pending) : view' = [view EXCEPT ![1 - slot] = x]
           /\ pc' = "recovery"
        \/ view' = [view EXCEPT ![1 - slot] = TornCopy] /\ pc' = "flush"
    BY <1>1 DEF WriteCopy, recovery
  <2>2. view = [view EXCEPT ![1 - slot] = view[1 - slot]]
    BY <1>1 DEF IInv, TypeOK
  <2> QED BY <2>1, <2>2 DEF Interrupted
<1>4. left \in Copy /\ Pending \in Copy /\ Pending.flag = NextFlag(durable[slot].flag)
  BY <1>1, PendingFacts, CopyTypes DEF IInv, TypeOK
<1>5. /\ view' \in [Slots -> Copy]
      /\ view'[slot] = durable[slot]
      /\ view'[1 - slot] = left
  BY <1>1, <1>3, <1>4 DEF IInv, TypeOK, Slots
<1>6. TypeOK'
  BY <1>2, <1>3, <1>5 DEF IInv, TypeOK, Steps
<1>7. Pending' = Pending /\ WriteTarget' = 1 - slot
  BY <1>1, <1>2, <1>5 DEF Pending, WriteTarget
<1>8. OneCopyAtRisk'
  BY <1>1, <1>2, <1>3, <1>4, <1>5 DEF OneCopyAtRisk
<1>9. CopiesOrdered(durable)'
  BY <1>1, <1>2 DEF CopiesOrdered
<1>10. /\ pc' \in {"flush", "recovery"}
       /\ pc' = "flush" => view'[slot'] = durable'[slot'] /\ view'[WriteTarget'] \in {Pending', TornCopy}
       /\ durable'[slot'].sound
  BY <1>1, <1>2, <1>3, <1>5, <1>7
<1> QED BY <1>1, <1>2, <1>6, <1>8, <1>9, <1>10 DEF IInv, MediumInv

\* flush_medium, completed or failed, keeps the invariant.
LEMMA FlushStep ==
  ASSUME IInv, flush_medium
  PROVE  IInv'
<1>1. /\ view[slot] = durable[slot] /\ durable[slot].sound /\ job # "none"
      /\ view[1 - slot] \in {Pending, TornCopy}
      /\ slot \in Slots /\ 1 - slot \in Slots
      /\ job # "os" => selected \in DOMAIN records
  BY DEF IInv, MediumInv, flush_medium, TypeOK, Slots, WriteTarget
<1>2. /\ UNCHANGED <<view, armed, job, slot, records, selected, running, attempts>>
      /\ faults' \in 0 .. MaxFaults
      /\ \/ durable' = view /\ pc' = "readback"
         \/ durable' = durable /\ pc' = "recovery"
  BY LoaderAssumption DEF flush_medium, Fault, IInv, TypeOK, recovery
<1>3. TypeOK'
  BY <1>2 DEF IInv, TypeOK, Steps
<1>4. OneCopyAtRisk
  BY AlwaysOneIntact
<1>5. CASE durable' = view /\ pc' = "readback"
  <2>1. CopiesOrdered(view)
    <3>1. CASE view[1 - slot] = TornCopy
      BY <1>1, <3>1 DEF CopiesOrdered, TornCopy
    <3>2. CASE view[1 - slot] = Pending
      <4>1. view[1 - slot].flag = NextFlag(view[slot].flag)
        BY <3>2, PendingFacts DEF IInv
      <4> QED BY <1>1, <4>1 DEF CopiesOrdered
    <3> QED BY <1>1, <3>1, <3>2
  <2>2. CopiesOrdered(durable)'
    BY <1>2, <1>5, <2>1 DEF CopiesOrdered
  <2> QED BY <1>1, <1>2, <1>3, <1>5, <2>2 DEF IInv, MediumInv
<1>6. CASE durable' = durable /\ pc' = "recovery"
  <2>1. OneCopyAtRisk' /\ CopiesOrdered(durable)'
    BY <1>2, <1>4, <1>6 DEF OneCopyAtRisk, CopiesOrdered, IInv, MediumInv
  <2> QED BY <1>3, <1>6, <2>1 DEF IInv, MediumInv
<1> QED BY <1>2, <1>5, <1>6

\* The comparison after the write lets the loader go on only over the copy
\* it meant to write.
LEMMA ReadBackStep ==
  ASSUME IInv, ReadBack
  PROVE  IInv'
<1>1. /\ view = durable /\ durable[slot].sound /\ job # "none"
      /\ job # "os" => selected \in DOMAIN records
  BY DEF IInv, MediumInv, ReadBack
<1>2. /\ UNCHANGED <<media, job, slot, records, selected, running, attempts>>
      /\ faults' \in 0 .. MaxFaults
      /\ \/ view[WriteTarget] = Pending /\ pc' = AfterPersist
         \/ pc' = "recovery"
  BY LoaderAssumption DEF ReadBack, Fault, IInv, TypeOK, recovery
<1>3. /\ job = "trial" => AfterPersist = "load"
      /\ job # "trial" => AfterPersist \in {"reset", "running"}
  BY DEF AfterPersist
<1>4. TypeOK'
  <2>1. armed' \in BOOLEAN
    BY DEF ReadBack
  <2>2. pc' \in Steps
    BY <1>2, <1>3 DEF Steps
  <2> QED BY <1>2, <2>1, <2>2 DEF IInv, TypeOK, media
<1>5. OneCopyAtRisk' /\ CopiesOrdered(durable)' /\ view' = durable'
  BY <1>1, <1>2, AlwaysOneIntact DEF OneCopyAtRisk, CopiesOrdered, IInv, MediumInv, media
<1>6. Pending' = Pending /\ WriteTarget' = WriteTarget
  BY <1>2 DEF Pending, WriteTarget, media
<1> QED BY <1>1, <1>2, <1>3, <1>4, <1>5, <1>6 DEF IInv, MediumInv, media

\* A launch, and a load that fails and retires a confirmed entry, keep the
\* invariant.
LEMMA LoadSteps ==
  ASSUME IInv, Launch \/ LoadFails
  PROVE  IInv'
<1>1. /\ view = durable /\ durable[slot].sound
      /\ selected \in DOMAIN records /\ records \in Records
  BY DEF IInv, MediumInv, TypeOK, Launch, LoadFails
<1>2. /\ records[selected] \in mica_boot_record
      /\ records[selected].id \in Deployments
  BY <1>1, RecordsFacts DEF mica_boot_record
<1>3. attempts' \in [Deployments -> Nat]
  <2>1. Attempt
    BY DEF Launch, LoadFails
  <2> QED BY <1>2, <2>1 DEF Attempt, IInv, TypeOK
<1>4. CopiesOrdered(durable)' /\ view' = durable' /\ durable'[slot'].sound
  BY <1>1 DEF CopiesOrdered, IInv, MediumInv, Launch, LoadFails, media
<1>5. CASE Launch
  <2>1. TypeOK'
    BY <1>2, <1>3, <1>5 DEF Launch, IInv, TypeOK, Steps, media
  <2> QED BY <1>4, <1>5, <2>1 DEF Launch, IInv, MediumInv
<1>6. CASE LoadFails
  <2>1. /\ UNCHANGED <<media, slot, selected, running>>
        /\ faults' \in 0 .. MaxFaults
        /\ \/ /\ records' = [records EXCEPT ![selected].tries = 0]
              /\ job' = "retire" /\ pc' = "write" /\ armed' = armed
           \/ pc' = "reset" /\ armed' = FALSE /\ records' = records /\ job' = job
    BY <1>6, LoaderAssumption DEF LoadFails, Fault, IInv, TypeOK
  <2>2. records' \in Records /\ DOMAIN records' = DOMAIN records
    <3>1. 0 \in Confirmed .. MaxTries
      BY RecordsAssumption DEF Confirmed
    <3> QED BY <1>1, <2>1, <3>1, SetTries
  <2>3. TypeOK'
    <3>1. armed' \in BOOLEAN
      BY <2>1 DEF IInv, TypeOK
    <3>2. pc' \in Steps /\ job' \in {"none", "trial", "retire", "os"}
      BY <2>1 DEF Steps, IInv, TypeOK
    <3> QED BY <1>3, <2>1, <2>2, <3>1, <3>2 DEF IInv, TypeOK, media
  <2> QED BY <1>1, <1>4, <2>1, <2>2, <2>3 DEF IInv, MediumInv
<1> QED BY <1>5, <1>6

\* A list of two entries with different ids and a higher generation in front.
LEMMA InstalledList ==
  ASSUME NEW d \in Deployments, NEW r \in Records, NEW i \in DOMAIN r,
         \A j \in DOMAIN r : r[j].id # d,
         r[1].generation < GenerationLimit
  PROVE  LET new == [id |-> d, generation |-> r[1].generation + 1, tries |-> MaxTries]
         IN  <<new, r[i]>> \in Records
<1> DEFINE new == [id |-> d, generation |-> r[1].generation + 1, tries |-> MaxTries]
           q == <<new, r[i]>>
<1>1. /\ DOMAIN r \in {1 .. 1, 1 .. 2} /\ 1 \in DOMAIN r
      /\ \A j \in DOMAIN r : r[j] \in mica_boot_record
      /\ Ordered(r)
  BY RecordsFacts
<1>2. /\ r[1].generation \in 1 .. GenerationLimit
      /\ r[i].generation \in 1 .. GenerationLimit
  BY <1>1 DEF mica_boot_record
<1>3. r[i].generation <= r[1].generation
  <2>1. CASE i = 1
    BY <1>2, <2>1
  <2>2. CASE i # 1
    <3>1. 1 < i
      BY <1>1, <2>2
    <3>2. r[1].generation > r[i].generation
      BY <1>1, <3>1 DEF Ordered
    <3> QED BY <1>2, <3>2
  <2> QED BY <2>1, <2>2
<1>4. new \in mica_boot_record
  BY <1>2, RecordsAssumption DEF mica_boot_record, Confirmed
<1>5. q \in [1 .. 2 -> mica_boot_record] /\ q[1] = new /\ q[2] = r[i] /\ DOMAIN q = 1 .. 2
  BY <1>1, <1>4
<1>6. new.id # r[i].id /\ new.generation > r[i].generation
  BY <1>2, <1>3
<1>7. Ordered(q)
  <2> HIDE DEF new, q
  <2> QED BY <1>5, <1>6 DEF Ordered
<1> QED BY <1>5, <1>7, RecordsIntro

\* The confirmation and the installation by the running system keep the
\* invariant.
LEMMA SystemSteps ==
  ASSUME IInv, OsConfirm \/ \E d \in Deployments : OsInstall(d)
  PROVE  IInv'
<1>1. view = durable /\ CopiesOrdered(durable) /\ view \in [Slots -> Copy]
  BY DEF IInv, MediumInv, TypeOK, OsConfirm, OsInstall
<1>2. /\ Active(view) \in Slots /\ view[Active(view)].sound
      /\ Current(view) \in Records
  <2>1. Active(view) \in Slots /\ view[Active(view)].sound
    BY <1>1, ActiveFacts
  <2> QED BY <1>1, <2>1, CopyFacts DEF Current
<1>3. /\ slot' = Active(view) /\ job' = "os" /\ pc' = "write"
      /\ UNCHANGED <<media, armed, selected, running, faults>>
  BY DEF OsConfirm, OsInstall
<1>4. records' \in Records /\ attempts' \in [Deployments -> Nat]
  <2>1. CASE OsConfirm
    <3>1. PICK i \in DOMAIN Current(view) : records' = [Current(view) EXCEPT ![i].tries = Confirmed]
      BY <2>1 DEF OsConfirm
    <3>2. Confirmed \in Confirmed .. MaxTries
      BY RecordsAssumption DEF Confirmed
    <3>3. records' \in Records
      BY <1>2, <3>1, <3>2, SetTries
    <3> QED BY <2>1, <3>3 DEF OsConfirm, IInv, TypeOK
  <2>2. ASSUME NEW d \in Deployments, OsInstall(d)
        PROVE  records' \in Records /\ attempts' \in [Deployments -> Nat]
    <3>1. PICK i \in DOMAIN Current(view) :
            records' = <<[id |-> d, generation |-> Current(view)[1].generation + 1, tries |-> MaxTries],
                         Current(view)[i]>>
      BY <2>2 DEF OsInstall
    <3>2. /\ \A j \in DOMAIN Current(view) : Current(view)[j].id # d
          /\ Current(view)[1].generation < GenerationLimit
      BY <2>2 DEF OsInstall
    <3>3. records' \in Records
      BY <1>2, <3>1, <3>2, InstalledList
    <3> QED BY <2>2, <3>3 DEF OsInstall, IInv, TypeOK
  <2> QED BY <2>1, <2>2
<1>5. TypeOK'
  BY <1>2, <1>3, <1>4 DEF IInv, TypeOK, Steps, media
<1>6. CopiesOrdered(durable)' /\ view' = durable' /\ durable'[slot'].sound
  BY <1>1, <1>2, <1>3 DEF CopiesOrdered, media
<1> QED BY <1>3, <1>5, <1>6 DEF IInv, MediumInv

\* Every step of the loader, of the power and of the system keeps the
\* invariant.
LEMMA StepIInv == IInv /\ [Next]_vars => IInv'
<1> SUFFICES ASSUME IInv, [Next]_vars PROVE IInv'
  OBVIOUS
<1> QED
  BY QuietSteps, ResetSteps, ReadStep, SelectTrialStep, WriteStep, FlushStep, ReadBackStep,
     LoadSteps, SystemSteps
     DEF Next, Loader, System

(***************************************************************************)
(* The theorems.                                                           *)
(***************************************************************************)

\* Every reachable state of the loader and its medium is of its type: in
\* particular no step of mica_file_boot or mica_ubi_boot makes records that
\* mica_boot_parse would refuse.
THEOREM TypeCorrect == Spec => []TypeOK
<1>1. Spec => []IInv
  BY InitIInv, StepIInv, PTL DEF Spec
<1>2. IInv => TypeOK
  BY DEF IInv
<1> QED BY <1>1, <1>2, PTL

\* No sequence of power cuts, torn writes, failed writes, flushes or reads
\* leaves a board without a copy that its loader chooses and decodes.
THEOREM AlwaysBootableCorrect == Spec => []AlwaysBootable
<1>1. Spec => []IInv
  BY InitIInv, StepIInv, PTL DEF Spec
<1>2. IInv => AlwaysBootable
  <2> SUFFICES ASSUME IInv PROVE AlwaysBootable
    OBVIOUS
  <2>1. durable \in [Slots -> Copy] /\ CopiesOrdered(durable)
    BY DEF IInv, TypeOK, MediumInv
  <2>2. Active(durable) \in Slots /\ durable[Active(durable)].sound
    BY <2>1, ActiveFacts
  <2> QED BY <2>1, <2>2, CopyFacts DEF AlwaysBootable, Current, mica_boot_parse
<1> QED BY <1>1, <1>2, PTL

\* No trial is loaded before the next boot is sure to find it paid for.
THEOREM TrialChargedCorrect == Spec => []TrialChargedBeforeLoad
<1>1. Spec => []IInv
  BY InitIInv, StepIInv, PTL DEF Spec
<1>2. IInv => TrialChargedBeforeLoad
  <2> SUFFICES ASSUME IInv, pc = "load", job = "trial" PROVE Current(durable) = records
    BY DEF TrialChargedBeforeLoad
  <2>1. /\ durable \in [Slots -> Copy] /\ slot \in Slots
        /\ durable[slot].sound /\ durable[1 - slot] = Pending /\ view = durable
    BY DEF IInv, TypeOK, MediumInv, WriteTarget
  <2>2. /\ Pending.sound /\ Pending.flag = NextFlag(durable[slot].flag)
        /\ Pending.records = records
    BY <2>1, PendingFacts DEF IInv
  <2>3. Active(durable) = 1 - slot
    BY <2>1, <2>2, ActiveFacts
  <2> QED BY <2>1, <2>2, <2>3 DEF Current
<1> QED BY <1>1, <1>2, PTL

-----------------------------------------------------------------------------
(* The invariant: what the loader and the system are about to store.        *)

\* What the write in progress makes of the records r: one step of BootAttempts.
Change(r) ==
  \/ /\ job = "trial"
     /\ mica_boot_next(r, selected) /\ r[selected].tries > 0
     /\ records = [r EXCEPT ![selected].tries = @ - 1]
  \/ /\ job = "retire"
     /\ mica_boot_next(r, selected) /\ r[selected].tries = Confirmed
     /\ records = [r EXCEPT ![selected].tries = 0]
  \/ /\ job = "os"
     /\ \E i \in DOMAIN r : records = [r EXCEPT ![i].tries = Confirmed]
  \/ /\ job = "os"
     /\ \E d \in Deployments, i \in DOMAIN r :
          /\ attempts[d] = 0
          /\ r[i].tries = Confirmed
          /\ records = <<[id |-> d, generation |-> r[1].generation + 1, tries |-> MaxTries], r[i]>>

\* The copy read before is still the active one, and the next is made of it.
Underway == Active(durable) = slot /\ Change(Current(durable))

\* The cache of the device has at most the write in progress.
CacheHolds == view[slot] = durable[slot] /\ view[1 - slot] \in {durable[1 - slot], Pending, TornCopy}

\* The loader has read the records of the active copy.
HasRead == slot = Active(durable) /\ records = Current(durable)

\* What the loader holds at each step is what the medium says or a change of it.
RInv ==
  /\ pc = "select" => HasRead
  /\ pc = "load" /\ job = "none" =>
       HasRead /\ mica_boot_next(records, selected) /\ records[selected].tries = Confirmed
  /\ pc \in {"write", "flush"} => Underway
  /\ pc = "recovery" => view = durable \/ (Underway /\ CacheHolds)
  /\ pc = "readback" => view[1 - slot] \in {Pending, TornCopy}
  /\ pc \in {"readback", "load"} /\ job = "trial" => records[selected].tries # Confirmed

\* No deployment has more trials behind it, paid for and ahead than it was installed with.
Due == [d \in Deployments |-> attempts[d] + (IF d \in Paid THEN 1 ELSE 0)]
Accounted ==
  /\ \A d \in Deployments : Due[d] <= MaxTries
  /\ \A i \in DOMAIN Current(durable) :
       LET e == Current(durable)[i] IN e.tries # Confirmed => Due[e.id] + e.tries <= MaxTries

\* A step of BootAttempts, as the refinement mapping shows it, or a stutter.
AStep == [Abstract!ANext]_(Abstract!avars)

-----------------------------------------------------------------------------
(* The steps of BootAttempts.                                               *)

\* The two modules mean the same by a list and by its next entry.
LEMMA SameRecords ==
  /\ Abstract!Records = Records /\ Abstract!Confirmed = Confirmed
  /\ \A r, i : Abstract!mica_boot_next(r, i) = mica_boot_next(r, i)
<1>1. Abstract!mica_boot_record = mica_boot_record /\ Abstract!MICA_BOOT_RECORD_LIMIT = MICA_BOOT_RECORD_LIMIT
  BY DEF Abstract!mica_boot_record, mica_boot_record, Abstract!Confirmed, Confirmed,
     Abstract!MICA_BOOT_RECORD_LIMIT, MICA_BOOT_RECORD_LIMIT
<1>2. Abstract!Lists = Lists
  BY <1>1 DEF Abstract!Lists, Lists
<1>3. \A r : Abstract!Ordered(r) = Ordered(r)
  BY DEF Abstract!Ordered, Ordered
<1>4. Abstract!Records = Records
  BY <1>2, <1>3 DEF Abstract!Records, Records
<1> QED
  BY <1>4 DEF Abstract!Confirmed, Confirmed, Abstract!mica_boot_next, mica_boot_next

\* A step that changes nothing the register shows.
LEMMA StutterStep ==
  ASSUME UNCHANGED <<Current(durable), Paid, attempts>> PROVE AStep
BY DEF AStep, Abstract!avars

\* A trial that was paid for and does not happen.
LEMMA LoseStep ==
  ASSUME UNCHANGED <<Current(durable), attempts>>, Paid' = {} PROVE AStep
BY DEF AStep, Abstract!ANext, Abstract!Lose

\* A trial that happens.
LEMMA TryStep ==
  ASSUME NEW d \in Paid, UNCHANGED Current(durable), Paid' = {},
         attempts' = [attempts EXCEPT ![d] = @ + 1]
  PROVE  AStep
BY DEF AStep, Abstract!ANext, Abstract!Try

\* An entry that pays stays the one it was, and is not taken for a confirmed one.
LEMMA PaidEntry ==
  ASSUME NEW r \in Records, NEW i \in DOMAIN r, r[i].tries > 0
  PROVE  LET q == [r EXCEPT ![i].tries = @ - 1]
         IN  DOMAIN q = DOMAIN r /\ q[i].id = r[i].id /\ q[i].tries # Confirmed
<1>1. PICK n \in {1, 2} : DOMAIN r = 1 .. n /\ r \in [1 .. n -> mica_boot_record]
  BY RecordsFacts
<1>2. r[i] \in mica_boot_record /\ r[i].tries \in Int
  BY <1>1, RecordsAssumption DEF mica_boot_record, Confirmed
<1> QED BY <1>1, <1>2 DEF mica_boot_record, Confirmed

\* When the write in progress reaches the medium, BootAttempts takes its step.
LEMMA CommitStep ==
  ASSUME IInv, Change(Current(durable)), Current(durable) \in Records, Paid = {},
         Current(durable)' = records, UNCHANGED attempts,
         Paid' = {} \/ (job = "trial" /\ Paid' = {records[selected].id})
  PROVE  AStep
<1> DEFINE r == Current(durable)
<1>1. DOMAIN r \subseteq {1, 2} /\ \A i \in DOMAIN r : r[i] \in mica_boot_record
  BY RecordsFacts
<1>2. CASE /\ job = "trial"
           /\ mica_boot_next(r, selected) /\ r[selected].tries > 0
           /\ records = [r EXCEPT ![selected].tries = @ - 1]
  <2>1. selected \in DOMAIN r
    BY <1>2 DEF mica_boot_next
  <2>3. records[selected].id = r[selected].id
    BY <1>2, <2>1, PaidEntry
  <2>4. Abstract!Charge
    BY <1>2, <2>1, <2>3, SameRecords DEF Abstract!Charge
  <2> QED BY <2>4 DEF AStep, Abstract!ANext
<1>3. CASE /\ job = "retire"
           /\ mica_boot_next(r, selected) /\ r[selected].tries = Confirmed
           /\ records = [r EXCEPT ![selected].tries = 0]
  <2>1. selected \in DOMAIN r
    BY <1>3 DEF mica_boot_next
  <2>2. Abstract!Retire
    BY <1>3, <2>1, SameRecords DEF Abstract!Retire
  <2> QED BY <2>2 DEF AStep, Abstract!ANext
<1>4. CASE job = "os" /\ \E i \in DOMAIN r : records = [r EXCEPT ![i].tries = Confirmed]
  <2>1. Abstract!Confirm
    BY <1>4, SameRecords DEF Abstract!Confirm
  <2> QED BY <2>1 DEF AStep, Abstract!ANext
<1>5. ASSUME job = "os", NEW d \in Deployments, NEW i \in DOMAIN r,
             attempts[d] = 0, r[i].tries = Confirmed,
             records = <<[id |-> d, generation |-> r[1].generation + 1, tries |-> MaxTries], r[i]>>
      PROVE  AStep
  <2>1. records \in Records
    BY DEF IInv, TypeOK
  <2>2. Abstract!Install(d)
    BY <1>5, <2>1, SameRecords DEF Abstract!Install
  <2> QED BY <2>2 DEF AStep, Abstract!ANext
<1> QED
  BY <1>2, <1>3, <1>4, <1>5 DEF Change

-----------------------------------------------------------------------------
(* The medium.                                                              *)

\* The next boot reads a sound copy, with records in order.
LEMMA CurrentFacts ==
  ASSUME IInv
  PROVE  /\ durable \in [Slots -> Copy] /\ Active(durable) \in Slots
         /\ durable[Active(durable)].sound /\ Current(durable) \in Records
<1>1. durable \in [Slots -> Copy] /\ CopiesOrdered(durable)
  BY DEF IInv, TypeOK, MediumInv
<1>2. Active(durable) \in Slots /\ durable[Active(durable)].sound
  BY <1>1, ActiveFacts
<1> QED
  BY <1>1, <1>2, CopyFacts DEF Current

\* No trial is to come but between the durable write of its charge and its load.
LEMMA NonePaid ==
  /\ job # "trial" \/ pc \notin {"load", "readback"} => Paid = {}
  /\ job' # "trial" \/ pc' \notin {"load", "readback"} => Paid' = {}
BY DEF Paid

\* A medium that keeps its copies keeps its records.
LEMMA SameMedium ==
  ASSUME UNCHANGED durable
  PROVE  UNCHANGED <<Current(durable), Active(durable)>>
BY DEF Current, Active

\* A medium whose slot s is as it was before and whose other copy is m: it
\* reads the old records, or those of the pending copy.
LEMMA OneWritten ==
  ASSUME IInv, Active(durable) = slot, NEW m \in [Slots -> Copy],
         m[slot] = durable[slot], view[slot] = durable[slot],
         m[1 - slot] \in {durable[1 - slot], Pending, TornCopy}
  PROVE  /\ m[1 - slot] = durable[1 - slot] => m = durable
         /\ m[1 - slot] = TornCopy => Active(m) = slot /\ Current(m) = Current(durable)
         /\ m[1 - slot] = Pending => Active(m) = 1 - slot /\ Current(m) = records
<1>1. slot \in Slots /\ 1 - slot \in Slots /\ 1 - (1 - slot) = slot
  BY DEF IInv, TypeOK, Slots
<1>2. durable \in [Slots -> Copy] /\ durable[slot].sound
  BY CurrentFacts
<1>3. ASSUME m[1 - slot] = durable[1 - slot] PROVE m = durable
  <2>1. \A s \in Slots : m[s] = durable[s]
    BY <1>3 DEF Slots, IInv, TypeOK
  <2> QED BY <1>2, <2>1
<1>4. ASSUME m[1 - slot] = TornCopy PROVE Active(m) = slot /\ Current(m) = Current(durable)
  <2>1. Active(m) = slot
    BY <1>1, <1>2, <1>4, ActiveFacts DEF TornCopy
  <2> QED BY <1>4, <2>1 DEF Current
<1>5. ASSUME m[1 - slot] = Pending PROVE Active(m) = 1 - slot /\ Current(m) = records
  <2>1. Pending.sound /\ Pending.flag = NextFlag(m[slot].flag) /\ Pending.records = records
    BY PendingFacts DEF IInv
  <2>2. Active(m) = 1 - slot
    BY <1>1, <1>2, <1>5, <2>1, ActiveFacts
  <2> QED BY <1>5, <2>1, <2>2 DEF Current
<1> QED
  BY <1>3, <1>4, <1>5

\* A reset keeps the records, or completes the write in progress.
LEMMA SettleStep ==
  ASSUME IInv, RInv, Settle, UNCHANGED attempts, Paid' = {}
  PROVE  AStep
<1>1. /\ durable' \in [Slots -> Copy]
      /\ \A c \in Slots : durable'[c] \in Interrupted(durable[c], view[c])
  BY SettleFacts DEF Settle
<1>2. durable \in [Slots -> Copy] /\ Current(durable) \in Records
  BY CurrentFacts
<1>3. CASE view = durable
  <2>1. \A c \in Slots : durable'[c] = durable[c]
    BY <1>1, <1>3 DEF Interrupted
  <2>2. durable' = durable
    BY <1>1, <1>2, <2>1
  <2> QED BY <2>2, SameMedium, LoseStep
<1>4. CASE view # durable
  <2>1. pc \in {"flush", "recovery"} /\ Underway /\ CacheHolds
    BY <1>4 DEF IInv, MediumInv, RInv, Underway, CacheHolds, WriteTarget
  <2>2. Paid = {} /\ slot \in Slots /\ 1 - slot \in Slots
    BY <2>1, NonePaid DEF IInv, TypeOK, Slots
  <2>3. /\ durable'[slot] = durable[slot]
        /\ durable'[1 - slot] \in {durable[1 - slot], Pending, TornCopy}
    BY <1>1, <2>1, <2>2 DEF Interrupted, CacheHolds
  <2>4. durable' = durable \/ Current(durable') \in {Current(durable), records}
    BY <1>1, <2>1, <2>3, OneWritten DEF Underway, CacheHolds
  <2>5. CASE Current(durable)' = Current(durable)
    BY <2>5, LoseStep
  <2>6. CASE Current(durable)' = records
    BY <1>2, <2>1, <2>2, <2>6, CommitStep DEF Underway
  <2>7. Current(durable)' = Current(durable')
    BY DEF Current, Active
  <2> QED BY <2>4, <2>5, <2>6, <2>7
<1> QED
  BY <1>3, <1>4

-----------------------------------------------------------------------------
(* The steps of the loader and of the system.                               *)

\* The factory image: two copies of one list, every trial still to come.
LEMMA InitRefines == Init => RInv /\ Accounted /\ Abstract!AInit
<1> SUFFICES ASSUME Init PROVE RInv /\ Accounted /\ Abstract!AInit
  OBVIOUS
<1>1. pc = "reset" /\ job = "none" /\ Paid = {} /\ RInv
  BY DEF Init, RInv, Paid
<1>2. Active(durable) \in Slots
  BY InitIInv, CurrentFacts
<1>3. Current(durable) = records
  BY <1>2 DEF Init, Current, encodeFitEnvironment
<1>4. records \in Records /\ \A i \in DOMAIN records : records[i].tries = MaxTries
  BY DEF Init, Factory
<1>5. Abstract!AInit
  BY <1>1, <1>3, <1>4, SameRecords DEF Abstract!AInit, Init
<1>6. \A i \in DOMAIN records : records[i].id \in Deployments
  BY <1>4, RecordsFacts DEF mica_boot_record
<1>7. Accounted
  BY <1>1, <1>3, <1>4, <1>6, RecordsAssumption DEF Accounted, Due, Init
<1> QED
  BY <1>1, <1>5, <1>7

\* The steps that write nothing, neither on the medium nor in the loader's records.
LEMMA QuietRefines ==
  ASSUME IInv, RInv,
         ArmWatchdog \/ SelectMedium \/ SelectConfirmed \/ SelectNone \/ WatchdogExpires \/ OsReboot
  PROVE  RInv' /\ AStep
<1>1. UNCHANGED <<durable, view, slot, records, attempts>> /\ view = durable
  BY DEF ArmWatchdog, SelectMedium, SelectConfirmed, SelectNone, WatchdogExpires, OsReboot, media,
     IInv, MediumInv
<1>2. /\ pc \in {"reset", "medium", "select", "running"}
      /\ pc' \in {"medium", "read", "recovery", "reset"} \/ (SelectConfirmed /\ pc' = "load")
  BY DEF ArmWatchdog, SelectMedium, SelectConfirmed, SelectNone, WatchdogExpires, OsReboot, recovery
<1>3. SelectConfirmed => job = "none" /\ job' = "none" /\ HasRead
  BY DEF SelectConfirmed, IInv, MediumInv, RInv
<1>4. Paid = {} /\ Paid' = {}
  BY <1>2, <1>3, NonePaid
<1>5. AStep
  BY <1>1, <1>4, SameMedium, StutterStep
<1>6. CASE pc' \in {"medium", "read", "recovery", "reset"}
  <2>1. pc' \notin {"select", "load", "write", "flush", "readback"} /\ view' = durable'
    BY <1>1, <1>6
  <2> QED BY <1>5, <2>1 DEF RInv
<1>7. CASE SelectConfirmed /\ pc' = "load"
  <2>1. mica_boot_next(records, selected)' /\ records'[selected'].tries = Confirmed
    BY <1>1, <1>7 DEF SelectConfirmed, mica_boot_next
  <2>2. HasRead'
    BY <1>1, <1>3, <1>7, SameMedium DEF HasRead
  <2> QED BY <1>3, <1>5, <1>7, <2>1, <2>2 DEF RInv
<1> QED
  BY <1>2, <1>6, <1>7

\* Where every sound copy can be read, the loader reads what the next boot reads.
LEMMA ReadRefines ==
  ASSUME IInv, RInv, ReadFaults = FALSE, read_environment
  PROVE  RInv' /\ AStep
<1>1. view = durable /\ pc = "read" /\ job = "none" /\ UNCHANGED <<durable, view, job, attempts>>
  BY DEF IInv, MediumInv, read_environment, media
<1>2. Active(durable) \in Slots /\ Current(durable) \in Records
  BY CurrentFacts
<1>3. PICK readable \in [Slots -> BOOLEAN] :
        /\ readable = [c \in Slots |-> TRUE]
        /\ LET s == mica_boot_slot(readable[0] /\ view[0].sound, view[0].flag,
                                   readable[1] /\ view[1].sound, view[1].flag)
           IN  IF s \in Slots /\ mica_boot_parse(view[s].records)
               THEN pc' = "select" /\ slot' = s /\ records' = view[s].records
               ELSE recovery /\ UNCHANGED <<slot, records>>
  BY DEF read_environment
<1>4. readable[0] /\ readable[1]
  BY <1>3 DEF Slots
<1>5. mica_boot_slot(readable[0] /\ view[0].sound, view[0].flag,
                     readable[1] /\ view[1].sound, view[1].flag) = Active(view)
  <2>1. view[0].sound \in BOOLEAN /\ view[1].sound \in BOOLEAN
    BY CopyFacts DEF IInv, TypeOK, Slots
  <2> QED BY <1>4, <2>1 DEF Active
<1>6. pc' = "select" /\ slot' = Active(durable) /\ records' = Current(durable)
  BY <1>1, <1>2, <1>3, <1>5 DEF Current, mica_boot_parse
<1>7. RInv'
  BY <1>1, <1>6, SameMedium DEF RInv, HasRead
<1> QED
  BY <1>1, <1>6, <1>7, NonePaid, SameMedium, StutterStep

\* The decrement in RAM is a charge under way.
LEMMA SelectTrialRefines ==
  ASSUME IInv, RInv, SelectTrial
  PROVE  RInv' /\ AStep
<1>1. pc = "select" /\ HasRead /\ pc' = "write" /\ UNCHANGED <<durable, view, slot, attempts>>
  BY DEF SelectTrial, RInv, media
<1>2. Change(Current(durable))'
  BY <1>1, SameMedium DEF SelectTrial, Change, HasRead
<1>3. RInv'
  BY <1>1, <1>2, SameMedium DEF RInv, Underway, HasRead
<1> QED
  BY <1>1, <1>3, NonePaid, SameMedium, StutterStep

\* Whatever becomes of the write, it is only in the cache so far.
LEMMA WriteRefines ==
  ASSUME IInv, RInv, WriteCopy
  PROVE  RInv' /\ AStep
<1>1. /\ view = durable /\ Underway /\ pc = "write"
      /\ slot \in Slots /\ 1 - slot \in Slots /\ slot # 1 - slot /\ WriteTarget = 1 - slot
      /\ view \in [Slots -> Copy]
      /\ UNCHANGED <<durable, job, slot, records, selected, attempts>>
  BY DEF IInv, MediumInv, RInv, WriteCopy, TypeOK, Slots, WriteTarget
<1>2. pc' \in {"flush", "recovery"}
  BY DEF WriteCopy, recovery
<1>3. /\ view'[slot] = view[slot]
      /\ view'[1 - slot] \in {view[1 - slot], Pending, TornCopy}
  <2>1. \/ view' = [view EXCEPT ![1 - slot] = Pending]
        \/ view' = view
        \/ \E x \in Interrupted(view[1 - slot], Pending) : view' = [view EXCEPT ![1 - slot] = x]
        \/ view' = [view EXCEPT ![1 - slot] = TornCopy]
    BY <1>1 DEF WriteCopy
  <2> QED BY <1>1, <2>1 DEF Interrupted
<1>4. Underway' /\ CacheHolds'
  <2>1. Pending' = Pending
    BY <1>1, <1>3 DEF Pending
  <2>2. Underway'
    BY <1>1, SameMedium DEF Underway, Change
  <2> QED BY <1>1, <1>3, <2>1, <2>2 DEF CacheHolds
<1>5. RInv'
  BY <1>2, <1>4 DEF RInv
<1> QED
  BY <1>1, <1>2, <1>5, NonePaid, SameMedium, StutterStep

\* A write that reaches the medium is one step of the register; a torn one is none.
LEMMA FlushRefines ==
  ASSUME IInv, RInv, flush_medium
  PROVE  RInv' /\ AStep
<1>1. /\ pc = "flush" /\ Active(durable) = slot /\ Change(Current(durable))
      /\ slot \in Slots /\ WriteTarget = 1 - slot
      /\ view \in [Slots -> Copy] /\ Paid = {} /\ Current(durable) \in Records
      /\ view[slot] = durable[slot] /\ view[1 - slot] \in {Pending, TornCopy}
      /\ UNCHANGED <<view, job, slot, records, selected, attempts>>
  BY NonePaid, CurrentFacts DEF IInv, MediumInv, RInv, flush_medium, TypeOK, WriteTarget, Underway
<1>2. Pending' = Pending /\ WriteTarget' = WriteTarget /\ TornCopy # Pending
  BY <1>1, PendingFacts DEF Pending, WriteTarget, IInv, TornCopy
<1>3. job = "trial" => records[selected].tries # Confirmed
  BY <1>1, PaidEntry DEF Change, mica_boot_next
<1>4. CASE durable' = view /\ pc' = "readback"
  <2>1. RInv'
    BY <1>1, <1>2, <1>3, <1>4 DEF RInv
  <2>2. Current(durable)' = Current(view)
    BY <1>4 DEF Current, Active
  <2>3. CASE view[1 - slot] = TornCopy
    <3>1. Paid' = {}
      BY <1>1, <1>2, <1>4, <2>3 DEF Paid
    <3>2. Current(durable)' = Current(durable)
      BY <1>1, <2>2, <2>3, OneWritten
    <3> QED BY <1>1, <2>1, <3>1, <3>2, LoseStep
  <2>4. CASE view[1 - slot] = Pending
    <3>1. Paid' = {} \/ (job = "trial" /\ Paid' = {records[selected].id})
      BY <1>1 DEF Paid
    <3>2. Current(durable)' = records
      BY <1>1, <2>2, <2>4, OneWritten
    <3> QED BY <1>1, <2>1, <3>1, <3>2, CommitStep
  <2> QED BY <1>1, <2>3, <2>4
<1>5. CASE durable' = durable /\ pc' = "recovery"
  <2>1. Underway' /\ CacheHolds'
    BY <1>1, <1>2, <1>5, SameMedium DEF Underway, Change, CacheHolds
  <2>2. RInv'
    BY <1>5, <2>1 DEF RInv
  <2> QED BY <1>1, <1>5, <2>2, NonePaid, SameMedium, StutterStep
<1> QED
  BY <1>4, <1>5 DEF flush_medium, recovery

\* The loader goes on to the trial that was paid for, or the trial is lost.
LEMMA ReadBackRefines ==
  ASSUME IInv, RInv, ReadBack
  PROVE  RInv' /\ AStep
<1>1. /\ view = durable /\ pc = "readback" /\ WriteTarget = 1 - slot
      /\ UNCHANGED <<durable, view, job, slot, records, selected, attempts>>
      /\ job = "trial" => records[selected].tries # Confirmed
  BY DEF IInv, MediumInv, ReadBack, RInv, WriteTarget, media
<1>2. CASE pc' = "recovery"
  <2>1. RInv'
    BY <1>1, <1>2 DEF RInv
  <2> QED BY <1>1, <1>2, <2>1, NonePaid, SameMedium, LoseStep
<1>3. CASE view[WriteTarget] = Pending /\ pc' = AfterPersist
  <2>1. CASE job = "trial"
    <3>1. pc' = "load"
      BY <1>3, <2>1 DEF AfterPersist
    <3>2. RInv'
      BY <1>1, <2>1, <3>1 DEF RInv
    <3>3. Paid' = Paid
      BY <1>1, <1>3, <2>1, <3>1 DEF Paid
    <3> QED BY <1>1, <3>2, <3>3, SameMedium, StutterStep
  <2>2. CASE job # "trial"
    <3>1. pc' \in {"reset", "running"}
      BY <1>3, <2>2 DEF AfterPersist
    <3>2. RInv'
      BY <3>1 DEF RInv
    <3> QED BY <1>1, <2>2, <3>2, NonePaid, SameMedium, LoseStep
  <2> QED BY <2>1, <2>2
<1> QED
  BY <1>2, <1>3 DEF ReadBack, recovery

\* A load is the trial that was paid for, or of a confirmed entry, which is
\* given up when it fails.
LEMMA LoadRefines ==
  ASSUME IInv, RInv, Launch \/ LoadFails
  PROVE  RInv' /\ AStep
<1>1. /\ pc = "load" /\ job \in {"none", "trial"} /\ view = durable
      /\ UNCHANGED <<durable, view, slot, selected>> /\ Attempt
  BY DEF IInv, MediumInv, Launch, LoadFails, media
<1>2. CASE job = "trial"
  <2>1. records[selected].tries # Confirmed /\ Paid = {records[selected].id}
    BY <1>1, <1>2 DEF RInv, Paid
  <2>2. pc' \in {"running", "reset"} /\ Paid' = {}
    BY <2>1, NonePaid DEF Launch, LoadFails
  <2>3. attempts' = [attempts EXCEPT ![records[selected].id] = @ + 1]
    BY <1>1, <2>1 DEF Attempt
  <2>4. RInv'
    BY <2>2 DEF RInv
  <2> QED BY <1>1, <2>1, <2>2, <2>3, <2>4, SameMedium, TryStep
<1>3. CASE job = "none"
  <2>1. /\ slot = Active(durable) /\ records = Current(durable) /\ Paid = {}
        /\ mica_boot_next(records, selected) /\ records[selected].tries = Confirmed
    BY <1>1, <1>3, NonePaid DEF RInv, HasRead
  <2>2. attempts' = attempts
    BY <1>1, <2>1 DEF Attempt
  <2>3. \/ pc' = "running"
        \/ pc' = "write" /\ job' = "retire" /\ records' = [records EXCEPT ![selected].tries = 0]
    BY <2>1 DEF Launch, LoadFails
  <2>4. RInv'
    <3>1. CASE pc' = "running"
      BY <3>1 DEF RInv
    <3>2. CASE pc' = "write" /\ job' = "retire" /\ records' = [records EXCEPT ![selected].tries = 0]
      <4>1. Underway'
        BY <1>1, <2>1, <3>2, SameMedium DEF Underway, Change, mica_boot_next
      <4> QED BY <3>2, <4>1 DEF RInv
    <3> QED BY <2>3, <3>1, <3>2
  <2>5. Paid' = {}
    BY <2>3, NonePaid
  <2> QED BY <1>1, <2>1, <2>2, <2>4, <2>5, SameMedium, StutterStep
<1> QED
  BY <1>1, <1>2, <1>3

\* The running system starts a write of what the register may become.
LEMMA SystemRefines ==
  ASSUME IInv, RInv, OsConfirm \/ \E d \in Deployments : OsInstall(d)
  PROVE  RInv' /\ AStep
<1>1. /\ view = durable /\ pc = "running" /\ pc' = "write" /\ job' = "os" /\ slot' = Active(view)
      /\ UNCHANGED <<durable, view>> /\ Paid = {} /\ Paid' = {}
  BY NonePaid DEF IInv, MediumInv, OsConfirm, OsInstall, media
<1>2. Current(durable)' = Current(durable) /\ Active(durable)' = Active(durable)
  BY <1>1, SameMedium
<1>3. CASE OsConfirm
  <2>1. Change(Current(durable))'
    BY <1>1, <1>2, <1>3 DEF OsConfirm, Change
  <2>2. RInv'
    BY <1>1, <1>2, <2>1 DEF RInv, Underway
  <2>3. attempts' = attempts
    BY <1>3 DEF OsConfirm
  <2> QED BY <1>1, <1>2, <2>2, <2>3, StutterStep
<1>4. ASSUME NEW d \in Deployments, OsInstall(d) PROVE RInv' /\ AStep
  <2>1. attempts' = [attempts EXCEPT ![d] = 0] /\ attempts'[d] = 0
    BY <1>4 DEF OsInstall, IInv, TypeOK
  <2>2. Change(Current(durable))'
    BY <1>1, <1>2, <1>4, <2>1 DEF OsInstall, Change
  <2>3. RInv'
    BY <1>1, <1>2, <2>2 DEF RInv, Underway
  <2>4. \A i \in DOMAIN Current(durable) : Current(durable)[i].id # d
    BY <1>1, <1>4 DEF OsInstall
  <2>5. Abstract!Forget(d)
    BY <1>1, <1>2, <2>1, <2>4 DEF Abstract!Forget
  <2> QED BY <2>3, <2>5 DEF AStep, Abstract!ANext
<1> QED
  BY <1>3, <1>4

\* Every step of the loader, of the power and of the system is a step of the register
\* or none.
LEMMA StepRefines ==
  ASSUME IInv, RInv, ReadFaults = FALSE, [Next]_vars
  PROVE  RInv' /\ AStep
<1>1. CASE PowerCut \/ Restart
  <2>1. Settle /\ pc' = "reset" /\ UNCHANGED attempts
    BY <1>1 DEF PowerCut, Restart
  <2>2. RInv'
    BY <2>1 DEF RInv
  <2> QED BY <2>1, <2>2, NonePaid, SettleStep
<1>2. CASE UNCHANGED vars
  <2>1. Paid' = Paid
    BY <1>2 DEF vars, media, Paid, WriteTarget, Pending
  <2>2. /\ UNCHANGED <<pc, job, durable, view, slot, records, selected, Pending>>
        /\ Change(Current(durable)) => Change(Current(durable))'
    <3>1. UNCHANGED <<pc, job, durable, view, slot, records, selected, Pending>>
      BY <1>2 DEF vars, media, Pending
    <3>2. Current(durable)' = Current(durable)
      BY <3>1 DEF Current, Active
    <3>3. attempts' = attempts
      BY <1>2 DEF vars
    <3>4. \A r : Change(r) => Change(r)'
      BY <3>1, <3>3 DEF Change, mica_boot_next
    <3> QED BY <3>1, <3>2, <3>4
  <2>3. /\ Underway => Underway'
        /\ CacheHolds => CacheHolds'
        /\ HasRead => HasRead'
        /\ mica_boot_next(records, selected) => mica_boot_next(records, selected)'
    BY <2>2, SameMedium DEF Underway, CacheHolds, HasRead, mica_boot_next
  <2>4. RInv'
    BY <2>2, <2>3 DEF RInv
  <2> QED BY <1>2, <2>1, <2>4, SameMedium, StutterStep DEF vars, media
<1> QED
  BY <1>1, <1>2, QuietRefines, ReadRefines, SelectTrialRefines, WriteRefines, FlushRefines,
     ReadBackRefines, LoadRefines, SystemRefines
     DEF Next, Loader, System

\* A step of the register keeps the account of the trials: what an entry pays is
\* due, what is due is tried or lost, and an install begins at zero.
LEMMA AccountedStep ==
  ASSUME IInv, Accounted, AStep
  PROVE  Accounted'
<1> DEFINE r == Current(durable)
<1>1. r \in Records /\ attempts \in [Deployments -> Nat] /\ Due \in [Deployments -> Nat]
  BY CurrentFacts DEF IInv, TypeOK, Due
<1>2. PICK n \in {1, 2} : DOMAIN r = 1 .. n /\ r \in [1 .. n -> mica_boot_record] /\ Ordered(r)
  BY <1>1, RecordsFacts
<1>3. \A i \in DOMAIN r :
        /\ r[i].id \in Deployments /\ r[i].tries \in Int
        /\ \A j \in DOMAIN r : j # i => r[j].id # r[i].id
  BY <1>2, RecordsAssumption DEF mica_boot_record, Confirmed, Ordered
<1>4. /\ \A d \in Deployments : Due[d] <= MaxTries
      /\ \A i \in DOMAIN r : r[i].tries # Confirmed => Due[r[i].id] + r[i].tries <= MaxTries
  BY DEF Accounted
<1>5. SUFFICES /\ \A d \in Deployments : Due'[d] <= MaxTries
               /\ \A i \in DOMAIN r' : r'[i].tries # Confirmed => Due'[r'[i].id] + r'[i].tries <= MaxTries
  BY DEF Accounted
<1>6. CASE Abstract!Charge
  <2>1. PICK i \in DOMAIN r :
          /\ r[i].tries > 0
          /\ r' = [r EXCEPT ![i].tries = @ - 1]
          /\ Paid' \in {{}, {r[i].id}}
    BY <1>6 DEF Abstract!Charge
  <2>2. Paid = {} /\ attempts' = attempts
    BY <1>6 DEF Abstract!Charge
  <2>3. \A d \in Deployments :
          Due'[d] \in Nat /\ Due'[d] <= Due[d] + 1 /\ (d # r[i].id => Due'[d] = Due[d])
    BY <1>1, <2>1, <2>2 DEF Due
  <2>4. \A j \in DOMAIN r : j # i => r'[j] = r[j]
    BY <1>2, <2>1
  <2>5. DOMAIN r' = DOMAIN r /\ r'[i].tries = r[i].tries - 1 /\ r'[i].id = r[i].id
    BY <1>2, <2>1 DEF mica_boot_record
  <2>6. Due[r[i].id] + r[i].tries <= MaxTries
    BY <1>3, <1>4, <2>1 DEF Confirmed
  <2> HIDE DEF r
  <2> QED BY <1>1, <1>3, <1>4, <2>1, <2>3, <2>4, <2>5, <2>6, RecordsAssumption
<1>7. CASE Abstract!Try \/ Abstract!Lose
  <2>1. \A d \in Deployments : Due'[d] \in Nat /\ Due'[d] <= Due[d]
    BY <1>1, <1>7 DEF Due, Abstract!Try, Abstract!Lose
  <2>2. r' = r
    BY <1>7 DEF Abstract!Try, Abstract!Lose
  <2> HIDE DEF r
  <2> QED BY <1>1, <1>3, <1>4, <2>1, <2>2, RecordsAssumption
<1>8. CASE Abstract!Retire
  <2>1. PICK i \in DOMAIN r : r' = [r EXCEPT ![i].tries = 0]
    BY <1>8 DEF Abstract!Retire
  <2>2. \A d \in Deployments : Due'[d] = Due[d]
    BY <1>8 DEF Abstract!Retire, Due
  <2>3. /\ DOMAIN r' = DOMAIN r /\ r'[i].tries = 0 /\ r'[i].id = r[i].id
        /\ \A j \in DOMAIN r : j # i => r'[j] = r[j]
    BY <1>2, <2>1 DEF mica_boot_record
  <2> HIDE DEF r
  <2> QED BY <1>1, <1>3, <1>4, <2>2, <2>3
<1>9. CASE Abstract!Confirm
  <2>1. PICK i \in DOMAIN r : r' = [r EXCEPT ![i].tries = Confirmed]
    BY <1>9, SameRecords DEF Abstract!Confirm
  <2>2. \A d \in Deployments : Due'[d] = Due[d]
    BY <1>9 DEF Abstract!Confirm, Due
  <2>3. /\ DOMAIN r' = DOMAIN r /\ r'[i].tries = Confirmed
        /\ \A j \in DOMAIN r : j # i => r'[j] = r[j]
    BY <1>2, <2>1 DEF mica_boot_record
  <2> HIDE DEF r
  <2> QED BY <1>1, <1>3, <1>4, <2>2, <2>3
<1>10. ASSUME NEW d \in Deployments, Abstract!Forget(d) PROVE Accounted'
  <2>1. r' = r /\ Paid' = Paid /\ \A i \in DOMAIN r : r[i].id # d
    BY <1>10 DEF Abstract!Forget
  <2>2. /\ Due'[d] \in {0, 1}
        /\ \A e \in Deployments : e # d => Due'[e] = Due[e]
    BY <1>1, <1>10, <2>1 DEF Abstract!Forget, Due
  <2>3. \A i \in DOMAIN r : Due'[r[i].id] = Due[r[i].id]
    BY <1>3, <2>1, <2>2
  <2> QED BY <1>3, <1>4, <2>1, <2>2, <2>3, RecordsAssumption DEF Accounted
<1>11. ASSUME NEW d \in Deployments, Abstract!Install(d) PROVE Accounted'
  <2>1. PICK i \in DOMAIN r :
          /\ r[i].tries = Confirmed
          /\ r' = <<[id |-> d, generation |-> r[1].generation + 1, tries |-> MaxTries], r[i]>>
    BY <1>11, SameRecords DEF Abstract!Install
  <2>2. attempts[d] = 0 /\ \A e \in Deployments : Due'[e] = Due[e]
    BY <1>11 DEF Abstract!Install, Due
  <2>3. Due'[d] = 0
    BY <1>11, <2>2 DEF Abstract!Install, Due
  <2>4. DOMAIN r' = {1, 2} /\ r'[1].id = d /\ r'[1].tries = MaxTries /\ r'[2].tries = Confirmed
    BY <2>1
  <2> QED BY <1>4, <2>2, <2>3, <2>4, RecordsAssumption DEF Accounted
<1>12. CASE UNCHANGED <<Current(durable), Paid, attempts>>
  BY <1>4, <1>12 DEF Due
<1> QED
  BY <1>6, <1>7, <1>8, <1>9, <1>10, <1>11, <1>12 DEF AStep, Abstract!ANext, Abstract!avars, Accounted

-----------------------------------------------------------------------------
(* The theorems.                                                            *)

\* The inductive invariant of the theorems below.
RefinementInv == IInv /\ RInv /\ Accounted

\* The invariant of the refinement, for a medium whose sound copies can be read.
LEMMA RefinementInvariance ==
  ASSUME ReadFaults = FALSE
  PROVE  /\ Init => RefinementInv /\ Abstract!AInit
         /\ RefinementInv /\ [Next]_vars => RefinementInv' /\ AStep
<1>1. Init => RefinementInv /\ Abstract!AInit
  BY InitIInv, InitRefines DEF RefinementInv
<1>2. RefinementInv /\ [Next]_vars => RefinementInv' /\ AStep
  BY StepIInv, StepRefines, AccountedStep DEF RefinementInv
<1> QED
  BY <1>1, <1>2

\* What is due bounds the trials that happened.
LEMMA DueBounds ==
  ASSUME RefinementInv PROVE TrialsBounded /\ TriesAccountedFor
<1>1. /\ Current(durable) \in Records /\ attempts \in [Deployments -> Nat]
      /\ Due \in [Deployments -> Nat] /\ \A d \in Deployments : attempts[d] <= Due[d]
  BY CurrentFacts DEF RefinementInv, IInv, TypeOK, Due
<1>2. \A i \in DOMAIN Current(durable) :
        Current(durable)[i].id \in Deployments /\ Current(durable)[i].tries \in Int
  BY <1>1, RecordsFacts, RecordsAssumption DEF mica_boot_record, Confirmed
<1>3. TrialsBounded
  <2> SUFFICES ASSUME NEW d \in Deployments PROVE attempts[d] <= MaxTries
    BY DEF TrialsBounded
  <2>1. Due[d] <= MaxTries
    BY DEF RefinementInv, Accounted
  <2>2. attempts[d] <= Due[d] /\ attempts[d] \in Nat /\ Due[d] \in Nat
    BY <1>1
  <2> QED BY <2>1, <2>2, RecordsAssumption
<1>4. ASSUME NEW d \in Deployments
      PROVE  attempts[d] + (IF pc = "load" /\ job = "trial" /\ records[selected].id = d
                            THEN 1 ELSE 0) <= Due[d]
  <2>1. pc = "load" /\ job = "trial" => Paid = {records[selected].id}
    BY DEF Paid
  <2> QED BY <1>1, <2>1 DEF Due
<1>5. TriesAccountedFor
  BY <1>1, <1>2, <1>4, RecordsAssumption DEF RefinementInv, Accounted, TriesAccountedFor
<1> QED BY <1>3, <1>5

\* Two copies on a medium that loses power, tears writes and fails operations, but
\* can be read, are one register: the loaders implement BootAttempts.
THEOREM RefinementCorrect == ASSUME ReadFaults = FALSE PROVE Spec => ImplementsBootAttempts
<1>1. Init => RefinementInv /\ Abstract!AInit
  BY RefinementInvariance
<1>2. RefinementInv /\ [Next]_vars => RefinementInv' /\ [Abstract!ANext]_(Abstract!avars)
  BY RefinementInvariance DEF AStep
<1> QED
  BY <1>1, <1>2, PTL DEF Spec, ImplementsBootAttempts, Abstract!ASpec

\* "Three trials exhaust a candidate" (boards/s905x5m/loader/README.md), for every
\* number of trials and of faults: however the power goes, the loader tries a
\* deployment at most as often as its entry was installed with.
THEOREM TrialsBoundedCorrect == ASSUME ReadFaults = FALSE PROVE Spec => []TrialsBounded
<1>1. Spec => []RefinementInv
  BY RefinementInvariance, PTL DEF Spec
<1>2. RefinementInv => TrialsBounded
  BY DueBounds
<1> QED
  BY <1>1, <1>2, PTL

\* What the medium lists as tries left, the trials behind it and the one paid for
\* are together never more than an entry was installed with.
THEOREM TriesAccountedCorrect == ASSUME ReadFaults = FALSE PROVE Spec => []TriesAccountedFor
<1>1. Spec => []RefinementInv
  BY RefinementInvariance, PTL DEF Spec
<1>2. RefinementInv => TriesAccountedFor
  BY DueBounds
<1> QED
  BY <1>1, <1>2, PTL

=============================================================================
