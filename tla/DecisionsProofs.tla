--------------------------- MODULE DecisionsProofs ---------------------------
(***************************************************************************)
(* Theorems about MCDecisions: the medium a board boots from, the register *)
(* of a packed root and the factory image are proved here; the layouts and *)
(* the record text come from LayoutProofs and RecordTextProofs.  A         *)
(* behaviour is about one topic, and TopicInv is the invariant of that one.*)
(***************************************************************************)
EXTENDS MCDecisions, LayoutProofs, RecordTextProofs, FunctionTheorems

-----------------------------------------------------------------------------
(* The medium.                                                              *)

Uuids == {"sd", "emmc", "other"} \X Medium!Numbers
CardRow == [uuid : Uuids, place : BOOLEAN, name : {"firmware", "system", "data", "reserved", "other"}]
CardTables == UNION {[D -> CardRow] : D \in SUBSET Medium!Numbers}
Disk ==
  [present : BOOLEAN, io : BOOLEAN, mbr : {"protective", "dos", "blank"}, primary : BOOLEAN, backup : BOOLEAN,
   guid : {"sd", "emmc", "other"}, table : CardTables]

\* What is still there of the marks of a card of the project: the identity of a partition, at
\* whatever number, and the identity of the disk.
Marked(card, m) == \E n \in DOMAIN card.table : card.table[n].uuid = <<"sd", m>>
HeadMarked(card) == card.primary /\ card.guid = "sd"
Missing(found) == IF found THEN 0 ELSE 1
Lost(card) ==
  Missing(Marked(card, 1)) + Missing(Marked(card, 2)) + Missing(Marked(card, 3)) + Missing(HeadMarked(card))

MediumInv ==
  /\ Medium!TypeOK
  /\ sd \in Disk /\ emmc \in Disk
  /\ chosen # "off" => chosen = Medium!select_medium
  /\ origin = "mica" => sd.present /\ sd.mbr # "dos" /\ Lost(sd) <= damage
  /\ origin = "unrelated" /\ damage = 0 => sd \in Medium!Unrelated

\* Every damage takes one mark at most.
LEMMA LostOne ==
  ASSUME NEW d \in Disk, NEW e \in Disk, NEW n,
         \A m \in 1 .. 3 : Marked(d, m) /\ d.table[n].uuid # <<"sd", m>> => Marked(e, m),
         HeadMarked(d) => HeadMarked(e)
  PROVE  Lost(e) <= Lost(d) + 1
<1>1. \A m \in 1 .. 3 : Missing(Marked(d, m)) \in 0 .. 1 /\ Missing(Marked(e, m)) \in 0 .. 1
  BY DEF Missing
<1>2. Missing(HeadMarked(d)) \in 0 .. 1 /\ Missing(HeadMarked(e)) <= Missing(HeadMarked(d))
  BY DEF Missing
<1>3. \A m \in 1 .. 3 : d.table[n].uuid # <<"sd", m>> => Missing(Marked(e, m)) <= Missing(Marked(d, m))
  BY DEF Missing
<1>4. \A m, k \in 1 .. 3 : d.table[n].uuid = <<"sd", m>> /\ d.table[n].uuid = <<"sd", k>> => m = k
  OBVIOUS
<1>5. Missing(HeadMarked(e)) \in 0 .. 1
  BY DEF Missing
<1> QED
  BY <1>1, <1>2, <1>3, <1>4, <1>5 DEF Lost

LEMMA LostHead ==
  ASSUME NEW d \in Disk, NEW e \in Disk, e.table = d.table
  PROVE  Lost(e) <= Lost(d) + 1
<1>1. \A m \in 1 .. 3 : Missing(Marked(d, m)) \in 0 .. 1 /\ Missing(Marked(e, m)) = Missing(Marked(d, m))
  BY DEF Missing, Marked
<1>2. Missing(HeadMarked(d)) \in 0 .. 1 /\ Missing(HeadMarked(e)) \in 0 .. 1
  BY DEF Missing
<1> QED
  BY <1>1, <1>2 DEF Lost

LEMMA LostType == ASSUME NEW d PROVE Lost(d) \in Nat
BY DEF Lost, Missing

\* A table is a function from some of the numbers to rows.
LEMMA TableType ==
  ASSUME NEW t \in CardTables
  PROVE  DOMAIN t \subseteq Medium!Numbers /\ t \in [DOMAIN t -> CardRow]
<1>1. PICK D \in SUBSET Medium!Numbers : t \in [D -> CardRow]
  BY DEF CardTables
<1> QED
  BY <1>1

LEMMA TableIs ==
  ASSUME NEW D \in SUBSET Medium!Numbers, NEW t \in [D -> CardRow]
  PROVE  t \in CardTables
BY DEF CardTables

\* A partition entered at a number is there, and the others stay.
LEMMA WithIs ==
  ASSUME NEW t \in CardTables, NEW k \in Medium!Numbers, NEW slot \in CardRow
  PROVE  /\ Medium!With(t, k, slot) \in CardTables
         /\ \A m \in DOMAIN t \ {k} : m \in DOMAIN Medium!With(t, k, slot) /\ Medium!With(t, k, slot)[m] = t[m]
<1>1. DOMAIN t \subseteq Medium!Numbers /\ t \in [DOMAIN t -> CardRow]
  BY TableType
<1>2. Medium!With(t, k, slot) = [m \in DOMAIN t \cup {k} |-> IF m = k THEN slot ELSE t[m]]
  BY DEF Medium!With
<1>3. Medium!With(t, k, slot) \in [DOMAIN t \cup {k} -> CardRow] /\ DOMAIN t \cup {k} \in SUBSET Medium!Numbers
  BY <1>1, <1>2
<1>4. Medium!With(t, k, slot) \in CardTables
  BY <1>3, TableIs
<1> QED
  BY <1>2, <1>4

LEMMA WithoutIs ==
  ASSUME NEW t \in CardTables, NEW n \in DOMAIN t
  PROVE  /\ Medium!Without(t, n) \in CardTables
         /\ DOMAIN Medium!Without(t, n) = DOMAIN t \ {n}
         /\ \A m \in DOMAIN t \ {n} : Medium!Without(t, n)[m] = t[m]
<1>1. DOMAIN t \subseteq Medium!Numbers /\ t \in [DOMAIN t -> CardRow]
  BY TableType
<1>2. Medium!Without(t, n) = [m \in DOMAIN t \ {n} |-> t[m]]
  BY DEF Medium!Without
<1>3. Medium!Without(t, n) \in [DOMAIN t \ {n} -> CardRow] /\ DOMAIN t \ {n} \in SUBSET Medium!Numbers
  BY <1>1, <1>2
<1> QED
  BY <1>2, <1>3, TableIs

\* A damaged table is one of a medium, and every partition but one is where it was.
LEMMA TableDamaged ==
  ASSUME NEW t \in CardTables, NEW u \in Medium!DamagedTables(t)
  PROVE  /\ u \in CardTables
         /\ \E n : \A k \in DOMAIN t \ {n} : k \in DOMAIN u /\ u[k] = t[k]
<1>1. DOMAIN t \subseteq Medium!Numbers /\ t \in [DOMAIN t -> CardRow]
  BY TableType
<1> DEFINE Foreigner(k) == [uuid |-> <<"other", k>>, place |-> FALSE, name |-> "other"]
           Copy(n) == [t[n] EXCEPT !.place = FALSE]
<1>2. CASE \E n \in DOMAIN t : u = Medium!Without(t, n)
  <2>1. PICK n \in DOMAIN t : u = Medium!Without(t, n)
    BY <1>2
  <2>2. u \in CardTables /\ \A k \in DOMAIN t \ {n} : k \in DOMAIN u /\ u[k] = t[k]
    BY <2>1, WithoutIs
  <2> QED BY <2>2
<1>3. CASE \E n \in DOMAIN t : \/ u = [t EXCEPT ![n].uuid = <<"other", n>>]
                               \/ u = [t EXCEPT ![n].place = FALSE]
                               \/ u = [t EXCEPT ![n].name = "other"]
  <2>1. PICK n \in DOMAIN t : \/ u = [t EXCEPT ![n].uuid = <<"other", n>>]
                              \/ u = [t EXCEPT ![n].place = FALSE]
                              \/ u = [t EXCEPT ![n].name = "other"]
    BY <1>3
  <2>2. <<"other", n>> \in Uuids /\ t[n] \in CardRow
    BY <1>1 DEF Uuids
  <2>3. PICK slot \in CardRow : u = [t EXCEPT ![n] = slot]
    <3>1. [t[n] EXCEPT !.uuid = <<"other", n>>] \in CardRow
      BY <2>2 DEF CardRow
    <3>2. [t[n] EXCEPT !.place = FALSE] \in CardRow
      BY <2>2 DEF CardRow
    <3>3. [t[n] EXCEPT !.name = "other"] \in CardRow
      BY <2>2 DEF CardRow
    <3> QED BY <2>1, <3>1, <3>2, <3>3
  <2>4. u \in [DOMAIN t -> CardRow] /\ DOMAIN u = DOMAIN t
    BY <1>1, <2>3
  <2>5. u \in CardTables
    BY <1>1, <2>4 DEF CardTables
  <2>6. \A k \in DOMAIN t \ {n} : u[k] = t[k]
    BY <1>1, <2>3
  <2> QED BY <2>4, <2>5, <2>6
<1>4. CASE \E n \in DOMAIN t, k \in Medium!Numbers \ DOMAIN t : u = Medium!With(Medium!Without(t, n), k, t[n])
  <2>1. PICK n \in DOMAIN t, k \in Medium!Numbers \ DOMAIN t : u = Medium!With(Medium!Without(t, n), k, t[n])
    BY <1>4
  <2> DEFINE w == Medium!Without(t, n)
  <2>2. w \in CardTables /\ DOMAIN w = DOMAIN t \ {n} /\ \A m \in DOMAIN t \ {n} : w[m] = t[m]
    BY WithoutIs
  <2>3. t[n] \in CardRow /\ k \in Medium!Numbers /\ k \notin DOMAIN t
    BY <1>1, <2>1
  <2> HIDE DEF w
  <2>4. /\ Medium!With(w, k, t[n]) \in CardTables
        /\ \A m \in DOMAIN w \ {k} : m \in DOMAIN Medium!With(w, k, t[n]) /\ Medium!With(w, k, t[n])[m] = w[m]
    BY <2>2, <2>3, WithIs
  <2>5. u = Medium!With(w, k, t[n])
    BY <2>1 DEF w
  <2>6. \A m \in DOMAIN t \ {n} : m \in DOMAIN u /\ u[m] = t[m]
    BY <2>2, <2>3, <2>4, <2>5
  <2> QED BY <2>4, <2>5, <2>6
<1>5. CASE \E k \in Medium!Numbers \ DOMAIN t, slot \in CardRow : u = Medium!With(t, k, slot)
  <2>1. PICK k \in Medium!Numbers \ DOMAIN t, slot \in CardRow : u = Medium!With(t, k, slot)
    BY <1>5
  <2> QED BY <2>1, WithIs
<1>6. \/ \E n \in DOMAIN t : u = Medium!Without(t, n)
      \/ \E n \in DOMAIN t : \/ u = [t EXCEPT ![n].uuid = <<"other", n>>]
                              \/ u = [t EXCEPT ![n].place = FALSE]
                              \/ u = [t EXCEPT ![n].name = "other"]
      \/ \E n \in DOMAIN t, k \in Medium!Numbers \ DOMAIN t : u = Medium!With(Medium!Without(t, n), k, t[n])
      \/ \E k \in Medium!Numbers \ DOMAIN t : u = Medium!With(t, k, Foreigner(k))
      \/ \E n \in DOMAIN t, k \in Medium!Numbers \ DOMAIN t : u = Medium!With(t, k, Copy(n))
  <2> DEFINE Dropped == {Medium!Without(t, n) : n \in DOMAIN t}
             Edited == {[t EXCEPT ![n].uuid = <<"other", n>>] : n \in DOMAIN t}
             Shifted == {[t EXCEPT ![n].place = FALSE] : n \in DOMAIN t}
             Renamed == {[t EXCEPT ![n].name = "other"] : n \in DOMAIN t}
             Moved == {Medium!With(Medium!Without(t, n), k, t[n]) : n \in DOMAIN t, k \in Medium!Numbers \ DOMAIN t}
             Added == {Medium!With(t, k, Foreigner(k)) : k \in Medium!Numbers \ DOMAIN t}
             Copied == {Medium!With(t, k, Copy(n)) : n \in DOMAIN t, k \in Medium!Numbers \ DOMAIN t}
  <2>1. u \in Dropped => \E n \in DOMAIN t : u = Medium!Without(t, n)
    OBVIOUS
  <2>2. u \in Edited \/ u \in Shifted \/ u \in Renamed =>
          \E n \in DOMAIN t : \/ u = [t EXCEPT ![n].uuid = <<"other", n>>]
                             \/ u = [t EXCEPT ![n].place = FALSE]
                             \/ u = [t EXCEPT ![n].name = "other"]
    OBVIOUS
  <2>3. u \in Moved => \E n \in DOMAIN t, k \in Medium!Numbers \ DOMAIN t :
                         u = Medium!With(Medium!Without(t, n), k, t[n])
    OBVIOUS
  <2>4. u \in Added => \E k \in Medium!Numbers \ DOMAIN t : u = Medium!With(t, k, Foreigner(k))
    OBVIOUS
  <2>5. u \in Copied => \E n \in DOMAIN t, k \in Medium!Numbers \ DOMAIN t : u = Medium!With(t, k, Copy(n))
    OBVIOUS
  <2>6. Medium!DamagedTables(t) = Dropped \cup Edited \cup Shifted \cup Renamed \cup Moved \cup Added \cup Copied
    BY DEF Medium!DamagedTables
  <2> HIDE DEF Dropped, Edited, Shifted, Renamed, Moved, Added, Copied
  <2>7. \/ u \in Dropped \/ u \in Edited \/ u \in Shifted \/ u \in Renamed
        \/ u \in Moved \/ u \in Added \/ u \in Copied
    BY <2>6
  <2> HIDE DEF Foreigner, Copy
  <2> QED BY <2>1, <2>2, <2>3, <2>4, <2>5, <2>7
<1>7. \A k \in Medium!Numbers : Foreigner(k) \in CardRow
  BY DEF CardRow, Uuids
<1>8. \A n \in DOMAIN t : Copy(n) \in CardRow
  BY <1>1 DEF CardRow
<1> HIDE DEF Foreigner, Copy
<1>9. (\E k \in Medium!Numbers \ DOMAIN t : u = Medium!With(t, k, Foreigner(k)))
        => \E k \in Medium!Numbers \ DOMAIN t, slot \in CardRow : u = Medium!With(t, k, slot)
  BY <1>7
<1>10. (\E n \in DOMAIN t, k \in Medium!Numbers \ DOMAIN t : u = Medium!With(t, k, Copy(n)))
        => \E k \in Medium!Numbers \ DOMAIN t, slot \in CardRow : u = Medium!With(t, k, slot)
  BY <1>8
<1> QED
  BY <1>2, <1>3, <1>4, <1>5, <1>6, <1>9, <1>10

\* A damaged medium is a medium, and lost one mark at most.
LEMMA DiskDamaged ==
  ASSUME NEW d \in Disk, NEW e \in Medium!Damaged(d)
  PROVE  e \in Disk /\ e.present = d.present /\ e.mbr \in {d.mbr, "blank"} /\ Lost(e) <= Lost(d) + 1
<1>1. d.table \in CardTables
  BY DEF Disk
<1>2. CASE \E table \in Medium!DamagedTables(d.table) : e = [d EXCEPT !.table = table]
  <2>1. PICK table \in Medium!DamagedTables(d.table) : e = [d EXCEPT !.table = table]
    BY <1>2
  <2>2. table \in CardTables
    BY <1>1, TableDamaged
  <2>3. PICK n : \A k \in DOMAIN d.table \ {n} : k \in DOMAIN table /\ table[k] = d.table[k]
    BY <1>1, TableDamaged
  <2>4. e \in Disk /\ e.table = table /\ e.present = d.present /\ e.mbr = d.mbr
          /\ e.primary = d.primary /\ e.guid = d.guid
    BY <2>1, <2>2 DEF Disk
  <2>5. \A m \in 1 .. 3 : Marked(d, m) /\ d.table[n].uuid # <<"sd", m>> => Marked(e, m)
    BY <2>3, <2>4 DEF Marked
  <2>6. HeadMarked(d) => HeadMarked(e)
    BY <2>4 DEF HeadMarked
  <2>7. Lost(e) <= Lost(d) + 1
    BY <2>4, <2>5, <2>6, LostOne
  <2> QED BY <2>4, <2>7
<1>3. CASE \/ e = [d EXCEPT !.guid = "other"] \/ e = [d EXCEPT !.mbr = "blank"]
           \/ e = [d EXCEPT !.primary = FALSE] \/ e = [d EXCEPT !.backup = FALSE] \/ e = [d EXCEPT !.io = FALSE]
  <2>1. e \in Disk /\ e.table = d.table /\ e.present = d.present /\ e.mbr \in {d.mbr, "blank"}
    BY <1>3 DEF Disk
  <2> QED BY <2>1, LostHead
<1> QED
  BY <1>2, <1>3 DEF Medium!Damaged

\* What may be in the slot before anything happened to it.
LEMMA CardsType ==
  /\ Medium!Image("sd") \in Disk /\ Lost(Medium!Image("sd")) = 0
  /\ \A d \in Medium!Unrelated : d \in Disk
  /\ Medium!Empty \in Disk
  /\ \A d \in Medium!Soldered : d \in Disk
<1> DEFINE rows(profile, k) == [n \in 1 .. k |-> Medium!Partition(profile, n)]
<1>1. \A profile \in {"sd", "emmc"}, n \in 1 .. 4 :
        Medium!Partition(profile, n) \in CardRow /\ Medium!Partition(profile, n).uuid = <<profile, n>>
  <2> TAKE profile \in {"sd", "emmc"}, n \in 1 .. 4
  <2>1. n = 1 \/ n = 2 \/ n = 3 \/ n = 4
    OBVIOUS
  <2>2. Medium!names[1] = "firmware" /\ Medium!names[2] = "system" /\ Medium!names[3] = "data"
    BY DEF Medium!names
  <2>3. <<profile, n>> \in Uuids
    BY DEF Uuids, Medium!Numbers
  <2> QED BY <2>1, <2>2, <2>3 DEF Medium!Partition, CardRow
<1>2. \A profile \in {"sd", "emmc"}, k \in 3 .. 4 : rows(profile, k) \in CardTables
  <2> TAKE profile \in {"sd", "emmc"}, k \in 3 .. 4
  <2>1. 1 .. k \subseteq 1 .. 4 /\ 1 .. k \in SUBSET Medium!Numbers
    BY DEF Medium!Numbers
  <2>2. rows(profile, k) \in [1 .. k -> CardRow]
    BY <1>1, <2>1
  <2> HIDE DEF rows
  <2> QED BY <2>1, <2>2, TableIs
<1>3. Medium!Image("sd").table = rows("sd", 3) /\ Medium!Image("emmc").table = rows("emmc", 4)
  BY DEF Medium!Image, Medium!Last
<1>4. Medium!Image("sd") \in Disk /\ Medium!Image("emmc") \in Disk
  <2>1. Medium!Image("sd").table \in CardTables /\ Medium!Image("emmc").table \in CardTables
    BY <1>2, <1>3
  <2> QED BY <2>1 DEF Medium!Image, Disk
<1>5. Lost(Medium!Image("sd")) = 0
  <2>1. \A m \in 1 .. 3 : Marked(Medium!Image("sd"), m)
    BY <1>1, <1>3 DEF Marked
  <2>2. HeadMarked(Medium!Image("sd"))
    BY DEF HeadMarked, Medium!Image
  <2> QED BY <2>1, <2>2 DEF Lost, Missing
<1>6. \A mbr \in {"dos", "protective"}, name \in {"other", "data"} : Medium!Foreign(mbr, name) \in Disk
  <2>1. \A name \in {"other", "data"} :
          [n \in 1 .. 1 |-> [uuid |-> <<"other", n>>, place |-> FALSE, name |-> name]] \in [1 .. 1 -> CardRow]
    BY DEF CardRow, Uuids, Medium!Numbers
  <2>2. \A name \in {"other", "data"} :
          [n \in 1 .. 1 |-> [uuid |-> <<"other", n>>, place |-> FALSE, name |-> name]] \in CardTables
    <3>1. 1 .. 1 \in SUBSET Medium!Numbers
      BY DEF Medium!Numbers
    <3> QED BY <2>1, <3>1, TableIs
  <2> QED BY <2>2 DEF Disk, Medium!Foreign
<1>7. Medium!Empty \in Disk
  <2>1. <<>> \in [{} -> CardRow]
    OBVIOUS
  <2>2. <<>> \in CardTables
    BY <2>1 DEF CardTables
  <2> QED BY <2>2 DEF Medium!Empty, Disk
<1> QED
  BY <1>4, <1>5, <1>6, <1>7 DEF Medium!Unrelated, Medium!Soldered

\* The decision is a matter of the two media.
LEMMA SelectSame ==
  ASSUME sd' = sd, emmc' = emmc
  PROVE  Medium!select_medium' = Medium!select_medium
BY DEF Medium!select_medium, Medium!valid_layout, Medium!recognized, Medium!named, Medium!Exact, Medium!Scanned,
       Medium!Listed, Medium!part_type

LEMMA MediumInitHolds == CardSetting /\ Medium!Init => MediumInv
<1> SUFFICES ASSUME CardSetting, Medium!Init PROVE MediumInv
  OBVIOUS
<1>1. \/ origin = "mica" /\ sd = Medium!Image("sd")
      \/ origin = "unrelated" /\ sd \in Medium!Unrelated
      \/ origin = "none" /\ sd = Medium!Empty
  BY DEF Medium!Init
<1>2. sd \in Disk /\ emmc \in Disk
  BY <1>1, CardsType DEF Medium!Init
<1>3. DOMAIN sd.table \subseteq Medium!Numbers /\ DOMAIN emmc.table \subseteq Medium!Numbers
  BY <1>2, TableType DEF Disk
<1>4. Medium!TypeOK
  BY <1>1, <1>3 DEF Medium!Init, Medium!TypeOK, CardSetting
<1>5. origin = "mica" => sd.present /\ sd.mbr # "dos" /\ Lost(sd) <= damage
  <2>1. damage = 0 /\ (origin = "mica" => sd = Medium!Image("sd"))
    BY <1>1 DEF Medium!Init
  <2>2. Medium!Image("sd").present /\ Medium!Image("sd").mbr = "protective"
    BY DEF Medium!Image
  <2> QED BY <2>1, <2>2, CardsType
<1> QED
  BY <1>1, <1>2, <1>4, <1>5 DEF Medium!Init, MediumInv

LEMMA SwapHolds == CardSetting /\ MediumInv /\ Medium!Swap => MediumInv'
<1> SUFFICES ASSUME CardSetting, MediumInv, Medium!Swap PROVE MediumInv'
  OBVIOUS
<1>1. \/ origin' = "mica" /\ sd' = Medium!Image("sd")
      \/ origin' = "unrelated" /\ sd' \in Medium!Unrelated
      \/ origin' = "none" /\ sd' = Medium!Empty
  BY DEF Medium!Swap, Medium!Insert
<1>2. sd' \in Disk
  BY <1>1, CardsType
<1>3. DOMAIN sd'.table \subseteq Medium!Numbers
  BY <1>2, TableType DEF Disk
<1>4. Medium!TypeOK'
  BY <1>1, <1>3 DEF Medium!Swap, Medium!TypeOK, CardSetting, MediumInv
<1>5. origin' = "mica" => sd'.present /\ sd'.mbr # "dos" /\ Lost(sd') <= damage'
  <2>1. damage' = 0 /\ (origin' = "mica" => sd' = Medium!Image("sd"))
    BY <1>1 DEF Medium!Swap
  <2>2. Medium!Image("sd").present /\ Medium!Image("sd").mbr = "protective"
    BY DEF Medium!Image
  <2> QED BY <2>1, <2>2, CardsType
<1> QED
  BY <1>1, <1>2, <1>4, <1>5 DEF Medium!Swap, MediumInv

LEMMA DamageHolds == CardSetting /\ MediumInv /\ Medium!Damage => MediumInv'
<1> SUFFICES ASSUME CardSetting, MediumInv, Medium!Damage PROVE MediumInv'
  OBVIOUS
<1>1. /\ chosen' = chosen /\ chosen = "off" /\ origin' = origin /\ emmc' = emmc /\ damage' = damage + 1
      /\ damage \in Nat /\ damage' \in 0 .. MaxCardDamage
  BY DEF Medium!Damage, MediumInv, Medium!TypeOK, CardSetting
<1>2. sd' \in Disk /\ sd'.present = sd.present /\ sd'.mbr \in {sd.mbr, "blank"} /\ Lost(sd') <= Lost(sd) + 1
  BY DiskDamaged DEF Medium!Damage, MediumInv
<1>3. DOMAIN sd'.table \subseteq Medium!Numbers
  BY <1>2, TableType DEF Disk
<1>4. Medium!TypeOK'
  BY <1>1, <1>3 DEF MediumInv, Medium!TypeOK
<1>5. Lost(sd') <= damage' \/ ~(Lost(sd) <= damage)
  BY <1>1, <1>2, LostType
<1> QED
  BY <1>1, <1>2, <1>4, <1>5 DEF MediumInv

LEMMA SolderedHolds == MediumInv /\ Medium!DamageSoldered => MediumInv'
<1> SUFFICES ASSUME MediumInv, Medium!DamageSoldered PROVE MediumInv'
  OBVIOUS
<1>1. chosen' = chosen /\ chosen = "off" /\ origin' = origin /\ sd' = sd /\ damage' = damage
  BY DEF Medium!DamageSoldered
<1>2. emmc' \in Disk
  BY DiskDamaged DEF Medium!DamageSoldered, MediumInv
<1>3. DOMAIN emmc'.table \subseteq Medium!Numbers
  BY <1>2, TableType DEF Disk
<1>4. Medium!TypeOK'
  BY <1>1, <1>3 DEF MediumInv, Medium!TypeOK
<1> QED
  BY <1>1, <1>2, <1>4 DEF MediumInv

LEMMA MediumStepHolds == CardSetting /\ MediumInv /\ [Medium!Next]_mediumVars => MediumInv'
<1> SUFFICES ASSUME CardSetting, MediumInv, [Medium!Next]_mediumVars PROVE MediumInv'
  OBVIOUS
<1>1. CASE Medium!Boot
  <2>1. sd' = sd /\ emmc' = emmc /\ origin' = origin /\ damage' = damage /\ chosen' = Medium!select_medium
    BY <1>1 DEF Medium!Boot
  <2>2. chosen' = Medium!select_medium'
    BY <2>1, SelectSame
  <2>3. chosen' \in {"sd", "emmc", "recovery"}
    BY <2>1 DEF Medium!select_medium
  <2> QED BY <2>1, <2>2, <2>3 DEF MediumInv, Medium!TypeOK
<1>2. CASE Medium!PowerOff
  BY <1>2 DEF Medium!PowerOff, MediumInv, Medium!TypeOK
<1>3. CASE UNCHANGED mediumVars
  <2>1. sd' = sd /\ emmc' = emmc /\ origin' = origin /\ damage' = damage /\ chosen' = chosen
    BY <1>3 DEF mediumVars
  <2> QED BY <2>1, SelectSame DEF MediumInv, Medium!TypeOK
<1> QED
  BY <1>1, <1>2, <1>3, SwapHolds, DamageHolds, SolderedHolds DEF Medium!Next

-----------------------------------------------------------------------------
(* What the marks decide.                                                   *)

\* A card with a mark, and a head to read it by, is never taken for unrelated.
LEMMA MarkedIsMica ==
  ASSUME NEW d \in Disk, d.mbr # "dos", ~(d.mbr = "blank" /\ ~d.primary), Lost(d) <= 3
  PROVE  Medium!valid_layout(d, "sd") # 0
<1>1. CASE Medium!Listed(d) = {}
  <2>1. Medium!part_type(d) = "efi" \/ d.primary \/ d.mbr = "protective"
    BY DEF Disk, Medium!part_type
  <2> QED BY <1>1, <2>1 DEF Medium!valid_layout
<1>2. CASE Medium!Listed(d) # {}
  <2>1. Medium!Listed(d) = DOMAIN d.table
    BY <1>2 DEF Medium!Listed
  <2>2. HeadMarked(d) \/ \E m \in 1 .. 3 : Marked(d, m)
    BY DEF Lost, Missing
  <2>3. Medium!recognized(d, "sd")
    BY <2>1, <2>2 DEF Medium!recognized, Medium!Scanned, Medium!Main, Marked, HeadMarked
  <2> QED BY <2>3 DEF Medium!valid_layout
<1> QED
  BY <1>1, <1>2

\* A whole eMMC is booted.
LEMMA SolderedBoots == Medium!valid_layout(Medium!Image("emmc"), "emmc") = 1
<1> DEFINE exact == Medium!Image("emmc")
<1>2. /\ exact.io /\ exact.primary /\ exact.guid = "emmc" /\ exact.mbr = "protective"
      /\ exact.table = [n \in 1 .. 4 |-> Medium!Partition("emmc", n)]
  BY DEF Medium!Image, Medium!Last
<1>3. Medium!part_type(exact) = "efi" /\ Medium!Listed(exact) = 1 .. 4
  BY <1>2 DEF Medium!part_type, Medium!Listed
<1>4. \A n \in 1 .. 4 : Medium!Exact(exact, "emmc", n)
  BY <1>2, <1>3 DEF Medium!Exact
<1>5. Medium!recognized(exact, "emmc")
  <2>1. exact.table[1].uuid = <<"emmc", 1>>
    BY <1>2 DEF Medium!Partition
  <2>2. 1 \in Medium!Scanned(exact, "emmc") /\ 1 \in Medium!Main
    BY <1>3 DEF Medium!Scanned, Medium!Main
  <2> QED BY <2>1, <2>2 DEF Medium!recognized
<1> HIDE DEF exact
<1>6. Medium!valid_layout(exact, "emmc") = 1
  BY <1>2, <1>3, <1>4, <1>5 DEF Medium!valid_layout, Medium!Main, Medium!Last
<1> QED
  BY <1>6 DEF exact

LEMMA UnrelatedIsNone == \A d \in Medium!Unrelated : Medium!valid_layout(d, "sd") = 0
<1>1. \A mbr \in {"dos", "protective"}, name \in {"other", "data"} :
        Medium!valid_layout(Medium!Foreign(mbr, name), "sd") = 0
  <2> TAKE mbr \in {"dos", "protective"}, name \in {"other", "data"}
  <2> DEFINE d == Medium!Foreign(mbr, name)
  <2>1. /\ d.io /\ d.guid = "other" /\ d.mbr = mbr /\ d.primary = (mbr = "protective")
        /\ DOMAIN d.table = 1 .. 1 /\ d.table[1].uuid = <<"other", 1>> /\ d.table[1].name = name
    BY DEF Medium!Foreign
  <2>2. Medium!part_type(d) # "none"
    BY <2>1 DEF Medium!part_type
  <2> HIDE DEF d
  <2>3. Medium!Listed(d) = {1}
    BY <2>1, <2>2 DEF Medium!Listed
  <2>4. ~Medium!recognized(d, "sd")
    BY <2>1, <2>3 DEF Medium!recognized, Medium!Scanned, Medium!Main
  <2>5. ~Medium!named(d, "sd")
    BY <2>1, <2>3 DEF Medium!named, Medium!Scanned
  <2>6. Medium!valid_layout(d, "sd") = 0
    BY <2>1, <2>3, <2>4, <2>5 DEF Medium!valid_layout, Medium!Main
  <2> QED BY <2>6 DEF d
<1> QED
  BY <1>1 DEF Medium!Unrelated

\* A medium that boots has the whole table of its profile, and nothing at the number after it.
LEMMA ExactIsImage ==
  ASSUME NEW d \in Disk, NEW profile \in {"sd", "emmc"}, Medium!valid_layout(d, profile) = 1
  PROVE  /\ Medium!Carries(d, profile)
         /\ d.io /\ (profile = "emmc" => d.primary /\ d.guid = "emmc")
<1> DEFINE last == Medium!Last(profile)
<1>1. last \in 3 .. 4
  BY DEF Medium!Last
<1>2. /\ \A n \in 1 .. last : n \in Medium!Listed(d) /\ d.table[n] = Medium!Partition(profile, n)
      /\ last + 1 \notin Medium!Listed(d)
      /\ d.io /\ (profile = "emmc" => d.primary /\ d.guid = "emmc")
  BY DEF Medium!valid_layout, Medium!Exact
<1>3. Medium!Image(profile).table = [n \in 1 .. last |-> Medium!Partition(profile, n)]
  BY DEF Medium!Image
<1> HIDE DEF last
<1>4. Medium!Listed(d) = DOMAIN d.table
  <2>1. 1 \in Medium!Listed(d)
    BY <1>1, <1>2
  <2> QED BY <2>1 DEF Medium!Listed
<1>5. DOMAIN d.table \cap (1 .. last + 1) = 1 .. last
  <2>1. \A n \in 1 .. last + 1 : n \in 1 .. last \/ n = last + 1
    BY <1>1
  <2>2. 1 .. last \subseteq 1 .. last + 1
    BY <1>1
  <2> QED BY <1>2, <1>4, <2>1, <2>2
<1>6. [m \in DOMAIN d.table \cap (1 .. last + 1) |-> d.table[m]] = [n \in 1 .. last |-> Medium!Partition(profile, n)]
  BY <1>2, <1>5
<1> QED
  BY <1>2, <1>3, <1>6 DEF Medium!Carries, Medium!First, last

LEMMA MediumDecides == CardSetting /\ MediumInv => Medium!CardDecides /\ Medium!BootsExactLayout
<1> SUFFICES ASSUME CardSetting, MediumInv PROVE Medium!CardDecides /\ Medium!BootsExactLayout
  OBVIOUS
<1>1. chosen # "off" => chosen = Medium!select_medium
  BY DEF MediumInv
<1>2. sd \in Disk /\ emmc \in Disk /\ damage <= 3 /\ damage \in Nat
  BY DEF MediumInv, Medium!TypeOK, CardSetting
<1>3. origin = "mica" /\ ~Medium!HeadLost => chosen # "emmc"
  <2> SUFFICES ASSUME origin = "mica", ~Medium!HeadLost PROVE chosen # "emmc"
    OBVIOUS
  <2>1. Lost(sd) <= 3 /\ sd.mbr # "dos" /\ sd.present
    BY <1>2, LostType DEF MediumInv
  <2>2. Medium!valid_layout(sd, "sd") # 0
    BY <1>2, <2>1, MarkedIsMica DEF Medium!HeadLost
  <2> QED BY <1>1, <2>1, <2>2 DEF Medium!select_medium
<1>4. origin = "unrelated" /\ damage = 0 /\ emmc = Medium!Image("emmc") /\ chosen # "off" => chosen = "emmc"
  BY <1>1, UnrelatedIsNone, SolderedBoots DEF MediumInv, Medium!select_medium
<1>5. chosen = "sd" => Medium!Carries(sd, "sd")
  BY <1>1, <1>2, ExactIsImage DEF Medium!select_medium
<1>6. chosen = "emmc" => Medium!Carries(emmc, "emmc") /\ emmc.io /\ emmc.primary /\ emmc.guid = "emmc"
  BY <1>1, <1>2, ExactIsImage DEF Medium!select_medium
<1> QED
  BY <1>3, <1>4, <1>5, <1>6 DEF Medium!CardDecides, Medium!BootsExactLayout

-----------------------------------------------------------------------------
(* The factory image.                                                       *)

Pair(p) == p = <<p[1], p[2]>>
AsWritten == image = [place \in Images!PlacesOf(Images!Deployments, input.seed) |-> Images!Written(place)]

FactoryInv ==
  /\ said \in Images!Answers /\ harm \in Nat
  /\ IsFiniteSet(Images!Kind("deployment")) /\ \A p \in DOMAIN image : Pair(p)
  /\ said \in {"assembled", "pass", "fail"} => Images!InputsAgree /\ (harm = 0 => AsWritten)
  /\ Images!Loader \in DOMAIN image => image[Images!Loader] \in {input.loader, Bad}
  /\ said = "pass" => Images!Verified
  /\ said = "fail" => ~Images!Verified

\* The verdict, the inputs and the places are a matter of the input and the image.
LEMMA VerifiedSame ==
  ASSUME input' = input, image' = image
  PROVE  Images!Verified' = Images!Verified
BY DEF Images!Verified, Images!FactoryRecords, Images!FactorySet, Images!DeploymentWhole, Images!Selection,
       Images!LoaderRight, Images!NothingElse, Images!Is, Images!Kind, Images!Held, Images!NamedRight, Images!Whole,
       Images!CurrentSet, Images!Stored, Images!OnFlash, Images!HasEsp, Images!ReceiptParses

LEMMA InputsSame ==
  ASSUME input' = input
  PROVE  /\ Images!InputsAgree' = Images!InputsAgree
         /\ Images!PlacesOf(Images!Deployments, input.seed)' = Images!PlacesOf(Images!Deployments, input.seed)
         /\ \A p : Images!Written(p)' = Images!Written(p)
<1>1. Images!Deployments' = Images!Deployments
  BY DEF Images!Deployments
<1>2. Images!InputsAgree' = Images!InputsAgree
  BY <1>1 DEF Images!InputsAgree, Images!KernelsBound, Images!BootIdentity, Images!ReceiptParses
<1>3. Images!PlacesOf(Images!Deployments, input.seed)' = Images!PlacesOf(Images!Deployments, input.seed)
  BY <1>1 DEF Images!PlacesOf, Images!OnFlash, Images!HasEsp
<1>4. \A p : Images!Written(p)' = Images!Written(p)
  BY <1>1 DEF Images!Written
<1> QED
  BY <1>2, <1>3, <1>4

\* The places of an image that was assembled, by their kinds.
LEMMA PlaceForms ==
  ASSUME NEW ds, NEW s, NEW p \in Images!PlacesOf(ds, s)
  PROVE  /\ Pair(p)
         /\ p[1] = "deployment" => \E d \in ds : p = Images!Deployment(d)
         /\ p[1] = "set" => p = Images!SetFile(s)
         /\ p[1] \in {"image", "hash", "signature"} => p[2] \in Images!ObjectsOf(ds, s)
         /\ p[1] = "entry" => Images!HasEsp /\ (p = Images!Policy \/ \E d \in ds : p = Images!Entry(d))
         /\ p[1] # "cores"
<1>1. \/ \E d \in ds : p = Images!Deployment(d)
      \/ \E d \in ds : p = Images!Boot(Images!KernelOf(d))
      \/ p \in {Images!SetFile(s), Images!State, Images!Loader, Images!System, Images!Data}
      \/ \E o \in Images!ObjectsOf(ds, s) : p \in {Images!Image(o), Images!Signature(o), Images!RootHash(o)}
      \/ p \in {Images!Table, Images!Receipt}
      \/ Images!HasEsp /\ ((\E d \in ds : p = Images!Entry(d)) \/ p = Images!Policy)
      \/ p \in {Images!Copy("a"), Images!Copy("b")}
  BY DEF Images!PlacesOf
<1> QED
  BY <1>1 DEF Pair, Images!Deployment, Images!Boot, Images!SetFile, Images!State, Images!Loader, Images!System,
              Images!Data, Images!Image, Images!Signature, Images!RootHash, Images!Table, Images!Receipt,
              Images!Entry, Images!Policy, Images!Copy

LEMMA ObjectForms ==
  ASSUME NEW ds, NEW s, NEW o \in Images!ObjectsOf(ds, s)
  PROVE  /\ o[1] = "core" => \E c \in CoreSet[s].components : o = Images!Core(c)
         /\ o[1] = "root" => \E d \in ds : o = Images!Root(d)
BY DEF Images!ObjectsOf, Images!Core, Images!Root, Images!Support

\* Things of one kind are as many as the places that name them.
LEMMA NamedOnce ==
  ASSUME NEW k, NEW P, IsFiniteSet(P), \A p \in P : Pair(p) /\ p[1] = k
  PROVE  IsFiniteSet({p[2] : p \in P}) /\ Cardinality({p[2] : p \in P}) = Cardinality(P)
<1> DEFINE T == {p[2] : p \in P}
           f == [p \in P |-> p[2]]
<1>1. f \in [P -> T] /\ \A t \in T : \E p \in P : f[p] = t
  OBVIOUS
<1>2. \A p, q \in P : f[p] = f[q] => p = q
  BY DEF Pair
<1> HIDE DEF f, T
<1>3. f \in Bijection(P, T)
  BY <1>1, <1>2, Fun_IsBij
<1>4. ExistsBijection(P, T)
  BY <1>3, Fun_ExistsBij
<1> QED
  BY <1>4, FS_Bijection DEF T

LEMMA TwoFinite == ASSUME NEW x, NEW y PROVE IsFiniteSet({x, y})
<1>1. IsFiniteSet({})
  BY FS_EmptySet
<1>2. IsFiniteSet({} \cup {x})
  BY <1>1, FS_AddElement
<1>3. IsFiniteSet(({} \cup {x}) \cup {y})
  BY <1>2, FS_AddElement
<1>4. ({} \cup {x}) \cup {y} = {x, y}
  OBVIOUS
<1> QED
  BY <1>3, <1>4

\* What the assembly writes, place by place.
LEMMA WrittenIs ==
  /\ Images!Written(Images!State) = input.seed
  /\ Images!Written(Images!Loader) = input.loader
  /\ Images!Written(Images!Receipt) = input.firmware
  /\ Images!Written(Images!Policy) = "timeout0"
  /\ \A d : d # "loader.conf" => Images!Written(Images!Entry(d)) = Images!EntryText(d)
  /\ \A x : Images!Written(Images!Copy(x)) = Images!Records(Images!Deployments)
  /\ \A p \in {Images!Table, Images!System, Images!Data} : Images!Written(p) = "clean"
  /\ \A d : Images!Written(Images!Deployment(d)) = d
  /\ \A k : Images!Written(Images!Boot(k)) = k
  /\ \A s : Images!Written(Images!SetFile(s)) = s
  /\ \A o : /\ Images!Written(Images!Image(o)) = o /\ Images!Written(Images!Signature(o)) = o
            /\ Images!Written(Images!RootHash(o)) = o
<1>1. Images!Written(Images!State) = input.seed
  BY DEF Images!Written, Images!State, Images!Loader, Images!Receipt, Images!Policy
<1>2. Images!Written(Images!Loader) = input.loader
  BY DEF Images!Written, Images!State, Images!Loader, Images!Receipt, Images!Policy
<1>3. Images!Written(Images!Receipt) = input.firmware
  BY DEF Images!Written, Images!State, Images!Loader, Images!Receipt, Images!Policy
<1>4. Images!Written(Images!Policy) = "timeout0"
  BY DEF Images!Written, Images!State, Images!Loader, Images!Receipt, Images!Policy
<1>5. \A d : d # "loader.conf" => Images!Written(Images!Entry(d)) = Images!EntryText(d)
  BY DEF Images!Written, Images!State, Images!Loader, Images!Receipt, Images!Policy, Images!Entry
<1>6. \A x : Images!Written(Images!Copy(x)) = Images!Records(Images!Deployments)
  BY DEF Images!Written, Images!State, Images!Loader, Images!Receipt, Images!Policy, Images!Copy
<1>7. \A p \in {Images!Table, Images!System, Images!Data} : Images!Written(p) = "clean"
  BY DEF Images!Written, Images!State, Images!Loader, Images!Receipt, Images!Policy, Images!Table, Images!System, Images!Data
<1>8. \A k \in {"deployment", "boot", "set", "image", "signature", "hash"} : \A x : Images!Written(<<k, x>>) = x
  BY DEF Images!Written, Images!State, Images!Loader, Images!Receipt, Images!Policy
<1> QED
  BY <1>1, <1>2, <1>3, <1>4, <1>5, <1>6, <1>7, <1>8 DEF Images!Deployment, Images!Boot, Images!SetFile, Images!Image,
     Images!Signature, Images!RootHash

LEMMA FactoryInitHolds == Images!FactoryInit => FactoryInv
<1> SUFFICES ASSUME Images!FactoryInit PROVE FactoryInv
  OBVIOUS
<1>1. DOMAIN image = {} /\ said = "none" /\ harm = 0
  BY DEF Images!FactoryInit
<1>2. Images!Kind("deployment") = {}
  BY <1>1 DEF Images!Kind
<1> QED
  BY <1>1, <1>2, FS_EmptySet DEF FactoryInv, Images!Answers

LEMMA AssembleHolds == FactoryInv /\ Images!Assemble => FactoryInv'
<1> SUFFICES ASSUME FactoryInv, Images!Assemble PROVE FactoryInv'
  OBVIOUS
<1>1. input' = input /\ harm' = harm
  BY DEF Images!Assemble
<1>2. CASE ~Images!InputsAgree
  <2>1. said' = "unassembled" /\ image' = image
    BY <1>2 DEF Images!Assemble
  <2> QED BY <1>1, <2>1 DEF FactoryInv, Images!Answers, Images!Kind
<1>3. CASE Images!InputsAgree
  <2>1. said' = "assembled"
          /\ image' = [place \in Images!PlacesOf(Images!Deployments, input.seed) |-> Images!Written(place)]
    BY <1>3 DEF Images!Assemble
  <2>2. \A p \in DOMAIN image' : Pair(p) /\ (p[1] = "deployment" => \E d \in Images!Deployments : p = Images!Deployment(d))
    BY <2>1, PlaceForms
  <2>3. IsFiniteSet(Images!Kind("deployment"))'
    <3>1. Images!Kind("deployment")' \subseteq {Images!Deployment(input.first), Images!Deployment(input.second)}
      BY <2>2 DEF Images!Kind, Images!Deployments
    <3> QED BY <3>1, TwoFinite, FS_Subset
  <2>4. Images!Loader \in DOMAIN image' => image'[Images!Loader] = input.loader
    BY <2>1, WrittenIs
  <2>5. Images!InputsAgree' /\ AsWritten'
    BY <1>1, <1>3, <2>1, InputsSame DEF AsWritten
  <2> QED BY <1>1, <2>1, <2>2, <2>3, <2>4, <2>5 DEF FactoryInv, Images!Answers, Images!Loader
<1> QED
  BY <1>2, <1>3

LEMMA HarmHolds == FactoryInv /\ Images!Harm => FactoryInv'
<1> SUFFICES ASSUME FactoryInv, Images!Harm PROVE FactoryInv'
  OBVIOUS
<1>1. input' = input /\ said' = said /\ said = "assembled" /\ harm' = harm + 1 /\ harm \in Nat
  BY DEF Images!Harm, FactoryInv
<1>2. Images!InputsAgree'
  BY <1>1, InputsSame DEF FactoryInv
<1>3. \A p \in Images!Strays : Pair(p) /\ p # Images!Loader
  BY DEF Images!Strays, Pair, Images!Deployment, Images!SetFile, Images!Entry, Images!Image, Images!Core, Images!Loader
<1>4. \E place : /\ Pair(place) /\ DOMAIN image' \subseteq DOMAIN image \cup {place}
                 /\ Images!Loader \in DOMAIN image' =>
                      Images!Loader \in DOMAIN image /\ image'[Images!Loader] \in {image[Images!Loader], Bad}
  <2>1. CASE \E place \in DOMAIN image : image' = [p \in DOMAIN image \ {place} |-> image[p]]
    BY <2>1 DEF FactoryInv
  <2>2. CASE \E place \in DOMAIN image : \E x \in {Bad} \cup Images!Signed(place[1]) : image' = [image EXCEPT ![place] = x]
    <3>1. PICK place \in DOMAIN image : \E x \in {Bad} \cup Images!Signed(place[1]) : image' = [image EXCEPT ![place] = x]
      BY <2>2
    <3>3. PICK x \in {Bad} \cup Images!Signed(place[1]) : image' = [image EXCEPT ![place] = x]
      BY <3>1
    <3>2. place = Images!Loader => x = Bad
      BY <3>3 DEF Images!Signed, Images!Loader
    <3> QED BY <3>2, <3>3 DEF FactoryInv
  <2>3. CASE \E place \in Images!Strays \ DOMAIN image :
               image' = [p \in DOMAIN image \cup {place} |-> IF p = place THEN place[2] ELSE image[p]]
    <3>1. PICK place \in Images!Strays \ DOMAIN image :
                 image' = [p \in DOMAIN image \cup {place} |-> IF p = place THEN place[2] ELSE image[p]]
      BY <2>3
    <3> QED BY <1>3, <3>1
  <2> QED BY <2>1, <2>2, <2>3 DEF Images!Harm
<1>5. PICK place : /\ Pair(place) /\ DOMAIN image' \subseteq DOMAIN image \cup {place}
                   /\ Images!Loader \in DOMAIN image' =>
                        Images!Loader \in DOMAIN image /\ image'[Images!Loader] \in {image[Images!Loader], Bad}
  BY <1>4
<1>6. IsFiniteSet(Images!Kind("deployment"))'
  <2>1. Images!Kind("deployment")' \subseteq Images!Kind("deployment") \cup {place}
    BY <1>5 DEF Images!Kind
  <2>2. IsFiniteSet(Images!Kind("deployment") \cup {place})
    BY FS_AddElement DEF FactoryInv
  <2> QED BY <2>1, <2>2, FS_Subset
<1>7. (Images!Loader \in DOMAIN image => image[Images!Loader] \in {input.loader, Bad})'
  BY <1>1, <1>5 DEF FactoryInv, Images!Loader
<1>8. \A p \in DOMAIN image' : Pair(p)
  BY <1>5 DEF FactoryInv
<1> QED
  BY <1>1, <1>2, <1>6, <1>7, <1>8 DEF FactoryInv

LEMMA FactoryStepHolds == FactoryInv /\ [Images!FactoryNext]_factoryVars => FactoryInv'
<1> SUFFICES ASSUME FactoryInv, [Images!FactoryNext]_factoryVars PROVE FactoryInv'
  OBVIOUS
<1>1. CASE Images!Verify \/ UNCHANGED factoryVars
  <2>1. /\ input' = input /\ image' = image /\ harm' = harm
        /\ \/ said' = said
           \/ said = "assembled" /\ said' = (IF Images!Verified THEN "pass" ELSE "fail")
    BY <1>1 DEF Images!Verify, factoryVars
  <2>2. Images!Verified' = Images!Verified /\ Images!InputsAgree' = Images!InputsAgree /\ AsWritten' = AsWritten
    BY <2>1, VerifiedSame, InputsSame DEF AsWritten
  <2>3. Images!Kind("deployment")' = Images!Kind("deployment") /\ Images!Loader' = Images!Loader
    BY <2>1 DEF Images!Kind, Images!Loader
  <2> QED BY <2>1, <2>2, <2>3 DEF FactoryInv, Images!Answers
<1> QED
  BY <1>1, AssembleHolds, HarmHolds DEF Images!FactoryNext

-----------------------------------------------------------------------------
(* What the verdict says of the image.                                      *)

LEMMA SameCount == \A S : Images!Cardinality(S) = Cardinality(S)
BY DEF Images!Cardinality, Cardinality

\* The deployments of an image that passes are the two that are there.
LEMMA HeldTwo ==
  ASSUME FactoryInv, Images!FactoryRecords
  PROVE  /\ Cardinality(Images!Held("deployment")) = 2
         /\ \A d \in Images!Held("deployment") : d \in DOMAIN Descriptor /\ Images!Is(Images!Deployment(d), d)
<1> DEFINE P == Images!Kind("deployment")
<1>1. \A p \in P : p \in DOMAIN image /\ Pair(p) /\ p[1] = "deployment" /\ image[p] = p[2] /\ image[p] \in DOMAIN Descriptor
  BY DEF Images!Kind, Images!FactoryRecords, Images!NamedRight, Images!Signed, FactoryInv
<1>2. IsFiniteSet(P) /\ Cardinality(P) = 2
  BY SameCount DEF FactoryInv, Images!FactoryRecords
<1>3. Images!Held("deployment") = {image[p] : p \in P}
  BY DEF Images!Held
<1> HIDE DEF P
<1>4. Images!Held("deployment") = {p[2] : p \in P}
  BY <1>1, <1>3
<1>5. \A d \in Images!Held("deployment") : d \in DOMAIN Descriptor /\ Images!Is(Images!Deployment(d), d)
  <2> TAKE d \in Images!Held("deployment")
  <2>1. PICK p \in P : p[2] = d
    BY <1>4
  <2>2. p = Images!Deployment(d) /\ p \in DOMAIN image /\ image[p] = d /\ d \in DOMAIN Descriptor
    BY <1>1, <2>1 DEF Pair, Images!Deployment
  <2> QED BY <2>2 DEF Images!Is
<1>6. Cardinality(Images!Held("deployment")) = 2
  BY <1>1, <1>2, <1>4, NamedOnce
<1> QED
  BY <1>5, <1>6

\* The loader of a device finds the deployments the selection names.
LEMMA TriedAre ==
  ASSUME NEW ds, Images!Selection(ds)
  PROVE  Images!Tried = ds
<1>1. CASE Images!HasEsp
  <2>1. Images!Kind("entry") \ {Images!Policy} = {Images!Entry(d) : d \in ds}
    BY <1>1 DEF Images!Selection
  <2>2. Images!Tried = {p[2] : p \in Images!Kind("entry") \ {Images!Policy}}
    BY <1>1 DEF Images!Tried
  <2>3. \A d : Images!Entry(d)[2] = d
    BY DEF Images!Entry
  <2> QED BY <2>1, <2>2, <2>3
<1>2. CASE ~Images!HasEsp
  <2>1. image[Images!Copy("a")] = Images!Records(ds)
    BY <1>2 DEF Images!Selection, Images!Is
  <2>2. Images!Tried = {r.id : r \in Images!Records(ds)}
    BY <1>2, <2>1 DEF Images!Tried
  <2>3. ASSUME NEW d \in ds PROVE d \in Images!Tried
    <3>1. [id |-> d, kernel |-> Images!KernelOf(d), generation |-> Descriptor[d].generation, tries |-> 3]
            \in Images!Records(ds)
      BY DEF Images!Records
    <3> QED BY <2>2, <3>1
  <2>4. ASSUME NEW d \in Images!Tried PROVE d \in ds
    <3>1. PICK r \in Images!Records(ds) : d = r.id
      BY <2>2
    <3> QED BY <3>1 DEF Images!Records
  <2> QED BY <2>3, <2>4
<1> QED
  BY <1>1, <1>2

LEMMA PassComesUp ==
  ASSUME FactorySetting, FactoryInv, said = "pass"
  PROVE  /\ Cardinality(Images!Tried) = 2 /\ Images!Generations(Images!Tried) = 2
         /\ \A d \in Images!Tried : Images!ComesUp(d)
         /\ \E f \in DOMAIN Firmware : Images!Is(Images!Loader, Firmware[f].artifact)
<1>1. Images!Verified
  BY DEF FactoryInv
<1>2. Images!Tried = Images!Held("deployment")
  BY <1>1, TriedAre DEF Images!Verified
<1>3. /\ Cardinality(Images!Held("deployment")) = 2
      /\ \A d \in Images!Held("deployment") : d \in DOMAIN Descriptor /\ Images!Is(Images!Deployment(d), d)
  BY <1>1, HeldTwo DEF Images!Verified
<1>4. Images!Generations(Images!Held("deployment")) = 2
  BY <1>1 DEF Images!Verified, Images!FactoryRecords
<1>5. PICK s \in Images!Held("set") : Images!FactorySet(s) /\ \A d \in Images!Held("deployment") : Images!DeploymentWhole(d, s)
  BY <1>1 DEF Images!Verified
<1>6. s \in DOMAIN CoreSet /\ Images!Is(Images!State, s) /\ Images!Is(Images!SetFile(s), s)
  BY <1>5 DEF Images!FactorySet, Images!SetParses, Images!CurrentSet, Images!NamedRight, Images!Kind, Images!Is, Images!SetFile
<1>7. \A d \in Images!Held("deployment") : Images!ComesUp(d)
  <2> TAKE d \in Images!Held("deployment")
  <2>1. Images!DeploymentWhole(d, s)
    BY <1>5
  <2>2. \A o : Images!Whole(o) => Images!Mounts(o)
    BY DEF Images!Whole, Images!Mounts
  <2>3. Images!Mounts(Images!Root(d)) /\ Images!Mounts(Images!Support(d)) /\ Descriptor[d].set \in {"none", s}
          /\ Images!Is(Images!Boot(Images!KernelOf(d)), Images!KernelOf(d))
    BY <2>1, <2>2 DEF Images!DeploymentWhole, Images!SetNamed
  <2>4. \A c \in Images!Selected(Descriptor[d].root, s) :
          Images!Mounts(Images!Core(c)) /\ <<Descriptor[d].root, c>> \notin Shadows
    BY <1>5, <2>1, <2>2 DEF Images!DeploymentWhole, Images!Composes, Images!FactorySet, Images!Selected
  <2> QED BY <1>3, <1>6, <2>3, <2>4 DEF Images!ComesUp
<1>8. \E f \in DOMAIN Firmware : Images!Is(Images!Loader, Firmware[f].artifact)
  <2>1. CASE Images!OnFlash
    <3>1. Images!Loader \in DOMAIN image /\ image[Images!Loader] = BundleLoader
      BY <1>1, <2>1 DEF Images!Verified, Images!LoaderRight, Images!Is
    <3>2. image[Images!Loader] = input.loader
      BY <3>1 DEF FactoryInv, FactorySetting
    <3>3. input.firmware \in DOMAIN Firmware /\ input.loader = Firmware[input.firmware].artifact
      BY DEF FactoryInv, Images!InputsAgree, Images!ReceiptParses
    <3> QED BY <3>1, <3>2, <3>3 DEF Images!Is
  <2>2. CASE ~Images!OnFlash
    BY <1>1, <2>2 DEF Images!Verified, Images!LoaderRight, Images!ReceiptParses
  <2> QED BY <2>1, <2>2
<1> QED
  BY <1>2, <1>3, <1>4, <1>7, <1>8

\* An image as it was assembled is verified, but for what only the verifier looks at.
LEMMA WrittenVerifies ==
  ASSUME FactorySetting, FactoryInv, Images!InputsAgree, AsWritten, ~Images!Unchecked
  PROVE  Images!Verified
<1> DEFINE ds == Images!Deployments
           s == input.seed
           places == Images!PlacesOf(ds, s)
<1>1. DOMAIN image = places /\ \A p \in places : image[p] = Images!Written(p)
  BY DEF AsWritten
<1>2. \A p \in places : Images!Is(p, Images!Written(p))
  BY <1>1 DEF Images!Is
<1>3. \A d \in ds : Images!Is(Images!Deployment(d), d) /\ Images!Is(Images!Boot(Images!KernelOf(d)), Images!KernelOf(d))
  <2>1. \A d \in ds : Images!Deployment(d) \in places /\ Images!Boot(Images!KernelOf(d)) \in places
    BY DEF Images!PlacesOf
  <2> QED BY <1>2, <2>1, WrittenIs
<1>4. Images!Is(Images!SetFile(s), s) /\ Images!Is(Images!State, s) /\ Images!Is(Images!Loader, input.loader)
        /\ Images!Is(Images!System, "clean") /\ Images!Is(Images!Data, "clean")
  <2>1. {Images!SetFile(s), Images!State, Images!Loader, Images!System, Images!Data} \subseteq places
    BY DEF Images!PlacesOf
  <2> QED BY <1>2, <2>1, WrittenIs
<1>5. Images!OnFlash \/ (Images!Is(Images!Table, "clean") /\ Images!Is(Images!Receipt, input.firmware))
  <2>1. Images!OnFlash \/ {Images!Table, Images!Receipt} \subseteq places
    BY DEF Images!PlacesOf
  <2> QED BY <1>2, <2>1, WrittenIs
<1>6. \A o \in Images!ObjectsOf(ds, s) : Images!Whole(o)
  <2>1. \A o \in Images!ObjectsOf(ds, s) : {Images!Image(o), Images!Signature(o), Images!RootHash(o)} \subseteq places
    BY DEF Images!PlacesOf
  <2> QED BY <1>2, <2>1, WrittenIs DEF Images!Whole
<1>7. /\ ds \subseteq DOMAIN Descriptor /\ Cardinality(ds) = 2 /\ Images!Generations(ds) = 2 /\ Images!SetParses(s)
      /\ \A d \in ds : /\ Descriptor[d].board = input.board /\ Descriptor[d].arch = CoreSet[s].arch
                      /\ Images!KernelOf(d) \notin ForeignKernels
  BY SameCount DEF Images!InputsAgree, Images!KernelsBound
<1> HIDE DEF places
<1>8. /\ \A p \in places : p[1] = "deployment" => \E d \in ds : p = Images!Deployment(d)
      /\ \A p \in places : p[1] = "set" => p = Images!SetFile(s)
      /\ \A p \in places : p[1] \in {"image", "hash", "signature"} => p[2] \in Images!ObjectsOf(ds, s)
      /\ \A p \in places : p[1] = "entry" => Images!HasEsp /\ (p = Images!Policy \/ \E d \in ds : p = Images!Entry(d))
      /\ \A p \in places : p[1] # "cores"
      /\ \A p \in places : Pair(p)
  BY PlaceForms DEF places
<1>9. Images!Held("deployment") = ds /\ Images!FactoryRecords
  <2>1. Images!Kind("deployment") = {Images!Deployment(d) : d \in ds}
    BY <1>1, <1>3, <1>8 DEF Images!Kind, Images!Is, Images!Deployment
  <2>2. Images!Held("deployment") = ds
    BY <1>3, <2>1 DEF Images!Held, Images!Is
  <2>3. Images!NamedRight("deployment")
    BY <1>3, <1>7, <2>1 DEF Images!NamedRight, Images!Is, Images!Deployment, Images!Signed
  <2>4. {p[2] : p \in Images!Kind("deployment")} = ds
    <3>1. \A d : Images!Deployment(d)[2] = d
      BY DEF Images!Deployment
    <3> QED BY <2>1, <3>1
  <2>5. IsFiniteSet(Images!Kind("deployment")) /\ \A p \in Images!Kind("deployment") : Pair(p) /\ p[1] = "deployment"
    BY <1>1, <1>8 DEF FactoryInv, Images!Kind
  <2>6. Cardinality(Images!Kind("deployment")) = 2
    BY <1>7, <2>4, <2>5, NamedOnce
  <2> QED BY <1>7, <2>2, <2>3, <2>6, SameCount DEF Images!FactoryRecords
<1>10. s \in Images!Held("set") /\ Images!FactorySet(s)
  <2>1. Images!Kind("set") = {Images!SetFile(s)}
    BY <1>1, <1>4, <1>8 DEF Images!Kind, Images!Is, Images!SetFile
  <2>2. s \in Images!Held("set")
    BY <1>4, <2>1 DEF Images!Held, Images!Is
  <2>3. Images!NamedRight("set")
    BY <1>4, <1>7, <2>1 DEF Images!NamedRight, Images!Is, Images!SetFile, Images!Signed, Images!SetParses
  <2>4. Images!Kind("cores") = {}
    BY <1>1, <1>8 DEF Images!Kind
  <2>5. \A c \in CoreSet[s].components : Images!Core(c) \in Images!ObjectsOf(ds, s)
    BY DEF Images!ObjectsOf
  <2>6. Images!Stored = {Images!Core(c) : c \in CoreSet[s].components}
    <3>1. ASSUME NEW x \in Images!Stored
          PROVE  \E c \in CoreSet[s].components : x = Images!Core(c)
      <4>1. PICK p \in Images!Kind("image") \cup Images!Kind("hash") \cup Images!Kind("signature") :
                   p[2][1] = "core" /\ x = p[2]
        BY <3>1 DEF Images!Stored
      <4>2. x \in Images!ObjectsOf(ds, s) /\ x[1] = "core"
        BY <1>1, <1>8, <4>1 DEF Images!Kind
      <4> QED BY <4>2, ObjectForms
    <3>2. ASSUME NEW c \in CoreSet[s].components
          PROVE  Images!Core(c) \in Images!Stored
      <4>1. Images!Image(Images!Core(c)) \in Images!Kind("image")
        BY <1>6, <2>5 DEF Images!Whole, Images!Is, Images!Kind, Images!Image
      <4>2. Images!Image(Images!Core(c))[2] = Images!Core(c) /\ Images!Core(c)[1] = "core"
        BY DEF Images!Image, Images!Core
      <4> QED BY <4>1, <4>2 DEF Images!Stored
    <3> QED BY <3>1, <3>2
  <2> QED BY <1>4, <1>6, <1>7, <2>1, <2>2, <2>3, <2>4, <2>5, <2>6 DEF Images!FactorySet, Images!CurrentSet
<1>11. \A d \in ds : Images!DeploymentWhole(d, s)
  <2> TAKE d \in ds
  <2>1. Images!Root(d) \in Images!ObjectsOf(ds, s) /\ Images!Support(d) \in Images!ObjectsOf(ds, s)
    BY DEF Images!ObjectsOf
  <2>2. Images!SetNamed(d, s) /\ Images!Composes(Descriptor[d].root, s)
    BY DEF Images!Unchecked
  <2> QED BY <1>3, <1>6, <1>7, <2>1, <2>2 DEF Images!DeploymentWhole
<1>12. Images!Selection(ds)
  <2>1. CASE Images!HasEsp
    <3>1. Images!Policy \in places /\ \A d \in ds : Images!Entry(d) \in places
      BY <2>1 DEF places, Images!PlacesOf
    <3>2. Images!Is(Images!Policy, "timeout0")
      BY <1>2, <3>1, WrittenIs
    <3>3. \A d \in ds : d # "loader.conf"
      BY <1>7 DEF FactorySetting
    <3>4. \A d \in ds : Images!Is(Images!Entry(d), Images!EntryText(d)) /\ Images!Entry(d) # Images!Policy
      BY <1>2, <3>1, <3>3, WrittenIs DEF Images!Entry, Images!Policy
    <3>5. Images!Kind("entry") \ {Images!Policy} = {Images!Entry(d) : d \in ds}
      BY <1>1, <1>8, <3>1, <3>4 DEF Images!Kind, Images!Entry
    <3> QED BY <2>1, <3>2, <3>4, <3>5 DEF Images!Selection
  <2>2. CASE ~Images!HasEsp
    <3>1. \A x \in {"a", "b"} : Images!Copy(x) \in places
      BY <2>2 DEF places, Images!PlacesOf
    <3>2. \A x \in {"a", "b"} : Images!Is(Images!Copy(x), Images!Records(ds))
      BY <1>2, <3>1, WrittenIs
    <3>3. Images!Kind("entry") = {}
      BY <1>1, <1>8, <2>2 DEF Images!Kind
    <3> QED BY <2>2, <3>2, <3>3 DEF Images!Selection
  <2> QED BY <2>1, <2>2
<1>13. Images!LoaderRight
  <2>1. CASE Images!OnFlash
    BY <1>4, <2>1 DEF Images!LoaderRight, Images!Unchecked
  <2>2. CASE ~Images!OnFlash
    <3>1. Images!ReceiptParses(input.firmware) /\ input.loader = Firmware[input.firmware].artifact
      BY DEF Images!InputsAgree
    <3>2. input.firmware \in Images!Held("receipt")
      BY <1>5, <2>2 DEF Images!Held, Images!Kind, Images!Is, Images!Receipt
    <3> QED BY <1>4, <2>2, <3>1, <3>2 DEF Images!LoaderRight
  <2> QED BY <2>1, <2>2
<1>14. Images!NothingElse(ds)
  <2> SUFFICES ASSUME NEW p \in Images!Kind("image"), p[2][1] = "root"
               PROVE  p[2] \in {Images!Root(d) : d \in ds}
    BY DEF Images!NothingElse
  <2>1. p[2] \in Images!ObjectsOf(ds, s)
    BY <1>1, <1>8 DEF Images!Kind
  <2> QED BY <2>1, ObjectForms
<1> QED
  BY <1>4, <1>5, <1>9, <1>10, <1>11, <1>12, <1>13, <1>14 DEF Images!Verified

LEMMA FactoryIsExact == FactorySetting /\ FactoryInv => Images!FactoryExact
<1>1. FactorySetting /\ FactoryInv /\ said = "fail" /\ harm = 0 => Images!Unchecked
  BY WrittenVerifies DEF FactoryInv
<1> QED
  BY <1>1, PassComesUp, SameCount DEF Images!FactoryExact

-----------------------------------------------------------------------------
(* The register of a packed root.                                           *)

\* A root as it is verified: every place has a kind, and the places that went
\* wrong are few of them.
ImageInv == TypeOK /\ IsFiniteSet(damaged) /\ Cardinality(damaged) \in Nat /\ DOMAIN root = Places

\* What a part of the register asks for is among what the product's root holds.
LEMMA PartsArePlaces ==
  ASSUME NEW p \in Products, NEW q \in CheckedParts
  PROVE  PlacesOf(PartContent(p, q)) \subseteq Places
<1>1. \A class \in DOMAIN Nothing : PartContent(p, q)[class] \subseteq ContentOf(p)[class]
  BY DEF ContentOf
<1>2. PlacesOf(PartContent(p, q)) \subseteq PlacesOf(Content[p])
  BY <1>1 DEF PlacesOf, Content
<1> QED
  BY <1>2 DEF Places

LEMMA ImageInitHolds == Init => ImageInv
<1> SUFFICES ASSUME Init PROVE ImageInv
  OBVIOUS
<1>1. \A c, p : Composed(c, p) \in Kinds
  BY DEF Composed, Kinds
<1>2. IsFiniteSet(damaged) /\ Cardinality(damaged) = 0
  BY FS_EmptySet DEF Init
<1>3. root = [p \in Places |-> Composed(Content[product], p)]
  BY DEF Init
<1>4. DOMAIN root = Places /\ \A p \in DOMAIN root : root[p] \in Kinds
  BY <1>1, <1>3
<1>5. damaged \subseteq DOMAIN root /\ Cardinality(damaged) <= MaxDamage /\ Cardinality(damaged) \in Nat
  <2>1. damaged = {}
    BY DEF Init
  <2> QED BY <1>2, <2>1, MaxDamageAssumption
<1> QED
  BY <1>2, <1>4, <1>5, Zenon DEF Init, ImageInv, TypeOK

LEMMA ImageStepHolds == ImageInv /\ [Next]_vars => ImageInv'
<1> SUFFICES ASSUME ImageInv, [Next]_vars PROVE ImageInv'
  OBVIOUS
<1>1. CASE Damage
  <2>1. PICK p \in PlacesOf(PartContent(product, part)) \ damaged : \E kind \in Faults(Content[product], p) :
               root' = [root EXCEPT ![p] = kind] /\ damaged' = damaged \cup {p}
    BY <1>1 DEF Damage
  <2>2. PICK kind \in Faults(Content[product], p) : root' = [root EXCEPT ![p] = kind] /\ damaged' = damaged \cup {p}
    BY <2>1
  <2>3. kind \in Kinds
    BY <2>2 DEF Faults, Kinds
  <2>4. product \in Products /\ part \in CheckedParts /\ product' = product /\ part' = part /\ result' = result
        /\ Cardinality(damaged) < MaxDamage
    BY <1>1 DEF Damage, ImageInv, TypeOK
  <2>5. p \in Places /\ DOMAIN root = Places
    BY <2>1, <2>4, PartsArePlaces DEF ImageInv
  <2>6. DOMAIN root' = DOMAIN root /\ \A q \in DOMAIN root' : root'[q] \in Kinds
    BY <2>2, <2>3, <2>5 DEF ImageInv, TypeOK
  <2>7. IsFiniteSet(damaged') /\ Cardinality(damaged') = Cardinality(damaged) + 1
    BY <2>1, <2>2, FS_AddElement DEF ImageInv
  <2>8. damaged' \subseteq DOMAIN root'
    BY <2>2, <2>5, <2>6 DEF ImageInv, TypeOK
  <2>9. Cardinality(damaged') \in Nat /\ Cardinality(damaged') <= MaxDamage
    BY <2>4, <2>7, MaxDamageAssumption DEF ImageInv
  <2> QED BY <2>4, <2>5, <2>6, <2>7, <2>8, <2>9 DEF ImageInv, TypeOK
<1>2. CASE Verify
  <2>1. result' \in {"PASS", "FAIL"} /\ UNCHANGED <<product, part, root, damaged>>
    BY <1>2 DEF Verify, runChecks
  <2> QED BY <2>1 DEF ImageInv, TypeOK
<1>3. CASE UNCHANGED vars
  BY <1>3 DEF vars, ImageInv, TypeOK
<1> QED
  BY <1>1, <1>2, <1>3 DEF Next

-----------------------------------------------------------------------------
(* The decisions together.                                                  *)

Topics == {"medium", "text", "image", "disk", "flash", "factory"}

\* The invariant of the topic; the phase and the stage of the layouts are
\* those of no layout in a behaviour about anything else.
TopicInv ==
  /\ topic \in Topics
  /\ topic = "medium" => MediumInv
  /\ topic = "text" => TextShape /\ TextFollows
  /\ topic = "image" => ImageInv
  /\ topic = "factory" => FactoryInv
  /\ IF topic = "disk" THEN DiskInv /\ phase \in Phases ELSE phase = ""
  /\ IF topic = "flash" THEN FlashInv ELSE stage = ""

LEMMA TopicInit == DecisionsInit => TopicInv
<1> SUFFICES ASSUME DecisionsInit PROVE TopicInv
  OBVIOUS
<1>1. topic \in Topics /\ (topic # "disk" => phase = "") /\ (topic # "flash" => stage = "")
  BY DEF DecisionsInit, Topics, NoDisk, NoFlash
<1>2. /\ topic = "medium" => Medium!Init
      /\ topic = "text" => TextInit
      /\ topic = "image" => Init
      /\ topic = "factory" => Images!FactoryInit
      /\ topic = "disk" => LayoutInit
      /\ topic = "flash" => FlashInit
  BY DEF DecisionsInit
<1>3. topic = "medium" => MediumInv
  BY <1>2, MediumInitHolds, DecisionsAssumption
<1>4. topic = "text" => TextShape /\ TextFollows
  BY <1>2, ShapeInit, FollowsInit
<1>5. topic = "image" => ImageInv
  BY <1>2, ImageInitHolds
<1>6. topic = "factory" => FactoryInv
  BY <1>2, FactoryInitHolds
<1>7. topic = "disk" => DiskInv /\ phase \in Phases
  <2>1. LayoutInit => phase \in Phases
    BY DEF LayoutInit, Phases
  <2> QED BY <1>2, <2>1, DiskInitHolds, DiskAssumption
<1>8. topic = "flash" => FlashInv
  BY <1>2, InitHolds
<1> QED
  BY <1>1, <1>3, <1>4, <1>5, <1>6, <1>7, <1>8 DEF TopicInv

LEMMA PhaseStep ==
  ASSUME phase \in Phases, [LayoutNext]_layoutVars
  PROVE  phase' \in Phases
<1>1. CASE ReadPartition \/ ReadPartitions \/ CheckWhole
  BY <1>1 DEF ReadPartition, ReadPartitions, CheckWhole, RefuseLayout, Phases
<1>2. CASE ReadRegion \/ ReadRegions \/ CheckRecords
  BY <1>2 DEF ReadRegion, ReadRegions, CheckRecords, RefuseLayout, Phases
<1>3. CASE StartAssembly \/ WritePartition \/ Finish
  BY <1>3 DEF StartAssembly, WritePartition, Finish, RefuseLayout, Phases
<1>4. CASE UNCHANGED layoutVars
  BY <1>4 DEF layoutVars
<1> QED
  BY <1>1, <1>2, <1>3, <1>4 DEF LayoutNext

allVars == <<topic, vars, mediumVars, textVars, layoutVars, flashVars, factoryVars>>

\* A step is one of its topic, or changes nothing of it; the layouts stand
\* still in a behaviour about anything else.
LEMMA StepOfTopic ==
  ASSUME [DecisionsNext]_allVars
  PROVE  /\ topic' = topic
         /\ topic = "medium" => [Medium!Next]_mediumVars
         /\ topic = "text" => [TextNext]_textVars
         /\ topic = "image" => [Next]_vars
         /\ topic = "factory" => [Images!FactoryNext]_factoryVars
         /\ topic = "disk" => [LayoutNext]_layoutVars
         /\ topic = "flash" => [FlashNext]_flashVars
         /\ topic # "disk" => layoutVars' = layoutVars
         /\ topic # "flash" => flashVars' = flashVars
<1>1. CASE MediumStep
  BY <1>1 DEF MediumStep, About
<1>2. CASE TextStep
  BY <1>2 DEF TextStep, About
<1>3. CASE ImageStep
  BY <1>3 DEF ImageStep, About
<1>4. CASE DiskStep
  BY <1>4 DEF DiskStep, About
<1>5. CASE FlashStep
  BY <1>5 DEF FlashStep, About
<1>6. CASE FactoryStep
  BY <1>6 DEF FactoryStep, About
<1>7. CASE UNCHANGED allVars
  BY <1>7 DEF allVars
<1> QED
  BY <1>1, <1>2, <1>3, <1>4, <1>5, <1>6, <1>7 DEF DecisionsNext

LEMMA TopicStep == TopicInv /\ [DecisionsNext]_allVars => TopicInv'
<1> SUFFICES ASSUME TopicInv, [DecisionsNext]_allVars PROVE TopicInv'
  OBVIOUS
<1>1. /\ topic' = topic
      /\ topic = "medium" => [Medium!Next]_mediumVars
      /\ topic = "text" => [TextNext]_textVars
      /\ topic = "image" => [Next]_vars
      /\ topic = "factory" => [Images!FactoryNext]_factoryVars
      /\ topic = "disk" => [LayoutNext]_layoutVars
      /\ topic = "flash" => [FlashNext]_flashVars
      /\ topic # "disk" => layoutVars' = layoutVars
      /\ topic # "flash" => flashVars' = flashVars
  BY StepOfTopic
<1>2. topic = "medium" => MediumInv'
  BY <1>1, MediumStepHolds, DecisionsAssumption DEF TopicInv
<1>3. topic = "text" => (TextShape /\ TextFollows)'
  BY <1>1, ShapeStep, FollowsStep DEF TopicInv
<1>4. topic = "image" => ImageInv'
  BY <1>1, ImageStepHolds DEF TopicInv
<1>5. topic = "factory" => FactoryInv'
  BY <1>1, FactoryStepHolds DEF TopicInv
<1>6. IF topic = "disk" THEN DiskInv' /\ phase' \in Phases ELSE phase' = ""
  <2>1. topic = "disk" => phase' \in Phases
    BY <1>1, PhaseStep DEF TopicInv
  <2> QED BY <1>1, <2>1, DiskStepHolds, DiskAssumption DEF TopicInv, layoutVars
<1>7. IF topic = "flash" THEN FlashInv' ELSE stage' = ""
  BY <1>1, StepHolds DEF TopicInv, flashVars
<1> QED
  BY <1>1, <1>2, <1>3, <1>4, <1>5, <1>6, <1>7 DEF TopicInv

LEMMA TopicInvariance == DecisionsSpec => []TopicInv
<1>1. DecisionsInit => TopicInv
  BY TopicInit
<1>2. TopicInv /\ [DecisionsNext]_allVars => TopicInv'
  BY TopicStep
<1> QED
  BY <1>1, <1>2, PTL DEF DecisionsSpec, allVars

-----------------------------------------------------------------------------

\* Whatever of the six a behaviour is about, its state keeps its types: the
\* scanner of mica-records.h, the medium of mica-file-boot.c, the readers and
\* assemblers of the layouts, the factory image and the register of a root.
THEOREM AllTypeCorrect == DecisionsSpec => []AllTypeOK
<1>1. ASSUME TopicInv PROVE AllTypeOK
  <2>1. topic = "image" => TypeOK
    BY <1>1 DEF TopicInv, ImageInv
  <2>2. topic = "medium" => Medium!TypeOK
    BY <1>1 DEF TopicInv, MediumInv
  <2>3. topic = "text" => TextTypeOK
    BY <1>1, ShapeIsTyped DEF TopicInv
  <2>4. topic = "disk" => phase \in Phases
    BY <1>1 DEF TopicInv
  <2>5. topic = "flash" => stage \in Stages
    BY <1>1 DEF TopicInv, FlashInv, FlashTypeOK
  <2>6. topic = "factory" => said \in Images!Answers
    BY <1>1 DEF TopicInv, FactoryInv
  <2> QED BY <2>1, <2>2, <2>3, <2>4, <2>5, <2>6 DEF AllTypeOK
<1> QED
  BY <1>1, TopicInvariance, PTL

\* With up to three damages, wherever they fall, a card that was written with an
\* image of the project is never passed over for the eMMC as long as one of its
\* first two sectors is left; a card of somebody else's never keeps a sound eMMC
\* from booting; and what is booted has the layout of its profile to the letter
\* (mica-file-boot.c select_medium, valid_layout).
THEOREM CardDecidesCorrect == DecisionsSpec => []CardDecides
<1>1. TopicInv => CardDecides
  BY MediumDecides, DecisionsAssumption DEF TopicInv, CardDecides
<1> QED
  BY <1>1, TopicInvariance, PTL

\* Whatever tokens the scanner is given, over whatever numerals and up to whatever
\* limit: what it accepts is the text that is rendered of what it decoded, and it
\* refuses no text that is rendered (mica-records.h mica_boot_parse, mica_boot_render).
THEOREM TextExactCorrect == DecisionsSpec => []TextExact
<1>1. TopicInv => TextExact
  BY ShapeIsExact DEF TopicInv, TextExact
<1> QED
  BY <1>1, TopicInvariance, PTL

\* LayoutCorrect of LayoutProofs, of the decisions together: the parts of an accepted
\* layout are written where the board policy, the receipt and the verifier look.
THEOREM WrittenWhereReadCorrect == DecisionsSpec => []WrittenWhereRead
<1>1. TopicInv => WrittenWhereRead
  <2>1. phase = "" => WrittenWhereRead
    BY DEF WrittenWhereRead
  <2>2. DiskInv => WrittenWhereRead
    BY ReadsBack, DiskAssumption
  <2> QED BY <2>1, <2>2 DEF TopicInv
<1> QED
  BY <1>1, TopicInvariance, PTL

\* UpdateFitsStoreCorrect of LayoutProofs, of the decisions together: the flash is
\* covered region by region, and an update leaves the system its reserve.
THEOREM UpdateFitsCorrect == DecisionsSpec => []UpdateFitsStore
<1>1. TopicInv => UpdateFitsStore
  <2>1. stage = "" => UpdateFitsStore
    BY DEF UpdateFitsStore
  <2>2. FlashInv => UpdateFitsStore
    BY BlocksHold, FreeHolds DEF UpdateFitsStore
  <2> QED BY <2>1, <2>2 DEF TopicInv
<1> QED
  BY <1>1, TopicInvariance, PTL

\* Whatever was lost, spoilt or misplaced in a factory image, one that passes comes up
\* whichever of its two deployments is tried; and an image as it was assembled of inputs
\* that agree passes, but for what the assembly does not look at (file-image.ts
\* verifyFactoryImage, flash-image.ts verifyFlashImage, stages.ts assembleFileImage).
THEOREM FactoryExactCorrect == DecisionsSpec => []FactoryExact
<1>1. TopicInv => FactoryExact
  BY FactoryIsExact, DecisionsAssumption DEF TopicInv, FactoryExact
<1> QED
  BY <1>1, TopicInvariance, PTL

=============================================================================
