------------------------ MODULE ProductBuildProofs ------------------------
(***************************************************************************)
(* Theorems about ProductBuild, for any products of a board, any commits   *)
(* and any sequence of commands, each of which may fail or be killed at    *)
(* every step, and between and during which the tree changes.              *)
(***************************************************************************)
EXTENDS ProductBuild, TLAPS

\* No product has the name of another command, and no file is the absent one.
Setting ==
  /\ None \notin Products /\ None \notin {"kernel", "board-pool"}
  /\ "kernel" \notin Products /\ "board-pool" \notin Products
  /\ None \notin Roots /\ None \notin Receipts

-----------------------------------------------------------------------------
(* The type of every variable.                                              *)

LEMMA TypeInit == Setting /\ Init => TypeOK
<1> SUFFICES ASSUME Setting, Init PROVE TypeOK
  OBVIOUS
<1>1. FilesOK /\ OutputsOK /\ CommandOK
  BY DEF Setting, Init, FilesOK, OutputsOK, CommandOK, Nothing, Steps, Trees
<1>2. HistoryOK
  <2>1. moved = FALSE /\ cut = {} /\ disturbed = 0
    BY DEF Init
  <2>2. disturbed \in 0 .. MaxDisturbed
    <3> HIDE DEF Init
    <3> QED
      BY <2>1, MaxDisturbedAssumption
  <2> QED
    BY <2>1, <2>2 DEF HistoryOK
<1> QED
  BY <1>1, <1>2 DEF TypeOK

LEMMA FilesStep == ASSUME Setting, TypeOK, [Next]_vars PROVE FilesOK'
<1> USE DEF Setting, TypeOK, FilesOK, board, pool
<1>1. CASE ExportKernel
  BY <1>1 DEF ExportKernel, CommandOK
<1>2. CASE RecordKernel
  BY <1>2 DEF RecordKernel, AllInputs, CommandOK
<1>3. CASE RemoveOwn
  BY <1>3 DEF RemoveOwn
<1>4. CASE ExportOwn
  BY <1>4 DEF ExportOwn, CommandOK
<1>5. CASE BoardFetch
  BY <1>5 DEF BoardFetch, Assemble, Reused, AllInputs, CommandOK
<1>6. ASSUME NEW p \in Products, FirstFetch(p) PROVE FilesOK'
  BY <1>6 DEF FirstFetch, Assemble, Reused, AllInputs, CommandOK
<1>7. ASSUME NEW p \in Products, FetchPool(p) PROVE FilesOK'
  BY <1>7 DEF FetchPool, At, Locked, Trees, CommandOK
<1>8. ASSUME NEW p \in Products, IndexPool(p) PROVE FilesOK'
  BY <1>8 DEF IndexPool, At, Archives
<1>9. ASSUME NEW p \in Products, FetchBoard(p) PROVE FilesOK'
  BY <1>9 DEF FetchBoard, At, Assemble, Reused, AllInputs, CommandOK
<1>10. ASSUME NEW p \in Products, ComposeRoot(p) PROVE FilesOK'
  BY <1>10 DEF ComposeRoot, At, Archives
<1>11. CASE Edit \/ Stop \/ StartKernel \/ StartPack
  BY <1>11 DEF Edit, Stop, StartKernel, StartPack
<1>12. ASSUME NEW p \in Products, StartBuild(p) \/ Reuse(p) \/ CheckPool(p) \/ ListPackages(p) \/
            SmokeRoot(p) \/ ClearParts(p) \/ ClearImage(p) \/ ClearReceipt(p) \/ MakeParts(p) \/
            MakeImage(p) \/ WriteReceipt(p)
      PROVE  FilesOK'
  BY <1>12 DEF StartBuild, Reuse, CheckPool, ListPackages, SmokeRoot, ClearParts, ClearImage,
     ClearReceipt, MakeParts, MakeImage, WriteReceipt
<1>13. CASE UNCHANGED vars
  BY <1>13 DEF vars
<1> QED
  BY <1>1, <1>2, <1>3, <1>4, <1>5, <1>6, <1>7, <1>8, <1>9, <1>10, <1>11, <1>12, <1>13 DEF Next, Product

LEMMA OutputsStep == ASSUME Setting, TypeOK, [Next]_vars PROVE OutputsOK'
<1> USE DEF Setting, TypeOK, OutputsOK, outputs
<1>1. ASSUME NEW p \in Products, CheckPool(p) PROVE OutputsOK'
  BY <1>1 DEF CheckPool, At
<1>2. ASSUME NEW p \in Products, ComposeRoot(p) PROVE OutputsOK'
  BY <1>2 DEF ComposeRoot, At, Roots, Archives, FilesOK, CommandOK, Trees
<1>3. ASSUME NEW p \in Products, ListPackages(p) PROVE OutputsOK'
  BY <1>3 DEF ListPackages, At, CommandOK
<1>4. ASSUME NEW p \in Products, ClearParts(p) PROVE OutputsOK'
  BY <1>4 DEF ClearParts, At
<1>5. ASSUME NEW p \in Products, ClearImage(p) PROVE OutputsOK'
  BY <1>5 DEF ClearImage, At
<1>6. ASSUME NEW p \in Products, ClearReceipt(p) PROVE OutputsOK'
  BY <1>6 DEF ClearReceipt, At
<1>7. ASSUME NEW p \in Products, MakeParts(p) PROVE OutputsOK'
  BY <1>7 DEF MakeParts, At, Images, FilesOK
<1>8. ASSUME NEW p \in Products, MakeImage(p) PROVE OutputsOK'
  BY <1>8 DEF MakeImage, At
<1>9. ASSUME NEW p \in Products, WriteReceipt(p) PROVE OutputsOK'
  BY <1>9 DEF WriteReceipt, At, CommandOK
<1>10. CASE Edit \/ StartKernel \/ ExportKernel \/ RecordKernel \/ StartPack \/ RemoveOwn \/
            ExportOwn \/ BoardFetch
  BY <1>10 DEF Edit, StartKernel, ExportKernel, RecordKernel, StartPack, RemoveOwn, ExportOwn,
     BoardFetch
<1>13. CASE Stop
  <2>1. NamedOnly \in Images
    BY DEF NamedOnly, Images
  <2>2. image' = image \/ image' = [image EXCEPT ![command] = NamedOnly]
    BY <1>13 DEF Stop
  <2>3. UNCHANGED <<build, packages, parts, receipt>>
    BY <1>13 DEF Stop
  <2> HIDE DEF NamedOnly
  <2> QED
    BY <2>1, <2>2, <2>3
<1>11. ASSUME NEW p \in Products, FirstFetch(p) \/ StartBuild(p) \/ Reuse(p) \/ FetchPool(p) \/
            IndexPool(p) \/ FetchBoard(p) \/ SmokeRoot(p)
      PROVE  OutputsOK'
  BY <1>11 DEF FirstFetch, StartBuild, Reuse, FetchPool, IndexPool, FetchBoard, SmokeRoot
<1>12. CASE UNCHANGED vars
  BY <1>12 DEF vars
<1> QED
  BY <1>1, <1>2, <1>3, <1>4, <1>5, <1>6, <1>7, <1>8, <1>9, <1>10, <1>11, <1>12, <1>13 DEF Next, Product

LEMMA CommandStep == ASSUME Setting, TypeOK, [Next]_vars PROVE CommandOK'
<1> USE DEF Setting, TypeOK, CommandOK, Steps, Begin, Finish, At
<1>1. CASE Edit
  BY <1>1, ZenonT(60) DEF Edit
<1>2. CASE Stop
  BY <1>2, ZenonT(60) DEF Stop, HalfDone
<1>3. CASE StartKernel
  BY <1>3 DEF StartKernel, AllInputs
<1>4. CASE ExportKernel
  BY <1>4 DEF ExportKernel
<1>5. CASE RecordKernel
  BY <1>5 DEF RecordKernel
<1>6. CASE StartPack
  BY <1>6 DEF StartPack, Versions, Trees
<1>7. CASE RemoveOwn
  BY <1>7 DEF RemoveOwn
<1>8. CASE ExportOwn
  BY <1>8 DEF ExportOwn
<1>9. CASE BoardFetch
  BY <1>9 DEF BoardFetch
<1>10. ASSUME NEW p \in Products, FirstFetch(p) PROVE CommandOK'
  BY <1>10 DEF FirstFetch
<1>11. ASSUME NEW p \in Products, StartBuild(p) PROVE CommandOK'
  BY <1>11 DEF StartBuild, Receipt, Receipts, FilesOK
<1>12. ASSUME NEW p \in Products, Reuse(p) PROVE CommandOK'
  BY <1>12 DEF Reuse
<1>13. ASSUME NEW p \in Products, FetchPool(p) PROVE CommandOK'
  BY <1>13 DEF FetchPool
<1>14. ASSUME NEW p \in Products, IndexPool(p) PROVE CommandOK'
  BY <1>14 DEF IndexPool
<1>15. ASSUME NEW p \in Products, FetchBoard(p) PROVE CommandOK'
  BY <1>15 DEF FetchBoard
<1>16. ASSUME NEW p \in Products, CheckPool(p) PROVE CommandOK'
  BY <1>16 DEF CheckPool, FilesOK, Archives
<1>17. ASSUME NEW p \in Products, ComposeRoot(p) PROVE CommandOK'
  BY <1>17 DEF ComposeRoot
<1>18. ASSUME NEW p \in Products, ListPackages(p) PROVE CommandOK'
  BY <1>18 DEF ListPackages
<1>19. ASSUME NEW p \in Products, SmokeRoot(p) PROVE CommandOK'
  BY <1>19 DEF SmokeRoot
<1>20. ASSUME NEW p \in Products, ClearParts(p) PROVE CommandOK'
  BY <1>20 DEF ClearParts
<1>21. ASSUME NEW p \in Products, ClearImage(p) PROVE CommandOK'
  BY <1>21 DEF ClearImage
<1>22. ASSUME NEW p \in Products, ClearReceipt(p) PROVE CommandOK'
  BY <1>22 DEF ClearReceipt
<1>23. ASSUME NEW p \in Products, MakeParts(p) PROVE CommandOK'
  BY <1>23 DEF MakeParts
<1>24. ASSUME NEW p \in Products, MakeImage(p) PROVE CommandOK'
  BY <1>24 DEF MakeImage
<1>25. ASSUME NEW p \in Products, WriteReceipt(p) PROVE CommandOK'
  BY <1>25 DEF WriteReceipt
<1>26. CASE UNCHANGED vars
  <2> HIDE DEF Steps, Setting, TypeOK
  <2>1. UNCHANGED <<tree, command, step, want, reading, ended>>
    BY <1>26 DEF vars
  <2>2. CommandOK
    BY DEF TypeOK
  <2> QED
    BY <2>1, <2>2
<1> QED
  BY <1>1, <1>2, <1>3, <1>4, <1>5, <1>6, <1>7, <1>8, <1>9, <1>10, <1>11, <1>12, <1>13, <1>14, <1>15,
     <1>16, <1>17, <1>18, <1>19, <1>20, <1>21, <1>22, <1>23, <1>24, <1>25, <1>26 DEF Next, Product

LEMMA HistoryStep == ASSUME Setting, TypeOK, [Next]_vars PROVE HistoryOK'
<1> USE DEF TypeOK, HistoryOK, history, Begin, Finish, At
<1>1. CASE Edit
  <2>1. disturbed' \in 0 .. MaxDisturbed
    BY <1>1, MaxDisturbedAssumption DEF Edit
  <2> QED
    BY <1>1, <2>1 DEF Edit
<1>2. CASE Stop
  <2>1. disturbed' \in 0 .. MaxDisturbed
    <3>1. disturbed \in 0 .. MaxDisturbed /\ disturbed' \in {disturbed + 0, disturbed + 1} /\ disturbed' <= MaxDisturbed
      BY <1>2 DEF Stop
    <3> QED
      BY <3>1, MaxDisturbedAssumption
  <2>2. HalfDone \subseteq {"kernel"} \cup Products
    BY <1>2 DEF Stop, HalfDone, CommandOK, Setting
  <2> QED
    BY <1>2, <2>1, <2>2 DEF Stop
<1>3. CASE RecordKernel
  BY <1>3 DEF RecordKernel
<1>4. CASE StartKernel \/ ExportKernel \/ StartPack \/ RemoveOwn \/ ExportOwn \/ BoardFetch
  BY <1>4 DEF StartKernel, ExportKernel, StartPack, RemoveOwn, ExportOwn, BoardFetch
<1>5. ASSUME NEW p \in Products, ClearReceipt(p) \/ WriteReceipt(p) PROVE HistoryOK'
  BY <1>5 DEF ClearReceipt, WriteReceipt
<1>6. ASSUME NEW p \in Products, FirstFetch(p) \/ StartBuild(p) \/ Reuse(p) \/ FetchPool(p) \/
            IndexPool(p) \/ FetchBoard(p) \/ CheckPool(p) \/ ComposeRoot(p) \/ ListPackages(p) \/
            SmokeRoot(p) \/ ClearParts(p) \/ ClearImage(p) \/ MakeParts(p) \/ MakeImage(p)
      PROVE  HistoryOK'
  BY <1>6 DEF FirstFetch, StartBuild, Reuse, FetchPool, IndexPool, FetchBoard, CheckPool,
     ComposeRoot, ListPackages, SmokeRoot, ClearParts, ClearImage, MakeParts, MakeImage
<1>7. CASE UNCHANGED vars
  BY <1>7 DEF vars
<1> QED
  BY <1>1, <1>2, <1>3, <1>4, <1>5, <1>6, <1>7 DEF Next, Product

LEMMA TypeStep == Setting /\ TypeOK /\ [Next]_vars => TypeOK'
BY FilesStep, OutputsStep, CommandStep, HistoryStep DEF TypeOK

-----------------------------------------------------------------------------
(* The record of what a root was composed of.                               *)

\* No record is beside a root it does not describe, and none at all while a
\* root is composed, out of the archives that were read and are still there.
RecordInv ==
  \A q \in Products :
    /\ packages[q] # None => build[q] # None /\ packages[q] = build[q].archives
    /\ command = q /\ step = "compose" =>
         packages[q] = None /\ reading = [imported |-> imported, own |-> own]
    /\ command = q /\ step = "list" => build[q] # None /\ build[q].archives = reading

LEMMA RecordStep == ASSUME Setting, TypeOK, RecordInv, [Next]_vars PROVE RecordInv'
<1> USE DEF Setting, TypeOK, RecordInv, OutputsOK, board, pool, outputs, Begin, Finish, At
<1>1. ASSUME NEW p \in Products, CheckPool(p) PROVE RecordInv'
  BY <1>1 DEF CheckPool
<1>2. ASSUME NEW p \in Products, ComposeRoot(p) PROVE RecordInv'
  <2>1. build'[p] = [commit |-> tree.commit, archives |-> reading]
    BY <1>2 DEF ComposeRoot
  <2>2. build'[p] \in Roots
    <3>1. reading \in Archives
      BY <1>2 DEF ComposeRoot, FilesOK, Archives
    <3>2. tree.commit \in Commits
      BY DEF CommandOK, Trees
    <3> QED
      BY <2>1, <3>1, <3>2 DEF Roots
  <2>3. \A q \in Products \ {p} : build'[q] = build[q]
    BY <1>2 DEF ComposeRoot
  <2> QED
    BY <1>2, <2>1, <2>2, <2>3 DEF ComposeRoot
<1>3. ASSUME NEW p \in Products, ListPackages(p) PROVE RecordInv'
  BY <1>3 DEF ListPackages
<1>4. CASE Edit \/ Stop \/ StartKernel \/ ExportKernel \/ RecordKernel \/ StartPack \/ RemoveOwn \/
            ExportOwn \/ BoardFetch
  BY <1>4 DEF Edit, Stop, StartKernel, ExportKernel, RecordKernel, StartPack, RemoveOwn, ExportOwn,
     BoardFetch
<1>5. ASSUME NEW p \in Products, FirstFetch(p) \/ StartBuild(p) \/ Reuse(p) \/ FetchPool(p) \/
            IndexPool(p) \/ FetchBoard(p) \/ SmokeRoot(p) \/ ClearParts(p) \/ ClearImage(p) \/
            ClearReceipt(p) \/ MakeParts(p) \/ MakeImage(p) \/ WriteReceipt(p)
      PROVE  RecordInv'
  BY <1>5 DEF FirstFetch, StartBuild, Reuse, FetchPool, IndexPool, FetchBoard, SmokeRoot,
     ClearParts, ClearImage, ClearReceipt, MakeParts, MakeImage, WriteReceipt
<1>6. CASE UNCHANGED vars
  BY <1>6 DEF vars
<1> QED
  BY <1>1, <1>2, <1>3, <1>4, <1>5, <1>6 DEF Next, Product

-----------------------------------------------------------------------------
(* What is left between two commands, and what a build works on.            *)

\* The image of a checkout: the root of its commit, and the kernel of its inputs.
Made(t) ==
  [root |-> [commit |-> t.commit,
             archives |-> [imported |-> Lock[t.commit], own |-> OwnVersion[t.commit]]],
   kernel |-> Inputs(t)]

\* The local kernel has the record of its inputs, but while it is recorded and
\* where a command left it without its own.
KernelInv ==
  /\ command = "kernel" /\ ~moved => reading = Inputs(tree)
  /\ command = "kernel" /\ step = "record" => kernel = reading
  /\ ~(command = "kernel" /\ step = "record") /\ kernel # None /\ "kernel" \notin cut => kernel = record

Signing == {"parts", "image", "receipt"}
Clearing == {"list", "smoke", "clear", "clear image", "clear receipt"} \cup Signing
Composing == {"compose"} \cup Clearing
Checked == {"check"} \cup Composing

\* A build has no receipt while it signs, and makes its parts of what is there; and
\* while the tree does not move it works on the one it computed its key of, and has
\* what it came by, the kernel where its record is its own.
BuildInv ==
  \A q \in Products : command = q =>
    /\ step # "start" => want \in Receipts
    /\ step \in Signing => receipt[q] = None
    /\ step \in {"image", "receipt"} => parts[q] = [root |-> build[q], kernel |-> bundle]
    /\ step = "receipt" => image[q] = parts[q]
    /\ ~moved =>
         /\ step # "start" => want.tree = tree
         /\ step \in Checked /\ "kernel" \notin cut => bundle = Inputs(tree)
         /\ step \in Composing =>
              ~tree.dirty /\ imported = Lock[tree.commit] /\ own = OwnVersion[tree.commit]
         /\ step \in Clearing => build[q] = Made(tree).root

\* A receipt beside an image is the receipt of that image, but for a product that
\* was left half cleared, or built of what is not the tree's.
ReceiptInv ==
  \A q \in Products : receipt[q] # None /\ image[q] # None /\ q \notin cut =>
    /\ ~receipt[q].tree.dirty /\ image[q] = Made(receipt[q].tree)
    /\ parts[q] = image[q] \/ (command = q /\ step = "clear image")

EndInv ==
  ended # None =>
    /\ command = None
    /\ ended.product \notin cut => ~tree.dirty /\ image[ended.product] = Made(tree)
    /\ \/ parts[ended.product] = image[ended.product]
       \/ ended.how = "up to date" /\ ended.product \in cut
    /\ ended.how = "built" => build[ended.product] = image[ended.product].root

LEMMA KernelStep == ASSUME Setting, TypeOK, KernelInv, [Next]_vars PROVE KernelInv'
<1> USE DEF Setting, KernelInv, board, pool, outputs, history, Begin, Finish, At
<1>1. CASE Edit
  BY <1>1 DEF Edit, Inputs
<1>2. CASE Stop
  BY <1>2 DEF Stop, HalfDone
<1>3. CASE StartKernel
  BY <1>3 DEF StartKernel
<1>4. CASE ExportKernel
  BY <1>4 DEF ExportKernel
<1>5. CASE RecordKernel
  BY <1>5 DEF RecordKernel
<1>6. CASE StartPack \/ RemoveOwn \/ ExportOwn \/ BoardFetch
  BY <1>6 DEF StartPack, RemoveOwn, ExportOwn, BoardFetch, Inputs
<1>7. ASSUME NEW p \in Products, FirstFetch(p) \/ StartBuild(p) \/ Reuse(p) \/ FetchPool(p) \/
            IndexPool(p) \/ FetchBoard(p) \/ CheckPool(p) \/ ComposeRoot(p) \/ ListPackages(p) \/
            SmokeRoot(p) \/ ClearParts(p) \/ ClearImage(p) \/ ClearReceipt(p) \/ MakeParts(p) \/
            MakeImage(p) \/ WriteReceipt(p)
      PROVE  KernelInv'
  BY <1>7 DEF FirstFetch, StartBuild, Reuse, FetchPool, IndexPool, FetchBoard, CheckPool,
     ComposeRoot, ListPackages, SmokeRoot, ClearParts, ClearImage, ClearReceipt, MakeParts,
     MakeImage, WriteReceipt, Inputs
<1>8. CASE UNCHANGED vars
  BY <1>8 DEF vars, Inputs
<1> QED
  BY <1>1, <1>2, <1>3, <1>4, <1>5, <1>6, <1>7, <1>8 DEF Next, Product

LEMMA BuildStep ==
  ASSUME Setting, TypeOK, KernelInv, BuildInv, [Next]_vars
  PROVE  BuildInv'
<1> USE DEF Setting, BuildInv, Checked, Composing, Clearing, Signing,
            TypeOK, OutputsOK, board, pool, outputs, history, Begin, Finish, At
<1>1. CASE Edit
  <2>1. command # None => moved'
    BY <1>1 DEF Edit
  <2>2. UNCHANGED <<command, step, want, receipt, parts, image, build, bundle>>
    BY <1>1 DEF Edit
  <2> HIDE DEF TypeOK, OutputsOK, BuildInv, Signing
  <2>3. ASSUME NEW q \in Products, command' = q
        PROVE  /\ step' # "start" => want' \in Receipts
               /\ step' \in Signing => receipt'[q] = None
               /\ step' \in {"image", "receipt"} => parts'[q] = [root |-> build'[q], kernel |-> bundle']
               /\ step' = "receipt" => image'[q] = parts'[q]
               /\ moved'
    <3>0. command = q /\ q # None
      BY <2>2, <2>3 DEF Setting
    <3>1. command = q /\ moved'
      BY <2>1, <3>0
    <3>2. /\ step # "start" => want \in Receipts
          /\ step \in Signing => receipt[q] = None
          /\ step \in {"image", "receipt"} => parts[q] = [root |-> build[q], kernel |-> bundle]
          /\ step = "receipt" => image[q] = parts[q]
      BY <3>1 DEF BuildInv
    <3>3. step' = step /\ want' = want /\ receipt' = receipt
      BY <2>2
    <3>4. parts' = parts /\ image' = image /\ build' = build /\ bundle' = bundle
      BY <2>2
    <3>5. step' \in Signing => receipt'[q] = None
      BY <3>2, <3>3
    <3>6. step' \in {"image", "receipt"} => parts'[q] = [root |-> build'[q], kernel |-> bundle']
      BY <3>2, <3>3, <3>4
    <3>7. step' = "receipt" => image'[q] = parts'[q]
      BY <3>2, <3>3, <3>4
    <3> QED
      BY <3>1, <3>2, <3>3, <3>5, <3>6, <3>7
  <2> HIDE DEF Clearing, Composing, Checked
  <2> QED
    BY <2>3 DEF BuildInv
<1>2. CASE Stop
  BY <1>2 DEF Stop, HalfDone
<1>3. CASE StartKernel
  BY <1>3 DEF StartKernel
<1>4. CASE ExportKernel
  BY <1>4 DEF ExportKernel
<1>5. CASE RecordKernel
  BY <1>5 DEF RecordKernel
<1>6. CASE StartPack
  BY <1>6 DEF StartPack
<1>7. CASE RemoveOwn
  BY <1>7 DEF RemoveOwn
<1>8. CASE ExportOwn
  BY <1>8 DEF ExportOwn
<1>9. CASE BoardFetch
  BY <1>9 DEF BoardFetch
<1>10. ASSUME NEW p \in Products, FirstFetch(p) PROVE BuildInv'
  BY <1>10 DEF FirstFetch
<1>11. ASSUME NEW p \in Products, StartBuild(p) PROVE BuildInv'
  BY <1>11 DEF StartBuild, Receipt, CommandOK, FilesOK, Receipts
<1>12. ASSUME NEW p \in Products, Reuse(p) PROVE BuildInv'
  BY <1>12 DEF Reuse
<1>13. ASSUME NEW p \in Products, FetchPool(p) PROVE BuildInv'
  BY <1>13 DEF FetchPool
<1>14. ASSUME NEW p \in Products, IndexPool(p) PROVE BuildInv'
  BY <1>14 DEF IndexPool
<1>15. ASSUME NEW p \in Products, FetchBoard(p) PROVE BuildInv'
  BY <1>15 DEF FetchBoard, Assemble, StaleLocalBuild, Reused, KernelInv
<1>16. ASSUME NEW p \in Products, CheckPool(p) PROVE BuildInv'
  BY <1>16 DEF CheckPool, PoolIsRows, LockedRow, OwnRow
<1>17. ASSUME NEW p \in Products, ComposeRoot(p) PROVE BuildInv'
  BY <1>17 DEF ComposeRoot, Made
<1>18. ASSUME NEW p \in Products, ListPackages(p) PROVE BuildInv'
  BY <1>18 DEF ListPackages
<1>19. ASSUME NEW p \in Products, SmokeRoot(p) PROVE BuildInv'
  BY <1>19 DEF SmokeRoot
<1>20. ASSUME NEW p \in Products, ClearParts(p) PROVE BuildInv'
  BY <1>20 DEF ClearParts
<1>21. ASSUME NEW p \in Products, ClearImage(p) PROVE BuildInv'
  BY <1>21 DEF ClearImage
<1>22. ASSUME NEW p \in Products, ClearReceipt(p) PROVE BuildInv'
  BY <1>22 DEF ClearReceipt
<1>23. ASSUME NEW p \in Products, MakeParts(p) PROVE BuildInv'
  BY <1>23 DEF MakeParts, Made
<1>24. ASSUME NEW p \in Products, MakeImage(p) PROVE BuildInv'
  BY <1>24 DEF MakeImage
<1>25. ASSUME NEW p \in Products, WriteReceipt(p) PROVE BuildInv'
  BY <1>25 DEF WriteReceipt
<1>26. CASE UNCHANGED vars
  BY <1>26 DEF vars
<1> QED
  BY <1>1, <1>2, <1>3, <1>4, <1>5, <1>6, <1>7, <1>8, <1>9, <1>10, <1>11, <1>12, <1>13, <1>14, <1>15,
     <1>16, <1>17, <1>18, <1>19, <1>20, <1>21, <1>22, <1>23, <1>24, <1>25, <1>26 DEF Next, Product

\* What is finished without a doubt left is of the tree as it is.
LEMMA BuiltOfTheTree ==
  ASSUME Setting, BuildInv, NEW p \in Products, command = p, step = "receipt"
  PROVE  /\ want \in Receipts /\ image[p] = parts[p] /\ image[p].root = build[p]
         /\ ~moved /\ "kernel" \notin cut => want.tree = tree /\ ~tree.dirty /\ image[p] = Made(tree)
<1>1. image[p] = parts[p] /\ parts[p] = [root |-> build[p], kernel |-> bundle] /\ want \in Receipts
  BY DEF BuildInv, Signing
<1>2. ~moved /\ "kernel" \notin cut =>
        want.tree = tree /\ ~tree.dirty /\ build[p] = Made(tree).root /\ bundle = Inputs(tree)
  BY DEF BuildInv, Checked, Composing, Clearing, Signing
<1>3. Made(tree) = [root |-> Made(tree).root, kernel |-> Inputs(tree)]
  BY DEF Made
<1> QED
  BY <1>1, <1>2, <1>3

LEMMA ReceiptStep ==
  ASSUME Setting, TypeOK, BuildInv, ReceiptInv, [Next]_vars
  PROVE  ReceiptInv'
<1> USE DEF Setting, ReceiptInv, BuildInv, Checked, Composing, Clearing, Signing,
            TypeOK, OutputsOK, board, pool, outputs, history, Begin, Finish, At
<1>1. CASE Stop
  <2>1. UNCHANGED <<parts, receipt>> /\ cut' = cut \cup HalfDone /\ command # None
    BY <1>1 DEF Stop
  <2>2. image' = image \/ (step = "clear image" /\ image' = [image EXCEPT ![command] = NamedOnly])
    BY <1>1 DEF Stop
  <2>3. \A q \in Products : command = q /\ step = "clear image" => q \in cut'
    BY <2>1 DEF HalfDone
  <2>4. \A q \in Products : q \notin cut' => q \notin cut /\ image'[q] = image[q]
    BY <2>1, <2>2, <2>3
  <2> HIDE DEF BuildInv, HalfDone, NamedOnly
  <2> QED
    BY <2>1, <2>3, <2>4
<1>2. ASSUME NEW p \in Products, FirstFetch(p) PROVE ReceiptInv'
  BY <1>2 DEF FirstFetch
<1>3. ASSUME NEW p \in Products, StartBuild(p) PROVE ReceiptInv'
  <2>1. UNCHANGED <<image, parts, receipt, cut>>
    BY <1>3 DEF StartBuild
  <2>2. \A q \in Products : ~(command = q /\ step = "clear image")
    BY <1>3 DEF StartBuild
  <2> QED
    BY <2>1, <2>2
<1>4. ASSUME NEW p \in Products, CheckPool(p) PROVE ReceiptInv'
  BY <1>4 DEF CheckPool
<1>5. ASSUME NEW p \in Products, ComposeRoot(p) PROVE ReceiptInv'
  BY <1>5 DEF ComposeRoot
<1>6. ASSUME NEW p \in Products, ClearParts(p) PROVE ReceiptInv'
  BY <1>6 DEF ClearParts
<1>7. ASSUME NEW p \in Products, ClearImage(p) PROVE ReceiptInv'
  BY <1>7 DEF ClearImage
<1>8. ASSUME NEW p \in Products, ClearReceipt(p) PROVE ReceiptInv'
  BY <1>8 DEF ClearReceipt
<1>9. ASSUME NEW p \in Products, MakeParts(p) PROVE ReceiptInv'
  BY <1>9 DEF MakeParts
<1>10. ASSUME NEW p \in Products, MakeImage(p) PROVE ReceiptInv'
  BY <1>10 DEF MakeImage
<1>11. ASSUME NEW p \in Products, WriteReceipt(p) PROVE ReceiptInv'
  <2>1. \A q \in Products \ {p} : receipt'[q] = receipt[q] /\ (q \notin cut' => q \notin cut) /\ command # q
    BY <1>11 DEF WriteReceipt
  <2>2. UNCHANGED <<image, parts>> /\ receipt'[p] = want
    BY <1>11 DEF WriteReceipt
  <2>3. p \notin cut' =>
          want.tree = tree /\ ~tree.dirty /\ image[p] = Made(tree) /\ parts[p] = image[p]
    BY <1>11, BuiltOfTheTree DEF WriteReceipt
  <2>4. ReceiptInv /\ command = p /\ want # None
    BY <1>11, BuiltOfTheTree DEF WriteReceipt
  <2> HIDE DEF BuildInv, OutputsOK, TypeOK, Made
  <2>5. ASSUME NEW q \in Products, receipt'[q] # None, image[q] # None, q \notin cut'
        PROVE  ~receipt'[q].tree.dirty /\ image[q] = Made(receipt'[q].tree) /\ parts[q] = image[q]
    <3>1. CASE q = p
      BY <2>2, <2>3, <2>5, <3>1
    <3>2. CASE q # p
      BY <2>1, <2>4, <2>5, <3>2
    <3> QED
      BY <3>1, <3>2
  <2> QED
    BY <2>2, <2>5 DEF Made
<1>12. CASE RecordKernel
  <2>1. UNCHANGED <<image, parts, receipt>> /\ \A q \in Products : q \notin cut' => q \notin cut
    BY <1>12 DEF RecordKernel
  <2>2. \A q \in Products : command # q
    BY <1>12 DEF RecordKernel
  <2> QED
    BY <2>1, <2>2
<1>15. CASE Edit
  <2>1. UNCHANGED <<image, parts, receipt, cut, command, step>>
    BY <1>15 DEF Edit
  <2> QED
    BY <2>1
<1>16. CASE StartKernel \/ ExportKernel \/ StartPack \/ RemoveOwn \/ ExportOwn \/ BoardFetch
  <2>1. UNCHANGED <<image, parts, receipt, cut>>
    BY <1>16 DEF StartKernel, ExportKernel, StartPack, RemoveOwn, ExportOwn, BoardFetch
  <2>2. command = None \/ command = "kernel" \/ command = "board-pool"
    BY <1>16 DEF StartKernel, ExportKernel, StartPack, RemoveOwn, ExportOwn, BoardFetch
  <2>3. command \notin Products
    BY <2>2
  <2> QED
    BY <2>1, <2>3
<1>13. ASSUME NEW p \in Products, Reuse(p) \/ FetchPool(p) \/ IndexPool(p) \/ FetchBoard(p) \/
            ListPackages(p) \/ SmokeRoot(p)
      PROVE  ReceiptInv'
  BY <1>13 DEF Reuse, FetchPool, IndexPool, FetchBoard, ListPackages, SmokeRoot
<1>14. CASE UNCHANGED vars
  BY <1>14 DEF vars
<1> QED
  BY <1>1, <1>2, <1>3, <1>4, <1>5, <1>6, <1>7, <1>8,
     <1>9, <1>10, <1>11, <1>12, <1>13, <1>14, <1>15, <1>16 DEF Next, Product

LEMMA EndStep ==
  ASSUME Setting, TypeOK, BuildInv, ReceiptInv, EndInv, [Next]_vars
  PROVE  EndInv'
<1> USE DEF Setting, EndInv, TypeOK, OutputsOK, board, pool, outputs, history, Begin, Finish, At
<1>1. CASE Edit
  BY <1>1 DEF Edit
<1>2. CASE Stop
  BY <1>2 DEF Stop, HalfDone
<1>3. ASSUME NEW p \in Products, Reuse(p) PROVE EndInv'
  <2>1. /\ receipt[p] = [tree |-> tree, config |-> Config(bundle)] /\ image[p] # None /\ command = None
        /\ UNCHANGED <<tree, command, image, parts, cut>>
    BY <1>3 DEF Reuse, UpToDate, Receipt
  <2>2. receipt[p] \in Receipts
    <3>1. bundle \in AllInputs /\ tree \in Trees
      BY <1>3 DEF Reuse, FilesOK, CommandOK
    <3> HIDE DEF EndInv, TypeOK, OutputsOK
    <3> QED
      BY <2>1, <3>1 DEF Receipts
  <2>3. receipt[p] # None /\ receipt[p].tree = tree
    <3>1. receipt[p] # None
      BY <2>2
    <3> HIDE DEF Setting, EndInv, TypeOK, OutputsOK
    <3>2. receipt[p].tree = tree
      BY <2>1
    <3> QED
      BY <3>1, <3>2
  <2>4. p \notin cut => ~tree.dirty /\ image[p] = Made(tree) /\ parts[p] = image[p]
    BY <2>1, <2>3 DEF ReceiptInv
  <2>5. ended' = [product |-> p, how |-> "up to date"]
    BY <1>3, Zenon DEF Reuse
  <2>6. ended'.product = p /\ ended'.how = "up to date" /\ ended'.how # "built"
    BY <2>5
  <2> QED
    BY <2>1, <2>4, <2>6
<1>4. ASSUME NEW p \in Products, WriteReceipt(p) PROVE EndInv'
  <2>1. /\ ended' = [product |-> p, how |-> "built"] /\ command' = None
        /\ UNCHANGED <<tree, image, parts, build>>
        /\ p \notin cut' => ~moved /\ "kernel" \notin cut
    BY <1>4 DEF WriteReceipt
  <2>2. /\ image[p] = parts[p] /\ image[p].root = build[p]
        /\ ~moved /\ "kernel" \notin cut => ~tree.dirty /\ image[p] = Made(tree)
    BY <1>4, BuiltOfTheTree DEF WriteReceipt
  <2> QED
    BY <2>1, <2>2
<1>5. CASE StartKernel \/ ExportKernel \/ RecordKernel \/ StartPack \/ RemoveOwn \/ ExportOwn \/
            BoardFetch
  BY <1>5 DEF StartKernel, ExportKernel, RecordKernel, StartPack, RemoveOwn, ExportOwn, BoardFetch
<1>6. ASSUME NEW p \in Products, FirstFetch(p) \/ StartBuild(p) \/ FetchPool(p) \/ IndexPool(p) \/
            FetchBoard(p) \/ CheckPool(p) \/ ComposeRoot(p) \/ ListPackages(p) \/ SmokeRoot(p) \/
            ClearParts(p) \/ ClearImage(p) \/ ClearReceipt(p) \/ MakeParts(p) \/ MakeImage(p)
      PROVE  EndInv'
  BY <1>6 DEF FirstFetch, StartBuild, FetchPool, IndexPool, FetchBoard, CheckPool, ComposeRoot,
     ListPackages, SmokeRoot, ClearParts, ClearImage, ClearReceipt, MakeParts, MakeImage
<1>7. CASE UNCHANGED vars
  BY <1>7 DEF vars
<1> QED
  BY <1>1, <1>2, <1>3, <1>4, <1>5, <1>6, <1>7 DEF Next, Product

-----------------------------------------------------------------------------
(* The theorems.                                                            *)

\* Every variable has its type, in every state of every behaviour.
THEOREM TypeCorrect == ASSUME Setting PROVE Spec => []TypeOK
<1>1. Init => TypeOK
  BY TypeInit
<1>2. TypeOK /\ [Next]_vars => TypeOK'
  BY TypeStep
<1> QED
  BY <1>1, <1>2, PTL DEF Spec

\* rootfs-packages.txt describes the root beside it (src/rootfs/build.ts): the
\* record of an earlier root goes before a root is written, and the new one is of
\* the archives the root was composed of, edited or killed at any step.
THEOREM RecordCorrect == ASSUME Setting PROVE Spec => []RecordDescribesRoot
<1>1. Init => RecordInv
  BY DEF Setting, Init, RecordInv, Nothing
<1>2. TypeOK /\ RecordInv /\ [Next]_vars => RecordInv'
  BY RecordStep
<1>3. RecordInv => RecordDescribesRoot
  BY DEF RecordInv, RecordDescribesRoot
<1> QED
  BY <1>1, <1>2, <1>3, TypeCorrect, PTL DEF Spec

Inv == TypeOK /\ KernelInv /\ BuildInv /\ ReceiptInv /\ EndInv

LEMMA Invariance == ASSUME Setting PROVE Spec => []Inv
<1>1. Init => Inv
  <2> SUFFICES ASSUME Init PROVE Inv
    OBVIOUS
  <2>1. TypeOK
    BY TypeInit
  <2>2. KernelInv
    BY DEF Init, KernelInv, Setting
  <2>3. BuildInv
    BY DEF Init, BuildInv, Setting
  <2>4. ReceiptInv
    BY DEF Init, ReceiptInv, Nothing
  <2>5. EndInv
    BY DEF Init, EndInv
  <2> QED
    BY <2>1, <2>2, <2>3, <2>4, <2>5 DEF Inv
<1>2. Inv /\ [Next]_vars => Inv'
  BY TypeStep, KernelStep, BuildStep, ReceiptStep, EndStep DEF Inv
<1> QED
  BY <1>1, <1>2, PTL DEF Spec

\* A product command that ends well leaves the image of the tree as it is
\* (src/product/build.ts), wherever any command was killed and whenever the tree
\* moved: but for the products that a command left half cleared, or built while the
\* tree moved or of a kernel without its own record, nothing stale took the place of
\* anything.
THEOREM EndsCurrentCorrect == ASSUME Setting PROVE Spec => []EndsCurrent
<1>1. Inv => EndsCurrent
  BY DEF Inv, EndInv, EndsCurrent, Current, Made, Inputs
<1> QED
  BY <1>1, Invariance, PTL

\* What it leaves is whole, wherever any command was killed and whenever the tree
\* moved: the image and the parts it was made of, and after a build the root they
\* came from; but for a half cleared product that is found up to date.
THEOREM EndsWholeCorrect == ASSUME Setting PROVE Spec => []EndsWhole
<1>1. Inv => EndsWhole
  BY DEF Inv, EndInv, EndsWhole
<1> QED
  BY <1>1, Invariance, PTL

=============================================================================
