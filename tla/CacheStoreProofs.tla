---- MODULE CacheStoreProofs ----
(***************************************************************************)
(* Proofs about CacheStore, for every set of names, every limit and every  *)
(* clock.                                                                  *)
(***************************************************************************)
EXTENDS CacheStore, SumProofs

-----------------------------------------------------------------------------
(* The inductive invariant.                                                *)

\* A record is of a name that was given out, and never of a file in use.
RecordsOK ==
    /\ NotRegular \subseteq used
    /\ \A f \in File : record[f] # "none" => f \in used
    /\ \A f \in live : record[f] = "none" /\ f \in present \ NotRegular

\* Only an open handle does anything; the holder of resizeMutex changes a size,
\* and each record under way has its temporary file.
Recording == {f \in File : op[f].pc = "record"}
HandlesOK ==
    /\ \A f \in File : op[f] # Quiet => f \in live
    /\ resizeMutex # None => op[resizeMutex].pc \in {"write", "download"}
    /\ Cardinality(Recording) <= temps

\* The desktop deletes, clears and starts while no drive is mounted.
DesktopOK == ui.op \in {"delete", "clear"} \/ ui.starting => live = {}

\* What the desktop lists has a name that was given out.
ListedOK ==
    /\ ui.records \subseteq used /\ ui.staged \subseteq used
    /\ \A f \in File : ui.items[f] # NoItem \/ shown[f] # NoItem => f \in used

\* What is to be removed is listed; the one whose record is still to go is gone.
DueOK ==
    /\ ui.due # {} => ui.op \in {"prune", "delete"} /\ ui.at \in {"remove", "record"}
    /\ ui.half # {} => ui.at = "record"
    /\ ui.half \subseteq ui.due \ present
    /\ \A f \in ui.due : ui.items[f] # NoItem

\* What PruneExpired found preserved has the same sound record still, so that no
\* handle can have its staging file: while it reads the records, and until it has
\* removed it.
Sound(f) == f \notin NotRegular /\ record[f] = "valid" /\ preservedAt[f] = ui.items[f].at
PruneOK ==
    ui.op = "prune" =>
        /\ ui.at = "list" => ui.items = Nothing
        /\ \A f \in File :
            /\ ui.at = "read" /\ ui.items[f].state = "preserved" => Sound(f)
            /\ f \in ui.due => Sound(f) /\ ui.items[f].at <= ui.today - RetentionDays

StoreInv == TypeOK /\ RecordsOK /\ HandlesOK /\ DesktopOK /\ ListedOK /\ DueOK /\ PruneOK

-----------------------------------------------------------------------------
(* Types.                                                                  *)

\* The values the desktop starts its operations from.
LEMMA UiTypes ==
    /\ NoItem \in Item \union {NoItem} /\ Nothing \in Items /\ NoUi \in Ui
    /\ \A f \in File : Nothing[f] = NoItem
    /\ NoItem.state # "preserved" /\ Quiet \in HandleOp
    /\ \A day \in Nat : StartPrune(day) \in Ui
    /\ ui \in Ui => StartScan \in Ui
<1>1. NoItem \in Item \union {NoItem} /\ NoItem.state # "preserved" /\ Quiet \in HandleOp
  BY DEF NoItem, Quiet, HandleOp
<1>2. Nothing \in Items /\ \A f \in File : Nothing[f] = NoItem
  BY DEF Nothing, Items
<1>3. NoUi \in Ui
  BY <1>2 DEF NoUi, Ui
<1>4. \A day \in Nat : StartPrune(day) \in Ui
  BY <1>2 DEF StartPrune, NoUi, Ui
<1>5. ui \in Ui => StartScan \in Ui
  BY <1>2 DEF StartScan, NoUi, Ui
<1>6. QED
  BY <1>1, <1>2, <1>3, <1>4, <1>5

\* Handles that do nothing need no temporary file.
LEMMA NoneRecording ==
    ASSUME NEW o, \A f \in File : o[f].pc # "record"
    PROVE  Cardinality({f \in File : o[f].pc = "record"}) = 0
<1>1. {f \in File : o[f].pc = "record"} = {}
  OBVIOUS
<1>2. QED
  BY <1>1, FS_EmptySet

\* The records under way are finitely many.
LEMMA RecordingFinite == IsFiniteSet(Recording) /\ Cardinality(Recording) \in Nat
<1>1. Recording \in SUBSET File
  BY DEF Recording
<1>2. QED
  BY <1>1, StoreConstants, FS_Subset, FS_CardinalityType

\* The program starts: every directory that may be there satisfies it.
LEMMA StoreInit == Init => StoreInv
<1> SUFFICES ASSUME Init PROVE StoreInv
  OBVIOUS
<1>1. /\ today \in Nat /\ ui = [StartPrune(today) EXCEPT !.starting = TRUE]
      /\ live = {} /\ op = [f \in File |-> Quiet] /\ resizeMutex = None /\ temps = 0
      /\ present \in SUBSET File /\ NotRegular \subseteq present /\ shown = Nothing
      /\ used = present \union {f \in File : record[f] # "none"}
  BY StoreConstants DEF Init
<1>2. /\ ui \in Ui /\ ui.op = "prune" /\ ui.at = "list" /\ ui.due = {} /\ ui.half = {}
      /\ ui.items = Nothing /\ ui.records = {} /\ ui.staged = {}
  BY <1>1, UiTypes DEF StartPrune, NoUi, Ui
<1>3. TypeOK
  <2>1. size \in [File -> Nat] /\ preservedAt \in [File -> Nat]
    BY StoreConstants DEF Init
  <2>2. record \in [File -> {"none", "valid", "bad"}] /\ op \in [File -> HandleOp]
    BY <1>1, UiTypes DEF Init
  <2>3. QED
    BY <1>1, <1>2, <2>1, <2>2, UiTypes DEF TypeOK
<1>4. HandlesOK
  <2>1. \A f \in File : op[f] = Quiet /\ op[f].pc # "record"
    BY <1>1 DEF Quiet
  <2>2. Cardinality(Recording) = 0
    BY <2>1, NoneRecording DEF Recording
  <2>3. QED
    BY <1>1, <2>1, <2>2 DEF HandlesOK
<1>5. RecordsOK /\ DesktopOK
  BY <1>1 DEF RecordsOK, DesktopOK
<1>6. ListedOK /\ DueOK /\ PruneOK
  BY <1>1, <1>2, UiTypes DEF ListedOK, DueOK, PruneOK
<1>7. QED
  BY <1>3, <1>4, <1>5, <1>6 DEF StoreInv

-----------------------------------------------------------------------------
(* Handles of mounted drives.                                              *)

\* What a handle may do to the directory under the desktop's eyes: names are only
\* added, a listed one does not come back, and a sound record stays as it is.
LEMMA BesideTheDesktop ==
    ASSUME StoreInv, UNCHANGED <<ui, shown>>, used \subseteq used',
           present' \subseteq present \union (File \ used),
           \A f \in File : record[f] = "valid" =>
                record'[f] = "valid" /\ preservedAt'[f] = preservedAt[f]
    PROVE  ListedOK' /\ DueOK' /\ PruneOK'
<1>1. ListedOK'
  BY DEF StoreInv, ListedOK
<1>2. \A f \in ui.half : f \in ui.due /\ f \in used /\ f \notin present
  BY DEF StoreInv, TypeOK, Ui, DueOK, ListedOK
<1>3. DueOK'
  BY <1>2 DEF StoreInv, DueOK
<1>4. PruneOK'
  BY DEF StoreInv, PruneOK, Sound
<1>5. QED
  BY <1>1, <1>3, <1>4

\* A staging file is made under a new name.
LEMMA CreateStep ==
    ASSUME StoreInv, NEW f \in File, CreateStaging(f)
    PROVE  StoreInv'
<1> USE DEF diskVars, handleVars
<1>1. /\ f \notin used /\ ~ui.starting /\ ui.op \notin {"delete", "clear"}
      /\ used' = used \union {f} /\ present' = present \union {f} /\ live' = live \union {f}
      /\ UNCHANGED <<size, record, preservedAt, temps, op, resizeMutex, ui, shown, today>>
  BY DEF CreateStaging
<1>2. TypeOK'
  BY <1>1 DEF StoreInv, TypeOK
<1>3. RecordsOK'
  BY <1>1 DEF StoreInv, RecordsOK
<1>4. HandlesOK' /\ DesktopOK'
  BY <1>1 DEF StoreInv, HandlesOK, DesktopOK, Recording
<1>5. ListedOK' /\ DueOK' /\ PruneOK'
  BY <1>1, BesideTheDesktop
<1>6. QED
  BY <1>2, <1>3, <1>4, <1>5 DEF StoreInv

\* A handle takes resizeMutex to change a size, or gives it back.
ResizeTurn(f) ==
    /\ UNCHANGED <<used, present, record, preservedAt, temps, live, ui, shown, today>>
    /\ size' \in [File -> Nat] /\ op' \in [File -> HandleOp]
    /\ op[f].pc # "record" /\ op'[f].pc # "record" /\ f \in live
    /\ \/ op'[f] = Quiet /\ resizeMutex' = None
       \/ op'[f].pc \in {"write", "download"} /\ resizeMutex' = f
    /\ \A g \in File \ {f} : op'[g] = op[g]

\* The check before a size changes, and the change.
LEMMA ResizeIsTurn ==
    ASSUME StoreInv, NEW f \in File,
           Resized(f) \/ \E n \in Sizes, kind \in {"write", "download"} : LockResize(f, kind, n)
    PROVE  ResizeTurn(f)
<1>1. /\ size \in [File -> Nat] /\ op \in [File -> HandleOp] /\ Sizes \subseteq Nat
      /\ Quiet.pc = "quiet"
  BY StoreConstants DEF StoreInv, TypeOK, Quiet
<1>2. CASE Resized(f)
  <2>1. op[f].pc \in {"write", "download"} /\ op[f] # Quiet /\ op[f].to \in Nat
    BY <1>1, <1>2 DEF Resized, HandleOp
  <2>2. PICK n \in IF op[f].pc = "download" THEN Sizes ELSE {size[f], op[f].to} :
          size' = [size EXCEPT ![f] = n]
    BY <1>2 DEF Resized
  <2>3. n \in Nat
    BY <1>1, <2>1, <2>2
  <2>4. size' \in [File -> Nat]
    BY <1>1, <2>2, <2>3
  <2>5. /\ op' = [op EXCEPT ![f] = Quiet] /\ resizeMutex' = None
        /\ UNCHANGED <<used, present, record, preservedAt, temps, live, ui, shown, today>>
    BY <1>2 DEF Resized
  <2>6. f \in live
    BY <2>1 DEF StoreInv, HandlesOK
  <2>7. QED
    BY <1>1, <2>1, <2>4, <2>5, <2>6, UiTypes DEF ResizeTurn
<1>3. ASSUME NEW n \in Sizes, NEW kind \in {"write", "download"}, LockResize(f, kind, n)
      PROVE  ResizeTurn(f)
  <2> DEFINE todo == [pc |-> kind, to |-> n]
  <2>1. /\ f \in live /\ op[f] = Quiet /\ resizeMutex' = f
        /\ op' = [op EXCEPT ![f] = todo]
        /\ UNCHANGED <<diskVars, live, ui, shown, today>>
    BY <1>3 DEF LockResize
  <2>2. todo \in HandleOp /\ todo.pc \in {"write", "download"}
    BY <1>1 DEF HandleOp
  <2> HIDE DEF todo
  <2>3. op' \in [File -> HandleOp] /\ op'[f] = todo /\ \A g \in File \ {f} : op'[g] = op[g]
    BY <1>1, <2>1, <2>2
  <2>4. UNCHANGED <<used, present, record, preservedAt, temps, live, ui, shown, today>> /\ size' = size
    BY <2>1 DEF diskVars
  <2>5. op'[f].pc # "record"
    BY <2>2, <2>3
  <2>6. QED
    BY <1>1, <2>1, <2>2, <2>3, <2>4, <2>5 DEF ResizeTurn
<1>4. QED
  BY <1>2, <1>3

\* A change of size keeps the invariant.
LEMMA ResizeStep ==
    ASSUME StoreInv, NEW f \in File, ResizeTurn(f)
    PROVE  StoreInv'
<1>1. TypeOK' /\ RecordsOK' /\ DesktopOK'
  BY DEF ResizeTurn, StoreInv, TypeOK, RecordsOK, DesktopOK
<1>2. HandlesOK'
  <2>1. Recording' = Recording
    BY DEF ResizeTurn, Recording
  <2>2. \A g \in File : op'[g] # Quiet => g \in live'
    BY DEF ResizeTurn, StoreInv, HandlesOK
  <2>3. resizeMutex' # None => op'[resizeMutex'].pc \in {"write", "download"}
    BY DEF ResizeTurn
  <2>4. QED
    BY <2>1, <2>2, <2>3 DEF ResizeTurn, StoreInv, HandlesOK
<1>3. ListedOK' /\ DueOK' /\ PruneOK'
  BY BesideTheDesktop DEF ResizeTurn
<1>4. QED
  BY <1>1, <1>2, <1>3 DEF StoreInv

\* A handle that does nothing is closed.
LEMMA CloseStep ==
    ASSUME StoreInv, NEW f \in File, CloseRemove(f)
    PROVE  StoreInv'
<1>1. /\ f \in live /\ op[f] = Quiet /\ live' = live \ {f}
      /\ present' \in {present \ {f}, present}
      /\ UNCHANGED <<used, size, record, preservedAt, temps, op, resizeMutex, ui, shown, today>>
  BY DEF CloseRemove
<1>2. resizeMutex # f
  <2>1. Quiet.pc \notin {"write", "download"} /\ f # None
    BY StoreConstants DEF Quiet
  <2>2. QED
    BY <1>1, <2>1 DEF StoreInv, HandlesOK
<1>3. TypeOK' /\ RecordsOK' /\ DesktopOK'
  BY <1>1, <1>2 DEF StoreInv, TypeOK, RecordsOK, DesktopOK
<1>4. HandlesOK'
  BY <1>1, <1>2 DEF StoreInv, HandlesOK, Recording
<1>5. ListedOK' /\ DueOK' /\ PruneOK'
  BY <1>1, BesideTheDesktop
<1>6. QED
  BY <1>3, <1>4, <1>5 DEF StoreInv

\* Preserve begins: there is one temporary file more, and one record under way.
LEMMA PreserveStartStep ==
    ASSUME StoreInv, NEW f \in File, PreserveStart(f)
    PROVE  StoreInv'
<1> DEFINE todo == [pc |-> "record", to |-> today]
<1>1. /\ f \in live /\ op[f] = Quiet /\ temps' = temps + 1 /\ op' = [op EXCEPT ![f] = todo]
      /\ UNCHANGED <<used, present, size, record, preservedAt, live, resizeMutex, ui, shown, today>>
  BY DEF PreserveStart
<1>2. /\ todo \in HandleOp /\ todo.pc = "record" /\ op \in [File -> HandleOp] /\ temps \in Nat
      /\ Quiet.pc \notin {"record", "write", "download"} /\ f # None
  BY StoreConstants DEF StoreInv, TypeOK, HandleOp, Quiet
<1> HIDE DEF todo
<1>3. op' \in [File -> HandleOp] /\ op'[f] = todo /\ \A g \in File \ {f} : op'[g] = op[g]
  BY <1>1, <1>2
<1>4. Recording' = Recording \union {f} /\ f \notin Recording
  BY <1>1, <1>2, <1>3 DEF Recording
<1>5. Cardinality(Recording') = Cardinality(Recording) + 1
  BY <1>4, RecordingFinite, FS_AddElement
<1>6. TypeOK' /\ RecordsOK' /\ DesktopOK'
  BY <1>1, <1>2, <1>3 DEF StoreInv, TypeOK, RecordsOK, DesktopOK
<1>7. HandlesOK'
  <2>1. \A g \in File : op'[g] # Quiet => g \in live'
    BY <1>1, <1>3 DEF StoreInv, HandlesOK
  <2>2. resizeMutex' # None => op'[resizeMutex'].pc \in {"write", "download"}
    <3>1. resizeMutex # f
      BY <1>1, <1>2 DEF StoreInv, HandlesOK
    <3>2. resizeMutex # None => resizeMutex \in File
      BY DEF StoreInv, TypeOK
    <3>3. QED
      BY <1>1, <1>3, <3>1, <3>2 DEF StoreInv, HandlesOK
  <2>3. Cardinality(Recording') <= temps'
    BY <1>1, <1>2, <1>5, RecordingFinite DEF StoreInv, HandlesOK
  <2>4. QED
    BY <2>1, <2>2, <2>3 DEF HandlesOK
<1>8. ListedOK' /\ DueOK' /\ PruneOK'
  BY <1>1, BesideTheDesktop
<1>9. QED
  BY <1>6, <1>7, <1>8 DEF StoreInv

\* Preserve ends, with or without the record, and the file is no handle's.
LEMMA PreserveEndStep ==
    ASSUME StoreInv, NEW f \in File, PreserveEnd(f)
    PROVE  StoreInv'
<1>1. /\ op[f].pc = "record" /\ live' = live \ {f} /\ op' = [op EXCEPT ![f] = Quiet]
      /\ temps' \in {temps - 1, temps}
      /\ \/ /\ record' = [record EXCEPT ![f] = "valid"]
            /\ preservedAt' = [preservedAt EXCEPT ![f] = op[f].to]
         \/ UNCHANGED <<record, preservedAt>>
      /\ UNCHANGED <<used, present, size, resizeMutex, ui, shown, today>>
  BY DEF PreserveEnd
<1>2. /\ op \in [File -> HandleOp] /\ temps \in Nat /\ Quiet \in HandleOp /\ Quiet.pc = "quiet"
      /\ record \in [File -> {"none", "valid", "bad"}] /\ preservedAt \in [File -> Nat]
      /\ op[f] # Quiet /\ op[f].to \in Nat /\ f # None
  BY <1>1, UiTypes, StoreConstants DEF StoreInv, TypeOK, HandleOp, Quiet
<1>3. op' \in [File -> HandleOp] /\ op'[f] = Quiet /\ \A g \in File \ {f} : op'[g] = op[g]
  BY <1>1, <1>2
<1>4. f \in live /\ f \in used /\ record[f] = "none"
  BY <1>2 DEF StoreInv, HandlesOK, RecordsOK, TypeOK
<1>5. Recording' = Recording \ {f} /\ f \in Recording
  BY <1>1, <1>2, <1>3 DEF Recording
<1>6. Cardinality(Recording') = Cardinality(Recording) - 1
  BY <1>5, RecordingFinite, FS_RemoveElement
<1>7. Cardinality(Recording') <= temps' /\ temps' \in Nat
  <2>1. Cardinality(Recording) <= temps /\ Cardinality(Recording) \in Nat
    BY RecordingFinite DEF StoreInv, HandlesOK
  <2>2. Cardinality(Recording') \in Nat
    <3>1. Recording \ {f} \in SUBSET Recording
      OBVIOUS
    <3>2. QED
      BY <1>5, <3>1, RecordingFinite, FS_Subset, FS_CardinalityType
  <2>3. QED
    BY <1>1, <1>2, <1>6, <2>1, <2>2
<1>8. /\ record' \in [File -> {"none", "valid", "bad"}] /\ preservedAt' \in [File -> Nat]
      /\ \A g \in File \ {f} : record'[g] = record[g] /\ preservedAt'[g] = preservedAt[g]
  BY <1>1, <1>2
<1>9. resizeMutex # f
  BY <1>1, <1>2 DEF StoreInv, HandlesOK
<1>10. TypeOK'
  BY <1>1, <1>3, <1>7, <1>8, <1>9 DEF StoreInv, TypeOK
<1>11. RecordsOK' /\ DesktopOK'
  <2>1. RecordsOK'
    BY <1>1, <1>4, <1>8 DEF StoreInv, RecordsOK, TypeOK
  <2>2. DesktopOK'
    BY <1>1 DEF StoreInv, DesktopOK
  <2>3. QED
    BY <2>1, <2>2
<1>12. HandlesOK'
  <2>1. \A g \in File : op'[g] # Quiet => g \in live'
    BY <1>1, <1>3 DEF StoreInv, HandlesOK
  <2>2. resizeMutex' # None => op'[resizeMutex'].pc \in {"write", "download"}
    <3>1. resizeMutex # None => resizeMutex \in File
      BY DEF StoreInv, TypeOK
    <3>2. QED
      BY <1>1, <1>3, <1>9, <3>1 DEF StoreInv, HandlesOK
  <2>3. QED
    BY <1>7, <2>1, <2>2 DEF HandlesOK
<1>13. ListedOK' /\ DueOK' /\ PruneOK'
  <2>1. \A g \in File : record[g] = "valid" => record'[g] = "valid" /\ preservedAt'[g] = preservedAt[g]
    BY <1>4, <1>8
  <2>2. QED
    BY <1>1, <2>1, BesideTheDesktop
<1>14. QED
  BY <1>10, <1>11, <1>12, <1>13 DEF StoreInv

-----------------------------------------------------------------------------
(* The desktop reads.                                                      *)

\* A step of the desktop that leaves the directory and the handles alone.
LEMMA ReadOnly ==
    ASSUME StoreInv, UNCHANGED <<diskVars, handleVars, today>>, ui' \in Ui, shown' \in Items,
           DesktopOK', ListedOK', DueOK', PruneOK'
    PROVE  StoreInv'
<1>1. TypeOK' /\ RecordsOK' /\ HandlesOK'
  BY DEF StoreInv, TypeOK, RecordsOK, HandlesOK, Recording, diskVars, handleVars
<1>2. QED
  BY <1>1 DEF StoreInv

\* A scan, or a prune, starts from nothing listed.
LEMMA StartSteps ==
    ASSUME StoreInv, Scan \/ PruneExpired \/ PruneDone \/ DeleteDone
    PROVE  StoreInv'
<1>1. /\ UNCHANGED <<diskVars, handleVars, shown, today>>
      /\ ui' = StartScan \/ ui' = StartPrune(today)
  BY DEF Scan, PruneExpired, PruneDone, DeleteDone
<1>2. /\ ui' \in Ui /\ ui'.op \in {"scan", "prune"} /\ ui'.at = "list"
      /\ ui'.starting => ui.starting
      /\ ui'.due = {} /\ ui'.half = {} /\ ui'.records = {} /\ ui'.staged = {}
      /\ ui'.items = Nothing
  BY <1>1, UiTypes DEF StoreInv, TypeOK, StartScan, StartPrune, NoUi
<1>3. DesktopOK' /\ ListedOK' /\ DueOK' /\ PruneOK'
  <2>1. DesktopOK'
    BY <1>1, <1>2 DEF StoreInv, DesktopOK, handleVars
  <2>2. ListedOK'
    BY <1>1, <1>2, UiTypes DEF StoreInv, ListedOK, diskVars
  <2>3. DueOK' /\ PruneOK'
    BY <1>2 DEF DueOK, PruneOK
  <2>4. QED
    BY <2>1, <2>2, <2>3
<1>4. QED
  BY <1>1, <1>2, <1>3, ReadOnly DEF StoreInv, TypeOK

\* The directory is read.
LEMMA ReadDirStep ==
    ASSUME StoreInv, ReadDir
    PROVE  StoreInv'
<1>1. /\ ui.at = "list" /\ ui.op \in {"scan", "prune"} /\ ui \in Ui
      /\ ui' = [ui EXCEPT !.at = "read", !.records = Records, !.staged = present]
      /\ UNCHANGED <<diskVars, handleVars, shown, today>>
  BY DEF ReadDir, StoreInv, TypeOK
<1>2. Records \subseteq used /\ present \subseteq used /\ used \subseteq File
  BY DEF Records, StoreInv, RecordsOK, TypeOK
<1>3. /\ ui' \in Ui /\ ui'.op = ui.op /\ ui'.at = "read" /\ ui'.starting = ui.starting
      /\ ui'.due = ui.due /\ ui'.half = ui.half /\ ui'.items = ui.items
      /\ ui'.records = Records /\ ui'.staged = present
  BY <1>1, <1>2 DEF Ui
<1>4. ui.due = {} /\ ui.half = {}
  BY <1>1 DEF StoreInv, DueOK
<1>5. DesktopOK' /\ ListedOK' /\ DueOK'
  BY <1>1, <1>2, <1>3, <1>4 DEF StoreInv, DesktopOK, ListedOK, DueOK, diskVars, handleVars
<1>6. PruneOK'
  BY <1>1, <1>3, <1>4, UiTypes DEF StoreInv, PruneOK
<1>7. QED
  BY <1>1, <1>3, <1>5, <1>6, ReadOnly DEF StoreInv, TypeOK

\* A record is read, against the directory as it is by then.
LEMMA ScanStep ==
    ASSUME StoreInv, NEW f \in File, ScanMetadata(f)
    PROVE  StoreInv'
<1> DEFINE it == [state |-> RecordState(f), recorded |-> TRUE, at |-> preservedAt[f]]
<1>1. /\ ui.at = "read" /\ f \in ui.records /\ ui \in Ui
      /\ ui' = [ui EXCEPT !.items[f] = it]
      /\ UNCHANGED <<diskVars, handleVars, shown, today>>
  BY DEF ScanMetadata, StoreInv, TypeOK
<1>2. /\ it \in Item /\ it.at = preservedAt[f]
      /\ it.state = "preserved" => record[f] = "valid" /\ f \notin NotRegular
  <2>1. preservedAt[f] \in Nat
    BY DEF StoreInv, TypeOK
  <2>2. RecordState(f) \in States
    BY DEF RecordState, States
  <2>3. RecordState(f) = "preserved" => record[f] = "valid" /\ f \notin NotRegular
    BY DEF RecordState
  <2>4. QED
    BY <2>1, <2>2, <2>3 DEF Item
<1> HIDE DEF it
<1>3. /\ ui' \in Ui /\ ui'.op = ui.op /\ ui'.at = "read" /\ ui'.starting = ui.starting
      /\ ui'.due = ui.due /\ ui'.half = ui.half
      /\ ui'.records = ui.records /\ ui'.staged = ui.staged
      /\ ui'.items[f] = it /\ \A g \in File \ {f} : ui'.items[g] = ui.items[g]
  <2>1. ui.items \in Items
    BY <1>1 DEF Ui
  <2>2. [ui.items EXCEPT ![f] = it] \in Items
    BY <1>2, <2>1 DEF Items
  <2>3. ui' = [ui EXCEPT !.items = [ui.items EXCEPT ![f] = it]]
    BY <1>1
  <2>4. QED
    BY <1>1, <2>1, <2>2, <2>3 DEF Ui, Items
<1>4. ui.due = {} /\ ui.half = {}
  BY <1>1 DEF StoreInv, DueOK
<1>5. DesktopOK' /\ DueOK'
  BY <1>1, <1>3, <1>4 DEF StoreInv, DesktopOK, DueOK, handleVars
<1>6. ListedOK'
  BY <1>1, <1>3 DEF StoreInv, ListedOK, diskVars
<1>7. PruneOK'
  <2>1. ASSUME NEW g \in File, ui.op = "prune", ui'.items[g].state = "preserved" PROVE Sound(g)'
    <3>1. CASE g = f
      BY <1>1, <1>2, <1>3, <2>1, <3>1 DEF Sound, diskVars
    <3>2. CASE g # f
      BY <1>1, <1>3, <2>1, <3>2 DEF StoreInv, PruneOK, Sound, diskVars
    <3>3. QED
      BY <3>1, <3>2
  <2>2. QED
    BY <1>3, <1>4, <2>1 DEF PruneOK
<1>8. QED
  BY <1>1, <1>3, <1>5, <1>6, <1>7, ReadOnly DEF StoreInv, TypeOK

\* What a scan has found: the entries without a record are not preserved.
LEMMA ScannedType ==
    ASSUME StoreInv
    PROVE  /\ ScannedItems \in Items
           /\ \A f \in File :
                /\ f \in ui.staged \ ui.records =>
                        ScannedItems[f] # NoItem /\ ScannedItems[f].state # "preserved"
                /\ f \notin ui.staged \ ui.records => ScannedItems[f] = ui.items[f]
<1>1. ui.items \in Items
  BY DEF StoreInv, TypeOK, Ui
<1>2. \A f \in File : /\ Unrecorded(f) \in Item /\ Unrecorded(f) # NoItem
                       /\ Unrecorded(f).state # "preserved"
  <2> TAKE f \in File
  <2>1. /\ Unrecorded(f).state \in {"unsafe_staging", "missing_metadata"}
        /\ Unrecorded(f).recorded = FALSE /\ Unrecorded(f).at = 0 /\ Unrecorded(f) \in Item
    BY DEF Unrecorded, Item, States
  <2>2. NoItem.state = "unlisted"
    BY DEF NoItem
  <2>3. QED
    BY <2>1, <2>2
<1>3. QED
  BY <1>1, <1>2 DEF ScannedItems, Items

\* The scan ends, for the dialog or for the prune.
LEMMA ScannedStep ==
    ASSUME StoreInv, Scanned
    PROVE  StoreInv'
<1>1. /\ ui.at = "read" /\ ui \in Ui /\ UNCHANGED <<diskVars, handleVars, today>>
      /\ \A f \in ui.records : ui.items[f] # NoItem
  BY DEF Scanned, StoreInv, TypeOK
<1>2. \A f \in File : ScannedItems[f] # NoItem => f \in used
  BY ScannedType DEF StoreInv, ListedOK
<1>3. CASE ui.op = "prune"
  <2>1. /\ ui' = [ui EXCEPT !.at = "remove", !.items = ScannedItems, !.due = Expired(ScannedItems)]
        /\ shown' = shown
    BY <1>3 DEF Scanned
  <2>2. Expired(ScannedItems) \subseteq File
    BY DEF Expired
  <2>3. /\ ui' \in Ui /\ ui'.op = "prune" /\ ui'.at = "remove" /\ ui'.starting = ui.starting
        /\ ui'.due = Expired(ScannedItems) /\ ui'.half = ui.half /\ ui'.items = ScannedItems
        /\ ui'.records = ui.records /\ ui'.staged = ui.staged /\ ui'.today = ui.today
    BY <1>1, <1>3, <2>1, <2>2, ScannedType DEF Ui
  <2>4. ui.half = {}
    BY <1>1 DEF StoreInv, DueOK
  <2>5. DesktopOK' /\ ListedOK'
    BY <1>1, <1>2, <1>3, <2>1, <2>3 DEF StoreInv, DesktopOK, ListedOK, diskVars, handleVars
  <2>6. DueOK'
    <3>1. \A f \in Expired(ScannedItems) : ScannedItems[f] # NoItem
      BY UiTypes DEF Expired
    <3>2. QED
      BY <2>3, <2>4, <3>1 DEF DueOK
  <2>7. PruneOK'
    <3>1. ASSUME NEW f \in File, f \in Expired(ScannedItems)
          PROVE  Sound(f)' /\ ScannedItems[f].at <= ui.today - RetentionDays
      <4>1. ScannedItems[f].state = "preserved" /\ ScannedItems[f].at <= ui.today - RetentionDays
        BY <3>1 DEF Expired
      <4>2. ScannedItems[f] = ui.items[f]
        BY <4>1, ScannedType
      <4>3. Sound(f)
        BY <1>1, <1>3, <4>1, <4>2 DEF StoreInv, PruneOK
      <4>4. QED
        BY <1>1, <2>3, <4>1, <4>2, <4>3 DEF Sound, diskVars
    <3>2. QED
      BY <2>3, <3>1 DEF PruneOK
  <2>8. QED
    BY <1>1, <2>1, <2>3, <2>5, <2>6, <2>7, ReadOnly DEF StoreInv, TypeOK
<1>4. CASE ui.op # "prune"
  <2>1. ui' = NoUi /\ shown' = ScannedItems
    BY <1>4 DEF Scanned
  <2>2. /\ NoUi.op = "none" /\ ~NoUi.starting /\ NoUi.due = {} /\ NoUi.half = {}
        /\ NoUi.items = Nothing /\ NoUi.records = {} /\ NoUi.staged = {}
    BY DEF NoUi
  <2>3. DesktopOK' /\ DueOK' /\ PruneOK'
    BY <2>1, <2>2 DEF DesktopOK, DueOK, PruneOK
  <2>4. ListedOK'
    BY <1>1, <1>2, <2>1, <2>2, UiTypes DEF ListedOK, diskVars
  <2>5. QED
    BY <1>1, <2>1, <2>3, <2>4, UiTypes, ScannedType, ReadOnly
<1>5. QED
  BY <1>3, <1>4

\* A listed item is to be deleted, no drive being mounted; a clear has ended.
LEMMA DeleteSteps ==
    ASSUME StoreInv, ClearDone \/ \E f \in File : Delete(f)
    PROVE  StoreInv'
<1>1. CASE ClearDone
  <2>1. ui' = NoUi /\ UNCHANGED <<diskVars, handleVars, shown, today>>
    BY <1>1 DEF ClearDone
  <2>2. /\ NoUi.op = "none" /\ ~NoUi.starting /\ NoUi.due = {} /\ NoUi.half = {}
        /\ NoUi.items = Nothing /\ NoUi.records = {} /\ NoUi.staged = {}
    BY DEF NoUi
  <2>3. DesktopOK' /\ DueOK' /\ PruneOK'
    BY <2>1, <2>2 DEF DesktopOK, DueOK, PruneOK
  <2>4. ListedOK'
    BY <2>1, <2>2, UiTypes DEF StoreInv, ListedOK, diskVars
  <2>5. QED
    BY <2>1, <2>3, <2>4, UiTypes, ReadOnly DEF StoreInv, TypeOK
<1>2. ASSUME NEW f \in File, Delete(f) PROVE StoreInv'
  <2>1. /\ live = {} /\ shown[f] # NoItem /\ shown \in Items
        /\ ui' = [NoUi EXCEPT !.op = "delete", !.at = "remove", !.items = shown, !.due = {f}]
        /\ UNCHANGED <<diskVars, handleVars, shown, today>>
    BY <1>2 DEF Delete, StoreInv, TypeOK
  <2>2. /\ ui' \in Ui /\ ui'.op = "delete" /\ ui'.at = "remove" /\ ui'.items = shown
        /\ ui'.due = {f} /\ ui'.half = {} /\ ui'.records = {} /\ ui'.staged = {}
    BY <2>1, UiTypes DEF NoUi, Ui
  <2>3. DesktopOK' /\ ListedOK' /\ DueOK' /\ PruneOK'
    BY <2>1, <2>2 DEF StoreInv, DesktopOK, ListedOK, DueOK, PruneOK, diskVars, handleVars
  <2>4. QED
    BY <2>1, <2>2, <2>3, ReadOnly DEF StoreInv, TypeOK
<1>3. QED
  BY <1>1, <1>2

-----------------------------------------------------------------------------
(* The desktop removes.                                                    *)

\* No handle has what is to be removed: it has a record, or nothing is open.
LEMMA DueIsNotLive ==
    ASSUME StoreInv, NEW f \in ui.due
    PROVE  f \in File /\ f \in used /\ f \notin live
<1>1. ui.op \in {"prune", "delete"} /\ f \in File
  BY DEF StoreInv, DueOK, TypeOK, Ui
<1>2. f \in used
  BY <1>1 DEF StoreInv, DueOK, ListedOK
<1>3. CASE ui.op = "prune"
  BY <1>1, <1>2, <1>3 DEF StoreInv, PruneOK, Sound, RecordsOK
<1>4. CASE ui.op = "delete"
  BY <1>1, <1>2, <1>4 DEF StoreInv, DesktopOK
<1>5. QED
  BY <1>1, <1>3, <1>2, <1>4

\* An item leaves the list of what is to be removed.
LEMMA WithoutIs ==
    ASSUME ui \in Ui, NEW f
    PROVE  /\ Without(f) \in Ui /\ Without(f).due = ui.due \ {f} /\ Without(f).half = {}
           /\ Without(f).at = "remove" /\ Without(f).op = ui.op /\ Without(f).items = ui.items
           /\ Without(f).records = ui.records /\ Without(f).staged = ui.staged
           /\ Without(f).starting = ui.starting /\ Without(f).today = ui.today
BY DEF Without, Ui

\* The staging file first.
LEMMA RemoveStagingStep ==
    ASSUME StoreInv, NEW f \in File, RemoveStaging(f)
    PROVE  StoreInv'
<1>1. /\ f \in ui.due /\ ui.op \in {"prune", "delete"} /\ ui.at = "remove" /\ ui \in Ui
      /\ UNCHANGED <<used, size, record, preservedAt, temps, live, op, resizeMutex, shown, today>>
      /\ \/ /\ present' = present \ {f}
            /\ \/ ui.items[f].recorded /\ ui' = [ui EXCEPT !.at = "record", !.half = {f}]
               \/ ~ui.items[f].recorded /\ ui' = Without(f)
         \/ present' = present /\ ui' = Without(f)
  BY DEF RemoveStaging, handleVars, StoreInv, TypeOK
<1>2. f \in File /\ f \in used /\ f \notin live
  BY <1>1, DueIsNotLive
<1>3. ui.half = {}
  BY <1>1 DEF StoreInv, DueOK
<1>4. /\ ui' \in Ui /\ ui'.op = ui.op /\ ui'.items = ui.items /\ ui'.today = ui.today
      /\ ui'.records = ui.records /\ ui'.staged = ui.staged /\ ui'.starting = ui.starting
      /\ \/ /\ present' = present \ {f} /\ ui'.at = "record" /\ ui'.half = {f} /\ ui'.due = ui.due
         \/ /\ present' \in {present \ {f}, present} /\ ui'.at = "remove" /\ ui'.half = {}
            /\ ui'.due = ui.due \ {f}
  <2>1. CASE ui' = [ui EXCEPT !.at = "record", !.half = {f}] /\ present' = present \ {f}
    BY <1>1, <1>2, <2>1 DEF Ui
  <2>2. CASE ui' = Without(f)
    BY <1>1, <2>2, WithoutIs
  <2>3. QED
    BY <1>1, <2>1, <2>2
<1>5. TypeOK'
  BY <1>1, <1>4 DEF StoreInv, TypeOK
<1>6. RecordsOK' /\ HandlesOK' /\ DesktopOK'
  BY <1>1, <1>2, <1>4 DEF StoreInv, RecordsOK, HandlesOK, DesktopOK, Recording
<1>7. ListedOK' /\ DueOK'
  BY <1>1, <1>3, <1>4 DEF StoreInv, ListedOK, DueOK
<1>8. PruneOK'
  BY <1>1, <1>4 DEF StoreInv, PruneOK, Sound
<1>9. QED
  BY <1>5, <1>6, <1>7, <1>8 DEF StoreInv

\* Then its record.
LEMMA RemoveRecordStep ==
    ASSUME StoreInv, NEW f \in File, RemoveRecord(f)
    PROVE  StoreInv'
<1>1. /\ f \in ui.half /\ ui' = Without(f) /\ ui \in Ui
      /\ record' = [record EXCEPT ![f] = "none"] \/ record' = record
      /\ UNCHANGED <<used, present, size, preservedAt, temps, live, op, resizeMutex, shown, today>>
  BY DEF RemoveRecord, handleVars, StoreInv, TypeOK
<1>2. /\ ui' \in Ui /\ ui'.op = ui.op /\ ui'.items = ui.items /\ ui'.today = ui.today
      /\ ui'.records = ui.records /\ ui'.staged = ui.staged /\ ui'.starting = ui.starting
      /\ ui'.at = "remove" /\ ui'.half = {} /\ ui'.due = ui.due \ {f}
  BY <1>1, WithoutIs
<1>3. /\ record' \in [File -> {"none", "valid", "bad"}] /\ \A g \in File \ {f} : record'[g] = record[g]
      /\ \A g \in File : record'[g] # "none" => record[g] # "none"
  BY <1>1 DEF StoreInv, TypeOK
<1>4. TypeOK' /\ HandlesOK' /\ DesktopOK'
  BY <1>1, <1>2, <1>3 DEF StoreInv, TypeOK, HandlesOK, DesktopOK, Recording
<1>5. RecordsOK'
  <2>1. \A g \in live : g \in File
    BY DEF StoreInv, TypeOK
  <2>2. QED
    BY <1>1, <1>3, <2>1 DEF StoreInv, RecordsOK
<1>6. ListedOK' /\ DueOK'
  BY <1>1, <1>2 DEF StoreInv, ListedOK, DueOK
<1>7. PruneOK'
  BY <1>1, <1>2, <1>3 DEF StoreInv, PruneOK, Sound
<1>8. QED
  BY <1>4, <1>5, <1>6, <1>7 DEF StoreInv

\* Clear lists what there is, and removes it, while nothing is open.
LEMMA ClearSteps ==
    ASSUME StoreInv, Clear \/ \E f \in File : ClearEntry(f)
    PROVE  StoreInv'
<1>1. CASE Clear
  <2>1. /\ live = {} /\ temps' \in 0 .. temps
        /\ ui' = [NoUi EXCEPT !.op = "clear", !.at = "remove", !.staged = present, !.records = Records]
        /\ UNCHANGED <<used, present, size, record, preservedAt, live, op, resizeMutex, shown, today>>
    BY <1>1 DEF Clear, handleVars
  <2>2. Records \subseteq used /\ present \subseteq used /\ used \subseteq File
    BY DEF Records, StoreInv, RecordsOK, TypeOK
  <2>3. /\ ui' \in Ui /\ ui'.op = "clear" /\ ui'.items = Nothing /\ ui'.due = {} /\ ui'.half = {}
        /\ ui'.records = Records /\ ui'.staged = present
    BY <2>1, <2>2, UiTypes DEF NoUi, Ui
  <2>4. temps' \in Nat
    BY <2>1 DEF StoreInv, TypeOK
  <2>5. HandlesOK'
    <3>1. \A f \in File : op[f].pc # "record"
      BY <2>1 DEF StoreInv, HandlesOK, Quiet
    <3>2. Cardinality(Recording) = 0 /\ Recording' = Recording
      BY <2>1, <3>1, NoneRecording DEF Recording
    <3>3. QED
      BY <2>1, <2>4, <3>2 DEF StoreInv, HandlesOK
  <2>6. TypeOK' /\ RecordsOK' /\ DesktopOK'
    BY <2>1, <2>3, <2>4 DEF StoreInv, TypeOK, RecordsOK, DesktopOK
  <2>7. ListedOK' /\ DueOK' /\ PruneOK'
    BY <2>1, <2>2, <2>3, UiTypes DEF StoreInv, ListedOK, DueOK, PruneOK
  <2>8. QED
    BY <2>5, <2>6, <2>7 DEF StoreInv
<1>2. ASSUME NEW f \in File, ClearEntry(f) PROVE StoreInv'
  <2>1. /\ ui.op = "clear" /\ ui \in Ui
        /\ \/ /\ present' \in {present \ {f}, present} /\ record' = record
              /\ ui' = [ui EXCEPT !.staged = @ \ {f}]
           \/ /\ record' \in {[record EXCEPT ![f] = "none"], record} /\ present' = present
              /\ ui' = [ui EXCEPT !.records = @ \ {f}]
        /\ UNCHANGED <<used, size, preservedAt, temps, live, op, resizeMutex, shown, today>>
    BY <1>2 DEF ClearEntry, handleVars, StoreInv, TypeOK
  <2>2. live = {} /\ ui.due = {} /\ ui.half = {}
    BY <2>1 DEF StoreInv, DesktopOK, DueOK, TypeOK, Ui
  <2>3. /\ ui' \in Ui /\ ui'.op = "clear" /\ ui'.items = ui.items /\ ui'.due = {} /\ ui'.half = {}
        /\ ui'.records \subseteq ui.records /\ ui'.staged \subseteq ui.staged
    BY <2>1, <2>2 DEF Ui
  <2>4. /\ record' \in [File -> {"none", "valid", "bad"}] /\ present' \subseteq present
        /\ \A g \in File : record'[g] # "none" => record[g] # "none"
    BY <2>1 DEF StoreInv, TypeOK
  <2>5. TypeOK' /\ HandlesOK'
    BY <2>1, <2>3, <2>4 DEF StoreInv, TypeOK, HandlesOK, Recording
  <2>6. RecordsOK' /\ DesktopOK'
    BY <2>1, <2>2, <2>3, <2>4 DEF StoreInv, RecordsOK, DesktopOK
  <2>7. ListedOK' /\ DueOK' /\ PruneOK'
    BY <2>1, <2>3 DEF StoreInv, ListedOK, DueOK, PruneOK
  <2>8. QED
    BY <2>5, <2>6, <2>7 DEF StoreInv
<1>3. QED
  BY <1>1, <1>2

\* The process dies wherever it is, and is started again.
LEMMA CrashStep ==
    ASSUME StoreInv, Crash
    PROVE  StoreInv'
<1>1. /\ live' = {} /\ op' = [f \in File |-> Quiet] /\ resizeMutex' = None
      /\ ui' = [StartPrune(today) EXCEPT !.starting = TRUE] /\ shown' = Nothing
      /\ UNCHANGED <<used, present, size, record, preservedAt, temps, today>> /\ today \in Nat
  BY DEF Crash, diskVars, StoreInv, TypeOK
<1>2. /\ ui' \in Ui /\ ui'.op = "prune" /\ ui'.at = "list" /\ ui'.items = Nothing
      /\ ui'.due = {} /\ ui'.half = {} /\ ui'.records = {} /\ ui'.staged = {}
  BY <1>1, UiTypes DEF StartPrune, NoUi, Ui
<1>3. TypeOK' /\ RecordsOK' /\ DesktopOK'
  BY <1>1, <1>2, UiTypes DEF StoreInv, TypeOK, RecordsOK, DesktopOK
<1>4. HandlesOK'
  <2>1. \A f \in File : op'[f] = Quiet /\ op'[f].pc # "record"
    BY <1>1 DEF Quiet
  <2>2. Cardinality(Recording') = 0
    BY <2>1, NoneRecording DEF Recording
  <2>3. QED
    BY <1>1, <1>3, <2>1, <2>2 DEF HandlesOK, TypeOK
<1>5. ListedOK' /\ DueOK' /\ PruneOK'
  BY <1>1, <1>2, UiTypes DEF ListedOK, DueOK, PruneOK
<1>6. QED
  BY <1>3, <1>4, <1>5 DEF StoreInv

\* The wall clock is set, or nothing happens.
LEMMA ClockStep ==
    ASSUME StoreInv, SetClock \/ UNCHANGED vars
    PROVE  StoreInv'
<1>1. UNCHANGED <<diskVars, handleVars, ui, shown>> /\ today' \in Nat
  BY StoreConstants DEF SetClock, vars, StoreInv, TypeOK
<1>2. TypeOK' /\ RecordsOK' /\ HandlesOK' /\ DesktopOK'
  BY <1>1 DEF StoreInv, TypeOK, RecordsOK, HandlesOK, DesktopOK, Recording, diskVars, handleVars
<1>3. ListedOK' /\ DueOK' /\ PruneOK'
  BY <1>1 DEF StoreInv, ListedOK, DueOK, PruneOK, Sound, diskVars
<1>4. QED
  BY <1>2, <1>3 DEF StoreInv

-----------------------------------------------------------------------------
(* The invariant holds, and what follows from it.                          *)

\* Every step keeps the invariant.
LEMMA StoreStep == StoreInv /\ [Next]_vars => StoreInv'
<1> SUFFICES ASSUME StoreInv, [Next]_vars PROVE StoreInv'
  OBVIOUS
<1>1. CASE \E f \in File : CreateStaging(f) \/ CloseRemove(f) \/ PreserveStart(f) \/ PreserveEnd(f)
  BY <1>1, CreateStep, CloseStep, PreserveStartStep, PreserveEndStep
<1>2. CASE \E f \in File : \/ Resized(f)
                         \/ \E n \in Sizes, kind \in {"write", "download"} : LockResize(f, kind, n)
  BY <1>2, ResizeIsTurn, ResizeStep
<1>3. CASE \E f \in File : ScanMetadata(f) \/ RemoveStaging(f) \/ RemoveRecord(f)
  BY <1>3, ScanStep, RemoveStagingStep, RemoveRecordStep
<1>4. CASE \/ Clear \/ ClearDone \/ \E f \in File : Delete(f) \/ ClearEntry(f)
  BY <1>4, ClearSteps, DeleteSteps
<1>5. CASE Scan \/ PruneExpired \/ PruneDone \/ DeleteDone
  BY <1>5, StartSteps
<1>6. CASE ReadDir \/ Scanned \/ Crash \/ SetClock \/ UNCHANGED vars
  BY <1>6, ReadDirStep, ScannedStep, CrashStep, ClockStep
<1>7. QED
  BY <1>1, <1>2, <1>3, <1>4, <1>5, <1>6 DEF Next

\* The inductive invariant holds in every state of every behaviour.
THEOREM StoreInvariant == Spec => []StoreInv
<1>1. Init => StoreInv
  BY StoreInit
<1>2. StoreInv /\ [Next]_vars => StoreInv'
  BY StoreStep
<1>3. QED
  BY <1>1, <1>2, PTL DEF Spec

\* Every variable holds a value of its kind: no count of temporary files goes
\* below zero, and only an open handle holds resizeMutex.
THEOREM StoreTypeCorrect == Spec => []TypeOK
<1>1. StoreInv => TypeOK
  BY DEF StoreInv
<1>2. QED
  BY <1>1, StoreInvariant, PTL

-----------------------------------------------------------------------------
(* What a step may remove, and what it may show.                           *)

\* PruneExpired: whatever the handles did since it scanned, the staging file it
\* removes is no handle's, and its record is sound and old enough then.
THEOREM PruneIsSafe == Spec => PruneSafe
<1> DEFINE Safe(f) == \/ f \in live /\ f \notin live'
                      \/ /\ f \notin live /\ record[f] = "valid" /\ f \notin NotRegular
                         /\ preservedAt[f] <= ui.today - RetentionDays
<1>1. StoreInv /\ [Next]_vars => (ui.op = "prune" => \A f \in present \ present' : Safe(f))
  <2> SUFFICES ASSUME StoreInv, [Next]_vars, ui.op = "prune", NEW g \in present \ present'
               PROVE  Safe(g)
    OBVIOUS
  <2>1. present' # present
    OBVIOUS
  <2>2. CASE \E f \in File : CloseRemove(f)
    BY <2>2 DEF CloseRemove
  <2>3. ASSUME NEW f \in File, RemoveStaging(f) PROVE Safe(g)
    <3>1. g = f /\ f \in ui.due
      BY <2>3 DEF RemoveStaging
    <3>2. f \notin live /\ Sound(f) /\ ui.items[f].at <= ui.today - RetentionDays
      BY <3>1, DueIsNotLive DEF StoreInv, PruneOK
    <3>3. QED
      BY <3>1, <3>2 DEF Sound
  <2>4. CASE \E f \in File : ClearEntry(f)
    BY <2>4 DEF ClearEntry
  <2>5. CASE \E f \in File : CreateStaging(f)
    BY <2>5 DEF CreateStaging
  <2>6. CASE \E f \in File : \/ Resized(f) \/ PreserveStart(f) \/ PreserveEnd(f) \/ ScanMetadata(f)
                           \/ Delete(f) \/ RemoveRecord(f)
                           \/ \E n \in Sizes, kind \in {"write", "download"} : LockResize(f, kind, n)
    BY <2>1, <2>6 DEF Resized, PreserveStart, PreserveEnd, ScanMetadata, Delete, RemoveRecord,
       LockResize, diskVars
  <2>7. CASE \/ Scan \/ PruneExpired \/ ReadDir \/ Scanned \/ PruneDone \/ DeleteDone
             \/ Clear \/ ClearDone \/ Crash \/ SetClock \/ UNCHANGED vars
    BY <2>1, <2>7 DEF Scan, PruneExpired, ReadDir, Scanned, PruneDone, DeleteDone, Clear,
       ClearDone, Crash, SetClock, vars, diskVars
  <2>8. QED
    BY <2>2, <2>3, <2>4, <2>5, <2>6, <2>7 DEF Next
<1>2. StoreInv /\ [Next]_vars =>
        [ui.op = "prune" => \A f \in present \ present' :
            \/ f \in live /\ f \notin live'
            \/ /\ f \notin live /\ record[f] = "valid" /\ f \notin NotRegular
               /\ preservedAt[f] <= ui.today - RetentionDays]_vars
  BY <1>1
<1>3. QED
  BY <1>2, StoreInvariant, PTL DEF Spec, PruneSafe

\* Delete: wherever it fails, and wherever the process dies, a staging file that
\* is still there has its record still.
THEOREM RecordsStay == Spec => RecordOutlivesStaging
<1>1. StoreInv /\ [Next]_vars => (ui.op # "clear" =>
        \A f \in present' : record[f] # "none" => record'[f] # "none")
  <2> SUFFICES ASSUME StoreInv, [Next]_vars, ui.op # "clear",
                      NEW g \in present', record[g] # "none", record'[g] = "none"
               PROVE  FALSE
    OBVIOUS
  <2>1. record' # record /\ record \in [File -> {"none", "valid", "bad"}]
    BY DEF StoreInv, TypeOK
  <2>2. ASSUME NEW f \in File, RemoveRecord(f) PROVE FALSE
    <3>1. f \in ui.half /\ present' = present /\ record' = [record EXCEPT ![f] = "none"]
      BY <2>1, <2>2 DEF RemoveRecord
    <3>2. g = f
      BY <2>1, <3>1
    <3>3. QED
      BY <3>1, <3>2 DEF StoreInv, DueOK
  <2>3. ASSUME NEW f \in File, PreserveEnd(f) PROVE FALSE
    <3>1. g \in File
      BY StoreStep DEF StoreInv, TypeOK
    <3>2. QED
      BY <2>1, <2>3, <3>1 DEF PreserveEnd
  <2>4. CASE \E f \in File : ClearEntry(f)
    BY <2>4 DEF ClearEntry
  <2>5. CASE \E f \in File : \/ Resized(f) \/ PreserveStart(f) \/ CloseRemove(f) \/ ScanMetadata(f)
                           \/ Delete(f) \/ RemoveStaging(f) \/ CreateStaging(f)
                           \/ \E n \in Sizes, kind \in {"write", "download"} : LockResize(f, kind, n)
    BY <2>1, <2>5 DEF Resized, PreserveStart, CloseRemove, ScanMetadata, Delete, RemoveStaging,
       CreateStaging, LockResize, diskVars
  <2>6. CASE \/ Scan \/ PruneExpired \/ ReadDir \/ Scanned \/ PruneDone \/ DeleteDone
             \/ Clear \/ ClearDone \/ Crash \/ SetClock \/ UNCHANGED vars
    BY <2>1, <2>6 DEF Scan, PruneExpired, ReadDir, Scanned, PruneDone, DeleteDone, Clear,
       ClearDone, Crash, SetClock, vars, diskVars
  <2>7. QED
    BY <2>2, <2>3, <2>4, <2>5, <2>6 DEF Next
<1>2. StoreInv /\ [Next]_vars =>
        [ui.op # "clear" => \A f \in present' :
            record[f] # "none" => record'[f] # "none"]_vars
  BY <1>1
<1>3. QED
  BY <1>2, StoreInvariant, PTL DEF Spec, RecordOutlivesStaging

\* Scan: whatever lay in the directory when it began, and still does, is among
\* the items it shows, though its record was written meanwhile.
THEOREM NothingIsHidden == Spec => NothingHidden
<1>1. StoreInv /\ [Next]_vars => (shown' # shown => shown' = Nothing
            \/ \A f \in ui.staged \intersect present : shown'[f] # NoItem)
  <2> SUFFICES ASSUME StoreInv, [Next]_vars, shown' # shown
               PROVE  shown' = Nothing \/ \A f \in ui.staged : shown'[f] # NoItem
    OBVIOUS
  <2>1. CASE Scanned
    <3>1. shown' = ScannedItems /\ \A f \in ui.records : ui.items[f] # NoItem
      BY <2>1 DEF Scanned
    <3>2. ui.staged \subseteq File
      BY DEF StoreInv, TypeOK, Ui
    <3>3. QED
      BY <3>1, <3>2, ScannedType
  <2>2. CASE Crash
    BY <2>2 DEF Crash
  <2>3. CASE \E f \in File : \/ CreateStaging(f) \/ Resized(f) \/ CloseRemove(f) \/ PreserveStart(f)
                           \/ PreserveEnd(f) \/ ScanMetadata(f) \/ Delete(f)
                           \/ RemoveStaging(f) \/ RemoveRecord(f) \/ ClearEntry(f)
                           \/ \E n \in Sizes, kind \in {"write", "download"} : LockResize(f, kind, n)
    BY <2>3 DEF CreateStaging, Resized, CloseRemove, PreserveStart, PreserveEnd, ScanMetadata, Delete,
       RemoveStaging, RemoveRecord, ClearEntry, LockResize
  <2>4. CASE \/ Scan \/ PruneExpired \/ ReadDir \/ PruneDone \/ DeleteDone
             \/ Clear \/ ClearDone \/ SetClock \/ UNCHANGED vars
    BY <2>4 DEF Scan, PruneExpired, ReadDir, PruneDone, DeleteDone, Clear, ClearDone, SetClock, vars
  <2>5. QED
    BY <2>1, <2>2, <2>3, <2>4 DEF Next
<1>2. StoreInv /\ [Next]_vars =>
        [shown' # shown => shown' = Nothing
            \/ \A f \in ui.staged \intersect present : shown'[f] # NoItem]_vars
  BY <1>1
<1>3. QED
  BY <1>2, StoreInvariant, PTL DEF Spec, NothingHidden

-----------------------------------------------------------------------------
(* The quota.                                                              *)

\* There is room for the write under way, and for one only: the check and the
\* write are one step of resizeMutex. What was never used weighs nothing.
Room ==
    /\ \A f \in File \ used : size[f] = 0
    /\ \A f \in File : op[f].pc \in {"write", "download"} => resizeMutex = f
    /\ \A f \in File : op[f].pc = "write" /\ op[f].to > size[f] /\ MaxTotalBytes > 0
          => StagingBytes <= MaxTotalBytes - (op[f].to - size[f])

RoomInv == StoreInv /\ Room

Weighed == present \ NotRegular

\* The bytes of the staging files are the sum of their sizes.
LEMMA BytesAre == StagingBytes = SumFunctionOnSet(size, Weighed)
BY DEF StagingBytes, MapThenSumSet, SumFunctionOnSet, FoldFunctionOnSet, Weighed

\* The same, after a step.
LEMMA BytesWillBe == StagingBytes' = SumFunctionOnSet(size', Weighed')
<1>1. (StagingBytes = SumFunctionOnSet(size, Weighed))'
  BY BytesAre, PTL
<1>2. QED
  BY <1>1

\* The files that are weighed are finitely many, each of some size.
LEMMA WeighedFinite ==
    ASSUME TypeOK
    PROVE  /\ IsFiniteSet(Weighed) /\ \A f \in Weighed : size[f] \in Nat
           /\ StagingBytes \in Nat
<1>1. Weighed \in SUBSET File /\ IsFiniteSet(File)
  BY StoreConstants DEF TypeOK, Weighed
<1>2. IsFiniteSet(Weighed) /\ \A f \in Weighed : size[f] \in Nat
  BY <1>1, FS_Subset DEF TypeOK
<1>3. QED
  BY <1>2, BytesAre, SumNat

\* Their bytes are a natural number after a step too.
LEMMA BytesStayNat == TypeOK' => StagingBytes' \in Nat
<1>1. TypeOK => StagingBytes \in Nat
  BY WeighedFinite
<1>2. (TypeOK => StagingBytes \in Nat)'
  BY <1>1, PTL
<1>3. QED
  BY <1>2

\* A step that changes no size makes the staging files weigh no more: what is new
\* is empty.
LEMMA NoHeavier ==
    ASSUME TypeOK, TypeOK', \A f \in File \ used : size[f] = 0, size' = size,
           present' \subseteq present \/ \E f \in File \ used : present' = present \union {f}
    PROVE  StagingBytes' <= StagingBytes
<1>1. StagingBytes' = SumFunctionOnSet(size, Weighed')
  BY BytesWillBe
<1>2. StagingBytes = SumFunctionOnSet(size, Weighed)
  BY BytesAre
<1>3. CASE present' \subseteq present
  <2>1. Weighed' \in SUBSET Weighed
    BY <1>3 DEF Weighed
  <2>2. QED
    BY <1>1, <1>2, <2>1, WeighedFinite, SumOfPart
<1>4. ASSUME NEW f \in File \ used, present' = present \union {f}, ~(present' \subseteq present)
      PROVE  StagingBytes' <= StagingBytes
  <2>1. CASE f \in NotRegular
    <3>1. Weighed' = Weighed
      BY <1>4, <2>1 DEF Weighed
    <3>2. QED
      BY <1>1, <1>2, <3>1, WeighedFinite
  <2>2. CASE f \notin NotRegular
    <3>1. Weighed' = Weighed \union {f} /\ f \notin Weighed /\ size[f] = 0
      BY <1>4, <2>2 DEF Weighed
    <3>2. IsFiniteSet(Weighed \union {f}) /\ \A g \in Weighed \union {f} : size[g] \in Nat
      BY <3>1, WeighedFinite, FS_AddElement
    <3>3. (Weighed \union {f}) \ {f} = Weighed
      BY <3>1
    <3>4. SumFunctionOnSet(size, Weighed \union {f}) =
            size[f] + SumFunctionOnSet(size, (Weighed \union {f}) \ {f})
      BY <3>2, SumRemove
    <3>5. QED
      BY <1>1, <1>2, <3>1, <3>3, <3>4, WeighedFinite
  <2>3. QED
    BY <2>1, <2>2
<1>5. QED
  BY <1>3, <1>4

\* totalRegularBytes counts the staging files and more.
LEMMA BytesWithinTotal ==
    ASSUME TypeOK
    PROVE  totalRegularBytes \in Nat /\ StagingBytes <= totalRegularBytes
<1>1. Records \in SUBSET File /\ IsFiniteSet(File) /\ MetadataBytes \in Nat /\ temps \in Nat
  BY StoreConstants DEF Records, TypeOK
<1>2. Cardinality(Records) \in Nat
  BY <1>1, FS_Subset, FS_CardinalityType
<1> DEFINE n == Cardinality(Records) + temps
<1>3. n \in Nat
  BY <1>1, <1>2
<1>4. \A a, b \in Nat : a * b \in Nat
  OBVIOUS
<1> HIDE DEF n
<1>5. MetadataBytes * n \in Nat
  BY <1>1, <1>3, <1>4
<1>6. totalRegularBytes = StagingBytes + MetadataBytes * n
  BY DEF totalRegularBytes, n
<1> DEFINE m == MetadataBytes * n
<1>7. m \in Nat /\ totalRegularBytes = StagingBytes + m
  BY <1>5, <1>6
<1> HIDE DEF m
<1>8. QED
  BY <1>7, WeighedFinite

\* A step that starts and ends no change of size, and makes nothing heavier.
LEMMA RoomStays ==
    ASSUME RoomInv, StoreInv', size' = size, used \subseteq used',
           \A f \in File : op'[f].pc \in {"write", "download"} =>
                op'[f] = op[f] /\ resizeMutex' = resizeMutex,
           present' \subseteq present \/ \E f \in File \ used : present' = present \union {f}
    PROVE  Room'
<1>1. TypeOK /\ TypeOK' /\ \A f \in File \ used : size[f] = 0
  BY DEF RoomInv, StoreInv, Room
<1>2. StagingBytes' <= StagingBytes /\ StagingBytes \in Nat
  BY <1>1, NoHeavier, WeighedFinite
<1>3. StagingBytes' \in Nat
  BY <1>1, BytesStayNat
<1>4. \A f \in File \ used' : size'[f] = 0
  BY <1>1
<1>5. \A f \in File : op'[f].pc \in {"write", "download"} => resizeMutex' = f
  BY DEF RoomInv, Room
<1>6. ASSUME NEW f \in File, op'[f].pc = "write", op'[f].to > size'[f], MaxTotalBytes > 0
      PROVE  StagingBytes' <= MaxTotalBytes - (op'[f].to - size'[f])
  <2>1. op'[f] = op[f] /\ size'[f] = size[f]
    BY <1>6
  <2>2. StagingBytes <= MaxTotalBytes - (op[f].to - size[f])
    BY <1>6, <2>1 DEF RoomInv, Room
  <2>3. op[f].to \in Nat /\ size[f] \in Nat /\ MaxTotalBytes \in Nat
    BY <1>1, StoreConstants DEF TypeOK, HandleOp
  <2>4. QED
    BY <1>2, <1>3, <2>1, <2>2, <2>3
<1>7. QED
  BY <1>4, <1>5, <1>6 DEF Room

\* LockResize: nobody else changes a size, and there is room.
LEMMA LockGivesRoom ==
    ASSUME RoomInv, NEW f \in File, NEW n \in Sizes, NEW kind \in {"write", "download"},
           LockResize(f, kind, n)
    PROVE  Room'
<1> DEFINE todo == [pc |-> kind, to |-> n]
<1>1. /\ f \in live /\ resizeMutex = None /\ WithinLimits(f, n) /\ resizeMutex' = f
      /\ op' = [op EXCEPT ![f] = todo] /\ UNCHANGED <<used, present, size>>
  BY DEF LockResize, diskVars
<1>2. todo.pc = kind /\ todo.to = n
  OBVIOUS
<1> HIDE DEF todo
<1>3. /\ op' = [op EXCEPT ![f] = todo] /\ op \in [File -> HandleOp] /\ TypeOK
      /\ n \in Nat /\ size[f] \in Nat /\ MaxTotalBytes \in Nat /\ None \notin File
  BY <1>1, StoreConstants DEF RoomInv, StoreInv, TypeOK
<1>4. op'[f] = todo /\ \A g \in File \ {f} : op'[g] = op[g]
  BY <1>3
<1>5. \A g \in File : op[g].pc \notin {"write", "download"}
  BY <1>1, <1>3 DEF RoomInv, Room
<1>6. StagingBytes' = StagingBytes
  <2>1. Weighed' = Weighed /\ size' = size
    BY <1>1 DEF Weighed
  <2>2. QED
    BY <2>1, BytesAre, BytesWillBe
<1>7. ASSUME n > size[f], MaxTotalBytes > 0
      PROVE  StagingBytes <= MaxTotalBytes - (n - size[f])
  <2>1. totalRegularBytes <= MaxTotalBytes - (n - size[f])
    BY <1>1, <1>7 DEF WithinLimits
  <2>2. QED
    BY <1>3, <2>1, BytesWithinTotal, WeighedFinite
<1>8. QED
  BY <1>1, <1>2, <1>4, <1>5, <1>6, <1>7 DEF RoomInv, Room

\* The change of size ends: no write is under way any more, and one that made the
\* file larger stays within the quota.
LEMMA ResizedWithinQuota ==
    ASSUME RoomInv, NEW f \in File, Resized(f)
    PROVE  /\ Room'
           /\ op[f].pc = "write" /\ size'[f] > size[f] /\ MaxTotalBytes > 0
                => StagingBytes' <= MaxTotalBytes
           /\ \A g \in File \ {f} : size'[g] = size[g]
<1>1. /\ op[f].pc \in {"write", "download"} /\ op' = [op EXCEPT ![f] = Quiet] /\ resizeMutex' = None
      /\ UNCHANGED <<used, present>> /\ TypeOK
  BY DEF Resized, RoomInv, StoreInv
<1>2. PICK n \in IF op[f].pc = "download" THEN Sizes ELSE {size[f], op[f].to} :
        size' = [size EXCEPT ![f] = n]
  BY DEF Resized
<1>3. /\ op \in [File -> HandleOp] /\ size \in [File -> Nat] /\ MaxTotalBytes \in Nat
      /\ op[f].to \in Nat /\ f \in live /\ Quiet.pc = "quiet"
  <2>1. op \in [File -> HandleOp] /\ size \in [File -> Nat] /\ MaxTotalBytes \in Nat
    BY <1>1, StoreConstants DEF TypeOK
  <2>2. op[f] # Quiet /\ Quiet.pc = "quiet"
    BY <1>1 DEF Quiet
  <2>3. QED
    BY <2>1, <2>2 DEF HandleOp, RoomInv, StoreInv, HandlesOK
<1>4. \A g \in File : op'[g].pc \notin {"write", "download"}
  <2>1. op'[f] = Quiet /\ \A g \in File \ {f} : op'[g] = op[g]
    BY <1>1, <1>3
  <2>2. \A g \in File \ {f} : op[g].pc \notin {"write", "download"}
    BY <1>1 DEF RoomInv, Room
  <2>3. QED
    BY <1>3, <2>1, <2>2
<1>5. \A g \in File \ {f} : size'[g] = size[g]
  BY <1>2, <1>3
<1>6. f \in Weighed /\ f \in used /\ Weighed' = Weighed
  BY <1>1, <1>3 DEF RoomInv, StoreInv, RecordsOK, TypeOK, Weighed
<1>7. Room'
  BY <1>1, <1>4, <1>5, <1>6 DEF RoomInv, Room
<1>8. ASSUME op[f].pc = "write", size'[f] > size[f], MaxTotalBytes > 0
      PROVE  StagingBytes' <= MaxTotalBytes
  <2>1. size'[f] = op[f].to /\ op[f].to > size[f]
    BY <1>2, <1>3, <1>8
  <2>2. StagingBytes <= MaxTotalBytes - (op[f].to - size[f])
    BY <1>8, <2>1 DEF RoomInv, Room
  <2>3. IsFiniteSet(Weighed) /\ \A g \in Weighed : size[g] \in Nat
    BY <1>1, WeighedFinite
  <2>4. \A g \in Weighed : size'[g] \in Nat
    <3>1. Weighed \subseteq File
      BY <1>1 DEF Weighed, TypeOK
    <3>2. QED
      BY <1>3, <1>5, <2>1, <3>1
  <2>5. SumFunctionOnSet(size, Weighed) = size[f] + SumFunctionOnSet(size, Weighed \ {f})
    BY <1>6, <2>3, SumRemove
  <2>6. SumFunctionOnSet(size', Weighed) = size'[f] + SumFunctionOnSet(size', Weighed \ {f})
    BY <1>6, <2>3, <2>4, SumRemove
  <2>7. /\ SumFunctionOnSet(size', Weighed \ {f}) = SumFunctionOnSet(size, Weighed \ {f})
        /\ SumFunctionOnSet(size, Weighed \ {f}) \in Nat
    <3>1. IsFiniteSet(Weighed \ {f})
      BY <2>3, FS_RemoveElement
    <3>2. \A g \in Weighed \ {f} : size'[g] = size[g] /\ size[g] \in Nat
      <4>1. Weighed \subseteq File
        BY <1>1 DEF Weighed, TypeOK
      <4>2. QED
        BY <1>5, <2>3, <4>1
    <3>3. QED
      BY <3>1, <3>2, SumSame, SumNat
  <2>8. StagingBytes' = SumFunctionOnSet(size', Weighed)
    BY <1>6, BytesWillBe
  <2>9. QED
    BY <1>3, <2>1, <2>2, <2>5, <2>6, <2>7, <2>8, BytesAre
<1>9. QED
  BY <1>5, <1>7, <1>8

\* Every other step changes no size.
LEMMA OtherStepsKeepRoom ==
    ASSUME RoomInv, [Next]_vars, ~(\E f \in File : Resized(f)),
           ~(\E f \in File, n \in Sizes, kind \in {"write", "download"} : LockResize(f, kind, n))
    PROVE  size' = size /\ Room'
<1>1. StoreInv'
  BY StoreStep DEF RoomInv
<1>2. TypeOK /\ op \in [File -> HandleOp]
  BY DEF RoomInv, StoreInv, TypeOK
<1>3. /\ size' = size /\ used \subseteq used'
      /\ \A f \in File : op'[f].pc \in {"write", "download"} =>
                op'[f] = op[f] /\ resizeMutex' = resizeMutex
      /\ present' \subseteq present \/ \E f \in File \ used : present' = present \union {f}
  <2>1. CASE \E f \in File : CreateStaging(f)
    BY <2>1 DEF CreateStaging
  <2>2. CASE \E f \in File : CloseRemove(f)
    BY <2>2 DEF CloseRemove
  <2>3. CASE \E f \in File : PreserveStart(f)
    BY <1>2, <2>3 DEF PreserveStart
  <2>4. CASE \E f \in File : PreserveEnd(f)
    BY <1>2, <2>4 DEF PreserveEnd, Quiet
  <2>5. CASE \E f \in File : ScanMetadata(f) \/ Delete(f) \/ RemoveStaging(f) \/ RemoveRecord(f) \/ ClearEntry(f)
    BY <2>5 DEF ScanMetadata, Delete, RemoveStaging, RemoveRecord, ClearEntry, diskVars, handleVars
  <2>6. CASE Crash
    BY <2>6 DEF Crash, diskVars, Quiet
  <2>7. CASE \/ Scan \/ PruneExpired \/ ReadDir \/ Scanned \/ PruneDone \/ DeleteDone
             \/ Clear \/ ClearDone \/ SetClock \/ UNCHANGED vars
    BY <2>7 DEF Scan, PruneExpired, ReadDir, Scanned, PruneDone, DeleteDone, Clear, ClearDone,
       SetClock, vars, diskVars, handleVars
  <2>8. QED
    BY <2>1, <2>2, <2>3, <2>4, <2>5, <2>6, <2>7 DEF Next
<1>4. QED
  BY <1>1, <1>3, RoomStays

\* LockResize: no write makes the staging files outgrow MaxTotalBytes, however
\* many handles of however many drives write at once.
THEOREM QuotaIsKept == Spec => WritesWithinQuota
<1>1. Init => RoomInv
  <2> SUFFICES ASSUME Init PROVE RoomInv
    OBVIOUS
  <2>1. \A f \in File \ used : size[f] = 0
    BY DEF Init
  <2>2. \A f \in File : op[f].pc \notin {"write", "download"}
    BY DEF Init, Quiet
  <2>3. QED
    BY <2>1, <2>2, StoreInit DEF RoomInv, Room
<1>2. RoomInv /\ [Next]_vars =>
        /\ RoomInv'
        /\ \A f \in File : op[f].pc = "write" /\ size'[f] > size[f] /\ MaxTotalBytes > 0
                => StagingBytes' <= MaxTotalBytes
  <2> SUFFICES ASSUME RoomInv, [Next]_vars
               PROVE  /\ Room'
                      /\ \A f \in File : op[f].pc = "write" /\ size'[f] > size[f] /\ MaxTotalBytes > 0
                            => StagingBytes' <= MaxTotalBytes
    BY StoreStep DEF RoomInv
  <2>1. \A f \in File : size[f] \in Nat
    BY DEF RoomInv, StoreInv, TypeOK
  <2>2. CASE \E f \in File : Resized(f)
    BY <2>1, <2>2, ResizedWithinQuota
  <2>3. CASE \E f \in File, n \in Sizes, kind \in {"write", "download"} : LockResize(f, kind, n)
    <3>1. size' = size
      BY <2>3 DEF LockResize, diskVars
    <3>2. QED
      BY <2>1, <2>3, <3>1, LockGivesRoom
  <2>4. CASE ~(\E f \in File : Resized(f)) /\
             ~(\E f \in File, n \in Sizes, kind \in {"write", "download"} : LockResize(f, kind, n))
    BY <2>1, <2>4, OtherStepsKeepRoom
  <2>5. QED
    BY <2>2, <2>3, <2>4
<1>3. RoomInv /\ [Next]_vars =>
        [\A f \in File : op[f].pc = "write" /\ size'[f] > size[f] /\ MaxTotalBytes > 0
            => StagingBytes' <= MaxTotalBytes]_vars
  BY <1>2
<1>4. RoomInv /\ [Next]_vars => RoomInv'
  BY <1>2
<1>5. QED
  BY <1>1, <1>3, <1>4, PTL DEF Spec, WritesWithinQuota
====
