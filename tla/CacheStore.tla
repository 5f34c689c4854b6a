---- MODULE CacheStore ----
(***************************************************************************)
(* The cache directory: internal/cache/store.go. Handles of mounted drives *)
(* create, grow, preserve and remove staging files; the desktop scans,     *)
(* prunes, deletes and clears. Both sides work on the same directory       *)
(* without a common lock (resizeMutex orders size changes only), any file  *)
(* operation may fail, and the process may die between two of them.        *)
(*                                                                         *)
(* A staging file is named by a member of File; os.CreateTemp never reuses *)
(* a name. Its recovery record lies next to it. The directory at start is  *)
(* what earlier runs, and people with a file manager, may have left.       *)
(***************************************************************************)
EXTENDS Integers, FiniteSets, FiniteSetsExt

CONSTANTS
    File,           \* staging-* names
    NotRegular,     \* those that are symbolic links, put there by hand
    Sizes,          \* sizes of staging files
    MaxFileBytes, MaxTotalBytes, MetadataBytes,
    RetentionDays,
    Days,           \* what the wall clock may show
    None,
    MaxTemps        \* bound of the model: temporary files left by crashes

ASSUME StoreConstants ==
    /\ IsFiniteSet(File) /\ NotRegular \subseteq File /\ None \notin File
    /\ Sizes \subseteq Nat /\ 0 \in Sizes /\ Days \subseteq Nat /\ Days # {}
    /\ {MaxFileBytes, MaxTotalBytes, MetadataBytes, MaxTemps} \subseteq Nat
    /\ RetentionDays \in Nat \ {0}

VARIABLES
    used,         \* the names given out so far
    present,      \* the staging files on disk
    size,         \* their sizes
    record,       \* record[f]: none, valid, or bad (unreadable, foreign version, other path)
    preservedAt,  \* PreservedAt of a record
    temps,        \* how many .recovery-metadata-*.tmp files there are
    live,         \* the staging files that open handles use
    op,           \* op[f]: what f's handle is doing
    resizeMutex,  \* its holder
    ui,           \* the desktop's operation on the directory
    shown,        \* the recovery dialog's items
    today         \* external: the wall clock

handleVars == <<live, op, resizeMutex>>
diskVars == <<used, present, size, record, preservedAt, temps>>
vars == <<diskVars, handleVars, ui, shown, today>>

States == {"preserved", "missing_metadata", "missing_staging", "invalid_metadata",
           "unsafe_staging"}
Item == [state : States, recorded : BOOLEAN, at : Nat]
NoItem == [state |-> "unlisted", recorded |-> FALSE, at |-> 0]
Items == [File -> Item \union {NoItem}]
Nothing == [f \in File |-> NoItem]

Quiet == [pc |-> "quiet", to |-> 0]
HandleOp == [pc : {"quiet", "write", "download", "record"}, to : Nat]

NoUi == [op |-> "none", at |-> "idle", starting |-> FALSE, records |-> {}, staged |-> {},
         items |-> Nothing, due |-> {}, half |-> {}, today |-> 0]
Ui == [op : {"none", "scan", "prune", "delete", "clear"},
       at : {"idle", "list", "read", "remove", "record"},
       starting : BOOLEAN,       \* the main window is not open yet
       records : SUBSET File, staged : SUBSET File,  \* the directory's entries
       items : Items,
       due : SUBSET File,        \* the items to delete
       half : SUBSET File,       \* the one whose staging file is already gone
       today : Nat]
StartPrune(day) == [NoUi EXCEPT !.op = "prune", !.at = "list", !.today = day]
StartScan == [NoUi EXCEPT !.op = "scan", !.at = "list", !.starting = ui.starting]

\* The program starts with PruneExpired, over whatever is in the directory.
Init ==
    /\ present \in SUBSET File /\ NotRegular \subseteq present
    /\ size \in [File -> Sizes] /\ \A f \in File \ present : size[f] = 0
    /\ record \in [File -> {"none", "valid", "bad"}]
    /\ preservedAt \in [File -> Days]
    /\ \A f \in File : record[f] = "none" => preservedAt[f] = CHOOSE d \in Days : TRUE
    /\ used = present \union {f \in File : record[f] # "none"}
    /\ temps = 0 /\ live = {} /\ op = [f \in File |-> Quiet] /\ resizeMutex = None
    /\ today \in Days
    /\ ui = [StartPrune(today) EXCEPT !.starting = TRUE]
    /\ shown = Nothing

-----------------------------------------------------------------------------
(* Handles of mounted drives.                                              *)

\* OpenFile. The desktop's duty: no drive is mounted while it deletes.
CreateStaging(f) ==
    /\ f \notin used /\ ~ui.starting /\ ui.op \notin {"delete", "clear"}
    /\ used' = used \union {f}
    /\ present' = present \union {f} /\ live' = live \union {f}
    /\ UNCHANGED <<size, record, preservedAt, temps, op, resizeMutex, ui, shown, today>>

StagingBytes == MapThenSumSet(LAMBDA f : size[f], present \ NotRegular)
Records == {f \in File : record[f] # "none"}
totalRegularBytes == StagingBytes + MetadataBytes * (Cardinality(Records) + temps)

WithinLimits(f, newSize) ==
    /\ MaxFileBytes > 0 => newSize <= MaxFileBytes
    /\ MaxTotalBytes > 0 /\ newSize > size[f] =>
            totalRegularBytes <= MaxTotalBytes - (newSize - size[f])

\* Mutant: the mutex is given back right after the check.
LockResizeNotHeld(f, kind, newSize) ==
    /\ f \in live /\ op[f] = Quiet /\ resizeMutex = None
    /\ WithinLimits(f, newSize)
    /\ op' = [op EXCEPT ![f] = [pc |-> kind, to |-> newSize]]
    /\ UNCHANGED <<diskVars, live, resizeMutex, ui, shown, today>>

\* The check before a Write, WriteAt, Truncate or download; it keeps the mutex
\* (of all drives of the process) until the size has changed.
LockResize(f, kind, newSize) ==
    /\ f \in live /\ op[f] = Quiet /\ resizeMutex = None
    /\ WithinLimits(f, newSize)
    /\ resizeMutex' = f
    /\ op' = [op EXCEPT ![f] = [pc |-> kind, to |-> newSize]]
    /\ UNCHANGED <<diskVars, live, ui, shown, today>>

\* The write ends, perhaps short of its size; a download copies what the server
\* sends, which need not be of the size its directory entry gave.
Resized(f) ==
    /\ op[f].pc \in {"write", "download"}
    /\ \E n \in IF op[f].pc = "download" THEN Sizes ELSE {size[f], op[f].to} :
        size' = [size EXCEPT ![f] = n]
    /\ op' = [op EXCEPT ![f] = Quiet]
    /\ resizeMutex' = None
    /\ UNCHANGED <<used, present, record, preservedAt, temps, live, ui, shown, today>>

\* Mutant: Close does not wait for the handle's mutex.
CloseRemoveBusy(f) ==
    /\ f \in live
    /\ present' \in {present \ {f}, present}
    /\ live' = live \ {f}
    /\ UNCHANGED <<used, size, record, preservedAt, temps, op, resizeMutex, ui, shown, today>>

\* A failed open, or Close of a clean handle: its staging file is removed.
CloseRemove(f) ==
    /\ f \in live /\ op[f] = Quiet
    /\ present' \in {present \ {f}, present}
    /\ live' = live \ {f}
    /\ UNCHANGED <<used, size, record, preservedAt, temps, op, resizeMutex, ui, shown, today>>

\* Preserve: the record is written to a temporary file and then renamed.
PreserveStart(f) ==
    /\ f \in live /\ op[f] = Quiet
    /\ temps < MaxTemps /\ temps' = temps + 1
    /\ op' = [op EXCEPT ![f] = [pc |-> "record", to |-> today]]
    /\ UNCHANGED <<used, present, size, record, preservedAt, live, resizeMutex, ui, shown, today>>

PreserveEnd(f) ==
    /\ op[f].pc = "record"
    /\ \/ /\ record' = [record EXCEPT ![f] = "valid"]
          /\ preservedAt' = [preservedAt EXCEPT ![f] = op[f].to]
          /\ temps' = temps - 1
       \/ UNCHANGED <<record, preservedAt>> /\ temps' \in {temps - 1, temps}
    /\ live' = live \ {f} /\ op' = [op EXCEPT ![f] = Quiet]
    /\ UNCHANGED <<used, present, size, resizeMutex, ui, shown, today>>

-----------------------------------------------------------------------------
(* Scan, alone or as the first half of PruneExpired.                       *)

Scan ==
    /\ ui.op = "none"
    /\ ui' = StartScan
    /\ UNCHANGED <<diskVars, handleVars, shown, today>>

\* The dialog's Refresh.
PruneExpired ==
    /\ ui.op = "none"
    /\ ui' = StartPrune(today)
    /\ UNCHANGED <<diskVars, handleVars, shown, today>>

ReadDir ==
    /\ ui.at = "list" /\ ui.op \in {"scan", "prune"}
    /\ ui' = [ui EXCEPT !.at = "read", !.records = Records, !.staged = present]
    /\ UNCHANGED <<diskVars, handleVars, shown, today>>

\* scanMetadata, against the directory as it is by then.
RecordState(f) ==
    IF record[f] # "valid" THEN "invalid_metadata"
    ELSE IF f \notin present THEN "missing_staging"
    ELSE IF f \in NotRegular THEN "unsafe_staging" ELSE "preserved"

ScanMetadata(f) ==
    /\ ui.at = "read" /\ f \in ui.records /\ ui.items[f] = NoItem
    /\ ui' = [ui EXCEPT !.items[f] = [state |-> RecordState(f), recorded |-> TRUE,
                                      at |-> preservedAt[f]]]
    /\ UNCHANGED <<diskVars, handleVars, shown, today>>

Unrecorded(f) ==
    [state |-> IF f \in NotRegular THEN "unsafe_staging" ELSE "missing_metadata",
     recorded |-> FALSE, at |-> 0]

\* Mutant: the second loop looks at the directory's records as they are by then.
ScannedItemsRelisted ==
    [f \in File |-> IF f \in ui.staged \ Records THEN Unrecorded(f) ELSE ui.items[f]]

ScannedItems ==
    [f \in File |-> IF f \in ui.staged \ ui.records THEN Unrecorded(f) ELSE ui.items[f]]

\* Mutant: items with a damaged record expire too.
ExpiredAnyRecord(items) ==
    {f \in File : items[f].recorded /\ items[f].at <= ui.today - RetentionDays}

Expired(items) ==
    {f \in File : items[f].state = "preserved" /\ items[f].at <= ui.today - RetentionDays}

Scanned ==
    /\ ui.at = "read" /\ \A f \in ui.records : ui.items[f] # NoItem
    /\ IF ui.op = "prune"
       THEN /\ ui' = [ui EXCEPT !.at = "remove", !.items = ScannedItems,
                                !.due = Expired(ScannedItems)]
            /\ UNCHANGED shown
       ELSE ui' = NoUi /\ shown' = ScannedItems
    /\ UNCHANGED <<diskVars, handleVars, today>>

\* After PruneExpired the desktop scans again for what is left.
PruneDone ==
    /\ ui.op = "prune" /\ ui.at = "remove" /\ ui.due = {}
    /\ ui' = StartScan
    /\ UNCHANGED <<diskVars, handleVars, shown, today>>

-----------------------------------------------------------------------------
(* Delete: the staging file first, then its record.                        *)

\* Delete of an item the dialog shows, no drive being mounted.
Delete(f) ==
    /\ ui.op = "none" /\ live = {} /\ shown[f] # NoItem
    /\ ui' = [NoUi EXCEPT !.op = "delete", !.at = "remove", !.items = shown, !.due = {f}]
    /\ UNCHANGED <<diskVars, handleVars, shown, today>>

Without(f) == [ui EXCEPT !.due = @ \ {f}, !.half = {}, !.at = "remove"]

\* Mutant: the record goes first.
RemoveStagingLast(f) ==
    /\ ui.op \in {"prune", "delete"} /\ ui.at = "remove" /\ f \in ui.due
    /\ \/ /\ record' = [record EXCEPT ![f] = "none"] /\ UNCHANGED present
          /\ ui' = [ui EXCEPT !.at = "record", !.half = {f}]
       \/ UNCHANGED <<record, present>> /\ ui' = Without(f)
    /\ UNCHANGED <<used, size, preservedAt, temps, handleVars, shown, today>>

\* A staging file that cannot be removed keeps its record.
RemoveStaging(f) ==
    /\ ui.op \in {"prune", "delete"} /\ ui.at = "remove" /\ f \in ui.due
    /\ \/ /\ present' = present \ {f}
          /\ ui' = IF ui.items[f].recorded THEN [ui EXCEPT !.at = "record", !.half = {f}]
                   ELSE Without(f)
       \/ UNCHANGED present /\ f \in present /\ ui' = Without(f)
    /\ UNCHANGED <<used, size, record, preservedAt, temps, handleVars, shown, today>>

RemoveRecord(f) ==
    /\ f \in ui.half
    /\ \/ record' = [record EXCEPT ![f] = "none"]
       \/ UNCHANGED record
    /\ ui' = Without(f)
    /\ UNCHANGED <<used, present, size, preservedAt, temps, handleVars, shown, today>>

DeleteDone ==
    /\ ui.op = "delete" /\ ui.at = "remove" /\ ui.due = {}
    /\ ui' = StartScan
    /\ UNCHANGED <<diskVars, handleVars, shown, today>>

\* Clear removes all it can, in the order of the names: a staging file, then
\* its record.
Clear ==
    /\ ui.op = "none" /\ live = {}
    /\ ui' = [NoUi EXCEPT !.op = "clear", !.at = "remove", !.staged = present,
                          !.records = Records]
    /\ temps' \in 0 .. temps
    /\ UNCHANGED <<used, present, size, record, preservedAt, handleVars, shown, today>>

ClearEntry(f) ==
    /\ ui.op = "clear"
    /\ \/ /\ f \in ui.staged /\ present' \in {present \ {f}, present}
          /\ ui' = [ui EXCEPT !.staged = @ \ {f}]
          /\ UNCHANGED record
       \/ /\ f \in ui.records \ ui.staged
          /\ record' \in {[record EXCEPT ![f] = "none"], record}
          /\ ui' = [ui EXCEPT !.records = @ \ {f}]
          /\ UNCHANGED present
    /\ UNCHANGED <<used, size, preservedAt, temps, handleVars, shown, today>>

ClearDone ==
    /\ ui.op = "clear" /\ ui.staged = {} /\ ui.records = {}
    /\ ui' = NoUi
    /\ UNCHANGED <<diskVars, handleVars, shown, today>>

-----------------------------------------------------------------------------
(* External.                                                               *)

\* The process dies and is started again.
Crash ==
    /\ live' = {} /\ op' = [f \in File |-> Quiet] /\ resizeMutex' = None
    /\ ui' = [StartPrune(today) EXCEPT !.starting = TRUE] /\ shown' = Nothing
    /\ UNCHANGED <<diskVars, today>>

SetClock ==
    /\ today' \in Days
    /\ UNCHANGED <<diskVars, handleVars, ui, shown>>

Next ==
    \/ \E f \in File :
        \/ CreateStaging(f) \/ Resized(f) \/ CloseRemove(f)
        \/ \E n \in Sizes, kind \in {"write", "download"} : LockResize(f, kind, n)
        \/ PreserveStart(f) \/ PreserveEnd(f)
        \/ ScanMetadata(f) \/ Delete(f) \/ RemoveStaging(f) \/ RemoveRecord(f)
        \/ ClearEntry(f)
    \/ Scan \/ PruneExpired \/ ReadDir \/ Scanned \/ PruneDone \/ DeleteDone
    \/ Clear \/ ClearDone \/ Crash \/ SetClock

Spec == Init /\ [][Next]_vars

-----------------------------------------------------------------------------
(* Properties.                                                             *)

\* Every variable holds a value of its kind; no count goes below zero, and only
\* an open handle holds resizeMutex.
TypeOK ==
    /\ used \subseteq File /\ present \subseteq used /\ live \subseteq used
    /\ size \in [File -> Nat]
    /\ record \in [File -> {"none", "valid", "bad"}] /\ preservedAt \in [File -> Nat]
    /\ temps \in Nat /\ op \in [File -> HandleOp] /\ resizeMutex \in live \union {None}
    /\ ui \in Ui /\ shown \in Items /\ today \in Nat

\* PruneExpired: what it removes is, at the moment of the removal and not only
\* when it was scanned, no handle's staging file, and has a sound record that
\* is older than the retention period.
PruneSafe ==
    [][ui.op = "prune" => \A f \in present \ present' :
            \/ f \in live /\ f \notin live'
            \/ /\ f \notin live /\ record[f] = "valid" /\ f \notin NotRegular
               /\ preservedAt[f] <= ui.today - RetentionDays]_vars

\* Delete: whatever fails, and wherever the process dies, a staging file never
\* loses its record; it would turn up as a file nobody can attribute, which
\* neither expires nor can be retried. (Clear gives no such promise.)
RecordOutlivesStaging ==
    [][ui.op # "clear" => \A f \in present' :
            record[f] # "none" => record'[f] # "none"]_vars

\* Scan: no staging file is hidden. Whatever lay in the directory when a scan
\* began, and still does, is among its items, though Preserve may have written
\* its record meanwhile.
NothingHidden ==
    [][shown' # shown => shown' = Nothing
            \/ \A f \in ui.staged \intersect present : shown'[f] # NoItem]_vars

\* LockResize: no write makes the staging files outgrow MaxTotalBytes, however
\* many handles of however many drives write. (Downloads may.)
WritesWithinQuota ==
    [][\A f \in File : op[f].pc = "write" /\ size'[f] > size[f] /\ MaxTotalBytes > 0
            => StagingBytes' <= MaxTotalBytes]_vars
====
