---- MODULE RecoveryDialog ----
(***************************************************************************)
(* The dialog for preserved cache files (desktop/recovery_windows.go) and  *)
(* the retry of an upload it starts (recovery/retry.go). The UI thread     *)
(* runs the dialog's commands; one goroutine retries and posts its result. *)
(* A message box disables the dialog, but its message loop still handles   *)
(* the retry's result and the main window's commands: boxes holds the open *)
(* boxes, innermost first.                                                 *)
(*                                                                         *)
(* dialog.items is a set: Scan lists it in a fixed order, that of the      *)
(* numbers in File, and dialog.selected and a retry's index count in it    *)
(* from 0. Other clients may make or remove a file on the server at any    *)
(* moment, so each look at it may find it or not. The drives and the rest  *)
(* of the main window are the environment.                                 *)
(***************************************************************************)
EXTENDS Integers, Sequences, FiniteSets

CONSTANTS
    File,           \* recovery items, numbered in the order Scan lists them
    Preserved,      \* those with a sound record, which can be retried
    Expired,        \* those PruneExpired finds too old
    None,
    MaxAlternates,  \* bounds of the model: how often AlternatePath is applied,
    MaxBoxes        \* and how many boxes are open when exit is chosen again

ASSUME RecoveryConstants ==
    /\ File \subseteq Nat /\ IsFiniteSet(File) /\ None \notin File
    /\ Expired \subseteq Preserved /\ Preserved \subseteq File
    /\ {MaxAlternates, MaxBoxes} \subseteq Nat

VARIABLES
    disk,       \* the recovery items in the cache directory
    used,       \* those that have ever been there: os.CreateTemp reuses no name
    shown,      \* the dialog exists
    items,      \* dialog.items
    selected,   \* dialog.selected
    deletable,  \* the delete button is enabled
    busy,       \* dialog.busy
    retry,      \* the retry goroutine and its result
    boxes,      \* open message boxes of the dialog
    confirmed,  \* history: the items a retry found or put on the server
    agreed,     \* history: the targets this retry was told to overwrite
    connected,  \* ownerWindow.anyConnected()
    clearing,   \* the main window's question whether to clear the cache is open
    window      \* the main window: open, exiting (its last task runs), gone when
                \* that task ended, or ended with the Windows session

dialogVars == <<shown, items, selected, deletable, busy, boxes>>
outside == <<used, connected, clearing, window>>
vars == <<disk, dialogVars, retry, confirmed, agreed, outside>>

\* The remote path in an item's record (RelativePath), and how often
\* AlternatePath has made another name of it.
Target == [of : File, alt : 0..MaxAlternates]
RelativePath(f) == [of |-> f, alt |-> 0]
AlternatePath(t) == [t EXCEPT !.alt = @ + 1]

NoRetry == [pc |-> "none", index |-> 0, item |-> None, target |-> None,
            inspect |-> FALSE, state |-> "unknown", failed |-> FALSE]
Retry == [pc : {"none", "open", "inspect", "upload", "sending", "posted"},
          index : Nat, item : File \union {None}, target : Target \union {None},
          inspect : BOOLEAN,
          state : {"unknown", "missing", "same", "conflict", "uploaded"},
          failed : BOOLEAN]    \* result.err is not nil

Box(kind, f) == [kind |-> kind, item |-> f, index |-> 0, target |-> None]
Note == Box("note", None)
BoxType == [kind : {"note", "kept", "retry", "delete", "offer", "conflict"},
            item : File \union {None}, index : Nat, target : Target \union {None}]

Init ==
    /\ disk \in SUBSET File /\ used = disk
    /\ shown = FALSE /\ items = {} /\ selected = -1 /\ deletable = FALSE
    /\ busy = FALSE /\ retry = NoRetry /\ boxes = <<>>
    /\ confirmed = {} /\ agreed = {}
    /\ connected = FALSE /\ clearing = FALSE /\ window = "open"

InRange(i, S) == 0 <= i /\ i < Cardinality(S)
Nth(S, i) == CHOOSE f \in S : Cardinality({e \in S : e < f}) = i

\* The main window is there, and with it the process.
Living == window \in {"open", "exiting"}

\* The dialog's controls can be used: no box has disabled it.
Ready == shown /\ Living /\ boxes = <<>>
Top(kind) == Living /\ boxes # <<>> /\ Head(boxes).kind = kind

\* Windows lets nobody remove a file that is open for reading (os.Open).
InUse == IF retry.pc = "sending" THEN {retry.item} ELSE {}

-----------------------------------------------------------------------------
(* refresh, with disk d and the boxes rest below; then is shown after it.  *)

Prunable(d) == IF connected THEN {{}} ELSE SUBSET ((d \intersect Expired) \ InUse)

\* Mutant: a selection past the end moves up by one row.
ReselectedPrevious(S, i) == IF ~InRange(i, S) THEN i - 1 ELSE i

Reselected(S, i) == IF ~InRange(i, S) THEN (IF S = {} THEN -1 ELSE 0) ELSE i

Refresh(d, rest, then) ==
    \E gone \in Prunable(d) :
        /\ disk' = d \ gone
        /\ \/ /\ items' = d \ gone /\ selected' = Reselected(d \ gone, selected)
              /\ deletable' = (d \ gone # {})
              /\ boxes' = then \o rest
           \/ /\ items' \in {items, d \ gone}     \* PruneExpired, Scan or Usage failed
              /\ boxes' = <<Note>> \o rest
              /\ UNCHANGED <<selected, deletable>>

RefreshClicked ==
    /\ Ready /\ ~busy
    /\ Refresh(disk, <<>>, <<>>)
    /\ UNCHANGED <<shown, busy, retry, confirmed, agreed, outside>>

\* saveSettings: a value is refused, or the file is not written; or the list is
\* made again under the new retention period.
SaveSettings ==
    /\ Ready /\ ~busy
    /\ \/ boxes' = <<Note>> /\ UNCHANGED <<disk, items, selected, deletable>>
       \/ Refresh(disk, <<>>, <<Note>>)
    /\ UNCHANGED <<shown, busy, retry, confirmed, agreed, outside>>

showRecoveryDialog ==
    /\ ~shown /\ window = "open"
    /\ shown' = TRUE /\ busy' = FALSE
    /\ \E gone \in Prunable(disk) :
        /\ disk' = disk \ gone
        /\ \/ /\ items' = disk' /\ selected' = Reselected(disk', -1)
              /\ deletable' = (disk' # {}) /\ boxes' = <<>>
           \/ /\ items' \in {disk, disk'} /\ selected' = -1
              /\ deletable' = TRUE /\ boxes' = <<Note>>
    /\ UNCHANGED <<retry, confirmed, agreed, outside>>

\* Mutant: the window is closed though a retry is running.
CloseBusy ==
    /\ Ready
    /\ shown' = FALSE
    /\ UNCHANGED <<disk, items, selected, deletable, busy, boxes, retry, confirmed, agreed, outside>>

Close ==
    /\ Ready
    /\ IF busy THEN boxes' = <<Note>> /\ UNCHANGED shown
       ELSE shown' = FALSE /\ UNCHANGED boxes
    /\ UNCHANGED <<disk, items, selected, deletable, busy, retry, confirmed, agreed, outside>>

\* LVN_ITEMCHANGED: the list is never disabled, and updateDetails enables the
\* delete button, a retry running or not.
Select(i) ==
    /\ Ready /\ InRange(i, items)
    /\ selected' = i /\ deletable' = TRUE
    /\ UNCHANGED <<disk, shown, items, busy, boxes, retry, confirmed, agreed, outside>>

\* A box that only informs; "kept" is followed by refresh.
Dismiss ==
    /\ \/ Top("note") /\ boxes' = Tail(boxes) /\ UNCHANGED <<disk, items, selected, deletable>>
       \/ Top("kept") /\ Refresh(disk, Tail(boxes), <<>>)
    /\ UNCHANGED <<shown, busy, retry, confirmed, agreed, outside>>

-----------------------------------------------------------------------------
(* Retry.                                                                  *)

\* Refused: no profile, a read-only one, a path outside its root, no secrets.
retrySelected ==
    /\ Ready /\ ~busy /\ InRange(selected, items)
    /\ LET item == Nth(items, selected)
       IN  item \in Preserved /\ boxes' \in {<<Note>>, <<Box("retry", item)>>}
    /\ UNCHANGED <<disk, shown, items, selected, deletable, busy, retry, confirmed, agreed, outside>>

\* beginRetry reads dialog.items again, at the index it is given.
beginRetry(index, target, inspect) ==
    IF busy \/ ~InRange(index, items) THEN UNCHANGED <<busy, deletable, retry>>
    ELSE /\ busy' = TRUE /\ deletable' = FALSE
         /\ retry' = [NoRetry EXCEPT !.pc = "open", !.index = index,
                                     !.item = Nth(items, index), !.target = target,
                                     !.inspect = inspect]

AnswerRetry ==
    /\ Top("retry") /\ boxes' = Tail(boxes)
    /\ \/ beginRetry(selected, RelativePath(Head(boxes).item), TRUE)
       \/ UNCHANGED <<busy, deletable, retry>>
    /\ agreed' = {}
    /\ UNCHANGED <<disk, shown, items, selected, confirmed, outside>>

RetryAt(pc) == Living /\ retry.pc = pc
Posted(state, failed) == [retry EXCEPT !.pc = "posted", !.state = state, !.failed = failed]
RetryFails == retry' = Posted(retry.state, TRUE) /\ UNCHANGED confirmed

OpenBackend ==
    /\ RetryAt("open")
    /\ \/ RetryFails
       \/ retry' = [retry EXCEPT !.pc = IF retry.inspect THEN "inspect" ELSE "upload"]
          /\ UNCHANGED confirmed
    /\ UNCHANGED <<disk, dialogVars, agreed, outside>>

\* Inspect: an existing file is the same, by size and time, or a conflict.
Inspect ==
    /\ RetryAt("inspect")
    /\ \/ RetryFails      \* the item is gone, the server fails, a directory
       \/ /\ retry.item \in disk
          /\ retry' = [retry EXCEPT !.pc = "upload", !.state = "missing"]
          /\ UNCHANGED confirmed
       \/ /\ retry.item \in disk
          /\ \E failed \in BOOLEAN : retry' = Posted("same", failed)
          /\ confirmed' = confirmed \union {retry.item}
       \/ /\ retry.item \in disk
          /\ \E failed \in BOOLEAN : retry' = Posted("conflict", failed)
          /\ UNCHANGED confirmed
    /\ UNCHANGED <<disk, dialogVars, agreed, outside>>

UploadStart ==
    /\ RetryAt("upload")
    /\ \/ RetryFails
       \/ retry.item \in disk /\ retry' = [retry EXCEPT !.pc = "sending"] /\ UNCHANGED confirmed
    /\ UNCHANGED <<disk, dialogVars, agreed, outside>>

\* The file is written and its size confirmed, or the upload fails somewhere;
\* closing the backend may fail either way.
UploadEnd ==
    /\ RetryAt("sending")
    /\ \/ /\ \E failed \in BOOLEAN : retry' = Posted("uploaded", failed)
          /\ confirmed' = confirmed \union {retry.item}
       \/ RetryFails
    /\ UNCHANGED <<disk, dialogVars, agreed, outside>>

\* Mutant: dialog.busy is reset on the error path only.
finishRetryBusy ==
    /\ RetryAt("posted") /\ shown
    /\ busy' = ~retry.failed /\ retry' = NoRetry
    /\ boxes' = <<Note>> \o boxes /\ deletable' = InRange(selected, items)
    /\ UNCHANGED <<disk, shown, items, selected, confirmed, agreed, outside>>

\* wmRecoveryDone, handled by whichever message loop runs. The index is looked
\* up in the items of now.
finishRetry ==
    /\ RetryAt("posted") /\ shown
    /\ busy' = FALSE /\ retry' = NoRetry
    /\ LET item == Nth(items, retry.index)
           stay == /\ deletable' = InRange(selected, items)
                   /\ UNCHANGED <<disk, items, selected>>
       IN  \/ retry.failed /\ boxes' = <<Note>> \o boxes /\ stay
           \/ ~retry.failed /\ ~InRange(retry.index, items) /\ Refresh(disk, boxes, <<>>)
           \/ /\ ~retry.failed /\ InRange(retry.index, items) /\ stay
              /\ \/ /\ retry.state \in {"uploaded", "same"}
                    /\ boxes' = <<Box(IF connected THEN "kept" ELSE "offer", item)>> \o boxes
                 \/ /\ retry.state = "conflict"
                    /\ boxes' = <<[Box("conflict", item) EXCEPT !.index = retry.index,
                                                             !.target = retry.target]>> \o boxes
    /\ UNCHANGED <<shown, confirmed, agreed, outside>>

\* Mutant: the other name is taken without looking whether it exists.
AnswerConflictUnseen ==
    /\ Top("conflict") /\ boxes' = Tail(boxes)
    /\ LET b == Head(boxes)
       IN  \/ beginRetry(b.index, b.target, FALSE) /\ agreed' = agreed \union {b.target}
           \/ /\ b.target.alt < MaxAlternates
              /\ beginRetry(b.index, AlternatePath(b.target), FALSE) /\ UNCHANGED agreed
           \/ UNCHANGED <<busy, deletable, retry, agreed>>
    /\ UNCHANGED <<disk, shown, items, selected, confirmed, outside>>

\* Overwrite, another name, or skip.
AnswerConflict ==
    /\ Top("conflict") /\ boxes' = Tail(boxes)
    /\ LET b == Head(boxes)
       IN  \/ beginRetry(b.index, b.target, FALSE) /\ agreed' = agreed \union {b.target}
           \/ /\ b.target.alt < MaxAlternates
              /\ beginRetry(b.index, AlternatePath(b.target), TRUE) /\ UNCHANGED agreed
           \/ UNCHANGED <<busy, deletable, retry, agreed>>
    /\ UNCHANGED <<disk, shown, items, selected, confirmed, outside>>

-----------------------------------------------------------------------------
(* Delete.                                                                 *)

deleteSelected ==
    /\ Ready /\ deletable /\ InRange(selected, items)
    /\ boxes' = IF connected THEN <<Note>> ELSE <<Box("delete", Nth(items, selected))>>
    /\ UNCHANGED <<disk, shown, items, selected, deletable, busy, retry, confirmed, agreed, outside>>

\* Mutant: the item is looked up again once the question is answered.
DeleteRelookup(f, rest, then) ==
    \/ InRange(selected, items) /\ Refresh(disk \ {Nth(items, selected)}, rest, then)
    \/ Refresh(disk, rest, <<Note>>)

\* Store.Delete and the refresh after it. An item already gone is no error.
Delete(f, rest, then) ==
    \/ f \notin InUse /\ Refresh(disk \ {f}, rest, then)
    \/ Refresh(disk, rest, <<Note>>)

AnswerDelete ==
    /\ Top("delete")
    /\ \/ Delete(Head(boxes).item, Tail(boxes), <<Note>>)
       \/ boxes' = Tail(boxes) /\ UNCHANGED <<disk, items, selected, deletable>>
    /\ UNCHANGED <<shown, busy, retry, confirmed, agreed, outside>>

\* offerDeleteAfterRetry, once answered.
AnswerOffer ==
    /\ Top("offer")
    /\ Delete(Head(boxes).item, Tail(boxes), <<>>) \/ Refresh(disk, Tail(boxes), <<>>)
    /\ UNCHANGED <<shown, busy, retry, confirmed, agreed, outside>>

-----------------------------------------------------------------------------
(* The main window, the drives and the server.                             *)

Connect ==
    /\ window = "open" /\ ~connected /\ connected' = TRUE
    /\ UNCHANGED <<disk, dialogVars, retry, confirmed, agreed, used, clearing, window>>

\* A drive that is connected, or detached by force, leaves a file behind.
Preserve(f) ==
    /\ Living /\ connected /\ f \notin used
    /\ used' = used \union {f} /\ disk' = disk \union {f}
    /\ UNCHANGED <<dialogVars, retry, confirmed, agreed, connected, clearing, window>>

Disconnect ==
    /\ Living /\ connected /\ connected' = FALSE
    /\ UNCHANGED <<disk, dialogVars, retry, confirmed, agreed, used, clearing, window>>

\* clearCache asks only while no drive is connected; the tray goes on working, so
\* one may be connected, or the question asked again, before it is answered.
AskClear ==
    /\ window = "open" /\ ~connected /\ clearing' = TRUE
    /\ UNCHANGED <<disk, dialogVars, retry, confirmed, agreed, used, connected, window>>

\* The answer, which the exit's task makes void. What can be removed is; the
\* dialog's list is not made again.
clearCache ==
    /\ Living /\ clearing /\ clearing' \in BOOLEAN
    /\ \/ window = "open" /\ disk' = disk \intersect InUse
       \/ UNCHANGED disk
    /\ UNCHANGED <<dialogVars, retry, confirmed, agreed, used, connected, window>>

\* exit refuses while a retry runs, with a box of the dialog.
exit ==
    /\ window = "open" /\ Len(boxes) <= MaxBoxes
    /\ IF shown /\ busy THEN boxes' = <<Note>> \o boxes /\ UNCHANGED window
       ELSE window' = "exiting" /\ UNCHANGED boxes
    /\ UNCHANGED <<disk, shown, items, selected, deletable, busy, retry, confirmed, agreed,
                   used, connected, clearing>>

\* DestroyWindow of the main window destroys the dialog it owns and the boxes of
\* the dialog; the process ends, and the goroutine of a retry with it.
WindowGoes(how) ==
    /\ window' = how
    /\ shown' = FALSE /\ boxes' = <<>> /\ busy' = FALSE /\ retry' = NoRetry
    /\ clearing' = FALSE
    /\ UNCHANGED <<disk, items, selected, deletable, confirmed, agreed, used, connected>>

\* The task that exit started ends: all detached, or the user kept a drive. The
\* dialog, whose controls the task leaves enabled, is not looked at again.
ExitEnds ==
    /\ window = "exiting"
    /\ \/ ~connected /\ WindowGoes("gone")
       \/ /\ window' = "open"
          /\ UNCHANGED <<disk, dialogVars, retry, confirmed, agreed, used, connected, clearing>>

\* finishWindowsSession destroys the window, a retry running or not.
SessionEnds == Living /\ WindowGoes("ended")

-----------------------------------------------------------------------------

RetryStep == OpenBackend \/ Inspect \/ UploadStart \/ UploadEnd \/ finishRetry

Next ==
    \/ RetryStep
    \/ showRecoveryDialog \/ Close \/ RefreshClicked \/ SaveSettings
    \/ \E i \in 0..Cardinality(File) : Select(i)
    \/ Dismiss \/ retrySelected \/ AnswerRetry \/ AnswerConflict
    \/ deleteSelected \/ AnswerDelete \/ AnswerOffer
    \/ Connect \/ Disconnect \/ AskClear \/ clearCache \/ exit \/ ExitEnds \/ SessionEnds
    \/ \E f \in File : Preserve(f)

Spec == Init /\ [][Next]_vars

\* The network is assumed to end each request of a retry, with an answer or an
\* error: the 5-minute context stops a WebDAV request, but not one that FTP or
\* SFTP has sent. Every message loop handles the posted result. Nobody is made to
\* answer a box.
FairSpec == Spec /\ WF_vars(RetryStep)

-----------------------------------------------------------------------------
(* Properties.                                                             *)

\* Every variable holds a value of its kind.
TypeOK ==
    /\ disk \subseteq used /\ used \subseteq File /\ items \subseteq File
    /\ selected \in Int /\ selected >= -1
    /\ {shown, deletable, busy, connected, clearing} \subseteq BOOLEAN
    /\ retry \in Retry /\ boxes \in Seq(BoxType)
    /\ confirmed \subseteq File /\ agreed \subseteq Target
    /\ window \in {"open", "exiting", "gone", "ended"}

\* beginRetry, close: while the goroutine runs or its result is on its way, the
\* dialog that must receive it exists and counts as busy, so there is one retry
\* at a time and the one-place channel retryResults never blocks. A retry ends
\* early only with the process: see ExitWaitsForRetry.
RetryIsOwned == retry.pc # "none" => busy /\ shown

\* finishRetry, Upload: a remote file is written only where Inspect found none,
\* or where the user chose to overwrite that very path.
NoBlindOverwrite ==
    retry.pc \in {"upload", "sending"} => retry.state = "missing" \/ retry.target \in agreed

\* deleteSelected, offerDeleteAfterRetry, refresh: an item leaves the directory
\* only because it is the one the answered question was about, because it has
\* expired and no drive is connected, or by clearCache, which empties it;
\* whatever changed the list while the question was open.
RemovedAsAsked ==
    [][\A f \in disk \ disk' :
            \/ boxes # <<>> /\ Head(boxes).kind \in {"delete", "offer"} /\ Head(boxes).item = f
            \/ f \in Expired /\ ~connected
            \/ disk' \subseteq InUse /\ UNCHANGED dialogVars]_vars

\* A retry ends, whatever boxes are open, and the dialog can be closed again.
RetryEnds == busy ~> ~busy

\* docs/desktop-validation.md:314-315: while a retry runs, closing the program
\* stays blocked: the exit that the user chose ends no retry.
ExitWaitsForRetry ==
    [][window = "exiting" /\ window' = "gone" => retry.pc = "none"]_vars

\* docs/architecture.md:138-139, 141-142 and 156-157: an item is deleted, after a
\* retry or not, and the cache is cleared, only while no drive is connected.
RemovedOnlyDetached == [][disk \subseteq disk' \/ ~connected]_vars

\* offerDeleteAfterRetry: deletion is offered as safe only for an item that the
\* retry found on the server or has put there and confirmed.
OfferIsForConfirmed ==
    \A i \in DOMAIN boxes : boxes[i].kind = "offer" => boxes[i].item \in confirmed
====
