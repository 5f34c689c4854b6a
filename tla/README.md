# A verification project for DK-Drive

DK-Drive mounts FTP, SFTP and WebDAV servers as Windows drives (Go, WinFsp).
This directory models its core in TLA+: what the goroutines of a mounted drive,
the desktop's UI thread and its background task do to the state they share, what
a failing server and a dying process leave behind, and what is promised about it.
TLC checks the models on small instances; TLAPS proves
every safety property that holds on them for every instance.

Paths below are relative to the repository (`internal/...`, `docs/...`);
`PROJECT.json` maps every definition to its source lines.

## 1. Inventory

| Component | State it keeps | Operations | Talks to |
|---|---|---|---|
| Metadata cache, `internal/vfs/metadata_cache.go` | `values`, `bytes`, `flights`, `generation`, `changing`, `closed` under `c.mu` | `Stat`, `ReadDir`, every mutator, write-handle calls, `Close` | wraps a `vfs.Backend`; called by the mount's goroutines |
| Mounted drive, `internal/mount/gofs_windows.go`, `session_windows.go` | open handles, their staging files, dirty flags and mutexes; `guardedFS.open/stopping/closeErr` | `OpenFile`, `Stat`, `Mkdir`, `Rename`, `Remove`, `Write`, `Truncate`, `Sync`, `Close`; `Session.Close`, `ForceClose` | WinFsp calls it from many threads; uploads through the cache; asks the store for room |
| Windows metadata behaviour, `internal/mount/metadata_windows.go` | a table of handles | `SetBasicInfo`, attribute queries | sits above the mounted drive |
| Cache directory store, `internal/cache/store.go` | files on disk, `resizeMutex` | `CreateStaging`, `LockResize`, `Preserve`, `Scan`, `PruneExpired`, `Delete`, `Clear` | handles of all drives on one side, the desktop on the other |
| Connection manager, `internal/connection/manager.go` | `entries`: the state and session of each profile | `Connect`, `Disconnect`, `ForceDisconnect` | called by the desktop's task and the session-end goroutine; owns the mounts |
| Desktop window, `internal/desktop/window_windows.go`, `disconnect.go` | `settings`, `selected`, `busy`, dialogs that are open | commands, tray commands, exit, `WM_ENDSESSION` | the manager, the store, the settings file |
| Recovery dialog and retry, `internal/desktop/recovery_windows.go`, `internal/recovery/retry.go` | the listed items, a task | refresh, retry, export, delete | the store, a backend of its own |
| FTP, SFTP, WebDAV backends, `internal/protocol/*` | one connection (`client`, `closed`, FTP's `needsProbe`, SFTP's `generation`), its lock, upload handles | the `vfs.Backend` interface, reconnection | the servers; called by the cache and the recovery retry |
| Profile editor, `internal/desktop/profile_editor_windows.go` | the open editor, `dirty`; shares `w.selected` with the list | open, save, close, discard, connection test | the main window, which it disables; the settings |
| Settings, `internal/config` | the settings file | validate, load, atomic save | the desktop |
| Diagnostics, credentials, start-up, test programs, build resources | counters, none | - | - |

What makes them hard:

* **Concurrency.** WinFsp calls a drive from many threads. The cache drops its
  mutex over every backend call; `guardedFS.mu` and `stagedFile.mutex` are held
  over whole uploads; a write takes only the second. The store's directory is
  shared by all drives and the desktop with no common lock. Every message box of
  the UI thread runs a nested message loop in which tray commands still work.
* **Failure.** An upload may fail after none, part or all of the data arrived. A
  change whose reply was lost may still take effect. Any file operation may fail,
  and the process may die between two of them.
* **Connections.** The FTP control connection serves one goroutine at a time, and a
  reader keeps it until it is closed; SFTP requests of many goroutines share one
  connection that any of them may find broken and replace. FTP and WebDAV never
  repeat a change, SFTP repeats it once.
* **Ordering and time.** Replies to queries arrive after changes they do not
  reflect; Close arrives while calls are out; every backend call has a context
  of 30 s, which an FTP or SFTP request that was sent does not look at; a backend
  may time out by itself before that; the end of a Windows session allows 2 s.

What makes each correct: the cache must never be noticed (a query answers as an
uncached one would); a mounted drive must not lose a byte it accepted; the store
must not remove what is not expired, nor hide what is left; the manager's entries
must match the mounts; the window must not act on a check that is out of date; a
backend must report success only of what the server did, keep one connection and
let every call return.
`PROJECT.json` lists the hazards, each at its line, with the properties that
would catch it.

## 2. Modules

| Module | Models |
|---|---|
| `FreshReads` | the abstract specification of the cache: reads of a server that other clients also change, with no cache at all |
| `MetadataCache` | the cache, one action per critical section of `c.mu` |
| `MetadataCacheProofs`, `MetadataFlightProofs` | theorems about it: types, freshness; flights, refinement, accounts |
| `SumProofs` | sums over finite sets, for the accounts of the cache and of the store |
| `StagedMount` | a mounted drive: handles, staging files, uploads, detaching |
| `CacheStore` | the cache directory, its two kinds of users, crashes |
| `Desktop` | the manager, the disconnect loop, the window, its task and message boxes, the profile editor |
| `RemoteCalls` | the abstract specification of a backend: what a change and an upload promise their caller |
| `BackendCalls` | what the three backends share: calls, connections, the upload handle, the server's side |
| `FtpBackend`, `SftpBackend`, `WebdavBackend` | one backend each, extending `BackendCalls` |
| `Backends` | `openBackend`'s choice between them, fairness and their common properties; implements `RemoteCalls` |
| `RecoveryDialog` | the recovery dialog, its questions and the retry it starts |
| `StagedMountProofs`, `CacheStoreProofs`, `DesktopProofs`, `BackendsProofs`, `RecoveryDialogProofs` | the inductive invariant of each module and the theorems that follow from it |
| `MC*` | constants for TLC |

### MetadataCache

`q[p]` is the call goroutine `p` is executing; its `pc` says which section comes
next: `pass` (a name that `metadataPath` rejects goes straight to the backend),
`top` (the context test at the top of `query`'s loop), `lock` (hit, wait or lead),
`wait`, `woken`, `call`, `reply` (the second critical section: publish to waiters,
store, seed), `seed` (one `put` of a listing's children at a time, mutex held),
`done`; `begun` and `applied` are the two halves of a mutation between `Begin` and
`End`. A failed flight sends its waiters round the loop again, as the code does.

The server is external. Each path has a version, which grows when a local change
takes effect or another client changes a path in `Shared`. A reply reports the
versions of the paths it covers at the moment the server answered, so a stale
reply is a small number and freshness is `<=`. Expiry by time is a choice at every
lookup. A backend call may also end in an error, or in a context error: the caller's
context has ended, or the backend gave up on a timeout of its own (dialling, the HTTP
client) under a live context. `settled[x]` (a history variable) is the version of `x` when the last
local change of it completed; `since` is `settled` when a query began.

### StagedMount

The content of a file is a token; every accepted write makes a new one. `g` is
the operation that holds `guardedFS.mu` and what it still has to do; `busy` is the
holder of a handle's own mutex. A path operation first uploads every dirty handle
of its name, one action per upload, while writes and syncs of other handles go on.
An open with `O_CREATE` whose upload fails because the file is gone goes on to a fresh
staging file, as in the code.
`sent` and `wrote` are history: the last content of this handle that the server
confirmed, and whether the handle's content is its own. A failed upload leaves the
old content, a part or all of it on the server. `Crash` may happen at any moment.
`stagedFile.setModTime`, reads and listings are left out. `Opened` bounds the model:
the names and flags that are opened.

### CacheStore

Which staging files exist, their sizes, whether a sound or a bad record lies
beside them, temporary files left by a crash, and the operations of the handles
and of the desktop as sequences of single file operations, each of which may fail.
The clock is external and may be set back. The initial directory is any that
earlier runs, or a person with a file manager, may have left.

### Desktop

`entries` and `mounted` (external) belong to the manager. `act["task"]` is the one
background goroutine that `w.busy` allows; `act["end"]` is the goroutine of
`WM_ENDSESSION`. `stack` holds the open message boxes, innermost first; the
function that opened one continues when it is on top and answered, and meanwhile
the tray's commands, the task's end and the session's end are handled. A disconnect
shows up to three boxes one after another (the error, what was forced, a failed scan);
`more` counts those still to come, and the error's box belongs to `dialogOwner`. `agreed` is
history: the drives whose forced detach the user agreed to.

`enabled` (external) says whether the main window accepts input. `MessageBoxW`
disables the window that owns it (`dialogOwner`: the editor while it is open) and
enables it again if it was enabled before, which is a box's `frees`; the editor
disables the main window when it opens, after a box about secrets that cannot be read,
and enables it when it is destroyed. `editor`
is the profile the editor was opened for; `save` writes to `selected`, and
`misfiled` (history) are the profiles whose settings the input of another replaced.
What the user types is free: valid or not, dirty or not, needing a question or not.
An edited profile keeps its drive letter, and creating a window succeeds. What the
callers of boxes that vanish with the window still do before the process ends (a
refresh of the status) is left out.

### Backends

`call[p]` is the call of goroutine `p`: its `pc` is `enter` (the tests before the
backend's mutex), `probe` and `dial` (FTP's NOOP and reconnect under the mutex),
`send` (a command or request is out), `fallback` (the listing of FTP's `Stat`),
`reading` (the caller has the reader), `reconnect` and `resend` (SFTP). `times` and
`ran` count what the server, which is external, has executed; it executes a request
or not, and a connection error tells nothing about it. A request of a lost
connection is executed before the error is seen or never. `handle[p]` is an upload
handle: `dirty` is the code's flag, `stored` says whether its content is on the
server. `open` are the connections that exist, `broken` (history) those on which an
error was seen and no command has succeeded since; `last` (history) is what FTP's
control connection was used for last, `spent` who may close a reader a second time.

`RemoteCalls` knows neither connections nor locks: a call is executed at most
`limit` times and succeeds only if it was (an upload: if the content is on the
server, perhaps since an earlier Sync). `Backends` maps its state to it; `limit` is
2 for SFTP and 1 for the others.

Abstracted: paths, entries, bytes, XML and HTTP; which replies are connection
errors (`isConnectionError` is a choice); SFTP's open files, which belong to its
library; WebDAV's connections, which belong to the HTTP client. The WebDAV server is
taken not to redirect.

### RecoveryDialog

`items`, `selected` and `busy` are the dialog's fields; `items` is a set of numbered
files, since `Scan` lists them in a fixed order, and an index counts in it from 0.
`retry` is the goroutine from `beginRetry` to its posted result; `boxes` the open
message boxes, which disable the dialog but let the result, the main window and the
tray through. `clearing` is clearCache's question, a box of the main window. `window` is
`exiting` while the task of `exit` detaches the drives; when it is done, or the Windows
session ends, the dialog, its boxes and a retry under way go with the main window. `deletable` is the delete button: `beginRetry` disables it, every click
on the list enables it again. Other clients may change the server at any moment, so
each look at a remote file may find it or not. `confirmed` (items found on or put on
the server) and `agreed` (paths the user chose to overwrite) are history. Which items
are expired is a constant; the settings' values and the texts are left out. `Delete`
is one step here; `CacheStore` takes it apart.

## 3. Runs

| Run | Instance | Checks |
|---|---|---|
| `metadata_cache` | 2 goroutines; `/`, a directory, a file in it; the listing and the file queried; up to 4 generations | `TypeOK`, `CacheFresh`, `ReadYourWrites`, `NothingKeptAfterClose`, `ImplementsFreshReads` |
| `flights` | 2 goroutines that list and stat `/`, a file in it changed; sizes 1, 2 and 3 with room for 2 entries and 2 bytes; fairness | `SingleFlight`, `OwnCancellation`, `Accounting`, `QueryReturns` |
| `staged_mount` | 2 handles opened on one file or on a directory, a second file that is looked up, removed and renamed; 2 contents; fairness | `TypeOK`, `DataRetained`, `SafeDetach`, `LookupSeesWrites`, `OpenIsExact`, `SealedIsFinal`, `ForcedDetachKeeps`, `DetachAddsNoUpload`, `GuardReleased` |
| `cache_store` | 2 files, sizes 0..2, a total of 3 bytes, 2 days | `TypeOK`, `PruneSafe`, `RecordOutlivesStaging`, `NothingHidden`, `WritesWithinQuota` |
| `desktop` | 2 saved profiles and a new one that shares a letter, 2 nested boxes | `TypeOK`, `EntryMatchesMount`, `OneAtATime`, `BusyWhileTask`, `ForceWithConsent`, `ExitDetached` |
| `backends` | 2 goroutines, each protocol in turn, up to 3 connections at once or in sequence; fairness | `TypeOK`, `CallsKeepPromise`, `NoConnectionLeft`, `HealthyConnectionKept`, `ControlConnectionReady`, `CallReturns` |
| `recovery` | 2 items, one of them expired; one alternate name; fairness | `TypeOK`, `RetryIsOwned`, `NoBlindOverwrite`, `RemovedAsAsked`, `RetryEnds` |
| `delete_connected_profile` | as `desktop` | `DeletedIsInactive`: **violated**, see findings |
| `save_wrong_profile` | as `desktop` | `SavedToEdited`: **violated**, see findings |
| `offer_wrong_item` | as `recovery`, 3 items | `OfferIsForConfirmed`: **violated**, see findings |
| `exit_during_retry` | as `recovery` | `ExitWaitsForRetry`: **violated**, see findings |
| `remove_while_connected` | as `recovery` | `RemovedOnlyDetached`: **violated**, see findings |

**Why the bounds are enough.** In the cache a stale answer needs one query and one
change that overlap, and a third party only to share a flight: two goroutines over
a directory and its file contain every pair (leader and mutator, waiter and
leader, seeding and query, listing and change of an entry), four generations let
two changes complete around one query, and `MaxVersion` 1 lets another client
interfere once more. In `flights` one goroutine leads and the other waits, or both
lead over a change; a second waiter would wait for the same channel and take no part
in the other's steps. Its table can hold the listing, the `Stat` of the root and
the seeded `Stat` of the file, one more than its limit, and the limits are small
enough for replacement, overflow by entries, by bytes and an oversize value. A mount
needs two handles for two writers of one name, and a second name for a rename to or
from one that a handle holds; its safety properties are proved for all handles, names
and flags, so that the run need not open every name in every way. The store needs two files for a quota
that is shared; three were too many for TLC and add only a third copy of the same
independent steps. Two boxes are a question with another command's outcome above it.
A backend needs two goroutines for a connection that one breaks and another
replaces, or for a reader that blocks a call; FTP dials under its mutex, so two
identities would do, and three let SFTP replace a connection twice.
The recovery dialog needs two items for a list that shifts under an index, and one
alternate name for a conflict on it (the second alternate would be a third turn of the
same loop).

**Deadlock** is checked except in `StagedMount` (the session ends, handles are used
once), `Desktop` and `RecoveryDialog` (the window is destroyed), where the system
really stops.

**Fairness.** The four runs that check liveness rest on one assumption about the
network and the servers: a request that was sent ends, with an answer or an error. The
contexts (30 s of `operationContext`, 5 minutes of a retry) do not give it: they end an
HTTP request, but FTP and SFTP do not look at the context of a request once it is out.
What stands behind it are deadlines when dialling, TCP keep-alive and the HTTP client's
time limit. Nowhere is a server assumed to succeed. Beyond that, `flights` assumes that
a goroutine which can go on does (strong fairness where it has to acquire `c.mu`:
`sync.Mutex` hands a starving waiter the lock), not that callers are never canceled: the
property says that a query returns once cancellations stop. `staged_mount` assumes the
same of the holders of the guard's and of a handle's mutex, and that a caller does not
start syncs for ever ahead of a waiting one, again the mutex's starvation mode.
`recovery` assumes that the retry's goroutine goes on and that the UI thread handles the
posted result, which every nested message loop does; it does not assume that anyone
answers a box.
`backends` assumes that whoever opened a reader closes it, as `download` and the retry
do, and that Go's mutexes starve nobody.

**Findings.**

1. `remove_while_connected`. `clearCache` (`window_windows.go:1402`) tests for
   connected drives, then asks. The question's message loop handles the tray's
   commands while `w.busy` is off, so a drive can be connected before the answer,
   and `Store.Clear` then removes the staging files of a mounted drive.
   `docs/architecture.md:141-142` and the comment on `Store.Clear`
   (`internal/cache/store.go:127-128`) exclude it. The recovery dialog has the same gap
   twice: `deleteSelected` (`recovery_windows.go:609`) and `offerDeleteAfterRetry`
   (line 450) test before their questions only, which `docs/architecture.md:138-139` and
   156-157 exclude. The run shows the shortest trace, `clearCache`'s. With a second test
   in `clearCache` the shortest one is `deleteSelected`'s, with one there as well the
   offer's, and with one in all three the property holds.
2. `delete_connected_profile`. `deleteProfile` (`window_windows.go:1222`) has the
   same gap: the profile can be connected while its question is open. It then
   vanishes from the list while its drive stays mounted, and exit, which detaches
   listed profiles, leaves it. `docs/desktop-validation.md:142` excludes it.
3. `offer_wrong_item`. `beginRetry` disables the delete button but not the list, and a
   click on the list enables the button again. An item deleted while a retry runs
   shifts `dialog.items`; `finishRetry` (`recovery_windows.go:426`) then looks its
   index up in the new list, reports success of an item that was never sent and offers
   to delete it; on a conflict, `beginRetry` would upload that item to the other's path.
   `docs/architecture.md:155-156` allows the offer only after a confirmed transfer.
4. `save_wrong_profile`. The editor disables the main window, but an error box of the
   main window that was open before (of a failed auto-connect, say) enables it again
   when it is closed. A click in the list then sets `w.selected`
   (`window_windows.go:1457`) without asking about unsaved changes, and `save` stores
   the input typed for one profile as the settings of the clicked one.
   While the editor's box about unreadable secrets is open the main window is not
   disabled yet, with the same result.
   `docs/desktop-validation.md:66-67` has the move to another profile ask first.
5. `exit_during_retry`. `exit` (`window_windows.go:1313`) looks for a running retry once,
   before its task detaches the drives. The recovery dialog accepts input during that
   task, and `retrySelected` looks at `dialog.busy` only: a retry begun then is cut off
   when the task is done and destroys the window with its dialog.
   `docs/desktop-validation.md:314-315` says that exit stays blocked during a retry.

**Seen while modelling**, and not contradicted by a document:

* `deleteProfile` removes what `w.selected` is when its question is answered. The
  tray's "add drive" sets it to -1 (the slice expression panics), and the editor,
  opened and closed in between, can leave another profile there.
* `save` tests that the profile is inactive before its questions about plain-text or
  unverified connections, not after them: the gap of findings 1 and 2 once more.
* `forceStop` sets `stopping` and then seals handle by handle. Until a handle is sealed
  an application's own `Sync` of it may still begin and upload. The documents speak of
  what the detach itself uploads and of calls after it, so `DetachAddsNoUpload` allows
  this, and nothing else.
* An `O_CREATE` open of a name whose dirty handle could not be uploaded because the
  file is gone makes a second, empty and dirty staging file of that name; whichever of
  the two is closed last wins.
* A `Sync` of an FTP or WebDAV handle that fails although the server stored the
  content is sent again by `Close`: harmless, since it is the same content.
* FTP's `OpenWrite` with `Create` but not `Truncate` fails for a missing file, as the
  server's 550 is never `fs.ErrNotExist`. No caller of this program uses it so.
* SFTP repeats a change after a reconnect. A `Mkdir`, `Remove` or `Rename` that took
  effect before its reply was lost is reported as failed by the repetition; a
  reported success is still true, which is what `CallsKeepPromise` says.
* Waiting for the FTP backend's mutex does not end when a context does: a slow reader
  delays every other call past its deadline, though not for ever (`CallReturns`).

## 4. Proofs

Every safety property that a passing run checks, invariant, action property or
refinement, is also a theorem: true for every finite set of goroutines, handles,
files, profiles or items, every tree of paths, every limit and every bound. The last
column is the property as the runs have it.

| Module | Theorem | States |
|---|---|---|
| `MetadataCacheProofs` | `TypeCorrect` | `TypeOK` |
| | `CacheIsFresh` | `CacheFresh` |
| | `ReadsSeeWrites` | `ReadYourWrites` |
| | `ClosedIsEmpty` | `NothingKeptAfterClose` |
| `MetadataFlightProofs` | `OneFlightPerKey` | `SingleFlight` |
| | `CancellationIsOwn` | `OwnCancellation` |
| | `NoLostWakeup` | `WaitersLed`, which only the proofs define: whoever waits for a flight waits for a goroutine that is still to end it |
| | `CacheImplementsReads` | `ImplementsFreshReads` (refinement) |
| | `AccountIsKept` | `Accounting` |
| `StagedMountProofs` | `MountTypeCorrect`, `WritesAreRetained`, `DetachIsSafe`, `LookupsSeeWrites`, `OpenCountIsExact` | `TypeOK`, `DataRetained`, `SafeDetach`, `LookupSeesWrites`, `OpenIsExact` |
| | `SealingIsFinal`, `DetachAddsNothing`, `ForceKeepsEverything` | `SealedIsFinal`, `DetachAddsNoUpload`, `ForcedDetachKeeps` |
| `CacheStoreProofs` | `StoreTypeCorrect`, `PruneIsSafe`, `RecordsStay`, `NothingIsHidden` | `TypeOK`, `PruneSafe`, `RecordOutlivesStaging`, `NothingHidden` |
| | `QuotaIsKept` | `WritesWithinQuota` |
| `DesktopProofs` | `DesktopTypeCorrect`, `EntriesMatchMounts`, `NoTwoAtOnce` | `TypeOK`, `EntryMatchesMount`, `OneAtATime` |
| | `BusyThroughTask`, `NothingForcedUnasked`, `ExitLeavesNothing` | `BusyWhileTask`, `ForceWithConsent`, `ExitDetached` |
| `BackendsProofs` | `BackendsTypeCorrect`, `NoConnectionIsLeft`, `ControlConnectionIsReady`, `HealthyConnectionIsKept` | `TypeOK`, `NoConnectionLeft`, `ControlConnectionReady`, `HealthyConnectionKept` |
| | `BackendsKeepPromise` | `CallsKeepPromise` (refinement) |
| `RecoveryDialogProofs` | `DialogTypeCorrect`, `RetryHasItsDialog`, `NothingOverwrittenBlindly`, `NothingRemovedUnasked` | `TypeOK`, `RetryIsOwned`, `NoBlindOverwrite`, `RemovedAsAsked` |
| `SumProofs` | `SumSame`, `SumEmpty`, `SumNat`, `SumRemove`, `SumSplit`, `SumOfPart` | facts about sums over finite sets |

**Assumptions**, all of them on constants, declared beside them and evaluated by TLC in
every run of the module:

* `PathTree`: what `path.Dir` and the prefix test satisfy: everything lies under the
  root; whatever lies below a directory is in it or below an entry of it.
* `CacheConstants`: types, and `MaxEntries` is at least 1 (`metadataMaxEntries` is
  4096). With a limit of 0 the new entry alone would exceed it, and `Accounting`
  would be false.
* `MountConstants`, `StoreConstants`, `DesktopConstants`, `BackendConstants`,
  `RecoveryConstants`: types and distinct `None`s; saved profiles have distinct drive
  letters (`Settings.Validate`); retention is at least a day; there is more than one
  identity for a connection, since a reconnect needs a second one.

Each inductive invariant was checked with TLC on the instance of the component's run. Each preservation proof has one step per action. The subsections
say what the invariant adds to the property, and why that is needed.

### MetadataCache

`TypeOK` is not inductive: `End` decrements `changing`, which stays natural only
because it counts the goroutines that are between `Begin` and `End`. `TypeInv` adds
that equation; the counting steps use the cardinality theorems of the library.

`CacheFresh` is not inductive either: a reply on its way into the table says
nothing by itself. `FreshInv` adds, for every call (`FreshCall`), what a reply in
hand is worth:

* *the fence*: a reply that carries the current generation, and whose query did
  not overlap a change, covers every completed change. Only `Begin`, `End` and
  `Close` move `generation`, and only `End` moves `settled`, so a reply
  fetched before either carries an old generation and `Storable` refuses it;
* a reply carries at least what was settled when its call began, whatever its
  generation: this is `ReadYourWrites` for the leader, and for a waiter through its
  leader's published value;
* `SettledReached`: the server is never behind `settled`, so a fetch is fresh;
* the seeds of a listing are its entries, so that a seeded `Stat` inherits the
  listing's freshness.

The one lemma about paths, `InvalidationCovers`, says that `invalidate` drops every
key whose answer an operation may change: the name, what lies below it, and the
listings that show any of these. With it `End` is the only delicate action: what
survives the invalidation covers no affected path, and only affected paths settle.

`SingleFlight` speaks of goroutines, the code of a table. `FlightInv` ties them:
`flights` holds exactly the flights whose leaders are under way, one per key and
generation, and every waiter waits for one of them. `OwnCancellation` is a property of
steps: only a caller's own reply, or its own context, makes it return a context error,
since a published one sends the waiters round the loop.

The refinement needs one more fact, `Past`: no version in a reply or in the table is
newer than the server's. `StepRefines` then maps every action: whatever puts a call to
`done`, be it a hit, the caller's own reply or a published one, to `ReturnRead` or
`FailRead`, since what is returned lies between `since` and the server's state; the
server's and other clients' changes to `Advance`; the end of a mutation to `Settle`;
the start of a query and its return to `StartRead` and `Forget`; the rest to stutters.

`Accounting` is inductive together with `TypeInv` and a finite table, but its steps are
about sums: `DropAccount` for a drop of any set of keys, `PutAccount` for a replacement
followed by evictions until both limits hold.

### Sums

`SumFunctionOnSet` is a fold defined by recursion over the set, and the induction
theorems of the library take an operator as a parameter, which the provers cannot
instantiate. `SumProofs` does without: `WFMin` and `NatLessThanWellFounded` speak of
sets, so a fact about every finite set is shown by taking, among the sets for which it
fails, one with the fewest elements. `SumRemove` (take one element out) and `SumSplit`
(disjoint parts) are what the accounts of the cache and of the cache directory use.

### StagedMount

`DataRetained` alone does not survive a `Close`. `FileOK` adds why a staging file may
be removed: what was written and is not confirmed keeps the handle dirty, and a dirty
handle is sealed only over a file that is kept. `GuardOK` says what the holder of
`guardedFS.mu` may rely on between its steps: its handles stay open, and nothing but a
forced detach works while stopping. `DetachOK` links `closeErr` to the files left
behind: without a close error, no closed handle has a staging file, which is what a
normal detach needs. `DueOK` is `LookupSeesWrites` before the lookup has published
everything: what is due of a handle is sent, or the handle is still on its list.
`DetachAddsNoUpload` needs both: while stopping the guard's holder uploads nothing, and
once every handle is closed no Sync is left (`SealedDriveIsSilent`).
`OpenIsExact` is inductive with `TrackOne` and `UntrackOne`, which count.

### CacheStore

`PruneSafe` compares the disk at the removal with what a scan saw many steps earlier.
`PruneOK` bridges them: what the pruning found preserved has that same sound record
still. This holds since a record is written in the step that ends its handle, a name
is given out once, and only the desktop, which is busy pruning, removes records
(`RecordsOK`, `HandlesOK`).
`NothingHidden` and `RecordOutlivesStaging` follow from it and from what is due being
listed and gone before its record goes (`ListedOK`, `DueOK`).

`WritesWithinQuota` needs `Room`: between the check under `resizeMutex` and the write,
nothing else may grow. A download may grow past what was checked, but under the same
mutex. `LockGivesRoom` and `ResizedWithinQuota` are the two ends of a resize, on sums of all
sizes.

### Desktop

`ActOK` is the protocol of the manager's entries: the state of an entry keeps other
goroutines away from its profile, so `EntryMatchesMount` and `OneAtATime` hold at every
step of both. `BusyWhileTask` needs `StackOK`: at most one box on the stack belongs to
a task, and each box of a finished task's outcome still holds `busy`. `ExitDetached` needs `ExitOK`:
while an exit's detaches have all succeeded, a listed profile is inactive or still to
be detached, and once the outcome is on show `busy` keeps every command out.

### Backends

`CallOK` is common to the three: what was executed is remembered until the call ends,
except that SFTP forgets the first execution when it repeats a call (hence the 2), and
a handle is clean only when its content is stored. `FtpOK` says who has the control
connection and that a connection out of step is noted in `needsProbe` whenever the
mutex is free. `SftpOK` carries the argument of the generations: whoever saw an error
of the current generation saw it on the current connection, so a reconnect never
closes one that others have just opened. `WebdavOK` has little to say, for the HTTP
client has the connections. One lemma per protocol (`FtpStep`, `SftpStep`,
`WebdavStep`) covers its actions; `StepKeepsPromise` maps the step of a call to
`RemoteCalls`, for the three at once.

### RecoveryDialog

`NoBlindOverwrite` has a consent outlive several boxes and posted results. `RetryOK`
says that a retry which does not look at its target was told to overwrite it.
`beginRetry` empties `agreed`, so the invariant also needs `QuestionOK` and `StackOK`:
the question whether to retry is the outermost box, and while it is open no retry runs
and no conflict waits for an answer; no consent is taken from under a retry.
`RetryIsOwned` holds through an exit because the window takes dialog, boxes and retry
with it in one step (`WindowGoes`); that this cuts a retry off is finding 5.
`NthInList` counts: an index in range has an item.

### Only model-checked

* Liveness (`QueryReturns`, `GuardReleased`, `CallReturns`, `RetryEnds`): fairness and
  ENABLED are out of this prover's reach. `NoLostWakeup` is the safety half of
  `QueryReturns`.
* The fairness of the refinements: `ImplementsFreshReads` and `CallsKeepPromise` have
  none.
* `RemovedOnlyDetached`, `DeletedIsInactive`, `SavedToEdited`, `OfferIsForConfirmed` and
  `ExitWaitsForRetry`, which the code violates.

## 5. Not modelled, and why

Formatting, wording, logging, drawing, XML and HTTP encoding, most Win32 calls,
credentials, test programs and build resources keep no state that a property here
speaks of. The settings file is written to a temporary file and renamed: `Desktop`
has it succeed or fail as a whole.

Modification times are not modelled: `stagedFile.setModTime`, the requested time that
`syncLocked` sends after an upload, and `SetBasicInfo` with its table of handles. They
contain a race: `SetBasicInfo` sets the server's time and then, handle by handle, the
requested time, and holds `guardedFS.mu` over neither. A lookup of the same name
may upload a dirty handle in between. The handle is then clean, so `Close` uploads
nothing, and the upload's time stays on the server although `SetBasicInfo` reported
success and the handle's `Stat` shows the requested one. A model needs a time per
name and per handle and the call as an actor of its own beside the guard.

WebDAV redirects are not modelled. The HTTP client answers a 301, 302 or 303 to a PUT
or DELETE by a GET, whose 200 is among the statuses `do` accepts.

## 6. Plan

1. Done: the metadata cache with its abstract specification and first theorems, the
   mounted drive, the store, the desktop, the recovery dialog and its retry.
2. Done: the three backends against one abstract backend; the profile editor.
3. Done: proofs of every safety property the passing runs check, in eight modules.
4. Modification times in `StagedMount` (section 5), with what its proofs then need.
