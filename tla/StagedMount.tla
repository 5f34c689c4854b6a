---- MODULE StagedMount ----
(***************************************************************************)
(* A mounted drive: goFileSystem and stagedFile (gofs_windows.go) behind   *)
(* guardedFS, trackedFile and Session (session_windows.go). A file is      *)
(* opened into a local staging file; writes go there; Sync, a path lookup  *)
(* of the same name, and Close upload the whole staging file.              *)
(*                                                                         *)
(* guardedFS.mu is held over a whole path operation or Close, uploads      *)
(* included: g is the operation that holds it. stagedFile.mutex is held    *)
(* over an upload: files[h].busy is its holder. Write, Truncate and Sync   *)
(* of a handle take only the file's mutex and interleave with g.           *)
(*                                                                         *)
(* The content of a file is a token: every accepted write makes a new one. *)
(* The server (external) may fail an upload after none, part or all of the *)
(* data has arrived.                                                       *)
(***************************************************************************)
EXTENDS Naturals, FiniteSets

CONSTANTS
    Handle,        \* gofs.File handles, each used once
    Name, DirName, \* paths of the drive, and those that are directories
    OpenFlags,     \* sets of "write", "create", "trunc", "excl"
    ReadOnly,      \* the profile is read-only
    Absent, Partial, NoHandle, NoName,
    Opened,        \* bounds of the model: which names are opened with which flags,
    MaxContent     \* and how many tokens writes may use

ASSUME MountConstants ==
    /\ IsFiniteSet(Handle) /\ NoHandle \notin Handle /\ NoName \notin Name
    /\ DirName \subseteq Name
    /\ OpenFlags \subseteq SUBSET {"write", "create", "trunc", "excl"}
    /\ Opened \subseteq Name \X OpenFlags
    /\ ReadOnly \in BOOLEAN /\ MaxContent \in Nat
    /\ Absent \notin Nat /\ Partial \notin Nat /\ Absent # Partial

VARIABLES
    files,      \* files[h]: the handle, its staging file and its mutex
    g,          \* the operation that holds guardedFS.mu
    open,       \* guardedFS.open
    stopping,   \* guardedFS.stopping
    closeErr,   \* guardedFS.closeErr is not nil
    session,    \* the Session: mounted; stopped but not yet unmounted (detaching,
                \* forcing); closed, forced; or the process died (crashed)
    remote,     \* external: the server's content of each name
    last        \* the newest token

vars == <<files, g, open, stopping, closeErr, session, remote, last>>

Content == Nat \union {Partial}
Kept == {"live", "preserved", "unrecorded"}

Unused == [st |-> "unused", dir |-> FALSE, name |-> NoName, content |-> 0, dirty |-> FALSE,
           wrote |-> FALSE, write |-> FALSE, sent |-> 0, busy |-> "no",
           staging |-> "none", tracked |-> FALSE]

File == [st : {"unused", "open", "closed"}, dir : BOOLEAN, name : Name \union {NoName},
         content : Content,       \* what the staging file holds
         dirty : BOOLEAN,
         wrote : BOOLEAN,         \* history: content was put there by this handle
         sent : Nat,              \* history: the last own content a sync confirmed
         write : BOOLEAN,         \* writePermitted
         busy : {"no", "sync", "guard"},
         staging : {"none", "removed"} \union Kept,
         tracked : BOOLEAN]       \* is in guardedFS.files

NoOp == [op |-> "none", h |-> NoHandle, name |-> NoName, flags |-> {}, todo |-> {},
         due |-> [h \in Handle |-> 0]]

PathOps == {"open", "stat", "remove"}
Op == [op : PathOps \union {"fresh", "none", "close", "force"}, h : Handle \union {NoHandle},
       name : Name \union {NoName}, flags : SUBSET {"write", "create", "trunc", "excl"},
       todo : SUBSET Handle, due : [Handle -> Nat]]

Init ==
    /\ files = [h \in Handle |-> Unused]
    /\ g = NoOp /\ open = 0 /\ stopping = FALSE /\ closeErr = FALSE
    /\ session = "mounted"
    /\ remote \in [Name -> {Absent, 0}]
    /\ \A n \in DirName : remote[n] = 0
    /\ last = 0

Running == session \in {"mounted", "detaching", "forcing"}
GuardFree == Running /\ g = NoOp
Staged(h) == files[h].st = "open" /\ ~files[h].dir

-----------------------------------------------------------------------------
(* upload and syncLocked.                                                  *)

\* What an upload that reports an error may leave on the server.
AfterFailedUpload(h) == {remote[files[h].name], Partial, files[h].content}

\* syncLocked of a dirty handle, once the upload has ended: it is clean only
\* when the upload, and the SetModTime of a requested time, succeeded.
Clean(f) == [f EXCEPT !.dirty = FALSE, !.busy = "no",
                      !.sent = IF f.wrote THEN f.content ELSE f.sent]
StillDirty(f) == [f EXCEPT !.busy = "no"]

Uploaded(h) == remote' = [remote EXCEPT ![files[h].name] = files[h].content]
UploadFailed(h) ==
    \E c \in AfterFailedUpload(h) : remote' = [remote EXCEPT ![files[h].name] = c]

-----------------------------------------------------------------------------
(* A handle's own operations: they hold only the file's mutex.             *)

\* Write, WriteAt, Truncate, within the cache's limits (a write beyond them
\* fails and changes nothing). WinFsp passes writes only to handles opened
\* for writing.
Write(h) ==
    /\ Running /\ Staged(h) /\ files[h].busy = "no" /\ files[h].write
    /\ last < MaxContent
    /\ last' = last + 1
    /\ files' = [files EXCEPT ![h].content = last + 1, ![h].wrote = TRUE, ![h].dirty = TRUE]
    /\ UNCHANGED <<g, open, stopping, closeErr, session, remote>>

\* Sync of a dirty handle (of a clean or closed one it changes nothing).
SyncStart(h) ==
    /\ Running /\ Staged(h) /\ files[h].busy = "no" /\ files[h].dirty
    /\ files' = [files EXCEPT ![h].busy = "sync"]
    /\ UNCHANGED <<g, open, stopping, closeErr, session, remote, last>>

\* Mutant: the mutex is not released when the upload fails.
SyncEndStuck(h) ==
    /\ Running /\ files[h].busy = "sync"
    /\ \/ Uploaded(h) /\ files' = [files EXCEPT ![h] = Clean(@)]
       \/ UploadFailed(h) /\ files' = [files EXCEPT ![h].busy = "guard"]
    /\ UNCHANGED <<g, open, stopping, closeErr, session, last>>

SyncEnd(h) ==
    /\ Running /\ files[h].busy = "sync"
    /\ \/ Uploaded(h) /\ files' = [files EXCEPT ![h] = Clean(@)]
       \/ UploadFailed(h) /\ files' = [files EXCEPT ![h] = StillDirty(@)]
    /\ UNCHANGED <<g, open, stopping, closeErr, session, last>>

-----------------------------------------------------------------------------
(* Path operations: OpenFile, Stat and Remove begin with goFileSystem.stat *)
(* which first publishes the dirty handles of that name.                   *)

SameName(n) == {x \in Handle : Staged(x) /\ files[x].name = n}

Due(n) == [x \in Handle |->
             IF x \in SameName(n) /\ files[x].wrote /\ files[x].content \in Nat
             THEN files[x].content ELSE 0]

\* Mutant: a path operation is let in while the session is stopping.
PathOpStartLate(op, h, n, flags) ==
    /\ GuardFree
    /\ g' = [op |-> op, h |-> h, name |-> n, flags |-> flags, todo |-> SameName(n),
             due |-> Due(n)]
    /\ UNCHANGED <<files, open, stopping, closeErr, session, remote, last>>

\* Mutant: dirty handles of the name are not published.
PathOpStartUnpublished(op, h, n, flags) ==
    /\ GuardFree /\ ~stopping
    /\ g' = [op |-> op, h |-> h, name |-> n, flags |-> flags, todo |-> {}, due |-> Due(n)]
    /\ UNCHANGED <<files, open, stopping, closeErr, session, remote, last>>

PathOpStart(op, h, n, flags) ==
    /\ GuardFree /\ ~stopping
    /\ g' = [op |-> op, h |-> h, name |-> n, flags |-> flags, todo |-> SameName(n),
             due |-> Due(n)]
    /\ UNCHANGED <<files, open, stopping, closeErr, session, remote, last>>

OpenFile(h, n, flags) ==
    /\ files[h] = Unused /\ <<n, flags>> \in Opened
    /\ ReadOnly => flags = {}
    /\ PathOpStart("open", h, n, flags)
Stat(n) == PathOpStart("stat", NoHandle, n, {})
Remove(n) == ~ReadOnly /\ PathOpStart("remove", NoHandle, n, {})

PublishSkip(x) ==
    /\ Running /\ g.op \in PathOps /\ x \in g.todo
    /\ files[x].busy = "no" /\ ~files[x].dirty
    /\ g' = [g EXCEPT !.todo = @ \ {x}]
    /\ UNCHANGED <<files, open, stopping, closeErr, session, remote, last>>

\* Range visits one handle after the other.
PublishStart(x) ==
    /\ Running /\ g.op \in PathOps /\ x \in g.todo
    /\ files[x].busy = "no" /\ files[x].dirty
    /\ \A y \in Handle : files[y].busy # "guard"
    /\ files' = [files EXCEPT ![x].busy = "guard"]
    /\ UNCHANGED <<g, open, stopping, closeErr, session, remote, last>>

\* The first failure ends the lookup with that error. To OpenFile an error that is
\* os.ErrNotExist means that there is no such file, whichever call it came from:
\* with O_CREATE it goes on to a fresh one (op "fresh").
PublishEnd(x) ==
    /\ Running /\ g.op \in PathOps /\ x \in g.todo /\ files[x].busy = "guard"
    /\ \/ /\ Uploaded(x)
          /\ files' = [files EXCEPT ![x] = Clean(@)]
          /\ g' = [g EXCEPT !.todo = @ \ {x}]
       \/ /\ UploadFailed(x)
          /\ files' = [files EXCEPT ![x] = StillDirty(@)]
          /\ \/ g' = NoOp
             \/ /\ g.op = "open" /\ "create" \in g.flags
                /\ g' = [g EXCEPT !.op = "fresh", !.todo = {}]
    /\ UNCHANGED <<open, stopping, closeErr, session, last>>

LookedUp(op) == Running /\ g.op = op /\ g.todo = {}
Opening == LookedUp("open") \/ LookedUp("fresh")

StatEnd ==
    /\ LookedUp("stat")
    /\ g' = NoOp
    /\ UNCHANGED <<files, open, stopping, closeErr, session, remote, last>>

RemoveEnd ==
    /\ LookedUp("remove")
    /\ g' = NoOp
    /\ remote' \in {remote, [remote EXCEPT ![g.name] = Absent]}
    /\ UNCHANGED <<files, open, stopping, closeErr, session, last>>

\* A lookup, limit or download error, or flags the entry's state rejects: the
\* staging file made so far is removed again.
OpenFails ==
    /\ Opening
    /\ g' = NoOp
    /\ UNCHANGED <<files, open, stopping, closeErr, session, remote, last>>

OpenDirectory ==
    /\ LookedUp("open") /\ g.name \in DirName /\ remote[g.name] # Absent
    /\ g.flags \cap {"write", "trunc"} = {}
    /\ files' = [files EXCEPT ![g.h] = [Unused EXCEPT !.st = "open", !.dir = TRUE,
                                                      !.name = g.name, !.tracked = TRUE]]
    /\ open' = open + 1 /\ g' = NoOp
    /\ UNCHANGED <<stopping, closeErr, session, remote, last>>

\* An existing file is downloaded, unless it is to be truncated; a new or a
\* truncated one starts empty and dirty.
OpenStaged ==
    LET exists == g.op = "open" /\ remote[g.name] # Absent
        fresh == ~exists \/ "trunc" \in g.flags
    IN  /\ Opening /\ g.name \notin DirName
        /\ ~(exists /\ {"create", "excl"} \subseteq g.flags)
        /\ exists \/ "create" \in g.flags
        /\ fresh => last < MaxContent
        /\ last' = IF fresh THEN last + 1 ELSE last
        /\ files' = [files EXCEPT ![g.h] =
                       [Unused EXCEPT !.st = "open", !.name = g.name,
                                      !.content = IF fresh THEN last + 1 ELSE remote[g.name],
                                      !.dirty = fresh, !.wrote = fresh,
                                      !.write = ("write" \in g.flags),
                                      !.staging = "live", !.tracked = TRUE]]
        /\ open' = open + 1 /\ g' = NoOp
        /\ UNCHANGED <<stopping, closeErr, session, remote>>

Mkdir(n) ==
    /\ GuardFree /\ ~stopping /\ ~ReadOnly
    /\ n \in DirName /\ remote[n] = Absent
    /\ remote' = [remote EXCEPT ![n] = 0]
    /\ UNCHANGED <<files, g, open, stopping, closeErr, session, last>>

\* Rename goes straight to the backend; open handles keep their old name.
Rename(a, b) ==
    /\ GuardFree /\ ~stopping /\ ~ReadOnly
    /\ {a, b} \cap DirName = {} /\ a # b /\ remote[a] # Absent
    /\ remote' = [remote EXCEPT ![b] = remote[a], ![a] = Absent]
    /\ UNCHANGED <<files, g, open, stopping, closeErr, session, last>>

-----------------------------------------------------------------------------
(* trackedFile.Close and stagedFile.Close.                                 *)

Sealed(f, staging) ==
    [f EXCEPT !.st = "closed", !.staging = staging, !.busy = "no", !.tracked = FALSE]

\* Mutant: a directory handle that SessionClose has closed is closed again.
CloseDirectoryAgain(h) ==
    /\ GuardFree /\ files[h].dir
    /\ files' = [files EXCEPT ![h] = Sealed(@, "none")]
    /\ open' = open - 1
    /\ UNCHANGED <<g, stopping, closeErr, session, remote, last>>

CloseDirectory(h) ==
    /\ GuardFree /\ files[h].tracked /\ files[h].dir
    /\ files' = [files EXCEPT ![h] = Sealed(@, "none")]
    /\ open' = open - 1
    /\ UNCHANGED <<g, stopping, closeErr, session, remote, last>>

CloseStart(h) ==
    /\ GuardFree /\ files[h].tracked /\ ~files[h].dir
    /\ g' = [NoOp EXCEPT !.op = "close", !.h = h]
    /\ UNCHANGED <<files, open, stopping, closeErr, session, remote, last>>

\* A clean staging file is removed. A local sync or close error, or a failed
\* removal, is remembered like a failed upload.
CloseClean(h) ==
    /\ Running /\ g.op = "close" /\ g.h = h
    /\ files[h].busy = "no" /\ ~files[h].dirty
    /\ \/ files' = [files EXCEPT ![h] = Sealed(@, "removed")] /\ closeErr' \in {closeErr, TRUE}
       \/ /\ \E s \in {"preserved", "unrecorded"} : files' = [files EXCEPT ![h] = Sealed(@, s)]
          /\ closeErr' = TRUE
    /\ open' = open - 1 /\ g' = NoOp
    /\ UNCHANGED <<stopping, session, remote, last>>

CloseUpload(h) ==
    /\ Running /\ g.op = "close" /\ g.h = h
    /\ files[h].busy = "no" /\ files[h].dirty
    /\ files' = [files EXCEPT ![h].busy = "guard"]
    /\ UNCHANGED <<g, open, stopping, closeErr, session, remote, last>>

\* Mutant: Close removes the staging file whatever became of the upload.
CloseEndRemoving(h) ==
    /\ Running /\ g.op = "close" /\ g.h = h /\ files[h].busy = "guard"
    /\ \/ /\ Uploaded(h)
          /\ files' = [files EXCEPT ![h] = Sealed(Clean(@), "removed")]
          /\ UNCHANGED closeErr
       \/ /\ UploadFailed(h)
          /\ files' = [files EXCEPT ![h] = Sealed(@, "removed")]
          /\ closeErr' = TRUE
    /\ open' = open - 1 /\ g' = NoOp
    /\ UNCHANGED <<stopping, session, last>>

\* Mutant: the failed close is not remembered.
CloseEndForgetting(h) ==
    /\ Running /\ g.op = "close" /\ g.h = h /\ files[h].busy = "guard"
    /\ \/ /\ Uploaded(h)
          /\ files' = [files EXCEPT ![h] = Sealed(Clean(@), "removed")]
       \/ /\ UploadFailed(h)
          /\ files' = [files EXCEPT ![h] = Sealed(@, "preserved")]
    /\ open' = open - 1 /\ g' = NoOp
    /\ UNCHANGED <<stopping, closeErr, session, last>>

\* The upload of Close has ended: the staging file is removed, or preserved for
\* recovery (without a record when writing that fails) and remembered.
CloseEnd(h) ==
    /\ Running /\ g.op = "close" /\ g.h = h /\ files[h].busy = "guard"
    /\ \/ /\ Uploaded(h)
          /\ \/ files' = [files EXCEPT ![h] = Sealed(Clean(@), "removed")] /\ UNCHANGED closeErr
             \/ files' = [files EXCEPT ![h] = Sealed(Clean(@), "unrecorded")] /\ closeErr' = TRUE
       \/ /\ UploadFailed(h)
          /\ \E s \in {"preserved", "unrecorded"} : files' = [files EXCEPT ![h] = Sealed(@, s)]
          /\ closeErr' = TRUE
    /\ open' = open - 1 /\ g' = NoOp
    /\ UNCHANGED <<stopping, session, last>>

-----------------------------------------------------------------------------
(* Session.Close and Session.ForceClose.                                   *)

Directories == {h \in Handle : files[h].tracked /\ files[h].dir}
WithoutDirectories ==
    [h \in Handle |-> IF h \in Directories THEN Sealed(files[h], "none") ELSE files[h]]

\* Mutant: directory handles are closed but still counted.
SessionCloseMiscounts ==
    /\ GuardFree /\ session = "mounted"
    /\ files' = WithoutDirectories
    /\ open' = open
    /\ IF open = 0 /\ ~closeErr
       THEN stopping' = TRUE /\ session' = "detaching"
       ELSE UNCHANGED <<stopping, session>>
    /\ UNCHANGED <<g, closeErr, remote, last>>

\* prepareStop closes directory handles, then refuses while a file handle is
\* open or a close has failed; otherwise new path operations are refused.
SessionClose ==
    /\ GuardFree /\ session = "mounted"
    /\ files' = WithoutDirectories
    /\ open' = open - Cardinality(Directories)
    /\ IF open' = 0 /\ ~closeErr
       THEN stopping' = TRUE /\ session' = "detaching"
       ELSE UNCHANGED <<stopping, session>>
    /\ UNCHANGED <<g, closeErr, remote, last>>

\* WinFsp unmounts the drive and the backend is closed.
Unmount ==
    /\ session \in {"detaching", "forcing"} /\ GuardFree
    /\ session' = IF session = "forcing" THEN "forced" ELSE "closed"
    /\ UNCHANGED <<files, g, open, stopping, closeErr, remote, last>>

ForceClose ==
    /\ GuardFree /\ session = "mounted"
    /\ stopping' = TRUE
    /\ g' = [NoOp EXCEPT !.op = "force", !.todo = {h \in Handle : files[h].tracked}]
    /\ UNCHANGED <<files, open, closeErr, session, remote, last>>

\* Mutant: a clean handle loses its staging file.
ForceSealDropsClean(h) ==
    /\ Running /\ g.op = "force" /\ h \in g.todo /\ files[h].busy = "no"
    /\ \E s \in IF files[h].dir THEN {"none"}
                ELSE IF files[h].dirty THEN {"preserved", "unrecorded"} ELSE {"removed"} :
        files' = [files EXCEPT ![h] = Sealed(@, s)]
    /\ open' = open - 1
    /\ g' = [g EXCEPT !.todo = @ \ {h}]
    /\ UNCHANGED <<stopping, closeErr, session, remote, last>>

\* Mutant: a handle is sealed without waiting for its mutex.
ForceSealNoWait(h) ==
    /\ Running /\ g.op = "force" /\ h \in g.todo
    /\ \E s \in IF files[h].dir THEN {"none"} ELSE {"preserved", "unrecorded"} :
        files' = [files EXCEPT ![h] = [Sealed(@, s) EXCEPT !.busy = files[h].busy]]
    /\ open' = open - 1
    /\ g' = [g EXCEPT !.todo = @ \ {h}]
    /\ UNCHANGED <<stopping, closeErr, session, remote, last>>

\* closePreserving: without upload or removal, once the handle's mutex is free.
ForceSeal(h) ==
    /\ Running /\ g.op = "force" /\ h \in g.todo /\ files[h].busy = "no"
    /\ \E s \in IF files[h].dir THEN {"none"} ELSE {"preserved", "unrecorded"} :
        files' = [files EXCEPT ![h] = Sealed(@, s)]
    /\ open' = open - 1
    /\ g' = [g EXCEPT !.todo = @ \ {h}]
    /\ UNCHANGED <<stopping, closeErr, session, remote, last>>

ForceEnd ==
    /\ Running /\ g.op = "force" /\ g.todo = {}
    /\ session' = "forcing" /\ g' = NoOp
    /\ UNCHANGED <<files, open, stopping, closeErr, remote, last>>

\* The process ends at any moment: staging files stay, without a record.
Crash ==
    /\ Running
    /\ session' = "crashed" /\ g' = NoOp
    /\ files' = [h \in Handle |->
                   IF files[h].staging = "live"
                   THEN Sealed(files[h], "unrecorded") ELSE files[h]]
    /\ UNCHANGED <<open, stopping, closeErr, remote, last>>

-----------------------------------------------------------------------------

GuardStep ==
    \/ \E x \in Handle :
        \/ PublishSkip(x) \/ PublishStart(x) \/ PublishEnd(x)
        \/ CloseClean(x) \/ CloseUpload(x) \/ CloseEnd(x) \/ ForceSeal(x)
    \/ StatEnd \/ RemoveEnd \/ OpenFails \/ OpenDirectory \/ OpenStaged \/ ForceEnd

Next ==
    \/ GuardStep
    \/ \E h \in Handle :
        \/ Write(h) \/ SyncStart(h) \/ SyncEnd(h)
        \/ CloseDirectory(h) \/ CloseStart(h)
        \/ \E n \in Name, flags \in OpenFlags : OpenFile(h, n, flags)
    \/ \E n \in Name : Stat(n) \/ Remove(n) \/ Mkdir(n)
    \/ \E a, b \in Name : Rename(a, b)
    \/ SessionClose \/ ForceClose \/ Unmount \/ Crash

Spec == Init /\ [][Next]_vars

\* The mutexes, being sync.Mutex, let no goroutine wait for ever. That an upload
\* ends is an assumption on the network and the server: operationContext's 30 s do
\* not reach an FTP or SFTP request that was sent. Nobody is made to call.
Fairness == SF_vars(GuardStep) /\ \A h \in Handle : WF_vars(SyncEnd(h))
FairSpec == Spec /\ Fairness

-----------------------------------------------------------------------------
(* Properties.                                                             *)

\* Every variable holds a value of its Go type; counters are not negative.
TypeOK ==
    /\ files \in [Handle -> File]
    /\ g \in Op
    /\ open \in Nat /\ last \in Nat
    /\ stopping \in BOOLEAN /\ closeErr \in BOOLEAN
    /\ session \in {"mounted", "detaching", "forcing", "closed", "forced", "crashed"}
    /\ remote \in [Name -> Content \union {Absent}]

\* stagedFile: what was written through a handle is on the server, confirmed,
\* or still in its staging file: through failed syncs, lookups and closes,
\* forced detaches and the death of the process.
DataRetained ==
    \A h \in Handle :
        files[h].wrote /\ files[h].sent # files[h].content => files[h].staging \in Kept

\* Session.Close: when a normal detach succeeds, every write has been confirmed
\* by the server and no staging file is left behind.
SafeDetach ==
    session \in {"detaching", "closed"} =>
        \A h \in Handle :
            /\ files[h].wrote => files[h].sent = files[h].content
            /\ files[h].staging \notin Kept

\* Session.ForceClose: no step of a forced detach removes a staging file, that
\* of a clean handle included, and the drive is unmounted with no handle open.
ForcedDetachKeeps ==
    [][/\ g.op = "force" =>
            \A h \in Handle : files[h].staging \in Kept => files'[h].staging \in Kept
       /\ session' = "forced" => \A h \in Handle : files'[h].st # "open"]_vars

\* closePreserving, Close: a sealed handle is final. No late Sync, lookup or
\* Write uploads, changes or removes a staging file after its handle closed.
SealedIsFinal ==
    [][\A h \in Handle : files[h].st = "closed" => files'[h] = files[h]]_vars

\* prepareStop, forceStop: a detach adds nothing to the server. While the handles
\* are being sealed the server changes only by a Sync that an application called on
\* a handle that is not sealed yet (such a Sync may still begin in that window);
\* once prepareStop or forceStop has returned, nothing of this drive changes it.
DetachAddsNoUpload ==
    [][stopping =>
          /\ \A n \in Name : remote'[n] # remote[n] =>
                \E h \in Handle : Staged(h) /\ files[h].busy = "sync" /\ files[h].name = n
          /\ session # "mounted" => remote' = remote]_vars

\* goFileSystem.stat: when a path operation consults the server, every write
\* that a handle of that name had accepted before the operation began, or a
\* later one of the same handle, has been uploaded and confirmed.
LookupSeesWrites ==
    g.op \in PathOps /\ g.todo = {} => \A h \in Handle : g.due[h] <= files[h].sent

\* guardedFS: open counts exactly the handles it tracks, so that the test for
\* open handles in prepareStop is meaningful.
OpenIsExact == open = Cardinality({h \in Handle : files[h].tracked}) \/ session = "crashed"

\* The guard's mutex is always given back: an operation that holds it, a forced
\* detach included, never waits for ever on a handle's mutex.
GuardReleased == g.op # "none" ~> g.op = "none"
====
