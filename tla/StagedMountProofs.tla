---- MODULE StagedMountProofs ----
(***************************************************************************)
(* Proofs about StagedMount, for every set of handles and names, every     *)
(* set of open flags and any number of writes.                             *)
(***************************************************************************)
EXTENDS StagedMount, FiniteSetTheorems, TLAPS

-----------------------------------------------------------------------------
(* The inductive invariant.                                                *)

\* One handle: it is tracked exactly while it is open; an open staged file has
\* its staging file; what was written and is not confirmed keeps it dirty, and
\* a dirty handle is sealed only over a staging file that is kept.
FileOK(f, newest) ==
    /\ f.tracked <=> f.st = "open"
    /\ f.st = "unused" => f = Unused
    /\ f.st = "open" => f.name \in Name
    /\ f.staging = "live" <=> f.st = "open" /\ ~f.dir
    /\ f.st = "open" /\ f.dir => f.staging = "none"
    /\ f.dir => ~f.wrote /\ ~f.dirty
    /\ f.busy # "no" => f.st = "open" /\ ~f.dir
    /\ f.wrote => /\ f.content \in Nat /\ f.content <= newest
                  /\ f.sent <= f.content /\ (f.sent # f.content => f.dirty)
    /\ ~f.wrote => f.sent = 0
    /\ f.dirty /\ f.st = "closed" => f.staging \in Kept

FilesOK == \A h \in Handle : FileOK(files[h], last)

Tracked == {h \in Handle : files[h].tracked}

\* The holder of guardedFS.mu: the handles it works on stay open under it, and
\* none but a forced detach works while the session is stopping.
GuardOK ==
    /\ g.op \in PathOps => /\ ~stopping /\ g.name \in Name
                           /\ \A x \in g.todo : Staged(x) /\ files[x].name = g.name
    /\ g.op \in {"open", "fresh"} => /\ ~stopping /\ g.name \in Name
                                     /\ g.h \in Handle /\ files[g.h] = Unused
    /\ g.op = "close" => ~stopping /\ g.h \in Handle /\ Staged(g.h)
    /\ g.op = "force" => stopping /\ g.todo = Tracked
    /\ g.op # "none" => session = "mounted"

\* A detach: nothing is tracked once it has been agreed to, and no staging file
\* is left while no close has failed.
DetachOK ==
    /\ session = "mounted" /\ stopping => g.op = "force"
    /\ session \in {"detaching", "forcing", "closed", "forced"} => stopping /\ Tracked = {}
    /\ session \in {"detaching", "closed"} => \A h \in Handle : files[h].staging \notin Kept
    /\ session = "mounted" /\ ~stopping /\ ~closeErr =>
            \A h \in Handle : files[h].st = "closed" => files[h].staging \notin Kept

\* A lookup: what is due of a handle is confirmed, or the handle is still to be
\* published with that content or a later one.
DueOK ==
    g.op \in PathOps => \A h \in Handle :
        \/ g.due[h] <= files[h].sent
        \/ h \in g.todo /\ files[h].wrote /\ g.due[h] <= files[h].content

MountInv == TypeOK /\ FilesOK /\ GuardOK /\ DetachOK /\ DueOK /\ OpenIsExact

-----------------------------------------------------------------------------
(* What the updates of a handle do to it.                                  *)

\* Two records of a handle differ in no field that the guard or a detach reads.
SameOutside(f, e) ==
    /\ f.st = e.st /\ f.dir = e.dir /\ f.name = e.name
    /\ f.staging = e.staging /\ f.tracked = e.tracked

\* A handle that was never used satisfies the invariant.
LEMMA UnusedOK ==
    ASSUME NEW l \in Nat
    PROVE  Unused \in File /\ FileOK(Unused, l) /\ ~Unused.tracked
BY MountConstants DEF Unused, File, FileOK, Kept, Content

\* syncLocked, the upload confirmed: the handle is clean and nothing written is
\* unconfirmed; what was confirmed before stays so.
LEMMA CleanOK ==
    ASSUME NEW l \in Nat, NEW f \in File, FileOK(f, l), f.st = "open"
    PROVE  /\ Clean(f) \in File /\ FileOK(Clean(f), l) /\ SameOutside(Clean(f), f)
           /\ Clean(f).wrote = f.wrote /\ Clean(f).content = f.content
           /\ ~Clean(f).dirty /\ f.sent <= Clean(f).sent
           /\ f.wrote => Clean(f).sent = f.content
<1>1. Clean(f) \in File
  BY DEF Clean, File, FileOK
<1>2. /\ SameOutside(Clean(f), f) /\ Clean(f).busy = "no"
      /\ Clean(f).wrote = f.wrote /\ Clean(f).content = f.content
      /\ Clean(f).dirty = FALSE
      /\ Clean(f).sent = IF f.wrote THEN f.content ELSE f.sent
  BY DEF Clean, File, SameOutside
<1>3. FileOK(Clean(f), l)
  BY <1>2 DEF FileOK, SameOutside, File, Kept
<1>4. QED
  BY <1>1, <1>2, <1>3 DEF FileOK, File

\* syncLocked, the upload failed: only the mutex is given back.
LEMMA StillDirtyOK ==
    ASSUME NEW l \in Nat, NEW f \in File, FileOK(f, l), f.st = "open"
    PROVE  /\ StillDirty(f) \in File /\ FileOK(StillDirty(f), l) /\ SameOutside(StillDirty(f), f)
           /\ StillDirty(f).wrote = f.wrote /\ StillDirty(f).content = f.content
           /\ StillDirty(f).dirty = f.dirty /\ StillDirty(f).sent = f.sent
<1>1. StillDirty(f) \in File
  BY DEF StillDirty, File
<1>2. /\ SameOutside(StillDirty(f), f) /\ StillDirty(f).busy = "no"
      /\ StillDirty(f).wrote = f.wrote /\ StillDirty(f).content = f.content
      /\ StillDirty(f).dirty = f.dirty /\ StillDirty(f).sent = f.sent
  BY DEF StillDirty, File, SameOutside
<1>3. FileOK(StillDirty(f), l)
  BY <1>2 DEF FileOK, SameOutside, File, Kept
<1>4. QED
  BY <1>1, <1>2, <1>3

\* The file's mutex is taken for an upload.
LEMMA BusyOK ==
    ASSUME NEW l \in Nat, NEW f \in File, FileOK(f, l), f.st = "open", ~f.dir,
           NEW b \in {"sync", "guard"}
    PROVE  LET e == [f EXCEPT !.busy = b]
           IN  /\ e \in File /\ FileOK(e, l) /\ SameOutside(e, f)
               /\ e.wrote = f.wrote /\ e.content = f.content /\ e.sent = f.sent
<1> DEFINE e == [f EXCEPT !.busy = b]
<1>1. e \in File
  BY DEF File
<1>2. /\ SameOutside(e, f) /\ e.wrote = f.wrote /\ e.content = f.content
      /\ e.sent = f.sent /\ e.dirty = f.dirty
  BY DEF File, SameOutside
<1>3. FileOK(e, l)
  BY <1>2 DEF FileOK, SameOutside, File, Kept
<1>4. QED
  BY <1>1, <1>2, <1>3

\* A write puts the newest content into the staging file.
LEMMA WrittenOK ==
    ASSUME NEW l \in Nat, NEW f \in File, FileOK(f, l), f.st = "open", ~f.dir
    PROVE  LET e == [f EXCEPT !.content = l + 1, !.wrote = TRUE, !.dirty = TRUE]
           IN  /\ e \in File /\ FileOK(e, l + 1) /\ SameOutside(e, f)
               /\ e.wrote /\ e.content = l + 1 /\ e.sent = f.sent
<1> DEFINE e == [f EXCEPT !.content = l + 1, !.wrote = TRUE, !.dirty = TRUE]
<1>0. l + 1 \in Content
  BY DEF Content
<1>1. e \in File
  BY <1>0 DEF File
<1>2. /\ SameOutside(e, f) /\ e.wrote = TRUE /\ e.content = l + 1
      /\ e.sent = f.sent /\ e.dirty = TRUE /\ e.busy = f.busy
  BY DEF File, SameOutside
<1>3. f.sent <= l /\ f.sent \in Nat
  BY DEF FileOK, File
<1>4. FileOK(e, l + 1)
  BY <1>2, <1>3 DEF FileOK, SameOutside, File, Kept
<1>5. QED
  BY <1>1, <1>2, <1>4

\* A handle is sealed: over a kept staging file whatever it holds, over a removed
\* one only when it is clean, and a directory's without any.
LEMMA SealedOK ==
    ASSUME NEW l \in Nat, NEW f \in File, FileOK(f, l), f.st = "open",
           NEW s \in {"none", "removed", "preserved", "unrecorded"},
           f.dirty => s \in Kept
    PROVE  /\ Sealed(f, s) \in File /\ FileOK(Sealed(f, s), l)
           /\ Sealed(f, s).staging = s /\ Sealed(f, s).st = "closed" /\ ~Sealed(f, s).tracked
           /\ Sealed(f, s).sent = f.sent /\ Sealed(f, s).wrote = f.wrote
           /\ Sealed(f, s).content = f.content
<1> DEFINE e == Sealed(f, s)
<1>1. e \in File
  BY DEF Sealed, File, Kept
<1>2. /\ e.staging = s /\ e.st = "closed" /\ e.tracked = FALSE /\ e.busy = "no"
      /\ e.sent = f.sent /\ e.wrote = f.wrote /\ e.content = f.content
      /\ e.dirty = f.dirty /\ e.dir = f.dir
  BY DEF Sealed, File
<1>3. FileOK(e, l)
  BY <1>2 DEF FileOK, File, Kept
<1>4. QED
  BY <1>1, <1>2, <1>3

-----------------------------------------------------------------------------
(* What a step does to the table of handles.                               *)

\* A handle that is in order stays so when newer contents appear elsewhere.
LEMMA NewerOK ==
    ASSUME NEW l \in Nat, NEW m \in Nat, l <= m, NEW f \in File, FileOK(f, l)
    PROVE  FileOK(f, m)
<1>1. f.wrote => f.content \in Nat /\ f.content <= m
  BY DEF FileOK
<1>2. QED
  BY <1>1 DEF FileOK

\* One handle changes: the others are in order as before.
LEMMA OneFile ==
    ASSUME files \in [Handle -> File], FilesOK, last \in Nat, last' \in Nat, last <= last',
           NEW h \in Handle, NEW f \in File, FileOK(f, last'), files' = [files EXCEPT ![h] = f]
    PROVE  /\ files' \in [Handle -> File] /\ FilesOK'
           /\ files'[h] = f /\ \A x \in Handle \ {h} : files'[x] = files[x]
<1>1. /\ files' \in [Handle -> File]
      /\ files'[h] = f /\ \A x \in Handle \ {h} : files'[x] = files[x]
  OBVIOUS
<1>2. ASSUME NEW x \in Handle PROVE FileOK(files[x], last')
  BY NewerOK DEF FilesOK
<1>3. \A x \in Handle : FileOK(files'[x], last')
  BY <1>1, <1>2
<1>4. QED
  BY <1>1, <1>3 DEF FilesOK

\* Tracked handles can be counted.
LEMMA TrackedFinite ==
    IsFiniteSet(Tracked) /\ Cardinality(Tracked) \in Nat
BY MountConstants, FS_Subset, FS_CardinalityType DEF Tracked

\* guardedFS.open follows the set of tracked handles: one joins.
LEMMA TrackOne ==
    ASSUME NEW h \in Handle, h \notin Tracked, Tracked' = Tracked \union {h},
           OpenIsExact, session # "crashed", open' = open + 1
    PROVE  open' \in Nat /\ OpenIsExact'
<1>1. Cardinality(Tracked \union {h}) = Cardinality(Tracked) + 1
  BY TrackedFinite, FS_AddElement
<1>2. open = Cardinality(Tracked)
  BY DEF OpenIsExact, Tracked
<1>3. open' = Cardinality(Tracked') /\ open' \in Nat
  BY <1>1, <1>2, TrackedFinite
<1>4. QED
  BY <1>3 DEF OpenIsExact, Tracked

\* guardedFS.open follows the set of tracked handles: one leaves.
LEMMA UntrackOne ==
    ASSUME NEW h \in Handle, h \in Tracked, Tracked' = Tracked \ {h},
           OpenIsExact, session # "crashed", open' = open - 1
    PROVE  open' \in Nat /\ OpenIsExact'
<1>1. Cardinality(Tracked \ {h}) = Cardinality(Tracked) - 1 /\ IsFiniteSet(Tracked \ {h})
  BY TrackedFinite, FS_RemoveElement
<1>2. open = Cardinality(Tracked)
  BY DEF OpenIsExact, Tracked
<1>3. open' = Cardinality(Tracked')
  BY <1>1, <1>2
<1>4. Cardinality(Tracked \ {h}) \in Nat
  BY <1>1, FS_CardinalityType
<1>5. QED
  BY <1>3, <1>4 DEF OpenIsExact, Tracked

\* The tracked handles and their count stay.
LEMMA TrackSame ==
    ASSUME Tracked' = Tracked, OpenIsExact, open' = open, session' = session \/ session' = "crashed",
           session # "crashed"
    PROVE  OpenIsExact'
<1>1. open = Cardinality(Tracked)
  BY DEF OpenIsExact, Tracked
<1>2. open' = Cardinality(Tracked')
  BY <1>1
<1>3. QED
  BY <1>2 DEF OpenIsExact, Tracked

\* A step inside an open staged handle (a write, the start or the end of an
\* upload) changes nothing that the guard or a detach relies on.
LEMMA InsideFile ==
    ASSUME MountInv, last' \in Nat, last <= last', open' = open,
           session' = session, session # "crashed",
           NEW h \in Handle, Staged(h), NEW f \in File, FileOK(f, last'),
           SameOutside(f, files[h]), files' = [files EXCEPT ![h] = f]
    PROVE  /\ files' \in [Handle -> File] /\ FilesOK'
           /\ files'[h] = f /\ \A x \in Handle \ {h} : files'[x] = files[x]
           /\ \A x \in Handle : SameOutside(files'[x], files[x]) /\ (Staged(x)' <=> Staged(x))
           /\ \A x \in Handle : files[x] = Unused => files'[x] = Unused
           /\ Tracked' = Tracked /\ OpenIsExact'
<1>1. files \in [Handle -> File] /\ FilesOK /\ last \in Nat
  BY DEF MountInv, TypeOK
<1>2. /\ files' \in [Handle -> File] /\ FilesOK'
      /\ files'[h] = f /\ \A x \in Handle \ {h} : files'[x] = files[x]
  BY <1>1, OneFile
<1>3. \A x \in Handle : SameOutside(files'[x], files[x])
  BY <1>2 DEF SameOutside
<1>4. \A x \in Handle : Staged(x)' <=> Staged(x)
  BY <1>3 DEF SameOutside, Staged
<1>5. files[h] # Unused
  BY DEF Staged, Unused
<1>6. Tracked' = Tracked
  BY <1>3 DEF SameOutside, Tracked
<1>7. OpenIsExact'
  BY <1>6, TrackSame DEF MountInv
<1>8. QED
  BY <1>2, <1>3, <1>4, <1>5, <1>6, <1>7

\* The same, for a handle's own operations and the start of an upload: nobody
\* else's state changes, and what is due stays due or confirmed.
LEMMA OwnStep ==
    ASSUME MountInv, last' \in Nat, last <= last',
           NEW h \in Handle, Running, Staged(h), NEW f \in File, FileOK(f, last'),
           SameOutside(f, files[h]), files' = [files EXCEPT ![h] = f],
           files[h].sent <= f.sent,
           files[h].wrote => f.wrote /\ files[h].content <= f.content,
           UNCHANGED <<g, open, stopping, closeErr, session>>,
           remote' \in [Name -> Content \union {Absent}]
    PROVE  MountInv'
<1>0. session # "crashed"
  BY DEF Running
<1>1. /\ files' \in [Handle -> File] /\ FilesOK'
      /\ files'[h] = f /\ \A x \in Handle \ {h} : files'[x] = files[x]
      /\ \A x \in Handle : SameOutside(files'[x], files[x]) /\ (Staged(x)' <=> Staged(x))
      /\ \A x \in Handle : files[x] = Unused => files'[x] = Unused
      /\ Tracked' = Tracked /\ OpenIsExact'
  BY <1>0, InsideFile
<1>2. TypeOK'
  BY <1>1 DEF MountInv, TypeOK
<1>3. GuardOK'
  <2>1. GuardOK /\ g.todo \subseteq Handle
    BY DEF MountInv, TypeOK, Op
  <2>2. ASSUME NEW x \in g.todo, g.op \in PathOps
        PROVE  Staged(x)' /\ files'[x].name = g.name
    BY <1>1, <2>1, <2>2 DEF GuardOK, SameOutside
  <2>3. QED
    BY <1>1, <2>1, <2>2 DEF GuardOK
<1>4. DetachOK'
  BY <1>1 DEF MountInv, DetachOK, SameOutside
<1>5. DueOK'
  <2>1. files[h] \in File /\ FileOK(files[h], last)
    BY DEF MountInv, TypeOK, FilesOK
  <2>2. files[h].sent \in Nat /\ f.sent \in Nat /\ g.due \in [Handle -> Nat]
    BY <2>1 DEF File, MountInv, TypeOK, Op
  <2>3. files[h].wrote => files[h].content \in Nat /\ f.content \in Nat
    BY <2>1 DEF FileOK
  <2>4. ASSUME g.op \in PathOps, NEW x \in Handle
        PROVE  \/ g.due[x] <= files'[x].sent
               \/ x \in g.todo /\ files'[x].wrote /\ g.due[x] <= files'[x].content
    <3>1. \/ g.due[x] <= files[x].sent
          \/ x \in g.todo /\ files[x].wrote /\ g.due[x] <= files[x].content
      BY <2>4 DEF MountInv, DueOK
    <3>2. CASE x = h
      BY <3>1, <3>2, <2>2, <2>3, <1>1
    <3>3. CASE x # h
      BY <3>1, <3>3, <1>1
    <3>4. QED
      BY <3>2, <3>3
  <2>5. QED
    BY <2>4 DEF DueOK
<1>6. QED
  BY <1>1, <1>2, <1>3, <1>4, <1>5 DEF MountInv

-----------------------------------------------------------------------------
(* The invariant holds at first and every action keeps it.                 *)

\* What the proofs below use of the invariant's typing.
LEMMA Typing ==
    ASSUME MountInv
    PROVE  /\ files \in [Handle -> File] /\ g \in Op /\ open \in Nat /\ last \in Nat
           /\ stopping \in BOOLEAN /\ closeErr \in BOOLEAN
           /\ remote \in [Name -> Content \union {Absent}]
           /\ g.todo \subseteq Handle /\ g.due \in [Handle -> Nat]
           /\ \A h \in Handle : files[h] \in File /\ FileOK(files[h], last)
BY DEF MountInv, TypeOK, FilesOK, Op

\* Nobody holds guardedFS.mu: a well-typed operation that asks for nothing.
LEMMA NoOpType == NoOp \in Op /\ NoOp.op = "none"
BY DEF NoOp, Op, PathOps

\* Whatever an upload leaves on the server is content of that name.
LEMMA UploadType ==
    ASSUME MountInv, NEW h \in Handle, files[h].st = "open", Uploaded(h) \/ UploadFailed(h)
    PROVE  remote' \in [Name -> Content \union {Absent}]
<1>1. files[h].name \in Name /\ files[h].content \in Content
  BY Typing DEF FileOK, File
<1>2. QED
  BY <1>1, Typing DEF Uploaded, UploadFailed, AfterFailedUpload, Content

\* Init: no handle is in use and nobody holds the guard.
LEMMA MountInit == Init => MountInv
<1> SUFFICES ASSUME Init PROVE MountInv
  OBVIOUS
<1>1. \A h \in Handle : files[h] = Unused /\ Unused \in File /\ FileOK(Unused, 0)
  BY UnusedOK DEF Init
<1>2. TypeOK
  <2>1. files \in [Handle -> File]
    BY <1>1 DEF Init
  <2>2. remote \in [Name -> Content \union {Absent}]
    BY DEF Init, Content
  <2>3. QED
    BY <2>1, <2>2, NoOpType DEF Init, TypeOK
<1>3. FilesOK
  BY <1>1 DEF FilesOK, Init
<1>4. GuardOK /\ DueOK
  BY NoOpType DEF Init, GuardOK, DueOK, PathOps
<1>5. Tracked = {}
  BY <1>1, UnusedOK DEF Tracked
<1>6. DetachOK
  BY <1>1 DEF Init, DetachOK, Unused
<1>7. OpenIsExact
  BY <1>5, FS_EmptySet DEF Init, OpenIsExact, Tracked
<1>8. QED
  BY <1>2, <1>3, <1>4, <1>6, <1>7 DEF MountInv

\* Write: the staging file holds the newest content, which is not confirmed.
LEMMA WriteInv ==
    ASSUME MountInv, NEW h \in Handle, Write(h)
    PROVE  MountInv'
<1> DEFINE f == [files[h] EXCEPT !.content = last + 1, !.wrote = TRUE, !.dirty = TRUE]
<1>1. files[h] \in File /\ FileOK(files[h], last) /\ files[h].st = "open" /\ ~files[h].dir
      /\ last \in Nat
  BY Typing DEF Write, Staged
<1>2. /\ f \in File /\ FileOK(f, last + 1) /\ SameOutside(f, files[h])
      /\ f.wrote /\ f.content = last + 1 /\ f.sent = files[h].sent
  BY <1>1, WrittenOK
<1>3. files' = [files EXCEPT ![h] = f] /\ last' = last + 1
  BY <1>1, Typing DEF Write
<1>4. files[h].sent <= f.sent /\ (files[h].wrote => f.wrote /\ files[h].content <= f.content)
  BY <1>1, <1>2 DEF FileOK, File
<1>5. /\ UNCHANGED <<g, open, stopping, closeErr, session>> /\ Running /\ Staged(h)
      /\ remote' \in [Name -> Content \union {Absent}]
  BY Typing DEF Write
<1> HIDE DEF f
<1>6. last' \in Nat /\ last <= last' /\ FileOK(f, last')
  BY <1>1, <1>2, <1>3, <1>5
<1>7. QED
  BY <1>1, <1>2, <1>3, <1>4, <1>5, <1>6, OwnStep

\* A handle's mutex is taken for an upload, by Sync, a lookup or Close.
LEMMA TakeMutexInv ==
    ASSUME MountInv, NEW h \in Handle, Running, Staged(h), NEW b \in {"sync", "guard"},
           files' = [files EXCEPT ![h].busy = b],
           UNCHANGED <<g, open, stopping, closeErr, session, remote, last>>
    PROVE  MountInv'
<1> DEFINE f == [files[h] EXCEPT !.busy = b]
<1>1. files[h] \in File /\ FileOK(files[h], last) /\ files[h].st = "open" /\ ~files[h].dir
      /\ last \in Nat
  BY Typing DEF Staged
<1>2. /\ f \in File /\ FileOK(f, last) /\ SameOutside(f, files[h])
      /\ f.wrote = files[h].wrote /\ f.content = files[h].content /\ f.sent = files[h].sent
  BY <1>1, BusyOK
<1>3. files' = [files EXCEPT ![h] = f]
  BY Typing
<1>4. files[h].sent <= f.sent /\ (files[h].wrote => f.wrote /\ files[h].content <= f.content)
  BY <1>1, <1>2 DEF FileOK, File
<1>5. remote' \in [Name -> Content \union {Absent}]
  BY Typing
<1> HIDE DEF f
<1>6. last' \in Nat /\ last <= last' /\ FileOK(f, last')
  BY <1>1, <1>2, <1>3, <1>5
<1>7. QED
  BY <1>1, <1>2, <1>3, <1>4, <1>5, <1>6, OwnStep

\* The upload of a Sync ends.
LEMMA SyncEndInv ==
    ASSUME MountInv, NEW h \in Handle, SyncEnd(h)
    PROVE  MountInv'
<1>1. files[h] \in File /\ FileOK(files[h], last) /\ files[h].st = "open" /\ ~files[h].dir
      /\ last \in Nat
  BY Typing DEF SyncEnd, FileOK
<1>2. PICK f \in {Clean(files[h]), StillDirty(files[h])} : files' = [files EXCEPT ![h] = f]
  BY DEF SyncEnd
<1>3. /\ f \in File /\ FileOK(f, last) /\ SameOutside(f, files[h])
      /\ f.wrote = files[h].wrote /\ f.content = files[h].content /\ files[h].sent <= f.sent
  <2>1. files[h].sent \in Nat
    BY <1>1 DEF File
  <2>2. QED
    BY <1>1, <2>1, CleanOK, StillDirtyOK
<1>4. files[h].wrote => f.wrote /\ files[h].content <= f.content
  BY <1>1, <1>3 DEF FileOK
<1>5. /\ UNCHANGED <<g, open, stopping, closeErr, session, last>> /\ Running /\ Staged(h)
      /\ remote' \in [Name -> Content \union {Absent}]
  BY <1>1, UploadType DEF SyncEnd, Staged
<1>6. last' \in Nat /\ last <= last' /\ FileOK(f, last')
  BY <1>1, <1>2, <1>3, <1>5
<1>7. QED
  BY <1>1, <1>2, <1>3, <1>4, <1>5, <1>6, OwnStep

\* Steps of the guard that leave every handle alone.
LEMMA SameFiles ==
    ASSUME MountInv, UNCHANGED <<files, open, last>>, session # "crashed"
    PROVE  FilesOK' /\ Tracked' = Tracked /\ OpenIsExact' /\ (\A x \in Handle : Staged(x)' <=> Staged(x))
<1>1. FilesOK' /\ Tracked' = Tracked /\ (\A x \in Handle : Staged(x)' <=> Staged(x))
  BY DEF MountInv, FilesOK, Tracked, Staged
<1>2. OpenIsExact'
  BY DEF MountInv, OpenIsExact
<1>3. QED
  BY <1>1, <1>2

\* The guard is given back, or its holder stopped by the end of the process,
\* with the handles as they are.
LEMMA GuardLeaves ==
    ASSUME MountInv, g' = NoOp, UNCHANGED <<files, open, stopping, closeErr, session, last>>,
           Running, g.op # "force", remote' \in [Name -> Content \union {Absent}]
    PROVE  MountInv'
<1>0. session # "crashed"
  BY DEF Running
<1>1. FilesOK' /\ Tracked' = Tracked /\ OpenIsExact'
  BY <1>0, SameFiles
<1>2. TypeOK'
  BY NoOpType DEF MountInv, TypeOK
<1>3. GuardOK' /\ DueOK'
  BY NoOpType DEF GuardOK, DueOK, PathOps
<1>4. DetachOK'
  BY <1>1 DEF MountInv, DetachOK
<1>5. QED
  BY <1>1, <1>2, <1>3, <1>4 DEF MountInv

\* OpenFile, Stat, Remove begin: the handles of the name are to be published,
\* each with what it holds now.
LEMMA PathOpStartInv ==
    ASSUME MountInv, NEW op \in PathOps, NEW h \in Handle \union {NoHandle}, NEW n \in Name,
           NEW flags \in SUBSET {"write", "create", "trunc", "excl"},
           op = "open" => h \in Handle /\ files[h] = Unused,
           PathOpStart(op, h, n, flags)
    PROVE  MountInv'
<1>0. session # "crashed" /\ ~stopping /\ Running
  BY DEF PathOpStart, GuardFree, Running
<1>1. FilesOK' /\ Tracked' = Tracked /\ OpenIsExact' /\ (\A x \in Handle : Staged(x)' <=> Staged(x))
  BY <1>0, SameFiles DEF PathOpStart
<1>2. Due(n) \in [Handle -> Nat] /\ SameName(n) \subseteq Handle
  BY DEF Due, SameName
<1>3. /\ g' \in Op /\ g'.op = op /\ g'.h = h /\ g'.name = n /\ g'.todo = SameName(n)
      /\ g'.due = Due(n)
  BY <1>2 DEF PathOpStart, Op
<1>4. TypeOK'
  BY <1>3, Typing DEF PathOpStart, MountInv, TypeOK
<1>5. session = "mounted"
  BY <1>0 DEF MountInv, DetachOK, Running
<1>6. GuardOK'
  <2>1. \A x \in SameName(n) : Staged(x)' /\ files'[x].name = n
    BY <1>1 DEF SameName, PathOpStart
  <2>2. QED
    BY <1>0, <1>3, <1>5, <2>1 DEF GuardOK, PathOps, PathOpStart
<1>7. DetachOK'
  BY <1>0, <1>1, <1>5 DEF MountInv, DetachOK, PathOpStart
<1>8. DueOK'
  <2>1. ASSUME NEW x \in Handle
        PROVE  \/ Due(n)[x] <= files[x].sent
               \/ x \in SameName(n) /\ files[x].wrote /\ Due(n)[x] <= files[x].content
    <3>1. files[x].sent \in Nat
      BY Typing DEF File
    <3>2. QED
      BY <3>1 DEF Due
  <2>2. QED
    BY <1>3, <2>1 DEF DueOK, PathOpStart
<1>9. QED
  BY <1>1, <1>4, <1>6, <1>7, <1>8 DEF MountInv

\* A clean handle needs no publishing: what is due of it is confirmed.
LEMMA PublishSkipInv ==
    ASSUME MountInv, NEW x \in Handle, PublishSkip(x)
    PROVE  MountInv'
<1>0. session # "crashed" /\ Running /\ g.op \in PathOps /\ x \in g.todo /\ ~files[x].dirty
  BY DEF PublishSkip, Running
<1>1. FilesOK' /\ Tracked' = Tracked /\ OpenIsExact' /\ (\A y \in Handle : Staged(y)' <=> Staged(y))
  BY <1>0, SameFiles DEF PublishSkip
<1>2. /\ g' \in Op /\ g'.op = g.op /\ g'.h = g.h /\ g'.name = g.name
      /\ g'.todo = g.todo \ {x} /\ g'.due = g.due
  BY Typing DEF PublishSkip, Op
<1>3. TypeOK'
  BY <1>2 DEF PublishSkip, MountInv, TypeOK
<1>4. GuardOK'
  <2>1. \A y \in g'.todo : Staged(y)' /\ files'[y].name = g'.name
    BY <1>0, <1>1, <1>2, Typing DEF MountInv, GuardOK, PublishSkip
  <2>2. QED
    BY <1>0, <1>2, <2>1 DEF MountInv, GuardOK, PublishSkip, PathOps
<1>5. DetachOK'
  BY <1>0, <1>1, <1>2 DEF MountInv, DetachOK, PublishSkip
<1>6. DueOK'
  <2>1. files[x].wrote => files[x].sent = files[x].content
    BY <1>0, Typing DEF FileOK
  <2>2. QED
    BY <1>0, <1>2, <2>1 DEF MountInv, DueOK, PublishSkip
<1>7. QED
  BY <1>1, <1>3, <1>4, <1>5, <1>6 DEF MountInv

\* A handle has been published: confirmed and done with, or the lookup has failed.
LEMMA PublishEndInv ==
    ASSUME MountInv, NEW x \in Handle, PublishEnd(x)
    PROVE  MountInv'
<1>0. /\ session # "crashed" /\ Running /\ g.op \in PathOps /\ x \in g.todo
      /\ UNCHANGED <<open, stopping, closeErr, session, last>>
  BY DEF PublishEnd, Running
<1>1. files[x] \in File /\ FileOK(files[x], last) /\ Staged(x) /\ files[x].st = "open"
      /\ last \in Nat /\ last' \in Nat /\ last <= last'
  BY <1>0, Typing DEF MountInv, GuardOK, Staged
<1>2. remote' \in [Name -> Content \union {Absent}]
  BY <1>1, UploadType DEF PublishEnd
<1>3. CASE Uploaded(x) /\ files' = [files EXCEPT ![x] = Clean(@)] /\ g' = [g EXCEPT !.todo = @ \ {x}]
  <2> DEFINE f == Clean(files[x])
  <2>1. /\ f \in File /\ FileOK(f, last') /\ SameOutside(f, files[x]) /\ files[x].sent <= f.sent
        /\ files[x].wrote => f.sent = files[x].content
        /\ f.wrote = files[x].wrote /\ files' = [files EXCEPT ![x] = f]
    BY <1>0, <1>1, <1>3, CleanOK
  <2> HIDE DEF f
  <2>2. /\ files' \in [Handle -> File] /\ FilesOK'
        /\ files'[x] = f /\ \A y \in Handle \ {x} : files'[y] = files[y]
        /\ \A y \in Handle : SameOutside(files'[y], files[y]) /\ (Staged(y)' <=> Staged(y))
        /\ \A y \in Handle : files[y] = Unused => files'[y] = Unused
        /\ Tracked' = Tracked /\ OpenIsExact'
    BY <1>0, <1>1, <2>1, InsideFile
  <2>3. /\ g' \in Op /\ g'.op = g.op /\ g'.h = g.h /\ g'.name = g.name
        /\ g'.todo = g.todo \ {x} /\ g'.due = g.due
    BY <1>3, Typing DEF Op
  <2>4. TypeOK'
    BY <1>0, <1>2, <2>2, <2>3 DEF MountInv, TypeOK
  <2>5. GuardOK'
    <3>1. \A y \in g'.todo : Staged(y)' /\ files'[y].name = g'.name
      BY <1>0, <2>2, <2>3, Typing DEF MountInv, GuardOK, SameOutside
    <3>2. QED
      BY <1>0, <2>2, <2>3, <3>1 DEF MountInv, GuardOK, PathOps
  <2>6. DetachOK'
    BY <1>0, <2>2, <2>3 DEF MountInv, DetachOK, SameOutside
  <2>7. DueOK'
    <3>1. files[x].sent \in Nat /\ f.sent \in Nat /\ g.due \in [Handle -> Nat]
      BY <1>1, <2>1, Typing DEF File
    <3>2. ASSUME NEW y \in Handle
          PROVE  \/ g'.due[y] <= files'[y].sent
                 \/ y \in g'.todo /\ files'[y].wrote /\ g'.due[y] <= files'[y].content
      <4>1. \/ g.due[y] <= files[y].sent
            \/ y \in g.todo /\ files[y].wrote /\ g.due[y] <= files[y].content
        BY <1>0 DEF MountInv, DueOK
      <4>2. CASE y = x
        BY <4>1, <4>2, <2>1, <2>2, <2>3, <3>1
      <4>3. CASE y # x
        BY <4>1, <4>3, <2>2, <2>3
      <4>4. QED
        BY <4>2, <4>3
    <3>3. QED
      BY <3>2 DEF DueOK
  <2>8. QED
    BY <2>2, <2>4, <2>5, <2>6, <2>7 DEF MountInv
<1>4. CASE /\ UploadFailed(x) /\ files' = [files EXCEPT ![x] = StillDirty(@)]
           /\ \/ g' = NoOp
              \/ g.op = "open" /\ g' = [g EXCEPT !.op = "fresh", !.todo = {}]
  <2> DEFINE f == StillDirty(files[x])
  <2>1. /\ f \in File /\ FileOK(f, last') /\ SameOutside(f, files[x])
        /\ files' = [files EXCEPT ![x] = f]
    BY <1>0, <1>1, <1>4, StillDirtyOK
  <2> HIDE DEF f
  <2>2. /\ files' \in [Handle -> File] /\ FilesOK'
        /\ \A y \in Handle : SameOutside(files'[y], files[y])
        /\ \A y \in Handle : files[y] = Unused => files'[y] = Unused
        /\ Tracked' = Tracked /\ OpenIsExact'
    BY <1>0, <1>1, <2>1, InsideFile
  <2>g. /\ g' \in Op
        /\ \/ g'.op = "none"
           \/ g'.op = "fresh" /\ g'.h = g.h /\ g'.name = g.name /\ g.op = "open"
    <3>1. CASE g' = NoOp
      BY <3>1, NoOpType
    <3>2. CASE g.op = "open" /\ g' = [g EXCEPT !.op = "fresh", !.todo = {}]
      BY <3>2, Typing DEF Op
    <3>3. QED
      BY <1>4, <3>1, <3>2
  <2>3. TypeOK'
    BY <1>0, <1>2, <2>2, <2>g DEF MountInv, TypeOK
  <2>4. GuardOK' /\ DueOK'
    <3>1. g'.op \notin PathOps
      BY <2>g DEF PathOps
    <3>2. DueOK'
      BY <3>1 DEF DueOK
    <3>3. g.op = "open" => /\ ~stopping /\ g.name \in Name /\ g.h \in Handle
                           /\ files[g.h] = Unused /\ session = "mounted"
      BY DEF MountInv, GuardOK
    <3>4. GuardOK'
      BY <1>0, <2>2, <2>g, <3>1, <3>3 DEF GuardOK
    <3>5. QED
      BY <3>2, <3>4
  <2>5. DetachOK'
    <3>1. ~stopping
      BY <1>0 DEF MountInv, GuardOK
    <3>2. QED
      BY <1>0, <2>2, <3>1 DEF MountInv, DetachOK, SameOutside
  <2>6. QED
    BY <2>2, <2>3, <2>4, <2>5 DEF MountInv
<1>5. QED
  BY <1>3, <1>4 DEF PublishEnd

\* A handle that was never used is opened: it is counted.
LEMMA OpenedFile ==
    ASSUME MountInv, NEW h \in Handle, files[h] = Unused, session # "crashed",
           NEW f \in File, FileOK(f, last'), f.st = "open", last' \in Nat, last <= last',
           files' = [files EXCEPT ![h] = f], open' = open + 1
    PROVE  /\ files' \in [Handle -> File] /\ FilesOK' /\ files'[h] = f
           /\ \A x \in Handle \ {h} : files'[x] = files[x]
           /\ open' \in Nat /\ OpenIsExact'
<1>1. /\ files' \in [Handle -> File] /\ FilesOK' /\ files'[h] = f
      /\ \A x \in Handle \ {h} : files'[x] = files[x]
  BY Typing, OneFile DEF MountInv
<1>2. f.tracked /\ ~files[h].tracked
  BY UnusedOK, Typing DEF FileOK
<1>3. h \notin Tracked /\ Tracked' = Tracked \union {h}
  BY <1>1, <1>2 DEF Tracked
<1>4. open' \in Nat /\ OpenIsExact'
  BY <1>3, TrackOne DEF MountInv
<1>5. QED
  BY <1>1, <1>4

\* OpenFile ends with an open handle, a directory's or a staged one.
LEMMA OpenInv ==
    ASSUME MountInv, Opening, NEW f \in File, FileOK(f, last'), f.st = "open",
           last' \in Nat, last <= last', files' = [files EXCEPT ![g.h] = f], open' = open + 1,
           g' = NoOp, UNCHANGED <<stopping, closeErr, session, remote>>
    PROVE  MountInv'
<1>0. session = "mounted" /\ g.op \in {"open", "fresh"} /\ ~stopping /\ session # "crashed"
  BY DEF Opening, LookedUp, MountInv, GuardOK
<1>1. g.h \in Handle /\ files[g.h] = Unused
  BY <1>0 DEF MountInv, GuardOK
<1>2. /\ files' \in [Handle -> File] /\ FilesOK' /\ files'[g.h] = f
      /\ \A x \in Handle \ {g.h} : files'[x] = files[x]
      /\ open' \in Nat /\ OpenIsExact'
  <2> DEFINE h == g.h
  <2>1. h \in Handle /\ files[h] = Unused /\ files' = [files EXCEPT ![h] = f]
    BY <1>1
  <2> HIDE DEF h
  <2>2. /\ files' \in [Handle -> File] /\ FilesOK' /\ files'[h] = f
        /\ \A x \in Handle \ {h} : files'[x] = files[x]
        /\ open' \in Nat /\ OpenIsExact'
    BY <1>0, <2>1, OpenedFile
  <2>3. QED
    BY <2>2 DEF h
<1>3. TypeOK'
  BY <1>2, NoOpType DEF MountInv, TypeOK
<1>4. GuardOK' /\ DueOK'
  BY NoOpType DEF GuardOK, DueOK, PathOps
<1>5. DetachOK'
  BY <1>0, <1>2 DEF MountInv, DetachOK
<1>6. QED
  BY <1>2, <1>3, <1>4, <1>5 DEF MountInv

\* OpenFile of a directory.
LEMMA OpenDirectoryInv ==
    ASSUME MountInv, OpenDirectory
    PROVE  MountInv'
<1> DEFINE f == [Unused EXCEPT !.st = "open", !.dir = TRUE, !.name = g.name, !.tracked = TRUE]
<1>1. g.name \in Name /\ last \in Nat /\ Opening
  BY Typing, MountConstants DEF OpenDirectory, Opening
<1>2. f \in File /\ f.st = "open"
  BY <1>1, UnusedOK DEF File, Unused
<1>3. FileOK(f, last')
  BY <1>1 DEF FileOK, Unused, Kept
<1>4. /\ files' = [files EXCEPT ![g.h] = f] /\ open' = open + 1 /\ g' = NoOp
      /\ UNCHANGED <<stopping, closeErr, session, remote>>
      /\ last' \in Nat /\ last <= last'
  BY <1>1 DEF OpenDirectory
<1> HIDE DEF f
<1>5. QED
  BY <1>1, <1>2, <1>3, <1>4, OpenInv

\* OpenFile of a file: downloaded, or new, empty and dirty.
LEMMA OpenStagedInv ==
    ASSUME MountInv, OpenStaged
    PROVE  MountInv'
<1> DEFINE exists == g.op = "open" /\ remote[g.name] # Absent
           fresh == ~exists \/ "trunc" \in g.flags
           c == IF fresh THEN last + 1 ELSE remote[g.name]
           w == "write" \in g.flags
           f == [Unused EXCEPT !.st = "open", !.name = g.name, !.content = c,
                               !.dirty = fresh, !.wrote = fresh, !.write = w,
                               !.staging = "live", !.tracked = TRUE]
<1>1. Opening /\ g.name \in Name /\ last \in Nat
  BY Typing DEF OpenStaged, Opening, LookedUp, MountInv, GuardOK
<1>2. c \in Content /\ (fresh => c = last + 1) /\ fresh \in BOOLEAN /\ w \in BOOLEAN
  <2>1. last + 1 \in Content
    BY <1>1 DEF Content
  <2>2. ~fresh => remote[g.name] \in Content
    BY <1>1, Typing
  <2>3. QED
    BY <2>1, <2>2
<1>3. last' \in Nat /\ last <= last' /\ (fresh => last' = last + 1)
  BY <1>1 DEF OpenStaged
<1>4. /\ files' = [files EXCEPT ![g.h] = f] /\ open' = open + 1 /\ g' = NoOp
      /\ UNCHANGED <<stopping, closeErr, session, remote>>
  BY DEF OpenStaged
<1> HIDE DEF c, fresh, exists, w
<1>5. f \in File
  BY <1>1, <1>2, UnusedOK DEF File, Unused, Kept
<1>6. /\ f.st = "open" /\ f.name = g.name /\ f.content = c /\ f.dirty = fresh /\ f.wrote = fresh
      /\ f.staging = "live" /\ f.tracked = TRUE /\ f.dir = FALSE /\ f.busy = "no" /\ f.sent = 0
  BY DEF Unused
<1>7. FileOK(f, last')
  BY <1>1, <1>2, <1>3, <1>6 DEF FileOK, Kept
<1> HIDE DEF f
<1>8. QED
  BY <1>1, <1>3, <1>4, <1>5, <1>6, <1>7, OpenInv

\* A step that seals the open handle h, whose record has become e, over a
\* staging file that is then as s says.
Seals(h, e, s) ==
    /\ files[h].st = "open"
    /\ e \in File /\ FileOK(e, last) /\ e.st = "open"
    /\ s \in {"none", "removed", "preserved", "unrecorded"} /\ (e.dirty => s \in Kept)
    /\ files' = [files EXCEPT ![h] = Sealed(e, s)] /\ open' = open - 1 /\ last' = last

IsSealed(h, s) ==
    /\ files' \in [Handle -> File] /\ FilesOK' /\ open' \in Nat /\ OpenIsExact'
    /\ files'[h].st = "closed" /\ files'[h].staging = s
    /\ \A x \in Handle \ {h} : files'[x] = files[x]
    /\ h \in Tracked /\ Tracked' = Tracked \ {h}

\* A handle is sealed: it is no longer counted, the others stay as they are.
LEMMA SealedFile ==
    ASSUME MountInv, session # "crashed", NEW h \in Handle, NEW e, NEW s, Seals(h, e, s)
    PROVE  IsSealed(h, s)
<1>s. /\ e \in File /\ FileOK(e, last) /\ e.st = "open" /\ files[h].st = "open"
      /\ s \in {"none", "removed", "preserved", "unrecorded"} /\ (e.dirty => s \in Kept)
      /\ files' = [files EXCEPT ![h] = Sealed(e, s)] /\ open' = open - 1 /\ last' = last
  BY DEF Seals
<1>0. last \in Nat /\ last' \in Nat /\ last <= last' /\ files \in [Handle -> File] /\ FilesOK
  BY <1>s, Typing DEF MountInv
<1> DEFINE f == Sealed(e, s)
<1>1. /\ f \in File /\ FileOK(f, last') /\ f.staging = s /\ f.st = "closed" /\ ~f.tracked
      /\ files' = [files EXCEPT ![h] = f]
  <2> HIDE DEF f
  <2>1. f \in File /\ FileOK(f, last) /\ f.staging = s /\ f.st = "closed" /\ ~f.tracked
    BY <1>0, <1>s, SealedOK DEF f
  <2>2. QED
    BY <1>s, <2>1 DEF f
<1> HIDE DEF f
<1>2. /\ files' \in [Handle -> File] /\ FilesOK' /\ files'[h] = f
      /\ \A x \in Handle \ {h} : files'[x] = files[x]
  BY <1>0, <1>s, <1>1, OneFile
<1>3. h \in Tracked /\ Tracked' = Tracked \ {h}
  BY <1>s, <1>1, <1>2, Typing DEF Tracked, FileOK
<1>4. open' \in Nat /\ OpenIsExact'
  BY <1>s, <1>3, UntrackOne DEF MountInv
<1>5. QED
  BY <1>1, <1>2, <1>3, <1>4 DEF IsSealed

\* Close of a handle while no detach is under way: a staging file that is kept
\* is remembered.
LEMMA CloseInv ==
    ASSUME MountInv, Running, ~stopping, NEW h \in Handle, files[h].st = "open",
           NEW e \in File, FileOK(e, last), e.st = "open",
           NEW s \in {"none", "removed", "preserved", "unrecorded"}, e.dirty => s \in Kept,
           s \in Kept => closeErr',
           closeErr' \in BOOLEAN, closeErr => closeErr',
           files' = [files EXCEPT ![h] = Sealed(e, s)], open' = open - 1, g' = NoOp,
           remote' \in [Name -> Content \union {Absent}],
           UNCHANGED <<stopping, session, last>>
    PROVE  MountInv'
<1>0. session = "mounted" /\ session # "crashed" /\ last' = last
  BY DEF MountInv, DetachOK, Running
<1>s. Seals(h, e, s)
  BY <1>0 DEF Seals
<1>1. /\ files' \in [Handle -> File] /\ FilesOK' /\ open' \in Nat /\ OpenIsExact'
      /\ files'[h].st = "closed" /\ files'[h].staging = s
      /\ \A x \in Handle \ {h} : files'[x] = files[x]
      /\ h \in Tracked /\ Tracked' = Tracked \ {h}
  <2>1. IsSealed(h, s)
    BY <1>0, <1>s, SealedFile
  <2>2. QED
    BY <2>1 DEF IsSealed
<1>2. TypeOK'
  BY <1>1, NoOpType DEF MountInv, TypeOK
<1>3. GuardOK' /\ DueOK'
  BY NoOpType DEF GuardOK, DueOK, PathOps
<1>4. DetachOK'
  BY <1>0, <1>1 DEF MountInv, DetachOK
<1>5. QED
  BY <1>1, <1>2, <1>3, <1>4 DEF MountInv

\* Close of a clean handle removes its staging file or remembers the failure.
LEMMA CloseCleanInv ==
    ASSUME MountInv, NEW h \in Handle, CloseClean(h)
    PROVE  MountInv'
<1>1. /\ Running /\ ~stopping /\ files[h].st = "open" /\ files[h] \in File
      /\ FileOK(files[h], last) /\ ~files[h].dirty
  BY Typing DEF CloseClean, MountInv, GuardOK, Staged
<1>2. PICK s \in {"removed", "preserved", "unrecorded"} :
        /\ files' = [files EXCEPT ![h] = Sealed(files[h], s)]
        /\ closeErr' \in {closeErr, TRUE} /\ (s # "removed" => closeErr' = TRUE)
  BY DEF CloseClean
<1> DEFINE e == files[h]
<1>a. s \in Kept => s # "removed"
  BY DEF Kept
<1>b. (s \in Kept => closeErr') /\ closeErr' \in BOOLEAN /\ (closeErr => closeErr')
  <2>1. closeErr \in BOOLEAN
    BY Typing
  <2>2. CASE closeErr' = TRUE
    BY <2>2
  <2>3. CASE closeErr' = closeErr /\ s = "removed"
    BY <1>a, <2>1, <2>3
  <2>4. QED
    BY <1>2, <2>2, <2>3
<1>3. /\ e \in File /\ FileOK(e, last) /\ e.st = "open" /\ (e.dirty => s \in Kept)
      /\ files' = [files EXCEPT ![h] = Sealed(e, s)]
      /\ s \in {"none", "removed", "preserved", "unrecorded"}
  BY <1>1, <1>2, Typing
<1>4. /\ open' = open - 1 /\ g' = NoOp /\ UNCHANGED <<stopping, session, last>>
      /\ remote' \in [Name -> Content \union {Absent}]
  BY Typing DEF CloseClean
<1> HIDE DEF e
<1>5. QED
  BY <1>1, <1>3, <1>b, <1>4, CloseInv, Zenon

\* The upload of Close ends: confirmed, or preserved and remembered.
LEMMA CloseEndInv ==
    ASSUME MountInv, NEW h \in Handle, CloseEnd(h)
    PROVE  MountInv'
<1>1. /\ Running /\ ~stopping /\ files[h].st = "open" /\ files[h] \in File
      /\ FileOK(files[h], last) /\ last \in Nat
  BY Typing DEF CloseEnd, MountInv, GuardOK, Staged
<1>2. /\ Clean(files[h]) \in File /\ FileOK(Clean(files[h]), last)
      /\ Clean(files[h]).st = "open" /\ ~Clean(files[h]).dirty
  BY <1>1, CleanOK DEF SameOutside
<1>3. PICK e \in {files[h], Clean(files[h])}, s \in {"removed", "preserved", "unrecorded"} :
        /\ files' = [files EXCEPT ![h] = Sealed(e, s)]
        /\ closeErr' \in {closeErr, TRUE} /\ (s # "removed" => closeErr' = TRUE)
        /\ s = "removed" => e = Clean(files[h])
  BY DEF CloseEnd
<1>a. s \in Kept => s # "removed"
  BY DEF Kept
<1>b. (s \in Kept => closeErr') /\ closeErr' \in BOOLEAN /\ (closeErr => closeErr')
  <2>1. closeErr \in BOOLEAN
    BY Typing
  <2>2. CASE closeErr' = TRUE
    BY <2>2
  <2>3. CASE closeErr' = closeErr /\ s = "removed"
    BY <1>a, <2>1, <2>3
  <2>4. QED
    BY <1>3, <2>2, <2>3
<1>4. /\ e \in File /\ FileOK(e, last) /\ e.st = "open" /\ (e.dirty => s \in Kept)
      /\ s \in {"none", "removed", "preserved", "unrecorded"}
  BY <1>1, <1>2, <1>3 DEF Kept
<1>5. /\ open' = open - 1 /\ g' = NoOp /\ UNCHANGED <<stopping, session, last>>
      /\ remote' \in [Name -> Content \union {Absent}]
  BY <1>1, UploadType DEF CloseEnd
<1>6. QED
  BY <1>1, <1>3, <1>b, <1>4, <1>5, CloseInv, Zenon

\* Close of a directory handle.
LEMMA CloseDirectoryInv ==
    ASSUME MountInv, NEW h \in Handle, CloseDirectory(h)
    PROVE  MountInv'
<1>1. /\ Running /\ g = NoOp /\ files[h].st = "open" /\ files[h] \in File
      /\ FileOK(files[h], last) /\ ~files[h].dirty /\ h \in Tracked
  BY Typing DEF CloseDirectory, GuardFree, FileOK, Tracked
<1>2. ~stopping
  BY <1>1, NoOpType DEF MountInv, DetachOK, Running
<1> DEFINE e == files[h]
           s == "none"
<1>3. /\ e \in File /\ FileOK(e, last) /\ e.st = "open" /\ (e.dirty => s \in Kept)
      /\ (s \in Kept => closeErr') /\ closeErr' \in BOOLEAN /\ (closeErr => closeErr')
      /\ files' = [files EXCEPT ![h] = Sealed(e, s)]
      /\ s \in {"none", "removed", "preserved", "unrecorded"}
  BY <1>1, Typing DEF Kept, CloseDirectory
<1>4. /\ open' = open - 1 /\ g' = NoOp /\ UNCHANGED <<stopping, session, last>>
      /\ remote' \in [Name -> Content \union {Absent}]
  BY <1>1, Typing DEF CloseDirectory
<1> HIDE DEF e, s
<1>5. QED
  BY <1>1, <1>2, <1>3, <1>4, CloseInv, Zenon

\* Close takes the guard for a staged file.
LEMMA CloseStartInv ==
    ASSUME MountInv, NEW h \in Handle, CloseStart(h)
    PROVE  MountInv'
<1>1. /\ Running /\ g = NoOp /\ g.op = "none" /\ session # "crashed"
      /\ files[h].tracked /\ ~files[h].dir /\ FileOK(files[h], last)
  BY Typing, NoOpType DEF CloseStart, GuardFree, Running
<1>2. Staged(h) /\ h \in Tracked
  BY <1>1 DEF Staged, FileOK, Tracked
<1>3. session = "mounted" /\ ~stopping
  BY <1>1, <1>2 DEF MountInv, DetachOK, Running
<1>4. FilesOK' /\ Tracked' = Tracked /\ OpenIsExact' /\ (\A x \in Handle : Staged(x)' <=> Staged(x))
  BY <1>1, SameFiles DEF CloseStart
<1>5. g' \in Op /\ g'.op = "close" /\ g'.h = h
  BY NoOpType DEF CloseStart, Op, NoOp
<1>6. TypeOK'
  BY <1>5 DEF CloseStart, MountInv, TypeOK
<1>7. GuardOK' /\ DueOK'
  BY <1>2, <1>3, <1>4, <1>5 DEF GuardOK, DueOK, PathOps, CloseStart
<1>8. DetachOK'
  BY <1>3, <1>4 DEF MountInv, DetachOK, CloseStart
<1>9. QED
  BY <1>4, <1>6, <1>7, <1>8 DEF MountInv

\* ForceClose: every tracked handle is to be sealed.
LEMMA ForceCloseInv ==
    ASSUME MountInv, ForceClose
    PROVE  MountInv'
<1>1. session = "mounted" /\ session # "crashed"
  BY DEF ForceClose
<1>2. FilesOK' /\ Tracked' = Tracked /\ OpenIsExact'
  BY <1>1, SameFiles DEF ForceClose
<1>3. g' \in Op /\ g'.op = "force" /\ g'.todo = Tracked
  BY NoOpType DEF ForceClose, Op, NoOp, Tracked
<1>4. TypeOK'
  BY <1>3 DEF ForceClose, MountInv, TypeOK
<1>5. GuardOK' /\ DueOK'
  BY <1>1, <1>2, <1>3 DEF GuardOK, DueOK, PathOps, ForceClose
<1>6. DetachOK'
  BY <1>1, <1>2, <1>3 DEF DetachOK, ForceClose
<1>7. QED
  BY <1>2, <1>4, <1>5, <1>6 DEF MountInv

\* closePreserving of one handle.
LEMMA ForceSealInv ==
    ASSUME MountInv, NEW h \in Handle, ForceSeal(h)
    PROVE  MountInv'
<1>1. /\ session = "mounted" /\ session # "crashed" /\ g.op = "force" /\ stopping
      /\ h \in g.todo /\ g.todo = Tracked
  BY DEF ForceSeal, MountInv, GuardOK
<1>2. files[h] \in File /\ FileOK(files[h], last) /\ files[h].st = "open"
  BY <1>1, Typing DEF Tracked, FileOK
<1>3. PICK s \in {"none", "preserved", "unrecorded"} :
        /\ files' = [files EXCEPT ![h] = Sealed(files[h], s)] /\ (files[h].dirty => s \in Kept)
  BY <1>2 DEF ForceSeal, FileOK, Kept
<1> DEFINE e == files[h]
<1>4. /\ e \in File /\ FileOK(e, last) /\ e.st = "open" /\ (e.dirty => s \in Kept)
      /\ files' = [files EXCEPT ![h] = Sealed(e, s)]
      /\ s \in {"none", "removed", "preserved", "unrecorded"}
      /\ open' = open - 1 /\ last' = last
  BY <1>2, <1>3 DEF ForceSeal
<1> HIDE DEF e
<1>s. Seals(h, e, s)
  BY <1>2, <1>4 DEF e, Seals
<1>5. /\ files' \in [Handle -> File] /\ FilesOK' /\ open' \in Nat /\ OpenIsExact'
      /\ files'[h].st = "closed" /\ files'[h].staging = s
      /\ \A x \in Handle \ {h} : files'[x] = files[x]
      /\ h \in Tracked /\ Tracked' = Tracked \ {h}
  <2>1. IsSealed(h, s)
    BY <1>1, <1>s, SealedFile
  <2>2. QED
    BY <2>1 DEF IsSealed
<1>6. g' \in Op /\ g'.op = "force" /\ g'.todo = Tracked'
  BY <1>1, <1>5, Typing DEF ForceSeal, Op
<1>7. TypeOK'
  BY <1>5, <1>6 DEF ForceSeal, MountInv, TypeOK
<1>8. GuardOK' /\ DueOK'
  BY <1>1, <1>6 DEF GuardOK, DueOK, PathOps, ForceSeal
<1>9. DetachOK'
  BY <1>1, <1>6 DEF DetachOK, ForceSeal
<1>10. QED
  BY <1>5, <1>7, <1>8, <1>9 DEF MountInv

\* Every handle is sealed: the forced detach goes on to unmount.
LEMMA ForceEndInv ==
    ASSUME MountInv, ForceEnd
    PROVE  MountInv'
<1>1. session # "crashed" /\ stopping /\ Tracked = {}
  BY DEF ForceEnd, MountInv, GuardOK
<1>2. FilesOK' /\ Tracked' = Tracked /\ OpenIsExact'
  BY <1>1, SameFiles DEF ForceEnd
<1>3. TypeOK'
  BY NoOpType DEF ForceEnd, MountInv, TypeOK
<1>4. GuardOK' /\ DueOK'
  BY NoOpType DEF GuardOK, DueOK, PathOps, ForceEnd
<1>5. DetachOK'
  BY <1>1, <1>2 DEF DetachOK, ForceEnd
<1>6. QED
  BY <1>2, <1>3, <1>4, <1>5 DEF MountInv

\* The drive is unmounted.
LEMMA UnmountInv ==
    ASSUME MountInv, Unmount
    PROVE  MountInv'
<1>1. session # "crashed" /\ session \in {"detaching", "forcing"} /\ g = NoOp
  BY DEF Unmount, GuardFree, Running
<1>2. FilesOK' /\ Tracked' = Tracked /\ OpenIsExact'
  BY <1>1, SameFiles DEF Unmount
<1>3. TypeOK'
  BY DEF Unmount, MountInv, TypeOK
<1>4. GuardOK' /\ DueOK'
  BY <1>1, NoOpType DEF GuardOK, DueOK, PathOps, Unmount
<1>5. DetachOK'
  BY <1>1, <1>2 DEF MountInv, DetachOK, Unmount
<1>6. QED
  BY <1>2, <1>3, <1>4, <1>5 DEF MountInv

\* prepareStop: directory handles are closed and no longer counted; the detach
\* is agreed to only when nothing tracked and nothing kept is left.
LEMMA SessionCloseInv ==
    ASSUME MountInv, SessionClose
    PROVE  MountInv'
<1>1. /\ session = "mounted" /\ session # "crashed" /\ g = NoOp /\ g.op = "none"
      /\ UNCHANGED <<g, closeErr, remote, last>>
  BY NoOpType DEF SessionClose, GuardFree
<1>2. ~stopping
  BY <1>1 DEF MountInv, DetachOK
<1>3. ASSUME NEW h \in Handle
      PROVE  /\ files'[h] \in File /\ FileOK(files'[h], last)
             /\ files'[h].tracked <=> h \in Tracked \ Directories
             /\ \/ files'[h] = files[h]
                \/ files'[h].st = "closed" /\ files'[h].staging = "none"
  <2>1. CASE h \in Directories
    <3>1. /\ files[h] \in File /\ FileOK(files[h], last) /\ files[h].st = "open"
          /\ ~files[h].dirty /\ last \in Nat
      BY <2>1, Typing DEF Directories, FileOK
    <3>2. files'[h] = Sealed(files[h], "none")
      BY <2>1 DEF SessionClose, WithoutDirectories
    <3>3. QED
      BY <2>1, <3>1, <3>2, SealedOK
  <2>2. CASE h \notin Directories
    <3>1. files'[h] = files[h]
      BY <2>2 DEF SessionClose, WithoutDirectories
    <3>2. QED
      BY <2>2, <3>1, Typing DEF Tracked
  <2>3. QED
    BY <2>1, <2>2
<1>4. files' \in [Handle -> File] /\ FilesOK'
  BY <1>1, <1>3 DEF SessionClose, WithoutDirectories, FilesOK
<1>5. Tracked' = Tracked \ Directories
  BY <1>3 DEF Tracked
<1>6. open' = Cardinality(Tracked') /\ open' \in Nat
  <2>1. open = Cardinality(Tracked)
    BY <1>1 DEF MountInv, OpenIsExact, Tracked
  <2>2. Tracked \cap Directories = Directories
    BY DEF Tracked, Directories
  <2>3. /\ Cardinality(Tracked \ Directories) = Cardinality(Tracked) - Cardinality(Directories)
        /\ IsFiniteSet(Tracked \ Directories)
    BY <2>2, TrackedFinite, FS_Difference
  <2>4. Cardinality(Tracked \ Directories) \in Nat
    BY <2>3, FS_CardinalityType
  <2>5. open' = open - Cardinality(Directories)
    BY DEF SessionClose
  <2>6. QED
    BY <1>5, <2>1, <2>3, <2>4, <2>5
<1>7. OpenIsExact'
  BY <1>6 DEF OpenIsExact, Tracked
<1>8. TypeOK'
  BY <1>1, <1>4, <1>6 DEF SessionClose, MountInv, TypeOK
<1>9. GuardOK' /\ DueOK'
  BY <1>1 DEF GuardOK, DueOK, PathOps
<1>10. DetachOK'
  <2>1. CASE open' = 0 /\ ~closeErr
    <3>1. stopping' /\ session' = "detaching"
      BY <2>1 DEF SessionClose
    <3>2. Tracked' = {}
      <4>1. IsFiniteSet(Tracked')
        BY MountConstants, FS_Subset DEF Tracked
      <4>2. QED
        BY <1>6, <2>1, <4>1, FS_EmptySet
    <3>3. ASSUME NEW h \in Handle PROVE files'[h].staging \notin Kept
      <4>1. ~files'[h].tracked
        BY <3>2 DEF Tracked
      <4>2. CASE files'[h] = files[h]
        <5>1. files[h].st \in {"unused", "closed"}
          BY <4>1, <4>2, Typing DEF FileOK, File
        <5>2. files[h].st = "closed" => files[h].staging \notin Kept
          BY <1>1, <1>2, <2>1 DEF MountInv, DetachOK
        <5>3. files[h].st = "unused" => files[h].staging = "none"
          BY Typing DEF FileOK, Unused
        <5>4. QED
          BY <4>2, <5>1, <5>2, <5>3 DEF Kept
      <4>3. CASE files'[h].staging = "none"
        BY <4>3 DEF Kept
      <4>4. QED
        BY <1>3, <4>2, <4>3
    <3>4. QED
      BY <3>1, <3>2, <3>3 DEF DetachOK
  <2>2. CASE ~(open' = 0 /\ ~closeErr)
    <3>1. UNCHANGED <<stopping, session>>
      BY <2>2 DEF SessionClose
    <3>2. ASSUME NEW h \in Handle, ~closeErr, files'[h].st = "closed"
          PROVE  files'[h].staging \notin Kept
      BY <1>1, <1>2, <1>3, <3>2 DEF MountInv, DetachOK, Kept
    <3>3. QED
      BY <1>1, <1>2, <3>1, <3>2 DEF DetachOK
  <2>3. QED
    BY <2>1, <2>2
<1>11. QED
  BY <1>4, <1>7, <1>8, <1>9, <1>10 DEF MountInv

\* The process dies: open staging files stay where they are, unrecorded.
LEMMA CrashInv ==
    ASSUME MountInv, Crash
    PROVE  MountInv'
<1>1. session' = "crashed" /\ g' = NoOp /\ UNCHANGED <<open, stopping, closeErr, remote, last>>
  BY DEF Crash
<1>2. ASSUME NEW h \in Handle PROVE files'[h] \in File /\ FileOK(files'[h], last)
  <2>1. CASE files[h].staging = "live"
    <3>1. files[h] \in File /\ FileOK(files[h], last) /\ files[h].st = "open" /\ last \in Nat
      BY <2>1, Typing DEF FileOK
    <3>2. files'[h] = Sealed(files[h], "unrecorded") /\ "unrecorded" \in Kept
      BY <2>1 DEF Crash, Kept
    <3>3. QED
      BY <3>1, <3>2, SealedOK
  <2>2. CASE files[h].staging # "live"
    <3>1. files'[h] = files[h]
      BY <2>2 DEF Crash
    <3>2. QED
      BY <3>1, Typing
  <2>3. QED
    BY <2>1, <2>2
<1>3. files' \in [Handle -> File] /\ FilesOK'
  BY <1>1, <1>2 DEF Crash, FilesOK
<1>4. TypeOK'
  BY <1>1, <1>3, NoOpType DEF MountInv, TypeOK
<1>5. GuardOK' /\ DueOK'
  BY <1>1, NoOpType DEF GuardOK, DueOK, PathOps
<1>6. DetachOK' /\ OpenIsExact'
  BY <1>1 DEF DetachOK, OpenIsExact
<1>7. QED
  BY <1>3, <1>4, <1>5, <1>6 DEF MountInv

\* Mkdir and Rename change only the server.
LEMMA ServerInv ==
    ASSUME MountInv, remote' \in [Name -> Content \union {Absent}], session # "crashed",
           UNCHANGED <<files, g, open, stopping, closeErr, session, last>>
    PROVE  MountInv'
<1>1. FilesOK' /\ Tracked' = Tracked /\ OpenIsExact' /\ (\A x \in Handle : Staged(x)' <=> Staged(x))
  BY SameFiles
<1>2. TypeOK'
  BY DEF MountInv, TypeOK
<1>3. DetachOK'
  BY <1>1 DEF MountInv, DetachOK
<1>4. DueOK'
  BY DEF MountInv, DueOK
<1>5. GuardOK'
  BY <1>1, Typing DEF MountInv, GuardOK
<1>6. QED
  BY <1>1, <1>2, <1>3, <1>4, <1>5 DEF MountInv

\* Every step of the drive, its handles and its session keeps the invariant.
LEMMA MountStep == MountInv /\ [Next]_vars => MountInv'
<1> SUFFICES ASSUME MountInv, [Next]_vars PROVE MountInv'
  OBVIOUS
<1>0. CASE UNCHANGED vars
  BY <1>0 DEF vars, MountInv, TypeOK, FilesOK, GuardOK, DetachOK, DueOK, OpenIsExact,
              Tracked, Staged
<1>1. ASSUME NEW h \in Handle, Write(h) PROVE MountInv'
  BY <1>1, WriteInv
<1>2. ASSUME NEW h \in Handle, SyncStart(h) PROVE MountInv'
  BY <1>2, TakeMutexInv DEF SyncStart
<1>3. ASSUME NEW h \in Handle, SyncEnd(h) PROVE MountInv'
  BY <1>3, SyncEndInv
<1>4. ASSUME NEW h \in Handle, NEW n \in Name, NEW flags \in OpenFlags, OpenFile(h, n, flags)
      PROVE  MountInv'
  <2>1. flags \in SUBSET {"write", "create", "trunc", "excl"} /\ "open" \in PathOps
    BY MountConstants DEF PathOps
  <2>2. PathOpStart("open", h, n, flags) /\ files[h] = Unused
    BY <1>4 DEF OpenFile
  <2>3. QED
    BY <2>1, <2>2, PathOpStartInv
<1>5. ASSUME NEW n \in Name, Stat(n) \/ Remove(n) PROVE MountInv'
  <2>1. PICK op \in {"stat", "remove"} : PathOpStart(op, NoHandle, n, {})
    BY <1>5 DEF Stat, Remove
  <2>2. op \in PathOps /\ op # "open" /\ {} \in SUBSET {"write", "create", "trunc", "excl"}
    BY DEF PathOps
  <2>3. QED
    BY <2>1, <2>2, PathOpStartInv
<1>6. ASSUME NEW x \in Handle, PublishSkip(x) PROVE MountInv'
  BY <1>6, PublishSkipInv
<1>7. ASSUME NEW x \in Handle, PublishStart(x) PROVE MountInv'
  <2>1. Running /\ Staged(x)
    BY <1>7 DEF PublishStart, MountInv, GuardOK
  <2>2. QED
    BY <1>7, <2>1, TakeMutexInv DEF PublishStart
<1>8. ASSUME NEW x \in Handle, PublishEnd(x) PROVE MountInv'
  BY <1>8, PublishEndInv
<1>9. CASE StatEnd \/ RemoveEnd \/ OpenFails
  <2>1. /\ g' = NoOp /\ UNCHANGED <<files, open, stopping, closeErr, session, last>>
        /\ Running /\ g.op # "force"
    BY <1>9 DEF StatEnd, RemoveEnd, OpenFails, Opening, LookedUp
  <2>2. remote' \in [Name -> Content \union {Absent}]
    BY <1>9, Typing DEF StatEnd, RemoveEnd, OpenFails
  <2>3. QED
    BY <2>1, <2>2, GuardLeaves
<1>10. CASE OpenDirectory
  BY <1>10, OpenDirectoryInv
<1>11. CASE OpenStaged
  BY <1>11, OpenStagedInv
<1>12. ASSUME NEW n \in Name, Mkdir(n) PROVE MountInv'
  <2>1. remote' \in [Name -> Content \union {Absent}]
    BY <1>12, Typing DEF Mkdir, Content
  <2>2. QED
    BY <1>12, <2>1, ServerInv DEF Mkdir, GuardFree, Running
<1>13. ASSUME NEW a \in Name, NEW b \in Name, Rename(a, b) PROVE MountInv'
  <2>1. remote' \in [Name -> Content \union {Absent}]
    BY <1>13, Typing DEF Rename
  <2>2. QED
    BY <1>13, <2>1, ServerInv DEF Rename, GuardFree, Running
<1>14. ASSUME NEW h \in Handle, CloseDirectory(h) PROVE MountInv'
  BY <1>14, CloseDirectoryInv
<1>15. ASSUME NEW h \in Handle, CloseStart(h) PROVE MountInv'
  BY <1>15, CloseStartInv
<1>16. ASSUME NEW h \in Handle, CloseClean(h) PROVE MountInv'
  BY <1>16, CloseCleanInv
<1>17. ASSUME NEW h \in Handle, CloseUpload(h) PROVE MountInv'
  <2>1. Running /\ Staged(h)
    BY <1>17 DEF CloseUpload, MountInv, GuardOK
  <2>2. QED
    BY <1>17, <2>1, TakeMutexInv DEF CloseUpload
<1>18. ASSUME NEW h \in Handle, CloseEnd(h) PROVE MountInv'
  BY <1>18, CloseEndInv
<1>19. CASE SessionClose
  BY <1>19, SessionCloseInv
<1>20. CASE ForceClose
  BY <1>20, ForceCloseInv
<1>21. ASSUME NEW h \in Handle, ForceSeal(h) PROVE MountInv'
  BY <1>21, ForceSealInv
<1>22. CASE ForceEnd
  BY <1>22, ForceEndInv
<1>23. CASE Unmount
  BY <1>23, UnmountInv
<1>24. CASE Crash
  BY <1>24, CrashInv
<1>25. QED
  BY <1>0, <1>1, <1>2, <1>3, <1>4, <1>5, <1>6, <1>7, <1>8, <1>9, <1>10, <1>11, <1>12, <1>13,
     <1>14, <1>15, <1>16, <1>17, <1>18, <1>19, <1>20, <1>21, <1>22, <1>23, <1>24
     DEF Next, GuardStep

\* The invariant holds in every reachable state of the drive.
LEMMA MountInvariant == Spec => []MountInv
BY MountInit, MountStep, PTL DEF Spec

-----------------------------------------------------------------------------
(* Theorems.                                                               *)

\* Every variable keeps its kind: in particular guardedFS.open never becomes
\* negative, whichever of Close, Session.Close and ForceClose ends a handle.
THEOREM MountTypeCorrect == Spec => []TypeOK
<1>1. MountInv => TypeOK
  BY DEF MountInv
<1>2. QED
  BY <1>1, MountInvariant, PTL

\* stagedFile: what was written through a handle is on the server, confirmed, or
\* still in its staging file, through failed uploads, forced detaches, crashes.
THEOREM WritesAreRetained == Spec => []DataRetained
<1>1. ASSUME MountInv, NEW h \in Handle, files[h].wrote, files[h].sent # files[h].content
      PROVE  files[h].staging \in Kept
  <2>1. files[h] \in File /\ FileOK(files[h], last)
    BY <1>1, Typing
  <2>2. files[h].dirty /\ ~files[h].dir
    BY <1>1, <2>1 DEF FileOK
  <2>3. CASE files[h].st = "open"
    BY <2>1, <2>2, <2>3 DEF FileOK, Kept
  <2>4. CASE files[h].st = "closed"
    BY <2>1, <2>2, <2>4 DEF FileOK
  <2>5. CASE files[h].st = "unused"
    BY <1>1, <2>1, <2>5 DEF FileOK, Unused
  <2>6. QED
    BY <2>1, <2>3, <2>4, <2>5 DEF File
<1>2. MountInv => DataRetained
  BY <1>1 DEF DataRetained
<1>3. QED
  BY <1>2, MountInvariant, PTL

\* Session.Close: after a normal detach every write has been confirmed by the
\* server and no staging file is left behind.
THEOREM DetachIsSafe == Spec => []SafeDetach
<1>1. ASSUME MountInv, session \in {"detaching", "closed"}, NEW h \in Handle
      PROVE  (files[h].wrote => files[h].sent = files[h].content) /\ files[h].staging \notin Kept
  <2>1. files[h].staging \notin Kept /\ ~files[h].tracked
    BY <1>1 DEF MountInv, DetachOK, Tracked
  <2>2. files[h] \in File /\ FileOK(files[h], last)
    BY <1>1, Typing
  <2>3. files[h].wrote => ~files[h].dirty
    BY <2>1, <2>2 DEF FileOK, File, Unused
  <2>4. QED
    BY <2>1, <2>2, <2>3 DEF FileOK
<1>2. MountInv => SafeDetach
  BY <1>1 DEF SafeDetach
<1>3. QED
  BY <1>2, MountInvariant, PTL

\* goFileSystem.stat: a path operation that consults the server finds there every
\* write that a handle of that name had accepted before the operation began.
THEOREM LookupsSeeWrites == Spec => []LookupSeesWrites
<1>1. MountInv => LookupSeesWrites
  BY DEF MountInv, DueOK, LookupSeesWrites
<1>2. QED
  BY <1>1, MountInvariant, PTL

\* guardedFS: open is the number of tracked handles.
THEOREM OpenCountIsExact == Spec => []OpenIsExact
<1>1. MountInv => OpenIsExact
  BY DEF MountInv
<1>2. QED
  BY <1>1, MountInvariant, PTL

\* Only these handles can change in a step: one that is used in it is open.
LEMMA ClosedStays ==
    ASSUME MountInv, [Next]_vars, NEW h \in Handle, files[h].st = "closed"
    PROVE  files'[h] = files[h]
<1>t. files \in [Handle -> File] /\ FileOK(files[h], last) /\ files[h] # Unused
  BY Typing DEF Unused
<1>u. ~files[h].tracked /\ files[h].staging # "live" /\ ~Staged(h) /\ files[h].busy = "no"
  BY <1>t DEF FileOK, Staged
<1>g. /\ (g.op \in PathOps => h \notin g.todo) /\ (g.op \in {"open", "fresh"} => g.h # h)
      /\ (g.op = "close" => g.h # h) /\ (g.op = "force" => h \notin g.todo)
  BY <1>t, <1>u DEF MountInv, GuardOK, Tracked
<1>0. CASE UNCHANGED vars
  BY <1>0 DEF vars
<1>1. ASSUME NEW x \in Handle, Write(x) \/ SyncStart(x) \/ SyncEnd(x) \/ CloseDirectory(x)
      PROVE  files'[h] = files[h]
  BY <1>1, <1>t, <1>u DEF Write, SyncStart, SyncEnd, CloseDirectory
<1>2. ASSUME NEW x \in Handle, PublishStart(x) \/ PublishEnd(x) PROVE files'[h] = files[h]
  BY <1>2, <1>t, <1>g DEF PublishStart, PublishEnd
<1>3. ASSUME NEW x \in Handle, CloseClean(x) \/ CloseUpload(x) \/ CloseEnd(x) \/ ForceSeal(x)
      PROVE  files'[h] = files[h]
  BY <1>3, <1>t, <1>g DEF CloseClean, CloseUpload, CloseEnd, ForceSeal
<1>4. CASE OpenDirectory \/ OpenStaged
  BY <1>4, <1>t, <1>g DEF OpenDirectory, OpenStaged, Opening, LookedUp
<1>5. CASE SessionClose
  BY <1>5, <1>u DEF SessionClose, WithoutDirectories, Directories
<1>6. CASE Crash
  BY <1>6, <1>u DEF Crash
<1>7. ASSUME NEW x \in Handle,
             \/ PublishSkip(x) \/ CloseStart(x)
             \/ \E n \in Name, flags \in OpenFlags : OpenFile(x, n, flags)
      PROVE  files'[h] = files[h]
  BY <1>7 DEF PublishSkip, CloseStart, OpenFile, PathOpStart
<1>8. CASE StatEnd \/ RemoveEnd \/ OpenFails \/ ForceEnd \/ ForceClose \/ Unmount
  BY <1>8 DEF StatEnd, RemoveEnd, OpenFails, ForceEnd, ForceClose, Unmount
<1>9. CASE \/ \E n \in Name : Stat(n) \/ Remove(n) \/ Mkdir(n)
           \/ \E a, b \in Name : Rename(a, b)
  BY <1>9 DEF Stat, Remove, Mkdir, Rename, PathOpStart
<1>10. QED
  BY <1>0, <1>1, <1>2, <1>3, <1>4, <1>5, <1>6, <1>7, <1>8, <1>9 DEF Next, GuardStep

\* Close, closePreserving: a sealed handle is final; no late Sync, lookup or
\* Write uploads, changes or removes its staging file.
THEOREM SealingIsFinal == Spec => SealedIsFinal
<1>1. MountInv /\ [Next]_vars => \A h \in Handle : files[h].st = "closed" => files'[h] = files[h]
  BY ClosedStays
<1>2. MountInv /\ [Next]_vars
        => [\A h \in Handle : files[h].st = "closed" => files'[h] = files[h]]_vars
  BY <1>1
<1>3. QED
  BY <1>2, MountInvariant, PTL DEF Spec, SealedIsFinal

\* Once stopping, a name's content on the server changes only by the end of a
\* Sync of a handle that is still open, and so not sealed.
LEMMA OnlySyncWrites ==
    ASSUME MountInv, [Next]_vars, stopping, NEW n \in Name, remote'[n] # remote[n]
    PROVE  \E h \in Handle : Staged(h) /\ files[h].busy = "sync" /\ files[h].name = n
<1>t. remote \in [Name -> Content \union {Absent}]
  BY Typing
<1>g. g.op \in {"none", "force"} /\ "none" \notin PathOps /\ "force" \notin PathOps
  BY Typing DEF MountInv, GuardOK, Op, PathOps
<1>b. \A h \in Handle : files[h].busy = "sync" => Staged(h)
  BY Typing DEF FileOK, Staged
<1>0. CASE UNCHANGED remote
  BY <1>0
<1>1. ASSUME NEW x \in Handle, SyncEnd(x)
      PROVE  \E h \in Handle : Staged(h) /\ files[h].busy = "sync" /\ files[h].name = n
  <2>1. PICK c : remote' = [remote EXCEPT ![files[x].name] = c]
    BY <1>1 DEF SyncEnd, Uploaded, UploadFailed
  <2>2. files[x].name = n
    BY <1>t, <2>1
  <2>3. QED
    BY <1>1, <1>b, <2>2 DEF SyncEnd
<1>2. ASSUME NEW x \in Handle, PublishEnd(x) \/ CloseEnd(x) PROVE FALSE
  BY <1>2, <1>g DEF PublishEnd, CloseEnd
<1>3. CASE RemoveEnd
  BY <1>3, <1>g DEF RemoveEnd, LookedUp
<1>4. ASSUME NEW a \in Name, Mkdir(a) \/ (\E b \in Name : Rename(a, b)) PROVE FALSE
  BY <1>4 DEF Mkdir, Rename
<1>5. CASE UNCHANGED vars
  BY <1>0, <1>5 DEF vars
<1>6. ASSUME NEW x \in Handle,
             \/ PublishSkip(x) \/ PublishStart(x) \/ CloseClean(x) \/ CloseUpload(x)
             \/ ForceSeal(x) \/ Write(x) \/ SyncStart(x) \/ CloseDirectory(x) \/ CloseStart(x)
             \/ \E m \in Name, flags \in OpenFlags : OpenFile(x, m, flags)
      PROVE  UNCHANGED remote
  BY <1>6 DEF PublishSkip, PublishStart, CloseClean, CloseUpload, ForceSeal, Write, SyncStart,
              CloseDirectory, CloseStart, OpenFile, PathOpStart
<1>7. CASE \/ StatEnd \/ OpenFails \/ OpenDirectory \/ OpenStaged \/ ForceEnd
           \/ SessionClose \/ ForceClose \/ Unmount \/ Crash
           \/ \E m \in Name : Stat(m) \/ Remove(m)
  BY <1>0, <1>7 DEF StatEnd, OpenFails, OpenDirectory, OpenStaged, ForceEnd, SessionClose,
                    ForceClose, Unmount, Crash, Stat, Remove, PathOpStart
<1>8. QED
  BY <1>0, <1>1, <1>2, <1>3, <1>4, <1>5, <1>6, <1>7 DEF Next, GuardStep

\* Once the session has left "mounted", every handle is sealed, and nobody writes.
LEMMA SealedDriveIsSilent ==
    ASSUME MountInv, [Next]_vars, stopping, session # "mounted"
    PROVE  remote' = remote
<1>1. CASE Running
  <2>1. session \in {"detaching", "forcing"}
    BY <1>1 DEF Running
  <2>2. \A h \in Handle : ~Staged(h)
    BY <2>1, Typing DEF MountInv, DetachOK, Tracked, FileOK, Staged
  <2>3. \A n \in Name : remote'[n] = remote[n]
    BY <2>2, OnlySyncWrites
  <2>4. TypeOK /\ TypeOK'
    BY MountStep DEF MountInv
  <2>5. QED
    BY <2>3, <2>4 DEF TypeOK
<1>2. CASE ~Running
  <2>1. ASSUME NEW x \in Handle
        PROVE  ~(PublishEnd(x) \/ CloseEnd(x) \/ SyncEnd(x) \/ PublishSkip(x) \/ PublishStart(x)
                 \/ CloseClean(x) \/ CloseUpload(x) \/ ForceSeal(x) \/ Write(x) \/ SyncStart(x))
    BY <1>2 DEF PublishEnd, CloseEnd, SyncEnd, PublishSkip, PublishStart, CloseClean,
                CloseUpload, ForceSeal, Write, SyncStart
  <2>2. ASSUME NEW x \in Handle
        PROVE  ~(CloseDirectory(x) \/ CloseStart(x)
                 \/ \E m \in Name, flags \in OpenFlags : OpenFile(x, m, flags))
    BY <1>2 DEF CloseDirectory, CloseStart, OpenFile, PathOpStart, GuardFree
  <2>3. ~(StatEnd \/ RemoveEnd \/ OpenFails \/ OpenDirectory \/ OpenStaged \/ ForceEnd \/ Crash)
    BY <1>2 DEF StatEnd, RemoveEnd, OpenFails, OpenDirectory, OpenStaged, ForceEnd, Crash,
                Opening, LookedUp
  <2>4. ~(SessionClose \/ ForceClose \/ Unmount)
    BY <1>2 DEF SessionClose, ForceClose, Unmount, GuardFree
  <2>5. ~(\E m \in Name : Stat(m) \/ Remove(m) \/ Mkdir(m)) /\ ~(\E a, b \in Name : Rename(a, b))
    BY <1>2 DEF Stat, Remove, Mkdir, Rename, PathOpStart, GuardFree
  <2>6. UNCHANGED vars
    BY <2>1, <2>2, <2>3, <2>4, <2>5 DEF Next, GuardStep
  <2>7. QED
    BY <2>6 DEF vars
<1>3. QED
  BY <1>1, <1>2

\* prepareStop, forceStop: a detach adds nothing to the server. While handles are
\* being sealed only an application's own Sync of an unsealed handle changes it, and
\* once every handle is sealed, for every number of handles, nothing does.
THEOREM DetachAddsNothing == Spec => DetachAddsNoUpload
<1>1. MountInv /\ [Next]_vars
        => [stopping =>
              /\ \A n \in Name : remote'[n] # remote[n] =>
                    \E h \in Handle : Staged(h) /\ files[h].busy = "sync" /\ files[h].name = n
              /\ session # "mounted" => remote' = remote]_vars
  BY OnlySyncWrites, SealedDriveIsSilent
<1>2. QED
  BY <1>1, MountInvariant, PTL DEF Spec, DetachAddsNoUpload

\* Session.ForceClose: a step of a forced detach keeps every staging file.
LEMMA ForceStepKeeps ==
    ASSUME MountInv, [Next]_vars, g.op = "force", NEW h \in Handle, files[h].staging \in Kept
    PROVE  files'[h].staging \in Kept
<1>t. files \in [Handle -> File] /\ files[h] \in File /\ FileOK(files[h], last)
  BY Typing
<1>g. "force" \notin PathOps /\ g # NoOp
  BY NoOpType DEF PathOps
<1>0. CASE UNCHANGED files
  BY <1>0
<1>1. ASSUME NEW x \in Handle, Write(x) PROVE files'[h].staging \in Kept
  BY <1>1, <1>t DEF Write, File
<1>2. ASSUME NEW x \in Handle, SyncStart(x) PROVE files'[h].staging \in Kept
  BY <1>2, <1>t DEF SyncStart, File
<1>3. ASSUME NEW x \in Handle, SyncEnd(x) PROVE files'[h].staging \in Kept
  <2>1. files'[h] \in {files[h], Clean(files[h]), StillDirty(files[h])}
    BY <1>3, <1>t DEF SyncEnd
  <2>2. QED
    BY <1>t, <2>1 DEF Clean, StillDirty, File
<1>4. ASSUME NEW x \in Handle, ForceSeal(x) PROVE files'[h].staging \in Kept
  <2>1. CASE x = h
    <3>1. files[h].st = "open"
      BY <1>4, <1>t, <2>1 DEF ForceSeal, MountInv, GuardOK, Tracked, FileOK
    <3>2. ~files[h].dir
      BY <1>t, <3>1 DEF FileOK, Kept
    <3>3. PICK s \in {"preserved", "unrecorded"} : files' = [files EXCEPT ![h] = Sealed(@, s)]
      BY <1>4, <2>1, <3>2 DEF ForceSeal
    <3>4. QED
      BY <1>t, <3>3 DEF Sealed, Kept, File
  <2>2. CASE x # h
    BY <1>4, <1>t, <2>2 DEF ForceSeal
  <2>3. QED
    BY <2>1, <2>2
<1>5. CASE Crash
  <2>1. files'[h] \in {files[h], Sealed(files[h], "unrecorded")}
    BY <1>5 DEF Crash
  <2>2. QED
    BY <1>t, <2>1 DEF Sealed, Kept, File
<1>6. CASE ForceEnd \/ UNCHANGED vars
  BY <1>0, <1>6 DEF ForceEnd, vars
<1>7. ASSUME NEW x \in Handle,
             \/ PublishSkip(x) \/ PublishStart(x) \/ PublishEnd(x)
             \/ CloseClean(x) \/ CloseUpload(x) \/ CloseEnd(x)
             \/ CloseDirectory(x) \/ CloseStart(x)
             \/ \E m \in Name, flags \in OpenFlags : OpenFile(x, m, flags)
      PROVE  FALSE
  BY <1>7, <1>g DEF PublishSkip, PublishStart, PublishEnd, CloseClean, CloseUpload, CloseEnd,
                    CloseDirectory, CloseStart, OpenFile, PathOpStart, GuardFree
<1>8. ~(StatEnd \/ RemoveEnd \/ OpenFails \/ OpenDirectory \/ OpenStaged)
  BY DEF StatEnd, RemoveEnd, OpenFails, OpenDirectory, OpenStaged, Opening, LookedUp
<1>9. ~(SessionClose \/ ForceClose \/ Unmount)
  BY <1>g DEF SessionClose, ForceClose, Unmount, GuardFree
<1>10. ~(\E m \in Name : Stat(m) \/ Remove(m) \/ Mkdir(m)) /\ ~(\E a, b \in Name : Rename(a, b))
  BY <1>g DEF Stat, Remove, Mkdir, Rename, PathOpStart, GuardFree
<1>11. QED
  BY <1>0, <1>1, <1>2, <1>3, <1>4, <1>5, <1>6, <1>7, <1>8, <1>9, <1>10 DEF Next, GuardStep

\* Session.ForceClose: no step of a forced detach removes a staging file, and the
\* drive is unmounted with no handle open.
THEOREM ForceKeepsEverything == Spec => ForcedDetachKeeps
<1> DEFINE Keeps ==
        /\ g.op = "force" =>
             \A h \in Handle : files[h].staging \in Kept => files'[h].staging \in Kept
        /\ session' = "forced" => \A h \in Handle : files'[h].st # "open"
<1>1. ASSUME MountInv, [Next]_vars PROVE Keeps
  <2>1. MountInv'
    BY <1>1, MountStep
  <2>2. session' = "forced" => \A h \in Handle : files'[h].st # "open"
    BY <2>1 DEF MountInv, DetachOK, FilesOK, FileOK, Tracked
  <2>3. QED
    BY <1>1, <2>2, ForceStepKeeps
<1>2. MountInv /\ [Next]_vars => [Keeps]_vars
  BY <1>1
<1>3. QED
  BY <1>2, MountInvariant, PTL DEF Spec, ForcedDetachKeeps
====
