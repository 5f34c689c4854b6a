---- MODULE FtpBackend ----
(***************************************************************************)
(* internal/protocol/ftp/backend.go: one control connection, used by one   *)
(* goroutine at a time under Backend.mutex. A reader keeps the mutex until *)
(* it is closed. After a transfer or a connection error the next call      *)
(* first asks for a NOOP and reconnects if that fails. Queries and the     *)
(* start of a read are repeated once after a reconnect; changes and        *)
(* uploads never are.                                                      *)
(***************************************************************************)
EXTENDS BackendCalls

VARIABLES
    needsProbe,  \* Backend.needsProbe
    last,        \* history: what the current connection was used for last
    spent        \* goroutines that hold a reader they have closed

ftpVars == <<needsProbe, last, spent>>
vars == <<callVars, lock, connectionVars, ftpVars>>

Ops == {"root", "stat", "list", "read", "change", "close"}

\* New: connected, nothing sent yet.
Init ==
    /\ CallsInit
    /\ client = 1 /\ open = {1}
    /\ needsProbe = FALSE /\ last = "ok" /\ spent = {}

Unlock(p, r) == lock' = None /\ Return(p, r)

-----------------------------------------------------------------------------
(* lock, reconnectLocked.                                                  *)

Start(p, op) ==
    /\ p \notin spent /\ Begin(p, op)
    /\ UNCHANGED <<handle, lock, connectionVars, ftpVars>>

Use(p) ==
    /\ p \notin spent
    /\ \/ \E create, truncate \in BOOLEAN : OpenWrite(p, create, truncate)
       \/ WriteAt(p)
       \/ \E close \in BOOLEAN : Sync(p, close)
    /\ UNCHANGED <<lock, connectionVars, ftpVars>>

Refused(p) == Refuse(p) /\ UNCHANGED <<lock, connectionVars, ftpVars>>
Clean(p) == SyncClean(p) /\ UNCHANGED <<lock, connectionVars, ftpVars>>

\* The mutex is taken. The context may have been canceled during the wait: the
\* mutex does not look at it.
Acquire(p) ==
    /\ MayGoOn(p) /\ lock = None /\ call[p].op # "close"
    /\ \/ Return(p, "failed") /\ UNCHANGED lock
       \/ /\ ~closed /\ lock' = p
          /\ Goto(p, IF needsProbe THEN "probe" ELSE "send")
          /\ UNCHANGED handle
    /\ UNCHANGED <<connectionVars, ftpVars>>

\* A connection error on the current connection.
Broke == broken' = broken \union {client} /\ UNCHANGED <<client, open, closed>>

NoOp(p) ==
    /\ At(p, "probe")
    /\ \/ /\ needsProbe' = FALSE /\ last' = "ok" /\ Goto(p, "send")
          /\ broken' = broken \ {client}
          /\ UNCHANGED <<handle, lock, client, open, closed>>
       \/ Unlock(p, "failed") /\ UNCHANGED <<needsProbe, last, connectionVars>>
       \/ Broke /\ last' = "error" /\ Goto(p, "dial") /\ UNCHANGED <<handle, lock, needsProbe>>
    /\ UNCHANGED spent

\* One goroutine at a time dials: the identity of a closed connection is free.
NewConnection == CHOOSE c \in Connection : c \notin open

\* The context is canceled, no connection is made, or the new one starts in
\* another directory and is closed again; or it replaces the old one.
reconnectLocked(p) ==
    /\ At(p, "dial")
    /\ \/ needsProbe' = TRUE /\ Unlock(p, "failed") /\ UNCHANGED <<client, open, broken, last>>
       \/ /\ Replace(NewConnection)
          /\ needsProbe' = FALSE /\ last' = "ok"
          /\ Goto(p, call[p].back) /\ UNCHANGED <<handle, lock>>
    /\ UNCHANGED <<closed, spent>>

\* Mutant: every connection error makes the command be repeated.
AgainForEver(p) ==
    /\ call' = [call EXCEPT ![p].back = call[p].pc, ![p].pc = "dial", ![p].retried = TRUE]
    /\ UNCHANGED <<handle, lock>>

\* Reconnect, then repeat the command: a second connection error is final.
Again(p) ==
    /\ ~call[p].retried
    /\ call' = [call EXCEPT ![p].back = call[p].pc, ![p].pc = "dial", ![p].retried = TRUE]
    /\ UNCHANGED <<handle, lock>>

-----------------------------------------------------------------------------
(* Commands, sent by the goroutine that holds the mutex.                   *)

Sends(p, op) == At(p, "send") /\ call[p].op = op

Execute(p) ==
    /\ At(p, "send") /\ Run(p)
    /\ UNCHANGED <<lock, connectionVars, ftpVars>>

StatRoot(p) ==
    /\ Sends(p, "root") /\ Unlock(p, "ok")
    /\ UNCHANGED <<connectionVars, ftpVars>>

\* GetEntry; a refusal makes Stat look into the parent's listing.
Stat(p) ==
    /\ Sends(p, "stat")
    /\ \/ Unlock(p, "ok") /\ UNCHANGED <<connectionVars, needsProbe, last>>
       \/ /\ call' = [call EXCEPT ![p].pc = "fallback", ![p].retried = FALSE]
          /\ UNCHANGED <<handle, lock, connectionVars, needsProbe, last>>
       \/ /\ Broke /\ last' = "error"
          /\ \/ Again(p) /\ UNCHANGED needsProbe
             \/ call[p].retried /\ needsProbe' = TRUE /\ Unlock(p, "failed")
    /\ UNCHANGED spent

\* ReadDir, and the listing Stat falls back to. A listing that lacks the name
\* is fs.ErrNotExist: for a write handle about to open, a failure.
ReadDir(p) ==
    /\ Sends(p, "list") \/ At(p, "fallback")
    /\ needsProbe' = TRUE
    /\ \/ /\ last' = "transfer" /\ UNCHANGED connectionVars
          /\ Unlock(p, "ok") \/ Unlock(p, "failed")
       \/ /\ Broke /\ last' = "error"
          /\ Again(p) \/ (call[p].retried /\ Unlock(p, "failed"))
    /\ UNCHANGED spent

\* OpenRead: the mutex stays with the reader.
OpenRead(p) ==
    /\ Sends(p, "read")
    /\ \/ /\ last' = "transfer" /\ Goto(p, "reading")
          /\ UNCHANGED <<handle, lock, connectionVars, needsProbe>>
       \/ needsProbe' = FALSE /\ Unlock(p, "failed") /\ UNCHANGED <<connectionVars, last>>
       \/ /\ Broke /\ last' = "error"
          /\ \/ Again(p) /\ UNCHANGED needsProbe
             \/ call[p].retried /\ needsProbe' = TRUE /\ Unlock(p, "failed")
    /\ UNCHANGED spent

\* lockedReadCloser.Close: finish runs once. The caller may keep the reader.
CloseRead(p) ==
    /\ At(p, "reading") /\ needsProbe' = TRUE
    /\ \/ Unlock(p, "ok") \/ Unlock(p, "failed")
    /\ spent' = IF handle[p].st = "opening" THEN spent ELSE spent \union {p}
    /\ UNCHANGED <<connectionVars, last>>

\* Mutant: a second Close finishes again.
CloseReadAgainUnlocking(p) ==
    /\ p \in spent /\ spent' = spent \ {p}
    /\ needsProbe' = TRUE /\ lock' = None
    /\ UNCHANGED <<callVars, connectionVars, last>>

\* A second Close does nothing; then the caller drops the reader.
CloseReadAgain(p) ==
    /\ p \in spent /\ spent' = spent \ {p}
    /\ UNCHANGED <<callVars, lock, connectionVars, needsProbe, last>>

\* Mkdir, Remove, Rename, SetModTime.
withClient(p) ==
    /\ Sends(p, "change")
    /\ \/ call[p].ran /\ Unlock(p, "ok") /\ UNCHANGED <<connectionVars, needsProbe, last>>
       \/ Unlock(p, "failed") /\ UNCHANGED <<connectionVars, needsProbe, last>>
       \/ Broke /\ last' = "error" /\ needsProbe' = TRUE /\ Unlock(p, "failed")
    /\ UNCHANGED spent

\* syncLocked: STOR, whatever its outcome, is a transfer.
syncLocked(p) ==
    /\ Sends(p, "stor") /\ needsProbe' = TRUE
    /\ \/ /\ last' = "transfer" /\ UNCHANGED connectionVars
          /\ (call[p].ran /\ Unlock(p, "ok")) \/ Unlock(p, "failed")
       \/ Broke /\ last' = "error" /\ Unlock(p, "failed")
    /\ UNCHANGED spent

Close(p) ==
    /\ At(p, "enter") /\ call[p].op = "close" /\ lock = None
    /\ closed' = TRUE /\ open' = open \ {client} /\ broken' = {}
    /\ Return(p, "ok")
    /\ UNCHANGED <<lock, client, ftpVars>>

-----------------------------------------------------------------------------
\* What a call does without waiting for another goroutine, and where it waits.
Advance(p) ==
    \/ Clean(p) \/ NoOp(p) \/ reconnectLocked(p) \/ StatRoot(p) \/ Stat(p) \/ ReadDir(p)
    \/ OpenRead(p) \/ CloseRead(p) \/ withClient(p) \/ syncLocked(p)
Wait(p) == Acquire(p) \/ Close(p)

Next == \E p \in Proc :
    \/ \E op \in Ops : Start(p, op)
    \/ Use(p) \/ Refused(p) \/ Execute(p) \/ CloseReadAgain(p) \/ Advance(p) \/ Wait(p)

-----------------------------------------------------------------------------
(* Properties.                                                             *)

Holding == {"probe", "dial", "send", "fallback", "reading"}

\* lock, lockedReadCloser: the control connection is used by the goroutine that
\* holds the mutex and no other, whoever closes a reader twice; and a call sends
\* its first command on a connection whose last use was neither a transfer nor a
\* connection error, unless a NOOP or a reconnect came between.
ControlConnectionReady == \A p \in Proc :
    /\ call[p].pc \in Holding => lock = p
    /\ At(p, "send") /\ ~call[p].retried => last = "ok"
====
