---- MODULE WebdavBackend ----
(***************************************************************************)
(* internal/protocol/webdav/backend.go: every call is one HTTP request     *)
(* with a time limit, and no request is repeated. The connections belong   *)
(* to the HTTP client. Only the listed statuses of a reply count as        *)
(* success, so a change may be executed and still reported as failed. The  *)
(* server is taken not to redirect: a listed status answers this request.  *)
(***************************************************************************)
EXTENDS BackendCalls

vars == <<callVars, lock, connectionVars>>

Ops == {"stat", "read", "change", "lock"}

Init == CallsInit /\ client = 0 /\ open = {}

Start(p, op) ==
    /\ Begin(p, op)
    /\ UNCHANGED <<handle, lock, connectionVars>>

Use(p) ==
    /\ \/ \E create, truncate \in BOOLEAN : OpenWrite(p, create, truncate)
       \/ WriteAt(p)
       \/ \E close \in BOOLEAN : Sync(p, close)
    /\ UNCHANGED <<lock, connectionVars>>

\* The request is sent, unless there is nothing to upload; or it is refused (a
\* bad path, SetModTime, SetReadOnly).
Enter(p) ==
    /\ \/ Refuse(p) \/ SyncClean(p)
       \/ MayGoOn(p) /\ Goto(p, "send") /\ UNCHANGED handle
    /\ UNCHANGED <<lock, connectionVars>>

Execute(p) ==
    /\ At(p, "send") /\ Run(p)
    /\ UNCHANGED <<lock, connectionVars>>

\* PROPFIND: one entry for Stat, the children for ReadDir.
propfind(p) ==
    /\ At(p, "send") /\ call[p].op = "stat"
    /\ Return(p, "ok") \/ Return(p, "failed")
    /\ UNCHANGED <<lock, connectionVars>>

\* GET: the body is read and closed later. When a write handle without Truncate
\* is opened, a 404 with Create makes it an empty, dirty one.
OpenRead(p) ==
    /\ At(p, "send") /\ call[p].op = "read"
    /\ \/ Goto(p, "reading") /\ UNCHANGED handle
       \/ Return(p, "failed")
       \/ /\ handle[p].st = "opening"
          /\ call' = [call EXCEPT ![p] = NoCall]
          /\ handle' = [handle EXCEPT ![p] = [st |-> "open", dirty |-> TRUE, stored |-> FALSE]]
    /\ UNCHANGED <<lock, connectionVars>>

CloseRead(p) ==
    /\ At(p, "reading")
    /\ Return(p, "ok") \/ Return(p, "failed")
    /\ UNCHANGED <<lock, connectionVars>>

\* Mkdir, Remove, Rename, Unlock and PUT: a status that is not listed, a time
\* limit or a connection error is a failure.
do(p) ==
    /\ At(p, "send") /\ call[p].op \in {"change", "stor"}
    /\ (call[p].ran /\ Return(p, "ok")) \/ Return(p, "failed")
    /\ UNCHANGED <<lock, connectionVars>>

\* LOCK succeeds with a token, in the header or the body; a reply without one is
\* an error although the server holds the lock.
Lock(p) ==
    /\ At(p, "send") /\ call[p].op = "lock"
    /\ (call[p].ran /\ Return(p, "ok")) \/ Return(p, "failed")
    /\ UNCHANGED <<lock, connectionVars>>

Advance(p) ==
    Enter(p) \/ propfind(p) \/ OpenRead(p) \/ CloseRead(p) \/ do(p) \/ Lock(p)

Next == \E p \in Proc :
    \/ \E op \in Ops : Start(p, op)
    \/ Use(p) \/ Execute(p) \/ Advance(p)
====
