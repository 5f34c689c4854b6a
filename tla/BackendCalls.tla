---- MODULE BackendCalls ----
(***************************************************************************)
(* What the protocol backends have in common: goroutines that call a       *)
(* vfs.Backend, the connections it opens, and the write handles that       *)
(* collect the content in a temporary file and upload it in Sync or Close  *)
(* (uploadHandle in ftp/backend.go and putHandle in webdav/backend.go are  *)
(* the same code).                                                         *)
(*                                                                         *)
(* The server is external. It executes a request it has received, or does  *)
(* not; the caller sees a reply or a connection error, and an error says   *)
(* nothing about the execution. The context of a call may be canceled at   *)
(* any of the points where the code looks at it. A request of a lost       *)
(* connection is executed before the error is seen, or never.              *)
(***************************************************************************)
EXTENDS Naturals, FiniteSets

CONSTANTS
    Proc,            \* goroutines
    None,            \* no goroutine
    MaxConnections   \* bound of the model: identities of connections

ASSUME BackendConstants ==
    /\ IsFiniteSet(Proc) /\ None \notin Proc
    /\ MaxConnections \in Nat \ {0, 1}

VARIABLES
    call,     \* the call of each goroutine
    handle,   \* its write handle
    lock,     \* who holds Backend.mutex for writing
    client,   \* Backend.client
    open,     \* external: the connections this program has not closed
    broken,   \* history: those whose last use ended in a connection error
    closed    \* Backend.closed

connectionVars == <<client, open, broken, closed>>
callVars == <<call, handle>>

Connection == 1..MaxConnections

NoCall == [op |-> "none", pc |-> "idle", conn |-> 0, gen |-> 0, back |-> "send", ran |-> FALSE,
           retried |-> FALSE, times |-> 0, result |-> "none"]

Call == [op : {"none", "root", "stat", "list", "query", "read", "change", "lock", "stor", "close"},
         pc : {"idle", "enter", "probe", "dial", "send", "fallback", "reading", "reconnect", "resend"},
         conn : Nat, gen : Nat, back : {"send", "fallback"}, ran : BOOLEAN, retried : BOOLEAN,
         times : Nat, result : {"none", "ok", "failed"}]

\* st: opening while OpenWrite fills the temporary file; closing in Close.
Handle == [st : {"none", "opening", "open", "closing"}, dirty : BOOLEAN, stored : BOOLEAN]
NoHandle == [st |-> "none", dirty |-> FALSE, stored |-> FALSE]

CallsInit ==
    /\ call = [p \in Proc |-> NoCall] /\ handle = [p \in Proc |-> NoHandle]
    /\ lock = None /\ broken = {} /\ closed = FALSE

At(p, pc) == call[p].pc = pc
\* The current connection is replaced by a new one and closed.
Replace(new) ==
    /\ client' = new
    /\ open' = (open \union {new}) \ {client} /\ broken' = broken \ {client}

Goto(p, pc) == call' = [call EXCEPT ![p].pc = pc]
Changes == {"change", "lock", "stor"}

Begin(p, op) ==
    /\ At(p, "idle")
    /\ call' = [call EXCEPT ![p] = [NoCall EXCEPT !.op = op, !.pc = "enter"]]

\* The server executes a request that changes it.
Run(p) ==
    /\ call[p].op \in Changes /\ ~call[p].ran
    /\ call' = [call EXCEPT ![p].ran = TRUE, ![p].times = @ + 1]
    /\ handle' = IF call[p].op = "stor" THEN [handle EXCEPT ![p].stored = TRUE] ELSE handle

\* Mutant: Close keeps the handle when its upload failed.
HandleAfterKept(p, r) ==
    LET h == handle[p] IN
    CASE (h.st = "closing" /\ r = "ok") \/ (h.st = "opening" /\ r # "ok") -> NoHandle
      [] h.st = "opening" /\ r = "ok" ->
            [st |-> "open", dirty |-> call[p].op = "stat", stored |-> call[p].op = "read"]
      [] call[p].op = "stor" /\ (h.st = "open" \/ r # "ok") -> [h EXCEPT !.dirty = @ /\ r # "ok"]
      [] OTHER -> h

\* Mutant: a failed upload leaves the handle clean.
HandleAfterClean(p, r) ==
    LET h == handle[p] IN
    CASE h.st = "closing" \/ (h.st = "opening" /\ r # "ok") -> NoHandle
      [] h.st = "opening" /\ r = "ok" ->
            [st |-> "open", dirty |-> call[p].op = "stat", stored |-> call[p].op = "read"]
      [] call[p].op = "stor" /\ h.st = "open" -> [h EXCEPT !.dirty = FALSE]
      [] OTHER -> h

\* What the end of a call makes of the goroutine's write handle: an upload
\* cleans it only when it succeeded, Close ends it either way; OpenWrite has it
\* only when the Stat or the read of the existing file worked.
HandleAfter(p, r) ==
    LET h == handle[p] IN
    CASE h.st = "closing" \/ (h.st = "opening" /\ r # "ok") -> NoHandle
      [] h.st = "opening" /\ r = "ok" ->
            [st |-> "open", dirty |-> call[p].op = "stat", stored |-> call[p].op = "read"]
      [] call[p].op = "stor" /\ h.st = "open" -> [h EXCEPT !.dirty = @ /\ r # "ok"]
      [] OTHER -> h

Return(p, r) ==
    /\ call' = [call EXCEPT ![p] = IF call[p].op \in Changes THEN [NoCall EXCEPT !.result = r]
                                                             ELSE NoCall]
    /\ handle' = [handle EXCEPT ![p] = HandleAfter(p, r)]

\* The path is refused, the context already canceled, the operation unsupported,
\* or the temporary file cannot be synced: the call ends before it waits.
Refuse(p) == At(p, "enter") /\ call[p].op # "close" /\ Return(p, "failed")

-----------------------------------------------------------------------------
(* The write handle. A handle that is none answers os.ErrClosed.           *)

\* Without Truncate the existing file is read into the temporary one; with it,
\* but without Create, the file must exist. Every caller of this program passes
\* both, and gets a handle that is dirty from the start.
OpenWrite(p, create, truncate) ==
    /\ At(p, "idle") /\ handle[p].st = "none"
    /\ IF create /\ truncate
       THEN /\ handle' = [handle EXCEPT ![p] = [st |-> "open", dirty |-> TRUE, stored |-> FALSE]]
            /\ UNCHANGED call
       ELSE /\ Begin(p, IF truncate THEN "stat" ELSE "read")
            /\ handle' = [handle EXCEPT ![p].st = "opening"]

WriteAt(p) ==
    /\ At(p, "idle") /\ handle[p].st = "open"
    /\ handle' = [handle EXCEPT ![p].dirty = TRUE, ![p].stored = FALSE]
    /\ UNCHANGED call

\* Sync, or Close, which ends the handle when the upload has ended.
Sync(p, close) ==
    /\ handle[p].st = "open" /\ Begin(p, "stor")
    /\ handle' = [handle EXCEPT ![p].st = IF close THEN "closing" ELSE "open"]

\* syncLocked when nothing was written since the last upload.
SyncClean(p) ==
    /\ At(p, "enter") /\ call[p].op = "stor" /\ ~handle[p].dirty
    /\ Return(p, "ok")

\* syncLocked goes on to the upload; the other calls have no such condition.
MayGoOn(p) == At(p, "enter") /\ (call[p].op = "stor" => handle[p].dirty)
====
