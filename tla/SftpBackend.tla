---- MODULE SftpBackend ----
(***************************************************************************)
(* internal/protocol/sftp/backend.go: goroutines share one connection      *)
(* without holding a lock over their requests. An operation that ends in a *)
(* connection error, a change too, is repeated once: on the connection     *)
(* another goroutine has opened meanwhile, or on a new one that replaces   *)
(* the failed one, which is then closed under everybody who still uses it. *)
(* The files OpenRead and OpenWrite return belong to the SFTP library.     *)
(***************************************************************************)
EXTENDS BackendCalls

VARIABLE generation   \* Backend.generation

vars == <<callVars, lock, connectionVars, generation>>

\* Stat, ReadDir and OpenRead; the others change the server, OpenWrite by
\* creating or truncating the file.
Ops == {"query", "change", "close"}

Init ==
    /\ CallsInit
    /\ client = 1 /\ open = {1} /\ generation = 0

Start(p, op) ==
    /\ Begin(p, op)
    /\ UNCHANGED <<handle, lock, connectionVars, generation>>

Refused(p) == Refuse(p) /\ UNCHANGED <<lock, connectionVars, generation>>

\* The connection and its generation are read under one RLock.
session(p) ==
    /\ At(p, "enter") /\ call[p].op # "close" /\ lock = None
    /\ \/ closed /\ Return(p, "failed")
       \/ /\ ~closed /\ UNCHANGED handle
          /\ call' = [call EXCEPT ![p].pc = "send", ![p].conn = client, ![p].gen = generation]
    /\ UNCHANGED <<lock, connectionVars, generation>>

InFlight(p) == At(p, "send") \/ At(p, "resend")

Execute(p) ==
    /\ InFlight(p) /\ call[p].conn \in open /\ Run(p)
    /\ UNCHANGED <<lock, connectionVars, generation>>

\* withReconnect: a result, or an error of the server.
Reply(p) ==
    /\ InFlight(p) /\ call[p].conn \in open
    /\ \/ (call[p].op = "query" \/ call[p].ran) /\ Return(p, "ok")
       \/ Return(p, "failed")
    /\ UNCHANGED <<lock, connectionVars, generation>>

\* withReconnect: a connection error, at least when the connection is closed.
\* The first makes it reconnect, the second is returned.
Lose(p) ==
    /\ InFlight(p) /\ broken' = broken \union ({call[p].conn} \intersect open)
    /\ \/ At(p, "send") /\ Goto(p, "reconnect") /\ UNCHANGED handle
       \/ At(p, "resend") /\ Return(p, "failed")
    /\ UNCHANGED <<lock, client, open, closed, generation>>

Retry(p, c) == call' = [call EXCEPT ![p].pc = "resend", ![p].conn = c, ![p].ran = FALSE]

\* Mutant: whoever saw an error reconnects, though another has done so already.
reconnectAnyway(p) ==
    /\ At(p, "reconnect") /\ lock = None
    /\ IF closed THEN Return(p, "failed") /\ UNCHANGED lock
       ELSE lock' = p /\ Goto(p, "dial") /\ UNCHANGED handle
    /\ UNCHANGED <<connectionVars, generation>>

\* Mutant: reconnect does not look at closed.
reconnectClosed(p) ==
    /\ At(p, "reconnect") /\ lock = None
    /\ IF call[p].gen # generation THEN Retry(p, client) /\ UNCHANGED <<handle, lock>>
       ELSE lock' = p /\ Goto(p, "dial") /\ UNCHANGED handle
    /\ UNCHANGED <<connectionVars, generation>>

reconnect(p) ==
    /\ At(p, "reconnect") /\ lock = None
    /\ IF closed THEN Return(p, "failed") /\ UNCHANGED lock
       ELSE IF call[p].gen # generation THEN Retry(p, client) /\ UNCHANGED <<handle, lock>>
       ELSE lock' = p /\ Goto(p, "dial") /\ UNCHANGED handle
    /\ UNCHANGED <<connectionVars, generation>>

\* connect fails, or its connection replaces the failed one.
connect(p) ==
    LET new == generation + 2 IN
    /\ At(p, "dial") /\ lock' = None
    /\ \/ Return(p, "failed") /\ UNCHANGED <<client, open, broken, generation>>
       \/ /\ new \in Connection /\ Replace(new)
          /\ generation' = generation + 1
          /\ Retry(p, new) /\ UNCHANGED handle
    /\ UNCHANGED closed

Close(p) ==
    /\ At(p, "enter") /\ call[p].op = "close" /\ lock = None
    /\ closed' = TRUE /\ open' = open \ {client} /\ broken' = {}
    /\ Return(p, "ok")
    /\ UNCHANGED <<lock, client, generation>>

Advance(p) == Reply(p) \/ Lose(p) \/ connect(p)
Wait(p) == session(p) \/ reconnect(p) \/ Close(p)

Next == \E p \in Proc :
    \/ \E op \in Ops : Start(p, op)
    \/ Refused(p) \/ Execute(p) \/ Advance(p) \/ Wait(p)
====
