---- MODULE RemoteCalls ----
(***************************************************************************)
(* What a change asked of a vfs.Backend promises, whatever the protocol:   *)
(* the server executes it at most limit times, and a call reports success  *)
(* only if it did. A change is a call such as Mkdir, Remove or Rename; an   *)
(* upload is the Sync or Close of a write handle, whose content may have   *)
(* reached the server in an earlier call. A failed call promises nothing:  *)
(* the server may have executed it.                                        *)
(***************************************************************************)
EXTENDS Naturals

CONSTANT Proc

VARIABLES
    limit,   \* how often one call may be executed: fixed by the protocol
    phase,   \* what each goroutine's call is, or how its last one ended
    times,   \* executions of the call under way
    done,    \* the change under way has been executed
    stored   \* the content of the goroutine's write handle is on the server

vars == <<limit, phase, times, done, stored>>

Pending == {"change", "upload"}

Init ==
    /\ limit \in {1, 2}
    /\ phase = [p \in Proc |-> "none"]
    /\ times = [p \in Proc |-> 0]
    /\ done = [p \in Proc |-> FALSE] /\ stored = [p \in Proc |-> FALSE]

Begin(p, kind) ==
    /\ phase[p] \notin Pending /\ phase' = [phase EXCEPT ![p] = kind]
    /\ UNCHANGED <<limit, times, done, stored>>

\* The content of the write handle changes, or is read from the server.
Content(p, known) ==
    /\ phase[p] \notin Pending
    /\ stored' = [stored EXCEPT ![p] = known]
    /\ UNCHANGED <<limit, phase, times, done>>

Execute(p) ==
    /\ phase[p] \in Pending /\ times[p] < limit
    /\ times' = [times EXCEPT ![p] = @ + 1]
    /\ IF phase[p] = "change" THEN done' = [done EXCEPT ![p] = TRUE] /\ UNCHANGED stored
                              ELSE stored' = [stored EXCEPT ![p] = TRUE] /\ UNCHANGED done
    /\ UNCHANGED <<limit, phase>>

\* Close of a write handle ends the handle with the call.
End(p, result) ==
    /\ phase' = [phase EXCEPT ![p] = result]
    /\ times' = [times EXCEPT ![p] = 0] /\ done' = [done EXCEPT ![p] = FALSE]
    /\ \/ UNCHANGED stored
       \/ phase[p] = "upload" /\ stored' = [stored EXCEPT ![p] = FALSE]
    /\ UNCHANGED limit

Succeed(p) ==
    /\ \/ phase[p] = "change" /\ done[p]
       \/ phase[p] = "upload" /\ stored[p]
    /\ End(p, "ok")

Fail(p) ==
    /\ phase[p] \in Pending /\ End(p, "failed")

Next == \E p \in Proc :
    \/ \E kind \in Pending \union {"none"} : Begin(p, kind)
    \/ \E known \in BOOLEAN : Content(p, known)
    \/ Execute(p) \/ Succeed(p) \/ Fail(p)

Spec == Init /\ [][Next]_vars
====
