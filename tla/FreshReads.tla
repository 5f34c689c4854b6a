---- MODULE FreshReads ----
(***************************************************************************)
(* What a connection's metadata layer promises to its callers, without     *)
(* any cache: a read of a set of paths may return any state of the server  *)
(* between the last local change that had completed when the read started  *)
(* and the moment the read returns. Other clients of the server may change *)
(* it at any time, and a read may also fail.                               *)
(* internal/vfs/metadata_cache.go is shown to implement this in            *)
(* MetadataCache.tla.                                                      *)
(***************************************************************************)
EXTENDS Naturals

CONSTANTS Proc, Path

VARIABLES
    remote,   \* remote[x]: the version of path x on the server
    settled,  \* settled[x]: the version x had when the last local change of x ended
    reading   \* reading[p]: what p is reading: nothing, a pending read, a result

freshVars == <<remote, settled, reading>>

Version == [Path -> Nat]

\* Every version the server has had so far.
Reached == [Path -> UNION {0 .. remote[x] : x \in Path}]

Only(f, over) == [x \in Path |-> IF x \in over THEN f[x] ELSE 0]

NoRead == [at |-> "idle"]
PendingRead(over) == [at |-> "pending", over |-> over, since |-> Only(settled, over)]
Result(read, seen) ==
    [at |-> "result", over |-> read.over, since |-> read.since, seen |-> seen]
Failed == [at |-> "failed"]

Init ==
    /\ remote = [x \in Path |-> 0]
    /\ settled = [x \in Path |-> 0]
    /\ reading = [p \in Proc |-> NoRead]

\* The server's state moves on, by whoever's hand.
Advance ==
    /\ remote' \in Version
    /\ \A x \in Path : remote[x] <= remote'[x]
    /\ UNCHANGED <<settled, reading>>

\* A local change of the paths xs completes: later reads must see it.
Settle ==
    /\ \E xs \in SUBSET Path :
        settled' = [x \in Path |-> IF x \in xs THEN remote[x] ELSE settled[x]]
    /\ UNCHANGED <<remote, reading>>

StartRead(p) ==
    /\ reading[p] = NoRead
    /\ \E over \in SUBSET Path : reading' = [reading EXCEPT ![p] = PendingRead(over)]
    /\ UNCHANGED <<remote, settled>>

ReturnRead(p) ==
    /\ reading[p].at = "pending"
    /\ \E seen \in Reached :
        /\ \A x \in reading[p].over :
            reading[p].since[x] <= seen[x] /\ seen[x] <= remote[x]
        /\ reading' = [reading EXCEPT ![p] = Result(reading[p], seen)]
    /\ UNCHANGED <<remote, settled>>

FailRead(p) ==
    /\ reading[p].at = "pending"
    /\ reading' = [reading EXCEPT ![p] = Failed]
    /\ UNCHANGED <<remote, settled>>

Forget(p) ==
    /\ reading[p].at \in {"result", "failed"}
    /\ reading' = [reading EXCEPT ![p] = NoRead]
    /\ UNCHANGED <<remote, settled>>

Next ==
    \/ Advance
    \/ Settle
    \/ \E p \in Proc : StartRead(p) \/ ReturnRead(p) \/ FailRead(p) \/ Forget(p)

Spec == Init /\ [][Next]_freshVars
====
