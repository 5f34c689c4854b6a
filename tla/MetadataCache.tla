---- MODULE MetadataCache ----
(***************************************************************************)
(* The metadata cache that sits between a mounted drive and its backend:   *)
(* internal/vfs/metadata_cache.go. Goroutines query (Stat, ReadDir) and    *)
(* mutate through one cache; a query is a hit, a waiter on another query's *)
(* flight, or a leader that calls the backend. Every section of the code   *)
(* that holds c.mu is one action, except the seeding loop of a ReadDir,    *)
(* which holds the mutex (variable mu) over one action per put.            *)
(*                                                                         *)
(* The backend is external: a server whose paths carry version numbers.    *)
(* A version stands for everything an operation on that path can change    *)
(* (existence, kind, size, time, attributes). The server may be changed by *)
(* other clients, and by requests whose reply was lost, at any time.       *)
(* Time only decides whether a cached entry is expired when it is looked   *)
(* up; both outcomes are possible at every lookup.                         *)
(***************************************************************************)
EXTENDS Naturals, FiniteSets, Functions

CONSTANTS
    Proc,         \* goroutines of the mount that use the cache
    Path, Root,   \* normalized paths, and "/"
    DirOf,        \* path.Dir
    Under,        \* <<x, n>> : x lies strictly below n (HasPrefix(x, n + "/"))
    Traversal,    \* a name metadataPath rejects
    None,         \* nobody: the mutex is free
    Sizes,        \* the estimated sizes of a metadata value
    MaxEntries, MaxBytes,      \* metadataMaxEntries, metadataMaxBytes
    Queried, Mutated,          \* the keys callers query, the names they mutate
    Shared,                    \* the paths that other clients of the server change
    MaxGeneration, MaxVersion  \* bounds of the model only

ASSUME PathTree ==
    /\ Root \in Path /\ Traversal \notin Path
    /\ DirOf \in [Path -> Path] /\ Under \subseteq Path \X Path
    /\ \A x \in Path \ {Root} : <<x, Root>> \in Under
    /\ \A x, n \in Path : <<x, n>> \in Under => DirOf[x] = n \/ <<DirOf[x], n>> \in Under

ASSUME CacheConstants ==
    /\ IsFiniteSet(Proc) /\ None \notin Proc
    /\ Queried \subseteq [name : Path, directory : BOOLEAN]
    /\ Shared \subseteq Path
    /\ Mutated \subseteq SUBSET (Path \union {Traversal})
    /\ Sizes \subseteq Nat
    /\ MaxEntries \in Nat \ {0}
    /\ {MaxBytes, MaxGeneration, MaxVersion} \subseteq Nat

VARIABLES
    values,      \* c.values: cached metadata by key
    bytes,       \* c.bytes
    flights,     \* c.flights: who leads the merged call of a key and generation
    generation, changing, closed,
    mu,          \* the holder of c.mu while it seeds a directory's children
    q,           \* q[p]: the call p is executing
    remote,      \* external: the server's versions
    settled      \* history: each path's version when its last local change ended

cacheVars == <<values, bytes, flights, generation, changing, closed, mu>>
vars == <<cacheVars, q, remote, settled>>

Key == [name : Path, directory : BOOLEAN]
Version == [Path -> Nat]
Kinds == {"none", "found", "missing", "error", "canceled", "closed"}
Reply == [kind : Kinds, ver : Version]
Cached == [kind : {"found", "missing"}, ver : Version, bytes : Nat]
Flight == [key : Key, gen : Nat, leader : Proc]

Querying == {"pass", "top", "lock", "wait", "woken", "call", "reply", "seed"}
Call == [pc : Querying \union {"idle", "done", "begun", "applied"},
         key : Key, ctx : BOOLEAN, gen : Nat, merge : BOOLEAN,
         leader : Proc \union {None}, val : Reply, seeds : SUBSET Path,
         names : SUBSET (Path \union {Traversal}), since : Version]

Zero == [x \in Path |-> 0]
NoReply == [kind |-> "none", ver |-> Zero]
Failure(kind) == [kind |-> kind, ver |-> Zero]
Idle == [pc |-> "idle", key |-> [name |-> Root, directory |-> FALSE], ctx |-> FALSE,
         gen |-> 0, merge |-> FALSE, leader |-> None, val |-> NoReply, seeds |-> {},
         names |-> {}, since |-> Zero]

Init ==
    /\ values = [k \in {} |-> NoReply] /\ bytes = 0 /\ flights = {}
    /\ generation = 0 /\ changing = 0 /\ closed = FALSE /\ mu = None
    /\ q = [p \in Proc |-> Idle]
    /\ remote = Zero /\ settled = Zero

-----------------------------------------------------------------------------
(* Paths.                                                                  *)

\* The paths whose state a query of key k reports: the named path, and for a
\* directory listing its entries too.
Children(n) == {x \in Path \ {Root} : DirOf[x] = n}
Covers(k) == IF k.directory THEN {k.name} \union Children(k.name) ELSE {k.name}

\* The paths an operation on the names ns may change: those and all below them.
Affected(ns) == {x \in Path : \E n \in ns \ {Traversal} : x = n \/ <<x, n>> \in Under}

\* A version map cut down to the paths in S.
Only(ver, S) == [x \in Path |-> IF x \in S THEN ver[x] ELSE 0]

-----------------------------------------------------------------------------
(* The table of values.                                                    *)

Drop(D) ==
    /\ values' = [k \in DOMAIN values \ D |-> values[k]]
    /\ bytes' = bytes - SumFunction([k \in DOMAIN values \cap D |-> values[k].bytes])

\* Mutant: put forgets to take the replaced entry's size off c.bytes.
PutLeak(k, v) ==
    LET rest == DOMAIN values \ {k}
        full == Cardinality(rest) >= MaxEntries \/ bytes + v.bytes > MaxBytes
    IN  IF v.bytes > MaxBytes THEN UNCHANGED <<values, bytes>>
        ELSE /\ values' = [j \in (IF full THEN {} ELSE rest) \union {k} |->
                              IF j = k THEN v ELSE values[j]]
             /\ bytes' = IF full THEN v.bytes ELSE bytes + v.bytes

\* put: an oversize value is not kept; at the limit everything else is dropped.
Put(k, v) ==
    LET rest == DOMAIN values \ {k}
        left == IF k \in DOMAIN values THEN bytes - values[k].bytes ELSE bytes
        full == Cardinality(rest) >= MaxEntries \/ left + v.bytes > MaxBytes
    IN  IF v.bytes > MaxBytes THEN UNCHANGED <<values, bytes>>
        ELSE /\ values' = [j \in (IF full THEN {} ELSE rest) \union {k} |->
                              IF j = k THEN v ELSE values[j]]
             /\ bytes' = IF full THEN v.bytes ELSE left + v.bytes

\* Mutant: the parent's listing survives a change of one of its entries.
MatchesNoParent(k, n) ==
    k.name = n \/ n = Root \/ <<k.name, n>> \in Under

\* The keys invalidate drops for one name.
Matches(k, n) ==
    \/ k.name = n
    \/ n = Root
    \/ <<k.name, n>> \in Under
    \/ k.directory /\ k.name = DirOf[n]

Invalidate(ns) ==
    /\ generation' = generation + 1
    /\ Drop({k \in DOMAIN values : Traversal \in ns \/ \E n \in ns : Matches(k, n)})

-----------------------------------------------------------------------------
(* query: Stat and ReadDir.                                                *)

Unlocked == mu = None
At(p, pc) == q[p].pc = pc
Returned(c, reply) ==
    [Idle EXCEPT !.pc = "done", !.key = c.key, !.ctx = c.ctx, !.val = reply,
                 !.since = c.since]
Return(p, reply) == q' = [q EXCEPT ![p] = Returned(q[p], reply)]

Query(p, k) ==
    /\ At(p, "idle")
    /\ q' = [q EXCEPT ![p] = [Idle EXCEPT !.pc = "top", !.key = k,
                                          !.since = Only(settled, Covers(k))]]
    /\ UNCHANGED <<cacheVars, remote, settled>>

\* A name with a ".." element goes straight to the backend, which rejects it.
QueryTraversal(p) ==
    /\ At(p, "idle")
    /\ q' = [q EXCEPT ![p] = [Idle EXCEPT !.pc = "pass"]]
    /\ UNCHANGED <<cacheVars, remote, settled>>

RejectTraversal(p) ==
    /\ At(p, "pass")
    /\ Return(p, Failure("error"))
    /\ UNCHANGED <<cacheVars, remote, settled>>

\* The caller's context ends (operationContext's timeout, an unmount).
Cancel(p) ==
    /\ q[p].pc \in Querying /\ ~q[p].ctx
    /\ q' = [q EXCEPT ![p].ctx = TRUE]
    /\ UNCHANGED <<cacheVars, remote, settled>>

CheckContext(p) ==
    /\ At(p, "top")
    /\ IF q[p].ctx THEN Return(p, Failure("canceled"))
                   ELSE q' = [q EXCEPT ![p].pc = "lock"]
    /\ UNCHANGED <<cacheVars, remote, settled>>

Closed(p) ==
    /\ At(p, "lock") /\ Unlocked /\ closed
    /\ Return(p, Failure("closed"))
    /\ UNCHANGED <<cacheVars, remote, settled>>

Hit(p) ==
    /\ At(p, "lock") /\ Unlocked /\ ~closed /\ changing = 0
    /\ q[p].key \in DOMAIN values
    /\ Return(p, [kind |-> values[q[p].key].kind, ver |-> values[q[p].key].ver])
    /\ UNCHANGED <<cacheVars, remote, settled>>

\* Lookup finds nothing, or (changing = 0) an expired entry, which it drops.
Miss(p) ==
    IF changing = 0 THEN Drop({q[p].key}) ELSE UNCHANGED <<values, bytes>>

FlightOf(k) == {f \in flights : f.key = k /\ f.gen = generation}

Join(p) ==
    /\ At(p, "lock") /\ Unlocked /\ ~closed /\ changing = 0
    /\ \E f \in FlightOf(q[p].key) :
        q' = [q EXCEPT ![p].pc = "wait", ![p].leader = f.leader, ![p].gen = generation]
    /\ Miss(p)
    /\ UNCHANGED <<flights, generation, changing, closed, mu, remote, settled>>

\* Mutant: a leader does not register its flight.
LeadUnregistered(p) ==
    /\ At(p, "lock") /\ Unlocked /\ ~closed
    /\ q' = [q EXCEPT ![p].pc = "call", ![p].gen = generation,
                      ![p].merge = (changing = 0)]
    /\ Miss(p)
    /\ UNCHANGED <<flights, generation, changing, closed, mu, remote, settled>>

Lead(p) ==
    /\ At(p, "lock") /\ Unlocked /\ ~closed
    /\ FlightOf(q[p].key) = {} \/ changing # 0
    /\ q' = [q EXCEPT ![p].pc = "call", ![p].gen = generation,
                      ![p].merge = (changing = 0)]
    /\ flights' = IF changing = 0
                  THEN flights \union
                       {[key |-> q[p].key, gen |-> generation, leader |-> p]}
                  ELSE flights
    /\ Miss(p)
    /\ UNCHANGED <<generation, changing, closed, mu, remote, settled>>

\* External: the backend answers the leader's call, from its state at some
\* moment of the call, with an error, or with an error that is a context error:
\* the caller's context has ended, or the backend gave up on a timeout of its own
\* (the dial timeout, the HTTP client's), whatever the caller's context says.
BackendReplies(p) ==
    /\ At(p, "call")
    /\ \/ \E kind \in {"found", "missing"} :
            q' = [q EXCEPT ![p].pc = "reply",
                           ![p].val = [kind |-> kind, ver |-> Only(remote, Covers(q[p].key))]]
       \/ \E kind \in {"error", "canceled"} :
            q' = [q EXCEPT ![p].pc = "reply", ![p].val = Failure(kind)]
    /\ UNCHANGED <<cacheVars, remote, settled>>

\* Mutant: a reply is stored whatever happened during the call.
StorableNoFence(p) ==
    ~closed /\ changing = 0 /\ ~q[p].ctx /\ q[p].val.kind \in {"found", "missing"}

\* Mutant: a reply that arrives after Close is stored.
StorableAfterClose(p) ==
    changing = 0 /\ ~q[p].ctx /\ q[p].val.kind \in {"found", "missing"}

Storable(p) ==
    /\ ~closed /\ changing = 0 /\ generation = q[p].gen
    /\ ~q[p].ctx /\ q[p].val.kind \in {"found", "missing"}

WaitsOn(w, p) ==
    At(w, "wait") /\ q[w].leader = p /\ q[w].key = q[p].key /\ q[w].gen = q[p].gen

\* Mutant: a leader whose context is done never closes the flight's channel.
PublishUnlessCanceled(p) ==
    /\ q' = [w \in Proc |->
                IF w = p THEN Returned(q[p], q[p].val)
                ELSE IF q[p].merge /\ WaitsOn(w, p) /\ ~q[p].ctx
                THEN [q[w] EXCEPT !.pc = "woken", !.val = q[p].val]
                ELSE q[w]]
    /\ flights' = flights \ (IF q[p].merge
                             THEN {f \in flights : f.key = q[p].key /\ f.gen = q[p].gen}
                             ELSE {})

\* The leader leaves the table of flights, wakes its waiters and returns.
Publish(p) ==
    /\ q' = [w \in Proc |->
                IF w = p THEN Returned(q[p], q[p].val)
                ELSE IF q[p].merge /\ WaitsOn(w, p)
                THEN [q[w] EXCEPT !.pc = "woken", !.val = q[p].val]
                ELSE q[w]]
    /\ flights' = flights \ (IF q[p].merge
                             THEN {f \in flights : f.key = q[p].key /\ f.gen = q[p].gen}
                             ELSE {})

SettleUnstored(p) ==
    /\ At(p, "reply") /\ Unlocked /\ ~Storable(p)
    /\ Publish(p)
    /\ UNCHANGED <<values, bytes, generation, changing, closed, mu, remote, settled>>

CachedFrom(kind, ver, size) == [kind |-> kind, ver |-> ver, bytes |-> size]

\* The reply is stored; a listing then seeds the Stat of the entries the server
\* returned under well-formed names, still under c.mu.
SettleStored(p) ==
    /\ At(p, "reply") /\ Unlocked /\ Storable(p)
    /\ \E size \in Sizes :
        Put(q[p].key, CachedFrom(q[p].val.kind, q[p].val.ver, size))
    /\ \E seeds \in SUBSET (IF q[p].key.directory /\ q[p].val.kind = "found"
                            THEN Children(q[p].key.name) ELSE {}) :
        q' = [q EXCEPT ![p].pc = "seed", ![p].seeds = seeds]
    /\ mu' = p
    /\ UNCHANGED <<flights, generation, changing, closed, remote, settled>>

SeedChild(p) ==
    /\ At(p, "seed")
    /\ \E x \in q[p].seeds, size \in Sizes :
        /\ Put([name |-> x, directory |-> FALSE],
               CachedFrom("found", Only(q[p].val.ver, {x}), size))
        /\ q' = [q EXCEPT ![p].seeds = @ \ {x}]
    /\ UNCHANGED <<flights, generation, changing, closed, mu, remote, settled>>

SettlePublish(p) ==
    /\ At(p, "seed") /\ q[p].seeds = {}
    /\ Publish(p)
    /\ mu' = None
    /\ UNCHANGED <<values, bytes, generation, changing, closed, remote, settled>>

\* A waiter whose own context ends first.
WaitCanceled(p) ==
    /\ q[p].pc \in {"wait", "woken"} /\ q[p].ctx
    /\ Return(p, Failure("canceled"))
    /\ UNCHANGED <<cacheVars, remote, settled>>

\* Mutant: a waiter takes over whatever its leader got.
WakeWithLeadersError(p) ==
    /\ At(p, "woken") /\ Unlocked
    /\ IF ~closed /\ generation = q[p].gen
       THEN Return(p, q[p].val)
       ELSE q' = [q EXCEPT ![p] = [Idle EXCEPT !.pc = "top", !.key = q[p].key,
                                               !.ctx = q[p].ctx, !.since = q[p].since]]
    /\ UNCHANGED <<cacheVars, remote, settled>>

\* The flight is done: retry when the leader got a context error or the reply is
\* not of the current generation, else share the reply.
Wake(p) ==
    /\ At(p, "woken") /\ Unlocked
    /\ IF q[p].val.kind # "canceled" /\ ~closed /\ generation = q[p].gen
       THEN Return(p, q[p].val)
       ELSE q' = [q EXCEPT ![p] = [Idle EXCEPT !.pc = "top", !.key = q[p].key,
                                               !.ctx = q[p].ctx, !.since = q[p].since]]
    /\ UNCHANGED <<cacheVars, remote, settled>>

Forget(p) ==
    /\ At(p, "done")
    /\ q' = [q EXCEPT ![p] = Idle]
    /\ UNCHANGED <<cacheVars, remote, settled>>

-----------------------------------------------------------------------------
(* Mkdir, Remove, Rename, SetModTime, SetReadOnly, OpenWrite and a write   *)
(* handle's WriteAt, Sync and Close: begin, the backend's operation, and   *)
(* the deferred second half of begin.                                      *)

\* Mutant: begin does not count the mutation.
BeginUncounted(p, ns) ==
    /\ At(p, "idle") /\ Unlocked
    /\ generation + 2 <= MaxGeneration
    /\ q' = [q EXCEPT ![p] = [Idle EXCEPT !.pc = "begun", !.names = ns]]
    /\ Invalidate(ns)
    /\ UNCHANGED <<flights, changing, closed, mu, remote, settled>>

Begin(p, ns) ==
    /\ At(p, "idle") /\ Unlocked
    /\ generation + 2 <= MaxGeneration
    /\ q' = [q EXCEPT ![p] = [Idle EXCEPT !.pc = "begun", !.names = ns]]
    /\ changing' = changing + 1
    /\ Invalidate(ns)
    /\ UNCHANGED <<flights, closed, mu, remote, settled>>

\* External: the server carries the operation out (an error reply may follow).
Apply(p) ==
    /\ At(p, "begun")
    /\ \A x \in Affected(q[p].names) : remote[x] < MaxVersion
    /\ remote' = [x \in Path |->
                    IF x \in Affected(q[p].names) THEN remote[x] + 1 ELSE remote[x]]
    /\ q' = [q EXCEPT ![p].pc = "applied"]
    /\ UNCHANGED <<cacheVars, settled>>

\* Mutant: the second invalidation is missing.
EndNoInvalidate(p) ==
    /\ q[p].pc \in {"begun", "applied"} /\ Unlocked
    /\ changing' = changing - 1
    /\ settled' = [x \in Path |->
                     IF x \in Affected(q[p].names) THEN remote[x] ELSE settled[x]]
    /\ q' = [q EXCEPT ![p] = Idle]
    /\ UNCHANGED <<values, bytes, generation, flights, closed, mu, remote>>

End(p) ==
    /\ q[p].pc \in {"begun", "applied"} /\ Unlocked
    /\ changing' = changing - 1
    /\ Invalidate(q[p].names)
    /\ settled' = [x \in Path |->
                     IF x \in Affected(q[p].names) THEN remote[x] ELSE settled[x]]
    /\ q' = [q EXCEPT ![p] = Idle]
    /\ UNCHANGED <<flights, closed, mu, remote>>

Close ==
    /\ Unlocked /\ ~closed
    /\ closed' = TRUE
    /\ generation' = generation + 1
    /\ values' = [k \in {} |-> NoReply] /\ bytes' = 0
    /\ UNCHANGED <<flights, changing, mu, q, remote, settled>>

\* External: another client changes a path, or a request of ours whose reply
\* was lost takes effect late.
OthersChange(x) ==
    /\ remote[x] < MaxVersion
    /\ remote' = [remote EXCEPT ![x] = @ + 1]
    /\ UNCHANGED <<cacheVars, q, settled>>

-----------------------------------------------------------------------------

Step(p) ==
    \/ RejectTraversal(p) \/ CheckContext(p) \/ Closed(p) \/ Hit(p) \/ Join(p) \/ Lead(p)
    \/ BackendReplies(p) \/ SettleUnstored(p) \/ SettleStored(p) \/ SeedChild(p)
    \/ SettlePublish(p) \/ WaitCanceled(p) \/ Wake(p) \/ End(p)

Next ==
    \/ \E p \in Proc :
        \/ Step(p)
        \/ \E k \in Queried : Query(p, k)
        \/ QueryTraversal(p) \/ Cancel(p) \/ Forget(p)
        \/ \E ns \in Mutated : Begin(p, ns)
        \/ Apply(p)
    \/ Close
    \/ \E x \in Shared : OthersChange(x)

Spec == Init /\ [][Next]_vars

\* Goroutines keep running, and c.mu, a sync.Mutex, lets no goroutine wait for
\* ever (its starvation mode): strong fairness. That a backend call returns is an
\* assumption on the network and the server: operationContext's 30 s end an HTTP
\* request, but an FTP or SFTP request that was sent does not look at the context.
\* Callers need not call, cancel or close.
Fairness == \A p \in Proc : SF_vars(Step(p))
FairSpec == Spec /\ Fairness

-----------------------------------------------------------------------------
(* Properties.                                                             *)

\* Every variable holds a value of the kind the Go declarations give it.
TypeOK ==
    /\ DOMAIN values \subseteq Key /\ values \in [DOMAIN values -> Cached]
    /\ flights \subseteq Flight
    /\ generation \in Nat /\ changing \in Nat /\ closed \in BOOLEAN
    /\ mu \in Proc \union {None}
    /\ q \in [Proc -> Call]
    /\ remote \in Version /\ settled \in Version

\* query and invalidate: whatever the cache holds of a path is at least as new
\* as the last local change of that path that has completed; no reply fetched
\* before it, or during it, is left in (or put back into) the table.
CacheFresh ==
    \A k \in DOMAIN values : \A x \in Covers(k) : settled[x] <= values[k].ver[x]

\* Stat and ReadDir: a query, be it a hit, a waiter or a leader, never returns
\* a state of a path older than a local change that had completed when the
\* query began.
ReadYourWrites ==
    \A p \in Proc :
        At(p, "done") /\ q[p].val.kind \in {"found", "missing"}
            => \A x \in Covers(q[p].key) : q[p].since[x] <= q[p].val.ver[x]

\* c.flights: two backend calls for one key and generation never run at once
\* unless they overlap a mutation.
SingleFlight ==
    \A p, r \in Proc :
        (/\ q[p].pc \in {"call", "reply"} /\ q[p].merge
         /\ q[r].pc \in {"call", "reply"} /\ q[r].merge
         /\ q[p].key = q[r].key /\ q[p].gen = q[r].gen)
        => p = r

\* query: no caller returns another caller's context error. Whoever returns one
\* has a done context of its own, or called the backend itself and got it there; a
\* caller that shared the flight of one that was canceled, or whose call timed out,
\* does not ("A leader's cancellation must not cancel a live waiter").
OwnCancellation ==
    [][\A p \in Proc :
          ~At(p, "done") /\ At(p, "done")' /\ q'[p].val.kind = "canceled"
              => q[p].ctx \/ At(p, "reply")]_vars

\* put, drop, invalidate, Close: c.bytes is the sum of the sizes of what is
\* kept, through replacements, drops and clears, and both limits hold.
Accounting ==
    /\ bytes = SumFunction([k \in DOMAIN values |-> values[k].bytes])
    /\ bytes <= MaxBytes
    /\ Cardinality(DOMAIN values) <= MaxEntries

\* Close: replies that arrive after it do not refill the table.
NothingKeptAfterClose == closed => DOMAIN values = {}

\* query: once callers are no longer canceled and calls no longer time out, every
\* query returns; a waiter is woken whatever happened to its leader.
QueryReturns ==
    <>[][\A p \in Proc : ~Cancel(p) /\ (At(p, "call") => q'[p].val.kind # "canceled")]_vars
        => \A p \in Proc : (q[p].pc \in Querying) ~> At(p, "done")

-----------------------------------------------------------------------------
(* The cache implements FreshReads.                                        *)

ReadingOf(p) ==
    IF At(p, "pass") THEN [at |-> "pending", over |-> {}, since |-> Zero]
    ELSE IF q[p].pc \in Querying
    THEN [at |-> "pending", over |-> Covers(q[p].key), since |-> q[p].since]
    ELSE IF At(p, "done") /\ q[p].val.kind \in {"found", "missing"}
    THEN [at |-> "result", over |-> Covers(q[p].key), since |-> q[p].since,
          seen |-> q[p].val.ver]
    ELSE IF At(p, "done") THEN [at |-> "failed"]
    ELSE [at |-> "idle"]

Fresh == INSTANCE FreshReads WITH reading <- [p \in Proc |-> ReadingOf(p)]

\* Seen from outside, the cache, its flights, its waiters and its invalidation
\* behave like uncached reads of a server: FreshReads.
ImplementsFreshReads == Fresh!Spec
====
