---- MODULE MetadataCacheProofs ----
(***************************************************************************)
(* Proofs about MetadataCache, for every set of goroutines, every tree of  *)
(* paths and every limit.                                                  *)
(***************************************************************************)
EXTENDS MetadataCache, FiniteSetTheorems, TLAPS

Mutating == {p \in Proc : q[p].pc \in {"begun", "applied"}}

\* c.changing counts the mutations between begin and its deferred half.
Counted == changing = Cardinality(Mutating)

TypeInv == TypeOK /\ Counted

\* The constants Idle, Zero and the failures are what TypeOK asks of them.
LEMMA ConstantTypes ==
    /\ Zero \in Version /\ NoReply \in Reply /\ Idle \in Call
    /\ \A kind \in Kinds : Failure(kind) \in Reply
BY PathTree, CacheConstants DEF Zero, Version, NoReply, Reply, Idle, Call, Failure, Kinds, Key

\* A version map stays one when it is cut down to some paths.
LEMMA OnlyType ==
    ASSUME NEW ver \in Version, NEW S
    PROVE  Only(ver, S) \in Version
BY DEF Only, Version

\* Init satisfies the type invariant.
LEMMA TypeInit == Init => TypeInv
<1>1. ASSUME Init PROVE TypeOK
  <2>1. DOMAIN values = {} /\ values \in [DOMAIN values -> Cached]
    BY <1>1 DEF Init
  <2>2. q \in [Proc -> Call] /\ remote \in Version /\ settled \in Version
    BY <1>1, ConstantTypes DEF Init
  <2>3. QED
    BY <1>1, <2>1, <2>2 DEF Init, TypeOK
<1>2. ASSUME Init PROVE Counted
  <2>1. Mutating = {}
    BY <1>2 DEF Init, Mutating, Idle
  <2>2. QED
    BY <1>2, <2>1, FS_EmptySet DEF Init, Counted
<1>3. QED
  BY <1>1, <1>2 DEF TypeInv

ValuesOK == DOMAIN values \subseteq Key /\ values \in [DOMAIN values -> Cached]

\* drop: what is left is what was there, less the dropped keys.
LEMMA DropGives ==
    ASSUME ValuesOK, NEW D, Drop(D)
    PROVE  /\ ValuesOK'
           /\ DOMAIN values' = DOMAIN values \ D
           /\ \A k \in DOMAIN values' : values'[k] = values[k]
BY DEF ValuesOK, Drop

\* put: an entry afterwards is the new one or one that was there.
LEMMA PutGives ==
    ASSUME ValuesOK, NEW k \in Key, NEW v \in Cached, Put(k, v)
    PROVE  /\ ValuesOK'
           /\ \A j \in DOMAIN values' :
                \/ j = k /\ values'[j] = v
                \/ j \in DOMAIN values /\ values'[j] = values[j]
<1>1. CASE v.bytes > MaxBytes
  BY <1>1 DEF Put, ValuesOK
<1>2. CASE ~(v.bytes > MaxBytes)
  <2>1. PICK S : /\ S \subseteq DOMAIN values
                 /\ values' = [j \in S \union {k} |-> IF j = k THEN v ELSE values[j]]
    BY <1>2 DEF Put
  <2>2. QED
    BY <2>1 DEF ValuesOK
<1>3. QED
  BY <1>1, <1>2

\* A call that returns is a call.
LEMMA ReturnedType ==
    ASSUME NEW c \in Call, NEW reply \in Reply
    PROVE  /\ Returned(c, reply) \in Call
           /\ Returned(c, reply).pc = "done"
BY ConstantTypes DEF Returned, Call, Idle

\* Actions of a query leave the mutations alone.
LEMMA SameMutators ==
    ASSUME Counted, changing' = changing, NEW p \in Proc,
           q \in [Proc -> Call], q' \in [Proc -> Call],
           \A r \in Proc : q'[r].pc \in {"begun", "applied"} <=> q[r].pc \in {"begun", "applied"}
    PROVE  Counted'
<1>1. Mutating' = Mutating
  BY DEF Mutating
<1>2. QED
  BY <1>1 DEF Counted

\* begin and its second half: the count follows the set.
LEMMA MutatorsFinite ==
    IsFiniteSet(Mutating) /\ Cardinality(Mutating) \in Nat
BY CacheConstants, FS_Subset, FS_CardinalityType DEF Mutating

\* A return changes only the call that returns.
LEMMA ReturnStep ==
    ASSUME NEW p \in Proc, NEW reply \in Reply, q \in [Proc -> Call], Return(p, reply)
    PROVE  /\ q' \in [Proc -> Call] /\ q'[p] = Returned(q[p], reply) /\ q'[p].pc = "done"
           /\ \A r \in Proc \ {p} : q'[r] = q[r]
BY ReturnedType DEF Return

\* The updates of a call that the actions make give calls again.
LEMMA CallUpdates ==
    ASSUME NEW c \in Call
    PROVE  /\ [c EXCEPT !.ctx = TRUE] \in Call
           /\ [c EXCEPT !.pc = "lock"] \in Call
           /\ [c EXCEPT !.pc = "applied"] \in Call
           /\ \A v \in Reply : [c EXCEPT !.pc = "woken", !.val = v] \in Call
           /\ \A v \in Reply : [c EXCEPT !.pc = "reply", !.val = v] \in Call
           /\ \A s \in SUBSET Path : [c EXCEPT !.pc = "seed", !.seeds = s] \in Call
           /\ \A s \in SUBSET Path : [c EXCEPT !.seeds = s] \in Call
           /\ \A l \in Proc, n \in Nat :
                [c EXCEPT !.pc = "wait", !.leader = l, !.gen = n] \in Call
           /\ \A n \in Nat, m \in BOOLEAN :
                [c EXCEPT !.pc = "call", !.gen = n, !.merge = m] \in Call
<1>1. [c EXCEPT !.ctx = TRUE] \in Call
  BY DEF Call
<1>2. [c EXCEPT !.pc = "lock"] \in Call
  BY DEF Call, Querying
<1>3. [c EXCEPT !.pc = "applied"] \in Call
  BY DEF Call
<1>4. ASSUME NEW v \in Reply PROVE [c EXCEPT !.pc = "woken", !.val = v] \in Call
  BY DEF Call, Querying
<1>5. ASSUME NEW v \in Reply PROVE [c EXCEPT !.pc = "reply", !.val = v] \in Call
  BY DEF Call, Querying
<1>6. ASSUME NEW s \in SUBSET Path PROVE [c EXCEPT !.pc = "seed", !.seeds = s] \in Call
  BY DEF Call, Querying
<1>7. ASSUME NEW s \in SUBSET Path PROVE [c EXCEPT !.seeds = s] \in Call
  BY DEF Call, Querying
<1>8. ASSUME NEW l \in Proc, NEW n \in Nat
      PROVE  [c EXCEPT !.pc = "wait", !.leader = l, !.gen = n] \in Call
  BY DEF Call, Querying
<1>9. ASSUME NEW n \in Nat, NEW m \in BOOLEAN
      PROVE  [c EXCEPT !.pc = "call", !.gen = n, !.merge = m] \in Call
  BY DEF Call, Querying
<1>10. QED
  BY <1>1, <1>2, <1>3, <1>4, <1>5, <1>6, <1>7, <1>8, <1>9

\* A step of one goroutine replaces its call and leaves the others'.
LEMMA Becomes ==
    ASSUME NEW p \in Proc, NEW c \in Call, q \in [Proc -> Call], q' = [q EXCEPT ![p] = c]
    PROVE  /\ q' \in [Proc -> Call] /\ q'[p] = c
           /\ \A r \in Proc \ {p} : q'[r] = q[r]
OBVIOUS

\* The leader returns, its waiters wake, nobody else's call changes.
LEMMA PublishType ==
    ASSUME NEW p \in Proc, q \in [Proc -> Call], flights \subseteq Flight, Publish(p),
           q[p].pc \notin {"begun", "applied"}
    PROVE  /\ q' \in [Proc -> Call] /\ flights' \subseteq Flight
           /\ \A r \in Proc : q'[r].pc \in {"begun", "applied"} <=> q[r].pc \in {"begun", "applied"}
<1>1. \A w \in Proc : \/ w = p /\ q'[w] = Returned(q[p], q[p].val)
                      \/ WaitsOn(w, p) /\ q'[w] = [q[w] EXCEPT !.pc = "woken", !.val = q[p].val]
                      \/ q'[w] = q[w]
  BY DEF Publish
<1>2. Returned(q[p], q[p].val) \in Call /\ Returned(q[p], q[p].val).pc = "done"
  BY ReturnedType DEF Call
<1>3. ASSUME NEW w \in Proc PROVE [q[w] EXCEPT !.pc = "woken", !.val = q[p].val] \in Call
  <2>1. q[w] \in Call /\ q[p].val \in Reply
    BY DEF Call
  <2>2. QED
    BY <2>1, CallUpdates
<1>4. \A w \in Proc : q'[w] \in Call
  BY <1>1, <1>2, <1>3
<1>5. q' \in [Proc -> Call]
  BY <1>4 DEF Publish
<1>6. flights' \subseteq Flight
  BY DEF Publish
<1>7. ASSUME NEW r \in Proc
      PROVE  q'[r].pc \in {"begun", "applied"} <=> q[r].pc \in {"begun", "applied"}
  <2>1. CASE r = p /\ q'[r] = Returned(q[p], q[p].val)
    BY <1>2, <2>1
  <2>2. CASE WaitsOn(r, p) /\ q'[r] = [q[r] EXCEPT !.pc = "woken", !.val = q[p].val]
    <3>1. q[r].pc = "wait" /\ q'[r].pc = "woken"
      BY <2>2 DEF WaitsOn, At, Call
    <3>2. QED
      BY <3>1
  <2>3. QED
    BY <1>1, <2>1, <2>2
<1>8. QED
  BY <1>5, <1>6, <1>7

\* Every step of the cache, the backend and the callers keeps the types.
LEMMA TypeStep == TypeInv /\ [Next]_vars => TypeInv'
<1> SUFFICES ASSUME TypeInv, [Next]_vars PROVE TypeInv'
  OBVIOUS
<1> USE DEF cacheVars
<1>t. /\ ValuesOK /\ flights \subseteq Flight
      /\ generation \in Nat /\ changing \in Nat /\ closed \in BOOLEAN
      /\ mu \in Proc \union {None}
      /\ q \in [Proc -> Call] /\ remote \in Version /\ settled \in Version
      /\ Counted
  BY DEF TypeInv, TypeOK, ValuesOK
<1>0. CASE UNCHANGED vars
  <2>1. Mutating' = Mutating
    BY <1>0 DEF vars, Mutating
  <2>2. QED
    BY <1>0, <1>t, <2>1 DEF vars, TypeInv, TypeOK, Counted, ValuesOK
<1>1. ASSUME NEW p \in Proc, NEW k \in Queried, Query(p, k) PROVE TypeInv'
  <2>1. k \in Key /\ Only(settled, Covers(k)) \in Version
    BY <1>t, OnlyType, CacheConstants DEF Key
  <2>2. q' \in [Proc -> Call]
    BY <1>1, <1>t, <2>1, ConstantTypes DEF Query, Idle, Call, Querying
  <2>3. Counted'
    BY <1>1, <1>t, <2>2, SameMutators DEF Query, At, Idle
  <2>4. QED
    BY <1>1, <1>t, <2>2, <2>3 DEF Query, TypeInv, TypeOK, ValuesOK
<1>2. ASSUME NEW p \in Proc, QueryTraversal(p) PROVE TypeInv'
  <2>1. q' \in [Proc -> Call]
    BY <1>2, <1>t, ConstantTypes DEF QueryTraversal, Idle, Call, Querying
  <2>2. Counted'
    BY <1>2, <1>t, <2>1, SameMutators DEF QueryTraversal, At, Idle
  <2>3. QED
    BY <1>2, <1>t, <2>1, <2>2 DEF QueryTraversal, TypeInv, TypeOK, ValuesOK
<1>3. ASSUME NEW p \in Proc, Cancel(p) PROVE TypeInv'
  <2>0. q[p] \in Call /\ [q[p] EXCEPT !.ctx = TRUE] \in Call /\ q[p].pc \in Querying
    BY <1>3, <1>t, CallUpdates DEF Cancel
  <2>1. /\ q' \in [Proc -> Call] /\ q'[p] = [q[p] EXCEPT !.ctx = TRUE]
        /\ \A r \in Proc \ {p} : q'[r] = q[r]
    BY <1>3, <1>t, <2>0, Becomes DEF Cancel
  <2>2. Counted'
    <3>1. q'[p].pc = q[p].pc
      BY <2>0, <2>1 DEF Call
    <3>2. QED
      BY <1>3, <1>t, <2>1, <3>1, SameMutators DEF Cancel
  <2>3. QED
    BY <1>3, <1>t, <2>1, <2>2 DEF Cancel, TypeInv, TypeOK, ValuesOK
<1>4. ASSUME NEW p \in Proc, RejectTraversal(p) PROVE TypeInv'
  <2>1. PICK reply \in Reply : Return(p, reply)
    BY <1>4, <1>t, ConstantTypes DEF RejectTraversal, Kinds
  <2>2. q' \in [Proc -> Call] /\ q'[p].pc = "done" /\ \A r \in Proc \ {p} : q'[r] = q[r]
    BY <2>1, <1>t, ReturnStep
  <2>3. Counted'
    BY <1>4, <1>t, <2>2, SameMutators DEF RejectTraversal, At, Querying
  <2>4. QED
    BY <1>4, <1>t, <2>2, <2>3 DEF RejectTraversal, TypeInv, TypeOK, ValuesOK
<1>5. ASSUME NEW p \in Proc, CheckContext(p) PROVE TypeInv'
  <2>1. CASE q[p].ctx
    <3>1. Return(p, Failure("canceled")) /\ Failure("canceled") \in Reply
      BY <1>5, <2>1, ConstantTypes DEF CheckContext, Kinds
    <3>2. q' \in [Proc -> Call] /\ q'[p].pc = "done" /\ \A r \in Proc \ {p} : q'[r] = q[r]
      BY <3>1, <1>t, ReturnStep
    <3>3. Counted'
      BY <1>5, <1>t, <3>2, SameMutators DEF CheckContext, At
    <3>4. QED
      BY <1>5, <1>t, <3>2, <3>3 DEF CheckContext, TypeInv, TypeOK, ValuesOK
  <2>2. CASE ~q[p].ctx
    <3>0. [q[p] EXCEPT !.pc = "lock"] \in Call
      BY <1>t, CallUpdates
    <3>1. /\ q' \in [Proc -> Call] /\ q'[p] = [q[p] EXCEPT !.pc = "lock"]
          /\ \A r \in Proc \ {p} : q'[r] = q[r]
      BY <1>5, <2>2, <1>t, <3>0, Becomes DEF CheckContext
    <3>2. Counted'
      <4>1. q'[p].pc = "lock" /\ q[p].pc = "top"
        BY <1>5, <1>t, <3>1 DEF CheckContext, At, Call
      <4>2. QED
        BY <1>5, <1>t, <3>1, <4>1, SameMutators DEF CheckContext
    <3>3. QED
      BY <1>5, <1>t, <3>1, <3>2 DEF CheckContext, TypeInv, TypeOK, ValuesOK
  <2>3. QED
    BY <2>1, <2>2
<1>6. ASSUME NEW p \in Proc, Closed(p) PROVE TypeInv'
  <2>1. PICK reply \in Reply : Return(p, reply)
    BY <1>6, <1>t, ConstantTypes DEF Closed, Kinds
  <2>2. q' \in [Proc -> Call] /\ q'[p].pc = "done" /\ \A r \in Proc \ {p} : q'[r] = q[r]
    BY <2>1, <1>t, ReturnStep
  <2>3. Counted'
    BY <1>6, <1>t, <2>2, SameMutators DEF Closed, At, Querying
  <2>4. QED
    BY <1>6, <1>t, <2>2, <2>3 DEF Closed, TypeInv, TypeOK, ValuesOK
<1>7. ASSUME NEW p \in Proc, Hit(p) PROVE TypeInv'
  <2>1. PICK reply \in Reply : Return(p, reply)
    BY <1>7, <1>t, ConstantTypes DEF Hit, ValuesOK, Cached, Reply, Kinds
  <2>2. q' \in [Proc -> Call] /\ q'[p].pc = "done" /\ \A r \in Proc \ {p} : q'[r] = q[r]
    BY <2>1, <1>t, ReturnStep
  <2>3. Counted'
    BY <1>7, <1>t, <2>2, SameMutators DEF Hit, At, Querying
  <2>4. QED
    BY <1>7, <1>t, <2>2, <2>3 DEF Hit, TypeInv, TypeOK, ValuesOK
<1>8. ASSUME NEW p \in Proc, Join(p) PROVE TypeInv'
  <2>v. ValuesOK'
    BY <1>8, <1>t, DropGives DEF Join, Miss, ValuesOK
  <2>0. PICK l \in Proc :
            q' = [q EXCEPT ![p] = [q[p] EXCEPT !.pc = "wait", !.leader = l, !.gen = generation]]
    BY <1>8, <1>t DEF Join, FlightOf, Flight
  <2>q. [q[p] EXCEPT !.pc = "wait", !.leader = l, !.gen = generation] \in Call
    BY <1>t, CallUpdates
  <2>1. /\ q' \in [Proc -> Call]
        /\ q'[p] = [q[p] EXCEPT !.pc = "wait", !.leader = l, !.gen = generation]
        /\ \A r \in Proc \ {p} : q'[r] = q[r]
    BY <1>t, <2>0, <2>q, Becomes
  <2>2. Counted'
    <3>1. q'[p].pc = "wait" /\ q[p].pc = "lock"
      BY <1>8, <1>t, <2>1 DEF Join, At, Call
    <3>2. QED
      BY <1>8, <1>t, <2>1, <3>1, SameMutators DEF Join
  <2>3. QED
    BY <1>8, <1>t, <2>v, <2>1, <2>2 DEF Join, TypeInv, TypeOK, ValuesOK
<1>9. ASSUME NEW p \in Proc, Lead(p) PROVE TypeInv'
  <2>v. ValuesOK'
    BY <1>9, <1>t, DropGives DEF Lead, Miss, ValuesOK
  <2>q. [q[p] EXCEPT !.pc = "call", !.gen = generation, !.merge = (changing = 0)] \in Call
    BY <1>t, CallUpdates
  <2>0. q' = [q EXCEPT ![p] = [q[p] EXCEPT !.pc = "call", !.gen = generation,
                                           !.merge = (changing = 0)]]
    BY <1>9, <1>t DEF Lead
  <2>1. /\ q' \in [Proc -> Call]
        /\ q'[p] = [q[p] EXCEPT !.pc = "call", !.gen = generation, !.merge = (changing = 0)]
        /\ \A r \in Proc \ {p} : q'[r] = q[r]
    BY <1>t, <2>0, <2>q, Becomes
  <2>2. flights' \subseteq Flight
    BY <1>9, <1>t DEF Lead, Flight, Call
  <2>3. Counted'
    <3>1. q'[p].pc = "call" /\ q[p].pc = "lock"
      BY <1>9, <1>t, <2>1 DEF Lead, At, Call
    <3>2. QED
      BY <1>9, <1>t, <2>1, <3>1, SameMutators DEF Lead
  <2>4. QED
    BY <1>9, <1>t, <2>v, <2>1, <2>2, <2>3 DEF Lead, TypeInv, TypeOK, ValuesOK
<1>10. ASSUME NEW p \in Proc, BackendReplies(p) PROVE TypeInv'
  <2>1. PICK v \in Reply : q' = [q EXCEPT ![p].pc = "reply", ![p].val = v]
    BY <1>10, <1>t, OnlyType, ConstantTypes DEF BackendReplies, Reply, Kinds
  <2>q. /\ [q[p] EXCEPT !.pc = "reply", !.val = v] \in Call
        /\ q' = [q EXCEPT ![p] = [q[p] EXCEPT !.pc = "reply", !.val = v]]
    BY <2>1, <1>t, CallUpdates
  <2>2. /\ q' \in [Proc -> Call] /\ q'[p] = [q[p] EXCEPT !.pc = "reply", !.val = v]
        /\ \A r \in Proc \ {p} : q'[r] = q[r]
    BY <2>q, <1>t, Becomes
  <2>3. Counted'
    <3>1. q'[p].pc = "reply" /\ q[p].pc = "call"
      BY <1>10, <1>t, <2>2 DEF BackendReplies, At, Call
    <3>2. QED
      BY <1>10, <1>t, <2>2, <3>1, SameMutators DEF BackendReplies
  <2>4. QED
    BY <1>10, <1>t, <2>2, <2>3 DEF BackendReplies, TypeInv, TypeOK, ValuesOK
<1>11. ASSUME NEW p \in Proc, SettleUnstored(p) PROVE TypeInv'
  <2>1. /\ q' \in [Proc -> Call] /\ flights' \subseteq Flight
        /\ \A r \in Proc : q'[r].pc \in {"begun", "applied"} <=> q[r].pc \in {"begun", "applied"}
    BY <1>11, <1>t, PublishType DEF SettleUnstored, At
  <2>2. Counted'
    BY <1>11, <1>t, <2>1, SameMutators DEF SettleUnstored
  <2>3. QED
    BY <1>11, <1>t, <2>1, <2>2 DEF SettleUnstored, TypeInv, TypeOK, ValuesOK
<1>12. ASSUME NEW p \in Proc, SettleStored(p) PROVE TypeInv'
  <2>1. PICK size \in Sizes : Put(q[p].key, CachedFrom(q[p].val.kind, q[p].val.ver, size))
    BY <1>12 DEF SettleStored
  <2>2. q[p].key \in Key /\ CachedFrom(q[p].val.kind, q[p].val.ver, size) \in Cached
    BY <1>12, <1>t, CacheConstants DEF SettleStored, Storable, CachedFrom, Cached, Call, Reply
  <2>3. ValuesOK'
    BY <1>t, <2>1, <2>2, PutGives
  <2>0. PICK seeds \in SUBSET Path :
            q' = [q EXCEPT ![p] = [q[p] EXCEPT !.pc = "seed", !.seeds = seeds]]
    BY <1>12, <1>t DEF SettleStored, Children
  <2>q. [q[p] EXCEPT !.pc = "seed", !.seeds = seeds] \in Call
    BY <1>t, CallUpdates
  <2>4. /\ q' \in [Proc -> Call] /\ q'[p] = [q[p] EXCEPT !.pc = "seed", !.seeds = seeds]
        /\ \A r \in Proc \ {p} : q'[r] = q[r]
    BY <2>0, <2>q, <1>t, Becomes
  <2>5. Counted'
    <3>1. q'[p].pc = "seed" /\ q[p].pc = "reply"
      BY <1>12, <1>t, <2>4 DEF SettleStored, At, Call
    <3>2. QED
      BY <1>12, <1>t, <2>4, <3>1, SameMutators DEF SettleStored
  <2>6. QED
    BY <1>12, <1>t, <2>3, <2>4, <2>5 DEF SettleStored, TypeInv, TypeOK, ValuesOK
<1>13. ASSUME NEW p \in Proc, SeedChild(p) PROVE TypeInv'
  <2>1. PICK x \in q[p].seeds, size \in Sizes :
            /\ Put([name |-> x, directory |-> FALSE],
                   CachedFrom("found", Only(q[p].val.ver, {x}), size))
            /\ q' = [q EXCEPT ![p].seeds = @ \ {x}]
    BY <1>13 DEF SeedChild
  <2>2. /\ [name |-> x, directory |-> FALSE] \in Key
        /\ CachedFrom("found", Only(q[p].val.ver, {x}), size) \in Cached
    BY <1>t, OnlyType, CacheConstants DEF CachedFrom, Cached, Call, Reply, Key
  <2>3. ValuesOK'
    BY <1>t, <2>1, <2>2, PutGives
  <2>q. /\ [q[p] EXCEPT !.seeds = q[p].seeds \ {x}] \in Call
        /\ q' = [q EXCEPT ![p] = [q[p] EXCEPT !.seeds = q[p].seeds \ {x}]]
    <3>1. q[p] \in Call /\ q[p].seeds \ {x} \in SUBSET Path
      BY <1>t DEF Call
    <3>2. QED
      BY <1>t, <2>1, <3>1, CallUpdates
  <2>4. /\ q' \in [Proc -> Call] /\ q'[p] = [q[p] EXCEPT !.seeds = q[p].seeds \ {x}]
        /\ \A r \in Proc \ {p} : q'[r] = q[r]
    BY <1>t, <2>q, Becomes
  <2>5. Counted'
    <3>1. q'[p].pc = q[p].pc
      BY <1>t, <2>4 DEF Call
    <3>2. QED
      BY <1>13, <1>t, <2>4, <3>1, SameMutators DEF SeedChild
  <2>6. QED
    BY <1>13, <1>t, <2>3, <2>4, <2>5 DEF SeedChild, TypeInv, TypeOK, ValuesOK
<1>14. ASSUME NEW p \in Proc, SettlePublish(p) PROVE TypeInv'
  <2>1. /\ q' \in [Proc -> Call] /\ flights' \subseteq Flight
        /\ \A r \in Proc : q'[r].pc \in {"begun", "applied"} <=> q[r].pc \in {"begun", "applied"}
    BY <1>14, <1>t, PublishType DEF SettlePublish, At
  <2>2. Counted'
    BY <1>14, <1>t, <2>1, SameMutators DEF SettlePublish
  <2>3. QED
    BY <1>14, <1>t, <2>1, <2>2 DEF SettlePublish, TypeInv, TypeOK, ValuesOK
<1>15. ASSUME NEW p \in Proc, WaitCanceled(p) PROVE TypeInv'
  <2>1. PICK reply \in Reply : Return(p, reply)
    BY <1>15, <1>t, ConstantTypes DEF WaitCanceled, Kinds
  <2>2. q' \in [Proc -> Call] /\ q'[p].pc = "done" /\ \A r \in Proc \ {p} : q'[r] = q[r]
    BY <2>1, <1>t, ReturnStep
  <2>3. Counted'
    BY <1>15, <1>t, <2>2, SameMutators DEF WaitCanceled, At, Querying
  <2>4. QED
    BY <1>15, <1>t, <2>2, <2>3 DEF WaitCanceled, TypeInv, TypeOK, ValuesOK
<1>16. ASSUME NEW p \in Proc, Wake(p) PROVE TypeInv'
  <2>1. CASE Return(p, q[p].val)
    <3>1. q' \in [Proc -> Call] /\ q'[p].pc = "done" /\ \A r \in Proc \ {p} : q'[r] = q[r]
      BY <2>1, <1>t, ReturnStep DEF Call
    <3>2. Counted'
      BY <1>16, <1>t, <3>1, SameMutators DEF Wake, At
    <3>3. QED
      BY <1>16, <1>t, <3>1, <3>2 DEF Wake, TypeInv, TypeOK, ValuesOK
  <2>2. CASE q' = [q EXCEPT ![p] = [Idle EXCEPT !.pc = "top", !.key = q[p].key,
                                                !.ctx = q[p].ctx, !.since = q[p].since]]
    <3>1. q' \in [Proc -> Call]
      BY <2>2, <1>t, ConstantTypes DEF Call, Querying, Idle
    <3>2. Counted'
      BY <1>16, <2>2, <1>t, <3>1, SameMutators DEF Wake, At, Idle
    <3>3. QED
      BY <1>16, <1>t, <3>1, <3>2 DEF Wake, TypeInv, TypeOK, ValuesOK
  <2>3. QED
    BY <1>16, <2>1, <2>2 DEF Wake
<1>17. ASSUME NEW p \in Proc, Forget(p) PROVE TypeInv'
  <2>1. q' \in [Proc -> Call]
    BY <1>17, <1>t, ConstantTypes DEF Forget, Call
  <2>2. Counted'
    BY <1>17, <1>t, <2>1, SameMutators DEF Forget, At, Idle
  <2>3. QED
    BY <1>17, <1>t, <2>1, <2>2 DEF Forget, TypeInv, TypeOK, ValuesOK
<1>18. ASSUME NEW p \in Proc, NEW ns \in Mutated, Begin(p, ns) PROVE TypeInv'
  <2>0. PICK D : Drop(D)
    BY <1>18 DEF Begin, Invalidate
  <2>1. ValuesOK' /\ generation' \in Nat
    <3>1. ValuesOK'
      BY <1>t, <2>0, DropGives
    <3>2. generation' \in Nat
      BY <1>18, <1>t DEF Begin, Invalidate
    <3>3. QED
      BY <3>1, <3>2
  <2>2. q' \in [Proc -> Call]
    BY <1>18, <1>t, ConstantTypes, CacheConstants DEF Begin, Call, Idle
  <2>3. p \notin Mutating /\ Mutating' = Mutating \union {p}
    BY <1>18, <1>t, <2>2 DEF Begin, Mutating, At, Idle
  <2>4. changing' \in Nat /\ Counted'
    <3>1. Cardinality(Mutating') = Cardinality(Mutating) + 1
      BY <2>3, MutatorsFinite, FS_AddElement
    <3>2. QED
      BY <1>18, <1>t, <3>1 DEF Begin, Counted
  <2>5. QED
    BY <1>18, <1>t, <2>1, <2>2, <2>4 DEF Begin, TypeInv, TypeOK, ValuesOK
<1>19. ASSUME NEW p \in Proc, Apply(p) PROVE TypeInv'
  <2>1. /\ q' \in [Proc -> Call] /\ remote' \in Version
        /\ q'[p] = [q[p] EXCEPT !.pc = "applied"]
        /\ \A r \in Proc \ {p} : q'[r] = q[r]
    <3>1. [q[p] EXCEPT !.pc = "applied"] \in Call
      BY <1>t, CallUpdates
    <3>2. q' = [q EXCEPT ![p] = [q[p] EXCEPT !.pc = "applied"]]
      BY <1>19, <1>t DEF Apply
    <3>3. remote' \in Version
      BY <1>19, <1>t DEF Apply, Version
    <3>4. QED
      BY <1>t, <3>1, <3>2, <3>3, Becomes
  <2>2. Counted'
    <3>1. q'[p].pc = "applied" /\ q[p].pc = "begun"
      BY <1>19, <1>t, <2>1 DEF Apply, At, Call
    <3>2. QED
      BY <1>19, <1>t, <2>1, <3>1, SameMutators DEF Apply
  <2>3. QED
    BY <1>19, <1>t, <2>1, <2>2 DEF Apply, TypeInv, TypeOK, ValuesOK
<1>20. ASSUME NEW p \in Proc, End(p) PROVE TypeInv'
  <2>0. PICK D : Drop(D)
    BY <1>20 DEF End, Invalidate
  <2>1. ValuesOK' /\ generation' \in Nat
    <3>1. ValuesOK'
      BY <1>t, <2>0, DropGives
    <3>2. generation' \in Nat
      BY <1>20, <1>t DEF End, Invalidate
    <3>3. QED
      BY <3>1, <3>2
  <2>2. q' \in [Proc -> Call] /\ settled' \in Version
    BY <1>20, <1>t, ConstantTypes DEF End, Version
  <2>3. p \in Mutating /\ Mutating' = Mutating \ {p}
    BY <1>20, <1>t, <2>2 DEF End, Mutating, Idle
  <2>4. Cardinality(Mutating') = Cardinality(Mutating) - 1 /\ Cardinality(Mutating') \in Nat
    BY <2>3, MutatorsFinite, FS_RemoveElement, FS_CardinalityType
  <2>5. changing' \in Nat /\ Counted'
    BY <1>20, <1>t, <2>4 DEF End, Counted
  <2>6. QED
    BY <1>20, <1>t, <2>1, <2>2, <2>5 DEF End, TypeInv, TypeOK, ValuesOK
<1>21. ASSUME Close PROVE TypeInv'
  <2>1. ValuesOK'
    BY <1>21, <1>t DEF Close, ValuesOK
  <2>2. Mutating' = Mutating
    BY <1>21 DEF Close, Mutating
  <2>3. QED
    BY <1>21, <1>t, <2>1, <2>2 DEF Close, TypeInv, TypeOK, ValuesOK, Counted
<1>22. ASSUME NEW x \in Shared, OthersChange(x) PROVE TypeInv'
  <2>1. remote' \in Version
    BY <1>22, <1>t, CacheConstants DEF OthersChange, Version
  <2>2. Mutating' = Mutating
    BY <1>22 DEF OthersChange, Mutating
  <2>3. QED
    BY <1>22, <1>t, <2>1, <2>2 DEF OthersChange, TypeInv, TypeOK, ValuesOK, Counted
<1>23. QED
  BY <1>0, <1>1, <1>2, <1>3, <1>4, <1>5, <1>6, <1>7, <1>8, <1>9, <1>10, <1>11, <1>12, <1>13, <1>14, <1>15, <1>16, <1>17, <1>18, <1>19, <1>20, <1>21, <1>22 DEF Next, Step

\* Every reachable state of the cache, the calls in progress and the backend
\* has the types of the Go declarations (metadata_cache.go:18-53), for any
\* number of goroutines and paths and any limits.
THEOREM TypeCorrect == Spec => []TypeOK
<1>1. Init => TypeInv
  BY TypeInit
<1>2. TypeInv /\ [Next]_vars => TypeInv'
  BY TypeStep
<1>3. TypeInv => TypeOK
  BY DEF TypeInv
<1>4. QED
  BY <1>1, <1>2, <1>3, PTL DEF Spec

-----------------------------------------------------------------------------
(* The cache never serves, and never keeps, a state older than a completed *)
(* local change: the inductive invariant FreshInv, and what follows from   *)
(* it. The generation fence is at its heart: a reply that carries the      *)
(* current generation was fetched after the last End.                      *)

Positive == {"found", "missing"}

\* What is known of a call c of goroutine p:
\*  - its generation is not from the future;
\*  - the changes it must see have completed;
\*  - a reply of the current generation is newer than every completed change;
\*  - a leader's reply, and a result, is newer than the changes it must see;
\*  - a goroutine that seeds holds the mutex, in the generation of its reply.
FreshCall(p, c) ==
    /\ c.gen <= generation
    /\ \A x \in Covers(c.key) : c.since[x] <= settled[x]
    /\ c.pc \in {"reply", "seed", "woken"} /\ c.val.kind \in Positive /\ c.gen = generation
        => \A x \in Covers(c.key) : settled[x] <= c.val.ver[x]
    /\ c.pc \in {"reply", "seed", "done"} /\ c.val.kind \in Positive
        => \A x \in Covers(c.key) : c.since[x] <= c.val.ver[x]
    /\ c.pc = "seed"
        => /\ mu = p /\ c.gen = generation /\ ~closed
           /\ c.val.kind \in Positive /\ c.seeds \subseteq Covers(c.key)

SettledReached == \A x \in Path : settled[x] <= remote[x]

FreshInv ==
    /\ TypeInv
    /\ SettledReached
    /\ \A p \in Proc : FreshCall(p, q[p])
    /\ CacheFresh
    /\ NothingKeptAfterClose

\* invalidate drops every key that reports a path the operation may change.
LEMMA InvalidationCovers ==
    ASSUME NEW k \in Key, NEW ns \in SUBSET (Path \union {Traversal}),
           NEW x \in Covers(k), x \in Affected(ns)
    PROVE  \E n \in ns : Matches(k, n)
<1>1. PICK n \in ns \ {Traversal} : x = n \/ <<x, n>> \in Under
  BY DEF Affected
<1>2. n \in Path /\ k.name \in Path /\ x \in Path
  BY <1>1 DEF Affected, Key
<1>3. CASE x = k.name
  BY <1>1, <1>3 DEF Matches
<1>4. CASE k.directory /\ x \in Children(k.name)
  <2>1. DirOf[x] = k.name
    BY <1>4 DEF Children
  <2>2. CASE x = n
    BY <1>4, <2>1, <2>2 DEF Matches
  <2>3. CASE <<x, n>> \in Under
    <3>1. k.name = n \/ <<k.name, n>> \in Under
      BY <1>2, <2>1, <2>3, PathTree
    <3>2. QED
      BY <3>1 DEF Matches
  <2>4. QED
    BY <1>1, <2>2, <2>3
<1>5. QED
  BY <1>3, <1>4 DEF Covers

\* The paths a key reports are paths.
LEMMA CoversPaths ==
    ASSUME NEW k \in Key
    PROVE  Covers(k) \subseteq Path
BY DEF Covers, Children, Key

\* A call that a step does not touch stays fresh in the same generation.
LEMMA SameGeneration ==
    ASSUME NEW p \in Proc, FreshCall(p, q[p]), q'[p] = q[p],
           settled' = settled, generation' = generation, closed' = closed,
           mu' = mu \/ q[p].pc # "seed"
    PROVE  FreshCall(p, q[p])'
BY DEF FreshCall

\* A call that a step does not touch stays fresh when a generation begins.
LEMMA NewGeneration ==
    ASSUME NEW p \in Proc, TypeInv, TypeInv', FreshCall(p, q[p]), q'[p] = q[p],
           q[p].pc # "seed", generation' = generation + 1,
           \A x \in Path : settled[x] <= settled'[x]
    PROVE  FreshCall(p, q[p])'
<1>1. /\ q[p].gen \in Nat /\ generation \in Nat /\ q[p].key \in Key
      /\ q[p].since \in Version /\ settled \in Version /\ settled' \in Version
  BY DEF TypeInv, TypeOK, Call
<1>2. q[p].gen <= generation'
  BY <1>1 DEF FreshCall
<1>3. q[p].gen # generation'
  BY <1>1 DEF FreshCall
<1>4. \A x \in Covers(q[p].key) : q[p].since[x] <= settled'[x]
  BY <1>1, CoversPaths DEF FreshCall, Version
<1>5. QED
  BY <1>2, <1>3, <1>4 DEF FreshCall

\* An idle call is fresh.
LEMMA IdleFresh ==
    ASSUME NEW p \in Proc, generation \in Nat, settled \in Version
    PROVE  FreshCall(p, Idle)
BY CoversPaths, ConstantTypes DEF FreshCall, Idle, Zero, Version, Call

\* A call that returns an error, or a reply no older than the changes it must
\* see, is fresh.
LEMMA ReturnedFresh ==
    ASSUME NEW p \in Proc, NEW c \in Call, NEW reply \in Reply,
           generation \in Nat, settled \in Version, FreshCall(p, c),
           reply.kind \in Positive => \A x \in Covers(c.key) : c.since[x] <= reply.ver[x]
    PROVE  FreshCall(p, Returned(c, reply))
<1>1. /\ Returned(c, reply).pc = "done" /\ Returned(c, reply).gen = 0
      /\ Returned(c, reply).key = c.key /\ Returned(c, reply).val = reply
      /\ Returned(c, reply).since = c.since
  BY DEF Returned, Idle
<1>2. QED
  BY <1>1 DEF FreshCall

\* Initially the table is empty and nobody calls.
LEMMA FreshInit == Init => FreshInv
<1> SUFFICES ASSUME Init PROVE FreshInv
  OBVIOUS
<1>1. TypeInv
  BY TypeInit
<1>2. generation \in Nat /\ settled \in Version
  BY <1>1 DEF TypeInv, TypeOK
<1>3. \A p \in Proc : FreshCall(p, q[p])
  BY <1>2, IdleFresh DEF Init
<1>4. SettledReached
  BY DEF Init, SettledReached, Zero
<1>5. CacheFresh /\ NothingKeptAfterClose
  BY DEF Init, CacheFresh, NothingKeptAfterClose
<1>6. QED
  BY <1>1, <1>3, <1>4, <1>5 DEF FreshInv

\* A step of one goroutine p that leaves the server's history, the generation
\* and the mutex alone keeps the other calls fresh.
LEMMA OthersFresh ==
    ASSUME NEW p \in Proc, \A r \in Proc : FreshCall(r, q[r]),
           UNCHANGED <<settled, generation, closed, mu>>,
           \A r \in Proc \ {p} : q'[r] = q[r], FreshCall(p, q[p])'
    PROVE  \A r \in Proc : FreshCall(r, q[r])'
BY SameGeneration

\* A return that leaves the cache alone keeps every call fresh.
LEMMA ReturnKeepsFresh ==
    ASSUME FreshInv, TypeInv', NEW p \in Proc, NEW reply \in Reply, Return(p, reply),
           UNCHANGED <<cacheVars, remote, settled>>,
           reply.kind \in Positive => \A x \in Covers(q[p].key) : q[p].since[x] <= reply.ver[x]
    PROVE  FreshInv'
<1>1. q \in [Proc -> Call] /\ generation \in Nat /\ settled \in Version
  BY DEF FreshInv, TypeInv, TypeOK
<1>2. q'[p] = Returned(q[p], reply) /\ \A r \in Proc \ {p} : q'[r] = q[r]
  BY <1>1, ReturnStep
<1>3. FreshCall(p, Returned(q[p], reply))
  BY <1>1, ReturnedFresh DEF FreshInv
<1>4. FreshCall(p, q[p])'
  BY <1>2, <1>3 DEF FreshCall, cacheVars
<1>5. \A r \in Proc : FreshCall(r, q[r])'
  BY <1>2, <1>4, OthersFresh DEF FreshInv, cacheVars
<1>6. (SettledReached /\ CacheFresh /\ NothingKeptAfterClose)'
  BY DEF FreshInv, SettledReached, CacheFresh, NothingKeptAfterClose, cacheVars
<1>7. QED
  BY <1>5, <1>6 DEF FreshInv

\* A step that replaces one call and leaves everything else alone.
LEMMA CallKeepsFresh ==
    ASSUME FreshInv, TypeInv', NEW p \in Proc, NEW c \in Call,
           q' = [q EXCEPT ![p] = c], FreshCall(p, c),
           UNCHANGED <<cacheVars, remote, settled>>
    PROVE  FreshInv'
<1>1. q \in [Proc -> Call]
  BY DEF FreshInv, TypeInv, TypeOK
<1>2. q'[p] = c /\ \A r \in Proc \ {p} : q'[r] = q[r]
  BY <1>1, Becomes
<1>4. FreshCall(p, q[p])'
  BY <1>2 DEF FreshCall, cacheVars
<1>5. \A r \in Proc : FreshCall(r, q[r])'
  BY <1>2, <1>4, OthersFresh DEF FreshInv, cacheVars
<1>6. (SettledReached /\ CacheFresh /\ NothingKeptAfterClose)'
  BY DEF FreshInv, SettledReached, CacheFresh, NothingKeptAfterClose, cacheVars
<1>7. QED
  BY <1>5, <1>6 DEF FreshInv

\* Dropping entries keeps the rest fresh.
LEMMA DropKeepsFresh ==
    ASSUME ValuesOK, CacheFresh, NothingKeptAfterClose, NEW D, Drop(D),
           UNCHANGED <<settled, closed>>
    PROVE  (CacheFresh /\ NothingKeptAfterClose)'
BY DropGives DEF CacheFresh, NothingKeptAfterClose

\* Keeping a new entry that is fresh keeps the table fresh.
LEMMA PutKeepsFresh ==
    ASSUME ValuesOK, CacheFresh, ~closed, NEW k \in Key, NEW v \in Cached, Put(k, v),
           UNCHANGED <<settled, closed>>, \A x \in Covers(k) : settled[x] <= v.ver[x]
    PROVE  (CacheFresh /\ NothingKeptAfterClose)'
BY PutGives DEF CacheFresh, NothingKeptAfterClose

\* The leader's result is no older than the changes it must see, and its waiters
\* of the current generation get a reply newer than every completed change.
LEMMA PublishKeepsFresh ==
    ASSUME FreshInv, NEW p \in Proc, q[p].pc \in {"reply", "seed"}, Publish(p),
           UNCHANGED <<settled, generation, closed>>, mu' = mu \/ (mu' = None /\ mu = p)
    PROVE  \A r \in Proc : FreshCall(r, q[r])'
<1>0. /\ q \in [Proc -> Call] /\ generation \in Nat /\ settled \in Version
      /\ \A r \in Proc : FreshCall(r, q[r])
  BY DEF FreshInv, TypeInv, TypeOK
<1>1. FreshCall(p, q[p])'
  <2>1. q'[p] = Returned(q[p], q[p].val) /\ q[p].val \in Reply
    BY <1>0 DEF Publish, Call
  <2>2. q[p].val.kind \in Positive => \A x \in Covers(q[p].key) : q[p].since[x] <= q[p].val.ver[x]
    BY <1>0 DEF FreshCall
  <2>3. FreshCall(p, Returned(q[p], q[p].val)) /\ Returned(q[p], q[p].val).pc = "done"
    BY <1>0, <2>1, <2>2, ReturnedFresh, ReturnedType
  <2>4. QED
    BY <2>1, <2>3 DEF FreshCall
<1>2. ASSUME NEW w \in Proc \ {p} PROVE FreshCall(w, q[w])'
  <2>1. CASE q'[w] = q[w]
    <3>1. mu' = mu \/ q[w].pc # "seed"
      BY <1>0 DEF FreshCall
    <3>2. QED
      BY <1>0, <2>1, <3>1, SameGeneration
  <2>2. CASE WaitsOn(w, p) /\ q'[w] = [q[w] EXCEPT !.pc = "woken", !.val = q[p].val]
    <3>1. /\ q'[w].pc = "woken" /\ q'[w].val = q[p].val /\ q'[w].gen = q[w].gen
          /\ q'[w].key = q[w].key /\ q'[w].since = q[w].since
      BY <1>0, <2>2 DEF Call
    <3>2. q[w].key = q[p].key /\ q[w].gen = q[p].gen
      BY <2>2 DEF WaitsOn
    <3>3. q[p].val.kind \in Positive /\ q[p].gen = generation
            => \A x \in Covers(q[p].key) : settled[x] <= q[p].val.ver[x]
      BY <1>0 DEF FreshCall
    <3>4. FreshCall(w, q[w])
      BY <1>0
    <3>5. QED
      BY <3>1, <3>2, <3>3, <3>4 DEF FreshCall
  <2>3. QED
    BY <2>1, <2>2 DEF Publish
<1>3. QED
  BY <1>1, <1>2

\* Every step keeps the cache fresh. Only End moves settled, and only Begin, End
\* and Close move the generation, always with the mutex free.
LEMMA FreshStep == FreshInv /\ [Next]_vars => FreshInv'
<1> SUFFICES ASSUME FreshInv, [Next]_vars PROVE FreshInv'
  OBVIOUS
<1>t. /\ TypeInv' /\ ValuesOK /\ flights \subseteq Flight
      /\ generation \in Nat /\ q \in [Proc -> Call]
      /\ remote \in Version /\ settled \in Version
  BY TypeStep DEF FreshInv, TypeInv, TypeOK, ValuesOK
<1>u. \A p \in Proc : FreshCall(p, q[p]) /\ q[p] \in Call /\ q[p].key \in Key
  BY <1>t DEF FreshInv, Call
<1>c. CacheFresh /\ NothingKeptAfterClose /\ SettledReached
  BY DEF FreshInv
<1>0. CASE UNCHANGED vars
  BY <1>0, <1>t, <1>u, <1>c, SameGeneration
  DEF vars, cacheVars, FreshInv, CacheFresh, NothingKeptAfterClose, SettledReached, FreshCall
<1>1. ASSUME NEW p \in Proc, NEW k \in Queried, Query(p, k) PROVE FreshInv'
  <2> DEFINE c == [Idle EXCEPT !.pc = "top", !.key = k, !.since = Only(settled, Covers(k))]
  <2>1. k \in Key /\ Only(settled, Covers(k)) \in Version
    BY <1>t, OnlyType, CacheConstants DEF Key
  <2>2. c \in Call
    BY <2>1, ConstantTypes DEF Call, Idle, Querying
  <2>3. \A x \in Covers(k) : Only(settled, Covers(k))[x] <= settled[x]
    BY <1>t, <2>1, CoversPaths DEF Only, Version
  <2>4. FreshCall(p, c)
    BY <1>t, <2>3 DEF FreshCall, Idle
  <2>5. QED
    BY <1>1, <1>t, <2>2, <2>4, CallKeepsFresh DEF Query
<1>2. ASSUME NEW p \in Proc, QueryTraversal(p) PROVE FreshInv'
  <2> DEFINE c == [Idle EXCEPT !.pc = "pass"]
  <2>1. c \in Call
    BY ConstantTypes DEF Call, Idle, Querying
  <2>2. FreshCall(p, Idle)
    BY <1>t, IdleFresh
  <2>3. FreshCall(p, c)
    BY <2>2 DEF FreshCall, Idle
  <2>4. QED
    BY <1>2, <1>t, <2>1, <2>3, CallKeepsFresh DEF QueryTraversal
<1>3. ASSUME NEW p \in Proc, Cancel(p) PROVE FreshInv'
  <2> DEFINE c == [q[p] EXCEPT !.ctx = TRUE]
  <2>1. c \in Call /\ q' = [q EXCEPT ![p] = c]
    BY <1>3, <1>t, CallUpdates DEF Cancel
  <2>2. /\ c.pc = q[p].pc /\ c.val = q[p].val /\ c.gen = q[p].gen /\ c.key = q[p].key
        /\ c.since = q[p].since /\ c.seeds = q[p].seeds
    BY <1>u DEF Call
  <2>3. FreshCall(p, c)
    BY <1>u, <2>2 DEF FreshCall
  <2>4. QED
    BY <1>3, <1>t, <2>1, <2>3, CallKeepsFresh DEF Cancel
<1>4. ASSUME NEW p \in Proc, RejectTraversal(p) PROVE FreshInv'
  <2>1. Failure("error") \in Reply /\ Failure("error").kind \notin Positive
    BY ConstantTypes DEF Kinds, Failure, Positive
  <2>2. QED
    BY <1>4, <1>t, <2>1, ReturnKeepsFresh DEF RejectTraversal
<1>5. ASSUME NEW p \in Proc, CheckContext(p) PROVE FreshInv'
  <2>1. CASE q[p].ctx
    <3>1. Failure("canceled") \in Reply /\ Failure("canceled").kind \notin Positive
      BY ConstantTypes DEF Kinds, Failure, Positive
    <3>2. QED
      BY <1>5, <1>t, <2>1, <3>1, ReturnKeepsFresh DEF CheckContext
  <2>2. CASE ~q[p].ctx
    <3> DEFINE c == [q[p] EXCEPT !.pc = "lock"]
    <3>1. c \in Call /\ q' = [q EXCEPT ![p] = c]
      BY <1>5, <1>t, <2>2, CallUpdates DEF CheckContext
    <3>2. c.pc = "lock" /\ c.gen = q[p].gen /\ c.key = q[p].key /\ c.since = q[p].since
      BY <1>u DEF Call
    <3>3. FreshCall(p, c)
      BY <1>u, <3>2 DEF FreshCall
    <3>4. QED
      BY <1>5, <1>t, <3>1, <3>3, CallKeepsFresh DEF CheckContext
  <2>3. QED
    BY <2>1, <2>2
<1>6. ASSUME NEW p \in Proc, Closed(p) PROVE FreshInv'
  <2>1. Failure("closed") \in Reply /\ Failure("closed").kind \notin Positive
    BY ConstantTypes DEF Kinds, Failure, Positive
  <2>2. QED
    BY <1>6, <1>t, <2>1, ReturnKeepsFresh DEF Closed
<1>7. ASSUME NEW p \in Proc, Hit(p) PROVE FreshInv'
  <2> DEFINE k == q[p].key
             reply == [kind |-> values[k].kind, ver |-> values[k].ver]
  <2>1. k \in DOMAIN values /\ values[k] \in Cached /\ k \in Key
    BY <1>7, <1>t, <1>u DEF Hit, ValuesOK
  <2>2. reply \in Reply
    BY <2>1 DEF Cached, Reply, Kinds
  <2>3. \A x \in Covers(k) : q[p].since[x] <= settled[x] /\ settled[x] <= reply.ver[x]
    BY <1>u, <1>c, <2>1 DEF CacheFresh, FreshCall
  <2>4. /\ Covers(k) \subseteq Path /\ q[p].since \in Version /\ reply.ver \in Version
    BY <1>u, <2>1, <2>2, CoversPaths DEF Call, Reply
  <2>5. \A x \in Covers(k) : q[p].since[x] <= reply.ver[x]
    BY <1>t, <2>3, <2>4 DEF Version
  <2>6. QED
    BY <1>7, <1>t, <2>2, <2>5, ReturnKeepsFresh DEF Hit
<1>8. ASSUME NEW p \in Proc, Join(p) PROVE FreshInv'
  <2>0. PICK l \in Proc :
            q' = [q EXCEPT ![p] = [q[p] EXCEPT !.pc = "wait", !.leader = l, !.gen = generation]]
    BY <1>8, <1>t DEF Join, FlightOf, Flight
  <2> DEFINE c == [q[p] EXCEPT !.pc = "wait", !.leader = l, !.gen = generation]
  <2>1. c \in Call
    BY <1>t, CallUpdates
  <2>2. q'[p] = c /\ \A r \in Proc \ {p} : q'[r] = q[r]
    BY <1>t, <2>0, <2>1, Becomes
  <2>3. c.pc = "wait" /\ c.gen = generation /\ c.key = q[p].key /\ c.since = q[p].since
    BY <1>u DEF Call
  <2>4. UNCHANGED <<generation, closed, mu, remote, settled>>
    BY <1>8 DEF Join
  <2>5. FreshCall(p, q[p])'
    BY <1>t, <1>u, <2>2, <2>3, <2>4 DEF FreshCall
  <2>6. \A r \in Proc : FreshCall(r, q[r])'
    BY <1>u, <2>2, <2>4, <2>5, OthersFresh
  <2>7. (CacheFresh /\ NothingKeptAfterClose)'
    BY <1>8, <1>t, <1>c, <2>4, DropKeepsFresh DEF Join, Miss
  <2>8. SettledReached'
    BY <1>c, <2>4 DEF SettledReached
  <2>9. QED
    BY <1>t, <2>6, <2>7, <2>8 DEF FreshInv
<1>9. ASSUME NEW p \in Proc, Lead(p) PROVE FreshInv'
  <2> DEFINE c == [q[p] EXCEPT !.pc = "call", !.gen = generation, !.merge = (changing = 0)]
  <2>1. c \in Call /\ q' = [q EXCEPT ![p] = c]
    BY <1>9, <1>t, CallUpdates DEF Lead
  <2>2. q'[p] = c /\ \A r \in Proc \ {p} : q'[r] = q[r]
    BY <1>t, <2>1, Becomes
  <2>3. c.pc = "call" /\ c.gen = generation /\ c.key = q[p].key /\ c.since = q[p].since
    BY <1>u DEF Call
  <2>4. UNCHANGED <<generation, closed, mu, remote, settled>>
    BY <1>9 DEF Lead
  <2>5. FreshCall(p, q[p])'
    BY <1>t, <1>u, <2>2, <2>3, <2>4 DEF FreshCall
  <2>6. \A r \in Proc : FreshCall(r, q[r])'
    BY <1>u, <2>2, <2>4, <2>5, OthersFresh
  <2>7. (CacheFresh /\ NothingKeptAfterClose)'
    <3>1. CASE changing = 0
      BY <1>9, <1>t, <1>c, <2>4, <3>1, DropKeepsFresh DEF Lead, Miss
    <3>2. CASE changing # 0
      BY <1>9, <1>c, <2>4, <3>2 DEF Lead, Miss, CacheFresh, NothingKeptAfterClose
    <3>3. QED
      BY <3>1, <3>2
  <2>8. SettledReached'
    BY <1>c, <2>4 DEF SettledReached
  <2>9. QED
    BY <1>t, <2>6, <2>7, <2>8 DEF FreshInv
<1>10. ASSUME NEW p \in Proc, BackendReplies(p) PROVE FreshInv'
  <2>1. PICK v \in Reply :
            /\ q' = [q EXCEPT ![p] = [q[p] EXCEPT !.pc = "reply", !.val = v]]
            /\ v.kind \in Positive => v.ver = Only(remote, Covers(q[p].key))
    <3>1. \A kind \in {"error", "canceled"} :
            Failure(kind) \in Reply /\ Failure(kind).kind \notin Positive
      BY ConstantTypes DEF Kinds, Failure, Positive
    <3>2. \A kind \in Positive :
            [kind |-> kind, ver |-> Only(remote, Covers(q[p].key))] \in Reply
      BY <1>t, OnlyType DEF Reply, Kinds, Positive
    <3>3. \A w : [q EXCEPT ![p].pc = "reply", ![p].val = w]
                  = [q EXCEPT ![p] = [q[p] EXCEPT !.pc = "reply", !.val = w]]
      BY <1>t
    <3>4. CASE \E kind \in Positive :
                 q' = [q EXCEPT ![p].pc = "reply",
                                ![p].val = [kind |-> kind, ver |-> Only(remote, Covers(q[p].key))]]
      BY <3>2, <3>3, <3>4
    <3>5. CASE \E kind \in {"error", "canceled"} :
                 q' = [q EXCEPT ![p].pc = "reply", ![p].val = Failure(kind)]
      BY <3>1, <3>3, <3>5
    <3>6. QED
      BY <1>10, <3>4, <3>5 DEF BackendReplies, Positive
  <2> DEFINE c == [q[p] EXCEPT !.pc = "reply", !.val = v]
  <2>2. c \in Call
    BY <1>t, CallUpdates
  <2>3. /\ c.pc = "reply" /\ c.val = v /\ c.gen = q[p].gen /\ c.key = q[p].key
        /\ c.since = q[p].since
    BY <1>u DEF Call
  <2>4. Covers(q[p].key) \subseteq Path /\ q[p].since \in Version
    BY <1>u, CoversPaths DEF Call
  <2>5. v.kind \in Positive => \A x \in Covers(q[p].key) :
            settled[x] <= v.ver[x] /\ q[p].since[x] <= v.ver[x]
    <3> SUFFICES ASSUME v.kind \in Positive, NEW x \in Covers(q[p].key)
                 PROVE  settled[x] <= v.ver[x] /\ q[p].since[x] <= v.ver[x]
      OBVIOUS
    <3>1. x \in Path /\ v.ver[x] = remote[x]
      BY <2>1, <2>4 DEF Only
    <3>2. q[p].since[x] <= settled[x] /\ settled[x] <= remote[x]
      BY <1>u, <1>c, <3>1 DEF FreshCall, SettledReached
    <3>3. QED
      BY <1>t, <2>4, <3>1, <3>2 DEF Version
  <2>6. FreshCall(p, c)
    BY <1>u, <2>3, <2>5 DEF FreshCall
  <2>7. QED
    BY <1>10, <1>t, <2>1, <2>2, <2>6, CallKeepsFresh DEF BackendReplies
<1>11. ASSUME NEW p \in Proc, SettleUnstored(p) PROVE FreshInv'
  <2>1. /\ q[p].pc = "reply" /\ Publish(p)
        /\ UNCHANGED <<values, generation, closed, mu, remote, settled>>
    BY <1>11 DEF SettleUnstored, At
  <2>2. \A r \in Proc : FreshCall(r, q[r])'
    BY <2>1, PublishKeepsFresh
  <2>3. QED
    BY <1>t, <1>c, <2>1, <2>2
    DEF FreshInv, CacheFresh, NothingKeptAfterClose, SettledReached
<1>12. ASSUME NEW p \in Proc, SettleStored(p) PROVE FreshInv'
  <2>1. /\ q[p].pc = "reply" /\ mu = None /\ mu' = p /\ Storable(p)
        /\ UNCHANGED <<generation, closed, remote, settled>>
    BY <1>12 DEF SettleStored, At, Unlocked
  <2>2. PICK size \in Sizes : Put(q[p].key, CachedFrom(q[p].val.kind, q[p].val.ver, size))
    BY <1>12 DEF SettleStored
  <2>3. PICK seeds \in SUBSET Path :
            /\ seeds \subseteq Covers(q[p].key)
            /\ q' = [q EXCEPT ![p] = [q[p] EXCEPT !.pc = "seed", !.seeds = seeds]]
    BY <1>12, <1>t DEF SettleStored, Children, Covers
  <2> DEFINE c == [q[p] EXCEPT !.pc = "seed", !.seeds = seeds]
             v == CachedFrom(q[p].val.kind, q[p].val.ver, size)
  <2>4. c \in Call
    BY <1>t, CallUpdates
  <2>5. q'[p] = c /\ \A r \in Proc \ {p} : q'[r] = q[r]
    BY <1>t, <2>3, <2>4, Becomes
  <2>6. /\ c.pc = "seed" /\ c.val = q[p].val /\ c.gen = q[p].gen /\ c.key = q[p].key
        /\ c.since = q[p].since /\ c.seeds = seeds
    BY <1>u DEF Call
  <2>7. ~closed /\ generation = q[p].gen /\ q[p].val.kind \in Positive
    BY <2>1 DEF Storable, Positive
  <2>8. FreshCall(p, q[p])'
    BY <1>u, <2>1, <2>3, <2>5, <2>6, <2>7 DEF FreshCall
  <2>9. ASSUME NEW r \in Proc \ {p} PROVE FreshCall(r, q[r])'
    <3>1. q[r].pc # "seed"
      BY <1>u, <2>1, CacheConstants DEF FreshCall
    <3>2. QED
      BY <1>u, <2>1, <2>5, <3>1, SameGeneration
  <2>10. v \in Cached /\ v.ver = q[p].val.ver
    BY <1>u, <2>7, CacheConstants DEF CachedFrom, Cached, Call, Reply, Positive
  <2>11. \A x \in Covers(q[p].key) : settled[x] <= v.ver[x]
    BY <1>u, <2>1, <2>7, <2>10 DEF FreshCall
  <2>12. (CacheFresh /\ NothingKeptAfterClose)'
    BY <1>t, <1>u, <1>c, <2>1, <2>2, <2>7, <2>10, <2>11, PutKeepsFresh
  <2>13. QED
    BY <1>t, <1>c, <2>1, <2>8, <2>9, <2>12 DEF FreshInv, SettledReached
<1>13. ASSUME NEW p \in Proc, SeedChild(p) PROVE FreshInv'
  <2>1. /\ q[p].pc = "seed"
        /\ UNCHANGED <<generation, closed, mu, remote, settled>>
    BY <1>13 DEF SeedChild, At
  <2>2. PICK x \in q[p].seeds, size \in Sizes :
            /\ Put([name |-> x, directory |-> FALSE],
                   CachedFrom("found", Only(q[p].val.ver, {x}), size))
            /\ q' = [q EXCEPT ![p] = [q[p] EXCEPT !.seeds = q[p].seeds \ {x}]]
    BY <1>13, <1>t DEF SeedChild
  <2> DEFINE c == [q[p] EXCEPT !.seeds = q[p].seeds \ {x}]
             k == [name |-> x, directory |-> FALSE]
             v == CachedFrom("found", Only(q[p].val.ver, {x}), size)
  <2>3. q[p].seeds \ {x} \in SUBSET Path /\ x \in Path /\ q[p].val.ver \in Version
    BY <1>u DEF Call, Reply
  <2>4. c \in Call
    BY <1>u, <2>3, CallUpdates
  <2>5. q'[p] = c /\ \A r \in Proc \ {p} : q'[r] = q[r]
    BY <1>t, <2>2, <2>4, Becomes
  <2>6. /\ c.pc = "seed" /\ c.val = q[p].val /\ c.gen = q[p].gen /\ c.key = q[p].key
        /\ c.since = q[p].since /\ c.seeds = q[p].seeds \ {x}
    BY <1>u, <2>1 DEF Call
  <2>7. FreshCall(p, q[p])
    BY <1>u
  <2>8. FreshCall(p, q[p])'
    BY <2>1, <2>5, <2>6, <2>7 DEF FreshCall
  <2>9. \A r \in Proc : FreshCall(r, q[r])'
    BY <1>u, <2>1, <2>5, <2>8, OthersFresh
  <2>10. k \in Key /\ v \in Cached /\ v.ver[x] = q[p].val.ver[x] /\ Covers(k) = {x}
    BY <2>3, OnlyType, CacheConstants DEF Key, CachedFrom, Cached, Only, Covers
  <2>11. ~closed /\ settled[x] <= q[p].val.ver[x]
    BY <2>1, <2>7 DEF FreshCall
  <2>12. (CacheFresh /\ NothingKeptAfterClose)'
    BY <1>t, <1>c, <2>1, <2>2, <2>10, <2>11, PutKeepsFresh
  <2>13. QED
    BY <1>t, <1>c, <2>1, <2>9, <2>12 DEF FreshInv, SettledReached
<1>14. ASSUME NEW p \in Proc, SettlePublish(p) PROVE FreshInv'
  <2>1. /\ q[p].pc = "seed" /\ Publish(p) /\ mu' = None
        /\ UNCHANGED <<values, generation, closed, remote, settled>>
    BY <1>14 DEF SettlePublish, At
  <2>2. mu = p
    BY <1>u, <2>1 DEF FreshCall
  <2>3. \A r \in Proc : FreshCall(r, q[r])'
    BY <2>1, <2>2, PublishKeepsFresh
  <2>4. QED
    BY <1>t, <1>c, <2>1, <2>3
    DEF FreshInv, CacheFresh, NothingKeptAfterClose, SettledReached
<1>15. ASSUME NEW p \in Proc, WaitCanceled(p) PROVE FreshInv'
  <2>1. Failure("canceled") \in Reply /\ Failure("canceled").kind \notin Positive
    BY ConstantTypes DEF Kinds, Failure, Positive
  <2>2. QED
    BY <1>15, <1>t, <2>1, ReturnKeepsFresh DEF WaitCanceled
<1>16. ASSUME NEW p \in Proc, Wake(p) PROVE FreshInv'
  <2>0. q[p].pc = "woken" /\ q[p].val \in Reply
    BY <1>16, <1>u DEF Wake, At, Call
  <2>1. CASE q[p].val.kind # "canceled" /\ ~closed /\ generation = q[p].gen
    <3>1. /\ Covers(q[p].key) \subseteq Path /\ q[p].since \in Version
          /\ q[p].val.ver \in Version
      BY <1>u, CoversPaths DEF Call, Reply
    <3>2. q[p].val.kind \in Positive => \A x \in Covers(q[p].key) :
            q[p].since[x] <= settled[x] /\ settled[x] <= q[p].val.ver[x]
      BY <1>u, <2>0, <2>1 DEF FreshCall
    <3>3. q[p].val.kind \in Positive => \A x \in Covers(q[p].key) :
            q[p].since[x] <= q[p].val.ver[x]
      BY <1>t, <3>1, <3>2 DEF Version
    <3>4. QED
      BY <1>16, <1>t, <2>0, <2>1, <3>3, ReturnKeepsFresh DEF Wake
  <2>2. CASE ~(q[p].val.kind # "canceled" /\ ~closed /\ generation = q[p].gen)
    <3> DEFINE c == [Idle EXCEPT !.pc = "top", !.key = q[p].key, !.ctx = q[p].ctx,
                                 !.since = q[p].since]
    <3>1. c \in Call
      BY <1>u, ConstantTypes DEF Call, Idle, Querying
    <3>2. FreshCall(p, q[p])
      BY <1>u
    <3>3. FreshCall(p, c)
      BY <1>t, <3>2 DEF FreshCall, Idle
    <3>4. QED
      BY <1>16, <1>t, <2>2, <3>1, <3>3, CallKeepsFresh DEF Wake
  <2>3. QED
    BY <2>1, <2>2
<1>17. ASSUME NEW p \in Proc, Forget(p) PROVE FreshInv'
  BY <1>17, <1>t, ConstantTypes, IdleFresh, CallKeepsFresh DEF Forget
<1>18. ASSUME NEW p \in Proc, NEW ns \in Mutated, Begin(p, ns) PROVE FreshInv'
  <2>1. /\ q[p].pc = "idle" /\ mu = None /\ generation' = generation + 1
        /\ q' = [q EXCEPT ![p] = [Idle EXCEPT !.pc = "begun", !.names = ns]]
        /\ UNCHANGED <<closed, mu, remote, settled>>
    BY <1>18 DEF Begin, At, Unlocked, Invalidate
  <2>2. PICK D : Drop(D)
    BY <1>18 DEF Begin, Invalidate
  <2>3. \A r \in Proc : q[r].pc # "seed"
    BY <1>u, <2>1, CacheConstants DEF FreshCall
  <2>4. FreshCall(p, q[p])'
    <3>1. /\ q'[p].pc = "begun" /\ q'[p].gen = 0 /\ q'[p].key = Idle.key /\ q'[p].since = Zero
      BY <1>t, <2>1 DEF Idle
    <3>2. FreshCall(p, Idle)
      BY <1>t, IdleFresh
    <3>3. \A x \in Covers(Idle.key) : Zero[x] <= settled[x]
      BY <3>2 DEF FreshCall, Idle
    <3>4. generation' >= 0 /\ settled' = settled
      BY <1>t, <2>1
    <3>5. QED
      BY <3>1, <3>3, <3>4 DEF FreshCall
  <2>5. ASSUME NEW r \in Proc \ {p} PROVE FreshCall(r, q[r])'
    <3>1. q'[r] = q[r]
      BY <1>t, <2>1
    <3>2. \A x \in Path : settled[x] <= settled'[x]
      BY <1>t, <2>1 DEF Version
    <3>3. QED
      BY <1>t, <1>u, <2>1, <2>3, <3>1, <3>2, NewGeneration DEF FreshInv
  <2>6. (CacheFresh /\ NothingKeptAfterClose)'
    BY <1>t, <1>c, <2>1, <2>2, DropKeepsFresh
  <2>7. QED
    BY <1>t, <1>c, <2>1, <2>4, <2>5, <2>6 DEF FreshInv, SettledReached
<1>19. ASSUME NEW p \in Proc, Apply(p) PROVE FreshInv'
  <2> DEFINE c == [q[p] EXCEPT !.pc = "applied"]
  <2>1. c \in Call /\ q' = [q EXCEPT ![p] = c] /\ UNCHANGED <<cacheVars, settled>>
    BY <1>19, <1>t, CallUpdates DEF Apply
  <2>2. q'[p] = c /\ \A r \in Proc \ {p} : q'[r] = q[r]
    BY <1>t, <2>1, Becomes
  <2>3. c.pc = "applied" /\ c.gen = q[p].gen /\ c.key = q[p].key /\ c.since = q[p].since
    BY <1>u DEF Call
  <2>4. FreshCall(p, q[p])'
    BY <1>u, <2>1, <2>2, <2>3 DEF FreshCall, cacheVars
  <2>5. \A r \in Proc : FreshCall(r, q[r])'
    BY <1>u, <2>1, <2>2, <2>4, OthersFresh DEF cacheVars
  <2>6. SettledReached'
    BY <1>19, <1>t, <1>c DEF Apply, SettledReached, Version
  <2>7. QED
    BY <1>t, <1>c, <2>1, <2>5, <2>6
    DEF FreshInv, CacheFresh, NothingKeptAfterClose, cacheVars
<1>20. ASSUME NEW p \in Proc, End(p) PROVE FreshInv'
  <2> DEFINE ns == q[p].names
             D == {k \in DOMAIN values : Traversal \in ns \/ \E n \in ns : Matches(k, n)}
  <2>1. /\ mu = None /\ generation' = generation + 1
        /\ q' = [q EXCEPT ![p] = Idle] /\ Drop(D)
        /\ settled' = [x \in Path |-> IF x \in Affected(ns) THEN remote[x] ELSE settled[x]]
        /\ UNCHANGED <<closed, mu, remote>>
    BY <1>20 DEF End, Unlocked, Invalidate
  <2>2. \A r \in Proc : q[r].pc # "seed"
    BY <1>u, <2>1, CacheConstants DEF FreshCall
  <2>3. \A x \in Path : settled[x] <= settled'[x] /\ settled'[x] <= remote[x]
    BY <1>t, <1>c, <2>1 DEF SettledReached, Version
  <2>4. generation' \in Nat /\ settled' \in Version
    BY <1>t DEF TypeInv, TypeOK
  <2>5. FreshCall(p, q[p])'
    <3>1. q'[p] = Idle
      BY <1>t, <2>1
    <3>2. QED
      BY <2>4, <3>1, CoversPaths, ConstantTypes
      DEF FreshCall, Idle, Zero, Version, Call
  <2>6. ASSUME NEW r \in Proc \ {p} PROVE FreshCall(r, q[r])'
    <3>1. q'[r] = q[r]
      BY <1>t, <2>1
    <3>2. QED
      BY <1>t, <1>u, <2>1, <2>2, <2>3, <3>1, NewGeneration DEF FreshInv
  <2>7. /\ DOMAIN values' = DOMAIN values \ D
        /\ \A k \in DOMAIN values' : values'[k] = values[k]
    BY <1>t, <2>1, DropGives
  <2>8. CacheFresh'
    <3> SUFFICES ASSUME NEW k \in DOMAIN values', NEW x \in Covers(k)
                 PROVE  settled'[x] <= values'[k].ver[x]
      BY DEF CacheFresh
    <3>1. k \in DOMAIN values /\ k \notin D /\ k \in Key /\ values'[k] = values[k]
      BY <1>t, <2>7 DEF ValuesOK
    <3>2. ns \in SUBSET (Path \union {Traversal}) /\ x \in Path
      BY <1>u, <3>1, CoversPaths DEF Call
    <3>3. x \notin Affected(ns)
      BY <3>1, <3>2, InvalidationCovers
    <3>4. settled'[x] = settled[x]
      BY <2>1, <3>2, <3>3
    <3>5. QED
      BY <1>c, <3>1, <3>4 DEF CacheFresh
  <2>9. NothingKeptAfterClose'
    BY <1>c, <2>1, <2>7 DEF NothingKeptAfterClose
  <2>10. SettledReached'
    BY <2>1, <2>3 DEF SettledReached
  <2>11. QED
    BY <1>t, <2>5, <2>6, <2>8, <2>9, <2>10 DEF FreshInv
<1>21. ASSUME Close PROVE FreshInv'
  <2>1. /\ mu = None /\ DOMAIN values' = {} /\ generation' = generation + 1
        /\ UNCHANGED <<q, remote, settled>>
    BY <1>21 DEF Close, Unlocked
  <2>2. ASSUME NEW r \in Proc PROVE FreshCall(r, q[r])'
    <3>1. q[r].pc # "seed"
      BY <1>u, <2>1, CacheConstants DEF FreshCall
    <3>2. \A x \in Path : settled[x] <= settled'[x]
      BY <1>t, <2>1 DEF Version
    <3>3. QED
      BY <1>t, <1>u, <2>1, <3>1, <3>2, NewGeneration DEF FreshInv
  <2>3. QED
    BY <1>t, <1>c, <2>1, <2>2
    DEF FreshInv, CacheFresh, NothingKeptAfterClose, SettledReached
<1>22. ASSUME NEW x \in Shared, OthersChange(x) PROVE FreshInv'
  <2>1. /\ remote' = [remote EXCEPT ![x] = @ + 1] /\ UNCHANGED <<cacheVars, q, settled>>
    BY <1>22 DEF OthersChange
  <2>2. SettledReached'
    BY <1>t, <1>c, <2>1, CacheConstants DEF SettledReached, Version
  <2>3. \A r \in Proc : FreshCall(r, q[r])'
    BY <1>u, <2>1, SameGeneration DEF cacheVars
  <2>4. QED
    BY <1>t, <1>c, <2>1, <2>2, <2>3
    DEF FreshInv, CacheFresh, NothingKeptAfterClose, cacheVars
<1>23. QED
  BY <1>0, <1>1, <1>2, <1>3, <1>4, <1>5, <1>6, <1>7, <1>8, <1>9, <1>10, <1>11, <1>12,
     <1>13, <1>14, <1>15, <1>16, <1>17, <1>18, <1>19, <1>20, <1>21, <1>22 DEF Next, Step

\* FreshInv holds of every reachable state.
LEMMA FreshAlways == Spec => []FreshInv
BY FreshInit, FreshStep, PTL DEF Spec

\* Whatever query keeps in the table, of any number of paths and goroutines,
\* is at least as new as the last completed local change of what it reports:
\* the two invalidations of begin and the generation check of query (line 166)
\* let no reply fetched before a change survive it.
THEOREM CacheIsFresh == Spec => []CacheFresh
<1>1. FreshInv => CacheFresh
  BY DEF FreshInv
<1>2. QED
  BY <1>1, FreshAlways, PTL

\* Stat and ReadDir: no hit, waiter or leader returns a state older than a
\* local change that had completed when the query began.
THEOREM ReadsSeeWrites == Spec => []ReadYourWrites
<1>1. FreshInv => ReadYourWrites
  BY DEF FreshInv, FreshCall, ReadYourWrites, At, Positive
<1>2. QED
  BY <1>1, FreshAlways, PTL

\* Close: a backend reply that arrives after it does not refill the table, not
\* even through the seeding loop of a listing.
THEOREM ClosedIsEmpty == Spec => []NothingKeptAfterClose
<1>1. FreshInv => NothingKeptAfterClose
  BY DEF FreshInv
<1>2. QED
  BY <1>1, FreshAlways, PTL
====
