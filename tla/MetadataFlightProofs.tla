---- MODULE MetadataFlightProofs ----
(***************************************************************************)
(* The cache as its callers see it: the flights that queries share, whose  *)
(* cancellation a caller hears of, and that the cache implements           *)
(* FreshReads.                                                             *)
(***************************************************************************)
EXTENDS MetadataCacheProofs, SumProofs

\* A goroutine that calls the backend for a flight it has registered.
Leading(c) == c.pc \in {"call", "reply", "seed"} /\ c.merge

FlightFor(c, p) == [key |-> c.key, gen |-> c.gen, leader |-> p]

\* c.flights holds exactly the flights that are under way, at most one for a key
\* and generation, and a waiter waits for one of them.
FlightsLed ==
    /\ \A p \in Proc : Leading(q[p]) => FlightFor(q[p], p) \in flights
    /\ \A f \in flights : Leading(q[f.leader]) /\ f = FlightFor(q[f.leader], f.leader)
    /\ \A f, g \in flights : f.key = g.key /\ f.gen = g.gen => f = g
    /\ \A w \in Proc : At(w, "wait") => FlightFor(q[w], q[w].leader) \in flights

\* What was fetched is a state the server has had.
Past(ver) == \A x \in Path : ver[x] <= remote[x]

FlightInv ==
    /\ FlightsLed
    /\ \A p \in Proc : Past(q[p].val.ver)
    /\ \A k \in DOMAIN values : Past(values[k].ver)

\* Never fetched anything, or nothing of a path.
LEMMA ZeroPast == remote \in Version => Past(Zero)
BY DEF Past, Zero, Version

\* Cut down to some paths, a past state is one.
LEMMA OnlyPast ==
    ASSUME remote \in Version, NEW ver \in Version, Past(ver), NEW S
    PROVE  Past(Only(ver, S))
BY DEF Past, Only, Version

\* A step that changes one call, and neither begins nor ends its flight.
LEMMA SameFlights ==
    ASSUME TypeInv, FlightsLed, NEW p \in Proc, NEW c \in Call, q' = [q EXCEPT ![p] = c],
           flights' = flights,
           Leading(c) <=> Leading(q[p]),
           Leading(c) => c.key = q[p].key /\ c.gen = q[p].gen,
           c.pc = "wait" => FlightFor(c, c.leader) \in flights
    PROVE  FlightsLed'
<1>1. q \in [Proc -> Call] /\ flights \subseteq Flight
  BY DEF TypeInv, TypeOK
<1>2. q'[p] = c /\ \A r \in Proc \ {p} : q'[r] = q[r]
  BY <1>1
<1>3. ASSUME NEW r \in Proc, Leading(q'[r]) PROVE FlightFor(q'[r], r) \in flights'
  BY <1>2, <1>3 DEF FlightsLed, FlightFor
<1>4. ASSUME NEW f \in flights'
      PROVE  Leading(q'[f.leader]) /\ f = FlightFor(q'[f.leader], f.leader)
  <2>1. f \in flights /\ f.leader \in Proc
    BY <1>1 DEF Flight
  <2>2. Leading(q[f.leader]) /\ f = FlightFor(q[f.leader], f.leader)
    BY <2>1 DEF FlightsLed
  <2>3. QED
    BY <1>2, <2>1, <2>2 DEF FlightFor
<1>5. ASSUME NEW w \in Proc, q'[w].pc = "wait" PROVE FlightFor(q'[w], q'[w].leader) \in flights'
  BY <1>2, <1>5 DEF FlightsLed, At
<1>6. QED
  BY <1>3, <1>4, <1>5 DEF FlightsLed, At

\* The same for the whole invariant, while the server and the table stay in the past.
LEMMA OneCall ==
    ASSUME TypeInv, FlightInv, NEW p \in Proc, NEW c \in Call, q' = [q EXCEPT ![p] = c],
           flights' = flights, remote' = remote,
           Leading(c) <=> Leading(q[p]),
           Leading(c) => c.key = q[p].key /\ c.gen = q[p].gen,
           c.pc = "wait" => FlightFor(c, c.leader) \in flights,
           Past(c.val.ver),
           \A k \in DOMAIN values' : Past(values'[k].ver)
    PROVE  FlightInv'
<1>1. q \in [Proc -> Call]
  BY DEF TypeInv, TypeOK
<1>2. FlightsLed'
  BY SameFlights DEF FlightInv
<1>3. \A r \in Proc : Past(q[r].val.ver)'
  BY <1>1 DEF FlightInv, Past
<1>4. \A k \in DOMAIN values' : Past(values[k].ver)'
  BY DEF Past
<1>5. QED
  BY <1>2, <1>3, <1>4 DEF FlightInv

\* A call that returns keeps its key, its context and what it must see.
LEMMA ReturnedIs ==
    ASSUME NEW c \in Call, NEW reply \in Reply
    PROVE  /\ Returned(c, reply) \in Call /\ Returned(c, reply).pc = "done"
           /\ Returned(c, reply).ctx = c.ctx /\ Returned(c, reply).val = reply
           /\ Returned(c, reply).key = c.key /\ Returned(c, reply).since = c.since
<1>1. Returned(c, reply) \in Call /\ Returned(c, reply).pc = "done"
  BY ReturnedType
<1>2. /\ Returned(c, reply).ctx = c.ctx /\ Returned(c, reply).val = reply
      /\ Returned(c, reply).key = c.key /\ Returned(c, reply).since = c.since
  BY DEF Returned, Idle
<1>3. QED
  BY <1>1, <1>2

\* A call that returns, and was not leading.
LEMMA OneReturn ==
    ASSUME TypeInv, FlightInv, NEW p \in Proc, NEW reply \in Reply, Return(p, reply),
           ~Leading(q[p]), flights' = flights, remote' = remote, UNCHANGED values,
           Past(reply.ver)
    PROVE  FlightInv'
<1> DEFINE c == Returned(q[p], reply)
<1>1. q[p] \in Call
  BY DEF TypeInv, TypeOK
<1>2. c \in Call /\ c.pc = "done" /\ c.ctx = q[p].ctx /\ c.val = reply
  BY <1>1, ReturnedIs
<1>3. q' = [q EXCEPT ![p] = c]
  BY DEF Return
<1> HIDE DEF c
<1>4. ~Leading(c)
  BY <1>2 DEF Leading
<1>5. QED
  BY <1>2, <1>3, <1>4, OneCall DEF FlightInv

\* The leader's flight goes, with all who wait for it.
LEMMA PublishFlights ==
    ASSUME TypeInv, FlightInv, NEW p \in Proc, q[p].pc \in {"reply", "seed"}, Publish(p),
           remote' = remote, UNCHANGED values
    PROVE  FlightInv'
<1>0. /\ q \in [Proc -> Call] /\ flights \subseteq Flight /\ q[p] \in Call
  BY DEF TypeInv, TypeOK
<1>1. /\ q'[p] = Returned(q[p], q[p].val)
      /\ \A w \in Proc \ {p} :
            q'[w] = IF q[p].merge /\ WaitsOn(w, p)
                    THEN [q[w] EXCEPT !.pc = "woken", !.val = q[p].val] ELSE q[w]
      /\ flights' = flights \ (IF q[p].merge
                               THEN {f \in flights : f.key = q[p].key /\ f.gen = q[p].gen}
                               ELSE {})
  BY DEF Publish
<1>2. /\ q'[p].pc = "done" /\ q'[p].ctx = q[p].ctx /\ q'[p].val = q[p].val
  <2>1. q[p].val \in Reply
    BY <1>0 DEF Call
  <2>2. q'[p] = Returned(q[p], q[p].val)
    BY <1>1
  <2>3. /\ Returned(q[p], q[p].val).pc = "done" /\ Returned(q[p], q[p].val).val = q[p].val
        /\ Returned(q[p], q[p].val).ctx = q[p].ctx
    BY <1>0, <2>1, ReturnedIs
  <2>4. QED
    BY <2>2, <2>3
<1>3. ASSUME NEW w \in Proc \ {p}, q'[w] # q[w]
      PROVE  /\ q'[w].pc = "woken" /\ q'[w].val = q[p].val /\ q[w].pc = "wait"
             /\ q'[w] = [q[w] EXCEPT !.pc = "woken", !.val = q[p].val]
  BY <1>0, <1>1, <1>3 DEF WaitsOn, At, Call
<1>4. ASSUME q[p].merge
      PROVE  flights' = flights \ {FlightFor(q[p], p)}
  <2>1. FlightFor(q[p], p) \in flights
    BY <1>4 DEF FlightInv, FlightsLed, Leading
  <2>2. \A f \in flights : f.key = q[p].key /\ f.gen = q[p].gen <=> f = FlightFor(q[p], p)
    BY <2>1 DEF FlightInv, FlightsLed, FlightFor
  <2>3. QED
    BY <1>1, <1>4, <2>2
<1>5. ~q[p].merge => flights' = flights
  BY <1>1
<1>6. ASSUME NEW r \in Proc, Leading(q'[r]) PROVE FlightFor(q'[r], r) \in flights'
  <2>1. r # p
    BY <1>2, <1>6 DEF Leading
  <2>2. q'[r] = q[r]
    BY <1>3, <1>6, <2>1 DEF Leading
  <2>3. FlightFor(q[r], r) \in flights
    BY <1>6, <2>2 DEF FlightInv, FlightsLed
  <2>4. FlightFor(q[r], r) # FlightFor(q[p], p)
    BY <2>1 DEF FlightFor
  <2>5. QED
    BY <1>4, <1>5, <2>2, <2>3, <2>4
<1>7. ASSUME NEW f \in flights'
      PROVE  Leading(q'[f.leader]) /\ f = FlightFor(q'[f.leader], f.leader)
  <2>1. f \in flights /\ f.leader \in Proc
    BY <1>0, <1>1, <1>7 DEF Flight
  <2>2. Leading(q[f.leader]) /\ f = FlightFor(q[f.leader], f.leader)
    BY <2>1 DEF FlightInv, FlightsLed
  <2>3. f.leader # p
    BY <1>4, <1>5, <1>7, <2>2 DEF Leading
  <2>4. q'[f.leader] = q[f.leader]
    BY <1>3, <2>1, <2>2, <2>3 DEF Leading
  <2>5. QED
    BY <2>2, <2>4
<1>8. \A f, g \in flights' : f.key = g.key /\ f.gen = g.gen => f = g
  BY <1>1 DEF FlightInv, FlightsLed
<1>9. ASSUME NEW w \in Proc, q'[w].pc = "wait" PROVE FlightFor(q'[w], q'[w].leader) \in flights'
  <2>1. w # p
    BY <1>2, <1>9
  <2>2. q'[w] = q[w]
    BY <1>3, <1>9, <2>1
  <2>3. FlightFor(q[w], q[w].leader) \in flights
    BY <1>9, <2>2 DEF FlightInv, FlightsLed, At
  <2>4. CASE ~q[p].merge
    BY <1>5, <2>2, <2>3, <2>4
  <2>5. CASE q[p].merge
    <3>1. ~WaitsOn(w, p)
      <4>1. [q[w] EXCEPT !.pc = "woken", !.val = q[p].val].pc = "woken"
        BY <1>0 DEF Call
      <4>2. QED
        BY <1>1, <1>9, <2>1, <2>5, <4>1
    <3>2. FlightFor(q[w], q[w].leader) # FlightFor(q[p], p)
      BY <1>9, <2>2, <3>1 DEF WaitsOn, At, FlightFor
    <3>3. QED
      BY <1>4, <2>2, <2>3, <2>5, <3>2
  <2>6. QED
    BY <2>4, <2>5
<1>10. FlightsLed'
  BY <1>6, <1>7, <1>8, <1>9 DEF FlightsLed, At
<1>11. \A r \in Proc : Past(q[r].val.ver)'
  BY <1>2, <1>3 DEF FlightInv, Past
<1>12. \A k \in DOMAIN values' : Past(values[k].ver)'
  BY DEF FlightInv, Past
<1>13. QED
  BY <1>10, <1>11, <1>12 DEF FlightInv

\* Nobody leads, and nothing is fetched, at the start.
LEMMA FlightInit == Init => FlightInv
<1> SUFFICES ASSUME Init PROVE FlightInv
  OBVIOUS
<1>1. /\ flights = {} /\ DOMAIN values = {} /\ \A p \in Proc : q[p] = Idle
      /\ remote \in Version
  BY ConstantTypes DEF Init
<1>2. Idle.pc = "idle" /\ Idle.val.ver = Zero
  BY DEF Idle, NoReply
<1>3. QED
  BY <1>1, <1>2, ZeroPast DEF FlightInv, FlightsLed, Leading, At

\* The table's entries stay in the past when entries are dropped.
LEMMA DropPast ==
    ASSUME TypeInv, FlightInv, NEW D, Drop(D)
    PROVE  \A k \in DOMAIN values' : Past(values'[k].ver)
<1>1. ValuesOK
  BY DEF TypeInv, TypeOK, ValuesOK
<1>2. QED
  BY <1>1, DropGives DEF FlightInv

\* And when one is put that is a past state.
LEMMA PutPast ==
    ASSUME TypeInv, FlightInv, NEW k \in Key, NEW v \in Cached, Put(k, v), Past(v.ver)
    PROVE  \A j \in DOMAIN values' : Past(values'[j].ver)
<1>1. ValuesOK
  BY DEF TypeInv, TypeOK, ValuesOK
<1>2. QED
  BY <1>1, PutGives DEF FlightInv

\* An operation's second half, or a query that begins: nothing fetched yet.
LEMMA IdleCall ==
    ASSUME TypeInv, FlightInv, NEW p \in Proc, NEW c \in Call, q' = [q EXCEPT ![p] = c],
           flights' = flights, remote' = remote, ~Leading(q[p]),
           c.pc \notin {"call", "reply", "seed", "wait", "done"}, c.val = NoReply,
           \A k \in DOMAIN values' : Past(values'[k].ver)
    PROVE  FlightInv'
<1>1. ~Leading(c) /\ c.val.ver = Zero
  BY DEF Leading, NoReply
<1>2. Past(c.val.ver)
  BY <1>1, ZeroPast DEF TypeInv, TypeOK
<1>3. QED
  BY <1>1, <1>2, OneCall

\* The server moves on: what was fetched stays in its past.
LEMMA ServerMoves ==
    ASSUME TypeInv, FlightInv, remote \in Version, remote' \in Version,
           \A x \in Path : remote[x] <= remote'[x], FlightsLed', values' = values,
           \A r \in Proc : q'[r].val = q[r].val
    PROVE  FlightInv'
<1>1. ASSUME NEW r \in Proc PROVE Past(q[r].val.ver)'
  <2>1. q[r].val.ver \in Version /\ Past(q[r].val.ver)
    BY DEF TypeInv, TypeOK, Call, Reply, FlightInv
  <2>2. QED
    BY <2>1 DEF Past, Version
<1>2. ASSUME NEW k \in DOMAIN values' PROVE Past(values[k].ver)'
  <2>1. values[k].ver \in Version /\ Past(values[k].ver)
    BY DEF TypeInv, TypeOK, Cached, FlightInv
  <2>2. QED
    BY <2>1 DEF Past, Version
<1>3. QED
  BY <1>1, <1>2 DEF FlightInv

\* Every step keeps the flights led, the waiters on a flight, the cancellations
\* to their owners, and what was fetched in the server's past.
LEMMA FlightStep == FreshInv /\ FlightInv /\ [Next]_vars => FlightInv'
<1> SUFFICES ASSUME FreshInv, FlightInv, [Next]_vars PROVE FlightInv'
  OBVIOUS
<1> USE DEF cacheVars
<1>t. /\ TypeInv /\ TypeInv' /\ flights \subseteq Flight /\ q \in [Proc -> Call]
      /\ remote \in Version /\ remote' \in Version /\ settled \in Version
      /\ \A p \in Proc : q[p] \in Call /\ q'[p] \in Call /\ q[p].val \in Reply
      /\ \A k \in DOMAIN values : values[k] \in Cached
  <2>1. TypeInv /\ TypeInv'
    BY TypeStep DEF FreshInv
  <2>2. q \in [Proc -> Call] /\ q' \in [Proc -> Call]
    BY <2>1 DEF TypeInv, TypeOK
  <2>3. \A p \in Proc : q[p] \in Call /\ q'[p] \in Call /\ q[p].val \in Reply
    BY <2>2 DEF Call
  <2>4. QED
    BY <2>1, <2>2, <2>3 DEF TypeInv, TypeOK
<1>v. \A k \in DOMAIN values : Past(values[k].ver)
  BY DEF FlightInv
<1>w. \A p \in Proc : Past(q[p].val.ver)
  BY DEF FlightInv
<1>e. \A kind \in Kinds : Failure(kind) \in Reply /\ Failure(kind).kind = kind
                          /\ Past(Failure(kind).ver)
  BY <1>t, ConstantTypes, ZeroPast DEF Failure
<1>0. CASE UNCHANGED vars
  BY <1>0 DEF vars, FlightInv, FlightsLed, Leading, FlightFor, Past, At
<1>1. ASSUME NEW p \in Proc, NEW k \in Queried, Query(p, k) PROVE FlightInv'
  <2> DEFINE c == [Idle EXCEPT !.pc = "top", !.key = k, !.since = Only(settled, Covers(k))]
  <2>1. k \in Key /\ Only(settled, Covers(k)) \in Version
    BY <1>t, OnlyType, CacheConstants DEF Key
  <2>2. c \in Call /\ c.pc = "top" /\ c.val = NoReply
    BY <2>1, ConstantTypes DEF Call, Idle, Querying
  <2>3. ~Leading(q[p]) /\ q' = [q EXCEPT ![p] = c] /\ flights' = flights /\ remote' = remote
        /\ values' = values
    BY <1>1 DEF Query, At, Leading
  <2> HIDE DEF c
  <2>4. QED
    BY <1>t, <1>v, <2>2, <2>3, IdleCall
<1>2. ASSUME NEW p \in Proc, QueryTraversal(p) PROVE FlightInv'
  <2> DEFINE c == [Idle EXCEPT !.pc = "pass"]
  <2>1. c \in Call /\ c.pc = "pass" /\ c.val = NoReply
    BY ConstantTypes DEF Call, Idle, Querying
  <2>2. ~Leading(q[p]) /\ q' = [q EXCEPT ![p] = c] /\ flights' = flights /\ remote' = remote
        /\ values' = values
    BY <1>2 DEF QueryTraversal, At, Leading
  <2> HIDE DEF c
  <2>3. QED
    BY <1>t, <1>v, <2>1, <2>2, IdleCall
<1>3. ASSUME NEW p \in Proc, Cancel(p) PROVE FlightInv'
  <2> DEFINE c == [q[p] EXCEPT !.ctx = TRUE]
  <2>1. /\ c \in Call /\ c.pc = q[p].pc /\ c.val = q[p].val /\ c.gen = q[p].gen /\ c.ctx
        /\ c.key = q[p].key /\ c.merge = q[p].merge /\ c.leader = q[p].leader
    <3>1. c \in Call
      BY <1>t, CallUpdates
    <3>2. /\ c.pc = q[p].pc /\ c.val = q[p].val /\ c.gen = q[p].gen /\ c.ctx
           /\ c.key = q[p].key /\ c.merge = q[p].merge /\ c.leader = q[p].leader
      BY <1>t DEF Call
    <3>3. QED
      BY <3>1, <3>2
  <2>2. q' = [q EXCEPT ![p] = c] /\ flights' = flights /\ remote' = remote /\ values' = values
    BY <1>3 DEF Cancel
  <2> HIDE DEF c
  <2>3. Leading(c) <=> Leading(q[p])
    BY <2>1 DEF Leading
  <2>4. c.pc = "wait" => FlightFor(c, c.leader) \in flights
    BY <2>1 DEF FlightInv, FlightsLed, At, FlightFor
  <2>5. Past(c.val.ver)
    BY <1>w, <2>1 
  <2>6. QED
    BY <1>t, <1>v, <2>1, <2>2, <2>3, <2>4, <2>5, OneCall
<1>4. ASSUME NEW p \in Proc, RejectTraversal(p) PROVE FlightInv'
  <2>1. "error" \in Kinds /\ ~Leading(q[p]) /\ Return(p, Failure("error"))
    BY <1>4 DEF Kinds, RejectTraversal, At, Leading
  <2>2. QED
    BY <1>4, <1>t, <1>e, <2>1, OneReturn DEF RejectTraversal
<1>5. ASSUME NEW p \in Proc, CheckContext(p) PROVE FlightInv'
  <2>1. ~Leading(q[p]) /\ flights' = flights /\ remote' = remote /\ values' = values
        /\ q[p].pc = "top"
    BY <1>5 DEF CheckContext, At, Leading
  <2>2. CASE q[p].ctx
    <3>1. "canceled" \in Kinds /\ Return(p, Failure("canceled"))
      BY <1>5, <2>2 DEF Kinds, CheckContext
    <3>2. QED
      BY <1>t, <1>e, <2>1, <2>2, <3>1, OneReturn
  <2>3. CASE ~q[p].ctx
    <3> DEFINE c == [q[p] EXCEPT !.pc = "lock"]
    <3>1. c \in Call /\ c.pc = "lock" /\ c.val = q[p].val
      <4>1. c \in Call
        BY <1>t, CallUpdates
      <4>2. /\ c.pc = "lock" /\ c.val = q[p].val
        BY <1>t DEF Call
      <4>3. QED
        BY <4>1, <4>2
    <3>2. q' = [q EXCEPT ![p] = c]
      BY <1>5, <2>3 DEF CheckContext
    <3> HIDE DEF c
    <3>3. ~Leading(c) /\ Past(c.val.ver)
      BY <1>w, <3>1 DEF Leading
    <3>4. QED
      BY <1>t, <1>v, <2>1, <3>1, <3>2, <3>3, OneCall
  <2>4. QED
    BY <2>2, <2>3
<1>6. ASSUME NEW p \in Proc, Closed(p) PROVE FlightInv'
  <2>1. "closed" \in Kinds /\ ~Leading(q[p]) /\ Return(p, Failure("closed"))
    BY <1>6 DEF Kinds, Closed, At, Leading
  <2>2. QED
    BY <1>6, <1>t, <1>e, <2>1, OneReturn DEF Closed
<1>7. ASSUME NEW p \in Proc, Hit(p) PROVE FlightInv'
  <2> DEFINE v == values[q[p].key]
             reply == [kind |-> v.kind, ver |-> v.ver]
  <2>1. v \in Cached /\ Past(v.ver)
    BY <1>7, <1>t, <1>v DEF Hit
  <2>2. reply \in Reply /\ reply.kind # "canceled" /\ Past(reply.ver)
    BY <2>1 DEF Reply, Cached, Kinds
  <2>3. ~Leading(q[p]) /\ Return(p, reply) /\ flights' = flights /\ remote' = remote
        /\ UNCHANGED values
    BY <1>7 DEF Hit, At, Leading
  <2> HIDE DEF v, reply
  <2>4. QED
    BY <1>t, <2>2, <2>3, OneReturn
<1>8. ASSUME NEW p \in Proc, Join(p) PROVE FlightInv'
  <2>1. PICK f \in flights :
          /\ f.key = q[p].key /\ f.gen = generation
          /\ q' = [q EXCEPT ![p].pc = "wait", ![p].leader = f.leader, ![p].gen = generation]
    BY <1>8 DEF Join, FlightOf
  <2> DEFINE c == [q[p] EXCEPT !.pc = "wait", !.leader = f.leader, !.gen = generation]
  <2>2. f.leader \in Proc /\ generation \in Nat
    BY <1>t DEF Flight, TypeInv, TypeOK
  <2>3. /\ c \in Call /\ c.pc = "wait" /\ c.leader = f.leader /\ c.gen = generation
        /\ c.key = q[p].key /\ c.val = q[p].val
    <3>1. c \in Call
      BY <1>t, <2>2, CallUpdates
    <3>2. /\ c.pc = "wait" /\ c.leader = f.leader /\ c.gen = generation
           /\ c.key = q[p].key /\ c.val = q[p].val
      BY <1>t, <2>2 DEF Call
    <3>3. QED
      BY <3>1, <3>2
  <2>4. q' = [q EXCEPT ![p] = c]
    BY <2>1
  <2>5. flights' = flights /\ remote' = remote /\ ~Leading(q[p])
    BY <1>8 DEF Join, At, Leading
  <2> HIDE DEF c
  <2>6. FlightFor(c, c.leader) \in flights
    <3>1. f = FlightFor(q[f.leader], f.leader)
      BY DEF FlightInv, FlightsLed
    <3>2. QED
      BY <2>1, <2>3, <3>1 DEF FlightFor
  <2>7. ~Leading(c) /\ Past(c.val.ver)
    BY <1>w, <2>3 DEF Leading
  <2>8. \A k \in DOMAIN values' : Past(values'[k].ver)
    BY <1>8, <1>t, <1>v, DropPast DEF Join, Miss
  <2>9. QED
    BY <1>t, <2>3, <2>4, <2>5, <2>6, <2>7, <2>8, OneCall
<1>9. ASSUME NEW p \in Proc, Lead(p) PROVE FlightInv'
  <2> DEFINE m == (changing = 0)
             c == [q[p] EXCEPT !.pc = "call", !.gen = generation, !.merge = m]
             new == FlightFor(c, p)
  <2>1. /\ c \in Call /\ c.pc = "call" /\ c.gen = generation /\ c.merge = m
        /\ c.key = q[p].key /\ c.val = q[p].val
    <3>1. generation \in Nat /\ m \in BOOLEAN /\ q[p] \in Call
      BY <1>t DEF TypeInv, TypeOK
    <3>2. c \in Call
      BY <3>1, CallUpdates
    <3>3. /\ c.pc = "call" /\ c.gen = generation /\ c.merge = m
          /\ c.key = q[p].key /\ c.val = q[p].val
      BY <3>1 DEF Call
    <3>4. QED
      BY <3>2, <3>3
  <2>2. q' = [q EXCEPT ![p] = c] /\ remote' = remote
    BY <1>9 DEF Lead
  <2>3. flights' = IF m THEN flights \union {new} ELSE flights
    <3> HIDE DEF c
    <3>1. QED
      BY <1>9, <2>1 DEF Lead, FlightFor
  <2>4. m => \A f \in flights : ~(f.key = q[p].key /\ f.gen = generation)
    BY <1>9 DEF Lead, FlightOf
  <2>5. ~Leading(q[p])
    BY <1>9 DEF Lead, At, Leading
  <2>6. \A k \in DOMAIN values' : Past(values'[k].ver)
    BY <1>9, <1>t, <1>v, DropPast DEF Lead, Miss
  <2> HIDE DEF c, m
  <2>7. q'[p] = c /\ \A r \in Proc \ {p} : q'[r] = q[r]
    BY <1>t, <2>2
  <2>8. new.key = q[p].key /\ new.gen = generation /\ new.leader = p
    BY <2>1 DEF FlightFor
  <2>9. ASSUME NEW r \in Proc, Leading(q'[r]) PROVE FlightFor(q'[r], r) \in flights'
    <3>1. CASE r = p
      <4>1. m
        BY <2>1, <2>7, <2>9, <3>1 DEF Leading
      <4>2. QED
        BY <2>3, <2>7, <3>1, <4>1
    <3>2. CASE r # p
      BY <2>3, <2>7, <2>9, <3>2 DEF FlightInv, FlightsLed
    <3>3. QED
      BY <3>1, <3>2
  <2>10. ASSUME NEW f \in flights'
         PROVE  Leading(q'[f.leader]) /\ f = FlightFor(q'[f.leader], f.leader)
    <3>1. CASE f \in flights
      <4>1. f.leader \in Proc /\ Leading(q[f.leader]) /\ f = FlightFor(q[f.leader], f.leader)
        BY <1>t, <3>1 DEF FlightInv, FlightsLed, Flight
      <4>2. QED
        BY <2>5, <2>7, <4>1
    <3>2. CASE f \notin flights
      <4>1. m /\ f = new
        BY <2>3, <3>2
      <4>2. Leading(c)
        BY <2>1, <4>1 DEF Leading
      <4>3. QED
        BY <2>7, <2>8, <4>1, <4>2
    <3>3. QED
      BY <3>1, <3>2
  <2>11. \A f, g \in flights' : f.key = g.key /\ f.gen = g.gen => f = g
    BY <2>3, <2>4, <2>8 DEF FlightInv, FlightsLed
  <2>12. ASSUME NEW w \in Proc, q'[w].pc = "wait" PROVE FlightFor(q'[w], q'[w].leader) \in flights'
    BY <2>1, <2>3, <2>7, <2>12 DEF FlightInv, FlightsLed, At
  <2>13. FlightsLed'
    BY <2>9, <2>10, <2>11, <2>12 DEF FlightsLed, At
  <2>14. \A r \in Proc : Past(q[r].val.ver)'
    BY <1>w, <2>1, <2>2, <2>7 DEF Past
  <2>15. QED
    BY <2>2, <2>6, <2>13, <2>14 DEF FlightInv, Past
<1>10. ASSUME NEW p \in Proc, BackendReplies(p) PROVE FlightInv'
  <2>1. PICK val \in Reply : /\ q' = [q EXCEPT ![p].pc = "reply", ![p].val = val]
                             /\ Past(val.ver)
    <3>1. CASE \E kind \in {"found", "missing"} :
            q' = [q EXCEPT ![p].pc = "reply",
                           ![p].val = [kind |-> kind, ver |-> Only(remote, Covers(q[p].key))]]
      <4>1. PICK kind \in {"found", "missing"} :
            q' = [q EXCEPT ![p].pc = "reply",
                           ![p].val = [kind |-> kind, ver |-> Only(remote, Covers(q[p].key))]]
        BY <3>1
      <4>2. Only(remote, Covers(q[p].key)) \in Version
        BY <1>t, OnlyType
      <4>3. Past(Only(remote, Covers(q[p].key)))
        BY <1>t DEF Past, Only, Version
      <4>4. [kind |-> kind, ver |-> Only(remote, Covers(q[p].key))] \in Reply
        BY <4>2 DEF Reply, Kinds
      <4>5. QED
        BY <4>1, <4>3, <4>4
    <3>2. CASE \E kind \in {"error", "canceled"} :
                 q' = [q EXCEPT ![p].pc = "reply", ![p].val = Failure(kind)]
      <4>1. {"error", "canceled"} \subseteq Kinds
        BY DEF Kinds
      <4>2. QED
        BY <1>e, <3>2, <4>1
    <3>3. QED
      BY <1>10, <3>1, <3>2 DEF BackendReplies
  <2> DEFINE c == [q[p] EXCEPT !.pc = "reply", !.val = val]
  <2>2. /\ c \in Call /\ c.pc = "reply" /\ c.val = val /\ c.ctx = q[p].ctx
        /\ c.key = q[p].key /\ c.gen = q[p].gen /\ c.merge = q[p].merge
    <3>1. c \in Call
      BY <1>t, CallUpdates
    <3>2. /\ c.pc = "reply" /\ c.val = val /\ c.ctx = q[p].ctx
           /\ c.key = q[p].key /\ c.gen = q[p].gen /\ c.merge = q[p].merge
      BY <1>t DEF Call
    <3>3. QED
      BY <3>1, <3>2
  <2>3. /\ q' = [q EXCEPT ![p] = c] /\ flights' = flights /\ remote' = remote
        /\ values' = values /\ q[p].pc = "call"
    BY <1>10, <2>1 DEF BackendReplies, At
  <2> HIDE DEF c
  <2>4. Leading(c) <=> Leading(q[p])
    BY <2>2, <2>3 DEF Leading
  <2>5. Past(c.val.ver)
    BY <2>1, <2>2 
  <2>6. QED
    BY <1>t, <1>v, <2>2, <2>3, <2>4, <2>5, OneCall
<1>11. ASSUME NEW p \in Proc, SettleUnstored(p) PROVE FlightInv'
  BY <1>11, <1>t, PublishFlights DEF SettleUnstored, At
<1>12. ASSUME NEW p \in Proc, SettleStored(p) PROVE FlightInv'
  <2>1. PICK size \in Sizes : Put(q[p].key, CachedFrom(q[p].val.kind, q[p].val.ver, size))
    BY <1>12 DEF SettleStored
  <2>2. PICK s \in SUBSET Path : q' = [q EXCEPT ![p].pc = "seed", ![p].seeds = s]
    BY <1>12 DEF SettleStored, Children
  <2> DEFINE c == [q[p] EXCEPT !.pc = "seed", !.seeds = s]
             v == CachedFrom(q[p].val.kind, q[p].val.ver, size)
  <2>3. q[p].val.kind \in {"found", "missing"} /\ q[p].key \in Key /\ q[p].val.ver \in Version
    BY <1>12, <1>t DEF SettleStored, Storable, Call, Reply
  <2>4. v \in Cached /\ v.ver = q[p].val.ver
    BY <2>3, CacheConstants DEF CachedFrom, Cached
  <2>5. /\ c \in Call /\ c.pc = "seed" /\ c.val = q[p].val /\ c.ctx = q[p].ctx
        /\ c.key = q[p].key /\ c.gen = q[p].gen /\ c.merge = q[p].merge
    <3>1. c \in Call
      BY <1>t, CallUpdates
    <3>2. /\ c.pc = "seed" /\ c.val = q[p].val /\ c.ctx = q[p].ctx
           /\ c.key = q[p].key /\ c.gen = q[p].gen /\ c.merge = q[p].merge
      BY <1>t DEF Call
    <3>3. QED
      BY <3>1, <3>2
  <2>6. /\ q' = [q EXCEPT ![p] = c] /\ flights' = flights /\ remote' = remote
        /\ q[p].pc = "reply"
    BY <1>12, <2>2 DEF SettleStored, At
  <2> HIDE DEF c, v
  <2>7. \A k \in DOMAIN values' : Past(values'[k].ver)
    BY <1>t, <1>w, <2>1, <2>3, <2>4, PutPast DEF v
  <2>8. (Leading(c) <=> Leading(q[p])) /\ Past(c.val.ver)
    BY <1>w, <2>3, <2>5, <2>6 DEF Leading
  <2>9. QED
    BY <1>t, <2>5, <2>6, <2>7, <2>8, OneCall
<1>13. ASSUME NEW p \in Proc, SeedChild(p) PROVE FlightInv'
  <2>1. PICK x \in q[p].seeds, size \in Sizes :
          /\ Put([name |-> x, directory |-> FALSE],
                 CachedFrom("found", Only(q[p].val.ver, {x}), size))
          /\ q' = [q EXCEPT ![p].seeds = @ \ {x}]
    BY <1>13 DEF SeedChild
  <2> DEFINE s == q[p].seeds \ {x}
             c == [q[p] EXCEPT !.seeds = s]
             k == [name |-> x, directory |-> FALSE]
             v == CachedFrom("found", Only(q[p].val.ver, {x}), size)
  <2>2. q[p].val.ver \in Version /\ s \in SUBSET Path /\ x \in Path
    BY <1>t DEF Call, Reply
  <2>3. k \in Key /\ v \in Cached /\ v.ver = Only(q[p].val.ver, {x})
    BY <2>2, OnlyType, CacheConstants DEF Key, CachedFrom, Cached
  <2>4. Past(v.ver)
    BY <1>t, <1>w, <2>2, <2>3, OnlyPast
  <2>5. /\ c \in Call /\ c.pc = q[p].pc /\ c.val = q[p].val /\ c.ctx = q[p].ctx
        /\ c.key = q[p].key /\ c.gen = q[p].gen /\ c.merge = q[p].merge
    <3>1. c \in Call
      BY <1>t, <2>2, CallUpdates
    <3>2. /\ c.pc = q[p].pc /\ c.val = q[p].val /\ c.ctx = q[p].ctx
           /\ c.key = q[p].key /\ c.gen = q[p].gen /\ c.merge = q[p].merge
      BY <1>t, <2>2 DEF Call
    <3>3. QED
      BY <3>1, <3>2
  <2>6. /\ q' = [q EXCEPT ![p] = c] /\ flights' = flights /\ remote' = remote
        /\ q[p].pc = "seed" /\ Put(k, v)
    BY <1>13, <2>1 DEF SeedChild, At
  <2> HIDE DEF c, v, k
  <2>7. \A j \in DOMAIN values' : Past(values'[j].ver)
    BY <1>t, <2>3, <2>4, <2>6, PutPast
  <2>8. (Leading(c) <=> Leading(q[p])) /\ Past(c.val.ver) /\ c.pc # "wait"
    BY <1>w, <2>5, <2>6 DEF Leading
  <2>9. QED
    BY <1>t, <2>5, <2>6, <2>7, <2>8, OneCall
<1>14. ASSUME NEW p \in Proc, SettlePublish(p) PROVE FlightInv'
  BY <1>14, <1>t, PublishFlights DEF SettlePublish, At
<1>15. ASSUME NEW p \in Proc, WaitCanceled(p) PROVE FlightInv'
  <2>1. "canceled" \in Kinds /\ ~Leading(q[p]) /\ Return(p, Failure("canceled")) /\ q[p].ctx
    BY <1>15 DEF Kinds, WaitCanceled, Leading
  <2>2. QED
    BY <1>15, <1>t, <1>e, <2>1, OneReturn DEF WaitCanceled
<1>16. ASSUME NEW p \in Proc, Wake(p) PROVE FlightInv'
  <2>1. ~Leading(q[p]) /\ flights' = flights /\ remote' = remote /\ values' = values
    BY <1>16 DEF Wake, At, Leading
  <2>2. CASE q[p].val.kind # "canceled" /\ Return(p, q[p].val)
    BY <1>t, <1>w, <2>1, <2>2, OneReturn
  <2> DEFINE c == [Idle EXCEPT !.pc = "top", !.key = q[p].key,
                               !.ctx = q[p].ctx, !.since = q[p].since]
  <2>3. CASE q' = [q EXCEPT ![p] = c]
    <3>1. c \in Call /\ c.pc = "top" /\ c.val = NoReply
      BY <1>t, ConstantTypes DEF Call, Idle, Querying
    <3> HIDE DEF c
    <3>2. QED
      BY <1>t, <1>v, <2>1, <2>3, <3>1, IdleCall
  <2>4. QED
    BY <1>16, <2>2, <2>3 DEF Wake
<1>17. ASSUME NEW p \in Proc, Forget(p) PROVE FlightInv'
  <2>1. Idle \in Call /\ Idle.pc = "idle" /\ Idle.val = NoReply
    BY ConstantTypes DEF Idle
  <2>2. ~Leading(q[p]) /\ q' = [q EXCEPT ![p] = Idle] /\ flights' = flights /\ remote' = remote
        /\ values' = values
    BY <1>17 DEF Forget, At, Leading
  <2>3. QED
    BY <1>t, <1>v, <2>1, <2>2, IdleCall
<1>18. ASSUME NEW p \in Proc, NEW ns \in Mutated, Begin(p, ns) PROVE FlightInv'
  <2> DEFINE c == [Idle EXCEPT !.pc = "begun", !.names = ns]
  <2>1. c \in Call /\ c.pc = "begun" /\ c.val = NoReply
    BY ConstantTypes, CacheConstants DEF Call, Idle
  <2>2. ~Leading(q[p]) /\ q' = [q EXCEPT ![p] = c] /\ flights' = flights /\ remote' = remote
    BY <1>18 DEF Begin, At, Leading
  <2>3. \A k \in DOMAIN values' : Past(values'[k].ver)
    BY <1>18, <1>t, DropPast DEF Begin, Invalidate
  <2> HIDE DEF c
  <2>4. QED
    BY <1>t, <2>1, <2>2, <2>3, IdleCall
<1>19. ASSUME NEW p \in Proc, Apply(p) PROVE FlightInv'
  <2> DEFINE c == [q[p] EXCEPT !.pc = "applied"]
  <2>1. c \in Call /\ c.pc = "applied" /\ c.val = q[p].val
    <3>1. c \in Call
      BY <1>t, CallUpdates
    <3>2. /\ c.pc = "applied" /\ c.val = q[p].val
      BY <1>t DEF Call
    <3>3. QED
      BY <3>1, <3>2
  <2>2. /\ ~Leading(q[p]) /\ q' = [q EXCEPT ![p] = c] /\ flights' = flights
        /\ values' = values
    BY <1>19 DEF Apply, At, Leading
  <2>3. \A x \in Path : remote[x] <= remote'[x]
    BY <1>19, <1>t DEF Apply, Version
  <2> HIDE DEF c
  <2>4. ~Leading(c) /\ c.pc # "wait"
    BY <2>1 DEF Leading
  <2>5. FlightsLed'
    BY <1>t, <2>1, <2>2, <2>4, SameFlights DEF FlightInv
  <2>6. \A r \in Proc : q'[r].val = q[r].val
    BY <1>t, <1>w, <2>1, <2>2, <2>4
  <2>7. QED
    BY <1>t, <2>2, <2>3, <2>5, <2>6, ServerMoves
<1>20. ASSUME NEW p \in Proc, End(p) PROVE FlightInv'
  <2>1. Idle \in Call /\ Idle.pc = "idle" /\ Idle.val = NoReply
    BY ConstantTypes DEF Idle
  <2>2. ~Leading(q[p]) /\ q' = [q EXCEPT ![p] = Idle] /\ flights' = flights /\ remote' = remote
    BY <1>20 DEF End, Leading
  <2>3. \A k \in DOMAIN values' : Past(values'[k].ver)
    BY <1>20, <1>t, DropPast DEF End, Invalidate
  <2>4. QED
    BY <1>t, <2>1, <2>2, <2>3, IdleCall
<1>21. ASSUME Close PROVE FlightInv'
  <2>1. UNCHANGED <<flights, q, remote>> /\ DOMAIN values' = {}
    BY <1>21 DEF Close
  <2>2. QED
    BY <2>1 DEF FlightInv, FlightsLed, Leading, FlightFor, Past, At
<1>22. ASSUME NEW x \in Shared, OthersChange(x) PROVE FlightInv'
  <2>1. UNCHANGED <<flights, q, values>> /\ \A y \in Path : remote[y] <= remote'[y]
    BY <1>22, <1>t, CacheConstants DEF OthersChange, Version
  <2>2. FlightsLed' /\ \A r \in Proc : q'[r].val = q[r].val
    BY <1>w, <2>1 DEF FlightInv, FlightsLed, Leading, FlightFor, At
  <2>3. QED
    BY <1>t, <2>1, <2>2, ServerMoves
<1>23. QED
  BY <1>0, <1>1, <1>2, <1>3, <1>4, <1>5, <1>6, <1>7, <1>8, <1>9, <1>10, <1>11, <1>12,
     <1>13, <1>14, <1>15, <1>16, <1>17, <1>18, <1>19, <1>20, <1>21, <1>22 DEF Next, Step

\* FlightInv holds of every reachable state.
LEMMA FlightsAlways == Spec => [](FreshInv /\ FlightInv)
BY FreshInit, FreshStep, FlightInit, FlightStep, PTL DEF Spec

\* c.flights: two goroutines that call the backend for one key and generation,
\* outside of mutations, are one and the same; from the registered flight of each
\* leader and the uniqueness of flights.
THEOREM OneFlightPerKey == Spec => []SingleFlight
<1>1. FlightInv => SingleFlight
  <2> SUFFICES ASSUME FlightInv, NEW p \in Proc, NEW r \in Proc,
                      Leading(q[p]), Leading(q[r]), q[p].key = q[r].key, q[p].gen = q[r].gen
               PROVE  p = r
    BY DEF SingleFlight, Leading
  <2>1. FlightFor(q[p], p) \in flights /\ FlightFor(q[r], r) \in flights
    BY DEF FlightInv, FlightsLed
  <2>2. FlightFor(q[p], p) = FlightFor(q[r], r)
    BY <2>1 DEF FlightInv, FlightsLed, FlightFor
  <2>3. QED
    BY <2>2 DEF FlightFor
<1>2. QED
  BY <1>1, FlightsAlways, PTL

\* query: a step that returns a context error to a caller has found the caller's own
\* context done, or ends the backend call that the caller made itself; the table holds
\* no errors, and the waiter of a flight that ended with one begins again.
THEOREM CancellationIsOwn == Spec => OwnCancellation
<1> DEFINE Own == \A p \in Proc :
              ~At(p, "done") /\ At(p, "done")' /\ q'[p].val.kind = "canceled"
                  => q[p].ctx \/ At(p, "reply")
<1>1. FreshInv /\ FlightInv /\ [Next]_vars => [Own]_vars
  <2> SUFFICES ASSUME FreshInv, Next, NEW r \in Proc, ~At(r, "done"), At(r, "done")',
                      q'[r].val.kind = "canceled", ~q[r].ctx, ~At(r, "reply")
               PROVE  FALSE
    OBVIOUS
  <2>t. /\ TypeInv /\ q \in [Proc -> Call]
        /\ \A p \in Proc : q[p] \in Call /\ q[p].val \in Reply
        /\ \A k \in DOMAIN values : values[k] \in Cached
    BY DEF FreshInv, TypeInv, TypeOK, Call
  <2>e. \A kind \in Kinds : Failure(kind) \in Reply /\ Failure(kind).kind = kind
    BY ConstantTypes DEF Failure
  <2>r. \A p \in Proc, reply \in Reply : Return(p, reply) =>
            q'[p].val = reply /\ \A w \in Proc \ {p} : q'[w] = q[w]
    <3> SUFFICES ASSUME NEW p \in Proc, NEW reply \in Reply, Return(p, reply)
                 PROVE  q'[p].val = reply /\ \A w \in Proc \ {p} : q'[w] = q[w]
      OBVIOUS
    <3>1. q'[p] = Returned(q[p], reply) /\ \A w \in Proc \ {p} : q'[w] = q[w]
      BY <2>t DEF Return
    <3>2. QED
      BY <2>t, <3>1, ReturnedIs
  <2>n. q'[r] # q[r]
    BY DEF At
  <2>1. ASSUME NEW p \in Proc,
               \/ RejectTraversal(p) \/ CheckContext(p) \/ Closed(p) \/ WaitCanceled(p)
        PROVE  FALSE
    <3>1. {"error", "canceled", "closed"} \subseteq Kinds
      BY DEF Kinds
    <3>2. CASE CheckContext(p) /\ ~q[p].ctx
      BY <2>t, <2>n, <3>2 DEF CheckContext, At, Call
    <3>3. CASE \E kind \in {"error", "canceled", "closed"} :
                 Return(p, Failure(kind)) /\ (kind = "canceled" => q[p].ctx)
      BY <2>e, <2>r, <2>n, <3>1, <3>3
    <3>4. QED
      BY <2>1, <3>2, <3>3 DEF RejectTraversal, CheckContext, Closed, WaitCanceled
  <2>2. ASSUME NEW p \in Proc, Hit(p) PROVE FALSE
    <3> DEFINE v == values[q[p].key]
    <3>1. v \in Cached /\ Return(p, [kind |-> v.kind, ver |-> v.ver])
      BY <2>2, <2>t DEF Hit
    <3>2. [kind |-> v.kind, ver |-> v.ver] \in Reply /\ v.kind # "canceled"
      BY <3>1 DEF Reply, Cached, Kinds
    <3> HIDE DEF v
    <3>3. QED
      BY <2>r, <2>n, <3>1, <3>2
  <2>3. ASSUME NEW p \in Proc, Wake(p) PROVE FALSE
    <3> DEFINE c == [Idle EXCEPT !.pc = "top", !.key = q[p].key,
                                 !.ctx = q[p].ctx, !.since = q[p].since]
    <3>1. CASE q[p].val.kind # "canceled" /\ Return(p, q[p].val)
      BY <2>t, <2>r, <2>n, <3>1
    <3>2. CASE q' = [q EXCEPT ![p] = c]
      <4>1. c.pc = "top"
        BY DEF Idle
      <4> HIDE DEF c
      <4>2. QED
        BY <2>t, <2>n, <3>2, <4>1 DEF At
    <3>3. QED
      BY <2>3, <3>1, <3>2 DEF Wake
  <2>4. ASSUME NEW p \in Proc, SettleUnstored(p) \/ SettlePublish(p) PROVE FALSE
    <3>1. Publish(p) /\ q[p].pc \in {"reply", "seed"}
      BY <2>4 DEF SettleUnstored, SettlePublish, At
    <3>2. CASE r = p
      <4>1. q'[p] = Returned(q[p], q[p].val) /\ q[p].pc = "seed"
        BY <3>1, <3>2 DEF Publish, At
      <4>2. q'[p].val = q[p].val
        BY <2>t, <4>1, ReturnedIs
      <4>3. q[p].val.kind \in Positive
        BY <4>1 DEF FreshInv, FreshCall
      <4>4. QED
        BY <3>2, <4>2, <4>3 DEF Positive
    <3>3. CASE r # p
      <4>1. q'[r] = [q[r] EXCEPT !.pc = "woken", !.val = q[p].val]
        BY <2>n, <3>1, <3>3 DEF Publish
      <4>2. QED
        BY <2>t, <4>1 DEF At, Call
    <3>4. QED
      BY <3>2, <3>3
  <2>5. ASSUME NEW p \in Proc, NEW c, q' = [q EXCEPT ![p] = c], c.pc # "done" PROVE FALSE
    BY <2>t, <2>n, <2>5 DEF At
  <2>6. ASSUME NEW p \in Proc,
               \/ Join(p) \/ Lead(p) \/ BackendReplies(p) \/ SettleStored(p) \/ SeedChild(p)
               \/ Cancel(p) \/ Apply(p)
        PROVE  FALSE
    <3>1. (Cancel(p) => q[p].pc # "done") /\ (SeedChild(p) => q[p].pc = "seed")
      BY <2>t DEF Cancel, Querying, SeedChild, At
    <3>2. \A w \in Proc \ {p} : q'[w] = q[w]
      BY <2>6, <2>t DEF Join, Lead, BackendReplies, SettleStored, SeedChild, Cancel, Apply
    <3>3. q'[p].pc # "done"
      <4>1. CASE Join(p)
        <5>1. PICK f \in FlightOf(q[p].key) :
                q' = [q EXCEPT ![p] = [q[p] EXCEPT !.pc = "wait", !.leader = f.leader,
                                                   !.gen = generation]]
          BY <2>t, <4>1 DEF Join
        <5>2. QED
          BY <2>t, <5>1 DEF Call
      <4>2. CASE Lead(p)
        <5>1. q' = [q EXCEPT ![p] = [q[p] EXCEPT !.pc = "call", !.gen = generation,
                                                 !.merge = (changing = 0)]]
          BY <2>t, <4>2 DEF Lead
        <5>2. QED
          BY <2>t, <5>1 DEF Call
      <4>3. CASE BackendReplies(p)
        BY <2>t, <4>3 DEF BackendReplies, Call
      <4>4. CASE SettleStored(p)
        BY <2>t, <4>4 DEF SettleStored, Call
      <4>5. CASE SeedChild(p)
        BY <2>t, <3>1, <4>5 DEF SeedChild, Call
      <4>6. CASE Cancel(p)
        BY <2>t, <3>1, <4>6 DEF Cancel, Call
      <4>7. CASE Apply(p)
        BY <2>t, <4>7 DEF Apply, Call
      <4>8. QED
        BY <2>6, <4>1, <4>2, <4>3, <4>4, <4>5, <4>6, <4>7
    <3>4. QED
      BY <2>n, <3>2, <3>3 DEF At
  <2>7. ASSUME NEW p \in Proc,
               \/ \E k \in Queried : Query(p, k)
               \/ QueryTraversal(p) \/ Forget(p) \/ End(p) \/ \E ns \in Mutated : Begin(p, ns)
        PROVE  FALSE
    <3>1. CASE \E k \in Queried : Query(p, k)
      <4>1. PICK k \in Queried : Query(p, k)
        BY <3>1
      <4> DEFINE c == [Idle EXCEPT !.pc = "top", !.key = k, !.since = Only(settled, Covers(k))]
      <4>2. c.pc = "top" /\ q' = [q EXCEPT ![p] = c]
        BY <4>1 DEF Query, Idle
      <4> HIDE DEF c
      <4>3. QED
        BY <2>5, <4>2
    <3>2. CASE QueryTraversal(p) \/ Forget(p) \/ End(p)
      BY <2>5, <3>2 DEF QueryTraversal, Forget, End, Idle
    <3>3. CASE \E ns \in Mutated : Begin(p, ns)
      <4>1. PICK ns \in Mutated : Begin(p, ns)
        BY <3>3
      <4> DEFINE c == [Idle EXCEPT !.pc = "begun", !.names = ns]
      <4>2. c.pc = "begun" /\ q' = [q EXCEPT ![p] = c]
        BY <4>1 DEF Begin, Idle
      <4> HIDE DEF c
      <4>3. QED
        BY <2>5, <4>2
    <3>4. QED
      BY <2>7, <3>1, <3>2, <3>3
  <2>8. ASSUME q' = q PROVE FALSE
    BY <2>8, <2>n
  <2>9. QED
    BY <2>1, <2>2, <2>3, <2>4, <2>6, <2>7, <2>8 DEF Next, Step, Close, OthersChange
<1>2. QED
  BY <1>1, FlightsAlways, PTL DEF OwnCancellation, Spec

\* The goroutine a waiter waits for is still under way, and will find it.
WaitersLed ==
    \A w \in Proc : At(w, "wait") =>
        /\ Leading(q[q[w].leader])
        /\ WaitsOn(w, q[w].leader)

\* query, Publish: no wakeup is lost; whoever waits on a flight's channel waits
\* for a leader that has yet to close it.
THEOREM NoLostWakeup == Spec => []WaitersLed
<1>1. FlightInv => WaitersLed
  <2> SUFFICES ASSUME FlightInv, NEW w \in Proc, At(w, "wait")
               PROVE  Leading(q[q[w].leader]) /\ WaitsOn(w, q[w].leader)
    BY DEF WaitersLed
  <2> DEFINE f == FlightFor(q[w], q[w].leader)
  <2>1. f \in flights
    BY DEF FlightInv, FlightsLed
  <2>2. Leading(q[f.leader]) /\ f = FlightFor(q[f.leader], f.leader)
    BY <2>1 DEF FlightInv, FlightsLed
  <2>3. f.leader = q[w].leader /\ f.key = q[w].key /\ f.gen = q[w].gen
    BY DEF FlightFor
  <2> HIDE DEF f
  <2>4. f.key = q[f.leader].key /\ f.gen = q[f.leader].gen
    BY <2>2 DEF FlightFor
  <2>5. QED
    BY <2>2, <2>3, <2>4 DEF WaitsOn
<1>2. QED
  BY <1>1, FlightsAlways, PTL

-----------------------------------------------------------------------------
(* The refinement: MetadataCache implements FreshReads.                    *)

Reading == [p \in Proc |-> ReadingOf(p)]

\* What a caller sees of a step that keeps its query going.
LEMMA GoesOn ==
    ASSUME NEW p \in Proc, q[p].pc \in Querying \ {"pass"}, q'[p].pc \in Querying \ {"pass"},
           q'[p].key = q[p].key, q'[p].since = q[p].since
    PROVE  ReadingOf(p)' = ReadingOf(p)
BY DEF ReadingOf, At

\* A call that nobody touches looks the same.
LEMMA LooksSame ==
    ASSUME NEW p \in Proc, q'[p] = q[p]
    PROVE  ReadingOf(p)' = ReadingOf(p)
BY DEF ReadingOf, At

\* A query that returns is a read that returns a state of the server between what
\* it must see and now, or that fails.
LEMMA ReturnsRead ==
    ASSUME FreshInv, FreshInv', NEW p \in Proc, NEW reply \in Reply,
           q[p].pc \in Querying, q'[p] = Returned(q[p], reply),
           q[p].pc = "pass" => reply.kind \notin Positive,
           Past(reply.ver), \A r \in Proc \ {p} : ReadingOf(r)' = ReadingOf(r),
           UNCHANGED <<remote, settled>>
    PROVE  Fresh!Next
<1>1. q[p] \in Call /\ remote \in Version
  BY DEF FreshInv, TypeInv, TypeOK
<1>2. /\ q'[p].pc = "done" /\ q'[p].val = reply /\ q'[p].key = q[p].key
      /\ q'[p].since = q[p].since
  BY <1>1, ReturnedIs
<1>3. ReadingOf(p).at = "pending"
  BY DEF ReadingOf, At
<1>4. CASE reply.kind \in Positive
  <2> DEFINE over == Covers(q[p].key)
  <2>1. ReadingOf(p) = [at |-> "pending", over |-> over, since |-> q[p].since]
    BY <1>4 DEF ReadingOf, At
  <2>2. ReadingOf(p)' = [at |-> "result", over |-> over, since |-> q[p].since,
                         seen |-> reply.ver]
    BY <1>2, <1>4 DEF ReadingOf, At, Positive, Querying
  <2>3. reply.ver \in Version /\ over \subseteq Path
    BY <1>1, CoversPaths DEF Reply, Call
  <2>4. \A x \in over : q[p].since[x] <= reply.ver[x] /\ reply.ver[x] <= remote[x]
    <3>1. FreshCall(p, q[p])'
      BY DEF FreshInv
    <3>2. QED
      BY <1>2, <1>4, <2>3, <3>1 DEF FreshCall, Past
  <2>5. reply.ver \in Fresh!Reached
    <3>1. \A x \in Path : reply.ver[x] \in 0 .. remote[x]
      BY <1>1, <2>3 DEF Past, Version
    <3>2. \A x \in Path : reply.ver[x] \in UNION {0 .. remote[y] : y \in Path}
      BY <3>1
    <3>3. QED
      BY <2>3, <3>2 DEF Fresh!Reached, Version
  <2> HIDE DEF over
  <2>6. Reading' = [Reading EXCEPT ![p] = Fresh!Result(Reading[p], reply.ver)]
    <3>1. Fresh!Result(ReadingOf(p), reply.ver) = ReadingOf(p)'
      BY <2>1, <2>2 DEF Fresh!Result
    <3>2. Reading[p] = ReadingOf(p)
      BY DEF Reading
    <3>3. Reading' = [r \in Proc |-> ReadingOf(r)']
      BY DEF Reading
    <3>4. QED
      BY <3>1, <3>2, <3>3 DEF Reading
  <2>7. Fresh!ReturnRead(p)
    <3>1. /\ Reading[p].at = "pending" /\ Reading[p].over = over
          /\ Reading[p].since = q[p].since
      BY <2>1 DEF Reading
    <3>2. \A x \in Reading[p].over :
            Reading[p].since[x] <= reply.ver[x] /\ reply.ver[x] <= remote[x]
      BY <2>4, <3>1
    <3>3. QED
      BY <2>5, <2>6, <3>1, <3>2 DEF Fresh!ReturnRead, Reading
  <2>8. QED
    BY <2>7 DEF Fresh!Next
<1>5. CASE reply.kind \notin Positive
  <2>1. ReadingOf(p)' = [at |-> "failed"]
    BY <1>2, <1>5 DEF ReadingOf, At, Positive, Querying
  <2>2. Reading' = [Reading EXCEPT ![p] = Fresh!Failed]
    BY <2>1 DEF Reading, Fresh!Failed
  <2>3. Fresh!FailRead(p)
    BY <1>3, <2>2 DEF Fresh!FailRead, Reading
  <2>4. QED
    BY <2>3 DEF Fresh!Next
<1>6. QED
  BY <1>4, <1>5

\* A step that no caller sees.
LEMMA Unseen ==
    ASSUME \A r \in Proc : ReadingOf(r)' = ReadingOf(r), UNCHANGED <<remote, settled>>
    PROVE  UNCHANGED Fresh!freshVars
BY DEF Fresh!freshVars

\* A query's step that keeps it going is one that no caller sees.
LEMMA GoesOnUnseen ==
    ASSUME q \in [Proc -> Call], NEW p \in Proc, NEW c \in Call, q' = [q EXCEPT ![p] = c],
           q[p].pc \in Querying \ {"pass"}, c.pc \in Querying \ {"pass"},
           c.key = q[p].key, c.since = q[p].since, UNCHANGED <<remote, settled>>
    PROVE  UNCHANGED Fresh!freshVars
<1>1. q'[p] = c /\ \A r \in Proc \ {p} : q'[r] = q[r]
  OBVIOUS
<1>2. ReadingOf(p)' = ReadingOf(p)
  BY <1>1, GoesOn
<1>3. \A r \in Proc : ReadingOf(r)' = ReadingOf(r)
  BY <1>1, <1>2, LooksSame
<1>4. QED
  BY <1>3, Unseen

\* Return is a read's end.
LEMMA ReturnRefines ==
    ASSUME FreshInv, FreshInv', NEW p \in Proc, NEW reply \in Reply, q[p].pc \in Querying,
           Return(p, reply), q[p].pc = "pass" => reply.kind \notin Positive, Past(reply.ver),
           UNCHANGED <<remote, settled>>
    PROVE  Fresh!Next
<1>1. q \in [Proc -> Call]
  BY DEF FreshInv, TypeInv, TypeOK
<1>2. q'[p] = Returned(q[p], reply) /\ \A r \in Proc \ {p} : q'[r] = q[r]
  BY <1>1 DEF Return
<1>3. \A r \in Proc \ {p} : ReadingOf(r)' = ReadingOf(r)
  BY <1>2, LooksSame
<1>4. QED
  BY <1>2, <1>3, ReturnsRead

\* Publish is the leader's return: the waiters it wakes go on.
LEMMA PublishRefines ==
    ASSUME FreshInv, FreshInv', FlightInv, NEW p \in Proc, q[p].pc \in {"reply", "seed"},
           Publish(p), UNCHANGED <<remote, settled>>
    PROVE  Fresh!Next
<1>1. q \in [Proc -> Call] /\ q[p].val \in Reply
  BY DEF FreshInv, TypeInv, TypeOK, Call
<1>2. ASSUME NEW w \in Proc \ {p} PROVE ReadingOf(w)' = ReadingOf(w)
  <2>1. CASE q'[w] = q[w]
    BY <2>1, LooksSame
  <2>2. CASE WaitsOn(w, p) /\ q'[w] = [q[w] EXCEPT !.pc = "woken", !.val = q[p].val]
    <3>1. q[w].pc \in Querying \ {"pass"}
      BY <2>2 DEF WaitsOn, At, Querying
    <3>2. /\ q'[w].pc \in Querying \ {"pass"}
          /\ q'[w].key = q[w].key /\ q'[w].since = q[w].since
      BY <1>1, <2>2 DEF Call, Querying
    <3>3. QED
      BY <3>1, <3>2, GoesOn
  <2>3. QED
    BY <2>1, <2>2 DEF Publish
<1>3. q'[p] = Returned(q[p], q[p].val)
  BY <1>1 DEF Publish
<1>4. q[p].pc \in Querying /\ q[p].pc # "pass" /\ Past(q[p].val.ver)
  BY DEF Querying, FlightInv
<1>5. QED
  BY <1>1, <1>2, <1>3, <1>4, ReturnsRead

\* A call that begins a read of the paths a key covers.
LEMMA StartRefines ==
    ASSUME q \in [Proc -> Call], NEW p \in Proc, NEW c \in Call, q' = [q EXCEPT ![p] = c],
           q[p].pc = "idle", NEW over \in SUBSET Path,
           ReadingOf(p)' = [at |-> "pending", over |-> over, since |-> Only(settled, over)],
           UNCHANGED <<remote, settled>>
    PROVE  Fresh!Next
<1>1. \A r \in Proc \ {p} : ReadingOf(r)' = ReadingOf(r)
  BY LooksSame
<1>2. ReadingOf(p) = Fresh!NoRead
  BY DEF ReadingOf, At, Querying, Fresh!NoRead
<1>3. ReadingOf(p)' = Fresh!PendingRead(over)
  BY DEF Fresh!PendingRead, Fresh!Only, Only
<1>4. Reading[p] = Fresh!NoRead
  BY <1>2 DEF Reading
<1>5. Reading' = [Reading EXCEPT ![p] = Fresh!PendingRead(over)]
  <2>1. Reading' = [r \in Proc |-> ReadingOf(r)']
    BY DEF Reading
  <2>2. QED
    BY <1>1, <1>3, <2>1 DEF Reading
<1>6. Fresh!StartRead(p)
  BY <1>4, <1>5 DEF Fresh!StartRead, Reading
<1>7. QED
  BY <1>6 DEF Fresh!Next

\* The initial states are initial states of FreshReads.
LEMMA InitRefines == Init => Fresh!Init
<1> SUFFICES ASSUME Init PROVE Fresh!Init
  OBVIOUS
<1>1. \A p \in Proc : ReadingOf(p) = [at |-> "idle"]
  BY DEF Init, Idle, ReadingOf, At, Querying
<1>2. Reading = [p \in Proc |-> Fresh!NoRead]
  BY <1>1 DEF Reading, Fresh!NoRead
<1>3. QED
  BY <1>2 DEF Init, Zero, Fresh!Init, Reading

\* Every step of the cache is a step of FreshReads, or one that no caller sees.
LEMMA StepRefines ==
    FreshInv /\ FreshInv' /\ FlightInv /\ [Next]_vars => [Fresh!Next]_(Fresh!freshVars)
<1> SUFFICES ASSUME FreshInv, FreshInv', FlightInv, [Next]_vars
             PROVE  Fresh!Next \/ UNCHANGED Fresh!freshVars
  OBVIOUS
<1> USE DEF cacheVars
<1>t. /\ q \in [Proc -> Call] /\ remote \in Version /\ remote' \in Version
      /\ settled \in Version /\ generation \in Nat
      /\ \A p \in Proc : q[p] \in Call /\ q[p].val \in Reply
      /\ \A k \in DOMAIN values : values[k] \in Cached
  <2>1. TypeInv /\ TypeInv'
    BY DEF FreshInv
  <2>2. q \in [Proc -> Call] /\ \A p \in Proc : q[p] \in Call
    BY <2>1 DEF TypeInv, TypeOK
  <2>3. \A p \in Proc : q[p].val \in Reply
    BY <2>2 DEF Call
  <2>4. QED
    BY <2>1, <2>2, <2>3 DEF TypeInv, TypeOK
<1>w. \A p \in Proc : Past(q[p].val.ver)
  BY DEF FlightInv
<1>e. \A kind \in Kinds : Failure(kind) \in Reply /\ Failure(kind).kind = kind
                          /\ Past(Failure(kind).ver)
  BY <1>t, ConstantTypes, ZeroPast DEF Failure
<1>k. "error" \in Kinds \ Positive /\ "canceled" \in Kinds \ Positive
      /\ "closed" \in Kinds \ Positive
  BY DEF Kinds, Positive
<1>q. {"pass", "top", "lock", "wait", "woken", "call", "reply", "seed"} = Querying
  BY DEF Querying
<1>0. CASE UNCHANGED vars
  BY <1>0, Unseen, LooksSame DEF vars
<1>1. ASSUME NEW p \in Proc, NEW k \in Queried, Query(p, k) PROVE Fresh!Next
  <2> DEFINE c == [Idle EXCEPT !.pc = "top", !.key = k, !.since = Only(settled, Covers(k))]
  <2>1. k \in Key /\ Only(settled, Covers(k)) \in Version /\ Covers(k) \in SUBSET Path
    BY <1>t, OnlyType, CoversPaths, CacheConstants DEF Key
  <2>2. c \in Call /\ c.pc = "top" /\ c.key = k /\ c.since = Only(settled, Covers(k))
    BY <2>1, ConstantTypes DEF Call, Idle, Querying
  <2>3. q' = [q EXCEPT ![p] = c] /\ q[p].pc = "idle" /\ UNCHANGED <<remote, settled>>
    BY <1>1 DEF Query, At
  <2> HIDE DEF c
  <2>4. q'[p] = c
    BY <1>t, <2>3
  <2>5. ReadingOf(p)' = [at |-> "pending", over |-> Covers(k), since |-> Only(settled, Covers(k))]
    BY <2>2, <2>4 DEF ReadingOf, At, Querying
  <2>6. QED
    BY <1>t, <2>1, <2>2, <2>3, <2>5, StartRefines
<1>2. ASSUME NEW p \in Proc, QueryTraversal(p) PROVE Fresh!Next
  <2> DEFINE c == [Idle EXCEPT !.pc = "pass"]
  <2>1. c \in Call /\ c.pc = "pass"
    BY ConstantTypes DEF Call, Idle, Querying
  <2>2. q' = [q EXCEPT ![p] = c] /\ q[p].pc = "idle" /\ UNCHANGED <<remote, settled>>
    BY <1>2 DEF QueryTraversal, At
  <2> HIDE DEF c
  <2>3. q'[p] = c
    BY <1>t, <2>2
  <2>4. ReadingOf(p)' = [at |-> "pending", over |-> {}, since |-> Only(settled, {})]
    BY <2>1, <2>3 DEF ReadingOf, At, Zero, Only
  <2>5. {} \in SUBSET Path
    OBVIOUS
  <2>6. QED
    BY <1>t, <2>1, <2>2, <2>4, <2>5, StartRefines
<1>3. ASSUME NEW p \in Proc, Cancel(p) PROVE UNCHANGED Fresh!freshVars
  <2>1. /\ q'[p].pc = q[p].pc /\ q'[p].val = q[p].val /\ q'[p].key = q[p].key
        /\ q'[p].since = q[p].since /\ \A r \in Proc \ {p} : q'[r] = q[r]
        /\ UNCHANGED <<remote, settled>>
    BY <1>3, <1>t DEF Cancel, Call
  <2>2. ReadingOf(p)' = ReadingOf(p)
    BY <2>1 DEF ReadingOf, At
  <2>3. QED
    BY <2>1, <2>2, LooksSame, Unseen
<1>4. ASSUME NEW p \in Proc, RejectTraversal(p) PROVE Fresh!Next
  <2>1. q[p].pc \in Querying /\ Return(p, Failure("error")) /\ UNCHANGED <<remote, settled>>
    BY <1>4, <1>q DEF RejectTraversal, At
  <2>2. QED
    BY <1>e, <1>k, <2>1, ReturnRefines
<1>5. ASSUME NEW p \in Proc, CheckContext(p) PROVE Fresh!Next \/ UNCHANGED Fresh!freshVars
  <2>1. q[p].pc = "top" /\ q[p].pc \in Querying \ {"pass"} /\ UNCHANGED <<remote, settled>>
    BY <1>5, <1>q DEF CheckContext, At
  <2>2. CASE q[p].ctx
    <3>1. Return(p, Failure("canceled"))
      BY <1>5, <2>2 DEF CheckContext
    <3>2. QED
      BY <1>e, <1>k, <2>1, <3>1, ReturnRefines
  <2>3. CASE ~q[p].ctx
    <3> DEFINE c == [q[p] EXCEPT !.pc = "lock"]
    <3>1. c \in Call /\ q' = [q EXCEPT ![p] = c]
      BY <1>5, <1>t, <2>3, CallUpdates DEF CheckContext
    <3>2. c.pc = "lock" /\ c.key = q[p].key /\ c.since = q[p].since
      BY <1>t DEF Call
    <3> HIDE DEF c
    <3>3. QED
      BY <1>t, <1>q, <2>1, <3>1, <3>2, GoesOnUnseen
  <2>4. QED
    BY <2>2, <2>3
<1>6. ASSUME NEW p \in Proc, Closed(p) PROVE Fresh!Next
  <2>1. q[p].pc = "lock" /\ Return(p, Failure("closed")) /\ UNCHANGED <<remote, settled>>
    BY <1>6 DEF Closed, At
  <2>2. QED
    BY <1>e, <1>k, <1>q, <2>1, ReturnRefines
<1>7. ASSUME NEW p \in Proc, Hit(p) PROVE Fresh!Next
  <2> DEFINE v == values[q[p].key]
             reply == [kind |-> v.kind, ver |-> v.ver]
  <2>1. v \in Cached /\ Past(v.ver)
    BY <1>7, <1>t DEF Hit, FlightInv
  <2>2. reply \in Reply /\ Past(reply.ver)
    BY <2>1 DEF Reply, Cached, Kinds
  <2>3. q[p].pc = "lock" /\ Return(p, reply) /\ UNCHANGED <<remote, settled>>
    BY <1>7 DEF Hit, At
  <2> HIDE DEF v, reply
  <2>4. QED
    BY <1>q, <2>2, <2>3, ReturnRefines
<1>8. ASSUME NEW p \in Proc, Join(p) PROVE UNCHANGED Fresh!freshVars
  <2>1. PICK f \in flights :
          q' = [q EXCEPT ![p].pc = "wait", ![p].leader = f.leader, ![p].gen = generation]
    BY <1>8 DEF Join, FlightOf
  <2> DEFINE c == [q[p] EXCEPT !.pc = "wait", !.leader = f.leader, !.gen = generation]
  <2>2. f.leader \in Proc
    BY DEF FreshInv, TypeInv, TypeOK, Flight
  <2>3. c \in Call /\ q' = [q EXCEPT ![p] = c]
    BY <1>t, <2>1, <2>2, CallUpdates
  <2>4. c.pc = "wait" /\ c.key = q[p].key /\ c.since = q[p].since
    BY <1>t DEF Call
  <2>5. q[p].pc = "lock" /\ UNCHANGED <<remote, settled>>
    BY <1>8 DEF Join, At
  <2> HIDE DEF c
  <2>6. QED
    BY <1>t, <1>q, <2>3, <2>4, <2>5, GoesOnUnseen
<1>9. ASSUME NEW p \in Proc, Lead(p) PROVE UNCHANGED Fresh!freshVars
  <2> DEFINE c == [q[p] EXCEPT !.pc = "call", !.gen = generation, !.merge = (changing = 0)]
  <2>1. c \in Call /\ q' = [q EXCEPT ![p] = c]
    BY <1>9, <1>t, CallUpdates DEF Lead
  <2>2. c.pc = "call" /\ c.key = q[p].key /\ c.since = q[p].since
    BY <1>t DEF Call
  <2>3. q[p].pc = "lock" /\ UNCHANGED <<remote, settled>>
    BY <1>9 DEF Lead, At
  <2> HIDE DEF c
  <2>4. QED
    BY <1>t, <1>q, <2>1, <2>2, <2>3, GoesOnUnseen
<1>10. ASSUME NEW p \in Proc, BackendReplies(p) PROVE UNCHANGED Fresh!freshVars
  <2>1. /\ q'[p].pc = "reply" /\ q'[p].key = q[p].key /\ q'[p].since = q[p].since
        /\ q[p].pc = "call" /\ \A r \in Proc \ {p} : q'[r] = q[r]
        /\ UNCHANGED <<remote, settled>>
    BY <1>10, <1>t DEF BackendReplies, At, Call
  <2>2. ReadingOf(p)' = ReadingOf(p)
    BY <1>q, <2>1, GoesOn
  <2>3. QED
    BY <2>1, <2>2, LooksSame, Unseen
<1>11. ASSUME NEW p \in Proc, SettleUnstored(p) PROVE Fresh!Next
  BY <1>11, PublishRefines DEF SettleUnstored, At
<1>12. ASSUME NEW p \in Proc, SettleStored(p) PROVE UNCHANGED Fresh!freshVars
  <2>1. PICK s \in SUBSET Path : q' = [q EXCEPT ![p].pc = "seed", ![p].seeds = s]
    BY <1>12 DEF SettleStored, Children
  <2> DEFINE c == [q[p] EXCEPT !.pc = "seed", !.seeds = s]
  <2>2. c \in Call /\ q' = [q EXCEPT ![p] = c]
    BY <1>t, <2>1, CallUpdates
  <2>3. c.pc = "seed" /\ c.key = q[p].key /\ c.since = q[p].since
    BY <1>t DEF Call
  <2>4. q[p].pc = "reply" /\ UNCHANGED <<remote, settled>>
    BY <1>12 DEF SettleStored, At
  <2> HIDE DEF c
  <2>5. QED
    BY <1>t, <1>q, <2>2, <2>3, <2>4, GoesOnUnseen
<1>13. ASSUME NEW p \in Proc, SeedChild(p) PROVE UNCHANGED Fresh!freshVars
  <2>1. PICK s \in SUBSET Path : q' = [q EXCEPT ![p].seeds = s]
    BY <1>13, <1>t DEF SeedChild, Call
  <2> DEFINE c == [q[p] EXCEPT !.seeds = s]
  <2>2. c \in Call /\ q' = [q EXCEPT ![p] = c]
    BY <1>t, <2>1, CallUpdates
  <2>3. c.pc = q[p].pc /\ c.key = q[p].key /\ c.since = q[p].since
    BY <1>t DEF Call
  <2>4. q[p].pc = "seed" /\ UNCHANGED <<remote, settled>>
    BY <1>13 DEF SeedChild, At
  <2> HIDE DEF c
  <2>5. QED
    BY <1>t, <1>q, <2>2, <2>3, <2>4, GoesOnUnseen
<1>14. ASSUME NEW p \in Proc, SettlePublish(p) PROVE Fresh!Next
  BY <1>14, PublishRefines DEF SettlePublish, At
<1>15. ASSUME NEW p \in Proc, WaitCanceled(p) PROVE Fresh!Next
  <2>1. /\ q[p].pc \in {"wait", "woken"} /\ Return(p, Failure("canceled"))
        /\ UNCHANGED <<remote, settled>>
    BY <1>15 DEF WaitCanceled
  <2>2. QED
    BY <1>e, <1>k, <1>q, <2>1, ReturnRefines
<1>16. ASSUME NEW p \in Proc, Wake(p) PROVE Fresh!Next \/ UNCHANGED Fresh!freshVars
  <2>1. q[p].pc = "woken" /\ UNCHANGED <<remote, settled>>
    BY <1>16 DEF Wake, At
  <2>2. CASE Return(p, q[p].val)
    BY <1>t, <1>w, <1>q, <2>1, <2>2, ReturnRefines
  <2> DEFINE c == [Idle EXCEPT !.pc = "top", !.key = q[p].key,
                               !.ctx = q[p].ctx, !.since = q[p].since]
  <2>3. CASE q' = [q EXCEPT ![p] = c]
    <3>1. c \in Call /\ c.pc = "top" /\ c.key = q[p].key /\ c.since = q[p].since
      BY <1>t, ConstantTypes DEF Call, Idle, Querying
    <3> HIDE DEF c
    <3>2. QED
      BY <1>t, <1>q, <2>1, <2>3, <3>1, GoesOnUnseen
  <2>4. QED
    BY <1>16, <2>2, <2>3 DEF Wake
<1>17. ASSUME NEW p \in Proc, Forget(p) PROVE Fresh!Next
  <2>1. /\ q' = [q EXCEPT ![p] = Idle] /\ q[p].pc = "done" /\ UNCHANGED <<remote, settled>>
    BY <1>17 DEF Forget, At
  <2>2. q'[p] = Idle /\ Idle.pc = "idle" /\ \A r \in Proc \ {p} : q'[r] = q[r]
    BY <1>t, <2>1 DEF Idle
  <2>3. ReadingOf(p).at \in {"result", "failed"}
    BY <2>1 DEF ReadingOf, At, Querying
  <2>4. ReadingOf(p)' = [at |-> "idle"]
    BY <2>2 DEF ReadingOf, At, Querying
  <2>5. \A r \in Proc \ {p} : ReadingOf(r)' = ReadingOf(r)
    BY <2>2, LooksSame
  <2>6. Reading' = [Reading EXCEPT ![p] = Fresh!NoRead]
    <3>1. Reading' = [r \in Proc |-> ReadingOf(r)']
      BY DEF Reading
    <3>2. QED
      BY <2>4, <2>5, <3>1 DEF Reading, Fresh!NoRead
  <2>7. Fresh!Forget(p)
    BY <2>1, <2>3, <2>6 DEF Fresh!Forget, Reading
  <2>8. QED
    BY <2>7 DEF Fresh!Next
<1>18. ASSUME NEW p \in Proc, NEW ns \in Mutated, Begin(p, ns) PROVE UNCHANGED Fresh!freshVars
  <2>1. /\ q' = [q EXCEPT ![p] = [Idle EXCEPT !.pc = "begun", !.names = ns]]
        /\ q[p].pc = "idle" /\ UNCHANGED <<remote, settled>>
    BY <1>18 DEF Begin, At
  <2>2. q'[p].pc = "begun" /\ \A r \in Proc \ {p} : q'[r] = q[r]
    BY <1>t, <2>1 DEF Idle
  <2>3. ReadingOf(p)' = ReadingOf(p)
    BY <2>1, <2>2 DEF ReadingOf, At, Querying
  <2>4. QED
    BY <2>1, <2>2, <2>3, LooksSame, Unseen
<1>19. ASSUME NEW p \in Proc, Apply(p) PROVE Fresh!Next
  <2>1. /\ q' = [q EXCEPT ![p].pc = "applied"] /\ q[p].pc = "begun" /\ settled' = settled
    BY <1>19 DEF Apply, At
  <2>2. q'[p].pc = "applied" /\ \A r \in Proc \ {p} : q'[r] = q[r]
    BY <1>t, <2>1 DEF Call
  <2>3. ReadingOf(p)' = ReadingOf(p)
    BY <2>1, <2>2 DEF ReadingOf, At, Querying
  <2>4. \A r \in Proc : ReadingOf(r)' = ReadingOf(r)
    BY <2>2, <2>3, LooksSame
  <2>5. \A x \in Path : remote[x] <= remote'[x]
    BY <1>19, <1>t DEF Apply, Version
  <2>6. QED
    BY <1>t, <2>1, <2>4, <2>5 DEF Fresh!Next, Fresh!Advance, Fresh!Version, Version
<1>20. ASSUME NEW p \in Proc, End(p) PROVE Fresh!Next
  <2>1. /\ q' = [q EXCEPT ![p] = Idle] /\ q[p].pc \in {"begun", "applied"} /\ remote' = remote
        /\ settled' = [x \in Path |->
                          IF x \in Affected(q[p].names) THEN remote[x] ELSE settled[x]]
    BY <1>20 DEF End
  <2>2. q'[p] = Idle /\ Idle.pc = "idle" /\ \A r \in Proc \ {p} : q'[r] = q[r]
    BY <1>t, <2>1 DEF Idle
  <2>3. ReadingOf(p)' = ReadingOf(p)
    BY <2>1, <2>2 DEF ReadingOf, At, Querying
  <2>4. \A r \in Proc : ReadingOf(r)' = ReadingOf(r)
    BY <2>2, <2>3, LooksSame
  <2>5. Affected(q[p].names) \in SUBSET Path
    BY DEF Affected
  <2>6. QED
    BY <2>1, <2>4, <2>5 DEF Fresh!Next, Fresh!Settle
<1>21. ASSUME Close PROVE UNCHANGED Fresh!freshVars
  BY <1>21, Unseen, LooksSame DEF Close
<1>22. ASSUME NEW x \in Shared, OthersChange(x) PROVE Fresh!Next
  <2>1. /\ UNCHANGED <<q, settled>> /\ \A y \in Path : remote[y] <= remote'[y]
    BY <1>22, <1>t, CacheConstants DEF OthersChange, Version
  <2>2. \A r \in Proc : ReadingOf(r)' = ReadingOf(r)
    BY <2>1, LooksSame
  <2>3. QED
    BY <1>t, <2>1, <2>2 DEF Fresh!Next, Fresh!Advance, Fresh!Version, Version
<1>23. QED
  BY <1>0, <1>1, <1>2, <1>3, <1>4, <1>5, <1>6, <1>7, <1>8, <1>9, <1>10, <1>11, <1>12,
     <1>13, <1>14, <1>15, <1>16, <1>17, <1>18, <1>19, <1>20, <1>21, <1>22 DEF Next, Step

\* metadata_cache.go: to the callers of Stat and ReadDir the cache, with its
\* flights, waiters, retries and invalidations, is indistinguishable from uncached
\* reads that return a state of the server no older than the last completed change.
THEOREM CacheImplementsReads == Spec => ImplementsFreshReads
<1>1. Init => Fresh!Init
  BY InitRefines
<1>2. FreshInv /\ FreshInv' /\ FlightInv /\ [Next]_vars => [Fresh!Next]_(Fresh!freshVars)
  BY StepRefines
<1>3. QED
  BY <1>1, <1>2, FlightsAlways, PTL DEF Spec, ImplementsFreshReads, Fresh!Spec

-----------------------------------------------------------------------------
(* The account of the table's size.                                        *)

Weights == [k \in DOMAIN values |-> values[k].bytes]

AccountInv == TypeInv /\ IsFiniteSet(DOMAIN values) /\ Accounting

\* c.bytes is a natural number, and the sum of the weights of what is kept.
LEMMA AccountIs ==
    ASSUME ValuesOK, IsFiniteSet(DOMAIN values)
    PROVE  /\ \A k \in DOMAIN values : Weights[k] = values[k].bytes /\ Weights[k] \in Nat
           /\ SumFunction(Weights) = SumFunctionOnSet(Weights, DOMAIN values)
           /\ \A D \in SUBSET DOMAIN values :
                /\ IsFiniteSet(D) /\ SumFunctionOnSet(Weights, D) \in Nat
                /\ \A w : (\A k \in D : w[k] = Weights[k]) =>
                          SumFunctionOnSet(w, D) = SumFunctionOnSet(Weights, D)
<1>1. \A k \in DOMAIN values : Weights[k] = values[k].bytes /\ Weights[k] \in Nat
  BY DEF Weights, ValuesOK, Cached
<1>2. DOMAIN Weights = DOMAIN values
  BY DEF Weights
<1>3. \A D \in SUBSET DOMAIN values : IsFiniteSet(D)
  BY FS_Subset
<1>4. QED
  BY <1>1, <1>2, <1>3, SumNat, SumSame DEF SumFunction

\* Drop takes the sizes of what it drops off the account.
LEMMA DropAccount ==
    ASSUME ValuesOK, IsFiniteSet(DOMAIN values), Accounting, NEW D, Drop(D)
    PROVE  IsFiniteSet(DOMAIN values') /\ Accounting'
<1> DEFINE dom == DOMAIN values
           lost == [k \in dom \cap D |-> values[k].bytes]
<1>1. /\ ValuesOK' /\ DOMAIN values' = dom \ D
      /\ \A k \in DOMAIN values' : values'[k] = values[k]
  BY DropGives
<1>2. IsFiniteSet(dom \ D) /\ dom \ D \in SUBSET dom /\ dom \cap D \in SUBSET dom
  BY FS_Subset
<1>3. SumFunction(lost) = SumFunctionOnSet(Weights, dom \cap D)
  <2>1. DOMAIN lost = dom \cap D /\ \A k \in dom \cap D : lost[k] = Weights[k]
    BY DEF Weights
  <2> HIDE DEF lost
  <2>2. QED
    BY <1>2, <2>1, AccountIs DEF SumFunction
<1>4. SumFunction(Weights') = SumFunctionOnSet(Weights, dom \ D)
  <2>1. DOMAIN Weights' = dom \ D /\ \A k \in dom \ D : Weights'[k] = Weights[k]
    BY <1>1 DEF Weights
  <2>2. QED
    BY <1>2, <2>1, AccountIs DEF SumFunction
<1>5. SumFunctionOnSet(Weights, dom) =
        SumFunctionOnSet(Weights, dom \cap D) + SumFunctionOnSet(Weights, dom \ D)
  <2>1. dom \ (dom \cap D) = dom \ D
    OBVIOUS
  <2>2. QED
    BY <1>2, <2>1, AccountIs, SumSplit
<1>6. /\ SumFunctionOnSet(Weights, dom) \in Nat /\ SumFunctionOnSet(Weights, dom \cap D) \in Nat
      /\ SumFunctionOnSet(Weights, dom \ D) \in Nat
  BY <1>2, AccountIs
<1>7. bytes' = bytes - SumFunction(lost)
  BY DEF Drop
<1>8. bytes = SumFunctionOnSet(Weights, dom) /\ bytes <= MaxBytes
  BY AccountIs DEF Accounting, Weights
<1>9. bytes' = SumFunction(Weights') /\ bytes' <= MaxBytes
  <2>1. MaxBytes \in Nat
    BY CacheConstants
  <2> HIDE DEF lost, dom
  <2>2. QED
    BY <1>3, <1>4, <1>5, <1>6, <1>7, <1>8, <2>1
<1>10. Cardinality(DOMAIN values') <= MaxEntries
  <2>1. Cardinality(dom \ D) <= Cardinality(dom) /\ Cardinality(dom) <= MaxEntries
    BY <1>2, FS_Subset DEF Accounting
  <2>2. Cardinality(dom \ D) \in Nat /\ Cardinality(dom) \in Nat /\ MaxEntries \in Nat
    BY <1>2, FS_CardinalityType, CacheConstants
  <2>3. QED
    BY <1>1, <2>1, <2>2
<1>11. QED
  BY <1>1, <1>2, <1>9, <1>10 DEF Accounting, Weights

\* put replaces an entry's size in the account, or starts it again, and keeps to
\* both limits.
LEMMA PutAccount ==
    ASSUME ValuesOK, IsFiniteSet(DOMAIN values), Accounting,
           NEW k \in Key, NEW v \in Cached, Put(k, v)
    PROVE  IsFiniteSet(DOMAIN values') /\ Accounting'
<1> DEFINE dom == DOMAIN values
           rest == dom \ {k}
           left == IF k \in dom THEN bytes - values[k].bytes ELSE bytes
           full == Cardinality(rest) >= MaxEntries \/ left + v.bytes > MaxBytes
           kept == IF full THEN {} ELSE rest
<1>1. CASE v.bytes > MaxBytes
  BY <1>1 DEF Put, Accounting
<1>2. CASE ~(v.bytes > MaxBytes)
  <2>1. /\ values' = [j \in kept \union {k} |-> IF j = k THEN v ELSE values[j]]
        /\ bytes' = IF full THEN v.bytes ELSE left + v.bytes
    BY <1>2 DEF Put
  <2>2. kept \in SUBSET rest /\ rest \in SUBSET dom /\ k \notin kept
    OBVIOUS
  <2>3. IsFiniteSet(rest) /\ IsFiniteSet(kept) /\ Cardinality(kept) \in Nat /\ MaxEntries \in Nat \ {0}
        /\ MaxBytes \in Nat /\ v.bytes \in Nat
    BY <2>2, FS_Subset, FS_CardinalityType, CacheConstants DEF Cached
  <2>4. DOMAIN values' = kept \union {k} /\ IsFiniteSet(kept \union {k})
        /\ Cardinality(kept \union {k}) = Cardinality(kept) + 1
    <3>1. DOMAIN values' = kept \union {k}
      BY <2>1
    <3> HIDE DEF kept
    <3>2. QED
      BY <2>2, <2>3, <3>1, FS_AddElement
  <2>5. Cardinality(kept) + 1 <= MaxEntries
    <3>1. CASE full
      <4>1. kept = {} /\ Cardinality(kept) = 0
        BY <3>1, FS_EmptySet
      <4>2. QED
        BY <2>3, <4>1
    <3>2. CASE ~full
      <4>1. kept = rest /\ ~(Cardinality(rest) >= MaxEntries)
        BY <3>2
      <4> HIDE DEF kept, rest
      <4>2. QED
        BY <2>3, <4>1
    <3>3. QED
      BY <3>1, <3>2
  <2>6. \A j \in kept : Weights'[j] = Weights[j]
    BY <2>1, <2>2 DEF Weights
  <2>7. DOMAIN Weights' = kept \union {k} /\ Weights'[k] = v.bytes
    BY <2>1 DEF Weights
  <2>8. SumFunctionOnSet(Weights', kept) = SumFunctionOnSet(Weights, kept)
        /\ SumFunctionOnSet(Weights, kept) \in Nat
    <3>1. kept \in SUBSET DOMAIN values
      BY <2>2
    <3> HIDE DEF kept
    <3>2. QED
      BY <2>6, <3>1, AccountIs
  <2>9. SumFunction(Weights') = v.bytes + SumFunctionOnSet(Weights, kept)
    <3>1. (kept \union {k}) \ {k} = kept
      BY <2>2
    <3>2. \A j \in kept \union {k} : Weights'[j] \in Nat
      <4>1. \A j \in kept : Weights[j] \in Nat
        BY <2>2, AccountIs
      <4>2. QED
        BY <2>3, <2>6, <2>7, <4>1
    <3> HIDE DEF kept
    <3>3. SumFunctionOnSet(Weights', kept \union {k}) =
            Weights'[k] + SumFunctionOnSet(Weights', (kept \union {k}) \ {k})
      BY <2>4, <3>2, SumRemove
    <3>4. QED
      BY <2>7, <2>8, <3>1, <3>3 DEF SumFunction
  <2>10. bytes = SumFunctionOnSet(Weights, dom) /\ bytes <= MaxBytes /\ bytes \in Nat
    BY AccountIs DEF Accounting, Weights
  <2>11. left = SumFunctionOnSet(Weights, rest)
    <3>1. CASE k \in dom
      <4>1. /\ SumFunctionOnSet(Weights, dom) = Weights[k] + SumFunctionOnSet(Weights, dom \ {k})
            /\ Weights[k] = values[k].bytes /\ Weights[k] \in Nat
            /\ SumFunctionOnSet(Weights, rest) \in Nat
        BY <2>2, <3>1, AccountIs, SumRemove
      <4>2. QED
        BY <2>10, <3>1, <4>1
    <3>2. CASE k \notin dom
      BY <2>10, <3>2
    <3>3. QED
      BY <3>1, <3>2
  <2>12. bytes' = v.bytes + SumFunctionOnSet(Weights, kept) /\ bytes' <= MaxBytes
    <3>1. CASE full
      <4>1. bytes' = v.bytes /\ kept = {} /\ SumFunctionOnSet(Weights, {}) = 0
        BY <2>1, <3>1, SumEmpty
      <4> HIDE DEF kept
      <4>2. QED
        BY <1>2, <2>3, <4>1
    <3>2. CASE ~full
      <4>1. bytes' = left + v.bytes /\ kept = rest /\ ~(left + v.bytes > MaxBytes)
        BY <2>1, <3>2
      <4>2. SumFunctionOnSet(Weights, rest) \in Nat
        BY <2>2, AccountIs
      <4> HIDE DEF left, rest, kept
      <4>3. QED
        BY <2>3, <2>11, <4>1, <4>2
    <3>3. QED
      BY <3>1, <3>2
  <2>13. QED
    BY <2>4, <2>5, <2>9, <2>12 DEF Accounting, Weights
<1>3. QED
  BY <1>1, <1>2

\* What a step does to the table: nothing, a drop, a put, or Close's clearing.
LEMMA TableStep ==
    ASSUME TypeInv, [Next]_vars
    PROVE  \/ UNCHANGED <<values, bytes>>
           \/ \E D : Drop(D)
           \/ \E k \in Key, v \in Cached : Put(k, v)
           \/ DOMAIN values' = {} /\ bytes' = 0
<1> USE DEF cacheVars
<1>1. CASE \E p \in Proc : SettleStored(p)
  <2>1. PICK p \in Proc, size \in Sizes :
            /\ Storable(p) /\ Put(q[p].key, CachedFrom(q[p].val.kind, q[p].val.ver, size))
    BY <1>1 DEF SettleStored
  <2>2. q[p].key \in Key /\ q[p].val.ver \in Version /\ q[p].val.kind \in {"found", "missing"}
    BY <2>1 DEF Storable, TypeInv, TypeOK, Call, Reply
  <2>3. CachedFrom(q[p].val.kind, q[p].val.ver, size) \in Cached
    BY <2>2, CacheConstants DEF CachedFrom, Cached
  <2>4. QED
    BY <2>1, <2>2, <2>3
<1>2. CASE \E p \in Proc : SeedChild(p)
  <2>p. PICK p \in Proc : SeedChild(p)
    BY <1>2
  <2>1. PICK x \in q[p].seeds, size \in Sizes :
            Put([name |-> x, directory |-> FALSE],
                CachedFrom("found", Only(q[p].val.ver, {x}), size))
    BY <2>p DEF SeedChild
  <2>2. q[p].seeds \subseteq Path /\ q[p].val.ver \in Version
    BY DEF TypeInv, TypeOK, Call, Reply
  <2>3. [name |-> x, directory |-> FALSE] \in Key
    BY <2>2 DEF Key
  <2>4. CachedFrom("found", Only(q[p].val.ver, {x}), size) \in Cached
    BY <2>2, OnlyType, CacheConstants DEF CachedFrom, Cached
  <2>5. QED
    BY <2>1, <2>3, <2>4
<1>3. CASE \E p \in Proc : \/ Join(p) \/ Lead(p) \/ End(p) \/ \E ns \in Mutated : Begin(p, ns)
  BY <1>3 DEF Join, Lead, Miss, End, Begin, Invalidate
<1>4. CASE Close
  BY <1>4 DEF Close
<1>5. CASE \E p \in Proc : \/ RejectTraversal(p) \/ CheckContext(p) \/ Closed(p) \/ Hit(p)
                          \/ BackendReplies(p) \/ SettleUnstored(p) \/ SettlePublish(p)
                          \/ WaitCanceled(p) \/ Wake(p)
  BY <1>5 DEF RejectTraversal, CheckContext, Closed, Hit, BackendReplies, SettleUnstored,
     SettlePublish, WaitCanceled, Wake
<1>6. CASE \E p \in Proc : \/ \E k \in Queried : Query(p, k)
                          \/ QueryTraversal(p) \/ Cancel(p) \/ Forget(p) \/ Apply(p)
  BY <1>6 DEF Query, QueryTraversal, Cancel, Forget, Apply
<1>7. CASE \E x \in Shared : OthersChange(x)
  BY <1>7 DEF OthersChange
<1>8. CASE UNCHANGED vars
  BY <1>8 DEF vars
<1>9. QED
  BY <1>1, <1>2, <1>3, <1>4, <1>5, <1>6, <1>7, <1>8 DEF Next, Step

\* put, drop, invalidate, Close: c.bytes is the sum of the sizes of what is kept,
\* whatever was replaced, dropped and cleared, and neither limit is passed.
THEOREM AccountIsKept == Spec => []Accounting
<1>1. Init => AccountInv
  <2> SUFFICES ASSUME Init PROVE AccountInv
    OBVIOUS
  <2>1. DOMAIN values = {} /\ bytes = 0
    BY DEF Init
  <2>2. SumFunction(Weights) = 0
    BY <2>1, SumEmpty DEF SumFunction, Weights
  <2>3. IsFiniteSet({}) /\ Cardinality({}) = 0
    BY FS_EmptySet
  <2>4. QED
    BY <2>1, <2>2, <2>3, TypeInit, CacheConstants DEF AccountInv, Accounting, Weights
<1>2. AccountInv /\ [Next]_vars => AccountInv'
  <2> SUFFICES ASSUME AccountInv, [Next]_vars PROVE AccountInv'
    OBVIOUS
  <2>1. TypeInv' /\ ValuesOK /\ TypeInv
    BY TypeStep DEF AccountInv, TypeInv, TypeOK, ValuesOK
  <2>2. CASE UNCHANGED <<values, bytes>>
    BY <2>1, <2>2 DEF AccountInv, Accounting
  <2>3. CASE \E D : Drop(D)
    BY <2>1, <2>3, DropAccount DEF AccountInv
  <2>4. CASE \E k \in Key, v \in Cached : Put(k, v)
    BY <2>1, <2>4, PutAccount DEF AccountInv
  <2>5. CASE DOMAIN values' = {} /\ bytes' = 0
    <3>1. SumFunction(Weights') = 0
      BY <2>5, SumEmpty DEF SumFunction, Weights
    <3>2. IsFiniteSet({}) /\ Cardinality({}) = 0
      BY FS_EmptySet
    <3>3. QED
      BY <2>1, <2>5, <3>1, <3>2, CacheConstants DEF AccountInv, Accounting, Weights
  <2>6. QED
    BY <2>1, <2>2, <2>3, <2>4, <2>5, TableStep
<1>3. AccountInv => Accounting
  BY DEF AccountInv
<1>4. QED
  BY <1>1, <1>2, <1>3, PTL DEF Spec
====
