---- MODULE BackendsProofs ----
(***************************************************************************)
(* Proofs about Backends, for every set of goroutines and any number of    *)
(* identities of connections greater than one: what the FTP, the SFTP and  *)
(* the WebDAV backend keep between them.                                   *)
(***************************************************************************)
EXTENDS Backends, TLAPS

-----------------------------------------------------------------------------
(* The inductive invariant.                                                *)

\* Only a read has a reader, and only Stat falls back to a listing.
PlaceOK(c) ==
    /\ c.pc = "reading" => c.op = "read"
    /\ c.pc = "fallback" \/ c.back = "fallback" => c.op = "stat"

\* One call: only changes are counted, and a counted execution is remembered
\* until the call ends, except by SFTP, which forgets the first one when it
\* repeats the call. What the server has executed of an upload is stored, and a
\* write handle is clean only when its content is stored.
CallOK(p) ==
    /\ PlaceOK(call[p])
    /\ call[p].op # "none" => call[p].result = "none"
    /\ call[p].op \notin Changes => call[p].times = 0 /\ ~call[p].ran
    /\ call[p].ran => call[p].times > 0
    /\ call[p].times > 0 => call[p].ran \/ call[p].pc \in {"reconnect", "dial", "resend"}
    /\ call[p].times <= IF call[p].ran /\ call[p].pc = "resend" THEN 2 ELSE 1
    /\ call[p].pc \in {"idle", "enter"} => ~call[p].ran
    /\ call[p].op = "stor" => /\ handle[p].st \in {"open", "closing"}
                              /\ call[p].ran => handle[p].stored
    /\ handle[p].st \in {"open", "closing"} /\ ~handle[p].dirty => handle[p].stored

\* FTP and WebDAV execute a call once.
OnceOK(p) ==
    /\ call[p].times <= 1
    /\ call[p].times > 0 => call[p].ran

\* The current connection is the only one, until Close.
OneConnection == client \in Connection /\ open = IF closed THEN {} ELSE {client}

\* FTP: one goroutine has the control connection, and what the next command
\* finds there is known to it, or noted in needsProbe once the mutex is free.
FtpOK ==
    /\ OneConnection
    /\ lock # None => ~closed
    /\ lock = None /\ ~needsProbe => last = "ok"
    /\ \A p \in Proc :
        /\ OnceOK(p)
        /\ call[p].pc \in Ftp!Holding <=> lock = p
        /\ call[p].pc \in {"send", "fallback"} => last = "ok"
        /\ call[p].pc = "probe" => needsProbe
        /\ call[p].pc = "dial" => client \in broken

\* SFTP: a goroutine that has seen an error of the current generation has seen
\* it on the current connection.
SftpOK ==
    /\ OneConnection /\ client = generation + 1
    /\ lock # None => ~closed
    /\ \A p \in Proc :
        /\ handle[p].st = "none" /\ call[p].op \in {"none", "query", "change", "close"}
        /\ call[p].pc = "dial" <=> lock = p
        /\ call[p].pc \in {"send", "reconnect"} => call[p].gen <= generation
        /\ call[p].pc = "send" /\ call[p].gen = generation => call[p].conn = client
        /\ call[p].pc = "reconnect" /\ call[p].gen = generation /\ ~closed => client \in broken
        /\ call[p].pc = "dial" => client \in broken

\* WebDAV: the HTTP client has the connections.
WebdavOK ==
    /\ lock = None /\ open = {} /\ client = 0
    /\ \A p \in Proc : OnceOK(p)

BackendInv ==
    /\ TypeOK
    /\ \A p \in Proc : CallOK(p)
    /\ protocol = "ftp" => FtpOK
    /\ protocol = "sftp" => SftpOK
    /\ protocol = "webdav" => WebdavOK

-----------------------------------------------------------------------------
(* What the step of one goroutine does to its call and its write handle.   *)

\* The last conjunct of TypeOK.
Tidy(p) ==
    /\ At(p, "idle") <=> call[p].op = "none"
    /\ handle[p].st = "opening" => call[p].op \in {"stat", "read"}
    /\ handle[p].st = "closing" => call[p].op = "stor"

Typed == call \in [Proc -> Call] /\ handle \in [Proc -> Handle]
CallsOK == Typed /\ \A p \in Proc : Tidy(p) /\ CallOK(p)

OnlyCall(p) ==
    /\ Typed'
    /\ \A q \in Proc \ {p} : call'[q] = call[q] /\ handle'[q] = handle[q]

Opened(p) ==
    /\ call[p].pc = "idle" /\ call'[p].op # "none" /\ call'[p].pc = "enter"
    /\ call'[p].times = 0 /\ ~call'[p].ran /\ call'[p].result = "none" /\ call'[p].back = "send"
    /\ handle'[p].stored = handle[p].stored /\ handle'[p].dirty = handle[p].dirty
    /\ \/ handle'[p].st = handle[p].st /\ call'[p].op # "stor"
       \/ handle'[p].st = "opening" /\ call'[p].op \in {"stat", "read"}
       \/ handle[p].st = "open" /\ handle'[p].st \in {"open", "closing"} /\ call'[p].op = "stor"

Written(p) ==
    /\ call[p].pc = "idle" /\ call'[p] = call[p]
    /\ handle'[p] = [st |-> "open", dirty |-> TRUE, stored |-> FALSE]

Moved(p) ==
    /\ call[p].pc \notin {"idle", "resend"} /\ call'[p].pc \notin {"idle", "enter"}
    /\ PlaceOK(call'[p])
    /\ call'[p].op = call[p].op /\ call'[p].times = call[p].times
    /\ call'[p].result = call[p].result /\ handle'[p] = handle[p]
    /\ \/ /\ call'[p].ran = call[p].ran
          /\ (call[p].times > 0 => call[p].ran) \/ call'[p].pc = "dial"
       \/ ~call'[p].ran /\ call[p].pc \in {"reconnect", "dial"} /\ call'[p].pc = "resend"

Ran(p) ==
    /\ call[p].op \in Changes /\ ~call[p].ran /\ call[p].pc \in {"send", "resend"}
    /\ call'[p] = [call[p] EXCEPT !.ran = TRUE, !.times = @ + 1]
    /\ handle'[p] = IF call[p].op = "stor" THEN [handle[p] EXCEPT !.stored = TRUE] ELSE handle[p]

Returned(p, r) ==
    /\ call[p].pc # "idle" /\ r \in {"ok", "failed"}
    /\ call[p].op \in {"change", "lock"} /\ r = "ok" => call[p].ran
    /\ call[p].op = "stor" /\ r = "ok" => handle[p].stored
    /\ call'[p] = IF call[p].op \in Changes THEN [NoCall EXCEPT !.result = r] ELSE NoCall
    /\ handle'[p] = HandleAfter(p, r)

\* WebDAV: a 404 to the read that opens a write handle.
Emptied(p) ==
    /\ call[p].op = "read" /\ call'[p] = NoCall
    /\ handle'[p] = [st |-> "open", dirty |-> TRUE, stored |-> FALSE]

CallStep(p) ==
    /\ OnlyCall(p)
    /\ \/ Opened(p) \/ Written(p) \/ Moved(p) \/ Ran(p) \/ Emptied(p)
       \/ \E r \in {"ok", "failed"} : Returned(p, r)

\* The end of a call, whatever the write handle was.
LEMMA NoCallFacts ==
    /\ NoCall \in Call /\ NoCall.op = "none" /\ NoCall.pc = "idle" /\ ~NoCall.ran
    /\ NoCall.times = 0 /\ NoCall.result = "none" /\ PlaceOK(NoCall)
    /\ NoHandle \in Handle /\ NoHandle.st = "none" /\ ~NoHandle.dirty /\ ~NoHandle.stored
    /\ \A r \in {"ok", "failed"} :
            LET d == [NoCall EXCEPT !.result = r] IN
            d \in Call /\ d.op = "none" /\ d.pc = "idle" /\ ~d.ran /\ d.times = 0 /\ d.result = r /\ PlaceOK(d)
BY DEF NoCall, NoHandle, Call, Handle, PlaceOK

\* HandleAfter: the write handle when a call ends.
LEMMA HandleAfterOK ==
    ASSUME CallsOK, NEW p \in Proc, NEW r \in {"ok", "failed"},
           call[p].op = "stor" /\ r = "ok" => handle[p].stored
    PROVE  LET k == HandleAfter(p, r) IN
           /\ k \in Handle /\ k.st \in {"none", "open"}
           /\ k.st = "open" /\ ~k.dirty => k.stored
           /\ call[p].op \in {"change", "lock"} => k.stored = handle[p].stored
           /\ call[p].op = "stor" => k.stored = handle[p].stored \/ ~k.stored
<1>1. call[p] \in Call /\ handle[p] \in Handle /\ Tidy(p) /\ CallOK(p)
  BY DEF CallsOK, Typed
<1>2. CASE handle[p].st = "closing" \/ (handle[p].st = "opening" /\ r # "ok")
  BY <1>1, <1>2, NoCallFacts DEF HandleAfter, Tidy
<1>3. CASE handle[p].st = "opening" /\ r = "ok"
  <2>1. HandleAfter(p, r) = [st |-> "open", dirty |-> call[p].op = "stat",
                             stored |-> call[p].op = "read"]
    BY <1>3 DEF HandleAfter
  <2>2. call[p].op \in {"stat", "read"}
    BY <1>1, <1>3 DEF Tidy
  <2>3. CASE call[p].op = "stat"
    <3>1. HandleAfter(p, r) = [st |-> "open", dirty |-> TRUE, stored |-> FALSE]
      BY <2>1, <2>3
    <3>2. QED
      BY <2>3, <3>1 DEF Handle
  <2>4. CASE call[p].op = "read"
    <3>1. HandleAfter(p, r) = [st |-> "open", dirty |-> FALSE, stored |-> TRUE]
      BY <2>1, <2>4
    <3>2. QED
      BY <2>4, <3>1 DEF Handle
  <2>5. QED
    BY <2>2, <2>3, <2>4
<1>4. CASE handle[p].st \in {"none", "open"} /\ call[p].op = "stor"
  <2>1. HandleAfter(p, r) = [handle[p] EXCEPT !.dirty = @ /\ r # "ok"]
    BY <1>1, <1>4 DEF HandleAfter, CallOK
  <2>2. QED
    BY <1>1, <1>4, <2>1 DEF Handle, CallOK
<1>5. CASE handle[p].st \in {"none", "open"} /\ call[p].op # "stor"
  <2>1. HandleAfter(p, r) = handle[p]
    BY <1>5 DEF HandleAfter
  <2>2. QED
    BY <1>1, <1>5, <2>1 DEF CallOK
<1>6. QED
  BY <1>1, <1>2, <1>3, <1>4, <1>5 DEF Handle

\* Every such step leaves the calls and the handles in order.
LEMMA StepKeepsCalls ==
    ASSUME CallsOK, NEW p \in Proc, CallStep(p)
    PROVE  CallsOK'
<1>1. /\ Typed' /\ \A q \in Proc \ {p} : call'[q] = call[q] /\ handle'[q] = handle[q]
      /\ call[p] \in Call /\ handle[p] \in Handle /\ Tidy(p) /\ CallOK(p)
  BY DEF CallsOK, Typed, CallStep, OnlyCall
<1>2. call'[p] \in Call /\ handle'[p] \in Handle
  BY <1>1 DEF Typed
<1>3. ASSUME NEW q \in Proc \ {p} PROVE Tidy(q)' /\ CallOK(q)'
  BY <1>1, <1>3 DEF CallsOK, Tidy, CallOK, At
<1>4. Tidy(p)' /\ CallOK(p)'
  <2>1. CASE Opened(p)
    BY <1>1, <1>2, <2>1 DEF Opened, Tidy, CallOK, PlaceOK, At, Call, Handle, Changes
  <2>2. CASE Written(p)
    BY <1>1, <1>2, <2>2 DEF Written, Tidy, CallOK, PlaceOK, At, Call, Handle, Changes
  <2>3. CASE Moved(p)
    BY <1>1, <1>2, <2>3 DEF Moved, Tidy, CallOK, PlaceOK, At, Call, Handle, Changes
  <2>4. CASE Ran(p)
    BY <1>1, <1>2, <2>4 DEF Ran, Tidy, CallOK, PlaceOK, At, Call, Handle, Changes
  <2>5. CASE Emptied(p)
    BY <1>1, <1>2, <2>5, NoCallFacts DEF Emptied, Tidy, CallOK, At, Handle, Changes
  <2>6. ASSUME NEW r \in {"ok", "failed"}, Returned(p, r) PROVE Tidy(p)' /\ CallOK(p)'
    <3>1. /\ handle'[p].st \in {"none", "open"}
          /\ handle'[p].st = "open" /\ ~handle'[p].dirty => handle'[p].stored
      BY <2>6, HandleAfterOK DEF Returned
    <3>2. /\ call'[p].op = "none" /\ call'[p].pc = "idle" /\ ~call'[p].ran
          /\ call'[p].times = 0 /\ PlaceOK(call'[p])
      BY <2>6, NoCallFacts DEF Returned
    <3>3. QED
      BY <3>1, <3>2 DEF Tidy, CallOK, At, Changes
  <2>7. QED
    BY <2>1, <2>2, <2>3, <2>4, <2>5, <2>6 DEF CallStep
<1>5. QED
  BY <1>1, <1>3, <1>4 DEF CallsOK

-----------------------------------------------------------------------------
(* The promise to the callers, step by step.                               *)

\* What RemoteCalls sees of a goroutine.
DoneOf(p) == call[p].op # "stor" /\ call[p].times > 0

Limit == IF protocol = "sftp" THEN 2 ELSE 1
Phases == [p \in Proc |-> PhaseOf(p)]
Times == [p \in Proc |-> call[p].times]
Dones == [p \in Proc |-> DoneOf(p)]
Storeds == [p \in Proc |-> handle[p].stored]

\* Every goroutine but p looks the same.
OthersSame(p) == \A q \in Proc \ {p} :
    /\ PhaseOf(q)' = PhaseOf(q) /\ call'[q].times = call[q].times
    /\ DoneOf(q)' = DoneOf(q) /\ handle'[q].stored = handle[q].stored

\* PhaseOf: an idle goroutine and a call that is no change are not pending.
LEMMA PhaseCases ==
    ASSUME CallsOK, NEW p \in Proc
    PROVE  /\ call[p].op \in {"change", "lock"} => PhaseOf(p) = "change"
           /\ call[p].op = "stor" => PhaseOf(p) = "upload"
           /\ call[p].op \notin Changes => PhaseOf(p) = call[p].result
           /\ call[p].op \notin Changes => PhaseOf(p) \notin Promise!Pending /\ ~DoneOf(p)
           /\ call[p].op \notin Changes /\ call[p].op # "none" => PhaseOf(p) = "none"
<1>1. call[p] \in Call /\ CallOK(p)
  BY DEF CallsOK, Typed
<1>2. call[p].op \in {"change", "lock"} => PhaseOf(p) = "change"
  BY DEF PhaseOf
<1>3. call[p].op = "stor" => PhaseOf(p) = "upload"
  BY DEF PhaseOf
<1>4. call[p].op \notin Changes => PhaseOf(p) = call[p].result
  BY DEF PhaseOf, Changes
<1>5. QED
  BY <1>1, <1>2, <1>3, <1>4 DEF CallOK, Promise!Pending, DoneOf, Call

\* The step of one goroutine does what RemoteCalls allows, or nothing it sees.
LEMMA StepKeepsPromise ==
    ASSUME CallsOK, NEW p \in Proc, CallStep(p), protocol' = protocol,
           protocol # "sftp" => OnceOK(p)
    PROVE  [Promise!Next]_(Promise!vars)
<1>1. /\ \A q \in Proc \ {p} : call'[q] = call[q] /\ handle'[q] = handle[q]
      /\ call[p] \in Call /\ handle[p] \in Handle /\ Tidy(p) /\ CallOK(p)
  BY DEF CallsOK, Typed, CallStep, OnlyCall
<1>2. CallsOK'
  BY StepKeepsCalls
<1>3. call'[p] \in Call /\ handle'[p] \in Handle /\ Tidy(p)' /\ CallOK(p)'
  BY <1>2 DEF CallsOK, Typed
<1>4. OthersSame(p)
  BY <1>1 DEF OthersSame, PhaseOf, DoneOf
<1>5. Limit' = Limit
  BY DEF Limit
<1>6. /\ call'[p].op \in {"change", "lock"} => PhaseOf(p)' = "change"
      /\ call'[p].op = "stor" => PhaseOf(p)' = "upload"
      /\ call'[p].op \notin Changes => PhaseOf(p)' = call'[p].result
      /\ call'[p].op \notin Changes => ~DoneOf(p)'
  BY <1>3 DEF PhaseOf, DoneOf, Changes, CallOK
<1>7. CASE Opened(p)
  <2>1. PhaseOf(p)' \in Promise!Pending \union {"none"} /\ PhaseOf(p) \notin Promise!Pending
    BY <1>1, <1>3, <1>6, <1>7, PhaseCases DEF Opened, Tidy, At, Changes, Promise!Pending, Call
  <2>2. /\ call'[p].times = call[p].times /\ DoneOf(p)' = DoneOf(p)
        /\ handle'[p].stored = handle[p].stored
    BY <1>1, <1>7 DEF Opened, Tidy, At, CallOK, DoneOf, Changes
  <2>3. Phases' = [Phases EXCEPT ![p] = PhaseOf(p)']
    BY <1>4 DEF Phases, OthersSame
  <2>4. UNCHANGED <<Times, Dones, Storeds>>
    BY <1>4, <2>2 DEF Times, Dones, Storeds, OthersSame
  <2>5. Promise!Begin(p, PhaseOf(p)')
    BY <1>5, <2>1, <2>3, <2>4
       DEF Promise!Begin, Limit, Phases, Times, Dones, Storeds, DoneOf
  <2>6. QED
    BY <2>1, <2>5 DEF Promise!Next
<1>8. ASSUME PhaseOf(p) \notin Promise!Pending, PhaseOf(p)' = PhaseOf(p),
             call'[p].times = call[p].times, DoneOf(p)' = DoneOf(p)
      PROVE  Promise!Next
  <2>1. UNCHANGED <<Phases, Times, Dones>>
    BY <1>4, <1>8 DEF Phases, Times, Dones, OthersSame
  <2>2. Storeds' = [Storeds EXCEPT ![p] = handle'[p].stored]
    BY <1>4 DEF Storeds, OthersSame
  <2>3. PICK known \in BOOLEAN : known = handle'[p].stored
    BY <1>3 DEF Handle
  <2>4. Promise!Content(p, known)
    BY <1>5, <1>8, <2>1, <2>2, <2>3
       DEF Promise!Content, Limit, Phases, Times, Dones, Storeds, DoneOf
  <2>5. QED
    BY <2>4 DEF Promise!Next
<1>9. CASE Written(p)
  <2>1. call'[p] = call[p] /\ call[p].op = "none"
    BY <1>1, <1>9 DEF Written, Tidy, At
  <2>2. PhaseOf(p)' = PhaseOf(p) /\ PhaseOf(p) \notin Promise!Pending
    BY <1>6, <2>1, PhaseCases DEF Changes
  <2>3. QED
    BY <1>8, <2>1, <2>2 DEF DoneOf
<1>10. CASE Moved(p)
  <2>1. /\ PhaseOf(p)' = PhaseOf(p) /\ call'[p].times = call[p].times
        /\ DoneOf(p)' = DoneOf(p) /\ handle'[p].stored = handle[p].stored
    BY <1>10 DEF Moved, PhaseOf, DoneOf
  <2>2. UNCHANGED <<Phases, Times, Dones, Storeds>>
    BY <1>4, <2>1 DEF Phases, Times, Dones, Storeds, OthersSame
  <2>3. QED
    BY <1>5, <2>2 DEF Promise!vars, Limit, Phases, Times, Dones, Storeds, DoneOf
<1>11. CASE Ran(p)
  <2>1. /\ call[p].op \in Changes /\ call'[p].op = call[p].op
        /\ call'[p].times = call[p].times + 1 /\ call[p].times < Limit
    BY <1>1, <1>11 DEF Ran, Call, CallOK, OnceOK, Limit
  <2>2. PhaseOf(p) \in Promise!Pending /\ PhaseOf(p)' = PhaseOf(p)
    BY <1>6, <2>1, PhaseCases DEF Changes, Promise!Pending
  <2>3. /\ Phases' = Phases /\ Times' = [Times EXCEPT ![p] = @ + 1] /\ Phases[p] = PhaseOf(p)
        /\ Times[p] = call[p].times
    BY <1>4, <2>1, <2>2 DEF Phases, Times, OthersSame
  <2>4. CASE call[p].op = "stor"
    <3>1. handle'[p].stored /\ DoneOf(p)' = DoneOf(p) /\ PhaseOf(p) = "upload"
      BY <1>1, <1>11, <2>1, <2>4, PhaseCases DEF Ran, Handle, DoneOf
    <3>2. Storeds' = [Storeds EXCEPT ![p] = TRUE] /\ UNCHANGED Dones
      BY <1>3, <1>4, <3>1 DEF Storeds, Dones, OthersSame, Handle
    <3>3. Promise!Execute(p)
      BY <1>5, <2>1, <2>2, <2>3, <3>1, <3>2
         DEF Promise!Execute, Limit, Phases, Times, Dones, Storeds, DoneOf
    <3>4. QED
      BY <3>3 DEF Promise!Next
  <2>5. CASE call[p].op # "stor"
    <3>1. handle'[p] = handle[p] /\ DoneOf(p)' /\ PhaseOf(p) = "change"
      BY <1>1, <1>11, <2>1, <2>5, PhaseCases DEF Ran, DoneOf, Changes, Call
    <3>2. Dones' = [Dones EXCEPT ![p] = TRUE] /\ UNCHANGED Storeds
      BY <1>4, <3>1 DEF Storeds, Dones, OthersSame
    <3>3. Promise!Execute(p)
      BY <1>5, <2>1, <2>2, <2>3, <3>1, <3>2
         DEF Promise!Execute, Limit, Phases, Times, Dones, Storeds, DoneOf
    <3>4. QED
      BY <3>3 DEF Promise!Next
  <2>6. QED
    BY <2>4, <2>5
<1>12. CASE Emptied(p)
  <2>1. /\ PhaseOf(p)' = "none" /\ call'[p].times = 0 /\ call[p].op \notin Changes
        /\ ~DoneOf(p)' /\ ~DoneOf(p) /\ PhaseOf(p) = "none" /\ call[p].times = 0
    BY <1>1, <1>6, <1>12, PhaseCases, NoCallFacts DEF Emptied, Changes, CallOK
  <2>2. QED
    BY <1>8, <2>1 DEF Promise!Pending, DoneOf
<1>13. ASSUME NEW r \in {"ok", "failed"}, Returned(p, r), call[p].op \notin Changes
       PROVE  Promise!Next
  <2>1. /\ PhaseOf(p)' = "none" /\ call'[p].times = 0 /\ call[p].op # "none"
        /\ ~DoneOf(p)' /\ ~DoneOf(p) /\ PhaseOf(p) = "none" /\ call[p].times = 0
    BY <1>1, <1>6, <1>13, PhaseCases, NoCallFacts DEF Returned, Changes, CallOK, Tidy, At
  <2>2. QED
    BY <1>8, <2>1 DEF Promise!Pending, DoneOf
<1>14. ASSUME NEW r \in {"ok", "failed"}, Returned(p, r), call[p].op \in Changes
       PROVE  Promise!Next
  <2>1. /\ PhaseOf(p)' = r /\ call'[p].times = 0 /\ ~DoneOf(p)'
    BY <1>6, <1>14, NoCallFacts DEF Returned, Changes
  <2>2. PhaseOf(p) = IF call[p].op = "stor" THEN "upload" ELSE "change"
    BY <1>14, PhaseCases DEF Changes
  <2>3. /\ handle'[p].stored = handle[p].stored \/ ~handle'[p].stored
        /\ call[p].op # "stor" => handle'[p].stored = handle[p].stored
    BY <1>14, HandleAfterOK DEF Returned, Changes
  <2>4. /\ Phases' = [Phases EXCEPT ![p] = r] /\ Times' = [Times EXCEPT ![p] = 0]
        /\ Phases[p] = PhaseOf(p) /\ Storeds[p] = handle[p].stored
    BY <1>4, <2>1 DEF Phases, Times, Storeds, OthersSame
  <2>5. Dones' = [Dones EXCEPT ![p] = FALSE] /\ Dones[p] = DoneOf(p)
    <3>1. DoneOf(p)' = FALSE
      BY <2>1 DEF DoneOf
    <3>2. QED
      BY <1>4, <3>1 DEF Dones, OthersSame
  <2>6. \/ UNCHANGED Storeds
        \/ Phases[p] = "upload" /\ Storeds' = [Storeds EXCEPT ![p] = FALSE]
    <3>1. CASE handle'[p].stored = handle[p].stored
      BY <1>4, <3>1 DEF Storeds, OthersSame
    <3>2. CASE handle'[p].stored # handle[p].stored
      <4>1. handle'[p].stored = FALSE /\ Phases[p] = "upload"
        BY <1>3, <2>2, <2>3, <2>4, <3>2 DEF Handle
      <4>2. QED
        BY <1>4, <4>1 DEF Storeds, OthersSame
    <3>3. QED
      BY <3>1, <3>2
  <2>7. Promise!End(p, r)
    BY <1>5, <2>4, <2>5, <2>6 DEF Promise!End, Limit, Phases, Times, Dones, Storeds, DoneOf
  <2>8. CASE r = "failed"
    <3>1. PhaseOf(p) \in Promise!Pending
      BY <2>2 DEF Promise!Pending
    <3>2. Promise!Fail(p)
      BY <2>7, <2>8, <3>1 DEF Promise!Fail, Phases
    <3>3. QED
      BY <3>2 DEF Promise!Next
  <2>9. CASE r = "ok"
    <3>1. \/ PhaseOf(p) = "change" /\ DoneOf(p)
          \/ PhaseOf(p) = "upload" /\ handle[p].stored
      BY <1>1, <1>14, <2>2, <2>9 DEF Returned, Changes, CallOK, DoneOf
    <3>2. Promise!Succeed(p)
      BY <2>7, <2>9, <3>1 DEF Promise!Succeed, Phases, DoneOf
    <3>3. QED
      BY <3>2 DEF Promise!Next
  <2>10. QED
    BY <2>8, <2>9
<1>15. QED
  BY <1>7, <1>9, <1>10, <1>11, <1>12, <1>13, <1>14 DEF CallStep

-----------------------------------------------------------------------------
(* The steps of BackendCalls, of which every step of a protocol is made.   *)

\* Begin: a call other than an upload leaves the write handle alone.
LEMMA BeginStep ==
    ASSUME CallsOK, NEW p \in Proc, NEW op \in {"root", "stat", "list", "query", "read",
                                                "change", "lock", "close"},
           Begin(p, op), handle' = handle
    PROVE  CallStep(p) /\ call[p].pc = "idle" /\ call'[p].pc = "enter" /\ call'[p].op = op
<1>1. [NoCall EXCEPT !.op = op, !.pc = "enter"] \in Call
  BY DEF NoCall, Call
<1>2. /\ call'[p] = [NoCall EXCEPT !.op = op, !.pc = "enter"] /\ call[p].pc = "idle"
      /\ OnlyCall(p)
  BY <1>1 DEF Begin, At, CallsOK, Typed, OnlyCall
<1>3. Opened(p)
  BY <1>2 DEF Opened, NoCall
<1>4. QED
  BY <1>2, <1>3 DEF CallStep, NoCall

\* OpenWrite, WriteAt, and the Sync or Close of a write handle.
LEMMA HandleStep ==
    ASSUME CallsOK, NEW p \in Proc,
           \/ \E create, truncate \in BOOLEAN : OpenWrite(p, create, truncate)
           \/ WriteAt(p)
           \/ \E close \in BOOLEAN : Sync(p, close)
    PROVE  CallStep(p) /\ call[p].pc = "idle" /\ call'[p].pc \in {"idle", "enter"}
<1>1. call[p] \in Call /\ handle[p] \in Handle /\ Tidy(p) /\ CallOK(p)
  BY DEF CallsOK, Typed
<1>2. CASE \E create, truncate \in BOOLEAN : OpenWrite(p, create, truncate)
  <2>1. PICK create \in BOOLEAN, truncate \in BOOLEAN : OpenWrite(p, create, truncate)
    BY <1>2
  <2>2. CASE create /\ truncate
    <3>1. /\ handle' = [handle EXCEPT ![p] = [st |-> "open", dirty |-> TRUE, stored |-> FALSE]]
          /\ call' = call /\ call[p].pc = "idle"
      BY <2>1, <2>2 DEF OpenWrite, At
    <3>2. OnlyCall(p)
      BY <3>1 DEF OnlyCall, CallsOK, Typed, Handle
    <3>3. Written(p)
      BY <3>1 DEF Written, CallsOK, Typed
    <3>4. QED
      BY <3>1, <3>2, <3>3 DEF CallStep
  <2>3. CASE ~(create /\ truncate)
    <3>1. PICK op \in {"stat", "read"} : Begin(p, op) /\ handle' = [handle EXCEPT ![p].st = "opening"]
      BY <2>1, <2>3 DEF OpenWrite
    <3>2. [NoCall EXCEPT !.op = op, !.pc = "enter"] \in Call
      BY DEF NoCall, Call
    <3>3. /\ call' = [call EXCEPT ![p] = [NoCall EXCEPT !.op = op, !.pc = "enter"]]
          /\ call[p].pc = "idle"
      BY <3>1 DEF Begin, At
    <3>4. OnlyCall(p)
      BY <3>1, <3>2, <3>3 DEF OnlyCall, CallsOK, Typed, Handle
    <3>5. call'[p] = [NoCall EXCEPT !.op = op, !.pc = "enter"] /\ handle'[p] = [handle[p] EXCEPT !.st = "opening"]
      BY <3>1, <3>3 DEF CallsOK, Typed
    <3>6. /\ handle'[p].st = "opening" /\ handle'[p].dirty = handle[p].dirty
          /\ handle'[p].stored = handle[p].stored
      BY <1>1, <3>5 DEF Handle
    <3>7. /\ call'[p].op = op /\ call'[p].pc = "enter" /\ call'[p].times = 0
          /\ call'[p].ran = FALSE /\ call'[p].result = "none" /\ call'[p].back = "send"
      BY <3>5 DEF NoCall
    <3>8. Opened(p)
      BY <3>3, <3>6, <3>7 DEF Opened
    <3>9. QED
      BY <3>3, <3>4, <3>7, <3>8 DEF CallStep
  <2>4. QED
    BY <2>2, <2>3
<1>3. CASE WriteAt(p)
  <2>1. /\ handle' = [handle EXCEPT ![p].dirty = TRUE, ![p].stored = FALSE]
        /\ call' = call /\ call[p].pc = "idle" /\ handle[p].st = "open"
    BY <1>3 DEF WriteAt, At
  <2>2. OnlyCall(p)
    BY <2>1 DEF OnlyCall, CallsOK, Typed, Handle
  <2>3. handle'[p] = [st |-> "open", dirty |-> TRUE, stored |-> FALSE]
    BY <1>1, <2>1 DEF CallsOK, Typed, Handle
  <2>4. Written(p)
    BY <2>1, <2>3 DEF Written
  <2>5. QED
    BY <2>1, <2>2, <2>4 DEF CallStep
<1>4. CASE \E close \in BOOLEAN : Sync(p, close)
  <2>1. PICK st \in {"open", "closing"} :
            /\ handle' = [handle EXCEPT ![p].st = st]
            /\ handle[p].st = "open" /\ Begin(p, "stor")
    BY <1>4 DEF Sync
  <2>2. [NoCall EXCEPT !.op = "stor", !.pc = "enter"] \in Call
    BY DEF NoCall, Call
  <2>3. /\ call' = [call EXCEPT ![p] = [NoCall EXCEPT !.op = "stor", !.pc = "enter"]]
        /\ call[p].pc = "idle"
    BY <2>1 DEF Begin, At
  <2>4. OnlyCall(p)
    BY <2>1, <2>2, <2>3 DEF OnlyCall, CallsOK, Typed, Handle
  <2>5. call'[p] = [NoCall EXCEPT !.op = "stor", !.pc = "enter"] /\ handle'[p] = [handle[p] EXCEPT !.st = st]
    BY <2>1, <2>3 DEF CallsOK, Typed
  <2>6. /\ handle'[p].st = st /\ handle'[p].dirty = handle[p].dirty
        /\ handle'[p].stored = handle[p].stored
    BY <1>1, <2>5 DEF Handle
  <2>7. /\ call'[p].op = "stor" /\ call'[p].pc = "enter" /\ call'[p].times = 0
        /\ call'[p].ran = FALSE /\ call'[p].result = "none" /\ call'[p].back = "send"
    BY <2>5 DEF NoCall
  <2>8. Opened(p)
    BY <2>1, <2>3, <2>6, <2>7 DEF Opened
  <2>9. QED
    BY <2>3, <2>4, <2>7, <2>8 DEF CallStep
<1>5. QED
  BY <1>2, <1>3, <1>4

\* Return: a change reports success only when it was executed, an upload only
\* when the content is stored.
LEMMA ReturnStep ==
    ASSUME CallsOK, NEW p \in Proc, NEW r \in {"ok", "failed"}, Return(p, r),
           call[p].pc # "idle",
           r = "ok" => \/ call[p].op \notin Changes \/ call[p].ran
                       \/ call[p].op = "stor" /\ ~handle[p].dirty
    PROVE  /\ CallStep(p) /\ call'[p].pc = "idle" /\ call'[p].op = "none"
           /\ handle[p].st = "none" => handle'[p].st = "none"
<1>1. call[p] \in Call /\ handle[p] \in Handle /\ Tidy(p) /\ CallOK(p)
  BY DEF CallsOK, Typed
<1>2. /\ call' = [call EXCEPT ![p] = IF call[p].op \in Changes THEN [NoCall EXCEPT !.result = r]
                                                               ELSE NoCall]
      /\ handle' = [handle EXCEPT ![p] = HandleAfter(p, r)]
  BY DEF Return
<1>3. /\ call[p].op \in {"change", "lock"} /\ r = "ok" => call[p].ran
      /\ call[p].op = "stor" /\ r = "ok" => handle[p].stored
  BY <1>1 DEF CallOK, Changes
<1>4. HandleAfter(p, r) \in Handle
  BY <1>3, HandleAfterOK
<1>5. /\ call'[p] = IF call[p].op \in Changes THEN [NoCall EXCEPT !.result = r] ELSE NoCall
      /\ handle'[p] = HandleAfter(p, r)
      /\ \A q \in Proc \ {p} : call'[q] = call[q] /\ handle'[q] = handle[q]
  BY <1>2 DEF CallsOK, Typed
<1>6. call'[p] \in Call /\ call'[p].pc = "idle" /\ call'[p].op = "none"
  BY <1>5, NoCallFacts
<1>7. call' \in [Proc -> Call] /\ handle' \in [Proc -> Handle]
  <2>1. call' = [call EXCEPT ![p] = call'[p]]
    BY <1>2, <1>5
  <2>2. QED
    BY <1>2, <1>4, <1>6, <2>1 DEF CallsOK, Typed
<1>8. OnlyCall(p) /\ Returned(p, r)
  BY <1>3, <1>5, <1>7 DEF OnlyCall, Typed, Returned
<1>9. handle[p].st = "none" => HandleAfter(p, r).st = "none"
  <2>1. ASSUME handle[p].st = "none" PROVE HandleAfter(p, r) = handle[p]
    BY <1>1, <2>1 DEF HandleAfter, CallOK
  <2>2. QED
    BY <2>1
<1>10. QED
  BY <1>5, <1>6, <1>8, <1>9 DEF CallStep

\* Run: the server executes a change.
LEMMA RunStep ==
    ASSUME CallsOK, NEW p \in Proc, Run(p), call[p].pc \in {"send", "resend"}
    PROVE  /\ CallStep(p) /\ call'[p].pc = call[p].pc /\ call'[p].op = call[p].op
           /\ call'[p].conn = call[p].conn /\ call'[p].gen = call[p].gen
           /\ handle'[p].st = handle[p].st
<1>1. call[p] \in Call /\ handle[p] \in Handle
  BY DEF CallsOK, Typed
<1>2. /\ call' = [call EXCEPT ![p].ran = TRUE, ![p].times = @ + 1]
      /\ handle' = IF call[p].op = "stor" THEN [handle EXCEPT ![p].stored = TRUE] ELSE handle
      /\ call[p].op \in Changes /\ ~call[p].ran
  BY DEF Run
<1>3. OnlyCall(p)
  BY <1>1, <1>2 DEF OnlyCall, CallsOK, Typed, Call, Handle
<1>4. /\ call'[p] = [call[p] EXCEPT !.ran = TRUE, !.times = @ + 1]
      /\ handle'[p] = IF call[p].op = "stor" THEN [handle[p] EXCEPT !.stored = TRUE] ELSE handle[p]
  BY <1>2 DEF CallsOK, Typed
<1>5. Ran(p)
  BY <1>2, <1>4 DEF Ran
<1>6. QED
  BY <1>1, <1>3, <1>4, <1>5 DEF CallStep, Call, Handle

\* A call goes on: what it is, and what was executed of it, stays the same.
LEMMA MoveStep ==
    ASSUME CallsOK, NEW p \in Proc, NEW c \in Call,
           call' = [call EXCEPT ![p] = c], handle' = handle,
           call[p].pc \notin {"idle", "resend"}, c.pc \notin {"idle", "enter"}, PlaceOK(c),
           c.op = call[p].op, c.times = call[p].times, c.result = call[p].result,
           \/ /\ c.ran = call[p].ran
              /\ (call[p].times > 0 => call[p].ran) \/ c.pc = "dial"
           \/ ~c.ran /\ call[p].pc \in {"reconnect", "dial"} /\ c.pc = "resend"
    PROVE  CallStep(p) /\ call'[p] = c /\ handle'[p] = handle[p]
<1>1. OnlyCall(p) /\ call'[p] = c /\ handle'[p] = handle[p]
  BY DEF OnlyCall, CallsOK, Typed
<1>2. Moved(p)
  BY <1>1 DEF Moved
<1>3. QED
  BY <1>1, <1>2 DEF CallStep

\* FTP and WebDAV repeat no call.
LEMMA StepKeepsOnce ==
    ASSUME CallsOK, NEW p \in Proc, CallStep(p), call'[p].pc # "resend",
           \A q \in Proc : OnceOK(q)
    PROVE  \A q \in Proc : OnceOK(q)'
<1>1. /\ \A q \in Proc \ {p} : call'[q] = call[q]
      /\ call[p] \in Call /\ OnceOK(p)
  BY DEF CallStep, OnlyCall, CallsOK, Typed
<1>2. OnceOK(p)'
  <2>1. ASSUME NEW r \in {"ok", "failed"}, Returned(p, r) PROVE OnceOK(p)'
    BY <2>1, NoCallFacts DEF Returned, OnceOK
  <2>2. CASE Opened(p) \/ Written(p)
    BY <1>1, <2>2 DEF Opened, Written, OnceOK
  <2>3. CASE Moved(p)
    BY <1>1, <2>3 DEF Moved, OnceOK
  <2>4. CASE Ran(p)
    <3>1. call'[p].ran /\ call'[p].times = call[p].times + 1 /\ ~call[p].ran
      BY <1>1, <2>4 DEF Ran, Call
    <3>2. QED
      BY <1>1, <3>1 DEF OnceOK, Call
  <2>5. CASE Emptied(p)
    BY <2>5, NoCallFacts DEF Emptied, OnceOK
  <2>6. QED
    BY <2>1, <2>2, <2>3, <2>4, <2>5 DEF CallStep
<1>3. QED
  BY <1>1, <1>2 DEF OnceOK

-----------------------------------------------------------------------------
(* FTP.                                                                    *)

\* The rest of TypeOK.
Shape ==
    /\ lock \in Proc \union {None} /\ closed \in BOOLEAN /\ generation \in Nat
    /\ open \subseteq Connection /\ broken \subseteq open /\ client \in Connection \union {0}
    /\ protocol \in {"ftp", "sftp", "webdav"} /\ needsProbe \in BOOLEAN
    /\ last \in {"ok", "transfer", "error"} /\ spent \subseteq Proc

Healthy == \A c \in open \ open' : c \in broken \/ closed'

\* The operators FTP has from BackendCalls are those of Backends.
LEMMA FtpShares ==
    /\ \A p, x : Ftp!At(p, x) <=> At(p, x)
    /\ \A p, x : Ftp!Goto(p, x) <=> Goto(p, x)
    /\ \A p, x : Ftp!Begin(p, x) <=> Begin(p, x)
    /\ \A p, x : Ftp!Return(p, x) <=> Return(p, x)
    /\ \A p : Ftp!Run(p) <=> Run(p)
    /\ \A p, x, y : Ftp!OpenWrite(p, x, y) <=> OpenWrite(p, x, y)
    /\ \A p : Ftp!WriteAt(p) <=> WriteAt(p)
    /\ \A p, x : Ftp!Sync(p, x) <=> Sync(p, x)
<1>1. \A p, x : Ftp!At(p, x) <=> At(p, x)
  BY DEF Ftp!At, At
<1>2. \A p, x : Ftp!Goto(p, x) <=> Goto(p, x)
  BY DEF Ftp!Goto, Goto
<1>3. \A p, x : Ftp!Begin(p, x) <=> Begin(p, x)
  BY <1>1 DEF Ftp!Begin, Begin, Ftp!NoCall, NoCall
<1>4. \A p, x : Ftp!Return(p, x) <=> Return(p, x)
  BY DEF Ftp!Return, Return, Ftp!NoCall, NoCall, Ftp!HandleAfter, HandleAfter,
         Ftp!NoHandle, NoHandle, Ftp!Changes, Changes
<1>5. \A p : Ftp!Run(p) <=> Run(p)
  BY DEF Ftp!Run, Run, Ftp!Changes, Changes
<1>6. \A p, x, y : Ftp!OpenWrite(p, x, y) <=> OpenWrite(p, x, y)
  BY <1>1, <1>3 DEF Ftp!OpenWrite, OpenWrite
<1>7. \A p : Ftp!WriteAt(p) <=> WriteAt(p)
  BY <1>1 DEF Ftp!WriteAt, WriteAt
<1>8. \A p, x : Ftp!Sync(p, x) <=> Sync(p, x)
  BY <1>3 DEF Ftp!Sync, Sync
<1>9. QED
  BY <1>1, <1>2, <1>3, <1>4, <1>5, <1>6, <1>7, <1>8

\* A step of one goroutine that touches the connection only when no other has it.
FtpTurn(p) ==
    /\ CallStep(p) /\ call'[p].pc # "resend" /\ OneConnection'
    /\ lock' # None => ~closed'
    /\ lock' = None /\ ~needsProbe' => last' = "ok"
    /\ call'[p].pc \in Ftp!Holding <=> lock' = p
    /\ call'[p].pc \in {"send", "fallback"} => last' = "ok"
    /\ call'[p].pc = "probe" => needsProbe'
    /\ call'[p].pc = "dial" => client' \in broken'
    /\ \/ lock \in {None, p} /\ lock' \in {None, p}
       \/ lock' = lock /\ UNCHANGED <<needsProbe, last, client, broken>>

\* A call that holds the mutex, takes it or gives it back keeps the invariant of
\* the FTP connection.
LEMMA FtpTurnOK ==
    ASSUME CallsOK, FtpOK, NEW p \in Proc, FtpTurn(p)
    PROVE  FtpOK'
<1>1. \A q \in Proc : OnceOK(q)'
  BY StepKeepsOnce DEF FtpOK, FtpTurn
<1>2. \A q \in Proc \ {p} : call'[q] = call[q]
  BY DEF FtpTurn, CallStep, OnlyCall
<1>3. ASSUME NEW q \in Proc \ {p}
      PROVE  /\ call'[q].pc \in Ftp!Holding <=> lock' = q
             /\ call'[q].pc \in {"send", "fallback"} => last' = "ok"
             /\ call'[q].pc = "probe" => needsProbe'
             /\ call'[q].pc = "dial" => client' \in broken'
  <2>1. /\ call[q].pc \in Ftp!Holding <=> lock = q
        /\ call[q].pc \in {"send", "fallback"} => last = "ok"
        /\ call[q].pc = "probe" => needsProbe
        /\ call[q].pc = "dial" => client \in broken
        /\ call'[q] = call[q] /\ None \notin Proc
    BY <1>2, <1>3, BackendConstants DEF FtpOK
  <2>2. CASE lock \in {None, p} /\ lock' \in {None, p}
    BY <1>3, <2>1, <2>2 DEF Ftp!Holding
  <2>3. CASE lock' = lock /\ UNCHANGED <<needsProbe, last, client, broken>>
    BY <2>1, <2>3
  <2>4. QED
    BY <2>2, <2>3 DEF FtpTurn
<1>4. QED
  BY <1>1, <1>3 DEF FtpOK, FtpTurn, Ftp!Holding

\* A goroutine that does not hold the mutex calls, writes or gives up.
LEMMA FtpAside ==
    ASSUME CallsOK, FtpOK, NEW p \in Proc, CallStep(p),
           call[p].pc \notin Ftp!Holding, call'[p].pc \in {"idle", "enter"},
           lock' = lock, UNCHANGED connectionVars, UNCHANGED <<needsProbe, last>>
    PROVE  FtpTurn(p)
BY DEF FtpOK, FtpTurn, Ftp!Holding, OneConnection, connectionVars

\* The end of a call of the goroutine that holds the mutex.
LEMMA FtpUnlock ==
    ASSUME CallsOK, FtpOK, NEW p \in Proc, NEW r \in {"ok", "failed"}, Ftp!Unlock(p, r),
           call[p].pc \in Ftp!Holding,
           r = "ok" => call[p].op \notin Changes \/ call[p].ran,
           UNCHANGED <<client, open, closed>>, ~needsProbe' => last' = "ok"
    PROVE  FtpTurn(p)
<1>1. lock' = None /\ Return(p, r) /\ lock = p /\ None \notin Proc /\ call[p].pc # "idle"
  BY FtpShares, BackendConstants DEF Ftp!Unlock, FtpOK, Ftp!Holding
<1>2. CallStep(p) /\ call'[p].pc = "idle"
  BY <1>1, ReturnStep
<1>3. QED
  BY <1>1, <1>2 DEF FtpTurn, FtpOK, OneConnection, Ftp!Holding

\* The call of the goroutine that holds the mutex, or takes it, goes on.
LEMMA FtpGoOn ==
    ASSUME CallsOK, FtpOK, NEW p \in Proc, NEW c \in Call,
           call' = [call EXCEPT ![p] = c], handle' = handle,
           call[p].pc \notin {"idle", "resend"}, c.pc \in Ftp!Holding, PlaceOK(c),
           c.op = call[p].op, c.times = call[p].times, c.result = call[p].result,
           c.ran = call[p].ran,
           lock \in {None, p}, lock' = p, ~closed', OneConnection',
           c.pc \in {"send", "fallback"} => last' = "ok",
           c.pc = "probe" => needsProbe', c.pc = "dial" => client' \in broken'
    PROVE  FtpTurn(p)
<1>1. c.pc \notin {"idle", "enter", "resend"} /\ (call[p].times > 0 => call[p].ran)
  BY DEF FtpOK, OnceOK, Ftp!Holding
<1>2. CallStep(p) /\ call'[p] = c
  BY <1>1, MoveStep
<1>3. p # None
  BY BackendConstants
<1>4. QED
  BY <1>1, <1>2, <1>3 DEF FtpTurn

\* So does one that goes on to its next step under the mutex.
LEMMA FtpGoto ==
    ASSUME CallsOK, FtpOK, NEW p \in Proc, NEW x \in Ftp!Holding, Goto(p, x), handle' = handle,
           call[p].pc \notin {"idle", "resend"}, lock \in {None, p}, lock' = p, ~closed',
           OneConnection', x \in {"send", "fallback"} => last' = "ok",
           x = "probe" => needsProbe', x = "dial" => client' \in broken',
           x = "fallback" => call[p].op = "stat", x = "reading" => call[p].op = "read"
    PROVE  FtpTurn(p)
<1> DEFINE c == [call[p] EXCEPT !.pc = x]
<1>1. call[p] \in Call /\ call' = [call EXCEPT ![p] = c]
  BY DEF CallsOK, Typed, Goto
<1>2. /\ c \in Call /\ c.pc = x /\ c.op = call[p].op /\ c.times = call[p].times
      /\ c.result = call[p].result /\ c.ran = call[p].ran
  BY <1>1 DEF Call, Ftp!Holding
<1>5. PlaceOK(c)
  BY <1>1, <1>2 DEF PlaceOK, CallsOK, CallOK, Call
<1> HIDE DEF c
<1>3. /\ c.pc \in Ftp!Holding
      /\ c.pc \in {"send", "fallback"} => last' = "ok"
      /\ c.pc = "probe" => needsProbe'
      /\ c.pc = "dial" => client' \in broken'
  BY <1>2
<1>4. QED
  BY <1>1, <1>2, <1>3, <1>5, FtpGoOn

\* Again: the command will be repeated on a new connection.
LEMMA FtpAgain ==
    ASSUME CallsOK, FtpOK, NEW p \in Proc, Ftp!Again(p), call[p].pc \in {"send", "fallback"},
           UNCHANGED <<client, open, closed>>, client \in broken'
    PROVE  FtpTurn(p)
<1> DEFINE c == [call[p] EXCEPT !.back = call[p].pc, !.pc = "dial", !.retried = TRUE]
<1>1. /\ call[p] \in Call /\ call' = [call EXCEPT ![p] = c] /\ handle' = handle /\ lock' = lock
  BY DEF CallsOK, Typed, Ftp!Again
<1>2. /\ c \in Call /\ c.pc = "dial" /\ c.op = call[p].op /\ c.times = call[p].times
      /\ c.result = call[p].result /\ c.ran = call[p].ran
  BY <1>1 DEF Call
<1>6. PlaceOK(c)
  BY <1>1, <1>2 DEF PlaceOK, CallsOK, CallOK, Call
<1> HIDE DEF c
<1>3. lock = p /\ ~closed' /\ OneConnection' /\ call[p].pc \notin {"idle", "resend"}
  BY BackendConstants DEF FtpOK, OneConnection, Ftp!Holding
<1>4. /\ c.pc \in Ftp!Holding /\ (c.pc \in {"send", "fallback"} => last' = "ok")
      /\ (c.pc = "probe" => needsProbe') /\ (c.pc = "dial" => client' \in broken')
  BY <1>2 DEF Ftp!Holding
<1>7. QED
  BY <1>1, <1>2, <1>3, <1>4, <1>6, FtpGoOn

\* reconnectLocked: there is an identity for the new connection, and it becomes
\* the only one.
LEMMA FtpNewConnection ==
    ASSUME FtpOK, ~closed, Ftp!Replace(Ftp!NewConnection)
    PROVE  client' \in Connection /\ open' = {client'} /\ open = {client} /\ broken' = broken \ {client}
<1>1. open = {client} /\ client \in Connection
  BY DEF FtpOK, OneConnection
<1>2. \E c \in Connection : c \notin open
  <2>1. 1 \in Connection /\ 2 \in Connection
    BY BackendConstants DEF Connection
  <2>2. QED
    BY <1>1, <2>1
<1>3. Ftp!NewConnection \in Connection /\ Ftp!NewConnection # client
  BY <1>1, <1>2 DEF Ftp!NewConnection, Ftp!Connection, Connection
<1>4. QED
  BY <1>1, <1>3 DEF Ftp!Replace

\* What a step of FTP has to do.
FtpGood(p) == FtpTurn(p) /\ Shape' /\ Healthy

\* A step that leaves the connections alone.
LEMMA SameConnection ==
    ASSUME Shape, UNCHANGED <<protocol, generation>>, UNCHANGED connectionVars,
           lock' \in Proc \union {None}, needsProbe' \in BOOLEAN,
           last' \in {"ok", "transfer", "error"}, spent' \subseteq Proc
    PROVE  Shape' /\ Healthy
BY DEF Shape, Healthy, connectionVars

\* A connection error.
LEMMA BrokenConnection ==
    ASSUME Shape, FtpOK, ~closed, Ftp!Broke, UNCHANGED <<protocol, generation>>,
           lock' \in Proc \union {None}, needsProbe' \in BOOLEAN,
           last' \in {"ok", "transfer", "error"}, spent' \subseteq Proc
    PROVE  /\ Shape' /\ Healthy /\ client \in broken' /\ UNCHANGED <<client, open, closed>>
BY DEF Shape, Healthy, Ftp!Broke, FtpOK, OneConnection

\* Every step of the FTP backend.
LEMMA FtpStep ==
    ASSUME CallsOK, Shape, FtpOK, UNCHANGED <<protocol, generation>>, Ftp!Next
    PROVE  \E p \in Proc : /\ CallStep(p) \/ UNCHANGED callVars
                           /\ FtpOK' /\ Shape' /\ Healthy
<1>t. /\ \A p \in Proc : call[p] \in Call /\ handle[p] \in Handle /\ CallOK(p)
      /\ None \notin Proc
  BY BackendConstants DEF CallsOK, Typed
<1>h. ASSUME NEW p \in Proc, call[p].pc \in Ftp!Holding
      PROVE  lock = p /\ ~closed /\ call[p].pc \notin {"idle", "enter", "resend"} /\ OneConnection
  BY <1>t, <1>h DEF FtpOK, Ftp!Holding
<1>a. ASSUME NEW p \in Proc, call[p].pc \notin Ftp!Holding, CallStep(p),
             call'[p].pc \in {"idle", "enter"}, UNCHANGED <<lock, connectionVars, needsProbe, last, spent>>
      PROVE  FtpGood(p)
  <2>1. FtpTurn(p)
    BY <1>a, FtpAside
  <2>2. Shape' /\ Healthy
    BY <1>a, SameConnection DEF Shape
  <2>3. QED
    BY <2>1, <2>2 DEF FtpGood
<1>u. ASSUME NEW p \in Proc, NEW r \in {"ok", "failed"}, call[p].pc \in Ftp!Holding,
             Ftp!Unlock(p, r), r = "ok" => call[p].op \notin Changes \/ call[p].ran,
             UNCHANGED connectionVars, ~needsProbe' => last' = "ok",
             needsProbe' \in BOOLEAN, last' \in {"ok", "transfer", "error"}, spent' \subseteq Proc
      PROVE  FtpGood(p)
  <2>1. FtpTurn(p)
    BY <1>u, FtpUnlock DEF connectionVars
  <2>2. lock' = None
    BY <1>u DEF Ftp!Unlock
  <2>3. Shape' /\ Healthy
    BY <1>u, <2>2, SameConnection
  <2>4. QED
    BY <2>1, <2>3 DEF FtpGood
<1>b. ASSUME NEW p \in Proc, call[p].pc \in Ftp!Holding, Ftp!Broke, last' = "error",
             spent' = spent,
             \/ Ftp!Again(p) /\ call[p].pc \in {"send", "fallback"} /\ needsProbe' \in BOOLEAN
             \/ Ftp!Unlock(p, "failed") /\ needsProbe' = TRUE
      PROVE  FtpGood(p)
  <2>1. lock = p /\ ~closed
    BY <1>b, <1>h
  <2>2. lock' \in Proc \union {None}
    BY <1>b, <2>1 DEF Ftp!Again, Ftp!Unlock
  <2>3. Shape' /\ Healthy /\ client \in broken' /\ UNCHANGED <<client, open, closed>>
    BY <1>b, <2>1, <2>2, BrokenConnection DEF Shape
  <2>4. CASE Ftp!Again(p) /\ call[p].pc \in {"send", "fallback"} /\ needsProbe' \in BOOLEAN
    BY <2>3, <2>4, FtpAgain DEF FtpGood
  <2>5. CASE Ftp!Unlock(p, "failed") /\ needsProbe' = TRUE
    <3>1. FtpTurn(p)
      BY <1>b, <2>3, <2>5, FtpUnlock
    <3>2. QED
      BY <2>3, <3>1 DEF FtpGood
  <2>6. QED
    BY <1>b, <2>4, <2>5
<1>1. ASSUME NEW p \in Proc, NEW op \in Ftp!Ops, Ftp!Start(p, op) PROVE FtpGood(p)
  <2>1. Begin(p, op) /\ UNCHANGED <<handle, lock, connectionVars, needsProbe, last, spent>>
    BY <1>1, FtpShares DEF Ftp!Start, Ftp!ftpVars, Ftp!connectionVars, connectionVars
  <2>2. op \in {"root", "stat", "list", "query", "read", "change", "lock", "close"}
    BY DEF Ftp!Ops
  <2>3. CallStep(p) /\ call[p].pc = "idle" /\ call'[p].pc = "enter"
    BY <2>1, <2>2, BeginStep
  <2>4. QED
    BY <1>a, <2>1, <2>3 DEF Ftp!Holding
<1>2. ASSUME NEW p \in Proc, Ftp!Use(p) PROVE FtpGood(p)
  <2>1. /\ \/ \E create, truncate \in BOOLEAN : OpenWrite(p, create, truncate)
           \/ WriteAt(p)
           \/ \E close \in BOOLEAN : Sync(p, close)
        /\ UNCHANGED <<lock, connectionVars, needsProbe, last, spent>>
    BY <1>2, FtpShares DEF Ftp!Use, Ftp!ftpVars, Ftp!connectionVars, connectionVars
  <2>2. CallStep(p) /\ call[p].pc = "idle" /\ call'[p].pc \in {"idle", "enter"}
    BY <2>1, HandleStep
  <2>3. QED
    BY <1>a, <2>1, <2>2 DEF Ftp!Holding
<1>3. ASSUME NEW p \in Proc, Ftp!Refused(p) \/ Ftp!Clean(p) PROVE FtpGood(p)
  <2>1. PICK r \in {"ok", "failed"} :
            /\ Return(p, r) /\ call[p].pc = "enter"
            /\ r = "ok" => call[p].op = "stor" /\ ~handle[p].dirty
            /\ UNCHANGED <<lock, connectionVars, needsProbe, last, spent>>
    BY <1>3, FtpShares DEF Ftp!Refused, Ftp!Clean, Ftp!Refuse, Ftp!SyncClean, Ftp!ftpVars,
       Ftp!connectionVars, connectionVars, Ftp!At
  <2>2. CallStep(p) /\ call'[p].pc = "idle"
    BY <2>1, ReturnStep
  <2>3. QED
    BY <1>a, <2>1, <2>2 DEF Ftp!Holding
<1>4. ASSUME NEW p \in Proc, Ftp!Execute(p) PROVE FtpGood(p)
  <2>1. Run(p) /\ call[p].pc = "send" /\ UNCHANGED <<lock, connectionVars, needsProbe, last, spent>>
    BY <1>4, FtpShares DEF Ftp!Execute, Ftp!ftpVars, Ftp!connectionVars, connectionVars, Ftp!At
  <2>2. CallStep(p) /\ call'[p].pc = "send"
    BY <2>1, RunStep
  <2>3. FtpTurn(p)
    BY <2>1, <2>2 DEF FtpTurn, FtpOK, OneConnection, connectionVars, Ftp!Holding
  <2>4. QED
    BY <2>1, <2>3, SameConnection DEF FtpGood, Shape
<1>5. ASSUME NEW p \in Proc, Ftp!CloseReadAgain(p)
      PROVE  UNCHANGED callVars /\ FtpOK' /\ Shape' /\ Healthy
  <2>1. /\ UNCHANGED callVars /\ UNCHANGED <<lock, connectionVars, needsProbe, last>>
        /\ spent' \subseteq spent
    BY <1>5 DEF Ftp!CloseReadAgain, Ftp!callVars, callVars, Ftp!connectionVars, connectionVars
  <2>2. Shape' /\ Healthy
    BY <2>1, SameConnection DEF Shape
  <2>3. FtpOK'
    BY <2>1 DEF FtpOK, OneConnection, OnceOK, callVars, connectionVars, Ftp!Holding
  <2>4. QED
    BY <2>1, <2>2, <2>3
<1>6. ASSUME NEW p \in Proc, Ftp!NoOp(p) PROVE FtpGood(p)
  <2>1. /\ call[p].pc = "probe" /\ needsProbe /\ spent' = spent
        /\ lock = p /\ ~closed /\ OneConnection
    BY <1>6, <1>h, FtpShares DEF Ftp!NoOp, At, FtpOK, Ftp!Holding
  <2>2. CASE /\ needsProbe' = FALSE /\ last' = "ok" /\ Goto(p, "send")
             /\ broken' = broken \ {client}
             /\ UNCHANGED <<handle, lock, client, open, closed>>
    <3>1. FtpTurn(p)
      BY <2>1, <2>2, FtpGoto DEF OneConnection, Ftp!Holding
    <3>2. Shape' /\ Healthy
      BY <2>1, <2>2 DEF Shape, Healthy
    <3>3. QED
      BY <3>1, <3>2 DEF FtpGood
  <2>3. CASE Ftp!Unlock(p, "failed") /\ UNCHANGED <<needsProbe, last, connectionVars>>
    BY <1>u, <2>1, <2>3 DEF Shape, Ftp!Holding
  <2>4. CASE Ftp!Broke /\ last' = "error" /\ Goto(p, "dial") /\ UNCHANGED <<handle, lock, needsProbe>>
    <3>1. Shape' /\ Healthy /\ client \in broken' /\ UNCHANGED <<client, open, closed>>
      BY <2>1, <2>4, BrokenConnection DEF Shape
    <3>2. FtpTurn(p)
      BY <2>1, <2>4, <3>1, FtpGoto DEF OneConnection, Ftp!Holding
    <3>3. QED
      BY <3>1, <3>2 DEF FtpGood
  <2>5. QED
    BY <1>6, <2>2, <2>3, <2>4, FtpShares
       DEF Ftp!NoOp, Ftp!connectionVars, connectionVars
<1>7. ASSUME NEW p \in Proc, Ftp!reconnectLocked(p) PROVE FtpGood(p)
  <2>1. /\ call[p].pc = "dial" /\ spent' = spent /\ closed' = closed /\ client \in broken
        /\ lock = p /\ ~closed /\ OneConnection
    BY <1>7, <1>h, FtpShares DEF Ftp!reconnectLocked, At, FtpOK, Ftp!Holding
  <2>2. CASE needsProbe' = TRUE /\ Ftp!Unlock(p, "failed") /\ UNCHANGED <<client, open, broken, last>>
    BY <1>u, <2>1, <2>2 DEF Shape, Ftp!Holding, connectionVars
  <2>3. CASE /\ Ftp!Replace(Ftp!NewConnection) /\ needsProbe' = FALSE /\ last' = "ok"
             /\ Goto(p, call[p].back) /\ UNCHANGED <<handle, lock>>
    <3>1. /\ client' \in Connection /\ open' = {client'} /\ open = {client}
          /\ broken' = broken \ {client}
      BY <2>1, <2>3, FtpNewConnection
    <3>2. Shape' /\ Healthy
      BY <2>1, <2>3, <3>1 DEF Shape, Healthy
    <3>3. call[p].back \in {"send", "fallback"} /\ PlaceOK(call[p])
      BY <1>t DEF Call, CallOK
    <3>4. FtpTurn(p)
      BY <2>1, <2>3, <3>1, <3>3, FtpGoto DEF OneConnection, Ftp!Holding, PlaceOK
    <3>5. QED
      BY <3>2, <3>4 DEF FtpGood
  <2>4. QED
    BY <1>7, <2>2, <2>3, FtpShares DEF Ftp!reconnectLocked
<1>8. ASSUME NEW p \in Proc, Ftp!StatRoot(p) PROVE FtpGood(p)
  <2>1. /\ call[p].pc = "send" /\ call[p].op = "root" /\ Ftp!Unlock(p, "ok") /\ last = "ok"
        /\ UNCHANGED <<connectionVars, needsProbe, last, spent>>
    BY <1>8, FtpShares DEF Ftp!StatRoot, Ftp!Sends, At, Ftp!ftpVars, Ftp!connectionVars,
       connectionVars, FtpOK
  <2>2. QED
    BY <1>u, <2>1 DEF Shape, Ftp!Holding, Changes
<1>9. ASSUME NEW p \in Proc, Ftp!Stat(p) PROVE FtpGood(p)
  <2>1. /\ call[p].pc = "send" /\ call[p].op = "stat" /\ spent' = spent /\ last = "ok"
        /\ lock = p /\ ~closed /\ OneConnection
    BY <1>9, <1>h, FtpShares DEF Ftp!Stat, Ftp!Sends, At, FtpOK, Ftp!Holding
  <2>2. CASE Ftp!Unlock(p, "ok") /\ UNCHANGED <<connectionVars, needsProbe, last>>
    BY <1>u, <2>1, <2>2 DEF Shape, Ftp!Holding, Changes
  <2>3. CASE /\ call' = [call EXCEPT ![p].pc = "fallback", ![p].retried = FALSE]
             /\ UNCHANGED <<handle, lock, connectionVars, needsProbe, last>>
    <3> DEFINE c == [call[p] EXCEPT !.pc = "fallback", !.retried = FALSE]
    <3>1. call' = [call EXCEPT ![p] = c]
      BY <1>t, <2>3 DEF CallsOK, Typed
    <3>2. /\ c \in Call /\ c.pc = "fallback" /\ c.op = call[p].op /\ c.times = call[p].times
          /\ c.result = call[p].result /\ c.ran = call[p].ran
      BY <1>t DEF Call
    <3>7. PlaceOK(c)
      BY <1>t, <2>1, <3>2 DEF PlaceOK, CallOK, Call
    <3> HIDE DEF c
    <3>3. /\ c.pc \in Ftp!Holding /\ (c.pc \in {"send", "fallback"} => last' = "ok")
          /\ (c.pc = "probe" => needsProbe') /\ (c.pc = "dial" => client' \in broken')
          /\ lock' = p /\ lock \in {None, p} /\ ~closed' /\ OneConnection' /\ handle' = handle
          /\ call[p].pc \notin {"idle", "resend"}
      BY <2>1, <2>3, <3>2 DEF Ftp!Holding, OneConnection, connectionVars
    <3>4. FtpTurn(p)
      BY <3>1, <3>2, <3>3, <3>7, FtpGoOn
    <3>5. Shape' /\ Healthy
      BY <2>1, <2>3, SameConnection DEF Shape
    <3>6. QED
      BY <3>4, <3>5 DEF FtpGood
  <2>4. CASE /\ Ftp!Broke /\ last' = "error"
             /\ \/ Ftp!Again(p) /\ UNCHANGED needsProbe
                \/ call[p].retried /\ needsProbe' = TRUE /\ Ftp!Unlock(p, "failed")
    BY <1>b, <2>1, <2>4 DEF Shape, Ftp!Holding
  <2>5. QED
    BY <1>9, <2>2, <2>3, <2>4 DEF Ftp!Stat, Ftp!connectionVars, connectionVars
<1>10. ASSUME NEW p \in Proc, Ftp!ReadDir(p) PROVE FtpGood(p)
  <2>1. /\ call[p].pc \in {"send", "fallback"} /\ spent' = spent /\ needsProbe' = TRUE
        /\ lock = p /\ ~closed /\ OneConnection
    BY <1>10, <1>h, FtpShares DEF Ftp!ReadDir, Ftp!Sends, At, FtpOK, Ftp!Holding
  <2>2. call[p].op \notin Changes \/ call[p].ran
    BY <1>10, <1>t, <2>1, FtpShares DEF Ftp!ReadDir, Ftp!Sends, At, CallOK, PlaceOK, Changes
  <2>3. ASSUME NEW r \in {"ok", "failed"}, Ftp!Unlock(p, r), last' = "transfer", UNCHANGED connectionVars
        PROVE  FtpGood(p)
    BY <1>u, <2>1, <2>2, <2>3 DEF Shape, Ftp!Holding
  <2>4. CASE /\ Ftp!Broke /\ last' = "error"
             /\ Ftp!Again(p) \/ (call[p].retried /\ Ftp!Unlock(p, "failed"))
    BY <1>b, <2>1, <2>4 DEF Ftp!Holding
  <2>5. QED
    BY <1>10, <2>3, <2>4 DEF Ftp!ReadDir, Ftp!connectionVars, connectionVars
<1>11. ASSUME NEW p \in Proc, Ftp!OpenRead(p) PROVE FtpGood(p)
  <2>1. /\ call[p].pc = "send" /\ call[p].op = "read" /\ spent' = spent /\ last = "ok"
        /\ lock = p /\ ~closed /\ OneConnection
    BY <1>11, <1>h, FtpShares DEF Ftp!OpenRead, Ftp!Sends, At, FtpOK, Ftp!Holding
  <2>2. CASE /\ last' = "transfer" /\ Goto(p, "reading")
             /\ UNCHANGED <<handle, lock, connectionVars, needsProbe>>
    <3>1. FtpTurn(p)
      BY <2>1, <2>2, FtpGoto DEF OneConnection, Ftp!Holding, connectionVars
    <3>2. Shape' /\ Healthy
      BY <2>1, <2>2, SameConnection DEF Shape
    <3>3. QED
      BY <3>1, <3>2 DEF FtpGood
  <2>3. CASE needsProbe' = FALSE /\ Ftp!Unlock(p, "failed") /\ UNCHANGED <<connectionVars, last>>
    BY <1>u, <2>1, <2>3 DEF Shape, Ftp!Holding
  <2>4. CASE /\ Ftp!Broke /\ last' = "error"
             /\ \/ Ftp!Again(p) /\ UNCHANGED needsProbe
                \/ call[p].retried /\ needsProbe' = TRUE /\ Ftp!Unlock(p, "failed")
    BY <1>b, <2>1, <2>4 DEF Shape, Ftp!Holding
  <2>5. QED
    BY <1>11, <2>2, <2>3, <2>4, FtpShares DEF Ftp!OpenRead, Ftp!connectionVars, connectionVars
<1>12. ASSUME NEW p \in Proc, Ftp!CloseRead(p) PROVE FtpGood(p)
  <2>1. PICK r \in {"ok", "failed"} :
            /\ call[p].pc = "reading" /\ needsProbe' = TRUE /\ Ftp!Unlock(p, r)
            /\ UNCHANGED <<connectionVars, last>> /\ spent' \subseteq spent \union {p}
    BY <1>12, FtpShares DEF Ftp!CloseRead, At, Ftp!connectionVars, connectionVars
  <2>2. call[p].op = "read"
    BY <1>t, <2>1 DEF CallOK, PlaceOK
  <2>3. QED
    BY <1>u, <2>1, <2>2 DEF Shape, Ftp!Holding, Changes
<1>13. ASSUME NEW p \in Proc, Ftp!withClient(p) \/ Ftp!syncLocked(p) PROVE FtpGood(p)
  <2>1. call[p].pc = "send" /\ spent' = spent /\ last = "ok"
    BY <1>13, FtpShares DEF Ftp!withClient, Ftp!syncLocked, Ftp!Sends, At, FtpOK
  <2>2. ASSUME NEW r \in {"ok", "failed"}, Ftp!Unlock(p, r), r = "ok" => call[p].ran,
               UNCHANGED connectionVars,
               \/ UNCHANGED <<needsProbe, last>>
               \/ needsProbe' = TRUE /\ last' = "transfer"
        PROVE  FtpGood(p)
    BY <1>u, <2>1, <2>2 DEF Shape, Ftp!Holding
  <2>3. CASE Ftp!Broke /\ last' = "error" /\ needsProbe' = TRUE /\ Ftp!Unlock(p, "failed")
    BY <1>b, <2>1, <2>3 DEF Ftp!Holding
  <2>4. QED
    BY <1>13, <2>2, <2>3 DEF Ftp!withClient, Ftp!syncLocked, Ftp!connectionVars, connectionVars
<1>14. ASSUME NEW p \in Proc, Ftp!Acquire(p) PROVE FtpGood(p)
  <2>1. /\ call[p].pc = "enter" /\ lock = None /\ UNCHANGED <<connectionVars, needsProbe, last, spent>>
    BY <1>14, FtpShares DEF Ftp!Acquire, Ftp!MayGoOn, Ftp!At, Ftp!ftpVars, Ftp!connectionVars,
       connectionVars
  <2>2. CASE Return(p, "failed") /\ lock' = lock
    <3>1. CallStep(p) /\ call'[p].pc = "idle"
      BY <2>1, <2>2, ReturnStep
    <3>2. QED
      BY <1>a, <2>1, <2>2, <3>1 DEF Ftp!Holding
  <2>3. CASE /\ ~closed /\ lock' = p /\ handle' = handle
             /\ Goto(p, IF needsProbe THEN "probe" ELSE "send")
    <3>1. PICK x \in {"probe", "send"} : Goto(p, x) /\ x = IF needsProbe THEN "probe" ELSE "send"
      BY <2>3
    <3>2. FtpTurn(p)
      BY <2>1, <2>3, <3>1, FtpGoto DEF FtpOK, OneConnection, Ftp!Holding, connectionVars
    <3>3. Shape' /\ Healthy
      BY <2>1, <2>3, SameConnection DEF Shape
    <3>4. QED
      BY <3>2, <3>3 DEF FtpGood
  <2>4. QED
    BY <1>14, <2>2, <2>3, FtpShares DEF Ftp!Acquire
<1>15. ASSUME NEW p \in Proc, Ftp!Close(p) PROVE FtpGood(p)
  <2>1. /\ call[p].pc = "enter" /\ call[p].op = "close" /\ lock = None
        /\ closed' = TRUE /\ open' = open \ {client} /\ broken' = {} /\ Return(p, "ok")
        /\ UNCHANGED <<lock, client, needsProbe, last, spent>>
    BY <1>15, FtpShares DEF Ftp!Close, Ftp!At, Ftp!ftpVars
  <2>2. CallStep(p) /\ call'[p].pc = "idle"
    BY <2>1, ReturnStep DEF Changes
  <2>3. FtpTurn(p)
    BY <1>t, <2>1, <2>2 DEF FtpTurn, FtpOK, OneConnection, Ftp!Holding
  <2>4. Shape' /\ Healthy
    BY <2>1 DEF Shape, Healthy
  <2>5. QED
    BY <2>3, <2>4 DEF FtpGood
<1>16. ASSUME NEW p \in Proc, FtpGood(p)
       PROVE  CallStep(p) /\ FtpOK' /\ Shape' /\ Healthy
  BY <1>16, FtpTurnOK DEF FtpGood, FtpTurn
<1>17. QED
  BY <1>1, <1>2, <1>3, <1>4, <1>5, <1>6, <1>7, <1>8, <1>9, <1>10, <1>11, <1>12, <1>13,
     <1>14, <1>15, <1>16 DEF Ftp!Next, Ftp!Advance, Ftp!Wait

-----------------------------------------------------------------------------
(* SFTP.                                                                   *)

\* The operators SFTP has from BackendCalls are those of Backends.
LEMMA SftpShares ==
    /\ \A p, x : Sftp!At(p, x) <=> At(p, x)
    /\ \A p, x : Sftp!Goto(p, x) <=> Goto(p, x)
    /\ \A p, x : Sftp!Begin(p, x) <=> Begin(p, x)
    /\ \A p, x : Sftp!Return(p, x) <=> Return(p, x)
    /\ \A p : Sftp!Run(p) <=> Run(p)
<1>1. \A p, x : Sftp!At(p, x) <=> At(p, x)
  BY DEF Sftp!At, At
<1>2. \A p, x : Sftp!Goto(p, x) <=> Goto(p, x)
  BY DEF Sftp!Goto, Goto
<1>3. \A p, x : Sftp!Begin(p, x) <=> Begin(p, x)
  BY <1>1 DEF Sftp!Begin, Begin, Sftp!NoCall, NoCall
<1>4. \A p, x : Sftp!Return(p, x) <=> Return(p, x)
  BY DEF Sftp!Return, Return, Sftp!NoCall, NoCall, Sftp!HandleAfter, HandleAfter,
         Sftp!NoHandle, NoHandle, Sftp!Changes, Changes
<1>5. \A p : Sftp!Run(p) <=> Run(p)
  BY DEF Sftp!Run, Run, Sftp!Changes, Changes
<1>6. QED
  BY <1>1, <1>2, <1>3, <1>4, <1>5

\* What one goroutine knows of the connection.
KnowsOK(p) ==
    /\ handle[p].st = "none" /\ call[p].op \in {"none", "query", "change", "close"}
    /\ call[p].pc = "dial" <=> lock = p
    /\ call[p].pc \in {"send", "reconnect"} => call[p].gen <= generation
    /\ call[p].pc = "send" /\ call[p].gen = generation => call[p].conn = client
    /\ call[p].pc = "reconnect" /\ call[p].gen = generation /\ ~closed => client \in broken
    /\ call[p].pc = "dial" => client \in broken

\* A step of one goroutine, and what it may do to the connection the others
\* know: mark it broken, close it for good, or replace it in a new generation.
SftpTurn(p) ==
    /\ CallStep(p) /\ KnowsOK(p)' /\ OneConnection' /\ client' = generation' + 1
    /\ lock' # None => ~closed'
    /\ lock' \in {lock, p, None} /\ lock \in {lock', p, None}
    /\ \/ UNCHANGED <<client, generation, closed>> /\ broken \subseteq broken'
       \/ UNCHANGED <<client, generation>> /\ closed' /\ lock = None
       \/ generation' = generation + 1 /\ lock = p

\* A call that leaves the client alone, closes it or replaces it keeps the
\* invariant of the SFTP connection.
LEMMA SftpTurnOK ==
    ASSUME CallsOK, Shape, SftpOK, NEW p \in Proc, SftpTurn(p)
    PROVE  SftpOK'
<1>1. \A q \in Proc \ {p} : call'[q] = call[q] /\ handle'[q] = handle[q]
  BY DEF SftpTurn, CallStep, OnlyCall
<1>2. ASSUME NEW q \in Proc \ {p} PROVE KnowsOK(q)'
  <2>1. /\ KnowsOK(q) /\ None \notin Proc /\ call[q] \in Call /\ generation \in Nat
        /\ lock' = q <=> lock = q
    BY <1>2, BackendConstants DEF SftpOK, KnowsOK, CallsOK, Typed, Shape, SftpTurn
  <2>2. call'[q] = call[q] /\ handle'[q] = handle[q]
    BY <1>1, <1>2
  <2>3. CASE UNCHANGED <<client, generation, closed>> /\ broken \subseteq broken'
    BY <2>1, <2>2, <2>3 DEF KnowsOK
  <2>4. CASE UNCHANGED <<client, generation>> /\ closed' /\ lock = None
    BY <2>1, <2>2, <2>4 DEF KnowsOK
  <2>5. CASE generation' = generation + 1 /\ lock = p
    BY <1>2, <2>1, <2>2, <2>5 DEF KnowsOK, Call
  <2>6. QED
    BY <2>3, <2>4, <2>5 DEF SftpTurn
<1>3. QED
  BY <1>2 DEF SftpOK, SftpTurn, KnowsOK

\* A goroutine that does not hold the mutex ends its call.
LEMMA SftpReturn ==
    ASSUME CallsOK, Shape, SftpOK, NEW p \in Proc, NEW r \in {"ok", "failed"}, Return(p, r),
           call[p].pc \notin {"idle", "dial"},
           r = "ok" => call[p].op \notin Changes \/ call[p].ran,
           lock' = lock, UNCHANGED <<client, open, closed, generation>>, broken \subseteq broken'
    PROVE  SftpTurn(p)
<1>1. CallStep(p) /\ call'[p].pc = "idle" /\ call'[p].op = "none" /\ handle'[p].st = "none"
  BY ReturnStep DEF SftpOK
<1>2. p # lock
  BY DEF SftpOK
<1>3. QED
  BY <1>1, <1>2 DEF SftpTurn, KnowsOK, SftpOK, OneConnection

\* A call goes on, without a step of the connection.
LEMMA SftpGoOn ==
    ASSUME CallsOK, Shape, SftpOK, NEW p \in Proc, NEW c \in Call,
           call' = [call EXCEPT ![p] = c], handle' = handle,
           call[p].pc \notin {"idle", "resend"}, c.pc \notin {"idle", "enter"},
           c.op = call[p].op, c.times = call[p].times, c.result = call[p].result,
           c.back = call[p].back, c.pc \notin {"reading", "fallback"},
           \/ c.ran = call[p].ran /\ ((call[p].times > 0 => call[p].ran) \/ c.pc = "dial")
           \/ ~c.ran /\ call[p].pc \in {"reconnect", "dial"} /\ c.pc = "resend"
    PROVE  /\ CallStep(p) /\ call'[p] = c /\ handle'[p].st = "none"
           /\ c.op \in {"none", "query", "change", "close"}
<1>1. PlaceOK(c)
  BY DEF PlaceOK, CallsOK, CallOK, Call
<1>2. CallStep(p) /\ call'[p] = c /\ handle'[p] = handle[p]
  BY <1>1, MoveStep
<1>3. QED
  BY <1>2 DEF SftpOK

\* What a step of SFTP has to do.
SftpGood(p) == SftpTurn(p) /\ Shape' /\ Healthy

\* Every step of the SFTP backend.
LEMMA SftpStep ==
    ASSUME CallsOK, Shape, SftpOK, UNCHANGED <<protocol, needsProbe, last, spent>>, Sftp!Next
    PROVE  \E p \in Proc : CallStep(p) /\ SftpOK' /\ Shape' /\ Healthy
<1>t. /\ \A p \in Proc : call[p] \in Call /\ CallOK(p) /\ KnowsOK(p)
      /\ None \notin Proc /\ generation \in Nat /\ Connection \subseteq Nat /\ client \in Nat
      /\ OneConnection /\ client = generation + 1
  BY BackendConstants DEF CallsOK, Typed, SftpOK, KnowsOK, OneConnection, Shape, Connection
<1>s. ASSUME UNCHANGED connectionVars, generation' = generation, lock' \in Proc \union {None}
      PROVE  Shape' /\ Healthy
  BY <1>s, SameConnection DEF Shape
<1>r. ASSUME NEW p \in Proc, NEW r \in {"ok", "failed"}, Return(p, r),
             call[p].pc \notin {"idle", "dial"},
             r = "ok" => call[p].op \notin Changes \/ call[p].ran,
             UNCHANGED <<lock, connectionVars, generation>>
      PROVE  SftpGood(p)
  <2>1. SftpTurn(p)
    BY <1>r, SftpReturn DEF connectionVars
  <2>2. QED
    BY <1>r, <1>s, <2>1 DEF SftpGood, Shape
<1>1. ASSUME NEW p \in Proc, NEW op \in Sftp!Ops, Sftp!Start(p, op) PROVE SftpGood(p)
  <2>1. Begin(p, op) /\ UNCHANGED <<handle, lock, connectionVars, generation>>
    BY <1>1, SftpShares DEF Sftp!Start, Sftp!connectionVars, connectionVars
  <2>2. op \in {"query", "change", "close"}
    BY DEF Sftp!Ops
  <2>3. CallStep(p) /\ call[p].pc = "idle" /\ call'[p].pc = "enter" /\ call'[p].op = op
    BY <2>1, <2>2, BeginStep
  <2>4. KnowsOK(p)'
    BY <1>t, <2>1, <2>2, <2>3 DEF KnowsOK
  <2>5. SftpTurn(p)
    BY <2>1, <2>3, <2>4 DEF SftpTurn, SftpOK, OneConnection, connectionVars
  <2>6. QED
    BY <1>s, <2>1, <2>5 DEF SftpGood, Shape
<1>2. ASSUME NEW p \in Proc, Sftp!Refused(p) PROVE SftpGood(p)
  <2>1. /\ Return(p, "failed") /\ call[p].pc = "enter"
        /\ UNCHANGED <<lock, connectionVars, generation>>
    BY <1>2, SftpShares DEF Sftp!Refused, Sftp!Refuse, Sftp!connectionVars, connectionVars, Sftp!At
  <2>2. QED
    BY <1>r, <2>1
<1>3. ASSUME NEW p \in Proc, Sftp!session(p) PROVE SftpGood(p)
  <2>1. call[p].pc = "enter" /\ UNCHANGED <<lock, connectionVars, generation>>
    BY <1>3, SftpShares DEF Sftp!session, Sftp!connectionVars, connectionVars, Sftp!At
  <2>2. CASE Return(p, "failed")
    BY <1>r, <2>1, <2>2
  <2>3. CASE /\ handle' = handle
             /\ call' = [call EXCEPT ![p].pc = "send", ![p].conn = client, ![p].gen = generation]
    <3> DEFINE c == [call[p] EXCEPT !.pc = "send", !.conn = client, !.gen = generation]
    <3>1. call' = [call EXCEPT ![p] = c]
      BY <2>3 DEF CallsOK, Typed
    <3>2. /\ c \in Call /\ c.pc = "send" /\ c.op = call[p].op /\ c.times = call[p].times
          /\ c.result = call[p].result /\ c.ran = call[p].ran /\ c.back = call[p].back
          /\ c.conn = client /\ c.gen = generation
      BY <1>t DEF Call
    <3> HIDE DEF c
    <3>3. call[p].times > 0 => call[p].ran
      BY <1>t, <2>1 DEF CallOK
    <3>4. /\ CallStep(p) /\ call'[p] = c /\ handle'[p].st = "none"
          /\ c.op \in {"none", "query", "change", "close"}
      <4>1. c.pc \notin {"idle", "enter"} /\ c.pc \notin {"reading", "fallback"}
            /\ call[p].pc \notin {"idle", "resend"}
        BY <2>1, <3>2
      <4>2. QED
        BY <2>3, <3>1, <3>2, <3>3, <4>1, SftpGoOn
    <3>5. KnowsOK(p)'
      BY <1>t, <2>1, <3>2, <3>4 DEF KnowsOK, connectionVars
    <3>6. SftpTurn(p)
      BY <2>1, <3>4, <3>5 DEF SftpTurn, SftpOK, OneConnection, connectionVars
    <3>7. QED
      BY <1>s, <2>1, <3>6 DEF SftpGood, Shape
  <2>4. QED
    BY <1>3, <2>2, <2>3, SftpShares DEF Sftp!session
<1>4. ASSUME NEW p \in Proc, Sftp!Execute(p) PROVE SftpGood(p)
  <2>1. /\ Run(p) /\ call[p].pc \in {"send", "resend"}
        /\ UNCHANGED <<lock, connectionVars, generation>>
    BY <1>4, SftpShares DEF Sftp!Execute, Sftp!InFlight, Sftp!connectionVars, connectionVars, At
  <2>2. /\ CallStep(p) /\ call'[p].pc = call[p].pc /\ call'[p].op = call[p].op
        /\ call'[p].conn = call[p].conn /\ call'[p].gen = call[p].gen
        /\ handle'[p].st = handle[p].st
    BY <2>1, RunStep
  <2>3. KnowsOK(p)'
    BY <1>t, <2>1, <2>2 DEF KnowsOK, connectionVars
  <2>4. SftpTurn(p)
    BY <2>1, <2>2, <2>3 DEF SftpTurn, SftpOK, OneConnection, connectionVars
  <2>5. QED
    BY <1>s, <2>1, <2>4 DEF SftpGood, Shape
<1>5. ASSUME NEW p \in Proc, Sftp!Reply(p) PROVE SftpGood(p)
  <2>1. PICK r \in {"ok", "failed"} :
            /\ Return(p, r) /\ call[p].pc \in {"send", "resend"}
            /\ r = "ok" => call[p].op = "query" \/ call[p].ran
            /\ UNCHANGED <<lock, connectionVars, generation>>
    BY <1>5, SftpShares DEF Sftp!Reply, Sftp!InFlight, Sftp!connectionVars, connectionVars, At
  <2>2. QED
    BY <1>r, <2>1 DEF Changes
<1>6. ASSUME NEW p \in Proc, Sftp!Lose(p) PROVE SftpGood(p)
  <2>1. /\ call[p].pc \in {"send", "resend"}
        /\ broken' = broken \union ({call[p].conn} \intersect open)
        /\ UNCHANGED <<lock, client, open, closed, generation>>
    BY <1>6, SftpShares DEF Sftp!Lose, Sftp!InFlight, At
  <2>2. Shape' /\ Healthy
    BY <2>1 DEF Shape, Healthy
  <2>3. CASE call[p].pc = "send" /\ Goto(p, "reconnect") /\ handle' = handle
    <3> DEFINE c == [call[p] EXCEPT !.pc = "reconnect"]
    <3>1. call' = [call EXCEPT ![p] = c]
      BY <2>3 DEF CallsOK, Typed, Goto
    <3>2. /\ c \in Call /\ c.pc = "reconnect" /\ c.op = call[p].op /\ c.times = call[p].times
          /\ c.result = call[p].result /\ c.ran = call[p].ran /\ c.back = call[p].back
          /\ c.gen = call[p].gen
      BY <1>t DEF Call
    <3> HIDE DEF c
    <3>3. call[p].times > 0 => call[p].ran
      BY <1>t, <2>3 DEF CallOK
    <3>4. /\ CallStep(p) /\ call'[p] = c /\ handle'[p].st = "none"
          /\ c.op \in {"none", "query", "change", "close"}
      <4>1. c.pc \notin {"idle", "enter"} /\ c.pc \notin {"reading", "fallback"}
            /\ call[p].pc \notin {"idle", "resend"}
        BY <2>3, <3>2
      <4>2. QED
        BY <2>3, <3>1, <3>2, <3>3, <4>1, SftpGoOn
    <3>5. call[p].gen = generation /\ ~closed => client \in broken'
      BY <1>t, <2>1, <2>3 DEF KnowsOK, OneConnection
    <3>6. KnowsOK(p)'
      BY <1>t, <2>1, <2>3, <3>2, <3>4, <3>5 DEF KnowsOK
    <3>7. SftpTurn(p)
      BY <2>1, <3>4, <3>6 DEF SftpTurn, SftpOK, OneConnection
    <3>8. QED
      BY <2>2, <3>7 DEF SftpGood
  <2>4. CASE call[p].pc = "resend" /\ Return(p, "failed")
    <3>1. SftpTurn(p)
      BY <2>1, <2>4, SftpReturn
    <3>2. QED
      BY <2>2, <3>1 DEF SftpGood
  <2>5. QED
    BY <1>6, <2>3, <2>4, SftpShares DEF Sftp!Lose, At
<1>y. ASSUME NEW p \in Proc, NEW x \in Nat, Sftp!Retry(p, x), handle' = handle,
             call[p].pc \in {"reconnect", "dial"}
      PROVE  /\ CallStep(p) /\ call'[p].pc = "resend" /\ handle'[p].st = "none"
             /\ call'[p].op \in {"none", "query", "change", "close"}
  <2> DEFINE c == [call[p] EXCEPT !.pc = "resend", !.conn = x, !.ran = FALSE]
  <2>1. call' = [call EXCEPT ![p] = c]
    BY <1>y DEF CallsOK, Typed, Sftp!Retry
  <2>2. /\ c \in Call /\ c.pc = "resend" /\ c.op = call[p].op /\ c.times = call[p].times
        /\ c.result = call[p].result /\ c.ran = FALSE /\ c.back = call[p].back
    BY <1>t DEF Call
  <2> HIDE DEF c
  <2>3. c.pc \notin {"idle", "enter"} /\ c.pc \notin {"reading", "fallback"}
        /\ call[p].pc \notin {"idle", "resend"}
    BY <1>y, <2>2
  <2>4. QED
    BY <1>y, <2>1, <2>2, <2>3, SftpGoOn
<1>7. ASSUME NEW p \in Proc, Sftp!reconnect(p) PROVE SftpGood(p)
  <2>1. /\ call[p].pc = "reconnect" /\ lock = None /\ UNCHANGED <<connectionVars, generation>>
    BY <1>7, SftpShares DEF Sftp!reconnect, Sftp!connectionVars, connectionVars, At
  <2>2. CASE Return(p, "failed") /\ lock' = lock
    BY <1>r, <2>1, <2>2
  <2>3. CASE Sftp!Retry(p, client) /\ UNCHANGED <<handle, lock>>
    <3>1. /\ CallStep(p) /\ call'[p].pc = "resend" /\ handle'[p].st = "none"
          /\ call'[p].op \in {"none", "query", "change", "close"}
      BY <1>t, <1>y, <2>1, <2>3
    <3>2. KnowsOK(p)'
      BY <1>t, <2>1, <2>3, <3>1 DEF KnowsOK
    <3>3. SftpTurn(p)
      BY <2>1, <2>3, <3>1, <3>2 DEF SftpTurn, SftpOK, OneConnection, connectionVars
    <3>4. QED
      BY <1>s, <2>1, <2>3, <3>3 DEF SftpGood, Shape
  <2>4. CASE ~closed /\ call[p].gen = generation /\ lock' = p /\ Goto(p, "dial") /\ handle' = handle
    <3> DEFINE c == [call[p] EXCEPT !.pc = "dial"]
    <3>1. call' = [call EXCEPT ![p] = c]
      BY <2>4 DEF CallsOK, Typed, Goto
    <3>2. /\ c \in Call /\ c.pc = "dial" /\ c.op = call[p].op /\ c.times = call[p].times
          /\ c.result = call[p].result /\ c.ran = call[p].ran /\ c.back = call[p].back
      BY <1>t DEF Call
    <3> HIDE DEF c
    <3>3. /\ CallStep(p) /\ call'[p] = c /\ handle'[p].st = "none"
          /\ c.op \in {"none", "query", "change", "close"}
      <4>1. c.pc \notin {"idle", "enter"} /\ c.pc \notin {"reading", "fallback"}
            /\ call[p].pc \notin {"idle", "resend"}
        BY <2>1, <3>2
      <4>2. QED
        BY <2>4, <3>1, <3>2, <4>1, SftpGoOn
    <3>4. KnowsOK(p)'
      BY <1>t, <2>1, <2>4, <3>2, <3>3 DEF KnowsOK, connectionVars
    <3>5. SftpTurn(p)
      BY <2>1, <2>4, <3>3, <3>4 DEF SftpTurn, SftpOK, OneConnection, connectionVars
    <3>6. QED
      BY <1>s, <2>1, <2>4, <3>5 DEF SftpGood
  <2>5. QED
    BY <1>7, <2>2, <2>3, <2>4, SftpShares DEF Sftp!reconnect
<1>8. ASSUME NEW p \in Proc, Sftp!connect(p) PROVE SftpGood(p)
  <2>1. /\ call[p].pc = "dial" /\ lock' = None /\ closed' = closed /\ lock = p /\ ~closed
        /\ client \in broken /\ open = {client}
    BY <1>t, <1>8, SftpShares DEF Sftp!connect, At, KnowsOK, SftpOK, OneConnection
  <2>2. CASE Return(p, "failed") /\ UNCHANGED <<client, open, broken, generation>>
    <3>1. CallStep(p) /\ call'[p].pc = "idle" /\ call'[p].op = "none" /\ handle'[p].st = "none"
      BY <1>t, <2>1, <2>2, ReturnStep DEF KnowsOK
    <3>2. KnowsOK(p)'
      BY <1>t, <2>1, <2>2, <3>1 DEF KnowsOK
    <3>3. SftpTurn(p)
      BY <1>t, <2>1, <2>2, <3>1, <3>2 DEF SftpTurn, OneConnection
    <3>4. QED
      BY <1>s, <2>1, <2>2, <3>3 DEF SftpGood, connectionVars
  <2>3. CASE /\ generation + 2 \in Connection /\ Sftp!Replace(generation + 2)
             /\ generation' = generation + 1
             /\ Sftp!Retry(p, generation + 2) /\ handle' = handle
    <3>1. /\ CallStep(p) /\ call'[p].pc = "resend" /\ handle'[p].st = "none"
          /\ call'[p].op \in {"none", "query", "change", "close"}
      BY <1>t, <1>y, <2>1, <2>3
    <3>2. /\ client' = generation + 2 /\ open' = {client'} /\ broken' = broken \ {client}
          /\ client' \in Connection
      BY <1>t, <2>1, <2>3 DEF Sftp!Replace
    <3>3. KnowsOK(p)'
      BY <1>t, <2>1, <2>3, <3>1 DEF KnowsOK
    <3>4. SftpTurn(p)
      BY <1>t, <2>1, <2>3, <3>1, <3>2, <3>3 DEF SftpTurn, OneConnection
    <3>5. Shape' /\ Healthy
      BY <1>t, <2>1, <2>3, <3>2 DEF Shape, Healthy
    <3>6. QED
      BY <3>4, <3>5 DEF SftpGood
  <2>4. QED
    BY <1>8, <2>2, <2>3, SftpShares DEF Sftp!connect, Sftp!Connection, Connection
<1>9. ASSUME NEW p \in Proc, Sftp!Close(p) PROVE SftpGood(p)
  <2>1. /\ call[p].pc = "enter" /\ call[p].op = "close" /\ lock = None
        /\ closed' = TRUE /\ open' = open \ {client} /\ broken' = {} /\ Return(p, "ok")
        /\ UNCHANGED <<lock, client, generation>>
    BY <1>9, SftpShares DEF Sftp!Close, At
  <2>2. CallStep(p) /\ call'[p].pc = "idle" /\ call'[p].op = "none" /\ handle'[p].st = "none"
    BY <1>t, <2>1, ReturnStep DEF Changes, KnowsOK
  <2>3. KnowsOK(p)'
    BY <1>t, <2>1, <2>2 DEF KnowsOK
  <2>4. SftpTurn(p)
    BY <1>t, <2>1, <2>2, <2>3 DEF SftpTurn, OneConnection
  <2>5. Shape' /\ Healthy
    BY <2>1 DEF Shape, Healthy
  <2>6. QED
    BY <2>4, <2>5 DEF SftpGood
<1>10. ASSUME NEW p \in Proc, SftpGood(p)
       PROVE  CallStep(p) /\ SftpOK' /\ Shape' /\ Healthy
  BY <1>10, SftpTurnOK DEF SftpGood, SftpTurn
<1>11. QED
  BY <1>1, <1>2, <1>3, <1>4, <1>5, <1>6, <1>7, <1>8, <1>9, <1>10
     DEF Sftp!Next, Sftp!Advance, Sftp!Wait

-----------------------------------------------------------------------------
(* WebDAV.                                                                 *)

\* The operators WebDAV has from BackendCalls are those of Backends.
LEMMA WebdavShares ==
    /\ \A p, x : Webdav!At(p, x) <=> At(p, x)
    /\ \A p, x : Webdav!Goto(p, x) <=> Goto(p, x)
    /\ \A p, x : Webdav!Begin(p, x) <=> Begin(p, x)
    /\ \A p, x : Webdav!Return(p, x) <=> Return(p, x)
    /\ \A p : Webdav!Run(p) <=> Run(p)
    /\ \A p, x, y : Webdav!OpenWrite(p, x, y) <=> OpenWrite(p, x, y)
    /\ \A p : Webdav!WriteAt(p) <=> WriteAt(p)
    /\ \A p, x : Webdav!Sync(p, x) <=> Sync(p, x)
<1>1. \A p, x : Webdav!At(p, x) <=> At(p, x)
  BY DEF Webdav!At, At
<1>2. \A p, x : Webdav!Goto(p, x) <=> Goto(p, x)
  BY DEF Webdav!Goto, Goto
<1>3. \A p, x : Webdav!Begin(p, x) <=> Begin(p, x)
  BY <1>1 DEF Webdav!Begin, Begin, Webdav!NoCall, NoCall
<1>4. \A p, x : Webdav!Return(p, x) <=> Return(p, x)
  BY DEF Webdav!Return, Return, Webdav!NoCall, NoCall, Webdav!HandleAfter, HandleAfter,
         Webdav!NoHandle, NoHandle, Webdav!Changes, Changes
<1>5. \A p : Webdav!Run(p) <=> Run(p)
  BY DEF Webdav!Run, Run, Webdav!Changes, Changes
<1>6. \A p, x, y : Webdav!OpenWrite(p, x, y) <=> OpenWrite(p, x, y)
  BY <1>1, <1>3 DEF Webdav!OpenWrite, OpenWrite
<1>7. \A p : Webdav!WriteAt(p) <=> WriteAt(p)
  BY <1>1 DEF Webdav!WriteAt, WriteAt
<1>8. \A p, x : Webdav!Sync(p, x) <=> Sync(p, x)
  BY <1>3 DEF Webdav!Sync, Sync
<1>9. QED
  BY <1>1, <1>2, <1>3, <1>4, <1>5, <1>6, <1>7, <1>8

\* Every step of the WebDAV backend.
LEMMA WebdavStep ==
    ASSUME CallsOK, Shape, WebdavOK, UNCHANGED <<protocol, needsProbe, last, spent, generation>>,
           Webdav!Next
    PROVE  \E p \in Proc : CallStep(p) /\ WebdavOK' /\ Shape' /\ Healthy
<1> DEFINE Good(p) == CallStep(p) /\ call'[p].pc # "resend" /\ UNCHANGED <<lock, connectionVars>>
<1>t. \A p \in Proc : call[p] \in Call /\ handle[p] \in Handle /\ CallOK(p) /\ Tidy(p) /\ OnceOK(p)
  BY DEF CallsOK, Typed, WebdavOK
<1>r. ASSUME NEW p \in Proc, NEW r \in {"ok", "failed"}, Return(p, r),
             UNCHANGED <<lock, connectionVars>>, call[p].pc # "idle",
             r = "ok" => \/ call[p].op \notin Changes \/ call[p].ran
                         \/ call[p].op = "stor" /\ ~handle[p].dirty
      PROVE  Good(p)
  <2>1. CallStep(p) /\ call'[p].pc = "idle"
    BY <1>r, ReturnStep
  <2>2. QED
    BY <1>r, <2>1
<1>m. ASSUME NEW p \in Proc, NEW x \in {"send", "reading"}, Goto(p, x), handle' = handle,
             UNCHANGED <<lock, connectionVars>>, call[p].pc \in {"enter", "send"},
             x = "reading" => call[p].op = "read"
      PROVE  Good(p)
  <2> DEFINE c == [call[p] EXCEPT !.pc = x]
  <2>1. call' = [call EXCEPT ![p] = c]
    BY <1>m DEF CallsOK, Typed, Goto
  <2>2. /\ c \in Call /\ c.pc = x /\ c.op = call[p].op /\ c.times = call[p].times
        /\ c.result = call[p].result /\ c.ran = call[p].ran
    BY <1>t DEF Call
  <2>3. PlaceOK(c)
    BY <1>m, <1>t, <2>2 DEF PlaceOK, CallOK, Call
  <2> HIDE DEF c
  <2>4. /\ c.pc \notin {"idle", "enter"} /\ call[p].pc \notin {"idle", "resend"}
        /\ (call[p].times > 0 => call[p].ran)
    BY <1>m, <1>t, <2>2 DEF OnceOK
  <2>5. CallStep(p) /\ call'[p] = c
    BY <1>m, <2>1, <2>2, <2>3, <2>4, MoveStep
  <2>6. QED
    BY <1>m, <2>2, <2>5
<1>1. ASSUME NEW p \in Proc, NEW op \in Webdav!Ops, Webdav!Start(p, op) PROVE Good(p)
  <2>1. Begin(p, op) /\ UNCHANGED <<handle, lock, connectionVars>>
    BY <1>1, WebdavShares DEF Webdav!Start, Webdav!connectionVars, connectionVars
  <2>2. op \in {"root", "stat", "list", "query", "read", "change", "lock", "close"}
    BY DEF Webdav!Ops
  <2>3. CallStep(p) /\ call'[p].pc = "enter"
    BY <2>1, <2>2, BeginStep
  <2>4. QED
    BY <2>1, <2>3
<1>2. ASSUME NEW p \in Proc, Webdav!Use(p) PROVE Good(p)
  <2>1. /\ \/ \E create, truncate \in BOOLEAN : OpenWrite(p, create, truncate)
           \/ WriteAt(p)
           \/ \E close \in BOOLEAN : Sync(p, close)
        /\ UNCHANGED <<lock, connectionVars>>
    BY <1>2, WebdavShares DEF Webdav!Use, Webdav!connectionVars, connectionVars
  <2>2. CallStep(p) /\ call'[p].pc \in {"idle", "enter"}
    BY <2>1, HandleStep
  <2>3. QED
    BY <2>1, <2>2
<1>3. ASSUME NEW p \in Proc, Webdav!Enter(p) PROVE Good(p)
  <2>1. UNCHANGED <<lock, connectionVars>> /\ call[p].pc = "enter"
    BY <1>3, WebdavShares DEF Webdav!Enter, Webdav!Refuse, Webdav!SyncClean, Webdav!MayGoOn,
       Webdav!connectionVars, connectionVars, At
  <2>2. CASE Webdav!Refuse(p)
    BY <1>r, <2>1, <2>2, WebdavShares DEF Webdav!Refuse
  <2>3. CASE Webdav!SyncClean(p)
    BY <1>r, <2>1, <2>3, WebdavShares DEF Webdav!SyncClean
  <2>4. CASE Goto(p, "send") /\ handle' = handle
    BY <1>m, <2>1, <2>4
  <2>5. QED
    BY <1>3, <2>2, <2>3, <2>4, WebdavShares DEF Webdav!Enter
<1>4. ASSUME NEW p \in Proc, Webdav!Execute(p) PROVE Good(p)
  <2>1. Run(p) /\ call[p].pc = "send" /\ UNCHANGED <<lock, connectionVars>>
    BY <1>4, WebdavShares DEF Webdav!Execute, Webdav!connectionVars, connectionVars, At
  <2>2. CallStep(p) /\ call'[p].pc = "send"
    BY <2>1, RunStep
  <2>3. QED
    BY <2>1, <2>2
<1>5. ASSUME NEW p \in Proc, Webdav!propfind(p) \/ Webdav!CloseRead(p) PROVE Good(p)
  <2>1. PICK r \in {"ok", "failed"} :
            /\ Return(p, r) /\ UNCHANGED <<lock, connectionVars>>
            /\ (call[p].pc = "send" /\ call[p].op = "stat") \/ call[p].pc = "reading"
    BY <1>5, WebdavShares DEF Webdav!propfind, Webdav!CloseRead, Webdav!connectionVars,
       connectionVars, At
  <2>2. call[p].op \notin Changes
    BY <1>t, <2>1 DEF CallOK, PlaceOK, Changes
  <2>3. QED
    BY <1>r, <2>1, <2>2
<1>6. ASSUME NEW p \in Proc, Webdav!OpenRead(p) PROVE Good(p)
  <2>1. call[p].pc = "send" /\ call[p].op = "read" /\ UNCHANGED <<lock, connectionVars>>
    BY <1>6, WebdavShares DEF Webdav!OpenRead, Webdav!connectionVars, connectionVars, At
  <2>2. CASE Goto(p, "reading") /\ handle' = handle
    BY <1>m, <2>1, <2>2
  <2>3. CASE Return(p, "failed")
    BY <1>r, <2>1, <2>3
  <2>4. CASE /\ call' = [call EXCEPT ![p] = NoCall]
             /\ handle' = [handle EXCEPT ![p] = [st |-> "open", dirty |-> TRUE, stored |-> FALSE]]
    <3>1. OnlyCall(p)
      BY <2>4, NoCallFacts DEF OnlyCall, CallsOK, Typed, Handle
    <3>2. Emptied(p)
      BY <2>1, <2>4 DEF Emptied, CallsOK, Typed
    <3>3. CallStep(p)
      BY <3>1, <3>2 DEF CallStep
    <3>4. QED
      BY <2>1, <3>2, <3>3, NoCallFacts DEF Emptied
  <2>5. QED
    BY <1>6, <2>2, <2>3, <2>4, WebdavShares DEF Webdav!OpenRead, Webdav!NoCall, NoCall
<1>7. ASSUME NEW p \in Proc, Webdav!do(p) \/ Webdav!Lock(p) PROVE Good(p)
  <2>1. PICK r \in {"ok", "failed"} :
            /\ Return(p, r) /\ UNCHANGED <<lock, connectionVars>>
            /\ call[p].pc = "send" /\ (r = "ok" => call[p].ran)
    BY <1>7, WebdavShares DEF Webdav!do, Webdav!Lock, Webdav!connectionVars, connectionVars, At
  <2>2. QED
    BY <1>r, <2>1
<1>8. ASSUME NEW p \in Proc, Good(p)
      PROVE  CallStep(p) /\ WebdavOK' /\ Shape' /\ Healthy
  <2>1. \A q \in Proc : OnceOK(q)'
    BY <1>8, StepKeepsOnce DEF WebdavOK
  <2>2. Shape' /\ Healthy
    BY <1>8, SameConnection DEF Shape
  <2>3. QED
    BY <1>8, <2>1, <2>2 DEF WebdavOK, connectionVars
<1> HIDE DEF Good
<1>9. QED
  BY <1>1, <1>2, <1>3, <1>4, <1>5, <1>6, <1>7, <1>8 DEF Webdav!Next, Webdav!Advance

-----------------------------------------------------------------------------
(* The invariant, and the theorems.                                        *)

\* openBackend: a new backend of any protocol.
LEMMA InvInit == openBackend => BackendInv
<1> SUFFICES ASSUME openBackend PROVE BackendInv
  OBVIOUS
<1>1. /\ call = [p \in Proc |-> NoCall] /\ handle = [p \in Proc |-> NoHandle]
      /\ lock = None /\ broken = {} /\ closed = FALSE /\ last = "ok" /\ spent = {}
      /\ needsProbe = FALSE /\ generation = 0
      /\ \/ protocol \in {"ftp", "sftp"} /\ client = 1 /\ open = {1}
         \/ protocol = "webdav" /\ client = 0 /\ open = {}
  BY DEF openBackend, NoFtp, Ftp!Init, Sftp!Init, Webdav!Init, Ftp!CallsInit, Sftp!CallsInit,
     Webdav!CallsInit, Ftp!NoCall, Sftp!NoCall, Webdav!NoCall, NoCall,
     Ftp!NoHandle, Sftp!NoHandle, Webdav!NoHandle, NoHandle
<1>2. 1 \in Connection /\ None \notin Proc
  BY BackendConstants DEF Connection
<1>3. \A p \in Proc : Tidy(p) /\ CallOK(p) /\ OnceOK(p)
  BY <1>1, NoCallFacts DEF Tidy, CallOK, OnceOK, At, Changes
<1>4. TypeOK
  BY <1>1, <1>2, <1>3, NoCallFacts DEF TypeOK, Tidy
<1>5. protocol = "ftp" => FtpOK
  BY <1>1, <1>2, <1>3, NoCallFacts DEF FtpOK, OneConnection, Ftp!Holding
<1>6. protocol = "sftp" => SftpOK
  BY <1>1, <1>2, NoCallFacts DEF SftpOK, OneConnection
<1>7. protocol = "webdav" => WebdavOK
  BY <1>1, <1>3 DEF WebdavOK
<1>8. QED
  BY <1>3, <1>4, <1>5, <1>6, <1>7 DEF BackendInv

\* The two halves of TypeOK.
LEMMA InvParts ==
    BackendInv <=> /\ CallsOK /\ Shape
                   /\ protocol = "ftp" => FtpOK
                   /\ protocol = "sftp" => SftpOK
                   /\ protocol = "webdav" => WebdavOK
BY DEF BackendInv, TypeOK, CallsOK, Typed, Shape, Tidy

\* What every step of a backend does.
LEMMA NextStep ==
    ASSUME BackendInv, Next
    PROVE  /\ \E p \in Proc : CallStep(p) \/ UNCHANGED callVars
           /\ Healthy /\ Shape' /\ protocol' = protocol
           /\ protocol = "ftp" => FtpOK'
           /\ protocol = "sftp" => SftpOK'
           /\ protocol = "webdav" => WebdavOK'
<1>1. /\ CallsOK /\ Shape /\ protocol' = protocol
      /\ protocol = "ftp" => FtpOK
      /\ protocol = "sftp" => SftpOK
      /\ protocol = "webdav" => WebdavOK
  BY InvParts DEF Next
<1>2. CASE protocol = "ftp" /\ Ftp!Next /\ UNCHANGED generation
  BY <1>1, <1>2, FtpStep
<1>3. CASE protocol = "sftp" /\ Sftp!Next /\ UNCHANGED <<needsProbe, last, spent>>
  BY <1>1, <1>3, SftpStep
<1>4. CASE protocol = "webdav" /\ Webdav!Next /\ UNCHANGED <<needsProbe, last, spent, generation>>
  BY <1>1, <1>4, WebdavStep
<1>5. QED
  BY <1>2, <1>3, <1>4 DEF Next

\* Every step keeps the inductive invariant.
LEMMA InvNext == BackendInv /\ [Next]_vars => BackendInv'
<1> SUFFICES ASSUME BackendInv, [Next]_vars PROVE BackendInv'
  OBVIOUS
<1>1. CASE UNCHANGED vars
  BY <1>1 DEF vars, callVars, connectionVars, BackendInv, TypeOK, CallOK, FtpOK, SftpOK, WebdavOK,
     OnceOK, OneConnection, At, Ftp!Holding
<1>2. CASE Next
  <2>1. /\ \E p \in Proc : CallStep(p) \/ UNCHANGED callVars
        /\ Shape' /\ protocol' = protocol
        /\ protocol = "ftp" => FtpOK'
        /\ protocol = "sftp" => SftpOK'
        /\ protocol = "webdav" => WebdavOK'
    BY <1>2, NextStep
  <2>2. CallsOK'
    <3>1. CallsOK
      BY InvParts
    <3>2. CASE UNCHANGED callVars
      BY <3>1, <3>2 DEF callVars, CallsOK, Typed, Tidy, CallOK, At
    <3>3. QED
      BY <2>1, <3>1, <3>2, StepKeepsCalls
  <2>3. QED
    BY <2>1, <2>2 DEF BackendInv, TypeOK, CallsOK, Typed, Shape, Tidy
<1>3. QED
  BY <1>1, <1>2

\* It holds in every state of every behaviour.
LEMMA InvAlways == Spec => []BackendInv
<1>1. openBackend => BackendInv
  BY InvInit
<1>2. BackendInv /\ [Next]_vars => BackendInv'
  BY InvNext
<1>3. QED
  BY <1>1, <1>2, PTL DEF Spec

\* vfs.Backend: every variable of the three backends keeps a value of its kind,
\* and a goroutine without a call has no request under way.
THEOREM BackendsTypeCorrect == Spec => []TypeOK
<1>1. BackendInv => TypeOK
  BY DEF BackendInv
<1>2. QED
  BY <1>1, InvAlways, PTL

\* reconnectLocked, reconnect, Close: whatever the goroutines were about to do,
\* the program keeps one connection outside a reconnect, and none once closed.
THEOREM NoConnectionIsLeft == Spec => []NoConnectionLeft
<1>1. BackendInv => NoConnectionLeft
  BY DEF BackendInv, TypeOK, FtpOK, SftpOK, OneConnection, NoConnectionLeft
<1>2. QED
  BY <1>1, InvAlways, PTL

\* ftp/backend.go, lock and lockedReadCloser: the control connection has one
\* user, and a first command never follows a transfer or an error unchecked.
THEOREM ControlConnectionIsReady == Spec => []ControlConnectionReady
<1>1. BackendInv => ControlConnectionReady
  <2> SUFFICES ASSUME BackendInv, protocol = "ftp" PROVE Ftp!ControlConnectionReady
    BY DEF ControlConnectionReady
  <2>1. FtpOK
    BY DEF BackendInv
  <2>2. QED
    BY <2>1 DEF FtpOK, Ftp!ControlConnectionReady, Ftp!At
<1>2. QED
  BY <1>1, InvAlways, PTL

\* reconnect, reconnectLocked: a connection nobody has seen fail is closed only
\* by Close, however many goroutines report an older failure.
THEOREM HealthyConnectionIsKept == Spec => HealthyConnectionKept
<1>1. BackendInv /\ [Next]_vars => [\A c \in open \ open' : c \in broken \/ closed']_vars
  BY NextStep DEF Healthy
<1>2. QED
  BY <1>1, InvAlways, PTL DEF Spec, HealthyConnectionKept

\* A new backend promises nothing yet.
LEMMA InitPromises == openBackend => Promise!Init
<1> SUFFICES ASSUME openBackend PROVE Promise!Init
  OBVIOUS
<1>1. CallsOK /\ Shape
  BY InvInit, InvParts
<1>2. \A p \in Proc : call[p] = NoCall /\ handle[p] = NoHandle
  BY DEF openBackend, NoFtp, Ftp!Init, Sftp!Init, Webdav!Init, Ftp!CallsInit, Sftp!CallsInit,
     Webdav!CallsInit, Ftp!NoCall, Sftp!NoCall, Webdav!NoCall, NoCall,
     Ftp!NoHandle, Sftp!NoHandle, Webdav!NoHandle, NoHandle
<1>3. ASSUME NEW p \in Proc
      PROVE  /\ PhaseOf(p) = "none" /\ call[p].times = 0 /\ handle[p].stored = FALSE
             /\ (call[p].op # "stor" /\ call[p].times > 0) = FALSE
  BY <1>1, <1>2, PhaseCases, NoCallFacts DEF Changes, NoHandle
<1>4. (IF protocol = "sftp" THEN 2 ELSE 1) \in {1, 2}
  OBVIOUS
<1>5. QED
  BY <1>3, <1>4 DEF Promise!Init

\* withClient, syncLocked, withReconnect, do: for the callers of a vfs.Backend the
\* three protocols are one service whose successful changes and uploads were
\* executed by the server, at most once by FTP and WebDAV, at most twice by SFTP.
THEOREM BackendsKeepPromise == Spec => CallsKeepPromise
<1>1. openBackend => Promise!Init
  BY InitPromises
<1>2. BackendInv /\ [Next]_vars => [Promise!Next]_(Promise!vars)
  <2> SUFFICES ASSUME BackendInv, [Next]_vars PROVE [Promise!Next]_(Promise!vars)
    OBVIOUS
  <2>1. CASE callVars' = callVars /\ protocol' = protocol
    BY <2>1 DEF callVars, Promise!vars, PhaseOf
  <2>2. CASE Next
    <3>1. PICK p \in Proc : CallStep(p) \/ UNCHANGED callVars
      BY <2>2, NextStep
    <3>2. protocol' = protocol /\ CallsOK /\ (protocol # "sftp" => OnceOK(p))
      BY <2>2, NextStep, InvParts DEF Shape, FtpOK, WebdavOK
    <3>3. QED
      BY <2>1, <3>1, <3>2, StepKeepsPromise
  <2>3. QED
    BY <2>1, <2>2 DEF vars
<1>3. QED
  BY <1>1, <1>2, InvAlways, PTL DEF Spec, CallsKeepPromise, Promise!Spec
====
