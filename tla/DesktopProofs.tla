---- MODULE DesktopProofs ----
(***************************************************************************)
(* Proofs about Desktop, for every set of profiles, every assignment of    *)
(* drive letters and any number of nested message boxes.                   *)
(***************************************************************************)
EXTENDS Desktop, TLAPS

-----------------------------------------------------------------------------
(* The inductive invariant.                                                *)

Busying == {"mounting", "closing", "forcing"}

\* What one goroutine is at: the entry of the profile it works on is in the
\* state that keeps every other goroutine away from that profile.
ActOK(a) ==
    /\ act[a].kind = "none" => act[a] = NoAct
    /\ act[a].pc \notin {"next", "finished"} => act[a].cur \in Profile \intersect act[a].todo
    /\ act[a].pc = "mounting" => act[a].kind = "connect" /\ entries[act[a].cur] = "connecting"
    /\ act[a].pc \in {"closing", "forcing"} => entries[act[a].cur] = "disconnecting"
    /\ act[a].pc \in {"closing", "ask", "asked", "force", "forcing"} => act[a].kind = "disconnect"
    /\ act[a].pc = "finished" => act[a].todo = {}

\* The session-end goroutine only detaches, and exists only while the UI waits.
EndOK ==
    /\ act["end"].kind \in {"none", "disconnect"}
    /\ window = "open" => act["end"].kind = "none"

\* An exit whose detaches have all succeeded so far leaves only profiles that
\* are still to be detached.
ExitOK ==
    /\ act["task"].exit => act["task"].kind = "disconnect"
    /\ act["task"].exit /\ ~act["task"].failed /\ ~act["task"].canceled /\ window = "open" =>
            \A p \in listed : p \in act["task"].todo \/ Inactive(p)

ConsentOK == act["task"].pc \in {"force", "forcing"} => act["task"].cur \in agreed

Boxes(s) == {s[i] : i \in DOMAIN s}
Special(box) == box.kind \in {"done", "failed", "force"}

\* At most one of the boxes on the stack belongs to a task.
OneSpecial(s) == \A i, j \in DOMAIN s : Special(s[i]) /\ Special(s[j]) => i = j

\* The box of a task: a question of the task that waits for it, or the outcome
\* of a task that is over, with busy kept set so that no other one starts.
OutcomeOK(box) ==
    /\ act["task"].kind = "none" /\ busy
    /\ box.destroy => \A p \in listed : Inactive(p)

BoxOK(box) ==
    /\ box.kind = "force" => act["task"].pc = "asked" /\ act["task"].cur = box.p
    /\ box.kind = "done" => OutcomeOK(box)
    /\ box.kind = "failed" => OutcomeOK(box)

StackOK == OneSpecial(stack) /\ \A box \in Boxes(stack) : BoxOK(box)

DesktopInv ==
    /\ TypeOK /\ EntryMatchesMount /\ OneAtATime
    /\ \A a \in Actor : ActOK(a)
    /\ EndOK /\ ExitOK /\ ConsentOK /\ StackOK
    /\ act["task"].kind # "none" => busy
    /\ selected \in listed \union {None}

-----------------------------------------------------------------------------
(* The stack of message boxes.                                             *)

\* A box is put on top of a stack.
LEMMA PushBox ==
    ASSUME NEW s \in Seq(BoxType), NEW box \in BoxType
    PROVE  /\ <<box>> \o s \in Seq(BoxType)
           /\ Boxes(<<box>> \o s) = {box} \union Boxes(s)
           /\ ~Special(box) /\ OneSpecial(s) => OneSpecial(<<box>> \o s)
           /\ (\A b \in Boxes(s) : ~Special(b)) => OneSpecial(<<box>> \o s)
<1> DEFINE t == <<box>> \o s
<1>1. t \in Seq(BoxType) /\ Len(t) = Len(s) + 1 /\ Len(s) \in Nat /\ t[1] = box
  OBVIOUS
<1>2. \A i \in DOMAIN t \ {1} : i - 1 \in DOMAIN s /\ t[i] = s[i - 1]
  OBVIOUS
<1>3. \A i \in DOMAIN s : i + 1 \in DOMAIN t /\ t[i + 1] = s[i] /\ i \in Nat
  OBVIOUS
<1>4. 1 \in DOMAIN t /\ DOMAIN t \subseteq Nat
  BY <1>1
<1> HIDE DEF t
<1>5. Boxes(t) = {box} \union Boxes(s)
  <2>1. ASSUME NEW i \in DOMAIN t PROVE t[i] \in {box} \union Boxes(s)
    BY <1>1, <1>2 DEF Boxes
  <2>2. box \in Boxes(t)
    BY <1>1, <1>4 DEF Boxes
  <2>3. ASSUME NEW i \in DOMAIN s PROVE s[i] \in Boxes(t)
    BY <1>3 DEF Boxes
  <2>4. QED
    BY <2>1, <2>2, <2>3 DEF Boxes
<1>6. ASSUME ~Special(box), OneSpecial(s) PROVE OneSpecial(t)
  <2>1. ASSUME NEW i \in DOMAIN t, NEW j \in DOMAIN t, Special(t[i]), Special(t[j]) PROVE i = j
    <3>1. i # 1 /\ j # 1
      BY <1>1, <1>6, <2>1
    <3>2. i - 1 = j - 1
      BY <1>2, <1>6, <2>1, <3>1 DEF OneSpecial
    <3>3. QED
      BY <1>4, <3>2
  <2>2. QED
    BY <2>1 DEF OneSpecial
<1>7. ASSUME \A b \in Boxes(s) : ~Special(b) PROVE OneSpecial(t)
  <2>1. ASSUME NEW i \in DOMAIN t, Special(t[i]) PROVE i = 1
    BY <1>2, <1>7, <2>1 DEF Boxes
  <2>2. QED
    BY <2>1 DEF OneSpecial
<1>8. QED
  BY <1>1, <1>5, <1>6, <1>7 DEF t

\* The box on top is taken away.
LEMMA PopBox ==
    ASSUME NEW s \in Seq(BoxType), s # <<>>
    PROVE  /\ Tail(s) \in Seq(BoxType) /\ Head(s) \in BoxType /\ Head(s) \in Boxes(s)
           /\ Boxes(Tail(s)) \subseteq Boxes(s)
           /\ OneSpecial(s) => OneSpecial(Tail(s))
           /\ OneSpecial(s) /\ Special(Head(s)) => \A b \in Boxes(Tail(s)) : ~Special(b)
<1> DEFINE t == Tail(s)
<1>1. t \in Seq(BoxType) /\ Head(s) = s[1] /\ 1 \in DOMAIN s /\ Head(s) \in BoxType
  OBVIOUS
<1>2. \A i \in DOMAIN t : i + 1 \in DOMAIN s /\ t[i] = s[i + 1] /\ i \in Nat \ {0}
  OBVIOUS
<1> HIDE DEF t
<1>3. Boxes(t) \subseteq Boxes(s) /\ Head(s) \in Boxes(s)
  BY <1>1, <1>2 DEF Boxes
<1>4. ASSUME OneSpecial(s) PROVE OneSpecial(t)
  <2>1. ASSUME NEW i \in DOMAIN t, NEW j \in DOMAIN t, Special(t[i]), Special(t[j]) PROVE i = j
    <3>1. i + 1 = j + 1
      BY <1>2, <1>4, <2>1 DEF OneSpecial
    <3>2. QED
      BY <1>2, <3>1
  <2>2. QED
    BY <2>1 DEF OneSpecial
<1>5. ASSUME OneSpecial(s), Special(Head(s)), NEW i \in DOMAIN t PROVE ~Special(t[i])
  <2>1. i + 1 # 1
    BY <1>2
  <2>2. QED
    BY <1>1, <1>2, <1>5, <2>1 DEF OneSpecial
<1>6. QED
  BY <1>1, <1>3, <1>4, <1>5 DEF Boxes, t

\* A step that adds no box of a task to the stack.
Quieter ==
    /\ stack' \in Seq(BoxType) /\ OneSpecial(stack')
    /\ \A box \in Boxes(stack') : box \in Boxes(stack) \/ ~Special(box)
    /\ enabled' \in BOOLEAN

\* The kinds of boxes that belong to no task.
Plain == {"clear", "delete", "report", "secret", "save", "change", "discard", "test"}

\* Box makes a box, and a box of a command is no task's.
LEMMA BoxTypes ==
    ASSUME NEW kind \in Plain \union {"done", "failed", "force"}, NEW p \in Profile \union {None}
    PROVE  /\ Box(kind, p) \in BoxType /\ Box(kind, p).kind = kind /\ Box(kind, p).p = p
           /\ [Box(kind, p) EXCEPT !.destroy = TRUE] \in BoxType
           /\ [Box(kind, p) EXCEPT !.destroy = FALSE] \in BoxType
           /\ [Box(kind, p) EXCEPT !.destroy = TRUE].kind = kind
           /\ [Box(kind, p) EXCEPT !.destroy = FALSE].kind = kind
BY DEF Box, BoxType, Plain

\* MessageBoxW puts its box on the stack with nothing but its owner filled in.
LEMMA OpenedBox ==
    ASSUME NEW box \in BoxType, NEW boxes, NEW now \in BOOLEAN, Opened(box, boxes, now)
    PROVE  \E b \in BoxType : /\ stack' = <<b>> \o boxes
                              /\ b.kind = box.kind /\ b.p = box.p /\ b.destroy = box.destroy
                              /\ enabled' \in BOOLEAN
<1>1. PICK f \in {"none", "window", "editor"} : stack' = <<[box EXCEPT !.frees = f]>> \o boxes
  BY DEF Opened, Owner
<1>2. /\ [box EXCEPT !.frees = f] \in BoxType
      /\ [box EXCEPT !.frees = f].kind = box.kind /\ [box EXCEPT !.frees = f].p = box.p
      /\ [box EXCEPT !.frees = f].destroy = box.destroy
  BY DEF BoxType
<1>3. enabled' \in BOOLEAN
  BY DEF Opened
<1>4. QED
  BY <1>1, <1>2, <1>3

\* A command's box is shown, on the stack or in place of the box on top.
LEMMA ShowQuiet ==
    ASSUME stack \in Seq(BoxType), OneSpecial(stack), enabled \in BOOLEAN,
           NEW box \in BoxType, ~Special(box),
           Show(box) \/ (stack # <<>> /\ ReturnAndShow(box))
    PROVE  Quieter
<1>1. PICK s \in Seq(BoxType), now \in BOOLEAN :
        Opened(box, s, now) /\ OneSpecial(s) /\ Boxes(s) \subseteq Boxes(stack)
  BY PopBox DEF Show, ReturnAndShow, AfterTop
<1>2. PICK b \in BoxType : stack' = <<b>> \o s /\ b.kind = box.kind /\ enabled' \in BOOLEAN
  BY <1>1, OpenedBox
<1>3. ~Special(b)
  BY <1>2 DEF Special
<1>4. QED
  BY <1>1, <1>2, <1>3, PushBox DEF Quieter

\* The box on top is gone.
LEMMA ReturnQuiet ==
    ASSUME stack \in Seq(BoxType), OneSpecial(stack), stack # <<>>, enabled' \in BOOLEAN,
           stack' = Tail(stack)
    PROVE  Quieter
BY PopBox DEF Quieter

\* No box changes.
LEMMA SameQuiet ==
    ASSUME stack \in Seq(BoxType), OneSpecial(stack), enabled' \in BOOLEAN, stack' = stack
    PROVE  Quieter
BY DEF Quieter

-----------------------------------------------------------------------------
(* Steps of the UI thread that leave the goroutines and the drives alone.  *)

\* What the proofs below use of the invariant's typing.
LEMMA Typed ==
    ASSUME DesktopInv
    PROVE  /\ listed \subseteq Profile /\ selected \in Profile \union {None}
           /\ selected \in listed \union {None}
           /\ entries \in [Profile -> {"none", "connecting", "connected", "disconnecting"}]
           /\ mounted \subseteq Profile /\ busy \in BOOLEAN
           /\ act \in [Actor -> Act] /\ act["task"] \in Act /\ act["end"] \in Act
           /\ stack \in Seq(BoxType) /\ agreed \subseteq Profile /\ OneSpecial(stack)
           /\ window \in {"open", "ending", "destroyed", "panicked"}
           /\ enabled \in BOOLEAN /\ editor \in Profile \union {"new", "closed"}
           /\ misfiled \subseteq Profile
BY DEF DesktopInv, TypeOK, StackOK, Actor

EntryStates == {"none", "connecting", "connected", "disconnecting"}

\* A command or an answer that changes the list only by profiles that are not
\* connected, and at most ends the window.
LEMMA UIStep ==
    ASSUME DesktopInv, Quieter, listed' \subseteq Profile, selected' \in listed' \union {None},
           \A p \in listed' \ listed : Inactive(p),
           UNCHANGED <<managerVars, busy, act, agreed>>,
           window' \in {window, "destroyed", "panicked"},
           editor' \in Profile \union {"new", "closed"}, misfiled' \subseteq Profile
    PROVE  DesktopInv'
<1>1. UNCHANGED <<entries, mounted, busy, act, agreed>>
  BY DEF managerVars
<1>2. TypeOK'
  BY <1>1, Typed DEF DesktopInv, TypeOK, Quieter
<1>3. EntryMatchesMount' /\ OneAtATime'
  BY <1>1 DEF DesktopInv, EntryMatchesMount, OneAtATime
<1>4. \A a \in Actor : ActOK(a)'
  BY <1>1 DEF DesktopInv, ActOK
<1>5. EndOK'
  BY <1>1 DEF DesktopInv, EndOK
<1>6. ExitOK'
  BY <1>1 DEF DesktopInv, ExitOK, Inactive
<1>7. ConsentOK'
  BY <1>1 DEF DesktopInv, ConsentOK
<1>8. StackOK'
  <2>1. ASSUME NEW box \in Boxes(stack') PROVE BoxOK(box)'
    <3>1. CASE ~Special(box)
      BY <3>1 DEF Special, BoxOK, OutcomeOK
    <3>2. CASE box \in Boxes(stack)
      <4>1. BoxOK(box)
        BY <3>2 DEF DesktopInv, StackOK
      <4>2. QED
        BY <1>1, <4>1 DEF BoxOK, OutcomeOK, Inactive
    <3>3. QED
      BY <2>1, <3>1, <3>2 DEF Quieter
  <2>2. QED
    BY <2>1 DEF StackOK, Quieter
<1>9. (act["task"].kind # "none" => busy)'
  BY <1>1 DEF DesktopInv
<1>10. QED
  BY <1>2, <1>3, <1>4, <1>5, <1>6, <1>7, <1>8, <1>9 DEF DesktopInv

\* While nothing is busy there is no task and no box of one.
LEMMA IdleStack ==
    ASSUME DesktopInv, ~busy
    PROVE  act["task"] = NoAct /\ \A box \in Boxes(stack) : ~Special(box)
<1>1. act["task"] = NoAct
  BY DEF DesktopInv, ActOK, Actor
<1>2. QED
  BY <1>1 DEF DesktopInv, StackOK, BoxOK, OutcomeOK, Special, NoAct

\* w.task: a task begins while nothing is busy.
LEMMA TaskStarts ==
    ASSUME DesktopInv, ~busy, NEW kind \in {"connect", "disconnect", "clear", "test"},
           NEW todo \in SUBSET Profile, NEW exit \in BOOLEAN, Task(kind, todo, exit),
           exit => kind = "disconnect" /\ todo = listed,
           Quieter, UNCHANGED <<listed, selected, managerVars, window, editorVars>>
    PROVE  DesktopInv'
<1> DEFINE c == [NoAct EXCEPT !.kind = kind, !.todo = todo, !.exit = exit]
<1>1. c \in Act /\ c.kind = kind /\ c.todo = todo /\ c.exit = exit /\ c.pc = "next"
  BY DEF NoAct, Act
<1>2. act' = [act EXCEPT !["task"] = c] /\ busy' = TRUE /\ agreed' = {}
  BY DEF Task
<1> HIDE DEF c
<1>3. /\ act' \in [Actor -> Act] /\ act'["task"] = c
      /\ \A a \in Actor \ {"task"} : act'[a] = act[a]
  BY <1>1, <1>2, Typed DEF Actor
<1>4. UNCHANGED <<listed, selected, entries, mounted, window, editor, misfiled>>
  BY DEF managerVars, editorVars
<1>5. TypeOK'
  BY <1>2, <1>3, <1>4, Typed DEF DesktopInv, TypeOK, Quieter
<1>6. EntryMatchesMount' /\ OneAtATime'
  BY <1>1, <1>3, <1>4 DEF DesktopInv, EntryMatchesMount, OneAtATime
<1>7. \A a \in Actor : ActOK(a)'
  <2>1. ActOK("task")'
    BY <1>1, <1>3, Typed DEF ActOK
  <2>2. ASSUME NEW a \in Actor \ {"task"} PROVE ActOK(a)'
    BY <1>3, <1>4 DEF DesktopInv, ActOK
  <2>3. QED
    BY <2>1, <2>2
<1>8. EndOK'
  BY <1>3, <1>4 DEF DesktopInv, EndOK, Actor
<1>9. ExitOK' /\ ConsentOK'
  BY <1>1, <1>3, <1>4 DEF ExitOK, ConsentOK
<1>10. StackOK'
  BY IdleStack DEF StackOK, Quieter, BoxOK, OutcomeOK, Special
<1>11. QED
  BY <1>2, <1>4, <1>5, <1>6, <1>7, <1>8, <1>9, <1>10, Typed DEF DesktopInv

-----------------------------------------------------------------------------
(* Steps of the task and of the session-end goroutine.                     *)

\* One of the two goroutines moves; the profile it turns to is nobody else's.
LEMMA ActorMoves ==
    ASSUME DesktopInv, NEW a \in Actor, NEW c \in Act, act' = [act EXCEPT ![a] = c],
           act[a].kind # "none", act[a].pc # "asked", c.kind = act[a].kind, c.exit = act[a].exit,
           entries' \in [Profile -> EntryStates], mounted' \subseteq Profile,
           EntryMatchesMount', ActOK(a)',
           \A b \in Actor \ {a} : act[b].pc \in Busying => entries'[act[b].cur] = entries[act[b].cur],
           c.pc \in Busying => \A b \in Actor \ {a} : act[b].pc \in Busying => act[b].cur # c.cur,
           a = "end" => \A p \in Profile : Inactive(p) => Inactive(p)',
           a = "task" => ExitOK' /\ ConsentOK',
           UNCHANGED <<listed, selected, busy, boxVars, agreed, window, editorVars>>
    PROVE  DesktopInv'
<1>1. /\ act' \in [Actor -> Act] /\ act'[a] = c
      /\ \A b \in Actor \ {a} : act'[b] = act[b]
  BY Typed
<1>2. UNCHANGED <<listed, selected, busy, stack, enabled, agreed, window, editor, misfiled>>
  BY DEF boxVars, editorVars
<1>3. TypeOK'
  BY <1>1, <1>2, Typed DEF TypeOK, EntryStates
<1>4. OneAtATime'
  <2>1. ASSUME NEW p \in Profile, NEW b \in Actor, NEW d \in Actor,
               act'[b].cur = p, act'[b].pc \in Busying, act'[d].cur = p, act'[d].pc \in Busying
        PROVE  b = d
    <3>1. CASE b # a /\ d # a
      BY <1>1, <2>1, <3>1 DEF DesktopInv, OneAtATime, Busying
    <3>2. CASE b = a \/ d = a
      BY <1>1, <2>1, <3>2
    <3>3. QED
      BY <3>1, <3>2
  <2>2. QED
    BY <2>1 DEF OneAtATime, Busying
<1>5. \A b \in Actor : ActOK(b)'
  <2>1. ASSUME NEW b \in Actor \ {a} PROVE ActOK(b)'
    <3>1. ActOK(b) /\ act'[b] = act[b]
      BY <1>1 DEF DesktopInv
    <3>2. act[b].pc \in {"mounting", "closing", "forcing"} => entries'[act[b].cur] = entries[act[b].cur]
      BY DEF Busying
    <3>3. QED
      BY <3>1, <3>2 DEF ActOK
  <2>2. QED
    BY <2>1
<1>6. EndOK'
  <2>1. act'["end"].kind = act["end"].kind
    BY <1>1 DEF Actor
  <2>2. QED
    BY <1>2, <2>1 DEF DesktopInv, EndOK
<1>7. ExitOK' /\ ConsentOK'
  <2>1. CASE a = "task"
    BY <2>1
  <2>2. CASE a = "end"
    BY <1>1, <1>2, <2>2, Typed DEF DesktopInv, ExitOK, ConsentOK, Actor
  <2>3. QED
    BY <2>1, <2>2 DEF Actor
<1>8. StackOK'
  <2>1. ASSUME NEW box \in Boxes(stack) PROVE BoxOK(box)'
    <3>1. BoxOK(box)
      BY DEF DesktopInv, StackOK
    <3>2. CASE a = "task"
      BY <3>1, <3>2 DEF BoxOK, OutcomeOK
    <3>3. CASE a = "end"
      <4>1. act'["task"] = act["task"]
        BY <1>1, <3>3 DEF Actor
      <4>2. QED
        BY <1>2, <3>1, <3>3, <4>1, Typed DEF BoxOK, OutcomeOK
    <3>4. QED
      BY <3>2, <3>3 DEF Actor
  <2>2. QED
    BY <1>2, <2>1 DEF DesktopInv, StackOK
<1>9. (act["task"].kind # "none" => busy)'
  <2>1. act'["task"].kind = act["task"].kind
    BY <1>1 DEF Actor
  <2>2. QED
    BY <1>2, <2>1 DEF DesktopInv
<1>10. QED
  BY <1>2, <1>3, <1>4, <1>5, <1>6, <1>7, <1>8, <1>9, Typed DEF DesktopInv

\* Now: the goroutine turns to a profile and keeps everything else.
LEMMA NowIs ==
    ASSUME act \in [Actor -> Act], NEW a \in Actor, NEW p \in Profile,
           NEW pc \in {"mounting", "closing", "ask", "force", "forcing"},
           act' = Now(a, pc, p)
    PROVE  \E d \in Act :
                /\ act' = [act EXCEPT ![a] = d]
                /\ d.pc = pc /\ d.cur = p /\ d.kind = act[a].kind /\ d.exit = act[a].exit
                /\ d.todo = act[a].todo /\ d.failed = act[a].failed
                /\ d.canceled = act[a].canceled
<1> DEFINE c == act[a]
           d == [c EXCEPT !.pc = pc, !.cur = p]
<1>1. c \in Act /\ act' = [act EXCEPT ![a] = d]
  BY DEF Now
<1>2. /\ d \in Act /\ d.pc = pc /\ d.cur = p /\ d.kind = c.kind /\ d.exit = c.exit
      /\ d.todo = c.todo /\ d.failed = c.failed /\ d.canceled = c.canceled
  <2> HIDE DEF c
  <2>1. QED
    BY <1>1 DEF Act
<1> HIDE DEF d
<1>3. QED
  BY <1>1, <1>2

\* Past: the goroutine is done with a profile, after whatever outcome.
LEMMA PastIs ==
    ASSUME act \in [Actor -> Act], NEW a \in Actor, NEW p \in Profile,
           \/ act' = Past(a, p)
           \/ act' = [Past(a, p) EXCEPT ![a].failed = TRUE]
           \/ act' = [Past(a, p) EXCEPT ![a].forced = TRUE]
           \/ act' = [Past(a, p) EXCEPT ![a].canceled = TRUE]
    PROVE  \E d \in Act :
                /\ act' = [act EXCEPT ![a] = d]
                /\ d.pc = "next" /\ d.kind = act[a].kind /\ d.exit = act[a].exit
                /\ \/ d.failed \/ d.canceled
                   \/ /\ d.failed = act[a].failed /\ d.canceled = act[a].canceled
                      /\ d.todo = act[a].todo \ {p}
<1> DEFINE c == act[a]
           d == [c EXCEPT !.pc = "next", !.cur = None, !.todo = @ \ {p}]
           Good(e) == /\ e \in Act /\ e.pc = "next" /\ e.kind = c.kind /\ e.exit = c.exit
                      /\ \/ e.failed \/ e.canceled
                         \/ /\ e.failed = c.failed /\ e.canceled = c.canceled
                            /\ e.todo = c.todo \ {p}
<1>1. c \in Act /\ Past(a, p) = [act EXCEPT ![a] = d]
  BY DEF Past
<1>2. /\ d \in Act /\ d.pc = "next" /\ d.kind = c.kind /\ d.exit = c.exit
      /\ d.todo = c.todo \ {p} /\ d.failed = c.failed /\ d.canceled = c.canceled
  <2> HIDE DEF c
  <2>1. QED
    BY <1>1 DEF Act
<1> HIDE DEF c, d
<1>3. Good(d)
  BY <1>2
<1>4. Good([d EXCEPT !.failed = TRUE])
  BY <1>2 DEF Act
<1>5. Good([d EXCEPT !.forced = TRUE])
  BY <1>2 DEF Act
<1>6. Good([d EXCEPT !.canceled = TRUE])
  BY <1>2 DEF Act
<1>7. /\ [Past(a, p) EXCEPT ![a].failed = TRUE] = [act EXCEPT ![a] = [d EXCEPT !.failed = TRUE]]
      /\ [Past(a, p) EXCEPT ![a].forced = TRUE] = [act EXCEPT ![a] = [d EXCEPT !.forced = TRUE]]
      /\ [Past(a, p) EXCEPT ![a].canceled = TRUE] = [act EXCEPT ![a] = [d EXCEPT !.canceled = TRUE]]
  BY <1>1
<1> HIDE DEF Good
<1>8. PICK e : act' = [act EXCEPT ![a] = e] /\ Good(e)
  BY <1>1, <1>3, <1>4, <1>5, <1>6, <1>7
<1>9. QED
  BY <1>8 DEF Good, c

\* After a failure the error is kept.
LEMMA FailedIs ==
    ASSUME act \in [Actor -> Act], NEW a \in Actor, NEW p \in Profile,
           act' = [Past(a, p) EXCEPT ![a].failed = TRUE]
    PROVE  \E d \in Act : /\ act' = [act EXCEPT ![a] = d]
                          /\ d.pc = "next" /\ d.kind = act[a].kind /\ d.exit = act[a].exit
                          /\ d.failed
<1> DEFINE c == act[a]
           d == [[c EXCEPT !.pc = "next", !.cur = None, !.todo = @ \ {p}] EXCEPT !.failed = TRUE]
<1>1. c \in Act /\ act' = [act EXCEPT ![a] = d]
  BY DEF Past
<1>2. d \in Act /\ d.pc = "next" /\ d.kind = c.kind /\ d.exit = c.exit /\ d.failed
  <2> HIDE DEF c
  <2>1. QED
    BY <1>1 DEF Act
<1> HIDE DEF d
<1>3. QED
  BY <1>1, <1>2

\* After a declined question the profile is kept as such.
LEMMA CanceledIs ==
    ASSUME act \in [Actor -> Act], NEW a \in Actor, NEW p \in Profile,
           act' = [Past(a, p) EXCEPT ![a].canceled = TRUE]
    PROVE  \E d \in Act : /\ act' = [act EXCEPT ![a] = d]
                          /\ d.pc = "next" /\ d.kind = act[a].kind /\ d.exit = act[a].exit
                          /\ d.canceled
<1> DEFINE c == act[a]
           d == [[c EXCEPT !.pc = "next", !.cur = None, !.todo = @ \ {p}] EXCEPT !.canceled = TRUE]
<1>1. c \in Act /\ act' = [act EXCEPT ![a] = d]
  BY DEF Past
<1>2. d \in Act /\ d.pc = "next" /\ d.kind = c.kind /\ d.exit = c.exit /\ d.canceled
  <2> HIDE DEF c
  <2>1. QED
    BY <1>1 DEF Act
<1> HIDE DEF d
<1>3. QED
  BY <1>1, <1>2

\* What a step of a running goroutine may rely on.
LEMMA Running ==
    ASSUME DesktopInv, NEW a \in Actor, NEW kind, NEW pc, kind # "none", Does(a, kind, pc)
    PROVE  /\ act[a] \in Act /\ act[a].kind = kind /\ act[a].pc = pc /\ ActOK(a)
           /\ a = "end" => kind = "disconnect" /\ window # "open"
BY Typed DEF Does, DesktopInv, EndOK

\* What a goroutine is at that is done with a profile whose entry it leaves.
Passes(a, d) ==
    /\ act[a].kind # "none" /\ act[a].pc # "asked"
    /\ d.kind = act[a].kind /\ d.exit = act[a].exit
    /\ d.pc \in {"next", "finished", "ask", "force"}
    /\ d.pc \in {"ask", "force"} => d.cur \in Profile \intersect d.todo /\ d.kind = "disconnect"
    /\ d.pc = "finished" => d.todo = {}
    /\ a = "task" => d.pc # "force" \/ d.cur \in agreed
    /\ a = "task" /\ d.exit =>
            \/ d.failed \/ d.canceled
            \/ /\ act[a].failed => d.failed
               /\ act[a].canceled => d.canceled
               /\ \A p \in act[a].todo : p \in d.todo \/ Inactive(p)

\* A goroutine passes a profile by: no entry and no drive changes.
LEMMA PassBy ==
    ASSUME DesktopInv, NEW a \in Actor, NEW d \in Act, act' = [act EXCEPT ![a] = d],
           Passes(a, d), UNCHANGED <<entries, mounted>>,
           UNCHANGED <<listed, selected, busy, boxVars, agreed, window, editorVars>>
    PROVE  DesktopInv'
<1>1. act'[a] = d
  BY Typed
<1>2. ActOK(a)'
  BY <1>1 DEF ActOK, Passes
<1>3. ASSUME a = "task" PROVE ExitOK' /\ ConsentOK'
  <2>1. act'["task"] = d /\ act["task"] = act[a]
    BY <1>1, <1>3
  <2>2. ConsentOK'
    BY <1>3, <2>1 DEF ConsentOK, Passes
  <2>3. ExitOK'
    BY <1>3, <2>1 DEF DesktopInv, ExitOK, Inactive, Passes
  <2>4. QED
    BY <2>2, <2>3
<1>4. EntryMatchesMount' /\ entries' \in [Profile -> EntryStates] /\ mounted' \subseteq Profile
  BY Typed DEF DesktopInv, EntryMatchesMount, EntryStates
<1>5. a = "end" => \A p \in Profile : Inactive(p) => Inactive(p)'
  BY DEF Inactive
<1>6. d.pc \in Busying => \A b \in Actor \ {a} : act[b].pc \in Busying => act[b].cur # d.cur
  BY DEF Busying, Passes
<1>7. \A b \in Actor \ {a} : act[b].pc \in Busying => entries'[act[b].cur] = entries[act[b].cur]
  OBVIOUS
<1>8. /\ d.kind = act[a].kind /\ d.exit = act[a].exit
      /\ act[a].kind # "none" /\ act[a].pc # "asked"
  BY DEF Passes
<1>9. QED
  BY <1>2, <1>3, <1>4, <1>5, <1>6, <1>7, <1>8, ActorMoves

\* The entry of p changes, and its drive with it.
EntryBecomes(p, state) ==
    /\ entries' = [entries EXCEPT ![p] = state]
    /\ \/ mounted' = mounted /\ (p \in mounted <=> state \in {"connected", "disconnecting"})
       \/ mounted' = mounted \union {p} /\ state \in {"connected", "disconnecting"}
       \/ mounted' = mounted \ {p} /\ state \notin {"connected", "disconnecting"}

\* What the goroutine is at once it has taken, or given back, the entry of p.
Turns(a, d, p, state) ==
    /\ d.kind = act[a].kind /\ d.exit = act[a].exit
    /\ d.pc \in {"next", "ask", "force", "mounting", "closing", "forcing"}
    /\ d.pc # "next" => d.cur = p /\ p \in d.todo
    /\ d.pc = "mounting" => d.kind = "connect" /\ state = "connecting"
    /\ d.pc \in {"closing", "forcing"} => state = "disconnecting"
    /\ d.pc \in {"closing", "ask", "force", "forcing"} => d.kind = "disconnect"
    /\ a = "task" => d.pc \notin {"force", "forcing"} \/ p \in agreed
    /\ d.kind = "disconnect" => state = "none" \/ ~Inactive(p)
    /\ a = "task" /\ d.exit =>
            \/ d.failed \/ d.canceled
            \/ /\ act[a].failed => d.failed
               /\ act[a].canceled => d.canceled
               /\ p \in d.todo \/ state = "none"
               /\ \A r \in act[a].todo : r \in d.todo \/ r = p
    /\ a = "end" => d.kind = "disconnect"

\* A goroutine that turns to a profile and takes its entry, or gives it back.
LEMMA TakeEntry ==
    ASSUME DesktopInv, NEW a \in Actor, NEW d \in Act, act' = [act EXCEPT ![a] = d],
           act[a].kind # "none", act[a].pc # "asked",
           NEW p \in Profile, NEW state \in EntryStates,
           \A b \in Actor \ {a} : act[b].pc \in Busying => act[b].cur # p,
           EntryBecomes(p, state), Turns(a, d, p, state),
           UNCHANGED <<listed, selected, busy, boxVars, agreed, window, editorVars>>
    PROVE  DesktopInv'
<1>1. act'[a] = d
  BY Typed
<1>2. /\ entries' \in [Profile -> EntryStates] /\ entries'[p] = state
      /\ \A r \in Profile \ {p} : entries'[r] = entries[r]
  BY Typed DEF EntryStates, EntryBecomes
<1>3. ActOK(a)'
  BY <1>1, <1>2 DEF ActOK, Turns
<1>4. d.kind = "disconnect" => \A r \in Profile : Inactive(r) => Inactive(r)'
  BY <1>2 DEF Inactive, Turns
<1>5. ASSUME a = "task" PROVE ExitOK' /\ ConsentOK'
  <2>1. act'["task"] = d /\ act["task"] = act[a]
    BY <1>1, <1>5
  <2>2. ConsentOK'
    BY <1>5, <2>1 DEF ConsentOK, Turns
  <2>3. ASSUME d.exit, ~d.failed, ~d.canceled, window' = "open", NEW r \in listed'
        PROVE  r \in d.todo \/ Inactive(r)'
    <3>0. a = "task" /\ d.exit /\ ~(d.failed \/ d.canceled)
      BY <1>5, <2>3
    <3>1. /\ d.kind = act[a].kind /\ d.exit = act[a].exit
          /\ act[a].failed => d.failed
          /\ act[a].canceled => d.canceled
          /\ p \in d.todo \/ state = "none"
          /\ \A q \in act[a].todo : q \in d.todo \/ q = p
      BY <3>0 DEF Turns
    <3>2. listed' = listed /\ window = "open" /\ act["task"] = act[a]
      BY <2>1, <2>3
    <3>3. act[a].exit /\ ~act[a].failed /\ ~act[a].canceled
      BY <2>3, <3>1, Zenon
    <3>4. d.kind = "disconnect" /\ (r \in act[a].todo \/ Inactive(r)) /\ r \in Profile
      BY <2>3, <3>1, <3>2, <3>3, Typed DEF DesktopInv, ExitOK
    <3>5. state = "none" /\ r = p => Inactive(r)'
      BY <1>2 DEF Inactive
    <3>6. Inactive(r) => Inactive(r)'
      BY <1>4, <3>4
    <3>7. QED
      BY <3>1, <3>4, <3>5, <3>6
  <2>4. d.exit => d.kind = "disconnect"
    BY <2>1 DEF DesktopInv, ExitOK, Turns
  <2>5. QED
    BY <2>1, <2>2, <2>3, <2>4 DEF ExitOK
<1>6. EntryMatchesMount' /\ mounted' \subseteq Profile
  <2>1. ASSUME NEW r \in Profile
        PROVE  r \in mounted' <=> entries'[r] \in {"connected", "disconnecting"}
    <3>1. CASE r = p
      BY <1>2, <3>1 DEF EntryBecomes
    <3>2. CASE r # p
      BY <1>2, <3>2 DEF DesktopInv, EntryMatchesMount, EntryBecomes
    <3>3. QED
      BY <3>1, <3>2
  <2>2. QED
    BY <2>1, Typed DEF EntryMatchesMount, EntryBecomes
<1>7. \A b \in Actor \ {a} : act[b].pc \in Busying => entries'[act[b].cur] = entries[act[b].cur]
  <2>1. ASSUME NEW b \in Actor \ {a}, act[b].pc \in Busying
        PROVE  act[b].cur \in Profile \ {p}
    BY <2>1 DEF DesktopInv, ActOK, Busying
  <2>2. QED
    BY <1>2, <2>1
<1>8. d.pc \in Busying => \A b \in Actor \ {a} : act[b].pc \in Busying => act[b].cur # d.cur
  BY DEF Busying, Turns
<1>9. a = "end" => \A r \in Profile : Inactive(r) => Inactive(r)'
  BY <1>4 DEF Turns
<1>10. d.kind = act[a].kind /\ d.exit = act[a].exit
  BY DEF Turns
<1>11. QED
  BY <1>2, <1>3, <1>5, <1>6, <1>7, <1>8, <1>9, <1>10, ActorMoves

\* At the start the connecting task is the only thing that runs.
LEMMA DesktopInit == Init => DesktopInv
<1> SUFFICES ASSUME Init PROVE DesktopInv
  OBVIOUS
<1> DEFINE c == [NoAct EXCEPT !.kind = "connect", !.todo = Saved \intersect AutoConnect]
<1>1. c \in Act /\ c.kind = "connect" /\ c.pc = "next" /\ c.exit = FALSE /\ NoAct \in Act
  BY DesktopConstants DEF NoAct, Act
<1>2. act = [a \in Actor |-> IF a = "task" THEN c ELSE NoAct]
  BY DEF Init
<1> HIDE DEF c
<1>3. act \in [Actor -> Act] /\ act["task"] = c /\ act["end"] = NoAct
  BY <1>1, <1>2 DEF Actor
<1>4. stack = <<>> /\ stack \in Seq(BoxType) /\ DOMAIN stack = {}
  BY DEF Init
<1>5. TypeOK
  BY <1>3, <1>4, DesktopConstants DEF Init, TypeOK
<1>6. EntryMatchesMount
  BY DEF Init, EntryMatchesMount
<1>7. \A a \in Actor : act[a].pc = "next"
  BY <1>1, <1>3 DEF Actor, NoAct
<1>8. OneAtATime
  BY <1>7 DEF OneAtATime
<1>9. \A a \in Actor : ActOK(a)
  BY <1>1, <1>3, <1>7 DEF ActOK, Actor
<1>10. EndOK /\ ExitOK /\ ConsentOK
  BY <1>1, <1>3 DEF EndOK, ExitOK, ConsentOK, NoAct
<1>11. StackOK
  BY <1>4 DEF StackOK, OneSpecial, Boxes
<1>12. QED
  BY <1>5, <1>6, <1>8, <1>9, <1>10, <1>11 DEF DesktopInv, Init

\* connectAll passes over a profile.
LEMMA ConnectSkips ==
    ASSUME DesktopInv, NEW p \in Profile, ConnectSkip(p)
    PROVE  DesktopInv'
<1> DEFINE a == "task"
<1>1. a \in Actor /\ act \in [Actor -> Act] /\ Does(a, "connect", "next")
  BY Typed DEF Actor, ConnectSkip
<1>2. act[a] \in Act /\ act[a].kind = "connect" /\ act[a].pc = "next"
  BY <1>1, Running
<1>3. \E d \in Act : act' = [act EXCEPT ![a] = d] /\ d.pc = "next" /\ d.kind = act[a].kind
                     /\ d.exit = act[a].exit
  <2>1. act' = Past(a, p) \/ act' = [Past(a, p) EXCEPT ![a].failed = TRUE]
    BY DEF ConnectSkip
  <2> HIDE DEF a
  <2>2. QED
    BY <1>1, <2>1, PastIs
<1>4. PICK d \in Act : act' = [act EXCEPT ![a] = d] /\ d.pc = "next" /\ d.kind = act[a].kind
                     /\ d.exit = act[a].exit
  BY <1>3
<1>5. ~d.exit
  BY <1>2, <1>4 DEF DesktopInv, ExitOK
<1>6. UNCHANGED <<entries, mounted>>
  BY DEF ConnectSkip, managerVars
<1>7. UNCHANGED <<listed, selected, busy, boxVars, agreed, window, editorVars>>
  BY DEF ConnectSkip
<1> HIDE DEF a
<1>8. a \in Actor /\ Passes(a, d)
  BY <1>1, <1>2, <1>4, <1>5 DEF Passes
<1>9. QED
  BY <1>4, <1>6, <1>7, <1>8, PassBy

\* A goroutine's function returns.
LEMMA Finishes ==
    ASSUME DesktopInv, NEW a \in Actor, Finish(a)
    PROVE  DesktopInv'
<1>0. act[a] \in Act /\ act[a].failed \in BOOLEAN
  BY Typed DEF Act
<1>1. PICK failed \in {act[a].failed, act[a].failed \/ act[a].kind \in {"clear", "test"}} :
        act' = [act EXCEPT ![a].pc = "finished", ![a].failed = failed]
  BY DEF Finish
<1>2. /\ act[a] \in Act /\ act[a].kind # "none" /\ act[a].pc = "next" /\ act[a].todo = {}
      /\ failed \in BOOLEAN /\ (act[a].failed => failed)
  <2>1. CASE failed = act[a].failed
    BY <1>0, <2>1 DEF Finish
  <2>2. CASE failed = (act[a].failed \/ act[a].kind \in {"clear", "test"})
    BY <1>0, <2>2 DEF Finish
  <2>3. QED
    BY <2>1, <2>2
<1> DEFINE d == [act[a] EXCEPT !.pc = "finished", !.failed = failed]
<1>3. act' = [act EXCEPT ![a] = d]
  BY <1>1
<1>4. /\ d \in Act /\ d.pc = "finished" /\ d.kind = act[a].kind /\ d.exit = act[a].exit
      /\ d.todo = {} /\ d.failed = failed /\ d.canceled = act[a].canceled
  BY <1>2 DEF Act
<1>5. UNCHANGED <<entries, mounted>>
  BY DEF Finish, managerVars
<1>6. UNCHANGED <<listed, selected, busy, boxVars, agreed, window, editorVars>>
  BY DEF Finish
<1> HIDE DEF d
<1>7. Passes(a, d)
  BY <1>2, <1>4 DEF Passes
<1>8. QED
  BY <1>3, <1>4, <1>5, <1>6, <1>7, PassBy

\* Nobody else is at a profile whose entry is in a resting state.
LEMMA NobodyElse ==
    ASSUME DesktopInv, NEW p \in Profile, entries[p] \in {"none", "connected"}
    PROVE  \A b \in Actor : act[b].pc \in Busying => act[b].cur # p
BY DEF DesktopInv, ActOK, Busying

\* Nobody else is at the profile a goroutine mounts or detaches.
LEMMA NobodyThere ==
    ASSUME DesktopInv, NEW a \in Actor, act[a].pc \in Busying
    PROVE  \A b \in Actor \ {a} : act[b].pc \in Busying => act[b].cur # act[a].cur
BY DEF DesktopInv, OneAtATime, ActOK, Busying

\* Manager.Connect takes the entry of a profile that has none.
LEMMA ConnectStarts ==
    ASSUME DesktopInv, NEW p \in Profile, ConnectStart(p)
    PROVE  DesktopInv'
<1> DEFINE a == "task"
<1>1. a \in Actor /\ act \in [Actor -> Act] /\ Does(a, "connect", "next")
  BY Typed DEF Actor, ConnectStart
<1>2. act[a] \in Act /\ act[a].kind = "connect" /\ act[a].pc = "next"
  BY <1>1, Running
<1>3. act' = Now(a, "mounting", p)
  BY DEF ConnectStart
<1> HIDE DEF a
<1>4. PICK d \in Act : /\ act' = [act EXCEPT ![a] = d] /\ d.pc = "mounting" /\ d.cur = p
                       /\ d.kind = act[a].kind /\ d.exit = act[a].exit /\ d.todo = act[a].todo
  BY <1>1, <1>3, NowIs
<1> USE DEF a
<1>5. ~d.exit
  BY <1>2, <1>4 DEF DesktopInv, ExitOK
<1>6. /\ entries[p] = "none" /\ p \notin mounted /\ mounted' = mounted
      /\ entries' = [entries EXCEPT ![p] = "connecting"]
  BY DEF ConnectStart, Inactive, DesktopInv, EntryMatchesMount
<1>7. UNCHANGED <<listed, selected, busy, boxVars, agreed, window, editorVars>>
  BY DEF ConnectStart
<1>8. \A b \in Actor \ {a} : act[b].pc \in Busying => act[b].cur # p
  BY <1>6, NobodyElse
<1>9. "connecting" \in EntryStates /\ EntryBecomes(p, "connecting")
  BY <1>6 DEF EntryStates, EntryBecomes
<1>10. Turns(a, d, p, "connecting")
  BY <1>2, <1>4, <1>5 DEF Turns, ConnectStart
<1> HIDE DEF a
<1>11. QED
  BY <1>1, <1>2, <1>4, <1>7, <1>8, <1>9, <1>10, TakeEntry

\* Manager.Connect: the drive is mounted, or the entry is deleted again.
LEMMA ConnectEnds ==
    ASSUME DesktopInv, ConnectEnd
    PROVE  DesktopInv'
<1> DEFINE a == "task"
           p == act[a].cur
<1>1. a \in Actor /\ act \in [Actor -> Act] /\ Does(a, "connect", "mounting")
  BY Typed DEF Actor, ConnectEnd
<1>2. act[a] \in Act /\ act[a].kind = "connect" /\ act[a].pc = "mounting" /\ ActOK(a)
  BY <1>1, Running
<1>3. p \in Profile /\ entries[p] = "connecting" /\ p \notin mounted
  BY <1>2 DEF ActOK, DesktopInv, EntryMatchesMount
<1>4. \A b \in Actor \ {a} : act[b].pc \in Busying => act[b].cur # p
  BY <1>1, <1>2, NobodyThere DEF Busying
<1>5. UNCHANGED <<listed, selected, busy, boxVars, agreed, window, editorVars>>
  BY DEF ConnectEnd
<1>6. \/ /\ mounted' = mounted \union {p} /\ act' = Past(a, p)
         /\ entries' = [entries EXCEPT ![p] = "connected"]
      \/ /\ mounted' = mounted /\ act' = [Past(a, p) EXCEPT ![a].failed = TRUE]
         /\ entries' = [entries EXCEPT ![p] = "none"]
  BY DEF ConnectEnd
<1> HIDE DEF a, p
<1>7. PICK d \in Act : act' = [act EXCEPT ![a] = d] /\ d.pc = "next" /\ d.kind = act[a].kind
                     /\ d.exit = act[a].exit
  BY <1>1, <1>3, <1>6, PastIs
<1> USE DEF a
<1>8. ~d.exit
  BY <1>2, <1>7 DEF DesktopInv, ExitOK
<1>9. PICK state \in {"connected", "none"} : EntryBecomes(p, state)
  BY <1>3, <1>6 DEF EntryBecomes
<1>10. state \in EntryStates /\ Turns(a, d, p, state)
  BY <1>2, <1>7, <1>8 DEF EntryStates, Turns
<1> HIDE DEF a
<1>11. QED
  BY <1>1, <1>2, <1>3, <1>4, <1>5, <1>7, <1>9, <1>10, TakeEntry

\* Refused: the user's task is about to ask, the session end to force.
LEMMA RefusedIs ==
    ASSUME act \in [Actor -> Act], NEW a \in Actor, NEW p \in Profile, act' = Refused(a, p)
    PROVE  \E d \in Act :
                /\ act' = [act EXCEPT ![a] = d]
                /\ d.pc \in {"ask", "force"} /\ d.cur = p /\ d.kind = act[a].kind
                /\ a = "task" => d.pc = "ask"
                /\ d.exit = act[a].exit /\ d.todo = act[a].todo /\ d.failed = act[a].failed
                /\ d.canceled = act[a].canceled
<1>1. CASE a = "task"
  <2>1. act' = Now(a, "ask", p)
    BY <1>1 DEF Refused
  <2>2. QED
    BY <2>1, NowIs
<1>2. CASE a # "task"
  <2>1. act' = Now(a, "force", p)
    BY <1>2 DEF Refused
  <2>2. QED
    BY <1>2, <2>1, NowIs
<1>3. QED
  BY <1>1, <1>2

\* Manager.disconnect: the state of the entry decides.
LEMMA DisconnectStarts ==
    ASSUME DesktopInv, NEW a \in Actor, NEW p \in Profile, DisconnectStart(a, p)
    PROVE  DesktopInv'
<1>1. act \in [Actor -> Act] /\ Does(a, "disconnect", "next") /\ entries[p] \in EntryStates
  BY Typed DEF DisconnectStart, EntryStates
<1>2. act[a] \in Act /\ act[a].kind = "disconnect" /\ act[a].pc = "next"
  BY <1>1, Running
<1>3. UNCHANGED <<listed, selected, busy, boxVars, agreed, window, editorVars>> /\ mounted' = mounted
  BY DEF DisconnectStart
<1>4. CASE entries[p] = "none"
  <2>1. act' = Past(a, p) /\ entries' = entries
    BY <1>4 DEF DisconnectStart
  <2>2. PICK d \in Act :
          /\ act' = [act EXCEPT ![a] = d]
          /\ d.pc = "next" /\ d.kind = act[a].kind /\ d.exit = act[a].exit
          /\ \/ d.failed \/ d.canceled
             \/ /\ d.failed = act[a].failed /\ d.canceled = act[a].canceled
                /\ d.todo = act[a].todo \ {p}
    BY <1>1, <2>1, PastIs
  <2>3. \A r \in act[a].todo : r \in act[a].todo \ {p} \/ Inactive(r)
    BY <1>4 DEF Inactive
  <2>4. Passes(a, d)
    BY <1>2, <2>2, <2>3 DEF Passes
  <2>5. QED
    BY <1>3, <2>1, <2>2, <2>4, PassBy
<1>5. CASE entries[p] = "connected"
  <2>1. act' = Now(a, "closing", p) /\ entries' = [entries EXCEPT ![p] = "disconnecting"]
    BY <1>5 DEF DisconnectStart
  <2>2. PICK d \in Act :
          /\ act' = [act EXCEPT ![a] = d]
          /\ d.pc = "closing" /\ d.cur = p /\ d.kind = act[a].kind /\ d.exit = act[a].exit
          /\ d.todo = act[a].todo /\ d.failed = act[a].failed /\ d.canceled = act[a].canceled
    BY <1>1, <2>1, NowIs
  <2>3. p \in mounted
    BY <1>5 DEF DesktopInv, EntryMatchesMount
  <2>4. "disconnecting" \in EntryStates /\ EntryBecomes(p, "disconnecting")
    BY <1>3, <2>1, <2>3 DEF EntryStates, EntryBecomes
  <2>5. p \in act[a].todo
    BY DEF DisconnectStart
  <2>6. Turns(a, d, p, "disconnecting")
    BY <1>2, <1>5, <2>2, <2>5 DEF Turns, Inactive
  <2>7. \A b \in Actor \ {a} : act[b].pc \in Busying => act[b].cur # p
    BY <1>5, NobodyElse
  <2>8. QED
    BY <1>2, <1>3, <2>2, <2>4, <2>6, <2>7, TakeEntry
<1>6. CASE entries[p] \notin {"none", "connected"}
  <2>1. act' = Refused(a, p) /\ entries' = entries
    BY <1>6 DEF DisconnectStart
  <2>2. PICK d \in Act :
          /\ act' = [act EXCEPT ![a] = d]
          /\ d.pc \in {"ask", "force"} /\ d.cur = p /\ d.kind = act[a].kind
          /\ a = "task" => d.pc = "ask"
          /\ d.exit = act[a].exit /\ d.todo = act[a].todo /\ d.failed = act[a].failed
          /\ d.canceled = act[a].canceled
    BY <1>1, <2>1, RefusedIs
  <2>3. p \in act[a].todo
    BY DEF DisconnectStart
  <2>4. Passes(a, d)
    BY <1>2, <2>2, <2>3 DEF Passes
  <2>5. QED
    BY <1>3, <2>1, <2>2, <2>4, PassBy
<1>7. QED
  BY <1>4, <1>5, <1>6

\* Session.Close detaches and the entry is deleted, or it refuses.
LEMMA DisconnectEnds ==
    ASSUME DesktopInv, NEW a \in Actor, DisconnectEnd(a)
    PROVE  DesktopInv'
<1> DEFINE p == act[a].cur
<1>1. act \in [Actor -> Act] /\ Does(a, "disconnect", "closing")
  BY Typed DEF DisconnectEnd
<1>2. act[a] \in Act /\ act[a].kind = "disconnect" /\ act[a].pc = "closing" /\ ActOK(a)
  BY <1>1, Running
<1>3. p \in Profile /\ entries[p] = "disconnecting" /\ p \in mounted
  BY <1>2 DEF ActOK, DesktopInv, EntryMatchesMount
<1>4. \A b \in Actor \ {a} : act[b].pc \in Busying => act[b].cur # p
  BY <1>2, NobodyThere DEF Busying
<1>5. UNCHANGED <<listed, selected, busy, boxVars, agreed, window, editorVars>>
  BY DEF DisconnectEnd
<1>6. \/ /\ mounted' = mounted \ {p} /\ act' = Past(a, p)
         /\ entries' = [entries EXCEPT ![p] = "none"]
      \/ /\ mounted' = mounted /\ act' = Refused(a, p)
         /\ entries' = [entries EXCEPT ![p] = "connected"]
  BY DEF DisconnectEnd
<1>7. p \in act[a].todo
  BY <1>2 DEF ActOK
<1> HIDE DEF p
<1>8. CASE act' = Past(a, p) /\ mounted' = mounted \ {p} /\ entries' = [entries EXCEPT ![p] = "none"]
  <2>1. PICK d \in Act :
          /\ act' = [act EXCEPT ![a] = d]
          /\ d.pc = "next" /\ d.kind = act[a].kind /\ d.exit = act[a].exit
          /\ \/ d.failed \/ d.canceled
             \/ /\ d.failed = act[a].failed /\ d.canceled = act[a].canceled
                /\ d.todo = act[a].todo \ {p}
    BY <1>1, <1>3, <1>8, PastIs
  <2>2. "none" \in EntryStates /\ EntryBecomes(p, "none")
    BY <1>8 DEF EntryStates, EntryBecomes
  <2>3. Turns(a, d, p, "none")
    BY <1>2, <2>1 DEF Turns
  <2>4. QED
    BY <1>2, <1>3, <1>4, <1>5, <2>1, <2>2, <2>3, TakeEntry
<1>9. CASE act' = Refused(a, p) /\ mounted' = mounted /\ entries' = [entries EXCEPT ![p] = "connected"]
  <2>1. PICK d \in Act :
          /\ act' = [act EXCEPT ![a] = d]
          /\ d.pc \in {"ask", "force"} /\ d.cur = p /\ d.kind = act[a].kind
          /\ a = "task" => d.pc = "ask"
          /\ d.exit = act[a].exit /\ d.todo = act[a].todo /\ d.failed = act[a].failed
          /\ d.canceled = act[a].canceled
    BY <1>1, <1>3, <1>9, RefusedIs
  <2>2. "connected" \in EntryStates /\ EntryBecomes(p, "connected")
    BY <1>3, <1>9 DEF EntryStates, EntryBecomes
  <2>3. Turns(a, d, p, "connected")
    BY <1>2, <1>3, <1>7, <2>1 DEF Turns, Inactive
  <2>4. QED
    BY <1>2, <1>3, <1>4, <1>5, <2>1, <2>2, <2>3, TakeEntry
<1>10. QED
  BY <1>6, <1>8, <1>9

\* The forced detach: the entry is taken once more, or the profile passed over.
LEMMA ForceStarts ==
    ASSUME DesktopInv, NEW a \in Actor, ForceStart(a)
    PROVE  DesktopInv'
<1> DEFINE p == act[a].cur
<1>1. act \in [Actor -> Act] /\ Does(a, "disconnect", "force")
  BY Typed DEF ForceStart
<1>2. act[a] \in Act /\ act[a].kind = "disconnect" /\ act[a].pc = "force" /\ ActOK(a)
  BY <1>1, Running
<1>3. p \in Profile /\ p \in act[a].todo
  BY <1>2 DEF ActOK
<1>4. a = "task" => p \in agreed
  BY <1>2 DEF DesktopInv, ConsentOK
<1>5. UNCHANGED <<listed, selected, busy, boxVars, agreed, window, editorVars>> /\ mounted' = mounted
  BY DEF ForceStart
<1>6. \/ act' = Past(a, p) /\ entries' = entries /\ entries[p] = "none"
      \/ /\ act' = Now(a, "forcing", p) /\ entries[p] = "connected"
         /\ entries' = [entries EXCEPT ![p] = "disconnecting"]
      \/ act' = [Past(a, p) EXCEPT ![a].failed = TRUE] /\ entries' = entries
  <2>1. entries[p] = "none" \/ entries[p] = "connected" \/ entries[p] \notin {"none", "connected"}
    OBVIOUS
  <2>2. QED
    BY <2>1 DEF ForceStart
<1> HIDE DEF p
<1>7. CASE act' = Past(a, p) /\ entries' = entries /\ entries[p] = "none"
  <2>1. PICK d \in Act :
          /\ act' = [act EXCEPT ![a] = d]
          /\ d.pc = "next" /\ d.kind = act[a].kind /\ d.exit = act[a].exit
          /\ \/ d.failed \/ d.canceled
             \/ /\ d.failed = act[a].failed /\ d.canceled = act[a].canceled
                /\ d.todo = act[a].todo \ {p}
    BY <1>1, <1>3, <1>7, PastIs
  <2>2. \A r \in act[a].todo : r \in act[a].todo \ {p} \/ Inactive(r)
    BY <1>7 DEF Inactive
  <2>3. Passes(a, d)
    BY <1>2, <2>1, <2>2 DEF Passes
  <2>4. QED
    BY <1>5, <1>7, <2>1, <2>3, PassBy
<1>8. CASE /\ act' = Now(a, "forcing", p) /\ entries[p] = "connected"
           /\ entries' = [entries EXCEPT ![p] = "disconnecting"]
  <2>1. PICK d \in Act :
          /\ act' = [act EXCEPT ![a] = d]
          /\ d.pc = "forcing" /\ d.cur = p /\ d.kind = act[a].kind /\ d.exit = act[a].exit
          /\ d.todo = act[a].todo /\ d.failed = act[a].failed /\ d.canceled = act[a].canceled
    BY <1>1, <1>3, <1>8, NowIs
  <2>2. p \in mounted
    BY <1>3, <1>8 DEF DesktopInv, EntryMatchesMount
  <2>3. "disconnecting" \in EntryStates /\ EntryBecomes(p, "disconnecting")
    BY <1>5, <1>8, <2>2 DEF EntryStates, EntryBecomes
  <2>4. Turns(a, d, p, "disconnecting")
    BY <1>2, <1>3, <1>4, <1>8, <2>1 DEF Turns, Inactive
  <2>5. \A b \in Actor \ {a} : act[b].pc \in Busying => act[b].cur # p
    BY <1>3, <1>8, NobodyElse
  <2>6. QED
    BY <1>2, <1>3, <1>5, <2>1, <2>3, <2>4, <2>5, TakeEntry
<1>9. CASE act' = [Past(a, p) EXCEPT ![a].failed = TRUE] /\ entries' = entries
  <2>1. PICK d \in Act :
          /\ act' = [act EXCEPT ![a] = d]
          /\ d.pc = "next" /\ d.kind = act[a].kind /\ d.exit = act[a].exit /\ d.failed
    BY <1>1, <1>3, <1>9, FailedIs
  <2>2. Passes(a, d)
    BY <1>2, <2>1 DEF Passes
  <2>3. QED
    BY <1>5, <1>9, <2>1, <2>2, PassBy
<1>10. QED
  BY <1>6, <1>7, <1>8, <1>9

\* Session.ForceClose has detached.
LEMMA ForceEnds ==
    ASSUME DesktopInv, NEW a \in Actor, ForceEnd(a)
    PROVE  DesktopInv'
<1> DEFINE p == act[a].cur
<1>1. act \in [Actor -> Act] /\ Does(a, "disconnect", "forcing")
  BY Typed DEF ForceEnd
<1>2. act[a] \in Act /\ act[a].kind = "disconnect" /\ act[a].pc = "forcing" /\ ActOK(a)
  BY <1>1, Running
<1>3. p \in Profile
  BY <1>2 DEF ActOK
<1>4. \A b \in Actor \ {a} : act[b].pc \in Busying => act[b].cur # p
  BY <1>2, NobodyThere DEF Busying
<1>5. UNCHANGED <<listed, selected, busy, boxVars, agreed, window, editorVars>>
  BY DEF ForceEnd
<1>6. /\ mounted' = mounted \ {p} /\ act' = [Past(a, p) EXCEPT ![a].forced = TRUE]
      /\ entries' = [entries EXCEPT ![p] = "none"]
  BY DEF ForceEnd
<1> HIDE DEF p
<1>7. PICK d \in Act :
        /\ act' = [act EXCEPT ![a] = d]
        /\ d.pc = "next" /\ d.kind = act[a].kind /\ d.exit = act[a].exit
        /\ \/ d.failed \/ d.canceled
           \/ /\ d.failed = act[a].failed /\ d.canceled = act[a].canceled
              /\ d.todo = act[a].todo \ {p}
  BY <1>1, <1>3, <1>6, PastIs
<1>8. "none" \in EntryStates /\ EntryBecomes(p, "none")
  BY <1>6 DEF EntryStates, EntryBecomes
<1>9. Turns(a, d, p, "none")
  BY <1>2, <1>7 DEF Turns
<1>10. QED
  BY <1>2, <1>3, <1>4, <1>5, <1>7, <1>8, <1>9, TakeEntry

-----------------------------------------------------------------------------
(* The commands and the answers.                                           *)

\* A command's box is shown.
LEMMA BoxShown ==
    ASSUME DesktopInv, NEW kind \in Plain, NEW p \in Profile \union {None},
           NEW box \in {Box(kind, p), [Box(kind, p) EXCEPT !.destroy = TRUE]},
           Show(box) \/ (stack # <<>> /\ ReturnAndShow(box))
    PROVE  Quieter
<1>0. kind \in Plain \union {"done", "force"}
  OBVIOUS
<1>1. box \in BoxType /\ box.kind = kind
  <2>1. CASE box = Box(kind, p)
    BY <1>0, <2>1, BoxTypes
  <2>2. CASE box = [Box(kind, p) EXCEPT !.destroy = TRUE]
    BY <2>2 DEF Box, BoxType, Plain
  <2>3. QED
    BY <2>1, <2>2
<1>2. ~Special(box)
  BY <1>1 DEF Special, Plain
<1>3. stack \in Seq(BoxType) /\ OneSpecial(stack) /\ enabled \in BOOLEAN
  BY Typed
<1>4. QED
  BY <1>1, <1>2, <1>3, ShowQuiet

\* No box is shown, and none is gone.
LEMMA BoxesSame ==
    ASSUME DesktopInv, UNCHANGED stack, enabled' \in BOOLEAN
    PROVE  Quieter
BY Typed, SameQuiet

\* The box on top is answered, or closed, and nothing is shown instead.
LEMMA BoxGone ==
    ASSUME DesktopInv, stack # <<>>, stack' = Tail(stack), enabled' \in BOOLEAN
    PROVE  Quieter
BY Typed, ReturnQuiet

\* Return makes the owner accept input again, or leaves it alone.
LEMMA Returned ==
    ASSUME DesktopInv, Return
    PROVE  stack' = Tail(stack) /\ enabled' \in BOOLEAN
<1>1. enabled \in BOOLEAN /\ enabled' = AfterTop /\ stack' = Tail(stack)
  BY Typed DEF Return
<1>2. AfterTop \in BOOLEAN
  BY <1>1 DEF AfterTop
<1>3. QED
  BY <1>1, <1>2

\* Toggle: connect, disconnect, or a message.
LEMMA Toggles ==
    ASSUME DesktopInv, NEW p \in Profile, Toggle(p)
    PROVE  DesktopInv'
<1>1. ~busy /\ {p} \in SUBSET Profile
  BY DEF Toggle, Command
<1>2. UNCHANGED <<listed, selected, managerVars, window, editorVars>>
  BY DEF Toggle
<1>3. CASE (Task("connect", {p}, FALSE) \/ Task("disconnect", {p}, FALSE)) /\ UNCHANGED boxVars
  <2>1. Quieter
    BY <1>3, BoxesSame, Typed DEF boxVars
  <2>2. QED
    BY <1>1, <1>2, <1>3, <2>1, TaskStarts
<1>4. CASE Show(Box("report", None)) /\ UNCHANGED <<busy, act, agreed>>
  <2>1. Quieter
    BY <1>4, BoxShown DEF Plain
  <2>2. QED
    BY <1>2, <1>4, <2>1, Typed, UIStep DEF editorVars
<1>5. QED
  BY <1>3, <1>4 DEF Toggle

\* The commands for every profile.
LEMMA StartsAll ==
    ASSUME DesktopInv, connectAll \/ \E exit \in BOOLEAN : disconnectAll(exit)
    PROVE  DesktopInv'
<1>1. PICK kind \in {"connect", "disconnect"}, exit \in BOOLEAN :
        Task(kind, listed, exit) /\ (exit => kind = "disconnect")
  BY DEF connectAll, disconnectAll
<1>2. /\ ~busy /\ listed \in SUBSET Profile /\ UNCHANGED boxVars
      /\ UNCHANGED <<listed, selected, managerVars, window, editorVars>>
  BY Typed DEF connectAll, disconnectAll, Command
<1>3. Quieter
  BY <1>2, BoxesSame, Typed DEF boxVars
<1>4. QED
  BY <1>1, <1>2, <1>3, TaskStarts

\* Commands that only show something.
LEMMA Shows ==
    ASSUME DesktopInv, clearCache \/ deleteProfile \/ cancelEditorChanges
    PROVE  DesktopInv'
<1>1. UNCHANGED <<listed, selected, managerVars, busy, act, agreed, window, editorVars>>
  BY DEF clearCache, deleteProfile, cancelEditorChanges
<1>2. PICK kind \in Plain, p \in Profile \union {None} : Show(Box(kind, p))
  BY Typed DEF clearCache, deleteProfile, cancelEditorChanges, Plain
<1>3. Quieter
  BY <1>2, BoxShown
<1>4. QED
  BY <1>1, <1>3, Typed, UIStep DEF editorVars

\* The list's selection, and the editor that opens.
LEMMA Opens ==
    ASSUME DesktopInv, (\E p \in Profile : Select(p)) \/ newProfile \/ editProfile
    PROVE  DesktopInv'
<1> DEFINE box == [Box("secret", None) EXCEPT !.frees = "editor"]
<1>1. /\ UNCHANGED <<listed, managerVars, busy, act, agreed, window, misfiled>>
      /\ selected' \in listed \union {None}
      /\ editor' \in Profile \union {"new", "closed"}
  BY Typed DEF Select, newProfile, editProfile, showProfileEditor, boxVars, editorVars
<1>2. \/ UNCHANGED stack /\ enabled' \in BOOLEAN
      \/ stack' = <<box>> \o stack /\ UNCHANGED enabled
  BY Typed DEF Select, newProfile, editProfile, showProfileEditor, boxVars
<1>3. box \in BoxType /\ ~Special(box)
  BY DEF Box, BoxType, Special
<1> HIDE DEF box
<1>4. Quieter
  <2>1. CASE UNCHANGED stack /\ enabled' \in BOOLEAN
    BY <2>1, BoxesSame
  <2>2. CASE stack' = <<box>> \o stack /\ UNCHANGED enabled
    BY <1>3, <2>2, Typed, PushBox DEF Quieter
  <2>3. QED
    BY <1>2, <2>1, <2>2
<1>5. QED
  BY <1>1, <1>4, Typed, UIStep

\* What is saved belongs to a listed profile, or to a new and unconnected one.
LEMMA SavesProfile ==
    ASSUME DesktopInv, NEW p \in Profile, Saves(p)
    PROVE  /\ listed' \subseteq Profile /\ selected' \in listed' \union {None}
           /\ \A r \in listed' \ listed : Inactive(r)
           /\ misfiled' \subseteq Profile
BY Typed DEF Saves, Target

\* save, and the answer to its question.
LEMMA SaveSteps ==
    ASSUME DesktopInv, save \/ AnswerSave
    PROVE  DesktopInv'
<1>1. UNCHANGED <<managerVars, busy, act, agreed, window>>
  BY DEF save, AnswerSave
<1>2. CASE /\ UNCHANGED <<listed, selected, editorVars>>
           /\ \/ Show(Box("report", None)) \/ Show(Box("save", None))
              \/ stack # <<>> /\ ReturnAndShow(Box("report", None))
  <2>1. Quieter
    BY <1>2, BoxShown DEF Plain
  <2>2. QED
    BY <1>1, <1>2, <2>1, Typed, UIStep DEF editorVars
<1>3. ASSUME NEW p \in Profile, Saves(p), editor' \in {p, "closed"}, enabled' \in BOOLEAN,
             stack' = stack \/ (stack # <<>> /\ stack' = Tail(stack))
      PROVE  DesktopInv'
  <2>1. Quieter
    BY <1>3, BoxesSame, BoxGone
  <2>2. QED
    BY <1>1, <1>3, <2>1, SavesProfile, UIStep
<1>4. CASE save
  <2>1. \/ /\ UNCHANGED <<listed, selected, editorVars>>
           /\ Show(Box("report", None)) \/ Show(Box("save", None))
        \/ \E p \in Profile : Saves(p) /\ editor' = p /\ UNCHANGED boxVars
    BY <1>4 DEF save
  <2>2. QED
    BY <1>2, <1>3, <2>1, Typed DEF boxVars
<1>5. CASE AnswerSave
  <2>1. stack # <<>>
    BY <1>5 DEF AnswerSave, Top
  <2>2. \/ UNCHANGED <<listed, selected, editorVars>> /\ ReturnAndShow(Box("report", None))
        \/ \E p \in Profile : /\ Saves(p) /\ stack' = Tail(stack) /\ enabled' \in BOOLEAN
                              /\ editor' \in {p, "closed"}
    BY <1>5, Typed DEF AnswerSave
  <2>3. QED
    BY <1>2, <1>3, <2>1, <2>2
<1>6. QED
  BY <1>4, <1>5

\* close, and the answer to its question.
LEMMA CloseSteps ==
    ASSUME DesktopInv, closeEditor \/ \E yes \in BOOLEAN : AnswerChange(yes)
    PROVE  DesktopInv'
<1>1. UNCHANGED <<managerVars, busy, act, agreed, window>>
  BY DEF closeEditor, AnswerChange
<1>2. CASE closeEditor
  <2>1. \/ Show(Box("report", None)) /\ UNCHANGED editor
        \/ Show(Box("change", None)) /\ UNCHANGED editor
        \/ editor' = "closed" /\ enabled' = TRUE /\ UNCHANGED stack
    BY <1>2 DEF closeEditor
  <2>2. Quieter
    BY <2>1, BoxShown, BoxesSame DEF Plain
  <2>3. UNCHANGED <<listed, selected, misfiled>> /\ editor' \in Profile \union {"new", "closed"}
    BY <1>2, <2>1, Typed DEF closeEditor
  <2>4. QED
    BY <1>1, <2>2, <2>3, Typed, UIStep
<1>3. ASSUME NEW yes \in BOOLEAN, AnswerChange(yes) PROVE DesktopInv'
  <2>1. stack # <<>>
    BY <1>3 DEF AnswerChange, Top
  <2>2. CASE /\ UNCHANGED <<listed, selected, editorVars>>
             /\ \/ ReturnAndShow(Box("report", None))
                \/ ReturnAndShow([Box("save", None) EXCEPT !.destroy = TRUE])
    <3>1. Quieter
      BY <2>1, <2>2, BoxShown DEF Plain
    <3>2. QED
      BY <1>1, <2>2, <3>1, Typed, UIStep DEF editorVars
  <2>3. CASE /\ stack' = Tail(stack) /\ editor' = "closed" /\ enabled' = TRUE
             /\ (\E p \in Profile : Saves(p)) \/ UNCHANGED <<listed, selected, misfiled>>
    <3>1. Quieter
      BY <2>1, <2>3, BoxGone
    <3>2. /\ listed' \subseteq Profile /\ selected' \in listed' \union {None}
          /\ \A r \in listed' \ listed : Inactive(r)
          /\ misfiled' \subseteq Profile
      BY <2>3, SavesProfile, Typed
    <3>3. QED
      BY <1>1, <2>3, <3>1, <3>2, UIStep
  <2>4. QED
    BY <1>3, <2>2, <2>3 DEF AnswerChange
<1>4. QED
  BY <1>2, <1>3

\* What only closes a box or shows another one instead.
LEMMA Closes ==
    ASSUME DesktopInv,
           Dismiss \/ AnswerDiscard \/ AnswerFails \/ SecretAcknowledged \/ SessionEnded
    PROVE  DesktopInv'
<1>1. /\ UNCHANGED <<listed, selected, managerVars, busy, act, agreed, misfiled>>
      /\ window' \in {window, "destroyed", "panicked"}
      /\ editor' \in Profile \union {"new", "closed"}
  BY Typed DEF Dismiss, AnswerDiscard, AnswerFails, SecretAcknowledged, SessionEnded, editorVars
<1>2. Quieter
  <2>1. CASE stack # <<>> /\ Return
    BY <2>1, Returned, BoxGone
  <2>2. CASE stack # <<>> /\ ReturnAndShow(Box("report", None))
    BY <2>2, BoxShown DEF Plain
  <2>3. CASE SecretAcknowledged
    BY <2>3, BoxGone DEF SecretAcknowledged, Top
  <2>4. CASE SessionEnded
    BY <2>4, BoxesSame, Typed DEF SessionEnded, boxVars
  <2>5. QED
    BY <2>1, <2>2, <2>3, <2>4 DEF Dismiss, AnswerDiscard, AnswerFails, Top
<1>3. QED
  BY <1>1, <1>2, Typed, UIStep

\* The connection test and the cleaning of the cache, which may start a task.
LEMMA TestsAndClears ==
    ASSUME DesktopInv, testConnection \/ \E kind \in {"clear", "test"} : AnswerTask(kind)
    PROVE  DesktopInv'
<1>1. UNCHANGED <<listed, selected, managerVars, window, editorVars>>
  BY DEF testConnection, AnswerTask
<1>2. Quieter
  <2>1. CASE testConnection
    <3>1. (\E kind \in {"report", "test"} : Show(Box(kind, None))) \/ UNCHANGED boxVars
      BY <2>1 DEF testConnection
    <3>2. QED
      BY <3>1, BoxShown, BoxesSame, Typed DEF Plain, boxVars
  <2>2. CASE \E kind \in {"clear", "test"} : AnswerTask(kind)
    <3>1. stack # <<>> /\ Return
      BY <2>2 DEF AnswerTask, Top
    <3>2. QED
      BY <3>1, Returned, BoxGone
  <2>3. QED
    BY <2>1, <2>2
<1>3. \/ UNCHANGED <<busy, act, agreed>>
      \/ ~busy /\ \E kind \in {"clear", "test"} : Task(kind, {}, FALSE)
  BY DEF testConnection, AnswerTask
<1>4. CASE UNCHANGED <<busy, act, agreed>>
  BY <1>1, <1>2, <1>4, Typed, UIStep DEF editorVars
<1>5. CASE ~busy /\ \E kind \in {"clear", "test"} : Task(kind, {}, FALSE)
  <2>1. PICK kind \in {"clear", "test"} : ~busy /\ Task(kind, {}, FALSE)
    BY <1>5
  <2>2. {} \in SUBSET Profile
    OBVIOUS
  <2>3. QED
    BY <1>1, <1>2, <2>1, <2>2, TaskStarts
<1>6. QED
  BY <1>3, <1>4, <1>5

\* deleteProfile takes the selected profile from the list, or panics.
LEMMA Deletes ==
    ASSUME DesktopInv, AnswerDelete
    PROVE  DesktopInv'
<1>1. /\ stack # <<>> /\ Return
      /\ UNCHANGED <<managerVars, busy, act, agreed, editorVars>>
      /\ window' \in {window, "destroyed", "panicked"}
  BY DEF AnswerDelete, Top
<1>2. /\ listed' \subseteq Profile /\ selected' \in listed' \union {None}
      /\ \A p \in listed' \ listed : Inactive(p)
  BY Typed DEF AnswerDelete
<1>3. Quieter
  BY <1>1, Returned, BoxGone
<1>4. QED
  BY <1>1, <1>2, <1>3, Typed, UIStep DEF editorVars

-----------------------------------------------------------------------------
(* Steps of the UI thread that handle the task's messages.                 *)

\* The task changes, and with it the box that belongs to it.
LEMMA TaskChanges ==
    ASSUME DesktopInv, NEW c \in Act, act' = [act EXCEPT !["task"] = c], c.pc \notin Busying,
           ActOK("task")', ExitOK', ConsentOK', StackOK', stack' \in Seq(BoxType),
           enabled' \in BOOLEAN, busy' \in BOOLEAN, c.kind # "none" => busy',
           agreed' \subseteq Profile, window' \in {window, "destroyed"},
           UNCHANGED <<listed, selected, managerVars, editorVars>>
    PROVE  DesktopInv'
<1>1. /\ act' \in [Actor -> Act] /\ act'["task"] = c
      /\ \A a \in Actor \ {"task"} : act'[a] = act[a]
  BY Typed DEF Actor
<1>2. UNCHANGED <<listed, selected, entries, mounted, editor, misfiled>>
  BY DEF managerVars, editorVars
<1>3. TypeOK'
  BY <1>1, <1>2, Typed DEF TypeOK
<1>4. EntryMatchesMount'
  BY <1>2 DEF DesktopInv, EntryMatchesMount
<1>5. OneAtATime'
  BY <1>1 DEF DesktopInv, OneAtATime, Busying
<1>6. \A a \in Actor : ActOK(a)'
  BY <1>1, <1>2 DEF DesktopInv, ActOK
<1>7. EndOK'
  BY <1>1 DEF DesktopInv, EndOK, Actor
<1>8. QED
  BY <1>1, <1>2, <1>3, <1>4, <1>5, <1>6, <1>7, Typed DEF DesktopInv

\* The task's question is put on the stack, while no other box is a task's.
LEMMA Asks ==
    ASSUME DesktopInv, Ask
    PROVE  DesktopInv'
<1> DEFINE t == act["task"]
           c == [t EXCEPT !.pc = "asked"]
<1>1. "task" \in Actor /\ Does("task", "disconnect", "ask")
  BY DEF Actor, Ask
<1>2. t \in Act /\ t.kind = "disconnect" /\ t.pc = "ask" /\ ActOK("task")
  BY <1>1, Running
<1>3. act' = [act EXCEPT !["task"] = c] /\ act \in [Actor -> Act]
  BY Typed DEF Ask
<1>4. t.cur \in Profile
  BY <1>2 DEF ActOK
<1> HIDE DEF t
<1>5. /\ c \in Act /\ c.pc = "asked" /\ c.kind = t.kind /\ c.cur = t.cur /\ c.exit = t.exit
      /\ c.todo = t.todo /\ c.failed = t.failed /\ c.canceled = t.canceled
  BY <1>2 DEF Act
<1> HIDE DEF c
<1>6. UNCHANGED <<listed, selected, managerVars, busy, agreed, window, editorVars>>
  BY DEF Ask
<1>7. UNCHANGED <<listed, entries, busy, agreed, window>> /\ act'["task"] = c
  BY <1>1, <1>3, <1>6 DEF managerVars
<1>8. \A b \in Boxes(stack) : ~Special(b)
  BY <1>2 DEF DesktopInv, StackOK, BoxOK, OutcomeOK, Special, ActOK, NoAct, t
<1>9. PICK box \in BoxType : /\ stack' = <<box>> \o stack /\ enabled' \in BOOLEAN
                             /\ box.kind = "force" /\ box.p = t.cur
  <2>1. /\ Box("force", t.cur) \in BoxType /\ Box("force", t.cur).kind = "force"
        /\ Box("force", t.cur).p = t.cur
    BY <1>4 DEF Box, BoxType
  <2>2. Opened(Box("force", t.cur), stack, enabled) /\ enabled \in BOOLEAN
    BY Typed DEF Ask, Show, t
  <2>3. QED
    BY <2>1, <2>2, OpenedBox
<1>10. stack' \in Seq(BoxType) /\ Boxes(stack') = {box} \union Boxes(stack) /\ OneSpecial(stack')
  BY <1>8, <1>9, Typed, PushBox
<1>11. StackOK'
  <2>1. ASSUME NEW b \in Boxes(stack') PROVE BoxOK(b)'
    <3>1. CASE b = box
      BY <1>5, <1>7, <1>9, <3>1 DEF BoxOK, OutcomeOK
    <3>2. CASE b # box
      BY <1>8, <1>10, <2>1, <3>2 DEF BoxOK, OutcomeOK, Special
    <3>3. QED
      BY <3>1, <3>2
  <2>2. QED
    BY <1>10, <2>1 DEF StackOK
<1>12. ActOK("task")'
  BY <1>2, <1>5, <1>7 DEF ActOK, t
<1>13. ExitOK'
  <2>1. ExitOK
    BY DEF DesktopInv
  <2>2. QED
    BY <1>5, <1>7, <2>1 DEF ExitOK, Inactive, t
<1>14. ConsentOK'
  BY <1>5, <1>7 DEF ConsentOK
<1>15. c.kind # "none" => busy'
  BY <1>2, <1>5, <1>7 DEF DesktopInv, t
<1>16. c.pc \notin Busying
  BY <1>5 DEF Busying
<1>17. busy' \in BOOLEAN /\ agreed' \subseteq Profile /\ window' \in {window, "destroyed"}
  BY <1>7, Typed
<1>18. QED
  BY <1>3, <1>5, <1>6, <1>9, <1>10, <1>11, <1>12, <1>13, <1>14, <1>15, <1>16, <1>17, TaskChanges

\* The user's answer, for the profile the box and the task are at.
LEMMA AnswersForce ==
    ASSUME DesktopInv, NEW yes \in BOOLEAN, AnswerForce(yes)
    PROVE  DesktopInv'
<1> DEFINE t == act["task"]
           p == Head(stack).p
<1>1. /\ stack # <<>> /\ Head(stack).kind = "force" /\ Return /\ window = "open"
      /\ "task" \in Actor /\ act \in [Actor -> Act] /\ t \in Act
  BY Typed DEF AnswerForce, Top, Actor
<1>2. /\ Tail(stack) \in Seq(BoxType) /\ Head(stack) \in Boxes(stack)
      /\ Boxes(Tail(stack)) \subseteq Boxes(stack) /\ OneSpecial(Tail(stack))
      /\ \A b \in Boxes(Tail(stack)) : ~Special(b)
  BY <1>1, Typed, PopBox DEF Special
<1>3. t.pc = "asked" /\ t.cur = p
  BY <1>1, <1>2 DEF DesktopInv, StackOK, BoxOK, OutcomeOK
<1>4. ActOK("task") /\ ExitOK
  BY <1>1 DEF DesktopInv
<1>5. p \in Profile /\ p \in t.todo /\ t.kind = "disconnect"
  BY <1>3, <1>4 DEF ActOK
<1>6. stack' = Tail(stack) /\ enabled' \in BOOLEAN
  BY <1>1, Returned
<1>7. UNCHANGED <<listed, selected, managerVars, busy, window, editorVars>>
  BY DEF AnswerForce
<1>8. UNCHANGED <<listed, entries, busy, window>>
  BY <1>7 DEF managerVars
<1>9. StackOK'
  BY <1>2, <1>6 DEF StackOK, BoxOK, OutcomeOK, Special
<1>10. busy' /\ busy' \in BOOLEAN /\ window' \in {window, "destroyed"}
  BY <1>5, <1>8, Typed DEF DesktopInv
<1>11. \/ /\ act' = [act EXCEPT !["task"].pc = "force"] /\ agreed' = agreed \union {p}
       \/ /\ act' = [Past("task", p) EXCEPT !["task"].canceled = TRUE] /\ agreed' = agreed
  BY DEF AnswerForce
<1> HIDE DEF p
<1>12. CASE act' = [act EXCEPT !["task"].pc = "force"] /\ agreed' = agreed \union {p}
  <2> DEFINE c == [t EXCEPT !.pc = "force"]
  <2>1. act' = [act EXCEPT !["task"] = c]
    BY <1>12
  <2> HIDE DEF t
  <2>2. /\ c \in Act /\ c.pc = "force" /\ c.kind = t.kind /\ c.cur = t.cur /\ c.exit = t.exit
        /\ c.todo = t.todo /\ c.failed = t.failed /\ c.canceled = t.canceled
    BY <1>1 DEF Act
  <2> HIDE DEF c
  <2>3. act'["task"] = c /\ agreed' \subseteq Profile
    BY <1>1, <1>5, <1>12, <2>1, Typed
  <2>4. ActOK("task")'
    BY <1>3, <1>5, <2>2, <2>3 DEF ActOK
  <2>5. ExitOK'
    BY <1>4, <1>8, <2>2, <2>3 DEF ExitOK, Inactive, t
  <2>6. ConsentOK'
    <3>1. act'["task"].cur = p /\ p \in agreed'
      BY <1>3, <1>12, <2>2, <2>3
    <3>2. QED
      BY <3>1 DEF ConsentOK
  <2>7. c.pc \notin Busying
    BY <2>2 DEF Busying
  <2>8. QED
    BY <1>2, <1>6, <1>7, <1>9, <1>10, <2>1, <2>2, <2>3, <2>4, <2>5, <2>6, <2>7, TaskChanges
<1>13. CASE act' = [Past("task", p) EXCEPT !["task"].canceled = TRUE] /\ agreed' = agreed
  <2>1. PICK c \in Act : /\ act' = [act EXCEPT !["task"] = c] /\ c.pc = "next"
                         /\ c.kind = t.kind /\ c.exit = t.exit /\ c.canceled
    BY <1>1, <1>5, <1>13, CanceledIs
  <2> HIDE DEF t
  <2>2. act'["task"] = c /\ agreed' \subseteq Profile
    BY <1>1, <1>13, <2>1, Typed
  <2>3. ActOK("task")'
    BY <1>5, <2>1, <2>2 DEF ActOK
  <2>4. ExitOK' /\ ConsentOK'
    BY <1>5, <2>1, <2>2 DEF ExitOK, ConsentOK
  <2>5. c.pc \notin Busying
    BY <2>1 DEF Busying
  <2>6. QED
    BY <1>2, <1>6, <1>7, <1>9, <1>10, <2>1, <2>2, <2>3, <2>4, <2>5, TaskChanges
<1>14. QED
  BY <1>11, <1>12, <1>13

\* While a task is finished no box belongs to one, and an exit without a failure
\* has detached every listed profile.
LEMMA Finished ==
    ASSUME DesktopInv, act["task"].pc = "finished"
    PROVE  /\ act["task"].kind # "none" /\ busy
           /\ \A b \in Boxes(stack) : ~Special(b)
           /\ window = "open" /\ act["task"].exit
                /\ ~act["task"].failed /\ ~act["task"].canceled => \A p \in listed : Inactive(p)
<1>1. ActOK("task") /\ ExitOK /\ "task" \in Actor
  BY DEF DesktopInv, Actor
<1>2. act["task"].kind # "none" /\ act["task"].todo = {}
  BY <1>1 DEF ActOK, NoAct
<1>3. \A b \in Boxes(stack) : ~Special(b)
  BY <1>2 DEF DesktopInv, StackOK, BoxOK, OutcomeOK, Special
<1>4. busy
  BY <1>2 DEF DesktopInv
<1>5. QED
  BY <1>1, <1>2, <1>3, <1>4 DEF ExitOK

\* An outcome is put on a stack that has no box of a task.
LEMMA OutcomeShown ==
    ASSUME NEW s \in Seq(BoxType), \A b \in Boxes(s) : ~Special(b),
           NEW box \in BoxType, box.kind \in {"done", "failed"},
           NEW now \in BOOLEAN, Opened(box, s, now),
           act'["task"].kind = "none", busy' = TRUE,
           box.destroy => \A p \in listed' : entries'[p] = "none"
    PROVE  StackOK' /\ stack' \in Seq(BoxType) /\ enabled' \in BOOLEAN
<1>1. PICK b \in BoxType : /\ stack' = <<b>> \o s /\ b.kind \in {"done", "failed"}
                           /\ b.destroy = box.destroy /\ enabled' \in BOOLEAN
  BY OpenedBox
<1>2. stack' \in Seq(BoxType) /\ Boxes(stack') = {b} \union Boxes(s) /\ OneSpecial(stack')
  BY <1>1, PushBox
<1>3. BoxOK(b)'
  BY <1>1 DEF BoxOK, OutcomeOK, Inactive
<1>4. \A c \in Boxes(s) : BoxOK(c)'
  BY DEF BoxOK, Special
<1>5. QED
  BY <1>1, <1>2, <1>3, <1>4 DEF StackOK

\* wmTaskDone: the task is gone, and its outcome is on show or over.
LEMMA TaskIsDone ==
    ASSUME DesktopInv, TaskDone
    PROVE  DesktopInv'
<1> DEFINE t == act["task"]
           gone == t.exit /\ ~t.failed /\ ~t.canceled
<1>1. /\ window = "open" /\ t.pc = "finished" /\ act' = [act EXCEPT !["task"] = NoAct]
      /\ UNCHANGED <<listed, selected, managerVars, agreed, editorVars>>
  BY DEF TaskDone
<1>2. /\ \A b \in Boxes(stack) : ~Special(b)
      /\ gone => \A p \in listed : Inactive(p)
  BY <1>1, Finished
<1>3. /\ "task" \in Actor /\ act \in [Actor -> Act] /\ stack \in Seq(BoxType)
      /\ OneSpecial(stack) /\ enabled \in BOOLEAN /\ NoAct \in Act /\ gone \in BOOLEAN
  BY Typed DEF Actor, Act, NoAct
<1>4. act'["task"] = NoAct
  BY <1>1, <1>3
<1>5. /\ NoAct.kind = "none" /\ NoAct.pc = "next" /\ NoAct.exit = FALSE /\ NoAct.todo = {}
      /\ NoAct.pc \notin Busying
  BY DEF NoAct, Busying
<1>6. ActOK("task")' /\ ExitOK' /\ ConsentOK'
  BY <1>4, <1>5 DEF ActOK, ExitOK, ConsentOK
<1>7. agreed' \subseteq Profile
  BY <1>1, Typed
<1>8. \/ /\ \E n \in Outcomes(t) \ {0} : Show(Outcome(t, n))
         /\ busy' = TRUE /\ UNCHANGED window
      \/ busy' = FALSE /\ window' \in {window, "destroyed"} /\ UNCHANGED boxVars
      \/ busy' = FALSE /\ UNCHANGED window /\ Show(Box("report", None))
  BY DEF TaskDone
<1>9. ASSUME Quieter, busy' = FALSE, window' \in {window, "destroyed"} PROVE DesktopInv'
  <2>1. StackOK'
    BY <1>2, <1>9 DEF Quieter, StackOK, BoxOK, OutcomeOK, Special
  <2>2. stack' \in Seq(BoxType) /\ enabled' \in BOOLEAN /\ busy' \in BOOLEAN
    BY <1>9 DEF Quieter
  <2>3. QED
    BY <1>1, <1>3, <1>5, <1>6, <1>7, <1>9, <2>1, <2>2, TaskChanges
<1>10. CASE (\E n \in Outcomes(t) \ {0} : Show(Outcome(t, n))) /\ busy' = TRUE /\ UNCHANGED window
  <2>1. PICK n \in Outcomes(t) \ {0} : Show(Outcome(t, n))
    BY <1>10
  <2> DEFINE box == Outcome(t, n)
  <2>2. n - 1 \in Nat
    <3>1. n \in Nat /\ n # 0
      BY <2>1 DEF Outcomes
    <3>2. QED
      BY <3>1
  <2>3. box \in BoxType /\ box.kind \in {"done", "failed"} /\ box.destroy = gone
    BY <1>3, <2>2 DEF Outcome, Leaves, Box, BoxType
  <2> HIDE DEF gone, box
  <2>4. Opened(box, stack, enabled) /\ act'["task"].kind = "none"
    BY <1>4, <1>5, <2>1 DEF Show, box
  <2>5. box.destroy => \A p \in listed' : entries'[p] = "none"
    BY <1>1, <1>2, <2>3 DEF managerVars, Inactive
  <2>6. StackOK' /\ stack' \in Seq(BoxType) /\ enabled' \in BOOLEAN
    BY <1>2, <1>3, <1>10, <2>3, <2>4, <2>5, OutcomeShown
  <2>7. busy' \in BOOLEAN /\ window' \in {window, "destroyed"}
    BY <1>10
  <2>8. QED
    BY <1>1, <1>3, <1>5, <1>6, <1>7, <2>6, <2>7, TaskChanges
<1>11. CASE busy' = FALSE /\ window' \in {window, "destroyed"} /\ UNCHANGED boxVars
  <2>1. Quieter
    BY <1>3, <1>11, SameQuiet DEF boxVars
  <2>2. QED
    BY <1>9, <1>11, <2>1
<1>12. CASE busy' = FALSE /\ UNCHANGED window /\ Show(Box("report", None))
  <2>1. Quieter
    BY <1>12, BoxShown DEF Plain
  <2>2. QED
    BY <1>9, <1>12, <2>1
<1>13. QED
  BY <1>8, <1>10, <1>11, <1>12

\* The outcome is acknowledged: it was the only box of a task.
LEMMA AnswersDone ==
    ASSUME DesktopInv, AnswerDone
    PROVE  DesktopInv'
<1> DEFINE c == act["task"]
           box == Head(stack)
           next == [box EXCEPT !.kind = "done", !.more = @ - 1]
<1>1. /\ stack # <<>> /\ (box.kind = "done" \/ box.kind = "failed")
      /\ UNCHANGED <<listed, selected, managerVars, act, agreed, editorVars>>
  BY DEF AnswerDone, Top
<1>2. /\ Tail(stack) \in Seq(BoxType) /\ box \in BoxType /\ box \in Boxes(stack)
      /\ OneSpecial(Tail(stack)) /\ \A b \in Boxes(Tail(stack)) : ~Special(b)
  BY <1>1, Typed, PopBox DEF Special
<1>3. c.kind = "none" /\ busy /\ (box.destroy => \A p \in listed : Inactive(p))
  <2>1. BoxOK(box)
    BY <1>2 DEF DesktopInv, StackOK
  <2>2. QED
    BY <1>1, <2>1 DEF BoxOK, OutcomeOK
<1>4. c = NoAct /\ c \in Act
  BY <1>3, Typed DEF DesktopInv, ActOK, Actor
<1>5. act' = [act EXCEPT !["task"] = c] /\ act' = act
  BY <1>1, Typed
<1>6. /\ NoAct.kind = "none" /\ NoAct.pc = "next" /\ NoAct.exit = FALSE
      /\ NoAct.pc \notin Busying
  BY DEF NoAct, Busying
<1>7. ActOK("task")' /\ ExitOK' /\ ConsentOK'
  BY <1>4, <1>5, <1>6 DEF ActOK, ExitOK, ConsentOK
<1>8. /\ StackOK' /\ stack' \in Seq(BoxType) /\ enabled' \in BOOLEAN
      /\ busy' \in BOOLEAN /\ window' \in {window, "destroyed"}
  <2>1. CASE Return /\ busy' = FALSE /\ window' \in {window, "destroyed"}
    <3>1. stack' = Tail(stack) /\ enabled' \in BOOLEAN
      BY <2>1, Returned
    <3>2. StackOK'
      BY <1>2, <3>1 DEF StackOK, BoxOK, Special
    <3>3. QED
      BY <1>2, <2>1, <3>1, <3>2
  <2>2. CASE box.more > 0 /\ ReturnAndShow(next) /\ UNCHANGED <<busy, window>>
    <3>1. box.more - 1 \in Nat
      BY <1>2, <2>2 DEF BoxType
    <3>2. next \in BoxType /\ next.kind = "done" /\ next.destroy = box.destroy
      BY <1>2, <3>1 DEF BoxType
    <3> HIDE DEF next
    <3>3. Opened(next, Tail(stack), AfterTop) /\ AfterTop \in BOOLEAN
      BY <2>2, Typed DEF ReturnAndShow, AfterTop
    <3>4. next.destroy => \A p \in listed' : entries'[p] = "none"
      BY <1>1, <1>3, <3>2 DEF managerVars, Inactive
    <3>5. act'["task"].kind = "none" /\ busy' = TRUE
      BY <1>3, <1>5, <2>2, Typed
    <3>6. StackOK' /\ stack' \in Seq(BoxType) /\ enabled' \in BOOLEAN
      BY <1>2, <3>2, <3>3, <3>4, <3>5, OutcomeShown
    <3>7. QED
      BY <2>2, <3>5, <3>6
  <2>3. QED
    BY <2>1, <2>2 DEF AnswerDone
<1>9. agreed' \subseteq Profile /\ (c.kind # "none" => busy') /\ c.pc \notin Busying
  BY <1>1, <1>3, <1>4, <1>6, Typed
<1> HIDE DEF c
<1>10. QED
  BY <1>1, <1>4, <1>5, <1>7, <1>8, <1>9, TaskChanges

\* The end of the Windows session: the second goroutine begins.
LEMMA EndsSession ==
    ASSUME DesktopInv, EndSession
    PROVE  DesktopInv'
<1> DEFINE c == [NoAct EXCEPT !.kind = "disconnect", !.todo = listed]
<1>1. /\ window = "open" /\ window' = "ending" /\ act' = [act EXCEPT !["end"] = c]
      /\ stack' = <<>> /\ enabled' = FALSE /\ editor' = "closed" /\ selected' = None
      /\ UNCHANGED <<listed, entries, mounted, busy, misfiled, agreed>>
  BY DEF EndSession, managerVars
<1>2. c \in Act /\ c.kind = "disconnect" /\ c.pc = "next"
  BY Typed DEF NoAct, Act
<1> HIDE DEF c
<1>3. /\ act' \in [Actor -> Act] /\ act'["end"] = c /\ act'["task"] = act["task"]
      /\ \A a \in Actor \ {"end"} : act'[a] = act[a]
  BY <1>1, <1>2, Typed DEF Actor
<1>4. stack' \in Seq(BoxType) /\ DOMAIN stack' = {}
  BY <1>1
<1>5. TypeOK'
  BY <1>1, <1>3, <1>4, Typed DEF TypeOK
<1>6. EntryMatchesMount' /\ OneAtATime'
  BY <1>1, <1>2, <1>3 DEF DesktopInv, EntryMatchesMount, OneAtATime
<1>7. \A a \in Actor : ActOK(a)'
  BY <1>1, <1>2, <1>3 DEF DesktopInv, ActOK
<1>8. EndOK'
  BY <1>1, <1>2, <1>3 DEF EndOK
<1>9. ExitOK' /\ ConsentOK'
  BY <1>1, <1>3 DEF DesktopInv, ExitOK, ConsentOK
<1>10. StackOK'
  BY <1>4 DEF StackOK, OneSpecial, Boxes
<1>11. QED
  BY <1>1, <1>3, <1>5, <1>6, <1>7, <1>8, <1>9, <1>10 DEF DesktopInv

-----------------------------------------------------------------------------
(* The invariant and the properties.                                       *)

\* Every command, answer, message and step of a goroutine keeps the invariant.
LEMMA DesktopStep == DesktopInv /\ [Next]_vars => DesktopInv'
<1> SUFFICES ASSUME DesktopInv, [Next]_vars PROVE DesktopInv'
  OBVIOUS
<1>1. CASE \E p \in Profile : ConnectSkip(p) \/ ConnectStart(p) \/ Toggle(p) \/ Select(p)
  BY <1>1, ConnectSkips, ConnectStarts, Toggles, Opens
<1>2. CASE ConnectEnd
  BY <1>2, ConnectEnds
<1>3. CASE \E a \in Actor : \/ \E p \in Profile : DisconnectStart(a, p)
                          \/ DisconnectEnd(a) \/ ForceStart(a) \/ ForceEnd(a) \/ Finish(a)
  BY <1>3, DisconnectStarts, DisconnectEnds, ForceStarts, ForceEnds, Finishes
<1>4. CASE connectAll \/ \E exit \in BOOLEAN : disconnectAll(exit)
  BY <1>4, StartsAll
<1>5. CASE clearCache \/ deleteProfile \/ cancelEditorChanges
  BY <1>5, Shows
<1>6. CASE newProfile \/ editProfile
  BY <1>6, Opens
<1>7. CASE save \/ AnswerSave
  BY <1>7, SaveSteps
<1>8. CASE closeEditor \/ \E yes \in BOOLEAN : AnswerChange(yes)
  BY <1>8, CloseSteps
<1>9. CASE testConnection \/ \E kind \in {"clear", "test"} : AnswerTask(kind)
  BY <1>9, TestsAndClears
<1>10. CASE Ask
  BY <1>10, Asks
<1>11. CASE TaskDone
  BY <1>11, TaskIsDone
<1>12. CASE Dismiss \/ AnswerDiscard \/ AnswerFails \/ SecretAcknowledged \/ SessionEnded
  BY <1>12, Closes
<1>13. CASE AnswerDone
  BY <1>13, AnswersDone
<1>14. CASE AnswerDelete
  BY <1>14, Deletes
<1>15. CASE \E yes \in BOOLEAN : AnswerForce(yes)
  BY <1>15, AnswersForce
<1>16. CASE EndSession
  BY <1>16, EndsSession
<1>17. CASE UNCHANGED vars
  <2>1. UNCHANGED <<listed, selected, managerVars, busy, act, agreed, window, stack, enabled,
                    editor, misfiled>>
    BY <1>17 DEF vars, boxVars, editorVars
  <2>2. Quieter
    BY <2>1, Typed, SameQuiet
  <2>3. QED
    BY <2>1, <2>2, Typed, UIStep
<1>18. QED
  BY <1>1, <1>2, <1>3, <1>4, <1>5, <1>6, <1>7, <1>8, <1>9, <1>10, <1>11, <1>12, <1>13, <1>14,
     <1>15, <1>16, <1>17 DEF Next

\* The invariant holds in every reachable state.
THEOREM DesktopInvariant == Spec => []DesktopInv
<1>1. QED
  BY DesktopInit, DesktopStep, PTL DEF Spec

\* Every variable of the window, the manager and the two goroutines holds a value
\* of its kind, whatever commands and answers come while boxes are open.
THEOREM DesktopTypeCorrect == Spec => []TypeOK
<1>1. DesktopInv => TypeOK
  BY DEF DesktopInv
<1>2. QED
  BY <1>1, DesktopInvariant, PTL

\* Manager: a drive is mounted exactly while its entry says connected or
\* disconnecting, for the task and the session-end goroutine in any order.
THEOREM EntriesMatchMounts == Spec => []EntryMatchesMount
<1>1. DesktopInv => EntryMatchesMount
  BY DEF DesktopInv
<1>2. QED
  BY <1>1, DesktopInvariant, PTL

\* Manager.disconnect: no session is mounted, closed or force-closed by the task
\* and the session-end goroutine at once.
THEOREM NoTwoAtOnce == Spec => []OneAtATime
<1>1. DesktopInv => OneAtATime
  BY DEF DesktopInv
<1>2. QED
  BY <1>1, DesktopInvariant, PTL

\* w.task: busy stays set while a task exists or its question or outcome is on
\* show, however many boxes other commands have put on top.
THEOREM BusyThroughTask == Spec => []BusyWhileTask
<1>1. DesktopInv => BusyWhileTask
  <2> SUFFICES ASSUME DesktopInv,
                      \/ act["task"].kind # "none"
                      \/ \E i \in DOMAIN stack : stack[i].kind \in {"done", "failed", "force"}
               PROVE  busy
    BY DEF BusyWhileTask
  <2>1. CASE act["task"].kind # "none"
    BY <2>1 DEF DesktopInv
  <2>2. ASSUME NEW i \in DOMAIN stack, stack[i].kind \in {"done", "failed", "force"} PROVE busy
    <3>1. BoxOK(stack[i])
      BY DEF DesktopInv, StackOK, Boxes
    <3>2. CASE stack[i].kind = "done" \/ stack[i].kind = "failed"
      BY <3>1, <3>2 DEF BoxOK, OutcomeOK
    <3>3. CASE stack[i].kind = "force"
      <4>1. act["task"].pc = "asked" /\ ActOK("task")
        BY <3>1, <3>3 DEF BoxOK, OutcomeOK, DesktopInv, Actor
      <4>2. act["task"].kind # "none"
        BY <4>1 DEF ActOK
      <4>3. QED
        BY <4>2 DEF DesktopInv
    <3>4. QED
      BY <2>2, <3>2, <3>3
  <2>3. QED
    BY <2>1, <2>2
<1>2. QED
  BY <1>1, DesktopInvariant, PTL

\* disconnectProfiles: a drive the task forces off is one whose forced detach the
\* user agreed to during this very task.
THEOREM NothingForcedUnasked == Spec => []ForceWithConsent
<1>1. DesktopInv => ForceWithConsent
  BY DEF DesktopInv, ConsentOK, ForceWithConsent
<1>2. QED
  BY <1>1, DesktopInvariant, PTL

\* exit: only a finished exit, with nothing failed or declined, and the answer to
\* its outcome end the window; every listed drive is detached then.
THEOREM ExitLeavesNothing == Spec => ExitDetached
<1>1. DesktopInv /\ [Next]_vars
        => [window = "open" /\ window' = "destroyed" => mounted' \intersect listed' = {}]_vars
  <2> SUFFICES ASSUME DesktopInv, Next, window = "open", window' = "destroyed"
               PROVE  mounted' \intersect listed' = {}
    BY DEF vars
  <2>1. TaskDone \/ AnswerDone
    BY DEF Next, ConnectSkip, ConnectStart, Toggle, Select, ConnectEnd, DisconnectStart,
           DisconnectEnd, ForceStart, ForceEnd, Finish, connectAll, clearCache, deleteProfile,
           newProfile, editProfile, showProfileEditor, SecretAcknowledged, disconnectAll, save, closeEditor,
           cancelEditorChanges, testConnection, Ask, Dismiss, AnswerDelete, AnswerFails,
           AnswerSave, AnswerDiscard, AnswerTask, AnswerForce, AnswerChange, EndSession,
           SessionEnded
  <2>2. \A p \in listed : Inactive(p)
    <3>1. CASE TaskDone
      <4>1. /\ act["task"].pc = "finished" /\ act["task"].exit
            /\ ~act["task"].failed /\ ~act["task"].canceled
        BY <3>1 DEF TaskDone, Leaves
      <4>2. QED
        BY <4>1, Finished
    <3>2. CASE AnswerDone
      <4>1. /\ stack # <<>> /\ Head(stack).destroy
            /\ Head(stack).kind = "done" \/ Head(stack).kind = "failed"
        BY <3>2 DEF AnswerDone, Top
      <4>2. Head(stack) \in Boxes(stack)
        BY <4>1, Typed, PopBox
      <4>3. QED
        BY <4>1, <4>2 DEF DesktopInv, StackOK, BoxOK, OutcomeOK
    <3>3. QED
      BY <2>1, <3>1, <3>2
  <2>3. UNCHANGED <<listed, mounted>>
    BY <2>1 DEF TaskDone, AnswerDone, managerVars
  <2>4. QED
    BY <2>2, <2>3, Typed DEF DesktopInv, EntryMatchesMount, Inactive
<1>2. QED
  BY <1>1, DesktopInvariant, PTL DEF Spec, ExitDetached
====
