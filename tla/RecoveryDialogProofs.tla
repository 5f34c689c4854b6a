---- MODULE RecoveryDialogProofs ----
(***************************************************************************)
(* Proofs about RecoveryDialog, for every set of recovery items, every     *)
(* number of alternate names and any number of nested message boxes.       *)
(***************************************************************************)
EXTENDS RecoveryDialog, FiniteSetTheorems, TLAPS

-----------------------------------------------------------------------------
(* The inductive invariant.                                                *)

Boxes(s) == {s[i] : i \in DOMAIN s}

\* A question whether to retry or to overwrite names what it asks about.
BoxOK(b) ==
    /\ b.kind = "retry" => b.item \in File
    /\ b.kind = "conflict" => b.target \in Target

\* The question whether to retry is asked while no box is open: it is the
\* outermost of the open boxes.
StackOK(s) ==
    /\ s \in Seq(BoxType)
    /\ \A i \in DOMAIN s : BoxOK(s[i]) /\ (s[i].kind = "retry" => i = Len(s))

\* While that question is open no retry runs, and none has ended in a conflict
\* that is still to be answered: its answer, which clears the record of what may
\* be overwritten, cannot take a consent away from a retry under way.
QuestionOK ==
    \A b \in Boxes(boxes) : b.kind = "retry" =>
        ~busy /\ \A c \in Boxes(boxes) : c.kind # "conflict"

\* A retry that does not look at the target was told to overwrite it.
RetryOK ==
    /\ retry.pc # "none" => retry.item \in File /\ retry.target \in Target
    /\ retry.pc = "open" => retry.inspect \/ retry.target \in agreed

DialogInv ==
    /\ TypeOK /\ RetryIsOwned /\ NoBlindOverwrite
    /\ RetryOK /\ StackOK(boxes) /\ QuestionOK
    /\ boxes # <<>> => shown

-----------------------------------------------------------------------------
(* The list of the dialog.                                                 *)

\* dialog.items[i]: an index in range has an item. The number of smaller items
\* is an injection of the items into the indices, of which there are as many.
LEMMA NthInList ==
    ASSUME NEW S \in SUBSET File, NEW i \in Int, InRange(i, S)
    PROVE  Nth(S, i) \in S
<1> DEFINE n == Cardinality(S)
           Below(x) == {e \in S : e < x}
           rank == [x \in S |-> Cardinality(Below(x))]
<1>1. S \subseteq Nat /\ IsFiniteSet(S) /\ n \in Nat
  BY RecoveryConstants, FS_Subset, FS_CardinalityType
<1>2. ASSUME NEW x \in S
      PROVE  /\ IsFiniteSet(Below(x)) /\ Cardinality(Below(x)) \in 0..(n - 1)
  <2>1. Below(x) \in SUBSET S /\ Below(x) # S
    BY <1>1
  <2>2. IsFiniteSet(Below(x)) /\ Cardinality(Below(x)) <= n /\ Cardinality(Below(x)) # n
    BY <1>1, <2>1, FS_Subset
  <2>3. Cardinality(Below(x)) \in Nat
    BY <2>2, FS_CardinalityType
  <2>4. QED
    BY <1>1, <2>2, <2>3
<1>3. ASSUME NEW x \in S, NEW y \in S, x < y
      PROVE  Cardinality(Below(x)) < Cardinality(Below(y))
  <2>1. Below(x) \in SUBSET Below(y) /\ Below(x) # Below(y)
    <3>1. \A e \in S : e < x => e < y
      BY <1>1, <1>3
    <3>2. x \in Below(y) /\ x \notin Below(x)
      BY <1>1, <1>3
    <3>3. QED
      BY <3>1, <3>2
  <2>2. IsFiniteSet(Below(y)) /\ Cardinality(Below(x)) \in Nat /\ Cardinality(Below(y)) \in Nat
    BY <1>1, <1>2
  <2>3. Cardinality(Below(x)) <= Cardinality(Below(y)) /\ Cardinality(Below(x)) # Cardinality(Below(y))
    BY <2>1, <2>2, FS_Subset
  <2>4. QED
    BY <2>2, <2>3
<1>4. /\ rank \in [S -> 0..(n - 1)]
      /\ \A x \in S : rank[x] = Cardinality(Below(x)) /\ rank[x] \in Nat
  BY <1>2
<1>5. \A x, y \in S : x < y => rank[x] < rank[y]
  BY <1>3, <1>4
<1> HIDE DEF rank
<1>6. \A x, y \in S : rank[x] = rank[y] => x = y
  BY <1>1, <1>4, <1>5
<1>7. rank \in Injection(S, 0..(n - 1))
  BY <1>4, <1>6 DEF Injection, IsInjective
<1>8. IsFiniteSet(0..(n - 1)) /\ Cardinality(0..(n - 1)) = n
  <2> HIDE DEF n
  <2>1. n \in Nat /\ 0 \in Int /\ n - 1 \in Int
    BY <1>1
  <2>2. /\ IsFiniteSet(0..(n - 1))
        /\ Cardinality(0..(n - 1)) = IF 0 > n - 1 THEN 0 ELSE (n - 1) - 0 + 1
    BY <2>1, FS_Interval
  <2>3. QED
    BY <2>1, <2>2
<1>9. rank \in Surjection(S, 0..(n - 1))
  BY <1>1, <1>7, <1>8, FS_Injection
<1>10. i \in 0..(n - 1)
  BY <1>1 DEF InRange
<1>11. \E x \in S : rank[x] = i
  BY <1>9, <1>10 DEF Surjection
<1>12. \E x \in S : Cardinality({e \in S : e < x}) = i
  BY <1>4, <1>11
<1>13. QED
  BY <1>12 DEF Nth

-----------------------------------------------------------------------------
(* The stack of message boxes.                                             *)

\* The box that only informs is sound.
LEMMA NoteOK == Note \in BoxType /\ BoxOK(Note) /\ Note.kind = "note"
BY DEF Note, Box, BoxType, BoxOK

\* No box is open.
LEMMA NoBoxes == StackOK(<<>>) /\ Boxes(<<>>) = {}
BY DEF StackOK, Boxes

\* A box is put on top of the others.
LEMMA PushBox ==
    ASSUME NEW s, StackOK(s), NEW box \in BoxType, BoxOK(box), box.kind # "retry" \/ s = <<>>
    PROVE  StackOK(<<box>> \o s) /\ Boxes(<<box>> \o s) = {box} \union Boxes(s)
<1> DEFINE t == <<box>> \o s
<1>1. s \in Seq(BoxType)
  BY DEF StackOK
<1>2. t \in Seq(BoxType) /\ Len(t) = Len(s) + 1 /\ Len(s) \in Nat /\ t[1] = box
  BY <1>1
<1>3. \A i \in DOMAIN t \ {1} : i - 1 \in DOMAIN s /\ t[i] = s[i - 1]
  BY <1>1
<1>4. \A i \in DOMAIN s : i + 1 \in DOMAIN t /\ t[i + 1] = s[i] /\ i \in Nat
  BY <1>1
<1>5. 1 \in DOMAIN t /\ DOMAIN t \subseteq Nat
  BY <1>2
<1>6. s = <<>> => Len(s) = 0
  OBVIOUS
<1> HIDE DEF t
<1>7. ASSUME NEW i \in DOMAIN t PROVE BoxOK(t[i]) /\ (t[i].kind = "retry" => i = Len(t))
  <2>1. CASE i = 1
    BY <1>2, <1>6, <2>1
  <2>2. CASE i # 1
    <3>1. i - 1 \in DOMAIN s /\ t[i] = s[i - 1]
      BY <1>3, <1>7, <2>2
    <3>2. BoxOK(t[i]) /\ (t[i].kind = "retry" => i - 1 = Len(s))
      BY <3>1 DEF StackOK
    <3>3. QED
      BY <1>2, <1>5, <1>7, <3>2
  <2>3. QED
    BY <2>1, <2>2
<1>8. Boxes(t) = {box} \union Boxes(s)
  <2>1. ASSUME NEW i \in DOMAIN t PROVE t[i] \in {box} \union Boxes(s)
    BY <1>2, <1>3 DEF Boxes
  <2>2. box \in Boxes(t)
    BY <1>2, <1>5 DEF Boxes
  <2>3. ASSUME NEW i \in DOMAIN s PROVE s[i] \in Boxes(t)
    BY <1>4 DEF Boxes
  <2>4. QED
    BY <2>1, <2>2, <2>3 DEF Boxes
<1>9. QED
  BY <1>2, <1>7, <1>8 DEF StackOK, t

\* The only box there is.
LEMMA OneBox ==
    ASSUME NEW box \in BoxType, BoxOK(box)
    PROVE  StackOK(<<box>>) /\ Boxes(<<box>>) = {box} \union Boxes(<<>>)
<1>1. DOMAIN <<box>> = {1} /\ <<box>>[1] = box /\ Len(<<box>>) = 1 /\ <<box>> \in Seq(BoxType)
  OBVIOUS
<1>2. StackOK(<<box>>)
  BY <1>1 DEF StackOK
<1>3. Boxes(<<box>>) = {box}
  BY <1>1 DEF Boxes
<1>4. QED
  BY <1>2, <1>3, NoBoxes

\* The box on top is answered.
LEMMA PopBox ==
    ASSUME NEW s, StackOK(s), s # <<>>
    PROVE  /\ StackOK(Tail(s)) /\ Boxes(Tail(s)) \subseteq Boxes(s)
           /\ Head(s) \in Boxes(s) /\ Head(s) \in BoxType /\ BoxOK(Head(s))
           /\ Head(s).kind = "retry" => Tail(s) = <<>>
<1> DEFINE t == Tail(s)
<1>1. s \in Seq(BoxType)
  BY DEF StackOK
<1>2. t \in Seq(BoxType) /\ Head(s) = s[1] /\ 1 \in DOMAIN s /\ Head(s) \in BoxType
  BY <1>1
<1>3. Len(s) \in Nat \ {0} /\ Len(t) = Len(s) - 1 /\ (Len(t) = 0 => t = <<>>)
  BY <1>1
<1>4. \A i \in DOMAIN t : i + 1 \in DOMAIN s /\ t[i] = s[i + 1] /\ i \in Nat \ {0}
  BY <1>1
<1> HIDE DEF t
<1>5. Boxes(t) \subseteq Boxes(s) /\ Head(s) \in Boxes(s)
  BY <1>2, <1>4 DEF Boxes
<1>6. BoxOK(Head(s)) /\ (Head(s).kind = "retry" => t = <<>>)
  BY <1>2, <1>3 DEF StackOK
<1>7. ASSUME NEW i \in DOMAIN t PROVE BoxOK(t[i]) /\ (t[i].kind = "retry" => i = Len(t))
  BY <1>3, <1>4, <1>7 DEF StackOK
<1>8. QED
  BY <1>2, <1>5, <1>6, <1>7 DEF StackOK, t

\* A stack with no box, or with a note on top of it.
LEMMA MaybeNote ==
    ASSUME NEW s, StackOK(s), NEW then \in {<<>>, <<Note>>}
    PROVE  StackOK(then \o s) /\ Boxes(then \o s) \subseteq Boxes(s) \union {Note}
<1>1. CASE then = <<Note>>
  BY <1>1, NoteOK, PushBox
<1>2. CASE then = <<>>
  <2>1. <<>> \o s = s
    BY DEF StackOK
  <2>2. QED
    BY <1>2, <2>1
<1>3. QED
  BY <1>1, <1>2

-----------------------------------------------------------------------------
(* refresh.                                                                *)

\* refresh removes expired items only, and leaves at most a note behind it.
LEMMA RefreshStep ==
    ASSUME TypeOK, NEW d \in SUBSET disk, NEW rest, StackOK(rest),
           Boxes(rest) \subseteq Boxes(boxes), NEW then \in {<<>>, <<Note>>},
           Refresh(d, rest, then)
    PROVE  /\ disk' \subseteq d /\ \A f \in d \ disk' : f \in Expired /\ ~connected
           /\ items' \subseteq File /\ selected' \in Int /\ selected' >= -1
           /\ deletable' \in BOOLEAN
           /\ StackOK(boxes') /\ Boxes(boxes') \subseteq Boxes(boxes) \union {Note}
<1>1. PICK gone \in Prunable(d) :
        /\ disk' = d \ gone
        /\ \/ /\ items' = d \ gone /\ selected' = Reselected(d \ gone, selected)
              /\ deletable' = (d \ gone # {})
              /\ boxes' = then \o rest
           \/ /\ items' \in {items, d \ gone}
              /\ boxes' = <<Note>> \o rest
              /\ UNCHANGED <<selected, deletable>>
  BY DEF Refresh
<1>2. \A f \in gone : f \in Expired /\ ~connected
  BY DEF Prunable
<1>3. d \subseteq File /\ items \subseteq File /\ selected \in Int /\ selected >= -1 /\ deletable \in BOOLEAN
  BY DEF TypeOK
<1>4. Reselected(d \ gone, selected) \in Int /\ Reselected(d \ gone, selected) >= -1
  BY <1>3 DEF Reselected
<1>5. items' \subseteq File /\ selected' \in Int /\ selected' >= -1 /\ deletable' \in BOOLEAN
  BY <1>1, <1>3, <1>4
<1>6. /\ StackOK(then \o rest) /\ Boxes(then \o rest) \subseteq Boxes(boxes) \union {Note}
      /\ StackOK(<<Note>> \o rest) /\ Boxes(<<Note>> \o rest) \subseteq Boxes(boxes) \union {Note}
  BY MaybeNote
<1>7. QED
  BY <1>1, <1>2, <1>5, <1>6

-----------------------------------------------------------------------------
(* Kinds of steps.                                                         *)

\* The boxes that are open after the step, but for one that asks nothing about
\* a retry, were open before it.
Quiet ==
    /\ StackOK(boxes')
    /\ \A b \in Boxes(boxes') : b \in Boxes(boxes) \/ b.kind \notin {"retry", "conflict"}

\* A step that opens and closes no box is quiet.
LEMMA QuietSame == ASSUME DialogInv, boxes' = boxes PROVE Quiet
BY DEF DialogInv, Quiet

\* So is one that only tells the user something.
LEMMA QuietNote == ASSUME DialogInv, NEW rest \in {boxes, <<>>}, boxes' = <<Note>> \o rest PROVE Quiet
<1>1. StackOK(rest) /\ Boxes(rest) \subseteq Boxes(boxes)
  BY NoBoxes DEF DialogInv
<1>2. QED
  BY <1>1, NoteOK, PushBox DEF Quiet

\* A step that leaves the retry and its consents alone: it ends the dialog only
\* while no retry runs and no box is open.
LEMMA QuietStep ==
    ASSUME DialogInv, TypeOK', Quiet, UNCHANGED <<retry, busy, agreed>>,
           shown' \/ (~busy /\ boxes' = <<>>)
    PROVE  DialogInv'
<1>1. RetryIsOwned' /\ NoBlindOverwrite' /\ RetryOK'
  BY DEF DialogInv, RetryIsOwned, NoBlindOverwrite, RetryOK
<1>2. QuestionOK'
  BY DEF Quiet, DialogInv, QuestionOK
<1>3. QED
  BY <1>1, <1>2 DEF Quiet, DialogInv

\* A step of the goroutine that retries.
LEMMA RetryMoves ==
    ASSUME DialogInv, UNCHANGED <<disk, dialogVars, agreed, outside>>, retry.pc # "none",
           NEW pc \in {"inspect", "upload", "sending", "posted"},
           NEW state \in {"unknown", "missing", "same", "conflict", "uploaded"},
           NEW failed \in BOOLEAN,
           retry' = [retry EXCEPT !.pc = pc, !.state = state, !.failed = failed],
           confirmed' \subseteq confirmed \union {retry.item},
           pc \in {"upload", "sending"} => state = "missing" \/ retry.target \in agreed
    PROVE  DialogInv'
<1>1. /\ retry \in Retry /\ retry.item \in File /\ retry.target \in Target /\ busy /\ shown
  BY DEF DialogInv, TypeOK, RetryOK, RetryIsOwned
<1>2. /\ retry' \in Retry /\ retry'.item = retry.item /\ retry'.target = retry.target
      /\ retry'.pc = pc /\ retry'.state = state
  BY <1>1 DEF Retry
<1>3. TypeOK'
  BY <1>1, <1>2 DEF DialogInv, TypeOK, dialogVars, outside
<1>4. RetryIsOwned' /\ NoBlindOverwrite' /\ RetryOK'
  BY <1>1, <1>2 DEF RetryIsOwned, NoBlindOverwrite, RetryOK, dialogVars
<1>5. QED
  BY <1>3, <1>4 DEF DialogInv, QuestionOK, dialogVars

\* beginRetry: it starts a retry of an item of the list, unless one runs.
LEMMA BeginRetryStep ==
    ASSUME TypeOK, RetryIsOwned, NEW index \in Nat, NEW target \in Target, NEW inspect \in BOOLEAN,
           beginRetry(index, target, inspect)
    PROVE  /\ retry' \in Retry /\ busy' \in BOOLEAN /\ deletable' \in BOOLEAN
           /\ \/ UNCHANGED <<busy, retry>>
              \/ /\ ~busy /\ retry.pc = "none" /\ busy' = TRUE /\ retry'.pc = "open"
                 /\ retry'.item \in File /\ retry'.target = target
                 /\ retry'.inspect = inspect
<1>1. CASE busy \/ ~InRange(index, items)
  BY <1>1 DEF beginRetry, TypeOK
<1>2. CASE ~busy /\ InRange(index, items)
  <2>1. Nth(items, index) \in File /\ retry.pc = "none"
    BY <1>2, NthInList DEF TypeOK, RetryIsOwned
  <2>2. /\ busy' = TRUE /\ deletable' = FALSE
        /\ retry' = [NoRetry EXCEPT !.pc = "open", !.index = index,
                                    !.item = Nth(items, index), !.target = target,
                                    !.inspect = inspect]
    BY <1>2 DEF beginRetry
  <2>3. /\ retry' \in Retry /\ retry'.pc = "open" /\ retry'.item = Nth(items, index)
        /\ retry'.target = target /\ retry'.inspect = inspect
    BY <2>1, <2>2 DEF NoRetry, Retry
  <2>4. QED
    BY <1>2, <2>1, <2>2, <2>3
<1>3. QED
  BY <1>1, <1>2

\* A question about a retry is answered, and one may begin: the question was the
\* last one of its kind.
LEMMA BeginStep ==
    ASSUME DialogInv, boxes # <<>>, boxes' = Tail(boxes), agreed' \subseteq Target,
           retry' \in Retry, busy' \in BOOLEAN, deletable' \in BOOLEAN,
           UNCHANGED <<disk, shown, items, selected, confirmed, outside>>,
           NEW target \in Target,
           \/ UNCHANGED <<busy, retry>>
           \/ /\ ~busy /\ retry.pc = "none" /\ busy' = TRUE /\ retry'.pc = "open"
              /\ retry'.item \in File /\ retry'.target = target
              /\ retry'.inspect \/ target \in agreed',
           ~busy \/ agreed \subseteq agreed',
           \A b \in Boxes(Tail(boxes)) : b.kind # "retry"
    PROVE  DialogInv'
<1>1. StackOK(boxes') /\ shown
  BY PopBox DEF DialogInv
<1>2. TypeOK'
  BY <1>1 DEF DialogInv, TypeOK, StackOK, outside
<1>3. RetryIsOwned'
  BY <1>1 DEF DialogInv, RetryIsOwned
<1>4. NoBlindOverwrite' /\ RetryOK'
  <2>1. CASE UNCHANGED <<busy, retry>>
    BY <2>1 DEF DialogInv, NoBlindOverwrite, RetryOK, RetryIsOwned
  <2>2. CASE retry'.pc = "open" /\ retry'.item \in File /\ retry'.target = target
             /\ (retry'.inspect \/ target \in agreed')
    BY <2>2 DEF NoBlindOverwrite, RetryOK
  <2>3. QED
    BY <2>1, <2>2
<1>5. QuestionOK'
  BY DEF QuestionOK
<1>6. QED
  BY <1>1, <1>2, <1>3, <1>4, <1>5 DEF DialogInv

-----------------------------------------------------------------------------
(* The actions.                                                            *)

\* A refresh of what is left of the list, the retry and the consents left alone.
LEMMA RefreshKeeps ==
    ASSUME DialogInv, NEW d \in SUBSET disk, NEW rest, StackOK(rest),
           Boxes(rest) \subseteq Boxes(boxes), NEW then \in {<<>>, <<Note>>},
           Refresh(d, rest, then), shown,
           UNCHANGED <<shown, busy, retry, confirmed, agreed, outside>>
    PROVE  DialogInv'
<1>1. /\ disk' \subseteq d /\ items' \subseteq File /\ selected' \in Int /\ selected' >= -1
      /\ deletable' \in BOOLEAN
      /\ StackOK(boxes') /\ Boxes(boxes') \subseteq Boxes(boxes) \union {Note}
  BY RefreshStep DEF DialogInv
<1>2. TypeOK'
  BY <1>1 DEF DialogInv, TypeOK, StackOK, outside
<1>3. Quiet
  BY <1>1, NoteOK DEF Quiet
<1>4. QED
  BY <1>2, <1>3, QuietStep

\* The commands of the dialog that ask nothing.
LEMMA CommandSteps ==
    ASSUME DialogInv
    PROVE  /\ RefreshClicked \/ SaveSettings \/ Close => DialogInv'
           /\ \A i \in 0..Cardinality(File) : Select(i) => DialogInv'
<1>1. ASSUME RefreshClicked PROVE DialogInv'
  <2>1. StackOK(<<>>) /\ Boxes(<<>>) \subseteq Boxes(boxes) /\ shown /\ disk \in SUBSET disk
    BY <1>1, NoBoxes DEF RefreshClicked, Ready
  <2>2. QED
    BY <1>1, <2>1, RefreshKeeps DEF RefreshClicked
<1>2. ASSUME SaveSettings PROVE DialogInv'
  <2>1. /\ StackOK(<<>>) /\ Boxes(<<>>) \subseteq Boxes(boxes) /\ shown /\ disk \in SUBSET disk
        /\ <<Note>> = <<Note>> \o <<>>
    BY <1>2, NoBoxes DEF SaveSettings, Ready
  <2>2. CASE Refresh(disk, <<>>, <<Note>>)
    BY <1>2, <2>1, <2>2, RefreshKeeps DEF SaveSettings
  <2>3. CASE boxes' = <<Note>> /\ UNCHANGED <<disk, items, selected, deletable>>
    <3>1. Quiet
      BY <2>1, <2>3, QuietNote
    <3>2. TypeOK'
      BY <1>2, <2>3, <3>1 DEF SaveSettings, DialogInv, TypeOK, Quiet, StackOK, outside
    <3>3. QED
      BY <1>2, <2>1, <3>1, <3>2, QuietStep DEF SaveSettings
  <2>4. QED
    BY <1>2, <2>2, <2>3 DEF SaveSettings
<1>3. ASSUME Close PROVE DialogInv'
  <2>1. boxes = <<>> /\ shown /\ <<Note>> = <<Note>> \o <<>>
    BY <1>3 DEF Close, Ready
  <2>2. CASE busy /\ boxes' = <<Note>> /\ shown' = shown
    <3>1. Quiet
      BY <2>1, <2>2, QuietNote
    <3>2. TypeOK'
      BY <1>3, <2>2, <3>1 DEF Close, DialogInv, TypeOK, Quiet, StackOK, outside
    <3>3. QED
      BY <1>3, <2>1, <2>2, <3>1, <3>2, QuietStep DEF Close
  <2>3. CASE ~busy /\ boxes' = boxes /\ shown' = FALSE
    <3>1. Quiet
      BY <2>3, QuietSame
    <3>2. TypeOK'
      BY <1>3, <2>3 DEF Close, DialogInv, TypeOK, outside
    <3>3. QED
      BY <1>3, <2>1, <2>3, <3>1, <3>2, QuietStep DEF Close
  <2>4. QED
    BY <1>3, <2>2, <2>3 DEF Close
<1>4. ASSUME NEW i \in 0..Cardinality(File), Select(i) PROVE DialogInv'
  <2>1. Quiet /\ shown
    BY <1>4, QuietSame DEF Select, Ready
  <2>2. i \in Int /\ i >= -1
    BY <1>4 DEF Select, InRange
  <2>3. TypeOK'
    BY <1>4, <2>2 DEF Select, DialogInv, TypeOK, outside
  <2>4. QED
    BY <1>4, <2>1, <2>3, QuietStep DEF Select
<1>5. QED
  BY <1>1, <1>2, <1>3, <1>4

\* The dialog is opened: no box and no retry is there before.
LEMMA ShowStep ==
    ASSUME DialogInv, showRecoveryDialog
    PROVE  DialogInv'
<1>1. boxes = <<>> /\ retry.pc = "none" /\ ~shown
  BY DEF DialogInv, RetryIsOwned, showRecoveryDialog
<1>2. PICK gone \in Prunable(disk) :
        /\ disk' = disk \ gone
        /\ \/ /\ items' = disk' /\ selected' = Reselected(disk', -1)
              /\ deletable' = (disk' # {}) /\ boxes' = <<>>
           \/ /\ items' \in {disk, disk'} /\ selected' = -1
              /\ deletable' = TRUE /\ boxes' = <<Note>>
  BY DEF showRecoveryDialog
<1>3. Reselected(disk', -1) \in Int /\ Reselected(disk', -1) >= -1
  BY DEF Reselected
<1>4. /\ StackOK(<<>>) /\ StackOK(<<Note>>) /\ Boxes(<<>>) = {} /\ Boxes(<<Note>>) = {Note}
  <2>1. StackOK(<<Note>>) /\ Boxes(<<Note>>) = {Note} \union Boxes(<<>>)
    BY NoteOK, OneBox
  <2>2. QED
    BY <2>1, NoBoxes
<1>5. /\ items' \subseteq File /\ selected' \in Int /\ selected' >= -1 /\ deletable' \in BOOLEAN
      /\ StackOK(boxes') /\ Boxes(boxes') \subseteq {Note} /\ disk' \subseteq disk
  <2>1. disk \subseteq File /\ disk' \subseteq disk
    BY <1>2 DEF DialogInv, TypeOK
  <2>2. items' \subseteq File
    BY <1>2, <2>1
  <2>3. selected' \in Int /\ selected' >= -1
    BY <1>2, <1>3
  <2>4. deletable' \in BOOLEAN
    BY <1>2
  <2>5. boxes' = <<>> \/ boxes' = <<Note>>
    BY <1>2
  <2>6. QED
    BY <1>4, <2>1, <2>2, <2>3, <2>4, <2>5
<1>6. TypeOK'
  BY <1>5 DEF showRecoveryDialog, DialogInv, TypeOK, StackOK, outside
<1>7. RetryIsOwned' /\ NoBlindOverwrite' /\ RetryOK'
  BY <1>1 DEF showRecoveryDialog, RetryIsOwned, NoBlindOverwrite, RetryOK
<1>8. QuestionOK'
  BY <1>5, NoteOK DEF QuestionOK
<1>9. QED
  BY <1>5, <1>6, <1>7, <1>8 DEF DialogInv, showRecoveryDialog

\* A box is answered: what a delete, a note or an offer leads to.
LEMMA AnswerSteps ==
    ASSUME DialogInv, Dismiss \/ AnswerDelete \/ AnswerOffer
    PROVE  DialogInv'
<1>1. boxes # <<>> /\ UNCHANGED <<shown, busy, retry, confirmed, agreed, outside>>
  BY DEF Dismiss, AnswerDelete, AnswerOffer, Top
<1>2. StackOK(Tail(boxes)) /\ Boxes(Tail(boxes)) \subseteq Boxes(boxes) /\ shown
  BY <1>1, PopBox DEF DialogInv
<1>3. CASE \E d \in SUBSET disk, then \in {<<>>, <<Note>>} : Refresh(d, Tail(boxes), then)
  BY <1>1, <1>2, <1>3, RefreshKeeps
<1>4. CASE boxes' = Tail(boxes) /\ UNCHANGED <<disk, items, selected, deletable>>
  <2>1. Quiet
    BY <1>2, <1>4 DEF Quiet
  <2>2. TypeOK'
    BY <1>1, <1>4, <2>1 DEF DialogInv, TypeOK, Quiet, StackOK, outside
  <2>3. QED
    BY <1>1, <1>2, <2>1, <2>2, QuietStep
<1>5. ASSUME NEW f, NEW then \in {<<>>, <<Note>>}, Delete(f, Tail(boxes), then)
      PROVE  \E d \in SUBSET disk, th \in {<<>>, <<Note>>} : Refresh(d, Tail(boxes), th)
  <2>1. disk \ {f} \in SUBSET disk /\ disk \in SUBSET disk
    OBVIOUS
  <2>2. QED
    BY <1>5, <2>1 DEF Delete
<1>6. QED
  BY <1>3, <1>4, <1>5 DEF Dismiss, AnswerDelete, AnswerOffer

\* The commands that ask.
LEMMA AskSteps ==
    ASSUME DialogInv, retrySelected \/ deleteSelected
    PROVE  DialogInv'
<1>1. /\ boxes = <<>> /\ shown /\ InRange(selected, items)
      /\ UNCHANGED <<disk, shown, items, selected, deletable, busy, retry, confirmed, agreed, outside>>
  BY DEF retrySelected, deleteSelected, Ready
<1>2. Nth(items, selected) \in File
  BY <1>1, NthInList DEF DialogInv, TypeOK
<1>3. PICK box : /\ boxes' = <<box>> /\ box \in BoxType /\ BoxOK(box)
                 /\ box.kind \in {"note", "retry", "delete"}
                 /\ box.kind = "retry" => ~busy
  <2>1. CASE retrySelected
    <3>1. PICK box \in {Note, Box("retry", Nth(items, selected))} : boxes' = <<box>>
      BY <2>1 DEF retrySelected
    <3>2. box \in BoxType /\ BoxOK(box) /\ box.kind \in {"note", "retry"}
      BY <1>2, NoteOK DEF Box, BoxType, BoxOK
    <3>3. QED
      BY <2>1, <3>1, <3>2 DEF retrySelected
  <2>2. CASE deleteSelected
    <3>1. PICK box \in {Note, Box("delete", Nth(items, selected))} : boxes' = <<box>>
      BY <2>2 DEF deleteSelected
    <3>2. box \in BoxType /\ BoxOK(box) /\ box.kind \in {"note", "delete"}
      BY <1>2, NoteOK DEF Box, BoxType, BoxOK
    <3>3. QED
      BY <3>1, <3>2
  <2>3. QED
    BY <2>1, <2>2
<1>4. StackOK(boxes') /\ Boxes(boxes') = {box}
  BY <1>3, NoBoxes, OneBox
<1>5. TypeOK'
  BY <1>1, <1>4 DEF DialogInv, TypeOK, StackOK, outside
<1>6. QuestionOK'
  BY <1>1, <1>3, <1>4 DEF QuestionOK
<1>7. QED
  BY <1>1, <1>4, <1>5, <1>6 DEF DialogInv, RetryIsOwned, NoBlindOverwrite, RetryOK

\* The question whether to retry is answered: a retry may begin, and no consent
\* given before is one that a retry under way still needs.
LEMMA AnswerRetryStep ==
    ASSUME DialogInv, AnswerRetry
    PROVE  DialogInv'
<1>1. boxes # <<>> /\ Head(boxes).kind = "retry"
  BY DEF AnswerRetry, Top
<1>2. Head(boxes) \in Boxes(boxes) /\ Head(boxes).item \in File /\ Tail(boxes) = <<>>
  BY <1>1, PopBox DEF DialogInv, BoxOK
<1>3. ~busy
  BY <1>1, <1>2 DEF DialogInv, QuestionOK
<1>4. RelativePath(Head(boxes).item) \in Target
  BY <1>2, RecoveryConstants DEF RelativePath, Target
<1>5. /\ retry' \in Retry /\ busy' \in BOOLEAN /\ deletable' \in BOOLEAN
      /\ \/ UNCHANGED <<busy, retry>>
         \/ /\ ~busy /\ retry.pc = "none" /\ busy' = TRUE /\ retry'.pc = "open"
            /\ retry'.item \in File /\ retry'.target = RelativePath(Head(boxes).item)
            /\ retry'.inspect
  <2>1. CASE UNCHANGED <<busy, deletable, retry>>
    BY <2>1 DEF DialogInv, TypeOK
  <2>2. CASE beginRetry(selected, RelativePath(Head(boxes).item), TRUE)
    <3>1. CASE selected \in Nat
      BY <1>4, <2>2, <3>1, BeginRetryStep DEF DialogInv
    <3>2. CASE selected \notin Nat
      <4>1. ~InRange(selected, items)
        BY <3>2 DEF InRange, DialogInv, TypeOK
      <4>2. QED
        BY <2>1, <2>2, <4>1 DEF beginRetry
    <3>3. QED
      BY <3>1, <3>2
  <2>3. QED
    BY <2>1, <2>2 DEF AnswerRetry
<1>6. \A b \in Boxes(Tail(boxes)) : b.kind # "retry"
  BY <1>2, NoBoxes
<1>7. boxes' = Tail(boxes) /\ agreed' = {}
      /\ UNCHANGED <<disk, shown, items, selected, confirmed, outside>>
  BY DEF AnswerRetry
<1>8. QED
  BY <1>1, <1>3, <1>4, <1>5, <1>6, <1>7, BeginStep

\* A conflict is answered: the retry that begins overwrites the target the user
\* agreed to, or looks at the other name first.
LEMMA AnswerConflictStep ==
    ASSUME DialogInv, AnswerConflict
    PROVE  DialogInv'
<1> DEFINE b == Head(boxes)
<1>1. boxes # <<>> /\ b.kind = "conflict"
  BY DEF AnswerConflict, Top
<1>2. /\ b \in Boxes(boxes) /\ b \in BoxType /\ b.target \in Target /\ b.index \in Nat
      /\ Boxes(Tail(boxes)) \subseteq Boxes(boxes)
  BY <1>1, PopBox DEF DialogInv, BoxOK, BoxType
<1>3. \A c \in Boxes(Tail(boxes)) : c.kind # "retry"
  BY <1>1, <1>2 DEF DialogInv, QuestionOK
<1>4. /\ boxes' = Tail(boxes) /\ UNCHANGED <<disk, shown, items, selected, confirmed, outside>>
      /\ \/ beginRetry(b.index, b.target, FALSE) /\ agreed' = agreed \union {b.target}
         \/ /\ b.target.alt < MaxAlternates
            /\ beginRetry(b.index, AlternatePath(b.target), TRUE) /\ UNCHANGED agreed
         \/ UNCHANGED <<busy, deletable, retry, agreed>>
  BY DEF AnswerConflict
<1>5. TypeOK /\ RetryIsOwned /\ agreed \subseteq Target
  BY DEF DialogInv, TypeOK
<1> HIDE DEF b
<1>6. CASE beginRetry(b.index, b.target, FALSE) /\ agreed' = agreed \union {b.target}
  <2>1. /\ retry' \in Retry /\ busy' \in BOOLEAN /\ deletable' \in BOOLEAN
        /\ \/ UNCHANGED <<busy, retry>>
           \/ /\ ~busy /\ retry.pc = "none" /\ busy' = TRUE /\ retry'.pc = "open"
              /\ retry'.item \in File /\ retry'.target = b.target
    BY <1>2, <1>5, <1>6, BeginRetryStep
  <2>2. b.target \in agreed' /\ agreed' \subseteq Target /\ agreed \subseteq agreed'
    BY <1>2, <1>5, <1>6
  <2>3. QED
    BY <1>1, <1>2, <1>3, <1>4, <2>1, <2>2, BeginStep
<1>7. CASE /\ b.target.alt < MaxAlternates
           /\ beginRetry(b.index, AlternatePath(b.target), TRUE) /\ UNCHANGED agreed
  <2>1. AlternatePath(b.target) \in Target
    BY <1>2, <1>7, RecoveryConstants DEF AlternatePath, Target
  <2>2. /\ retry' \in Retry /\ busy' \in BOOLEAN /\ deletable' \in BOOLEAN
        /\ \/ UNCHANGED <<busy, retry>>
           \/ /\ ~busy /\ retry.pc = "none" /\ busy' = TRUE /\ retry'.pc = "open"
              /\ retry'.item \in File /\ retry'.target = AlternatePath(b.target)
              /\ retry'.inspect
    BY <1>2, <1>5, <1>7, <2>1, BeginRetryStep
  <2>3. QED
    BY <1>1, <1>3, <1>4, <1>5, <1>7, <2>1, <2>2, BeginStep
<1>8. CASE UNCHANGED <<busy, deletable, retry, agreed>>
  <2>1. retry' \in Retry /\ busy' \in BOOLEAN /\ deletable' \in BOOLEAN
    BY <1>5, <1>8 DEF TypeOK
  <2>2. QED
    BY <1>1, <1>2, <1>3, <1>4, <1>5, <1>8, <2>1, BeginStep
<1>9. QED
  BY <1>4, <1>6, <1>7, <1>8

\* The result of a retry is handled: the question whether to retry is not open,
\* as one ran, so a conflict may be asked about on top of whatever is open.
LEMMA FinishRetryStep ==
    ASSUME DialogInv, finishRetry
    PROVE  DialogInv'
<1>1. /\ retry.pc = "posted" /\ shown /\ busy /\ busy' = FALSE /\ retry' = NoRetry
      /\ UNCHANGED <<shown, confirmed, agreed, outside>>
  BY DEF finishRetry, RetryAt, DialogInv, RetryIsOwned
<1>2. /\ TypeOK /\ StackOK(boxes) /\ retry.index \in Nat /\ retry.target \in Target
      /\ \A b \in Boxes(boxes) : b.kind # "retry"
  BY <1>1 DEF DialogInv, TypeOK, Retry, RetryOK, QuestionOK
<1>3. retry' \in Retry /\ retry'.pc = "none"
  BY <1>1 DEF NoRetry, Retry
<1>4. SUFFICES /\ disk' \subseteq disk /\ items' \subseteq File
               /\ selected' \in Int /\ selected' >= -1 /\ deletable' \in BOOLEAN
               /\ StackOK(boxes') /\ \A b \in Boxes(boxes') : b.kind # "retry"
  <2>1. TypeOK'
    BY <1>1, <1>2, <1>3, <1>4 DEF TypeOK, StackOK, outside
  <2>2. RetryIsOwned' /\ NoBlindOverwrite' /\ RetryOK' /\ QuestionOK'
    BY <1>3, <1>4 DEF RetryIsOwned, NoBlindOverwrite, RetryOK, QuestionOK
  <2>3. QED
    BY <1>1, <1>4, <2>1, <2>2 DEF DialogInv
<1>5. ASSUME NEW box \in BoxType, BoxOK(box), box.kind # "retry", boxes' = <<box>> \o boxes,
             deletable' = InRange(selected, items), UNCHANGED <<disk, items, selected>>
      PROVE  /\ disk' \subseteq disk /\ items' \subseteq File
             /\ selected' \in Int /\ selected' >= -1 /\ deletable' \in BOOLEAN
             /\ StackOK(boxes') /\ \A b \in Boxes(boxes') : b.kind # "retry"
  <2>1. StackOK(<<box>> \o boxes) /\ Boxes(<<box>> \o boxes) = {box} \union Boxes(boxes)
    BY <1>2, <1>5, PushBox
  <2>2. InRange(selected, items) \in BOOLEAN
    BY DEF InRange
  <2>3. QED
    BY <1>2, <1>5, <2>1, <2>2 DEF TypeOK
<1>6. CASE /\ retry.failed /\ boxes' = <<Note>> \o boxes
           /\ deletable' = InRange(selected, items) /\ UNCHANGED <<disk, items, selected>>
  <2>1. Note.kind # "retry"
    BY NoteOK
  <2>2. QED
    BY <1>5, <1>6, <2>1, NoteOK
<1>7. CASE Refresh(disk, boxes, <<>>)
  <2>1. disk \in SUBSET disk /\ Boxes(boxes) \subseteq Boxes(boxes) /\ <<>> \in {<<>>, <<Note>>}
    OBVIOUS
  <2>2. /\ disk' \subseteq disk /\ items' \subseteq File /\ selected' \in Int /\ selected' >= -1
        /\ deletable' \in BOOLEAN /\ StackOK(boxes')
        /\ Boxes(boxes') \subseteq Boxes(boxes) \union {Note}
    BY <1>2, <1>7, <2>1, RefreshStep
  <2>3. QED
    BY <1>2, <2>2, NoteOK
<1>8. CASE /\ InRange(retry.index, items)
           /\ deletable' = InRange(selected, items) /\ UNCHANGED <<disk, items, selected>>
           /\ \/ /\ retry.state \in {"uploaded", "same"}
                 /\ boxes' = <<Box(IF connected THEN "kept" ELSE "offer",
                                    Nth(items, retry.index))>> \o boxes
              \/ /\ retry.state = "conflict"
                 /\ boxes' = <<[Box("conflict", Nth(items, retry.index))
                                  EXCEPT !.index = retry.index, !.target = retry.target]>> \o boxes
  <2>1. Nth(items, retry.index) \in File
    BY <1>2, <1>8, NthInList DEF TypeOK
  <2>2. CASE boxes' = <<Box(IF connected THEN "kept" ELSE "offer", Nth(items, retry.index))>> \o boxes
    <3> DEFINE box == Box(IF connected THEN "kept" ELSE "offer", Nth(items, retry.index))
    <3>1. box \in BoxType /\ box.kind # "retry" /\ box.kind # "conflict"
      BY <2>1 DEF Box, BoxType
    <3>2. BoxOK(box)
      BY <3>1 DEF BoxOK
    <3>3. QED
      BY <1>5, <1>8, <2>2, <3>1, <3>2
  <2>3. CASE boxes' = <<[Box("conflict", Nth(items, retry.index))
                           EXCEPT !.index = retry.index, !.target = retry.target]>> \o boxes
    <3> DEFINE box == [Box("conflict", Nth(items, retry.index))
                         EXCEPT !.index = retry.index, !.target = retry.target]
    <3>1. /\ box \in BoxType /\ box.kind = "conflict" /\ box.target = retry.target
      BY <1>2, <2>1 DEF Box, BoxType
    <3>2. BoxOK(box)
      BY <1>2, <3>1 DEF BoxOK
    <3>3. QED
      BY <1>5, <1>8, <2>3, <3>1, <3>2
  <2>4. QED
    BY <1>8, <2>2, <2>3
<1>9. QED
  BY <1>6, <1>7, <1>8 DEF finishRetry

\* The goroutine that retries: it writes where it found nothing or was told to
\* overwrite, and its result is posted to a dialog that is there.
LEMMA GoroutineSteps ==
    ASSUME DialogInv, OpenBackend \/ Inspect \/ UploadStart \/ UploadEnd
    PROVE  DialogInv'
<1>1. /\ retry.pc # "none" /\ UNCHANGED <<disk, dialogVars, agreed, outside>>
      /\ retry \in Retry /\ confirmed \subseteq confirmed \union {retry.item}
      /\ retry.state \in {"unknown", "missing", "same", "conflict", "uploaded"}
      /\ retry.failed \in BOOLEAN
  BY DEF OpenBackend, Inspect, UploadStart, UploadEnd, RetryAt, DialogInv, TypeOK, Retry
<1> DEFINE Moves(pc, state, failed) ==
             /\ retry' = [retry EXCEPT !.pc = pc, !.state = state, !.failed = failed]
             /\ confirmed' \subseteq confirmed \union {retry.item}
<1>2. ASSUME NEW state \in {"unknown", "missing", "same", "conflict", "uploaded"},
             NEW failed \in BOOLEAN, Moves("posted", state, failed)
      PROVE  DialogInv'
  BY <1>1, <1>2, RetryMoves
<1>3. RetryFails => Moves("posted", retry.state, TRUE)
  BY <1>1 DEF RetryFails, Posted
<1>4. \A state, failed : retry' = Posted(state, failed) /\ confirmed' \subseteq confirmed \union {retry.item}
                          => Moves("posted", state, failed)
  BY DEF Posted
<1>5. ASSUME OpenBackend, ~RetryFails PROVE DialogInv'
  <2>1. /\ retry' = [retry EXCEPT !.pc = IF retry.inspect THEN "inspect" ELSE "upload"]
        /\ UNCHANGED confirmed /\ retry.pc = "open"
    BY <1>5 DEF OpenBackend, RetryAt
  <2>2. CASE retry.inspect
    <3>1. retry' = [retry EXCEPT !.pc = "inspect", !.state = retry.state, !.failed = retry.failed]
      BY <1>1, <2>1, <2>2 DEF Retry
    <3>2. QED
      BY <1>1, <2>1, <3>1, RetryMoves
  <2>3. CASE ~retry.inspect
    <3>1. retry' = [retry EXCEPT !.pc = "upload", !.state = retry.state, !.failed = retry.failed]
      BY <1>1, <2>1, <2>3 DEF Retry
    <3>2. retry.target \in agreed
      BY <2>1, <2>3 DEF DialogInv, RetryOK
    <3>3. QED
      BY <1>1, <2>1, <3>1, <3>2, RetryMoves
  <2>4. QED
    BY <2>2, <2>3
<1>6. ASSUME Inspect, ~RetryFails PROVE DialogInv'
  <2>1. CASE retry' = [retry EXCEPT !.pc = "upload", !.state = "missing"] /\ UNCHANGED confirmed
    <3>1. retry' = [retry EXCEPT !.pc = "upload", !.state = "missing", !.failed = retry.failed]
      BY <1>1, <2>1 DEF Retry
    <3>2. QED
      BY <1>1, <2>1, <3>1, RetryMoves
  <2>2. CASE /\ \E failed \in BOOLEAN : retry' = Posted("same", failed)
             /\ confirmed' = confirmed \union {retry.item}
    BY <1>2, <1>4, <2>2
  <2>3. CASE (\E failed \in BOOLEAN : retry' = Posted("conflict", failed)) /\ UNCHANGED confirmed
    BY <1>1, <1>2, <1>4, <2>3
  <2>4. QED
    BY <1>6, <2>1, <2>2, <2>3 DEF Inspect
<1>7. ASSUME UploadStart, ~RetryFails PROVE DialogInv'
  <2>1. retry' = [retry EXCEPT !.pc = "sending"] /\ UNCHANGED confirmed /\ retry.pc = "upload"
    BY <1>7 DEF UploadStart, RetryAt
  <2>2. retry' = [retry EXCEPT !.pc = "sending", !.state = retry.state, !.failed = retry.failed]
    BY <1>1, <2>1 DEF Retry
  <2>3. retry.state = "missing" \/ retry.target \in agreed
    BY <2>1 DEF DialogInv, NoBlindOverwrite
  <2>4. QED
    BY <1>1, <2>1, <2>2, <2>3, RetryMoves
<1>8. ASSUME UploadEnd, ~RetryFails PROVE DialogInv'
  BY <1>2, <1>4, <1>8 DEF UploadEnd
<1>9. QED
  BY <1>1, <1>2, <1>3, <1>5, <1>6, <1>7, <1>8

\* When the main window goes, the dialog, its boxes and the retry go with it.
LEMMA WindowGoesStep ==
    ASSUME DialogInv, NEW how \in {"gone", "ended"}, WindowGoes(how)
    PROVE  DialogInv'
<1>1. /\ window' = how /\ shown' = FALSE /\ boxes' = <<>> /\ busy' = FALSE /\ retry' = NoRetry
      /\ clearing' = FALSE
      /\ UNCHANGED <<disk, items, selected, deletable, confirmed, agreed, used, connected>>
  BY DEF WindowGoes
<1>2. NoRetry \in Retry /\ NoRetry.pc = "none"
  BY DEF NoRetry, Retry
<1>3. StackOK(boxes') /\ Boxes(boxes') = {}
  BY <1>1, NoBoxes
<1>4. TypeOK'
  <2>1. {shown', deletable', busy', connected', clearing'} \subseteq BOOLEAN
    BY <1>1, Zenon DEF DialogInv, TypeOK
  <2>2. QED
    BY <1>1, <1>2, <1>3, <2>1 DEF DialogInv, TypeOK, StackOK
<1>5. QED
  BY <1>1, <1>2, <1>3, <1>4 DEF DialogInv, RetryIsOwned, NoBlindOverwrite, RetryOK, QuestionOK

\* The main window while it is there, and the drives, leave the retry alone.
LEMMA OutsideSteps ==
    ASSUME DialogInv,
           \/ Connect \/ Disconnect \/ AskClear \/ clearCache \/ exit
           \/ ExitEnds /\ ~WindowGoes("gone")
           \/ \E f \in File : Preserve(f)
    PROVE  DialogInv'
<1>1. CASE exit /\ boxes' # boxes
  <2>1. /\ boxes' = <<Note>> \o boxes /\ shown
        /\ UNCHANGED <<disk, shown, items, selected, deletable, busy, retry, confirmed, agreed, outside>>
    BY <1>1 DEF exit, outside
  <2>2. Quiet
    BY <2>1, QuietNote
  <2>3. TypeOK'
    BY <2>1, <2>2 DEF DialogInv, TypeOK, Quiet, StackOK, outside
  <2>4. QED
    BY <2>1, <2>2, <2>3, QuietStep
<1>2. CASE ~(exit /\ boxes' # boxes)
  <2>1. UNCHANGED <<shown, items, selected, deletable, busy, boxes, retry, confirmed, agreed>>
    BY <1>2 DEF Connect, Disconnect, AskClear, clearCache, exit, ExitEnds, Preserve, dialogVars, outside
  <2>2. /\ disk' \subseteq used' /\ used' \subseteq File /\ connected' \in BOOLEAN /\ clearing' \in BOOLEAN
        /\ window' \in {"open", "exiting", "gone", "ended"}
    <3>1. disk \subseteq used /\ used \subseteq File /\ connected \in BOOLEAN /\ clearing \in BOOLEAN
          /\ window \in {"open", "exiting", "gone", "ended"}
      BY DEF DialogInv, TypeOK
    <3>2. CASE Connect \/ Disconnect
      BY <3>1, <3>2 DEF Connect, Disconnect
    <3>3. CASE AskClear \/ clearCache
      BY <3>1, <3>3 DEF AskClear, clearCache
    <3>4. CASE exit \/ (ExitEnds /\ ~WindowGoes("gone"))
      BY <3>1, <3>4 DEF exit, ExitEnds
    <3>5. CASE \E f \in File : Preserve(f)
      BY <3>1, <3>5 DEF Preserve
    <3>6. QED
      BY <3>2, <3>3, <3>4, <3>5
  <2>3. TypeOK'
    BY <2>1, <2>2 DEF DialogInv, TypeOK
  <2>4. QED
    BY <2>1, <2>3 DEF DialogInv, RetryIsOwned, NoBlindOverwrite, RetryOK, QuestionOK
<1>3. QED
  BY <1>1, <1>2

-----------------------------------------------------------------------------
(* The invariant holds, and what follows from it.                          *)

\* Before the dialog is opened nothing runs and nothing is asked.
LEMMA DialogInvInit == Init => DialogInv
<1> SUFFICES ASSUME Init PROVE DialogInv
  OBVIOUS
<1>1. NoRetry \in Retry /\ NoRetry.pc = "none"
  BY DEF NoRetry, Retry
<1>2. TypeOK
  <2>1. disk \subseteq used /\ used \subseteq File /\ items \subseteq File
    BY DEF Init
  <2>2. {shown, deletable, busy, connected, clearing} \subseteq BOOLEAN
    BY Zenon DEF Init
  <2>3. boxes \in Seq(BoxType)
    BY NoBoxes DEF Init, StackOK
  <2>4. selected \in Int /\ selected >= -1
    BY DEF Init
  <2>5. /\ retry \in Retry /\ confirmed \subseteq File /\ agreed \subseteq Target
        /\ window \in {"open", "exiting", "gone", "ended"}
    BY <1>1 DEF Init
  <2>6. QED
    BY <2>1, <2>2, <2>3, <2>4, <2>5 DEF TypeOK
<1>3. StackOK(boxes) /\ Boxes(boxes) = {}
  BY NoBoxes DEF Init
<1>4. QED
  BY <1>1, <1>2, <1>3 DEF Init, DialogInv, RetryIsOwned, NoBlindOverwrite, RetryOK, QuestionOK

\* Every step keeps the invariant.
LEMMA DialogInvNext == DialogInv /\ [Next]_vars => DialogInv'
<1> SUFFICES ASSUME DialogInv, [Next]_vars PROVE DialogInv'
  OBVIOUS
<1>1. CASE RetryStep
  BY <1>1, FinishRetryStep, GoroutineSteps DEF RetryStep
<1>2. CASE RefreshClicked \/ SaveSettings \/ Close \/ \E i \in 0..Cardinality(File) : Select(i)
  BY <1>2, CommandSteps
<1>3. CASE showRecoveryDialog
  BY <1>3, ShowStep
<1>4. CASE Dismiss \/ AnswerDelete \/ AnswerOffer
  BY <1>4, AnswerSteps
<1>5. CASE retrySelected \/ deleteSelected
  BY <1>5, AskSteps
<1>6. CASE AnswerRetry
  BY <1>6, AnswerRetryStep
<1>7. CASE AnswerConflict
  BY <1>7, AnswerConflictStep
<1>8. CASE \/ Connect \/ Disconnect \/ AskClear \/ clearCache \/ exit \/ ExitEnds \/ SessionEnds
           \/ \E f \in File : Preserve(f)
  <2>1. CASE WindowGoes("gone") \/ WindowGoes("ended")
    BY <2>1, WindowGoesStep
  <2>2. CASE ~WindowGoes("gone") /\ ~WindowGoes("ended")
    BY <1>8, <2>2, OutsideSteps DEF SessionEnds
  <2>3. QED
    BY <2>1, <2>2
<1>9. CASE UNCHANGED vars
  <2>1. UNCHANGED <<disk, dialogVars, retry, confirmed, agreed, outside>>
    BY <1>9 DEF vars
  <2>2. TypeOK'
    BY <2>1 DEF DialogInv, TypeOK, dialogVars, outside
  <2>3. QED
    BY <2>1, <2>2 DEF DialogInv, RetryIsOwned, NoBlindOverwrite, RetryOK, QuestionOK, dialogVars
<1>10. QED
  BY <1>1, <1>2, <1>3, <1>4, <1>5, <1>6, <1>7, <1>8, <1>9 DEF Next

\* The inductive invariant holds in every state of every behaviour.
THEOREM DialogInvariant == Spec => []DialogInv
<1>1. Init => DialogInv
  BY DialogInvInit
<1>2. DialogInv /\ [Next]_vars => DialogInv'
  BY DialogInvNext
<1>3. QED
  BY <1>1, <1>2, PTL DEF Spec

\* Every variable of the dialog and of the retry holds a value of its kind.
THEOREM DialogTypeCorrect == Spec => []TypeOK
<1>1. DialogInv => TypeOK
  BY DEF DialogInv
<1>2. QED
  BY <1>1, DialogInvariant, PTL

\* beginRetry, close: while the goroutine of a retry runs or its result is on its
\* way, the dialog exists and is busy, whatever boxes are nested in it and
\* although a main window that goes takes its dialog with it.
THEOREM RetryHasItsDialog == Spec => []RetryIsOwned
<1>1. DialogInv => RetryIsOwned
  BY DEF DialogInv
<1>2. QED
  BY <1>1, DialogInvariant, PTL

\* finishRetry: a retry writes a remote file only where Inspect found none or
\* where the user agreed to overwrite that path.
THEOREM NothingOverwrittenBlindly == Spec => []NoBlindOverwrite
<1>1. DialogInv => NoBlindOverwrite
  BY DEF DialogInv
<1>2. QED
  BY <1>1, DialogInvariant, PTL

-----------------------------------------------------------------------------
(* What a step may remove.                                                 *)

\* The answer to a question, or an expired item while nothing is connected, or
\* all the items there are.
Asked(f) ==
    \/ boxes # <<>> /\ Head(boxes).kind \in {"delete", "offer"} /\ Head(boxes).item = f
    \/ f \in Expired /\ ~connected
    \/ disk' \subseteq InUse /\ UNCHANGED dialogVars

\* refresh alone removes expired items only, and only with no drive connected.
LEMMA RefreshRemoves ==
    ASSUME NEW d, NEW rest, NEW then, Refresh(d, rest, then)
    PROVE  \A f \in d \ disk' : f \in Expired /\ ~connected
<1>1. PICK gone \in Prunable(d) : disk' = d \ gone
  BY DEF Refresh
<1>2. QED
  BY <1>1 DEF Prunable

\* Store.Delete and the refresh after it remove the item asked about, besides.
LEMMA DeleteRemoves ==
    ASSUME NEW f, NEW rest, NEW then, Delete(f, rest, then)
    PROVE  \A g \in disk \ disk' : g = f \/ (g \in Expired /\ ~connected)
<1>1. CASE Refresh(disk \ {f}, rest, then)
  <2>1. \A g \in (disk \ {f}) \ disk' : g \in Expired /\ ~connected
    BY <1>1, RefreshRemoves
  <2>2. QED
    BY <2>1
<1>2. CASE Refresh(disk, rest, <<Note>>)
  BY <1>2, RefreshRemoves
<1>3. QED
  BY <1>1, <1>2 DEF Delete

\* A step removes what Asked allows.
LEMMA StepRemoves == [Next]_vars => \A f \in disk \ disk' : Asked(f)
<1> SUFFICES ASSUME [Next]_vars, NEW g \in disk \ disk' PROVE Asked(g)
  OBVIOUS
<1>1. disk' # disk
  OBVIOUS
<1>2. CASE finishRetry \/ RefreshClicked \/ SaveSettings \/ Dismiss
  <2>1. \E rest, then : Refresh(disk, rest, then)
    BY <1>1, <1>2 DEF finishRetry, RefreshClicked, SaveSettings, Dismiss
  <2>2. QED
    BY <2>1, RefreshRemoves DEF Asked
<1>3. CASE showRecoveryDialog
  <2>1. \E gone \in Prunable(disk) : disk' = disk \ gone
    BY <1>3 DEF showRecoveryDialog
  <2>2. QED
    BY <2>1 DEF Asked, Prunable
<1>4. CASE AnswerDelete \/ AnswerOffer
  <2>1. boxes # <<>> /\ Head(boxes).kind \in {"delete", "offer"}
    BY <1>4 DEF AnswerDelete, AnswerOffer, Top
  <2>2. CASE \E then : Delete(Head(boxes).item, Tail(boxes), then)
    BY <2>1, <2>2, DeleteRemoves DEF Asked
  <2>3. CASE Refresh(disk, Tail(boxes), <<>>)
    BY <2>3, RefreshRemoves DEF Asked
  <2>4. QED
    BY <1>1, <1>4, <2>2, <2>3 DEF AnswerDelete, AnswerOffer
<1>5. CASE clearCache
  BY <1>5 DEF clearCache, Asked
<1>6. CASE \E f \in File : Preserve(f)
  BY <1>6 DEF Preserve
<1>7. CASE OpenBackend \/ Inspect \/ UploadStart \/ UploadEnd
  BY <1>1, <1>7 DEF OpenBackend, Inspect, UploadStart, UploadEnd
<1>8. CASE Close \/ (\E i \in 0..Cardinality(File) : Select(i)) \/ retrySelected \/ deleteSelected
           \/ AnswerRetry \/ AnswerConflict
  BY <1>1, <1>8 DEF Close, Select, retrySelected, deleteSelected, AnswerRetry, AnswerConflict
<1>9. CASE Connect \/ Disconnect \/ AskClear \/ exit \/ ExitEnds \/ SessionEnds
  BY <1>1, <1>9 DEF Connect, Disconnect, AskClear, exit, ExitEnds, SessionEnds, WindowGoes
<1>10. CASE UNCHANGED vars
  BY <1>1, <1>10 DEF vars
<1>11. QED
  BY <1>2, <1>3, <1>4, <1>5, <1>6, <1>7, <1>8, <1>9, <1>10 DEF Next, RetryStep

\* deleteSelected, offerDeleteAfterRetry, refresh, clearCache: an item leaves
\* the cache directory only as the user was asked, whatever changed the list of
\* the dialog while the question was open.
THEOREM NothingRemovedUnasked == Spec => RemovedAsAsked
<1>1. [Next]_vars =>
        [\A f \in disk \ disk' :
            \/ boxes # <<>> /\ Head(boxes).kind \in {"delete", "offer"} /\ Head(boxes).item = f
            \/ f \in Expired /\ ~connected
            \/ disk' \subseteq InUse /\ UNCHANGED dialogVars]_vars
  BY StepRemoves DEF Asked
<1>2. QED
  BY <1>1, PTL DEF Spec, RemovedAsAsked
====
