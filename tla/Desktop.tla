---- MODULE Desktop ----
(***************************************************************************)
(* The desktop program: connection.Manager (manager.go), the disconnect    *)
(* loop (desktop/disconnect.go) and the window's commands, tasks and       *)
(* message boxes (desktop/window_windows.go).                              *)
(*                                                                         *)
(* One UI thread runs commands; a command either works there or starts the *)
(* background task, of which w.busy allows one. A message box runs a       *)
(* nested message loop in which tray commands, a finished task and the end *)
(* of the Windows session are still handled: stack holds the boxes that    *)
(* are open, and the function that opened one goes on when it is on top    *)
(* and answered. A box disables the window that owns it and, when that     *)
(* window was enabled before, enables it again. The profile editor         *)
(* (desktop/profile_editor_windows.go) disables the main window in the     *)
(* same way, but acts on w.selected, which the main window's list sets. At *)
(* the end of a Windows session a second goroutine detaches the drives     *)
(* while the UI thread waits for it, at most 2 s.                          *)
(*                                                                         *)
(* What the user types is free: an edited field, valid or invalid input    *)
(* and a setting that needs a question are choices of the action; a        *)
(* profile that is edited keeps its drive letter.                          *)
(***************************************************************************)
EXTENDS Naturals, Sequences, FiniteSets

CONSTANTS
    Profile,       \* profile IDs
    Saved,         \* those in the settings file at start
    AutoConnect,   \* those to connect at start
    DriveOf,       \* their drive letters
    None,
    MaxBoxes       \* bound of the model: boxes open when a command is given

ASSUME DesktopConstants ==
    /\ Saved \subseteq Profile /\ AutoConnect \subseteq Profile /\ None \notin Profile
    /\ IsFiniteSet(Profile)
    /\ \A p, r \in Saved : DriveOf[p] = DriveOf[r] => p = r
    /\ MaxBoxes \in Nat

VARIABLES
    listed,    \* w.settings.Profiles
    selected,  \* the profile at w.selected; None for -1
    entries,   \* manager.entries: the state of each entry
    mounted,   \* external: the profiles whose drive is mounted
    busy,      \* w.busy
    act,       \* the background task and the session-end goroutine
    stack,     \* the open message boxes, innermost first
    enabled,   \* external: the main window accepts input
    editor,    \* the profile the editor was opened for; "new", "closed"
    misfiled,  \* history: profiles whose settings another profile's input replaced
    agreed,    \* history: whose forced detach the user agreed to in this task
    window     \* open; ending (WM_ENDSESSION); destroyed; panicked

managerVars == <<entries, mounted>>
boxVars == <<stack, enabled>>
editorVars == <<editor, misfiled>>
vars == <<listed, selected, managerVars, busy, act, boxVars, editorVars, agreed, window>>

Actor == {"task", "end"}
NoAct == [kind |-> "none", pc |-> "next", todo |-> {}, cur |-> None, exit |-> FALSE,
          failed |-> FALSE, canceled |-> FALSE, forced |-> FALSE]
Act == [kind : {"none", "connect", "disconnect", "clear", "test"},
        pc : {"next", "mounting", "closing", "ask", "asked", "force", "forcing", "finished"},
        todo : SUBSET Profile, cur : Profile \union {None}, exit : BOOLEAN,
        failed : BOOLEAN,    \* the error to report is not nil
        canceled : BOOLEAN,  \* result.canceled is not empty
        forced : BOOLEAN]    \* result.forceMessage is not empty

\* destroy: what follows the answer ends the window, or the editor.
\* frees: the window that accepts input again when the box is gone.
\* more: how many boxes the same callback shows after this one.
Box(kind, p) == [kind |-> kind, p |-> p, destroy |-> FALSE, frees |-> "none", more |-> 0]
BoxType == [kind : {"clear", "delete", "force", "report", "secret", "failed", "done", "save",
                    "change", "discard", "test"},
            p : Profile \union {None}, destroy : BOOLEAN, frees : {"none", "window", "editor"},
            more : Nat]

Init ==
    /\ listed = Saved /\ selected = None
    /\ entries = [p \in Profile |-> "none"] /\ mounted = {}
    /\ act = [a \in Actor |-> IF a = "task" THEN [NoAct EXCEPT !.kind = "connect",
                                                              !.todo = Saved \intersect AutoConnect]
                              ELSE NoAct]
    /\ busy = TRUE /\ stack = <<>> /\ agreed = {} /\ window = "open"
    /\ enabled = TRUE /\ editor = "closed" /\ misfiled = {}

Inactive(p) == entries[p] = "none"
anyConnected == \E p \in listed : ~Inactive(p)
LetterUsed(p) == \E r \in mounted : DriveOf[r] = DriveOf[p]

Does(a, kind, pc) ==
    window \in {"open", "ending"} /\ act[a].kind = kind /\ act[a].pc = pc
Now(a, pc, p) == [act EXCEPT ![a].pc = pc, ![a].cur = p]
Past(a, p) == [act EXCEPT ![a].pc = "next", ![a].cur = None, ![a].todo = @ \ {p}]

-----------------------------------------------------------------------------
(* Manager.Connect and the loop of connectAll.                             *)

\* A profile that is active, or whose letter or secrets fail the checks.
ConnectSkip(p) ==
    /\ Does("task", "connect", "next") /\ p \in act["task"].todo
    /\ \/ act' = Past("task", p) /\ ~Inactive(p)
       \/ act' = [Past("task", p) EXCEPT !["task"].failed = TRUE]
    /\ UNCHANGED <<listed, selected, managerVars, busy, boxVars, agreed, window, editorVars>>

ConnectStart(p) ==
    /\ Does("task", "connect", "next") /\ p \in act["task"].todo
    /\ Inactive(p) /\ ~LetterUsed(p)
    /\ \A r \in Profile : ~Inactive(r) => DriveOf[r] # DriveOf[p]
    /\ entries' = [entries EXCEPT ![p] = "connecting"]
    /\ act' = Now("task", "mounting", p)
    /\ UNCHANGED <<listed, selected, mounted, busy, boxVars, agreed, window, editorVars>>

\* Mutant: a failed connection keeps its entry, in an error state.
ConnectEndKeepsEntry ==
    LET p == act["task"].cur IN
    /\ Does("task", "connect", "mounting")
    /\ \/ /\ mounted' = mounted \union {p}
          /\ entries' = [entries EXCEPT ![p] = "connected"]
          /\ act' = Past("task", p)
       \/ /\ entries' = [entries EXCEPT ![p] = "error"] /\ UNCHANGED mounted
          /\ act' = [Past("task", p) EXCEPT !["task"].failed = TRUE]
    /\ UNCHANGED <<listed, selected, busy, boxVars, agreed, window, editorVars>>

ConnectEnd ==
    LET p == act["task"].cur IN
    /\ Does("task", "connect", "mounting")
    /\ \/ /\ mounted' = mounted \union {p}
          /\ entries' = [entries EXCEPT ![p] = "connected"]
          /\ act' = Past("task", p)
       \/ /\ entries' = [entries EXCEPT ![p] = "none"] /\ UNCHANGED mounted
          /\ act' = [Past("task", p) EXCEPT !["task"].failed = TRUE]
    /\ UNCHANGED <<listed, selected, busy, boxVars, agreed, window, editorVars>>

-----------------------------------------------------------------------------
(* Manager.disconnect and disconnectProfiles.                              *)

\* Mutant: disconnect does not look at the entry's state.
DisconnectStartAnyState(a, p) ==
    /\ Does(a, "disconnect", "next") /\ p \in act[a].todo
    /\ IF entries[p] = "none" THEN act' = Past(a, p) /\ UNCHANGED entries
       ELSE act' = Now(a, "closing", p) /\ entries' = [entries EXCEPT ![p] = "disconnecting"]
    /\ UNCHANGED <<listed, selected, mounted, busy, boxVars, agreed, window, editorVars>>

\* The user's own task asks before it forces; the session end does not.
Refused(a, p) == Now(a, IF a = "task" THEN "ask" ELSE "force", p)

DisconnectStart(a, p) ==
    /\ Does(a, "disconnect", "next") /\ p \in act[a].todo
    /\ CASE entries[p] = "none" -> act' = Past(a, p) /\ UNCHANGED entries
         [] entries[p] = "connected" -> /\ act' = Now(a, "closing", p)
                                        /\ entries' = [entries EXCEPT ![p] = "disconnecting"]
         [] OTHER -> act' = Refused(a, p) /\ UNCHANGED entries
    /\ UNCHANGED <<listed, selected, mounted, busy, boxVars, agreed, window, editorVars>>

\* Mutant: the entry is deleted although Close refused.
DisconnectEndDeleting(a) ==
    LET p == act[a].cur IN
    /\ Does(a, "disconnect", "closing")
    /\ entries' = [entries EXCEPT ![p] = "none"]
    /\ \/ mounted' = mounted \ {p} /\ act' = Past(a, p)
       \/ UNCHANGED mounted /\ act' = Refused(a, p)
    /\ UNCHANGED <<listed, selected, busy, boxVars, agreed, window, editorVars>>

\* Session.Close detaches, or refuses and leaves the drive mounted.
DisconnectEnd(a) ==
    LET p == act[a].cur IN
    /\ Does(a, "disconnect", "closing")
    /\ \/ /\ mounted' = mounted \ {p} /\ act' = Past(a, p)
          /\ entries' = [entries EXCEPT ![p] = "none"]
       \/ /\ UNCHANGED mounted /\ act' = Refused(a, p)
          /\ entries' = [entries EXCEPT ![p] = "connected"]
    /\ UNCHANGED <<listed, selected, busy, boxVars, agreed, window, editorVars>>

ForceStart(a) ==
    LET p == act[a].cur IN
    /\ Does(a, "disconnect", "force")
    /\ CASE entries[p] = "none" -> act' = Past(a, p) /\ UNCHANGED entries
         [] entries[p] = "connected" -> /\ act' = Now(a, "forcing", p)
                                        /\ entries' = [entries EXCEPT ![p] = "disconnecting"]
         [] OTHER -> /\ act' = [Past(a, p) EXCEPT ![a].failed = TRUE]
                     /\ UNCHANGED entries
    /\ UNCHANGED <<listed, selected, mounted, busy, boxVars, agreed, window, editorVars>>

\* Session.ForceClose always detaches.
ForceEnd(a) ==
    LET p == act[a].cur IN
    /\ Does(a, "disconnect", "forcing")
    /\ mounted' = mounted \ {p} /\ entries' = [entries EXCEPT ![p] = "none"]
    /\ act' = [Past(a, p) EXCEPT ![a].forced = TRUE]
    /\ UNCHANGED <<listed, selected, busy, boxVars, agreed, window, editorVars>>

\* The task's function returns: its result waits for the UI thread. Store.Clear
\* may have failed.
Finish(a) ==
    /\ window \in {"open", "ending"} /\ act[a].kind # "none"
    /\ act[a].pc = "next" /\ act[a].todo = {}
    /\ \E failed \in {act[a].failed, act[a].failed \/ act[a].kind \in {"clear", "test"}} :
        act' = [act EXCEPT ![a].pc = "finished", ![a].failed = failed]
    /\ UNCHANGED <<listed, selected, managerVars, busy, boxVars, agreed, window, editorVars>>

-----------------------------------------------------------------------------
(* Commands. The tray reaches them whatever boxes are open; the window's   *)
(* own buttons and list only when none is.                                 *)

Command == window = "open" /\ ~busy /\ Len(stack) < MaxBoxes

\* w.task
Task(kind, todo, exit) ==
    /\ busy' = TRUE /\ agreed' = {}
    /\ act' = [act EXCEPT !["task"] = [NoAct EXCEPT !.kind = kind, !.todo = todo,
                                                    !.exit = exit]]

\* dialogOwner; the boxes of the commands belong to the main window.
Owner(kind) ==
    IF editor # "closed" /\ kind \in {"report", "failed", "save", "change", "discard", "test"}
    THEN "editor" ELSE "window"

\* MessageBoxW, on boxes already open, when the main window's state is now.
Opened(box, boxes, now) ==
    LET owner == Owner(box.kind) IN
    /\ stack' = <<[box EXCEPT !.frees = IF owner = "editor" \/ now THEN owner ELSE "none"]>> \o boxes
    /\ enabled' = (now /\ owner = "editor")

Top(kind) == window = "open" /\ stack # <<>> /\ Head(stack).kind = kind
AfterTop == enabled \/ Head(stack).frees = "window"
Show(box) == Opened(box, stack, enabled)
Return == stack' = Tail(stack) /\ enabled' = AfterTop
ReturnAndShow(box) == Opened(box, Tail(stack), AfterTop)

\* A profile's entry in the tray menu, or its buttons: connect or disconnect.
Toggle(p) ==
    /\ Command /\ p \in listed
    /\ \/ /\ Inactive(p)
          /\ \/ Task("connect", {p}, FALSE) /\ UNCHANGED boxVars /\ ~LetterUsed(p)
             \/ Show(Box("report", None)) /\ UNCHANGED <<busy, act, agreed>>
       \/ /\ ~Inactive(p)
          /\ Task("disconnect", {p}, FALSE) /\ UNCHANGED boxVars
    /\ UNCHANGED <<listed, selected, managerVars, window, editorVars>>

connectAll ==
    /\ Command /\ Task("connect", listed, FALSE)
    /\ UNCHANGED <<listed, selected, managerVars, boxVars, window, editorVars>>

\* disconnect of every profile; exit is the same followed by the end.
disconnectAll(exit) ==
    /\ Command /\ Task("disconnect", listed, exit)
    /\ UNCHANGED <<listed, selected, managerVars, boxVars, window, editorVars>>

\* clearCache asks when no drive is connected.
clearCache ==
    /\ Command
    /\ Show(Box(IF anyConnected THEN "report" ELSE "clear", None))
    /\ UNCHANGED <<listed, selected, managerVars, busy, act, agreed, window, editorVars>>

\* The main window's list and buttons; a busy window's controls are disabled.
InWindow == window = "open" /\ ~busy /\ enabled

deleteProfile ==
    /\ InWindow /\ Command /\ selected # None
    /\ Show(Box(IF Inactive(selected) THEN "delete" ELSE "report", selected))
    /\ UNCHANGED <<listed, selected, managerVars, busy, act, editorVars, agreed, window>>

Select(p) ==
    /\ InWindow /\ p \in listed
    /\ selected' = p
    /\ UNCHANGED <<listed, managerVars, busy, act, boxVars, editorVars, agreed, window>>

-----------------------------------------------------------------------------
(* The profile editor.                                                     *)

\* showProfileEditor: an editor that is open already is only brought to front. The
\* main window is disabled last, after the box that says that a saved profile's
\* secrets cannot be read.
showProfileEditor(p) ==
    /\ editor = "closed" /\ editor' = IF p = None THEN "new" ELSE p
    /\ selected' = p
    /\ \/ enabled' = FALSE /\ UNCHANGED stack
       \/ /\ p # None /\ Len(stack) < MaxBoxes
          /\ stack' = <<[Box("secret", None) EXCEPT !.frees = "editor"]>> \o stack
          /\ UNCHANGED enabled
    /\ UNCHANGED <<listed, managerVars, busy, act, misfiled, agreed, window>>

\* The tray's "add drive" or the button.
newProfile == Command /\ showProfileEditor(None)

editProfile == InWindow /\ selected # None /\ showProfileEditor(selected)

SecretAcknowledged ==
    /\ Top("secret") /\ stack' = Tail(stack) /\ enabled' = FALSE
    /\ UNCHANGED <<listed, selected, managerVars, busy, act, editorVars, agreed, window>>

\* The editor's own buttons and keys. What closes it works while the window is busy.
InEditor ==
    /\ window = "open" /\ editor # "closed" /\ Len(stack) < MaxBoxes
    /\ \A i \in DOMAIN stack : stack[i].frees # "editor"

\* A new profile gets an ID of its own; SaveSettings refuses a letter that two
\* profiles have.
Target(p) ==
    IF selected # None THEN p = selected
    ELSE /\ p \notin listed /\ p \notin Saved /\ Inactive(p)
         /\ \A r \in listed : DriveOf[r] # DriveOf[p]

\* The settings are saved: the input goes to the profile at w.selected.
Saves(p) ==
    /\ Target(p)
    /\ listed' = listed \union {p} /\ selected' = p
    /\ misfiled' = IF p \in listed /\ editor # p THEN misfiled \union {p} ELSE misfiled

\* The checks that come before save's questions.
Savable(p) == Target(p) /\ Inactive(p) /\ ~LetterUsed(p)

\* save: the input or the state is refused, or the settings cannot be written;
\* a question is asked; or the settings are saved.
save ==
    /\ InEditor /\ ~busy
    /\ \/ Show(Box("report", None)) /\ UNCHANGED <<listed, selected, editorVars>>
       \/ /\ \E p \in Profile : Savable(p)
          /\ Show(Box("save", None)) /\ UNCHANGED <<listed, selected, editorVars>>
       \/ \E p \in Profile :
            Savable(p) /\ Saves(p) /\ editor' = p /\ UNCHANGED boxVars
    /\ UNCHANGED <<managerVars, busy, act, agreed, window>>

\* Yes to save's question: nothing is checked again but what SaveSettings checks.
\* save asks up to two; a second looks like the first, a step that changes nothing.
AnswerSave ==
    /\ Top("save")
    /\ \/ ReturnAndShow(Box("report", None)) /\ UNCHANGED <<listed, selected, editorVars>>
       \/ \E p \in Profile :
            /\ Saves(p) /\ stack' = Tail(stack)
            /\ IF Head(stack).destroy THEN editor' = "closed" /\ enabled' = TRUE
                                       ELSE editor' = p /\ UNCHANGED enabled
    /\ UNCHANGED <<managerVars, busy, act, agreed, window>>

\* close: refused while a task runs; unsaved changes are asked about.
closeEditor ==
    /\ InEditor
    /\ \/ busy /\ Show(Box("report", None)) /\ UNCHANGED editor
       \/ ~busy /\ Show(Box("change", None)) /\ UNCHANGED editor
       \/ ~busy /\ editor' = "closed" /\ enabled' = TRUE /\ UNCHANGED stack
    /\ UNCHANGED <<listed, selected, managerVars, busy, act, misfiled, agreed, window>>

\* allowProfileChange: yes saves first, and the editor stays when that fails.
AnswerChange(yes) ==
    /\ Top("change")
    /\ \/ /\ yes /\ UNCHANGED <<listed, selected, editorVars>>
          /\ \/ ReturnAndShow(Box("report", None))
             \/ /\ \E p \in Profile : Savable(p)
                /\ ReturnAndShow([Box("save", None) EXCEPT !.destroy = TRUE])
       \/ /\ stack' = Tail(stack) /\ editor' = "closed" /\ enabled' = TRUE
          /\ IF yes THEN \E p \in Profile : Savable(p) /\ Saves(p)
                    ELSE UNCHANGED <<listed, selected, misfiled>>
    /\ UNCHANGED <<managerVars, busy, act, agreed, window>>

\* cancelEditorChanges asks; yes loads the profile at w.selected again, whose
\* secrets may not be readable.
cancelEditorChanges ==
    /\ InEditor /\ ~busy /\ Show(Box("discard", None))
    /\ UNCHANGED <<listed, selected, managerVars, busy, act, editorVars, agreed, window>>

AnswerDiscard ==
    /\ Top("discard")
    /\ Return \/ (selected # None /\ ReturnAndShow(Box("report", None)))
    /\ editor' = IF selected = None THEN "new" ELSE selected
    /\ UNCHANGED <<listed, selected, managerVars, busy, act, misfiled, agreed, window>>

\* The connection test: refused, asked about, or started.
testConnection ==
    /\ InEditor /\ ~busy
    /\ \/ \E kind \in {"report", "test"} :
            Show(Box(kind, None)) /\ UNCHANGED <<busy, act, agreed>>
       \/ Task("test", {}, FALSE) /\ UNCHANGED boxVars
    /\ UNCHANGED <<listed, selected, managerVars, editorVars, window>>

-----------------------------------------------------------------------------
(* wmTaskDone and the boxes' answers.                                      *)

\* Mutant: wmTaskDone ends the busy state before it looks at what came.
AskNotBusy ==
    /\ window = "open" /\ Does("task", "disconnect", "ask")
    /\ act' = [act EXCEPT !["task"].pc = "asked"]
    /\ Show(Box("force", act["task"].cur))
    /\ busy' = FALSE
    /\ UNCHANGED <<listed, selected, managerVars, agreed, window, editorVars>>

\* The task asks whether to force: taskResult.confirm runs on the UI thread.
Ask ==
    /\ window = "open" /\ Does("task", "disconnect", "ask")
    /\ act' = [act EXCEPT !["task"].pc = "asked"]
    /\ Show(Box("force", act["task"].cur))
    /\ UNCHANGED <<listed, selected, managerVars, busy, agreed, window, editorVars>>

\* What a disconnect's callback shows: an error; what was forced; unless the
\* program exits, perhaps that the cache could not be scanned again.
Outcomes(t) ==
    {(IF t.failed THEN 1 ELSE 0) + (IF t.forced THEN 1 ELSE 0) + rescan :
        rescan \in IF t.exit THEN {0} ELSE {0, 1}}

\* An exit goes on when nothing failed and nothing was declined.
Leaves(t) == t.exit /\ ~t.failed /\ ~t.canceled

\* The first of n boxes; only the error's belongs to the window dialogOwner names.
Outcome(t, n) ==
    [Box(IF t.failed THEN "failed" ELSE "done", None) EXCEPT
        !.destroy = Leaves(t), !.more = n - 1]

\* Mutant: completion boxes are shown with busy off.
TaskDoneNotBusy ==
    LET t == act["task"]
    IN  /\ window = "open" /\ t.pc = "finished"
        /\ act' = [act EXCEPT !["task"] = NoAct]
        /\ busy' = FALSE
        /\ IF t.kind = "disconnect" /\ (t.failed \/ t.forced)
           THEN Show(Outcome(t, 1)) /\ UNCHANGED window
           ELSE UNCHANGED boxVars /\ window' = IF Leaves(t) THEN "destroyed" ELSE window
        /\ UNCHANGED <<listed, selected, managerVars, agreed, editorVars>>

\* A disconnect's outcome is shown with busy set again, and an exit ends the
\* program once it is acknowledged.
TaskDone ==
    LET t == act["task"]
    IN  /\ window = "open" /\ t.pc = "finished"
        /\ act' = [act EXCEPT !["task"] = NoAct]
        /\ \/ /\ t.kind = "disconnect"
              /\ \E n \in Outcomes(t) \ {0} : Show(Outcome(t, n))
              /\ busy' = TRUE /\ UNCHANGED window
           \/ /\ t.kind = "disconnect" /\ 0 \in Outcomes(t)
              /\ window' = IF Leaves(t) THEN "destroyed" ELSE window
              /\ busy' = FALSE /\ UNCHANGED boxVars
           \/ /\ t.kind # "disconnect"
              /\ busy' = FALSE /\ UNCHANGED window
              /\ IF t.failed \/ t.kind = "test" THEN Show(Box("report", None)) ELSE UNCHANGED boxVars
        /\ UNCHANGED <<listed, selected, managerVars, agreed, editorVars>>

\* An alert is closed, or a question answered with no.
Dismiss ==
    /\ \E kind \in {"report", "clear", "delete", "save", "change", "discard", "test"} : Top(kind)
    /\ Return
    /\ UNCHANGED <<listed, selected, managerVars, busy, act, agreed, window, editorVars>>

\* An outcome is acknowledged: the next one is shown, or the callback returns.
AnswerDone ==
    /\ Top("done") \/ Top("failed")
    /\ LET box == Head(stack)
       IN  \/ /\ box.more = 0 /\ Return /\ busy' = FALSE
              /\ window' = IF box.destroy THEN "destroyed" ELSE window
           \/ /\ box.more > 0
              /\ ReturnAndShow([box EXCEPT !.kind = "done", !.more = @ - 1])
              /\ UNCHANGED <<busy, window>>
    /\ UNCHANGED <<listed, selected, managerVars, act, agreed, editorVars>>

\* Mutant: the answer for one profile counts for the others.
AnswerForceForAll(yes) ==
    /\ Top("force")
    /\ Return
    /\ IF yes THEN agreed' = agreed \union {Head(stack).p}
              ELSE UNCHANGED agreed
    /\ act' = IF yes \/ agreed # {} THEN [act EXCEPT !["task"].pc = "force"]
              ELSE [Past("task", Head(stack).p) EXCEPT !["task"].canceled = TRUE]
    /\ UNCHANGED <<listed, selected, managerVars, busy, window, editorVars>>

AnswerForce(yes) ==
    /\ Top("force")
    /\ Return
    /\ IF yes THEN /\ act' = [act EXCEPT !["task"].pc = "force"]
                   /\ agreed' = agreed \union {Head(stack).p}
              ELSE /\ act' = [Past("task", Head(stack).p) EXCEPT !["task"].canceled = TRUE]
                   /\ UNCHANGED agreed
    /\ UNCHANGED <<listed, selected, managerVars, busy, window, editorVars>>

\* Yes: clearCache or the connection test goes on; w.task drops it when a task
\* has started meanwhile.
AnswerTask(kind) ==
    /\ Top(kind)
    /\ Return
    /\ IF busy THEN UNCHANGED <<busy, act, agreed>> ELSE Task(kind, {}, FALSE)
    /\ UNCHANGED <<listed, selected, managerVars, window, editorVars>>

\* Yes: deleteProfile removes the profile at w.selected; -1 is out of range.
AnswerDelete ==
    /\ Top("delete")
    /\ Return
    /\ \/ selected # None /\ listed' = listed \ {selected} /\ selected' = None /\ UNCHANGED window
       \/ selected = None /\ window' = "panicked" /\ UNCHANGED <<listed, selected>>
    /\ UNCHANGED <<managerVars, busy, act, agreed, editorVars>>

\* Yes, but the cache directory cannot be opened, or the settings not saved.
AnswerFails ==
    /\ Top("clear") \/ (Top("delete") /\ selected # None)
    /\ ReturnAndShow(Box("report", None))
    /\ UNCHANGED <<listed, selected, managerVars, busy, act, agreed, window, editorVars>>

-----------------------------------------------------------------------------
(* finishWindowsSession.                                                   *)

\* The UI thread waits for the goroutine and handles nothing any more: its boxes
\* and the editor end with the process, and the model forgets them here.
EndSession ==
    /\ window = "open" /\ window' = "ending"
    /\ act' = [act EXCEPT !["end"] = [NoAct EXCEPT !.kind = "disconnect", !.todo = listed]]
    /\ stack' = <<>> /\ enabled' = FALSE /\ editor' = "closed" /\ selected' = None
    /\ UNCHANGED <<listed, managerVars, busy, misfiled, agreed>>

\* The goroutine has finished, or the 2 s are over.
SessionEnded ==
    /\ window = "ending" /\ window' = "destroyed"
    /\ UNCHANGED <<listed, selected, managerVars, busy, act, boxVars, agreed, editorVars>>

Next ==
    \/ \E p \in Profile : ConnectSkip(p) \/ ConnectStart(p) \/ Toggle(p) \/ Select(p)
    \/ ConnectEnd
    \/ \E a \in Actor :
        \/ \E p \in Profile : DisconnectStart(a, p)
        \/ DisconnectEnd(a) \/ ForceStart(a) \/ ForceEnd(a) \/ Finish(a)
    \/ connectAll \/ clearCache \/ deleteProfile \/ newProfile \/ editProfile \/ SecretAcknowledged
    \/ \E exit \in BOOLEAN : disconnectAll(exit)
    \/ save \/ closeEditor \/ cancelEditorChanges \/ testConnection
    \/ Ask \/ TaskDone \/ Dismiss \/ AnswerDone \/ AnswerDelete
    \/ AnswerFails \/ AnswerSave \/ AnswerDiscard
    \/ \E kind \in {"clear", "test"} : AnswerTask(kind)
    \/ \E yes \in BOOLEAN : AnswerForce(yes) \/ AnswerChange(yes)
    \/ EndSession \/ SessionEnded

Spec == Init /\ [][Next]_vars

-----------------------------------------------------------------------------
(* Properties.                                                             *)

\* Every variable holds a value of its kind.
TypeOK ==
    /\ listed \subseteq Profile /\ selected \in Profile \union {None}
    /\ entries \in [Profile -> {"none", "connecting", "connected", "disconnecting"}]
    /\ mounted \subseteq Profile /\ busy \in BOOLEAN
    /\ act \in [Actor -> Act]
    /\ stack \in Seq(BoxType) /\ agreed \subseteq Profile
    /\ window \in {"open", "ending", "destroyed", "panicked"}
    /\ enabled \in BOOLEAN /\ editor \in Profile \union {"new", "closed"} /\ misfiled \subseteq Profile

\* Manager: a drive is mounted exactly while its entry says so, whichever of the
\* two goroutines connects, detaches or is refused; none is lost sight of.
EntryMatchesMount ==
    \A p \in Profile : p \in mounted <=> entries[p] \in {"connected", "disconnecting"}

\* Manager.disconnect: the task and the session-end goroutine never mount, close
\* or force-close one session at the same time.
OneAtATime ==
    \A p \in Profile, a, b \in Actor :
        (/\ act[a].cur = p /\ act[a].pc \in {"mounting", "closing", "forcing"}
         /\ act[b].cur = p /\ act[b].pc \in {"mounting", "closing", "forcing"}) => a = b

\* w.task: busy is set for as long as a task exists or its outcome is on show,
\* through nested message loops, so no command starts a second one.
BusyWhileTask ==
    act["task"].kind # "none" \/ (\E i \in DOMAIN stack : stack[i].kind \in {"done", "failed", "force"})
        => busy

\* disconnectProfiles: the task forces a drive off only after the user agreed to
\* that drive's forced detach.
ForceWithConsent ==
    act["task"].pc = "forcing" => act["task"].cur \in agreed

\* exit: the program ends by exit only when every listed drive is detached; no
\* tray command connects one again while the outcome is on show.
ExitDetached ==
    [][window = "open" /\ window' = "destroyed" => mounted' \intersect listed' = {}]_vars

\* save, handleListNotification: what was typed into the editor is saved to the
\* profile it was opened for, or to a new one, not to another profile.
SavedToEdited == misfiled = {}

\* deleteProfile: a connected profile's settings are not deleted.
DeletedIsInactive ==
    [][\A p \in listed \ listed' : Inactive(p)]_vars
====
