------------------------------ MODULE FrameLoops ------------------------------
(***************************************************************************)
(* The event loops of far/src/manager.cpp (EnterMainLoop, ExecuteModal,    *)
(* ExecuteNonModal, with Commit and ProcessMainLoop) and the code they     *)
(* call: the ProcessKey of a frame, or a function that another thread has  *)
(* asked to be run.  That code closes frames, opens them, switches between *)
(* them, and starts loops of its own; the loops in progress are a stack.   *)
(***************************************************************************)
EXTENDS FrameManager, FiniteSets

CONSTANTS
  MaxLoops,   \* bound: loops in progress
  Features    \* the optional clients at work, some of AllFeatures

(* nested: a plugin's FarEditor or FarViewer runs a loop for a frame that  *)
(* is not modal.  reopen: an editor is opened on a file that is edited     *)
(* already, and the old one is told to close.  background: functions run   *)
(* by DispatchInterThreadCalls.  quit: a plugin uses ECTL_QUIT or          *)
(* VCTL_QUIT.  switch: a plugin uses ACTL_SETCURRENTWINDOW without a       *)
(* following ACTL_COMMIT.  dmclose: DM_CLOSE is sent to a dialog that is   *)
(* not the current frame.  overmodal: a plugin uses FarEditor or           *)
(* FarViewer for a frame that is not modal, while a modal one is current.  *)
AllFeatures ==
  {"nested", "reopen", "background", "quit", "switch", "dmclose", "overmodal"}

ASSUME LoopsAssumption ==
  /\ MaxLoops \in Nat \ {0}
  /\ Features \subseteq AllFeatures

VARIABLES
  mgr,     \* the Manager and the frames
  loops,   \* the loops in progress, the running one last
  mode     \* what the running loop is doing

vars == <<mgr, loops, mode>>

(* loop: which of the three.  base: ModalStartLevel.  target: NonModal.    *)
(* owner: the automatic frame destroyed after the loop.  ev: it runs in    *)
(* ExecuteModalEV, for an editor or viewer, and ModalEVCount counts it.    *)
(* inside: it runs code for a key or a call, of frame handler.             *)
Loops == [loop    : {"main", "modal", "nonmodal"},
          base    : Nat,
          target  : AllFrames \cup {NoFrame},
          owner   : Frames \cup {NoFrame},
          ev      : BOOLEAN,
          inside  : BOOLEAN,
          handler : AllFrames \cup {NoFrame}]

(* commit, commit1: in Commit() or Commit(1).  test: the loop's condition. *)
(* key: ProcessMainLoop waits.  handle: that code runs.                    *)
Modes == {"commit", "commit1", "test", "key", "handle"}

NewLoopTooLow(which) ==
  [loop |-> which, base |-> Len(mgr.stack) - 1, target |-> NoFrame, owner |-> NoFrame,
   ev |-> FALSE, inside |-> FALSE, handler |-> NoFrame]

\* ModalStartLevel is the height of the stack before the new frame is on it
NewLoop(which) ==
  [loop |-> which, base |-> Len(mgr.stack), target |-> NoFrame, owner |-> NoFrame,
   ev |-> FALSE, inside |-> FALSE, handler |-> NoFrame]

TypeOK ==
  /\ mgr \in Managers
  /\ loops \in Seq(Loops)
  /\ Len(loops) \in 1..MaxLoops
  /\ mode \in Modes

Init ==
  /\ mgr = StartedManager
  /\ mode = "commit"
  /\ loops = <<[loop |-> "main", base |-> 0, target |-> NoFrame, owner |-> NoFrame,
                ev |-> FALSE, inside |-> FALSE, handler |-> NoFrame]>>

Top == Last(loops)

Leave(l) == [l EXCEPT !.inside = FALSE, !.handler = NoFrame]

\* The code the loop has called returns to it
LeftHandler == [loops EXCEPT ![Len(loops)] = Leave(@)]
-----------------------------------------------------------------------------
(* Commit: one action per round of its loop                                *)

Committing == mode \in {"commit", "commit1"}

\* After a round Commit(1) returns
NextRound ==
  IF mode = "commit" THEN UNCHANGED <<loops, mode>>
  ELSE loops' = LeftHandler /\ mode' = "commit"

Replacing == mgr.deleted # NoFrame /\ (mgr.inserted # NoFrame \/ mgr.executed # NoFrame)

CommitUpdate ==
  /\ Committing
  /\ Replacing
  /\ mgr' = UpdateCommit([mgr EXCEPT !.deleted = NoFrame, !.inserted = NoFrame,
                                     !.executed = NoFrame],
                         mgr.deleted, mgr.inserted, mgr.executed)
  /\ NextRound

CommitExecute ==
  /\ Committing
  /\ ~Replacing
  /\ mgr.executed # NoFrame
  /\ mgr' = ExecuteCommit([mgr EXCEPT !.executed = NoFrame], mgr.executed)
  /\ NextRound

CommitDelete ==
  /\ Committing
  /\ ~Replacing
  /\ mgr.deleted # NoFrame
  /\ mgr' = DeleteCommit([mgr EXCEPT !.deleted = NoFrame], mgr.deleted)
  /\ NextRound

CommitInsert ==
  /\ Committing
  /\ ~Replacing
  /\ mgr.executed = NoFrame
  /\ mgr.inserted # NoFrame
  /\ mgr' = InsertCommit([mgr EXCEPT !.inserted = NoFrame], mgr.inserted)
  /\ NextRound

\* What is left are requests about the focus
Structured == mgr.deleted = NoFrame /\ mgr.inserted = NoFrame /\ mgr.executed = NoFrame

CommitDeactivate ==
  /\ Committing
  /\ Structured
  /\ mgr.deactivated # NoFrame
  /\ LET taken == [mgr EXCEPT !.deactivated = NoFrame, !.activated = NoFrame]
     IN  mgr' = IF mgr.activated = NoFrame
                  THEN taken
                  ELSE ActivateCommit(DeactivateCommit(taken, mgr.deactivated, mgr.activated),
                                      mgr.activated)
  /\ NextRound

CommitActivate ==
  /\ Committing
  /\ Structured
  /\ mgr.deactivated = NoFrame
  /\ mgr.activated # NoFrame
  /\ mgr' = ActivateCommit([mgr EXCEPT !.activated = NoFrame], mgr.activated)
  /\ NextRound

\* RefreshCommit only paints
CommitRefresh ==
  /\ Committing
  /\ Structured
  /\ mgr.deactivated = NoFrame
  /\ mgr.activated = NoFrame
  /\ mgr.refreshed # NoFrame
  /\ mgr' = [mgr EXCEPT !.refreshed = NoFrame]
  /\ NextRound

NothingPending ==
  /\ Structured
  /\ mgr.deactivated = NoFrame
  /\ mgr.activated = NoFrame
  /\ mgr.refreshed = NoFrame

\* Commit returns: to the loop, or to the code the loop has called
CommitDone ==
  /\ Committing
  /\ NothingPending
  /\ UNCHANGED mgr
  /\ IF Top.inside
       THEN loops' = LeftHandler /\ mode' = "commit"
       ELSE UNCHANGED loops /\ mode' = "test"
-----------------------------------------------------------------------------
(* The loops                                                               *)

LoopEndsLate(l) ==
  \/ l.loop = "modal" /\ Len(mgr.stack) < l.base
  \/ l.loop = "nonmodal" /\ mgr.current # l.target

LoopEnds(l) ==
  \/ l.loop = "modal" /\ Len(mgr.stack) <= l.base
  \/ l.loop = "nonmodal" /\ mgr.current # l.target

LoopGoesOn ==
  /\ mode = "test"
  /\ ~LoopEnds(Top)
  /\ mode' = "key"
  /\ UNCHANGED <<mgr, loops>>

\* The function that has run the loop goes on; its automatic frame is
\* destroyed, whatever the manager still holds
LeaveLoop ==
  /\ mode = "test"
  /\ loops' = Front(loops)
  /\ mgr' = IF Top.owner = NoFrame THEN mgr ELSE Destroy(mgr, Top.owner)
  /\ mode' = "handle"

LoopReturns == LoopEnds(Top) /\ LeaveLoop

\* ProcessKey of the current frame, or a function of another thread
Handle ==
  /\ mode = "key"
  /\ \E f \in {mgr.current} \cup (IF "background" \in Features THEN {NoFrame} ELSE {}) :
       loops' = [loops EXCEPT ![Len(loops)].inside = TRUE,
                              ![Len(loops)].handler = f]
  /\ mode' = "handle"
  /\ UNCHANGED mgr
-----------------------------------------------------------------------------
(* What that code does.  It may run any number of modal loops, one after   *)
(* the other, and ends with at most one request.                           *)

Free == CanLoseFocus(mgr, mgr.current)

Closable == mgr.current \notin {Panels, NoFrame}

Running == mode = "handle" /\ mgr.current # NoFrame

Unused(f) == f \notin mgr.live

RequestAtOnce(m, commits) ==
  /\ mgr' = m
  /\ mode' = "commit"
  /\ UNCHANGED loops

\* A request is left for the loop's Commit, or the code calls Commit itself
Request(m, commits) ==
  /\ mgr' = m
  /\ mode' = "commit"
  /\ loops' = IF commits THEN loops ELSE LeftHandler

HandlerReturns == mode = "handle" /\ Request(mgr, FALSE)

EnterLoop(m, l) ==
  /\ Len(loops) < MaxLoops
  /\ mgr' = m
  /\ loops' = Append(loops, l)
  /\ mode' = "commit"

RunModalLoop(m, f, ev) ==
  EnterLoop(ExecuteFrame(m, f),
            [NewLoop("modal") EXCEPT !.owner = IF Born(m, f) THEN NoFrame ELSE f, !.ev = ev])

\* Dialog::Process and Help, or a modal FileEditor or FileViewer
OpenModal(f, k, ev) ==
  /\ Running
  /\ Unused(f)
  /\ k = "heap" => ev
  /\ RunModalLoop(New(mgr, f, k), f, ev)

InModalEV == \E n \in DOMAIN loops : loops[n].ev

\* A FileEditor, FileViewer or dialog that can lose focus: of the panels and
\* of frames like itself, or of a plugin, which is asked for InModalEV only
MayOpen == Running /\ (Free \/ ("overmodal" \in Features /\ ~InModalEV))

OpenScreen(f, commits) ==
  /\ MayOpen
  /\ Unused(f)
  /\ Request(InsertFrame(New(mgr, f, "screen"), f), commits)

RunScreenLoop(m, f) == EnterLoop(m, [NewLoop("nonmodal") EXCEPT !.target = f])

\* FarEditor and FarViewer without IMMEDIATERETURN: ExecuteNonModal
RunScreen(f) ==
  /\ "nested" \in Features
  /\ MayOpen
  /\ Unused(f)
  /\ RunScreenLoop(InsertCommit(New(mgr, f, "screen"), f), f)

\* FileEditor::Init finds the file in an editor of the list
SwitchToOpened(f, commits) ==
  /\ MayOpen
  /\ InList(mgr, f)
  /\ Request(ActivateFrame(mgr, f), commits)

RunOpened(f) ==
  /\ "nested" \in Features
  /\ MayOpen
  /\ InList(mgr, f)
  /\ RunScreenLoop(ActivateFrame(mgr, f), f)

\* ... and the user wants it loaded again
Reload(f, g) ==
  /\ "reopen" \in Features
  /\ MayOpen
  /\ InList(mgr, f)
  /\ Unused(g)
  /\ Request(InsertFrame(New(DeleteFrame(mgr, f), g, "screen"), g), FALSE)

\* ... and a message box comes up before the new editor is ready
ReloadWithMessage(f, g) ==
  /\ "reopen" \in Features
  /\ MayOpen
  /\ InList(mgr, f)
  /\ Unused(g)
  /\ RunModalLoop(New(DeleteFrame(mgr, f), g, "auto"), g, FALSE)

\* Escape in an editor or viewer, or in a dialog
Close ==
  /\ Running
  /\ Closable
  /\ Request(DeleteFrame(mgr, mgr.current), FALSE)

\* CloseDialog of a dialog that is not born dynamically: Commit(1)
CloseDialog(f) ==
  /\ Running
  /\ InStack(mgr, f)
  /\ mgr.kind[f] = "auto"
  /\ f = mgr.current \/ "dmclose" \in Features
  /\ mgr' = DeleteFrame(mgr, f)
  /\ mode' = "commit1"
  /\ UNCHANGED loops

\* F6: an editor is replaced by a viewer, or a viewer by an editor
SwitchEditorViewer(f) ==
  /\ Running
  /\ Closable
  /\ Unused(f)
  /\ LET closing == DeleteFrame(mgr, mgr.current)
     IN  Request(IF Free THEN InsertFrame(New(closing, f, "screen"), f)
                         ELSE ExecuteFrame(New(closing, f, "heap"), f), FALSE)

CtrlTab(direction) ==
  /\ Running
  /\ Free
  /\ Request(DeactivateTowards(mgr, mgr.current, direction), FALSE)

\* F12: a frame of the list is chosen, or none (FrameMenu)
ScreensMenu(f) ==
  /\ Running
  /\ Free
  /\ f = NoFrame \/ InList(mgr, f)
  /\ LET chosen == ActivateFrame(mgr, f)
         left   == IF chosen.activated = mgr.current THEN NoFrame ELSE mgr.current
     IN  Request(DeactivateFrame(chosen, left), FALSE)

SwitchToPanels == Running /\ Free /\ Request(ActivateIndex(mgr, 0), FALSE)

Repaint(commits) == Running /\ Request(RefreshFrame(mgr), commits)

\* ACTL_SETCURRENTWINDOW with ACTL_COMMIT, or without it
SetCurrentWindow(i, commits) ==
  /\ Running
  /\ ~InModalEV /\ Free
  /\ FrameAt(mgr, i) # NoFrame
  /\ LET switched == DeactivateFrame(ActivateIndex(mgr, i), mgr.current)
     IN  IF commits
           THEN Request(switched, TRUE)
           ELSE /\ "switch" \in Features
                /\ mgr' = switched
                /\ UNCHANGED <<loops, mode>>

\* ECTL_QUIT and VCTL_QUIT: DeleteFrame(this), Commit()
QuitEditor ==
  /\ "quit" \in Features
  /\ Running
  /\ Closable
  /\ Request(DeleteFrame(mgr, mgr.current), TRUE)
-----------------------------------------------------------------------------
CommitStep ==
  \/ CommitUpdate \/ CommitExecute \/ CommitDelete \/ CommitInsert
  \/ CommitDeactivate \/ CommitActivate \/ CommitRefresh \/ CommitDone

LoopStep == LoopGoesOn \/ LoopReturns

HandlerStep ==
  \/ HandlerReturns
  \/ \E f \in Frames, k \in {"heap", "auto"}, ev \in BOOLEAN : OpenModal(f, k, ev)
  \/ \E f \in Frames, commits \in BOOLEAN : OpenScreen(f, commits)
  \/ \E f \in Frames : RunScreen(f)
  \/ \E f \in Frames, commits \in BOOLEAN : SwitchToOpened(f, commits)
  \/ \E f \in Frames : RunOpened(f)
  \/ \E f, g \in Frames : Reload(f, g) \/ ReloadWithMessage(f, g)
  \/ Close
  \/ \E f \in Frames : CloseDialog(f) \/ SwitchEditorViewer(f)
  \/ \E direction \in {1, -1} : CtrlTab(direction)
  \/ \E f \in AllFrames \cup {NoFrame} : ScreensMenu(f)
  \/ SwitchToPanels
  \/ \E commits \in BOOLEAN : Repaint(commits)
  \/ \E i \in 0..Cardinality(Frames) , commits \in BOOLEAN :
       SetCurrentWindow(i, commits)
  \/ QuitEditor

Next == CommitStep \/ LoopStep \/ Handle \/ HandlerStep

Spec == Init /\ [][Next]_vars

\* Commit and the test of a loop run to their ends; users need not press keys
FairSpec == Spec /\ WF_vars(CommitStep \/ LoopStep)
-----------------------------------------------------------------------------
(* Properties                                                              *)

Slots == {mgr.inserted, mgr.deleted, mgr.activated, mgr.deactivated, mgr.executed}

\* Every frame the manager will dereference exists: in its list and stack, as
\* the current frame, in a request, or as the frame another goes back to.
NoDanglingFrame ==
  ToSet(mgr.list) \cup ToSet(mgr.stack) \cup Slots \cup {mgr.current}
    \cup {mgr.back[f] : f \in ToSet(mgr.list)} \subseteq mgr.live \cup {NoFrame}

\* A frame is in one place: once in the list if it can lose focus, once in the
\* stack if it is modal; the panels are the first of the list from the start.
EachInItsPlace ==
  /\ IsInjective(mgr.list) /\ IsInjective(mgr.stack)
  /\ \A f \in ToSet(mgr.list) : CanLoseFocus(mgr, f)
  /\ \A f \in ToSet(mgr.stack) : ~CanLoseFocus(mgr, f)
  /\ mode = "key" => mgr.list[1] = Panels

\* Modality: keys go to the top of the modal stack, and to the frame at
\* FramePos only when no modal frame is open.
KeysGoToTop ==
  mode = "key" =>
    mgr.current = IF mgr.stack = <<>> THEN FrameAt(mgr, mgr.pos) ELSE Last(mgr.stack)

\* A modal loop that takes keys or calls code still has its frame on the
\* stack, above those of the loops below it.
ModalLoopsNest ==
  \A n \in DOMAIN loops :
    loops[n].loop = "modal" /\ (n < Len(loops) \/ mode \in {"key", "handle"}) =>
      /\ Len(mgr.stack) > loops[n].base
      /\ \A k \in 1..(n - 1) : loops[k].loop = "modal" => loops[k].base < loops[n].base

\* No frame is forgotten: one that exists is in the list, in the stack or
\* requested, or belongs to a function that runs a loop for it.
NoLostFrame ==
  mgr.live \subseteq ToSet(mgr.list) \cup ToSet(mgr.stack)
    \cup {mgr.inserted, mgr.executed} \cup {loops[n].owner : n \in DOMAIN loops}

\* A plugin gets a frame that is not modal, or makes one current, over a modal one
OpensOverModal ==
  /\ Running /\ ~Free
  /\ \/ \E f \in Frames, commits \in BOOLEAN : OpenScreen(f, commits)
     \/ \E f \in Frames : RunScreen(f)
     \/ \E f \in Frames, commits \in BOOLEAN : SwitchToOpened(f, commits)
     \/ \E f \in Frames : RunOpened(f)
     \/ \E f, g \in Frames : Reload(f, g) \/ ReloadWithMessage(f, g)

\* A frame of the list runs a loop of its own (ExecuteNonModal), an editor is closed for
\* another one of the same file, or by ECTL_QUIT: by these the code destroys frames whose
\* ProcessKey runs
ClientsOwn ==
  \/ \E f \in Frames : RunScreen(f) \/ RunOpened(f)
  \/ \E f, g \in Frames : Reload(f, g) \/ ReloadWithMessage(f, g)
  \/ QuitEditor

\* Where frames may be, together
EveryFrameInItsPlace == NoDanglingFrame /\ EachInItsPlace /\ NoLostFrame

\* A frame is not destroyed under its own ProcessKey, whatever loops run in it:
\* the request to delete it waits for the Commit of the loop that called it.
HandlersFrameLives ==
  \A n \in DOMAIN loops : loops[n].handler \in mgr.live \cup {NoFrame}

=============================================================================
