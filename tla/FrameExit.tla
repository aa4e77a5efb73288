------------------------------- MODULE FrameExit -------------------------------
(***************************************************************************)
(* How far2l is left (far/src/manager.cpp: ExitMainLoop, ExitAll, CloseAll *)
(* and EndLoop): in the middle of whatever loops FrameLoops describes, the *)
(* user closes the window, and the innermost loop finds that out while it  *)
(* waits for a key.  ExitAll closes the modal frames and the editors with  *)
(* unsaved changes one after the other, as if Escape were pressed in them; *)
(* the user may go on with one of them, and then far2l goes on as well.    *)
(* Otherwise the loops are left, the innermost first, and the rest of the  *)
(* frames is destroyed.                                                    *)
(*                                                                         *)
(* A definition right before another one and named after it is a wrong     *)
(* version of it that nothing uses.                                        *)
(***************************************************************************)
EXTENDS FrameLoops

VARIABLES
  modified,   \* the editors with unsaved changes
  closeFar,   \* CloseFAR
  down,       \* EndLoop: ManagerIsDown
  exit        \* where ExitAll or CloseAll is

exitVars == <<mgr, loops, mode, modified, closeFar, down, exit>>

(* at: no, neither of the two; modals and screens, the loops of ExitAll,   *)
(* closing, the Commit after an Escape in one of them; chosen, the Commit  *)
(* after an editor of the list is activated, and escape, the Escape in it; *)
(* all, CloseAll, and closed, its end.  i: the loop's index, from 1.       *)
(* count: PrevFrameCount.                                                  *)
Places == {"no", "modals", "modalClosing", "screens", "chosen", "escape", "screenClosing",
           "all", "closed"}

ExitTypeOK ==
  /\ mgr \in Managers /\ loops \in Seq(Loops)
  /\ mode \in Modes \cup {"exit"}
  /\ modified \subseteq mgr.live
  /\ closeFar \in BOOLEAN /\ down \in BOOLEAN
  /\ exit \in [at : Places, i : Nat, count : Nat]

Nowhere == [at |-> "no", i |-> 0, count |-> 0]

ExitInit ==
  /\ Init
  /\ modified = {} /\ closeFar = FALSE /\ down = FALSE /\ exit = Nowhere

\* An editor that is destroyed has no changes left
Remaining == modified \cap mgr'.live

-----------------------------------------------------------------------------
(* What goes on as before                                                  *)

RoundOfCommit ==
  /\ CommitUpdate \/ CommitExecute \/ CommitDelete \/ CommitInsert
     \/ CommitDeactivate \/ CommitActivate \/ CommitRefresh
  /\ modified' = Remaining
  /\ UNCHANGED <<closeFar, down, exit>>

\* Commit returns to the loop or to the code it has called, but not to ExitAll
CommitReturns ==
  /\ exit.at = "no"
  /\ CommitDone
  /\ UNCHANGED <<modified, closeFar, down, exit>>

\* The main loop and the one around a frame that is not modal look at EndLoop
SeesEndLoop(l) == down /\ l.loop \in {"main", "nonmodal"}

LoopStepOf ==
  /\ \/ ~SeesEndLoop(Top) /\ LoopGoesOn
     \/ LoopReturns
     \/ Top.loop # "main" /\ SeesEndLoop(Top) /\ LeaveLoop
  /\ modified' = Remaining
  /\ UNCHANGED <<closeFar, down, exit>>

Alive == Top.handler \in mgr.live \cup {NoFrame}

\* ProcessMainLoop: the key is read, and dropped after EndLoop
Key ==
  /\ mode = "key" /\ ~closeFar
  /\ \/ ~down /\ Handle
     \/ down /\ mode' = "commit" /\ UNCHANGED <<mgr, loops>>
  /\ UNCHANGED <<modified, closeFar, down, exit>>

\* The plugins' functions do nothing when ManagerIsDown, and a function of far2l
\* itself whose dialog was cancelled returns
Act ==
  /\ HandlerReturns \/ (~down /\ Alive /\ HandlerStep)
  /\ modified' = Remaining
  /\ UNCHANGED <<closeFar, down, exit>>

\* Text is typed into an editor
Edit ==
  /\ Running /\ Alive /\ ~down
  /\ Closable /\ mgr.kind[mgr.current] \in {"screen", "heap"}
  /\ modified' = modified \cup {mgr.current}
  /\ Request(mgr, FALSE)
  /\ UNCHANGED <<closeFar, down, exit>>

-----------------------------------------------------------------------------
(* ExitMainLoop and ExitAll                                                *)

\* CtrlHandler: the window is closed
CloseWindow ==
  /\ ~closeFar /\ ~down
  /\ closeFar' = TRUE
  /\ UNCHANGED <<mgr, loops, mode, modified, down, exit>>

At(place, i, count) == exit' = [at |-> place, i |-> i, count |-> count]

\* GetInputRecord calls ExitMainLoop(false)
ExitMainLoop ==
  /\ mode = "key" /\ closeFar /\ exit.at = "no"
  /\ closeFar' = FALSE
  /\ mode' = "exit" /\ At("modals", Len(mgr.stack), 0)
  /\ UNCHANGED <<mgr, loops, modified, down>>

\* ExitAll has returned; when all is closed the panels' plugins may still say no to
\* FE_CLOSE.  The key that GetInputRecord gives is KEY_NONE
ExitAllReturns(all) ==
  /\ down' \in {FALSE, all}
  /\ mode' = "commit" /\ exit' = Nowhere
  /\ UNCHANGED <<mgr, loops, modified, closeFar>>

\* ProcessKey(KEY_ESC) of the current frame f: an editor asks what to do with the
\* changes, and the user may go on with it
Escape(f, place) ==
  /\ \/ mgr' = DeleteFrame(mgr, f) /\ modified' = modified \ {f}
     \/ f \in modified /\ UNCHANGED <<mgr, modified>>
  /\ mode' = "commit"
  /\ UNCHANGED <<loops, closeFar, down>>

\* A modal frame, from the top of the stack
ExitModals ==
  /\ mode = "exit" /\ exit.at = "modals"
  /\ \/ /\ exit.i > 0
        /\ Escape(mgr.stack[exit.i], "modalClosing")
        /\ At("modalClosing", exit.i, Len(mgr.stack))
     \/ /\ exit.i = 0
        /\ At("screens", Len(mgr.list), 0)
        /\ UNCHANGED <<mgr, loops, mode, modified, closeFar, down>>

\* The frames of the list from the last one: those with changes are activated first
ExitScreens ==
  /\ mode = "exit" /\ exit.at = "screens"
  /\ \/ /\ exit.i > 0 /\ mgr.list[exit.i] \in modified
        /\ mgr' = ActivateFrame(mgr, mgr.list[exit.i])
        /\ mode' = "commit" /\ At("chosen", exit.i, 0)
        /\ UNCHANGED <<loops, modified, closeFar, down>>
     \/ /\ exit.i > 0 /\ mgr.list[exit.i] \notin modified
        /\ At("screens", exit.i - 1, 0)
        /\ UNCHANGED <<mgr, loops, mode, modified, closeFar, down>>
     \/ exit.i = 0 /\ ExitAllReturns(TRUE)

ExitEscape ==
  /\ mode = "exit" /\ exit.at = "escape"
  /\ Escape(mgr.current, "screenClosing")
  /\ At("screenClosing", exit.i, Len(mgr.list))

ExitCommittedHeedless ==
  /\ Committing /\ NothingPending /\ exit.at \notin {"no", "all", "closed"}
  /\ mode' = "exit"
  /\ CASE exit.at = "chosen"        -> At("escape", exit.i, 0)
       [] exit.at = "modalClosing"  -> At("modals", exit.i - 1, 0)
       [] exit.at = "screenClosing" -> At("screens", exit.i - 1, 0)
  /\ UNCHANGED <<mgr, loops, modified, closeFar, down>>

\* The Commit that ExitAll has called returns to it
ExitCommitted ==
  /\ Committing /\ NothingPending /\ exit.at \notin {"no", "all", "closed"}
  /\ LET left == IF exit.at = "modalClosing" THEN Len(mgr.stack) ELSE Len(mgr.list)
     IN  \/ /\ exit.at = "chosen"
            /\ mode' = "exit" /\ At("escape", exit.i, 0)
            /\ UNCHANGED <<mgr, loops, modified, closeFar, down>>
         \/ /\ exit.at # "chosen" /\ left # exit.count
            /\ mode' = "exit"
            /\ At(IF exit.at = "modalClosing" THEN "modals" ELSE "screens", exit.i - 1, 0)
            /\ UNCHANGED <<mgr, loops, modified, closeFar, down>>
         \/ exit.at # "chosen" /\ left = exit.count /\ ExitAllReturns(FALSE)

-----------------------------------------------------------------------------
(* The end                                                                 *)

\* EnterMainLoop returns, and ControlObject is destroyed
LeaveMainLoop ==
  /\ mode = "test" /\ Top.loop = "main" /\ down
  /\ mode' = "exit" /\ At("all", 0, 0)
  /\ UNCHANGED <<mgr, loops, modified, closeFar, down>>

CloseOne(f) ==
  /\ mgr' = [DeleteCommit(mgr, f) EXCEPT !.deleted = NoFrame]
  /\ modified' = Remaining
  /\ UNCHANGED exit

\* CloseAll, and the panels are among the frames
CloseAll ==
  /\ mode = "exit" /\ exit.at = "all"
  /\ \/ mgr.stack # <<>> /\ CloseOne(Last(mgr.stack))
     \/ mgr.stack = <<>> /\ mgr.list # <<>> /\ CloseOne(Last(mgr.list))
     \/ /\ mgr.stack = <<>> /\ mgr.list = <<>>
        /\ mgr' = [mgr EXCEPT !.pos = 0]
        /\ At("closed", 0, 0)
        /\ UNCHANGED modified
  /\ UNCHANGED <<loops, mode, closeFar, down>>

-----------------------------------------------------------------------------
ExitStep == ExitMainLoop \/ ExitModals \/ ExitScreens \/ ExitEscape \/ ExitCommitted

Closing == LeaveMainLoop \/ CloseAll

UserExitStep == CloseWindow \/ Edit

ExitNext ==
  \/ RoundOfCommit \/ CommitReturns \/ LoopStepOf \/ Key \/ Act
  \/ ExitStep \/ Closing \/ UserExitStep

ExitSpec == ExitInit /\ [][ExitNext]_exitVars

\* Commit, the loops and functions that are being left go on; users need not act
Unattended ==
  \/ RoundOfCommit \/ CommitReturns \/ LoopStepOf \/ ExitStep \/ Closing
  \/ (down /\ (Key \/ Act))

FairExitSpec == ExitSpec /\ WF_exitVars(Unattended)

-----------------------------------------------------------------------------
(* Properties                                                              *)

\* ExitAll: "it returns TRUE if everything is closed and far can be left": whatever is
\* opened and changed before, no unsaved change is left when the program is going down.
NothingUnsaved == down => modified = {}

\* What FrameLoops says about the manager's pointers holds after ExitAll has closed some
\* frames, whether or not the program goes on; CloseAll leaves no frame behind.
NoDanglingAtExit ==
  /\ ToSet(mgr.list) \cup ToSet(mgr.stack) \subseteq mgr.live
  /\ exit.at \notin {"all", "closed"} => NoDanglingFrame
  /\ exit.at = "closed" => mgr.live = {}

=============================================================================
