-------------------------------- MODULE MCFrames --------------------------------
(***************************************************************************)
(* The panels and a few more frames: as the program goes on ("loops"), the *)
(* same without what destroys frames under their handlers ("handlers"),    *)
(* and as it is left ("exit"), which keeps unsaved changes in mind.        *)
(***************************************************************************)
EXTENDS FrameExit, TLC

CONSTANTS
  Parts,      \* those that a run looks at
  f1, f2, f3

VARIABLES
  part,
  over   \* history: a plugin has opened a frame that is not modal over a modal one

Symmetry == Permutations(Frames)

-----------------------------------------------------------------------------
leaving == <<modified, closeFar, down, exit>>
framesVars == <<part, over, exitVars>>

FramesInit == part \in Parts /\ over = FALSE /\ ExitInit

FramesNext ==
  /\ UNCHANGED part
  /\ \/ part = "loops" /\ Next /\ UNCHANGED leaving
     \/ part = "handlers" /\ Next /\ ~ClientsOwn /\ UNCHANGED leaving
     \/ part = "exit" /\ ExitNext
     \/ exit.at = "closed" /\ UNCHANGED exitVars
  /\ over' = (over \/ OpensOverModal)

FramesSpec == FramesInit /\ [][FramesNext]_framesVars

\* Commit and the loops go on
Onwards ==
  \/ part = "loops" /\ (CommitStep \/ LoopStep) /\ UNCHANGED leaving
  \/ part = "exit" /\ Unattended

FramesFairSpec == FramesSpec /\ WF_exitVars(Onwards)

-----------------------------------------------------------------------------
\* What holds as long as the program goes on, whatever is opened and closed, and what of
\* it is left when it is being left, in the middle of whatever loops.
FramesTypeOK == ExitTypeOK /\ (part # "exit" => TypeOK)

\* Where frames are, until a plugin has opened one that is not modal over a modal one
FramesAreKept ==
  ~over => /\ part # "exit" => EveryFrameInItsPlace
           /\ part = "exit" => NoDanglingAtExit

\* What keys lead to and which loop takes them, until then
LoopsNest == part # "exit" /\ ~over => KeysGoToTop /\ ModalLoopsNest

\* A frame whose key handler runs is not destroyed under it, until then
HandlersLive == part = "handlers" /\ ~over => HandlersFrameLives

\* Commit comes to an end.  And once the program goes down, the loops in progress end and
\* the frames are destroyed.  As "part" stays what it is, both are said in one.
CommitAndExitEnd ==
  (IF part = "loops" THEN Committing ELSE down)
    ~> IF part = "loops" THEN ~Committing ELSE exit.at = "closed"
=============================================================================
