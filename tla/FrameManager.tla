----------------------------- MODULE FrameManager -----------------------------
(***************************************************************************)
(* far/src/manager.cpp: the members of class Manager, the requests that    *)
(* fill its pending slots, and the functions by which Commit carries a     *)
(* request out.  A value m is the Manager together with the frames; each   *)
(* operator gives the value the method of the same name leaves behind.     *)
(* The loops that call them, and their clients, are in FrameLoops.         *)
(*                                                                         *)
(* An uncommented definition right before another one and named after it   *)
(* (ForgetBackNever before ForgetBack) is a wrong version of it that       *)
(* nothing uses: the README says which property each breaks.               *)
(***************************************************************************)
EXTENDS Integers, Sequences, SequencesExt

CONSTANTS
  Panels,   \* CtrlObject->Cp(), the file panels
  Frames,   \* storage for the other frames, reused after destruction
  NoFrame   \* nullptr

ASSUME FramesAssumption == Panels \notin Frames /\ NoFrame \notin Frames \cup {Panels}

AllFrames == Frames \cup {Panels}

(* panels: the panels.  screen: an editor, viewer or dialog that can lose  *)
(* focus.  heap: a modal editor or viewer that the manager deletes.  auto: *)
(* a modal frame whose DynamicallyBorn is false, an object on the stack of *)
(* the function that runs it.                                              *)
Kinds == {"panels", "screen", "heap", "auto"}

Managers == [
  list        : Seq(AllFrames),                    \* FrameList
  pos         : Int,                               \* FramePos, from 0
  stack       : Seq(AllFrames),                    \* ModalStack
  inserted    : AllFrames \cup {NoFrame},
  deleted     : AllFrames \cup {NoFrame},
  activated   : AllFrames \cup {NoFrame},
  deactivated : AllFrames \cup {NoFrame},
  refreshed   : AllFrames \cup {NoFrame},
  executed    : AllFrames \cup {NoFrame},
  current     : AllFrames \cup {NoFrame},          \* CurrentFrame
  live        : SUBSET AllFrames,                  \* the frame objects that exist
  kind        : [AllFrames -> Kinds],
  back        : [AllFrames -> AllFrames \cup {NoFrame}]]  \* FrameToBack

\* After CtrlObject::Init has created the panels and called InsertFrame
StartedManager == [
  list |-> <<>>, pos |-> -1, stack |-> <<>>,
  inserted |-> Panels, deleted |-> NoFrame, activated |-> NoFrame,
  deactivated |-> NoFrame, refreshed |-> NoFrame, executed |-> NoFrame,
  current |-> NoFrame, live |-> {Panels},
  kind |-> [f \in AllFrames |-> IF f = Panels THEN "panels" ELSE "screen"],
  back |-> [f \in AllFrames |-> NoFrame]]

InList(m, f) == Contains(m.list, f)
InStack(m, f) == Contains(m.stack, f)

\* From 1, and of the first, should there be several
IndexOfList(m, f) == SelectInSeq(m.list, LAMBDA g : g = f)

\* operator[]: the list is numbered from 0
FrameAt(m, i) == IF i \in 0..(Len(m.list) - 1) THEN m.list[i + 1] ELSE NoFrame

CanLoseFocus(m, f) == m.kind[f] \in {"panels", "screen"}

New(m, f, k) == [m EXCEPT !.live = @ \cup {f}, !.kind[f] = k]

\* The memory of f is gone; what it held is kept in one form
Destroy(m, f) ==
  [m EXCEPT !.live = @ \ {f}, !.kind[f] = "screen", !.back[f] = NoFrame]

-----------------------------------------------------------------------------
(* Requests                                                                *)

InsertFrame(m, f) == [m EXCEPT !.inserted = f]

DeleteFrame(m, f) == [m EXCEPT !.deleted = f]

ExecuteFrame(m, f) == [m EXCEPT !.executed = f]

\* An ActivatedFrame already chosen is kept
ActivateFrame(m, f) ==
  IF m.activated = NoFrame /\ (InList(m, f) \/ InStack(m, f))
    THEN [m EXCEPT !.activated = f]
    ELSE m

ActivateIndex(m, i) == ActivateFrame(m, FrameAt(m, i))

DeactivateFrame(m, f) == [m EXCEPT !.deactivated = f]

\* The next (1) or the previous (-1) frame of the list, around its ends
Neighbour(m, direction) == (m.pos + direction) % Len(m.list)

DeactivateTowards(m, f, direction) ==
  LET moved == [m EXCEPT !.pos = Neighbour(m, direction)]
  IN  DeactivateFrame(ActivateIndex(moved, moved.pos), f)

RefreshFrame(m) ==
  IF m.activated = NoFrame THEN [m EXCEPT !.refreshed = m.current] ELSE m

-----------------------------------------------------------------------------
(* Carrying them out                                                       *)

\* f becomes the current frame; a frame of the stack gets to its top
Focus(m, f) ==
  [m EXCEPT
    !.pos       = IF InList(m, f) THEN IndexOfList(m, f) - 1 ELSE @,
    !.back[f]   = IF InList(m, f) /\ InList(m, m.current) THEN m.current ELSE @,
    !.stack     = IF InStack(m, f) THEN Append(RemoveFirst(@, f), f) ELSE @,
    !.refreshed = f,
    !.current   = f]

ActivateCommitAgain(m, f) ==
  IF m.current = f THEN [m EXCEPT !.activated = f] ELSE Focus(m, f)

ActivateCommit(m, f) ==
  IF m.current = f THEN [m EXCEPT !.refreshed = f] ELSE Focus(m, f)

\* Both its cases are for a deactivated frame that is on top of the stack
DeactivateCommit(m, f, toActivate) ==
  IF m.stack = <<>> \/ Last(m.stack) # f THEN m
  ELSE [m EXCEPT !.stack = IF InStack(m, toActivate)
                             THEN Front(@)
                             ELSE ReplaceAt(@, Len(@), toActivate)]

InsertCommit(m, f) ==
  LET linked == [m EXCEPT !.back[f] = m.current, !.list = Append(@, f)]
  IN  IF m.activated = NoFrame THEN [linked EXCEPT !.activated = f] ELSE linked

ExecuteCommit(m, f) == [m EXCEPT !.stack = Append(@, f), !.activated = f]

\* The frame a closed one gives the focus to, when there is a modal one
ActivateTop(m) == IF m.stack = <<>> THEN m ELSE ActivateFrame(m, Last(m.stack))

Unstack(m, f) ==
  IF InStack(m, f) THEN ActivateTop([m EXCEPT !.stack = RemoveFirst(@, f)]) ELSE m

ForgetBackNever(m, f) == m

\* The frames that would have gone back to f go back to the panels
ForgetBack(m, f) ==
  [m EXCEPT !.back = [g \in AllFrames |->
     IF InList(m, g) /\ m.back[g] = f THEN Panels ELSE m.back[g]]]

Unlist(m, f) ==
  IF ~InList(m, f) THEN m
  ELSE LET shorter == RemoveFirst(m.list, f)
           erased  == [m EXCEPT !.list = shorter,
                                !.pos = IF @ >= Len(shorter) THEN 0 ELSE @]
           \* the storage of an empty list still holds the frame erased last
           nearest == IF shorter = <<>> THEN f ELSE erased.list[erased.pos + 1]
       IN  ActivateFrame(erased, IF m.back[f] = Panels THEN nearest ELSE m.back[f])

Born(m, f) == m.kind[f] # "auto"

\* `delete aFrame`; an automatic frame is destroyed by its function later
Bury(m, f) ==
  IF Born(m, f)
    THEN Destroy([m EXCEPT !.current = IF @ = f THEN NoFrame ELSE @,
                           !.deleted = NoFrame], f)
    ELSE m

DeleteCommit(m, f) ==
  LET gone == Bury(Unlist(ForgetBack(Unstack(m, f), f), f), f)
  IN  IF gone.stack # <<>> THEN ActivateTop(gone) ELSE ActivateIndex(gone, gone.pos)

\* A frame is replaced: by a modal one, or by one that takes its place in
\* the list.  (Nothing at all happens when there is no such place.)
UpdateCommit(m, f, toInsert, toExecute) ==
  CASE toExecute # NoFrame -> ExecuteCommit(DeleteCommit(m, f), toExecute)
    [] toExecute = NoFrame /\ InList(m, f) ->
         LET replaced  == [m EXCEPT !.list = ReplaceAt(@, IndexOfList(m, f), toInsert)]
             activated == ActivateFrame(replaced, toInsert)
         IN  DeleteCommit([activated EXCEPT !.back[activated.activated] = m.current], f)
    [] OTHER -> m
=============================================================================
