----------------------------- MODULE FramesProof ------------------------------
(***************************************************************************)
(* Proofs about FrameLoops and FrameExit, as MCFrames has them side by     *)
(* side, for any frames and any number of loops: what the code that a loop *)
(* calls may leave to Commit; which frames belong to loops; how high the   *)
(* modal stack is when a loop takes keys; and how far ExitAll has come.    *)
(*                                                                         *)
(* Two clients are left out everywhere, as what the manager promises fails *)
(* with them: ACTL_SETCURRENTWINDOW without ACTL_COMMIT, and DM_CLOSE sent *)
(* to a dialog behind another one.  A third, a plugin that opens a frame   *)
(* that is not modal over a modal one, is at work until it has done so.    *)
(***************************************************************************)
EXTENDS MCFrames, FrameManagerProof

-----------------------------------------------------------------------------
(* The code that a loop calls                                              *)

\* What a settled manager offers the code that a loop calls.
LEMMA SettledIs ==
  ASSUME NEW m, Settled(m)
  PROVE  /\ m \in Managers /\ Placed(m) /\ Grounded(m) /\ OnList(m)
         /\ m.current = Uppermost(m) /\ m.current \in m.live /\ m.current # NoFrame
         /\ m.current \in AllFrames
         /\ CanLoseFocus(m, m.current) <=> m.stack = <<>>
         /\ m.stack = <<>> => m.current \in ToSet(m.list)
         /\ m.stack # <<>> => m.current \in ToSet(m.stack)
         /\ m.inserted = NoFrame /\ m.deleted = NoFrame /\ m.executed = NoFrame
         /\ m.activated = NoFrame /\ m.deactivated = NoFrame
         /\ m.list \in Seq(AllFrames) /\ m.stack \in Seq(AllFrames)
         /\ ToSet(m.list) \subseteq m.live /\ ToSet(m.stack) \subseteq m.live
<1>1. m \in Managers /\ Placed(m) /\ Grounded(m) /\ OnList(m) /\ m.current = Uppermost(m)
  BY DEF Settled, Placed, Grounded, Linked
<1>2. ToSet(m.list) \subseteq m.live /\ ToSet(m.stack) \subseteq m.live /\ m.live \subseteq AllFrames
  BY <1>1, Fields DEF Grounded, Linked, ListLinked, StackLinked
<1>3. m.list \in Seq(AllFrames) /\ m.stack \in Seq(AllFrames)  BY <1>1, Fields
<1> QED  BY <1>1, <1>2, <1>3, UppermostIs DEF Settled, Unstructured, Unfocused

\* `new FileEditor` and the like: a frame is made, and the manager does not know it.
LEMMA Making ==
  ASSUME NEW m, Settled(m), NEW f \in Frames, f \notin m.live, NEW k \in {"screen", "heap", "auto"},
         NEW n, n = New(m, f, k)
  PROVE  /\ Settled(n)
         /\ n.list = m.list /\ n.pos = m.pos /\ n.stack = m.stack /\ n.current = m.current
         /\ n.live = m.live \cup {f} /\ n.kind[f] = k
         /\ \A h \in m.live : n.kind[h] = m.kind[h]
         /\ f \notin ToSet(m.list) /\ f \notin ToSet(m.stack)
         /\ f # NoFrame /\ f \in AllFrames /\ f # Panels
<1>1. /\ m \in Managers /\ Placed(m) /\ Grounded(m) /\ OnList(m)
      /\ ToSet(m.list) \subseteq m.live /\ ToSet(m.stack) \subseteq m.live /\ m.live \subseteq AllFrames
  BY SettledIs, Fields
<1>2. f # NoFrame /\ f \in AllFrames /\ f # Panels /\ k \in Kinds /\ k # "panels"
  BY FramesAssumption DEF AllFrames, Kinds
<1> DEFINE q == [m.kind EXCEPT ![f] = k]
           l == m.live \cup {f}
<1>3. n = [m EXCEPT !.live = l, !.kind = q]  BY <1>1 DEF New, Managers
<1>4. l \subseteq AllFrames /\ q \in [AllFrames -> Kinds]  BY <1>1, <1>2, Fields
<1>5. q[f] = k /\ \A h \in AllFrames \ {f} : q[h] = m.kind[h]  BY <1>1, <1>2, Fields
<1> HIDE DEF q, l
<1>6. n \in Managers /\ n.live = l /\ n.kind = q  BY <1>1, <1>3, <1>4 DEF Managers
<1>7. /\ n.list = m.list /\ n.pos = m.pos /\ n.stack = m.stack /\ n.back = m.back
      /\ n.current = m.current /\ n.inserted = m.inserted /\ n.deleted = m.deleted
      /\ n.executed = m.executed /\ n.activated = m.activated /\ n.deactivated = m.deactivated
  BY <1>1, <1>3 DEF Managers
<1>8. \A h \in m.live : n.kind[h] = m.kind[h]  BY <1>1, <1>5, <1>6
<1>9. n.live = m.live \cup {f}  BY <1>6 DEF l
<1>10. PanelsTold(n)  BY <1>1, <1>2, <1>5, <1>6 DEF PanelsTold, Grounded, Linked
<1>11. ListLinked(n)
  BY <1>1, <1>7, <1>8, <1>9 DEF ListLinked, Grounded, Linked, CanLoseFocus
<1>12. StackLinked(n)
  BY <1>1, <1>7, <1>8, <1>9 DEF StackLinked, Grounded, Linked, CanLoseFocus
<1>13. Distinct(n) /\ CurrentLinked(n)
  BY <1>1, <1>7, <1>9 DEF Distinct, CurrentLinked, Grounded, Linked
<1>14. Grounded(n)  BY <1>1, <1>6, <1>7, <1>10, <1>11, <1>12, <1>13 DEF Grounded, Linked
<1>15. OnList(n) /\ Uppermost(n) = Uppermost(m)  BY <1>1, <1>7 DEF OnList, Uppermost, FrameAt
<1>16. Settled(n)
  BY <1>7, <1>14, <1>15 DEF Settled, Placed, Unstructured, Unfocused
<1> QED  BY <1>1, <1>2, <1>5, <1>6, <1>7, <1>8, <1>9, <1>16

\* Requests of the kind the code makes are those Commit is ready for.
LEMMA Requested ==
  ASSUME NEW n, Settled(n), NEW r, Alike(n, r), Unfocused(r),
         r.inserted # NoFrame => MayInsert(n, r.inserted) /\ r.executed = NoFrame,
         r.executed # NoFrame => MayExecute(n, r.executed),
         r.deleted # NoFrame =>
           MayDelete(n, r.deleted)
           /\ (r.inserted = NoFrame /\ r.executed = NoFrame => r.deleted = Uppermost(n))
  PROVE  Requesting(r)
<1>1. n \in Managers /\ Placed(n)  BY SettledIs
<1>2. Placed(r) /\ Uppermost(r) = Uppermost(n)  BY <1>1, AlikePlaced
<1>3. r.inserted # NoFrame => MayInsert(r, r.inserted) /\ r.executed = NoFrame  BY <1>1, AlikePlaced
<1>4. r.executed # NoFrame => MayExecute(r, r.executed)  BY <1>1, AlikePlaced
<1>5. r.deleted # NoFrame =>
        MayDelete(r, r.deleted)
        /\ (r.inserted = NoFrame /\ r.executed = NoFrame => r.deleted = Uppermost(r))
  BY <1>1, <1>2, AlikePlaced
<1> QED  BY <1>2, <1>3, <1>4, <1>5 DEF Requesting

\* Requests about the focus alone, when no modal frame is open.
LEMMA FocusAsked ==
  ASSUME NEW n, Settled(n), NEW r, Alike(n, r), Unstructured(r), n.stack = <<>>,
         r.activated \in ToSet(n.list) \cup {NoFrame}, r.deactivated \in ToSet(n.list) \cup {NoFrame}
  PROVE  Focusing(r)
<1>1. n \in Managers /\ Placed(n) /\ n.current = Uppermost(n)  BY SettledIs
<1>2. Placed(r) /\ Uppermost(r) = Uppermost(n)  BY <1>1, AlikePlaced
<1>3. r.list = n.list /\ r.stack = n.stack /\ r.current = n.current  BY DEF Alike
<1> QED  BY <1>1, <1>2, <1>3 DEF Focusing, Placed

\* What the code that a loop calls does to the manager
Handled(m, r) ==
  /\ Requesting(r) \/ Focusing(r)
  /\ r.stack = m.stack /\ ToSet(m.list) \subseteq ToSet(r.list)
  /\ m.live \subseteq r.live /\ \A f \in m.live : r.kind[f] = m.kind[f]
  /\ \A f \in r.live \ m.live : f \in Frames /\ f \in ToSet(r.list) \cup {r.inserted, r.executed}
  /\ r.executed # NoFrame => r.executed \in r.live \ m.live

\* ... and that it stays in its loop,
Stays(m, r) ==
  /\ r.executed # NoFrame => r.deleted \in ToSet(r.stack)
  /\ \A f \in r.live \ m.live : r.kind[f] # "auto"

\* ... or starts another, l
Enters(m, r, l) ==
  /\ l \in Loops /\ l.base = Len(m.stack) /\ ~l.inside /\ l.handler = NoFrame
  /\ \/ /\ l.loop = "modal" /\ r.executed # NoFrame /\ r.deleted \notin ToSet(r.stack)
        /\ r.live \ m.live = {r.executed}
        /\ l.owner = IF r.kind[r.executed] = "auto" THEN r.executed ELSE NoFrame
     \/ /\ l.loop = "nonmodal" /\ r.executed = NoFrame /\ m.stack = <<>> /\ l.owner = NoFrame
        /\ r.inserted = NoFrame /\ r.deleted = NoFrame
        /\ \A f \in r.live \ m.live : r.kind[f] # "auto"

\* That code leaves a request and makes no frame.
LEMMA HandledAlike ==
  ASSUME NEW m \in Managers, NEW r, Alike(m, r), Requesting(r) \/ Focusing(r), r.executed = NoFrame
  PROVE  Handled(m, r) /\ Stays(m, r)
  BY DEF Alike, Handled, Stays

\* That code makes a frame and requests that it be shown.
LEMMA HandledNew ==
  ASSUME NEW m, Settled(m), NEW f \in Frames, f \notin m.live, NEW k \in {"screen", "heap", "auto"},
         NEW n, n = New(m, f, k), NEW r, Alike(n, r), Requesting(r) \/ Focusing(r),
         f \in {r.inserted, r.executed}, r.executed \in {NoFrame, f}
  PROVE  Handled(m, r) /\ r.live \ m.live = {f} /\ r.kind[f] = k
<1>1. /\ n.list = m.list /\ n.stack = m.stack /\ n.live = m.live \cup {f} /\ n.kind[f] = k
      /\ \A h \in m.live : n.kind[h] = m.kind[h]
  BY Making
<1> QED  BY <1>1 DEF Handled, Alike

\* The loops stay the same but for what the running one does
SameLoops(ls, ks) ==
  /\ ks \in Seq(Loops) /\ Len(ks) = Len(ls)
  /\ \A n \in 1 .. Len(ls) :
       /\ ks[n].loop = ls[n].loop /\ ks[n].base = ls[n].base
       /\ ks[n].owner = ls[n].owner /\ ks[n].target = ls[n].target
       /\ n < Len(ls) => ks[n] = ls[n]

\* There are loops, and not too many
LoopsTyped(ls) == ls \in Seq(Loops) /\ Len(ls) \in 1 .. MaxLoops

\* The type of each member of a loop.
LEMMA LoopFields ==
  ASSUME NEW ls \in Seq(Loops)
  PROVE  /\ Len(ls) \in Nat /\ DOMAIN ls = 1 .. Len(ls)
         /\ \A n \in 1 .. Len(ls) :
              /\ ls[n] \in Loops
              /\ ls[n].loop \in {"main", "modal", "nonmodal"} /\ ls[n].base \in Nat
              /\ ls[n].target \in Slot /\ ls[n].owner \in Frames \cup {NoFrame}
              /\ ls[n].ev \in BOOLEAN /\ ls[n].inside \in BOOLEAN /\ ls[n].handler \in Slot
<1>1. Len(ls) \in Nat /\ DOMAIN ls = 1 .. Len(ls) /\ \A n \in 1 .. Len(ls) : ls[n] \in Loops
  BY LenProperties
<1>2. \A l \in Loops : /\ l.loop \in {"main", "modal", "nonmodal"} /\ l.base \in Nat
                       /\ l.target \in Slot /\ l.owner \in Frames \cup {NoFrame}
                       /\ l.ev \in BOOLEAN /\ l.inside \in BOOLEAN /\ l.handler \in Slot
  BY DEF Loops, Slot
<1> QED  BY <1>1, <1>2

\* The code has called Commit itself, and goes on in its loop.
LEMMA Unchanged ==
  ASSUME LoopsTyped(loops) PROVE SameLoops(loops, loops)
  BY DEF LoopsTyped, SameLoops

\* The code a loop has called returns to it, and its other members stay what they are.
LEMMA Left ==
  ASSUME LoopsTyped(loops), NEW ks, ks = LeftHandler
  PROVE  /\ SameLoops(loops, ks) /\ LoopsTyped(ks)
         /\ ~Last(ks).inside /\ Last(ks).handler = NoFrame
<1>1. loops \in Seq(Loops) /\ Len(loops) \in 1 .. Len(loops) /\ Len(loops) \in 1 .. MaxLoops
  BY LoopFields DEF LoopsTyped
<1>2. PICK l : l = Leave(loops[Len(loops)])  OBVIOUS
<1>3. loops[Len(loops)] \in Loops  BY <1>1, LoopFields
<1>4. /\ l \in Loops /\ ~l.inside /\ l.handler = NoFrame
      /\ l.loop = loops[Len(loops)].loop /\ l.base = loops[Len(loops)].base
      /\ l.owner = loops[Len(loops)].owner /\ l.target = loops[Len(loops)].target
  BY <1>2, <1>3 DEF Leave, Loops
<1>5. ks = [loops EXCEPT ![Len(loops)] = l]  BY <1>2 DEF LeftHandler
<1>6. /\ ks \in Seq(Loops) /\ Len(ks) = Len(loops)
      /\ \A j \in 1 .. Len(loops) : ks[j] = IF j = Len(loops) THEN l ELSE loops[j]
  BY <1>1, <1>4, <1>5, ExceptSeq
<1>7. \A j \in 1 .. Len(loops) : j < Len(loops) => ks[j] = loops[j]  BY <1>6, <1>1
<1>8. SameLoops(loops, ks)  BY <1>4, <1>6, <1>7 DEF SameLoops
<1>9. Last(ks) = l  BY <1>1, <1>6 DEF Last
<1> QED  BY <1>1, <1>4, <1>6, <1>8, <1>9 DEF LoopsTyped

\* After a request the loop's Commit follows, or that of the code.
LEMMA RequestIs ==
  ASSUME LoopsTyped(loops), NEW m, NEW commits \in BOOLEAN, Request(m, commits)
  PROVE  /\ mgr' = m /\ mode' = "commit"
         /\ SameLoops(loops, loops') /\ LoopsTyped(loops')
         /\ Last(loops').handler \in {Last(loops).handler, NoFrame}
         /\ IF commits THEN loops' = loops ELSE Last(loops').handler = NoFrame
<1>1. mgr' = m /\ mode' = "commit" /\ loops' = IF commits THEN loops ELSE LeftHandler
  BY DEF Request
<1>2. CASE commits
  <2>1. loops' = loops  BY <1>1, <1>2
  <2> QED  BY <1>1, <1>2, <2>1, Unchanged
<1>3. CASE ~commits
  <2>1. PICK ks : ks = LeftHandler  OBVIOUS
  <2>2. loops' = ks  BY <1>1, <1>3, <2>1
  <2> QED  BY <1>1, <1>3, <2>1, <2>2, Left
<1> QED  BY <1>2, <1>3

\* The code leaves its requests to a Commit, and its loop goes on
StaysHere ==
  /\ Handled(mgr, mgr') /\ Stays(mgr, mgr')
  /\ SameLoops(loops, loops') /\ LoopsTyped(loops')
  /\ Last(loops').handler \in {Last(loops).handler, NoFrame}
  /\ mode' = "commit"
  /\ mgr'.deleted # NoFrame => ClientsOwn \/ Last(loops').handler = NoFrame
  /\ mgr'.deleted # NoFrame => ClientsOwn \/ mgr'.deleted = mgr.current

\* CloseDialog, before its Commit(1)
ClosesOne ==
  /\ Handled(mgr, mgr') /\ Stays(mgr, mgr')
  /\ UNCHANGED loops /\ mode' = "commit1"
  /\ Requesting(mgr') /\ mgr'.deleted # NoFrame /\ mgr'.inserted = NoFrame /\ mgr'.executed = NoFrame
  /\ mgr'.kind[mgr'.deleted] = "auto"
  /\ mgr'.deleted = mgr.current

\* The code starts a loop of its own
GoesDeeper ==
  /\ Handled(mgr, mgr') /\ mode' = "commit" /\ Len(loops) < MaxLoops
  /\ \E l : /\ Enters(mgr, mgr', l) /\ loops' = Append(loops, l)
            /\ l.loop = "nonmodal" => ClientsOwn
  /\ mgr'.deleted # NoFrame => ClientsOwn

-----------------------------------------------------------------------------
(* What it may do, step by step                                            *)

\* A request fills a slot and changes nothing else
Asks(m, r, i, d, e, a, x) ==
  /\ Alike(m, r)
  /\ r.inserted = i /\ r.deleted = d /\ r.executed = e /\ r.activated = a /\ r.deactivated = x

\* InsertFrame, DeleteFrame, ExecuteFrame, DeactivateFrame and RefreshFrame each fill one slot.
LEMMA AskingSlots ==
  ASSUME NEW m \in Managers, NEW f \in Slot
  PROVE  /\ Asks(m, InsertFrame(m, f), f, m.deleted, m.executed, m.activated, m.deactivated)
         /\ Asks(m, DeleteFrame(m, f), m.inserted, f, m.executed, m.activated, m.deactivated)
         /\ Asks(m, ExecuteFrame(m, f), m.inserted, m.deleted, f, m.activated, m.deactivated)
         /\ Asks(m, DeactivateFrame(m, f), m.inserted, m.deleted, m.executed, m.activated, f)
         /\ Asks(m, RefreshFrame(m), m.inserted, m.deleted, m.executed, m.activated, m.deactivated)
<1>1. PICK a : a = InsertFrame(m, f)  OBVIOUS
<1>2. PICK b : b = DeleteFrame(m, f)  OBVIOUS
<1>3. PICK c : c = ExecuteFrame(m, f)  OBVIOUS
<1>4. PICK d : d = DeactivateFrame(m, f)  OBVIOUS
<1>5. PICK e : e = RefreshFrame(m)  OBVIOUS
<1>6. Asks(m, a, f, m.deleted, m.executed, m.activated, m.deactivated)
  BY <1>1 DEF InsertFrame, Asks, Alike, Managers, Slot
<1>7. Asks(m, b, m.inserted, f, m.executed, m.activated, m.deactivated)
  BY <1>2 DEF DeleteFrame, Asks, Alike, Managers, Slot
<1>8. Asks(m, c, m.inserted, m.deleted, f, m.activated, m.deactivated)
  BY <1>3 DEF ExecuteFrame, Asks, Alike, Managers, Slot
<1>9. Asks(m, d, m.inserted, m.deleted, m.executed, m.activated, f)
  BY <1>4 DEF DeactivateFrame, Asks, Alike, Managers, Slot
<1>10. Asks(m, e, m.inserted, m.deleted, m.executed, m.activated, m.deactivated)
  <2>1. CASE m.activated = NoFrame
    <3>1. e = [m EXCEPT !.refreshed = m.current]  BY <1>5, <2>1 DEF RefreshFrame
    <3> QED  BY <3>1 DEF Asks, Alike, Managers
  <2>2. CASE m.activated # NoFrame
    <3>1. e = m  BY <1>5, <2>2 DEF RefreshFrame
    <3> QED  BY <3>1 DEF Asks, Alike
  <2> QED  BY <2>1, <2>2
<1> QED  BY <1>1, <1>2, <1>3, <1>4, <1>5, <1>6, <1>7, <1>8, <1>9, <1>10

\* A frame is made after another is told to close.
LEMMA MakingLate ==
  ASSUME NEW m, Settled(m), NEW f \in AllFrames, NEW g \in Frames, g \notin m.live,
         NEW k \in {"screen", "heap", "auto"}, NEW n, n = New(m, g, k),
         NEW r, r = New(DeleteFrame(m, f), g, k)
  PROVE  Asks(n, r, NoFrame, f, NoFrame, NoFrame, NoFrame)
<1>1. m \in Managers /\ f \in Slot /\ k \in Kinds /\ g \in AllFrames
  BY SettledIs DEF Slot, Kinds, AllFrames
<1>2. PICK d : d = DeleteFrame(m, f)  OBVIOUS
<1>3. Asks(m, d, m.inserted, f, m.executed, m.activated, m.deactivated)  BY <1>1, <1>2, AskingSlots
<1>4. r = New(d, g, k)  BY <1>2
<1>5. d \in Managers /\ d.live = m.live /\ d.kind = m.kind  BY <1>3 DEF Asks, Alike
<1> DEFINE q == [m.kind EXCEPT ![g] = k]
           l == m.live \cup {g}
<1>6. n = [m EXCEPT !.live = l, !.kind = q] /\ r = [d EXCEPT !.live = l, !.kind = q]
  BY <1>1, <1>4, <1>5 DEF New, Managers
<1>7. l \subseteq AllFrames /\ q \in [AllFrames -> Kinds]  BY <1>1, Fields
<1> HIDE DEF q, l
<1>8. n \in Managers /\ n.live = l /\ n.kind = q  BY <1>1, <1>6, <1>7 DEF Managers
<1>9. r \in Managers /\ r.live = l /\ r.kind = q  BY <1>5, <1>6, <1>7 DEF Managers
<1>10. /\ n.list = m.list /\ n.pos = m.pos /\ n.stack = m.stack /\ n.back = m.back
       /\ n.current = m.current
  BY <1>1, <1>6 DEF Managers
<1>11. /\ r.list = d.list /\ r.pos = d.pos /\ r.stack = d.stack /\ r.back = d.back
       /\ r.current = d.current /\ r.inserted = d.inserted /\ r.deleted = d.deleted
       /\ r.executed = d.executed /\ r.activated = d.activated /\ r.deactivated = d.deactivated
  BY <1>5, <1>6 DEF Managers
<1>12. Alike(n, r)  BY <1>3, <1>8, <1>9, <1>10, <1>11 DEF Alike, Asks
<1> QED  BY <1>3, <1>11, <1>12, SettledIs DEF Asks

\* What keeps the code in its loop, put together.
LEMMA Staying ==
  ASSUME LoopsTyped(loops), NEW m, NEW commits \in BOOLEAN, Request(m, commits),
         Handled(mgr, m), Stays(mgr, m),
         m.deleted # NoFrame =>
           (commits => ClientsOwn) /\ (ClientsOwn \/ m.deleted = mgr.current)
  PROVE  StaysHere
<1>1. /\ mgr' = m /\ mode' = "commit"
      /\ SameLoops(loops, loops') /\ LoopsTyped(loops')
      /\ Last(loops').handler \in {Last(loops).handler, NoFrame}
      /\ IF commits THEN loops' = loops ELSE Last(loops').handler = NoFrame
  BY RequestIs
<1>2. Handled(mgr, mgr') /\ Stays(mgr, mgr')  BY <1>1
<1>3. m.deleted # NoFrame => ClientsOwn \/ Last(loops').handler = NoFrame  BY <1>1
<1> QED  BY <1>1, <1>2, <1>3 DEF StaysHere

\* The same for a request that makes no frame.
LEMMA StayingAlike ==
  ASSUME Settled(mgr), LoopsTyped(loops), NEW m, NEW commits \in BOOLEAN, Request(m, commits),
         Alike(mgr, m), Requesting(m) \/ Focusing(m), m.executed = NoFrame,
         m.deleted # NoFrame =>
           (commits => ClientsOwn) /\ (ClientsOwn \/ m.deleted = mgr.current)
  PROVE  StaysHere
<1>1. mgr \in Managers  BY SettledIs
<1>2. Handled(mgr, m) /\ Stays(mgr, m)  BY <1>1, HandledAlike
<1> QED  BY <1>2, Staying

\* The code returns without any request.
LEMMA StepHandlerReturns ==
  ASSUME Settled(mgr), LoopsTyped(loops), HandlerReturns PROVE StaysHere
<1>1. Alike(mgr, mgr) /\ mgr.executed = NoFrame /\ mgr.deleted = NoFrame  BY SettledIs DEF Alike
<1>2. Focusing(mgr)  BY StillFocusing
<1>3. Request(mgr, FALSE)  BY DEF HandlerReturns
<1> QED  BY <1>1, <1>2, <1>3, StayingAlike

\* A frame that can lose focus is current only when no modal frame is open.
LEMMA FreeIs ==
  ASSUME Settled(mgr), Free
  PROVE  mgr.stack = <<>> /\ mgr.current \in ToSet(mgr.list) /\ mgr.current # NoFrame
  BY SettledIs DEF Free

\* A frame made for the list may be inserted.
LEMMA MadeScreen ==
  ASSUME NEW m, Settled(m), m.stack = <<>>, NEW f \in Frames, f \notin m.live, NEW n, n = New(m, f, "screen")
  PROVE  Settled(n) /\ n \in Managers /\ MayInsert(n, f)
<1>1. /\ Settled(n) /\ n.stack = m.stack /\ n.list = m.list
      /\ n.live = m.live \cup {f} /\ n.kind[f] = "screen" /\ f \notin ToSet(m.list)
  BY Making
<1> QED  BY <1>1, SettledIs DEF MayInsert

\* A modal frame that is made may be executed.
LEMMA MadeModal ==
  ASSUME NEW m, Settled(m), NEW f \in Frames, f \notin m.live, NEW k \in {"heap", "auto"},
         NEW n, n = New(m, f, k)
  PROVE  Settled(n) /\ n \in Managers /\ MayExecute(n, f)
<1>1. /\ Settled(n) /\ n.stack = m.stack
      /\ n.live = m.live \cup {f} /\ n.kind[f] = k /\ f \notin ToSet(m.stack)
  BY Making
<1>2. ~CanLoseFocus(n, f)  BY <1>1 DEF CanLoseFocus
<1> QED  BY <1>1, <1>2, SettledIs DEF MayExecute

\* An editor, viewer or dialog is inserted.
LEMMA StepOpenScreen ==
  ASSUME Settled(mgr), LoopsTyped(loops), NEW f \in Frames, NEW commits \in BOOLEAN,
         OpenScreen(f, commits), Free
  PROVE  StaysHere
<1>1. mgr.stack = <<>> /\ f \notin mgr.live  BY FreeIs DEF OpenScreen, Unused
<1>2. PICK n : n = New(mgr, f, "screen")  OBVIOUS
<1>3. PICK r : r = InsertFrame(n, f)  OBVIOUS
<1>4. Request(r, commits)  BY <1>2, <1>3 DEF OpenScreen
<1>5. Settled(n) /\ n \in Managers /\ MayInsert(n, f)  BY <1>1, <1>2, MadeScreen
<1>6. f \in Slot  BY DEF Slot, AllFrames
<1>7. Asks(n, r, f, n.deleted, n.executed, n.activated, n.deactivated)  BY <1>3, <1>5, <1>6, AskingSlots
<1>8. Asks(n, r, f, NoFrame, NoFrame, NoFrame, NoFrame)  BY <1>5, <1>7, SettledIs
<1>9. /\ Alike(n, r) /\ r.inserted = f /\ r.deleted = NoFrame /\ r.executed = NoFrame /\ Unfocused(r)
  BY <1>8 DEF Asks, Unfocused
<1>10. Requesting(r)  BY <1>5, <1>9, Requested
<1>11. Handled(mgr, r) /\ r.live \ mgr.live = {f} /\ r.kind[f] = "screen"
  BY <1>1, <1>2, <1>9, <1>10, HandledNew
<1>12. Stays(mgr, r)  BY <1>9, <1>11 DEF Stays
<1> QED  BY <1>4, <1>9, <1>11, <1>12, Staying

\* FileEditor::Init finds the file in an editor of the list, and activates that.
LEMMA StepSwitchToOpened ==
  ASSUME Settled(mgr), LoopsTyped(loops), NEW f \in Frames, NEW commits \in BOOLEAN,
         SwitchToOpened(f, commits), Free
  PROVE  StaysHere
<1>0. f \in AllFrames  BY DEF AllFrames
<1>1. mgr.stack = <<>> /\ mgr \in Managers  BY FreeIs, SettledIs
<1>2. f \in ToSet(mgr.list)  BY <1>0, <1>1, Listed DEF SwitchToOpened
<1>3. PICK r : r = ActivateFrame(mgr, f)  OBVIOUS
<1>4. Request(r, commits)  BY <1>3 DEF SwitchToOpened
<1>5. /\ r \in Managers
      /\ r.list = mgr.list /\ r.pos = mgr.pos /\ r.stack = mgr.stack /\ r.live = mgr.live
      /\ r.kind = mgr.kind /\ r.back = mgr.back /\ r.current = mgr.current
      /\ r.deleted = mgr.deleted /\ SameRequests(mgr, r)
      /\ r.activated = IF mgr.activated = NoFrame /\ f \in ToSet(mgr.list) \cup ToSet(mgr.stack)
                         THEN f ELSE mgr.activated
  BY <1>1, <1>3, Activating
<1>6. Alike(mgr, r) /\ Unstructured(r)
  BY <1>5, SettledIs DEF Alike, SameRequests, Unstructured
<1>7. r.activated \in ToSet(mgr.list) \cup {NoFrame} /\ r.deactivated \in ToSet(mgr.list) \cup {NoFrame}
  BY <1>2, <1>5, SettledIs DEF SameRequests
<1>8. Focusing(r)  BY <1>1, <1>6, <1>7, FocusAsked
<1> QED  BY <1>4, <1>6, <1>8, StayingAlike DEF Unstructured

\* What ActivateFrame, and then DeactivateFrame, do when no modal frame is open.
LEMMA Switched ==
  ASSUME NEW m, Settled(m), m.stack = <<>>, NEW f, NEW r, r = ActivateFrame(m, f)
  PROVE  /\ Alike(m, r) /\ Unstructured(r) /\ r.deactivated = NoFrame
         /\ r.activated \in ToSet(m.list) \cup {NoFrame}
         /\ \A g \in ToSet(m.list) \cup {NoFrame} :
              \A s : s = DeactivateFrame(r, g) => Alike(m, s) /\ Unstructured(s) /\ Focusing(s)
<1>1. m \in Managers /\ ToSet(m.stack) = {}  BY SettledIs DEF ToSet
<1>2. /\ r \in Managers
      /\ r.list = m.list /\ r.pos = m.pos /\ r.stack = m.stack /\ r.live = m.live
      /\ r.kind = m.kind /\ r.back = m.back /\ r.current = m.current
      /\ r.deleted = m.deleted /\ SameRequests(m, r)
      /\ r.activated = IF m.activated = NoFrame /\ f \in ToSet(m.list) \cup ToSet(m.stack)
                         THEN f ELSE m.activated
  BY <1>1, Activating
<1>3. Alike(m, r) /\ Unstructured(r) /\ r.deactivated = NoFrame
  BY <1>2, SettledIs DEF Alike, SameRequests, Unstructured
<1>4. r.activated \in ToSet(m.list) \cup {NoFrame}
  BY <1>1, <1>2, SettledIs
<1>5. ASSUME NEW g \in ToSet(m.list) \cup {NoFrame}, NEW s, s = DeactivateFrame(r, g)
      PROVE  Alike(m, s) /\ Unstructured(s) /\ Focusing(s)
  <2>1. g \in Slot  BY <1>1, Members DEF Slot
  <2>2. Asks(r, s, r.inserted, r.deleted, r.executed, r.activated, g)  BY <1>2, <1>5, <2>1, AskingSlots
  <2>3. Alike(m, s) /\ Unstructured(s) /\ s.activated = r.activated /\ s.deactivated = g
    BY <1>3, <2>2 DEF Asks, Alike, Unstructured
  <2> QED  BY <1>4, <1>5, <2>3, FocusAsked
<1> QED  BY <1>3, <1>4, <1>5

\* F12: FrameMenu.
LEMMA StepScreensMenu ==
  ASSUME Settled(mgr), LoopsTyped(loops), NEW f \in AllFrames \cup {NoFrame}, ScreensMenu(f)
  PROVE  StaysHere
<1>1. mgr.stack = <<>> /\ mgr.current \in ToSet(mgr.list)  BY FreeIs DEF ScreensMenu
<1>2. PICK c : c = ActivateFrame(mgr, f)  OBVIOUS
<1>3. PICK g : g = IF c.activated = mgr.current THEN NoFrame ELSE mgr.current  OBVIOUS
<1>4. PICK s : s = DeactivateFrame(c, g)  OBVIOUS
<1>5. Request(s, FALSE)  BY <1>2, <1>3, <1>4 DEF ScreensMenu
<1>6. g \in ToSet(mgr.list) \cup {NoFrame}  BY <1>1, <1>3
<1>7. Alike(mgr, s) /\ Unstructured(s) /\ Focusing(s)  BY <1>1, <1>2, <1>4, <1>6, Switched
<1> QED  BY <1>5, <1>7, StayingAlike DEF Unstructured

\* ACTL_SETCURRENTWINDOW, followed by its ACTL_COMMIT.
LEMMA StepSetCurrentWindow ==
  ASSUME Settled(mgr), LoopsTyped(loops), "switch" \notin Features,
         NEW i, NEW commits \in BOOLEAN, SetCurrentWindow(i, commits)
  PROVE  StaysHere
<1>1. mgr.stack = <<>> /\ mgr.current \in ToSet(mgr.list)  BY FreeIs DEF SetCurrentWindow
<1>2. PICK f : f = FrameAt(mgr, i)  OBVIOUS
<1>3. PICK c : c = ActivateFrame(mgr, f)  OBVIOUS
<1>4. PICK s : s = DeactivateFrame(c, mgr.current)  OBVIOUS
<1>5. Request(s, TRUE)  BY <1>2, <1>3, <1>4 DEF SetCurrentWindow, ActivateIndex
<1>7. Alike(mgr, s) /\ Unstructured(s) /\ Focusing(s)  BY <1>1, <1>3, <1>4, Switched
<1> QED  BY <1>5, <1>7, StayingAlike DEF Unstructured

\* The panels are activated.
LEMMA StepSwitchToPanels ==
  ASSUME Settled(mgr), LoopsTyped(loops), SwitchToPanels
  PROVE  StaysHere
<1>1. mgr.stack = <<>>  BY FreeIs DEF SwitchToPanels
<1>2. PICK f : f = FrameAt(mgr, 0)  OBVIOUS
<1>3. PICK r : r = ActivateFrame(mgr, f)  OBVIOUS
<1>4. Request(r, FALSE)  BY <1>2, <1>3 DEF SwitchToPanels, ActivateIndex
<1>5. /\ Alike(mgr, r) /\ Unstructured(r) /\ r.deactivated = NoFrame
      /\ r.activated \in ToSet(mgr.list) \cup {NoFrame}
  BY <1>1, <1>3, Switched
<1>6. Focusing(r)  BY <1>1, <1>5, FocusAsked
<1> QED  BY <1>4, <1>5, <1>6, StayingAlike DEF Unstructured

\* RefreshFrame.
LEMMA StepRepaint ==
  ASSUME Settled(mgr), LoopsTyped(loops), NEW commits \in BOOLEAN, Repaint(commits)
  PROVE  StaysHere
<1>1. mgr \in Managers /\ Placed(mgr)  BY SettledIs
<1>2. PICK r : r = RefreshFrame(mgr)  OBVIOUS
<1>3. Request(r, commits)  BY <1>2 DEF Repaint
<1>4. NoFrame \in Slot  BY DEF Slot
<1>5. Asks(mgr, r, mgr.inserted, mgr.deleted, mgr.executed, mgr.activated, mgr.deactivated)
  BY <1>1, <1>2, <1>4, AskingSlots
<1>6. Alike(mgr, r) /\ Unstructured(r) /\ Unfocused(r)
  BY <1>5, SettledIs DEF Asks, Unstructured, Unfocused
<1>7. Placed(r)  BY <1>1, <1>6, AlikePlaced
<1>8. Focusing(r)  BY <1>6, <1>7, StillFocusing DEF Settled
<1> QED  BY <1>3, <1>6, <1>8, StayingAlike DEF Unstructured

\* The current frame is told to close.
LEMMA ClosingCurrent ==
  ASSUME NEW m, Settled(m), m.current # Panels, NEW r, r = DeleteFrame(m, m.current)
  PROVE  /\ Alike(m, r) /\ Requesting(r)
         /\ r.deleted = m.current /\ r.inserted = NoFrame /\ r.executed = NoFrame
<1>1. m \in Managers /\ m.current \in Slot /\ m.current = Uppermost(m)  BY SettledIs DEF Slot
<1>2. Asks(m, r, m.inserted, m.current, m.executed, m.activated, m.deactivated)
  BY <1>1, AskingSlots
<1>3. /\ Alike(m, r) /\ Unfocused(r)
      /\ r.inserted = NoFrame /\ r.deleted = m.current /\ r.executed = NoFrame
  BY <1>2, SettledIs DEF Asks, Unfocused
<1>4. MayDelete(m, r.deleted)  BY <1>1, <1>3 DEF MayDelete
<1> QED  BY <1>1, <1>3, <1>4, Requested

\* Escape in the current frame.
LEMMA StepClose ==
  ASSUME Settled(mgr), LoopsTyped(loops), Close PROVE StaysHere
<1>1. PICK r : r = DeleteFrame(mgr, mgr.current)  OBVIOUS
<1>2. Request(r, FALSE) /\ mgr.current # Panels  BY <1>1 DEF Close, Closable
<1>3. /\ Alike(mgr, r) /\ Requesting(r)
      /\ r.deleted = mgr.current /\ r.inserted = NoFrame /\ r.executed = NoFrame
  BY <1>1, <1>2, ClosingCurrent
<1> QED  BY <1>2, <1>3, StayingAlike

\* ECTL_QUIT and VCTL_QUIT.
LEMMA StepQuitEditor ==
  ASSUME Settled(mgr), LoopsTyped(loops), QuitEditor PROVE StaysHere
<1>1. PICK r : r = DeleteFrame(mgr, mgr.current)  OBVIOUS
<1>2. Request(r, TRUE) /\ mgr.current # Panels /\ ClientsOwn
  BY <1>1 DEF QuitEditor, Closable, ClientsOwn
<1>3. /\ Alike(mgr, r) /\ Requesting(r)
      /\ r.deleted = mgr.current /\ r.inserted = NoFrame /\ r.executed = NoFrame
  BY <1>1, <1>2, ClosingCurrent
<1> QED  BY <1>2, <1>3, StayingAlike

\* CloseDialog of the current dialog.
LEMMA StepCloseDialog ==
  ASSUME Settled(mgr), LoopsTyped(loops), "dmclose" \notin Features, NEW f \in Frames, CloseDialog(f)
  PROVE  ClosesOne
<1>1. f = mgr.current /\ f # Panels /\ mgr.kind[f] = "auto"
  BY FramesAssumption DEF CloseDialog
<1>2. PICK r : r = DeleteFrame(mgr, mgr.current)  OBVIOUS
<1>3. mgr' = r /\ mode' = "commit1" /\ UNCHANGED loops  BY <1>1, <1>2 DEF CloseDialog
<1>4. /\ Alike(mgr, r) /\ Requesting(r)
      /\ r.deleted = mgr.current /\ r.inserted = NoFrame /\ r.executed = NoFrame
  BY <1>1, <1>2, ClosingCurrent
<1>5. Handled(mgr, r) /\ Stays(mgr, r)  BY <1>4, HandledAlike, SettledIs
<1>6. r.deleted # NoFrame /\ r.kind[r.deleted] = "auto"  BY <1>1, <1>4, SettledIs DEF Alike
<1> QED  BY <1>3, <1>4, <1>5, <1>6 DEF ClosesOne

\* Ctrl-Tab: the next or the previous frame of the list, around its ends.
LEMMA StepCtrlTab ==
  ASSUME Settled(mgr), LoopsTyped(loops), NEW direction \in {1, -1}, CtrlTab(direction)
  PROVE  StaysHere
<1>1. /\ mgr.stack = <<>> /\ mgr.current \in ToSet(mgr.list)
      /\ mgr \in Managers /\ Grounded(mgr) /\ OnList(mgr)
  BY FreeIs, SettledIs DEF CtrlTab
<1>2. PICK m : m = mgr  OBVIOUS
<1>3. PICK p : p = Neighbour(m, direction)  OBVIOUS
<1>4. PICK n : n = [m EXCEPT !.pos = p]  OBVIOUS
<1>5. PICK f : f = FrameAt(n, n.pos)  OBVIOUS
<1>6. PICK a : a = ActivateFrame(n, f)  OBVIOUS
<1>7. PICK r : r = DeactivateFrame(a, m.current)  OBVIOUS
<1>8. Request(r, FALSE)
  BY <1>2, <1>3, <1>4, <1>5, <1>6, <1>7 DEF CtrlTab, DeactivateTowards, ActivateIndex
<1>9. Len(m.list) \in Nat /\ 1 \in 1 .. Len(m.list)  BY <1>1, <1>2, PanelsFirst
<1>10. p \in 0 .. (Len(m.list) - 1)
  <2>1. PICK l \in Nat : l = Len(m.list)  BY <1>9
  <2>2. PICK q \in Int : q = m.pos + direction  BY <1>1, <1>2, Fields
  <2>3. p = q % l /\ l > 0  BY <1>3, <1>9, <2>1, <2>2 DEF Neighbour
  <2>4. q % l \in 0 .. (l - 1)  BY <2>3
  <2> QED  BY <2>1, <2>3, <2>4
<1>11. /\ n \in Managers /\ n.pos = p /\ n.list = m.list /\ n.stack = m.stack
       /\ n.live = m.live /\ n.kind = m.kind /\ n.back = m.back /\ n.current = m.current
       /\ n.inserted = m.inserted /\ n.deleted = m.deleted /\ n.executed = m.executed
       /\ n.activated = m.activated /\ n.deactivated = m.deactivated
  <2>1. p \in Int  BY <1>9, <1>10
  <2> QED  BY <1>1, <1>2, <1>4, <2>1 DEF Managers
<1>12. /\ a \in Managers
       /\ a.list = n.list /\ a.pos = n.pos /\ a.stack = n.stack /\ a.live = n.live
       /\ a.kind = n.kind /\ a.back = n.back /\ a.current = n.current
       /\ a.deleted = n.deleted /\ SameRequests(n, a)
       /\ a.activated = IF n.activated = NoFrame /\ f \in ToSet(n.list) \cup ToSet(n.stack)
                          THEN f ELSE n.activated
  BY <1>6, <1>11, Activating
<1>13. Asks(a, r, a.inserted, a.deleted, a.executed, a.activated, m.current)
  BY <1>1, <1>2, <1>7, <1>12, AskingSlots, SettledIs DEF Slot
<1>14. f \in ToSet(m.list)
  <2>1. p + 1 \in 1 .. Len(m.list)  BY <1>9, <1>10
  <2>2. f = m.list[p + 1]  BY <1>5, <1>10, <1>11 DEF FrameAt
  <2>3. m.list \in Seq(AllFrames)  BY <1>1, <1>2, Fields
  <2> QED  BY <2>1, <2>2, <2>3 DEF ToSet
<1>15. /\ r \in Managers /\ r.pos = p /\ r.list = m.list /\ r.stack = m.stack
       /\ r.live = m.live /\ r.kind = m.kind /\ r.back = m.back /\ r.current = m.current
       /\ Unstructured(r) /\ r.activated = f /\ r.deactivated = m.current
  BY <1>2, <1>11, <1>12, <1>13, <1>14, SettledIs DEF Asks, Alike, SameRequests, Unstructured
<1>16. Grounded(r)
  BY <1>1, <1>2, <1>15 DEF Grounded, Linked, Distinct, PanelsTold, ListLinked, StackLinked,
     CurrentLinked, CanLoseFocus
<1>17. OnList(r)  BY <1>10, <1>15 DEF OnList
<1>18. f = FrameAt(r, r.pos)  BY <1>5, <1>11, <1>15 DEF FrameAt
<1>19. f # NoFrame /\ r.stack = <<>>  BY <1>1, <1>2, <1>14, <1>15, NobodyThere
<1>20. Focusing(r)
  <2>1. Uppermost(r) = f  BY <1>18, <1>19 DEF Uppermost
  <2>2. m.current \in ToSet(r.list) /\ f \in ToSet(r.list)  BY <1>1, <1>2, <1>14, <1>15
  <2> QED  BY <1>15, <1>16, <1>17, <1>19, <2>1, <2>2 DEF Focusing
<1>21. Handled(m, r) /\ Stays(m, r)
  BY <1>15, <1>20 DEF Handled, Stays, Unstructured
<1> QED  BY <1>2, <1>8, <1>15, <1>21, Staying DEF Unstructured

\* F6: the frame that takes the place of another is made and requested.
LEMMA StepSwitchEditorViewer ==
  ASSUME Settled(mgr), LoopsTyped(loops), NEW f \in Frames, SwitchEditorViewer(f) PROVE StaysHere
<1>1. PICK m : m = mgr  OBVIOUS
<1>2. /\ f \notin m.live /\ Settled(m) /\ m.current # Panels
      /\ m.current \in AllFrames /\ m.current = Uppermost(m) /\ m.current # NoFrame
  BY <1>1, SettledIs DEF SwitchEditorViewer, Unused, Closable
<1>3. f \in Slot /\ f # NoFrame  BY Nobody DEF Slot
<1>4. CASE Free
  <2>1. m.stack = <<>>  BY <1>1, <1>4, FreeIs
  <2>2. PICK n : n = New(m, f, "screen")  OBVIOUS
  <2>3. PICK d : d = New(DeleteFrame(m, m.current), f, "screen")  OBVIOUS
  <2>4. PICK r : r = InsertFrame(d, f)  OBVIOUS
  <2>5. Request(r, FALSE)  BY <1>1, <1>4, <2>3, <2>4 DEF SwitchEditorViewer
  <2>6. Asks(n, d, NoFrame, m.current, NoFrame, NoFrame, NoFrame)
    BY <1>2, <2>2, <2>3, MakingLate
  <2>7. Asks(d, r, f, d.deleted, d.executed, d.activated, d.deactivated)
    BY <1>3, <2>4, <2>6, AskingSlots DEF Asks, Alike
  <2>8. Asks(n, r, f, m.current, NoFrame, NoFrame, NoFrame)
    BY <2>6, <2>7 DEF Asks, Alike
  <2>9. Settled(n) /\ MayInsert(n, f) /\ n.current = m.current  BY <1>2, <2>1, <2>2, MadeScreen, Making
  <2>10. MayDelete(n, m.current)  BY <1>2, <2>9, SettledIs DEF MayDelete
  <2>11. Requesting(r)
    BY <1>3, <2>8, <2>9, <2>10, Requested DEF Asks, Unfocused
  <2>12. Handled(m, r) /\ r.live \ m.live = {f} /\ r.kind[f] = "screen"
    BY <1>2, <2>2, <2>8, <2>11, HandledNew DEF Asks
  <2>13. Stays(m, r)  BY <2>8, <2>12 DEF Stays, Asks
  <2>14. r.deleted = m.current  BY <2>8 DEF Asks
  <2> QED  BY <1>1, <2>5, <2>12, <2>13, <2>14, Staying
<1>5. CASE ~Free
  <2>1. m.stack # <<>> /\ m.current \in ToSet(m.stack)  BY <1>1, <1>5, SettledIs DEF Free
  <2>2. PICK n : n = New(m, f, "heap")  OBVIOUS
  <2>3. PICK d : d = New(DeleteFrame(m, m.current), f, "heap")  OBVIOUS
  <2>4. PICK r : r = ExecuteFrame(d, f)  OBVIOUS
  <2>5. Request(r, FALSE)  BY <1>1, <1>5, <2>3, <2>4 DEF SwitchEditorViewer
  <2>6. Asks(n, d, NoFrame, m.current, NoFrame, NoFrame, NoFrame)
    BY <1>2, <2>2, <2>3, MakingLate
  <2>7. Asks(d, r, d.inserted, d.deleted, f, d.activated, d.deactivated)
    BY <1>3, <2>4, <2>6, AskingSlots DEF Asks, Alike
  <2>8. Asks(n, r, NoFrame, m.current, f, NoFrame, NoFrame)
    BY <2>6, <2>7 DEF Asks, Alike
  <2>9. Settled(n) /\ MayExecute(n, f) /\ n.current = m.current /\ n.stack = m.stack
    BY <1>2, <2>2, MadeModal, Making
  <2>10. MayDelete(n, m.current)  BY <1>2, <2>9, SettledIs DEF MayDelete
  <2>11. Requesting(r)
    BY <1>3, <2>8, <2>9, <2>10, Requested DEF Asks, Unfocused
  <2>12. Handled(m, r) /\ r.live \ m.live = {f} /\ r.kind[f] = "heap"
    BY <1>2, <2>2, <2>8, <2>11, HandledNew DEF Asks
  <2>13. Stays(m, r)  BY <2>1, <2>8, <2>9, <2>12 DEF Stays, Asks, Alike
  <2>14. r.deleted = m.current  BY <2>8 DEF Asks
  <2> QED  BY <1>1, <2>5, <2>12, <2>13, <2>14, Staying
<1> QED  BY <1>4, <1>5

\* A frame of the list is told to close and another one to take its place.
LEMMA StepReload ==
  ASSUME Settled(mgr), LoopsTyped(loops), NEW f \in Frames, NEW g \in Frames, Reload(f, g), Free
  PROVE  StaysHere
<1>1. PICK m : m = mgr  OBVIOUS
<1>0. f # Panels /\ ClientsOwn  BY FramesAssumption DEF ClientsOwn
<1>2. g \notin m.live /\ Settled(m) /\ f # Panels /\ m.stack = <<>> /\ m \in Managers
  BY <1>0, <1>1, FreeIs, SettledIs DEF Reload, Unused
<1>3. g \in Slot /\ g # NoFrame /\ f \in AllFrames /\ f # NoFrame  BY Nobody DEF Slot
<1>4. f \in ToSet(m.list)  BY <1>1, <1>2, Listed DEF Reload
<1>5. PICK n : n = New(m, g, "screen")  OBVIOUS
<1>6. PICK d : d = New(DeleteFrame(m, f), g, "screen")  OBVIOUS
<1>7. PICK r : r = InsertFrame(d, g)  OBVIOUS
<1>8. Request(r, FALSE)  BY <1>1, <1>6, <1>7 DEF Reload
<1>9. Asks(n, d, NoFrame, f, NoFrame, NoFrame, NoFrame)
  BY <1>2, <1>3, <1>5, <1>6, MakingLate
<1>10. Asks(d, r, g, d.deleted, d.executed, d.activated, d.deactivated)
  BY <1>3, <1>7, <1>9, AskingSlots DEF Asks, Alike
<1>11. Asks(n, r, g, f, NoFrame, NoFrame, NoFrame)
  BY <1>9, <1>10 DEF Asks, Alike
<1>12. Settled(n) /\ MayInsert(n, g) /\ n.stack = m.stack /\ n.list = m.list
  BY <1>2, <1>5, MadeScreen, Making
<1>13. MayDelete(n, f)  BY <1>2, <1>4, <1>12 DEF MayDelete
<1>14. Requesting(r)  BY <1>3, <1>11, <1>12, <1>13, Requested DEF Asks, Unfocused
<1>15. Handled(m, r) /\ r.live \ m.live = {g} /\ r.kind[g] = "screen"
  BY <1>2, <1>5, <1>11, <1>14, HandledNew DEF Asks
<1>16. Stays(m, r)  BY <1>11, <1>15 DEF Stays, Asks
<1> QED  BY <1>0, <1>1, <1>2, <1>8, <1>15, <1>16, Staying

\* What starts a loop, put together.
LEMMA Deepening ==
  ASSUME Settled(mgr), NEW m, NEW l, EnterLoop(m, l), Handled(mgr, m), Enters(mgr, m, l),
         l.loop = "nonmodal" => ClientsOwn,
         m.deleted # NoFrame => ClientsOwn
  PROVE  GoesDeeper
<1>1. mgr' = m /\ mode' = "commit" /\ Len(loops) < MaxLoops /\ loops' = Append(loops, l)
  BY DEF EnterLoop
<1> QED  BY <1>1 DEF GoesDeeper

\* The record of an ExecuteModal
ModalLoop(o, ev) == [NewLoop("modal") EXCEPT !.owner = o, !.ev = ev]

\* ExecuteModal: ModalStartLevel is the height of the stack before the frame is on it.
LEMMA Modally ==
  ASSUME Settled(mgr), NEW o \in Frames \cup {NoFrame}, NEW ev, ev \in BOOLEAN, NEW l,
         l = ModalLoop(o, ev)
  PROVE  /\ l \in Loops /\ l.base = Len(mgr.stack) /\ ~l.inside /\ l.handler = NoFrame
         /\ l.loop = "modal" /\ l.owner = o
<1>1. PICK b \in Nat : b = Len(mgr.stack)  BY SettledIs, NobodyThere
<1>2. l = [loop |-> "modal", base |-> b, target |-> NoFrame, owner |-> o, ev |-> ev,
           inside |-> FALSE, handler |-> NoFrame]
  BY ONLY <1>1, l = ModalLoop(o, ev) DEF ModalLoop, NewLoop
<1>3. l \in Loops  BY ONLY <1>1, <1>2, o \in Frames \cup {NoFrame}, ev \in BOOLEAN DEF Loops
<1>4. l.loop = "modal" /\ l.base = b /\ l.owner = o /\ l.inside = FALSE /\ l.handler = NoFrame
  BY ONLY <1>2
<1>5. ~l.inside  BY ONLY <1>4
<1> QED  BY ONLY <1>1, <1>3, <1>4, <1>5

\* ExecuteNonModal: the loop has a frame to wait for.
LEMMA Unmodally ==
  ASSUME Settled(mgr), NEW f \in AllFrames, NEW l, l = [NewLoop("nonmodal") EXCEPT !.target = f]
  PROVE  /\ l \in Loops /\ l.base = Len(mgr.stack) /\ ~l.inside /\ l.handler = NoFrame
         /\ l.loop = "nonmodal" /\ l.owner = NoFrame
<1>1. PICK b \in Nat : b = Len(mgr.stack)  BY SettledIs, NobodyThere
<1>2. l = [loop |-> "nonmodal", base |-> b, target |-> f, owner |-> NoFrame, ev |-> FALSE,
           inside |-> FALSE, handler |-> NoFrame]
  BY <1>1 DEF NewLoop
<1>3. l \in Loops  BY ONLY <1>1, <1>2, f \in AllFrames DEF Loops
<1>4. l.inside = FALSE  BY <1>2
<1>5. ~l.inside  BY <1>4
<1> QED  BY <1>1, <1>2, <1>3, <1>5

\* A modal dialog, editor or viewer is run.
LEMMA StepOpenModal ==
  ASSUME Settled(mgr), LoopsTyped(loops), NEW f \in Frames, NEW k \in {"heap", "auto"},
         NEW ev \in BOOLEAN, OpenModal(f, k, ev)
  PROVE  GoesDeeper
<1>1. PICK m : m = mgr  OBVIOUS
<1>2. f \notin m.live /\ Settled(m) /\ m \in Managers /\ f \in Slot /\ f # NoFrame
  BY <1>1, SettledIs, Nobody DEF OpenModal, Unused, Slot
<1>3. PICK n : n = New(m, f, k)  OBVIOUS
<1>4. PICK o : o = IF Born(n, f) THEN NoFrame ELSE f  OBVIOUS
<1>5. PICK l : l = ModalLoop(o, ev)  OBVIOUS
<1>6. PICK r : r = ExecuteFrame(n, f)  OBVIOUS
<1>7. EnterLoop(r, l)  BY <1>1, <1>3, <1>4, <1>5, <1>6 DEF OpenModal, RunModalLoop, ModalLoop
<1>8. Settled(n) /\ n \in Managers /\ MayExecute(n, f)  BY <1>2, <1>3, MadeModal
<1>9. Asks(n, r, n.inserted, n.deleted, f, n.activated, n.deactivated)
  BY <1>2, <1>6, <1>8, AskingSlots
<1>10. Asks(n, r, NoFrame, NoFrame, f, NoFrame, NoFrame)  BY <1>8, <1>9, SettledIs
<1>11. Requesting(r)  BY <1>8, <1>10, Requested DEF Asks, Unfocused
<1>12. Handled(m, r) /\ r.live \ m.live = {f} /\ r.kind[f] = k
  BY <1>2, <1>3, <1>10, <1>11, HandledNew DEF Asks
<1>13. r.executed = f /\ r.deleted = NoFrame /\ r.stack = n.stack /\ r.kind = n.kind
  BY <1>10 DEF Asks, Alike
<1>14. r.deleted \notin ToSet(r.stack)  BY <1>8, <1>13, NobodyThere
<1>15. o \in Frames \cup {NoFrame} /\ o = IF r.kind[f] = "auto" THEN f ELSE NoFrame
  BY <1>4, <1>13 DEF Born
<1>16. /\ l \in Loops /\ l.base = Len(m.stack) /\ ~l.inside /\ l.handler = NoFrame
       /\ l.loop = "modal" /\ l.owner = o
  <2>1. o \in Frames \cup {NoFrame} /\ Settled(mgr) /\ ev \in BOOLEAN  BY <1>15
  <2> QED  BY ONLY <1>1, <1>5, <2>1, Modally
<1>17. Enters(m, r, l)  BY <1>2, <1>12, <1>13, <1>14, <1>15, <1>16 DEF Enters
<1> QED  BY <1>1, <1>7, <1>12, <1>13, <1>16, <1>17, Deepening

\* A message box comes up while a frame of the list is told to close.
LEMMA StepReloadWithMessage ==
  ASSUME Settled(mgr), LoopsTyped(loops), NEW f \in Frames, NEW g \in Frames,
         ReloadWithMessage(f, g), Free
  PROVE  GoesDeeper
<1>1. PICK m : m = mgr  OBVIOUS
<1>0. f # Panels /\ ClientsOwn  BY FramesAssumption DEF ClientsOwn
<1>2. g \notin m.live /\ Settled(m) /\ f # Panels /\ m.stack = <<>> /\ m \in Managers
  BY <1>0, <1>1, FreeIs, SettledIs DEF ReloadWithMessage, Unused
<1>3. g \in Slot /\ g # NoFrame /\ f \in AllFrames /\ f # NoFrame  BY Nobody DEF Slot
<1>4. f \in ToSet(m.list)  BY <1>1, <1>2, Listed DEF ReloadWithMessage
<1>5. PICK n : n = New(m, g, "auto")  OBVIOUS
<1>6. PICK d : d = New(DeleteFrame(m, f), g, "auto")  OBVIOUS
<1>7. PICK o : o = IF Born(d, g) THEN NoFrame ELSE g  OBVIOUS
<1>8. PICK l : l = ModalLoop(o, FALSE)  OBVIOUS
<1>9. PICK r : r = ExecuteFrame(d, g)  OBVIOUS
<1>10. EnterLoop(r, l)  BY <1>1, <1>6, <1>7, <1>8, <1>9 DEF ReloadWithMessage, RunModalLoop,
     ModalLoop
<1>11. Asks(n, d, NoFrame, f, NoFrame, NoFrame, NoFrame)
  BY <1>2, <1>3, <1>5, <1>6, MakingLate
<1>12. Asks(d, r, d.inserted, d.deleted, g, d.activated, d.deactivated)
  BY <1>3, <1>9, <1>11, AskingSlots DEF Asks, Alike
<1>13. Asks(n, r, NoFrame, f, g, NoFrame, NoFrame)
  BY <1>11, <1>12 DEF Asks, Alike
<1>14. Settled(n) /\ MayExecute(n, g) /\ n.stack = m.stack /\ n.list = m.list /\ n.kind[g] = "auto"
  BY <1>2, <1>5, MadeModal, Making
<1>15. MayDelete(n, f)  BY <1>2, <1>4, <1>14 DEF MayDelete
<1>16. Requesting(r)  BY <1>3, <1>13, <1>14, <1>15, Requested DEF Asks, Unfocused
<1>17. Handled(m, r) /\ r.live \ m.live = {g} /\ r.kind[g] = "auto"
  BY <1>2, <1>5, <1>13, <1>16, HandledNew DEF Asks
<1>18. r.executed = g /\ r.deleted = f /\ r.stack = <<>>  BY <1>2, <1>13, <1>14 DEF Asks, Alike
<1>19. r.deleted \notin ToSet(r.stack)  BY <1>18 DEF ToSet
<1>20. d.kind[g] = "auto"  BY <1>11, <1>14 DEF Asks, Alike
<1>21. o = g  BY <1>7, <1>20 DEF Born
<1>22. /\ l \in Loops /\ l.base = Len(m.stack) /\ ~l.inside /\ l.handler = NoFrame
       /\ l.loop = "modal" /\ l.owner = o
  <2>1. o \in Frames \cup {NoFrame} /\ Settled(mgr) /\ FALSE \in BOOLEAN  BY <1>21
  <2> QED  BY ONLY <1>1, <1>8, <2>1, Modally
<1>23. Enters(m, r, l)  BY <1>3, <1>17, <1>18, <1>19, <1>21, <1>22 DEF Enters
<1> QED  BY <1>0, <1>1, <1>2, <1>10, <1>17, <1>22, <1>23, Deepening

\* FarEditor or FarViewer runs a loop for a frame of the list that it makes.
LEMMA StepRunScreen ==
  ASSUME Settled(mgr), LoopsTyped(loops), NEW f \in Frames, RunScreen(f), Free
  PROVE  GoesDeeper
<1>1. PICK m : m = mgr  OBVIOUS
<1>0. ClientsOwn  BY DEF ClientsOwn
<1>2. f \notin m.live /\ Settled(m) /\ m.stack = <<>> /\ f \in AllFrames
  BY <1>1, FreeIs, Nobody DEF RunScreen, Unused
<1>3. PICK n : n = New(m, f, "screen")  OBVIOUS
<1>4. PICK r : r = InsertCommit(n, f)  OBVIOUS
<1>5. PICK l : l = [NewLoop("nonmodal") EXCEPT !.target = f]  OBVIOUS
<1>6. EnterLoop(r, l)  BY <1>1, <1>3, <1>4, <1>5 DEF RunScreen, RunScreenLoop
<1>7. Settled(n) /\ MayInsert(n, f)  BY <1>2, <1>3, MadeScreen
<1>8. Placed(n) /\ Unfocused(n) /\ Unstructured(n)  BY <1>7 DEF Settled
<1>9. /\ Focusing(r) /\ r.stack = n.stack /\ ToSet(r.list) = ToSet(n.list) \cup {f}
      /\ r.kind = n.kind /\ r.live = n.live
  BY <1>4, <1>7, <1>8, InsertedFocusing
<1>10. /\ n.list = m.list /\ n.stack = m.stack /\ n.live = m.live \cup {f} /\ n.kind[f] = "screen"
       /\ \A h \in m.live : n.kind[h] = m.kind[h]
  BY <1>2, <1>3, Making
<1>11. Unstructured(r)  BY <1>9 DEF Focusing
<1>12. Handled(m, r)  BY <1>9, <1>10, <1>11 DEF Handled, Unstructured
<1>13. /\ l \in Loops /\ l.base = Len(m.stack) /\ ~l.inside /\ l.handler = NoFrame
       /\ l.loop = "nonmodal" /\ l.owner = NoFrame
  BY <1>1, <1>2, <1>5, Unmodally
<1>14. Enters(m, r, l)  BY <1>2, <1>9, <1>10, <1>11, <1>13 DEF Enters, Unstructured
<1> QED  BY <1>0, <1>1, <1>2, <1>6, <1>11, <1>12, <1>14, Deepening DEF Unstructured

\* FarEditor runs a loop for a frame that it finds in the list.
LEMMA StepRunOpened ==
  ASSUME Settled(mgr), LoopsTyped(loops), NEW f \in Frames, RunOpened(f), Free
  PROVE  GoesDeeper
<1>1. PICK m : m = mgr  OBVIOUS
<1>0. f \in AllFrames /\ ClientsOwn  BY DEF AllFrames, ClientsOwn
<1>2. Settled(m) /\ m.stack = <<>> /\ m \in Managers
  BY <1>1, FreeIs, SettledIs DEF RunOpened
<1>3. PICK r : r = ActivateFrame(m, f)  OBVIOUS
<1>4. PICK l : l = [NewLoop("nonmodal") EXCEPT !.target = f]  OBVIOUS
<1>5. EnterLoop(r, l)  BY <1>1, <1>3, <1>4 DEF RunOpened, RunScreenLoop
<1>6. /\ Alike(m, r) /\ Unstructured(r) /\ r.deactivated = NoFrame
      /\ r.activated \in ToSet(m.list) \cup {NoFrame}
  BY <1>2, <1>3, Switched
<1>7. Focusing(r)  BY <1>2, <1>6, FocusAsked
<1>8. Handled(m, r)  BY <1>2, <1>6, <1>7, HandledAlike DEF Unstructured
<1>9. /\ l \in Loops /\ l.base = Len(m.stack) /\ ~l.inside /\ l.handler = NoFrame
      /\ l.loop = "nonmodal" /\ l.owner = NoFrame
  BY <1>0, <1>1, <1>2, <1>4, Unmodally
<1>10. Enters(m, r, l)  BY <1>2, <1>6, <1>9 DEF Enters, Unstructured, Alike
<1> QED  BY <1>0, <1>1, <1>2, <1>5, <1>6, <1>8, <1>10, Deepening DEF Unstructured

\* Whatever that code does, it is one of the three, unless it opens a frame that is not modal
\* over a modal one.
LEMMA Handling ==
  ASSUME Settled(mgr), LoopsTyped(loops), Features \cap {"switch", "dmclose"} = {}, HandlerStep,
         ~OpensOverModal
  PROVE  StaysHere \/ ClosesOne \/ GoesDeeper
<1>1. "switch" \notin Features /\ "dmclose" \notin Features  OBVIOUS
<1>2. CASE HandlerReturns  BY <1>2, StepHandlerReturns
<1>3. CASE \E f \in Frames, k \in {"heap", "auto"}, ev \in BOOLEAN : OpenModal(f, k, ev)
  BY <1>3, StepOpenModal
<1>4. CASE \E f \in Frames, commits \in BOOLEAN : OpenScreen(f, commits)
  <2>1. Running  BY <1>4 DEF OpenScreen, MayOpen
  <2>2. Free  BY <1>4, <2>1 DEF OpensOverModal
  <2> QED  BY <1>4, <2>2, StepOpenScreen
<1>5. CASE \E f \in Frames : RunScreen(f)
  <2>1. Running  BY <1>5 DEF RunScreen, MayOpen
  <2>2. Free  BY <1>5, <2>1 DEF OpensOverModal
  <2> QED  BY <1>5, <2>2, StepRunScreen
<1>6. CASE \E f \in Frames, commits \in BOOLEAN : SwitchToOpened(f, commits)
  <2>1. Running  BY <1>6 DEF SwitchToOpened, MayOpen
  <2>2. Free  BY <1>6, <2>1 DEF OpensOverModal
  <2> QED  BY <1>6, <2>2, StepSwitchToOpened
<1>7. CASE \E f \in Frames : RunOpened(f)
  <2>1. Running  BY <1>7 DEF RunOpened, MayOpen
  <2>2. Free  BY <1>7, <2>1 DEF OpensOverModal
  <2> QED  BY <1>7, <2>2, StepRunOpened
<1>8. CASE \E f, g \in Frames : Reload(f, g) \/ ReloadWithMessage(f, g)
  <2>1. Running  BY <1>8 DEF Reload, ReloadWithMessage, MayOpen
  <2>2. Free  BY <1>8, <2>1 DEF OpensOverModal
  <2> QED  BY <1>8, <2>2, StepReload, StepReloadWithMessage
<1>9. CASE Close  BY <1>9, StepClose
<1>10. CASE \E f \in Frames : CloseDialog(f) \/ SwitchEditorViewer(f)
  BY <1>1, <1>10, StepCloseDialog, StepSwitchEditorViewer
<1>11. CASE \E direction \in {1, -1} : CtrlTab(direction)  BY <1>11, StepCtrlTab
<1>12. CASE \E f \in AllFrames \cup {NoFrame} : ScreensMenu(f)  BY <1>12, StepScreensMenu
<1>13. CASE SwitchToPanels  BY <1>13, StepSwitchToPanels
<1>14. CASE \E commits \in BOOLEAN : Repaint(commits)  BY <1>14, StepRepaint
<1>15. CASE \E i \in 0..Cardinality(Frames), commits \in BOOLEAN : SetCurrentWindow(i, commits)
  BY <1>1, <1>15, StepSetCurrentWindow
<1>16. CASE QuitEditor  BY <1>16, StepQuitEditor
<1> QED
  BY <1>2, <1>3, <1>4, <1>5, <1>6, <1>7, <1>8, <1>9, <1>10, <1>11, <1>12, <1>13, <1>14, <1>15,
     <1>16 DEF HandlerStep

-----------------------------------------------------------------------------
(* The frames and the loops                                                *)

\* The automatic frames of the loops exist, and are on the stack, if at all, above the level
\* that the loop has started at
OwnersHeld(m, ls) ==
  \A n \in 1 .. Len(ls) : ls[n].owner # NoFrame =>
    /\ ls[n].loop = "modal"
    /\ ls[n].owner \in m.live /\ m.kind[ls[n].owner] = "auto"
    /\ \A i \in 1 .. Len(m.stack) : m.stack[i] = ls[n].owner => i > ls[n].base
    /\ m.executed = ls[n].owner => Len(m.stack) >= ls[n].base /\ m.deleted \notin ToSet(m.stack)

\* No two loops run the same automatic frame
OwnersDiffer(ls) ==
  \A n, k \in 1 .. Len(ls) : ls[n].owner # NoFrame /\ ls[k].owner = ls[n].owner => k = n

\* No frame is lost: an automatic one belongs to a loop, any other is in a list or requested
Accounted(m, ls) ==
  \A f \in m.live :
    /\ m.kind[f] = "auto" => \E n \in 1 .. Len(ls) : ls[n].owner = f
    /\ m.kind[f] # "auto" => f \in ToSet(m.list) \cup ToSet(m.stack) \cup {m.inserted, m.executed}

\* The main loop is the first, and the only one
MainFirst(ls) == \A n \in 1 .. Len(ls) : ls[n].loop = "main" <=> n = 1

\* The frames and the loops
Owned(m, ls) == OwnersHeld(m, ls) /\ OwnersDiffer(ls) /\ Accounted(m, ls) /\ MainFirst(ls)

\* What the running loop does to itself does not matter to the automatic frames.
LEMMA SameOwners ==
  ASSUME NEW ls \in Seq(Loops), NEW ks, SameLoops(ls, ks)
  PROVE  /\ OwnersDiffer(ls) => OwnersDiffer(ks)
         /\ MainFirst(ls) => MainFirst(ks)
         /\ \A m : OwnersHeld(m, ls) => OwnersHeld(m, ks)
         /\ \A m : Accounted(m, ls) => Accounted(m, ks)
<1>1. /\ Len(ks) = Len(ls) /\ Len(ls) \in Nat
      /\ \A n \in 1 .. Len(ls) : /\ ks[n].loop = ls[n].loop /\ ks[n].base = ls[n].base
                                 /\ ks[n].owner = ls[n].owner
  BY LoopFields DEF SameLoops
<1>2. OwnersDiffer(ls) => OwnersDiffer(ks)  BY <1>1 DEF OwnersDiffer
<1>3. MainFirst(ls) => MainFirst(ks)  BY <1>1 DEF MainFirst
<1>4. ASSUME NEW m, OwnersHeld(m, ls) PROVE OwnersHeld(m, ks)  BY <1>1, <1>4 DEF OwnersHeld
<1>5. ASSUME NEW m, Accounted(m, ls) PROVE Accounted(m, ks)  BY <1>1, <1>5 DEF Accounted
<1> QED  BY <1>2, <1>3, <1>4, <1>5

\* A round of Commit destroys no automatic frame and loses none.
LEMMA OwnedRound ==
  ASSUME NEW m \in Managers, NEW r \in Managers, Effect(m, r), Unstructured(r),
         NEW ls \in Seq(Loops), Owned(m, ls)
  PROVE  Owned(r, ls)
<1>1. /\ m.live \subseteq AllFrames /\ NoFrame \notin AllFrames /\ Len(m.stack) \in Nat
      /\ Len(r.stack) \in Nat
  BY Fields, Nobody, NobodyThere
<1>2. /\ \A f \in r.live : f \in m.live /\ (m.kind[f] = "auto" <=> r.kind[f] = "auto")
      /\ \A f \in m.live : m.kind[f] = "auto" => f \in r.live /\ r.kind[f] = "auto"
      /\ \A f \in r.live : r.kind[f] # "auto" => f # m.deleted
  BY <1>1 DEF Effect
<1>3. OwnersHeld(r, ls)
  <2> SUFFICES ASSUME NEW n \in 1 .. Len(ls), ls[n].owner # NoFrame
               PROVE  /\ ls[n].loop = "modal"
                      /\ ls[n].owner \in r.live /\ r.kind[ls[n].owner] = "auto"
                      /\ \A i \in 1 .. Len(r.stack) : r.stack[i] = ls[n].owner => i > ls[n].base
                      /\ r.executed # ls[n].owner
    BY DEF OwnersHeld
  <2>0. PICK o : o = ls[n].owner  OBVIOUS
  <2>1. PICK b \in Nat : b = ls[n].base /\ o = ls[n].owner  BY <2>0, LoopFields
  <2>2. /\ ls[n].loop = "modal" /\ o \in m.live /\ m.kind[o] = "auto" /\ o # NoFrame
        /\ \A i \in 1 .. Len(m.stack) : m.stack[i] = o => i > b
        /\ m.executed = o => Len(m.stack) >= b /\ m.deleted \notin ToSet(m.stack)
    BY <2>1 DEF Owned, OwnersHeld
  <2>3. o \in r.live /\ r.kind[o] = "auto"  BY <1>2, <2>2
  <2>4. r.executed = NoFrame  BY DEF Unstructured
  <2>5. ASSUME NEW i \in 1 .. Len(r.stack), r.stack[i] = o PROVE i > b
    <3>1. PICK k \in Nat : k = Kept(m)  BY DEF Effect
    <3>2. /\ Len(r.stack) = IF m.executed = NoFrame THEN k ELSE k + 1
          /\ \A j \in 1 .. k : j \in 1 .. Len(m.stack) /\ r.stack[j] = m.stack[j]
          /\ m.executed # NoFrame => r.stack[k + 1] = m.executed
      BY <3>1 DEF Effect
    <3>3. CASE i \in 1 .. k  BY <2>2, <2>5, <3>2, <3>3
    <3>4. CASE i \notin 1 .. k
      <4>1. i = k + 1 /\ m.executed # NoFrame  BY <1>1, <3>1, <3>2, <3>4
      <4>2. m.executed = o  BY <2>5, <3>2, <4>1
      <4>3. k = Len(m.stack)  BY <2>2, <3>1, <4>2 DEF Kept
      <4> QED  BY <1>1, <2>1, <2>2, <4>1, <4>2, <4>3
    <3> QED  BY <3>3, <3>4
  <2> QED  BY <2>1, <2>2, <2>3, <2>4, <2>5
<1>4. Accounted(r, ls)
  <2> SUFFICES ASSUME NEW f \in r.live
               PROVE  /\ r.kind[f] = "auto" => \E n \in 1 .. Len(ls) : ls[n].owner = f
                      /\ r.kind[f] # "auto" => f \in ToSet(r.list) \cup ToSet(r.stack)
    BY DEF Accounted
  <2>1. /\ m.kind[f] = "auto" => \E n \in 1 .. Len(ls) : ls[n].owner = f
        /\ m.kind[f] # "auto" => f \in ToSet(m.list) \cup ToSet(m.stack) \cup {m.inserted, m.executed}
        /\ f # NoFrame
    BY <1>1, <1>2 DEF Owned, Accounted
  <2>2. r.kind[f] # "auto" => f \in ToSet(r.list) \cup ToSet(r.stack)
    BY <1>2, <2>1 DEF Effect
  <2> QED  BY <1>2, <2>1, <2>2
<1> QED  BY <1>3, <1>4 DEF Owned

\* The code that a loop calls destroys no automatic frame and loses none.
LEMMA OwnedHandled ==
  ASSUME NEW m, Settled(m), NEW r, Handled(m, r), NEW ls \in Seq(Loops), Owned(m, ls)
  PROVE  /\ OwnersHeld(r, ls)
         /\ \A f \in m.live : /\ r.kind[f] = "auto" => \E n \in 1 .. Len(ls) : ls[n].owner = f
                              /\ r.kind[f] # "auto" =>
                                   f \in ToSet(r.list) \cup ToSet(r.stack) \cup {r.inserted, r.executed}
<1>1. /\ m \in Managers /\ m.live \subseteq AllFrames /\ NoFrame \notin AllFrames
      /\ m.inserted = NoFrame /\ m.executed = NoFrame
  BY SettledIs, Fields, Nobody
<1>2. OwnersHeld(r, ls)
  <2> SUFFICES ASSUME NEW n \in 1 .. Len(ls), ls[n].owner # NoFrame
               PROVE  /\ ls[n].loop = "modal"
                      /\ ls[n].owner \in r.live /\ r.kind[ls[n].owner] = "auto"
                      /\ \A i \in 1 .. Len(r.stack) : r.stack[i] = ls[n].owner => i > ls[n].base
                      /\ r.executed # ls[n].owner
    BY DEF OwnersHeld
  <2>1. PICK o : o = ls[n].owner  OBVIOUS
  <2>2. /\ ls[n].loop = "modal" /\ o \in m.live /\ m.kind[o] = "auto" /\ o # NoFrame
        /\ \A i \in 1 .. Len(m.stack) : m.stack[i] = o => i > ls[n].base
    BY <2>1 DEF Owned, OwnersHeld
  <2> QED  BY <2>1, <2>2 DEF Handled
<1>3. ASSUME NEW f \in m.live
      PROVE  /\ r.kind[f] = "auto" => \E n \in 1 .. Len(ls) : ls[n].owner = f
             /\ r.kind[f] # "auto" => f \in ToSet(r.list) \cup ToSet(r.stack)
  <2>1. r.kind[f] = m.kind[f] /\ f # NoFrame /\ r.stack = m.stack /\ ToSet(m.list) \subseteq ToSet(r.list)
    BY <1>1 DEF Handled
  <2>2. /\ m.kind[f] = "auto" => \E n \in 1 .. Len(ls) : ls[n].owner = f
        /\ m.kind[f] # "auto" => f \in ToSet(m.list) \cup ToSet(m.stack)
    BY <1>1, <2>1 DEF Owned, Accounted
  <2> QED  BY <2>1, <2>2
<1> QED  BY <1>2, <1>3

\* The same when it stays in its loop.
LEMMA OwnedStays ==
  ASSUME NEW m, Settled(m), NEW r, Handled(m, r), Stays(m, r), NEW ls \in Seq(Loops), Owned(m, ls)
  PROVE  Owned(r, ls)
<1>1. /\ OwnersHeld(r, ls)
      /\ \A f \in m.live : /\ r.kind[f] = "auto" => \E n \in 1 .. Len(ls) : ls[n].owner = f
                           /\ r.kind[f] # "auto" =>
                                f \in ToSet(r.list) \cup ToSet(r.stack) \cup {r.inserted, r.executed}
  BY OwnedHandled
<1>2. \A f \in r.live \ m.live :
        r.kind[f] # "auto" /\ f \in ToSet(r.list) \cup {r.inserted, r.executed}
  BY DEF Handled, Stays
<1>3. Accounted(r, ls)
  <2> SUFFICES ASSUME NEW f \in r.live
               PROVE  /\ r.kind[f] = "auto" => \E n \in 1 .. Len(ls) : ls[n].owner = f
                      /\ r.kind[f] # "auto" =>
                           f \in ToSet(r.list) \cup ToSet(r.stack) \cup {r.inserted, r.executed}
    BY DEF Accounted
  <2> QED  BY <1>1, <1>2
<1> QED  BY <1>1, <1>3 DEF Owned

\* A loop more.
LEMMA LongerLoops ==
  ASSUME NEW ls \in Seq(Loops), NEW l \in Loops, NEW ks, ks = Append(ls, l)
  PROVE  /\ ks \in Seq(Loops) /\ Len(ks) = Len(ls) + 1 /\ Len(ls) \in Nat /\ Last(ks) = l
         /\ \A n \in 1 .. Len(ls) : ks[n] = ls[n]
         /\ ks[Len(ls) + 1] = l
<1>1. PICK n \in Nat : n = Len(ls)  BY LenProperties
<1>2. /\ ks \in Seq(Loops) /\ Len(ks) = n + 1
      /\ \A k \in 1 .. n : ks[k] = ls[k]
      /\ ks[n + 1] = l
  BY <1>1, AppendProperties
<1>3. Last(ks) = l  BY <1>2 DEF Last
<1> QED  BY <1>1, <1>2, <1>3

\* The automatic frame of a loop that is started is new, and belongs to that loop.
LEMMA OwnedDeeper ==
  ASSUME NEW m, Settled(m), NEW r, Handled(m, r), NEW l, Enters(m, r, l),
         NEW ls \in Seq(Loops), Owned(m, ls), Len(ls) > 0, NEW ks, ks = Append(ls, l)
  PROVE  Owned(r, ks)
<1>1. /\ OwnersHeld(r, ls)
      /\ \A f \in m.live : /\ r.kind[f] = "auto" => \E n \in 1 .. Len(ls) : ls[n].owner = f
                           /\ r.kind[f] # "auto" =>
                                f \in ToSet(r.list) \cup ToSet(r.stack) \cup {r.inserted, r.executed}
  BY OwnedHandled
<1>2. l \in Loops  BY DEF Enters
<1>3. PICK n \in Nat : n = Len(ls)  BY LenProperties
<1>4. /\ ks \in Seq(Loops) /\ Len(ks) = n + 1 /\ n > 0
      /\ \A k \in 1 .. n : ks[k] = ls[k]
      /\ ks[n + 1] = l
  BY <1>2, <1>3, LongerLoops
<1>5. /\ m \in Managers /\ m.live \subseteq AllFrames /\ NoFrame \notin AllFrames
      /\ ToSet(m.stack) \subseteq m.live /\ Len(m.stack) \in Nat /\ m.stack \in Seq(AllFrames)
  BY SettledIs, Fields, Nobody, NobodyThere
<1>6. /\ m.live \subseteq r.live /\ r.stack = m.stack
      /\ \A f \in r.live \ m.live : f \in ToSet(r.list) \cup {r.inserted, r.executed}
      /\ r.executed # NoFrame => r.executed \in r.live \ m.live
  BY DEF Handled
\* The new loop's own frame is new
<1>7. l.owner # NoFrame =>
        /\ l.loop = "modal" /\ l.owner = r.executed /\ l.owner \in r.live \ m.live
        /\ r.kind[l.owner] = "auto" /\ l.base = Len(m.stack) /\ r.deleted \notin ToSet(r.stack)
  BY <1>6 DEF Enters
<1>8. l.loop # "main"  BY DEF Enters
<1>9. \A k \in 1 .. n : ls[k].owner # NoFrame => ls[k].owner \in m.live
  BY <1>3 DEF Owned, OwnersHeld
<1>10. \A k \in 1 .. (n + 1) : k \in 1 .. n \/ k = n + 1  BY <1>3
<1>11. OwnersHeld(r, ks)
  <2> SUFFICES ASSUME NEW k \in 1 .. (n + 1), ks[k].owner # NoFrame
               PROVE  /\ ks[k].loop = "modal"
                      /\ ks[k].owner \in r.live /\ r.kind[ks[k].owner] = "auto"
                      /\ \A i \in 1 .. Len(r.stack) : r.stack[i] = ks[k].owner => i > ks[k].base
                      /\ r.executed = ks[k].owner =>
                           Len(r.stack) >= ks[k].base /\ r.deleted \notin ToSet(r.stack)
    BY <1>4 DEF OwnersHeld
  <2>1. CASE k \in 1 .. n
    <3>1. ks[k] = ls[k]  BY <1>4, <2>1
    <3> QED  BY <1>1, <1>3, <2>1, <3>1 DEF OwnersHeld
  <2>2. CASE k = n + 1
    <3>1. ks[k] = l  BY <1>4, <2>2
    <3>2. \A i \in 1 .. Len(r.stack) : r.stack[i] # l.owner
      <4>1. \A i \in 1 .. Len(m.stack) : m.stack[i] \in m.live  BY <1>5 DEF ToSet
      <4> QED  BY <1>6, <1>7, <3>1, <4>1
    <3> QED  BY <1>5, <1>6, <1>7, <3>1, <3>2
  <2> QED  BY <1>10, <2>1, <2>2
<1>12. OwnersDiffer(ks)
  <2> SUFFICES ASSUME NEW i \in 1 .. (n + 1), NEW k \in 1 .. (n + 1),
                      ks[i].owner # NoFrame, ks[k].owner = ks[i].owner
               PROVE  k = i
    BY <1>4 DEF OwnersDiffer
  <2>1. CASE i \in 1 .. n /\ k \in 1 .. n
    <3>1. ks[i] = ls[i] /\ ks[k] = ls[k]  BY <1>4, <2>1
    <3> QED  BY <1>3, <2>1, <3>1 DEF Owned, OwnersDiffer
  <2>2. CASE i \in 1 .. n /\ k = n + 1
    <3>1. ks[i] = ls[i] /\ ks[k] = l  BY <1>4, <2>2
    <3> QED  BY <1>7, <1>9, <2>2, <3>1
  <2>3. CASE i = n + 1 /\ k \in 1 .. n
    <3>1. ks[i] = l /\ ks[k] = ls[k]  BY <1>4, <2>3
    <3> QED  BY <1>7, <1>9, <2>3, <3>1
  <2> QED  BY <1>10, <2>1, <2>2, <2>3
<1>13. Accounted(r, ks)
  <2> SUFFICES ASSUME NEW f \in r.live
               PROVE  /\ r.kind[f] = "auto" => \E k \in 1 .. (n + 1) : ks[k].owner = f
                      /\ r.kind[f] # "auto" =>
                           f \in ToSet(r.list) \cup ToSet(r.stack) \cup {r.inserted, r.executed}
    BY <1>4 DEF Accounted
  <2>1. CASE f \in m.live
    <3>1. ASSUME NEW k \in 1 .. Len(ls), ls[k].owner = f PROVE k \in 1 .. (n + 1) /\ ks[k].owner = f
      BY <1>3, <1>4, <3>1
    <3> QED  BY <1>1, <2>1, <3>1
  <2>2. CASE f \notin m.live
    <3>1. r.kind[f] = "auto" => l.owner = f  BY <2>2 DEF Enters
    <3>2. n + 1 \in 1 .. (n + 1)  BY <1>3
    <3> QED  BY <1>4, <1>6, <2>2, <3>1, <3>2
  <2> QED  BY <2>1, <2>2
<1>14. MainFirst(ks)
  <2> SUFFICES ASSUME NEW k \in 1 .. (n + 1) PROVE ks[k].loop = "main" <=> k = 1
    BY <1>4 DEF MainFirst
  <2>1. CASE k \in 1 .. n
    <3>1. ks[k] = ls[k]  BY <1>4, <2>1
    <3> QED  BY <1>3, <2>1, <3>1 DEF Owned, MainFirst
  <2>2. CASE k = n + 1
    <3>1. ks[k] = l /\ k # 1  BY <1>4, <2>2
    <3> QED  BY <1>8, <3>1
  <2> QED  BY <1>10, <2>1, <2>2
<1> QED  BY <1>11, <1>12, <1>13, <1>14 DEF Owned

\* A loop less.
LEMMA FewerLoops ==
  ASSUME NEW ls \in Seq(Loops), Len(ls) > 1, NEW ks, ks = Front(ls)
  PROVE  /\ ks \in Seq(Loops) /\ Len(ks) = Len(ls) - 1
         /\ \A n \in 1 .. (Len(ls) - 1) : ks[n] = ls[n]
         /\ Last(ls) = ls[Len(ls)] /\ Last(ks) = ls[Len(ls) - 1]
<1>1. PICK n \in Nat : n = Len(ls) - 1 /\ n > 0 /\ Len(ls) = n + 1  BY LenProperties
<1>2. ks = SubSeq(ls, 1, n)  BY <1>1 DEF Front
<1>3. \A k \in 1 .. n : ls[k] \in Loops  BY <1>1, LenProperties
<1>4. /\ ks \in Seq(Loops) /\ Len(ks) = n
      /\ \A k \in 1 .. n : ks[k] = ls[k]
  BY <1>1, <1>2, <1>3, SubSeqProperties
<1> QED  BY <1>1, <1>4 DEF Last

\* An automatic frame that nothing refers to is destroyed.
LEMMA DestroyedSettled ==
  ASSUME NEW m, Settled(m), NEW o \in Frames, m.kind[o] = "auto", o \notin ToSet(m.stack),
         NEW r, r = Destroy(m, o)
  PROVE  /\ Settled(r) /\ r.list = m.list /\ r.stack = m.stack
         /\ r.live = m.live \ {o}
         /\ \A f \in AllFrames \ {o} : r.kind[f] = m.kind[f]
<1>1. /\ m \in Managers /\ Placed(m) /\ Grounded(m) /\ OnList(m)
      /\ ToSet(m.list) \subseteq m.live /\ ToSet(m.stack) \subseteq m.live /\ m.live \subseteq AllFrames
      /\ o \in AllFrames /\ o # Panels
      /\ m.current \in ToSet(m.list) \cup ToSet(m.stack)
  BY SettledIs, Fields, FramesAssumption DEF AllFrames
<1>2. o \notin ToSet(m.list)
  BY <1>1 DEF Grounded, Linked, ListLinked, CanLoseFocus
<1> DEFINE q == [m.kind EXCEPT ![o] = "screen"]
           b == [m.back EXCEPT ![o] = NoFrame]
           l == m.live \ {o}
<1>3. r = [m EXCEPT !.live = l, !.kind = q, !.back = b]  BY <1>1 DEF Destroy, Managers
<1>4. l \subseteq AllFrames /\ q \in [AllFrames -> Kinds] /\ b \in [AllFrames -> Slot]
  BY <1>1, Fields DEF Kinds, Slot
<1>5. /\ q[o] = "screen" /\ \A h \in AllFrames \ {o} : q[h] = m.kind[h] /\ b[h] = m.back[h]
  BY <1>1, Fields
<1>50. l = m.live \ {o}  OBVIOUS
<1> HIDE DEF q, l, b
<1>6. r \in Managers /\ r.live = l /\ r.kind = q /\ r.back = b
  BY <1>1, <1>3, <1>4 DEF Managers, Slot
<1>7. /\ r.list = m.list /\ r.pos = m.pos /\ r.stack = m.stack
      /\ r.current = m.current /\ r.inserted = m.inserted /\ r.deleted = m.deleted
      /\ r.executed = m.executed /\ r.activated = m.activated /\ r.deactivated = m.deactivated
  BY <1>1, <1>3 DEF Managers
<1>8. PanelsTold(r)
  <2>1. \A f \in AllFrames : m.kind[f] = "panels" <=> f = Panels
    BY <1>1 DEF PanelsTold, Grounded, Linked
  <2> QED  BY <1>1, <1>5, <1>6, <2>1 DEF PanelsTold
<1>9. ListLinked(r)
  <2>1. \A f \in ToSet(m.list) :
          f \in m.live /\ CanLoseFocus(m, f) /\ m.back[f] \in ToSet(m.list) \cup {NoFrame}
    BY <1>1 DEF ListLinked, Grounded, Linked
  <2>2. ASSUME NEW f \in ToSet(m.list)
        PROVE  f \in r.live /\ CanLoseFocus(r, f) /\ r.back[f] \in ToSet(m.list) \cup {NoFrame}
    <3>1. f \in AllFrames \ {o}  BY <1>1, <1>2
    <3> QED  BY <1>5, <1>50, <1>6, <2>1, <3>1 DEF CanLoseFocus
  <2> QED  BY <1>7, <2>2 DEF ListLinked
<1>10. StackLinked(r)
  <2>1. \A f \in ToSet(m.stack) : f \in m.live /\ ~CanLoseFocus(m, f)
    BY <1>1 DEF StackLinked, Grounded, Linked
  <2>2. ASSUME NEW f \in ToSet(m.stack) PROVE f \in r.live /\ ~CanLoseFocus(r, f)
    <3>1. f \in AllFrames \ {o}  BY <1>1
    <3> QED  BY <1>5, <1>50, <1>6, <2>1, <3>1 DEF CanLoseFocus
  <2> QED  BY <1>7, <2>2 DEF StackLinked
<1>11. Distinct(r) /\ CurrentLinked(r)
  BY <1>1, <1>2, <1>50, <1>6, <1>7 DEF Distinct, CurrentLinked, Grounded, Linked
<1>12. Grounded(r)  BY <1>1, <1>6, <1>7, <1>8, <1>9, <1>10, <1>11 DEF Grounded, Linked
<1>13. OnList(r) /\ Uppermost(r) = Uppermost(m)  BY <1>1, <1>7 DEF OnList, Uppermost, FrameAt
<1>14. Settled(r)
  <2>1. m.current = Uppermost(m) /\ Unstructured(m) /\ Unfocused(m)  BY DEF Settled, Placed
  <2> QED  BY <1>7, <1>12, <1>13, <2>1 DEF Settled, Placed, Unstructured, Unfocused
<1> QED  BY <1>5, <1>50, <1>6, <1>7, <1>14

\* ExecuteModal returns, and the automatic frame of its function is destroyed: nothing refers
\* to it, since the stack is down to where the loop began.
LEMMA OwnedLeft ==
  ASSUME NEW m, Settled(m), NEW ls \in Seq(Loops), Owned(m, ls), Len(ls) > 1,
         NEW l, l = Last(ls), l.owner # NoFrame => Len(m.stack) <= l.base,
         NEW ks, ks = Front(ls),
         NEW r, r = IF l.owner = NoFrame THEN m ELSE Destroy(m, l.owner)
  PROVE  Settled(r) /\ Owned(r, ks) /\ r.list = m.list /\ r.stack = m.stack
         /\ r.live = m.live \ {l.owner} /\ \A f \in r.live : r.kind[f] = m.kind[f]
<1>1. PICK n \in Nat : n = Len(ls) - 1 /\ n > 0 /\ Len(ls) = n + 1  BY LenProperties
<1>2. /\ ks \in Seq(Loops) /\ Len(ks) = n
      /\ \A k \in 1 .. n : ks[k] = ls[k]
      /\ l = ls[n + 1] /\ n + 1 \in 1 .. Len(ls)
  <2>1. /\ ks \in Seq(Loops) /\ Len(ks) = Len(ls) - 1
        /\ \A k \in 1 .. (Len(ls) - 1) : ks[k] = ls[k]
        /\ Last(ls) = ls[Len(ls)]
    BY FewerLoops
  <2>2. n + 1 \in 1 .. (n + 1)  BY <1>1
  <2>3. l = ls[n + 1]  BY <1>1, <2>1
  <2> QED  BY <1>1, <2>1, <2>2, <2>3
<1>3. PICK o : o = l.owner  OBVIOUS
<1>4. /\ m \in Managers /\ m.live \subseteq AllFrames /\ NoFrame \notin AllFrames
      /\ Len(m.stack) \in Nat /\ m.stack \in Seq(AllFrames)
      /\ m.inserted = NoFrame /\ m.executed = NoFrame
  BY SettledIs, Fields, Nobody, NobodyThere
<1>5. o \in Frames \cup {NoFrame} /\ l.base \in Nat  BY <1>2, <1>3, LoopFields
<1>6. o # NoFrame => /\ m.kind[o] = "auto" /\ o \notin ToSet(m.stack)
                     /\ \A k \in 1 .. n : ls[k].owner # o
  <2> SUFFICES ASSUME o # NoFrame
               PROVE  /\ m.kind[o] = "auto" /\ o \notin ToSet(m.stack)
                      /\ \A k \in 1 .. n : ls[k].owner # o
    OBVIOUS
  <2>1. /\ m.kind[o] = "auto"
        /\ \A i \in 1 .. Len(m.stack) : m.stack[i] = o => i > l.base
    BY <1>2, <1>3 DEF Owned, OwnersHeld
  <2>2. \A i \in 1 .. Len(m.stack) : m.stack[i] # o  BY <1>3, <1>4, <1>5, <2>1
  <2>3. o \notin ToSet(m.stack)  BY <1>4, <2>2 DEF ToSet
  <2>4. ASSUME NEW k \in 1 .. n, ls[k].owner = o PROVE FALSE
    <3>1. k \in 1 .. Len(ls) /\ k # n + 1  BY <1>1
    <3> QED  BY <1>2, <1>3, <2>4, <3>1 DEF Owned, OwnersDiffer
  <2> QED  BY <2>1, <2>3, <2>4
<1>7. /\ Settled(r) /\ r.list = m.list /\ r.stack = m.stack
      /\ r.live = m.live \ {o} /\ \A f \in AllFrames \ {o} : r.kind[f] = m.kind[f]
  <2>1. CASE o = NoFrame
    <3>1. r = m  BY <1>3, <2>1
    <3> QED  BY <1>4, <2>1, <3>1
  <2>2. CASE o # NoFrame
    <3>1. r = Destroy(m, o) /\ o \in Frames  BY <1>3, <1>5, <2>2
    <3> QED  BY <1>6, <2>2, <3>1, DestroyedSettled
  <2> QED  BY <2>1, <2>2
<1>8. r.inserted = NoFrame /\ r.executed = NoFrame  BY <1>7, SettledIs
<1>9. OwnersHeld(r, ks)
  <2> SUFFICES ASSUME NEW k \in 1 .. n, ks[k].owner # NoFrame
               PROVE  /\ ks[k].loop = "modal"
                      /\ ks[k].owner \in r.live /\ r.kind[ks[k].owner] = "auto"
                      /\ \A i \in 1 .. Len(r.stack) : r.stack[i] = ks[k].owner => i > ks[k].base
                      /\ r.executed # ks[k].owner
    BY <1>2 DEF OwnersHeld
  <2>1. ks[k] = ls[k] /\ k \in 1 .. Len(ls)  BY <1>1, <1>2
  <2>2. PICK p : p = ls[k].owner  OBVIOUS
  <2>3. /\ ls[k].loop = "modal" /\ p \in m.live /\ m.kind[p] = "auto" /\ p # NoFrame
        /\ \A i \in 1 .. Len(m.stack) : m.stack[i] = p => i > ls[k].base
    BY <2>1, <2>2 DEF Owned, OwnersHeld
  <2>4. p # o  BY <1>6, <2>2, <2>3
  <2> QED  BY <1>4, <1>7, <1>8, <2>1, <2>2, <2>3, <2>4
<1>10. OwnersDiffer(ks) /\ MainFirst(ks)
  <2>1. \A k \in 1 .. n : ks[k] = ls[k] /\ k \in 1 .. Len(ls)  BY <1>1, <1>2
  <2>2. OwnersDiffer(ks)  BY <1>2, <2>1 DEF Owned, OwnersDiffer
  <2> QED  BY <1>2, <2>1, <2>2 DEF Owned, MainFirst
<1>11. Accounted(r, ks)
  <2> SUFFICES ASSUME NEW f \in r.live
               PROVE  /\ r.kind[f] = "auto" => \E k \in 1 .. n : ks[k].owner = f
                      /\ r.kind[f] # "auto" => f \in ToSet(r.list) \cup ToSet(r.stack)
    BY <1>2 DEF Accounted
  <2>1. f \in m.live /\ f # o /\ f # NoFrame /\ r.kind[f] = m.kind[f]  BY <1>4, <1>7
  <2>2. /\ m.kind[f] = "auto" => \E k \in 1 .. Len(ls) : ls[k].owner = f
        /\ m.kind[f] # "auto" => f \in ToSet(m.list) \cup ToSet(m.stack)
    BY <1>4, <2>1 DEF Owned, Accounted
  <2>3. ASSUME NEW k \in 1 .. Len(ls), ls[k].owner = f PROVE k \in 1 .. n /\ ks[k].owner = f
    <3>1. k # n + 1  BY <1>2, <1>3, <2>1, <2>3
    <3> QED  BY <1>1, <1>2, <2>3, <3>1
  <2> QED  BY <1>7, <2>1, <2>2, <2>3
<1> QED  BY <1>3, <1>4, <1>7, <1>9, <1>10, <1>11 DEF Owned

-----------------------------------------------------------------------------
(* The heights of the loops                                                *)

\* How high the stack is when a loop takes keys
Height(l) == IF l.loop = "modal" THEN l.base + 1 ELSE 0

\* How high it will be when the requests are carried out
Becomes(m) == IF m.executed = NoFrame THEN Kept(m) ELSE Kept(m) + 1

\* Above a modal loop there are only modal ones, and they start higher
Nested(ls) ==
  \A n \in 1 .. Len(ls) : \A k \in 1 .. (n - 1) :
    ls[k].loop = "modal" => ls[n].loop = "modal" /\ ls[k].base < ls[n].base

\* A loop starts from the height of the one below it
Chained(ls) ==
  \A n \in 1 .. Len(ls) : n > 1 =>
    /\ ls[n].loop = "modal" => Height(ls[n - 1]) = ls[n].base
    /\ ls[n].loop # "modal" => Height(ls[n - 1]) = 0

\* The stack is about as high as the running loop l has it
Reached(m, l) ==
  /\ l.loop = "modal" =>
       /\ l.base <= Len(m.stack) /\ Len(m.stack) <= l.base + 1
       /\ l.base <= Becomes(m) /\ Becomes(m) <= l.base + 1
  /\ l.loop # "modal" => m.stack = <<>> /\ m.executed = NoFrame

\* The loops and the stack
Heights(m, ls) == Nested(ls) /\ Chained(ls) /\ Reached(m, Last(ls))

\* What the running loop does to itself does not matter to the heights.
LEMMA SameHeights ==
  ASSUME NEW ls \in Seq(Loops), Len(ls) > 0, NEW ks, SameLoops(ls, ks)
  PROVE  /\ Nested(ls) => Nested(ks)
         /\ Chained(ls) => Chained(ks)
         /\ Last(ks).loop = Last(ls).loop /\ Last(ks).base = Last(ls).base
         /\ Height(Last(ks)) = Height(Last(ls))
<1>1. /\ Len(ks) = Len(ls) /\ Len(ls) \in Nat
      /\ \A n \in 1 .. Len(ls) : ks[n].loop = ls[n].loop /\ ks[n].base = ls[n].base
  BY LoopFields DEF SameLoops
<1>2. Nested(ls) => Nested(ks)
  <2> SUFFICES ASSUME Nested(ls), NEW n \in 1 .. Len(ls), NEW k \in 1 .. (n - 1),
                      ks[k].loop = "modal"
               PROVE  ks[n].loop = "modal" /\ ks[k].base < ks[n].base
    BY <1>1 DEF Nested
  <2>1. k \in 1 .. Len(ls)  BY <1>1
  <2> QED  BY <1>1, <2>1 DEF Nested
<1>3. Chained(ls) => Chained(ks)
  <2> SUFFICES ASSUME Chained(ls), NEW n \in 1 .. Len(ls), n > 1
               PROVE  /\ ks[n].loop = "modal" => Height(ks[n - 1]) = ks[n].base
                      /\ ks[n].loop # "modal" => Height(ks[n - 1]) = 0
    BY <1>1 DEF Chained
  <2>1. n - 1 \in 1 .. Len(ls)  BY <1>1
  <2>2. Height(ks[n - 1]) = Height(ls[n - 1])  BY <1>1, <2>1 DEF Height
  <2> QED  BY <1>1, <2>2 DEF Chained
<1>4. Last(ks).loop = Last(ls).loop /\ Last(ks).base = Last(ls).base
  <2>1. Len(ls) \in 1 .. Len(ls)  BY <1>1
  <2> QED  BY <1>1, <2>1 DEF Last
<1>5. Height(Last(ks)) = Height(Last(ls))  BY <1>4 DEF Height
<1> QED  BY <1>2, <1>3, <1>4, <1>5

\* The height that the requests lead to, case by case.
LEMMA BecomesIs ==
  ASSUME NEW m \in Managers
  PROVE  /\ m.executed = NoFrame /\ m.deleted \notin ToSet(m.stack) => Becomes(m) = Len(m.stack)
         /\ m.executed = NoFrame /\ m.deleted \in ToSet(m.stack) => Becomes(m) = Len(m.stack) - 1
         /\ m.executed # NoFrame /\ m.deleted \notin ToSet(m.stack) => Becomes(m) = Len(m.stack) + 1
         /\ m.executed # NoFrame /\ m.deleted \in ToSet(m.stack) => Becomes(m) = Len(m.stack)
         /\ Len(m.stack) \in Nat /\ NoFrame \notin ToSet(m.stack)
         /\ Becomes(m) \in Int
<1>1. Len(m.stack) \in Nat /\ NoFrame \notin ToSet(m.stack)  BY NobodyThere
<1> QED  BY <1>1 DEF Becomes, Kept

\* A round of Commit takes the stack to that height, which is not below where the running
\* loop started.
LEMMA ReachedRound ==
  ASSUME NEW m \in Managers, NEW r \in Managers, Effect(m, r), Unstructured(r),
         NEW l \in Loops, Reached(m, l)
  PROVE  Reached(r, l)
<1>1. Len(r.stack) = Becomes(m)  BY DEF Effect, Becomes
<1>2. /\ Becomes(r) = Len(r.stack) /\ r.executed = NoFrame /\ Len(r.stack) \in Nat
      /\ r.stack \in Seq(AllFrames)
  BY BecomesIs, Fields DEF Unstructured
<1>3. l.loop # "modal" => r.stack = <<>>
  <2> SUFFICES ASSUME l.loop # "modal" PROVE r.stack = <<>>  OBVIOUS
  <2>1. m.stack = <<>> /\ m.executed = NoFrame  BY DEF Reached
  <2>2. m.deleted \notin ToSet(m.stack) /\ Len(m.stack) = 0  BY <2>1 DEF ToSet
  <2>3. Becomes(m) = 0  BY <2>1, <2>2 DEF Becomes, Kept
  <2> QED  BY <1>1, <1>2, <2>3, EmptySeq
<1>4. l.base \in Nat  BY DEF Loops
<1> QED  BY <1>1, <1>2, <1>3, <1>4 DEF Reached

\* The code that stays in its loop requests at most one frame more, and only for its own.
LEMMA ReachedStays ==
  ASSUME NEW m, Settled(m), NEW r \in Managers, Handled(m, r), Stays(m, r),
         NEW l \in Loops, Reached(m, l), Len(m.stack) = Height(l)
  PROVE  Reached(r, l)
<1>1. r.stack = m.stack /\ Len(r.stack) \in Nat /\ l.base \in Nat  BY BecomesIs DEF Handled, Loops
<1>2. r.executed # NoFrame => r.deleted \in ToSet(r.stack)  BY DEF Stays
<1>3. CASE l.loop = "modal"
  <2>1. Len(r.stack) = l.base + 1  BY <1>1, <1>3 DEF Height
  <2>2. l.base <= Becomes(r) /\ Becomes(r) <= l.base + 1
    BY <1>1, <1>2, <2>1, BecomesIs
  <2> QED  BY <1>1, <1>3, <2>1, <2>2 DEF Reached
<1>4. CASE l.loop # "modal"
  <2>1. r.stack = <<>>  BY <1>1, <1>4 DEF Reached
  <2>2. r.executed = NoFrame  BY <1>2, <2>1 DEF ToSet
  <2> QED  BY <1>4, <2>1, <2>2 DEF Reached
<1> QED  BY <1>3, <1>4

\* ExecuteModal starts from the height of the loop it is called in.
LEMMA DeeperHeights ==
  ASSUME NEW m, Settled(m), NEW r \in Managers, Handled(m, r), NEW l, Enters(m, r, l),
         NEW ls \in Seq(Loops), Len(ls) > 0, Heights(m, ls), Len(m.stack) = Height(Last(ls)),
         NEW ks, ks = Append(ls, l)
  PROVE  Heights(r, ks)
<1>1. l \in Loops /\ l.base = Len(m.stack)  BY DEF Enters
<1>2. PICK n \in Nat : n = Len(ls)  BY LenProperties
<1>3. /\ ks \in Seq(Loops) /\ Len(ks) = n + 1 /\ Last(ks) = l /\ n > 0
      /\ \A k \in 1 .. n : ks[k] = ls[k]
      /\ ks[n + 1] = l
  <2>1. /\ ks \in Seq(Loops) /\ Len(ks) = n + 1 /\ n > 0
        /\ \A k \in 1 .. n : ks[k] = ls[k]
        /\ ks[n + 1] = l
    BY <1>1, <1>2, LongerLoops
  <2>2. Last(ks) = l  BY <1>2, <2>1 DEF Last
  <2> QED  BY <2>1, <2>2
<1>4. PICK t : t = ls[n]  OBVIOUS
<1>5. t = Last(ls) /\ Last(ls) = ls[n] /\ t \in Loops /\ t.base \in Nat
  BY <1>2, <1>3, <1>4, LoopFields DEF Last
<1>6. \A k \in 1 .. n : ls[k] \in Loops /\ ls[k].base \in Nat  BY <1>2, LoopFields
<1>7. Len(m.stack) = Height(t) /\ Reached(m, t) /\ Len(m.stack) \in Nat
  BY <1>5, SettledIs, NobodyThere DEF Heights
<1>8. l.loop # "modal" => m.stack = <<>> /\ r.executed = NoFrame  BY DEF Enters
<1>9. l.loop # "modal" => t.loop # "modal"
  <2> SUFFICES ASSUME l.loop # "modal", t.loop = "modal" PROVE FALSE  OBVIOUS
  <2>1. Len(m.stack) = 0  BY <1>8
  <2> QED  BY <1>5, <1>7, <2>1 DEF Height
<1>10. Nested(ks)
  <2> SUFFICES ASSUME NEW i \in 1 .. (n + 1), NEW k \in 1 .. (i - 1), ks[k].loop = "modal"
               PROVE  ks[i].loop = "modal" /\ ks[k].base < ks[i].base
    BY <1>3 DEF Nested
  <2>1. k \in 1 .. n /\ ks[k] = ls[k] /\ ls[k].base \in Nat  BY <1>2, <1>3, <1>6
  <2>2. CASE i \in 1 .. n
    <3>1. ks[i] = ls[i]  BY <1>3, <2>2
    <3> QED  BY <1>2, <2>1, <2>2, <3>1 DEF Heights, Nested
  <2>3. CASE i = n + 1
    <3>1. ks[i] = l  BY <1>3, <2>3
    <3>2. CASE k = n
      <4>1. ls[k] = t /\ t.loop = "modal"  BY <1>4, <2>1, <3>2
      <4>2. l.loop = "modal" /\ l.base = t.base + 1  BY <1>1, <1>7, <1>9, <4>1 DEF Height
      <4> QED  BY <1>5, <2>1, <3>1, <4>1, <4>2
    <3>3. CASE k # n
      <4>1. k \in 1 .. (n - 1) /\ n \in 1 .. n  BY <1>2, <1>3, <2>1, <3>3
      <4>2. t.loop = "modal" /\ ls[k].base < t.base
        BY <1>2, <1>4, <2>1, <4>1 DEF Heights, Nested
      <4>3. l.loop = "modal" /\ l.base = t.base + 1  BY <1>1, <1>7, <1>9, <4>2 DEF Height
      <4> QED  BY <1>5, <2>1, <3>1, <4>2, <4>3
    <3> QED  BY <3>2, <3>3
  <2>4. i \in 1 .. n \/ i = n + 1  BY <1>2
  <2> QED  BY <2>2, <2>3, <2>4
<1>11. Chained(ks)
  <2> SUFFICES ASSUME NEW i \in 1 .. (n + 1), i > 1
               PROVE  /\ ks[i].loop = "modal" => Height(ks[i - 1]) = ks[i].base
                      /\ ks[i].loop # "modal" => Height(ks[i - 1]) = 0
    BY <1>3 DEF Chained
  <2>1. i - 1 \in 1 .. n /\ ks[i - 1] = ls[i - 1]  BY <1>2, <1>3
  <2>2. CASE i \in 1 .. n
    <3>1. ks[i] = ls[i]  BY <1>3, <2>2
    <3> QED  BY <1>2, <2>1, <2>2, <3>1 DEF Heights, Chained
  <2>3. CASE i = n + 1
    <3>1. ks[i] = l /\ ks[i - 1] = t  BY <1>2, <1>3, <1>4, <2>1, <2>3
    <3>2. Height(t) = l.base  BY <1>1, <1>7
    <3>3. l.loop # "modal" => l.base = 0  BY <1>1, <1>8
    <3> QED  BY <3>1, <3>2, <3>3
  <2>4. i \in 1 .. n \/ i = n + 1  BY <1>2
  <2> QED  BY <2>2, <2>3, <2>4
<1>12. Reached(r, l)
  <2>1. r.stack = m.stack  BY DEF Handled
  <2>2. CASE l.loop = "modal"
    <3>1. r.executed # NoFrame /\ r.deleted \notin ToSet(r.stack)  BY <2>2 DEF Enters
    <3>2. Becomes(r) = l.base + 1  BY <1>1, <2>1, <3>1, BecomesIs
    <3>3. PICK b \in Nat : b = l.base  BY <1>1, <1>7
    <3>4. Len(r.stack) = b /\ Becomes(r) = b + 1  BY <1>1, <2>1, <3>2, <3>3
    <3> QED  BY ONLY <2>2, <3>3, <3>4 DEF Reached
  <2>3. CASE l.loop # "modal"  BY <1>8, <2>1, <2>3 DEF Reached
  <2> QED  BY <2>2, <2>3
<1> QED  BY <1>3, <1>10, <1>11, <1>12 DEF Heights

\* A modal loop that ends leaves the stack as high as the loop below has it.
LEMMA LeftHeights ==
  ASSUME NEW m, Settled(m), NEW r, Settled(r), r.stack = m.stack,
         NEW ls \in Seq(Loops), Len(ls) > 1, Heights(m, ls), Last(ls).loop # "main",
         Last(ls).loop = "modal" => Len(m.stack) <= Last(ls).base, NEW ks, ks = Front(ls)
  PROVE  Heights(r, ks) /\ Len(r.stack) = Height(Last(ks))
<1>1. PICK n \in Nat : n = Len(ls) - 1 /\ n > 0 /\ Len(ls) = n + 1  BY LenProperties
<1>2. /\ ks \in Seq(Loops) /\ Len(ks) = n
      /\ \A k \in 1 .. n : ks[k] = ls[k]
      /\ Last(ls) = ls[n + 1] /\ Last(ks) = ls[n]
  <2>1. /\ ks \in Seq(Loops) /\ Len(ks) = Len(ls) - 1
        /\ \A k \in 1 .. (Len(ls) - 1) : ks[k] = ls[k]
        /\ Last(ls) = ls[Len(ls)] /\ Last(ks) = ls[Len(ls) - 1]
    BY FewerLoops
  <2> QED  BY <1>1, <2>1
<1>3. PICK t : t = ls[n]  OBVIOUS
<1>4. PICK l : l = ls[n + 1]  OBVIOUS
<1>5. t.base \in Nat /\ l.base \in Nat /\ n \in 1 .. Len(ls) /\ n + 1 \in 1 .. Len(ls)
  BY <1>1, <1>3, <1>4, LoopFields, SMTT(30)
<1>6. Nested(ks)
  <2>1. \A k \in 1 .. n : k \in 1 .. Len(ls) /\ \A j \in 1 .. (k - 1) : j \in 1 .. n  BY <1>1
  <2> QED  BY <1>2, <2>1 DEF Heights, Nested
<1>7. Chained(ks)
  <2>1. \A k \in 1 .. n : k \in 1 .. Len(ls) /\ (k > 1 => k - 1 \in 1 .. n)  BY <1>1
  <2> QED  BY <1>2, <2>1, SMTT(30) DEF Heights, Chained
<1>8. /\ l.loop = "modal" => Height(t) = l.base
      /\ l.loop # "modal" => Height(t) = 0
  <2>1. n + 1 > 1 /\ (n + 1) - 1 = n  BY <1>1
  <2>2. /\ ls[n + 1].loop = "modal" => Height(ls[(n + 1) - 1]) = ls[n + 1].base
        /\ ls[n + 1].loop # "modal" => Height(ls[(n + 1) - 1]) = 0
    BY <1>5, <2>1 DEF Heights, Chained
  <2> QED  BY <1>3, <1>4, <2>1, <2>2
<1>9. Reached(m, l)  BY <1>2, <1>4 DEF Heights
<1>10. /\ m \in Managers /\ r \in Managers /\ Len(m.stack) \in Nat /\ m.stack \in Seq(AllFrames)
       /\ r.executed = NoFrame /\ r.deleted = NoFrame
  BY SettledIs, NobodyThere
<1>11. Len(r.stack) = Height(t)
  <2>1. CASE l.loop = "modal"
    <3>1. l.base <= Len(m.stack) /\ Len(m.stack) <= l.base  BY <1>2, <1>4, <1>9, <2>1 DEF Reached
    <3> QED  BY <1>5, <1>8, <1>10, <2>1, <3>1
  <2>2. CASE l.loop # "modal"
    <3>1. Len(m.stack) = 0  BY <1>9, <2>2 DEF Reached
    <3> QED  BY <1>8, <2>2, <3>1
  <2> QED  BY <2>1, <2>2
<1>12. Becomes(r) = Len(r.stack)  BY <1>10, BecomesIs
<1>13. Reached(r, t)
  <2>1. CASE t.loop = "modal"
    <3>1. Len(r.stack) = t.base + 1  BY <1>11, <2>1 DEF Height
    <3> QED  BY <1>5, <1>12, <2>1, <3>1 DEF Reached
  <2>2. CASE t.loop # "modal"
    <3>1. Len(r.stack) = 0  BY <1>11, <2>2 DEF Height
    <3>2. r.stack = <<>>  BY <1>10, <3>1, EmptySeq
    <3> QED  BY <1>10, <2>2, <3>2 DEF Reached
  <2> QED  BY <2>1, <2>2
<1> QED  BY <1>2, <1>3, <1>6, <1>7, <1>11, <1>13 DEF Heights

-----------------------------------------------------------------------------
(* The frames whose code runs                                              *)

\* The frame whose code runs in a loop exists; it is neither the frame of a loop above, nor
\* on the stack above the height of its loop, nor yet to be shown
HandlersHeld(m, ls) ==
  \A n \in 1 .. Len(ls) :
    /\ ls[n].loop # "nonmodal"
    /\ ls[n].handler \in m.live \cup {NoFrame}
    /\ ls[n].handler # NoFrame =>
         /\ \A k \in 1 .. Len(ls) : k > n => ls[k].owner # ls[n].handler
         /\ \A i \in 1 .. Len(m.stack) : i > Height(ls[n]) => m.stack[i] # ls[n].handler
         /\ n < Len(ls) => m.executed # ls[n].handler /\ m.inserted # ls[n].handler

\* A frame is deleted after its code has returned, and from a modal loop only its own
ClosesTop(m, l) ==
  m.deleted # NoFrame =>
    /\ l.handler = NoFrame \/ m.kind[m.deleted] = "auto"
    /\ l.loop = "modal" => m.deleted \in ToSet(m.stack) /\ Len(m.stack) = l.base + 1

\* The frames whose code runs are safe from the requests there are
HandlersKept(m, ls) == HandlersHeld(m, ls) /\ ClosesTop(m, Last(ls))

\* HandlersHeld for one of the loops.
LEMMA HandlerIs ==
  ASSUME NEW m \in Managers, NEW ls \in Seq(Loops), HandlersHeld(m, ls),
         NEW n \in 1 .. Len(ls), NEW h, h = ls[n].handler
  PROVE  /\ ls[n].loop # "nonmodal" /\ h \in m.live \cup {NoFrame}
         /\ h # NoFrame =>
              /\ \A k \in 1 .. Len(ls) : k > n => ls[k].owner # h
              /\ \A i \in 1 .. Len(m.stack) : i > Height(ls[n]) => m.stack[i] # h
              /\ n < Len(ls) => m.executed # h /\ m.inserted # h
  BY DEF HandlersHeld

\* The loops below a modal one have the stack no higher than where that one started.
LEMMA LowerHeights ==
  ASSUME NEW ls \in Seq(Loops), Nested(ls), NEW n \in 1 .. Len(ls), n < Len(ls),
         NEW t, t = Last(ls), t.loop = "modal"
  PROVE  Height(ls[n]) <= t.base /\ Height(ls[n]) \in Nat /\ t.base \in Nat
<1>1. PICK k \in Nat : k = Len(ls)  BY LenProperties
<1>2. t = ls[k] /\ k \in 1 .. k /\ n \in 1 .. (k - 1)  BY <1>1 DEF Last
<1>3. t.base \in Nat /\ ls[n].base \in Nat  BY <1>1, <1>2, LoopFields
<1>4. ls[n].loop = "modal" => ls[n].base < t.base  BY <1>1, <1>2 DEF Nested
<1> QED  BY <1>3, <1>4 DEF Height

\* A round of Commit deletes the top of the stack, which is above the height of every loop
\* whose code still runs: the frame of that code is not destroyed under it.
LEMMA HandlersRound ==
  ASSUME NEW m \in Managers, Sound(m), NEW r \in Managers, Effect(m, r), Unstructured(r),
         NEW ls \in Seq(Loops), Len(ls) > 0, MainFirst(ls), Heights(m, ls), HandlersKept(m, ls)
  PROVE  HandlersHeld(r, ls)
<1>1. PICK t : t = Last(ls)  OBVIOUS
<1>2. PICK l \in Nat : l = Len(ls)  BY LenProperties
<1>3. t = ls[l] /\ t \in Loops /\ l \in 1 .. l /\ t.base \in Nat  BY <1>1, <1>2, LoopFields DEF Last
<1>4. PICK k \in Nat : k = Kept(m)  BY DEF Effect
<1>5. /\ Len(r.stack) = IF m.executed = NoFrame THEN k ELSE k + 1
      /\ \A j \in 1 .. k : j \in 1 .. Len(m.stack) /\ r.stack[j] = m.stack[j]
      /\ m.executed # NoFrame => r.stack[k + 1] = m.executed
      /\ Len(m.stack) \in Nat
  BY <1>4, NobodyThere DEF Effect
<1>6. /\ m.deleted = NoFrame => r.live = m.live
      /\ m.deleted # NoFrame => r.live = m.live \/ (m.kind[m.deleted] # "auto" /\ r.live = m.live \ {m.deleted})
  BY DEF Effect
<1>7. ClosesTop(m, t) /\ HandlersHeld(m, ls)  BY <1>1 DEF HandlersKept
<1>8. ASSUME NEW n \in 1 .. l, n < l
      PROVE  t.loop = "modal" /\ Height(ls[n]) <= t.base /\ Height(ls[n]) \in Nat
  <2>1. t.loop # "main"  BY <1>2, <1>3, <1>8 DEF MainFirst
  <2>2. t.loop # "nonmodal"  BY <1>2, <1>3, <1>7 DEF HandlersHeld
  <2>3. t.loop = "modal"  BY <1>3, <2>1, <2>2 DEF Loops
  <2> QED  BY <1>1, <1>2, <1>8, <2>3, LowerHeights DEF Heights
\* The deleted frame was on top of all the others' heights
<1>9. ASSUME NEW n \in 1 .. l, n < l, m.deleted # NoFrame
      PROVE  \E i \in 1 .. Len(m.stack) : i > Height(ls[n]) /\ m.stack[i] = m.deleted
  <2>1. t.loop = "modal" /\ Height(ls[n]) <= t.base /\ Height(ls[n]) \in Nat  BY <1>8, <1>9
  <2>2. m.deleted \in ToSet(m.stack) /\ Len(m.stack) = t.base + 1  BY <1>7, <1>9, <2>1 DEF ClosesTop
  <2>3. Requesting(m)
    <3>1. m # StartedManager  BY <1>9, StartedOnly
    <3> QED  BY <1>9, <3>1, SoundRequests DEF Unstructured
  <2>4. m.stack # <<>>  BY <2>2 DEF ToSet
  <2>5. m.deleted = Last(m.stack)
    BY <1>9, <2>3, <2>4 DEF Requesting, MayDelete, Uppermost
  <2>6. m.deleted = m.stack[Len(m.stack)]  BY <2>5 DEF Last
  <2>7. PICK i \in Nat : i = Len(m.stack)  BY <1>5
  <2>8. PICK x \in Nat : x = Height(ls[n])  BY <2>1
  <2>9. i > x /\ i \in 1 .. i  BY <1>3, <2>1, <2>2, <2>7, <2>8
  <2>10. i \in 1 .. Len(m.stack) /\ i > Height(ls[n]) /\ m.stack[i] = m.deleted
    BY <2>6, <2>7, <2>8, <2>9
  <2> QED  BY <2>10
<1> SUFFICES ASSUME NEW n \in 1 .. l
             PROVE  /\ ls[n].loop # "nonmodal"
                    /\ ls[n].handler \in r.live \cup {NoFrame}
                    /\ ls[n].handler # NoFrame =>
                         /\ \A i \in 1 .. l : i > n => ls[i].owner # ls[n].handler
                         /\ \A i \in 1 .. Len(r.stack) : i > Height(ls[n]) => r.stack[i] # ls[n].handler
  <2>1. r.executed = NoFrame /\ r.inserted = NoFrame  BY DEF Unstructured
  <2> QED  BY <1>2, <2>1 DEF HandlersHeld
<1>10. PICK h : h = ls[n].handler  OBVIOUS
<1>11. /\ ls[n].loop # "nonmodal" /\ h \in m.live \cup {NoFrame}
       /\ h # NoFrame =>
            /\ \A i \in 1 .. l : i > n => ls[i].owner # h
            /\ \A i \in 1 .. Len(m.stack) : i > Height(ls[n]) => m.stack[i] # h
            /\ n < l => m.executed # h
  BY <1>2, <1>7, <1>10, HandlerIs
<1>12. h \in r.live \cup {NoFrame}
  <2>1. CASE n < l
    <3>1. h # NoFrame /\ m.deleted # NoFrame => h # m.deleted  BY <1>9, <1>11, <2>1
    <3> QED  BY <1>6, <1>11, <3>1
  <2>2. CASE n = l
    <3>1. m.deleted # NoFrame => h = NoFrame \/ m.kind[m.deleted] = "auto"
      BY <1>3, <1>7, <1>10, <2>2 DEF ClosesTop
    <3> QED  BY <1>6, <1>11, <3>1
  <2> QED  BY <1>2, <2>1, <2>2
<1>13. ASSUME h # NoFrame, NEW i \in 1 .. Len(r.stack), i > Height(ls[n]) PROVE r.stack[i] # h
  <2>1. CASE i \in 1 .. k  BY <1>5, <1>11, <1>13, <2>1
  <2>2. CASE i \notin 1 .. k
    <3>1. i = k + 1 /\ m.executed # NoFrame  BY <1>5, <2>2
    <3>2. r.stack[i] = m.executed  BY <1>5, <3>1
    <3>3. CASE n < l  BY <1>11, <1>13, <3>2, <3>3
    <3>4. CASE n = l
      <4>1. Reached(m, t)  BY <1>1 DEF Heights
      <4>2. t.loop = "modal"  BY <3>1, <4>1 DEF Reached
      <4>3. Becomes(m) = k + 1  BY <1>4, <3>1 DEF Becomes
      <4>4. k + 1 <= t.base + 1  BY <4>1, <4>2, <4>3 DEF Reached
      <4>5. Height(ls[n]) = t.base + 1  BY <1>3, <3>4, <4>2 DEF Height
      <4> QED  BY <1>3, <1>13, <3>1, <4>4, <4>5
    <3> QED  BY <1>2, <3>3, <3>4
  <2> QED  BY <2>1, <2>2
<1> QED  BY <1>10, <1>11, <1>12, <1>13

\* What the running loop does to itself does not matter to the others.
LEMMA HandlersSame ==
  ASSUME NEW m \in Managers, NEW ls \in Seq(Loops), Len(ls) > 0, HandlersHeld(m, ls),
         NEW ks, SameLoops(ls, ks), Last(ks).handler \in {Last(ls).handler, NoFrame}
  PROVE  HandlersHeld(m, ks)
<1>1. PICK l \in Nat : l = Len(ls) /\ l > 0  BY LenProperties
<1>2. /\ Len(ks) = l
      /\ \A n \in 1 .. l : ks[n].loop = ls[n].loop /\ ks[n].base = ls[n].base /\ ks[n].owner = ls[n].owner
      /\ \A n \in 1 .. l : n < l => ks[n] = ls[n]
  BY <1>1 DEF SameLoops
<1>3. \A n \in 1 .. l : ks[n].handler \in {ls[n].handler, NoFrame}
  <2> SUFFICES ASSUME NEW n \in 1 .. l PROVE ks[n].handler \in {ls[n].handler, NoFrame}  OBVIOUS
  <2>1. CASE n < l  BY <1>2, <2>1
  <2>2. CASE n = l  BY <1>1, <1>2, <2>2 DEF Last
  <2> QED  BY <1>1, <2>1, <2>2
<1>4. \A n \in 1 .. l : Height(ks[n]) = Height(ls[n])  BY <1>2 DEF Height
<1> SUFFICES ASSUME NEW n \in 1 .. l
             PROVE  /\ ks[n].loop # "nonmodal"
                    /\ ks[n].handler \in m.live \cup {NoFrame}
                    /\ ks[n].handler # NoFrame =>
                         /\ \A k \in 1 .. l : k > n => ks[k].owner # ks[n].handler
                         /\ \A i \in 1 .. Len(m.stack) : i > Height(ks[n]) => m.stack[i] # ks[n].handler
                         /\ n < l => m.executed # ks[n].handler /\ m.inserted # ks[n].handler
  BY <1>2 DEF HandlersHeld
<1>5. PICK h : h = ls[n].handler  OBVIOUS
<1>6. /\ ls[n].loop # "nonmodal" /\ h \in m.live \cup {NoFrame}
      /\ h # NoFrame =>
           /\ \A k \in 1 .. l : k > n => ls[k].owner # h
           /\ \A i \in 1 .. Len(m.stack) : i > Height(ls[n]) => m.stack[i] # h
           /\ n < l => m.executed # h /\ m.inserted # h
  BY <1>1, <1>5, HandlerIs
<1>7. ks[n].handler = h \/ ks[n].handler = NoFrame  BY <1>3, <1>5
<1> QED  BY <1>2, <1>4, <1>6, <1>7

\* The code that a loop calls requests no frame whose code runs to be shown again.
LEMMA HandlersStay ==
  ASSUME NEW m, Settled(m), NEW r \in Managers, Handled(m, r), Stays(m, r),
         NEW ls \in Seq(Loops), Len(ls) > 0, Owned(m, ls), HandlersHeld(m, ls)
  PROVE  HandlersHeld(r, ls)
<1>1. /\ m \in Managers /\ m.live \subseteq AllFrames /\ NoFrame \notin AllFrames
      /\ m.inserted = NoFrame /\ m.executed = NoFrame
  BY SettledIs, Fields, Nobody
<1>2. /\ m.live \subseteq r.live /\ r.stack = m.stack /\ \A f \in m.live : r.kind[f] = m.kind[f]
      /\ r.executed # NoFrame => r.executed \notin m.live
      /\ ToSet(m.list) \subseteq ToSet(r.list)
  BY DEF Handled
<1>3. r.inserted # NoFrame => r.inserted \notin m.live
  <2> SUFFICES ASSUME r.inserted # NoFrame, r.inserted \in m.live PROVE FALSE  OBVIOUS
  <2>1. MayInsert(r, r.inserted)  BY DEF Handled, Focusing, Unstructured, Requesting
  <2>2. PICK f : f = r.inserted  OBVIOUS
  <2>3. f \in m.live /\ r.kind[f] = "screen" /\ r.stack = <<>> /\ f \notin ToSet(r.list)
    BY <2>1, <2>2 DEF MayInsert
  <2>4. m.kind[f] # "auto" /\ f \notin ToSet(m.list) /\ f # NoFrame  BY <1>1, <1>2, <2>3
  <2>5. f \in ToSet(m.stack)  BY <1>1, <2>3, <2>4 DEF Owned, Accounted
  <2> QED  BY <1>2, <2>3, <2>5 DEF ToSet
<1> SUFFICES ASSUME NEW n \in 1 .. Len(ls)
             PROVE  /\ ls[n].loop # "nonmodal"
                    /\ ls[n].handler \in r.live \cup {NoFrame}
                    /\ ls[n].handler # NoFrame =>
                         /\ \A k \in 1 .. Len(ls) : k > n => ls[k].owner # ls[n].handler
                         /\ \A i \in 1 .. Len(r.stack) : i > Height(ls[n]) => r.stack[i] # ls[n].handler
                         /\ n < Len(ls) => r.executed # ls[n].handler /\ r.inserted # ls[n].handler
  BY DEF HandlersHeld
<1>4. PICK h : h = ls[n].handler  OBVIOUS
<1>5. /\ ls[n].loop # "nonmodal" /\ h \in m.live \cup {NoFrame}
      /\ h # NoFrame =>
           /\ \A k \in 1 .. Len(ls) : k > n => ls[k].owner # h
           /\ \A i \in 1 .. Len(m.stack) : i > Height(ls[n]) => m.stack[i] # h
  BY <1>1, <1>4, HandlerIs
<1>6. h # NoFrame => r.executed # h /\ r.inserted # h  BY <1>2, <1>3, <1>5
<1> QED  BY <1>2, <1>4, <1>5, <1>6

\* A loop that is started runs a new frame, not one whose code runs.
LEMMA HandlersDeeper ==
  ASSUME NEW m, Settled(m), NEW r \in Managers, Handled(m, r), NEW l, Enters(m, r, l), l.loop = "modal",
         r.deleted = NoFrame, NEW ls \in Seq(Loops), Len(ls) > 0, Owned(m, ls), HandlersHeld(m, ls),
         NEW ks, ks = Append(ls, l)
  PROVE  HandlersKept(r, ks)
<1>1. /\ m \in Managers /\ m.live \subseteq AllFrames /\ NoFrame \notin AllFrames
  BY SettledIs, Fields, Nobody
<1>2. l \in Loops /\ l.handler = NoFrame  BY DEF Enters
<1>3. PICK p \in Nat : p = Len(ls)  BY LenProperties
<1>4. /\ ks \in Seq(Loops) /\ Len(ks) = p + 1
      /\ \A k \in 1 .. p : ks[k] = ls[k]
      /\ ks[p + 1] = l
  BY <1>2, <1>3, LongerLoops
<1>5. m.live \subseteq r.live /\ r.stack = m.stack  BY DEF Handled
<1>6. PICK e : e = r.executed  OBVIOUS
<1>7. e # NoFrame /\ e \notin m.live /\ l.owner \in {e, NoFrame}
  BY <1>6 DEF Enters, Handled
<1>8. r.inserted = NoFrame
  BY <1>6, <1>7 DEF Handled, Focusing, Unstructured, Requesting
<1>9. HandlersHeld(r, ks)
  <2> SUFFICES ASSUME NEW n \in 1 .. (p + 1)
               PROVE  /\ ks[n].loop # "nonmodal"
                      /\ ks[n].handler \in r.live \cup {NoFrame}
                      /\ ks[n].handler # NoFrame =>
                           /\ \A k \in 1 .. (p + 1) : k > n => ks[k].owner # ks[n].handler
                           /\ \A i \in 1 .. Len(r.stack) : i > Height(ks[n]) => r.stack[i] # ks[n].handler
                           /\ r.executed # ks[n].handler /\ r.inserted # ks[n].handler
    BY <1>4 DEF HandlersHeld
  <2>1. CASE n \in 1 .. p
    <3>1. PICK h : h = ls[n].handler  OBVIOUS
    <3>2. ks[n] = ls[n]  BY <1>4, <2>1
    <3>3. /\ ls[n].loop # "nonmodal" /\ h \in m.live \cup {NoFrame}
          /\ h # NoFrame =>
               /\ \A k \in 1 .. p : k > n => ls[k].owner # h
               /\ \A i \in 1 .. Len(m.stack) : i > Height(ls[n]) => m.stack[i] # h
      BY <1>1, <1>3, <2>1, <3>1, HandlerIs
    <3>4. ASSUME h # NoFrame, NEW k \in 1 .. (p + 1), k > n PROVE ks[k].owner # h
      <4>1. CASE k \in 1 .. p
        <5>1. ks[k] = ls[k]  BY <1>4, <4>1
        <5> QED  BY <3>3, <3>4, <4>1, <5>1
      <4>2. CASE k = p + 1
        <5>1. ks[k] = l  BY <1>4, <4>2
        <5> QED  BY <1>7, <3>3, <3>4, <5>1
      <4> QED  BY <1>3, <4>1, <4>2
    <3>5. h # NoFrame => r.executed # h /\ r.inserted # h  BY <1>6, <1>7, <1>8, <3>3
    <3> QED  BY <1>5, <3>1, <3>2, <3>3, <3>4, <3>5
  <2>2. CASE n = p + 1
    <3>1. ks[n] = l  BY <1>4, <2>2
    <3> QED  BY <1>2, <3>1
  <2> QED  BY <1>3, <2>1, <2>2
<1> QED  BY <1>9 DEF HandlersKept, ClosesTop

\* The automatic frame that is destroyed after its loop has no code running.
LEMMA HandlersLeft ==
  ASSUME NEW m \in Managers, NEW ls \in Seq(Loops), Len(ls) > 1, HandlersHeld(m, ls),
         NEW ks, ks = Front(ls), NEW r, r.stack = m.stack, r.live = m.live \ {Last(ls).owner},
         r.executed = NoFrame, r.inserted = NoFrame
  PROVE  HandlersHeld(r, ks)
<1>1. PICK p \in Nat : p = Len(ls) - 1 /\ p > 0 /\ Len(ls) = p + 1  BY LenProperties
<1>2. /\ ks \in Seq(Loops) /\ Len(ks) = p
      /\ \A k \in 1 .. p : ks[k] = ls[k]
      /\ Last(ls) = ls[p + 1]
  <2>1. /\ ks \in Seq(Loops) /\ Len(ks) = Len(ls) - 1
        /\ \A k \in 1 .. (Len(ls) - 1) : ks[k] = ls[k]
        /\ Last(ls) = ls[Len(ls)] /\ Last(ks) = ls[Len(ls) - 1]
    BY FewerLoops
  <2> QED  BY <1>1, <2>1
<1> SUFFICES ASSUME NEW n \in 1 .. p
             PROVE  /\ ks[n].loop # "nonmodal"
                    /\ ks[n].handler \in r.live \cup {NoFrame}
                    /\ ks[n].handler # NoFrame =>
                         /\ \A k \in 1 .. p : k > n => ks[k].owner # ks[n].handler
                         /\ \A i \in 1 .. Len(r.stack) : i > Height(ks[n]) => r.stack[i] # ks[n].handler
  BY <1>2 DEF HandlersHeld
<1>3. PICK h : h = ls[n].handler  OBVIOUS
<1>4. n \in 1 .. Len(ls) /\ ks[n] = ls[n]  BY <1>1, <1>2
<1>5. /\ ls[n].loop # "nonmodal" /\ h \in m.live \cup {NoFrame}
      /\ h # NoFrame =>
           /\ \A k \in 1 .. Len(ls) : k > n => ls[k].owner # h
           /\ \A i \in 1 .. Len(m.stack) : i > Height(ls[n]) => m.stack[i] # h
  BY <1>3, <1>4, HandlerIs
<1>6. h # NoFrame => h # Last(ls).owner
  <2>1. p + 1 \in 1 .. Len(ls) /\ p + 1 > n  BY <1>1
  <2> QED  BY <1>2, <1>5, <2>1
<1>7. h # NoFrame => \A k \in 1 .. p : k > n => ks[k].owner # h
  <2>1. \A k \in 1 .. p : k \in 1 .. Len(ls)  BY <1>1
  <2> QED  BY <1>2, <1>5, <2>1
<1> QED  BY <1>3, <1>4, <1>5, <1>6, <1>7

-----------------------------------------------------------------------------
(* Commit, and the requests in each mode                                   *)

\* Commit(1) is called for one deletion
OnlyDeletes(m) ==
  /\ Requesting(m) /\ m.inserted = NoFrame /\ m.executed = NoFrame
  /\ m.deleted # NoFrame /\ m.kind[m.deleted] = "auto"

\* The requests there may be while the running loop is doing md
SlotsSound(m, md) ==
  /\ md \in {"commit", "commit1"} => Sound(m)
  /\ md \in {"test", "key", "handle"} => Settled(m)
  /\ md = "commit1" => OnlyDeletes(m)

\* Commit goes around its loop once
ARound ==
  \/ CommitUpdate \/ CommitExecute \/ CommitDelete \/ CommitInsert
  \/ CommitDeactivate \/ CommitActivate \/ CommitRefresh

\* A sound state is one of a manager.
LEMMA SoundManager ==
  ASSUME NEW m, Sound(m) PROVE m \in Managers
<1>1. CASE m = StartedManager  BY <1>1, StartedOnly
<1>2. CASE Requesting(m)  BY <1>2 DEF Requesting, Placed, Grounded, Linked
<1>3. CASE Focusing(m)  BY <1>3 DEF Focusing, Grounded, Linked
<1> QED  BY <1>1, <1>2, <1>3 DEF Sound

\* A manager with requests about the focus is sound.
LEMMA FocusingIs ==
  ASSUME NEW m, Focusing(m) PROVE m \in Managers /\ Unstructured(m) /\ Sound(m)
<1>1. Sound(m)  BY DEF Sound
<1> QED  BY <1>1, SoundManager DEF Focusing

\* A round leaves the loops alone, but that Commit(1) returns.
LEMMA RoundLoops ==
  ASSUME LoopsTyped(loops), NextRound
  PROVE  /\ SameLoops(loops, loops') /\ LoopsTyped(loops') /\ mode' = "commit"
         /\ Last(loops').handler \in {Last(loops).handler, NoFrame}
<1>1. CASE mode = "commit"
  <2>1. loops' = loops /\ mode' = "commit"  BY <1>1 DEF NextRound
  <2> QED  BY <2>1, Unchanged
<1>2. CASE mode # "commit"
  <2>1. loops' = LeftHandler /\ mode' = "commit"  BY <1>2 DEF NextRound
  <2>2. PICK ks : ks = LeftHandler  OBVIOUS
  <2>3. SameLoops(loops, ks) /\ LoopsTyped(ks) /\ Last(ks).handler = NoFrame  BY <2>2, Left
  <2> QED  BY <2>1, <2>2, <2>3
<1> QED  BY <1>1, <1>2

\* One round of Commit, whichever: requests about the focus remain.
LEMMA Round ==
  ASSUME SlotsSound(mgr, mode), LoopsTyped(loops), ARound
  PROVE  /\ mgr \in Managers /\ mgr' \in Managers /\ Sound(mgr)
         /\ Focusing(mgr') /\ Unstructured(mgr') /\ Effect(mgr, mgr')
         /\ SameLoops(loops, loops') /\ LoopsTyped(loops') /\ mode' = "commit"
         /\ Last(loops').handler \in {Last(loops).handler, NoFrame}
<1>1. Committing /\ NextRound
  BY DEF ARound, CommitUpdate, CommitExecute, CommitDelete, CommitInsert, CommitDeactivate,
         CommitActivate, CommitRefresh
<1>2. Sound(mgr)  BY <1>1 DEF SlotsSound, Committing
<1>3. PICK m : m = mgr  OBVIOUS
<1>4. Sound(m) /\ m \in Managers  BY <1>2, <1>3, SoundManager
<1>5. ASSUME NEW r, r = mgr' PROVE Focusing(r) /\ Effect(m, r)
  <2>1. CASE CommitUpdate
    <3>1. /\ m.deleted # NoFrame /\ (m.inserted # NoFrame \/ m.executed # NoFrame)
          /\ r = UpdateCommit([m EXCEPT !.deleted = NoFrame, !.inserted = NoFrame,
                                        !.executed = NoFrame],
                              m.deleted, m.inserted, m.executed)
      BY <1>3, <1>5, <2>1 DEF CommitUpdate, Replacing
    <3> QED  BY <1>4, <3>1, RoundUpdate
  <2>2. CASE CommitExecute
    <3>1. /\ m.deleted = NoFrame /\ m.executed # NoFrame
          /\ r = ExecuteCommit([m EXCEPT !.executed = NoFrame], m.executed)
      BY <1>3, <1>5, <2>2 DEF CommitExecute, Replacing
    <3> QED  BY <1>4, <3>1, RoundExecute
  <2>3. CASE CommitDelete
    <3>1. /\ m.deleted # NoFrame /\ m.inserted = NoFrame /\ m.executed = NoFrame
          /\ r = DeleteCommit([m EXCEPT !.deleted = NoFrame], m.deleted)
      BY <1>3, <1>5, <2>3 DEF CommitDelete, Replacing
    <3> QED  BY <1>4, <3>1, RoundDelete
  <2>4. CASE CommitInsert
    <3>1. /\ m.deleted = NoFrame /\ m.inserted # NoFrame /\ m.executed = NoFrame
          /\ r = InsertCommit([m EXCEPT !.inserted = NoFrame], m.inserted)
      BY <1>3, <1>5, <2>4 DEF CommitInsert, Replacing
    <3> QED  BY <1>4, <3>1, RoundInsert
  <2>5. CASE CommitDeactivate
    <3>1. /\ Unstructured(m) /\ m.deactivated # NoFrame
          /\ r = LET taken == [m EXCEPT !.deactivated = NoFrame, !.activated = NoFrame]
                 IN  IF m.activated = NoFrame
                       THEN taken
                       ELSE ActivateCommit(DeactivateCommit(taken, m.deactivated, m.activated),
                                           m.activated)
      BY <1>3, <1>5, <2>5 DEF CommitDeactivate, Structured, Unstructured
    <3> QED  BY <1>4, <3>1, RoundDeactivate
  <2>6. CASE CommitActivate
    <3>1. /\ Unstructured(m) /\ m.deactivated = NoFrame /\ m.activated # NoFrame
          /\ r = ActivateCommit([m EXCEPT !.activated = NoFrame], m.activated)
      BY <1>3, <1>5, <2>6 DEF CommitActivate, Structured, Unstructured
    <3>2. Settled(r) /\ Effect(m, r)  BY <1>4, <3>1, RoundActivate
    <3> QED  BY <3>2, StillFocusing
  <2>7. CASE CommitRefresh
    <3>1. /\ Unstructured(m) /\ m.deactivated = NoFrame /\ m.activated = NoFrame
          /\ r = [m EXCEPT !.refreshed = NoFrame]
      BY <1>3, <1>5, <2>7 DEF CommitRefresh, Structured, Unstructured
    <3>2. Settled(r) /\ Effect(m, r)  BY <1>4, <3>1, RoundRefresh
    <3> QED  BY <3>2, StillFocusing
  <2> QED  BY <2>1, <2>2, <2>3, <2>4, <2>5, <2>6, <2>7 DEF ARound
<1>6. Focusing(mgr') /\ Effect(mgr, mgr')  BY <1>3, <1>5
<1>7. mgr' \in Managers /\ Unstructured(mgr')  BY <1>6, FocusingIs
<1> QED  BY <1>1, <1>3, <1>4, <1>6, <1>7, RoundLoops

\* After a round Commit goes on.
LEMMA FocusingSlots ==
  ASSUME NEW m, Focusing(m) PROVE SlotsSound(m, "commit")
  BY FocusingIs DEF SlotsSound

\* Commit is done when the manager is settled.
LEMMA NothingLeft ==
  ASSUME Committing, NothingPending, SlotsSound(mgr, mode)
  PROVE  Settled(mgr) /\ mode = "commit"
<1>1. PICK m : m = mgr  OBVIOUS
<1>2. Sound(m) /\ Unstructured(m) /\ Unfocused(m)
  BY <1>1 DEF Committing, SlotsSound, NothingPending, Structured, Unstructured, Unfocused
<1>3. Focusing(m)  BY <1>2, Structureless
<1>4. Settled(m)  BY <1>2, <1>3 DEF Focusing, Settled, Placed, Unfocused
<1>5. mode # "commit1"  BY <1>1, <1>2 DEF SlotsSound, OnlyDeletes, Unstructured
<1> QED  BY <1>1, <1>4, <1>5 DEF Committing

\* Commit returns, to the loop or to the code it has called.
LEMMA DoneLoops ==
  ASSUME LoopsTyped(loops), CommitDone
  PROVE  /\ SameLoops(loops, loops') /\ LoopsTyped(loops') /\ mode' \in {"commit", "test"}
         /\ mgr' = mgr /\ Last(loops').handler \in {Last(loops).handler, NoFrame}
<1>1. CASE Top.inside
  <2>1. loops' = LeftHandler /\ mode' = "commit" /\ mgr' = mgr  BY <1>1 DEF CommitDone
  <2>2. PICK ks : ks = LeftHandler  OBVIOUS
  <2>3. SameLoops(loops, ks) /\ LoopsTyped(ks) /\ Last(ks).handler = NoFrame  BY <2>2, Left
  <2> QED  BY <2>1, <2>2, <2>3
<1>2. CASE ~Top.inside
  <2>1. loops' = loops /\ mode' = "test" /\ mgr' = mgr  BY <1>2 DEF CommitDone
  <2> QED  BY <2>1, Unchanged
<1> QED  BY <1>1, <1>2

\* A settled manager is sound whatever the running loop does.
LEMMA SettledSlots ==
  ASSUME NEW m, Settled(m), NEW md \in {"commit", "test", "key", "handle", "exit"} PROVE SlotsSound(m, md)
  BY StillFocusing, FocusingIs DEF SlotsSound

\* A key is read, or a function is called.
LEMMA HandleLoops ==
  ASSUME LoopsTyped(loops), mgr.current \in Slot, Handle
  PROVE  /\ SameLoops(loops, loops') /\ LoopsTyped(loops') /\ mode' = "handle" /\ mgr' = mgr
         /\ Last(loops').handler \in {mgr.current, NoFrame} /\ mode = "key"
<1>1. loops \in Seq(Loops) /\ Len(loops) \in 1 .. Len(loops) /\ Len(loops) \in 1 .. MaxLoops
      /\ Len(loops) \in Nat
  BY LoopFields DEF LoopsTyped
<1>2. PICK f \in {mgr.current, NoFrame} :
        /\ loops' = [loops EXCEPT ![Len(loops)].inside = TRUE, ![Len(loops)].handler = f]
        /\ mode' = "handle" /\ mgr' = mgr /\ mode = "key"
  BY DEF Handle
<1>3. PICK t : t = loops[Len(loops)]  OBVIOUS
<1>4. PICK l : l = [t EXCEPT !.inside = TRUE, !.handler = f]  OBVIOUS
<1>5. t \in Loops /\ f \in AllFrames \cup {NoFrame}  BY <1>1, <1>3, LoopFields DEF Slot
<1>6. /\ l \in Loops /\ l.handler = f
      /\ l.loop = t.loop /\ l.base = t.base
      /\ l.owner = t.owner /\ l.target = t.target
  BY <1>4, <1>5 DEF Loops
<1>7. loops' = [loops EXCEPT ![Len(loops)] = l]
  BY <1>1, <1>2, <1>3, <1>4
<1>8. PICK ks : ks = loops'  OBVIOUS
<1>9. /\ ks \in Seq(Loops) /\ Len(ks) = Len(loops)
      /\ \A j \in 1 .. Len(loops) : ks[j] = IF j = Len(loops) THEN l ELSE loops[j]
  BY <1>1, <1>6, <1>7, <1>8, ExceptSeq
<1>10. \A j \in 1 .. Len(loops) : j < Len(loops) => ks[j] = loops[j]  BY <1>9, <1>1
<1>11. SameLoops(loops, ks)  BY <1>3, <1>6, <1>9, <1>10 DEF SameLoops
<1>12. Last(ks) = l  BY <1>1, <1>9 DEF Last
<1> QED  BY <1>1, <1>2, <1>6, <1>8, <1>9, <1>11, <1>12 DEF LoopsTyped

\* What the running code leaves to Commit is sound.
LEMMA HandledSlots ==
  ASSUME NEW m, NEW r, Handled(m, r)
  PROVE  SlotsSound(r, "commit") /\ r \in Managers
<1>1. Sound(r)  BY DEF Handled, Sound
<1> QED  BY <1>1, SoundManager DEF SlotsSound

-----------------------------------------------------------------------------
(* While the program goes on                                               *)

\* The inductive invariant while the program goes on; "kindly" when no client destroys a frame
\* under its handler
LoopsInv(kindly) ==
  /\ LoopsTyped(loops) /\ mode \in Modes
  /\ SlotsSound(mgr, mode) /\ Owned(mgr, loops)
  /\ Heights(mgr, loops)
  /\ mode \in {"key", "handle"} => Len(mgr.stack) = Height(Last(loops))
  /\ kindly => HandlersKept(mgr, loops)

\* EnterMainLoop starts with the panels requested and nothing else.
LEMMA LoopsInit ==
  ASSUME Init, NEW kindly \in BOOLEAN PROVE LoopsInv(kindly)
<1>1. /\ mgr = StartedManager /\ mode = "commit"
      /\ loops = <<[loop |-> "main", base |-> 0, target |-> NoFrame, owner |-> NoFrame,
                    ev |-> FALSE, inside |-> FALSE, handler |-> NoFrame]>>
  BY DEF Init
<1>2. PICK l : l = [loop |-> "main", base |-> 0, target |-> NoFrame, owner |-> NoFrame,
                    ev |-> FALSE, inside |-> FALSE, handler |-> NoFrame]
  OBVIOUS
<1>3. l \in Loops  BY ONLY <1>2 DEF Loops
<1>4. l.loop = "main" /\ l.owner = NoFrame /\ l.handler = NoFrame  BY <1>2
<1>5. loops = <<l>>  BY <1>1, <1>2
<1>6. loops \in Seq(Loops) /\ Len(loops) = 1 /\ loops[1] = l /\ Last(loops) = l
  BY <1>3, <1>5 DEF Last
<1>7. LoopsTyped(loops)  BY <1>6, LoopsAssumption DEF LoopsTyped
<1>8. Sound(mgr) /\ SlotsSound(mgr, mode) /\ mode \in Modes  BY <1>1 DEF Sound, SlotsSound, Modes
<1>9. mgr.live = {Panels} /\ mgr.inserted = Panels /\ mgr.stack = <<>> /\ mgr.executed = NoFrame
      /\ mgr.kind[Panels] # "auto" /\ mgr.deleted = NoFrame
  BY <1>1, Nobody DEF StartedManager
<1>10. Owned(mgr, loops)
  BY <1>4, <1>6, <1>9 DEF Owned, OwnersHeld, OwnersDiffer, Accounted, MainFirst
<1>11. Heights(mgr, loops)
  BY <1>4, <1>6, <1>9 DEF Heights, Nested, Chained, Reached
<1>12. HandlersKept(mgr, loops)
  BY <1>4, <1>6, <1>9 DEF HandlersKept, HandlersHeld, ClosesTop
<1> QED  BY <1>1, <1>7, <1>8, <1>10, <1>11, <1>12 DEF LoopsInv

\* The running loop.
LEMMA LoopsTop ==
  ASSUME LoopsTyped(loops)
  PROVE  /\ loops \in Seq(Loops) /\ Len(loops) > 0 /\ Len(loops) \in Nat /\ Last(loops) \in Loops
         /\ Last(loops).base \in Nat /\ Last(loops) = loops[Len(loops)] /\ Len(loops) \in 1 .. Len(loops)
<1>1. loops \in Seq(Loops) /\ Len(loops) > 0 /\ Len(loops) \in Nat /\ Len(loops) \in 1 .. Len(loops)
  BY LoopFields DEF LoopsTyped
<1> QED  BY <1>1, LoopFields DEF Last

\* A round of Commit keeps the invariant.
LEMMA LoopsRound ==
  ASSUME NEW kindly \in BOOLEAN, LoopsInv(kindly), ARound PROVE LoopsInv(kindly)'
<1>1. /\ mgr \in Managers /\ mgr' \in Managers /\ Sound(mgr)
      /\ Focusing(mgr') /\ Unstructured(mgr') /\ Effect(mgr, mgr')
      /\ SameLoops(loops, loops') /\ LoopsTyped(loops') /\ mode' = "commit"
      /\ Last(loops').handler \in {Last(loops).handler, NoFrame}
  BY Round DEF LoopsInv
<1>2. loops \in Seq(Loops) /\ Len(loops) > 0 /\ Last(loops) \in Loops  BY LoopsTop DEF LoopsInv
<1>3. PICK m, r, ls, ks : m = mgr /\ r = mgr' /\ ls = loops /\ ks = loops'  OBVIOUS
<1>4. Owned(r, ls)  BY <1>1, <1>2, <1>3, OwnedRound DEF LoopsInv
<1>5. Owned(r, ks)  BY <1>1, <1>2, <1>3, <1>4, SameOwners DEF Owned
<1>6. Reached(r, Last(ls))  BY <1>1, <1>2, <1>3, ReachedRound DEF LoopsInv, Heights
<1>7. Nested(ks) /\ Chained(ks) /\ Last(ks).loop = Last(ls).loop /\ Last(ks).base = Last(ls).base
  BY <1>1, <1>2, <1>3, SameHeights DEF LoopsInv, Heights
<1>8. Heights(r, ks)  BY <1>6, <1>7 DEF Heights, Reached
<1>9. kindly => HandlersKept(r, ks)
  <2> SUFFICES ASSUME kindly PROVE HandlersKept(r, ks)  OBVIOUS
  <2>1. HandlersHeld(r, ls)  BY <1>1, <1>2, <1>3, HandlersRound DEF LoopsInv, Owned
  <2>2. HandlersHeld(r, ks)  BY <1>1, <1>2, <1>3, <2>1, HandlersSame
  <2> QED  BY <1>1, <1>3, <2>2 DEF HandlersKept, ClosesTop, Unstructured
<1>10. SlotsSound(r, "commit")  BY <1>1, <1>3, FocusingSlots
<1> QED  BY <1>1, <1>3, <1>5, <1>8, <1>9, <1>10 DEF LoopsInv, Modes

\* The manager stays as it is, and of the loops only what the running one does changes.
LEMMA LoopsIdle ==
  ASSUME NEW kindly \in BOOLEAN, LoopsInv(kindly), Settled(mgr), mgr' = mgr, SameLoops(loops, loops'), LoopsTyped(loops'),
         mode' \in {"commit", "test", "key", "handle"},
         mode' \in {"key", "handle"} => Len(mgr.stack) = Height(Last(loops)),
         kindly => HandlersHeld(mgr, loops')
  PROVE  LoopsInv(kindly)'
<1>1. mgr \in Managers /\ mgr.deleted = NoFrame  BY SettledIs
<1>2. loops \in Seq(Loops) /\ Len(loops) > 0 /\ Last(loops) \in Loops  BY LoopsTop DEF LoopsInv
<1>3. PICK m, ls, ks : m = mgr /\ ls = loops /\ ks = loops'  OBVIOUS
<1>4. Owned(m, ks)  BY <1>2, <1>3, SameOwners DEF Owned, LoopsInv
<1>5. /\ Nested(ks) /\ Chained(ks) /\ Last(ks).loop = Last(ls).loop /\ Last(ks).base = Last(ls).base
      /\ Height(Last(ks)) = Height(Last(ls))
  BY <1>2, <1>3, SameHeights DEF LoopsInv, Heights
<1>6. Heights(m, ks)  BY <1>3, <1>5 DEF LoopsInv, Heights, Reached
<1>7. kindly => HandlersKept(m, ks)  BY <1>1, <1>3 DEF HandlersKept, ClosesTop
<1>8. SlotsSound(m, mode')  BY <1>3, SettledSlots
<1> QED  BY <1>3, <1>4, <1>5, <1>6, <1>7, <1>8 DEF LoopsInv, Modes

\* Commit returns.
LEMMA LoopsDone ==
  ASSUME NEW kindly \in BOOLEAN, LoopsInv(kindly), CommitDone PROVE LoopsInv(kindly)'
<1>1. Committing /\ NothingPending  BY DEF CommitDone
<1>2. Settled(mgr)  BY <1>1, NothingLeft DEF LoopsInv
<1>3. /\ SameLoops(loops, loops') /\ LoopsTyped(loops') /\ mode' \in {"commit", "test"}
      /\ mgr' = mgr /\ Last(loops').handler \in {Last(loops).handler, NoFrame}
  BY DoneLoops DEF LoopsInv
<1>4. kindly => HandlersHeld(mgr, loops')
  BY <1>2, <1>3, LoopsTop, SettledIs, HandlersSame DEF LoopsInv, HandlersKept
<1> QED  BY <1>2, <1>3, <1>4, LoopsIdle

\* A loop whose condition holds waits for a key: the stack is above where it started.
LEMMA LoopsGoOn ==
  ASSUME NEW kindly \in BOOLEAN, LoopsInv(kindly), LoopGoesOn PROVE LoopsInv(kindly)'
<1>1. mode = "test" /\ ~LoopEnds(Top) /\ mode' = "key" /\ mgr' = mgr /\ loops' = loops
  BY DEF LoopGoesOn
<1>2. Settled(mgr)  BY <1>1 DEF LoopsInv, SlotsSound
<1>3. PICK t : t = Last(loops)  OBVIOUS
<1>4. t \in Loops /\ t.base \in Nat /\ Reached(mgr, t) /\ Len(mgr.stack) \in Nat
  BY <1>2, <1>3, LoopsTop, SettledIs, NobodyThere DEF LoopsInv, Heights
<1>5. Len(mgr.stack) = Height(t)
  <2>1. CASE t.loop = "modal"
    <3>1. ~(Len(mgr.stack) <= t.base)  BY <1>1, <1>3, <2>1 DEF LoopEnds, Top
    <3>2. Len(mgr.stack) <= t.base + 1  BY <1>4, <2>1 DEF Reached
    <3> QED  BY <1>4, <2>1, <3>1, <3>2 DEF Height
  <2>2. CASE t.loop # "modal"
    <3>1. Len(mgr.stack) = 0  BY <1>4, <2>2 DEF Reached
    <3> QED  BY <2>2, <3>1 DEF Height
  <2> QED  BY <2>1, <2>2
<1>6. SameLoops(loops, loops') /\ LoopsTyped(loops')  BY <1>1, Unchanged DEF LoopsInv
<1>7. kindly => HandlersHeld(mgr, loops')  BY <1>1 DEF LoopsInv, HandlersKept
<1> QED  BY <1>1, <1>2, <1>3, <1>5, <1>6, <1>7, LoopsIdle

\* A key or a call is handled.
LEMMA LoopsHandle ==
  ASSUME NEW kindly \in BOOLEAN, LoopsInv(kindly), Handle PROVE LoopsInv(kindly)'
<1>1. Settled(mgr)  BY DEF LoopsInv, SlotsSound, Handle
<1>2. mgr.current \in mgr.live /\ mgr.current \in Slot  BY <1>1, SettledIs DEF Slot
<1>3. /\ SameLoops(loops, loops') /\ LoopsTyped(loops') /\ mode' = "handle" /\ mgr' = mgr
      /\ Last(loops').handler \in {mgr.current, NoFrame} /\ mode = "key"
  BY <1>2, HandleLoops DEF LoopsInv
<1>4. Len(mgr.stack) = Height(Last(loops))  BY <1>3 DEF LoopsInv
<1>5. kindly => HandlersHeld(mgr, loops')
  <2> SUFFICES ASSUME kindly PROVE HandlersHeld(mgr, loops')  OBVIOUS
  <2>1. PICK m, ls, ks : m = mgr /\ ls = loops /\ ks = loops'  OBVIOUS
  <2>2. PICK l \in Nat : l = Len(ls) /\ l > 0  BY <2>1, LoopsTop DEF LoopsInv
  <2>3. /\ Len(ks) = l
        /\ \A n \in 1 .. l : ks[n].loop = ls[n].loop /\ ks[n].base = ls[n].base
                             /\ ks[n].owner = ls[n].owner
        /\ \A n \in 1 .. l : n < l => ks[n] = ls[n]
    BY <1>3, <2>1, <2>2 DEF SameLoops
  <2>4. HandlersHeld(m, ls) /\ m \in Managers /\ ls \in Seq(Loops)
    BY <1>1, <2>1, LoopsTop, SettledIs DEF LoopsInv, HandlersKept
  <2>5. ks[l].handler \in {m.current, NoFrame}  BY <1>3, <2>1, <2>3 DEF Last
  <2>6. Height(ks[l]) = Len(m.stack)
    BY <1>4, <2>1, <2>2, <2>3, LoopsTop DEF Height, LoopsInv, Last
  <2>7. ASSUME NEW n \in 1 .. l
        PROVE  /\ ks[n].loop # "nonmodal"
               /\ ks[n].handler \in m.live \cup {NoFrame}
               /\ ks[n].handler # NoFrame =>
                    /\ \A k \in 1 .. l : k > n => ks[k].owner # ks[n].handler
                    /\ \A i \in 1 .. Len(m.stack) : i > Height(ks[n]) => m.stack[i] # ks[n].handler
                    /\ n < l => m.executed # ks[n].handler /\ m.inserted # ks[n].handler
    <3>1. ks[n].loop # "nonmodal"  BY <2>2, <2>3, <2>4 DEF HandlersHeld
    <3>2. CASE n < l
      <4>1. ks[n] = ls[n]  BY <2>3, <3>2
      <4> QED  BY <2>2, <2>3, <2>4, <3>2, <4>1 DEF HandlersHeld
    <3>3. CASE n = l
      <4>1. ks[n].handler \in m.live \cup {NoFrame}  BY <1>2, <2>1, <2>5, <3>3
      <4>2. Len(m.stack) \in Nat  BY <2>4, NobodyThere
      <4> QED  BY <2>2, <2>6, <3>1, <3>3, <4>1, <4>2
    <3> QED  BY <2>2, <3>2, <3>3
  <2>8. HandlersHeld(m, ks)  BY <2>3, <2>7 DEF HandlersHeld
  <2> QED  BY <2>1, <2>8
<1> QED  BY <1>1, <1>3, <1>4, <1>5, LoopsIdle

\* A loop ends, and the function that has run it goes on.
LEMMA LoopsReturn ==
  ASSUME NEW kindly \in BOOLEAN, LoopsInv(kindly), LoopReturns PROVE LoopsInv(kindly)'
<1>1. /\ mode = "test" /\ LoopEnds(Top) /\ mode' = "handle" /\ loops' = Front(loops)
      /\ mgr' = IF Top.owner = NoFrame THEN mgr ELSE Destroy(mgr, Top.owner)
  BY DEF LoopReturns, LeaveLoop
<1>2. PICK m, r, ls, ks, t : m = mgr /\ r = mgr' /\ ls = loops /\ ks = loops' /\ t = Last(ls)  OBVIOUS
<1>3. Settled(m) /\ Owned(m, ls) /\ Heights(m, ls)  BY <1>1, <1>2 DEF LoopsInv, SlotsSound
<1>4. /\ ls \in Seq(Loops) /\ Len(ls) \in Nat /\ Len(ls) \in 1 .. Len(ls) /\ t = ls[Len(ls)] /\ t \in Loops
      /\ Len(ls) \in 1 .. MaxLoops /\ Top = t
  BY <1>2, LoopsTop DEF LoopsInv, LoopsTyped, Top
<1>5. t.loop \in {"modal", "nonmodal"}  BY <1>1, <1>4 DEF LoopEnds
<1>6. Len(ls) > 1
  <2>1. Len(ls) # 1  BY <1>3, <1>4, <1>5 DEF Owned, MainFirst
  <2> QED  BY <1>4, <2>1
<1>7. t.loop = "modal" => Len(m.stack) <= t.base  BY <1>1, <1>2, <1>4 DEF LoopEnds
<1>8. t.owner # NoFrame => Len(m.stack) <= t.base
  BY <1>3, <1>4, <1>7 DEF Owned, OwnersHeld
<1>9. ks = Front(ls) /\ r = IF t.owner = NoFrame THEN m ELSE Destroy(m, t.owner)
  BY <1>1, <1>2, <1>4
<1>10. /\ Settled(r) /\ Owned(r, ks) /\ r.list = m.list /\ r.stack = m.stack
       /\ r.live = m.live \ {t.owner}
  <2>1. ls \in Seq(Loops) /\ Owned(m, ls) /\ Settled(m) /\ t = Last(ls)  BY <1>2, <1>3, <1>4
  <2> QED  BY ONLY <1>6, <1>8, <1>9, <2>1, OwnedLeft
<1>11. Heights(r, ks) /\ Len(r.stack) = Height(Last(ks))
  <2>1. ls \in Seq(Loops) /\ Heights(m, ls) /\ Settled(m) /\ ks = Front(ls)
    BY <1>2, <1>3, <1>4, <1>9
  <2>2. Settled(r) /\ r.stack = m.stack  BY <1>10
  <2>3. Last(ls).loop # "main" /\ (Last(ls).loop = "modal" => Len(m.stack) <= Last(ls).base)
    BY <1>2, <1>5, <1>7
  <2> QED  BY ONLY <1>6, <2>1, <2>2, <2>3, LeftHeights
<1>12. LoopsTyped(ks)
  <2>1. ks \in Seq(Loops) /\ Len(ks) = Len(ls) - 1  BY <1>4, <1>6, <1>9, FewerLoops
  <2>2. PICK n \in Nat : n = Len(ls)  BY <1>4
  <2>3. PICK p \in Nat : p = MaxLoops  BY LoopsAssumption
  <2>4. n - 1 \in 1 .. p  BY <1>4, <1>6, <2>2, <2>3
  <2> QED  BY <2>1, <2>2, <2>3, <2>4 DEF LoopsTyped
<1>13. kindly => HandlersKept(r, ks)
  <2> SUFFICES ASSUME kindly PROVE HandlersKept(r, ks)  OBVIOUS
  <2>1. HandlersHeld(m, ls) /\ m \in Managers  BY <1>2, <1>3, SettledIs DEF LoopsInv, HandlersKept
  <2>2. r.executed = NoFrame /\ r.inserted = NoFrame /\ r.deleted = NoFrame  BY <1>10, SettledIs
  <2>3. HandlersHeld(r, ks)  BY <1>2, <1>4, <1>6, <1>9, <1>10, <2>1, <2>2, HandlersLeft
  <2> QED  BY <2>2, <2>3 DEF HandlersKept, ClosesTop
<1>14. SlotsSound(r, "handle")  BY <1>10, SettledSlots
<1> QED  BY <1>1, <1>2, <1>10, <1>11, <1>12, <1>13, <1>14 DEF LoopsInv, Modes

\* The frame closed by its own code in a modal loop is the top of the stack.
LEMMA ClosedIsTop ==
  ASSUME NEW m, Settled(m), NEW r, r.stack = m.stack, NEW l \in Loops,
         Len(m.stack) = Height(l), l.loop = "modal", r.deleted = m.current
  PROVE  r.deleted \in ToSet(r.stack) /\ Len(r.stack) = l.base + 1
<1>1. l.base \in Nat /\ Len(m.stack) = l.base + 1  BY DEF Loops, Height
<1>2. m.stack # <<>>  BY <1>1
<1> QED  BY <1>1, <1>2, SettledIs

\* The code has left its requests.
LEMMA LoopsStay ==
  ASSUME NEW kindly \in BOOLEAN, LoopsInv(kindly), mode = "handle", StaysHere, kindly => ~ClientsOwn
  PROVE  LoopsInv(kindly)'
<1>1. /\ Handled(mgr, mgr') /\ Stays(mgr, mgr')
      /\ SameLoops(loops, loops') /\ LoopsTyped(loops')
      /\ Last(loops').handler \in {Last(loops).handler, NoFrame}
      /\ mode' = "commit"
      /\ mgr'.deleted # NoFrame => ClientsOwn \/ Last(loops').handler = NoFrame
      /\ mgr'.deleted # NoFrame => ClientsOwn \/ mgr'.deleted = mgr.current
  BY DEF StaysHere
<1>2. PICK m, r, ls, ks : m = mgr /\ r = mgr' /\ ls = loops /\ ks = loops'  OBVIOUS
<1>3. Settled(m) /\ Owned(m, ls) /\ Heights(m, ls) /\ Len(m.stack) = Height(Last(ls))
  BY <1>2 DEF LoopsInv, SlotsSound
<1>4. ls \in Seq(Loops) /\ Len(ls) > 0 /\ Last(ls) \in Loops  BY <1>2, LoopsTop DEF LoopsInv
<1>5. Handled(m, r) /\ Stays(m, r) /\ r \in Managers /\ SlotsSound(r, "commit")
  BY <1>1, <1>2, HandledSlots
<1>6. Owned(r, ls)  BY <1>3, <1>4, <1>5, OwnedStays
<1>7. Owned(r, ks)  BY <1>1, <1>2, <1>4, <1>6, SameOwners DEF Owned
<1>8. Reached(r, Last(ls))  BY <1>3, <1>4, <1>5, ReachedStays DEF Heights
<1>9. Nested(ks) /\ Chained(ks) /\ Last(ks).loop = Last(ls).loop /\ Last(ks).base = Last(ls).base
  BY <1>1, <1>2, <1>3, <1>4, SameHeights DEF Heights
<1>10. Heights(r, ks)  BY <1>8, <1>9 DEF Heights, Reached
<1>11. kindly => HandlersKept(r, ks)
  <2> SUFFICES ASSUME kindly PROVE HandlersKept(r, ks)  OBVIOUS
  <2>1. HandlersHeld(m, ls) /\ m \in Managers  BY <1>2, <1>3, SettledIs DEF LoopsInv, HandlersKept
  <2>2. HandlersHeld(r, ls)  BY <1>3, <1>4, <1>5, <2>1, HandlersStay
  <2>3. HandlersHeld(r, ks)  BY <1>1, <1>2, <1>4, <1>5, <2>2, HandlersSame
  <2>4. ~ClientsOwn  OBVIOUS
  <2>5. r.deleted # NoFrame => Last(ks).handler = NoFrame /\ r.deleted = m.current
    BY <1>1, <1>2, <2>4
  <2>6. r.deleted # NoFrame /\ Last(ks).loop = "modal" =>
          r.deleted \in ToSet(r.stack) /\ Len(r.stack) = Last(ks).base + 1
    <3> SUFFICES ASSUME r.deleted # NoFrame, Last(ls).loop = "modal"
                 PROVE  r.deleted \in ToSet(r.stack) /\ Len(r.stack) = Last(ls).base + 1
      BY <1>9
    <3>1. r.stack = m.stack  BY <1>5 DEF Handled
    <3> QED  BY <1>3, <1>4, <2>5, <3>1, ClosedIsTop
  <2> QED  BY <2>3, <2>5, <2>6 DEF HandlersKept, ClosesTop
<1> QED  BY <1>1, <1>2, <1>5, <1>7, <1>10, <1>11 DEF LoopsInv, Modes

\* CloseDialog.
LEMMA LoopsCloseOne ==
  ASSUME NEW kindly \in BOOLEAN, LoopsInv(kindly), mode = "handle", ClosesOne
  PROVE  LoopsInv(kindly)'
<1>1. /\ Handled(mgr, mgr') /\ Stays(mgr, mgr')
      /\ loops' = loops /\ mode' = "commit1"
      /\ Requesting(mgr') /\ mgr'.deleted # NoFrame /\ mgr'.inserted = NoFrame /\ mgr'.executed = NoFrame
      /\ mgr'.kind[mgr'.deleted] = "auto"
      /\ mgr'.deleted = mgr.current
  BY DEF ClosesOne
<1>2. PICK m, r, ls : m = mgr /\ r = mgr' /\ ls = loops  OBVIOUS
<1>3. Settled(m) /\ Owned(m, ls) /\ Heights(m, ls) /\ Len(m.stack) = Height(Last(ls))
  BY <1>2 DEF LoopsInv, SlotsSound
<1>4. ls \in Seq(Loops) /\ Len(ls) > 0 /\ Last(ls) \in Loops  BY <1>2, LoopsTop DEF LoopsInv
<1>5. Handled(m, r) /\ Stays(m, r) /\ r \in Managers
  BY <1>1, <1>2, HandledSlots
<1>6. Owned(r, ls)  BY <1>3, <1>4, <1>5, OwnedStays
<1>7. Reached(r, Last(ls))  BY <1>3, <1>4, <1>5, ReachedStays DEF Heights
<1>8. Heights(r, ls)  BY <1>3, <1>7 DEF Heights
<1>9. kindly => HandlersKept(r, ls)
  <2> SUFFICES ASSUME kindly PROVE HandlersKept(r, ls)  OBVIOUS
  <2>1. HandlersHeld(m, ls) /\ m \in Managers  BY <1>2, <1>3, SettledIs DEF LoopsInv, HandlersKept
  <2>2. HandlersHeld(r, ls)  BY <1>3, <1>4, <1>5, <2>1, HandlersStay
  <2>3. r.stack = m.stack  BY <1>5 DEF Handled
  <2>4. Last(ls).loop = "modal" => r.deleted \in ToSet(r.stack) /\ Len(r.stack) = Last(ls).base + 1
    BY <1>1, <1>2, <1>3, <1>4, <2>3, ClosedIsTop
  <2> QED  BY <1>1, <1>2, <2>2, <2>4 DEF HandlersKept, ClosesTop
<1>10. SlotsSound(r, "commit1")
  BY <1>1, <1>2 DEF SlotsSound, Sound, OnlyDeletes
<1>11. loops' = ls /\ LoopsTyped(ls)  BY <1>1, <1>2 DEF LoopsInv
<1> QED  BY <1>1, <1>2, <1>6, <1>8, <1>9, <1>10, <1>11 DEF LoopsInv, Modes

\* Another loop is started.
LEMMA LoopsDeeper ==
  ASSUME NEW kindly \in BOOLEAN, LoopsInv(kindly), mode = "handle", GoesDeeper, kindly => ~ClientsOwn
  PROVE  LoopsInv(kindly)'
<1>1. /\ Handled(mgr, mgr') /\ mode' = "commit" /\ Len(loops) < MaxLoops
      /\ mgr'.deleted # NoFrame => ClientsOwn
  BY DEF GoesDeeper
<1>2. PICK l : /\ Enters(mgr, mgr', l) /\ loops' = Append(loops, l)
               /\ l.loop = "nonmodal" => ClientsOwn
  BY DEF GoesDeeper
<1>3. PICK m, r, ls, ks : m = mgr /\ r = mgr' /\ ls = loops /\ ks = loops'  OBVIOUS
<1>4. Settled(m) /\ Owned(m, ls) /\ Heights(m, ls) /\ Len(m.stack) = Height(Last(ls))
  BY <1>3 DEF LoopsInv, SlotsSound
<1>5. ls \in Seq(Loops) /\ Len(ls) > 0 /\ Len(ls) \in Nat /\ Len(ls) \in 1 .. MaxLoops
  BY <1>3, LoopsTop DEF LoopsInv, LoopsTyped
<1>6. Handled(m, r) /\ r \in Managers /\ SlotsSound(r, "commit")
  BY <1>1, <1>3, HandledSlots
<1>7. Enters(m, r, l) /\ ks = Append(ls, l) /\ l \in Loops  BY <1>2, <1>3 DEF Enters
<1>8. Owned(r, ks)  BY ONLY <1>4, <1>5, <1>6, <1>7, OwnedDeeper
<1>9. Heights(r, ks)  BY ONLY <1>4, <1>5, <1>6, <1>7, DeeperHeights
<1>10. LoopsTyped(ks)
  <2>1. ks \in Seq(Loops) /\ Len(ks) = Len(ls) + 1  BY ONLY <1>5, <1>7, LongerLoops
  <2>2. PICK n \in Nat : n = Len(ls)  BY <1>5
  <2>3. PICK p \in Nat : p = MaxLoops  BY LoopsAssumption
  <2>4. n + 1 \in 1 .. p  BY <1>1, <1>3, <1>5, <2>2, <2>3
  <2> QED  BY <2>1, <2>2, <2>3, <2>4 DEF LoopsTyped
<1>11. kindly => HandlersKept(r, ks)
  <2> SUFFICES ASSUME kindly PROVE HandlersKept(r, ks)  OBVIOUS
  <2>1. HandlersHeld(m, ls)  BY <1>3 DEF LoopsInv, HandlersKept
  <2>2. ~ClientsOwn  OBVIOUS
  <2>3. r.deleted = NoFrame /\ l.loop = "modal"
    BY <1>1, <1>2, <1>3, <1>7, <2>2 DEF Enters
  <2> QED  BY ONLY <1>4, <1>5, <1>6, <1>7, <2>1, <2>3, HandlersDeeper
<1> QED  BY <1>1, <1>3, <1>6, <1>8, <1>9, <1>10, <1>11 DEF LoopsInv, Modes

\* Every step keeps the invariant, where no plugin changes windows without committing and no
\* dialog behind another one is closed, if it opens nothing over a modal frame.
LEMMA LoopsNext ==
  ASSUME Features \cap {"switch", "dmclose"} = {}, NEW kindly \in BOOLEAN, LoopsInv(kindly), Next,
         ~OpensOverModal, kindly => ~ClientsOwn
  PROVE  LoopsInv(kindly)'
<1>1. CASE ARound  BY <1>1, LoopsRound
<1>2. CASE CommitDone  BY <1>2, LoopsDone
<1>3. CASE LoopGoesOn  BY <1>3, LoopsGoOn
<1>4. CASE LoopReturns  BY <1>4, LoopsReturn
<1>5. CASE Handle  BY <1>5, LoopsHandle
<1>6. CASE HandlerStep
  <2>1. mode = "handle"
    BY <1>6 DEF HandlerStep, HandlerReturns, OpenModal, OpenScreen, RunScreen, SwitchToOpened,
       RunOpened, Reload, ReloadWithMessage, Close, CloseDialog, SwitchEditorViewer, CtrlTab,
       ScreensMenu, SwitchToPanels, Repaint, SetCurrentWindow, QuitEditor, MayOpen, Running
  <2>2. Settled(mgr) /\ LoopsTyped(loops)  BY <2>1 DEF LoopsInv, SlotsSound
  <2>3. StaysHere \/ ClosesOne \/ GoesDeeper  BY <1>6, <2>2, Handling
  <2> QED  BY <2>1, <2>3, LoopsStay, LoopsCloseOne, LoopsDeeper
<1> QED
  BY <1>1, <1>2, <1>3, <1>4, <1>5, <1>6 DEF Next, CommitStep, LoopStep, ARound

\* Nothing happens.
LEMMA LoopsStays ==
  ASSUME NEW kindly \in BOOLEAN, LoopsInv(kindly), UNCHANGED vars PROVE LoopsInv(kindly)'
  BY DEF vars, LoopsInv

-----------------------------------------------------------------------------
(* ExitAll and CloseAll                                                    *)

\* The first n frames of the list
ListedTo(m, n) == {m.list[j] : j \in 1 .. n}

\* Changes are in editors, of the list or modal ones
Changed(m, mo) ==
  \A f \in mo : f \in ToSet(m.list) \cup ToSet(m.stack) /\ m.kind[f] \in {"screen", "heap"}

\* No modal frame is open or about to be
Bare(m) == m.stack = <<>> /\ m.executed = NoFrame

\* The loop over the modal frames counts down with the stack
AtModals(m, x) == x.at = "modals" => x.i = Len(m.stack)

\* One of them has had its Escape, and is closed or not
AtModalClosing(m, x) ==
  x.at = "modalClosing" =>
    /\ x.i = x.count /\ m.inserted = NoFrame /\ m.executed = NoFrame
    /\ m.deleted # NoFrame => Len(m.stack) = x.count /\ m.stack # <<>>
    /\ m.deleted = NoFrame => Len(m.stack) \in {x.count - 1, x.count}

\* The changes in frames of the list that ExitAll has passed are dealt with
AtScreens(m, x, mo) ==
  x.at \in {"screens", "chosen", "escape"} =>
    Bare(m) /\ x.i <= Len(m.list) /\ mo \subseteq ListedTo(m, x.i)

\* An editor with changes is about to get the focus
AtChosen(m, x) ==
  x.at = "chosen" =>
    /\ Unstructured(m) /\ m.deactivated = NoFrame /\ x.i > 1
    /\ m.activated = NoFrame => m.current = m.list[x.i]
    /\ m.activated # NoFrame => m.activated = m.list[x.i]

\* ... and has it
AtEscape(m, x) == x.at = "escape" => x.i > 1 /\ m.current = m.list[x.i]

\* It has had its Escape, and is closed or not
AtScreenClosing(m, x, mo) ==
  x.at = "screenClosing" =>
    /\ Bare(m) /\ m.inserted = NoFrame /\ x.i > 1
    /\ m.deleted # NoFrame =>
         /\ Len(m.list) = x.count /\ x.i <= x.count /\ m.deleted = m.list[x.i]
         /\ mo \subseteq ListedTo(m, x.i - 1)
    /\ m.deleted = NoFrame =>
         /\ Len(m.list) \in {x.count - 1, x.count}
         /\ Len(m.list) = x.count - 1 => x.i - 1 <= Len(m.list) /\ mo \subseteq ListedTo(m, x.i - 1)

\* Where ExitAll is, and what the running loop is doing
AtPlace(m, md, x) ==
  /\ md = "exit" <=> x.at \in {"modals", "screens", "escape"}
  /\ x.at \in {"modalClosing", "chosen", "screenClosing"} => md = "commit"
  /\ md = "exit" => Settled(m)

\* What ExitAll has done so far
Inside(m, x, mo) ==
  /\ AtModals(m, x) /\ AtModalClosing(m, x) /\ AtScreens(m, x, mo)
  /\ AtChosen(m, x) /\ AtEscape(m, x) /\ AtScreenClosing(m, x, mo)

\* Before the main loop is left
Before(m, ls, md, mo, dn, x) ==
  /\ SlotsSound(m, md) /\ Owned(m, ls) /\ Changed(m, mo)
  /\ AtPlace(m, md, x) /\ Inside(m, x, mo)
  /\ dn => mo = {} /\ Bare(m) /\ x.at = "no" /\ md # "key"

\* After that, while CloseAll destroys what is left
AllGone(m) ==
  /\ m \in Managers /\ IsInjective(m.list) /\ m.stack = <<>>
  /\ ToSet(m.list) = m.live /\ \A f \in ToSet(m.list) : m.kind[f] # "auto"

\* The inductive invariant while the program is left
ExitInv ==
  /\ exit \in [at : Places, i : Nat, count : Nat] /\ mode \in Modes \cup {"exit"}
  /\ closeFar \in BOOLEAN /\ down \in BOOLEAN /\ LoopsTyped(loops)
  /\ exit.at \notin {"all", "closed"} => Before(mgr, loops, mode, modified, down, exit)
  /\ exit.at \in {"all", "closed"} =>
       /\ AllGone(mgr) /\ mode = "exit" /\ down /\ modified = {}
       /\ exit.at = "closed" => mgr.list = <<>>

\* Elsewhere than in ExitAll nothing is to be said of it.
LEMMA Outside ==
  ASSUME NEW m, NEW x, NEW mo, x.at = "no" PROVE Inside(m, x, mo)
  BY DEF Inside, AtModals, AtModalClosing, AtScreens, AtChosen, AtEscape, AtScreenClosing

\* Keys are read and code is called only outside of ExitAll.
LEMMA Elsewhere ==
  ASSUME ExitInv, mode \notin {"exit", "commit"} PROVE exit.at = "no"
<1>1. exit.at \in Places  BY DEF ExitInv
<1>2. exit.at \notin {"all", "closed"}  BY DEF ExitInv
<1>3. exit.at \notin {"modals", "screens", "escape"}  BY <1>2 DEF ExitInv, Before, AtPlace
<1>4. exit.at \notin {"modalClosing", "chosen", "screenClosing"}
  BY <1>2 DEF ExitInv, Before, AtPlace
<1> QED  BY <1>1, <1>2, <1>3, <1>4 DEF Places

\* The invariant before the main loop is left, in parts.
LEMMA Working ==
  ASSUME ExitInv, exit.at \notin {"all", "closed"}
  PROVE  /\ SlotsSound(mgr, mode) /\ Owned(mgr, loops) /\ Changed(mgr, modified)
         /\ AtPlace(mgr, mode, exit) /\ Inside(mgr, exit, modified)
         /\ down => modified = {} /\ Bare(mgr) /\ exit.at = "no" /\ mode # "key"
         /\ LoopsTyped(loops) /\ mode \in Modes \cup {"exit"}
         /\ exit.at \in Places /\ exit.i \in Nat /\ exit.count \in Nat
         /\ closeFar \in BOOLEAN /\ down \in BOOLEAN
  BY DEF ExitInv, Before

\* ... and put together again, after a step.
LEMMA StillBefore ==
  ASSUME exit' \in [at : Places, i : Nat, count : Nat], mode' \in Modes \cup {"exit"},
         closeFar' \in BOOLEAN, down' \in BOOLEAN, LoopsTyped(loops'), exit'.at \notin {"all", "closed"},
         SlotsSound(mgr', mode'), Owned(mgr', loops'), Changed(mgr', modified'),
         AtPlace(mgr', mode', exit'), Inside(mgr', exit', modified'),
         down' => modified' = {} /\ Bare(mgr') /\ exit'.at = "no" /\ mode' # "key"
  PROVE  ExitInv'
  BY DEF ExitInv, Before

\* The functions that far2l has called do not look at what ExitAll is up to.
LEMMA StillOutside ==
  ASSUME ExitInv, exit' = exit, exit.at = "no", mode' \in Modes, closeFar' \in BOOLEAN, down' = down,
         LoopsTyped(loops'), SlotsSound(mgr', mode'), Owned(mgr', loops'), Changed(mgr', modified'),
         down => modified' = {} /\ Bare(mgr') /\ mode' # "key"
  PROVE  ExitInv'
<1>1. Inside(mgr', exit', modified')  BY Outside
<1>2. mode' # "exit"  BY DEF Modes
<1>3. AtPlace(mgr', mode', exit')  BY <1>2 DEF AtPlace
<1>4. exit' \in [at : Places, i : Nat, count : Nat] /\ exit'.at = "no" /\ down' \in BOOLEAN
      /\ mode' \in Modes \cup {"exit"}
  BY DEF ExitInv
<1> QED  BY <1>1, <1>3, <1>4, StillBefore

\* Nothing is changed, and nobody leaves, to begin with.
LEMMA ExitInitially ==
  ASSUME ExitInit PROVE ExitInv
<1>1. LoopsInv(FALSE)  BY LoopsInit DEF ExitInit
<1>2. mode = "commit" /\ exit.at = "no" /\ modified = {} /\ closeFar = FALSE /\ down = FALSE
  BY DEF ExitInit, Init, Nowhere
<1>3. exit \in [at : Places, i : Nat, count : Nat]
  BY DEF ExitInit, Nowhere, Places
<1>4. Inside(mgr, exit, modified)  BY <1>2, Outside
<1>5. AtPlace(mgr, mode, exit)  BY <1>2 DEF AtPlace
<1>6. Changed(mgr, modified)  BY <1>2 DEF Changed
<1>7. Before(mgr, loops, mode, modified, down, exit)
  BY <1>1, <1>2, <1>4, <1>5, <1>6 DEF Before, LoopsInv
<1> QED  BY <1>1, <1>2, <1>3, <1>7 DEF ExitInv, LoopsInv

\* A round of Commit: an editor with changes stays, or is destroyed with them.
LEMMA ChangedRound ==
  ASSUME NEW m \in Managers, NEW r \in Managers, Effect(m, r), NEW mo, Changed(m, mo)
  PROVE  Changed(r, mo \cap r.live)
<1> SUFFICES ASSUME NEW f \in mo, f \in r.live
             PROVE  f \in ToSet(r.list) \cup ToSet(r.stack) /\ r.kind[f] \in {"screen", "heap"}
  BY DEF Changed
<1>1. f \in ToSet(m.list) \cup ToSet(m.stack) /\ m.kind[f] \in {"screen", "heap"} /\ f \in AllFrames
  BY Fields DEF Changed
<1>2. f # m.deleted  BY <1>1, Nobody DEF Effect
<1> QED  BY <1>1, <1>2 DEF Effect

\* A round of Commit opens no modal frame that is not requested.
LEMMA BareRound ==
  ASSUME NEW m \in Managers, NEW r \in Managers, Effect(m, r), Unstructured(r), Bare(m)
  PROVE  Bare(r)
<1>1. r.executed = NoFrame  BY DEF Unstructured
<1>2. m.deleted \notin ToSet(m.stack)  BY DEF Bare, ToSet
<1>3. Len(r.stack) = 0  BY <1>2 DEF Bare, Effect, Kept
<1>4. r.stack = <<>>  BY <1>3, Fields, EmptySeq
<1> QED  BY <1>1, <1>4 DEF Bare

\* A round of Commit without insertions and deletions leaves the list alone.
LEMMA ListRound ==
  ASSUME NEW m \in Managers, NEW r, Effect(m, r), m.inserted = NoFrame, m.deleted = NoFrame
  PROVE  r.list = m.list /\ r.live = m.live
  BY NobodyThere DEF Effect

-----------------------------------------------------------------------------
(* The rounds of Commit in ExitAll                                         *)

\* What is deleted alone is the uppermost frame.
LEMMA OnlyDeleted ==
  ASSUME NEW m, Sound(m), m.deleted # NoFrame, m.inserted = NoFrame, m.executed = NoFrame
  PROVE  /\ Requesting(m) /\ Placed(m) /\ m \in Managers /\ m.deleted = Uppermost(m)
         /\ m.deleted \in AllFrames /\ m.deleted # Panels
<1>1. ~Unstructured(m) /\ m # StartedManager  BY StartedOnly DEF Unstructured
<1>2. Requesting(m)  BY <1>1, SoundRequests
<1>3. Placed(m) /\ m \in Managers  BY <1>2 DEF Requesting, Placed, Grounded, Linked
<1>4. m.deleted \in AllFrames  BY <1>3, Fields DEF Slot
<1> QED  BY <1>2, <1>3, <1>4 DEF Requesting, MayDelete

\* The Commit after an Escape in a modal frame, round by round: the stack is one lower, or the
\* user goes on with the frame.
LEMMA ModalClosingRound ==
  ASSUME NEW m, Sound(m), NEW r \in Managers, Effect(m, r), Unstructured(r), NEW x, AtModalClosing(m, x),
         x.count \in Nat
  PROVE  AtModalClosing(r, x)
<1> SUFFICES ASSUME x.at = "modalClosing"
             PROVE  /\ x.i = x.count /\ r.inserted = NoFrame /\ r.executed = NoFrame
                    /\ r.deleted = NoFrame /\ Len(r.stack) \in {x.count - 1, x.count}
  BY DEF AtModalClosing
<1>1. r.inserted = NoFrame /\ r.executed = NoFrame /\ r.deleted = NoFrame  BY DEF Unstructured
<1>2. m \in Managers  BY SoundManager
<1>3. x.i = x.count /\ m.inserted = NoFrame /\ m.executed = NoFrame  BY DEF AtModalClosing
<1>4. Len(r.stack) = Kept(m)  BY <1>3 DEF Effect
<1>5. CASE m.deleted = NoFrame
  <2>1. Kept(m) = Len(m.stack)  BY <1>2, <1>5, NobodyThere DEF Kept
  <2> QED  BY <1>1, <1>3, <1>4, <1>5, <2>1 DEF AtModalClosing
<1>6. CASE m.deleted # NoFrame
  <2>1. Len(m.stack) = x.count /\ m.stack # <<>>  BY <1>6 DEF AtModalClosing
  <2>2. m.deleted = Uppermost(m) /\ Placed(m)  BY <1>3, <1>6, OnlyDeleted
  <2>3. m.deleted \in ToSet(m.stack)  BY <2>1, <2>2, UppermostIs DEF Placed
  <2>4. Kept(m) = x.count - 1  BY <2>1, <2>3 DEF Kept
  <2> QED  BY <1>1, <1>3, <1>4, <2>4
<1> QED  BY <1>5, <1>6

\* The Commit after an Escape in an editor of the list, round by round.
LEMMA ScreenClosingRound ==
  ASSUME NEW m, Sound(m), NEW r \in Managers, Effect(m, r), Unstructured(r), NEW x, NEW mo,
         AtScreenClosing(m, x, mo), x.count \in Nat, x.i \in Nat
  PROVE  AtScreenClosing(r, x, mo \cap r.live)
<1> SUFFICES ASSUME x.at = "screenClosing"
             PROVE  /\ Bare(r) /\ r.inserted = NoFrame /\ x.i > 1 /\ r.deleted = NoFrame
                    /\ Len(r.list) \in {x.count - 1, x.count}
                    /\ Len(r.list) = x.count - 1 =>
                         x.i - 1 <= Len(r.list) /\ mo \cap r.live \subseteq ListedTo(r, x.i - 1)
  BY DEF AtScreenClosing
<1>1. r.inserted = NoFrame /\ r.deleted = NoFrame  BY DEF Unstructured
<1>2. m \in Managers  BY SoundManager
<1>3. Bare(m) /\ m.inserted = NoFrame /\ x.i > 1 /\ m.executed = NoFrame  BY DEF AtScreenClosing, Bare
<1>4. Bare(r)  BY <1>2, <1>3, BareRound
<1>5. CASE m.deleted = NoFrame
  <2>1. r.list = m.list  BY <1>2, <1>3, <1>5, ListRound
  <2>2. ListedTo(r, x.i - 1) = ListedTo(m, x.i - 1)  BY <2>1 DEF ListedTo
  <2>3. /\ Len(m.list) \in {x.count - 1, x.count}
        /\ Len(m.list) = x.count - 1 => x.i - 1 <= Len(m.list) /\ mo \subseteq ListedTo(m, x.i - 1)
    BY <1>5 DEF AtScreenClosing
  <2> QED  BY <1>1, <1>3, <1>4, <2>1, <2>2, <2>3
<1>6. CASE m.deleted # NoFrame
  <2>1. PICK i, n \in Nat : i = x.i /\ n = x.count  OBVIOUS
  <2>2. /\ Len(m.list) = n /\ i <= n /\ m.deleted = m.list[i] /\ mo \subseteq ListedTo(m, i - 1) /\ i > 1
    BY <1>3, <1>6, <2>1 DEF AtScreenClosing
  <2>3. r.list = RemoveFirst(m.list, m.deleted)  BY <1>3 DEF Effect
  <2>4. m.list \in Seq(AllFrames) /\ IsInjective(m.list)
    BY <1>2, <1>3, <1>6, OnlyDeleted, Fields DEF Placed, Grounded, Linked, Distinct
  <2>5. i \in 1 .. Len(m.list)  BY <2>1, <2>2
  <2>6. PICK s, t : s = m.list /\ t = r.list  OBVIOUS
  <2>a. s \in Seq(AllFrames) /\ IsInjective(s) /\ i \in 1 .. Len(s) /\ Len(s) = n
    BY <2>2, <2>4, <2>5, <2>6
  <2>b. t = RemoveAt(s, i)
    <3>1. RemoveFirst(s, s[i]) = RemoveAt(s, i)  BY ONLY <2>a, Indexed
    <3> QED  BY <2>2, <2>3, <2>6, <3>1
  <2>c. /\ Len(t) = n - 1
        /\ \A k \in 1 .. (n - 1) : t[k] = IF k < i THEN s[k] ELSE s[k + 1]
    BY ONLY <2>a, <2>b, Shortening
  <2>7. /\ Len(r.list) = n - 1
        /\ \A k \in 1 .. (n - 1) : r.list[k] = IF k < i THEN m.list[k] ELSE m.list[k + 1]
    BY <2>6, <2>c
  <2>8. \A k \in 1 .. (i - 1) : k \in 1 .. (n - 1) /\ k < i  BY <2>1, <2>2
  <2>9. ListedTo(m, i - 1) \subseteq ListedTo(r, i - 1)  BY <2>7, <2>8 DEF ListedTo
  <2>10. i - 1 <= Len(r.list)  BY <2>1, <2>2, <2>7
  <2> QED  BY <1>1, <1>3, <1>4, <2>1, <2>2, <2>7, <2>9, <2>10
<1> QED  BY <1>5, <1>6

\* The chosen editor becomes the current frame.
LEMMA FocusedOn ==
  ASSUME NEW m \in Managers, NEW f \in AllFrames, NEW r, r = ActivateCommit([m EXCEPT !.activated = NoFrame], f)
  PROVE  r.current = f
<1>1. PICK n : n = [m EXCEPT !.activated = NoFrame]  OBVIOUS
<1>2. n \in Managers  BY <1>1, FramesAssumption DEF Managers
<1>3. CASE n.current = f
  <2>1. r = [n EXCEPT !.refreshed = f]  BY <1>1, <1>3 DEF ActivateCommit
  <2> QED  BY <1>2, <1>3, <2>1 DEF Managers
<1>4. CASE n.current # f
  <2>1. r = Focus(n, f)  BY <1>1, <1>4 DEF ActivateCommit
  <2> DEFINE a == IF InList(n, f) THEN IndexOfList(n, f) - 1 ELSE n.pos
             b == [n.back EXCEPT ![f] = IF InList(n, f) /\ InList(n, n.current) THEN n.current ELSE @]
             c == IF InStack(n, f) THEN Append(RemoveFirst(n.stack, f), f) ELSE n.stack
  <2>2. r = [n EXCEPT !.pos = a, !.back = b, !.stack = c, !.refreshed = f, !.current = f]
    BY <1>2, <2>1 DEF Focus, Managers
  <2> HIDE DEF a, b, c
  <2> QED  BY <1>2, <2>2 DEF Managers
<1> QED  BY <1>3, <1>4

\* The Commit after an editor with changes is chosen: no other gets the focus.
LEMMA ChosenRound ==
  ASSUME SlotsSound(mgr, mode), LoopsTyped(loops), ARound, AtChosen(mgr, exit)
  PROVE  AtChosen(mgr', exit)
<1> SUFFICES ASSUME exit.at = "chosen"
             PROVE  /\ Unstructured(mgr') /\ mgr'.deactivated = NoFrame /\ exit.i > 1
                    /\ mgr'.activated = NoFrame /\ mgr'.current = mgr'.list[exit.i]
  BY DEF AtChosen
<1>1. PICK m, r : m = mgr /\ r = mgr'  OBVIOUS
<1>2. /\ m \in Managers /\ r \in Managers /\ Sound(m) /\ Unstructured(r) /\ Effect(m, r)
  BY <1>1, Round
<1>3. /\ Unstructured(m) /\ m.deactivated = NoFrame /\ exit.i > 1
      /\ m.activated = NoFrame => m.current = m.list[exit.i]
      /\ m.activated # NoFrame => m.activated = m.list[exit.i]
  BY <1>1 DEF AtChosen
<1>4. r.list = m.list  BY <1>2, <1>3, ListRound DEF Unstructured
<1>5. CommitActivate \/ CommitRefresh
  <2>1. ~CommitUpdate /\ ~CommitDelete
    BY <1>1, <1>3 DEF CommitUpdate, CommitDelete, Replacing, Unstructured
  <2>2. ~CommitExecute /\ ~CommitInsert /\ ~CommitDeactivate
    BY <1>1, <1>3 DEF CommitExecute, CommitInsert, CommitDeactivate, Unstructured
  <2> QED  BY <2>1, <2>2 DEF ARound
<1>6. CASE CommitActivate
  <2>1. m.activated # NoFrame /\ r = ActivateCommit([m EXCEPT !.activated = NoFrame], m.activated)
    BY <1>1, <1>6 DEF CommitActivate
  <2>2. m.activated \in AllFrames  BY <1>2, <2>1, Fields DEF Slot
  <2>3. r.current = m.activated  BY <1>2, <2>1, <2>2, FocusedOn
  <2>4. Settled(r)  BY <1>2, <1>3, <2>1, RoundActivate
  <2> QED  BY <1>1, <1>2, <1>3, <1>4, <2>1, <2>3, <2>4, SettledIs
<1>7. CASE CommitRefresh
  <2>1. m.activated = NoFrame /\ r = [m EXCEPT !.refreshed = NoFrame]
    BY <1>1, <1>7 DEF CommitRefresh
  <2>2. r.current = m.current /\ r.activated = NoFrame /\ r.deactivated = NoFrame
    BY <1>2, <1>3, <2>1 DEF Managers
  <2> QED  BY <1>1, <1>2, <1>3, <1>4, <2>1, <2>2
<1> QED  BY <1>5, <1>6, <1>7

\* That Commit leaves the list as ExitAll has found it.
LEMMA ScreensRound ==
  ASSUME NEW m \in Managers, NEW r \in Managers, Effect(m, r), Unstructured(r), NEW x, NEW mo,
         AtScreens(m, x, mo), AtChosen(m, x), x.at \notin {"screens", "escape"}
  PROVE  AtScreens(r, x, mo \cap r.live)
<1> SUFFICES ASSUME x.at = "chosen"
             PROVE  Bare(r) /\ x.i <= Len(r.list) /\ mo \cap r.live \subseteq ListedTo(r, x.i)
  BY DEF AtScreens
<1>1. Unstructured(m)  BY DEF AtChosen
<1>2. r.list = m.list  BY <1>1, ListRound DEF Unstructured
<1>3. Bare(m) /\ x.i <= Len(m.list) /\ mo \subseteq ListedTo(m, x.i)  BY DEF AtScreens
<1>4. Bare(r)  BY <1>3, BareRound
<1> QED  BY <1>2, <1>3, <1>4 DEF ListedTo

\* A round of Commit keeps the invariant, in ExitAll and elsewhere.
LEMMA ExitRound ==
  ASSUME ExitInv, RoundOfCommit PROVE ExitInv'
<1>1. ARound /\ modified' = modified \cap mgr'.live /\ closeFar' = closeFar /\ down' = down /\ exit' = exit
  BY DEF RoundOfCommit, ARound, Remaining
<1>2. Committing
  BY <1>1 DEF ARound, CommitUpdate, CommitExecute, CommitDelete, CommitInsert, CommitDeactivate,
              CommitActivate, CommitRefresh
<1>3. mode # "exit"  BY <1>2 DEF Committing
<1>4. exit.at \notin {"all", "closed"}  BY <1>3 DEF ExitInv
<1>5. /\ SlotsSound(mgr, mode) /\ Owned(mgr, loops) /\ Changed(mgr, modified)
      /\ AtPlace(mgr, mode, exit) /\ Inside(mgr, exit, modified)
      /\ down => modified = {} /\ Bare(mgr) /\ exit.at = "no" /\ mode # "key"
      /\ LoopsTyped(loops) /\ mode \in Modes \cup {"exit"}
      /\ exit.at \in Places /\ exit.i \in Nat /\ exit.count \in Nat
      /\ closeFar \in BOOLEAN /\ down \in BOOLEAN
  BY <1>4, Working
<1>6. PICK m, r, mo, ls : m = mgr /\ r = mgr' /\ mo = modified /\ ls = loops  OBVIOUS
<1>7. /\ m \in Managers /\ r \in Managers /\ Sound(m)
      /\ Focusing(r) /\ Unstructured(r) /\ Effect(m, r)
      /\ SameLoops(ls, loops') /\ LoopsTyped(loops') /\ mode' = "commit"
  BY <1>1, <1>5, <1>6, Round
<1>8. ls \in Seq(Loops) /\ Owned(m, ls)  BY <1>5, <1>6, LoopsTop
<1>9. Owned(r, ls)  BY <1>7, <1>8, OwnedRound
<1>10. Owned(r, loops')  BY <1>7, <1>8, <1>9, SameOwners DEF Owned
<1>11. exit.at \notin {"modals", "screens", "escape"}  BY <1>3, <1>5 DEF AtPlace
<1>12. Changed(r, mo \cap r.live)  BY <1>5, <1>6, <1>7, ChangedRound
<1>13. Inside(r, exit, mo \cap r.live)
  <2>1. /\ AtModalClosing(m, exit) /\ AtScreens(m, exit, mo) /\ AtChosen(m, exit)
        /\ AtScreenClosing(m, exit, mo)
    BY <1>5, <1>6 DEF Inside
  <2>2. AtModals(r, exit) /\ AtEscape(r, exit)  BY <1>11 DEF AtModals, AtEscape
  <2>3. AtModalClosing(r, exit)  BY <1>5, <1>7, <2>1, ModalClosingRound
  <2>4. AtScreenClosing(r, exit, mo \cap r.live)  BY <1>5, <1>7, <2>1, ScreenClosingRound
  <2>5. AtScreens(r, exit, mo \cap r.live)  BY <1>7, <1>11, <2>1, ScreensRound
  <2>6. AtChosen(r, exit)  BY <1>1, <1>5, <1>6, <2>1, ChosenRound
  <2> QED  BY <2>2, <2>3, <2>4, <2>5, <2>6 DEF Inside
<1>14. AtPlace(r, "commit", exit)  BY <1>11 DEF AtPlace
<1>15. SlotsSound(r, "commit")  BY <1>7, FocusingSlots
<1>16. down => mo \cap r.live = {} /\ Bare(r) /\ exit.at = "no"
  <2> HAVE down
  <2>1. mo = {} /\ Bare(m) /\ exit.at = "no"  BY <1>5, <1>6
  <2>2. Bare(r)  BY <1>7, <2>1, BareRound
  <2> QED  BY <2>1, <2>2
<1>17. exit' \in [at : Places, i : Nat, count : Nat]  BY <1>1 DEF ExitInv
<1>18. /\ mgr' = r /\ modified' = mo \cap r.live /\ mode' = "commit" /\ exit' = exit /\ down' = down
       /\ closeFar' \in BOOLEAN /\ down' \in BOOLEAN /\ mode' \in Modes \cup {"exit"}
  BY <1>1, <1>5, <1>6, <1>7 DEF Modes
<1> QED
  BY <1>4, <1>7, <1>10, <1>12, <1>13, <1>14, <1>15, <1>16, <1>17, <1>18, StillBefore

-----------------------------------------------------------------------------
(* Outside of ExitAll                                                      *)

\* The frames with changes exist.
LEMMA ChangedLive ==
  ASSUME NEW m, Settled(m), NEW mo, Changed(m, mo) PROVE mo \subseteq m.live
  BY SettledIs DEF Changed

\* Commit returns, but not to ExitAll.
LEMMA ExitDone ==
  ASSUME ExitInv, CommitReturns PROVE ExitInv'
<1>1. /\ exit.at = "no" /\ CommitDone /\ modified' = modified /\ closeFar' = closeFar
      /\ down' = down /\ exit' = exit /\ Committing /\ NothingPending
  BY DEF CommitReturns, CommitDone
<1>2. exit.at \notin {"all", "closed"}  BY <1>1
<1>3. /\ SlotsSound(mgr, mode) /\ Owned(mgr, loops) /\ Changed(mgr, modified)
      /\ down => modified = {} /\ Bare(mgr)
      /\ LoopsTyped(loops) /\ closeFar \in BOOLEAN
  BY <1>2, Working
<1>4. Settled(mgr)  BY <1>1, <1>3, NothingLeft
<1>5. SameLoops(loops, loops') /\ LoopsTyped(loops') /\ mode' \in {"commit", "test"} /\ mgr' = mgr
  BY <1>1, <1>3, DoneLoops
<1>6. PICK m, ls, ks, md : m = mgr /\ ls = loops /\ ks = loops' /\ md = mode'  OBVIOUS
<1>7. Owned(m, ks)  BY <1>3, <1>5, <1>6, LoopsTop, SameOwners DEF Owned
<1>8. SlotsSound(m, md)  BY <1>4, <1>5, <1>6, SettledSlots
<1>9. md \in Modes /\ md # "key"  BY <1>5, <1>6 DEF Modes
<1> QED  BY <1>1, <1>3, <1>5, <1>6, <1>7, <1>8, <1>9, StillOutside

\* A loop ends, and what it was run for goes on.
LEMMA ExitLeaveLoop ==
  ASSUME ExitInv, exit.at = "no", exit' = exit, closeFar' = closeFar, down' = down, modified' = Remaining,
         Settled(mgr), LeaveLoop, Top.loop # "main", Top.loop = "modal" => Len(mgr.stack) <= Top.base
  PROVE  ExitInv'
<1>1. /\ mode = "test" /\ mode' = "handle" /\ loops' = Front(loops)
      /\ mgr' = IF Top.owner = NoFrame THEN mgr ELSE Destroy(mgr, Top.owner)
      /\ modified' = modified \cap mgr'.live
  BY DEF LeaveLoop, Remaining
<1>2. /\ Owned(mgr, loops) /\ Changed(mgr, modified)
      /\ down => modified = {} /\ Bare(mgr)
      /\ LoopsTyped(loops) /\ closeFar \in BOOLEAN
  BY Working
<1>3. PICK m, r, ls, ks, t, mo : m = mgr /\ r = mgr' /\ ls = loops /\ ks = loops' /\ t = Last(ls) /\ mo = modified
  OBVIOUS
<1>4. /\ ls \in Seq(Loops) /\ Len(ls) \in Nat /\ Len(ls) \in 1 .. Len(ls) /\ t = ls[Len(ls)] /\ t \in Loops
      /\ Len(ls) \in 1 .. MaxLoops /\ Top = t
  BY <1>2, <1>3, LoopsTop DEF LoopsTyped, Top
<1>5. Owned(m, ls) /\ Settled(m) /\ t.loop # "main" /\ (t.loop = "modal" => Len(m.stack) <= t.base)
  BY <1>2, <1>3, <1>4
<1>6. Len(ls) > 1
  <2>1. PICK n \in Nat : n = Len(ls)  BY <1>4
  <2>2. n \in 1 .. n /\ t = ls[n] /\ MainFirst(ls)  BY <1>4, <1>5, <2>1 DEF Owned
  <2>3. n # 1  BY <1>5, <2>1, <2>2 DEF MainFirst
  <2> QED  BY <2>1, <2>2, <2>3
<1>7. t.owner # NoFrame => Len(m.stack) <= t.base
  BY <1>4, <1>5 DEF Owned, OwnersHeld
<1>8. ks = Front(ls) /\ r = IF t.owner = NoFrame THEN m ELSE Destroy(m, t.owner)
  BY <1>1, <1>3, <1>4
<1>9. /\ Settled(r) /\ Owned(r, ks) /\ r.list = m.list /\ r.stack = m.stack
      /\ r.live = m.live \ {t.owner} /\ \A f \in r.live : r.kind[f] = m.kind[f]
  <2>1. ls \in Seq(Loops) /\ Owned(m, ls) /\ Settled(m) /\ t = Last(ls)  BY <1>3, <1>4, <1>5
  <2> QED  BY ONLY <1>6, <1>7, <1>8, <2>1, OwnedLeft
<1>10. LoopsTyped(ks)
  <2>1. ks \in Seq(Loops) /\ Len(ks) = Len(ls) - 1  BY <1>4, <1>6, <1>8, FewerLoops
  <2>2. PICK n \in Nat : n = Len(ls)  BY <1>4
  <2>3. PICK p \in Nat : p = MaxLoops  BY LoopsAssumption
  <2>4. n - 1 \in 1 .. p  BY <1>4, <1>6, <2>2, <2>3
  <2> QED  BY <2>1, <2>2, <2>3, <2>4 DEF LoopsTyped
<1>11. Changed(r, mo \cap r.live)  BY <1>2, <1>3, <1>9 DEF Changed
<1>12. down => mo \cap r.live = {} /\ Bare(r)
  <2>1. r.executed = NoFrame  BY <1>9, SettledIs
  <2> QED  BY <1>2, <1>3, <1>9, <2>1 DEF Bare
<1>13. SlotsSound(r, "handle") /\ "handle" \in Modes  BY <1>9, SettledSlots DEF Modes
<1>14. mgr' = r /\ loops' = ks /\ mode' = "handle" /\ modified' = mo \cap r.live  BY <1>1, <1>3
<1>15. exit' = exit /\ exit.at = "no" /\ closeFar' \in BOOLEAN /\ down' = down  BY <1>2
<1> QED  BY <1>9, <1>10, <1>11, <1>12, <1>13, <1>14, <1>15, StillOutside

\* The tests of the loops, which EndLoop ends as well.
LEMMA ExitLoops ==
  ASSUME ExitInv, LoopStepOf PROVE ExitInv'
<1>1. /\ (~SeesEndLoop(Top) /\ LoopGoesOn) \/ LoopReturns
         \/ (Top.loop # "main" /\ SeesEndLoop(Top) /\ LeaveLoop)
      /\ modified' = Remaining /\ closeFar' = closeFar /\ down' = down /\ exit' = exit
  BY DEF LoopStepOf
<1>2. mode = "test"  BY <1>1 DEF LoopGoesOn, LoopReturns, LeaveLoop
<1>3. exit.at = "no"  BY <1>2, Elsewhere
<1>4. /\ SlotsSound(mgr, mode) /\ Owned(mgr, loops) /\ Changed(mgr, modified)
      /\ down => modified = {} /\ Bare(mgr)
      /\ LoopsTyped(loops) /\ closeFar \in BOOLEAN
  BY <1>3, Working
<1>5. Settled(mgr)  BY <1>2, <1>4 DEF SlotsSound
<1>6. CASE ~SeesEndLoop(Top) /\ LoopGoesOn
  <2>1. mgr' = mgr /\ loops' = loops /\ mode' = "key" /\ ~LoopEnds(Top)  BY <1>6 DEF LoopGoesOn
  <2>2. modified' = modified  BY <1>1, <1>4, <1>5, <2>1, ChangedLive DEF Remaining
  <2>3. down => FALSE
    <3> HAVE down
    <3>1. Top.loop \notin {"main", "nonmodal"}  BY <1>6 DEF SeesEndLoop
    <3>2. PICK t : t = Top  OBVIOUS
    <3>3. t \in Loops /\ t.base \in Nat /\ t.loop \in {"main", "modal", "nonmodal"}
      BY <1>4, <3>2, LoopsTop DEF Top, Loops
    <3>4. t.loop = "modal"  BY <3>1, <3>2, <3>3
    <3>5. Len(mgr.stack) <= t.base
      <4>1. Len(mgr.stack) = 0  BY <1>4 DEF Bare
      <4> QED  BY <3>3, <4>1
    <3> QED  BY <2>1, <3>2, <3>4, <3>5 DEF LoopEnds
  <2>4. SlotsSound(mgr, "key") /\ "key" \in Modes  BY <1>5, SettledSlots DEF Modes
  <2> QED  BY <1>1, <1>3, <1>4, <2>1, <2>2, <2>3, <2>4, StillOutside
<1>7. CASE LoopReturns
  <2>1. LoopEnds(Top) /\ LeaveLoop  BY <1>7 DEF LoopReturns
  <2>2. Top.loop \in {"modal", "nonmodal"} /\ (Top.loop = "modal" => Len(mgr.stack) <= Top.base)
    BY <2>1 DEF LoopEnds
  <2> QED  BY <1>1, <1>3, <1>5, <2>1, <2>2, ExitLeaveLoop
<1>8. CASE Top.loop # "main" /\ SeesEndLoop(Top) /\ LeaveLoop
  <2>1. Top.loop = "nonmodal"  BY <1>8 DEF SeesEndLoop
  <2> QED  BY <1>1, <1>3, <1>5, <1>8, <2>1, ExitLeaveLoop
<1> QED  BY <1>1, <1>6, <1>7, <1>8

\* ProcessMainLoop reads a key, or drops it after EndLoop.
LEMMA ExitKey ==
  ASSUME ExitInv, Key PROVE ExitInv'
<1>1. /\ mode = "key" /\ modified' = modified /\ closeFar' = closeFar /\ down' = down /\ exit' = exit
      /\ (~down /\ Handle) \/ (down /\ mode' = "commit" /\ mgr' = mgr /\ loops' = loops)
  BY DEF Key
<1>2. exit.at = "no"  BY <1>1, Elsewhere
<1>3. /\ SlotsSound(mgr, mode) /\ Owned(mgr, loops) /\ Changed(mgr, modified)
      /\ down => mode # "key"
      /\ LoopsTyped(loops) /\ closeFar \in BOOLEAN /\ down \in BOOLEAN
  BY <1>2, Working
<1>4. Settled(mgr) /\ Handle /\ down = FALSE  BY <1>1, <1>3 DEF SlotsSound
<1>5. SameLoops(loops, loops') /\ LoopsTyped(loops') /\ mode' = "handle" /\ mgr' = mgr
  BY <1>3, <1>4, HandleLoops, SettledIs DEF Slot
<1>6. PICK m, ls, ks : m = mgr /\ ls = loops /\ ks = loops'  OBVIOUS
<1>7. Owned(m, ks)  BY <1>3, <1>5, <1>6, LoopsTop, SameOwners DEF Owned
<1>8. SlotsSound(m, "handle") /\ "handle" \in Modes  BY <1>4, <1>6, SettledSlots DEF Modes
<1> QED  BY <1>1, <1>2, <1>3, <1>4, <1>5, <1>6, <1>7, <1>8, StillOutside

\* The code that a loop calls destroys no editor: its changes wait for Commit.
LEMMA ChangedHandled ==
  ASSUME NEW m, Settled(m), NEW r, Handled(m, r), NEW mo, Changed(m, mo)
  PROVE  Changed(r, mo) /\ mo \subseteq r.live
<1>1. mo \subseteq m.live  BY ChangedLive
<1>2. /\ r.stack = m.stack /\ ToSet(m.list) \subseteq ToSet(r.list)
      /\ m.live \subseteq r.live /\ \A f \in m.live : r.kind[f] = m.kind[f]
  BY DEF Handled
<1> QED  BY <1>1, <1>2 DEF Changed

\* A handler's step leaves the loops typed, the owners told and the slots sound.
LEMMA AfterHandler ==
  ASSUME LoopsTyped(loops), Settled(mgr), Owned(mgr, loops), StaysHere \/ ClosesOne \/ GoesDeeper
  PROVE  /\ Handled(mgr, mgr') /\ SlotsSound(mgr', mode') /\ Owned(mgr', loops') /\ LoopsTyped(loops')
         /\ mode' \in {"commit", "commit1"}
<1>1. PICK m, r, ls, ks : m = mgr /\ r = mgr' /\ ls = loops /\ ks = loops'  OBVIOUS
<1>2. Settled(m) /\ Owned(m, ls) /\ ls \in Seq(Loops) /\ Len(ls) > 0 /\ Len(ls) \in Nat
      /\ Len(ls) \in 1 .. MaxLoops
  BY <1>1, LoopsTop DEF LoopsTyped
<1>3. CASE StaysHere
  <2>1. Handled(m, r) /\ Stays(m, r) /\ SameLoops(ls, ks) /\ LoopsTyped(ks) /\ mode' = "commit"
    BY <1>1, <1>3 DEF StaysHere
  <2>2. Owned(r, ls)  BY <1>2, <2>1, OwnedStays
  <2>3. Owned(r, ks)  BY <1>2, <2>1, <2>2, SameOwners DEF Owned
  <2>4. SlotsSound(r, "commit")  BY <2>1, HandledSlots
  <2> QED  BY <1>1, <2>1, <2>3, <2>4
<1>4. CASE ClosesOne
  <2>1. /\ Handled(m, r) /\ Stays(m, r) /\ ks = ls /\ mode' = "commit1"
        /\ Requesting(r) /\ r.deleted # NoFrame /\ r.inserted = NoFrame /\ r.executed = NoFrame
        /\ r.kind[r.deleted] = "auto"
    BY <1>1, <1>4 DEF ClosesOne
  <2>2. Owned(r, ls)  BY <1>2, <2>1, OwnedStays
  <2>3. SlotsSound(r, "commit1")  BY <2>1 DEF SlotsSound, Sound, OnlyDeletes
  <2> QED  BY <1>1, <2>1, <2>2, <2>3
<1>5. CASE GoesDeeper
  <2>1. Handled(m, r) /\ mode' = "commit" /\ Len(ls) < MaxLoops  BY <1>1, <1>5 DEF GoesDeeper
  <2>2. PICK l : Enters(m, r, l) /\ ks = Append(ls, l)  BY <1>1, <1>5 DEF GoesDeeper
  <2>3. l \in Loops  BY <2>2 DEF Enters
  <2>4. Owned(r, ks)  BY ONLY <1>2, <2>1, <2>2, OwnedDeeper
  <2>5. LoopsTyped(ks)
    <3>1. ks \in Seq(Loops) /\ Len(ks) = Len(ls) + 1  BY ONLY <1>2, <2>2, <2>3, LongerLoops
    <3>2. PICK n \in Nat : n = Len(ls)  BY <1>2
    <3>3. PICK p \in Nat : p = MaxLoops  BY LoopsAssumption
    <3>4. n + 1 \in 1 .. p  BY <1>2, <2>1, <3>2, <3>3
    <3> QED  BY <3>1, <3>2, <3>3, <3>4 DEF LoopsTyped
  <2>6. SlotsSound(r, "commit")  BY <2>1, HandledSlots
  <2> QED  BY <1>1, <2>1, <2>4, <2>5, <2>6
<1> QED  BY <1>3, <1>4, <1>5

\* The code that a loop calls; after EndLoop it only returns.
LEMMA ExitAct ==
  ASSUME ExitInv, Features \cap {"switch", "dmclose"} = {}, Act, ~OpensOverModal PROVE ExitInv'
<1>1. /\ HandlerReturns \/ (~down /\ HandlerStep)
      /\ modified' = modified \cap mgr'.live /\ closeFar' = closeFar /\ down' = down /\ exit' = exit
  BY DEF Act, Remaining
<1>2. HandlerStep  BY <1>1 DEF HandlerStep
<1>3. mode = "handle"
  BY <1>2 DEF HandlerStep, HandlerReturns, OpenModal, OpenScreen, RunScreen, SwitchToOpened,
     RunOpened, Reload, ReloadWithMessage, Close, CloseDialog, SwitchEditorViewer, CtrlTab,
     ScreensMenu, SwitchToPanels, Repaint, SetCurrentWindow, QuitEditor, MayOpen, Running
<1>4. exit.at = "no"  BY <1>3, Elsewhere
<1>5. /\ SlotsSound(mgr, mode) /\ Owned(mgr, loops) /\ Changed(mgr, modified)
      /\ down => modified = {} /\ Bare(mgr)
      /\ LoopsTyped(loops) /\ closeFar \in BOOLEAN
  BY <1>4, Working
<1>6. Settled(mgr)  BY <1>3, <1>5 DEF SlotsSound
<1>7. StaysHere \/ ClosesOne \/ GoesDeeper  BY <1>2, <1>5, <1>6, Handling
<1>8. /\ Handled(mgr, mgr') /\ SlotsSound(mgr', mode') /\ Owned(mgr', loops') /\ LoopsTyped(loops')
      /\ mode' \in {"commit", "commit1"}
  BY <1>5, <1>6, <1>7, AfterHandler
<1>9. PICK m, r, mo : m = mgr /\ r = mgr' /\ mo = modified  OBVIOUS
<1>10. Changed(r, mo) /\ mo \subseteq r.live
  <2>1. Settled(m) /\ Handled(m, r) /\ Changed(m, mo)  BY <1>5, <1>6, <1>8, <1>9
  <2> QED  BY <2>1, ChangedHandled
<1>11. modified' = mo  BY <1>1, <1>9, <1>10
<1>12. down => mo = {} /\ Bare(r)
  <2> HAVE down
  <2>1. HandlerReturns  BY <1>1
  <2>2. r = m  BY <1>9, <2>1 DEF HandlerReturns, Request
  <2> QED  BY <1>5, <1>9, <2>2
<1>13. mode' \in Modes /\ mode' # "key"  BY <1>8 DEF Modes
<1> QED  BY <1>1, <1>4, <1>5, <1>8, <1>9, <1>10, <1>11, <1>12, <1>13, StillOutside

\* Text is typed into the current editor.
LEMMA ExitEdit ==
  ASSUME ExitInv, Edit PROVE ExitInv'
<1>1. /\ mode = "handle" /\ down # TRUE /\ mgr.kind[mgr.current] \in {"screen", "heap"}
      /\ modified' = modified \cup {mgr.current} /\ Request(mgr, FALSE)
      /\ closeFar' = closeFar /\ down' = down /\ exit' = exit
  BY DEF Edit, Running
<1>2. exit.at = "no"  BY <1>1, Elsewhere
<1>3. /\ SlotsSound(mgr, mode) /\ Owned(mgr, loops) /\ Changed(mgr, modified)
      /\ LoopsTyped(loops) /\ closeFar \in BOOLEAN /\ down \in BOOLEAN
  BY <1>2, Working
<1>4. Settled(mgr) /\ down = FALSE  BY <1>1, <1>3 DEF SlotsSound
<1>5. mgr' = mgr /\ mode' = "commit" /\ SameLoops(loops, loops') /\ LoopsTyped(loops')
  BY <1>1, <1>3, RequestIs
<1>6. PICK m, ls, ks, mo : m = mgr /\ ls = loops /\ ks = loops' /\ mo = modified  OBVIOUS
<1>7. Owned(m, ks)  BY <1>3, <1>5, <1>6, LoopsTop, SameOwners DEF Owned
<1>8. SlotsSound(m, "commit") /\ "commit" \in Modes  BY <1>4, <1>6, SettledSlots DEF Modes
<1>9. Changed(m, mo \cup {m.current})
  <2>1. m.current \in ToSet(m.list) \cup ToSet(m.stack)  BY <1>4, <1>6, SettledIs
  <2> QED  BY <1>1, <1>3, <1>6, <2>1 DEF Changed
<1> QED  BY <1>1, <1>2, <1>3, <1>4, <1>5, <1>6, <1>7, <1>8, <1>9, StillOutside

\* The window is closed.
LEMMA ExitCloseWindow ==
  ASSUME ExitInv, CloseWindow PROVE ExitInv'
  BY DEF ExitInv, CloseWindow

-----------------------------------------------------------------------------
(* In ExitAll                                                              *)

\* The record of where ExitAll is.
LEMMA AtIs ==
  ASSUME NEW p \in Places, NEW i \in Nat, NEW n \in Nat, At(p, i, n)
  PROVE  /\ exit' \in [at : Places, i : Nat, count : Nat]
         /\ exit'.at = p /\ exit'.i = i /\ exit'.count = n
  BY DEF At

\* The record of its being nowhere.
LEMMA NowhereIs ==
  /\ Nowhere \in [at : Places, i : Nat, count : Nat] /\ Nowhere.at = "no"
  BY DEF Nowhere, Places

\* Where ExitAll is, the manager is settled.
LEMMA WhileExiting ==
  ASSUME ExitInv, mode = "exit", exit.at \notin {"all", "closed"}
  PROVE  /\ Settled(mgr) /\ Owned(mgr, loops) /\ Changed(mgr, modified)
         /\ Inside(mgr, exit, modified) /\ LoopsTyped(loops) /\ down = FALSE /\ closeFar \in BOOLEAN
         /\ exit.i \in Nat /\ exit.count \in Nat
<1>1. /\ Owned(mgr, loops) /\ Changed(mgr, modified)
      /\ AtPlace(mgr, mode, exit) /\ Inside(mgr, exit, modified)
      /\ down => exit.at = "no"
      /\ LoopsTyped(loops) /\ exit.i \in Nat /\ exit.count \in Nat
      /\ closeFar \in BOOLEAN /\ down \in BOOLEAN
  BY Working
<1>2. Settled(mgr) /\ exit.at \in {"modals", "screens", "escape"}  BY <1>1 DEF AtPlace
<1>3. down = FALSE  BY <1>1, <1>2
<1> QED  BY <1>1, <1>2, <1>3

\* ... and stays so while it looks at the next frame.
LEMMA StillExiting ==
  ASSUME Settled(mgr), Owned(mgr, loops), Changed(mgr, modified), LoopsTyped(loops), closeFar' \in BOOLEAN,
         down' = FALSE, mgr' = mgr, loops' = loops, modified' = modified, mode' = "exit",
         exit' \in [at : Places, i : Nat, count : Nat], exit'.at \in {"modals", "screens", "escape"},
         AtModals(mgr, exit'), AtScreens(mgr, exit', modified), AtEscape(mgr, exit')
  PROVE  ExitInv'
<1>1. SlotsSound(mgr, "exit")  BY SettledSlots
<1>2. AtPlace(mgr, "exit", exit')  BY DEF AtPlace
<1>3. Inside(mgr, exit', modified)
  BY DEF Inside, AtModalClosing, AtChosen, AtScreenClosing
<1> QED  BY <1>1, <1>2, <1>3, StillBefore

\* ExitMainLoop: from the top of the stack.
LEMMA ExitStarts ==
  ASSUME ExitInv, ExitMainLoop PROVE ExitInv'
<1>1. /\ mode = "key" /\ exit.at = "no" /\ closeFar' = FALSE /\ mode' = "exit"
      /\ At("modals", Len(mgr.stack), 0)
      /\ mgr' = mgr /\ loops' = loops /\ modified' = modified /\ down' = down
  BY DEF ExitMainLoop
<1>2. /\ SlotsSound(mgr, mode) /\ Owned(mgr, loops) /\ Changed(mgr, modified)
      /\ down => mode # "key"
      /\ LoopsTyped(loops) /\ down \in BOOLEAN
  BY <1>1, Working
<1>3. Settled(mgr) /\ down = FALSE  BY <1>1, <1>2 DEF SlotsSound
<1>4. Len(mgr.stack) \in Nat  BY <1>3, SettledIs, NobodyThere
<1>5. /\ exit' \in [at : Places, i : Nat, count : Nat]
      /\ exit'.at = "modals" /\ exit'.i = Len(mgr.stack)
  BY <1>1, <1>4, AtIs DEF Places
<1>6. AtModals(mgr, exit') /\ AtScreens(mgr, exit', modified) /\ AtEscape(mgr, exit')
  BY <1>5 DEF AtModals, AtScreens, AtEscape
<1> QED  BY <1>1, <1>2, <1>3, <1>5, <1>6, StillExiting

\* Escape in the current frame, which is not the panels.
LEMMA Escaping ==
  ASSUME Settled(mgr), Owned(mgr, loops), Changed(mgr, modified), LoopsTyped(loops), closeFar \in BOOLEAN,
         down = FALSE, mgr.current # Panels, NEW place, Escape(mgr.current, place),
         exit' \in [at : Places, i : Nat, count : Nat], exit'.at \in {"modalClosing", "screenClosing"},
         AtModalClosing(mgr', exit'), AtScreenClosing(mgr', exit', modified')
  PROVE  ExitInv'
<1>1. /\ \/ mgr' = DeleteFrame(mgr, mgr.current) /\ modified' = modified \ {mgr.current}
         \/ mgr' = mgr /\ modified' = modified
      /\ mode' = "commit" /\ loops' = loops /\ closeFar' = closeFar /\ down' = FALSE
  BY DEF Escape
<1>2. PICK m, r, mo, ls : m = mgr /\ r = mgr' /\ mo = modified /\ ls = loops  OBVIOUS
<1>3. SlotsSound(r, "commit") /\ Owned(r, ls) /\ Changed(r, modified')
  <2>1. CASE r = DeleteFrame(m, m.current) /\ modified' = mo \ {m.current}
    <3>1. Alike(m, r) /\ Requesting(r) /\ r.executed = NoFrame  BY <1>2, <2>1, ClosingCurrent
    <3>2. Handled(m, r) /\ Stays(m, r)  BY <1>2, <3>1, HandledAlike, SettledIs
    <3>3. SlotsSound(r, "commit")  BY <3>2, HandledSlots
    <3>4. Owned(r, ls)
      <4>1. Settled(m) /\ ls \in Seq(Loops) /\ Owned(m, ls)  BY <1>2 DEF LoopsTyped
      <4> QED  BY <3>2, <4>1, OwnedStays
    <3>5. Changed(r, mo)
      <4>1. Settled(m) /\ Changed(m, mo)  BY <1>2
      <4> QED  BY <3>2, <4>1, ChangedHandled
    <3>6. Changed(r, mo \ {m.current})  BY <3>5 DEF Changed
    <3> QED  BY <2>1, <3>3, <3>4, <3>6
  <2>2. CASE r = m /\ modified' = mo  BY <1>2, <2>2, SettledSlots
  <2> QED  BY <1>1, <1>2, <2>1, <2>2
<1>4. AtPlace(r, "commit", exit')  BY DEF AtPlace
<1>5. Inside(r, exit', modified')
  BY <1>2 DEF Inside, AtModals, AtScreens, AtChosen, AtEscape
<1>6. "commit" \in Modes \cup {"exit"} /\ exit'.at \notin {"all", "closed"} /\ ~down'
  BY <1>1 DEF Modes
<1> QED  BY <1>1, <1>2, <1>3, <1>4, <1>5, <1>6, StillBefore

\* ExitAll closes a modal frame, or there is none left.
LEMMA ExitAtModals ==
  ASSUME ExitInv, ExitModals PROVE ExitInv'
<1>1. mode = "exit" /\ exit.at = "modals"  BY DEF ExitModals
<1>2. /\ Settled(mgr) /\ Owned(mgr, loops) /\ Changed(mgr, modified)
      /\ Inside(mgr, exit, modified) /\ LoopsTyped(loops) /\ down = FALSE /\ closeFar \in BOOLEAN
      /\ exit.i \in Nat
  BY <1>1, WhileExiting
<1>3. exit.i = Len(mgr.stack)  BY <1>1, <1>2 DEF Inside, AtModals
<1>4. PICK m, i, mo : m = mgr /\ i = exit.i /\ mo = modified  OBVIOUS
<1>5. i \in Nat /\ i = Len(m.stack) /\ m \in Managers /\ Settled(m) /\ Changed(m, mo)
      /\ m.stack \in Seq(AllFrames) /\ m.list \in Seq(AllFrames)
  BY <1>2, <1>3, <1>4, SettledIs
<1>6. CASE i > 0
  <2>1. Escape(m.stack[i], "modalClosing") /\ At("modalClosing", i, Len(m.stack))
    BY <1>4, <1>6 DEF ExitModals
  <2>2. m.stack # <<>>  BY <1>5, <1>6
  <2>3. m.current = m.stack[i]  BY <1>5, <2>2, SettledIs DEF Uppermost, Last
  <2>4. m.current # Panels
    <3>1. ~CanLoseFocus(m, m.current)  BY <1>5, <2>2, SettledIs
    <3>2. m.kind[Panels] = "panels"
      BY <1>5, SettledIs, Nobody DEF Grounded, Linked, PanelsTold
    <3> QED  BY <3>1, <3>2 DEF CanLoseFocus
  <2>5. /\ exit' \in [at : Places, i : Nat, count : Nat]
        /\ exit'.at = "modalClosing" /\ exit'.i = i /\ exit'.count = i
    BY <1>5, <2>1, AtIs DEF Places
  <2>6. mgr' = DeleteFrame(m, m.current) \/ mgr' = m  BY <1>4, <2>1, <2>3 DEF Escape
  <2>7. PICK r, x : r = mgr' /\ x = exit'  OBVIOUS
  <2>8. r.inserted = NoFrame /\ r.executed = NoFrame /\ r.stack = m.stack
    <3>1. CASE r = DeleteFrame(m, m.current)
      BY <1>5, <2>4, <3>1, ClosingCurrent DEF Alike
    <3>2. CASE r = m  BY <1>5, <3>2, SettledIs
    <3> QED  BY <2>6, <2>7, <3>1, <3>2
  <2>9. AtModalClosing(r, x)  BY <1>5, <2>2, <2>5, <2>7, <2>8 DEF AtModalClosing
  <2>10. AtScreenClosing(r, x, modified')  BY <2>5, <2>7 DEF AtScreenClosing
  <2>11. Escape(mgr.current, "modalClosing")  BY <1>4, <2>1, <2>3
  <2> QED  BY <1>2, <1>4, <2>4, <2>5, <2>7, <2>9, <2>10, <2>11, Escaping
<1>7. CASE i = 0
  <2>1. /\ At("screens", Len(mgr.list), 0)
        /\ mgr' = mgr /\ loops' = loops /\ mode' = mode /\ modified' = modified
        /\ closeFar' = closeFar /\ down' = down
    BY <1>4, <1>7 DEF ExitModals
  <2>2. Len(m.list) \in Nat /\ DOMAIN m.list = 1 .. Len(m.list)  BY <1>5, LenProperties
  <2>3. /\ exit' \in [at : Places, i : Nat, count : Nat]
        /\ exit'.at = "screens" /\ exit'.i = Len(m.list)
    BY <1>4, <2>1, <2>2, AtIs DEF Places
  <2>4. m.stack = <<>>  BY <1>5, <1>7, EmptySeq
  <2>5. Bare(m)  BY <1>5, <2>4, SettledIs DEF Bare
  <2>6. mo \subseteq ListedTo(m, Len(m.list))
    <3>1. ToSet(m.stack) = {}  BY <2>4 DEF ToSet
    <3>2. mo \subseteq ToSet(m.list)  BY <1>5, <3>1 DEF Changed
    <3> QED  BY <2>2, <3>2 DEF ListedTo, ToSet
  <2>7. Len(m.list) <= Len(m.list)  BY <2>2
  <2>8. AtScreens(m, exit', mo)  BY <2>3, <2>5, <2>6, <2>7 DEF AtScreens
  <2>9. AtModals(m, exit') /\ AtEscape(m, exit')  BY <2>3 DEF AtModals, AtEscape
  <2> QED  BY <1>1, <1>2, <1>4, <2>1, <2>3, <2>8, <2>9, StillExiting
<1> QED  BY <1>5, <1>6, <1>7

\* ListedTo, one less.
LEMMA ListedLess ==
  ASSUME NEW m, NEW i \in Nat, i > 0
  PROVE  ListedTo(m, i) = ListedTo(m, i - 1) \cup {m.list[i]}
<1>1. \A j : j \in 1 .. i <=> j \in 1 .. (i - 1) \/ j = i  OBVIOUS
<1> QED  BY <1>1 DEF ListedTo

\* The panels are the first frame, and not an editor.
LEMMA PanelsUnchanged ==
  ASSUME NEW m, Settled(m), NEW i \in 1 .. Len(m.list)
  PROVE  /\ i # 1 => m.list[i] # Panels
         /\ m.kind[m.list[i]] \in {"screen", "heap"} => i > 1
         /\ m.list[i] \in ToSet(m.list)
<1>1. /\ m.list \in Seq(AllFrames) /\ IsInjective(m.list) /\ m.list[1] = Panels
      /\ m.kind[Panels] = "panels"
  BY SettledIs, Nobody DEF Grounded, Linked, Distinct, PanelsTold
<1>2. DOMAIN m.list = 1 .. Len(m.list) /\ Len(m.list) \in Nat  BY <1>1, LenProperties
<1>3. 1 \in 1 .. Len(m.list)  BY <1>2
<1>4. i # 1 => m.list[i] # Panels  BY <1>1, <1>2, <1>3 DEF IsInjective
<1>5. m.kind[m.list[i]] \in {"screen", "heap"} => i # 1  BY <1>1
<1>6. m.list[i] \in ToSet(m.list)  BY <1>2 DEF ToSet
<1> QED  BY <1>2, <1>4, <1>5, <1>6

\* ExitAll has returned to the loop.
LEMMA AfterExitAll ==
  ASSUME Settled(mgr), Owned(mgr, loops), Changed(mgr, modified), LoopsTyped(loops), closeFar \in BOOLEAN,
         NEW all \in BOOLEAN, ExitAllReturns(all), all => modified = {} /\ Bare(mgr)
  PROVE  ExitInv'
<1>1. /\ down' \in {FALSE, all} /\ mode' = "commit" /\ exit' = Nowhere /\ mgr' = mgr /\ loops' = loops
      /\ modified' = modified /\ closeFar' = closeFar
  BY DEF ExitAllReturns
<1>2. SlotsSound(mgr, "commit")  BY SettledSlots
<1>3. PICK x : x = Nowhere  OBVIOUS
<1>4. x \in [at : Places, i : Nat, count : Nat] /\ x.at = "no"  BY <1>3, NowhereIs
<1>5. Inside(mgr, x, modified)  BY <1>4, Outside
<1>6. AtPlace(mgr, "commit", x)  BY <1>4 DEF AtPlace
<1>7. "commit" \in Modes \cup {"exit"}  BY DEF Modes
<1>8. down' \in BOOLEAN /\ (down' => modified = {} /\ Bare(mgr))
  <2>1. CASE down' = FALSE  BY <2>1
  <2>2. CASE down' = all  BY <2>2
  <2> QED  BY <1>1, <2>1, <2>2, Zenon
<1> QED  BY <1>1, <1>2, <1>3, <1>4, <1>5, <1>6, <1>7, <1>8, StillBefore

\* ExitAll passes a frame of the list, or has come to the end of it with no change left.
LEMMA ExitAtScreens ==
  ASSUME ExitInv, ExitScreens PROVE ExitInv'
<1>1. mode = "exit" /\ exit.at = "screens"  BY DEF ExitScreens
<1>2. /\ Settled(mgr) /\ Owned(mgr, loops) /\ Changed(mgr, modified)
      /\ Inside(mgr, exit, modified) /\ LoopsTyped(loops) /\ down = FALSE /\ closeFar \in BOOLEAN
      /\ exit.i \in Nat
  BY <1>1, WhileExiting
<1>3. PICK m, i, mo, ls : m = mgr /\ i = exit.i /\ mo = modified /\ ls = loops  OBVIOUS
<1>4. /\ i \in Nat /\ Bare(m) /\ i <= Len(m.list) /\ mo \subseteq ListedTo(m, i)
      /\ Settled(m) /\ Changed(m, mo) /\ Owned(m, ls) /\ ls \in Seq(Loops)
      /\ m \in Managers /\ Len(m.list) \in Nat
  <2>1. AtScreens(mgr, exit, modified)  BY <1>2 DEF Inside
  <2> QED  BY <1>1, <1>2, <1>3, <2>1, SettledIs, LenProperties DEF AtScreens, LoopsTyped
<1>a. \/ /\ exit.i > 0 /\ mgr.list[exit.i] \in modified
         /\ mgr' = ActivateFrame(mgr, mgr.list[exit.i])
         /\ mode' = "commit" /\ At("chosen", exit.i, 0)
         /\ UNCHANGED <<loops, modified, closeFar, down>>
      \/ /\ exit.i > 0 /\ mgr.list[exit.i] \notin modified
         /\ At("screens", exit.i - 1, 0)
         /\ UNCHANGED <<mgr, loops, mode, modified, closeFar, down>>
      \/ exit.i = 0 /\ ExitAllReturns(TRUE)
  BY Zenon DEF ExitScreens
<1>b. (exit.i > 0) <=> (i > 0)  BY <1>3
<1>c. (mgr.list[exit.i] \in modified) <=> (m.list[i] \in mo)  BY <1>3
<1>d. i > 0 => i # 0  BY <1>4
<1>5. CASE i > 0 /\ m.list[i] \in mo
  <2>1. /\ mgr' = ActivateFrame(m, m.list[i]) /\ mode' = "commit" /\ At("chosen", i, 0)
        /\ loops' = loops /\ modified' = modified /\ closeFar' = closeFar /\ down' = down
    <3>1. exit.i # 0  BY <1>3, <1>5, <1>d
    <3>2. /\ mgr' = ActivateFrame(mgr, mgr.list[exit.i])
          /\ mode' = "commit" /\ At("chosen", exit.i, 0)
          /\ UNCHANGED <<loops, modified, closeFar, down>>
      BY <1>a, <1>b, <1>c, <1>5, <3>1, Zenon
    <3> QED  BY <1>3, <3>2
  <2>2. /\ exit' \in [at : Places, i : Nat, count : Nat]
        /\ exit'.at = "chosen" /\ exit'.i = i
    BY <1>4, <2>1, AtIs DEF Places
  <2>3. i \in 1 .. Len(m.list)  BY <1>4, <1>5
  <2>4. m.list[i] \in ToSet(m.list) /\ i > 1
    BY <1>4, <1>5, <2>3, PanelsUnchanged DEF Changed
  <2>5. PICK r : r = mgr'  OBVIOUS
  <2>6. /\ Alike(m, r) /\ Unstructured(r) /\ r.deactivated = NoFrame
        /\ r.activated \in ToSet(m.list) \cup {NoFrame}
    BY <1>4, <2>1, <2>5, Switched DEF Bare
  <2>7. r.activated = m.list[i]
    <3>1. m.activated = NoFrame  BY <1>4, SettledIs
    <3> QED  BY <1>4, <2>1, <2>4, <2>5, <3>1, Activating
  <2>8. Focusing(r)  BY <1>4, <2>6, FocusAsked DEF Bare
  <2>9. Handled(m, r) /\ Stays(m, r)  BY <1>4, <2>6, <2>8, HandledAlike DEF Unstructured
  <2>10. SlotsSound(r, "commit")  BY <2>8, FocusingSlots
  <2>11. Owned(r, ls)  BY <1>4, <2>9, OwnedStays
  <2>12. Changed(r, mo)  BY <1>4, <2>9, ChangedHandled
  <2>13. r.list = m.list /\ Bare(r)  BY <1>4, <2>6 DEF Alike, Bare, Unstructured
  <2>14. m.list[i] # NoFrame
    BY <1>4, <2>4, NobodyThere
  <2>15. AtChosen(r, exit')  BY <2>2, <2>4, <2>6, <2>7, <2>13, <2>14 DEF AtChosen
  <2>16. AtScreens(r, exit', mo)  BY <1>4, <2>2, <2>13 DEF AtScreens, ListedTo
  <2>17. AtPlace(r, "commit", exit')  BY <2>2 DEF AtPlace
  <2>18. Inside(r, exit', mo)
    BY <2>2, <2>15, <2>16 DEF Inside, AtModals, AtModalClosing, AtEscape, AtScreenClosing
  <2>19. "commit" \in Modes \cup {"exit"} /\ ~down' /\ down' \in BOOLEAN  BY <1>2, <2>1 DEF Modes
  <2> QED
    BY <1>2, <1>3, <2>1, <2>2, <2>5, <2>10, <2>11, <2>12, <2>17, <2>18, <2>19, StillBefore
<1>6. CASE i > 0 /\ m.list[i] \notin mo
  <2>1. /\ At("screens", i - 1, 0)
        /\ mgr' = mgr /\ loops' = loops /\ mode' = mode /\ modified' = modified
        /\ closeFar' = closeFar /\ down' = down
    <3>1. exit.i # 0  BY <1>3, <1>6, <1>d
    <3>2. /\ At("screens", exit.i - 1, 0)
          /\ UNCHANGED <<mgr, loops, mode, modified, closeFar, down>>
      BY <1>a, <1>b, <1>c, <1>6, <3>1, Zenon
    <3> QED  BY <1>3, <3>2
  <2>2. i - 1 \in Nat /\ i - 1 <= Len(m.list)  BY <1>4, <1>6
  <2>3. /\ exit' \in [at : Places, i : Nat, count : Nat]
        /\ exit'.at = "screens" /\ exit'.i = i - 1
    BY <2>1, <2>2, AtIs DEF Places
  <2>4. mo \subseteq ListedTo(m, i - 1)  BY <1>4, <1>6, ListedLess
  <2>5. AtScreens(m, exit', mo)  BY <1>4, <2>2, <2>3, <2>4 DEF AtScreens
  <2>6. AtModals(m, exit') /\ AtEscape(m, exit')  BY <2>3 DEF AtModals, AtEscape
  <2> QED  BY <1>1, <1>2, <1>3, <2>1, <2>3, <2>5, <2>6, StillExiting
<1>7. CASE i = 0
  <2>1. ExitAllReturns(TRUE)
    <3>1. ~(i > 0)  BY <1>7
    <3> QED  BY <1>a, <1>b, <3>1, Zenon
  <2>2. mo = {}  BY <1>4, <1>7 DEF ListedTo
  <2> QED  BY <1>2, <1>3, <1>4, <2>1, <2>2, AfterExitAll
<1> QED  BY <1>4, <1>5, <1>6, <1>7

\* ExitAll closes the editor it has chosen.
LEMMA ExitAtEscape ==
  ASSUME ExitInv, ExitEscape PROVE ExitInv'
<1>1. /\ mode = "exit" /\ exit.at = "escape" /\ Escape(mgr.current, "screenClosing")
      /\ At("screenClosing", exit.i, Len(mgr.list))
  BY DEF ExitEscape
<1>2. /\ Settled(mgr) /\ Owned(mgr, loops) /\ Changed(mgr, modified)
      /\ Inside(mgr, exit, modified) /\ LoopsTyped(loops) /\ down = FALSE /\ closeFar \in BOOLEAN
      /\ exit.i \in Nat
  BY <1>1, WhileExiting
<1>3. PICK m, i, mo : m = mgr /\ i = exit.i /\ mo = modified  OBVIOUS
<1>4. /\ i \in Nat /\ Bare(m) /\ i <= Len(m.list) /\ mo \subseteq ListedTo(m, i)
      /\ i > 1 /\ m.current = m.list[i] /\ Settled(m) /\ Len(m.list) \in Nat
  <2>1. AtScreens(mgr, exit, modified) /\ AtEscape(mgr, exit)  BY <1>2 DEF Inside
  <2> QED  BY <1>1, <1>2, <1>3, <2>1, SettledIs, LenProperties DEF AtScreens, AtEscape
<1>5. i \in 1 .. Len(m.list)  BY <1>4
<1>6. m.current # Panels  BY <1>4, <1>5, PanelsUnchanged
<1>7. /\ exit' \in [at : Places, i : Nat, count : Nat]
      /\ exit'.at = "screenClosing" /\ exit'.i = i /\ exit'.count = Len(m.list)
  BY <1>1, <1>3, <1>4, AtIs DEF Places
<1>8. PICK r, x, no : r = mgr' /\ x = exit' /\ no = modified'  OBVIOUS
<1>9. AtScreenClosing(r, x, no)
  <2>1. CASE r = DeleteFrame(m, m.current) /\ no = mo \ {m.current}
    <3>1. /\ Alike(m, r) /\ r.deleted = m.current /\ r.inserted = NoFrame /\ r.executed = NoFrame
      BY <1>4, <1>6, <2>1, ClosingCurrent
    <3>2. Bare(r) /\ r.list = m.list  BY <1>4, <3>1 DEF Alike, Bare
    <3>3. no \subseteq ListedTo(m, i - 1)  BY <1>4, <2>1, ListedLess
    <3>4. no \subseteq ListedTo(r, i - 1)  BY <3>2, <3>3 DEF ListedTo
    <3>5. m.current # NoFrame  BY <1>4, SettledIs
    <3> QED  BY <1>4, <1>7, <1>8, <3>1, <3>2, <3>4, <3>5 DEF AtScreenClosing
  <2>2. CASE r = m
    <3>1. m.deleted = NoFrame /\ m.inserted = NoFrame  BY <1>4, SettledIs
    <3> QED  BY <1>4, <1>7, <1>8, <2>2, <3>1 DEF AtScreenClosing
  <2> QED  BY <1>1, <1>3, <1>8, <2>1, <2>2 DEF Escape
<1>10. AtModalClosing(r, x)  BY <1>7, <1>8 DEF AtModalClosing
<1> QED  BY <1>1, <1>2, <1>3, <1>6, <1>7, <1>8, <1>9, <1>10, Escaping

\* The Commit that ExitAll has called returns to it: unless the frame is closed, far2l goes on.
LEMMA ExitAfterCommit ==
  ASSUME ExitInv, ExitCommitted PROVE ExitInv'
<1>1. Committing /\ NothingPending /\ exit.at \notin {"no", "all", "closed"}  BY DEF ExitCommitted
<1>2. /\ SlotsSound(mgr, mode) /\ Owned(mgr, loops) /\ Changed(mgr, modified)
      /\ AtPlace(mgr, mode, exit) /\ Inside(mgr, exit, modified)
      /\ down => exit.at = "no"
      /\ LoopsTyped(loops) /\ exit.at \in Places /\ exit.i \in Nat /\ exit.count \in Nat
      /\ closeFar \in BOOLEAN /\ down \in BOOLEAN
  BY <1>1, Working
<1>3. Settled(mgr) /\ mode = "commit"  BY <1>1, <1>2, NothingLeft
<1>4. exit.at \in {"modalClosing", "chosen", "screenClosing"} /\ down = FALSE
  BY <1>1, <1>2, <1>3 DEF AtPlace, Places
<1>5. PICK m, i, n, mo : m = mgr /\ i = exit.i /\ n = exit.count /\ mo = modified  OBVIOUS
<1>6. /\ i \in Nat /\ n \in Nat /\ Settled(m) /\ m.deleted = NoFrame /\ m.activated = NoFrame
      /\ Len(m.list) \in Nat /\ Len(m.stack) \in Nat
  BY <1>2, <1>3, <1>5, SettledIs, LenProperties
<1>7. CASE exit.at = "chosen"
  <2>1. /\ mode' = "exit" /\ At("escape", i, 0)
        /\ mgr' = mgr /\ loops' = loops /\ modified' = modified /\ closeFar' = closeFar /\ down' = down
    BY <1>5, <1>7 DEF ExitCommitted
  <2>2. /\ exit' \in [at : Places, i : Nat, count : Nat]
        /\ exit'.at = "escape" /\ exit'.i = i
    BY <1>6, <2>1, AtIs DEF Places
  <2>3. Bare(m) /\ i <= Len(m.list) /\ mo \subseteq ListedTo(m, i) /\ i > 1 /\ m.current = m.list[i]
    BY <1>2, <1>5, <1>6, <1>7 DEF Inside, AtScreens, AtChosen
  <2>4. AtModals(m, exit') /\ AtScreens(m, exit', mo) /\ AtEscape(m, exit')
    BY <2>2, <2>3 DEF AtModals, AtScreens, AtEscape
  <2> QED  BY <1>2, <1>3, <1>4, <1>5, <2>1, <2>2, <2>4, StillExiting
<1>8. CASE exit.at = "modalClosing"
  <2>1. i = n /\ Len(m.stack) \in {n - 1, n}  BY <1>2, <1>5, <1>6, <1>8 DEF Inside, AtModalClosing
  <2>2. CASE Len(m.stack) = n
    <3>1. ExitAllReturns(FALSE)  BY <1>5, <1>8, <2>2 DEF ExitCommitted
    <3> QED  BY <1>2, <1>3, <3>1, AfterExitAll
  <2>3. CASE Len(m.stack) # n
    <3>1. /\ mode' = "exit" /\ At("modals", i - 1, 0)
          /\ mgr' = mgr /\ loops' = loops /\ modified' = modified /\ closeFar' = closeFar /\ down' = down
      BY <1>5, <1>8, <2>3 DEF ExitCommitted
    <3>2. i - 1 \in Nat /\ Len(m.stack) = i - 1  BY <1>6, <2>1, <2>3
    <3>3. /\ exit' \in [at : Places, i : Nat, count : Nat]
          /\ exit'.at = "modals" /\ exit'.i = i - 1
      BY <3>1, <3>2, AtIs DEF Places
    <3>4. AtModals(m, exit') /\ AtScreens(m, exit', mo) /\ AtEscape(m, exit')
      BY <3>2, <3>3 DEF AtModals, AtScreens, AtEscape
    <3> QED  BY <1>2, <1>3, <1>4, <1>5, <3>1, <3>3, <3>4, StillExiting
  <2> QED  BY <2>2, <2>3
<1>9. CASE exit.at = "screenClosing"
  <2>1. /\ Bare(m) /\ i > 1 /\ Len(m.list) \in {n - 1, n}
        /\ Len(m.list) = n - 1 => i - 1 <= Len(m.list) /\ mo \subseteq ListedTo(m, i - 1)
    BY <1>2, <1>5, <1>6, <1>9 DEF Inside, AtScreenClosing
  <2>2. CASE Len(m.list) = n
    <3>1. ExitAllReturns(FALSE)  BY <1>5, <1>9, <2>2 DEF ExitCommitted
    <3> QED  BY <1>2, <1>3, <3>1, AfterExitAll
  <2>3. CASE Len(m.list) # n
    <3>1. /\ mode' = "exit" /\ At("screens", i - 1, 0)
          /\ mgr' = mgr /\ loops' = loops /\ modified' = modified /\ closeFar' = closeFar /\ down' = down
      BY <1>5, <1>9, <2>3 DEF ExitCommitted
    <3>2. i - 1 \in Nat  BY <1>6, <2>1
    <3>3. /\ exit' \in [at : Places, i : Nat, count : Nat]
          /\ exit'.at = "screens" /\ exit'.i = i - 1
      BY <3>1, <3>2, AtIs DEF Places
    <3>4. AtModals(m, exit') /\ AtScreens(m, exit', mo) /\ AtEscape(m, exit')
      BY <2>1, <2>3, <3>3 DEF AtModals, AtScreens, AtEscape
    <3> QED  BY <1>2, <1>3, <1>4, <1>5, <3>1, <3>3, <3>4, StillExiting
  <2> QED  BY <2>2, <2>3
<1> QED  BY <1>4, <1>7, <1>8, <1>9

\* EnterMainLoop returns with nothing but frames of the list.
LEMMA ExitLeavesMain ==
  ASSUME ExitInv, LeaveMainLoop PROVE ExitInv'
<1>1. /\ mode = "test" /\ Top.loop = "main" /\ down /\ mode' = "exit" /\ At("all", 0, 0)
      /\ mgr' = mgr /\ loops' = loops /\ modified' = modified /\ closeFar' = closeFar /\ down' = down
  BY DEF LeaveMainLoop
<1>2. exit.at = "no"  BY <1>1, Elsewhere
<1>3. /\ SlotsSound(mgr, mode) /\ Owned(mgr, loops) /\ modified = {} /\ Bare(mgr)
      /\ LoopsTyped(loops) /\ closeFar \in BOOLEAN /\ down \in BOOLEAN
  BY <1>1, <1>2, Working
<1>4. PICK m, ls : m = mgr /\ ls = loops  OBVIOUS
<1>5. Settled(m) /\ Owned(m, ls) /\ Bare(m)  BY <1>1, <1>3, <1>4 DEF SlotsSound
<1>6. \A n \in 1 .. Len(ls) : ls[n].owner = NoFrame
  <2>1. PICK k \in Nat : k = Len(ls) /\ k > 0 /\ ls[k].loop = "main"
    BY <1>1, <1>3, <1>4, LoopsTop DEF Top
  <2>2. k = 1  BY <1>5, <2>1 DEF Owned, MainFirst
  <2> QED  BY <1>5, <2>1, <2>2 DEF Owned, OwnersHeld
<1>7. \A f \in m.live : m.kind[f] # "auto" /\ f \in ToSet(m.list)
  <2> TAKE f \in m.live
  <2>1. f # NoFrame /\ f \in AllFrames  BY <1>5, SettledIs, Fields, Nobody
  <2>2. m.kind[f] # "auto"  BY <1>5, <1>6, <2>1 DEF Owned, Accounted
  <2>3. f \in ToSet(m.list) \cup ToSet(m.stack) \cup {m.inserted, m.executed}
    BY <1>5, <2>2 DEF Owned, Accounted
  <2>4. ToSet(m.stack) = {}  BY <1>5 DEF Bare, ToSet
  <2> QED  BY <1>5, <2>1, <2>2, <2>3, <2>4, SettledIs
<1>8. m \in Managers /\ IsInjective(m.list) /\ ToSet(m.list) \subseteq m.live
  BY <1>5, SettledIs DEF Grounded, Linked, Distinct
<1>9. AllGone(m)  BY <1>5, <1>7, <1>8 DEF AllGone, Bare
<1>10. /\ exit' \in [at : Places, i : Nat, count : Nat] /\ exit'.at = "all"
  BY <1>1, AtIs DEF Places
<1> QED  BY <1>1, <1>3, <1>4, <1>9, <1>10 DEF ExitInv

\* CloseAll destroys them one after the other.
LEMMA ExitCloses ==
  ASSUME ExitInv, CloseAll PROVE ExitInv'
<1>1. /\ mode = "exit" /\ exit.at = "all"
      /\ loops' = loops /\ mode' = mode /\ closeFar' = closeFar /\ down' = down
  BY DEF CloseAll
<1>2. AllGone(mgr) /\ down /\ modified = {} /\ LoopsTyped(loops) /\ closeFar \in BOOLEAN /\ down \in BOOLEAN
      /\ exit \in [at : Places, i : Nat, count : Nat]
  BY <1>1 DEF ExitInv
<1>3. PICK m, r : m = mgr /\ r = mgr'  OBVIOUS
<1>4. /\ m \in Managers /\ IsInjective(m.list) /\ m.stack = <<>> /\ m.list \in Seq(AllFrames)
      /\ ToSet(m.list) = m.live /\ \A f \in ToSet(m.list) : m.kind[f] # "auto"
  BY <1>2, <1>3, Fields DEF AllGone
<1>5. CASE m.list # <<>>
  <2>1. PICK f : f = Last(m.list)  OBVIOUS
  <2>2. r = [DeleteCommit(m, f) EXCEPT !.deleted = NoFrame] /\ modified' = modified \cap r.live /\ exit' = exit
    BY <1>3, <1>4, <1>5, <2>1 DEF CloseAll, CloseOne, Remaining
  <2>3. f \in AllFrames /\ f \in ToSet(m.list)  BY <1>4, <1>5, <2>1, Popping
  <2>4. PICK d : d = DeleteCommit(m, f)  OBVIOUS
  <2>5. IsInjective(m.stack)  BY <1>4 DEF IsInjective
  <2>6. /\ d \in Managers /\ d.list = RemoveFirst(m.list, f) /\ d.stack = RemoveFirst(m.stack, f)
        /\ \A g \in AllFrames \ {f} : d.kind[g] = m.kind[g]
        /\ m.kind[f] # "auto" => Buried(m, d, f)
    BY <1>4, <2>3, <2>4, <2>5, Deleting
  <2>7. d.live = m.live \ {f}  BY <1>4, <2>3, <2>6 DEF Buried
  <2>8. d.stack = <<>>
    <3>1. m.stack \in Seq(AllFrames) /\ f \notin ToSet(m.stack)  BY <1>4, Fields DEF ToSet
    <3> QED  BY <1>4, <2>6, <3>1, Missing
  <2>9. IsInjective(d.list) /\ ToSet(d.list) = ToSet(m.list) \ {f}
    BY <1>4, <2>3, <2>6, Shrinking
  <2>10. r = [d EXCEPT !.deleted = NoFrame]  BY <2>2, <2>4
  <2>11. r \in Managers /\ r.list = d.list /\ r.stack = d.stack /\ r.live = d.live /\ r.kind = d.kind
    BY <2>6, <2>10 DEF Managers
  <2>12. ToSet(m.list) \subseteq AllFrames  BY <1>4, Members
  <2>13. AllGone(r)  BY <1>4, <2>6, <2>7, <2>8, <2>9, <2>11, <2>12 DEF AllGone
  <2> QED  BY <1>1, <1>2, <1>3, <2>2, <2>13 DEF ExitInv
<1>6. CASE m.list = <<>>
  <2>1. r = [m EXCEPT !.pos = 0] /\ At("closed", 0, 0) /\ modified' = modified
    BY <1>3, <1>4, <1>6 DEF CloseAll
  <2>z. PICK z \in Int : z = 0  OBVIOUS
  <2>a. m \in Managers /\ r = [m EXCEPT !.pos = z] /\ z \in Int  BY <1>4, <2>1, <2>z
  <2>2. r \in Managers /\ r.list = m.list /\ r.stack = m.stack /\ r.live = m.live /\ r.kind = m.kind
    <3>1. r.list = m.list /\ r.stack = m.stack /\ r.live = m.live /\ r.kind = m.kind
      BY <2>a DEF Managers
    <3>2. r \in Managers  BY ONLY <2>a DEF Managers
    <3> QED  BY <3>1, <3>2
  <2>3. AllGone(r) /\ r.list = <<>>  BY <1>4, <1>6, <2>2 DEF AllGone
  <2>4. exit' \in [at : Places, i : Nat, count : Nat] /\ exit'.at = "closed"  BY <2>1, AtIs DEF Places
  <2> QED  BY <1>1, <1>2, <1>3, <2>1, <2>3, <2>4 DEF ExitInv
<1> QED  BY <1>5, <1>6

\* Every step keeps the invariant, under the same condition.
LEMMA ExitNexts ==
  ASSUME Features \cap {"switch", "dmclose"} = {}, ExitInv, ExitNext, ~OpensOverModal
  PROVE  ExitInv'
  BY ExitRound, ExitDone, ExitLoops, ExitKey, ExitAct, ExitEdit, ExitCloseWindow,
     ExitStarts, ExitAtModals, ExitAtScreens, ExitAtEscape, ExitAfterCommit, ExitLeavesMain, ExitCloses
     DEF ExitNext, ExitStep, Closing, UserExitStep

\* Nothing happens.
LEMMA ExitStays ==
  ASSUME ExitInv, UNCHANGED exitVars PROVE ExitInv'
  BY DEF ExitInv, exitVars

-----------------------------------------------------------------------------
(* All together                                                            *)

\* No one leaves
Lingering == modified = {} /\ closeFar = FALSE /\ down = FALSE /\ exit = Nowhere

\* The inductive invariant of the parts
FramesInv ==
  /\ part # "exit" => LoopsInv(FALSE) /\ Lingering
  /\ part = "handlers" => LoopsInv(TRUE)
  /\ part = "exit" => ExitInv

\* All parts start with their invariant.
LEMMA FramesInitially ==
  ASSUME FramesInit PROVE FramesInv
<1>1. ExitInit  BY DEF FramesInit
<1>2. ExitInv  BY <1>1, ExitInitially
<1>3. LoopsInv(FALSE) /\ LoopsInv(TRUE) /\ Lingering  BY <1>1, LoopsInit DEF ExitInit, Lingering
<1> QED  BY <1>2, <1>3 DEF FramesInv

\* Each part keeps its invariant, until something is opened over a modal frame.
LEMMA FramesNexts ==
  ASSUME Features \cap {"switch", "dmclose"} = {}, ~over => FramesInv, [FramesNext]_framesVars
  PROVE  (~over => FramesInv)'
<1> SUFFICES ASSUME ~over' PROVE FramesInv'  OBVIOUS
<1>1. ~over /\ (FramesNext => ~OpensOverModal)
  <2>1. CASE FramesNext
    <3>1. over' = (over \/ OpensOverModal)  BY <2>1 DEF FramesNext
    <3> QED  BY <3>1, Zenon
  <2>2. CASE UNCHANGED framesVars /\ ~FramesNext  BY <2>2 DEF framesVars
  <2> QED  BY <2>1, <2>2
<1>2. FramesInv  BY <1>1
<1>3. CASE part # "exit" /\ part' = part /\ Next /\ UNCHANGED leaving /\ ~OpensOverModal
           /\ (part = "handlers" => ~ClientsOwn)
  <2>1. LoopsInv(FALSE) /\ (part = "handlers" => LoopsInv(TRUE))  BY <1>2, <1>3 DEF FramesInv
  <2>2. LoopsInv(FALSE)'  BY <1>3, <2>1, LoopsNext
  <2>3. part = "handlers" => LoopsInv(TRUE)'  BY <1>3, <2>1, LoopsNext
  <2>4. Lingering'  BY <1>2, <1>3 DEF FramesInv, Lingering, leaving
  <2> QED  BY <1>3, <2>2, <2>3, <2>4 DEF FramesInv
<1>4. CASE part = "exit" /\ part' = part /\ ExitNext /\ ~OpensOverModal
  <2>1. ExitInv  BY <1>2, <1>4 DEF FramesInv
  <2>2. ExitInv'  BY <1>4, <2>1, ExitNexts
  <2> QED  BY <1>4, <2>2 DEF FramesInv
<1>5. CASE part' = part /\ UNCHANGED exitVars
  <2>1. UNCHANGED vars /\ UNCHANGED leaving  BY <1>5 DEF exitVars, vars, leaving
  <2>2. CASE part # "exit"
    <3>1. LoopsInv(FALSE)'  BY <1>2, <2>1, <2>2, LoopsStays DEF FramesInv
    <3>2. part = "handlers" => LoopsInv(TRUE)'  BY <1>2, <2>1, LoopsStays DEF FramesInv
    <3>3. Lingering'  BY <1>2, <2>1, <2>2 DEF FramesInv, Lingering, leaving
    <3> QED  BY <1>5, <2>2, <3>1, <3>2, <3>3 DEF FramesInv
  <2>3. CASE part = "exit"
    <3>1. ExitInv'  BY <1>2, <1>5, <2>3, ExitStays DEF FramesInv
    <3> QED  BY <1>5, <2>3, <3>1 DEF FramesInv
  <2> QED  BY <2>2, <2>3
<1>6. CASE FramesNext
  <2>1. ~OpensOverModal /\ part' = part  BY <1>1, <1>6 DEF FramesNext
  <2>2. CASE part = "loops" /\ Next /\ UNCHANGED leaving  BY <1>3, <2>1, <2>2
  <2>3. CASE part = "handlers" /\ Next /\ ~ClientsOwn /\ UNCHANGED leaving  BY <1>3, <2>1, <2>3
  <2>4. CASE part = "exit" /\ ExitNext  BY <1>4, <2>1, <2>4
  <2>5. CASE UNCHANGED exitVars  BY <1>5, <2>1, <2>5
  <2> QED  BY <1>6, <2>2, <2>3, <2>4, <2>5 DEF FramesNext
<1> QED  BY <1>5, <1>6 DEF framesVars

\* Where no plugin uses ACTL_SETCURRENTWINDOW without ACTL_COMMIT and none sends DM_CLOSE to a
\* dialog behind another one, the invariant holds for any frames and any number of loops, until
\* a plugin opens a frame that is not modal over a modal one.
THEOREM FramesInvariance ==
  ASSUME Features \cap {"switch", "dmclose"} = {} PROVE FramesSpec => [](~over => FramesInv)
<1>1. FramesInit => (~over => FramesInv)  BY FramesInitially
<1>2. (~over => FramesInv) /\ [FramesNext]_framesVars => (~over => FramesInv)'  BY FramesNexts
<1> QED  BY <1>1, <1>2, PTL DEF FramesSpec

\* Where no plugin does that, nothing is opened over a modal frame.
LEMMA NothingOver ==
  ASSUME "overmodal" \notin Features PROVE FramesSpec => []~over
<1>1. FramesInit => ~over  BY DEF FramesInit
<1>2. ~over /\ [FramesNext]_framesVars => ~over'
  <2> SUFFICES ASSUME OpensOverModal PROVE FALSE  BY DEF FramesNext, framesVars
  <2>1. MayOpen
    BY DEF OpensOverModal, OpenScreen, RunScreen, SwitchToOpened, RunOpened, Reload, ReloadWithMessage
  <2>2. Free  BY <2>1 DEF MayOpen
  <2> QED  BY <2>2 DEF OpensOverModal
<1> QED  BY <1>1, <1>2, PTL DEF FramesSpec

\* There the invariant holds throughout.
LEMMA FramesInvariant ==
  ASSUME Features \cap {"switch", "dmclose", "overmodal"} = {} PROVE FramesSpec => []FramesInv
<1>1. Features \cap {"switch", "dmclose"} = {} /\ "overmodal" \notin Features  OBVIOUS
<1>2. FramesSpec => [](~over => FramesInv)  BY <1>1, FramesInvariance
<1>3. FramesSpec => []~over  BY <1>1, NothingOver
<1> QED  BY <1>2, <1>3, PTL

\* What a manager between two steps refers to exists, and each frame is in one place
Linking(m) ==
  /\ m \in Managers /\ IsInjective(m.list) /\ IsInjective(m.stack)
  /\ ToSet(m.list) \subseteq m.live /\ ToSet(m.stack) \subseteq m.live
  /\ {m.inserted, m.deleted, m.activated, m.deactivated, m.executed} \subseteq m.live \cup {NoFrame}
  /\ m.current \in m.live \cup {NoFrame}
  /\ \A f \in ToSet(m.list) : m.back[f] \in m.live \cup {NoFrame} /\ CanLoseFocus(m, f)
  /\ \A f \in ToSet(m.stack) : ~CanLoseFocus(m, f)

\* A sound manager refers to nothing that is gone, whatever is requested.
LEMMA SoundLinks ==
  ASSUME NEW m, Sound(m) PROVE Linking(m)
<1>1. CASE m = StartedManager
  <2>1. m.list = <<>> /\ m.stack = <<>> /\ m.current = NoFrame /\ m.live = {Panels}
    BY <1>1 DEF StartedManager
  <2>2. ToSet(m.list) = {} /\ ToSet(m.stack) = {}  BY <2>1 DEF ToSet
  <2>3. IsInjective(m.list) /\ IsInjective(m.stack)  BY <2>1 DEF IsInjective
  <2> QED  BY <1>1, <2>1, <2>2, <2>3, StartedOnly DEF Linking
<1>2. ASSUME Grounded(m)
      PROVE  /\ m \in Managers /\ IsInjective(m.list) /\ IsInjective(m.stack)
             /\ ToSet(m.list) \subseteq m.live /\ ToSet(m.stack) \subseteq m.live
             /\ m.current \in m.live \cup {NoFrame}
             /\ \A f \in ToSet(m.list) : m.back[f] \in m.live \cup {NoFrame} /\ CanLoseFocus(m, f)
             /\ \A f \in ToSet(m.stack) : ~CanLoseFocus(m, f)
  BY <1>2 DEF Grounded, Linked, Distinct, ListLinked, StackLinked, CurrentLinked
<1>3. CASE Requesting(m)
  <2>1. Grounded(m) /\ OnList(m)  BY <1>3 DEF Requesting, Placed
  <2>2. Uppermost(m) \in m.live  BY <2>1, UppermostIs
  <2>3. m.inserted \in m.live \cup {NoFrame} /\ m.executed \in m.live \cup {NoFrame}
    BY <1>3 DEF Requesting, MayInsert, MayExecute
  <2>4. m.deleted \in m.live \cup {NoFrame}
    BY <1>2, <1>3, <2>1, <2>2 DEF Requesting, MayDelete
  <2>5. m.activated = NoFrame /\ m.deactivated = NoFrame  BY <1>3 DEF Requesting, Unfocused
  <2> QED  BY <1>2, <2>1, <2>3, <2>4, <2>5 DEF Linking
<1>4. CASE Focusing(m)
  <2>1. Grounded(m) /\ Unstructured(m)  BY <1>4 DEF Focusing
  <2>2. m.deactivated \in m.live \cup {NoFrame}  BY <1>2, <1>4, <2>1 DEF Focusing
  <2>3. m.activated \in m.live \cup {NoFrame}
    <3>1. m.stack # <<>> => Last(m.stack) \in ToSet(m.stack)  BY <1>2, <2>1, Fields, Popping
    <3> QED  BY <1>2, <1>4, <2>1, <3>1 DEF Focusing
  <2> QED  BY <1>2, <2>1, <2>2, <2>3 DEF Linking, Unstructured
<1> QED  BY <1>1, <1>3, <1>4 DEF Sound

\* The same, whatever the running loop is doing.
LEMMA SlotsLink ==
  ASSUME NEW m, NEW md, SlotsSound(m, md), md \in Modes \/ Settled(m) PROVE Linking(m)
<1>1. Sound(m)
  <2>1. CASE Settled(m)  BY <2>1, StillFocusing DEF Sound
  <2>2. CASE md \in {"commit", "commit1"}  BY <2>2 DEF SlotsSound
  <2>3. CASE md \in {"test", "key", "handle"}  BY <2>1, <2>3 DEF SlotsSound
  <2> QED  BY <2>1, <2>2, <2>3 DEF Modes
<1> QED  BY <1>1, SoundLinks

\* A manager like that has no dangling frame.
LEMMA LinkingIs ==
  ASSUME Linking(mgr) PROVE NoDanglingFrame
  BY DEF Linking, NoDanglingFrame, Slots

\* It is one while there are loops to go on with,
LEMMA LinksOfLoops ==
  ASSUME LoopsInv(FALSE) PROVE Linking(mgr)
  BY SlotsLink DEF LoopsInv

\* ... and until ExitAll has succeeded.
LEMMA LinksOfExit ==
  ASSUME ExitInv, exit.at \notin {"all", "closed"} PROVE Linking(mgr)
  BY Working, SlotsLink DEF AtPlace

\* The invariant implies the types,
LEMMA InvTypes ==
  ASSUME FramesInv PROVE FramesTypeOK
<1>1. CASE part # "exit"
  <2>1. LoopsInv(FALSE) /\ Lingering  BY <1>1 DEF FramesInv
  <2>2. mgr \in Managers  BY <2>1, LinksOfLoops DEF Linking
  <2>3. TypeOK  BY <2>1, <2>2 DEF LoopsInv, LoopsTyped, TypeOK
  <2>4. exit \in [at : Places, i : Nat, count : Nat]  BY <2>1, NowhereIs DEF Lingering
  <2>5. ExitTypeOK  BY <2>1, <2>3, <2>4 DEF Lingering, ExitTypeOK, TypeOK
  <2> QED  BY <2>3, <2>5 DEF FramesTypeOK
<1>2. CASE part = "exit"
  <2>1. ExitInv  BY <1>2 DEF FramesInv
  <2>2. /\ exit \in [at : Places, i : Nat, count : Nat] /\ mode \in Modes \cup {"exit"}
        /\ closeFar \in BOOLEAN /\ down \in BOOLEAN /\ loops \in Seq(Loops)
    BY <2>1 DEF ExitInv, LoopsTyped
  <2>3. mgr \in Managers /\ modified \subseteq mgr.live
    <3>1. CASE exit.at \in {"all", "closed"}  BY <2>1, <3>1 DEF ExitInv, AllGone
    <3>2. CASE exit.at \notin {"all", "closed"}
      <4>1. Linking(mgr) /\ Changed(mgr, modified)  BY <2>1, <3>2, LinksOfExit, Working
      <4> QED  BY <4>1 DEF Linking, Changed
    <3> QED  BY <3>1, <3>2
  <2> QED  BY <1>2, <2>2, <2>3 DEF FramesTypeOK, ExitTypeOK
<1> QED  BY <1>1, <1>2

\* ... that every frame is in its place,
LEMMA InvKept ==
  ASSUME ~over => FramesInv PROVE FramesAreKept
<1> SUFFICES ASSUME FramesInv PROVE FramesAreKept  BY DEF FramesAreKept
<1>1. ASSUME part # "exit" PROVE EveryFrameInItsPlace
  <2>1. LoopsInv(FALSE)  BY <1>1 DEF FramesInv
  <2>2. Linking(mgr)  BY <2>1, LinksOfLoops
  <2>3. NoDanglingFrame  BY <2>2, LinkingIs
  <2>4. mode = "key" => mgr.list[1] = Panels
    <3> HAVE mode = "key"
    <3>1. Settled(mgr)  BY <2>1 DEF LoopsInv, SlotsSound
    <3> QED  BY <3>1, SettledIs DEF Grounded
  <2>5. EachInItsPlace  BY <2>2, <2>4 DEF Linking, EachInItsPlace
  <2>6. NoLostFrame
    <3>1. DOMAIN loops = 1 .. Len(loops)  BY <2>1, LoopFields DEF LoopsInv, LoopsTyped
    <3>2. Accounted(mgr, loops)  BY <2>1 DEF LoopsInv, Owned
    <3> QED  BY <3>1, <3>2 DEF Accounted, NoLostFrame
  <2> QED  BY <2>3, <2>5, <2>6 DEF EveryFrameInItsPlace
<1>2. ASSUME part = "exit" PROVE NoDanglingAtExit
  <2>1. ExitInv  BY <1>2 DEF FramesInv
  <2>2. CASE exit.at \in {"all", "closed"}
    <3>1. AllGone(mgr) /\ (exit.at = "closed" => mgr.list = <<>>)  BY <2>1, <2>2 DEF ExitInv
    <3>2. mgr.stack = <<>> /\ ToSet(mgr.list) = mgr.live  BY <3>1 DEF AllGone
    <3>3. ToSet(mgr.stack) = {}  BY <3>2 DEF ToSet
    <3>4. exit.at = "closed" => mgr.live = {}  BY <3>1, <3>2 DEF ToSet
    <3> QED  BY <2>2, <3>2, <3>3, <3>4 DEF NoDanglingAtExit
  <2>3. CASE exit.at \notin {"all", "closed"}
    <3>1. Linking(mgr)  BY <2>1, <2>3, LinksOfExit
    <3>2. NoDanglingFrame  BY <3>1, LinkingIs
    <3> QED  BY <2>3, <3>1, <3>2 DEF NoDanglingAtExit, Linking
  <2> QED  BY <2>2, <2>3
<1> QED  BY <1>1, <1>2 DEF FramesAreKept

\* ... and that keys go to the top and modal loops nest.
LEMMA InvNests ==
  ASSUME ~over => FramesInv PROVE LoopsNest
<1> SUFFICES ASSUME part # "exit", FramesInv PROVE KeysGoToTop /\ ModalLoopsNest
  BY DEF LoopsNest
<1>1. LoopsInv(FALSE)  BY DEF FramesInv
<1>2. KeysGoToTop
  <2> SUFFICES ASSUME mode = "key" PROVE mgr.current = Uppermost(mgr)
    BY DEF KeysGoToTop, Uppermost
  <2>1. Settled(mgr)  BY <1>1 DEF LoopsInv, SlotsSound
  <2> QED  BY <2>1, SettledIs
<1>3. PICK m, ls, t : m = mgr /\ ls = loops /\ t = Last(ls)  OBVIOUS
<1>4. /\ ls \in Seq(Loops) /\ Len(ls) > 0 /\ Len(ls) \in Nat /\ DOMAIN ls = 1 .. Len(ls)
      /\ t = ls[Len(ls)] /\ t.base \in Nat /\ Len(ls) \in 1 .. Len(ls)
      /\ \A n \in 1 .. Len(ls) : ls[n].base \in Nat
  BY <1>1, <1>3, LoopsTop, LoopFields DEF LoopsInv
<1>5. Nested(ls) /\ Reached(m, t)  BY <1>1, <1>3 DEF LoopsInv, Heights
<1>6. mode \in {"key", "handle"} => Len(m.stack) = Height(t)  BY <1>1, <1>3 DEF LoopsInv
<1>7. Len(m.stack) \in Nat
  BY <1>1, <1>3, LinksOfLoops, NobodyThere DEF Linking
<1>8. ASSUME NEW n \in 1 .. Len(ls), ls[n].loop = "modal", n < Len(ls) \/ mode \in {"key", "handle"}
      PROVE  /\ Len(m.stack) > ls[n].base
             /\ \A k \in 1 .. (n - 1) : ls[k].loop = "modal" => ls[k].base < ls[n].base
  <2>1. \A k \in 1 .. (n - 1) : ls[k].loop = "modal" => ls[k].base < ls[n].base
    BY <1>5, <1>8 DEF Nested
  <2>2. CASE n < Len(ls)
    <3>1. n \in 1 .. (Len(ls) - 1)  BY <1>4, <2>2
    <3>2. t.loop = "modal" /\ ls[n].base < t.base  BY <1>4, <1>5, <1>8, <3>1 DEF Nested
    <3>3. t.base <= Len(m.stack)  BY <1>5, <3>2 DEF Reached
    <3>4. ls[n].base \in Nat  BY <1>4
    <3> QED  BY <1>4, <1>7, <2>1, <3>2, <3>3, <3>4
  <2>3. CASE ~(n < Len(ls))
    <3>0. PICK z \in Nat : z = Len(ls)  BY <1>4
    <3>1. n = Len(ls)  BY <2>3, <3>0
    <3>2. Len(m.stack) = t.base + 1  BY <1>4, <1>6, <1>8, <2>3, <3>1 DEF Height
    <3> QED  BY <1>4, <2>1, <3>1, <3>2
  <2> QED  BY <2>2, <2>3
<1>9. ModalLoopsNest  BY <1>3, <1>4, <1>8 DEF ModalLoopsNest
<1> QED  BY <1>2, <1>9

\* The types of the manager, of the loops and of ExitAll.
THEOREM FramesTypes ==
  ASSUME Features \cap {"switch", "dmclose", "overmodal"} = {}
  PROVE  FramesSpec => []FramesTypeOK
<1>1. FramesInv => FramesTypeOK  BY InvTypes
<1> QED  BY <1>1, FramesInvariant, PTL

\* Manager: until a plugin opens a frame that is not modal over a modal one, no pointer to a
\* destroyed frame is kept, no frame is lost or listed twice, and CloseAll leaves none behind.
THEOREM FramesKept ==
  ASSUME Features \cap {"switch", "dmclose"} = {} PROVE FramesSpec => []FramesAreKept
<1>1. (~over => FramesInv) => FramesAreKept  BY InvKept
<1> QED  BY <1>1, FramesInvariance, PTL

\* Manager: until a plugin opens a frame that is not modal over a modal one, keys go to the top
\* of the modal stack, or to the frame at FramePos when there is no modal one, and a modal loop
\* that takes keys or calls code has its frame on the stack, above those of the loops below it.
THEOREM LoopsAreNested ==
  ASSUME Features \cap {"switch", "dmclose"} = {} PROVE FramesSpec => []LoopsNest
<1>1. (~over => FramesInv) => LoopsNest  BY InvNests
<1> QED  BY <1>1, FramesInvariance, PTL

\* ExitAll: when it lets far2l be left there is no editor with unsaved changes, in the middle
\* of whatever loops the window was closed.
THEOREM NothingIsLost ==
  ASSUME Features \cap {"switch", "dmclose", "overmodal"} = {}
  PROVE  FramesSpec => []NothingUnsaved
<1>1. FramesInv => NothingUnsaved
  BY Working DEF FramesInv, Lingering, NothingUnsaved, ExitInv
<1> QED  BY <1>1, FramesInvariant, PTL

\* Commit: a frame is not destroyed while its own ProcessKey runs, however deep the loops in
\* it, as long as no frame of the list runs a loop of its own, none is loaded again or told to
\* quit, and none is opened over a modal one; functions of other threads may do as they like.
THEOREM HandlersFramesLive ==
  ASSUME Features \cap {"switch", "dmclose"} = {} PROVE FramesSpec => []HandlersLive
<1>1. (~over => FramesInv) => HandlersLive
  <2> SUFFICES ASSUME part = "handlers", FramesInv PROVE HandlersFrameLives
    BY DEF HandlersLive
  <2>1. LoopsInv(TRUE)  BY DEF FramesInv
  <2>2. HandlersHeld(mgr, loops) /\ DOMAIN loops = 1 .. Len(loops)
    BY <2>1, LoopFields DEF LoopsInv, HandlersKept, LoopsTyped
  <2> QED  BY <2>2 DEF HandlersHeld, HandlersFrameLives
<1> QED  BY <1>1, FramesInvariance, PTL

=============================================================================
