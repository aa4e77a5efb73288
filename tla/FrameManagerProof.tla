--------------------------- MODULE FrameManagerProof ---------------------------
(***************************************************************************)
(* What each of the functions of FrameManager does to a manager, for any   *)
(* frames, and in which states a manager may be: settled, between two      *)
(* Commits; requesting, with a change of the list or the stack to carry    *)
(* out; or focusing, with the focus to move.  A round of Commit, whichever *)
(* it is, leads from one such state to another and no pointer to a frame   *)
(* that is destroyed.  FramesProof applies that to the loops.              *)
(***************************************************************************)
EXTENDS FrameManager, FiniteSetTheorems, SequenceTheorems, TLAPS

-----------------------------------------------------------------------------
(* Sequences without repetitions                                           *)

\* GetIndex and the like: a frame is found in a list exactly when the list holds it.
LEMMA Holding ==
  ASSUME NEW S, NEW s \in Seq(S), NEW e
  PROVE  Contains(s, e) <=> e \in ToSet(s)
  BY LenProperties DEF Contains, ToSet

\* Removing a frame that is not there changes nothing.
LEMMA Missing ==
  ASSUME NEW S, NEW s \in Seq(S), NEW e, e \notin ToSet(s)
  PROVE  RemoveFirst(s, e) = s
  BY LenProperties DEF RemoveFirst, ToSet

\* In a list without repetitions the first place found is the only one, and removing the
\* frame is removing that place.
LEMMA Indexed ==
  ASSUME NEW S, NEW s \in Seq(S), IsInjective(s), NEW i \in 1 .. Len(s), NEW e, s[i] = e
  PROVE  /\ (IF {j \in 1 .. Len(s) : s[j] = e} # {} THEN Min({j \in 1 .. Len(s) : s[j] = e}) ELSE 0) = i
         /\ RemoveFirst(s, e) = RemoveAt(s, i)
<1> DEFINE I == {j \in 1 .. Len(s) : s[j] = e}
<1>1. DOMAIN s = 1 .. Len(s) /\ Len(s) \in Nat  BY LenProperties
<1>2. I = {i}  BY <1>1 DEF IsInjective
<1>3. \A y \in I : i =< y  BY <1>2
<1>4. Min(I) = i
  <2> HIDE DEF I
  <2>1. \E x \in I : \A y \in I : x =< y  BY <1>2, <1>3
  <2> QED  BY <2>1, <1>2 DEF Min
<1>6. (IF I # {} THEN Min(I) ELSE 0) = i  BY <1>4, <1>2
<1>7. RemoveFirst(s, e) = IF \E k \in 1 .. Len(s) : s[k] = e
        THEN RemoveAt(s, IF I # {} THEN Min(I) ELSE 0) ELSE s
  BY DEF RemoveFirst, SelectInSeq
<1> HIDE DEF I
<1>8. RemoveFirst(s, e) = RemoveAt(s, IF I # {} THEN Min(I) ELSE 0)  BY <1>7
<1>9. RemoveFirst(s, e) = RemoveAt(s, i)  BY <1>8, <1>6
<1> QED  BY <1>6, <1>9 DEF I

\* What is left after the place i of a list is removed: the later ones move up.
LEMMA Shortening ==
  ASSUME NEW S, NEW s \in Seq(S), NEW i \in 1 .. Len(s)
  PROVE  /\ RemoveAt(s, i) \in Seq(S)
         /\ Len(RemoveAt(s, i)) = Len(s) - 1
         /\ \A k \in 1 .. (Len(s) - 1) : RemoveAt(s, i)[k] = IF k < i THEN s[k] ELSE s[k + 1]
<1>0. Len(s) \in Nat /\ \A k \in 1 .. Len(s) : s[k] \in S  BY LenProperties
<1> DEFINE a == SubSeq(s, 1, i - 1)
           b == SubSeq(s, i + 1, Len(s))
<1>1. a \in Seq(S) /\ Len(a) = i - 1 /\ \A k \in 1 .. (i - 1) : a[k] = s[k]
  <2>1. \A k \in 1 .. (i - 1) : s[k] \in S  BY <1>0
  <2>2. /\ a \in Seq(S) /\ Len(a) = IF 1 <= i - 1 THEN (i - 1) - 1 + 1 ELSE 0
        /\ \A k \in 1 .. ((i - 1) - 1 + 1) : a[k] = s[1 + k - 1]
    BY <1>0, <2>1, SubSeqProperties
  <2>3. Len(a) = i - 1  BY <2>2
  <2>4. \A k \in 1 .. (i - 1) : a[k] = s[k]
    <3> TAKE k \in 1 .. (i - 1)
    <3>1. k \in 1 .. ((i - 1) - 1 + 1) /\ 1 + k - 1 = k  OBVIOUS
    <3> QED  BY <2>2, <3>1
  <2> QED  BY <2>2, <2>3, <2>4
<1>2. b \in Seq(S) /\ Len(b) = Len(s) - i /\ \A k \in 1 .. (Len(s) - i) : b[k] = s[i + k]
  <2>1. \A k \in (i + 1) .. Len(s) : s[k] \in S  BY <1>0
  <2>2. /\ b \in Seq(S) /\ Len(b) = IF i + 1 <= Len(s) THEN Len(s) - (i + 1) + 1 ELSE 0
        /\ \A k \in 1 .. (Len(s) - (i + 1) + 1) : b[k] = s[(i + 1) + k - 1]
    <3>1. i + 1 \in Int /\ Len(s) \in Int  BY <1>0
    <3> QED  BY <3>1, <2>1, SubSeqProperties
  <2>3. Len(b) = Len(s) - i  BY <2>2, <1>0
  <2>4. \A k \in 1 .. (Len(s) - i) : b[k] = s[i + k]
    <3> TAKE k \in 1 .. (Len(s) - i)
    <3>1. k \in 1 .. (Len(s) - (i + 1) + 1) /\ (i + 1) + k - 1 = i + k  BY <1>0
    <3> QED  BY <2>2, <3>1
  <2> QED  BY <2>2, <2>3, <2>4
<1> HIDE DEF a, b
<1>3. /\ a \o b \in Seq(S) /\ Len(a \o b) = Len(a) + Len(b)
      /\ \A k \in 1 .. (Len(a) + Len(b)) : (a \o b)[k] = IF k <= Len(a) THEN a[k] ELSE b[k - Len(a)]
  BY <1>1, <1>2, ConcatProperties
<1>4. Len(a \o b) = Len(s) - 1 /\ Len(a) + Len(b) = Len(s) - 1  BY <1>0, <1>1, <1>2, <1>3
<1>5. \A k \in 1 .. (Len(s) - 1) : (a \o b)[k] = IF k < i THEN s[k] ELSE s[k + 1]
  <2> TAKE k \in 1 .. (Len(s) - 1)
  <2>0. (a \o b)[k] = IF k <= Len(a) THEN a[k] ELSE b[k - Len(a)]  BY <1>3, <1>4
  <2>1. CASE k < i
    <3>1. k \in 1 .. (i - 1) /\ k <= i - 1  BY <2>1, <1>0
    <3> QED  BY <3>1, <2>1, <1>1, <2>0
  <2>2. CASE ~(k < i)
    <3> DEFINE j == k - (i - 1)
    <3>1. j \in 1 .. (Len(s) - i)  BY <2>2, <1>0
    <3>2. i + j = k + 1 /\ ~(k <= i - 1)  BY <1>0, <2>2
    <3> HIDE DEF j
    <3>3. (a \o b)[k] = b[j]  BY <3>2, <1>1, <2>0 DEF j
    <3>4. b[j] = s[i + j]  BY <3>1, <1>2
    <3> QED  BY <3>2, <3>3, <3>4, <2>2
  <2> QED  BY <2>1, <2>2
<1> QED  BY <1>3, <1>4, <1>5 DEF RemoveAt, a, b

\* FrameList and ModalStack without one of their frames: one shorter, in the same order, and
\* with the same first frame unless that was it.
LEMMA Removing ==
  ASSUME NEW S, NEW s \in Seq(S), IsInjective(s), NEW e \in ToSet(s), NEW t, t = RemoveFirst(s, e)
  PROVE  /\ t \in Seq(S) /\ IsInjective(t) /\ Len(t) = Len(s) - 1
         /\ ToSet(t) = ToSet(s) \ {e}
         /\ s[1] # e => t # <<>> /\ t[1] = s[1]
<1>0. Len(s) \in Nat /\ DOMAIN s = 1 .. Len(s)  BY LenProperties
<1>1. PICK i \in 1 .. Len(s) : s[i] = e  BY <1>0 DEF ToSet
<1>2. t = RemoveAt(s, i)  BY <1>1, Indexed
<1>3. /\ t \in Seq(S) /\ Len(t) = Len(s) - 1
      /\ \A k \in 1 .. (Len(s) - 1) : t[k] = IF k < i THEN s[k] ELSE s[k + 1]
  BY <1>2, Shortening
<1>4. DOMAIN t = 1 .. (Len(s) - 1)  BY <1>3, LenProperties
<1>5. IsInjective(t)
  <2> SUFFICES ASSUME NEW a \in 1 .. (Len(s) - 1), NEW c \in 1 .. (Len(s) - 1), t[a] = t[c]
               PROVE  a = c
    BY <1>4 DEF IsInjective
  <2>1. PICK a1 \in 1 .. Len(s) : t[a] = s[a1] /\ a1 = IF a < i THEN a ELSE a + 1
    <3>1. (IF a < i THEN a ELSE a + 1) \in 1 .. Len(s)  BY <1>0
    <3> QED  BY <1>3, <3>1
  <2>2. PICK c1 \in 1 .. Len(s) : t[c] = s[c1] /\ c1 = IF c < i THEN c ELSE c + 1
    <3>1. (IF c < i THEN c ELSE c + 1) \in 1 .. Len(s)  BY <1>0
    <3> QED  BY <1>3, <3>1
  <2>3. a1 = c1  BY <2>1, <2>2, <1>0 DEF IsInjective
  <2> QED  BY <2>1, <2>2, <2>3
<1>6. ToSet(t) \subseteq ToSet(s) \ {e}
  <2> SUFFICES ASSUME NEW k \in 1 .. (Len(s) - 1) PROVE t[k] \in ToSet(s) \ {e}
    BY <1>4 DEF ToSet
  <2>1. PICK k1 \in 1 .. Len(s) : t[k] = s[k1] /\ k1 # i
    <3>1. (IF k < i THEN k ELSE k + 1) \in 1 .. Len(s)  BY <1>0
    <3> QED  BY <1>3, <3>1
  <2>2. s[k1] # e  BY <2>1, <1>1, <1>0 DEF IsInjective
  <2> QED  BY <2>1, <2>2, <1>0 DEF ToSet
<1>7. ToSet(s) \ {e} \subseteq ToSet(t)
  <2> SUFFICES ASSUME NEW k \in 1 .. Len(s), s[k] # e PROVE s[k] \in ToSet(t)
    BY <1>0 DEF ToSet
  <2>1. k # i  BY <1>1
  <2>2. CASE k < i
    <3>1. k \in 1 .. (Len(s) - 1)  BY <2>2, <1>0
    <3> QED  BY <3>1, <2>2, <1>3, <1>4 DEF ToSet
  <2>3. CASE k > i
    <3>1. k - 1 \in 1 .. (Len(s) - 1) /\ ~(k - 1 < i) /\ (k - 1) + 1 = k  BY <2>3, <1>0
    <3>2. t[k - 1] = s[k]  BY <3>1, <1>3
    <3> QED  BY <3>1, <3>2, <1>4 DEF ToSet
  <2> QED  BY <2>1, <2>2, <2>3, <1>0
<1>8. ASSUME s[1] # e PROVE t # <<>> /\ t[1] = s[1]
  <2>1. i > 1  BY <1>1, <1>8, <1>0
  <2>2. 1 \in 1 .. (Len(s) - 1) /\ 1 < i  BY <2>1, <1>0
  <2>3. Len(t) # 0  BY <2>2, <1>3, <1>0
  <2> QED  BY <2>2, <2>3, <1>3
<1> QED  BY <1>3, <1>5, <1>6, <1>7, <1>8

\* The top of ModalStack and what is under it.
LEMMA Popping ==
  ASSUME NEW S, NEW s \in Seq(S), IsInjective(s), s # <<>>
  PROVE  /\ Last(s) \in S /\ Last(s) \in ToSet(s)
         /\ Front(s) \in Seq(S) /\ Len(Front(s)) = Len(s) - 1 /\ Len(s) > 0
         /\ \A k \in 1 .. (Len(s) - 1) : Front(s)[k] = s[k]
         /\ RemoveFirst(s, Last(s)) = Front(s)
         /\ Append(Front(s), Last(s)) = s
<1>0. Len(s) \in Nat \ {0} /\ DOMAIN s = 1 .. Len(s) /\ \A k \in 1 .. Len(s) : s[k] \in S
  BY LenProperties, EmptySeq
<1> DEFINE n == Len(s) - 1
<1>a. n \in Nat /\ n + 1 = Len(s) /\ \A k \in 1 .. Len(s) : k \in 1 .. n \/ k = Len(s)
  <2>1. Len(s) \in Nat \ {0}  BY <1>0
  <2>2. PICK l \in Nat \ {0} : l = Len(s)  BY <2>1
  <2>3. l - 1 \in Nat /\ (l - 1) + 1 = l /\ \A k \in 1 .. l : k \in 1 .. (l - 1) \/ k = l  OBVIOUS
  <2> QED  BY <2>2, <2>3
<1>b. \A k \in 1 .. n : k \in 1 .. Len(s)  BY <1>0
<1>1. /\ Front(s) \in Seq(S) /\ Len(Front(s)) = n
      /\ \A k \in 1 .. n : Front(s)[k] = s[k]
  <2>0. Front(s) = SubSeq(s, 1, n)  BY DEF Front
  <2> HIDE DEF n
  <2>1. \A k \in 1 .. n : s[k] \in S  BY <1>0, <1>b
  <2>2. /\ Front(s) \in Seq(S) /\ Len(Front(s)) = IF 1 <= n THEN n - 1 + 1 ELSE 0
        /\ \A k \in 1 .. (n - 1 + 1) : Front(s)[k] = s[1 + k - 1]
    <3>1. 1 \in Int /\ n \in Int  BY <1>a
    <3> QED  BY <3>1, <2>0, <2>1, SubSeqProperties
  <2>3. Len(Front(s)) = n  BY <2>2, <1>a
  <2>4. \A k \in 1 .. n : Front(s)[k] = s[k]
    <3> TAKE k \in 1 .. n
    <3>1. k \in 1 .. (n - 1 + 1) /\ 1 + k - 1 = k  BY <1>a
    <3> QED  BY <2>2, <3>1
  <2> QED  BY <2>2, <2>3, <2>4
<1>2. Last(s) = s[Len(s)] /\ Len(s) \in 1 .. Len(s)  BY <1>0 DEF Last
<1>3. RemoveFirst(s, Last(s)) = RemoveAt(s, Len(s))  BY <1>2, Indexed
<1>4. RemoveAt(s, Len(s)) = Front(s)
  <2>1. /\ RemoveAt(s, Len(s)) \in Seq(S) /\ Len(RemoveAt(s, Len(s))) = Len(s) - 1
        /\ \A k \in 1 .. (Len(s) - 1) :
             RemoveAt(s, Len(s))[k] = IF k < Len(s) THEN s[k] ELSE s[k + 1]
    BY <1>2, Shortening
  <2>2. \A k \in 1 .. (Len(s) - 1) : RemoveAt(s, Len(s))[k] = Front(s)[k]
    BY <2>1, <1>1, <1>0
  <2> QED  BY <2>1, <2>2, <1>1, SeqEqual
<1>5. Append(Front(s), Last(s)) = s
  <2>1. Last(s) \in S  BY <1>0, <1>2
  <2>2. /\ Append(Front(s), Last(s)) \in Seq(S)
        /\ Len(Append(Front(s), Last(s))) = Len(Front(s)) + 1
        /\ \A i \in 1 .. Len(Front(s)) : Append(Front(s), Last(s))[i] = Front(s)[i]
        /\ Append(Front(s), Last(s))[Len(Front(s)) + 1] = Last(s)
    BY <1>1, <2>1, AppendProperties
  <2>3. Len(Append(Front(s), Last(s))) = Len(s) /\ Len(Front(s)) + 1 = Len(s)  BY <2>2, <1>1, <1>0
  <2>4. \A k \in 1 .. Len(s) : Append(Front(s), Last(s))[k] = s[k]
    <3> TAKE k \in 1 .. Len(s)
    <3>1. k \in 1 .. n \/ k = Len(s)  BY <1>a
    <3> QED  BY <3>1, <2>2, <2>3, <1>1, <1>2
  <2> QED  BY <2>2, <2>3, <2>4, SeqEqual
<1> QED  BY <1>0, <1>1, <1>2, <1>3, <1>4, <1>5 DEF ToSet

\* Append under another name, which keeps the provers from evaluating it
Pushed(s, e) == Append(s, e)

\* A frame pushed onto ModalStack or appended to FrameList is the last one.
LEMMA Pushing ==
  ASSUME NEW S, NEW s \in Seq(S), IsInjective(s), NEW e \in S, e \notin ToSet(s),
         NEW t, t = Pushed(s, e)
  PROVE  /\ t \in Seq(S) /\ t # <<>> /\ IsInjective(t) /\ Len(t) = Len(s) + 1
         /\ ToSet(t) = ToSet(s) \cup {e} /\ Last(t) = e /\ t[Len(s) + 1] = e
         /\ \A k \in 1 .. Len(s) : t[k] = s[k]
<1>0. Len(s) \in Nat /\ DOMAIN s = 1 .. Len(s)  BY LenProperties
<1>1. /\ t \in Seq(S) /\ t # <<>> /\ Len(t) = Len(s) + 1
      /\ \A k \in 1 .. Len(s) : t[k] = s[k]
      /\ t[Len(s) + 1] = e
  BY AppendProperties DEF Pushed
<1>2. DOMAIN t = 1 .. (Len(s) + 1)  BY <1>1, LenProperties
<1>3. \A k \in 1 .. Len(s) : s[k] # e  BY <1>0 DEF ToSet
<1>4. IsInjective(t)
  <2> SUFFICES ASSUME NEW a \in 1 .. (Len(s) + 1), NEW c \in 1 .. (Len(s) + 1), t[a] = t[c]
               PROVE  a = c
    BY <1>2 DEF IsInjective
  <2>1. (a \in 1 .. Len(s) \/ a = Len(s) + 1) /\ (c \in 1 .. Len(s) \/ c = Len(s) + 1)  BY <1>0
  <2> QED  BY <2>1, <1>0, <1>1, <1>3 DEF IsInjective
<1>5. ToSet(t) \subseteq ToSet(s) \cup {e}
  <2> SUFFICES ASSUME NEW a \in 1 .. (Len(s) + 1) PROVE t[a] \in ToSet(s) \cup {e}
    BY <1>2 DEF ToSet
  <2>1. a \in 1 .. Len(s) \/ a = Len(s) + 1  BY <1>0
  <2> QED  BY <2>1, <1>0, <1>1 DEF ToSet
<1>6. ToSet(s) \cup {e} \subseteq ToSet(t)
  <2>1. Len(s) + 1 \in 1 .. (Len(s) + 1) /\ \A k \in 1 .. Len(s) : k \in 1 .. (Len(s) + 1)  BY <1>0
  <2> QED  BY <2>1, <1>0, <1>1, <1>2 DEF ToSet
<1> QED  BY <1>1, <1>4, <1>5, <1>6 DEF Last

\* A frame of FrameList or ModalStack gives its place to one that was not there.
LEMMA Exchanging ==
  ASSUME NEW S, NEW s \in Seq(S), IsInjective(s), NEW i \in 1 .. Len(s), NEW e, s[i] = e,
         NEW g \in S, g \notin ToSet(s), NEW t, t = ReplaceAt(s, i, g)
  PROVE  /\ t \in Seq(S) /\ IsInjective(t) /\ Len(t) = Len(s) /\ t # <<>>
         /\ ToSet(t) = (ToSet(s) \ {e}) \cup {g}
         /\ s[1] # e => t[1] = s[1]
<1>0. Len(s) \in Nat /\ DOMAIN s = 1 .. Len(s)  BY LenProperties
<1>1. s[i] = e  OBVIOUS
<1>2. t = [s EXCEPT ![i] = g]  BY DEF ReplaceAt
<1>3. /\ t \in Seq(S) /\ Len(t) = Len(s)
      /\ \A j \in 1 .. Len(s) : t[j] = IF j = i THEN g ELSE s[j]
  BY <1>2, ExceptSeq
<1>4. DOMAIN t = 1 .. Len(s)  BY <1>3, LenProperties
<1>5. \A k \in 1 .. Len(s) : s[k] # g  BY <1>0 DEF ToSet
<1>6. IsInjective(t)
  <2> SUFFICES ASSUME NEW a \in 1 .. Len(s), NEW c \in 1 .. Len(s), t[a] = t[c] PROVE a = c
    BY <1>4 DEF IsInjective
  <2> QED  BY <1>3, <1>5, <1>0 DEF IsInjective
<1>7. ToSet(t) = (ToSet(s) \ {e}) \cup {g}
  <2>1. \A k \in 1 .. Len(s) : s[k] = e => k = i  BY <1>0, <1>1 DEF IsInjective
  <2>2. ToSet(t) \subseteq (ToSet(s) \ {e}) \cup {g}  BY <2>1, <1>0, <1>3, <1>4 DEF ToSet
  <2>3. g \in ToSet(t)  BY <1>3, <1>4, <1>1 DEF ToSet
  <2>4. ToSet(s) \ {e} \subseteq ToSet(t)
    <3> SUFFICES ASSUME NEW k \in 1 .. Len(s), s[k] # e PROVE s[k] \in ToSet(t)
      BY <1>0 DEF ToSet
    <3>1. k # i  BY <1>1
    <3> QED  BY <3>1, <1>3, <1>4 DEF ToSet
  <2> QED  BY <2>2, <2>3, <2>4
<1>8. 1 \in 1 .. Len(s)  BY <1>0
<1>9. t # <<>>  BY <1>3, <1>8
<1> QED  BY <1>1, <1>3, <1>6, <1>7, <1>8, <1>9

-----------------------------------------------------------------------------
(* The functions of the manager                                            *)

\* A Frame pointer of the manager, or nullptr
Slot == AllFrames \cup {NoFrame}

\* The requests other than to delete and to activate are the same
SameRequests(m, r) ==
  /\ r.inserted = m.inserted /\ r.executed = m.executed
  /\ r.deactivated = m.deactivated /\ r.refreshed = m.refreshed

\* The type of each member of a manager.
LEMMA Fields ==
  ASSUME NEW m \in Managers
  PROVE  /\ m.list \in Seq(AllFrames) /\ m.pos \in Int /\ m.stack \in Seq(AllFrames)
         /\ m.inserted \in Slot /\ m.deleted \in Slot /\ m.activated \in Slot
         /\ m.deactivated \in Slot /\ m.refreshed \in Slot /\ m.executed \in Slot
         /\ m.current \in Slot /\ m.live \subseteq AllFrames
         /\ m.kind \in [AllFrames -> Kinds] /\ m.back \in [AllFrames -> Slot]
  BY DEF Managers, Slot

\* nullptr is no frame, and the panels are one.
LEMMA Nobody == NoFrame \notin AllFrames /\ Panels \in AllFrames /\ Frames \subseteq AllFrames
  BY FramesAssumption DEF AllFrames

\* InList and InStack tell what FrameList and ModalStack hold.
LEMMA Listed ==
  ASSUME NEW m \in Managers, NEW f
  PROVE  (InList(m, f) <=> f \in ToSet(m.list)) /\ (InStack(m, f) <=> f \in ToSet(m.stack))
  BY Fields, Holding DEF InList, InStack

\* FrameList and ModalStack hold frames.
LEMMA Members ==
  ASSUME NEW m \in Managers
  PROVE  ToSet(m.list) \subseteq AllFrames /\ ToSet(m.stack) \subseteq AllFrames
  BY Fields, LenProperties DEF ToSet

\* ActivateFrame only fills the slot, with a frame it finds, and only when it is free.
LEMMA Activating ==
  ASSUME NEW m \in Managers, NEW f, NEW r, r = ActivateFrame(m, f)
  PROVE  /\ r \in Managers
         /\ r.list = m.list /\ r.pos = m.pos /\ r.stack = m.stack /\ r.live = m.live
         /\ r.kind = m.kind /\ r.back = m.back /\ r.current = m.current
         /\ r.deleted = m.deleted /\ SameRequests(m, r)
         /\ r.activated = IF m.activated = NoFrame /\ f \in ToSet(m.list) \cup ToSet(m.stack)
                            THEN f ELSE m.activated
<1>1. CASE m.activated = NoFrame /\ f \in ToSet(m.list) \cup ToSet(m.stack)
  <2>1. f \in AllFrames  BY <1>1, Members
  <2>2. r = [m EXCEPT !.activated = f]  BY <1>1, Listed DEF ActivateFrame
  <2>3. r \in Managers  BY <2>1, <2>2 DEF Managers
  <2> QED  BY <1>1, <2>2, <2>3 DEF Managers, SameRequests
<1>2. CASE ~(m.activated = NoFrame /\ f \in ToSet(m.list) \cup ToSet(m.stack))
  <2>1. r = m  BY <1>2, Listed DEF ActivateFrame
  <2> QED  BY <1>2, <2>1 DEF SameRequests
<1> QED  BY <1>1, <1>2

\* After a deletion the top of ModalStack is chosen, unless something is chosen already.
LEMMA Uppering ==
  ASSUME NEW m \in Managers, IsInjective(m.stack), NEW r, r = ActivateTop(m)
  PROVE  /\ r \in Managers
         /\ r.list = m.list /\ r.pos = m.pos /\ r.stack = m.stack /\ r.live = m.live
         /\ r.kind = m.kind /\ r.back = m.back /\ r.current = m.current
         /\ r.deleted = m.deleted /\ SameRequests(m, r)
         /\ r.activated = IF m.activated = NoFrame /\ m.stack # <<>>
                            THEN Last(m.stack) ELSE m.activated
<1>1. CASE m.stack = <<>>
  <2>1. r = m  BY <1>1 DEF ActivateTop
  <2> QED  BY <1>1, <2>1 DEF SameRequests
<1>2. CASE m.stack # <<>>
  <2>1. Last(m.stack) \in ToSet(m.stack)  BY <1>2, Fields, Popping
  <2>2. r = ActivateFrame(m, Last(m.stack))  BY <1>2 DEF ActivateTop
  <2> QED  BY <1>2, <2>1, <2>2, Activating
<1> QED  BY <1>1, <1>2

\* RemoveFirst, whether or not the frame is there.
LEMMA Shrinking ==
  ASSUME NEW S, NEW s \in Seq(S), IsInjective(s), NEW e, NEW t, t = RemoveFirst(s, e)
  PROVE  /\ t \in Seq(S) /\ IsInjective(t) /\ ToSet(t) = ToSet(s) \ {e}
         /\ s[1] # e /\ s # <<>> => t # <<>> /\ t[1] = s[1]
         /\ Len(t) = IF e \in ToSet(s) THEN Len(s) - 1 ELSE Len(s)
<1>1. CASE e \in ToSet(s)  BY <1>1, Removing
<1>2. CASE e \notin ToSet(s)
  <2>1. t = s  BY <1>2, Missing
  <2> QED  BY <1>2, <2>1
<1> QED  BY <1>1, <1>2

\* DeleteCommit takes the frame out of ModalStack and chooses the one below it.
LEMMA Unstacking ==
  ASSUME NEW m \in Managers, IsInjective(m.stack), NEW f \in AllFrames, NEW r, r = Unstack(m, f)
  PROVE  /\ r \in Managers
         /\ r.list = m.list /\ r.pos = m.pos /\ r.stack = RemoveFirst(m.stack, f) /\ r.live = m.live
         /\ r.kind = m.kind /\ r.back = m.back /\ r.current = m.current
         /\ r.deleted = m.deleted /\ SameRequests(m, r)
         /\ m.activated # NoFrame => r.activated = m.activated
         /\ m.activated = NoFrame =>
              r.activated = IF f \in ToSet(m.stack) /\ r.stack # <<>> THEN Last(r.stack) ELSE NoFrame
<1> DEFINE t == RemoveFirst(m.stack, f)
<1>0. t \in Seq(AllFrames) /\ IsInjective(t)  BY Fields, Shrinking
<1>1. CASE f \in ToSet(m.stack)
  <2> DEFINE n == [m EXCEPT !.stack = RemoveFirst(@, f)]
  <2>1. r = ActivateTop(n) /\ n = [m EXCEPT !.stack = t]  BY <1>1, Listed DEF Unstack
  <2> HIDE DEF t
  <2>2. n \in Managers /\ n.stack = t  BY <2>1, <1>0 DEF Managers
  <2>3. /\ n.list = m.list /\ n.pos = m.pos /\ n.live = m.live
        /\ n.kind = m.kind /\ n.back = m.back /\ n.current = m.current
        /\ n.deleted = m.deleted /\ SameRequests(m, n) /\ n.activated = m.activated
    BY <2>1 DEF Managers, SameRequests
  <2> HIDE DEF n
  <2>4. /\ r \in Managers
        /\ r.list = n.list /\ r.pos = n.pos /\ r.stack = n.stack /\ r.live = n.live
        /\ r.kind = n.kind /\ r.back = n.back /\ r.current = n.current
        /\ r.deleted = n.deleted /\ SameRequests(n, r)
        /\ r.activated = IF n.activated = NoFrame /\ n.stack # <<>>
                            THEN Last(n.stack) ELSE n.activated
    BY <2>1, <2>2, <1>0, Uppering
  <2>5. r.stack = RemoveFirst(m.stack, f)  BY <2>4, <2>2 DEF t
  <2>6. SameRequests(m, r)  BY <2>3, <2>4 DEF SameRequests
  <2> QED  BY <1>1, <2>2, <2>3, <2>4, <2>5, <2>6
<1>2. CASE f \notin ToSet(m.stack)
  <2>1. r = m  BY <1>2, Listed DEF Unstack
  <2>2. t = m.stack  BY <1>2, Fields, Missing
  <2> QED  BY <1>2, <2>1, <2>2 DEF SameRequests
<1> QED  BY <1>1, <1>2

\* DeleteCommit: the frames of the list that go back to the deleted one go back to the panels.
LEMMA Forgetting ==
  ASSUME NEW m \in Managers, NEW f \in AllFrames, NEW r, r = ForgetBack(m, f)
  PROVE  /\ r \in Managers
         /\ r.list = m.list /\ r.pos = m.pos /\ r.stack = m.stack /\ r.live = m.live
         /\ r.kind = m.kind /\ r.current = m.current
         /\ r.deleted = m.deleted /\ SameRequests(m, r) /\ r.activated = m.activated
         /\ \A g \in AllFrames :
              r.back[g] = IF g \in ToSet(m.list) /\ m.back[g] = f THEN Panels ELSE m.back[g]
<1> DEFINE b == [g \in AllFrames |->
                   IF InList(m, g) /\ m.back[g] = f THEN Panels ELSE m.back[g]]
<1>1. b \in [AllFrames -> Slot]  BY Fields, Nobody DEF Slot
<1>2. \A g \in AllFrames :
        b[g] = IF g \in ToSet(m.list) /\ m.back[g] = f THEN Panels ELSE m.back[g]
  BY Listed
<1>3. r = [m EXCEPT !.back = b]  BY DEF ForgetBack
<1> HIDE DEF b
<1>4. r \in Managers /\ r.back = b  BY <1>1, <1>3 DEF Managers, Slot
<1>5. /\ r.list = m.list /\ r.pos = m.pos /\ r.stack = m.stack /\ r.live = m.live
      /\ r.kind = m.kind /\ r.current = m.current
      /\ r.deleted = m.deleted /\ SameRequests(m, r) /\ r.activated = m.activated
  BY <1>3 DEF Managers, SameRequests
<1> QED  BY <1>2, <1>4, <1>5

\* DeleteCommit takes the frame out of FrameList, puts FramePos within the shorter list, and
\* chooses another frame of it, if any.
LEMMA Unlisting ==
  ASSUME NEW m \in Managers, IsInjective(m.list), NEW f \in AllFrames, NEW r, r = Unlist(m, f)
  PROVE  /\ r \in Managers
         /\ r.list = RemoveFirst(m.list, f) /\ r.stack = m.stack /\ r.live = m.live
         /\ r.pos = IF f \in ToSet(m.list) /\ m.pos >= Len(r.list) THEN 0 ELSE m.pos
         /\ r.kind = m.kind /\ r.back = m.back /\ r.current = m.current
         /\ r.deleted = m.deleted /\ SameRequests(m, r)
         /\ m.activated # NoFrame \/ f \notin ToSet(m.list) => r.activated = m.activated
         /\ m.activated = NoFrame =>
              r.activated \in ToSet(r.list) \cup ToSet(r.stack) \cup {NoFrame}
<1> DEFINE t == RemoveFirst(m.list, f)
<1>0. t \in Seq(AllFrames) /\ IsInjective(t) /\ Len(t) \in Nat
  BY Fields, Shrinking, LenProperties
<1>1. CASE f \in ToSet(m.list)
  <2> DEFINE p == IF m.pos >= Len(t) THEN 0 ELSE m.pos
             n == [m EXCEPT !.list = t, !.pos = IF @ >= Len(t) THEN 0 ELSE @]
             x == IF m.back[f] = Panels
                    THEN IF t = <<>> THEN f ELSE n.list[n.pos + 1] ELSE m.back[f]
  <2>1. r = ActivateFrame(n, x)  BY <1>1, Listed DEF Unlist
  <2>2. n = [m EXCEPT !.list = t, !.pos = p]  BY Fields
  <2>3. p \in Int  BY Fields
  <2> HIDE DEF t, p
  <2>4. n \in Managers /\ n.list = t /\ n.pos = p
    <3>1. n \in Managers  BY <2>2, <2>3, <1>0, ZenonT(40) DEF Managers
    <3>2. n.list = t /\ n.pos = p  BY <2>2, <1>0 DEF Managers
    <3> QED  BY <3>1, <3>2
  <2>5. /\ n.stack = m.stack /\ n.live = m.live
        /\ n.kind = m.kind /\ n.back = m.back /\ n.current = m.current
        /\ n.deleted = m.deleted /\ SameRequests(m, n) /\ n.activated = m.activated
    BY <2>2 DEF Managers, SameRequests
  <2> HIDE DEF n, x
  <2>6. /\ r \in Managers
        /\ r.list = n.list /\ r.pos = n.pos /\ r.stack = n.stack /\ r.live = n.live
        /\ r.kind = n.kind /\ r.back = n.back /\ r.current = n.current
        /\ r.deleted = n.deleted /\ SameRequests(n, r)
        /\ r.activated = IF n.activated = NoFrame /\ x \in ToSet(n.list) \cup ToSet(n.stack)
                            THEN x ELSE n.activated
    BY <2>1, <2>4, Activating
  <2>7. r.list = RemoveFirst(m.list, f) /\ r.pos = IF m.pos >= Len(r.list) THEN 0 ELSE m.pos
    BY <2>4, <2>6 DEF t, p
  <2>8. SameRequests(m, r)  BY <2>5, <2>6 DEF SameRequests
  <2> QED  BY <1>1, <2>5, <2>6, <2>7, <2>8
<1>2. CASE f \notin ToSet(m.list)
  <2>1. r = m  BY <1>2, Listed DEF Unlist
  <2>2. t = m.list  BY <1>2, Fields, Missing
  <2> QED  BY <1>2, <2>1, <2>2 DEF SameRequests
<1> QED  BY <1>1, <1>2

\* A frame that is not born dynamically is left to its function
Unburied(m, r, f) ==
  r.live = m.live /\ r.kind[f] = m.kind[f] /\ r.current = m.current /\ r.deleted = m.deleted

\* Any other is destroyed, and CurrentFrame forgotten if it was that
Buried(m, r, f) ==
  /\ r.live = m.live \ {f} /\ r.kind[f] = "screen" /\ r.deleted = NoFrame
  /\ m.current = f => r.current = NoFrame
  /\ m.current # f => r.current = m.current

\* `delete aFrame` at the end of DeleteCommit: for a frame born dynamically, and only that.
LEMMA Burying ==
  ASSUME NEW m \in Managers, NEW f \in AllFrames, NEW r, r = Bury(m, f)
  PROVE  /\ r \in Managers
         /\ r.list = m.list /\ r.stack = m.stack /\ r.pos = m.pos
         /\ \A g \in AllFrames \ {f} : r.kind[g] = m.kind[g] /\ r.back[g] = m.back[g]
         /\ m.kind[f] = "auto" => Unburied(m, r, f)
         /\ m.kind[f] # "auto" => Buried(m, r, f)
         /\ SameRequests(m, r) /\ r.activated = m.activated
<1>1. CASE m.kind[f] = "auto"
  <2>1. r = m  BY <1>1 DEF Bury, Born
  <2> QED  BY <1>1, <2>1 DEF SameRequests, Unburied
<1>2. CASE m.kind[f] # "auto"
  <2> DEFINE c == IF m.current = f THEN NoFrame ELSE m.current
             k == [m.kind EXCEPT ![f] = "screen"]
             b == [m.back EXCEPT ![f] = NoFrame]
             l == m.live \ {f}
  <2>1. r = [m EXCEPT !.current = c, !.deleted = NoFrame, !.live = l, !.kind = k, !.back = b]
    BY <1>2 DEF Bury, Born, Destroy, Managers
  <2>2. c \in Slot /\ k \in [AllFrames -> Kinds] /\ b \in [AllFrames -> Slot] /\ l \subseteq AllFrames
    BY Fields DEF Slot, Kinds
  <2>3. /\ \A g \in AllFrames \ {f} : k[g] = m.kind[g] /\ b[g] = m.back[g]
        /\ k[f] = "screen"
    BY Fields
  <2> HIDE DEF c, k, b, l
  <2>4. /\ r \in Managers /\ r.current = c /\ r.deleted = NoFrame /\ r.live = l /\ r.kind = k
        /\ r.back = b
    BY <2>1, <2>2 DEF Managers, Slot
  <2>5. /\ r.list = m.list /\ r.stack = m.stack /\ r.pos = m.pos
        /\ SameRequests(m, r) /\ r.activated = m.activated
    BY <2>1 DEF Managers, SameRequests
  <2> QED  BY <1>2, <2>3, <2>4, <2>5 DEF c, l, Buried
<1> QED  BY <1>1, <1>2

\* The whole of DeleteCommit: the two lists without the frame, no frame that goes back to it,
\* and the next frame to activate.
LEMMA Deleting ==
  ASSUME NEW m \in Managers, IsInjective(m.list), IsInjective(m.stack), NEW f \in AllFrames,
         NEW r, r = DeleteCommit(m, f)
  PROVE  /\ r \in Managers
         /\ r.list = RemoveFirst(m.list, f) /\ r.stack = RemoveFirst(m.stack, f)
         /\ r.pos = IF f \in ToSet(m.list) /\ m.pos >= Len(r.list) THEN 0 ELSE m.pos
         /\ \A g \in AllFrames \ {f} : r.kind[g] = m.kind[g]
         /\ m.kind[f] = "auto" => Unburied(m, r, f)
         /\ m.kind[f] # "auto" => Buried(m, r, f)
         /\ \A g \in AllFrames \ {f} :
              r.back[g] = IF g \in ToSet(m.list) /\ m.back[g] = f THEN Panels ELSE m.back[g]
         /\ SameRequests(m, r)
         /\ m.activated # NoFrame => r.activated = m.activated
         /\ m.activated = NoFrame =>
              /\ r.activated \in ToSet(r.list) \cup ToSet(r.stack) \cup {NoFrame}
              /\ r.stack # <<>> /\ f \notin ToSet(m.list) => r.activated = Last(r.stack)
              /\ r.stack = <<>> /\ r.pos \in 0 .. (Len(r.list) - 1) => r.activated # NoFrame
<1> DEFINE a == Unstack(m, f)
           b == ForgetBack(a, f)
           c == Unlist(b, f)
           d == Bury(c, f)
<1>1. /\ a \in Managers
      /\ a.list = m.list /\ a.pos = m.pos /\ a.stack = RemoveFirst(m.stack, f) /\ a.live = m.live
      /\ a.kind = m.kind /\ a.back = m.back /\ a.current = m.current
      /\ a.deleted = m.deleted /\ SameRequests(m, a)
      /\ m.activated # NoFrame => a.activated = m.activated
      /\ m.activated = NoFrame =>
           a.activated = IF f \in ToSet(m.stack) /\ a.stack # <<>> THEN Last(a.stack) ELSE NoFrame
  BY Unstacking
<1> HIDE DEF a
<1>2. /\ b \in Managers
      /\ b.list = a.list /\ b.pos = a.pos /\ b.stack = a.stack /\ b.live = a.live
      /\ b.kind = a.kind /\ b.current = a.current
      /\ b.deleted = a.deleted /\ SameRequests(a, b) /\ b.activated = a.activated
      /\ \A g \in AllFrames :
           b.back[g] = IF g \in ToSet(a.list) /\ a.back[g] = f THEN Panels ELSE a.back[g]
  BY <1>1, Forgetting
<1> HIDE DEF b
<1>3. /\ c \in Managers
      /\ c.list = RemoveFirst(b.list, f) /\ c.stack = b.stack /\ c.live = b.live
      /\ c.pos = IF f \in ToSet(b.list) /\ b.pos >= Len(c.list) THEN 0 ELSE b.pos
      /\ c.kind = b.kind /\ c.back = b.back /\ c.current = b.current
      /\ c.deleted = b.deleted /\ SameRequests(b, c)
      /\ b.activated # NoFrame \/ f \notin ToSet(b.list) => c.activated = b.activated
      /\ b.activated = NoFrame =>
           c.activated \in ToSet(c.list) \cup ToSet(c.stack) \cup {NoFrame}
  BY <1>1, <1>2, Unlisting
<1> HIDE DEF c
<1>d. d = Bury(c, f) /\ c \in Managers  BY <1>3
<1>5. r = IF d.stack # <<>> THEN ActivateTop(d) ELSE ActivateFrame(d, FrameAt(d, d.pos))
  BY DEF DeleteCommit, a, b, c, ActivateIndex
<1> HIDE DEF d
<1>4. /\ d \in Managers
      /\ d.list = c.list /\ d.stack = c.stack /\ d.pos = c.pos
      /\ \A g \in AllFrames \ {f} : d.kind[g] = c.kind[g] /\ d.back[g] = c.back[g]
      /\ c.kind[f] = "auto" => Unburied(c, d, f)
      /\ c.kind[f] # "auto" => Buried(c, d, f)
      /\ SameRequests(c, d) /\ d.activated = c.activated
  BY <1>d, Burying
<1>6. d.stack = RemoveFirst(m.stack, f) /\ d.list = RemoveFirst(m.list, f)
  BY <1>1, <1>2, <1>3, <1>4
<1>7. /\ d.stack \in Seq(AllFrames) /\ IsInjective(d.stack)
      /\ d.list \in Seq(AllFrames) /\ IsInjective(d.list)
  BY <1>6, Fields, Shrinking
<1>8. /\ r \in Managers
      /\ r.list = d.list /\ r.pos = d.pos /\ r.stack = d.stack /\ r.live = d.live
      /\ r.kind = d.kind /\ r.back = d.back /\ r.current = d.current
      /\ r.deleted = d.deleted /\ SameRequests(d, r)
      /\ d.activated # NoFrame => r.activated = d.activated
      /\ d.activated = NoFrame =>
           r.activated = IF d.stack # <<>> THEN Last(d.stack)
                         ELSE IF FrameAt(d, d.pos) \in ToSet(d.list) \cup ToSet(d.stack)
                           THEN FrameAt(d, d.pos) ELSE NoFrame
  <2>1. CASE d.stack # <<>>
    <3>1. r = ActivateTop(d)  BY <1>5, <2>1
    <3> QED  BY <2>1, <3>1, <1>4, <1>7, Uppering
  <2>2. CASE d.stack = <<>>
    <3>1. r = ActivateFrame(d, FrameAt(d, d.pos))  BY <1>5, <2>2
    <3> QED  BY <2>2, <3>1, <1>4, Activating
  <2> QED  BY <2>1, <2>2
<1>9. SameRequests(m, r)  BY <1>1, <1>2, <1>3, <1>4, <1>8 DEF SameRequests
<1>10. m.activated # NoFrame => r.activated = m.activated
  BY <1>1, <1>2, <1>3, <1>4, <1>8
<1>11. ASSUME m.activated = NoFrame
       PROVE  /\ r.activated \in ToSet(r.list) \cup ToSet(r.stack) \cup {NoFrame}
              /\ r.stack # <<>> /\ f \notin ToSet(m.list) => r.activated = Last(r.stack)
              /\ r.stack = <<>> /\ r.pos \in 0 .. (Len(r.list) - 1) => r.activated # NoFrame
  <2>1. d.stack # <<>> => Last(d.stack) \in ToSet(d.stack)  BY <1>7, Popping
  <2>2. d.activated \in ToSet(d.list) \cup ToSet(d.stack) \cup {NoFrame}
    <3>1. b.activated \in ToSet(d.stack) \cup {NoFrame}
      BY <1>11, <1>1, <1>2, <1>3, <1>4, <2>1
    <3> QED  BY <3>1, <1>3, <1>4
  <2>3. r.activated \in ToSet(r.list) \cup ToSet(r.stack) \cup {NoFrame}
    BY <2>1, <2>2, <1>8
  <2>4. ASSUME r.stack # <<>>, f \notin ToSet(m.list) PROVE r.activated = Last(r.stack)
    <3>1. d.activated = a.activated  BY <2>4, <1>1, <1>2, <1>3, <1>4
    <3>2. d.activated = Last(d.stack) \/ d.activated = NoFrame
      BY <3>1, <1>11, <1>1, <1>2, <1>3, <1>4
    <3> QED  BY <3>2, <2>4, <1>8
  <2>5. ASSUME r.stack = <<>>, r.pos \in 0 .. (Len(r.list) - 1) PROVE r.activated # NoFrame
    <3>1. FrameAt(d, d.pos) = d.list[d.pos + 1]  BY <2>5, <1>8 DEF FrameAt
    <3>2. d.pos + 1 \in 1 .. Len(d.list)  BY <2>5, <1>8, <1>7, LenProperties
    <3>3. FrameAt(d, d.pos) \in ToSet(d.list) /\ FrameAt(d, d.pos) # NoFrame
      BY <3>1, <3>2, <1>7, LenProperties, Nobody DEF ToSet
    <3> QED  BY <3>3, <2>5, <1>8
  <2> QED  BY <2>3, <2>4, <2>5
<1>12. \A g \in AllFrames \ {f} :
         /\ r.kind[g] = m.kind[g]
         /\ r.back[g] = IF g \in ToSet(m.list) /\ m.back[g] = f THEN Panels ELSE m.back[g]
  BY <1>1, <1>2, <1>3, <1>4, <1>8
<1>13. /\ r.pos = IF f \in ToSet(m.list) /\ m.pos >= Len(r.list) THEN 0 ELSE m.pos
       /\ m.kind[f] = "auto" => Unburied(m, r, f)
       /\ m.kind[f] # "auto" => Buried(m, r, f)
  BY <1>1, <1>2, <1>3, <1>4, <1>8 DEF Unburied, Buried
<1> QED  BY <1>6, <1>8, <1>9, <1>10, <1>11, <1>12, <1>13

-----------------------------------------------------------------------------
(* The states of the manager                                               *)

\* No frame is listed twice
Distinct(m) == IsInjective(m.list) /\ IsInjective(m.stack)

\* The panels are the panels, and nothing else is
PanelsTold(m) == \A f \in AllFrames : m.kind[f] = "panels" <=> f = Panels

\* A frame of the list exists, can lose focus, and goes back to a frame of the list
ListLinked(m) ==
  \A f \in ToSet(m.list) :
    f \in m.live /\ CanLoseFocus(m, f) /\ m.back[f] \in ToSet(m.list) \cup {NoFrame}

\* A frame of the stack exists and cannot lose focus
StackLinked(m) == \A f \in ToSet(m.stack) : f \in m.live /\ ~CanLoseFocus(m, f)

\* The current frame exists
CurrentLinked(m) == m.current \in m.live \cup {NoFrame}

\* The pointers of a manager, and where they lead
Linked(m) ==
  /\ m \in Managers
  /\ Distinct(m) /\ PanelsTold(m) /\ ListLinked(m) /\ StackLinked(m) /\ CurrentLinked(m)

\* ... once the panels have been inserted
Grounded(m) == Linked(m) /\ m.list # <<>> /\ m.list[1] = Panels

\* The frame that keys should go to: the top of the modal stack, or the one at FramePos
Uppermost(m) == IF m.stack = <<>> THEN FrameAt(m, m.pos) ELSE Last(m.stack)

\* FramePos is a place of the list
OnList(m) == m.pos \in 0 .. (Len(m.list) - 1)

\* There is no request to change the list or the stack
Unstructured(m) == m.inserted = NoFrame /\ m.deleted = NoFrame /\ m.executed = NoFrame

\* Keys go where they should
Placed(m) == Grounded(m) /\ OnList(m) /\ m.current = Uppermost(m)

\* There is no request about the focus
Unfocused(m) == m.activated = NoFrame /\ m.deactivated = NoFrame

\* Between two Commits: nothing is requested but a repaint
Settled(m) == Placed(m) /\ Unstructured(m) /\ Unfocused(m)

\* What InsertFrame is called for: a new frame, when no modal one is open
MayInsert(m, f) ==
  /\ m.stack = <<>> /\ f \in Frames \cap m.live
  /\ m.kind[f] = "screen" /\ f \notin ToSet(m.list)

\* What ExecuteFrame is called for: a new modal frame
MayExecute(m, f) ==
  f \in Frames \cap m.live /\ ~CanLoseFocus(m, f) /\ f \notin ToSet(m.stack)

\* What DeleteFrame is called for: the uppermost frame, or one of the list behind it
MayDelete(m, f) ==
  /\ f # Panels
  /\ f = Uppermost(m) \/ (m.stack = <<>> /\ f \in ToSet(m.list))

\* A Commit that begins, with requests to change the list or the stack
Requesting(m) ==
  /\ Placed(m) /\ Unfocused(m)
  /\ m.inserted # NoFrame => MayInsert(m, m.inserted) /\ m.executed = NoFrame
  /\ m.executed # NoFrame => MayExecute(m, m.executed)
  /\ m.deleted # NoFrame =>
       /\ MayDelete(m, m.deleted)
       /\ m.inserted = NoFrame /\ m.executed = NoFrame => m.deleted = Uppermost(m)

\* A Commit that goes on, with requests about the focus; the frame to be activated is the
\* uppermost one unless it was chosen by the one who asked
Focusing(m) ==
  /\ Grounded(m) /\ Unstructured(m)
  /\ m.deactivated # NoFrame => m.stack = <<>> /\ m.deactivated \in ToSet(m.list)
  /\ m.activated = NoFrame => OnList(m) /\ m.current = Uppermost(m)
  /\ m.activated # NoFrame =>
       /\ IF m.stack = <<>> THEN m.activated \in ToSet(m.list) ELSE m.activated = Last(m.stack)
       /\ m.activated = m.current => m.current = Uppermost(m)
       /\ OnList(m) \/ (m.stack = <<>> /\ m.activated # m.current)

\* Whatever Commit finds
Sound(m) == m = StartedManager \/ Requesting(m) \/ Focusing(m)

\* The uppermost frame is in its list, exists, and can lose focus when no modal frame is open.
LEMMA UppermostIs ==
  ASSUME NEW m, Grounded(m), OnList(m)
  PROVE  /\ m.stack = <<>> => Uppermost(m) \in ToSet(m.list) /\ Uppermost(m) = m.list[m.pos + 1]
                               /\ m.pos + 1 \in 1 .. Len(m.list)
         /\ m.stack # <<>> => Uppermost(m) \in ToSet(m.stack) /\ Uppermost(m) = Last(m.stack)
         /\ Uppermost(m) \in m.live /\ Uppermost(m) # NoFrame
         /\ CanLoseFocus(m, Uppermost(m)) <=> m.stack = <<>>
<1>0. m \in Managers /\ IsInjective(m.list) /\ IsInjective(m.stack)
  BY DEF Grounded, Linked, Distinct
<1>1. ToSet(m.list) \subseteq m.live /\ ToSet(m.stack) \subseteq m.live /\ m.live \subseteq AllFrames
  BY <1>0, Fields DEF Grounded, Linked, ListLinked, StackLinked
<1>2. CASE m.stack = <<>>
  <2>1. m.pos + 1 \in 1 .. Len(m.list) /\ Len(m.list) \in Nat
    BY <1>0, Fields, LenProperties DEF OnList
  <2>2. Uppermost(m) = m.list[m.pos + 1]  BY <1>2 DEF Uppermost, FrameAt, OnList
  <2>3. Uppermost(m) \in ToSet(m.list)  BY <2>1, <2>2, <1>0, Fields, LenProperties DEF ToSet
  <2> QED  BY <1>1, <1>2, <2>1, <2>2, <2>3, Nobody DEF Grounded, Linked, ListLinked
<1>3. CASE m.stack # <<>>
  <2>1. Uppermost(m) = Last(m.stack)  BY <1>3 DEF Uppermost
  <2>2. Uppermost(m) \in ToSet(m.stack)  BY <2>1, <1>0, <1>3, Fields, Popping
  <2> QED  BY <1>1, <1>3, <2>1, <2>2, Nobody DEF Grounded, Linked, StackLinked
<1> QED  BY <1>2, <1>3

\* The panels are in the list from the first Commit on.
LEMMA PanelsFirst ==
  ASSUME NEW m, Grounded(m)
  PROVE  Panels \in ToSet(m.list) /\ 1 \in 1 .. Len(m.list) /\ Len(m.list) \in Nat
<1>1. m \in Managers  BY DEF Grounded, Linked
<1>2. Len(m.list) \in Nat \ {0} /\ DOMAIN m.list = 1 .. Len(m.list)
  BY <1>1, Fields, LenProperties, EmptySeq DEF Grounded
<1> QED  BY <1>2 DEF ToSet, Grounded

\* DeleteCommit leaves no pointer to the frame it destroys.
LEMMA DeletedGrounded ==
  ASSUME NEW m, Grounded(m), NEW f \in AllFrames, f # Panels, NEW r, r = DeleteCommit(m, f)
  PROVE  Grounded(r)
<1>0. m \in Managers /\ IsInjective(m.list) /\ IsInjective(m.stack)
  BY DEF Grounded, Linked, Distinct
<1>1. /\ r \in Managers
      /\ r.list = RemoveFirst(m.list, f) /\ r.stack = RemoveFirst(m.stack, f)
      /\ \A g \in AllFrames \ {f} : r.kind[g] = m.kind[g]
      /\ m.kind[f] = "auto" => Unburied(m, r, f)
      /\ m.kind[f] # "auto" => Buried(m, r, f)
      /\ \A g \in AllFrames \ {f} :
           r.back[g] = IF g \in ToSet(m.list) /\ m.back[g] = f THEN Panels ELSE m.back[g]
  BY <1>0, Deleting
<1>2. /\ IsInjective(r.list) /\ ToSet(r.list) = ToSet(m.list) \ {f}
      /\ r.list # <<>> /\ r.list[1] = Panels
  <2>1. IsInjective(r.list) /\ ToSet(r.list) = ToSet(m.list) \ {f}
    BY <1>0, <1>1, Fields, Shrinking
  <2>2. m.list # <<>> /\ m.list[1] = Panels /\ m.list \in Seq(AllFrames)
    BY <1>0, Fields DEF Grounded
  <2>3. r.list # <<>> /\ r.list[1] = Panels
    BY <1>0, <1>1, <2>2, Shrinking
  <2> QED  BY <2>1, <2>3
<1>3. IsInjective(r.stack) /\ ToSet(r.stack) = ToSet(m.stack) \ {f}
  BY <1>0, <1>1, Fields, Shrinking
<1>4. ToSet(m.list) \subseteq AllFrames /\ ToSet(m.stack) \subseteq AllFrames  BY <1>0, Members
<1>5. PanelsTold(r)
  <2>1. r.kind[f] # "panels"
    BY <1>1 DEF Unburied, Buried
  <2> QED  BY <2>1, <1>1 DEF Grounded, Linked, PanelsTold
<1>6. \A g \in ToSet(m.list) \cup ToSet(m.stack) : g \in m.live
  BY DEF Grounded, Linked, ListLinked, StackLinked
<1>7. m.live \ {f} \subseteq r.live  BY <1>1 DEF Unburied, Buried
<1>8. ListLinked(r)
  <2> SUFFICES ASSUME NEW g \in ToSet(r.list)
               PROVE  g \in r.live /\ CanLoseFocus(r, g) /\ r.back[g] \in ToSet(r.list) \cup {NoFrame}
    BY DEF ListLinked
  <2>1. g \in ToSet(m.list) /\ g # f /\ g \in AllFrames  BY <1>2, <1>4
  <2>2. CanLoseFocus(m, g) /\ m.back[g] \in ToSet(m.list) \cup {NoFrame}
    BY <2>1 DEF Grounded, Linked, ListLinked
  <2>3. CanLoseFocus(r, g)  BY <2>1, <2>2, <1>1 DEF CanLoseFocus
  <2>4. Panels \in ToSet(r.list)  BY PanelsFirst, <1>2
  <2>5. r.back[g] \in ToSet(r.list) \cup {NoFrame}  BY <2>1, <2>2, <2>4, <1>1, <1>2
  <2> QED  BY <2>1, <2>3, <2>5, <1>6, <1>7
<1>9. StackLinked(r)
  <2> SUFFICES ASSUME NEW g \in ToSet(r.stack) PROVE g \in r.live /\ ~CanLoseFocus(r, g)
    BY DEF StackLinked
  <2>1. g \in ToSet(m.stack) /\ g # f /\ g \in AllFrames  BY <1>3, <1>4
  <2>2. ~CanLoseFocus(m, g)  BY <2>1 DEF Grounded, Linked, StackLinked
  <2> QED  BY <2>1, <2>2, <1>1, <1>6, <1>7 DEF CanLoseFocus
<1>10. CurrentLinked(r)
  <2>1. m.current \in m.live \cup {NoFrame}  BY DEF Grounded, Linked, CurrentLinked
  <2> QED  BY <2>1, <1>1 DEF CurrentLinked, Unburied, Buried
<1> QED  BY <1>1, <1>2, <1>3, <1>5, <1>8, <1>9, <1>10 DEF Grounded, Linked, Distinct

\* The part of a deletion that matters elsewhere
Removed(m, r, f) ==
  /\ r.stack = RemoveFirst(m.stack, f)
  /\ ToSet(r.stack) = ToSet(m.stack) \ {f} /\ ToSet(r.list) = ToSet(m.list) \ {f}
  /\ r.list = RemoveFirst(m.list, f)
  /\ \A g \in AllFrames \ {f} : r.kind[g] = m.kind[g]
  /\ m.kind[f] = "auto" => r.kind[f] = "auto" /\ r.live = m.live
  /\ m.kind[f] # "auto" => r.kind[f] = "screen" /\ r.live = m.live \ {f}

\* FramePos is put within the list that DeleteCommit has shortened.
LEMMA ListPositions ==
  ASSUME NEW m, Grounded(m), OnList(m), NEW f, f # Panels,
         NEW r, r.list = RemoveFirst(m.list, f),
         r.pos = IF f \in ToSet(m.list) /\ m.pos >= Len(r.list) THEN 0 ELSE m.pos
  PROVE  OnList(r)
<1>0. m \in Managers /\ IsInjective(m.list)  BY DEF Grounded, Linked, Distinct
<1>1. /\ r.list \in Seq(AllFrames) /\ r.list # <<>>
      /\ Len(r.list) = IF f \in ToSet(m.list) THEN Len(m.list) - 1 ELSE Len(m.list)
  BY <1>0, Fields, Shrinking DEF Grounded
<1>2. Len(r.list) \in Nat \ {0} /\ Len(m.list) \in Nat
  BY <1>0, <1>1, Fields, LenProperties, EmptySeq
<1>3. m.pos \in 0 .. (Len(m.list) - 1)  BY DEF OnList
<1> QED  BY <1>1, <1>2, <1>3 DEF OnList

\* DeleteCommit of the uppermost frame chooses the one below it for the focus.
LEMMA DeletedFocusing ==
  ASSUME NEW m, Placed(m), Unfocused(m), Unstructured(m), NEW f \in AllFrames,
         f # Panels, f = Uppermost(m), NEW r, r = DeleteCommit(m, f)
  PROVE  Focusing(r) /\ Removed(m, r, f)
<1>0. m \in Managers /\ IsInjective(m.list) /\ IsInjective(m.stack) /\ Grounded(m) /\ OnList(m)
  BY DEF Placed, Grounded, Linked, Distinct
<1>1. /\ r \in Managers
      /\ r.list = RemoveFirst(m.list, f) /\ r.stack = RemoveFirst(m.stack, f)
      /\ r.pos = IF f \in ToSet(m.list) /\ m.pos >= Len(r.list) THEN 0 ELSE m.pos
      /\ \A g \in AllFrames \ {f} : r.kind[g] = m.kind[g]
      /\ m.kind[f] = "auto" => Unburied(m, r, f)
      /\ m.kind[f] # "auto" => Buried(m, r, f)
      /\ SameRequests(m, r)
      /\ m.activated = NoFrame =>
           /\ r.activated \in ToSet(r.list) \cup ToSet(r.stack) \cup {NoFrame}
           /\ r.stack # <<>> /\ f \notin ToSet(m.list) => r.activated = Last(r.stack)
           /\ r.stack = <<>> /\ r.pos \in 0 .. (Len(r.list) - 1) => r.activated # NoFrame
  BY <1>0, Deleting
<1>2. ToSet(r.list) = ToSet(m.list) \ {f} /\ ToSet(r.stack) = ToSet(m.stack) \ {f}
  BY <1>0, <1>1, Fields, Shrinking
<1>3. Grounded(r)  BY <1>0, DeletedGrounded
<1>4. OnList(r)  BY <1>0, <1>1, ListPositions
<1>5. r.activated # NoFrame => r.activated # f  BY <1>1, <1>2 DEF Unfocused
<1>6. r.current \in {NoFrame, f}
  <2>1. m.current = f  BY DEF Placed
  <2> QED  BY <2>1, <1>1 DEF Unburied, Buried
<1>7. r.deleted = NoFrame /\ r.inserted = NoFrame /\ r.executed = NoFrame /\ r.deactivated = NoFrame
  BY <1>1 DEF Unburied, Buried, SameRequests, Unstructured, Unfocused
<1>8. r.stack = <<>> => r.activated \in ToSet(r.list) /\ r.activated # NoFrame
  <2> HAVE r.stack = <<>>
  <2>1. ToSet(r.stack) = {}  BY EmptySeq DEF ToSet
  <2> QED  BY <2>1, <1>1, <1>4 DEF OnList, Unfocused
<1>9. r.stack # <<>> => r.activated = Last(r.stack) /\ r.activated # NoFrame
  <2> HAVE r.stack # <<>>
  <2>1. f \notin ToSet(m.list)
    <3>1. m.stack # <<>>
      <4>1. CASE m.stack = <<>>
        <5>1. f \notin ToSet(m.stack)  BY <4>1 DEF ToSet
        <5> QED  BY <5>1, <4>1, <1>0, <1>1, Fields, Missing
      <4> QED  BY <4>1
    <3>2. ~CanLoseFocus(m, f)  BY <3>1, <1>0, UppermostIs
    <3> QED  BY <3>2, <1>0 DEF Grounded, Linked, ListLinked
  <2>2. r.activated = Last(r.stack)  BY <2>1, <1>1 DEF Unfocused
  <2>3. Last(r.stack) \in ToSet(r.stack)
    BY <1>1, <1>3, Fields, Popping DEF Grounded, Linked, Distinct
  <2> QED  BY <2>2, <2>3, <1>1, Members, Nobody
<1>10. Focusing(r)
  BY <1>3, <1>4, <1>5, <1>6, <1>7, <1>8, <1>9 DEF Focusing, Unstructured
<1>11. Removed(m, r, f)  BY <1>1, <1>2 DEF Removed, Unburied, Buried
<1> QED  BY <1>10, <1>11

-----------------------------------------------------------------------------
(* Closed, pushed, inserted and focused                                    *)

\* A modal frame about to be executed is neither listed nor the panels.
LEMMA Fresh ==
  ASSUME NEW m, Placed(m), NEW e, MayExecute(m, e)
  PROVE  /\ e \in AllFrames /\ e # Panels /\ e # NoFrame
         /\ e \notin ToSet(m.list) /\ e \notin ToSet(m.stack) /\ e # Uppermost(m)
<1>1. e \in AllFrames /\ e # Panels /\ e # NoFrame
  BY Nobody, FramesAssumption DEF MayExecute, AllFrames
<1>2. e \notin ToSet(m.list)
  BY DEF MayExecute, Placed, Grounded, Linked, ListLinked
<1>3. e \notin ToSet(m.stack)  BY DEF MayExecute
<1> QED  BY <1>1, <1>2, <1>3, UppermostIs DEF Placed

\* ExecuteCommit pushes the frame and chooses it for the focus.
LEMMA ExecutedFocusing ==
  ASSUME NEW m, Grounded(m), OnList(m), Unstructured(m), m.deactivated = NoFrame,
         NEW e, MayExecute(m, e), e # m.current,
         NEW r, r = ExecuteCommit(m, e)
  PROVE  /\ Focusing(r)
         /\ r.stack = Pushed(m.stack, e) /\ ToSet(r.stack) = ToSet(m.stack) \cup {e}
         /\ r.list = m.list /\ r.kind = m.kind /\ r.live = m.live
<1>0. /\ m \in Managers /\ IsInjective(m.list) /\ IsInjective(m.stack)
      /\ e \in AllFrames /\ e # NoFrame /\ e \notin ToSet(m.stack)
  BY Nobody, FramesAssumption DEF Grounded, Linked, Distinct, MayExecute
<1>t. PICK t : t = Append(m.stack, e)  OBVIOUS
<1>f. m.stack \in Seq(AllFrames)  BY <1>0, Fields
<1>1. t \in Seq(AllFrames) /\ t # <<>> /\ IsInjective(t) /\ ToSet(t) = ToSet(m.stack) \cup {e} /\ Last(t) = e
  <2>1. PICK s \in Seq(AllFrames) : s = m.stack  BY <1>f
  <2>2. IsInjective(s) /\ e \in AllFrames /\ e \notin ToSet(s) /\ t = Pushed(s, e)  BY <2>1, <1>0, <1>t DEF Pushed
  <2>3. t \in Seq(AllFrames) /\ t # <<>> /\ IsInjective(t) /\ ToSet(t) = ToSet(s) \cup {e} /\ Last(t) = e
    BY <2>2, Pushing
  <2> QED  BY <2>1, <2>3
<1>2. r = [m EXCEPT !.stack = t, !.activated = e]  BY <1>t DEF ExecuteCommit
<1>3. r \in Managers /\ r.stack = t /\ r.activated = e  BY <1>0, <1>1, <1>2 DEF Managers
<1>4. /\ r.list = m.list /\ r.pos = m.pos /\ r.live = m.live /\ r.kind = m.kind /\ r.back = m.back
      /\ r.current = m.current /\ r.deleted = m.deleted /\ r.inserted = m.inserted
      /\ r.executed = m.executed /\ r.deactivated = m.deactivated
  BY <1>0, <1>2 DEF Managers
<1>5. Grounded(r)
  <2>1. StackLinked(r)
    BY <1>1, <1>3, <1>4 DEF StackLinked, Grounded, Linked, MayExecute, CanLoseFocus
  <2>2. Distinct(r) /\ PanelsTold(r) /\ ListLinked(r) /\ CurrentLinked(r)
    BY <1>0, <1>1, <1>3, <1>4 DEF Distinct, PanelsTold, ListLinked, CurrentLinked, Grounded, Linked, CanLoseFocus
  <2> QED  BY <2>1, <2>2, <1>3, <1>4 DEF Grounded, Linked
<1>6. Focusing(r)
  BY <1>0, <1>1, <1>3, <1>4, <1>5 DEF Focusing, Unstructured, OnList
<1> QED  BY <1>t, <1>1, <1>3, <1>4, <1>6 DEF Pushed

\* A frame is deleted and another pushed in one round (F6 in a modal editor).
LEMMA ReplacedByModal ==
  ASSUME NEW m, Placed(m), Unfocused(m), Unstructured(m), NEW f \in AllFrames, MayDelete(m, f),
         NEW e, MayExecute(m, e), NEW r, r = ExecuteCommit(DeleteCommit(m, f), e)
  PROVE  \E d : /\ Removed(m, d, f)
                /\ Focusing(r)
                /\ r.stack = Pushed(d.stack, e) /\ ToSet(r.stack) = ToSet(d.stack) \cup {e}
                /\ r.list = d.list /\ r.kind = d.kind /\ r.live = d.live
<1> DEFINE d == DeleteCommit(m, f)
<1>0. m \in Managers /\ IsInjective(m.list) /\ IsInjective(m.stack) /\ Grounded(m) /\ OnList(m)
  BY DEF Placed, Grounded, Linked, Distinct
<1>1. /\ d \in Managers
      /\ d.list = RemoveFirst(m.list, f) /\ d.stack = RemoveFirst(m.stack, f)
      /\ d.pos = IF f \in ToSet(m.list) /\ m.pos >= Len(d.list) THEN 0 ELSE m.pos
      /\ \A g \in AllFrames \ {f} : d.kind[g] = m.kind[g]
      /\ m.kind[f] = "auto" => Unburied(m, d, f)
      /\ m.kind[f] # "auto" => Buried(m, d, f)
      /\ SameRequests(m, d)
  BY <1>0, Deleting
<1>a. f # Panels  BY DEF MayDelete
<1>3. Grounded(d)  BY <1>0, <1>a, DeletedGrounded
<1>9. r = ExecuteCommit(d, e)  OBVIOUS
<1> HIDE DEF d
<1>f. m.list \in Seq(AllFrames) /\ m.stack \in Seq(AllFrames)  BY <1>0, Fields
<1>2. ToSet(d.list) = ToSet(m.list) \ {f} /\ ToSet(d.stack) = ToSet(m.stack) \ {f}
  <2>1. d.list = RemoveFirst(m.list, f) /\ d.stack = RemoveFirst(m.stack, f)  BY <1>1
  <2>2. IsInjective(m.list) /\ IsInjective(m.stack)  BY <1>0
  <2>3. ToSet(d.list) = ToSet(m.list) \ {f}  BY <2>1, <2>2, <1>f, Shrinking
  <2>4. ToSet(d.stack) = ToSet(m.stack) \ {f}  BY <2>1, <2>2, <1>f, Shrinking
  <2> QED  BY <2>3, <2>4
<1>4. OnList(d)  BY <1>0, <1>1, <1>a, ListPositions
<1>5. e \in AllFrames /\ e # NoFrame /\ e \notin ToSet(m.list) /\ e \notin ToSet(m.stack) /\ e # Uppermost(m)
  BY Fresh
<1>6. e # f  BY <1>5 DEF MayDelete
<1>7. MayExecute(d, e)
  <2>1. e \in d.live  BY <1>1, <1>6 DEF MayExecute, Unburied, Buried
  <2>2. ~CanLoseFocus(d, e)  BY <1>1, <1>5, <1>6 DEF MayExecute, CanLoseFocus
  <2> QED  BY <2>1, <2>2, <1>2 DEF MayExecute
<1>8. e # d.current
  <2>1. d.current = NoFrame \/ d.current = m.current  BY <1>1 DEF Unburied, Buried
  <2> QED  BY <2>1, <1>5 DEF Placed
<1>10. Unstructured(d) /\ d.deactivated = NoFrame
  BY <1>1 DEF Unstructured, SameRequests, Unfocused, Unburied, Buried
<1>11. /\ Focusing(r)
       /\ r.stack = Pushed(d.stack, e) /\ ToSet(r.stack) = ToSet(d.stack) \cup {e}
       /\ r.list = d.list /\ r.kind = d.kind /\ r.live = d.live
  BY <1>3, <1>4, <1>7, <1>8, <1>9, <1>10, ExecutedFocusing
<1>12. Removed(m, d, f)  BY <1>1, <1>2 DEF Removed, Unburied, Buried
<1> QED  BY <1>11, <1>12

\* InsertCommit appends the frame and chooses it for the focus.
LEMMA InsertedFocusing ==
  ASSUME NEW m, Placed(m), Unfocused(m), Unstructured(m), NEW g, MayInsert(m, g),
         NEW r, r = InsertCommit(m, g)
  PROVE  /\ Focusing(r) /\ r.stack = m.stack /\ ToSet(r.list) = ToSet(m.list) \cup {g}
         /\ r.kind = m.kind /\ r.live = m.live
<1>0. /\ m \in Managers /\ IsInjective(m.list) /\ IsInjective(m.stack) /\ Grounded(m) /\ OnList(m)
      /\ g \in AllFrames /\ g # NoFrame /\ g \notin ToSet(m.list) /\ m.stack = <<>>
      /\ m.current = Uppermost(m)
  BY Nobody, FramesAssumption DEF Placed, Grounded, Linked, Distinct, MayInsert
<1>t. PICK t : t = Append(m.list, g)  OBVIOUS
<1> DEFINE b == [m.back EXCEPT ![g] = m.current]
<1>f. m.list \in Seq(AllFrames)  BY <1>0, Fields
<1>1. /\ t \in Seq(AllFrames) /\ t # <<>> /\ IsInjective(t) /\ ToSet(t) = ToSet(m.list) \cup {g}
      /\ Len(t) = Len(m.list) + 1 /\ \A k \in 1 .. Len(m.list) : t[k] = m.list[k]
  <2>1. PICK s \in Seq(AllFrames) : s = m.list  BY <1>f
  <2>2. IsInjective(s) /\ g \in AllFrames /\ g \notin ToSet(s) /\ t = Pushed(s, g)  BY <2>1, <1>0, <1>t DEF Pushed
  <2>3. /\ t \in Seq(AllFrames) /\ t # <<>> /\ IsInjective(t) /\ ToSet(t) = ToSet(s) \cup {g}
        /\ Len(t) = Len(s) + 1 /\ \A k \in 1 .. Len(s) : t[k] = s[k]
    BY <2>2, Pushing
  <2> QED  BY <2>1, <2>3
<1>2. b \in [AllFrames -> Slot] /\ b[g] = m.current /\ \A h \in AllFrames \ {g} : b[h] = m.back[h]
  BY <1>0, Fields DEF Slot
<1>3. r = [m EXCEPT !.back = b, !.list = t, !.activated = g]
  BY <1>0, <1>t DEF InsertCommit, Unfocused, Managers
<1> HIDE DEF b
<1>4. r \in Managers /\ r.list = t /\ r.back = b /\ r.activated = g
  BY <1>0, <1>1, <1>2, <1>3 DEF Managers, Slot
<1>5. /\ r.stack = m.stack /\ r.pos = m.pos /\ r.live = m.live /\ r.kind = m.kind
      /\ r.current = m.current /\ r.deleted = m.deleted /\ r.inserted = m.inserted
      /\ r.executed = m.executed /\ r.deactivated = m.deactivated
  BY <1>0, <1>3 DEF Managers
<1>6. m.current \in ToSet(m.list)  BY <1>0, UppermostIs
<1>7. ToSet(m.list) \subseteq AllFrames  BY <1>0, Members
<1>8. ListLinked(r)
  <2> SUFFICES ASSUME NEW h \in ToSet(r.list)
               PROVE  h \in r.live /\ CanLoseFocus(r, h) /\ r.back[h] \in ToSet(r.list) \cup {NoFrame}
    BY DEF ListLinked
  <2>1. CASE h = g
    BY <2>1, <1>1, <1>2, <1>4, <1>5, <1>6 DEF MayInsert, CanLoseFocus
  <2>2. CASE h # g
    <3>1. h \in ToSet(m.list) /\ h \in AllFrames  BY <2>2, <1>1, <1>4, <1>7
    <3>2. h \in m.live /\ CanLoseFocus(m, h) /\ m.back[h] \in ToSet(m.list) \cup {NoFrame}
      BY <3>1 DEF Placed, Grounded, Linked, ListLinked
    <3>3. r.back[h] = m.back[h]  BY <2>2, <3>1, <1>2, <1>4
    <3> QED  BY <3>2, <3>3, <1>1, <1>4, <1>5 DEF CanLoseFocus
  <2> QED  BY <2>1, <2>2
<1>9. Grounded(r)
  <2>1. Distinct(r) /\ PanelsTold(r) /\ CurrentLinked(r) /\ StackLinked(r)
    BY <1>0, <1>1, <1>4, <1>5 DEF Distinct, PanelsTold, StackLinked, CurrentLinked, Grounded, Linked, CanLoseFocus
  <2>2. r.list[1] = Panels  BY <1>0, <1>1, <1>4, PanelsFirst DEF Grounded
  <2> QED  BY <2>1, <2>2, <1>1, <1>4, <1>8 DEF Grounded, Linked
<1>10. OnList(r)
  BY <1>0, <1>1, <1>4, <1>5, PanelsFirst DEF OnList
<1>11. g # m.current  BY <1>0, <1>6
<1>12. Focusing(r)
  BY <1>0, <1>1, <1>4, <1>5, <1>9, <1>10, <1>11 DEF Focusing, Unstructured, Unfocused
<1> QED  BY <1>t, <1>1, <1>4, <1>5, <1>12

\* A frame of the list gives its place to another (F6, or a file loaded again).
LEMMA ReplacedInList ==
  ASSUME NEW m, Placed(m), Unfocused(m), Unstructured(m), NEW f \in AllFrames, MayDelete(m, f),
         NEW g, MayInsert(m, g), NEW r, r = UpdateCommit(m, f, g, NoFrame)
  PROVE  /\ Focusing(r) /\ r.stack = <<>> /\ ToSet(r.list) = (ToSet(m.list) \ {f}) \cup {g}
         /\ \A h \in AllFrames \ {f} : r.kind[h] = m.kind[h]
         /\ m.kind[f] # "auto" /\ r.kind[f] = "screen" /\ r.live = m.live \ {f}
<1>0. /\ m \in Managers /\ IsInjective(m.list) /\ IsInjective(m.stack) /\ Grounded(m) /\ OnList(m)
      /\ g \in AllFrames /\ g # NoFrame /\ g # Panels /\ g \notin ToSet(m.list) /\ m.stack = <<>>
      /\ m.current = Uppermost(m) /\ f # Panels
  BY Nobody, FramesAssumption DEF Placed, Grounded, Linked, Distinct, MayInsert, MayDelete
<1>1. f \in ToSet(m.list) /\ f # g
  <2>1. f \in ToSet(m.list)  BY <1>0, UppermostIs DEF MayDelete
  <2> QED  BY <2>1, <1>0
<1>2. PICK i \in 1 .. Len(m.list) : m.list[i] = f
  BY <1>0, <1>1, Fields, LenProperties DEF ToSet
<1>3. IndexOfList(m, f) = i
  <2>1. IndexOfList(m, f) = IF {j \in 1 .. Len(m.list) : m.list[j] = f} # {}
          THEN Min({j \in 1 .. Len(m.list) : m.list[j] = f}) ELSE 0
    BY DEF IndexOfList, SelectInSeq
  <2> QED  BY <2>1, <1>0, <1>2, Fields, Indexed
<1> DEFINE t == ReplaceAt(m.list, i, g)
           p == [m EXCEPT !.list = t]
           a == ActivateFrame(p, g)
           b == [a.back EXCEPT ![a.activated] = m.current]
           n == [a EXCEPT !.back = b]
<1>4. /\ t \in Seq(AllFrames) /\ IsInjective(t) /\ Len(t) = Len(m.list) /\ t # <<>>
      /\ ToSet(t) = (ToSet(m.list) \ {f}) \cup {g} /\ t[1] = Panels
  <2>1. m.list[1] # f  BY <1>0 DEF Grounded
  <2> QED  BY <2>1, <1>0, <1>2, Fields, Exchanging DEF Grounded
<1>5. r = DeleteCommit([a EXCEPT !.back[a.activated] = m.current], f)
  BY <1>0, <1>1, <1>3, Listed DEF UpdateCommit
<1> HIDE DEF t
<1>6. p \in Managers /\ p.list = t  BY <1>0, <1>4 DEF Managers
<1>7. /\ p.stack = m.stack /\ p.pos = m.pos /\ p.live = m.live /\ p.kind = m.kind /\ p.back = m.back
      /\ p.current = m.current /\ p.deleted = m.deleted /\ p.activated = m.activated
      /\ SameRequests(m, p)
  BY <1>0 DEF Managers, SameRequests
<1> HIDE DEF p
<1>8. /\ a \in Managers
      /\ a.list = t /\ a.stack = <<>> /\ a.pos = m.pos /\ a.live = m.live /\ a.kind = m.kind
      /\ a.back = m.back
      /\ a.current = m.current /\ a.deleted = m.deleted /\ SameRequests(p, a)
      /\ a.activated = g
  BY <1>0, <1>4, <1>6, <1>7, Activating DEF Unfocused
<1> HIDE DEF a
<1>9. b \in [AllFrames -> Slot] /\ b[g] = m.current /\ \A h \in AllFrames \ {g} : b[h] = m.back[h]
  BY <1>0, <1>8, Fields DEF Slot
<1>10. r = DeleteCommit(n, f)  BY <1>5, <1>8 DEF Managers
<1> HIDE DEF b
<1>11. n \in Managers /\ n.back = b  BY <1>8, <1>9 DEF Managers, Slot
<1>12. /\ n.list = t /\ n.stack = <<>> /\ n.pos = m.pos /\ n.live = m.live /\ n.kind = m.kind
       /\ n.current = m.current /\ n.deleted = m.deleted /\ SameRequests(a, n)
       /\ n.activated = g
  BY <1>8 DEF Managers, SameRequests
<1> HIDE DEF n
<1>13. m.kind[f] # "auto"
  BY <1>1 DEF Placed, Grounded, Linked, ListLinked, CanLoseFocus
<1>14. f \notin ToSet(n.list) /\ f \notin ToSet(n.stack) /\ IsInjective(n.list) /\ IsInjective(n.stack)
  <2>1. f \notin ToSet(n.stack)  BY <1>12 DEF ToSet
  <2> QED  BY <2>1, <1>4, <1>12, <1>1, <1>0
<1>15. n.list = RemoveFirst(n.list, f) /\ n.stack = RemoveFirst(n.stack, f)
  BY <1>11, <1>14, Fields, Missing
<1>16. /\ r \in Managers
       /\ r.list = n.list /\ r.stack = n.stack /\ r.pos = n.pos
       /\ \A h \in AllFrames \ {f} : r.kind[h] = n.kind[h]
       /\ Buried(n, r, f)
       /\ \A h \in AllFrames \ {f} :
            r.back[h] = IF h \in ToSet(n.list) /\ n.back[h] = f THEN Panels ELSE n.back[h]
       /\ SameRequests(n, r) /\ r.activated = g
  <2>1. n.kind[f] # "auto" /\ n.activated # NoFrame  BY <1>12, <1>13, <1>0
  <2> QED  BY <2>1, <1>10, <1>11, <1>12, <1>14, <1>15, Deleting
<1>17. ToSet(m.list) \subseteq AllFrames /\ ToSet(t) \subseteq AllFrames
       /\ Panels \in ToSet(t) /\ m.current \in ToSet(m.list)
  <2>1. ToSet(m.list) \subseteq AllFrames  BY <1>0, Members
  <2>2. ToSet(t) \subseteq AllFrames  BY <2>1, <1>4, <1>0
  <2>3. Panels \in ToSet(t)  BY <1>0, <1>4, PanelsFirst
  <2> QED  BY <2>1, <2>2, <2>3, <1>0, UppermostIs
<1>18. ListLinked(r)
  <2> SUFFICES ASSUME NEW h \in ToSet(t)
               PROVE  h \in r.live /\ CanLoseFocus(r, h) /\ r.back[h] \in ToSet(t) \cup {NoFrame}
    BY <1>12, <1>16 DEF ListLinked
  <2>1. h \in AllFrames \ {f}  BY <1>14, <1>12, <1>17
  <2>2. n.back[h] \in ToSet(m.list) \cup {NoFrame}
    <3>1. CASE h = g  BY <3>1, <1>9, <1>11, <1>17
    <3>2. CASE h # g
      <4>1. h \in ToSet(m.list) /\ n.back[h] = m.back[h]  BY <3>2, <2>1, <1>4, <1>9, <1>11
      <4> QED  BY <4>1 DEF Placed, Grounded, Linked, ListLinked
    <3> QED  BY <3>1, <3>2
  <2>3. r.back[h] \in ToSet(t) \cup {NoFrame}
    BY <2>1, <2>2, <1>4, <1>12, <1>16, <1>17
  <2>4. h \in m.live /\ CanLoseFocus(m, h)
    <3>1. CASE h = g  BY <3>1 DEF MayInsert, CanLoseFocus
    <3>2. CASE h # g
      <4>1. h \in ToSet(m.list)  BY <3>2, <1>4
      <4> QED  BY <4>1 DEF Placed, Grounded, Linked, ListLinked
    <3> QED  BY <3>1, <3>2
  <2>5. h \in r.live  BY <2>1, <2>4, <1>12, <1>16 DEF Buried
  <2>6. CanLoseFocus(r, h)  BY <2>1, <2>4, <1>12, <1>16 DEF CanLoseFocus
  <2> QED  BY <2>3, <2>5, <2>6
<1>19. PanelsTold(r)
  <2>1. r.kind[f] # "panels"  BY <1>16 DEF Buried
  <2> QED  BY <2>1, <1>0, <1>12, <1>16 DEF Grounded, Linked, PanelsTold
<1>20. StackLinked(r)
  <2>1. ToSet(r.stack) = {}  BY <1>12, <1>16 DEF ToSet
  <2> QED  BY <2>1 DEF StackLinked
<1>21. CurrentLinked(r) /\ (r.current = NoFrame \/ r.current = m.current)
  <2>1. m.current \in m.live \cup {NoFrame}  BY DEF Placed, Grounded, Linked, CurrentLinked
  <2> QED  BY <2>1, <1>12, <1>16 DEF CurrentLinked, Buried
<1>22. Grounded(r)
  BY <1>4, <1>12, <1>14, <1>16, <1>18, <1>19, <1>20, <1>21 DEF Grounded, Linked, Distinct
<1>23. OnList(r)  BY <1>0, <1>4, <1>12, <1>16 DEF OnList
<1>24. g # r.current  BY <1>0, <1>17, <1>21
<1>25. r.deleted = NoFrame /\ r.inserted = NoFrame /\ r.executed = NoFrame /\ r.deactivated = NoFrame
  BY <1>7, <1>8, <1>12, <1>16 DEF SameRequests, Buried, Unstructured, Unfocused
<1>26. Focusing(r)
  BY <1>0, <1>4, <1>12, <1>16, <1>22, <1>23, <1>24, <1>25 DEF Focusing, Unstructured
<1>27. r.live = m.live \ {f} /\ r.kind[f] = "screen"  BY <1>12, <1>16 DEF Buried
<1> QED  BY <1>4, <1>12, <1>13, <1>16, <1>26, <1>27

\* The focus is given, and the manager is settled.
LEMMA Focused ==
  ASSUME NEW m, Focusing(m), m.activated # NoFrame, NEW r,
         r = ActivateCommit([m EXCEPT !.activated = NoFrame, !.deactivated = NoFrame], m.activated)
  PROVE  /\ Settled(r)
         /\ r.list = m.list /\ r.stack = m.stack /\ r.live = m.live /\ r.kind = m.kind
<1> DEFINE f == m.activated
           n == [m EXCEPT !.activated = NoFrame, !.deactivated = NoFrame]
<1>0. m \in Managers /\ IsInjective(m.list) /\ IsInjective(m.stack) /\ Grounded(m) /\ f \in AllFrames
  BY Fields DEF Focusing, Grounded, Linked, Distinct, Slot
<1>1. n \in Managers /\ n.activated = NoFrame /\ n.deactivated = NoFrame  BY <1>0 DEF Managers
<1>2. /\ n.list = m.list /\ n.pos = m.pos /\ n.stack = m.stack /\ n.live = m.live
      /\ n.kind = m.kind /\ n.back = m.back /\ n.current = m.current
      /\ n.deleted = m.deleted /\ n.inserted = m.inserted /\ n.executed = m.executed
  BY <1>0 DEF Managers
<1>3. r = ActivateCommit(n, f)  OBVIOUS
<1>4. f \in m.live
  <2>1. CASE m.stack = <<>>
    <3>1. f \in ToSet(m.list)  BY <2>1 DEF Focusing
    <3> QED  BY <3>1, <1>0 DEF Grounded, Linked, ListLinked
  <2>2. CASE m.stack # <<>>
    <3>1. f = Last(m.stack)  BY <2>2 DEF Focusing
    <3>2. f \in ToSet(m.stack)  BY <3>1, <2>2, <1>0, Fields, Popping
    <3> QED  BY <3>2, <1>0 DEF Grounded, Linked, StackLinked
  <2> QED  BY <2>1, <2>2
<1> HIDE DEF n, f
<1>5. CASE m.current = f
  <2>1. r = [n EXCEPT !.refreshed = f]  BY <1>3, <1>2, <1>5 DEF ActivateCommit
  <2>2. r \in Managers  BY <2>1, <1>0, <1>1 DEF Managers
  <2>3. /\ r.list = n.list /\ r.pos = n.pos /\ r.stack = n.stack /\ r.live = n.live
        /\ r.kind = n.kind /\ r.back = n.back /\ r.current = n.current
        /\ r.deleted = n.deleted /\ r.inserted = n.inserted /\ r.executed = n.executed
        /\ r.activated = n.activated /\ r.deactivated = n.deactivated
    BY <2>1, <1>1 DEF Managers
  <2>4. OnList(m) /\ m.current = Uppermost(m)  BY <1>5 DEF Focusing, f
  <2>5. OnList(r) /\ r.current = Uppermost(r)
    BY <2>3, <2>4, <1>2 DEF OnList, Uppermost, FrameAt
  <2>6. Distinct(r) /\ PanelsTold(r) /\ ListLinked(r) /\ StackLinked(r) /\ CurrentLinked(r)
    BY <2>3, <1>0, <1>2 DEF Distinct, PanelsTold, ListLinked, StackLinked, CurrentLinked, CanLoseFocus,
       Grounded, Linked
  <2>7. Grounded(r)  BY <2>2, <2>3, <2>6, <1>0, <1>2 DEF Grounded, Linked
  <2> QED  BY <2>3, <2>5, <2>7, <1>1, <1>2 DEF Settled, Placed, Unstructured, Unfocused, Focusing
<1>6. CASE m.current # f
  <2> DEFINE p == IF f \in ToSet(n.list) THEN IndexOfList(n, f) - 1 ELSE n.pos
             b == [n.back EXCEPT ![f] = IF f \in ToSet(n.list) /\ n.current \in ToSet(n.list)
                                          THEN n.current ELSE @]
             s == IF f \in ToSet(n.stack) THEN Append(RemoveFirst(n.stack, f), f) ELSE n.stack
  <2>1. r = Focus(n, f)  BY <1>3, <1>2, <1>6 DEF ActivateCommit
  <2>2. s = n.stack
    <3>1. CASE m.stack = <<>>
      <4>1. f \notin ToSet(n.stack)  BY <3>1, <1>2 DEF ToSet
      <4> QED  BY <4>1
    <3>2. CASE m.stack # <<>>
      <4>1. f = Last(n.stack)  BY <3>2, <1>2 DEF Focusing, f
      <4>2. n.stack \in Seq(AllFrames)  BY <1>1, Fields
      <4>3. Append(RemoveFirst(n.stack, f), f) = n.stack
        BY <4>1, <4>2, <3>2, <1>0, <1>2, Popping
      <4> QED  BY <4>3
    <3> QED  BY <3>1, <3>2
  <2>3. b \in [AllFrames -> Slot]
    BY <1>0, <1>1, Fields DEF Slot
  <2>4. \A g \in AllFrames :
          b[g] = IF g = f /\ f \in ToSet(n.list) /\ n.current \in ToSet(n.list)
                   THEN n.current ELSE n.back[g]
    BY <1>0, <1>1, Fields
  <2>5. /\ f \in ToSet(n.list) =>
             p \in 0 .. (Len(n.list) - 1) /\ n.list[p + 1] = f
        /\ f \notin ToSet(n.list) => p = n.pos
        /\ p \in Int
    <3>1. ASSUME f \in ToSet(n.list)
          PROVE  p \in 0 .. (Len(n.list) - 1) /\ n.list[p + 1] = f
      <4>1. PICK i \in 1 .. Len(n.list) : n.list[i] = f
        BY <3>1, <1>1, Fields, LenProperties DEF ToSet
      <4>2. IndexOfList(n, f) = i
        <5>1. IndexOfList(n, f) = IF {j \in 1 .. Len(n.list) : n.list[j] = f} # {}
                THEN Min({j \in 1 .. Len(n.list) : n.list[j] = f}) ELSE 0
          BY DEF IndexOfList, SelectInSeq
        <5> QED  BY <5>1, <1>0, <1>1, <1>2, <4>1, Fields, Indexed
      <4>3. Len(n.list) \in Nat  BY <1>1, Fields, LenProperties
      <4>4. p = i - 1  BY <4>2, <3>1
      <4>5. i - 1 \in 0 .. (Len(n.list) - 1) /\ (i - 1) + 1 = i  BY <4>3
      <4> QED  BY <4>1, <4>4, <4>5
    <3>2. f \notin ToSet(n.list) => p = n.pos  OBVIOUS
    <3> HIDE DEF p
    <3>3. n.pos \in Int  BY <1>1, Fields
    <3>4. p \in Int  BY <3>1, <3>2, <3>3
    <3> QED  BY <3>1, <3>2, <3>4
  <2>a. /\ InList(n, f) <=> f \in ToSet(n.list)
        /\ InList(n, n.current) <=> n.current \in ToSet(n.list)
        /\ InStack(n, f) <=> f \in ToSet(n.stack)
    BY <1>1, Listed
  <2>b. r = [n EXCEPT !.pos = p, !.back = b, !.stack = s, !.refreshed = f, !.current = f]
    BY <2>1, <2>a DEF Focus
  <2>6. r = [n EXCEPT !.pos = p, !.back = b, !.stack = n.stack, !.refreshed = f, !.current = f]
    BY <2>b, <2>2
  <2> HIDE DEF p, b
  <2>7. /\ r \in Managers
        /\ r.pos = p /\ r.back = b /\ r.current = f
    <3>1. r \in Managers
      BY <2>3, <2>5, <2>6, <1>0, <1>1, ZenonT(40) DEF Managers, Slot
    <3>2. r.pos = p /\ r.back = b /\ r.current = f
      BY <2>6, <1>1 DEF Managers
    <3> QED  BY <3>1, <3>2
  <2>8. /\ r.list = n.list /\ r.stack = n.stack /\ r.live = n.live /\ r.kind = n.kind
        /\ r.deleted = n.deleted /\ r.inserted = n.inserted /\ r.executed = n.executed
        /\ r.activated = n.activated /\ r.deactivated = n.deactivated
    BY <2>6, <1>1 DEF Managers
  <2>9. ToSet(m.list) \subseteq AllFrames  BY <1>0, Members
  <2>10. ListLinked(r)
    <3> SUFFICES ASSUME NEW h \in ToSet(m.list)
                 PROVE  h \in r.live /\ CanLoseFocus(r, h) /\ r.back[h] \in ToSet(m.list) \cup {NoFrame}
      BY <2>8, <1>2 DEF ListLinked
    <3>1. h \in m.live /\ CanLoseFocus(m, h) /\ m.back[h] \in ToSet(m.list) \cup {NoFrame}
      BY <1>0 DEF Grounded, Linked, ListLinked
    <3> QED  BY <3>1, <2>4, <2>7, <2>8, <2>9, <1>2 DEF CanLoseFocus
  <2>11. Distinct(r) /\ PanelsTold(r) /\ StackLinked(r) /\ CurrentLinked(r)
    BY <2>7, <2>8, <1>0, <1>2, <1>4 DEF Distinct, PanelsTold, StackLinked, CurrentLinked,
       CanLoseFocus, Grounded, Linked
  <2>12. Grounded(r)  BY <2>7, <2>8, <2>10, <2>11, <1>0, <1>2 DEF Grounded, Linked
  <2>13. OnList(r) /\ f = Uppermost(r)
    <3>1. CASE m.stack = <<>>
      <4>1. f \in ToSet(n.list)  BY <3>1, <1>2 DEF Focusing, f
      <4>2. r.pos \in 0 .. (Len(r.list) - 1) /\ r.list[r.pos + 1] = f  BY <4>1, <2>5, <2>7, <2>8
      <4> QED  BY <4>2, <3>1, <2>8, <1>2 DEF OnList, Uppermost, FrameAt
    <3>2. CASE m.stack # <<>>
      <4>1. f = Last(m.stack) /\ OnList(m)  BY <3>2 DEF Focusing, f
      <4>2. f \in ToSet(m.stack)  BY <4>1, <3>2, <1>0, Fields, Popping
      <4>3. f \notin ToSet(m.list)
        BY <4>2, <1>0 DEF Grounded, Linked, ListLinked, StackLinked
      <4>4. r.pos = m.pos  BY <4>3, <2>5, <2>7, <1>2
      <4> QED  BY <4>1, <4>4, <3>2, <2>8, <1>2 DEF OnList, Uppermost
    <3> QED  BY <3>1, <3>2
  <2> QED
    BY <2>7, <2>8, <2>12, <2>13, <1>1, <1>2 DEF Settled, Placed, Unstructured, Unfocused, Focusing
<1> QED  BY <1>2, <1>5, <1>6

-----------------------------------------------------------------------------
(* A round of Commit                                                       *)

\* The same frames in the same places
Alike(m, r) ==
  /\ r \in Managers
  /\ r.list = m.list /\ r.pos = m.pos /\ r.stack = m.stack /\ r.live = m.live
  /\ r.kind = m.kind /\ r.back = m.back /\ r.current = m.current

\* What only depends on the places of the frames is the same when they are.
LEMMA AlikePlaced ==
  ASSUME NEW m \in Managers, NEW r, Alike(m, r)
  PROVE  /\ Grounded(m) => Grounded(r)
         /\ OnList(r) <=> OnList(m)
         /\ Uppermost(r) = Uppermost(m)
         /\ Placed(m) => Placed(r)
         /\ \A f : /\ MayInsert(m, f) => MayInsert(r, f)
                   /\ MayExecute(m, f) => MayExecute(r, f)
                   /\ MayDelete(m, f) => MayDelete(r, f)
<1>1. OnList(r) <=> OnList(m)  BY DEF OnList, Alike
<1>2. Uppermost(r) = Uppermost(m)  BY DEF Uppermost, FrameAt, Alike
<1>3. Grounded(m) => Grounded(r)
  BY DEF Alike, Grounded, Linked, Distinct, PanelsTold, ListLinked, StackLinked, CurrentLinked, CanLoseFocus
<1>4. Placed(m) => Placed(r)  BY <1>1, <1>2, <1>3 DEF Placed, Alike
<1>5. \A f : /\ MayInsert(m, f) => MayInsert(r, f)
             /\ MayExecute(m, f) => MayExecute(r, f)
             /\ MayDelete(m, f) => MayDelete(r, f)
  BY <1>2 DEF Alike, MayInsert, MayExecute, MayDelete, CanLoseFocus
<1> QED  BY <1>1, <1>2, <1>3, <1>4, <1>5

\* How much of the stack a round of Commit keeps
Kept(m) == IF m.deleted \in ToSet(m.stack) THEN Len(m.stack) - 1 ELSE Len(m.stack)

\* What a round of Commit does to the places of the frames
Effect(m, r) ==
  /\ ToSet(r.list) = (ToSet(m.list) \ {m.deleted}) \cup ({m.inserted} \ {NoFrame})
  /\ m.inserted = NoFrame => r.list = RemoveFirst(m.list, m.deleted)
  /\ ToSet(r.stack) = (ToSet(m.stack) \ {m.deleted}) \cup ({m.executed} \ {NoFrame})
  /\ Kept(m) \in Nat
  /\ Len(r.stack) = IF m.executed = NoFrame THEN Kept(m) ELSE Kept(m) + 1
  /\ \A i \in 1 .. Kept(m) : i \in 1 .. Len(m.stack) /\ r.stack[i] = m.stack[i]
  /\ m.executed # NoFrame => r.stack[Kept(m) + 1] = m.executed
  /\ \A h \in AllFrames \ {m.deleted} : r.kind[h] = m.kind[h]
  /\ m.deleted = NoFrame => r.live = m.live
  /\ m.deleted # NoFrame =>
       /\ m.kind[m.deleted] = "auto" => r.kind[m.deleted] = "auto" /\ r.live = m.live
       /\ m.kind[m.deleted] # "auto" => r.kind[m.deleted] = "screen" /\ r.live = m.live \ {m.deleted}

\* nullptr is in no list, and removing it removes nothing.
LEMMA NobodyThere ==
  ASSUME NEW m \in Managers
  PROVE  NoFrame \notin ToSet(m.list) /\ NoFrame \notin ToSet(m.stack)
         /\ RemoveFirst(m.list, NoFrame) = m.list /\ RemoveFirst(m.stack, NoFrame) = m.stack
         /\ Len(m.stack) \in Nat
<1>1. NoFrame \notin ToSet(m.list) /\ NoFrame \notin ToSet(m.stack)  BY Members, Nobody
<1>2. m.list \in Seq(AllFrames) /\ m.stack \in Seq(AllFrames)  BY Fields
<1> QED  BY <1>1, <1>2, Missing, LenProperties

\* A round about the focus adds and removes nothing.
LEMMA EffectOfNothing ==
  ASSUME NEW m \in Managers, Unstructured(m), NEW r,
         r.list = m.list, r.stack = m.stack, r.live = m.live, r.kind = m.kind
  PROVE  Effect(m, r)
  BY NobodyThere DEF Effect, Kept, Unstructured

\* A deletion from the stack removes its top.
LEMMA KeptIs ==
  ASSUME NEW m, Placed(m), NEW f, f = m.deleted, MayDelete(m, f),
         NEW s, s = RemoveFirst(m.stack, f)
  PROVE  /\ Kept(m) \in Nat /\ Len(s) = Kept(m) /\ s \in Seq(AllFrames)
         /\ \A i \in 1 .. Kept(m) : i \in 1 .. Len(m.stack) /\ s[i] = m.stack[i]
<1>0. /\ m \in Managers /\ IsInjective(m.stack) /\ m.stack \in Seq(AllFrames)
      /\ Grounded(m) /\ OnList(m)
  BY Fields DEF Placed, Grounded, Linked, Distinct
<1>1. Len(m.stack) \in Nat  BY <1>0, LenProperties
<1>2. CASE f \in ToSet(m.stack)
  <2>1. m.stack # <<>>
    <3>1. ToSet(<<>>) = {}  BY DEF ToSet
    <3> QED  BY <3>1, <1>2
  <2>2. f = Last(m.stack)  BY <2>1, <1>0, UppermostIs DEF MayDelete
  <2>3. /\ Front(m.stack) \in Seq(AllFrames) /\ Len(Front(m.stack)) = Len(m.stack) - 1 /\ Len(m.stack) > 0
        /\ \A k \in 1 .. (Len(m.stack) - 1) : Front(m.stack)[k] = m.stack[k]
        /\ RemoveFirst(m.stack, Last(m.stack)) = Front(m.stack)
    BY <2>1, <1>0, Popping
  <2>4. s = Front(m.stack) /\ Kept(m) = Len(m.stack) - 1  BY <2>2, <2>3, <1>2 DEF Kept
  <2> QED  BY <2>3, <2>4, <1>1
<1>3. CASE f \notin ToSet(m.stack)
  <2>1. s = m.stack /\ Kept(m) = Len(m.stack)  BY <1>3, <1>0, Missing DEF Kept
  <2> QED  BY <2>1, <1>0, <1>1
<1> QED  BY <1>2, <1>3

\* Commit empties the slots before it carries out what was in them.
LEMMA Taken ==
  ASSUME NEW m \in Managers, NEW r,
         r = [m EXCEPT !.deleted = NoFrame, !.inserted = NoFrame, !.executed = NoFrame]
  PROVE  Alike(m, r) /\ Unstructured(r) /\ r.activated = m.activated /\ r.deactivated = m.deactivated
<1>1. r \in Managers  BY DEF Managers
<1>2. Unstructured(r)  BY DEF Unstructured, Managers
<1>3. /\ r.list = m.list /\ r.pos = m.pos /\ r.stack = m.stack /\ r.live = m.live
      /\ r.kind = m.kind /\ r.back = m.back /\ r.current = m.current
      /\ r.activated = m.activated /\ r.deactivated = m.deactivated
  BY DEF Managers
<1> QED  BY <1>1, <1>2, <1>3 DEF Alike

\* In a sound state a request to change the structure is one of Requesting.
LEMMA SoundRequests ==
  ASSUME NEW m, Sound(m), ~Unstructured(m)
  PROVE  m = StartedManager \/ Requesting(m)
  BY DEF Sound, Focusing

\* Before the first Commit all there is is the request to insert the panels.
LEMMA StartedOnly ==
  /\ StartedManager \in Managers
  /\ StartedManager.inserted = Panels /\ StartedManager.deleted = NoFrame
  /\ StartedManager.executed = NoFrame /\ StartedManager.activated = NoFrame
  /\ StartedManager.deactivated = NoFrame
<1>1. [f \in AllFrames |-> IF f = Panels THEN "panels" ELSE "screen"] \in [AllFrames -> Kinds]
  BY DEF Kinds
<1>2. [f \in AllFrames |-> NoFrame] \in [AllFrames -> AllFrames \cup {NoFrame}]  OBVIOUS
<1>3. <<>> \in Seq(AllFrames)  BY EmptySeq
<1>4. {Panels} \subseteq AllFrames /\ -1 \in Int  BY Nobody
<1> QED  BY <1>1, <1>2, <1>3, <1>4 DEF StartedManager, Managers

\* Commit calls UpdateCommit.
LEMMA RoundUpdate ==
  ASSUME NEW m, Sound(m), m.deleted # NoFrame, m.inserted # NoFrame \/ m.executed # NoFrame,
         NEW r, r = UpdateCommit([m EXCEPT !.deleted = NoFrame, !.inserted = NoFrame,
                                           !.executed = NoFrame],
                                 m.deleted, m.inserted, m.executed)
  PROVE  Focusing(r) /\ Effect(m, r)
<1>1. Requesting(m)  BY SoundRequests, StartedOnly DEF Unstructured
<1>2. m \in Managers /\ Placed(m) /\ Unfocused(m)
  BY <1>1 DEF Requesting, Placed, Grounded, Linked
<1>f. PICK f : f = m.deleted  OBVIOUS
<1>3. f \in AllFrames /\ MayDelete(m, f)  BY <1>f, <1>1, <1>2, Fields DEF Requesting, Slot
<1>4. PICK n : n = [m EXCEPT !.deleted = NoFrame, !.inserted = NoFrame, !.executed = NoFrame]
  OBVIOUS
<1>5. Alike(m, n) /\ Unstructured(n) /\ Unfocused(n)  BY <1>2, <1>4, Taken DEF Unfocused
<1>6. Placed(n) /\ MayDelete(n, f)  BY <1>2, <1>3, <1>5, AlikePlaced
<1>7. NoFrame \notin ToSet(m.list) /\ NoFrame \notin ToSet(m.stack)  BY <1>2, NobodyThere
<1>8. r = UpdateCommit(n, f, m.inserted, m.executed)  BY <1>4, <1>f
<1>9. PICK s : s = RemoveFirst(m.stack, f)  OBVIOUS
<1>10. /\ Kept(m) \in Nat /\ Len(s) = Kept(m) /\ s \in Seq(AllFrames)
       /\ \A i \in 1 .. Kept(m) : i \in 1 .. Len(m.stack) /\ s[i] = m.stack[i]
  BY <1>f, <1>2, <1>3, <1>9, KeptIs
<1>11. CASE m.executed # NoFrame
  <2>1. PICK e : e = m.executed  OBVIOUS
  <2>2. MayExecute(m, e) /\ m.inserted = NoFrame /\ e # NoFrame
    BY <1>1, <1>11, <2>1 DEF Requesting
  <2>3. MayExecute(n, e)  BY <1>2, <1>5, <2>2, AlikePlaced
  <2>4. r = ExecuteCommit(DeleteCommit(n, f), e)  BY <1>8, <2>1, <2>2 DEF UpdateCommit
  <2>5. PICK d : /\ Removed(n, d, f)
                 /\ Focusing(r)
                 /\ r.stack = Pushed(d.stack, e) /\ ToSet(r.stack) = ToSet(d.stack) \cup {e}
                 /\ r.list = d.list /\ r.kind = d.kind /\ r.live = d.live
    BY <1>3, <1>5, <1>6, <2>3, <2>4, ReplacedByModal
  <2>6. d.stack = s  BY <2>5, <1>5, <1>9 DEF Removed, Alike
  <2>7. e \in AllFrames  BY <2>2, Nobody DEF MayExecute
  <2>8. /\ Len(r.stack) = Kept(m) + 1 /\ r.stack[Kept(m) + 1] = e
        /\ \A i \in 1 .. Kept(m) : r.stack[i] = m.stack[i]
    <3>1. /\ Len(Append(s, e)) = Len(s) + 1 /\ Append(s, e)[Len(s) + 1] = e
          /\ \A i \in 1 .. Len(s) : Append(s, e)[i] = s[i]
      BY <1>10, <2>7, AppendProperties
    <3>2. r.stack = Append(s, e)  BY <2>5, <2>6 DEF Pushed
    <3> QED  BY <3>1, <3>2, <1>10
  <2>9. /\ ToSet(r.list) = ToSet(m.list) \ {f} /\ r.list = RemoveFirst(m.list, f)
        /\ ToSet(r.stack) = (ToSet(m.stack) \ {f}) \cup {e}
    BY <2>5, <1>5 DEF Removed, Alike
  <2>10. /\ \A h \in AllFrames \ {f} : r.kind[h] = m.kind[h]
         /\ m.kind[f] = "auto" => r.kind[f] = "auto" /\ r.live = m.live
         /\ m.kind[f] # "auto" => r.kind[f] = "screen" /\ r.live = m.live \ {f}
    BY <2>5, <1>5 DEF Removed, Alike
  <2>11. Effect(m, r)  BY <1>f, <1>10, <2>1, <2>2, <2>8, <2>9, <2>10 DEF Effect
  <2> QED  BY <2>5, <2>11
<1>12. CASE m.executed = NoFrame
  <2>1. PICK g : g = m.inserted  OBVIOUS
  <2>2. MayInsert(m, g) /\ g # NoFrame  BY <1>1, <1>12, <2>1 DEF Requesting
  <2>3. MayInsert(n, g)  BY <1>2, <1>5, <2>2, AlikePlaced
  <2>4. r = UpdateCommit(n, f, g, NoFrame)  BY <1>8, <1>12, <2>1
  <2>5. /\ Focusing(r) /\ r.stack = <<>> /\ ToSet(r.list) = (ToSet(n.list) \ {f}) \cup {g}
        /\ \A h \in AllFrames \ {f} : r.kind[h] = n.kind[h]
        /\ n.kind[f] # "auto" /\ r.kind[f] = "screen" /\ r.live = n.live \ {f}
    BY <1>3, <1>5, <1>6, <2>3, <2>4, ReplacedInList
  <2>6. m.stack = <<>> /\ ToSet(m.stack) = {} /\ Len(m.stack) = 0 /\ ToSet(r.stack) = {} /\ Len(r.stack) = 0
    BY <2>2, <2>5, EmptySeq DEF MayInsert, ToSet
  <2>7. Kept(m) = 0  BY <2>6 DEF Kept
  <2>8. /\ ToSet(r.list) = (ToSet(m.list) \ {f}) \cup {g}
        /\ \A h \in AllFrames \ {f} : r.kind[h] = m.kind[h]
        /\ m.kind[f] # "auto" /\ r.kind[f] = "screen" /\ r.live = m.live \ {f}
    BY <2>5, <1>5 DEF Alike
  <2>9. Effect(m, r)  BY <1>f, <1>12, <2>1, <2>2, <2>6, <2>7, <2>8 DEF Effect
  <2> QED  BY <2>5, <2>9
<1> QED  BY <1>11, <1>12

\* Commit calls ExecuteCommit.
LEMMA RoundExecute ==
  ASSUME NEW m, Sound(m), m.deleted = NoFrame, m.executed # NoFrame,
         NEW r, r = ExecuteCommit([m EXCEPT !.executed = NoFrame], m.executed)
  PROVE  Focusing(r) /\ Effect(m, r)
<1>1. Requesting(m)  BY SoundRequests, StartedOnly DEF Unstructured
<1>2. m \in Managers /\ Placed(m) /\ Unfocused(m) /\ m.inserted = NoFrame
  BY <1>1 DEF Requesting, Placed, Grounded, Linked
<1>3. PICK e : e = m.executed  OBVIOUS
<1>4. MayExecute(m, e) /\ e # NoFrame  BY <1>1, <1>3 DEF Requesting
<1>5. PICK n : n = [m EXCEPT !.executed = NoFrame]  OBVIOUS
<1>6. Alike(m, n) /\ Unstructured(n) /\ Unfocused(n)
  <2>1. n = [m EXCEPT !.deleted = NoFrame, !.inserted = NoFrame, !.executed = NoFrame]
    BY <1>2, <1>5 DEF Managers
  <2> QED  BY <2>1, <1>2, Taken DEF Unfocused
<1>7. Placed(n) /\ MayExecute(n, e)  BY <1>2, <1>4, <1>6, AlikePlaced
<1>8. e # n.current /\ e \in AllFrames  BY <1>7, Fresh DEF Placed
<1>9. /\ Focusing(r)
      /\ r.stack = Pushed(n.stack, e) /\ ToSet(r.stack) = ToSet(n.stack) \cup {e}
      /\ r.list = n.list /\ r.kind = n.kind /\ r.live = n.live
  <2>1. r = ExecuteCommit(n, e)  BY <1>3, <1>5
  <2>2. Grounded(n) /\ OnList(n) /\ n.deactivated = NoFrame  BY <1>6, <1>7 DEF Placed, Unfocused
  <2>3. Unstructured(n) /\ MayExecute(n, e) /\ e # n.current  BY <1>6, <1>7, <1>8
  <2> HIDE DEF Unstructured
  <2> QED  BY ONLY <2>1, <2>2, <2>3, ExecutedFocusing
<1>10. /\ NoFrame \notin ToSet(m.list) /\ NoFrame \notin ToSet(m.stack)
       /\ RemoveFirst(m.list, NoFrame) = m.list /\ Len(m.stack) \in Nat /\ m.stack \in Seq(AllFrames)
  BY <1>2, NobodyThere, Fields
<1>11. Kept(m) = Len(m.stack)  BY <1>10 DEF Kept
<1>12. /\ Len(r.stack) = Kept(m) + 1 /\ r.stack[Kept(m) + 1] = e
       /\ \A i \in 1 .. Kept(m) : r.stack[i] = m.stack[i]
  <2>1. /\ Len(Append(m.stack, e)) = Len(m.stack) + 1 /\ Append(m.stack, e)[Len(m.stack) + 1] = e
        /\ \A i \in 1 .. Len(m.stack) : Append(m.stack, e)[i] = m.stack[i]
    BY <1>8, <1>10, AppendProperties
  <2>2. r.stack = Append(m.stack, e)  BY <1>9, <1>6 DEF Alike, Pushed
  <2> QED  BY <2>1, <2>2, <1>11
<1>13. Effect(m, r)
  BY <1>2, <1>3, <1>4, <1>6, <1>9, <1>10, <1>11, <1>12, SMTT(30) DEF Effect, Alike
<1> QED  BY <1>9, <1>13

\* Commit calls DeleteCommit.
LEMMA RoundDelete ==
  ASSUME NEW m, Sound(m), m.deleted # NoFrame, m.inserted = NoFrame, m.executed = NoFrame,
         NEW r, r = DeleteCommit([m EXCEPT !.deleted = NoFrame], m.deleted)
  PROVE  Focusing(r) /\ Effect(m, r)
<1>1. Requesting(m)  BY SoundRequests, StartedOnly DEF Unstructured
<1>2. m \in Managers /\ Placed(m) /\ Unfocused(m)
  BY <1>1 DEF Requesting, Placed, Grounded, Linked
<1>3. PICK f : f = m.deleted  OBVIOUS
<1>4. f \in AllFrames /\ MayDelete(m, f) /\ f = Uppermost(m)  BY <1>1, <1>2, <1>3, Fields DEF Requesting, Slot
<1>5. PICK n : n = [m EXCEPT !.deleted = NoFrame]  OBVIOUS
<1>6. Alike(m, n) /\ Unstructured(n) /\ Unfocused(n)
  <2>1. n = [m EXCEPT !.deleted = NoFrame, !.inserted = NoFrame, !.executed = NoFrame]
    BY <1>2, <1>5 DEF Managers
  <2> QED  BY <2>1, <1>2, Taken DEF Unfocused
<1>7. Placed(n) /\ f = Uppermost(n) /\ f # Panels  BY <1>2, <1>4, <1>6, AlikePlaced DEF MayDelete
<1>8. Focusing(r) /\ Removed(n, r, f)
  BY <1>3, <1>4, <1>5, <1>6, <1>7, DeletedFocusing
<1>9. /\ Kept(m) \in Nat /\ Len(r.stack) = Kept(m)
      /\ \A i \in 1 .. Kept(m) : i \in 1 .. Len(m.stack) /\ r.stack[i] = m.stack[i]
  <2>1. PICK s : s = RemoveFirst(m.stack, f)  OBVIOUS
  <2>2. r.stack = s  BY <2>1, <1>6, <1>8 DEF Removed, Alike
  <2>3. /\ Kept(m) \in Nat /\ Len(s) = Kept(m) /\ s \in Seq(AllFrames)
        /\ \A i \in 1 .. Kept(m) : i \in 1 .. Len(m.stack) /\ s[i] = m.stack[i]
    BY <2>1, <1>2, <1>3, <1>4, KeptIs
  <2> QED  BY <2>2, <2>3
<1>10. Effect(m, r)
  BY <1>3, <1>6, <1>8, <1>9 DEF Effect, Removed, Alike
<1> QED  BY <1>8, <1>10

\* Commit calls InsertCommit, for the panels at first.
LEMMA RoundInsert ==
  ASSUME NEW m, Sound(m), m.deleted = NoFrame, m.inserted # NoFrame, m.executed = NoFrame,
         NEW r, r = InsertCommit([m EXCEPT !.inserted = NoFrame], m.inserted)
  PROVE  Focusing(r) /\ Effect(m, r)
<1>0. m = StartedManager \/ Requesting(m)  BY SoundRequests DEF Unstructured
<1>1. CASE Requesting(m)
  <2>2. m \in Managers /\ Placed(m) /\ Unfocused(m)
    BY <1>1 DEF Requesting, Placed, Grounded, Linked
  <2>3. PICK g : g = m.inserted  OBVIOUS
  <2>4. MayInsert(m, g)  BY <1>1, <2>3 DEF Requesting
  <2>5. PICK n : n = [m EXCEPT !.inserted = NoFrame]  OBVIOUS
  <2>6. Alike(m, n) /\ Unstructured(n) /\ Unfocused(n)
    <3>1. n = [m EXCEPT !.deleted = NoFrame, !.inserted = NoFrame, !.executed = NoFrame]
      BY <2>2, <2>5 DEF Managers
    <3> QED  BY <3>1, <2>2, Taken DEF Unfocused
  <2>7. Placed(n) /\ MayInsert(n, g)  BY <2>2, <2>4, <2>6, AlikePlaced
  <2>8. /\ Focusing(r) /\ r.stack = n.stack /\ ToSet(r.list) = ToSet(n.list) \cup {g}
        /\ r.kind = n.kind /\ r.live = n.live
    <3>1. r = InsertCommit(n, g)  BY <2>3, <2>5
    <3> QED  BY <3>1, <2>6, <2>7, InsertedFocusing
  <2>9. NoFrame \notin ToSet(m.list) /\ NoFrame \notin ToSet(m.stack) /\ Len(m.stack) \in Nat
    BY <2>2, NobodyThere
  <2>10. Effect(m, r)
    BY <2>3, <2>6, <2>8, <2>9 DEF Effect, Kept, Alike
  <2> QED  BY <2>8, <2>10
<1>2. CASE m = StartedManager
  <2> DEFINE k == [f \in AllFrames |-> IF f = Panels THEN "panels" ELSE "screen"]
             b == [f \in AllFrames |-> NoFrame]
  <2>0. m.inserted = Panels /\ m.activated = NoFrame  BY <1>2, StartedOnly
  <2>a. k \in [AllFrames -> Kinds] /\ \A f \in AllFrames : k[f] = "panels" <=> f = Panels
    BY DEF Kinds
  <2>b. k[Panels] = "panels"  BY Nobody
  <2>c. b \in [AllFrames -> Slot] /\ \A f \in AllFrames : b[f] = NoFrame  BY DEF Slot
  <2>1. r = [list |-> Append(<<>>, Panels), pos |-> -1, stack |-> <<>>,
             inserted |-> NoFrame, deleted |-> NoFrame, activated |-> Panels,
             deactivated |-> NoFrame, refreshed |-> NoFrame, executed |-> NoFrame,
             current |-> NoFrame, live |-> {Panels}, kind |-> k, back |-> [b EXCEPT ![Panels] = NoFrame]]
    BY <1>2, <2>0 DEF InsertCommit, StartedManager
  <2>2. [b EXCEPT ![Panels] = NoFrame] = b  BY <2>c, Nobody
  <2>3. PICK t : t = Append(<<>>, Panels)  OBVIOUS
  <2>4. t \in Seq(AllFrames) /\ Len(t) = 1 /\ t[1] = Panels /\ t # <<>>
    <3>1. <<>> \in Seq(AllFrames) /\ Len(<<>>) = 0 /\ Panels \in AllFrames  BY EmptySeq, Nobody
    <3> QED  BY <3>1, <2>3, AppendProperties
  <2>5. DOMAIN t = {1}  BY <2>4, LenProperties
  <2>6. IsInjective(t) /\ ToSet(t) = {Panels}  BY <2>4, <2>5 DEF IsInjective, ToSet
  <2>7. <<>> \in Seq(AllFrames) /\ IsInjective(<<>>) /\ ToSet(<<>>) = {} /\ Len(<<>>) = 0
    BY EmptySeq DEF IsInjective, ToSet
  <2>8. m.list = <<>> /\ m.stack = <<>> /\ m.kind = k /\ m.live = {Panels}
    BY <1>2 DEF StartedManager
  <2> HIDE DEF k, b
  <2>9. r = [list |-> t, pos |-> -1, stack |-> <<>>,
             inserted |-> NoFrame, deleted |-> NoFrame, activated |-> Panels,
             deactivated |-> NoFrame, refreshed |-> NoFrame, executed |-> NoFrame,
             current |-> NoFrame, live |-> {Panels}, kind |-> k, back |-> b]
    BY <2>1, <2>2, <2>3
  <2>10. /\ r.list = t /\ r.pos = -1 /\ r.stack = <<>> /\ r.inserted = NoFrame /\ r.deleted = NoFrame
         /\ r.activated = Panels /\ r.deactivated = NoFrame /\ r.executed = NoFrame
         /\ r.current = NoFrame /\ r.live = {Panels} /\ r.kind = k /\ r.back = b
    BY <2>9
  <2>11. r \in Managers
    <3>1. m \in Managers  BY <1>2, StartedOnly
    <3>2. PICK n : n = [m EXCEPT !.inserted = NoFrame]  OBVIOUS
    <3>3. n \in Managers /\ n.list = m.list /\ n.activated = m.activated /\ n.back = m.back
      BY <3>1, <3>2 DEF Managers
    <3>5. PICK d : d = [n.back EXCEPT ![Panels] = n.current]  OBVIOUS
    <3>6. d \in [AllFrames -> Slot]  BY <3>3, <3>5, Fields DEF Slot
    <3>7. r = InsertCommit(n, Panels)  BY <2>0, <3>2
    <3>8. n.activated = NoFrame /\ Append(n.list, Panels) = t  BY <2>0, <2>8, <2>3, <3>3
    <3>9. r = [n EXCEPT !.back = d, !.list = t, !.activated = Panels]
      BY <3>3, <3>5, <3>7, <3>8 DEF InsertCommit, Managers
    <3>4. Panels \in AllFrames  BY Nobody
    <3> QED  BY <3>3, <3>4, <3>6, <3>9, <2>4 DEF Managers, Slot
  <2>12. Distinct(r)  BY <2>6, <2>7, <2>10 DEF Distinct
  <2>13. PanelsTold(r)  BY <2>a, <2>10 DEF PanelsTold
  <2>14. ListLinked(r)  BY <2>6, <2>10, <2>b, <2>c, Nobody DEF ListLinked, CanLoseFocus
  <2>15. StackLinked(r) /\ CurrentLinked(r)  BY <2>7, <2>10 DEF StackLinked, CurrentLinked
  <2>16. Grounded(r)
    BY <2>4, <2>10, <2>11, <2>12, <2>13, <2>14, <2>15 DEF Grounded, Linked
  <2>17. Focusing(r)
    BY <2>6, <2>10, <2>16, Nobody DEF Focusing, Unstructured
  <2>18. Effect(m, r)
    BY <2>0, <2>6, <2>7, <2>8, <2>10, Nobody DEF Effect, Kept
  <2> QED  BY <2>17, <2>18
<1> QED  BY <1>0, <1>1, <1>2

\* A settled manager is one whose Commit has nothing left to do.
LEMMA StillFocusing ==
  ASSUME NEW m, Settled(m) PROVE Focusing(m)
  BY DEF Settled, Placed, Unfocused, Focusing

\* In a sound state without requests to change the structure there are those about the focus.
LEMMA Structureless ==
  ASSUME NEW m, Sound(m), Unstructured(m)
  PROVE  Focusing(m) /\ m \in Managers
<1>1. m # StartedManager
  <2>1. m.inserted # StartedManager.inserted  BY StartedOnly, Nobody DEF Unstructured
  <2> QED  BY <2>1
<1>2. Requesting(m) => Settled(m)  BY DEF Requesting, Settled
<1>3. Focusing(m)  BY <1>1, <1>2, StillFocusing DEF Sound
<1> QED  BY <1>3 DEF Focusing, Grounded, Linked

\* Commit calls DeactivateCommit and ActivateCommit, and the stack is left alone: the
\* deactivated frame is never on top of it.
LEMMA RoundDeactivate ==
  ASSUME NEW m, Sound(m), Unstructured(m), m.deactivated # NoFrame, NEW r,
         r = LET taken == [m EXCEPT !.deactivated = NoFrame, !.activated = NoFrame]
             IN  IF m.activated = NoFrame
                   THEN taken
                   ELSE ActivateCommit(DeactivateCommit(taken, m.deactivated, m.activated), m.activated)
  PROVE  Focusing(r) /\ Effect(m, r)
<1>1. Focusing(m) /\ m \in Managers  BY Structureless
<1>2. m.stack = <<>>  BY <1>1 DEF Focusing
<1>3. PICK n : n = [m EXCEPT !.activated = NoFrame, !.deactivated = NoFrame]  OBVIOUS
<1>4. Alike(m, n) /\ Unstructured(n) /\ Unfocused(n)
  <2>1. n \in Managers  BY <1>1, <1>3 DEF Managers
  <2>2. /\ n.list = m.list /\ n.pos = m.pos /\ n.stack = m.stack /\ n.live = m.live
        /\ n.kind = m.kind /\ n.back = m.back /\ n.current = m.current
        /\ n.deleted = m.deleted /\ n.inserted = m.inserted /\ n.executed = m.executed
        /\ n.activated = NoFrame /\ n.deactivated = NoFrame
    BY <1>1, <1>3 DEF Managers
  <2> QED  BY <2>1, <2>2 DEF Alike, Unstructured, Unfocused
<1>5. [m EXCEPT !.deactivated = NoFrame, !.activated = NoFrame] = n  BY <1>1, <1>3 DEF Managers
<1>6. r = IF m.activated = NoFrame THEN n
          ELSE ActivateCommit(DeactivateCommit(n, m.deactivated, m.activated), m.activated)
  BY <1>5
<1>7. DeactivateCommit(n, m.deactivated, m.activated) = n  BY <1>2, <1>4 DEF DeactivateCommit, Alike
<1>8. CASE m.activated = NoFrame
  <2>1. r = n  BY <1>6, <1>8
  <2>2. Placed(m)  BY <1>1, <1>8 DEF Placed, Focusing
  <2>3. Settled(n)  BY <2>2, <1>1, <1>4, AlikePlaced DEF Settled
  <2>4. Effect(m, r)  BY <2>1, <1>1, <1>4, EffectOfNothing DEF Alike
  <2> QED  BY <2>1, <2>3, <2>4, StillFocusing
<1>9. CASE m.activated # NoFrame
  <2>1. r = ActivateCommit(n, m.activated)  BY <1>6, <1>7, <1>9
  <2>2. Settled(r) /\ r.list = m.list /\ r.stack = m.stack /\ r.live = m.live /\ r.kind = m.kind
    BY <2>1, <1>1, <1>3, <1>9, Focused
  <2>3. Effect(m, r)  BY <2>2, <1>1, EffectOfNothing
  <2> QED  BY <2>2, <2>3, StillFocusing
<1> QED  BY <1>8, <1>9

\* Commit calls ActivateCommit.
LEMMA RoundActivate ==
  ASSUME NEW m, Sound(m), Unstructured(m), m.deactivated = NoFrame, m.activated # NoFrame, NEW r,
         r = ActivateCommit([m EXCEPT !.activated = NoFrame], m.activated)
  PROVE  Settled(r) /\ Effect(m, r)
<1>1. Focusing(m) /\ m \in Managers  BY Structureless
<1>2. [m EXCEPT !.activated = NoFrame] = [m EXCEPT !.activated = NoFrame, !.deactivated = NoFrame]
  BY <1>1 DEF Managers
<1>3. Settled(r) /\ r.list = m.list /\ r.stack = m.stack /\ r.live = m.live /\ r.kind = m.kind
  BY <1>1, <1>2, Focused
<1> QED  BY <1>1, <1>3, EffectOfNothing

\* Commit calls RefreshCommit, the last thing it does.
LEMMA RoundRefresh ==
  ASSUME NEW m, Sound(m), Unstructured(m), m.deactivated = NoFrame, m.activated = NoFrame,
         NEW r, r = [m EXCEPT !.refreshed = NoFrame]
  PROVE  Settled(r) /\ Effect(m, r)
<1>1. Focusing(m) /\ m \in Managers  BY Structureless
<1>2. Placed(m)  BY <1>1 DEF Focusing, Placed
<1>3. r \in Managers  BY <1>1 DEF Managers
<1>4. /\ r.list = m.list /\ r.pos = m.pos /\ r.stack = m.stack /\ r.live = m.live
      /\ r.kind = m.kind /\ r.back = m.back /\ r.current = m.current
      /\ r.deleted = m.deleted /\ r.inserted = m.inserted /\ r.executed = m.executed
      /\ r.activated = NoFrame /\ r.deactivated = NoFrame
  BY <1>1 DEF Managers
<1>5. Placed(r)  BY <1>1, <1>2, <1>3, <1>4, AlikePlaced DEF Alike
<1>6. Settled(r)  BY <1>4, <1>5 DEF Settled, Unstructured, Unfocused
<1> QED  BY <1>1, <1>4, <1>6, EffectOfNothing
==============================================================================
