-------------------------------- MODULE FarProof --------------------------------
(***************************************************************************)
(* What MCFar_safety checks of far2l's parts, for every value of the       *)
(* constants: the work queue, the queue of synchronous events with the     *)
(* list of background tasks, the shell with its readers, the history of    *)
(* one far2l, and, from InterThreadCallProof and EditorUndoProof, the      *)
(* record that kicks the main thread and the undo list of an editor.  A    *)
(* part that was not chosen stays as it was in the beginning.              *)
(***************************************************************************)
EXTENDS MCFar, EditorUndoProof, InterThreadCallProof, RecursionProof, FiniteSetTheorems, SequenceTheorems, TLAPS

-----------------------------------------------------------------------------
(* The work queue                                                          *)

\* The number of items that were done by the producer itself, before it had a worker
Offset == made - doneCount - Len(backlog)

Holders == {w \in Workers : item[w] # NoItem}
HeldItems  == {item[w] : w \in Holders}

QueueThreads == Workers \cup {Producer}

\* Where threads are, and what a worker holds there
Placed(p, held, threads) ==
  /\ p \in [QueueThreads -> ProducerPCs \cup WorkerPCs]
  /\ p[Producer] \in ProducerPCs /\ \A w \in Workers : p[w] \in WorkerPCs
  /\ \A w \in Workers \ threads : p[w] = "none"
  /\ \A w \in Workers : p[w] \in {"none", "wait", "ended"} => held[w] = NoItem
  /\ \A w \in Workers : p[w] = "work" => held[w] # NoItem

WorkersHold ==
  /\ Placed(qpc, item, started)
  /\ started = {} => backlog = <<>> /\ done = {} /\ doneCount = 0 /\ finalized = 0
  /\ working = Cardinality(Holders)

\* The items in the backlog are those that have been queued last
BacklogIsNext == \A i \in 1 .. Len(backlog) : backlog[i] = Offset + doneCount + i

\* Sequence numbers tell the items, and those handed out and not fetched yet are
\* finished or with one worker each
NumbersTellItems ==
  /\ finalized <= doneCount /\ Offset \in Nat
  /\ Len(destroyed) = Offset + finalized
  /\ \A pair \in done \cup HeldItems : pair[1] \in finalized + 1 .. doneCount /\ pair[2] = Offset + pair[1]
  /\ done \cap HeldItems = {}
  /\ \A v, w \in Holders : item[v] = item[w] => v = w
  /\ \A n \in finalized + 1 .. doneCount : <<n, Offset + n>> \in done \cup HeldItems

\* The destructor leaves nothing and no worker
NothingIsLeft ==
  /\ Len(destroyed) = made /\ done = {} /\ backlog = <<>>
  /\ \A w \in Workers : qpc[w] \in {"none", "ended"}

QueueInv ==
  /\ QueueTypeOK /\ WorkersHold /\ DestroyedInOrder
  /\ IF qpc[Producer] = "gone" THEN NothingIsLeft ELSE BacklogIsNext /\ NumbersTellItems

-----------------------------------------------------------------------------
\* A part of the workers can be counted.
LEMMA WorkersAreFinite ==
  ASSUME QueueAssumption, NEW W \in SUBSET Workers
  PROVE  IsFiniteSet(W) /\ Cardinality(W) \in 0 .. Cardinality(Workers) /\ Cardinality(Workers) \in Nat
<1>1. IsFiniteSet(Workers)
  BY DEF QueueAssumption
<1>2. IsFiniteSet(W) /\ Cardinality(W) <= Cardinality(Workers)
  BY <1>1, FS_Subset
<1>3. Cardinality(W) \in Nat /\ Cardinality(Workers) \in Nat
  BY <1>1, <1>2, FS_CardinalityType
<1>. QED  BY <1>2, <1>3

\* What a notification does: threads that wait go for the lock, or stay
Woken(p, q) ==
  /\ DOMAIN q = DOMAIN p
  /\ q = [t \in DOMAIN p |-> q[t]]
  /\ \A t \in DOMAIN p :
       \/ q[t] = p[t]
       \/ p[t] = "wait" /\ q[t] = "lock"
       \/ p[t] = "queueWait" /\ q[t] = "queueCheck"
       \/ p[t] = "finalWait" /\ q[t] = "finalCheck"

\* notify_one and notify_all move nobody who does not wait.
LEMMA WakesOnly ==
  ASSUME NEW p \in [QueueThreads -> ProducerPCs \cup WorkerPCs]
  PROVE  /\ Woken(p, p) /\ Woken(p, WakeAll(p))
         /\ \A q \in WakeOne(p) : Woken(p, q)
<1>1. \A t \in Waiting(p) : /\ p[t] = "wait" => Awake(p[t]) = "lock"
                            /\ p[t] = "queueWait" => Awake(p[t]) = "queueCheck"
                            /\ p[t] = "finalWait" => Awake(p[t]) = "finalCheck"
                            /\ p[t] \in {"wait", "queueWait", "finalWait"} /\ t \in DOMAIN p
  BY DEF Waiting, Awake
<1>2. Woken(p, p)
  BY DEF Woken
<1>3. Woken(p, WakeAll(p))
  BY <1>1 DEF Woken, WakeAll
<1>4. ASSUME NEW q \in WakeOne(p) PROVE Woken(p, q)
  <2>1. CASE Waiting(p) = {}
    BY <1>2, <2>1, <1>4 DEF WakeOne
  <2>2. CASE Waiting(p) # {}
    <3>1. PICK t \in Waiting(p) : q = [p EXCEPT ![t] = Awake(p[t])]
      BY <2>2, <1>4 DEF WakeOne
    <3>. QED  BY <1>1, <3>1 DEF Woken
  <2>. QED  BY <2>1, <2>2
<1>. QED  BY <1>2, <1>3, <1>4
-----------------------------------------------------------------------------
(* Fetching what is finished                                               *)

\* Numbers in a row, listed by InOrder, are items in a row.
LEMMA InOrderIs ==
  ASSUME NEW a \in Nat, NEW b \in Nat, a <= b, NEW o \in Nat,
         \A n \in a + 1 .. b : <<n, o + n>> \in done,
         \A pair \in done : pair[1] \in Nat /\ pair = <<pair[1], o + pair[1]>>
  PROVE  InOrder(a + 1 .. b) = [i \in 1 .. b - a |-> o + a + i]
<1>. DEFINE rank(n) == Cardinality({k \in a + 1 .. b : k <= n})
<1>1. ASSUME NEW n \in a + 1 .. b PROVE rank(n) = n - a
  <2>1. {k \in a + 1 .. b : k <= n} = a + 1 .. n
    OBVIOUS
  <2>2. a + 1 \in Int /\ n \in Int /\ ~(a + 1 > n)
    OBVIOUS
  <2>3. Cardinality(a + 1 .. n) = n - (a + 1) + 1
    BY <2>2, FS_Interval
  <2>4. rank(n) = Cardinality(a + 1 .. n)
    BY <2>1
  <2>. HIDE DEF rank
  <2>. QED  BY <2>3, <2>4
<1>2. Cardinality(a + 1 .. b) = b - a
  <2>1. a + 1 \in Int /\ b \in Int
    OBVIOUS
  <2>2. Cardinality(a + 1 .. b) = IF a + 1 > b THEN 0 ELSE b - (a + 1) + 1
    BY <2>1, FS_Interval
  <2>. QED  BY <2>2
<1>3. ASSUME NEW n \in a + 1 .. b PROVE ItemOf(n) = o + n
  <2>1. \E pair \in done : pair[1] = n
    BY <1>3
  <2>2. PICK pair : pair \in done /\ pair[1] = n /\ ItemOf(n) = pair[2]
    BY <2>1 DEF ItemOf
  <2>. QED  BY <2>2
<1>4. InOrder(a + 1 .. b) =
        [i \in 1 .. Cardinality(a + 1 .. b) |-> ItemOf(CHOOSE n \in a + 1 .. b : rank(n) = i)]
  BY DEF InOrder
<1>. HIDE DEF rank
<1>5. ASSUME NEW i \in 1 .. b - a
      PROVE  ItemOf(CHOOSE n \in a + 1 .. b : rank(n) = i) = o + a + i
  <2>1. a + i \in a + 1 .. b /\ rank(a + i) = i
    BY <1>1
  <2>2. \A n \in a + 1 .. b : rank(n) = i => n = a + i
    BY <1>1
  <2>3. (CHOOSE n \in a + 1 .. b : rank(n) = i) = a + i
    BY <2>1, <2>2
  <2>4. ItemOf(a + i) = o + (a + i)
    BY <1>3, <2>1
  <2>5. ItemOf(CHOOSE n \in a + 1 .. b : rank(n) = i) = ItemOf(a + i)
    BY <2>3
  <2>. QED  BY <2>4, <2>5
<1>. QED  BY <1>2, <1>4, <1>5

\* FetchOrderedDoneItems: what can be fetched are the numbers up to the first that is not
\* finished, and their items follow those that have been destroyed.
LEMMA FetchableAre ==
  ASSUME NEW o \in Nat, finalized \in Nat, doneCount \in Nat, finalized <= doneCount,
         \A pair \in done : pair = <<pair[1], o + pair[1]>> /\ pair[1] \in finalized + 1 .. doneCount
  PROVE  \E t \in finalized .. doneCount :
           /\ Fetchable = finalized + 1 .. t
           /\ Cardinality(Fetchable) = t - finalized
           /\ InOrder(Fetchable) = [i \in 1 .. t - finalized |-> o + finalized + i]
           /\ \A n \in finalized + 1 .. t : <<n, o + n>> \in done
<1>. DEFINE numbers == {pair[1] : pair \in done}
            left == {n \in finalized + 1 .. doneCount + 1 : n \notin Fetchable}
<1>1. \A n \in numbers : n \in finalized + 1 .. doneCount
  OBVIOUS
<1>2. \A n : n \in Fetchable <=> n \in numbers /\ \A k \in finalized + 1 .. n : k \in numbers
  BY DEF Fetchable
<1>3. doneCount + 1 \in left /\ left \in SUBSET Nat
  BY <1>1, <1>2
<1>4. PICK s \in left : \A m \in left : s <= m
  BY <1>3, LeastOf
<1>. HIDE DEF numbers
<1>5. s - 1 \in finalized .. doneCount /\ s \notin Fetchable /\ s \in Nat
  BY <1>4
<1>6. Fetchable = finalized + 1 .. s - 1
  <2>1. ASSUME NEW n \in finalized + 1 .. s - 1 PROVE n \in Fetchable
    BY <1>4, <2>1
  <2>2. ASSUME NEW n \in Fetchable PROVE n \in finalized + 1 .. s - 1
    <3>1. n \in numbers /\ n \in finalized + 1 .. doneCount /\ \A k \in finalized + 1 .. n : k \in numbers
      BY <1>1, <1>2
    <3>2. CASE s <= n
      <4>1. s \in finalized + 1 .. n /\ \A k \in finalized + 1 .. s : k \in finalized + 1 .. n
        BY <1>5, <3>1, <3>2
      <4>. QED  BY <1>2, <1>5, <3>1, <4>1
    <3>. QED  BY <1>5, <3>1, <3>2
  <2>. QED  BY <2>1, <2>2
<1>7. \A n \in finalized + 1 .. s - 1 : <<n, o + n>> \in done
  <2>. SUFFICES ASSUME NEW n \in finalized + 1 .. s - 1 PROVE <<n, o + n>> \in done
    OBVIOUS
  <2>1. n \in numbers
    BY <1>2, <1>6
  <2>2. PICK pair \in done : pair[1] = n
    BY <2>1 DEF numbers
  <2>. QED  BY <2>2
<1>8. InOrder(Fetchable) = [i \in 1 .. (s - 1) - finalized |-> o + finalized + i]
  <2>1. \A pair \in done : pair[1] \in Nat /\ pair = <<pair[1], o + pair[1]>>
    OBVIOUS
  <2>2. PICK t \in Nat : t = s - 1 /\ finalized <= t
    BY <1>5
  <2>3. InOrder(finalized + 1 .. t) = [i \in 1 .. t - finalized |-> o + finalized + i]
    BY <1>7, <2>1, <2>2, InOrderIs
  <2>. QED  BY <1>6, <2>2, <2>3
<1>9. Cardinality(Fetchable) = (s - 1) - finalized
  <2>1. finalized + 1 \in Int /\ s - 1 \in Int
    BY <1>5
  <2>2. Cardinality(finalized + 1 .. s - 1) = IF finalized + 1 > s - 1 THEN 0 ELSE (s - 1) - (finalized + 1) + 1
    BY <2>1, FS_Interval
  <2>. QED  BY <1>5, <1>6, <2>2
<1>. QED  BY <1>5, <1>6, <1>7, <1>8, <1>9

\* Numbers in a row are still in a row when those that follow are put after them.
LEMMA RowGoesOn ==
  ASSUME NEW p \in Seq(Items), \A i \in DOMAIN p : p[i] = i,
         NEW k \in Nat, NEW q, q = [i \in 1 .. k |-> Len(p) + i],
         MaxItems \in Nat, Len(p) + k <= MaxItems
  PROVE  p \o q \in Seq(Items) /\ Len(p \o q) = Len(p) + k /\ \A i \in DOMAIN (p \o q) : (p \o q)[i] = i
<1>1. Len(p) \in Nat /\ DOMAIN p = 1 .. Len(p)
  OBVIOUS
<1>2. \A i \in 1 .. k : Len(p) + i \in Items
  BY <1>1 DEF Items
<1>3. q \in Seq(Items) /\ Len(q) = k
  BY <1>2
<1>4. /\ p \o q \in Seq(Items)
      /\ Len(p \o q) = Len(p) + Len(q)
      /\ \A i \in 1 .. Len(p) + Len(q) :
           (p \o q)[i] = IF i <= Len(p) THEN p[i] ELSE q[i - Len(p)]
  BY <1>3
<1>5. PICK r : r = p \o q
  OBVIOUS
<1>6. /\ r \in Seq(Items) /\ Len(r) = Len(p) + k /\ DOMAIN r = 1 .. Len(p) + k
      /\ \A i \in 1 .. Len(p) + k : r[i] = IF i <= Len(p) THEN p[i] ELSE q[i - Len(p)]
  BY <1>3, <1>4, <1>5
<1>7. ASSUME NEW i \in 1 .. Len(p) + k PROVE r[i] = i
  <2>1. CASE i <= Len(p)
    <3>1. i \in 1 .. Len(p) /\ i \in DOMAIN p
      BY <1>1, <2>1
    <3>2. r[i] = p[i]
      BY ONLY <1>6, <2>1
    <3>. QED  BY <3>1, <3>2
  <2>2. CASE ~(i <= Len(p))
    <3>1. i - Len(p) \in 1 .. k
      BY <1>1, <2>2
    <3>2. q[i - Len(p)] = Len(p) + (i - Len(p))
      BY <3>1
    <3>. QED  BY <1>1, <1>6, <2>2, <3>2
  <2>. QED  BY <2>1, <2>2
<1>. QED  BY <1>5, <1>6, <1>7

\* How far the items go that have been handed out.
LEMMA NumbersInRange ==
  ASSUME QueueAssumption, QueueTypeOK, Offset \in Nat
  PROVE  /\ made \in Nat /\ doneCount \in Nat /\ finalized \in Nat /\ Len(backlog) \in Nat
         /\ MaxItems \in Nat /\ Len(destroyed) \in Nat
         /\ Offset + doneCount + Len(backlog) = made /\ made <= MaxItems
         /\ DOMAIN destroyed = 1 .. Len(destroyed)
<1>1. /\ made \in 0 .. MaxItems /\ doneCount \in 0 .. MaxItems /\ finalized \in 0 .. MaxItems
      /\ backlog \in Seq(Items) /\ destroyed \in Seq(Items)
  BY DEF QueueTypeOK
<1>2. Len(backlog) \in Nat /\ MaxItems \in Nat
  BY <1>1 DEF QueueAssumption
<1>. QED  BY <1>1, <1>2 DEF Offset

\* FetchOrderedDoneItems moves what comes next from the finished items to the destroyed.
LEMMA FetchKeeps ==
  ASSUME QueueAssumption, QueueTypeOK, DestroyedInOrder, NumbersTellItems,
         FetchOrderedDoneItems, UNCHANGED <<doneCount, item>>, Offset' = Offset
  PROVE  /\ DestroyedInOrder' /\ NumbersTellItems'
         /\ destroyed' \in Seq(Items) /\ done' \subseteq done /\ finalized' \in 0 .. MaxItems
<1>1. /\ made \in Nat /\ doneCount \in Nat /\ finalized \in Nat /\ Len(backlog) \in Nat /\ MaxItems \in Nat
      /\ Offset + doneCount + Len(backlog) = made /\ made <= MaxItems /\ Len(destroyed) \in Nat
      /\ Offset \in Nat /\ Offset + doneCount <= MaxItems
  BY NumbersInRange DEF NumbersTellItems
<1>2. \A pair \in done : pair = <<pair[1], Offset + pair[1]>> /\ pair[1] \in finalized + 1 .. doneCount
  BY DEF NumbersTellItems, QueueTypeOK, Pairs
<1>3. PICK t \in finalized .. doneCount :
           /\ Fetchable = finalized + 1 .. t
           /\ Cardinality(Fetchable) = t - finalized
           /\ InOrder(Fetchable) = [i \in 1 .. t - finalized |-> Offset + finalized + i]
           /\ \A n \in finalized + 1 .. t : <<n, Offset + n>> \in done
  BY <1>1, <1>2, FetchableAre DEF NumbersTellItems
<1>4. finalized' = t /\ done' = {pair \in done : pair[1] \notin finalized + 1 .. t}
  BY <1>1, <1>3 DEF FetchOrderedDoneItems
<1>5. /\ destroyed' \in Seq(Items) /\ Len(destroyed') = Offset + t
      /\ \A i \in DOMAIN destroyed' : destroyed'[i] = i
  <2>1. PICK q : q = InOrder(Fetchable)
    OBVIOUS
  <2>2. destroyed \in Seq(Items) /\ \A i \in DOMAIN destroyed : destroyed[i] = i
    BY DEF QueueTypeOK, DestroyedInOrder
  <2>3. t - finalized \in Nat /\ Len(destroyed) = Offset + finalized
    BY <1>1 DEF NumbersTellItems
  <2>4. q = [i \in 1 .. t - finalized |-> Len(destroyed) + i]
    BY <1>3, <2>1, <2>3
  <2>5. Len(destroyed) + (t - finalized) <= MaxItems
    BY <1>1, <2>3
  <2>6. /\ destroyed \o q \in Seq(Items) /\ Len(destroyed \o q) = Len(destroyed) + (t - finalized)
        /\ \A i \in DOMAIN (destroyed \o q) : (destroyed \o q)[i] = i
    BY <1>1, <2>2, <2>3, <2>4, <2>5, RowGoesOn
  <2>7. destroyed' = destroyed \o q
    BY <2>1 DEF FetchOrderedDoneItems
  <2>8. Len(destroyed) + (t - finalized) = Offset + t
    BY <1>1, <2>3
  <2>9. PICK r : r = destroyed \o q
    OBVIOUS
  <2>10. destroyed' = r /\ r \in Seq(Items) /\ Len(r) = Offset + t /\ \A i \in DOMAIN r : r[i] = i
    BY <2>6, <2>7, <2>8, <2>9
  <2>. QED  BY <2>10
<1>6. DestroyedInOrder'
  BY <1>5 DEF DestroyedInOrder
<1>7. HeldItems' = HeldItems /\ Holders' = Holders
  BY DEF HeldItems, Holders
<1>8. NumbersTellItems'
  <2>1. t <= doneCount /\ Len(destroyed') = Offset + t
    BY <1>1, <1>5
  <2>2. ASSUME NEW pair \in done' PROVE pair[1] \in t + 1 .. doneCount /\ pair[2] = Offset + pair[1]
    BY <1>1, <1>2, <1>4 DEF NumbersTellItems
  <2>3. ASSUME NEW pair \in HeldItems PROVE pair[1] \in t + 1 .. doneCount /\ pair[2] = Offset + pair[1]
    <3>1. pair[1] \in finalized + 1 .. doneCount /\ pair[2] = Offset + pair[1] /\ pair \notin done
      BY DEF NumbersTellItems
    <3>2. pair = <<pair[1], Offset + pair[1]>>
      BY <3>1 DEF HeldItems, Holders, QueueTypeOK, Pairs
    <3>3. pair[1] \notin finalized + 1 .. t
      BY <1>3, <3>1, <3>2
    <3>. QED  BY <1>1, <3>1, <3>3
  <2>4. done' \cap HeldItems = {}
    BY <1>4 DEF NumbersTellItems
  <2>5. \A n \in t + 1 .. doneCount : <<n, Offset + n>> \in done' \cup HeldItems
    <3>. SUFFICES ASSUME NEW n \in t + 1 .. doneCount PROVE <<n, Offset + n>> \in done' \cup HeldItems
      OBVIOUS
    <3>1. n \in finalized + 1 .. doneCount /\ n \notin finalized + 1 .. t
      BY <1>1
    <3>2. <<n, Offset + n>> \in done \cup HeldItems
      BY <3>1 DEF NumbersTellItems
    <3>. QED  BY <1>4, <3>1, <3>2
  <2>. QED  BY <1>1, <1>4, <1>7, <2>1, <2>2, <2>3, <2>4, <2>5 DEF NumbersTellItems
<1>. QED  BY <1>1, <1>4, <1>5, <1>6, <1>8
-----------------------------------------------------------------------------
(* The steps                                                               *)

\* Threads that are woken hold what they held.
LEMMA WokenPlaced ==
  ASSUME NEW p, NEW held, NEW threads, Placed(p, held, threads), NEW q, Woken(p, q)
  PROVE  /\ Placed(q, held, threads)
         /\ \A t \in QueueThreads : p[t] \notin {"wait", "queueWait", "finalWait"} => q[t] = p[t]
         /\ q[Producer] = "gone" <=> p[Producer] = "gone"
         /\ q[Producer] = "joining" <=> p[Producer] = "joining"
<1>1. DOMAIN p = QueueThreads /\ Producer \in QueueThreads /\ Workers \subseteq QueueThreads
  BY DEF Placed, QueueThreads
<1>2. \A t \in QueueThreads :
       \/ q[t] = p[t]
       \/ p[t] = "wait" /\ q[t] = "lock"
       \/ p[t] = "queueWait" /\ q[t] = "queueCheck"
       \/ p[t] = "finalWait" /\ q[t] = "finalCheck"
  BY <1>1 DEF Woken
<1>3. \A t \in QueueThreads : q[t] \in ProducerPCs \cup WorkerPCs
  BY <1>2 DEF Placed, ProducerPCs, WorkerPCs
<1>4. q \in [QueueThreads -> ProducerPCs \cup WorkerPCs]
  BY <1>1, <1>3 DEF Woken
<1>5. q[Producer] \in ProducerPCs /\ \A w \in Workers : q[w] \in WorkerPCs
  BY <1>1, <1>2 DEF Placed, ProducerPCs, WorkerPCs
<1>6. /\ \A w \in Workers \ threads : q[w] = "none"
      /\ \A w \in Workers : q[w] \in {"none", "wait", "ended"} => held[w] = NoItem
      /\ \A w \in Workers : q[w] = "work" => held[w] # NoItem
  BY <1>1, <1>2 DEF Placed
<1>. QED  BY <1>1, <1>2, <1>4, <1>5, <1>6 DEF Placed

\* A thread that goes somewhere else, by itself.
LEMMA MovedPlaced ==
  ASSUME NEW p, NEW held, NEW threads, Placed(p, held, threads), NEW t \in QueueThreads, NEW to,
         IF t = Producer THEN to \in ProducerPCs
         ELSE /\ to \in WorkerPCs \ {"none"} /\ t \in threads
              /\ to \in {"wait", "ended"} => held[t] = NoItem
              /\ to = "work" => held[t] # NoItem,
         Producer \notin Workers
  PROVE  Placed([p EXCEPT ![t] = to], held, threads)
<1>1. PICK q : q = [p EXCEPT ![t] = to]
  OBVIOUS
<1>2. q \in [QueueThreads -> ProducerPCs \cup WorkerPCs]
  BY <1>1 DEF Placed
<1>3. \A u \in QueueThreads : q[u] = IF u = t THEN to ELSE p[u]
  BY <1>1 DEF Placed
<1>4. Placed(q, held, threads)
  BY <1>2, <1>3 DEF Placed, QueueThreads
<1>. QED  BY <1>1, <1>4

\* A step that moves threads only.
LEMMA QueueAside ==
  ASSUME QueueAssumption, QueueInv, qpc[Producer] # "gone", qpc'[Producer] # "gone",
         Placed(qpc', item, started), notify' \in BOOLEAN, stopping' \in BOOLEAN,
         worked' \subseteq Items, limit' \in Limits \cup {0},
         UNCHANGED <<made, backlog, done, counters, started, item, destroyed>>
  PROVE  QueueInv'
<1>1. UNCHANGED <<made, backlog, done, doneCount, finalized, working, started, item, destroyed>>
  BY DEF counters
<1>2. Offset' = Offset /\ Holders' = Holders /\ HeldItems' = HeldItems
  BY <1>1 DEF Offset, Holders, HeldItems
<1>3. QueueTypeOK'
  BY <1>1 DEF QueueInv, QueueTypeOK, Placed
<1>4. WorkersHold'
  BY <1>1, <1>2 DEF QueueInv, WorkersHold
<1>5. BacklogIsNext' /\ NumbersTellItems'
  BY <1>1, <1>2 DEF QueueInv, BacklogIsNext, NumbersTellItems
<1>6. DestroyedInOrder'
  BY <1>1 DEF QueueInv, DestroyedInOrder
<1>. QED  BY <1>3, <1>4, <1>5, <1>6 DEF QueueInv

\* A spurious wakeup.
LEMMA SpuriousKeeps ==
  ASSUME QueueAssumption, QueueInv, NEW t \in QueueThreads, SpuriousWake(t)
  PROVE  QueueInv'
<1>1. Placed(qpc, item, started) /\ DOMAIN qpc = QueueThreads
  BY DEF QueueInv, WorkersHold, Placed
<1>2. qpc[t] \in {"wait", "queueWait", "finalWait"} /\ qpc' = [qpc EXCEPT ![t] = Awake(qpc[t])]
  BY DEF SpuriousWake, Waiting
<1>3. /\ qpc[t] = "wait" => Awake(qpc[t]) = "lock"
      /\ qpc[t] = "queueWait" => Awake(qpc[t]) = "queueCheck"
      /\ qpc[t] = "finalWait" => Awake(qpc[t]) = "finalCheck"
  BY DEF Awake
<1>4. Woken(qpc, qpc')
  BY <1>1, <1>2, <1>3 DEF Woken
<1>5. qpc[Producer] # "gone"
  BY <1>2 DEF QueueInv, NothingIsLeft, QueueThreads
<1>6. Placed(qpc', item, started) /\ qpc'[Producer] # "gone"
  BY <1>1, <1>4, <1>5, WokenPlaced
<1>7. /\ UNCHANGED <<made, backlog, done, counters, started, item, destroyed>>
      /\ notify' \in BOOLEAN /\ stopping' \in BOOLEAN /\ worked' \subseteq Items /\ limit' \in Limits \cup {0}
  BY DEF SpuriousWake, QueueInv, QueueTypeOK
<1>. QED  BY <1>5, <1>6, <1>7, QueueAside

\* WorkProc, outside of the lock.
LEMMA WorkKeeps ==
  ASSUME QueueAssumption, QueueInv, NEW w \in Workers, Work(w)
  PROVE  QueueInv'
<1>1. /\ Placed(qpc, item, started) /\ Producer \notin Workers /\ w \in QueueThreads
      /\ qpc[w] = "work" /\ qpc' = [qpc EXCEPT ![w] = "lock"]
  BY DEF QueueInv, WorkersHold, Work, QueueAssumption, QueueThreads
<1>2. w \in started /\ item[w] # NoItem /\ w # Producer /\ qpc[Producer] # "gone"
  BY <1>1 DEF Placed, QueueInv, NothingIsLeft
<1>3. Placed(qpc', item, started) /\ qpc'[Producer] = qpc[Producer]
  <2>1. "lock" \in WorkerPCs \ {"none"}
    BY DEF WorkerPCs
  <2>2. Placed([qpc EXCEPT ![w] = "lock"], item, started)
    BY <1>1, <1>2, <2>1, MovedPlaced
  <2>. QED  BY <1>1, <1>2, <2>2 DEF Placed
<1>4. item[w][2] \in Items
  <2>1. item[w] \in HeldItems /\ NumbersTellItems
    BY <1>2 DEF HeldItems, Holders, QueueInv
  <2>2. item[w][1] \in finalized + 1 .. doneCount /\ item[w][2] = Offset + item[w][1]
    BY <2>1 DEF NumbersTellItems
  <2>3. QueueTypeOK /\ Offset \in Nat
    BY <2>1 DEF QueueInv, NumbersTellItems
  <2>4. /\ doneCount \in Nat /\ finalized \in Nat /\ Len(backlog) \in Nat /\ MaxItems \in Nat
        /\ Offset + doneCount + Len(backlog) = made /\ made <= MaxItems
    BY <2>3, NumbersInRange
  <2>5. PICK o \in Nat, n \in finalized + 1 .. doneCount : o = Offset /\ n = item[w][1]
    BY <2>2, <2>3
  <2>6. n <= doneCount /\ n >= 1 /\ n \in Nat
    BY ONLY <2>4, <2>5
  <2>7. o + n >= 1 /\ o + n <= MaxItems /\ o + n \in Nat
    <3>1. o + doneCount + Len(backlog) <= MaxItems
      BY <2>4, <2>5
    <3>2. doneCount \in Nat /\ Len(backlog) \in Nat /\ MaxItems \in Nat
      BY <2>4
    <3>. QED  BY ONLY <2>5, <2>6, <3>1, <3>2
  <2>. QED  BY <2>2, <2>4, <2>5, <2>7 DEF Items
<1>5. /\ UNCHANGED <<made, backlog, done, counters, started, item, destroyed>>
      /\ notify' \in BOOLEAN /\ stopping' \in BOOLEAN /\ worked' \subseteq Items /\ limit' \in Limits \cup {0}
  BY <1>4 DEF Work, QueueInv, QueueTypeOK
<1>. QED  BY <1>2, <1>3, <1>5, QueueAside

\* Who holds an item after a worker got one, or gave its own back.
LEMMA HoldersAfter ==
  ASSUME QueueAssumption, item \in [Workers -> Pairs], working = Cardinality(Holders),
         NEW w \in Workers, NEW pair \in Pairs, item' = [item EXCEPT ![w] = pair],
         working' = working - (IF item[w] # NoItem THEN 1 ELSE 0) + (IF pair # NoItem THEN 1 ELSE 0)
  PROVE  /\ working' = Cardinality(Holders') /\ working' \in 0 .. Cardinality(Workers)
         /\ item' \in [Workers -> Pairs]
         /\ \A v \in Workers : v # w => item'[v] = item[v]
         /\ item'[w] = pair
<1>1. /\ item' \in [Workers -> Pairs] /\ item'[w] = pair
      /\ \A v \in Workers : v # w => item'[v] = item[v]
  OBVIOUS
<1>2. Holders' = IF pair # NoItem THEN Holders \cup {w} ELSE Holders \ {w}
  <2>1. \A v \in Workers : item'[v] # NoItem <=> IF v = w THEN pair # NoItem ELSE item[v] # NoItem
    BY <1>1
  <2>2. Holders' = {v \in Workers : item'[v] # NoItem}
    BY DEF Holders
  <2>. QED  BY <2>1, <2>2 DEF Holders
<1>3. IsFiniteSet(Holders) /\ Cardinality(Holders) \in Nat
  BY WorkersAreFinite, FS_CardinalityType DEF Holders
<1>4. w \in Holders <=> item[w] # NoItem
  BY DEF Holders
<1>5. Cardinality(Holders \cup {w}) = IF w \in Holders THEN Cardinality(Holders) ELSE Cardinality(Holders) + 1
  BY <1>3, FS_AddElement
<1>6. Cardinality(Holders \ {w}) = IF w \in Holders THEN Cardinality(Holders) - 1 ELSE Cardinality(Holders)
  BY <1>3, FS_RemoveElement
<1>7. working' = Cardinality(Holders')
  <2>1. CASE pair # NoItem
    <3>1. Cardinality(Holders') = Cardinality(Holders \cup {w})
      BY <1>2, <2>1
    <3>. QED  BY <1>3, <1>4, <1>5, <2>1, <3>1
  <2>2. CASE pair = NoItem
    <3>1. Cardinality(Holders') = Cardinality(Holders \ {w})
      BY <1>2, <2>2
    <3>. QED  BY <1>3, <1>4, <1>6, <2>2, <3>1
  <2>. QED  BY <2>1, <2>2
<1>8. Holders' \in SUBSET Workers
  BY <1>2 DEF Holders
<1>9. Cardinality(Holders') \in 0 .. Cardinality(Workers)
  BY <1>8, WorkersAreFinite
<1>. QED  BY <1>1, <1>7, <1>9

\* The worker's item is finished, and it has another one, or none.
LEMMA GiveKeeps ==
  ASSUME QueueAssumption, QueueTypeOK, NumbersTellItems, NEW w \in Workers, NEW pair \in Pairs,
         item' = [item EXCEPT ![w] = pair],
         done' = done \cup (IF item[w] # NoItem THEN {item[w]} ELSE {}),
         UNCHANGED <<finalized, destroyed>>, Offset' = Offset,
         \/ pair = NoItem /\ doneCount' = doneCount
         \/ pair = <<doneCount + 1, Offset + doneCount + 1>> /\ doneCount' = doneCount + 1
  PROVE  NumbersTellItems'
<1>1. /\ made \in Nat /\ doneCount \in Nat /\ finalized \in Nat /\ finalized <= doneCount /\ Offset \in Nat
      /\ item \in [Workers -> Pairs] /\ done \subseteq Pairs /\ doneCount' \in Nat /\ doneCount <= doneCount'
  BY NumbersInRange DEF NumbersTellItems, QueueTypeOK
<1>2. \A v \in Workers : item'[v] = IF v = w THEN pair ELSE item[v]
  BY <1>1
<1>3. /\ \A p \in HeldItems : \E v \in Workers : item[v] # NoItem /\ p = item[v]
      /\ \A v \in Workers : item[v] # NoItem => item[v] \in HeldItems
  BY DEF HeldItems, Holders
<1>4. /\ \A p \in HeldItems' : \E v \in Workers : item'[v] # NoItem /\ p = item'[v]
      /\ \A v \in Workers : item'[v] # NoItem => item'[v] \in HeldItems'
  BY DEF HeldItems, Holders
<1>5. \A p \in done \cup HeldItems : p[1] \in finalized + 1 .. doneCount /\ p[2] = Offset + p[1]
  BY DEF NumbersTellItems
<1>6. pair # NoItem => pair = <<doneCount + 1, Offset + doneCount + 1>> /\ doneCount' = doneCount + 1
  OBVIOUS
<1>7. \A p \in done' \cup HeldItems' :
         p \in done \cup HeldItems \/ (pair # NoItem /\ p = pair)
  BY <1>2, <1>3, <1>4
<1>8. \A p \in done \cup HeldItems : p \in done' \cup HeldItems'
  BY <1>2, <1>3, <1>4
<1>9. \A p \in done' \cup HeldItems' : p[1] \in finalized + 1 .. doneCount' /\ p[2] = Offset + p[1]
  <2>. SUFFICES ASSUME NEW p \in done' \cup HeldItems'
                PROVE  p[1] \in finalized + 1 .. doneCount' /\ p[2] = Offset + p[1]
    OBVIOUS
  <2>1. CASE p \in done \cup HeldItems
    BY <1>1, <1>5, <2>1
  <2>2. CASE pair # NoItem /\ p = pair
    <3>1. p[1] = doneCount + 1 /\ p[2] = Offset + doneCount + 1 /\ doneCount' = doneCount + 1
      BY <1>6, <2>2
    <3>. QED  BY <1>1, <3>1
  <2>. QED  BY <1>7, <2>1, <2>2
<1>10. pair # NoItem => pair \notin done \cup HeldItems
  <2>1. doneCount + 1 \notin finalized + 1 .. doneCount
    BY <1>1
  <2>. QED  BY <1>5, <1>6, <2>1
<1>11. /\ done \cap HeldItems = {}
       /\ \A v, u \in Workers : item[v] # NoItem /\ item[u] # NoItem /\ item[v] = item[u] => v = u
  BY DEF NumbersTellItems, Holders
<1>12. done' \cap HeldItems' = {}
  <2>. SUFFICES ASSUME NEW p \in done', p \in HeldItems' PROVE FALSE
    OBVIOUS
  <2>1. PICK v \in Workers : item'[v] # NoItem /\ p = item'[v]
    BY <1>4
  <2>2. CASE v = w
    BY <1>2, <1>3, <1>10, <2>1, <2>2
  <2>3. CASE v # w
    BY <1>2, <1>3, <1>11, <2>1, <2>3
  <2>. QED  BY <2>2, <2>3
<1>13. \A v, u \in Workers : item'[v] # NoItem /\ item'[u] # NoItem /\ item'[v] = item'[u] => v = u
  BY <1>2, <1>3, <1>10, <1>11
<1>14. \A n \in finalized + 1 .. doneCount' : <<n, Offset + n>> \in done' \cup HeldItems'
  <2>. SUFFICES ASSUME NEW n \in finalized + 1 .. doneCount'
                PROVE  <<n, Offset + n>> \in done' \cup HeldItems'
    OBVIOUS
  <2>1. CASE n \in finalized + 1 .. doneCount
    BY <1>8, <2>1 DEF NumbersTellItems
  <2>2. CASE n \notin finalized + 1 .. doneCount
    <3>1. n = doneCount + 1 /\ doneCount' = doneCount + 1
      BY <1>1, <2>2
    <3>2. pair = <<n, Offset + n>>
      BY <1>1, <3>1
    <3>3. pair # NoItem
      BY <1>1, <3>1, <3>2 DEF NoItem
    <3>. QED  BY <1>2, <1>4, <3>2, <3>3
  <2>. QED  BY <2>1, <2>2
<1>15. \A v, u \in Holders' : item'[v] = item'[u] => v = u
  BY <1>13 DEF Holders
<1>16. finalized' <= doneCount' /\ Offset' \in Nat /\ Len(destroyed') = Offset' + finalized'
  BY <1>1 DEF NumbersTellItems
<1>. QED  BY <1>9, <1>12, <1>14, <1>15, <1>16 DEF NumbersTellItems

\* A worker under the lock: what it has is finished, and the next item is what the backlog
\* begins with.
LEMMA LockedKeeps ==
  ASSUME QueueAssumption, QueueInv, NEW w \in Workers, WorkerLocked(w)
  PROVE  QueueInv'
<1>. DEFINE has == item[w] # NoItem
            told == IF has THEN Announce(qpc) ELSE qpc
<1>1. /\ qpc[w] = "lock" /\ Placed(qpc, item, started) /\ QueueTypeOK /\ DestroyedInOrder
      /\ w # Producer /\ Producer \notin Workers
  BY DEF WorkerLocked, QueueInv, WorkersHold, QueueAssumption
<1>2. w \in started /\ qpc[Producer] # "gone" /\ BacklogIsNext /\ NumbersTellItems
  BY <1>1 DEF Placed, QueueInv, NothingIsLeft
<1>3. /\ made \in Nat /\ doneCount \in Nat /\ finalized \in Nat /\ Offset \in Nat
      /\ Len(backlog) \in Nat /\ MaxItems \in Nat
      /\ Offset + doneCount + Len(backlog) = made /\ made <= MaxItems
      /\ item \in [Workers -> Pairs] /\ done \subseteq Pairs /\ backlog \in Seq(Items)
  BY <1>1, <1>2, NumbersInRange DEF NumbersTellItems, QueueTypeOK
<1>4. /\ done' = done \cup (IF item[w] # NoItem THEN {item[w]} ELSE {})
      /\ UNCHANGED <<made, finalized, stopping, started, limit, worked, destroyed>>
      /\ notify' \in BOOLEAN
  BY <1>1 DEF WorkerLocked, QueueTypeOK
<1>5. PICK pair \in Pairs, to \in {"work", "ended", "wait"} :
        /\ item' = [item EXCEPT ![w] = pair] /\ qpc' = [told EXCEPT ![w] = to]
        /\ working' = working - (IF item[w] # NoItem THEN 1 ELSE 0) + (IF pair # NoItem THEN 1 ELSE 0)
        /\ \/ /\ pair = NoItem /\ doneCount' = doneCount /\ backlog' = backlog /\ to # "work"
           \/ /\ pair = <<doneCount + 1, Offset + doneCount + 1>> /\ doneCount' = doneCount + 1
              /\ backlog # <<>> /\ backlog' = Tail(backlog) /\ to = "work" /\ pair # NoItem
  <2>1. CASE ~stopping /\ Take(w, IF has THEN 1 ELSE 0) /\ qpc' = [told EXCEPT ![w] = "work"]
    <3>1. backlog # <<>> /\ Len(backlog) > 0 /\ Head(backlog) = backlog[1]
      BY <1>3, <2>1 DEF Take
    <3>2. backlog[1] = Offset + doneCount + 1
      BY <1>2, <1>3, <3>1 DEF BacklogIsNext
    <3>3. PICK pair : pair = <<doneCount + 1, Offset + doneCount + 1>>
      OBVIOUS
    <3>4. pair \in Pairs /\ pair # NoItem
      <4>1. doneCount + 1 \in 0 .. MaxItems /\ Offset + doneCount + 1 \in 0 .. MaxItems /\ doneCount + 1 # 0
        BY <1>3, <3>1
      <4>. QED  BY <3>3, <4>1 DEF Pairs, NoItem
    <3>5. /\ item' = [item EXCEPT ![w] = pair] /\ doneCount' = doneCount + 1
          /\ backlog' = Tail(backlog)
      BY <2>1, <3>1, <3>2, <3>3 DEF Take
    <3>6. working' = working - (IF item[w] # NoItem THEN 1 ELSE 0) + (IF pair # NoItem THEN 1 ELSE 0)
      BY <2>1, <3>4 DEF Take
    <3>. QED  BY <2>1, <3>1, <3>3, <3>4, <3>5, <3>6
  <2>2. CASE /\ qpc' = [told EXCEPT ![w] = IF stopping THEN "ended" ELSE "wait"]
             /\ item' = [item EXCEPT ![w] = NoItem]
             /\ working' = working - (IF has THEN 1 ELSE 0)
             /\ UNCHANGED <<backlog, doneCount>>
    <3>1. NoItem \in Pairs
      BY <1>3 DEF Pairs, NoItem
    <3>2. working \in Int
      <4>1. Cardinality(Workers) \in Nat /\ working \in 0 .. Cardinality(Workers)
        BY <1>1, WorkersAreFinite DEF QueueTypeOK
      <4>. QED  BY <4>1
    <3>3. PICK to \in {"ended", "wait"} : to = IF stopping THEN "ended" ELSE "wait"
      OBVIOUS
    <3>4. working' = working - (IF item[w] # NoItem THEN 1 ELSE 0) + (IF NoItem # NoItem THEN 1 ELSE 0)
      BY <2>2, <3>2
    <3>5. /\ item' = [item EXCEPT ![w] = NoItem] /\ qpc' = [told EXCEPT ![w] = to]
          /\ NoItem = NoItem /\ doneCount' = doneCount /\ backlog' = backlog /\ to # "work"
      BY <2>2, <3>3
    <3>. HIDE DEF told
    <3>. QED  BY <3>1, <3>3, <3>4, <3>5
  <2>. QED  BY <2>1, <2>2 DEF WorkerLocked
<1>6. Len(backlog') \in Nat /\ backlog' \in Seq(Items) /\ Offset' = Offset /\ BacklogIsNext' /\ doneCount' \in 0 .. MaxItems
  <2>1. CASE pair = NoItem /\ doneCount' = doneCount /\ backlog' = backlog
    BY <1>2, <1>3, <1>4, <2>1 DEF Offset, BacklogIsNext, QueueTypeOK
  <2>2. CASE doneCount' = doneCount + 1 /\ backlog # <<>> /\ backlog' = Tail(backlog)
    <3>1. PICK q : q = Tail(backlog)
      OBVIOUS
    <3>2. /\ q \in Seq(Items) /\ Len(q) = Len(backlog) - 1 /\ Len(backlog) > 0
          /\ \A i \in 1 .. Len(backlog) - 1 : q[i] = backlog[i + 1]
      BY <1>3, <2>2, <3>1
    <3>3. backlog' = q /\ made' = made
      BY <1>4, <2>2, <3>1
    <3>4. Offset' = Offset
      BY <1>3, <2>2, <3>2, <3>3 DEF Offset
    <3>5. \A i \in 1 .. Len(q) : q[i] = Offset + (doneCount + 1) + i
      <4>. SUFFICES ASSUME NEW i \in 1 .. Len(q) PROVE q[i] = Offset + (doneCount + 1) + i
        OBVIOUS
      <4>1. i + 1 \in 1 .. Len(backlog) /\ q[i] = backlog[i + 1]
        BY <1>3, <3>2
      <4>2. backlog[i + 1] = Offset + doneCount + (i + 1)
        BY <1>2, <4>1 DEF BacklogIsNext
      <4>. QED  BY <1>3, <4>1, <4>2
    <3>6. BacklogIsNext'
      BY <2>2, <3>3, <3>4, <3>5 DEF BacklogIsNext
    <3>7. doneCount + 1 \in 0 .. MaxItems
      BY <1>3, <3>2
    <3>. QED  BY <1>3, <2>2, <3>2, <3>3, <3>4, <3>6, <3>7
  <2>. QED  BY <1>5, <2>1, <2>2
<1>7. NumbersTellItems'
  BY <1>1, <1>2, <1>4, <1>5, <1>6, GiveKeeps
<1>8. /\ working' = Cardinality(Holders') /\ working' \in 0 .. Cardinality(Workers)
      /\ item' \in [Workers -> Pairs]
      /\ \A v \in Workers : v # w => item'[v] = item[v]
      /\ item'[w] = pair
  BY <1>3, <1>5, HoldersAfter DEF QueueInv, WorkersHold
<1>9. Placed(qpc', item', started) /\ qpc'[Producer] # "gone"
  <2>1. Woken(qpc, told)
    <3>1. qpc \in [QueueThreads -> ProducerPCs \cup WorkerPCs]
      BY <1>1 DEF Placed
    <3>. QED  BY <3>1, WakesOnly DEF Announce
  <2>2. Placed(told, item, started) /\ told[Producer] # "gone"
    BY <1>1, <1>2, <2>1, WokenPlaced
  <2>. HIDE DEF told, has
  <2>3. PICK q : q = [told EXCEPT ![w] = to]
    OBVIOUS
  <2>4. q \in [QueueThreads -> ProducerPCs \cup WorkerPCs] /\ \A t \in QueueThreads : q[t] = IF t = w THEN to ELSE told[t]
    BY <2>2, <2>3 DEF Placed, WorkerPCs, QueueThreads
  <2>5. Placed(q, item', started)
    BY <1>1, <1>2, <1>5, <1>8, <2>2, <2>4 DEF Placed, QueueThreads, WorkerPCs
  <2>. QED  BY <1>1, <1>5, <2>2, <2>3, <2>4, <2>5 DEF QueueThreads
<1>10. QueueTypeOK'
  <2>1. done' \subseteq Pairs
    BY <1>3, <1>4
  <2>. QED  BY <1>1, <1>4, <1>6, <1>8, <1>9, <2>1 DEF QueueTypeOK, Placed
<1>11. WorkersHold'
  BY <1>2, <1>4, <1>8, <1>9 DEF WorkersHold
<1>12. DestroyedInOrder'
  BY <1>1, <1>4 DEF DestroyedInOrder
<1>. QED  BY <1>6, <1>7, <1>9, <1>10, <1>11, <1>12 DEF QueueInv

\* The producer goes on to another place of its own.
LEMMA ProducerPlaced ==
  ASSUME QueueAssumption, NEW p, NEW threads, Placed(p, item, threads), NEW to \in ProducerPCs
  PROVE  Placed([p EXCEPT ![Producer] = to], item, threads) /\ [p EXCEPT ![Producer] = to][Producer] = to
<1>1. Producer \notin Workers /\ Producer \in QueueThreads /\ DOMAIN p = QueueThreads
  BY DEF QueueAssumption, QueueThreads, Placed
<1>. QED  BY <1>1, MovedPlaced

\* The producer has the finished items, and its call ends.
LEMMA FetchAside ==
  ASSUME QueueAssumption, QueueInv, qpc[Producer] # "gone", FetchOrderedDoneItems, notify' \in BOOLEAN,
         Placed(qpc', item, started), qpc'[Producer] # "gone",
         UNCHANGED <<made, backlog, doneCount, working, stopping, started, item, limit, worked>>
  PROVE  QueueInv'
<1>1. QueueTypeOK /\ DestroyedInOrder /\ NumbersTellItems /\ BacklogIsNext /\ WorkersHold
  BY DEF QueueInv
<1>2. Offset' = Offset /\ Holders' = Holders
  BY DEF Offset, Holders
<1>3. /\ DestroyedInOrder' /\ NumbersTellItems'
      /\ destroyed' \in Seq(Items) /\ done' \subseteq done /\ finalized' \in 0 .. MaxItems
  BY <1>1, <1>2, FetchKeeps
<1>4. QueueTypeOK'
  BY <1>1, <1>3 DEF QueueTypeOK, Placed
<1>5. BacklogIsNext'
  BY <1>1, <1>2 DEF BacklogIsNext
<1>6. started = {} => backlog = <<>> /\ done' = {} /\ doneCount = 0 /\ finalized' = 0
  <2>. SUFFICES ASSUME started = {} PROVE backlog = <<>> /\ done' = {} /\ doneCount = 0 /\ finalized' = 0
    OBVIOUS
  <2>1. backlog = <<>> /\ done = {} /\ doneCount = 0
    BY <1>1 DEF WorkersHold
  <2>2. finalized' <= doneCount' /\ finalized' \in Nat /\ doneCount' = 0
    BY <1>3, <2>1 DEF NumbersTellItems
  <2>. QED  BY <1>3, <2>1, <2>2
<1>7. WorkersHold'
  BY <1>1, <1>2, <1>6 DEF WorkersHold
<1>. QED  BY <1>3, <1>4, <1>5, <1>7 DEF QueueInv

\* Queue and Finalize, in their waits: they go on waiting, or fetch and return.
LEMMA CheckKeeps ==
  ASSUME QueueAssumption, QueueInv, QueueCheck \/ QueueFinalize
  PROVE  QueueInv'
<1>1. qpc[Producer] # "gone" /\ Placed(qpc, item, started) /\ QueueTypeOK
  BY DEF QueueCheck, QueueFinalize, QueueInv, WorkersHold
<1>2. /\ UNCHANGED <<made, backlog, doneCount, working, stopping, started, item, limit, worked>>
      /\ \/ /\ notify' = TRUE /\ UNCHANGED <<destroyed, finalized, done>>
            /\ \/ qpc' = [qpc EXCEPT ![Producer] = "queueWait"]
               \/ qpc' = [qpc EXCEPT ![Producer] = "finalWait"]
         \/ /\ FetchOrderedDoneItems /\ notify' = notify
            /\ qpc' = [qpc EXCEPT ![Producer] = "idle"]
  BY DEF QueueCheck, QueueFinalize
<1>3. Placed(qpc', item, started) /\ qpc'[Producer] # "gone"
  <2>1. {"queueWait", "finalWait", "idle"} \subseteq ProducerPCs
    BY DEF ProducerPCs
  <2>. QED  BY <1>1, <1>2, <2>1, ProducerPlaced
<1>4. notify' \in BOOLEAN
  BY <1>1, <1>2 DEF QueueTypeOK
<1>5. CASE UNCHANGED <<destroyed, finalized, done>>
  <2>1. /\ UNCHANGED <<made, backlog, done, counters, started, item, destroyed>>
        /\ stopping' \in BOOLEAN /\ worked' \subseteq Items /\ limit' \in Limits \cup {0}
    BY <1>1, <1>2, <1>5 DEF counters, QueueTypeOK
  <2>. QED  BY <1>1, <1>3, <1>4, <2>1, QueueAside
<1>6. CASE FetchOrderedDoneItems
  BY <1>1, <1>2, <1>3, <1>4, <1>6, FetchAside
<1>. QED  BY <1>2, <1>5, <1>6

\* The destructor tells the workers to stop.
LEMMA StopKeeps ==
  ASSUME QueueAssumption, QueueInv, Stop
  PROVE  QueueInv'
<1>1. qpc[Producer] # "gone" /\ Placed(qpc, item, started) /\ QueueTypeOK
  BY DEF Stop, QueueInv, WorkersHold
<1>2. PICK p : p = IF started # {} THEN WakeAll(qpc) ELSE qpc
  OBVIOUS
<1>3. Woken(qpc, p)
  <2>1. qpc \in [QueueThreads -> ProducerPCs \cup WorkerPCs]
    BY <1>1 DEF Placed
  <2>. QED  BY <1>2, <2>1, WakesOnly
<1>4. Placed(p, item, started)
  BY <1>1, <1>3, WokenPlaced
<1>5. Placed(qpc', item, started) /\ qpc'[Producer] # "gone"
  <2>1. "joining" \in ProducerPCs
    BY DEF ProducerPCs
  <2>2. qpc' = [p EXCEPT ![Producer] = "joining"]
    BY <1>2 DEF Stop
  <2>. QED  BY <1>4, <2>1, <2>2, ProducerPlaced
<1>6. /\ UNCHANGED <<made, backlog, done, counters, started, item, destroyed>>
      /\ notify' \in BOOLEAN /\ stopping' \in BOOLEAN /\ worked' \subseteq Items /\ limit' \in Limits \cup {0}
  BY <1>1 DEF Stop, QueueTypeOK
<1>. QED  BY <1>1, <1>5, <1>6, QueueAside

\* Where threads are when Queue has made a worker, or none, and has notified.
LEMMA NotifyPlaced ==
  ASSUME QueueAssumption, Placed(qpc, item, started), NEW fresh \in SUBSET Workers,
         fresh \cap started = {}, NEW p \in Notify(NewWorker(fresh, qpc))
  PROVE  Placed(p, item, started \cup fresh) /\ (p[Producer] = "gone" <=> qpc[Producer] = "gone")
<1>1. PICK q : q = NewWorker(fresh, qpc)
  OBVIOUS
<1>2. /\ DOMAIN qpc = QueueThreads /\ Producer \in QueueThreads /\ Producer \notin fresh
      /\ Workers \subseteq QueueThreads
  BY DEF Placed, QueueThreads, QueueAssumption
<1>3. /\ q \in [QueueThreads -> ProducerPCs \cup WorkerPCs]
      /\ \A t \in QueueThreads : q[t] = IF t \in fresh THEN "lock" ELSE qpc[t]
  BY <1>1, <1>2 DEF NewWorker, Placed, WorkerPCs
<1>4. Placed(q, item, started \cup fresh)
  BY <1>2, <1>3 DEF Placed, WorkerPCs
<1>5. Woken(q, p)
  BY <1>1, <1>3, WakesOnly DEF Notify
<1>6. q[Producer] = qpc[Producer]
  BY <1>2, <1>3
<1>. QED  BY <1>4, <1>5, <1>6, WokenPlaced

\* Queue: the item comes last in the backlog, and the call waits or fetches.
LEMMA QueueKeeps ==
  ASSUME QueueAssumption, QueueInv, NEW fresh \in SUBSET Workers, NEW n \in Limits, Queue(fresh, n)
  PROVE  QueueInv'
<1>1. /\ qpc[Producer] = "idle" /\ Placed(qpc, item, started) /\ QueueTypeOK /\ DestroyedInOrder
      /\ NumbersTellItems /\ BacklogIsNext /\ working = Cardinality(Holders)
  BY DEF Queue, QueueInv, WorkersHold
<1>2. /\ made < MaxItems /\ made' = made + 1 /\ backlog' = Append(backlog, made + 1)
      /\ started' = started \cup fresh /\ started' # {} /\ fresh \cap started = {} /\ limit' = n
      /\ UNCHANGED <<doneCount, working, stopping, item, worked>>
  BY DEF Queue
<1>3. PICK p \in Notify(NewWorker(fresh, qpc)) :
        \/ /\ notify' = TRUE /\ qpc' = [p EXCEPT ![Producer] = "queueWait"]
           /\ UNCHANGED <<destroyed, finalized, done>>
        \/ qpc' = p /\ FetchOrderedDoneItems /\ notify' = notify
  BY DEF Queue
<1>4. Placed(p, item, started') /\ p[Producer] # "gone"
  BY <1>1, <1>2, NotifyPlaced
<1>5. Placed(qpc', item, started') /\ qpc'[Producer] # "gone"
  <2>1. "queueWait" \in ProducerPCs
    BY DEF ProducerPCs
  <2>. QED  BY <1>3, <1>4, <2>1, ProducerPlaced
<1>6. /\ made \in Nat /\ doneCount \in Nat /\ Offset \in Nat /\ Len(backlog) \in Nat /\ MaxItems \in Nat
      /\ Offset + doneCount + Len(backlog) = made /\ backlog \in Seq(Items)
  BY <1>1, NumbersInRange DEF NumbersTellItems, QueueTypeOK
<1>7. Offset' = Offset /\ BacklogIsNext' /\ backlog' \in Seq(Items)
  <2>1. PICK q : q = Append(backlog, made + 1)
    OBVIOUS
  <2>2. made + 1 \in Items
    BY <1>2, <1>6 DEF Items
  <2>3. /\ q \in Seq(Items) /\ Len(q) = Len(backlog) + 1
        /\ \A i \in 1 .. Len(backlog) + 1 : q[i] = IF i <= Len(backlog) THEN backlog[i] ELSE made + 1
    BY <1>6, <2>1, <2>2
  <2>4. backlog' = q
    BY <1>2, <2>1
  <2>5. Offset' = Offset
    BY <1>2, <1>6, <2>3, <2>4 DEF Offset
  <2>6. \A i \in 1 .. Len(q) : q[i] = Offset + doneCount + i
    <3>. SUFFICES ASSUME NEW i \in 1 .. Len(q) PROVE q[i] = Offset + doneCount + i
      OBVIOUS
    <3>1. CASE i <= Len(backlog)
      <4>1. i \in 1 .. Len(backlog) /\ q[i] = backlog[i]
        BY <1>6, <2>3, <3>1
      <4>. QED  BY <1>1, <4>1 DEF BacklogIsNext
    <3>2. CASE ~(i <= Len(backlog))
      <4>1. i = Len(backlog) + 1 /\ q[i] = made + 1
        BY <1>6, <2>3, <3>2
      <4>. QED  BY <1>6, <4>1
    <3>. QED  BY <3>1, <3>2
  <2>7. BacklogIsNext'
    BY <1>2, <2>4, <2>5, <2>6 DEF BacklogIsNext
  <2>. QED  BY <2>3, <2>4, <2>5, <2>7
<1>8. /\ DestroyedInOrder' /\ NumbersTellItems'
      /\ destroyed' \in Seq(Items) /\ done' \subseteq done /\ finalized' \in 0 .. MaxItems /\ notify' \in BOOLEAN
  <2>1. CASE FetchOrderedDoneItems /\ notify' = notify
    <3>1. UNCHANGED <<doneCount, item>>
      BY <1>2
    <3>2. notify' \in BOOLEAN
      BY <1>1, <2>1 DEF QueueTypeOK
    <3>. QED  BY <1>1, <1>7, <2>1, <3>1, <3>2, FetchKeeps
  <2>2. CASE UNCHANGED <<destroyed, finalized, done>> /\ notify' = TRUE
    <3>1. HeldItems' = HeldItems /\ Holders' = Holders
      BY <1>2 DEF HeldItems, Holders
    <3>2. NumbersTellItems'
      BY <1>1, <1>2, <1>7, <2>2, <3>1 DEF NumbersTellItems
    <3>. QED  BY <1>1, <2>2, <3>2 DEF QueueTypeOK, DestroyedInOrder
  <2>. QED  BY <1>3, <2>1, <2>2
<1>9. QueueTypeOK'
  <2>1. made' \in 0 .. MaxItems
    BY <1>2, <1>6
  <2>2. started' \subseteq Workers
    BY <1>1, <1>2 DEF QueueTypeOK
  <2>. QED  BY <1>1, <1>2, <1>5, <1>7, <1>8, <2>1, <2>2 DEF QueueTypeOK, Placed
<1>10. WorkersHold'
  <2>1. Holders' = Holders
    BY <1>2 DEF Holders
  <2>. QED  BY <1>1, <1>2, <1>5, <2>1 DEF WorkersHold
<1>. QED  BY <1>5, <1>7, <1>8, <1>9, <1>10 DEF QueueInv

\* An item more is destroyed, the next one.
LEMMA BuryNext ==
  ASSUME NEW p \in Seq(Items), \A i \in DOMAIN p : p[i] = i, NEW k \in Items, k = Len(p) + 1
  PROVE  /\ Append(p, k) \in Seq(Items) /\ Len(Append(p, k)) = k
         /\ \A i \in DOMAIN Append(p, k) : Append(p, k)[i] = i
<1>1. PICK q : q = Append(p, k)
  OBVIOUS
<1>2. Len(p) \in Nat /\ DOMAIN p = 1 .. Len(p)
  OBVIOUS
<1>3. /\ q \in Seq(Items) /\ Len(q) = Len(p) + 1 /\ DOMAIN q = 1 .. Len(p) + 1
      /\ \A i \in 1 .. Len(p) + 1 : q[i] = IF i <= Len(p) THEN p[i] ELSE k
  BY <1>1
<1>4. \A i \in 1 .. Len(p) + 1 : q[i] = i
  BY <1>2, <1>3
<1>. QED  BY <1>1, <1>3, <1>4

\* Without a worker there is nothing in the queue, and the producer does the item itself.
LEMMA SynchronousKeeps ==
  ASSUME QueueAssumption, QueueInv, NEW n \in Limits, QueueSynchronously(n)
  PROVE  QueueInv'
<1>1. /\ qpc[Producer] = "idle" /\ Placed(qpc, item, started) /\ QueueTypeOK /\ DestroyedInOrder
      /\ NumbersTellItems /\ started = {} /\ working = Cardinality(Holders)
      /\ backlog = <<>> /\ done = {} /\ doneCount = 0 /\ finalized = 0
  BY DEF QueueSynchronously, QueueInv, WorkersHold
<1>2. /\ made < MaxItems /\ made' = made + 1 /\ limit' = n
      /\ worked' = worked \cup {made + 1} /\ destroyed' = Append(destroyed, made + 1)
      /\ UNCHANGED <<backlog, done, doneCount, finalized, working, stopping, notify, started, qpc, item>>
  BY DEF QueueSynchronously, counters
<1>3. made \in Nat /\ MaxItems \in Nat /\ Len(backlog) = 0 /\ made + 1 \in Items
  <2>1. made \in Nat /\ MaxItems \in Nat
    BY <1>1, NumbersInRange DEF NumbersTellItems
  <2>. QED  BY <1>1, <1>2, <2>1 DEF Items
<1>4. Offset = made /\ Offset' = made + 1 /\ Len(destroyed) = made
  BY <1>1, <1>2, <1>3 DEF Offset, NumbersTellItems
<1>5. /\ destroyed' \in Seq(Items) /\ Len(destroyed') = made + 1
      /\ \A i \in DOMAIN destroyed' : destroyed'[i] = i
  <2>1. destroyed \in Seq(Items) /\ (\A i \in DOMAIN destroyed : destroyed[i] = i) /\ made + 1 = Len(destroyed) + 1
    BY <1>1, <1>4 DEF QueueTypeOK, DestroyedInOrder
  <2>2. PICK q : q = Append(destroyed, made + 1)
    OBVIOUS
  <2>3. q \in Seq(Items) /\ Len(q) = made + 1 /\ \A i \in DOMAIN q : q[i] = i
    BY <1>3, <2>1, <2>2, BuryNext
  <2>. QED  BY <1>2, <2>2, <2>3
<1>6. Holders = {} /\ HeldItems = {} /\ Holders' = {} /\ HeldItems' = {}
  BY <1>1, <1>2 DEF Holders, HeldItems, Placed
<1>7. QueueTypeOK'
  <2>1. made' \in 0 .. MaxItems /\ worked' \subseteq Items
    BY <1>1, <1>2, <1>3 DEF QueueTypeOK
  <2>. QED  BY <1>1, <1>2, <1>5, <2>1 DEF QueueTypeOK
<1>8. WorkersHold'
  BY <1>1, <1>2, <1>6 DEF WorkersHold
<1>9. BacklogIsNext'
  BY <1>2, <1>3 DEF BacklogIsNext
<1>10. NumbersTellItems'
  <2>1. \A k \in finalized' + 1 .. doneCount' : FALSE
    BY <1>1, <1>2
  <2>2. finalized' <= doneCount' /\ Offset' \in Nat /\ Len(destroyed') = Offset' + finalized'
    BY <1>1, <1>2, <1>3, <1>4, <1>5
  <2>. QED  BY <1>1, <1>2, <1>6, <2>1, <2>2 DEF NumbersTellItems
<1>11. DestroyedInOrder'
  BY <1>5 DEF DestroyedInOrder
<1>. QED  BY <1>1, <1>2, <1>7, <1>8, <1>9, <1>10, <1>11 DEF QueueInv

\* The destructor, when the workers have ended: what is finished goes first, then what was
\* never begun.
LEMMA JoinedKeeps ==
  ASSUME QueueAssumption, QueueInv, Joined
  PROVE  QueueInv'
<1>1. /\ qpc[Producer] = "joining" /\ Placed(qpc, item, started) /\ QueueTypeOK /\ DestroyedInOrder
      /\ NumbersTellItems /\ BacklogIsNext /\ WorkersHold /\ \A w \in started : qpc[w] = "ended"
  BY DEF Joined, QueueInv, WorkersHold
<1>2. /\ destroyed' = destroyed \o InOrder({pair[1] : pair \in done}) \o backlog
      /\ done' = {} /\ backlog' = <<>> /\ qpc' = [qpc EXCEPT ![Producer] = "gone"]
      /\ UNCHANGED <<made, doneCount, finalized, working, stopping, notify, started, item, limit, worked>>
  BY DEF Joined, counters
<1>3. \A w \in Workers : qpc[w] \in {"none", "ended"} /\ item[w] = NoItem
  BY <1>1 DEF Placed
<1>4. Holders = {} /\ HeldItems = {}
  BY <1>3 DEF Holders, HeldItems
<1>5. /\ made \in Nat /\ doneCount \in Nat /\ finalized \in Nat /\ finalized <= doneCount /\ Offset \in Nat
      /\ Len(backlog) \in Nat /\ MaxItems \in Nat /\ Offset + doneCount + Len(backlog) = made /\ made <= MaxItems
      /\ Len(destroyed) = Offset + finalized /\ done \subseteq Pairs /\ backlog \in Seq(Items)
  BY <1>1, NumbersInRange DEF NumbersTellItems, QueueTypeOK
<1>6. \A pair \in done : pair = <<pair[1], Offset + pair[1]>> /\ pair[1] \in finalized + 1 .. doneCount
  BY <1>1, <1>5 DEF NumbersTellItems, Pairs
<1>7. \A k \in finalized + 1 .. doneCount : <<k, Offset + k>> \in done
  BY <1>1, <1>4 DEF NumbersTellItems
<1>8. {pair[1] : pair \in done} = finalized + 1 .. doneCount
  <2>1. \A k \in finalized + 1 .. doneCount : \E pair \in done : pair[1] = k
    <3>. SUFFICES ASSUME NEW k \in finalized + 1 .. doneCount PROVE \E pair \in done : pair[1] = k
      OBVIOUS
    <3>1. <<k, Offset + k>> \in done /\ <<k, Offset + k>>[1] = k
      BY <1>7
    <3>. QED  BY <3>1
  <2>. QED  BY <1>6, <2>1
<1>9. InOrder(finalized + 1 .. doneCount) = [i \in 1 .. doneCount - finalized |-> Offset + finalized + i]
  <2>1. \A pair \in done : pair[1] \in Nat /\ pair = <<pair[1], Offset + pair[1]>>
    BY <1>5, <1>6
  <2>2. PICK o \in Nat : o = Offset
    BY <1>5
  <2>3. /\ \A n \in finalized + 1 .. doneCount : <<n, o + n>> \in done
        /\ \A pair \in done : pair[1] \in Nat /\ pair = <<pair[1], o + pair[1]>>
    BY <1>7, <2>1, <2>2
  <2>4. finalized \in Nat /\ doneCount \in Nat /\ finalized <= doneCount
    BY <1>5
  <2>5. InOrder(finalized + 1 .. doneCount) = [i \in 1 .. doneCount - finalized |-> o + finalized + i]
    BY ONLY <2>2, <2>3, <2>4, InOrderIs
  <2>. QED  BY <2>2, <2>5
<1>10. PICK s : s = InOrder({pair[1] : pair \in done})
  OBVIOUS
<1>11. s = [i \in 1 .. doneCount - finalized |-> Len(destroyed) + i]
  BY <1>5, <1>8, <1>9, <1>10
<1>12. PICK p : p = destroyed \o s
  OBVIOUS
<1>13. p \in Seq(Items) /\ Len(p) = Offset + doneCount /\ \A i \in DOMAIN p : p[i] = i
  <2>1. destroyed \in Seq(Items) /\ (\A i \in DOMAIN destroyed : destroyed[i] = i)
    BY <1>1 DEF QueueTypeOK, DestroyedInOrder
  <2>2. doneCount - finalized \in Nat /\ Len(destroyed) + (doneCount - finalized) <= MaxItems
        /\ Len(destroyed) + (doneCount - finalized) = Offset + doneCount
    BY <1>5
  <2>3. /\ destroyed \o s \in Seq(Items) /\ Len(destroyed \o s) = Len(destroyed) + (doneCount - finalized)
        /\ \A i \in DOMAIN (destroyed \o s) : (destroyed \o s)[i] = i
    BY <1>5, <1>11, <2>1, <2>2, RowGoesOn
  <2>. QED  BY <1>12, <2>2, <2>3
<1>14. backlog = [i \in 1 .. Len(backlog) |-> Len(p) + i]
  <2>1. \A i \in 1 .. Len(backlog) : backlog[i] = Len(p) + i
    BY <1>1, <1>13 DEF BacklogIsNext
  <2>2. backlog = [i \in 1 .. Len(backlog) |-> backlog[i]]
    BY <1>5
  <2>. QED  BY <2>1, <2>2
<1>15. PICK r : r = p \o backlog
  OBVIOUS
<1>16. r \in Seq(Items) /\ Len(r) = made /\ \A i \in DOMAIN r : r[i] = i
  <2>1. Len(p) + Len(backlog) <= MaxItems /\ Len(p) + Len(backlog) = made
    BY <1>5, <1>13
  <2>2. PICK k \in Nat : k = Len(backlog)
    BY <1>5
  <2>3. backlog = [i \in 1 .. k |-> Len(p) + i]
    BY <1>14, <2>2
  <2>4. /\ p \o backlog \in Seq(Items) /\ Len(p \o backlog) = Len(p) + k
        /\ \A i \in DOMAIN (p \o backlog) : (p \o backlog)[i] = i
    <3>1. p \in Seq(Items) /\ \A i \in DOMAIN p : p[i] = i
      BY <1>13
    <3>2. MaxItems \in Nat /\ Len(p) + k <= MaxItems
      BY <1>5, <2>1, <2>2
    <3>. QED  BY ONLY <2>3, <3>1, <3>2, RowGoesOn
  <2>. QED  BY <1>15, <2>1, <2>2, <2>4
<1>17. destroyed' = r
  BY <1>2, <1>10, <1>12, <1>15
<1>18. /\ Placed(qpc', item, started) /\ qpc'[Producer] = "gone"
       /\ \A w \in Workers : qpc'[w] \in {"none", "ended"}
  <2>1. "gone" \in ProducerPCs
    BY DEF ProducerPCs
  <2>2. Placed(qpc', item, started) /\ qpc'[Producer] = "gone"
    BY <1>1, <1>2, <2>1, ProducerPlaced
  <2>3. Producer \notin Workers /\ \A w \in Workers : w \in DOMAIN qpc
    BY <1>1 DEF QueueAssumption, Placed, QueueThreads
  <2>. QED  BY <1>2, <1>3, <2>2, <2>3
<1>19. QueueTypeOK'
  <2>1. <<>> \in Seq(Items) /\ {} \subseteq Pairs
    OBVIOUS
  <2>2. backlog' \in Seq(Items) /\ done' \subseteq Pairs /\ destroyed' \in Seq(Items)
    BY <1>2, <1>16, <1>17, <2>1
  <2>3. qpc'[Producer] \in ProducerPCs /\ \A w \in Workers : qpc'[w] \in WorkerPCs
    BY <1>18 DEF Placed
  <2>. QED  BY <1>1, <1>2, <2>2, <2>3 DEF QueueTypeOK
<1>20. DestroyedInOrder' /\ NothingIsLeft'
  BY <1>2, <1>16, <1>17, <1>18 DEF DestroyedInOrder, NothingIsLeft
<1>21. WorkersHold'
  <2>1. Holders' = Holders
    BY <1>2 DEF Holders
  <2>. QED  BY <1>1, <1>2, <1>18, <2>1 DEF WorkersHold
<1>. QED  BY <1>18, <1>19, <1>20, <1>21 DEF QueueInv

\* What a new queue is.
NewQueue ==
  /\ made = 0 /\ backlog = <<>> /\ done = {}
  /\ doneCount = 0 /\ finalized = 0 /\ working = 0
  /\ stopping = FALSE /\ notify = FALSE /\ started = {}
  /\ qpc \in [QueueThreads -> {"idle", "none"}]
  /\ qpc[Producer] = "idle" /\ \A w \in Workers : qpc[w] = "none"
  /\ item = [w \in Workers |-> NoItem]
  /\ limit = 0 /\ worked = {} /\ destroyed = <<>>

\* A new queue is as it should be.
LEMMA NewQueueInv == QueueAssumption /\ NewQueue => QueueInv
<1>. SUFFICES ASSUME QueueAssumption, NewQueue PROVE QueueInv
  OBVIOUS
<1>. USE DEF NewQueue
<1>1. Holders = {} /\ HeldItems = {}
  BY DEF Holders, HeldItems
<1>2. Cardinality({}) = 0 /\ 0 \in 0 .. MaxItems /\ 0 \in 0 .. Cardinality(Workers) /\ MaxItems \in Nat
  <2>1. Cardinality(Workers) \in Nat
    BY WorkersAreFinite
  <2>. QED  BY <2>1, FS_EmptySet DEF QueueAssumption
<1>3. Len(backlog) = 0 /\ Len(destroyed) = 0 /\ DOMAIN destroyed = {} /\ backlog \in Seq(Items) /\ destroyed \in Seq(Items)
  OBVIOUS
<1>4. item \in [Workers -> Pairs]
  BY <1>2 DEF Pairs, NoItem
<1>5. QueueTypeOK
  BY <1>2, <1>3, <1>4 DEF QueueTypeOK, ProducerPCs, WorkerPCs
<1>6. Placed(qpc, item, started)
  BY DEF Placed, ProducerPCs, WorkerPCs
<1>7. WorkersHold
  BY <1>1, <1>2, <1>6 DEF WorkersHold
<1>8. DestroyedInOrder
  BY <1>3 DEF DestroyedInOrder
<1>9. Offset = 0
  <2>1. made = 0 /\ doneCount = 0
    OBVIOUS
  <2>. QED  BY ONLY <1>3, <2>1 DEF Offset
<1>10. BacklogIsNext /\ NumbersTellItems
  BY <1>1, <1>3, <1>9 DEF BacklogIsNext, NumbersTellItems
<1>. QED  BY <1>5, <1>7, <1>8, <1>10 DEF QueueInv

\* ThreadedWorkQueue(): nothing is queued, and no thread is started.
LEMMA QueueInitInv == QueueAssumption /\ QueueInit => QueueInv
<1>. SUFFICES ASSUME QueueAssumption, QueueInit PROVE NewQueue
  BY NewQueueInv
<1>. QED  BY DEF QueueInit, NewQueue, QueueThreads, QueueAssumption

\* Another queue for the next search.
LEMMA ConstructKeeps ==
  ASSUME QueueAssumption, QueueInv, QueueConstruct
  PROVE  QueueInv'
<1>1. DOMAIN qpc = QueueThreads
  BY DEF QueueInv, WorkersHold, Placed
<1>2. NewQueue'
  BY <1>1 DEF QueueConstruct, NewQueue, QueueThreads, QueueAssumption
<1>3. QueueAssumption /\ NewQueue' => QueueInv'
  BY NewQueueInv, PTL
<1>. QED  BY <1>2, <1>3

\* Whatever producer and workers do, the numbers tell the items.
LEMMA QueueStepInv == QueueAssumption /\ QueueInv /\ [QueueNext]_queueVars => QueueInv'
<1>. SUFFICES ASSUME QueueAssumption, QueueInv, [QueueNext]_queueVars PROVE QueueInv'
  OBVIOUS
<1>1. CASE UNCHANGED queueVars
  <2>1. UNCHANGED <<made, backlog, done, doneCount, finalized, working, stopping, notify, started, qpc,
                    item, limit, worked, destroyed>>
    BY <1>1 DEF queueVars, counters
  <2>2. Offset' = Offset /\ Holders' = Holders /\ HeldItems' = HeldItems
    BY <2>1 DEF Offset, Holders, HeldItems
  <2>3. QueueTypeOK' /\ WorkersHold' /\ DestroyedInOrder'
    BY <2>1, <2>2 DEF QueueInv, QueueTypeOK, WorkersHold, DestroyedInOrder
  <2>4. (NothingIsLeft <=> NothingIsLeft') /\ (BacklogIsNext <=> BacklogIsNext')
        /\ (NumbersTellItems <=> NumbersTellItems')
    BY <2>1, <2>2 DEF NothingIsLeft, BacklogIsNext, NumbersTellItems
  <2>. QED  BY <2>1, <2>3, <2>4 DEF QueueInv
<1>2. CASE QueueNext
  BY <1>2, SpuriousKeeps, WorkKeeps, LockedKeeps, CheckKeeps, StopKeeps, QueueKeeps, SynchronousKeeps,
     JoinedKeeps, ConstructKeeps DEF QueueNext, QueueWorkerStep, QueueThreads
<1>. QED  BY <1>1, <1>2
-----------------------------------------------------------------------------
(* What the queue promises                                                 *)

\* Without an item in anybody's hand there is none that works.
LEMMA GoneCounts ==
  ASSUME QueueAssumption, QueueInv, qpc[Producer] = "gone"
  PROVE  Holders = {} /\ working = 0
<1>1. Holders = {}
  BY DEF QueueInv, NothingIsLeft, WorkersHold, Placed, Holders
<1>2. Cardinality(Holders) = 0
  BY <1>1, FS_EmptySet
<1>. QED  BY <1>1, <1>2 DEF QueueInv, WorkersHold

\* _working counts the workers that hold an item.
LEMMA QueueCounts == QueueAssumption /\ QueueInv => WorkingIsCounted
BY GoneCounts DEF WorkingIsCounted, QueueInv, WorkersHold, Holders

\* As many items are finished or with a worker as numbers were given and not fetched.
LEMMA NumbersCount ==
  ASSUME QueueAssumption, QueueTypeOK, NumbersTellItems
  PROVE  /\ IsFiniteSet(done) /\ Cardinality(done) \in Nat /\ Cardinality(Holders) \in Nat
         /\ Cardinality(done) + Cardinality(Holders) = doneCount - finalized
<1>1. /\ doneCount \in Nat /\ finalized \in Nat /\ finalized <= doneCount /\ Offset \in Nat
      /\ done \subseteq Pairs /\ item \in [Workers -> Pairs]
  BY NumbersInRange DEF NumbersTellItems, QueueTypeOK
<1>2. PICK o \in Nat : o = Offset
  BY <1>1
<1>. DEFINE S == finalized + 1 .. doneCount
            R == done \cup HeldItems
            f == [n \in S |-> <<n, o + n>>]
            h == [w \in Holders |-> item[w]]
<1>3. IsFiniteSet(S) /\ Cardinality(S) = doneCount - finalized
  <2>1. finalized + 1 \in Int /\ doneCount \in Int
    BY <1>1
  <2>2. /\ IsFiniteSet(S)
        /\ Cardinality(S) = IF finalized + 1 > doneCount THEN 0 ELSE doneCount - (finalized + 1) + 1
    BY <2>1, FS_Interval
  <2>. QED  BY <1>1, <2>2
<1>4. \A p \in R : p[1] \in S /\ p = <<p[1], o + p[1]>>
  <2>1. R \subseteq Pairs
    BY <1>1 DEF HeldItems, Holders
  <2>. QED  BY <1>2, <2>1 DEF NumbersTellItems, Pairs
<1>5. \A n \in S : <<n, o + n>> \in R
  BY <1>2 DEF NumbersTellItems
<1>. HIDE DEF S, R
<1>6. f \in Bijection(S, R)
  <2>1. f \in [S -> R]
    BY <1>5
  <2>2. \A m, n \in S : f[m] = f[n] => m = n
    OBVIOUS
  <2>3. \A p \in R : \E n \in S : f[n] = p
    <3>. SUFFICES ASSUME NEW p \in R PROVE \E n \in S : f[n] = p
      OBVIOUS
    <3>1. p[1] \in S /\ f[p[1]] = p
      BY <1>4
    <3>. QED  BY <3>1
  <2>. QED  BY <2>1, <2>2, <2>3 DEF Bijection, Injection, Surjection, IsInjective
<1>7. IsFiniteSet(R) /\ Cardinality(R) = doneCount - finalized
  BY <1>3, <1>6, FS_Bijection DEF ExistsBijection
<1>8. h \in Bijection(Holders, HeldItems)
  <2>1. h \in [Holders -> HeldItems]
    BY DEF HeldItems
  <2>2. \A v, w \in Holders : h[v] = h[w] => v = w
    BY DEF NumbersTellItems
  <2>3. \A p \in HeldItems : \E w \in Holders : h[w] = p
    BY DEF HeldItems
  <2>. QED  BY <2>1, <2>2, <2>3 DEF Bijection, Injection, Surjection, IsInjective
<1>9. IsFiniteSet(Holders) /\ Cardinality(Holders) \in Nat
  BY WorkersAreFinite, FS_CardinalityType DEF Holders
<1>10. IsFiniteSet(HeldItems) /\ Cardinality(HeldItems) = Cardinality(Holders)
  BY <1>8, <1>9, FS_Bijection DEF ExistsBijection
<1>11. IsFiniteSet(done) /\ Cardinality(done) \in Nat
  <2>1. done \in SUBSET R
    BY DEF R
  <2>. QED  BY <1>7, <2>1, FS_Subset, FS_CardinalityType
<1>12. Cardinality(R) = Cardinality(done) + Cardinality(HeldItems)
  <2>1. done \cap HeldItems = {} /\ R = done \cup HeldItems
    BY DEF NumbersTellItems, R
  <2>2. Cardinality(done \cup HeldItems) = Cardinality(done) + Cardinality(HeldItems) - Cardinality(done \cap HeldItems)
    BY <1>10, <1>11, FS_Union
  <2>3. Cardinality(done \cap HeldItems) = 0
    BY <2>1, FS_EmptySet
  <2>4. Cardinality(R) = Cardinality(done \cup HeldItems)
    BY <2>1
  <2>. QED  BY <1>9, <1>10, <1>11, <2>2, <2>3, <2>4
<1>. QED  BY <1>7, <1>9, <1>10, <1>11, <1>12

\* An item is in one place, and all are somewhere.
LEMMA QueuePlaces == QueueAssumption /\ QueueInv => ItemsInOnePlace
<1>. SUFFICES ASSUME QueueAssumption, QueueInv PROVE ItemsInOnePlace
  OBVIOUS
<1>. DEFINE queued   == {backlog[i] : i \in DOMAIN backlog}
            held     == UNION {Held(w) : w \in Workers}
            finished == {pair[2] : pair \in done}
            buried   == {destroyed[i] : i \in DOMAIN destroyed}
<1>1. QueueTypeOK /\ DestroyedInOrder
  BY DEF QueueInv
<1>2. /\ made \in 0 .. MaxItems /\ MaxItems \in Nat /\ made \in Nat
      /\ backlog \in Seq(Items) /\ Len(backlog) \in Nat /\ DOMAIN backlog = 1 .. Len(backlog)
      /\ destroyed \in Seq(Items) /\ Len(destroyed) \in Nat /\ DOMAIN destroyed = 1 .. Len(destroyed)
  BY <1>1 DEF QueueTypeOK, QueueAssumption
<1>3. buried = 1 .. Len(destroyed)
  BY <1>1, <1>2 DEF DestroyedInOrder
<1>4. held = {p[2] : p \in HeldItems}
  BY DEF Held, HeldItems, Holders
<1>5. queued \cup held \cup finished \cup buried = 1 .. made
  <2>1. CASE qpc[Producer] = "gone"
    <3>1. Len(destroyed) = made /\ done = {} /\ backlog = <<>> /\ HeldItems = {}
      BY <2>1, GoneCounts DEF QueueInv, NothingIsLeft, HeldItems
    <3>. QED  BY <1>2, <1>3, <1>4, <3>1
  <2>2. CASE qpc[Producer] # "gone"
    <3>1. BacklogIsNext /\ NumbersTellItems
      BY <2>2 DEF QueueInv
    <3>2. PICK o \in Nat : o = Offset
      BY <3>1 DEF NumbersTellItems
    <3>3. /\ doneCount \in Nat /\ finalized \in Nat /\ finalized <= doneCount
          /\ o + doneCount + Len(backlog) = made /\ Len(destroyed) = o + finalized
      BY <1>1, <3>1, <3>2, NumbersInRange DEF NumbersTellItems
    <3>4. \A k \in queued : k \in o + doneCount + 1 .. made
      BY <1>2, <3>1, <3>2, <3>3 DEF BacklogIsNext
    <3>5. \A k \in held \cup finished : k \in o + finalized + 1 .. o + doneCount
      <4>. SUFFICES ASSUME NEW p \in done \cup HeldItems PROVE p[2] \in o + finalized + 1 .. o + doneCount
        BY <1>4
      <4>1. p[1] \in finalized + 1 .. doneCount /\ p[2] = o + p[1]
        BY <3>1, <3>2 DEF NumbersTellItems
      <4>. QED  BY <3>3, <4>1
    <3>6. ASSUME NEW k \in 1 .. made PROVE k \in queued \cup held \cup finished \cup buried
      <4>1. CASE k \in 1 .. o + finalized
        BY <1>3, <3>3, <4>1
      <4>2. CASE k \in o + finalized + 1 .. o + doneCount
        <5>1. k - o \in finalized + 1 .. doneCount /\ o + (k - o) = k
          BY <3>3, <4>2
        <5>2. <<k - o, k>> \in done \cup HeldItems
          BY <3>1, <3>2, <5>1 DEF NumbersTellItems
        <5>3. <<k - o, k>>[2] = k
          OBVIOUS
        <5>. QED  BY <1>4, <5>2, <5>3
      <4>3. CASE k \in o + doneCount + 1 .. made
        <5>1. k - (o + doneCount) \in 1 .. Len(backlog)
          BY <1>2, <3>3, <4>3
        <5>2. backlog[k - (o + doneCount)] = k
          BY <3>1, <3>2, <3>3, <5>1 DEF BacklogIsNext
        <5>. QED  BY <1>2, <5>1, <5>2
      <4>. QED  BY <1>2, <3>3, <4>1, <4>2, <4>3
    <3>7. \A k \in queued \cup held \cup finished \cup buried : k \in 1 .. made
      <4>. HIDE DEF queued, held, finished, buried
      <4>1. o + doneCount <= made /\ o + finalized <= o + doneCount /\ o + finalized <= made
        BY <1>2, <3>3
      <4>2. ASSUME NEW k \in queued PROVE k \in 1 .. made
        BY <1>2, <3>3, <3>4, <4>2
      <4>3. ASSUME NEW k \in held \cup finished PROVE k \in 1 .. made
        BY <1>2, <3>3, <3>5, <4>1, <4>3
      <4>4. ASSUME NEW k \in buried PROVE k \in 1 .. made
        BY <1>2, <1>3, <3>3, <4>1, <4>4
      <4>. QED  BY <4>2, <4>3, <4>4
    <3>. HIDE DEF queued, held, finished, buried
    <3>. QED  BY <3>6, <3>7
  <2>. QED  BY <2>1, <2>2
<1>6. Len(backlog) + Cardinality(Holders) + Cardinality(done) + Len(destroyed) = made
  <2>1. CASE qpc[Producer] = "gone"
    <3>1. Len(destroyed) = made /\ done = {} /\ backlog = <<>> /\ Holders = {}
      BY <2>1, GoneCounts DEF QueueInv, NothingIsLeft
    <3>2. Cardinality(done) = 0 /\ Cardinality(Holders) = 0 /\ Len(backlog) = 0
      BY <3>1, FS_EmptySet
    <3>. QED  BY <1>2, <3>1, <3>2
  <2>2. CASE qpc[Producer] # "gone"
    <3>1. NumbersTellItems
      BY <2>2 DEF QueueInv
    <3>2. PICK o \in Nat : o = Offset
      BY <3>1 DEF NumbersTellItems
    <3>3. /\ doneCount \in Nat /\ finalized \in Nat /\ finalized <= doneCount
          /\ o + doneCount + Len(backlog) = made /\ Len(destroyed) = o + finalized
      BY <1>1, <3>1, <3>2, NumbersInRange DEF NumbersTellItems
    <3>4. /\ Cardinality(done) \in Nat /\ Cardinality(Holders) \in Nat
          /\ Cardinality(done) + Cardinality(Holders) = doneCount - finalized
      BY <1>1, <3>1, NumbersCount
    <3>. QED  BY ONLY <1>2, <3>2, <3>3, <3>4
  <2>. QED  BY <2>1, <2>2
<1>. QED  BY <1>5, <1>6 DEF ItemsInOnePlace, Holders

\* The queue and its threads keep their types.
THEOREM QueueTypeCorrect == QueueSpec => []QueueTypeOK
<1>1. QueueInv => QueueTypeOK
  BY DEF QueueInv
<1>. QED  BY <1>1, QueueInitInv, QueueStepInv, QueueAssumption, PTL DEF QueueSpec

\* ThreadedWorkQueue.h: items are destroyed in the order in which they were queued, each is
\* in one place until then, and _working counts those in a worker's hand.
THEOREM QueueKept == QueueSpec => [](DestroyedInOrder /\ ItemsInOnePlace /\ WorkingIsCounted)
<1>1. QueueInv => DestroyedInOrder
  BY DEF QueueInv
<1>. QED
  BY <1>1, QueueCounts, QueuePlaces, QueueInitInv, QueueStepInv, QueueAssumption, PTL DEF QueueSpec

-----------------------------------------------------------------------------
(* Synchronous events and background tasks                                 *)

LoadsOK ==
  /\ loads \in 0 .. MaxLoads
  /\ loaded \in [Addresses -> 0 .. loads]

\* Events wait in the order in which they were sent, and those handed out were sent before
EventsFollow ==
  /\ posts \in 0 .. MaxPosts
  /\ data \in Seq(Event) /\ begun \in Seq(1 .. MaxPosts)
  /\ \A i \in 1 .. Len(data) : data[i].number <= posts
  /\ \A i, j \in 1 .. Len(data) : i < j => data[i].number < data[j].number
  /\ \A m \in 1 .. Len(begun) : begun[m] <= posts
  /\ \A m \in 1 .. Len(begun), i \in 1 .. Len(data) : begun[m] < data[i].number
  /\ BegunInOrder

\* A queued refresh is what the panels are behind by
RefreshesFollow == refreshes \in Nat /\ TasksAreShown

SynchroInv == LoadsOK /\ EventsFollow /\ RefreshesFollow

-----------------------------------------------------------------------------
\* What the first of a sequence's elements is, and where the others are.
LEMMA FirstTaken ==
  ASSUME NEW S, NEW q \in Seq(S), q # <<>>
  PROVE  /\ Len(q) \in Nat /\ Len(q) >= 1 /\ Head(q) = q[1] /\ q[1] \in S
         /\ Tail(q) \in Seq(S) /\ Len(Tail(q)) = Len(q) - 1
         /\ \A i \in 1 .. Len(q) - 1 : Tail(q)[i] = q[i + 1]
  OBVIOUS

\* Where the elements are when one is added.
LEMMA LastAdded ==
  ASSUME NEW S, NEW q \in Seq(S), NEW e \in S
  PROVE  /\ Len(q) \in Nat /\ Append(q, e) \in Seq(S) /\ Len(Append(q, e)) = Len(q) + 1
         /\ Append(q, e)[Len(q) + 1] = e
         /\ \A i \in 1 .. Len(q) : Append(q, e)[i] = q[i]
  OBVIOUS

\* Events and those handed out are known by numbers.
LEMMA NumbersAre ==
  ASSUME PluginSynchroAssumption, EventsFollow
  PROVE  /\ \A i \in 1 .. Len(data) : data[i].number \in Nat /\ data[i].number <= posts
         /\ \A m \in 1 .. Len(begun) : begun[m] \in Nat /\ begun[m] <= posts
<1>1. ASSUME NEW i \in 1 .. Len(data) PROVE data[i].number \in Nat
  <2>1. data[i] \in Event
    BY DEF EventsFollow
  <2>. QED  BY <2>1 DEF Event
<1>2. ASSUME NEW m \in 1 .. Len(begun) PROVE begun[m] \in Nat
  BY DEF EventsFollow
<1>. QED  BY <1>1, <1>2 DEF EventsFollow

\* ACTL_SYNCHRO: the event is sent last and waits last.
LEMMA SynchroKeeps ==
  ASSUME PluginSynchroAssumption, SynchroInv, Synchro
  PROVE  SynchroInv'
<1>. USE DEF Synchro, SynchroInv, background
<1>1. LoadsOK' /\ RefreshesFollow'
  BY DEF LoadsOK, RefreshesFollow, TasksAreShown
<1>2. PICK a \in Addresses :
        loaded[a] # 0 /\ data' = Append(data, [address |-> a, plugin |-> loaded[a], number |-> posts + 1])
  OBVIOUS
<1>3. posts \in Nat /\ posts + 1 \in 1 .. MaxPosts /\ loaded[a] \in Plugins /\ MaxPosts \in Nat
  BY <1>2 DEF LoadsOK, EventsFollow, Plugins, PluginSynchroAssumption
<1>4. PICK e \in Event : e.number = posts + 1 /\ data' = Append(data, e)
  BY <1>2, <1>3 DEF Event
<1>5. data \in Seq(Event)
  BY DEF EventsFollow
<1>6. /\ data' \in Seq(Event) /\ Len(data') = Len(data) + 1 /\ Len(data) \in Nat
      /\ data'[Len(data) + 1].number = posts + 1
      /\ \A i \in 1 .. Len(data) : data'[i] = data[i]
  BY <1>4, <1>5, LastAdded
<1>7. \A i \in 1 .. Len(data) : data'[i].number = data[i].number /\ data[i].number \in Nat /\ data[i].number <= posts
  BY <1>6, NumbersAre
<1>8. \A i \in 1 .. Len(data') : i \in 1 .. Len(data) \/ i = Len(data) + 1
  BY <1>6
<1>9. \A i, j \in 1 .. Len(data') : i < j => i \in 1 .. Len(data)
  BY <1>6
<1>10. \A i \in 1 .. Len(data') : data'[i].number <= posts'
  BY <1>3, <1>6, <1>7, <1>8
<1>11. ASSUME NEW i \in 1 .. Len(data'), NEW j \in 1 .. Len(data'), i < j
       PROVE  data'[i].number < data'[j].number
  <2>1. i \in 1 .. Len(data)
    BY <1>9, <1>11
  <2>2. CASE j \in 1 .. Len(data)
    BY <1>7, <1>11, <2>1, <2>2 DEF EventsFollow
  <2>3. CASE j = Len(data) + 1
    BY <1>3, <1>6, <1>7, <2>1, <2>3
  <2>. QED  BY <1>8, <2>2, <2>3
<1>12. \A m \in 1 .. Len(begun) : begun[m] \in Nat /\ begun[m] <= posts
  BY NumbersAre
<1>13. \A m \in 1 .. Len(begun'), i \in 1 .. Len(data') : begun'[m] < data'[i].number
  <2>1. begun' = begun
    OBVIOUS
  <2>2. ASSUME NEW m \in 1 .. Len(begun), NEW i \in 1 .. Len(data')
        PROVE  begun[m] < data'[i].number
    <3>1. CASE i \in 1 .. Len(data)
      BY <1>7, <3>1 DEF EventsFollow
    <3>2. CASE i = Len(data) + 1
      <4>1. data'[i].number = posts + 1
        BY <1>6, <3>2
      <4>2. begun[m] \in Nat /\ begun[m] <= posts
        BY <1>12
      <4>. QED  BY ONLY <1>3, <4>1, <4>2
    <3>. QED  BY <1>8, <3>1, <3>2
  <2>. QED  BY <2>1, <2>2
<1>14. \A m \in 1 .. Len(begun') : begun'[m] <= posts'
  BY <1>3, <1>12
<1>15. EventsFollow'
  <2>1. posts' \in 0 .. MaxPosts
    BY <1>3
  <2>2. begun' \in Seq(1 .. MaxPosts) /\ BegunInOrder'
    BY DEF EventsFollow, BegunInOrder
  <2>. QED  BY <1>6, <1>10, <1>11, <1>13, <1>14, <2>1, <2>2 DEF EventsFollow
<1>. QED  BY <1>1, <1>15

\* PluginSynchro::Process: the event that has waited longest is later than those handed out
\* and earlier than those that wait on.
LEMMA ProcessKeeps ==
  ASSUME PluginSynchroAssumption, SynchroInv, Process
  PROVE  SynchroInv'
<1>. USE DEF Process, SynchroInv, background
<1>1. LoadsOK' /\ RefreshesFollow'
  BY DEF LoadsOK, RefreshesFollow, TasksAreShown
<1>2. data \in Seq(Event) /\ begun \in Seq(1 .. MaxPosts) /\ posts \in Nat /\ MaxPosts \in Nat
  BY DEF EventsFollow, PluginSynchroAssumption
<1>3. /\ Len(data) \in Nat /\ Len(data) >= 1 /\ Head(data) = data[1] /\ data[1] \in Event
      /\ data' \in Seq(Event) /\ Len(data') = Len(data) - 1
      /\ \A i \in 1 .. Len(data) - 1 : data'[i] = data[i + 1]
  BY <1>2, FirstTaken
<1>4. PICK n \in 1 .. MaxPosts : n = data[1].number
  BY <1>3 DEF Event
<1>5. \A i \in 1 .. Len(data) : data[i].number \in Nat /\ data[i].number <= posts /\ (1 < i => n < data[i].number)
  <2>1. 1 \in 1 .. Len(data)
    BY <1>3
  <2>. QED  BY <1>4, <2>1, NumbersAre DEF EventsFollow
<1>6. \A i \in 1 .. Len(data') :
        i + 1 \in 1 .. Len(data) /\ 1 < i + 1 /\ data'[i].number = data[i + 1].number
  BY <1>3
<1>7. \A i \in 1 .. Len(data') : data'[i].number <= posts' /\ n < data'[i].number
  BY <1>5, <1>6
<1>8. ASSUME NEW i \in 1 .. Len(data'), NEW j \in 1 .. Len(data'), i < j
      PROVE  data'[i].number < data'[j].number
  <2>1. i + 1 < j + 1
    BY <1>3, <1>8
  <2>. QED  BY <1>6, <2>1 DEF EventsFollow
<1>9. CASE begun' = begun
  <2>1. \A m \in 1 .. Len(begun'), i \in 1 .. Len(data') : begun'[m] < data'[i].number
    BY <1>6, <1>9 DEF EventsFollow
  <2>. QED  BY <1>1, <1>3, <1>7, <1>8, <1>9, <2>1 DEF EventsFollow, BegunInOrder
<1>10. CASE begun' = Append(begun, n)
  <2>1. /\ Len(begun) \in Nat /\ begun' \in Seq(1 .. MaxPosts) /\ Len(begun') = Len(begun) + 1
        /\ begun'[Len(begun) + 1] = n
        /\ \A m \in 1 .. Len(begun) : begun'[m] = begun[m]
    BY <1>2, <1>10, LastAdded
  <2>2. \A m \in 1 .. Len(begun) : begun[m] \in Nat /\ begun[m] <= posts /\ begun[m] < n
    <3>1. 1 \in 1 .. Len(data)
      BY <1>3
    <3>. QED  BY <1>4, <3>1, NumbersAre DEF EventsFollow
  <2>3. \A m \in 1 .. Len(begun') : m \in 1 .. Len(begun) \/ m = Len(begun) + 1
    BY <2>1
  <2>4. n <= posts
    BY <1>3, <1>4, <1>5
  <2>5. \A m \in 1 .. Len(begun') : begun'[m] <= posts'
    BY <2>1, <2>2, <2>3, <2>4
  <2>6. \A m \in 1 .. Len(begun'), i \in 1 .. Len(data') : begun'[m] < data'[i].number
    <3>1. ASSUME NEW m \in 1 .. Len(begun'), NEW i \in 1 .. Len(data') PROVE begun'[m] < data'[i].number
      <4>1. n < data'[i].number /\ data'[i].number \in Nat
        BY <1>5, <1>6, <1>7
      <4>2. begun'[m] \in Nat /\ begun'[m] <= n
        <5>1. CASE m \in 1 .. Len(begun)
          <6>1. begun'[m] = begun[m] /\ begun[m] \in Nat /\ begun[m] < n /\ n \in Nat
            <7>1. begun'[m] = begun[m]
              BY ONLY <2>1, <5>1
            <7>2. begun[m] \in Nat /\ begun[m] < n
              BY ONLY <2>2, <5>1
            <7>. QED  BY <7>1, <7>2
          <6>. QED  BY <6>1
        <5>2. CASE m = Len(begun) + 1
          BY ONLY <1>4, <2>1, <5>2
        <5>. QED  BY <2>3, <5>1, <5>2
      <4>3. n \in Nat
        BY <1>4
      <4>. QED  BY ONLY <4>1, <4>2, <4>3
    <3>. QED  BY <3>1
  <2>7. BegunInOrder'
    <3>1. ASSUME NEW k \in 1 .. Len(begun'), NEW m \in 1 .. Len(begun'), k < m PROVE begun'[k] < begun'[m]
      <4>1. k \in 1 .. Len(begun)
        BY <2>1, <3>1
      <4>2. CASE m \in 1 .. Len(begun)
        BY <2>1, <3>1, <4>1, <4>2 DEF EventsFollow, BegunInOrder
      <4>3. CASE m = Len(begun) + 1
        BY <2>1, <2>2, <4>1, <4>3
      <4>. QED  BY <2>3, <4>2, <4>3
    <3>. QED  BY <3>1 DEF BegunInOrder
  <2>8. posts' \in 0 .. MaxPosts
    BY DEF EventsFollow
  <2>. QED  BY <1>1, <1>3, <1>7, <1>8, <2>1, <2>5, <2>6, <2>7, <2>8 DEF EventsFollow
<1>. QED  BY <1>3, <1>4, <1>9, <1>10

\* Plugins come and go: addresses are given again, numbers are not.
LEMMA PluginsKeep ==
  ASSUME PluginSynchroAssumption, SynchroInv, LoadPlugin \/ UnloadPlugin
  PROVE  SynchroInv'
<1>. USE DEF SynchroInv, events, background
<1>1. EventsFollow' /\ RefreshesFollow'
  BY DEF LoadPlugin, UnloadPlugin, EventsFollow, BegunInOrder, RefreshesFollow, TasksAreShown
<1>2. loads \in Nat /\ MaxLoads \in Nat
  BY DEF LoadsOK, PluginSynchroAssumption
<1>3. CASE LoadPlugin
  <2>1. loads' = loads + 1 /\ loads' \in 0 .. MaxLoads
    BY <1>2, <1>3 DEF LoadPlugin
  <2>2. PICK a \in Addresses : loaded' = [loaded EXCEPT ![a] = loads + 1]
    BY <1>3 DEF LoadPlugin
  <2>. QED  BY <1>1, <1>2, <2>1, <2>2 DEF LoadsOK
<1>4. CASE UnloadPlugin
  BY <1>1, <1>2, <1>4 DEF UnloadPlugin, LoadsOK
<1>. QED  BY <1>3, <1>4

\* A task that starts or ends queues a refresh; a refresh draws all there is.
LEMMA TasksKeep ==
  ASSUME SynchroInv, BackgroundTaskStarted \/ BackgroundTaskFinished \/ Refresh
  PROVE  SynchroInv'
<1>. USE DEF SynchroInv, events, BackgroundTaskStarted, BackgroundTaskFinished, Refresh
<1>1. LoadsOK' /\ EventsFollow'
  BY DEF LoadsOK, EventsFollow, BegunInOrder
<1>2. RefreshesFollow'
  BY DEF RefreshesFollow, TasksAreShown
<1>. QED  BY <1>1, <1>2

\* Nothing has been sent, loaded or started.
LEMMA SynchroInitInv == PluginSynchroAssumption /\ SynchroInit => SynchroInv
<1>. SUFFICES ASSUME PluginSynchroAssumption, SynchroInit PROVE SynchroInv
  OBVIOUS
<1>1. MaxPosts \in Nat /\ MaxLoads \in Nat
  BY DEF PluginSynchroAssumption
<1>. QED
  BY <1>1 DEF SynchroInit, SynchroInv, LoadsOK, EventsFollow, RefreshesFollow, BegunInOrder, TasksAreShown

\* Every step of senders, the main thread, plugins and tasks keeps the invariant.
LEMMA SynchroStepInv == PluginSynchroAssumption /\ SynchroInv /\ [SynchroNext]_synchroVars => SynchroInv'
<1>. SUFFICES ASSUME PluginSynchroAssumption, SynchroInv, [SynchroNext]_synchroVars PROVE SynchroInv'
  OBVIOUS
<1>1. ASSUME Handled PROVE SynchroInv'
  BY <1>1 DEF Handled, background, SynchroInv, LoadsOK, EventsFollow, RefreshesFollow, BegunInOrder, TasksAreShown
<1>2. ASSUME UNCHANGED synchroVars PROVE SynchroInv'
  BY <1>2 DEF synchroVars, events, background, SynchroInv, LoadsOK, EventsFollow, RefreshesFollow, BegunInOrder,
    TasksAreShown
<1>. QED  BY <1>1, <1>2, SynchroKeeps, ProcessKeeps, PluginsKeep, TasksKeep DEF SynchroNext

\* synchro.cpp, panel.cpp: events begin in the order in which they were sent, and panels are
\* behind the list of background tasks only while a refresh is queued.
THEOREM SynchroKept == SynchroSpec => [](BegunInOrder /\ TasksAreShown)
<1>1. SynchroInv => BegunInOrder /\ TasksAreShown
  BY DEF SynchroInv, EventsFollow, RefreshesFollow
<1>. QED  BY <1>1, SynchroInitInv, SynchroStepInv, PluginSynchroAssumption, PTL DEF SynchroSpec

-----------------------------------------------------------------------------
(* Handlers and background tasks are bounded, refreshes with them           *)

\* Each running task is a number with a name; a refresh is due to the start or to the end
\* of a task, and a task that runs has not ended.
NamedTasks(running, i) == {t \in running : t[2] = i}

RunningAre(running) ==
  /\ running \subseteq (1 .. tasksStarted) \X Infos /\ IsFiniteSet(running)
  /\ Cardinality(running) <= tasksStarted
  /\ refreshes + Cardinality(running) <= 2 * tasksStarted
  /\ \A i \in Infos : tasks[i] = Cardinality(NamedTasks(running, i))

TasksRun ==
  /\ tasksStarted \in 0 .. MaxTasks
  /\ tasks \in [Infos -> 0 .. MaxTasks] /\ shown \in [Infos -> 0 .. MaxTasks]
  /\ \E running \in SUBSET (Nat \X Infos) : RunningAre(running)

HandlersRun == stack \in Seq([event : Event, taken : Plugins]) /\ Len(stack) <= MaxHandlers

SynchroTyped == SynchroInv /\ HandlersRun /\ TasksRun

-----------------------------------------------------------------------------
\* The tasks of a name are some of those that run.
LEMMA NamedAreCounted ==
  ASSUME NEW R, IsFiniteSet(R), NEW i
  PROVE  /\ IsFiniteSet(NamedTasks(R, i)) /\ Cardinality(R) \in Nat
         /\ Cardinality(NamedTasks(R, i)) \in Nat /\ Cardinality(NamedTasks(R, i)) <= Cardinality(R)
<1>1. NamedTasks(R, i) \subseteq R
  BY DEF NamedTasks
<1>. QED  BY <1>1, FS_Subset, FS_CardinalityType

\* A task more is one more of its name and none of another.
LEMMA TaskAdded ==
  ASSUME NEW R, IsFiniteSet(R), NEW t, t \notin R
  PROVE  /\ IsFiniteSet(R \cup {t}) /\ Cardinality(R \cup {t}) = Cardinality(R) + 1
         /\ Cardinality(NamedTasks(R \cup {t}, t[2])) = Cardinality(NamedTasks(R, t[2])) + 1
         /\ \A i : i # t[2] => NamedTasks(R \cup {t}, i) = NamedTasks(R, i)
<1>1. IsFiniteSet(R \cup {t}) /\ Cardinality(R \cup {t}) = Cardinality(R) + 1
  BY FS_AddElement
<1>2. IsFiniteSet(NamedTasks(R, t[2]))
  BY NamedAreCounted
<1>3. NamedTasks(R \cup {t}, t[2]) = NamedTasks(R, t[2]) \cup {t} /\ t \notin NamedTasks(R, t[2])
  BY DEF NamedTasks
<1>4. Cardinality(NamedTasks(R, t[2]) \cup {t}) = Cardinality(NamedTasks(R, t[2])) + 1
  BY <1>2, <1>3, FS_AddElement
<1>5. \A i : i # t[2] => NamedTasks(R \cup {t}, i) = NamedTasks(R, i)
  BY DEF NamedTasks
<1>. QED  BY <1>1, <1>3, <1>4, <1>5

\* A task less is one less of its name and none of another.
LEMMA TaskRemoved ==
  ASSUME NEW R, IsFiniteSet(R), NEW t \in R
  PROVE  /\ IsFiniteSet(R \ {t}) /\ Cardinality(R \ {t}) = Cardinality(R) - 1
         /\ Cardinality(NamedTasks(R \ {t}, t[2])) = Cardinality(NamedTasks(R, t[2])) - 1
         /\ \A i : i # t[2] => NamedTasks(R \ {t}, i) = NamedTasks(R, i)
<1>1. IsFiniteSet(R \ {t}) /\ Cardinality(R \ {t}) = Cardinality(R) - 1
  BY FS_RemoveElement
<1>2. IsFiniteSet(NamedTasks(R, t[2]))
  BY NamedAreCounted
<1>3. NamedTasks(R \ {t}, t[2]) = NamedTasks(R, t[2]) \ {t} /\ t \in NamedTasks(R, t[2])
  BY DEF NamedTasks
<1>4. Cardinality(NamedTasks(R, t[2]) \ {t}) = Cardinality(NamedTasks(R, t[2])) - 1
  BY <1>2, <1>3, FS_RemoveElement
<1>5. \A i : i # t[2] => NamedTasks(R \ {t}, i) = NamedTasks(R, i)
  BY DEF NamedTasks
<1>. QED  BY <1>1, <1>3, <1>4, <1>5

\* BackgroundTaskStarted: one more runs, and a refresh is due.
LEMMA StartedRuns ==
  ASSUME PluginSynchroAssumption, RefreshesFollow, TasksRun, BackgroundTaskStarted
  PROVE  TasksRun'
<1>. USE DEF BackgroundTaskStarted, TasksRun
<1>1. PICK R \in SUBSET (Nat \X Infos) : RunningAre(R)
  OBVIOUS
<1>2. PICK i \in Infos : tasks' = [tasks EXCEPT ![i] = @ + 1]
  OBVIOUS
<1>3. PICK n \in Nat : n = tasksStarted + 1
  OBVIOUS
<1>4. PICK t \in Nat \X Infos : t = <<n, i>>
  OBVIOUS
<1>5. /\ tasksStarted \in Nat /\ refreshes \in Nat /\ MaxTasks \in Nat
      /\ tasksStarted' = n /\ n \in 1 .. MaxTasks /\ refreshes' = refreshes + 1
  BY <1>3 DEF RefreshesFollow, PluginSynchroAssumption
<1>6. /\ IsFiniteSet(R) /\ R \subseteq (1 .. tasksStarted) \X Infos
      /\ Cardinality(R) <= tasksStarted /\ refreshes + Cardinality(R) <= 2 * tasksStarted
  BY <1>1 DEF RunningAre
<1>7. t \notin R /\ t[2] = i
  <2>1. \A u \in R : u[1] \in 1 .. tasksStarted
    BY <1>6
  <2>2. t[1] = n /\ t[2] = i
    BY <1>4
  <2>3. n \notin 1 .. tasksStarted
    BY <1>3, <1>5
  <2>. QED  BY <2>1, <2>2, <2>3
<1>8. PICK S : S = R \cup {t}
  OBVIOUS
<1>9. /\ IsFiniteSet(S) /\ Cardinality(S) = Cardinality(R) + 1 /\ Cardinality(R) \in Nat
      /\ Cardinality(NamedTasks(S, i)) = Cardinality(NamedTasks(R, i)) + 1
      /\ \A k : k # i => NamedTasks(S, k) = NamedTasks(R, k)
  BY <1>6, <1>7, <1>8, TaskAdded, NamedAreCounted
<1>10. S \subseteq (1 .. n) \X Infos /\ S \in SUBSET (Nat \X Infos)
  <2>1. R \subseteq (1 .. n) \X Infos
    BY <1>3, <1>5, <1>6
  <2>2. t \in (1 .. n) \X Infos
    BY <1>3, <1>4, <1>5
  <2>. QED  BY <1>8, <2>1, <2>2
<1>11. \A k \in Infos : tasks'[k] = Cardinality(NamedTasks(S, k))
  BY <1>1, <1>2, <1>9 DEF RunningAre
<1>12. Cardinality(S) <= n /\ refreshes' + Cardinality(S) <= 2 * n
  BY <1>3, <1>5, <1>6, <1>9
<1>13. tasks' \in [Infos -> 0 .. MaxTasks]
  <2>1. \A k \in Infos : tasks'[k] \in 0 .. MaxTasks
    <3>1. ASSUME NEW k \in Infos PROVE tasks'[k] \in 0 .. MaxTasks
      <4>1. Cardinality(NamedTasks(S, k)) \in Nat /\ Cardinality(NamedTasks(S, k)) <= Cardinality(S)
            /\ Cardinality(S) \in Nat
        BY <1>9, NamedAreCounted
      <4>. QED  BY <1>5, <1>11, <1>12, <4>1
    <3>. QED  BY <3>1
  <2>2. tasks' = [k \in Infos |-> tasks'[k]]
    BY <1>2
  <2>. QED  BY <2>1, <2>2
<1>14. RunningAre(S)'
  BY <1>5, <1>9, <1>10, <1>11, <1>12 DEF RunningAre, NamedTasks
<1>15. shown' \in [Infos -> 0 .. MaxTasks] /\ tasksStarted' \in 0 .. MaxTasks
  BY <1>5
<1>. QED  BY <1>10, <1>13, <1>14, <1>15

\* BackgroundTaskFinished: one that was started ends, and a refresh is due.
LEMMA FinishedRuns ==
  ASSUME PluginSynchroAssumption, RefreshesFollow, TasksRun, BackgroundTaskFinished
  PROVE  TasksRun'
<1>. USE DEF BackgroundTaskFinished, TasksRun
<1>1. PICK R \in SUBSET (Nat \X Infos) : RunningAre(R)
  OBVIOUS
<1>2. PICK i \in Infos : tasks[i] > 0 /\ tasks' = [tasks EXCEPT ![i] = @ - 1]
  OBVIOUS
<1>3. /\ tasksStarted \in Nat /\ refreshes \in Nat /\ MaxTasks \in Nat
      /\ tasksStarted' = tasksStarted /\ tasksStarted <= MaxTasks /\ refreshes' = refreshes + 1
  BY DEF RefreshesFollow, PluginSynchroAssumption
<1>4. /\ IsFiniteSet(R) /\ R \subseteq (1 .. tasksStarted) \X Infos
      /\ Cardinality(R) <= tasksStarted /\ refreshes + Cardinality(R) <= 2 * tasksStarted
  BY <1>1 DEF RunningAre
<1>5. PICK t \in R : t[2] = i
  <2>1. Cardinality(NamedTasks(R, i)) > 0
    BY <1>1, <1>2 DEF RunningAre
  <2>2. Cardinality({}) = 0
    BY FS_EmptySet
  <2>3. NamedTasks(R, i) # {}
    BY <2>1, <2>2
  <2>. QED  BY <2>3 DEF NamedTasks
<1>6. PICK S : S = R \ {t}
  OBVIOUS
<1>7. /\ IsFiniteSet(S) /\ Cardinality(S) = Cardinality(R) - 1 /\ Cardinality(R) \in Nat
      /\ Cardinality(NamedTasks(S, i)) = Cardinality(NamedTasks(R, i)) - 1
      /\ \A k : k # i => NamedTasks(S, k) = NamedTasks(R, k)
  BY <1>4, <1>5, <1>6, TaskRemoved, NamedAreCounted
<1>8. S \subseteq (1 .. tasksStarted) \X Infos /\ S \in SUBSET (Nat \X Infos)
  BY <1>4, <1>6
<1>9. \A k \in Infos : tasks'[k] = Cardinality(NamedTasks(S, k))
  BY <1>1, <1>2, <1>7 DEF RunningAre
<1>10. Cardinality(S) <= tasksStarted /\ refreshes' + Cardinality(S) <= 2 * tasksStarted
  BY <1>3, <1>4, <1>7
<1>11. tasks' \in [Infos -> 0 .. MaxTasks]
  BY <1>2
<1>12. RunningAre(S)'
  BY <1>3, <1>7, <1>8, <1>9, <1>10 DEF RunningAre, NamedTasks
<1>. QED  BY <1>3, <1>8, <1>11, <1>12

\* Panel::ShowScreensCount: what is shown is the list of tasks.
LEMMA RefreshRuns ==
  ASSUME RefreshesFollow, TasksRun, Refresh
  PROVE  TasksRun'
<1>. USE DEF Refresh, TasksRun
<1>1. PICK R \in SUBSET (Nat \X Infos) : RunningAre(R)
  OBVIOUS
<1>2. Cardinality(R) \in Nat /\ refreshes \in Nat /\ tasksStarted \in Nat
  BY <1>1, FS_CardinalityType DEF RunningAre, RefreshesFollow
<1>3. refreshes' + Cardinality(R) <= 2 * tasksStarted
  BY <1>1, <1>2 DEF RunningAre
<1>4. RunningAre(R)'
  BY <1>1, <1>3 DEF RunningAre, NamedTasks
<1>. QED  BY <1>4

\* What is not about the tasks leaves them.
LEMMA TasksAside == TasksRun /\ UNCHANGED background => TasksRun'
<1>. SUFFICES ASSUME TasksRun, UNCHANGED background PROVE TasksRun'
  OBVIOUS
<1>1. PICK R \in SUBSET (Nat \X Infos) : RunningAre(R)
  BY DEF TasksRun
<1>2. RunningAre(R)'
  BY <1>1 DEF RunningAre, NamedTasks, background
<1>. QED  BY <1>2 DEF TasksRun, background

\* PluginSynchro::Process: the plugin that is at the event's address is handed it, and returns.
LEMMA HandlersKeep ==
  ASSUME PluginSynchroAssumption, SynchroInv, HandlersRun, Process \/ Handled
  PROVE  HandlersRun'
<1>1. MaxHandlers \in Nat /\ Len(stack) \in Nat
  BY DEF PluginSynchroAssumption, HandlersRun
<1>2. CASE Handled
  <2>1. stack # <<>> /\ stack' = SubSeq(stack, 1, Len(stack) - 1)
    BY <1>2 DEF Handled
  <2>2. PICK H : H = [event : Event, taken : Plugins]
    OBVIOUS
  <2>3. stack \in Seq(H) /\ Len(stack) <= MaxHandlers
    BY <2>2 DEF HandlersRun
  <2>4. PICK n \in Nat : n + 1 = Len(stack)
    <3>1. Len(stack) \in Nat /\ Len(stack) >= 1
      BY ONLY <2>1, <2>3, FirstTaken
    <3>. QED  BY ONLY <3>1
  <2>5. stack' = SubSeq(stack, 1, n)
    BY <1>1, <2>1, <2>4
  <2>6. SubSeq(stack, 1, n) \in Seq(H) /\ Len(SubSeq(stack, 1, n)) = n
    <3>1. n \in Int /\ 1 \in Int /\ \A k \in 1 .. n : stack[k] \in H
      BY <1>1, <2>3, <2>4
    <3>2. SubSeq(stack, 1, n) \in Seq(H) /\ Len(SubSeq(stack, 1, n)) = (IF 1 <= n THEN n - 1 + 1 ELSE 0)
      BY ONLY <3>1, SubSeqProperties
    <3>. QED  BY <2>4, <3>2
  <2>7. stack' \in Seq(H) /\ Len(stack') <= MaxHandlers
    BY <1>1, <2>3, <2>4, <2>5, <2>6
  <2>. QED  BY <2>2, <2>7 DEF HandlersRun
<1>3. CASE Process
  <2>1. data \in Seq(Event) /\ data # <<>> /\ Len(stack) < MaxHandlers
    BY <1>3 DEF Process, SynchroInv, EventsFollow
  <2>2. Head(data) \in Event
    BY <2>1, FirstTaken
  <2>3. PICK e \in Event : e = Head(data)
    BY <2>2
  <2>4. CASE loaded[e.address] = 0
    BY <1>3, <2>3, <2>4 DEF Process, HandlersRun
  <2>5. CASE loaded[e.address] # 0
    <3>1. loaded[e.address] \in Plugins
      <4>1. e.address \in Addresses
        BY DEF Event
      <4>. QED  BY <2>5, <4>1 DEF SynchroInv, LoadsOK, Plugins, PluginSynchroAssumption
    <3>2. PICK h \in [event : Event, taken : Plugins] : h = [event |-> e, taken |-> loaded[e.address]]
      BY <3>1
    <3>3. stack' = Append(stack, h)
      BY <1>3, <2>3, <2>5, <3>2 DEF Process
    <3>. QED  BY <1>1, <2>1, <3>3, LastAdded DEF HandlersRun
  <2>. QED  BY <2>4, <2>5
<1>. QED  BY <1>2, <1>3

\* The types of the queue and of the list are kept.
LEMMA SynchroTypedStep ==
  PluginSynchroAssumption /\ SynchroTyped /\ [SynchroNext]_synchroVars => SynchroTyped'
<1>. SUFFICES ASSUME PluginSynchroAssumption, SynchroTyped, [SynchroNext]_synchroVars PROVE SynchroTyped'
  OBVIOUS
<1>1. SynchroInv'
  BY SynchroStepInv DEF SynchroTyped
<1>2. CASE BackgroundTaskStarted \/ BackgroundTaskFinished \/ Refresh
  <2>1. TasksRun'
    BY <1>2, StartedRuns, FinishedRuns, RefreshRuns DEF SynchroTyped, SynchroInv
  <2>2. HandlersRun'
    BY <1>2 DEF BackgroundTaskStarted, BackgroundTaskFinished, Refresh, events, HandlersRun, SynchroTyped
  <2>. QED  BY <1>1, <2>1, <2>2 DEF SynchroTyped
<1>3. CASE Process \/ Handled
  <2>1. UNCHANGED background
    BY <1>3 DEF Process, Handled
  <2>. QED  BY <1>1, <1>3, <2>1, HandlersKeep, TasksAside DEF SynchroTyped
<1>4. CASE Synchro \/ LoadPlugin \/ UnloadPlugin \/ UNCHANGED synchroVars
  <2>1. UNCHANGED background /\ UNCHANGED stack
    BY <1>4 DEF Synchro, LoadPlugin, UnloadPlugin, synchroVars, events
  <2>. QED  BY <1>1, <2>1, TasksAside DEF SynchroTyped, HandlersRun
<1>. QED  BY <1>2, <1>3, <1>4 DEF SynchroNext

\* Nothing runs in the beginning.
LEMMA SynchroTypedInit == PluginSynchroAssumption /\ SynchroInit => SynchroTyped
<1>. SUFFICES ASSUME PluginSynchroAssumption, SynchroInit PROVE SynchroTyped
  OBVIOUS
<1>1. SynchroInv
  BY SynchroInitInv
<1>2. MaxTasks \in Nat /\ MaxHandlers \in Nat
  BY DEF PluginSynchroAssumption
<1>3. HandlersRun
  BY <1>2 DEF SynchroInit, HandlersRun
<1>4. PICK R : R = {}
  OBVIOUS
<1>5. IsFiniteSet(R) /\ Cardinality(R) = 0 /\ \A i \in Infos : NamedTasks(R, i) = R
  BY <1>4, FS_EmptySet DEF NamedTasks
<1>6. R \subseteq (1 .. tasksStarted) \X Infos /\ R \in SUBSET (Nat \X Infos)
  BY <1>4
<1>7. Cardinality(R) <= tasksStarted /\ refreshes + Cardinality(R) <= 2 * tasksStarted
  BY <1>5 DEF SynchroInit
<1>8. \A i \in Infos : tasks[i] = Cardinality(NamedTasks(R, i))
  BY <1>5 DEF SynchroInit
<1>9. RunningAre(R)
  BY <1>5, <1>6, <1>7, <1>8 DEF RunningAre
<1>10. TasksRun
  BY <1>2, <1>6, <1>9 DEF SynchroInit, TasksRun
<1>. QED  BY <1>1, <1>3, <1>10 DEF SynchroTyped

\* synchro.cpp, plugins.cpp: events, the handlers that run and the list of background tasks have
\* their types; a task that is not in the list is never finished, so that counts stay in range.
THEOREM SynchroTypeCorrect == SynchroSpec => []SynchroTypeOK
<1>1. PluginSynchroAssumption /\ SynchroTyped => SynchroTypeOK
  <2>. SUFFICES ASSUME PluginSynchroAssumption, SynchroTyped PROVE SynchroTypeOK
    OBVIOUS
  <2>1. PICK R \in SUBSET (Nat \X Infos) : RunningAre(R)
    BY DEF SynchroTyped, TasksRun
  <2>2. Cardinality(R) \in Nat
    BY <2>1, FS_CardinalityType DEF RunningAre
  <2>3. refreshes \in 0 .. 2 * MaxTasks
    BY <2>1, <2>2 DEF RunningAre, SynchroTyped, SynchroInv, RefreshesFollow, TasksRun, PluginSynchroAssumption
  <2>. QED  BY <2>3 DEF SynchroTypeOK, SynchroTyped, SynchroInv, LoadsOK, EventsFollow, HandlersRun, TasksRun
<1>. QED  BY <1>1, SynchroTypedInit, SynchroTypedStep, PluginSynchroAssumption, PTL DEF SynchroSpec


-----------------------------------------------------------------------------
(* The shell and its readers                                               *)

\* Who waits for the main thread, and whom it serves
CallsFollow ==
  /\ call["in"] # "none" <=> inPc = "logCall"
  /\ call["out"] # "none" <=> outPc = "ask"
  /\ readState <=> outPc = "ask"
  /\ \A r \in Readers : call[r] = "running" <=> serving = <<r>>
  /\ serving \in {<<>>, <<"in">>, <<"out">>}
  /\ serving # <<>> => main \in {"panels", "wait"}

\* Who holds _inout_control_mutex
LocksTell ==
  /\ inout = "main" <=> main \in {"joinOut", "joinIn"}
  /\ inout = "in" <=> inPc \in {"logJoin", "logCall"}

\* Whom the holder of that mutex has stopped
StoppedReaders ==
  /\ inPc \in {"logJoin", "logCall"} => ~outStarted
  /\ inPc = "logCall" => outPc = "none"
  /\ main \in {"joinOut", "joinIn", "stopped", "start"} => ~outStarted
  /\ main \in {"joinIn", "stopped", "start"} => outPc = "none"
  /\ main \in {"stopped", "start"} => inPc = "none"
  /\ place = "none" => main = "panels" /\ ~outStarted /\ outPc = "none" /\ inPc = "none"

\* The types, by kind
ThreadsOK ==
  /\ main \in {"panels", "start", "wait", "stop", "joinOut", "joinIn", "stopped"}
  /\ goal \in {"finish", "continue", "destroy"}
  /\ place \in {"none", "foreground", "background"}
  /\ inout \in {"free", "main", "in"}
  /\ outPc \in {"none", "select", "process", "lock", "ask", "deactivate", "ended"}
  /\ inPc \in {"none", "read", "lock", "log", "logJoin", "logCall", "ended"}
  /\ event \in {"key", "log", "switch", "kill"}
  /\ shell \in {"running", "prompt", "idle", "dead"}

FlagsOK ==
  /\ mayBgnd \in BOOLEAN /\ readState \in BOOLEAN /\ switching \in BOOLEAN
  /\ exitMarker \in BOOLEAN /\ outStarted \in BOOLEAN /\ inStarted \in BOOLEAN
  /\ outKick \in BOOLEAN /\ inKick \in BOOLEAN /\ deactivated \in BOOLEAN
  /\ inStop \in BOOLEAN /\ detached \in BOOLEAN

CallsOK ==
  /\ serving \in Seq(Readers) /\ Len(serving) <= 2
  /\ call \in [Readers -> {"none", "waiting", "running", "answered"}]

OutputOK ==
  /\ chunk \in Seq(Output)
  /\ unread \in Seq(Output) /\ Len(unread) <= MaxUnread

ShellInv ==
  /\ ThreadsOK /\ FlagsOK /\ CallsOK /\ OutputOK
  /\ CallsFollow /\ LocksTell /\ StoppedReaders

\* The main thread serves one reader at a time: there is nobody else who could have called.
LEMMA DispatchKeeps ==
  ASSUME VTAssumption, ShellInv, NEW r \in Readers, Dispatch(r)
  PROVE  ShellInv'
<1>. USE DEF Dispatch, Dispatches, ShellInv, mainVars, outVars, inVars, locks, shellVars
<1>0. serving = <<>>
  <2>1. ASSUME NEW q \in Readers, serving = <<q>>
        PROVE  FALSE
    <3>1. call[q] = "running" /\ call[r] = "waiting"
      BY <2>1 DEF CallsFollow
    <3>2. call["in"] # "none" /\ call["out"] # "none"
      BY <3>1 DEF Readers
    <3>. QED  BY <3>2 DEF CallsFollow, StoppedReaders
  <2>. QED  BY <2>1 DEF CallsFollow, Readers
<1>1. ThreadsOK'
  BY DEF ThreadsOK
<1>2. FlagsOK'
  BY Zenon DEF FlagsOK
<1>3. CallsOK'
  <2>1. serving' = <<r>>
    BY <1>0
  <2>2. serving' \in Seq(Readers) /\ Len(serving') <= 2
    BY <2>1
  <2>3. call' \in [Readers -> {"none", "waiting", "running", "answered"}]
    BY DEF CallsOK
  <2>. QED  BY <2>2, <2>3 DEF CallsOK
<1>4. OutputOK'
  BY DEF OutputOK, Output
<1>5. CallsFollow'
  <2>1. serving' = <<r>>
    BY <1>0
  <2>2. \A p \in Readers : call[p] # "running"
    BY <1>0 DEF CallsFollow
  <2>3. \A p \in Readers : call'[p] = "running" <=> p = r
    BY <2>2 DEF CallsOK
  <2>4. \A p \in Readers : serving' = <<p>> <=> p = r
    BY <2>1
  <2>5. \A p \in Readers : call'[p] # "none" <=> call[p] # "none"
    BY DEF CallsOK
  <2>6. main \in {"panels", "wait"}
    BY <1>0
  <2>7. serving' \in {<<>>, <<"in">>, <<"out">>}
    BY <2>1 DEF Readers
  <2>. QED  BY <2>3, <2>4, <2>5, <2>6, <2>7 DEF CallsFollow, Readers
<1>6. LocksTell'
  BY DEF ThreadsOK, LocksTell, StoppedReaders
<1>7. StoppedReaders'
  BY DEF ThreadsOK, FlagsOK, LocksTell, StoppedReaders, CallsFollow
<1>. QED  BY <1>1, <1>2, <1>3, <1>4, <1>5, <1>6, <1>7

\* The function that returns is the only one that runs.
LEMMA AnswerKeeps ==
  ASSUME VTAssumption, ShellInv, Answer
  PROVE  ShellInv'
<1>. USE DEF Answer, ShellInv, mainVars, outVars, inVars, locks, shellVars
<1>0. PICK r \in Readers : serving = <<r>>
  BY DEF CallsFollow, Readers
<1>0a. serving' = <<>> /\ call' = [call EXCEPT ![r] = "answered"]
  BY <1>0
<1>1. ThreadsOK'
  BY DEF ThreadsOK
<1>2. FlagsOK'
  BY Zenon DEF FlagsOK
<1>3. CallsOK'
  BY DEF CallsOK, Readers
<1>4. OutputOK'
  BY DEF OutputOK, Output
<1>5. CallsFollow'
  <2>1. call[r] = "running"
    BY <1>0 DEF CallsFollow
  <2>2. \A p \in Readers : p # r => call[p] # "running"
    BY <1>0 DEF CallsFollow
  <2>3. \A p \in Readers : call'[p] # "running"
    BY <1>0a, <2>2 DEF CallsOK
  <2>4. \A p \in Readers : call'[p] # "none" <=> call[p] # "none"
    BY <1>0a, <2>1 DEF CallsOK
  <2>5. \A p \in Readers : serving' # <<p>>
    <3>1. \A p \in Readers : Len(<<p>>) = 1
      OBVIOUS
    <3>2. Len(serving') = 0
      <4>1. serving' = <<>>
        BY <1>0a
      <4>. QED  BY ONLY <4>1
    <3>. QED  BY ONLY <3>1, <3>2
  <2>. QED  BY <1>0a, <2>3, <2>4, <2>5 DEF CallsFollow, Readers
<1>6. LocksTell'
  BY DEF ThreadsOK, LocksTell, StoppedReaders
<1>7. StoppedReaders'
  BY DEF ThreadsOK, FlagsOK, LocksTell, StoppedReaders, CallsFollow
<1>. QED  BY <1>1, <1>2, <1>3, <1>4, <1>5, <1>6, <1>7

\* A command begins without readers, and with nothing unread if the shell is a new one.
LEMMA ExecuteKeeps ==
  ASSUME VTAssumption, ShellInv, NEW bgnd \in BOOLEAN, Execute(bgnd)
  PROVE  ShellInv'
<1>. USE DEF Execute, ShellInv, mainVars, outVars, inVars, locks, shellVars
<1>1. ThreadsOK'
  BY DEF ThreadsOK
<1>2. FlagsOK'
  BY Zenon DEF FlagsOK
<1>3. CallsOK'
  BY DEF CallsOK, Readers
<1>4. OutputOK'
  <2>1. CASE unread' = <<>>
    BY <2>1 DEF OutputOK, VTAssumption
  <2>2. CASE unread' = unread
    BY <2>2 DEF OutputOK
  <2>. QED  BY <2>1, <2>2
<1>5. CallsFollow'
  BY DEF ThreadsOK, CallsOK, CallsFollow, StoppedReaders, Readers
<1>6. LocksTell'
  BY DEF ThreadsOK, LocksTell, StoppedReaders
<1>7. StoppedReaders'
  BY DEF ThreadsOK, FlagsOK, LocksTell, StoppedReaders, CallsFollow
<1>. QED  BY <1>1, <1>2, <1>3, <1>4, <1>5, <1>6, <1>7

\* Both readers are started when there is none.
LEMMA StartIOReadersKeeps ==
  ASSUME VTAssumption, ShellInv, StartIOReaders
  PROVE  ShellInv'
<1>. USE DEF StartIOReaders, StartOut, ShellInv, mainVars, outVars, inVars, locks, shellVars
<1>1. ThreadsOK'
  BY DEF ThreadsOK
<1>2. FlagsOK'
  BY Zenon DEF FlagsOK
<1>3. CallsOK'
  BY DEF CallsOK, Readers
<1>4. OutputOK'
  BY DEF OutputOK, Output
<1>5. CallsFollow'
  BY DEF ThreadsOK, CallsOK, CallsFollow, StoppedReaders, Readers
<1>6. LocksTell'
  BY DEF ThreadsOK, LocksTell, StoppedReaders
<1>7. StoppedReaders'
  BY DEF ThreadsOK, FlagsOK, LocksTell, StoppedReaders, CallsFollow
<1>. QED  BY <1>1, <1>2, <1>3, <1>4, <1>5, <1>6, <1>7

\* The waiting macro ends when no function of a reader runs in it.
LEMMA LeaveWaitKeeps ==
  ASSUME VTAssumption, ShellInv, LeaveWait
  PROVE  ShellInv'
<1>. USE DEF LeaveWait, ShellInv, mainVars, outVars, inVars, locks, shellVars
<1>1. ThreadsOK'
  BY DEF ThreadsOK
<1>2. FlagsOK'
  BY Zenon DEF FlagsOK
<1>3. CallsOK'
  BY DEF CallsOK, Readers
<1>4. OutputOK'
  BY DEF OutputOK, Output
<1>5. CallsFollow'
  BY DEF ThreadsOK, CallsOK, CallsFollow, StoppedReaders, Readers
<1>6. LocksTell'
  BY DEF ThreadsOK, LocksTell, StoppedReaders
<1>7. StoppedReaders'
  BY DEF ThreadsOK, FlagsOK, LocksTell, StoppedReaders, CallsFollow
<1>. QED  BY <1>1, <1>2, <1>3, <1>4, <1>5, <1>6, <1>7

\* Nor does one run when the panels go back to a command or give its shell up.
LEMMA StopForKeeps ==
  ASSUME VTAssumption, ShellInv, NEW aim \in {"continue", "destroy"}, StopFor(aim)
  PROVE  ShellInv'
<1>. USE DEF StopFor, ShellInv, mainVars, outVars, inVars, locks, shellVars
<1>1. ThreadsOK'
  BY DEF ThreadsOK
<1>2. FlagsOK'
  BY Zenon DEF FlagsOK
<1>3. CallsOK'
  BY DEF CallsOK, Readers
<1>4. OutputOK'
  BY DEF OutputOK, Output
<1>5. CallsFollow'
  BY DEF ThreadsOK, CallsOK, CallsFollow, StoppedReaders, Readers
<1>6. LocksTell'
  BY DEF ThreadsOK, LocksTell, StoppedReaders
<1>7. StoppedReaders'
  BY DEF ThreadsOK, FlagsOK, LocksTell, StoppedReaders, CallsFollow
<1>. QED  BY <1>1, <1>2, <1>3, <1>4, <1>5, <1>6, <1>7

\* Under the mutex no input reader is about to start the output reader again.
LEMMA StopIOReadersKeeps ==
  ASSUME VTAssumption, ShellInv, StopIOReaders
  PROVE  ShellInv'
<1>. USE DEF StopIOReaders, ShellInv, mainVars, outVars, inVars, locks, shellVars
<1>1. ThreadsOK'
  BY DEF ThreadsOK
<1>2. FlagsOK'
  BY Zenon DEF FlagsOK
<1>3. CallsOK'
  BY DEF CallsOK, Readers
<1>4. OutputOK'
  BY DEF OutputOK, Output
<1>5. CallsFollow'
  BY DEF ThreadsOK, CallsOK, CallsFollow, StoppedReaders, Readers
<1>6. LocksTell'
  BY DEF ThreadsOK, LocksTell, StoppedReaders
<1>7. StoppedReaders'
  BY DEF ThreadsOK, FlagsOK, LocksTell, StoppedReaders, CallsFollow
<1>. QED  BY <1>1, <1>2, <1>3, <1>4, <1>5, <1>6, <1>7

\* The output reader that has ended asks nothing and holds no lock.
LEMMA JoinOutKeeps ==
  ASSUME VTAssumption, ShellInv, JoinOut
  PROVE  ShellInv'
<1>. USE DEF JoinOut, ShellInv, mainVars, outVars, inVars, locks, shellVars
<1>1. ThreadsOK'
  BY DEF ThreadsOK
<1>2. FlagsOK'
  BY Zenon DEF FlagsOK
<1>3. CallsOK'
  BY DEF CallsOK, Readers
<1>4. OutputOK'
  BY DEF OutputOK, Output
<1>5. CallsFollow'
  BY DEF ThreadsOK, CallsOK, CallsFollow, StoppedReaders, Readers
<1>6. LocksTell'
  BY DEF ThreadsOK, LocksTell, StoppedReaders
<1>7. StoppedReaders'
  BY DEF ThreadsOK, FlagsOK, LocksTell, StoppedReaders, CallsFollow
<1>. QED  BY <1>1, <1>2, <1>3, <1>4, <1>5, <1>6, <1>7

\* Nor does the input reader, which was not showing the log as the mutex was not its own.
LEMMA JoinInKeeps ==
  ASSUME VTAssumption, ShellInv, JoinIn
  PROVE  ShellInv'
<1>. USE DEF JoinIn, ShellInv, mainVars, outVars, inVars, locks, shellVars
<1>1. ThreadsOK'
  BY DEF ThreadsOK
<1>2. FlagsOK'
  BY Zenon DEF FlagsOK
<1>3. CallsOK'
  BY DEF CallsOK, Readers
<1>4. OutputOK'
  BY DEF OutputOK, Output
<1>5. CallsFollow'
  BY DEF ThreadsOK, CallsOK, CallsFollow, StoppedReaders, Readers
<1>6. LocksTell'
  BY DEF ThreadsOK, LocksTell, StoppedReaders
<1>7. StoppedReaders'
  BY DEF ThreadsOK, FlagsOK, LocksTell, StoppedReaders, CallsFollow
<1>. QED  BY <1>1, <1>2, <1>3, <1>4, <1>5, <1>6, <1>7

\* The command ends or goes to the background, without readers.
LEMMA FinishKeeps ==
  ASSUME VTAssumption, ShellInv, Finish
  PROVE  ShellInv'
<1>. USE DEF Finish, ShellInv, mainVars, outVars, inVars, locks, shellVars
<1>1. ThreadsOK'
  BY DEF ThreadsOK
<1>2. FlagsOK'
  BY Zenon DEF FlagsOK
<1>3. CallsOK'
  BY DEF CallsOK, Readers
<1>4. OutputOK'
  BY DEF OutputOK, Output
<1>5. CallsFollow'
  BY DEF ThreadsOK, CallsOK, CallsFollow, StoppedReaders, Readers
<1>6. LocksTell'
  BY DEF ThreadsOK, LocksTell, StoppedReaders
<1>7. StoppedReaders'
  BY DEF ThreadsOK, FlagsOK, LocksTell, StoppedReaders, CallsFollow
<1>. QED  BY <1>1, <1>2, <1>3, <1>4, <1>5, <1>6, <1>7

\* It comes back from there, without readers.
LEMMA ContinueKeeps ==
  ASSUME VTAssumption, ShellInv, Continue
  PROVE  ShellInv'
<1>. USE DEF Continue, ShellInv, mainVars, outVars, inVars, locks, shellVars
<1>1. ThreadsOK'
  BY DEF ThreadsOK
<1>2. FlagsOK'
  BY Zenon DEF FlagsOK
<1>3. CallsOK'
  BY DEF CallsOK, Readers
<1>4. OutputOK'
  BY DEF OutputOK, Output
<1>5. CallsFollow'
  BY DEF ThreadsOK, CallsOK, CallsFollow, StoppedReaders, Readers
<1>6. LocksTell'
  BY DEF ThreadsOK, LocksTell, StoppedReaders
<1>7. StoppedReaders'
  BY DEF ThreadsOK, FlagsOK, LocksTell, StoppedReaders, CallsFollow
<1>. QED  BY <1>1, <1>2, <1>3, <1>4, <1>5, <1>6, <1>7

\* Its shell is shut down, without readers.
LEMMA DestroyShellKeeps ==
  ASSUME VTAssumption, ShellInv, DestroyShell
  PROVE  ShellInv'
<1>. USE DEF DestroyShell, ShellInv, mainVars, outVars, inVars, locks, shellVars
<1>1. ThreadsOK'
  BY DEF ThreadsOK
<1>2. FlagsOK'
  BY Zenon DEF FlagsOK
<1>3. CallsOK'
  BY DEF CallsOK, Readers
<1>4. OutputOK'
  BY DEF OutputOK, Output
<1>5. CallsFollow'
  BY DEF ThreadsOK, CallsOK, CallsFollow, StoppedReaders, Readers
<1>6. LocksTell'
  BY DEF ThreadsOK, LocksTell, StoppedReaders
<1>7. StoppedReaders'
  BY DEF ThreadsOK, FlagsOK, LocksTell, StoppedReaders, CallsFollow
<1>. QED  BY <1>1, <1>2, <1>3, <1>4, <1>5, <1>6, <1>7

\* The output reader reads.
LEMMA OutReadKeeps ==
  ASSUME VTAssumption, ShellInv, OutRead
  PROVE  ShellInv'
<1>. USE DEF OutRead, ShellInv, mainVars, outVars, inVars, locks, shellVars
<1>1. ThreadsOK'
  BY DEF ThreadsOK
<1>2. FlagsOK'
  BY Zenon DEF FlagsOK
<1>3. CallsOK'
  BY DEF CallsOK, Readers
<1>4. OutputOK'
  BY DEF OutputOK, Output
<1>5. CallsFollow'
  BY DEF ThreadsOK, CallsOK, CallsFollow, StoppedReaders, Readers
<1>6. LocksTell'
  BY DEF ThreadsOK, LocksTell, StoppedReaders
<1>7. StoppedReaders'
  BY DEF ThreadsOK, FlagsOK, LocksTell, StoppedReaders, CallsFollow
<1>. QED  BY <1>1, <1>2, <1>3, <1>4, <1>5, <1>6, <1>7

\* It has nothing more to read.
LEMMA OutEndKeeps ==
  ASSUME VTAssumption, ShellInv, OutEnd
  PROVE  ShellInv'
<1>. USE DEF OutEnd, ShellInv, mainVars, outVars, inVars, locks, shellVars
<1>1. ThreadsOK'
  BY DEF ThreadsOK
<1>2. FlagsOK'
  BY Zenon DEF FlagsOK
<1>3. CallsOK'
  BY DEF CallsOK, Readers
<1>4. OutputOK'
  BY DEF OutputOK, Output
<1>5. CallsFollow'
  BY DEF ThreadsOK, CallsOK, CallsFollow, StoppedReaders, Readers
<1>6. LocksTell'
  BY DEF ThreadsOK, LocksTell, StoppedReaders
<1>7. StoppedReaders'
  BY DEF ThreadsOK, FlagsOK, LocksTell, StoppedReaders, CallsFollow
<1>. QED  BY <1>1, <1>2, <1>3, <1>4, <1>5, <1>6, <1>7

\* It is waken by the byte in its pipe.
LEMMA OutKickedKeeps ==
  ASSUME VTAssumption, ShellInv, OutKicked
  PROVE  ShellInv'
<1>. USE DEF OutKicked, AfterRead, ShellInv, mainVars, outVars, inVars, locks, shellVars
<1>1. ThreadsOK'
  BY DEF ThreadsOK
<1>2. FlagsOK'
  BY Zenon DEF FlagsOK
<1>3. CallsOK'
  BY DEF CallsOK, Readers
<1>4. OutputOK'
  BY DEF OutputOK, Output
<1>5. CallsFollow'
  BY DEF ThreadsOK, CallsOK, CallsFollow, StoppedReaders, Readers
<1>6. LocksTell'
  BY DEF ThreadsOK, LocksTell, StoppedReaders
<1>7. StoppedReaders'
  BY DEF ThreadsOK, FlagsOK, LocksTell, StoppedReaders, CallsFollow
<1>. QED  BY <1>1, <1>2, <1>3, <1>4, <1>5, <1>6, <1>7

\* It processes what it has read.
LEMMA OutProcessKeeps ==
  ASSUME VTAssumption, ShellInv, OutProcess
  PROVE  ShellInv'
<1>. USE DEF OutProcess, ShellInv, mainVars, outVars, inVars, locks, shellVars
<1>1. ThreadsOK'
  BY DEF ThreadsOK
<1>2. FlagsOK'
  BY Zenon DEF FlagsOK
<1>3. CallsOK'
  BY DEF CallsOK, Readers
<1>4. OutputOK'
  BY DEF OutputOK, Output
<1>5. CallsFollow'
  BY DEF ThreadsOK, CallsOK, CallsFollow, StoppedReaders, Readers
<1>6. LocksTell'
  BY DEF ThreadsOK, LocksTell, StoppedReaders
<1>7. StoppedReaders'
  BY DEF ThreadsOK, FlagsOK, LocksTell, StoppedReaders, CallsFollow
<1>. QED  BY <1>1, <1>2, <1>3, <1>4, <1>5, <1>6, <1>7

\* It asks, and takes _read_state_mutex, which nobody else holds for long.
LEMMA OutAskKeeps ==
  ASSUME VTAssumption, ShellInv, OutAsk
  PROVE  ShellInv'
<1>. USE DEF OutAsk, ShellInv, mainVars, outVars, inVars, locks, shellVars
<1>1. ThreadsOK'
  BY DEF ThreadsOK
<1>2. FlagsOK'
  BY Zenon DEF FlagsOK
<1>3. CallsOK'
  BY DEF CallsOK, Readers
<1>4. OutputOK'
  BY DEF OutputOK, Output
<1>5. CallsFollow'
  BY DEF ThreadsOK, CallsOK, CallsFollow, StoppedReaders, Readers
<1>6. LocksTell'
  BY DEF ThreadsOK, LocksTell, StoppedReaders
<1>7. StoppedReaders'
  BY DEF ThreadsOK, FlagsOK, LocksTell, StoppedReaders, CallsFollow
<1>. QED  BY <1>1, <1>2, <1>3, <1>4, <1>5, <1>6, <1>7

\* It has its answer and gives the mutex back.
LEMMA OutAnsweredKeeps ==
  ASSUME VTAssumption, ShellInv, OutAnswered
  PROVE  ShellInv'
<1>. USE DEF OutAnswered, ShellInv, mainVars, outVars, inVars, locks, shellVars
<1>1. ThreadsOK'
  BY DEF ThreadsOK
<1>2. FlagsOK'
  BY Zenon DEF FlagsOK
<1>3. CallsOK'
  BY DEF CallsOK, Readers
<1>4. OutputOK'
  BY DEF OutputOK, Output
<1>5. CallsFollow'
  BY DEF ThreadsOK, CallsOK, CallsFollow, StoppedReaders, Readers
<1>6. LocksTell'
  BY DEF ThreadsOK, LocksTell, StoppedReaders
<1>7. StoppedReaders'
  BY DEF ThreadsOK, FlagsOK, LocksTell, StoppedReaders, CallsFollow
<1>. QED  BY <1>1, <1>2, <1>3, <1>4, <1>5, <1>6, <1>7

\* It is done with what it has read.
LEMMA OutProcessedKeeps ==
  ASSUME VTAssumption, ShellInv, OutProcessed
  PROVE  ShellInv'
<1>. USE DEF OutProcessed, AfterRead, ShellInv, mainVars, outVars, inVars, locks, shellVars
<1>1. ThreadsOK'
  BY DEF ThreadsOK
<1>2. FlagsOK'
  BY Zenon DEF FlagsOK
<1>3. CallsOK'
  BY DEF CallsOK, Readers
<1>4. OutputOK'
  BY DEF OutputOK, Output
<1>5. CallsFollow'
  BY DEF ThreadsOK, CallsOK, CallsFollow, StoppedReaders, Readers
<1>6. LocksTell'
  BY DEF ThreadsOK, LocksTell, StoppedReaders
<1>7. StoppedReaders'
  BY DEF ThreadsOK, FlagsOK, LocksTell, StoppedReaders, CallsFollow
<1>. QED  BY <1>1, <1>2, <1>3, <1>4, <1>5, <1>6, <1>7

\* It says that it ends.
LEMMA OutDeactivateKeeps ==
  ASSUME VTAssumption, ShellInv, OutDeactivate
  PROVE  ShellInv'
<1>. USE DEF OutDeactivate, Deactivate, ShellInv, mainVars, outVars, inVars, locks, shellVars
<1>1. ThreadsOK'
  BY DEF ThreadsOK
<1>2. FlagsOK'
  BY Zenon DEF FlagsOK
<1>3. CallsOK'
  BY DEF CallsOK, Readers
<1>4. OutputOK'
  BY DEF OutputOK, Output
<1>5. CallsFollow'
  BY DEF ThreadsOK, CallsOK, CallsFollow, StoppedReaders, Readers
<1>6. LocksTell'
  BY DEF ThreadsOK, LocksTell, StoppedReaders
<1>7. StoppedReaders'
  BY DEF ThreadsOK, FlagsOK, LocksTell, StoppedReaders, CallsFollow
<1>. QED  BY <1>1, <1>2, <1>3, <1>4, <1>5, <1>6, <1>7

\* The input reader gets a key.
LEMMA InReadKeeps ==
  ASSUME VTAssumption, ShellInv, NEW e \in {"key", "log", "switch", "kill"}, InRead(e)
  PROVE  ShellInv'
<1>. USE DEF InRead, ShellInv, mainVars, outVars, inVars, locks, shellVars
<1>1. ThreadsOK'
  BY DEF ThreadsOK
<1>2. FlagsOK'
  BY Zenon DEF FlagsOK
<1>3. CallsOK'
  BY DEF CallsOK, Readers
<1>4. OutputOK'
  BY DEF OutputOK, Output
<1>5. CallsFollow'
  BY DEF ThreadsOK, CallsOK, CallsFollow, StoppedReaders, Readers
<1>6. LocksTell'
  BY DEF ThreadsOK, LocksTell, StoppedReaders
<1>7. StoppedReaders'
  BY DEF ThreadsOK, FlagsOK, LocksTell, StoppedReaders, CallsFollow
<1>. QED  BY <1>1, <1>2, <1>3, <1>4, <1>5, <1>6, <1>7

\* It gets the NOOP record.
LEMMA InKickedKeeps ==
  ASSUME VTAssumption, ShellInv, InKicked
  PROVE  ShellInv'
<1>. USE DEF InKicked, NextInput, ShellInv, mainVars, outVars, inVars, locks, shellVars
<1>1. ThreadsOK'
  BY DEF ThreadsOK
<1>2. FlagsOK'
  BY Zenon DEF FlagsOK
<1>3. CallsOK'
  BY DEF CallsOK, Readers
<1>4. OutputOK'
  BY DEF OutputOK, Output
<1>5. CallsFollow'
  BY DEF ThreadsOK, CallsOK, CallsFollow, StoppedReaders, Readers
<1>6. LocksTell'
  BY DEF ThreadsOK, LocksTell, StoppedReaders
<1>7. StoppedReaders'
  BY DEF ThreadsOK, FlagsOK, LocksTell, StoppedReaders, CallsFollow
<1>. QED  BY <1>1, <1>2, <1>3, <1>4, <1>5, <1>6, <1>7

\* It handles its key.
LEMMA InHandleKeeps ==
  ASSUME VTAssumption, ShellInv, InHandle
  PROVE  ShellInv'
<1>. USE DEF InHandle, NextInput, ShellInv, mainVars, outVars, inVars, locks, shellVars
<1>1. ThreadsOK'
  BY DEF ThreadsOK
<1>2. FlagsOK'
  BY Zenon DEF FlagsOK
<1>3. CallsOK'
  BY DEF CallsOK, Readers
<1>4. OutputOK'
  BY DEF OutputOK, Output
<1>5. CallsFollow'
  BY DEF ThreadsOK, CallsOK, CallsFollow, StoppedReaders, Readers
<1>6. LocksTell'
  BY DEF ThreadsOK, LocksTell, StoppedReaders
<1>7. StoppedReaders'
  BY DEF ThreadsOK, FlagsOK, LocksTell, StoppedReaders, CallsFollow
<1>. QED  BY <1>1, <1>2, <1>3, <1>4, <1>5, <1>6, <1>7

\* With the mutex it stops the output reader; without it gives up.
LEMMA OnConsoleLogKeeps ==
  ASSUME VTAssumption, ShellInv, OnConsoleLog
  PROVE  ShellInv'
<1>. USE DEF OnConsoleLog, LogTry, NextInput, ShellInv, mainVars, outVars, inVars, locks, shellVars
<1>1. ThreadsOK'
  BY DEF ThreadsOK
<1>2. FlagsOK'
  BY Zenon DEF FlagsOK
<1>3. CallsOK'
  BY DEF CallsOK, Readers
<1>4. OutputOK'
  BY DEF OutputOK, Output
<1>5. CallsFollow'
  BY DEF ThreadsOK, CallsOK, CallsFollow, StoppedReaders, Readers
<1>6. LocksTell'
  BY DEF ThreadsOK, LocksTell, StoppedReaders
<1>7. StoppedReaders'
  BY DEF ThreadsOK, FlagsOK, LocksTell, StoppedReaders, CallsFollow
<1>. QED  BY <1>1, <1>2, <1>3, <1>4, <1>5, <1>6, <1>7

\* It asks for the log to be shown when the output reader has ended.
LEMMA LogCallKeeps ==
  ASSUME VTAssumption, ShellInv, LogCall
  PROVE  ShellInv'
<1>. USE DEF LogCall, LogJoined, ShellInv, mainVars, outVars, inVars, locks, shellVars
<1>1. ThreadsOK'
  BY DEF ThreadsOK
<1>2. FlagsOK'
  BY Zenon DEF FlagsOK
<1>3. CallsOK'
  BY DEF CallsOK, Readers
<1>4. OutputOK'
  BY DEF OutputOK, Output
<1>5. CallsFollow'
  BY DEF ThreadsOK, CallsOK, CallsFollow, StoppedReaders, Readers
<1>6. LocksTell'
  BY DEF ThreadsOK, LocksTell, StoppedReaders
<1>7. StoppedReaders'
  BY DEF ThreadsOK, FlagsOK, LocksTell, StoppedReaders, CallsFollow
<1>. QED  BY <1>1, <1>2, <1>3, <1>4, <1>5, <1>6, <1>7

\* It starts the output reader again: nobody has, as the mutex was its own.
LEMMA LogReturnKeeps ==
  ASSUME VTAssumption, ShellInv, LogReturn
  PROVE  ShellInv'
<1>. USE DEF LogReturn, StartOut, NextInput, ShellInv, mainVars, outVars, inVars, locks, shellVars
<1>1. ThreadsOK'
  BY DEF ThreadsOK
<1>2. FlagsOK'
  BY Zenon DEF FlagsOK
<1>3. CallsOK'
  BY DEF CallsOK, Readers
<1>4. OutputOK'
  BY DEF OutputOK, Output
<1>5. CallsFollow'
  BY DEF ThreadsOK, CallsOK, CallsFollow, StoppedReaders, Readers
<1>6. LocksTell'
  BY DEF ThreadsOK, LocksTell, StoppedReaders
<1>7. StoppedReaders'
  BY DEF ThreadsOK, FlagsOK, LocksTell, StoppedReaders, CallsFollow
<1>. QED  BY <1>1, <1>2, <1>3, <1>4, <1>5, <1>6, <1>7

\* A command prints.
LEMMA CommandPrintsKeeps ==
  ASSUME VTAssumption, ShellInv, CommandPrints
  PROVE  ShellInv'
<1>. USE DEF CommandPrints, Emits, ShellInv, mainVars, outVars, inVars, locks, shellVars
<1>1. ThreadsOK'
  BY DEF ThreadsOK
<1>2. FlagsOK'
  <2>1. UNCHANGED <<mainVars, locks, switching, exitMarker, outVars, inVars, detached>>
    BY DEF Emits
  <2>. QED  BY <2>1, Zenon DEF FlagsOK
<1>3. CallsOK'
  BY DEF CallsOK, Readers
<1>4. OutputOK'
  <2>1. PICK what \in Output : unread' = Append(unread, what) /\ Len(unread) < MaxUnread
    BY DEF Output, Emits
  <2>2. chunk' = chunk
    BY DEF Emits
  <2>. QED  BY <2>1, <2>2 DEF OutputOK, VTAssumption
<1>5. CallsFollow'
  BY DEF ThreadsOK, CallsOK, CallsFollow, StoppedReaders, Readers
<1>6. LocksTell'
  BY DEF ThreadsOK, LocksTell, StoppedReaders
<1>7. StoppedReaders'
  BY DEF ThreadsOK, FlagsOK, LocksTell, StoppedReaders, CallsFollow
<1>. QED  BY <1>1, <1>2, <1>3, <1>4, <1>5, <1>6, <1>7

\* The exit marker is printed.
LEMMA CommandEndsKeeps ==
  ASSUME VTAssumption, ShellInv, CommandEnds
  PROVE  ShellInv'
<1>. USE DEF CommandEnds, Emits, ShellInv, mainVars, outVars, inVars, locks, shellVars
<1>1. ThreadsOK'
  BY DEF ThreadsOK
<1>2. FlagsOK'
  BY Zenon DEF FlagsOK
<1>3. CallsOK'
  BY DEF CallsOK, Readers
<1>4. OutputOK'
  BY DEF OutputOK, Output
<1>5. CallsFollow'
  BY DEF ThreadsOK, CallsOK, CallsFollow, StoppedReaders, Readers
<1>6. LocksTell'
  BY DEF ThreadsOK, LocksTell, StoppedReaders
<1>7. StoppedReaders'
  BY DEF ThreadsOK, FlagsOK, LocksTell, StoppedReaders, CallsFollow
<1>. QED  BY <1>1, <1>2, <1>3, <1>4, <1>5, <1>6, <1>7

\* So is the prompt.
LEMMA PromptKeeps ==
  ASSUME VTAssumption, ShellInv, Prompt
  PROVE  ShellInv'
<1>. USE DEF Prompt, Emits, ShellInv, mainVars, outVars, inVars, locks, shellVars
<1>1. ThreadsOK'
  BY DEF ThreadsOK
<1>2. FlagsOK'
  BY Zenon DEF FlagsOK
<1>3. CallsOK'
  BY DEF CallsOK, Readers
<1>4. OutputOK'
  BY DEF OutputOK, Output
<1>5. CallsFollow'
  BY DEF ThreadsOK, CallsOK, CallsFollow, StoppedReaders, Readers
<1>6. LocksTell'
  BY DEF ThreadsOK, LocksTell, StoppedReaders
<1>7. StoppedReaders'
  BY DEF ThreadsOK, FlagsOK, LocksTell, StoppedReaders, CallsFollow
<1>. QED  BY <1>1, <1>2, <1>3, <1>4, <1>5, <1>6, <1>7

\* The shell dies.
LEMMA ShellDiesKeeps ==
  ASSUME VTAssumption, ShellInv, ShellDies
  PROVE  ShellInv'
<1>. USE DEF ShellDies, ShellInv, mainVars, outVars, inVars, locks, shellVars
<1>1. ThreadsOK'
  BY DEF ThreadsOK
<1>2. FlagsOK'
  BY Zenon DEF FlagsOK
<1>3. CallsOK'
  BY DEF CallsOK, Readers
<1>4. OutputOK'
  BY DEF OutputOK, Output
<1>5. CallsFollow'
  BY DEF ThreadsOK, CallsOK, CallsFollow, StoppedReaders, Readers
<1>6. LocksTell'
  BY DEF ThreadsOK, LocksTell, StoppedReaders
<1>7. StoppedReaders'
  BY DEF ThreadsOK, FlagsOK, LocksTell, StoppedReaders, CallsFollow
<1>. QED  BY <1>1, <1>2, <1>3, <1>4, <1>5, <1>6, <1>7

-----------------------------------------------------------------------------
\* A new shell has no command and no readers.
LEMMA ShellInitInv == VTAssumption /\ ShellInit => ShellInv
<1>. SUFFICES ASSUME VTAssumption, ShellInit PROVE ShellInv
  OBVIOUS
<1>. USE DEF ShellInit, NewShell
<1>1. ThreadsOK /\ OutputOK
  BY DEF ThreadsOK, OutputOK, VTAssumption
<1>2. FlagsOK
  BY DEF FlagsOK
<1>3. CallsOK
  BY DEF CallsOK
<1>4. CallsFollow
  <2>1. \A r \in Readers : serving # <<r>>
    <3>1. Len(serving) = 0 /\ \A r \in Readers : Len(<<r>>) = 1
      OBVIOUS
    <3>. QED  BY ONLY <3>1
  <2>2. \A r \in Readers : call[r] = "none"
    OBVIOUS
  <2>. QED  BY <2>1, <2>2 DEF CallsFollow, Readers
<1>5. LocksTell /\ StoppedReaders
  BY DEF LocksTell, StoppedReaders
<1>. QED  BY <1>1, <1>2, <1>3, <1>4, <1>5 DEF ShellInv

\* Every step of the main thread, the readers, the user and the shell keeps the invariant.
LEMMA ShellStepInv == VTAssumption /\ ShellInv /\ [ShellNext]_vtVars => ShellInv'
<1>. SUFFICES ASSUME VTAssumption, ShellInv, [ShellNext]_vtVars PROVE ShellInv'
  OBVIOUS
<1>1. ASSUME ShellMainStep PROVE ShellInv'
  BY <1>1, DispatchKeeps, StartIOReadersKeeps, LeaveWaitKeeps, StopIOReadersKeeps, JoinOutKeeps,
     JoinInKeeps, FinishKeeps, ContinueKeeps, DestroyShellKeeps DEF ShellMainStep
<1>2. ASSUME OutStep PROVE ShellInv'
  BY <1>2, OutReadKeeps, OutEndKeeps, OutKickedKeeps, OutProcessKeeps, OutAskKeeps,
     OutAnsweredKeeps, OutProcessedKeeps, OutDeactivateKeeps DEF OutStep
<1>3. ASSUME InStep PROVE ShellInv'
  BY <1>3, InKickedKeeps, InHandleKeeps, OnConsoleLogKeeps, LogCallKeeps, LogReturnKeeps DEF InStep
<1>4. ASSUME NEW bgnd \in BOOLEAN, Execute(bgnd) PROVE ShellInv'
  BY <1>4, ExecuteKeeps
<1>5. ASSUME NEW aim \in {"continue", "destroy"}, StopFor(aim) PROVE ShellInv'
  BY <1>5, StopForKeeps
<1>6. ASSUME NEW e \in {"key"} \cup (Features \cap {"log", "switch", "kill"}), InRead(e)
      PROVE  ShellInv'
  <2>1. e \in {"key", "log", "switch", "kill"}
    OBVIOUS
  <2>. QED  BY <1>6, <2>1, InReadKeeps
<1>7. ASSUME UNCHANGED vtVars PROVE ShellInv'
  BY <1>7 DEF vtVars, mainVars, outVars, inVars, locks, shellVars, ShellInv, ThreadsOK, FlagsOK,
    CallsOK, OutputOK, CallsFollow, LocksTell, StoppedReaders
<1>. QED
  BY <1>1, <1>2, <1>3, <1>4, <1>5, <1>6, <1>7, AnswerKeeps, CommandPrintsKeeps, CommandEndsKeeps,
     PromptKeeps, ShellDiesKeeps DEF ShellNext

\* The parts of the type are all of it.
LEMMA ShellTypes == ShellInv => ShellTypeOK
  BY DEF ShellInv, ThreadsOK, FlagsOK, CallsOK, OutputOK, ShellTypeOK

\* With its readers joined the main thread has the terminal for itself.
LEMMA ReadersGone == ShellInv => ReadersAreStopped
<1>. SUFFICES ASSUME ShellInv, main = "stopped" PROVE ReadersAreStopped
  BY DEF ReadersAreStopped
<1>1. inPc = "none" /\ outPc = "none"
  BY DEF ShellInv, StoppedReaders
<1>2. ~readState /\ \A r \in Readers : call[r] = "none"
  BY <1>1 DEF ShellInv, CallsFollow, Readers
<1>3. call = [r \in Readers |-> "none"]
  BY <1>2 DEF ShellInv, CallsOK
<1>4. inout = "free"
  BY <1>1 DEF ShellInv, LocksTell, ThreadsOK
<1>. QED  BY <1>1, <1>2, <1>3, <1>4 DEF ReadersAreStopped

\* Who starts a reader has stopped it or has never had one, and who shows the log has stopped
\* the output reader, which asks nothing then.
LEMMA ReadersStarted == ShellInv => NeverStartedTwice /\ LogHasTheScreen
  BY DEF ShellInv, StoppedReaders, CallsFollow, NeverStartedTwice, LogHasTheScreen

\* The shell, its readers and its callers keep their types.
THEOREM ShellTypeCorrect == ShellSpec => []ShellTypeOK
  BY ShellTypes, ShellInitInv, ShellStepInv, VTAssumption, PTL DEF ShellSpec

\* vtshell.cpp: no reader runs while the main thread changes the console under it, none is
\* started twice, and the log is shown while nothing is written into the terminal.
THEOREM ShellKept == ShellSpec => [](ReadersAreStopped /\ NeverStartedTwice /\ LogHasTheScreen)
  BY ReadersGone, ReadersStarted, ShellInitInv, ShellStepInv, VTAssumption, PTL DEF ShellSpec

-----------------------------------------------------------------------------
(* The history                                                             *)

\* No name is there twice.
NamedOnce(l) == \A j, k \in 1 .. Len(l) : l[j].name = l[k].name => j = k

\* What is kept is in the list that a history works with, and in the file unless the list
\* is about to be written.
KeptSafe ==
  \A i \in Instances :
    /\ doing[i] \notin {"save", "menuSave"} => kept \subseteq NamesOf(file)
    /\ doing[i] # "idle" \/ (i \in synced /\ ~Dialog) => kept \subseteq NamesOf(list[i])

\* Two far2l that share a file may lose what they have added
OneInstance == \E i : Instances = {i}

\* What Append does to the members of a list.
LEMMA MembersOfAppend ==
  ASSUME NEW X, NEW l \in Seq(X), NEW r \in X
  PROVE  /\ Append(l, r) \in Seq(X) /\ Len(Append(l, r)) = Len(l) + 1
         /\ \A k \in 1 .. Len(l) : Append(l, r)[k] = l[k]
         /\ Append(l, r)[Len(l) + 1] = r
         /\ ToSet(Append(l, r)) = ToSet(l) \cup {r}
<1>1. PICK m : m = Append(l, r)
  OBVIOUS
<1>2. /\ m \in Seq(X) /\ Len(m) = Len(l) + 1 /\ m[Len(l) + 1] = r
      /\ \A k \in 1 .. Len(l) : m[k] = l[k]
  BY <1>1
<1>3. DOMAIN m = 1 .. Len(l) + 1 /\ DOMAIN l = 1 .. Len(l) /\ Len(l) \in Nat
  BY <1>2
<1>4. ToSet(m) = ToSet(l) \cup {r}
  BY <1>2, <1>3 DEF ToSet
<1>. QED  BY <1>1, <1>2, <1>4

\* What is picked from l after each of its records.
Picks(w, l, S) ==
  /\ w[0] = <<>>
  /\ \A k \in 1 .. Len(l) : w[k] = IF l[k] \in S THEN Append(w[k-1], l[k]) ELSE w[k-1]

\* The loop of Where after each record.
LEMMA WhereLoop ==
  ASSUME NEW l \in Seq(Records), NEW S
  PROVE  \E w \in [0 .. Len(l) -> Seq(Records)] :
           Where(l, S) = w[Len(l)] /\ Picks(w, l, S)
<1>. DEFINE n == Len(l)
            X == Seq(Records)
            Next1(k, x) == IF l[k] \in S THEN Append(x, l[k]) ELSE x
<1>1. n \in Nat /\ <<>> \in X /\ \A k \in 1 .. n : l[k] \in Records
  OBVIOUS
<1>2. PICK s : s = [k \in 1 .. n |-> [x \in X |-> Next1(k, x)]]
  OBVIOUS
<1>3. \A k \in 1 .. n : \A x \in X : Next1(k, x) \in X
  BY <1>1
<1>. HIDE DEF n, X, Next1
<1>4. s \in [1 .. n -> [X -> X]]
  BY <1>2, <1>3
<1>5. PICK h \in [0 .. n -> X] : Passes(h, n, <<>>, s)
  BY <1>1, <1>4, LoopOf
<1>6. h[0] = <<>> /\ \A k \in 1 .. n : h[k] = Next1(k, h[k-1])
  <2>1. \A k \in 1 .. n : h[k] = s[k][h[k-1]] /\ h[k-1] \in X
    BY <1>1, <1>5 DEF Passes
  <2>. QED  BY <2>1, <1>2, <1>5 DEF Passes
<1>. DEFINE P(w) == w = [k \in 0 .. n |-> IF k = 0 THEN <<>> ELSE IF l[k] \in S THEN Append(w[k-1], l[k]) ELSE w[k-1]]
<1>7. P(h)
  <2>. DEFINE G(k) == IF k = 0 THEN <<>> ELSE IF l[k] \in S THEN Append(h[k-1], l[k]) ELSE h[k-1]
  <2>a. G(0) = <<>> /\ \A k \in 1 .. n : G(k) = Next1(k, h[k-1])
    BY ONLY <1>1 DEF Next1
  <2>1. \A k \in 0 .. n : h[k] = G(k)
    <3>. HIDE DEF G
    <3>1. \A k \in 0 .. n : k = 0 \/ k \in 1 .. n
      BY <1>1
    <3>. QED  BY <3>1, <2>a, <1>6
  <2>. HIDE DEF G
  <2>2. h = [k \in 0 .. n |-> G(k)]
    BY ONLY <2>1, h \in [0 .. n -> X]
  <2>. QED  BY <2>2 DEF G
<1>8. PICK w : w = CHOOSE g : P(g)
  OBVIOUS
<1>9. P(w)
  BY <1>7, <1>8, Zenon
<1>10. w[0] = <<>> /\ \A k \in 1 .. n : w[k] = IF l[k] \in S THEN Append(w[k-1], l[k]) ELSE w[k-1]
  <2>. DEFINE G(k) == IF k = 0 THEN <<>> ELSE IF l[k] \in S THEN Append(w[k-1], l[k]) ELSE w[k-1]
  <2>1. w = [k \in 0 .. n |-> G(k)]
    BY <1>9
  <2>. HIDE DEF G
  <2>2. \A k \in 0 .. n : w[k] = G(k)
    BY ONLY <2>1
  <2>. QED  BY ONLY <2>2, <1>1 DEF G
<1>11. Where(l, S) = w[n]
  BY <1>8 DEF Where, n
<1>12. w \in [0 .. n -> X]
  <2>. DEFINE T == {k \in 0 .. n : w[k] \in X}
  <2>1. 0 \in T
    BY <1>1, <1>10
  <2>2. \A k \in 1 .. n : k - 1 \in T => k \in T
    BY <1>1, <1>10, <1>3 DEF Next1
  <2>. HIDE DEF T
  <2>3. \A k \in 0 .. n : k \in T
    BY <1>1, <2>1, <2>2, UpTo
  <2>. QED  BY <2>3, <1>9 DEF T
<1>. QED  BY <1>10, <1>11, <1>12 DEF n, X, Picks

\* Where gives the records of the list that are in the set, each once if the list has it once.
LEMMA WhereIs ==
  ASSUME NEW l \in Seq(Records), NEW S
  PROVE  /\ Where(l, S) \in Seq(Records) /\ ToSet(Where(l, S)) = ToSet(l) \cap S
         /\ NamedOnce(l) => NamedOnce(Where(l, S))
<1>1. PICK w \in [0 .. Len(l) -> Seq(Records)] :
           Where(l, S) = w[Len(l)] /\ Picks(w, l, S)
  BY WhereLoop
<1>a. /\ w[0] = <<>>
      /\ \A k \in 1 .. Len(l) : w[k] = IF l[k] \in S THEN Append(w[k-1], l[k]) ELSE w[k-1]
  BY <1>1 DEF Picks
<1>2. Len(l) \in Nat /\ \A k \in 1 .. Len(l) : l[k] \in Records
  OBVIOUS
<1>. DEFINE Part(k) == {l[j] : j \in 1 .. k}
            Good(k) == ToSet(w[k]) = Part(k) \cap S /\ (NamedOnce(l) => NamedOnce(w[k]))
            T == {k \in 0 .. Len(l) : Good(k)}
<1>3. 0 \in T
  <2>1. Part(0) = {}
    OBVIOUS
  <2>2. ToSet(<<>>) = {} /\ NamedOnce(<<>>)
    BY DEF ToSet, NamedOnce
  <2>. QED  BY <2>1, <2>2, <1>a, <1>2
<1>4. ASSUME NEW k \in 1 .. Len(l), k - 1 \in T PROVE k \in T
  <2>1. Part(k) = Part(k - 1) \cup {l[k]}
    <3>1. \A j \in 1 .. k : j = k \/ j \in 1 .. k - 1
      OBVIOUS
    <3>. QED  BY <3>1
  <2>. HIDE DEF Part
  <2>2. k - 1 \in 0 .. Len(l) /\ Good(k - 1) /\ l[k] \in Records
    BY <1>4, <1>2
  <2>3. PICK v \in Seq(Records) : v = w[k-1]
    BY <2>2
  <2>4. CASE l[k] \notin S
    BY <2>1, <2>2, <2>4, <1>a
  <2>5. CASE l[k] \in S
    <3>1. w[k] = Append(v, l[k])
      BY <2>3, <2>5, <1>a
    <3>2. PICK m : m = w[k]
      OBVIOUS
    <3>3. /\ m \in Seq(Records) /\ Len(m) = Len(v) + 1
          /\ \A j \in 1 .. Len(v) : m[j] = v[j]
          /\ m[Len(v) + 1] = l[k] /\ ToSet(m) = ToSet(v) \cup {l[k]}
      BY <2>2, <3>1, <3>2, MembersOfAppend
    <3>4. ToSet(m) = Part(k) \cap S
      BY <2>1, <2>2, <2>3, <2>5, <3>3
    <3>5. ASSUME NamedOnce(l) PROVE NamedOnce(m)
      <4>1. NamedOnce(v) /\ ToSet(v) \subseteq Part(k - 1)
        BY <2>2, <2>3, <3>5
      <4>2. \A j \in 1 .. Len(v) : v[j] \in Part(k - 1)
        BY <4>1 DEF ToSet
      <4>3. \A j \in 1 .. Len(v) : v[j].name # l[k].name
        <5>. SUFFICES ASSUME NEW j \in 1 .. Len(v) PROVE v[j].name # l[k].name
          OBVIOUS
        <5>1. PICK i \in 1 .. k - 1 : v[j] = l[i]
          BY <4>2 DEF Part
        <5>2. i \in 1 .. Len(l) /\ i # k
          OBVIOUS
        <5>. QED  BY <5>1, <5>2, <3>5 DEF NamedOnce
      <4>4. \A i, j \in 1 .. Len(v) : v[i].name = v[j].name => i = j
        BY <4>1 DEF NamedOnce
      <4>5. Len(v) \in Nat
        OBVIOUS
      <4>6. ASSUME NEW i \in 1 .. Len(m), NEW j \in 1 .. Len(m), m[i].name = m[j].name PROVE i = j
        <5>1. i \in 1 .. Len(v) \/ i = Len(v) + 1
          BY <3>3, <4>5
        <5>2. j \in 1 .. Len(v) \/ j = Len(v) + 1
          BY <3>3, <4>5
        <5>. QED  BY <5>1, <5>2, <3>3, <4>3, <4>4, <4>6
      <4>. QED  BY <4>6 DEF NamedOnce
    <3>. QED  BY <3>2, <3>4, <3>5
  <2>. QED  BY <2>4, <2>5
<1>. HIDE DEF T
<1>5. \A k \in 1 .. Len(l) : k - 1 \in T => k \in T
  BY <1>4
<1>6. \A k \in 0 .. Len(l) : k \in T
  BY <1>2, <1>3, <1>5, UpTo
<1>7. Len(l) \in T
  BY <1>2, <1>6
<1>8. Good(Len(l))
  BY <1>7 DEF T
<1>9. Part(Len(l)) = ToSet(l)
  BY DEF ToSet
<1>10. w[Len(l)] \in Seq(Records)
  BY <1>2
<1>. QED  BY <1>1, <1>8, <1>9, <1>10

\* A list of records with one name each, as HistoryTypeOK says it.
LEMMA ListIs ==
  ASSUME NEW l
  PROVE  l \in Lists <=> l \in Seq(Records) /\ NamedOnce(l)
<1>. SUFFICES ASSUME l \in Seq(Records) PROVE Cardinality(NamesOf(l)) = Len(l) <=> NamedOnce(l)
  BY DEF Lists
<1>1. PICK f : f = [k \in 1 .. Len(l) |-> l[k].name]
  OBVIOUS
<1>2. Len(l) \in Nat /\ DOMAIN l = 1 .. Len(l)
  OBVIOUS
<1>3. NamesOf(l) = {f[k] : k \in 1 .. Len(l)}
  <2>1. NamesOf(l) = {l[k].name : k \in 1 .. Len(l)}
    BY <1>2 DEF NamesOf, ToSet
  <2>. QED  BY <2>1, <1>1
<1>4. f \in Surjection(1 .. Len(l), NamesOf(l))
  BY <1>1, <1>3 DEF Surjection
<1>5. IsFiniteSet(1 .. Len(l)) /\ Cardinality(1 .. Len(l)) = Len(l)
  BY <1>2, FS_Interval, SMTT(30)
<1>6. Cardinality(NamesOf(l)) = Cardinality(1 .. Len(l)) <=> f \in Injection(1 .. Len(l), NamesOf(l))
  BY <1>4, <1>5, FS_Surjection
<1>7. f \in Injection(1 .. Len(l), NamesOf(l)) <=> NamedOnce(l)
  BY <1>1, <1>4 DEF Injection, IsInjective, Surjection, NamedOnce
<1>. QED  BY <1>5, <1>6, <1>7

\* Names of the records that are picked.
LEMMA NamesWhere ==
  ASSUME NEW l \in Lists, NEW S
  PROVE  Where(l, S) \in Lists /\ ToSet(Where(l, S)) = ToSet(l) \cap S
BY ListIs, WhereIs

\* The members of a list, and none of no name.
LEMMA Members ==
  ASSUME NEW l \in Lists
  PROVE  /\ ToSet(l) \subseteq Records /\ NamesOf(l) \subseteq Names
         /\ \A r, s \in ToSet(l) : r.name = s.name => r = s
<1>1. l \in Seq(Records) /\ NamedOnce(l)
  BY ListIs
<1>2. DOMAIN l = 1 .. Len(l) /\ \A k \in 1 .. Len(l) : l[k] \in Records
  BY <1>1
<1>3. ToSet(l) \subseteq Records
  BY <1>2 DEF ToSet
<1>4. \A r \in Records : r.name \in Names
  BY DEF Records
<1>. QED  BY <1>1, <1>2, <1>3, <1>4 DEF ToSet, NamedOnce, NamesOf

\* A list that is read is cut to its newest records.
LEMMA NewestIs ==
  ASSUME NEW l \in Lists, NEW n \in Nat
  PROVE  Newest(l, n) \in Lists /\ NamesOf(Newest(l, n)) \subseteq NamesOf(l)
<1>1. l \in Seq(Records) /\ NamedOnce(l)
  BY ListIs
<1>2. PICK m \in Nat : m = Len(l)
  BY <1>1
<1>3. PICK a : a = IF m > n THEN m - n + 1 ELSE 1
  OBVIOUS
<1>4. a \in Nat \ {0} /\ (a <= m \/ a = m + 1 \/ a = 1)
  BY <1>3
<1>5. PICK q : q = SubSeq(l, a, m)
  OBVIOUS
<1>6. \A i \in a .. m : l[i] \in Records
  BY <1>1, <1>2, <1>4
<1>7. /\ q \in Seq(Records) /\ Len(q) = IF a <= m THEN m - a + 1 ELSE 0
      /\ \A i \in 1 .. m - a + 1 : q[i] = l[a + i - 1]
  BY <1>4, <1>5, <1>6, SubSeqProperties
<1>8. \A i \in 1 .. Len(q) : q[i] = l[a + i - 1] /\ a + i - 1 \in 1 .. m
  BY <1>4, <1>7
<1>9. NamedOnce(q)
  <2>1. ASSUME NEW i \in 1 .. Len(q), NEW j \in 1 .. Len(q), q[i].name = q[j].name PROVE i = j
    <3>1. PICK x \in 1 .. m : x = a + i - 1 /\ q[i] = l[x]
      BY <1>8
    <3>2. PICK y \in 1 .. m : y = a + j - 1 /\ q[j] = l[y]
      BY <1>8
    <3>3. x = y
      BY <2>1, <3>1, <3>2, <1>1, <1>2 DEF NamedOnce
    <3>. QED  BY <3>1, <3>2, <3>3, <1>4
  <2>. QED  BY <2>1 DEF NamedOnce
<1>10. DOMAIN q = 1 .. Len(q) /\ DOMAIN l = 1 .. m
  BY <1>1, <1>2, <1>7
<1>11. NamesOf(q) \subseteq NamesOf(l)
  BY <1>8, <1>10 DEF NamesOf, ToSet
<1>12. Newest(l, n) = q
  BY <1>2, <1>3, <1>5 DEF Newest
<1>. QED  BY <1>7, <1>9, <1>11, <1>12, ListIs

\* A record more, of a new name.
LEMMA Appended ==
  ASSUME NEW l \in Lists, NEW r \in Records, r.name \notin NamesOf(l)
  PROVE  Append(l, r) \in Lists /\ NamesOf(Append(l, r)) = NamesOf(l) \cup {r.name}
<1>1. l \in Seq(Records) /\ NamedOnce(l)
  BY ListIs
<1>2. PICK m : m = Append(l, r)
  OBVIOUS
<1>3. /\ m \in Seq(Records) /\ Len(m) = Len(l) + 1
      /\ \A k \in 1 .. Len(l) : m[k] = l[k]
      /\ m[Len(l) + 1] = r
      /\ ToSet(m) = ToSet(l) \cup {r}
  BY <1>1, <1>2, MembersOfAppend
<1>4. NamesOf(m) = NamesOf(l) \cup {r.name}
  BY <1>3 DEF NamesOf
<1>5. Len(l) \in Nat /\ DOMAIN l = 1 .. Len(l)
  BY <1>1
<1>6. \A k \in 1 .. Len(l) : l[k].name # r.name
  BY <1>5 DEF NamesOf, ToSet
<1>7. ASSUME NEW i \in 1 .. Len(m), NEW j \in 1 .. Len(m), m[i].name = m[j].name PROVE i = j
  <2>1. i \in 1 .. Len(l) \/ i = Len(l) + 1
    BY <1>3, <1>5
  <2>2. j \in 1 .. Len(l) \/ j = Len(l) + 1
    BY <1>3, <1>5
  <2>. QED  BY <2>1, <2>2, <1>1, <1>3, <1>6, <1>7 DEF NamedOnce
<1>8. NamedOnce(m)
  BY <1>7 DEF NamedOnce
<1>. QED  BY <1>2, <1>3, <1>4, <1>8, ListIs

\* AddToHistoryLocal leaves a list with the new record in it.
LEMMA AddedIs ==
  ASSUME NEW l \in Lists, NEW n \in Names
  PROVE  Added(l, n) \in Lists /\ n \in NamesOf(Added(l, n))
<1>1. PICK q : q = Without(l, {n})
  OBVIOUS
<1>2. q \in Lists /\ ToSet(q) = ToSet(l) \cap [name : Names \ {n}, lock : BOOLEAN]
  BY <1>1, NamesWhere DEF Without
<1>3. n \notin NamesOf(q)
  BY <1>2 DEF NamesOf
<1>4. PICK t : t = Trimmed(q)
  OBVIOUS
<1>5. t \in Lists /\ ToSet(t) \subseteq ToSet(q)
  <2>1. PICK V : Trimmed(q) = Where(q, Records \ V)
    BY DEF Trimmed
  <2>. QED  BY <2>1, <1>2, <1>4, NamesWhere
<1>6. n \notin NamesOf(t)
  BY <1>3, <1>5 DEF NamesOf
<1>7. PICK r : r = [name |-> n, lock |-> \E s \in ToSet(l) : s.name = n /\ s.lock]
  OBVIOUS
<1>8. r \in Records /\ r.name = n
  BY <1>7 DEF Records
<1>9. Added(l, n) = Append(t, r)
  BY <1>1, <1>4, <1>7 DEF Added
<1>. QED  BY <1>5, <1>6, <1>8, <1>9, Appended

\* Records are taken out by their names.
LEMMA WithoutIs ==
  ASSUME NEW l \in Lists, NEW N
  PROVE  Without(l, N) \in Lists /\ NamesOf(Without(l, N)) = NamesOf(l) \ N
<1>1. PICK q : q = Without(l, N)
  OBVIOUS
<1>2. q \in Lists /\ ToSet(q) = ToSet(l) \cap [name : Names \ N, lock : BOOLEAN]
  BY <1>1, NamesWhere DEF Without
<1>3. ToSet(l) \subseteq Records
  BY Members
<1>4. \A r \in ToSet(l) : r \in [name : Names \ N, lock : BOOLEAN] <=> r.name \notin N
  BY <1>3 DEF Records
<1>. QED  BY <1>1, <1>2, <1>4 DEF NamesOf

\* SaveHistory puts the records in another order at most.
LEMMA OrderedIs ==
  ASSUME NEW l \in Lists
  PROVE  Ordered(l) \in Lists /\ NamesOf(Ordered(l)) = NamesOf(l)
<1>1. CASE ~Dialog
  BY <1>1 DEF Ordered
<1>2. CASE Dialog
  <2>1. PICK u : u = Unlocked(l)
    OBVIOUS
  <2>2. PICK v : v = Locked(l)
    OBVIOUS
  <2>3. /\ u \in Lists /\ ToSet(u) = ToSet(l) \cap [name : Names, lock : {FALSE}]
        /\ v \in Lists /\ ToSet(v) = ToSet(l) \cap [name : Names, lock : {TRUE}]
    BY <2>1, <2>2, NamesWhere DEF Unlocked, Locked
  <2>4. /\ u \in Seq(Records) /\ NamedOnce(u) /\ v \in Seq(Records) /\ NamedOnce(v)
        /\ DOMAIN u = 1 .. Len(u) /\ DOMAIN v = 1 .. Len(v) /\ Len(u) \in Nat /\ Len(v) \in Nat
    BY <2>3, ListIs
  <2>5. PICK o : o = u \o v
    OBVIOUS
  <2>6. /\ o \in Seq(Records) /\ Len(o) = Len(u) + Len(v)
        /\ \A k \in 1 .. Len(u) : o[k] = u[k]
        /\ \A k \in 1 .. Len(v) : o[Len(u) + k] = v[k]
    BY <2>4, <2>5
  <2>7. \A k \in 1 .. Len(o) : k \in 1 .. Len(u) \/ \E j \in 1 .. Len(v) : k = Len(u) + j
    <3>1. ASSUME NEW k \in 1 .. Len(o), k \notin 1 .. Len(u)
          PROVE  k - Len(u) \in 1 .. Len(v) /\ k = Len(u) + (k - Len(u))
      BY <3>1, <2>4, <2>6
    <3>. QED  BY <3>1
  <2>8. ToSet(o) = ToSet(u) \cup ToSet(v)
    <3>1. DOMAIN o = 1 .. Len(o) /\ \A k \in 1 .. Len(u) : k \in 1 .. Len(o)
      BY <2>4, <2>6
    <3>2. \A k \in 1 .. Len(v) : Len(u) + k \in 1 .. Len(o)
      BY <2>4, <2>6
    <3>3. ToSet(o) \subseteq ToSet(u) \cup ToSet(v)
      <4>1. ASSUME NEW k \in 1 .. Len(o) PROVE o[k] \in ToSet(u) \cup ToSet(v)
        <5>1. CASE k \in 1 .. Len(u)
          BY <5>1, <2>4, <2>6 DEF ToSet
        <5>2. ASSUME NEW j \in 1 .. Len(v), k = Len(u) + j PROVE o[k] \in ToSet(v)
          BY <5>2, <2>4, <2>6 DEF ToSet
        <5>. QED  BY <5>1, <5>2, <2>7
      <4>. QED  BY <4>1, <3>1 DEF ToSet
    <3>4. ToSet(u) \subseteq ToSet(o) /\ ToSet(v) \subseteq ToSet(o)
      BY <3>1, <3>2, <2>4, <2>6 DEF ToSet
    <3>. QED  BY <3>3, <3>4
  <2>9. ToSet(l) \subseteq Records /\ \A r, s \in ToSet(l) : r.name = s.name => r = s
    BY Members
  <2>10. ToSet(o) = ToSet(l)
    BY <2>3, <2>8, <2>9 DEF Records
  <2>11. \A j \in 1 .. Len(u) : \A k \in 1 .. Len(v) : u[j].name # v[k].name
    <3>1. \A j \in 1 .. Len(u) : u[j] \in ToSet(l) /\ u[j].lock = FALSE
      BY <2>3, <2>4 DEF ToSet
    <3>2. \A k \in 1 .. Len(v) : v[k] \in ToSet(l) /\ v[k].lock = TRUE
      BY <2>3, <2>4 DEF ToSet
    <3>. QED  BY <3>1, <3>2, <2>9
  <2>12. ASSUME NEW i \in 1 .. Len(o), NEW j \in 1 .. Len(o), o[i].name = o[j].name PROVE i = j
    <3>1. i \in 1 .. Len(u) \/ \E k \in 1 .. Len(v) : i = Len(u) + k
      BY <2>7
    <3>2. j \in 1 .. Len(u) \/ \E k \in 1 .. Len(v) : j = Len(u) + k
      BY <2>7
    <3>. QED  BY <3>1, <3>2, <2>4, <2>6, <2>11, <2>12 DEF NamedOnce
  <2>13. NamedOnce(o)
    BY <2>12 DEF NamedOnce
  <2>14. Ordered(l) = o
    BY <1>2, <2>1, <2>2, <2>5 DEF Ordered
  <2>. QED  BY <2>6, <2>10, <2>13, <2>14, ListIs DEF NamesOf
<1>. QED  BY <1>1, <1>2

\* ToggleLock changes no name.
LEMMA ToggledIs ==
  ASSUME NEW l \in Lists, NEW at \in DOMAIN l, NEW m, m = [l EXCEPT ![at].lock = ~@]
  PROVE  m \in Lists /\ NamesOf(m) = NamesOf(l)
<1>1. l \in Seq(Records) /\ NamedOnce(l)
  BY ListIs
<1>2. DOMAIN l = 1 .. Len(l) /\ Len(l) \in Nat /\ \A k \in 1 .. Len(l) : l[k] \in Records
  BY <1>1
<1>3. PICK r : r = [l[at] EXCEPT !.lock = ~@]
  OBVIOUS
<1>4. r \in Records /\ r.name = l[at].name
  BY <1>2, <1>3 DEF Records
<1>5. m = [l EXCEPT ![at] = r]
  BY <1>3
<1>6. m \in Seq(Records) /\ Len(m) = Len(l) /\ \A k \in 1 .. Len(l) : m[k] = IF k = at THEN r ELSE l[k]
  BY <1>1, <1>2, <1>4, <1>5
<1>7. DOMAIN m = 1 .. Len(l) /\ \A k \in 1 .. Len(l) : m[k].name = l[k].name
  BY <1>2, <1>4, <1>6
<1>8. NamedOnce(m)
  BY <1>1, <1>6, <1>7 DEF NamedOnce
<1>9. NamesOf(m) = {m[k].name : k \in 1 .. Len(l)}
  BY ONLY <1>7 DEF NamesOf, ToSet
<1>10. NamesOf(l) = {l[k].name : k \in 1 .. Len(l)}
  BY ONLY <1>2 DEF NamesOf, ToSet
<1>11. {m[k].name : k \in 1 .. Len(l)} = {l[k].name : k \in 1 .. Len(l)}
  BY ONLY <1>7
<1>12. m \in Lists
  BY ONLY <1>6, <1>8, ListIs
<1>. QED  BY ONLY <1>9, <1>10, <1>11, <1>12

\* ReadHistory and SyncChanges: what is in the list then.
LEMMA SyncedIs ==
  ASSUME HistoryTypeOK, HistoryAssumption, NEW i \in Instances
  PROVE  /\ Read \in Lists /\ NamesOf(Read) \subseteq NamesOf(file)
         /\ Synced(i) \in Lists /\ StatSeen(i) \subseteq Instances
         /\ StillKept(i) \subseteq kept
         /\ KeptSafe /\ doing[i] = "idle" => StillKept(i) \subseteq NamesOf(Synced(i))
<1>1. Read \in Lists /\ NamesOf(Read) \subseteq NamesOf(file)
  BY NewestIs DEF HistoryTypeOK, HistoryAssumption, Read
<1>2. Synced(i) \in Lists /\ StatSeen(i) \subseteq Instances /\ StillKept(i) \subseteq kept
  BY <1>1 DEF HistoryTypeOK, Synced, StatSeen, StillKept
<1>3. ASSUME KeptSafe, doing[i] = "idle" PROVE StillKept(i) \subseteq NamesOf(Synced(i))
  BY <1>3 DEF KeptSafe, StillKept, Synced, Reads, PushedOut
<1>. QED  BY <1>1, <1>2, <1>3

\* The lists of all, with one of them changed.
LEMMA HoldsTypes ==
  ASSUME HistoryTypeOK, NEW i \in Instances, NEW l \in Lists, Holds(i, l)
  PROVE  /\ list' \in [Instances -> Lists] /\ list'[i] = l
BY DEF HistoryTypeOK, Holds

\* What each is doing, with one of them doing something else.
LEMMA MovesTypes ==
  ASSUME HistoryTypeOK, NEW i \in Instances, NEW from,
         NEW to \in {"idle", "save", "stat", "menu", "menuSave", "menuStat"}, Moves(i, from, to)
  PROVE  /\ doing' \in [Instances -> {"idle", "save", "stat", "menu", "menuSave", "menuStat"}]
         /\ doing[i] = from /\ doing'[i] = to
BY DEF HistoryTypeOK, Moves

\* Where something is added or deleted, or the menu opened.
LEMMA ListActions ==
  ASSUME HistoryTypeOK, HistoryAssumption, NEW i \in Instances, NEW n,
         OpenMenu(i) \/ (n \in Names /\ (Add(i, n) \/ AddForbidden(i, n) \/ DeleteMatching(i, n)))
  PROVE  /\ HistoryTypeOK' /\ file' = file
         /\ doing[i] = "idle" /\ doing'[i] \in {"idle", "save", "menu"}
         /\ doing'[i] # "save" => kept' \subseteq kept
         /\ KeptSafe => kept' \subseteq NamesOf(list'[i])
<1>1. PICK old : old = Synced(i)
  OBVIOUS
<1>2. PICK new : new = Added(old, n)
  OBVIOUS
<1>3. PICK still : still = StillKept(i)
  OBVIOUS
<1>4. old \in Lists /\ still \subseteq kept /\ StatSeen(i) \subseteq Instances
  BY <1>1, <1>3, SyncedIs
<1>5. doing[i] = "idle" => (KeptSafe => still \subseteq NamesOf(old))
  BY <1>1, <1>3, SyncedIs
<1>6. n \in Names => new \in Lists /\ n \in NamesOf(new)
  BY <1>2, <1>4, AddedIs
<1>7. PICK less : less = Without(old, {n})
  OBVIOUS
<1>8. less \in Lists /\ NamesOf(less) = NamesOf(old) \ {n}
  BY <1>4, <1>7, WithoutIs
<1>9. kept \subseteq Names /\ file \in Lists
  BY DEF HistoryTypeOK
<1>10. CASE Add(i, n) /\ n \in Names
  <2>1. /\ Moves(i, "idle", "save") /\ Holds(i, new) /\ synced' = StatSeen(i)
        /\ kept' = (still \ (NamesOf(old) \ NamesOf(new))) \cup {n} /\ file' = file
    BY <1>10, <1>1, <1>2, <1>3 DEF Add, PushedOut
  <2>2. list' \in [Instances -> Lists] /\ list'[i] = new
    BY <2>1, <1>10, <1>6, HoldsTypes
  <2>3. /\ doing' \in [Instances -> {"idle", "save", "stat", "menu", "menuSave", "menuStat"}]
        /\ doing[i] = "idle" /\ doing'[i] = "save"
    BY <2>1, MovesTypes
  <2>. QED  BY <2>1, <2>2, <2>3, <1>4, <1>5, <1>6, <1>9, <1>10 DEF HistoryTypeOK
<1>11. CASE AddForbidden(i, n) /\ n \in Names
  <2>1. /\ doing[i] = "idle" /\ Holds(i, new) /\ synced' = StatSeen(i)
        /\ kept' = still \ (NamesOf(old) \ NamesOf(new)) /\ UNCHANGED <<file, doing>>
    BY <1>11, <1>1, <1>2, <1>3 DEF AddForbidden, PushedOut
  <2>2. list' \in [Instances -> Lists] /\ list'[i] = new
    BY <2>1, <1>11, <1>6, HoldsTypes
  <2>. QED  BY <2>1, <2>2, <1>4, <1>5, <1>6, <1>9, <1>11 DEF HistoryTypeOK
<1>12. CASE DeleteMatching(i, n)
  <2>1. synced' = StatSeen(i) /\ file' = file
    BY <1>12 DEF DeleteMatching
  <2>2. \/ Moves(i, "idle", "save") /\ Holds(i, less) /\ kept' = still \ {n}
        \/ Moves(i, "idle", "idle") /\ Holds(i, old) /\ kept' = still
    BY <1>12, <1>1, <1>3, <1>7 DEF DeleteMatching
  <2>3. CASE Moves(i, "idle", "save") /\ Holds(i, less) /\ kept' = still \ {n}
    <3>1. list' \in [Instances -> Lists] /\ list'[i] = less
      BY <2>3, <1>8, HoldsTypes
    <3>2. /\ doing' \in [Instances -> {"idle", "save", "stat", "menu", "menuSave", "menuStat"}]
          /\ doing[i] = "idle" /\ doing'[i] = "save"
      BY <2>3, MovesTypes
    <3>. QED  BY <2>1, <2>3, <3>1, <3>2, <1>4, <1>5, <1>8, <1>9 DEF HistoryTypeOK
  <2>4. CASE Moves(i, "idle", "idle") /\ Holds(i, old) /\ kept' = still
    <3>1. list' \in [Instances -> Lists] /\ list'[i] = old
      BY <2>4, <1>4, HoldsTypes
    <3>2. /\ doing' \in [Instances -> {"idle", "save", "stat", "menu", "menuSave", "menuStat"}]
          /\ doing[i] = "idle" /\ doing'[i] = "idle"
      BY <2>4, MovesTypes
    <3>. QED  BY <2>1, <2>4, <3>1, <3>2, <1>4, <1>5, <1>9 DEF HistoryTypeOK
  <2>. QED  BY <2>2, <2>3, <2>4
<1>13. CASE OpenMenu(i)
  <2>1. /\ Moves(i, "idle", "menu") /\ Holds(i, old) /\ synced' = StatSeen(i) /\ kept' = still /\ file' = file
    BY <1>13, <1>1, <1>3 DEF OpenMenu
  <2>2. list' \in [Instances -> Lists] /\ list'[i] = old
    BY <2>1, <1>4, HoldsTypes
  <2>3. /\ doing' \in [Instances -> {"idle", "save", "stat", "menu", "menuSave", "menuStat"}]
        /\ doing[i] = "idle" /\ doing'[i] = "menu"
    BY <2>1, MovesTypes
  <2>. QED  BY <2>1, <2>2, <2>3, <1>4, <1>5, <1>9 DEF HistoryTypeOK
<1>. QED  BY <1>10, <1>11, <1>12, <1>13

\* The keys of the menu.
LEMMA MenuActions ==
  ASSUME HistoryTypeOK, NEW i \in Instances, NEW n,
         \/ CloseMenu(i) \/ Clear(i) \/ RemoveNonexistent(i) \/ ToggleLock(i, n) \/ DeleteItem(i, n)
  PROVE  /\ HistoryTypeOK' /\ file' = file /\ synced' = synced
         /\ doing[i] = "menu" /\ doing'[i] \in {"idle", "menuSave"} /\ kept' \subseteq kept
         /\ kept \subseteq NamesOf(list[i]) => kept' \subseteq NamesOf(list'[i])
<1>1. file \in Lists /\ kept \subseteq Names /\ list[i] \in Lists
  BY DEF HistoryTypeOK
<1>2. CASE CloseMenu(i)
  <2>1. Moves(i, "menu", "idle") /\ UNCHANGED <<file, list, synced, kept>>
    BY <1>2 DEF CloseMenu
  <2>2. /\ doing' \in [Instances -> {"idle", "save", "stat", "menu", "menuSave", "menuStat"}]
        /\ doing[i] = "menu" /\ doing'[i] = "idle"
    BY <2>1, MovesTypes
  <2>. QED  BY <2>1, <2>2 DEF HistoryTypeOK
<1>3. ASSUME NEW N, Gone(i, N)
      PROVE  /\ HistoryTypeOK' /\ file' = file /\ synced' = synced
             /\ doing[i] = "menu" /\ doing'[i] = "menuSave" /\ kept' \subseteq kept
             /\ kept \subseteq NamesOf(list[i]) => kept' \subseteq NamesOf(list'[i])
  <2>1. PICK less : less = Without(list[i], N)
    OBVIOUS
  <2>2. less \in Lists /\ NamesOf(less) = NamesOf(list[i]) \ N
    BY <1>1, <2>1, WithoutIs
  <2>3. Moves(i, "menu", "menuSave") /\ Holds(i, less) /\ kept' = kept \ N /\ UNCHANGED <<file, synced>>
    BY <1>3, <2>1 DEF Gone
  <2>4. list' \in [Instances -> Lists] /\ list'[i] = less
    BY <2>2, <2>3, HoldsTypes
  <2>5. /\ doing' \in [Instances -> {"idle", "save", "stat", "menu", "menuSave", "menuStat"}]
        /\ doing[i] = "menu" /\ doing'[i] = "menuSave"
    BY <2>3, MovesTypes
  <2>. QED  BY <2>2, <2>3, <2>4, <2>5 DEF HistoryTypeOK
<1>4. CASE ToggleLock(i, n)
  <2>1. PICK at : at = CHOOSE k \in DOMAIN list[i] : list[i][k].name = n
    OBVIOUS
  <2>2. \E k \in DOMAIN list[i] : list[i][k].name = n
    BY <1>4 DEF ToggleLock, NamesOf, ToSet
  <2>3. at \in DOMAIN list[i]
    BY <2>1, <2>2
  <2>4. /\ Moves(i, "menu", "menuSave") /\ UNCHANGED <<file, synced, kept>>
        /\ list' = [list EXCEPT ![i][at].lock = ~@]
    BY <1>4, <2>1 DEF ToggleLock
  <2>5. PICK m : m = [list[i] EXCEPT ![at].lock = ~@]
    OBVIOUS
  <2>6. m \in Lists /\ NamesOf(m) = NamesOf(list[i])
    BY <1>1, <2>3, <2>5, ToggledIs
  <2>7. Holds(i, m)
    BY <2>4, <2>5 DEF Holds
  <2>8. list' \in [Instances -> Lists] /\ list'[i] = m
    BY <2>6, <2>7, HoldsTypes
  <2>9. /\ doing' \in [Instances -> {"idle", "save", "stat", "menu", "menuSave", "menuStat"}]
        /\ doing[i] = "menu" /\ doing'[i] = "menuSave"
    BY <2>4, MovesTypes
  <2>. QED  BY <2>4, <2>6, <2>8, <2>9 DEF HistoryTypeOK
<1>5. CASE Clear(i) \/ RemoveNonexistent(i) \/ DeleteItem(i, n)
  <2>1. \E N : Gone(i, N)
    BY <1>5 DEF Clear, RemoveNonexistent, DeleteItem
  <2>. QED  BY <2>1, <1>3
<1>. QED  BY <1>2, <1>4, <1>5

\* SaveHistory replaces the file, and then takes its stat.
LEMMA SaveActions ==
  ASSUME HistoryTypeOK, HistoryAssumption, NEW i \in Instances, Save(i) \/ Stat(i) \/ Restart(i)
  PROVE  /\ HistoryTypeOK' /\ doing'[i] \notin {"save", "menuSave"}
         /\ KeptSafe => /\ kept' \subseteq NamesOf(file')
                        /\ doing'[i] # "idle" \/ (i \in synced' /\ ~Dialog) => kept' \subseteq NamesOf(list'[i])
<1>1. file \in Lists /\ kept \subseteq Names /\ list[i] \in Lists /\ synced \subseteq Instances
  BY DEF HistoryTypeOK
<1>2. CASE Save(i)
  <2>1. PICK o : o = Ordered(list[i])
    OBVIOUS
  <2>2. o \in Lists /\ NamesOf(o) = NamesOf(list[i])
    BY <1>1, <2>1, OrderedIs
  <2>3. file' = o /\ Holds(i, o) /\ synced' = {} /\ kept' = kept
    BY <1>2, <2>1 DEF Save
  <2>4. \E to \in {"idle", "stat", "menu", "menuStat"} : \E from \in {"save", "menuSave"} : Moves(i, from, to)
    BY <1>2 DEF Save
  <2>5. /\ doing' \in [Instances -> {"idle", "save", "stat", "menu", "menuSave", "menuStat"}]
        /\ doing[i] \in {"save", "menuSave"} /\ doing'[i] \in {"idle", "stat", "menu", "menuStat"}
    BY <2>4, MovesTypes
  <2>6. list' \in [Instances -> Lists] /\ list'[i] = o
    BY <2>2, <2>3, HoldsTypes
  <2>7. HistoryTypeOK'
    BY <1>1, <2>2, <2>3, <2>5, <2>6 DEF HistoryTypeOK
  <2>. QED  BY <2>2, <2>3, <2>5, <2>6, <2>7 DEF KeptSafe
<1>3. CASE Stat(i)
  <2>1. synced' = synced \cup {i} /\ UNCHANGED <<file, list, kept>>
    BY <1>3 DEF Stat
  <2>2. \E to \in {"idle", "menu"} : \E from \in {"stat", "menuStat"} : Moves(i, from, to)
    BY <1>3 DEF Stat
  <2>3. /\ doing' \in [Instances -> {"idle", "save", "stat", "menu", "menuSave", "menuStat"}]
        /\ doing[i] \in {"stat", "menuStat"} /\ doing'[i] \in {"idle", "menu"}
    BY <2>2, MovesTypes
  <2>4. HistoryTypeOK'
    BY <1>1, <2>1, <2>3 DEF HistoryTypeOK
  <2>. QED  BY <2>1, <2>3, <2>4 DEF KeptSafe
<1>4. CASE Restart(i)
  <2>1. PICK r : r = Read
    OBVIOUS
  <2>2. r \in Lists /\ NamesOf(r) \subseteq NamesOf(file)
    BY <2>1, SyncedIs
  <2>3. /\ doing[i] \in {"idle", "menu"} /\ doing' = [doing EXCEPT ![i] = "idle"]
        /\ Holds(i, r) /\ synced' \subseteq synced \cup {i}
        /\ kept' = kept \ (NamesOf(file) \ NamesOf(r)) /\ file' = file
    BY <1>4, <2>1 DEF Restart, PushedOut
  <2>4. list' \in [Instances -> Lists] /\ list'[i] = r
    BY <2>2, <2>3, HoldsTypes
  <2>5. HistoryTypeOK' /\ doing'[i] = "idle"
    BY <1>1, <2>3, <2>4 DEF HistoryTypeOK
  <2>. QED  BY <2>2, <2>3, <2>4, <2>5 DEF KeptSafe
<1>. QED  BY <1>2, <1>3, <1>4

\* Any step: types, and with one far2l what it has added stays.
LEMMA HistoryStep ==
  ASSUME HistoryAssumption, HistoryTypeOK, HistoryNext
  PROVE  HistoryTypeOK' /\ (OneInstance /\ KeptSafe => KeptSafe')
<1>1. PICK i \in Instances :
        \/ Save(i) \/ Stat(i) \/ Restart(i)
        \/ OpenMenu(i)
        \/ CloseMenu(i) \/ Clear(i) \/ RemoveNonexistent(i)
        \/ \E n \in Names :
             Add(i, n) \/ AddForbidden(i, n) \/ DeleteMatching(i, n)
             \/ ToggleLock(i, n) \/ DeleteItem(i, n)
  BY DEF HistoryNext
<1>2. CASE Save(i) \/ Stat(i) \/ Restart(i)
  <2>1. /\ HistoryTypeOK' /\ doing'[i] \notin {"save", "menuSave"}
        /\ KeptSafe => /\ kept' \subseteq NamesOf(file')
                       /\ doing'[i] # "idle" \/ (i \in synced' /\ ~Dialog) => kept' \subseteq NamesOf(list'[i])
    BY <1>2, SaveActions
  <2>. QED  BY <2>1 DEF KeptSafe, OneInstance
<1>3. ASSUME NEW n, OpenMenu(i) \/ (n \in Names /\ (Add(i, n) \/ AddForbidden(i, n) \/ DeleteMatching(i, n)))
      PROVE  HistoryTypeOK' /\ (OneInstance /\ KeptSafe => KeptSafe')
  <2>1. /\ HistoryTypeOK' /\ file' = file
        /\ doing[i] = "idle" /\ doing'[i] \in {"idle", "save", "menu"}
        /\ doing'[i] # "save" => kept' \subseteq kept
        /\ KeptSafe => kept' \subseteq NamesOf(list'[i])
    BY <1>3, ListActions
  <2>2. KeptSafe /\ doing'[i] # "save" => kept' \subseteq NamesOf(file)
    BY <2>1 DEF KeptSafe
  <2>. QED  BY <2>1, <2>2 DEF KeptSafe, OneInstance
<1>4. ASSUME NEW n, CloseMenu(i) \/ Clear(i) \/ RemoveNonexistent(i) \/ ToggleLock(i, n) \/ DeleteItem(i, n)
      PROVE  HistoryTypeOK' /\ (OneInstance /\ KeptSafe => KeptSafe')
  <2>1. /\ HistoryTypeOK' /\ file' = file /\ synced' = synced
        /\ doing[i] = "menu" /\ doing'[i] \in {"idle", "menuSave"} /\ kept' \subseteq kept
        /\ kept \subseteq NamesOf(list[i]) => kept' \subseteq NamesOf(list'[i])
    BY <1>4, MenuActions
  <2>2. KeptSafe => kept \subseteq NamesOf(list[i]) /\ kept' \subseteq NamesOf(file)
    BY <2>1 DEF KeptSafe
  <2>. QED  BY <2>1, <2>2 DEF KeptSafe, OneInstance
<1>5. CASE \E n \in Names : Add(i, n) \/ AddForbidden(i, n) \/ DeleteMatching(i, n)
  BY <1>5, <1>3
<1>6. CASE OpenMenu(i)
  BY <1>6, <1>3
<1>7. CASE \E n : CloseMenu(i) \/ Clear(i) \/ RemoveNonexistent(i) \/ ToggleLock(i, n) \/ DeleteItem(i, n)
  BY <1>7, <1>4
<1>. QED  BY <1>1, <1>2, <1>5, <1>6, <1>7, Zenon

\* Nothing is remembered in the beginning.
LEMMA HistoryBegins == HistoryAssumption /\ HistoryInit => HistoryTypeOK /\ KeptSafe
<1>1. <<>> \in Lists
  <2>1. PICK z : z = <<>>
    OBVIOUS
  <2>2. z \in Seq(Records) /\ NamedOnce(z)
    BY <2>1 DEF NamedOnce
  <2>. QED  BY <2>1, <2>2, ListIs
<1>. QED  BY <1>1 DEF HistoryInit, HistoryTypeOK, KeptSafe

\* The history's invariant, in all its states.
LEMMA HistoryInvariance ==
  ASSUME HistoryAssumption
  PROVE  HistorySpec => [](HistoryTypeOK /\ (OneInstance => KeptSafe))
<1>1. HistoryInit => HistoryTypeOK /\ (OneInstance => KeptSafe)
  BY HistoryBegins
<1>2. HistoryTypeOK /\ (OneInstance => KeptSafe) /\ [HistoryNext]_historyVars
        => (HistoryTypeOK /\ (OneInstance => KeptSafe))'
  <2>1. HistoryTypeOK /\ (OneInstance => KeptSafe) /\ UNCHANGED historyVars
          => (HistoryTypeOK /\ (OneInstance => KeptSafe))'
    BY DEF historyVars, HistoryTypeOK, KeptSafe, OneInstance
  <2>2. HistoryTypeOK /\ (OneInstance => KeptSafe) /\ HistoryNext
          => (HistoryTypeOK /\ (OneInstance => KeptSafe))'
    BY HistoryStep DEF OneInstance
  <2>. QED  BY <2>1, <2>2
<1>. QED  BY <1>1, <1>2, PTL DEF HistorySpec

\* history.cpp: the list of a dialog and of the files, with every record of it, its locks and
\* what an instance is about to write, keep their types: in particular no name is in a list twice.
THEOREM HistoryTypeCorrect == ASSUME HistoryAssumption PROVE HistorySpec => []HistoryTypeOK
  BY HistoryInvariance, PTL

-----------------------------------------------------------------------------
(* The parts side by side                                                  *)

\* A part steps, and the others stay.
LEMMA PartSteps ==
  ASSUME [FarNext]_farVars
  PROVE  /\ [Next]_vars /\ [QueueNext]_queueVars /\ [SynchroNext]_synchroVars /\ [ShellNext]_vtVars
         /\ [HistoryNext]_historyVars /\ [EditorNext]_editorVars
<1>1. ASSUME UNCHANGED farVars
      PROVE  /\ UNCHANGED vars /\ UNCHANGED queueVars /\ UNCHANGED synchroVars /\ UNCHANGED vtVars
             /\ UNCHANGED historyVars /\ UNCHANGED editorVars
  BY <1>1 DEF farVars
<1>2. ASSUME FarNext
      PROVE  /\ [Next]_vars /\ [QueueNext]_queueVars /\ [SynchroNext]_synchroVars /\ [ShellNext]_vtVars
             /\ [HistoryNext]_historyVars /\ [EditorNext]_editorVars
  BY <1>2 DEF FarNext
<1>. QED  BY <1>1, <1>2

\* So each of them is what it promises by itself.
LEMMA PartsKeep ==
  FarSpec => /\ [](VTAssumption /\ QueueAssumption /\ PluginSynchroAssumption)
             /\ Spec /\ QueueSpec /\ SynchroSpec /\ ShellSpec /\ HistorySpec /\ EditorSpec
<1>1. FarInit => Init /\ QueueInit /\ SynchroInit /\ ShellInit /\ HistoryInit /\ EditorInit
  BY DEF FarInit
<1>. QED
  BY <1>1, PartSteps, VTAssumption, QueueAssumption, PluginSynchroAssumption, PTL
  DEF FarSpec, Spec, QueueSpec, SynchroSpec, ShellSpec, HistorySpec, EditorSpec

\* ThreadedWorkQueue.h, synchro.cpp, panel.cpp and vtshell's callers: items, events and
\* refreshes are kept in order and none is lost, and queued calls have a kick on its way.
THEOREM QueuesKept == ASSUME ~Scans PROVE FarSpec => []QueuesAreKept
<1>1. Spec => []KickIsPending
  BY KicksPend
<1>2. (DestroyedInOrder /\ ItemsInOnePlace /\ WorkingIsCounted) /\ (BegunInOrder /\ TasksAreShown) /\ KickIsPending
        => QueuesAreKept
  BY DEF QueuesAreKept
<1>. QED  BY <1>1, <1>2, PartsKeep, QueueKept, SynchroKept, PTL

\* vtshell.cpp, vtshell_ioreaders.cpp: the console is changed, readers are started and the log
\* is shown only when nobody else uses the terminal.
THEOREM TerminalsOwn == FarSpec => []TerminalIsOnesOwn
<1>1. ReadersAreStopped /\ NeverStartedTwice /\ LogHasTheScreen => TerminalIsOnesOwn
  BY DEF TerminalIsOnesOwn
<1>. QED  BY <1>1, PartsKeep, ShellKept, PTL

\* history.cpp, TListMenu: what one far2l has added is in the file, saved after each change, until
\* it is deleted or pushed out by newer records; locked ones are neither.
THEOREM KeptStays == ASSUME OneInstance PROVE FarSpec => []KeptStay
<1>1. HistoryTypeOK /\ (OneInstance => KeptSafe) => KeptStay
  BY DEF OneInstance, KeptSafe, KeptStay, Saved
<1>. QED  BY <1>1, HistoryAssumption, HistoryInvariance, PartsKeep, PTL

\* editor.cpp, Undo, AddUndoData: undo leads through the lines that there were, and records of one
\* command are dropped, undone and redone together, whatever is merged and trimmed.
THEOREM UndoSound == FarSpec => []UndoIsSound
<1>1. UndoRestoresLines /\ BlocksStayWhole => UndoIsSound
  BY DEF UndoIsSound
<1>. QED  BY <1>1, PartsKeep, RestoresLines, StayWhole, PTL

\* fileedit.cpp, SaveFile: an editor that is not "modified" holds the lines of its file, if the
\* cursor moves after a save, saves do not fail and no plugin expands tabs.
THEOREM NotModifiedSaved ==
  ASSUME CursorMoves, ~SavesFail, ~PluginsExpand
  PROVE  FarSpec => []NotModifiedIsSaved
  BY PartsKeep, UnmodifiedIsSaved, PTL

\* The state that MCFar checks has its type: that of each part, side by side.
THEOREM FarTypeCorrect == FarSpec => []FarTypeOK
<1>1. QueueTypeOK /\ EditorTypeOK /\ HistoryTypeOK /\ SynchroTypeOK /\ ShellTypeOK => FarTypeOK
  BY DEF FarTypeOK
<1>2. HistorySpec => []HistoryTypeOK
  BY HistoryAssumption, HistoryTypeCorrect
<1>. QED
  BY <1>1, <1>2, PartsKeep, QueueTypeCorrect, EditorTypeCorrect, SynchroTypeCorrect, ShellTypeCorrect, PTL
=============================================================================
