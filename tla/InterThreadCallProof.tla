-------------------------- MODULE InterThreadCallProof --------------------------
(***************************************************************************)
(* Proofs about InterThreadCall for any number of workers, delegates and   *)
(* nested loops.                                                           *)
(***************************************************************************)
EXTENDS CallOrder, TLAPS

\* pcs of a level that is inside its iteration over a batch
InBatch == {"process", "running", "finalize", "discard"}

\* Only the top level is anywhere but in code of its own, a level holds a
\* batch exactly while it iterates over one, and the dispatcher is gone
\* exactly when the main loop has ended.
LevelOK(n) ==
  /\ n < depth => pc[n] \in {"running", "handle"}
  /\ n > depth => pc[n] = "dispatch"
  /\ batch[n] # <<>> <=> pc[n] \in InBatch
  /\ pc[n] \in {"discard", "exited"} => n = 1 /\ depth = 1

DispatcherOK ==
  /\ tid = NoThread <=> pc[1] \in {"discard", "exited"}
  /\ tid = NoThread => queue = <<>>

LevelsOK == DispatcherOK /\ \A n \in Levels : LevelOK(n)

\* A delegate is at one place of the queue and the batches at most.
PlacesOK ==
  /\ \A i, j \in 1..Len(queue) : queue[i] = queue[j] => i = j
  /\ \A n \in Levels : \A i, j \in 1..Len(batch[n]) : batch[n][i] = batch[n][j] => i = j
  /\ \A n \in Levels : \A i \in 1..Len(queue), j \in 1..Len(batch[n]) : queue[i] # batch[n][j]
  /\ \A m, n \in Levels : m # n =>
       \A i \in 1..Len(batch[m]), j \in 1..Len(batch[n]) : batch[m][i] # batch[n][j]

\* A worker in a call has a live delegate of its own.
CallersOK ==
  /\ \A t \in Threads : tpc[t] = "idle" <=> cur[t] = NoDelegate
  /\ \A t \in Threads : tpc[t] # "idle" => cur[t] \in live
  /\ \A t, u \in Threads : cur[t] = cur[u] /\ cur[t] # NoDelegate => t = u
  /\ \A t \in Threads : tpc[t] = "wait" => obj[cur[t]].sync
  /\ \A t \in Threads : tpc[t] = "enqueue" =>
       obj[cur[t]].outcome = "unrun" /\ ~obj[cur[t]].done

\* A delegate the dispatcher can reach is live, not yet answered, and its
\* synchronous caller waits.
Reachable(d) ==
  /\ d \in live
  /\ ~obj[d].done
  /\ \A t \in Threads : cur[t] = d => tpc[t] = "wait"
  /\ obj[d].sync => \E t \in Threads : cur[t] = d

PendingOK ==
  /\ \A i \in 1..Len(queue) : Reachable(queue[i]) /\ obj[queue[i]].outcome = "unrun"
  /\ \A n \in Levels : \A i \in 1..Len(batch[n]) :
       /\ Reachable(batch[n][i])
       /\ i > 1 \/ pc[n] \in {"process", "discard"} => obj[batch[n][i]].outcome = "unrun"
       /\ i = 1 /\ pc[n] = "running" => obj[batch[n][i]].outcome = "running"
       /\ i = 1 /\ pc[n] = "finalize" => obj[batch[n][i]].outcome \in {"returned", "threw"}

InPlace(d) ==
  \/ \E i \in 1..Len(queue) : queue[i] = d
  \/ \E n \in Levels : \E i \in 1..Len(batch[n]) : batch[n][i] = d

\* A blocked caller is answered truthfully or can still be reached.
AnswersOK ==
  \A t \in Threads : tpc[t] = "wait" =>
    IF obj[cur[t]].done
      THEN obj[cur[t]].discarded <=> obj[cur[t]].outcome # "returned"
      ELSE InPlace(cur[t])

IInv == TypeOK /\ LevelsOK /\ PlacesOK /\ CallersOK /\ PendingOK /\ AnswersOK

\* What TypeOK expands to
USE ConstantsAssumption DEF Levels, LoopKinds, LevelPCs, Object, Outcomes, NewObject

-----------------------------------------------------------------------------
(* Sequences                                                               *)

\* What Append does to the elements of a sequence, for queue and posting.
LEMMA AppendFacts ==
  ASSUME NEW S, NEW s \in Seq(S), NEW e \in S
  PROVE  /\ Append(s, e) \in Seq(S)
         /\ Len(Append(s, e)) = Len(s) + 1
         /\ \A i \in 1..Len(s) : Append(s, e)[i] = s[i]
         /\ Append(s, e)[Len(s) + 1] = e
OBVIOUS

\* What Tail does to the elements of a nonempty sequence, for the next in batch.
LEMMA TailFacts ==
  ASSUME NEW S, NEW s \in Seq(S), s # <<>>
  PROVE  /\ Head(s) = s[1] /\ Head(s) \in S
         /\ Len(s) \in Nat /\ Len(s) >= 1
         /\ Tail(s) \in Seq(S)
         /\ Len(Tail(s)) = Len(s) - 1
         /\ \A i \in 1..(Len(s) - 1) : Tail(s)[i] = s[i + 1]
OBVIOUS

-----------------------------------------------------------------------------
(* The three ways in which delegates move: to the end of the queue, from   *)
(* the queue to the batch of a level, and out of a batch.                  *)

\* A delegate that is nowhere yet can be appended to the queue: places stay unique.
LEMMA EnqueuePlaces ==
  ASSUME TypeOK, PlacesOK, NEW d \in Delegates, ~InPlace(d),
         queue' = Append(queue, d), batch' = batch
  PROVE  PlacesOK' /\ InPlace(d)' /\ \A e : InPlace(e) => InPlace(e)'
<1>1. /\ Len(queue') = Len(queue) + 1 /\ Len(queue) \in Nat
      /\ \A i \in 1..Len(queue) : queue'[i] = queue[i]
      /\ queue'[Len(queue) + 1] = d
      /\ \A k \in 1..Len(queue') :
           \/ k \in 1..Len(queue) /\ queue'[k] = queue[k]
           \/ k = Len(queue) + 1 /\ queue'[k] = d
  <2>1. queue \in Seq(Delegates)
    BY DEF TypeOK
  <2>2. Len(queue) \in Nat
    BY <2>1
  <2>3. /\ Len(queue') = Len(queue) + 1
        /\ \A i \in 1..Len(queue) : queue'[i] = queue[i]
        /\ queue'[Len(queue) + 1] = d
    BY <2>1, AppendFacts
  <2>4. \A k \in 1..(Len(queue) + 1) : k \in 1..Len(queue) \/ k = Len(queue) + 1
    BY <2>2
  <2>. QED  BY ONLY <2>2, <2>3, <2>4
<1>2. PlacesOK'
  <2>1. /\ \A i \in 1..Len(queue) : queue[i] # d
        /\ \A n \in Levels : \A j \in 1..Len(batch[n]) : batch[n][j] # d
    BY DEF InPlace
  <2>2. ASSUME NEW i \in 1..Len(queue'), NEW j \in 1..Len(queue'), queue'[i] = queue'[j]
        PROVE  i = j
    <3>1. \A h, k \in 1..Len(queue) : queue[h] = queue[k] => h = k
      BY DEF PlacesOK
    <3>. QED  BY <1>1, <2>1, <2>2, <3>1
  <2>3. ASSUME NEW n \in Levels, NEW i \in 1..Len(queue'), NEW j \in 1..Len(batch[n])
        PROVE  queue'[i] # batch[n][j]
    <3>1. \A k \in 1..Len(queue) : queue[k] # batch[n][j]
      BY DEF PlacesOK
    <3>. QED  BY <1>1, <2>1, <3>1
  <2>4. /\ \A n \in Levels : \A i, j \in 1..Len(batch'[n]) : batch'[n][i] = batch'[n][j] => i = j
        /\ \A m, n \in Levels : m # n =>
             \A i \in 1..Len(batch'[m]), j \in 1..Len(batch'[n]) : batch'[m][i] # batch'[n][j]
    BY DEF PlacesOK
  <2>5. /\ \A i, j \in 1..Len(queue') : queue'[i] = queue'[j] => i = j
        /\ \A n \in Levels : \A i \in 1..Len(queue'), j \in 1..Len(batch'[n]) : queue'[i] # batch'[n][j]
    BY <2>2, <2>3
  <2>. QED  BY <2>4, <2>5, Zenon DEF PlacesOK
<1>3. InPlace(d)' /\ \A e : InPlace(e) => InPlace(e)'
  BY <1>1 DEF InPlace
<1> QED BY <1>2, <1>3

\* A level without a batch can take the queue: places stay unique, none is lost.
LEMMA TakePlaces ==
  ASSUME TypeOK, PlacesOK, NEW n \in Levels, batch[n] = <<>>,
         queue' = <<>>, batch' = [batch EXCEPT ![n] = queue]
  PROVE  PlacesOK' /\ \A e : InPlace(e) => InPlace(e)'
<1>1. /\ Len(queue') = 0 /\ Len(batch[n]) = 0 /\ batch'[n] = queue
      /\ \A m \in Levels \ {n} : batch'[m] = batch[m]
  BY DEF TypeOK
<1>2. PlacesOK'
  <2>1. \A m \in Levels : \A i, j \in 1..Len(batch'[m]) : batch'[m][i] = batch'[m][j] => i = j
    BY <1>1 DEF PlacesOK
  <2>2. \A l, m \in Levels : l # m =>
          \A i \in 1..Len(batch'[l]), j \in 1..Len(batch'[m]) : batch'[l][i] # batch'[m][j]
    <3> SUFFICES ASSUME NEW l \in Levels, NEW m \in Levels, l # m,
                        NEW i \in 1..Len(batch'[l]), NEW j \in 1..Len(batch'[m])
                 PROVE  batch'[l][i] # batch'[m][j]
      OBVIOUS
    <3>1. CASE l = n BY <1>1, <3>1 DEF PlacesOK
    <3>2. CASE m = n BY <1>1, <3>2 DEF PlacesOK
    <3>3. CASE l # n /\ m # n BY <1>1, <3>3 DEF PlacesOK
    <3> QED BY <3>1, <3>2, <3>3
  <2>3. 1..Len(queue') = {}
    BY <1>1
  <2> QED BY <2>1, <2>2, <2>3 DEF PlacesOK
<1>3. ASSUME NEW e, InPlace(e) PROVE InPlace(e)'
  <2>1. CASE \E i \in 1..Len(queue) : queue[i] = e
    BY <1>1, <2>1 DEF InPlace
  <2>2. CASE \E m \in Levels : \E i \in 1..Len(batch[m]) : batch[m][i] = e
    <3>1. PICK m \in Levels : \E i \in 1..Len(batch[m]) : batch[m][i] = e
      BY <2>2
    <3>2. m # n
      BY <1>1, <3>1
    <3>3. \E i \in 1..Len(batch'[m]) : batch'[m][i] = e
      BY <1>1, <3>1, <3>2
    <3> QED BY <3>3 DEF InPlace
  <2> QED BY <1>3, <2>1, <2>2 DEF InPlace
<1> QED BY <1>2, <1>3

\* A level leaves the head of its batch: places stay unique, only the head is lost.
LEMMA TailPlaces ==
  ASSUME TypeOK, PlacesOK, NEW n \in Levels, batch[n] # <<>>, NEW h, h = Head(batch[n]),
         queue' = queue, batch' = [batch EXCEPT ![n] = Tail(@)]
  PROVE  /\ PlacesOK'
         /\ ~InPlace(h)'
         /\ \A e : InPlace(e) /\ e # h => InPlace(e)'
<1>1. /\ h = batch[n][1] /\ Len(batch[n]) \in Nat /\ Len(batch[n]) >= 1
      /\ Len(batch'[n]) = Len(batch[n]) - 1
      /\ \A i \in 1..(Len(batch[n]) - 1) : batch'[n][i] = batch[n][i + 1]
      /\ \A m \in Levels \ {n} : batch'[m] = batch[m]
  BY TailFacts DEF TypeOK
\* what is left in a batch was there before, one place further on in batch[n]
<1> DEFINE was(m, i) == IF m = n THEN i + 1 ELSE i
<1>2. \A m \in Levels : \A i \in 1..Len(batch'[m]) :
        /\ was(m, i) \in 1..Len(batch[m])
        /\ batch'[m][i] = batch[m][was(m, i)]
        /\ i \in Nat
  BY <1>1
<1>3. \A i \in Nat, j \in Nat, m \in Levels : was(m, i) = was(m, j) => i = j
  OBVIOUS
<1> HIDE DEF was
<1>4. PlacesOK'
  <2>1. \A m \in Levels : \A i, j \in 1..Len(batch'[m]) : batch'[m][i] = batch'[m][j] => i = j
    <3>1. ASSUME NEW m \in Levels, NEW i \in 1..Len(batch'[m]), NEW j \in 1..Len(batch'[m]),
                 batch'[m][i] = batch'[m][j]
          PROVE  i = j
      <4>1. was(m, i) \in 1..Len(batch[m]) /\ was(m, j) \in 1..Len(batch[m])
        BY <1>2
      <4>2. batch[m][was(m, i)] = batch[m][was(m, j)]
        BY <1>2, <3>1
      <4>3. was(m, i) = was(m, j)
        BY <4>1, <4>2 DEF PlacesOK
      <4> QED BY <1>2, <1>3, <4>3
    <3> QED BY <3>1
  <2>2. \A m \in Levels : \A i \in 1..Len(queue'), j \in 1..Len(batch'[m]) : queue'[i] # batch'[m][j]
    BY <1>2 DEF PlacesOK
  <2>3. \A l, m \in Levels : l # m =>
          \A i \in 1..Len(batch'[l]), j \in 1..Len(batch'[m]) : batch'[l][i] # batch'[m][j]
    <3>1. \A l, m \in Levels : l # m =>
            \A i \in 1..Len(batch[l]), j \in 1..Len(batch[m]) : batch[l][i] # batch[m][j]
      BY DEF PlacesOK
    <3>2. ASSUME NEW l \in Levels, NEW m \in Levels, l # m,
                 NEW i \in 1..Len(batch'[l]), NEW j \in 1..Len(batch'[m])
          PROVE  batch'[l][i] # batch'[m][j]
      <4>1. /\ was(l, i) \in 1..Len(batch[l]) /\ batch'[l][i] = batch[l][was(l, i)]
            /\ was(m, j) \in 1..Len(batch[m]) /\ batch'[m][j] = batch[m][was(m, j)]
        BY <1>2
      <4> QED BY <3>1, <3>2, <4>1
    <3> QED BY <3>2
  <2>4. \A i, j \in 1..Len(queue') : queue'[i] = queue'[j] => i = j
    BY DEF PlacesOK
  <2> QED BY <2>1, <2>2, <2>3, <2>4, Zenon DEF PlacesOK
<1>5. ~InPlace(h)'
  <2>1. 1 \in 1..Len(batch[n])
    BY <1>1
  <2>2. \A i \in 1..Len(queue') : queue'[i] # h
    BY <1>1, <2>1 DEF PlacesOK
  <2>3. ASSUME NEW m \in Levels, NEW i \in 1..Len(batch'[m]), batch'[m][i] = h
        PROVE  FALSE
    <3>1. CASE m = n
      <4>1. was(n, i) = 1
        BY <1>1, <1>2, <2>1, <2>3, <3>1 DEF PlacesOK
      <4> QED BY <1>2, <2>3, <3>1, <4>1 DEF was
    <3>2. CASE m # n
      BY <1>1, <1>2, <2>1, <2>3, <3>2 DEF PlacesOK
    <3> QED BY <3>1, <3>2
  <2> QED BY <2>2, <2>3 DEF InPlace
<1>6. ASSUME NEW e, InPlace(e), e # h PROVE InPlace(e)'
  <2>1. CASE \E i \in 1..Len(queue) : queue[i] = e
    BY <2>1 DEF InPlace
  <2>2. CASE \E m \in Levels : \E i \in 1..Len(batch[m]) : batch[m][i] = e
    <3>1. PICK m \in Levels : \E i \in 1..Len(batch[m]) : batch[m][i] = e
      BY <2>2
    <3>2. PICK i \in 1..Len(batch[m]) : batch[m][i] = e
      BY <3>1
    <3>3. CASE m # n
      <4>1. i \in 1..Len(batch'[m]) /\ batch'[m][i] = e
        BY <1>1, <3>2, <3>3
      <4> QED BY <4>1 DEF InPlace
    <3>4. CASE m = n
      <4>1. i - 1 \in 1..Len(batch'[n]) /\ batch'[n][i - 1] = e
        BY <1>1, <1>6, <3>2, <3>4
      <4> QED BY <4>1 DEF InPlace
    <3> QED BY <3>3, <3>4
  <2> QED BY <1>6, <2>1, <2>2 DEF InPlace
<1> QED BY <1>4, <1>5, <1>6

-----------------------------------------------------------------------------
(* Steps that move no delegate and change none: the loops of the main      *)
(* thread outside their dispatch, and the user.                            *)

\* Steps that touch neither a delegate nor a place of one keep the invariant.
LEMMA QuietStep ==
  ASSUME IInv, TypeOK', LevelsOK',
         UNCHANGED <<queue, batch, callerVars, delegateVars>>,
         \A n \in Levels : batch[n] # <<>> => pc'[n] = pc[n]
  PROVE  IInv'
<1> USE DEF IInv, callerVars, delegateVars
<1>1. PlacesOK' /\ CallersOK'
  BY DEF PlacesOK, CallersOK
<1>2. PendingOK'
  <2>1. \A d : Reachable(d) <=> Reachable(d)'
    BY DEF Reachable
  <2>2. \A n \in Levels : \A i \in 1..Len(batch[n]) : pc'[n] = pc[n]
    BY DEF TypeOK
  <2> QED BY <2>1, <2>2 DEF PendingOK
<1>3. AnswersOK'
  BY DEF AnswersOK, InPlace
<1> QED BY <1>1, <1>2, <1>3

\* Outside the dispatch the main thread's levels hold no batch at their top.
LEMMA TopIdle ==
  ASSUME TypeOK, LevelsOK, pc[depth] \notin InBatch
  PROVE  batch[depth] = <<>>
BY DEF TypeOK, LevelsOK, LevelOK

\* A GoTo of a level without a batch, by the main thread or by Wake
LEMMA MovePc ==
  ASSUME IInv, NEW p \in LevelPCs \ (InBatch \cup {"exited"}),
         pc[depth] \notin (InBatch \cup {"exited"}),
         pc' = [pc EXCEPT ![depth] = p], TypeOK',
         UNCHANGED <<tid, queue, depth, batch, callerVars, delegateVars>>
  PROVE  IInv'
<1>1. depth \in Levels /\ 1 \in Levels /\ batch[depth] = <<>>
  BY TopIdle DEF IInv, TypeOK
<1>2. /\ depth' = depth /\ batch' = batch /\ tid' = tid /\ queue' = queue
      /\ \A n \in Levels : pc'[n] = IF n = depth THEN p ELSE pc[n]
  BY DEF IInv, TypeOK
<1>3. p \notin InBatch /\ p # "exited"
  OBVIOUS
<1>4. LevelsOK'
  <2>1. ASSUME NEW n \in Levels PROVE LevelOK(n)'
    <3>1. LevelOK(n) BY DEF IInv, LevelsOK
    <3>2. CASE n = depth BY <1>1, <1>2, <1>3, <3>1, <3>2 DEF LevelOK, InBatch
    <3>3. CASE n # depth BY <1>1, <1>2, <3>1, <3>3 DEF LevelOK
    <3> QED BY <3>2, <3>3
  <2>2. DispatcherOK' = DispatcherOK
    BY <1>1, <1>2, <1>3 DEF DispatcherOK, InBatch
  <2> QED BY <2>1, <2>2 DEF IInv, LevelsOK
<1>5. \A n \in Levels : batch[n] # <<>> => pc'[n] = pc[n]
  BY <1>1, <1>2
<1> QED BY <1>4, <1>5, QuietStep

\* The steps of the polling and waiting loops that only move the top level.
LEMMA LoopStep ==
  ASSUME IInv, \/ PollRead \/ PollIdle \/ ScanBegin \/ ScanEnd
               \/ HandleEnd \/ WaitTimeout
  PROVE  IInv'
<1> USE DEF IInv, levelVars, consoleVars, At, GoTo, InBatch
<1>1. CASE PollRead
  <2>1. TypeOK' BY <1>1, TailFacts DEF PollRead, TypeOK, callerVars, delegateVars
  <2> QED BY <1>1, <2>1, MovePc DEF PollRead
<1>2. CASE PollIdle
  <2>1. TypeOK' BY <1>2 DEF PollIdle, TypeOK, callerVars, delegateVars
  <2> QED BY <1>2, <2>1, MovePc DEF PollIdle
<1>3. CASE ScanBegin
  <2>1. TypeOK' BY <1>3 DEF ScanBegin, TypeOK, callerVars, delegateVars
  <2> QED BY <1>3, <2>1, MovePc DEF ScanBegin
<1>4. CASE ScanEnd
  <2>1. TypeOK' BY <1>4 DEF ScanEnd, TypeOK, callerVars, delegateVars
  <2> QED BY <1>4, <2>1, MovePc DEF ScanEnd
<1>5. CASE HandleEnd
  <2>1. TypeOK' BY <1>5 DEF HandleEnd, TypeOK, callerVars, delegateVars
  <2> QED BY <1>5, <2>1, MovePc DEF HandleEnd
<1>6. CASE WaitTimeout
  <2>1. TypeOK' BY <1>6 DEF WaitTimeout, TypeOK, callerVars, delegateVars
  <2> QED BY <1>6, <2>1, MovePc DEF WaitTimeout
<1> QED BY <1>1, <1>2, <1>3, <1>4, <1>5, <1>6

\* The steps that read or write console input: PollRead, CheckForEsc, the user.
LEMMA InputStep ==
  ASSUME IInv, UserKey \/ ScanCheckForEsc
  PROVE  IInv'
<1> USE DEF IInv, levelVars, consoleVars, UserKey, ScanCheckForEsc
<1>1. TypeOK'
  <2>1. input \in Seq({"noop", "key"}) BY DEF TypeOK
  <2>2. CASE UserKey
    BY <2>1, <2>2 DEF TypeOK, callerVars, delegateVars
  <2>3. CASE ScanCheckForEsc
    <3>1. input' \in Seq({"noop", "key"}) BY <2>1, <2>3, TailFacts
    <3> QED BY <2>3, <3>1 DEF TypeOK, callerVars, delegateVars
  <2> QED BY <2>2, <2>3
<1>2. LevelsOK'
  BY DEF LevelsOK, LevelOK, DispatcherOK
<1> QED BY <1>1, <1>2, QuietStep

\* A modal or wait loop is opened on top of running code.
LEMMA OpenLoopStep ==
  ASSUME IInv, NEW k \in LoopKinds, OpenLoop(k)
  PROVE  IInv'
<1> USE DEF IInv, OpenLoop, RunsCode, At, consoleVars
<1>1. TypeOK'
  BY DEF TypeOK, callerVars, delegateVars
<1>0. /\ depth \in Levels /\ depth \in Nat /\ depth' = depth + 1 /\ batch' = batch
      /\ pc[depth] \in {"running", "handle"}
  BY DEF TypeOK
<1>2. depth + 1 \in Levels /\ batch[depth + 1] = <<>> /\ pc[depth + 1] = "dispatch"
  <2>1. depth + 1 \in Levels /\ depth + 1 > depth
    BY <1>0
  <2>2. LevelOK(depth + 1)
    BY <2>1 DEF LevelsOK
  <2> QED BY <2>1, <2>2 DEF LevelOK, InBatch
<1>3. pc' = pc
  BY <1>2 DEF TypeOK
<1>4. LevelsOK'
  <2>1. ASSUME NEW n \in Levels PROVE LevelOK(n)'
    <3>1. LevelOK(n) BY DEF LevelsOK
    <3>2. pc[depth] # "discard" /\ pc[depth] # "exited"
      BY <1>0
    <3>3. n = depth \/ n < depth \/ n = depth + 1 \/ n > depth + 1
      BY <1>0
    <3>4. LevelOK(depth + 1) /\ pc'[n] = pc[n] BY <1>2, <1>3 DEF LevelsOK
    <3>5. pc[n] \notin {"discard", "exited"}
      BY <1>0, <1>2, <3>1, <3>2, <3>3 DEF LevelOK
    <3> QED BY <1>0, <1>2, <3>1, <3>3, <3>4, <3>5 DEF LevelOK, InBatch
  <2>2. DispatcherOK'
    BY <1>3 DEF LevelsOK, DispatcherOK
  <2> QED BY <2>1, <2>2 DEF LevelsOK
<1> QED BY <1>1, <1>3, <1>4, QuietStep

\* The top loop ends outside any batch.
LEMMA CloseLoopStep ==
  ASSUME IInv, CloseLoop, pc[depth] \in {"handle", "lock"}
  PROVE  IInv'
<1> USE DEF IInv, CloseLoop, consoleVars
<1>1. TypeOK'
  BY DEF TypeOK, callerVars, delegateVars
<1>2. depth \in Levels /\ batch[depth] = <<>>
  BY TopIdle DEF TypeOK, InBatch
<1>5. /\ depth > 1 /\ depth' = depth - 1 /\ batch' = batch /\ tid' = tid /\ queue' = queue
      /\ \A n \in Levels : pc'[n] = IF n = depth THEN "dispatch" ELSE pc[n]
      /\ 1 \in Levels
  BY DEF TypeOK
<1>3. LevelsOK'
  <2>1. ASSUME NEW n \in Levels PROVE LevelOK(n)'
    <3>1. LevelOK(n) BY DEF LevelsOK
    <3> QED BY <1>2, <1>5, <3>1 DEF LevelOK, InBatch
  <2>2. DispatcherOK'
    BY <1>2, <1>5 DEF LevelsOK, DispatcherOK
  <2> QED BY <2>1, <2>2 DEF LevelsOK
<1>4. \A n \in Levels : batch[n] # <<>> => pc'[n] = pc[n]
  BY <1>2 DEF TypeOK
<1> QED BY <1>1, <1>3, <1>4, QuietStep

\* The test of the waiting macro: the loop ends or goes to sleep.
LEMMA WaitCheckStep ==
  ASSUME IInv, WaitCheck
  PROVE  IInv'
<1> USE DEF IInv, WaitCheck, At
<1>1. CASE cond[depth]
  BY <1>1, CloseLoopStep
<1>2. CASE ~cond[depth]
  <2>1. TypeOK' BY <1>2 DEF TypeOK, GoTo, consoleVars, levelVars, callerVars, delegateVars
  <2> QED BY <1>2, <2>1, MovePc DEF GoTo, levelVars, InBatch
<1> QED BY <1>1, <1>2

\* Wake moves a sleeping top level only.
LEMMA WakeFacts ==
  ASSUME TypeOK, LevelsOK, pc' = Wake(pc)
  PROVE  /\ pc' \in [Levels -> LevelPCs]
         /\ \A n \in Levels : pc'[n] # pc[n] =>
              n = depth /\ pc[n] = "asleep" /\ pc'[n] = "dispatch" /\ batch[n] = <<>>
BY DEF TypeOK, LevelsOK, LevelOK, Wake, InBatch

\* InterThreadLockAndWake: a condition becomes true and sleepers wake.
LEMMA SignalStep ==
  ASSUME IInv, NEW t \in Threads, Signal(t)
  PROVE  IInv'
<1> USE DEF IInv, Signal, consoleVars
<1>1. TypeOK'
  BY WakeFacts DEF TypeOK, callerVars, delegateVars
<1>2. LevelsOK'
  <2>0. depth' = depth /\ batch' = batch /\ tid' = tid /\ queue' = queue /\ 1 \in Levels
    OBVIOUS
  <2>1. ASSUME NEW n \in Levels PROVE LevelOK(n)'
    <3>1. LevelOK(n) BY DEF LevelsOK
    <3>2. pc'[n] = pc[n] \/ (pc[n] = "asleep" /\ pc'[n] = "dispatch" /\ n = depth)
      BY WakeFacts
    <3> QED BY <2>0, <3>1, <3>2 DEF LevelOK, InBatch
  <2>2. DispatcherOK'
    <3>1. pc'[1] = pc[1] \/ (pc[1] = "asleep" /\ pc'[1] = "dispatch")
      BY <2>0, WakeFacts
    <3> QED BY <2>0, <3>1 DEF LevelsOK, DispatcherOK
  <2> QED BY <2>1, <2>2 DEF LevelsOK
<1>3. \A n \in Levels : batch[n] # <<>> => pc'[n] = pc[n]
  BY WakeFacts
<1> QED BY <1>1, <1>2, <1>3, QuietStep

-----------------------------------------------------------------------------
(* Steps of a caller                                                       *)

\* A delegate that is not live is nowhere, nor is one being handed over.
LEMMA PlaceFacts ==
  ASSUME PendingOK, NEW d, InPlace(d)
  PROVE  Reachable(d)
BY DEF PendingOK, InPlace

\* Steps that move no delegate and no level: the objects they change are
\* those of other calls than the pending ones.
LEMMA CallerStep ==
  ASSUME IInv, TypeOK', CallersOK',
         UNCHANGED <<tid, queue, depth, batch, pc>>,
         \A d : InPlace(d) => Reachable(d)' /\ obj'[d] = obj[d],
         \A t \in Threads : tpc'[t] = "wait" => cur'[t] = cur[t] /\ tpc[t] = "wait" /\ obj'[cur[t]] = obj[cur[t]]
  PROVE  IInv'
<1> USE DEF IInv
<1>1. LevelsOK' /\ PlacesOK'
  BY DEF LevelsOK, LevelOK, DispatcherOK, PlacesOK
<1>2. PendingOK'
  <2>1. \A i \in 1..Len(queue) : InPlace(queue[i])
    BY DEF InPlace
  <2>2. \A n \in Levels : \A i \in 1..Len(batch[n]) : InPlace(batch[n][i])
    BY DEF InPlace
  <2>3. queue' = queue /\ batch' = batch /\ pc' = pc
    OBVIOUS
  <2> QED BY <2>1, <2>2, <2>3 DEF PendingOK
<1>3. AnswersOK'
  <2>1. \A d : InPlace(d)' <=> InPlace(d)
    BY DEF InPlace
  <2> QED BY <2>1 DEF AnswersOK
<1> QED BY <1>1, <1>2, <1>3

\* A worker constructs the delegate of its call.
LEMMA StartCallStep ==
  ASSUME IInv, NEW t \in Threads, NEW d \in Delegates, NEW isSync \in BOOLEAN,
         StartCall(t, d, isSync)
  PROVE  IInv'
<1> USE DEF IInv
<1>1. /\ d \notin live /\ live' = live \cup {d} /\ tpc[t] = "idle"
      /\ obj' = [obj EXCEPT ![d] = NewObject(isSync)]
      /\ tpc' = [tpc EXCEPT ![t] = "enqueue"] /\ cur' = [cur EXCEPT ![t] = d]
      /\ UNCHANGED <<tid, queue, depth, batch, pc>>
  BY DEF StartCall, Construct, levelVars
<1>2. TypeOK'
  BY <1>1 DEF TypeOK, StartCall, levelVars, consoleVars
<1>3. /\ obj'[d] = NewObject(isSync) /\ \A e \in Delegates : e # d => obj'[e] = obj[e]
      /\ tpc'[t] = "enqueue" /\ cur'[t] = d
      /\ \A u \in Threads : u # t => tpc'[u] = tpc[u] /\ cur'[u] = cur[u]
      /\ d # NoDelegate
  BY <1>1 DEF TypeOK
<1>4. \A u \in Threads : cur[u] # d /\ (cur[u] # NoDelegate => cur[u] \in Delegates)
  BY <1>1, <1>3 DEF TypeOK, CallersOK
<1>5. CallersOK'
  BY <1>1, <1>3, <1>4 DEF CallersOK
<1>6. \A e : InPlace(e) => Reachable(e)' /\ obj'[e] = obj[e]
  <2> SUFFICES ASSUME NEW e, InPlace(e) PROVE Reachable(e)' /\ obj'[e] = obj[e]
    OBVIOUS
  <2>1. Reachable(e) /\ e \in live /\ e # d /\ e \in Delegates
    BY <1>1, PlaceFacts DEF Reachable, TypeOK
  <2>2. \A u \in Threads : cur[u] = e => u # t
    BY <1>1, <2>1 DEF Reachable
  <2> QED BY <1>1, <1>3, <2>1, <2>2 DEF Reachable
<1>7. \A u \in Threads : tpc'[u] = "wait" =>
        cur'[u] = cur[u] /\ tpc[u] = "wait" /\ obj'[cur[u]] = obj[cur[u]]
  BY <1>1, <1>3, <1>4 DEF CallersOK
<1> QED BY <1>1, <1>2, <1>5, <1>6, <1>7, CallerStep

\* The two ways in which a caller's delegate is destroyed by the caller
LEMMA LeaveStep ==
  ASSUME IInv, NEW t \in Threads, tpc[t] # "idle", ~InPlace(cur[t]), TypeOK',
         Destroy(cur[t]), LeaveCall(t), UNCHANGED <<tid, queue, depth, batch, pc>>
  PROVE  IInv'
<1> USE DEF IInv
<1>1. /\ cur[t] \in live /\ live' = live \ {cur[t]} /\ cur[t] \in Delegates
      /\ \A e \in Delegates : e # cur[t] => obj'[e] = obj[e]
      /\ tpc'[t] = "idle" /\ cur'[t] = NoDelegate
      /\ \A u \in Threads : u # t => tpc'[u] = tpc[u] /\ cur'[u] = cur[u]
  BY DEF Destroy, LeaveCall, TypeOK, CallersOK
<1>2. \A u \in Threads : u # t => cur[u] # cur[t]
  BY <1>1 DEF CallersOK
<1>3. CallersOK'
  <2>1. \A u \in Threads : u # t /\ tpc[u] # "idle" =>
          cur[u] \in live' /\ obj'[cur[u]] = obj[cur[u]]
    BY <1>1, <1>2 DEF CallersOK, TypeOK
  <2>2. \A u, v \in Threads : cur'[u] = cur'[v] /\ cur'[u] # NoDelegate => u = v
    BY <1>1 DEF CallersOK
  <2>3. \A u \in Threads : tpc'[u] = "idle" <=> cur'[u] = NoDelegate
    BY <1>1 DEF CallersOK
  <2> QED BY <1>1, <2>1, <2>2, <2>3 DEF CallersOK
<1>4. \A e : InPlace(e) => Reachable(e)' /\ obj'[e] = obj[e]
  <2> SUFFICES ASSUME NEW e, InPlace(e) PROVE Reachable(e)' /\ obj'[e] = obj[e]
    OBVIOUS
  <2>1. Reachable(e) /\ e \in live /\ e # cur[t] /\ e \in Delegates
    BY <1>1, PlaceFacts DEF Reachable, TypeOK
  <2> QED BY <1>1, <2>1 DEF Reachable
<1>5. \A u \in Threads : tpc'[u] = "wait" =>
        cur'[u] = cur[u] /\ tpc[u] = "wait" /\ obj'[cur[u]] = obj[cur[u]]
  BY <1>1, <1>2 DEF CallersOK, TypeOK
<1> QED BY <1>3, <1>4, <1>5, CallerStep

\* A caller finds that there is no dispatcher any more.
LEMMA RejectStep ==
  ASSUME IInv, NEW t \in Threads, Reject(t)
  PROVE  IInv'
<1> USE DEF IInv, Reject, levelVars
<1>1. TypeOK'
  BY DEF TypeOK, Destroy, LeaveCall, consoleVars
<1>2. ~InPlace(cur[t])
  BY PlaceFacts DEF Reachable
<1> QED BY <1>1, <1>2, LeaveStep

\* A synchronous caller is answered and its delegate leaves with its stack.
LEMMA ReturnStep ==
  ASSUME IInv, NEW t \in Threads, Return(t)
  PROVE  IInv'
<1> USE DEF IInv, Return, CanReturn, levelVars
<1>1. TypeOK'
  BY DEF TypeOK, Destroy, LeaveCall, consoleVars
<1>2. ~InPlace(cur[t])
  BY PlaceFacts DEF Reachable
<1> QED BY <1>1, <1>2, LeaveStep

\* Enqueueing d, a live delegate that is nowhere yet, by its caller (who then
\* waits if it is synchronous) or by the main thread.
LEMMA EnqueueStep ==
  ASSUME IInv, NEW d \in Delegates, ~InPlace(d), Enqueue(d), depth' = depth, batch' = batch,
         TypeOK', CallersOK',
         Reachable(d)', obj'[d].outcome = "unrun",
         \A e : InPlace(e) => Reachable(e)' /\ obj'[e] = obj[e],
         \A t \in Threads : tpc'[t] = "wait" =>
           cur'[t] = d \/ (cur'[t] = cur[t] /\ tpc[t] = "wait" /\ obj'[cur[t]] = obj[cur[t]])
  PROVE  IInv'
<1> USE DEF IInv
<1>1. /\ tid # NoThread /\ tid' = tid /\ queue' = Append(queue, d)
      /\ pc' = Wake(pc)
  BY DEF Enqueue
<1>2. PlacesOK' /\ InPlace(d)' /\ \A e : InPlace(e) => InPlace(e)'
  BY <1>1, EnqueuePlaces
<1>3. \A n \in Levels : pc'[n] = pc[n] \/
        (n = depth /\ pc[n] = "asleep" /\ pc'[n] = "dispatch" /\ batch[n] = <<>>)
  BY <1>1, WakeFacts
<1>4. LevelsOK'
  <2>1. ASSUME NEW n \in Levels PROVE LevelOK(n)'
    <3>1. LevelOK(n) BY DEF LevelsOK
    <3> QED BY <1>3, <3>1 DEF LevelOK, InBatch
  <2>2. DispatcherOK'
    <3>1. 1 \in Levels
      OBVIOUS
    <3>2. pc'[1] = pc[1] \/ (pc[1] = "asleep" /\ pc'[1] = "dispatch")
      BY <1>3, <3>1
    <3> QED BY <1>1, <3>2 DEF LevelsOK, DispatcherOK
  <2> QED BY <2>1, <2>2 DEF LevelsOK
<1>5. PendingOK'
  <2>1. ASSUME NEW i \in 1..Len(queue'), NEW c, c = queue'[i]
        PROVE  Reachable(c)' /\ obj'[c].outcome = "unrun"
    <3>1. queue \in Seq(Delegates)
      BY DEF TypeOK
    <3>2. CASE i \in 1..Len(queue)
      <4>1. c = queue[i] /\ InPlace(c)
        BY <1>1, <2>1, <3>1, <3>2 DEF InPlace
      <4> QED BY <3>2, <4>1 DEF PendingOK
    <3>3. CASE i \notin 1..Len(queue)
      <4>1. c = d
        BY <1>1, <2>1, <3>1, <3>3
      <4> QED BY <4>1
    <3> QED BY <3>2, <3>3
  <2>2. ASSUME NEW n \in Levels, NEW i \in 1..Len(batch[n]), NEW c, c = batch[n][i]
        PROVE  Reachable(c)' /\ obj'[c] = obj[c] /\ pc'[n] = pc[n]
    <3>1. InPlace(c)
      BY <2>2 DEF InPlace
    <3>2. 1..Len(<<>>) = {}
      OBVIOUS
    <3> QED BY <1>3, <3>1, <3>2
  <2>3. \A i \in 1..Len(queue') : (Reachable(queue[i]) /\ obj[queue[i]].outcome = "unrun")'
    BY <2>1 DEF Reachable
  <2>4. \A n \in Levels : \A i \in 1..Len(batch[n]) :
          Reachable(batch[n][i])' /\ obj'[batch[n][i]] = obj[batch[n][i]] /\ pc'[n] = pc[n]
    BY <2>2 DEF Reachable
  <2> QED BY <2>3, <2>4 DEF PendingOK
<1>6. AnswersOK'
  <2>1. ASSUME NEW t \in Threads, tpc'[t] = "wait", NEW c, c = cur'[t]
        PROVE  IF obj'[c].done
                 THEN obj'[c].discarded <=> obj'[c].outcome # "returned"
                 ELSE InPlace(c)'
    <3>1. CASE c = d
      <4>1. ~obj'[d].done
        BY DEF Reachable
      <4> QED BY <1>2, <3>1, <4>1
    <3>2. CASE c = cur[t] /\ tpc[t] = "wait" /\ obj'[c] = obj[c]
      <4>1. obj[c].done => (obj[c].discarded <=> obj[c].outcome # "returned")
        BY <3>2 DEF AnswersOK
      <4>2. ~obj[c].done => InPlace(c)
        BY <3>2 DEF AnswersOK
      <4> QED BY <1>2, <3>2, <4>1, <4>2
    <3> QED BY <2>1, <3>1, <3>2
  <2> QED BY <2>1 DEF AnswersOK, InPlace
<1> QED BY <1>2, <1>4, <1>5, <1>6

\* A worker enqueues its delegate, and waits if the call is synchronous.
LEMMA PostStep ==
  ASSUME IInv, NEW t \in Threads, Post(t)
  PROVE  IInv'
<1> USE DEF IInv
<1>1. /\ tpc[t] = "enqueue" /\ Enqueue(cur[t]) /\ depth' = depth /\ batch' = batch
      /\ live' = live /\ obj' = obj /\ pc' = Wake(pc)
      /\ kind' = kind /\ cond' = cond
  BY DEF Post, Enqueue, levelVars, delegateVars
<1>2. /\ cur[t] \in live /\ cur[t] \in Delegates /\ cur[t] # NoDelegate
      /\ obj[cur[t]].outcome = "unrun" /\ ~obj[cur[t]].done
      /\ \A u \in Threads : u # t => cur[u] # cur[t]
  BY <1>1 DEF CallersOK, TypeOK
<1>3. ~InPlace(cur[t])
  BY <1>1, PlaceFacts DEF Reachable
<1>4. TypeOK'
  <2>1. queue' \in Seq(Delegates) /\ tid' = tid /\ input' \in Seq({"noop", "key"})
    <3>1. queue \in Seq(Delegates) /\ input \in Seq({"noop", "key"})
      BY DEF TypeOK
    <3> QED BY <1>1, <1>2, <3>1 DEF Enqueue, WriteNoop
  <2>2. tpc' \in [Threads -> {"idle", "enqueue", "wait"}] /\ cur' \in [Threads -> Delegates \cup {NoDelegate}]
    <3>1. tpc \in [Threads -> {"idle", "enqueue", "wait"}] /\ cur \in [Threads -> Delegates \cup {NoDelegate}]
      BY DEF TypeOK
    <3> QED BY <3>1 DEF Post, LeaveCall
  <2> QED BY <1>1, <2>1, <2>2, WakeFacts DEF TypeOK
<1>5. /\ \A u \in Threads : u # t => tpc'[u] = tpc[u] /\ cur'[u] = cur[u]
      /\ obj[cur[t]].sync => tpc'[t] = "wait" /\ cur'[t] = cur[t]
      /\ ~obj[cur[t]].sync => tpc'[t] = "idle" /\ cur'[t] = NoDelegate
  BY DEF Post, LeaveCall, TypeOK
<1>6. CallersOK'
  <2>1. \A u \in Threads : tpc'[u] = "idle" <=> cur'[u] = NoDelegate
    BY <1>2, <1>5 DEF CallersOK
  <2>2. \A u \in Threads : tpc'[u] # "idle" => cur'[u] = cur[u] /\ cur[u] \in live
    BY <1>1, <1>5 DEF CallersOK
  <2>3. \A u, v \in Threads : cur'[u] = cur'[v] /\ cur'[u] # NoDelegate => u = v
    BY <1>5 DEF CallersOK
  <2>4. \A u \in Threads : tpc'[u] = "wait" => obj[cur[u]].sync
    BY <1>5 DEF CallersOK
  <2>5. \A u \in Threads : tpc'[u] = "enqueue" => tpc[u] = "enqueue"
    BY <1>5
  <2> QED BY <1>1, <2>1, <2>2, <2>3, <2>4, <2>5 DEF CallersOK
<1>7. ASSUME NEW e, InPlace(e) PROVE Reachable(e)' /\ obj'[e] = obj[e]
  <2>1. Reachable(e) /\ e # cur[t] /\ e \in Delegates
    BY <1>3, <1>7, PlaceFacts DEF Reachable, TypeOK
  <2>2. \A u \in Threads : cur[u] = e => u # t
    BY <2>1
  <2>3. \A u \in Threads : cur'[u] = e => tpc'[u] = "wait"
    BY <1>5, <2>1 DEF Reachable
  <2>4. obj[e].sync => \E u \in Threads : cur'[u] = e
    BY <1>5, <2>1, <2>2 DEF Reachable
  <2> QED BY <1>1, <2>1, <2>3, <2>4 DEF Reachable
<1>8. ASSUME NEW d, d = cur[t] PROVE Reachable(d)'
  <2>1. \A u \in Threads : cur'[u] = d => tpc'[u] = "wait"
    BY <1>2, <1>5, <1>8
  <2>2. obj[d].sync => \E u \in Threads : cur'[u] = d
    BY <1>5, <1>8
  <2> QED BY <1>1, <1>2, <1>8, <2>1, <2>2 DEF Reachable
<1>9. \A u \in Threads : tpc'[u] = "wait" =>
        \/ cur'[u] = cur[t]
        \/ cur'[u] = cur[u] /\ tpc[u] = "wait" /\ obj'[cur[u]] = obj[cur[u]]
  BY <1>1, <1>5
<1>10. PICK d \in Delegates : d = cur[t]
  BY <1>2
<1> QED BY <1>1, <1>2, <1>3, <1>4, <1>6, <1>7, <1>8, <1>9, <1>10, EnqueueStep

\* The main thread posts an asynchronous call to itself.
LEMMA MainPostStep ==
  ASSUME IInv, NEW d \in Delegates, MainPost(d)
  PROVE  IInv'
<1> USE DEF IInv
<1>1. /\ Enqueue(d) /\ depth' = depth /\ batch' = batch /\ kind' = kind /\ cond' = cond
      /\ pc' = Wake(pc) /\ tpc' = tpc /\ cur' = cur
      /\ d \notin live /\ live' = live \cup {d} /\ obj' = [obj EXCEPT ![d] = NewObject(FALSE)]
  BY DEF MainPost, Construct, Enqueue, levelVars, callerVars
<1>2. obj'[d] = NewObject(FALSE) /\ \A e \in Delegates : e # d => obj'[e] = obj[e]
  BY <1>1 DEF TypeOK
<1>3. ~InPlace(d) /\ \A u \in Threads : cur[u] # d
  <2>1. ~InPlace(d)
    BY <1>1, PlaceFacts DEF Reachable
  <2>2. \A u \in Threads : cur[u] # d
    BY <1>1 DEF CallersOK
  <2> QED BY <2>1, <2>2
<1>4. TypeOK'
  <2>1. queue' \in Seq(Delegates) /\ tid' = tid /\ input' \in Seq({"noop", "key"})
    <3>1. queue \in Seq(Delegates) /\ input \in Seq({"noop", "key"})
      BY DEF TypeOK
    <3> QED BY <1>1, <3>1 DEF Enqueue, WriteNoop
  <2> QED BY <1>1, <2>1, WakeFacts DEF TypeOK
<1>5. \A u \in Threads : tpc[u] # "idle" => obj'[cur[u]] = obj[cur[u]]
  BY <1>1, <1>2 DEF CallersOK, TypeOK
<1>6. CallersOK'
  BY <1>1, <1>5 DEF CallersOK
<1>7. ASSUME NEW e, InPlace(e) PROVE Reachable(e)' /\ obj'[e] = obj[e]
  <2>1. Reachable(e) /\ e # d /\ e \in Delegates
    BY <1>3, <1>7, PlaceFacts DEF Reachable, TypeOK
  <2> QED BY <1>1, <1>2, <2>1 DEF Reachable
<1>8. Reachable(d)' /\ obj'[d].outcome = "unrun"
  BY <1>1, <1>2, <1>3 DEF Reachable
<1>9. \A u \in Threads : tpc'[u] = "wait" =>
        cur'[u] = cur[u] /\ tpc[u] = "wait" /\ obj'[cur[u]] = obj[cur[u]]
  BY <1>1, <1>5
<1> QED BY <1>1, <1>3, <1>4, <1>6, <1>7, <1>8, <1>9, EnqueueStep

-----------------------------------------------------------------------------
(* Steps of a dispatch                                                     *)

\* The top level takes the queue and goes on to p, or to q when it was empty:
\* a round of DispatchInterThreadCalls, and the destruction of the dispatcher.
LEMMA TakeStep ==
  ASSUME IInv, TypeOK', LevelsOK', batch[depth] = <<>>,
         queue' = <<>>, batch' = [batch EXCEPT ![depth] = queue],
         pc'[depth] \in {"process", "discard"} \/ queue = <<>>,
         \A n \in Levels : n # depth => pc'[n] = pc[n],
         UNCHANGED <<depth, tpc, cur, live, obj>>
  PROVE  IInv'
<1> USE DEF IInv
<1>1. depth \in Levels /\ queue \in Seq(Delegates)
  BY DEF TypeOK
<1>2. PlacesOK' /\ \A e : InPlace(e) => InPlace(e)'
  BY <1>1, TakePlaces
<1>3. CallersOK'
  BY DEF CallersOK
<1>4. AnswersOK'
  BY <1>2 DEF AnswersOK
<1>5. PendingOK'
  <2>1. \A d : Reachable(d) => Reachable(d)'
    BY DEF Reachable
  <2>2. batch'[depth] = queue /\ \A n \in Levels : n # depth => batch'[n] = batch[n]
    BY DEF TypeOK
  <2>3. Len(queue') = 0
    OBVIOUS
  <2>4. \A i \in 1..Len(queue) : Reachable(queue[i]) /\ obj[queue[i]].outcome = "unrun"
    BY DEF PendingOK
  <2>5. 1..Len(<<>>) = {}
    OBVIOUS
  <2>6. ASSUME NEW n \in Levels, NEW i \in 1..Len(batch'[n]), NEW c, c = batch'[n][i]
        PROVE  /\ Reachable(c)
               /\ i > 1 \/ pc'[n] \in {"process", "discard"} => obj[c].outcome = "unrun"
               /\ i = 1 /\ pc'[n] = "running" => obj[c].outcome = "running"
               /\ i = 1 /\ pc'[n] = "finalize" => obj[c].outcome \in {"returned", "threw"}
    <3>1. CASE n = depth
      BY <2>2, <2>4, <2>5, <2>6, <3>1
    <3>2. CASE n # depth
      BY <2>2, <2>6, <3>2 DEF PendingOK
    <3> QED BY <3>1, <3>2
  <2>7. \A n \in Levels : \A i \in 1..Len(batch'[n]) :
          /\ Reachable(batch[n][i])'
          /\ i > 1 \/ pc'[n] \in {"process", "discard"} => obj'[batch'[n][i]].outcome = "unrun"
          /\ i = 1 /\ pc'[n] = "running" => obj'[batch'[n][i]].outcome = "running"
          /\ i = 1 /\ pc'[n] = "finalize" => obj'[batch'[n][i]].outcome \in {"returned", "threw"}
    BY <2>6 DEF Reachable
  <2>8. 1..Len(queue') = {}
    BY <2>3
  <2> QED BY <2>7, <2>8 DEF PendingOK
<1> QED BY <1>2, <1>3, <1>4, <1>5

\* A round of DispatchInterThreadCalls takes the queue or finds it empty.
LEMMA DispatchTakeStep ==
  ASSUME IInv, DispatchTake
  PROVE  IInv'
<1> USE DEF IInv, DispatchTake, At, GoTo
<1>1. depth \in Levels /\ 1 \in Levels /\ batch[depth] = <<>>
  BY TopIdle DEF TypeOK, InBatch
<1>2. CASE queue = <<>>
  <2>1. AfterDispatch(kind[depth]) \in {"lock", "poll"}
    BY DEF AfterDispatch
  <2>2. TypeOK'
    <3>1. pc' \in [Levels -> LevelPCs]
      BY <1>2, <2>1 DEF TypeOK
    <3>2. UNCHANGED <<tid, queue, input, depth, kind, batch, cond, tpc, cur, live, obj>>
      BY <1>2 DEF consoleVars, callerVars, delegateVars
    <3> QED BY <3>1, <3>2 DEF TypeOK
  <2>3. PICK p : p = AfterDispatch(kind[depth])
    OBVIOUS
  <2>4. p \in LevelPCs \ (InBatch \cup {"exited"}) /\ pc[depth] \notin (InBatch \cup {"exited"})
    BY <2>1, <2>3 DEF InBatch
  <2> QED BY <1>2, <2>2, <2>3, <2>4, MovePc
<1>3. CASE queue # <<>>
  <2>1. /\ queue' = <<>> /\ batch' = [batch EXCEPT ![depth] = queue] /\ tid' = tid
        /\ pc' = [pc EXCEPT ![depth] = "process"]
        /\ UNCHANGED <<depth, tpc, cur, live, obj>>
    BY <1>3 DEF callerVars, delegateVars
  <2>2. TypeOK'
    <3>1. queue' \in Seq(Delegates) /\ batch' \in [Levels -> Seq(Delegates)]
      BY <2>1 DEF TypeOK
    <3>2. pc' \in [Levels -> LevelPCs]
      BY <2>1 DEF TypeOK
    <3> QED BY <2>1, <3>1, <3>2 DEF TypeOK, consoleVars
  <2>3. /\ pc'[depth] = "process" /\ batch'[depth] = queue
        /\ \A n \in Levels : n # depth => pc'[n] = pc[n] /\ batch'[n] = batch[n]
    BY <1>1, <2>1 DEF TypeOK
  <2>4. LevelsOK'
    <3>1. ASSUME NEW n \in Levels PROVE LevelOK(n)'
      <4>1. LevelOK(n) BY DEF LevelsOK
      <4> QED BY <1>3, <2>1, <2>3, <4>1 DEF LevelOK, InBatch
    <3>2. DispatcherOK'
      BY <1>1, <1>3, <2>1, <2>3 DEF LevelsOK, DispatcherOK
    <3> QED BY <3>1, <3>2 DEF LevelsOK
  <2> QED BY <1>1, <2>1, <2>2, <2>3, <2>4, TakeStep
<1> QED BY <1>2, <1>3

\* The dispatcher is destroyed: its queue becomes the batch to discard.
LEMMA ShutdownStep ==
  ASSUME IInv, Shutdown
  PROVE  IInv'
<1> USE DEF IInv, Shutdown, At, GoTo
<1>1. depth = 1 /\ 1 \in Levels /\ batch[1] = <<>> /\ depth' = 1
  BY TopIdle DEF TypeOK, InBatch
<1>2. PICK p \in {"exited", "discard"} : p = IF queue = <<>> THEN "exited" ELSE "discard"
  OBVIOUS
<1>3. /\ queue' = <<>> /\ batch' = [batch EXCEPT ![depth] = queue] /\ tid' = NoThread
      /\ pc' = [pc EXCEPT ![depth] = p]
      /\ UNCHANGED <<depth, tpc, cur, live, obj, kind, cond, input>>
  BY <1>1, <1>2 DEF callerVars, delegateVars, consoleVars
<1>4. TypeOK'
  <2>1. queue' \in Seq(Delegates) /\ batch' \in [Levels -> Seq(Delegates)]
    BY <1>3 DEF TypeOK
  <2>2. pc' \in [Levels -> LevelPCs]
    BY <1>3 DEF TypeOK
  <2> QED BY <1>3, <2>1, <2>2 DEF TypeOK
<1>5. /\ pc'[1] = p /\ batch'[1] = queue
      /\ \A n \in Levels : n # 1 => pc'[n] = pc[n] /\ batch'[n] = batch[n]
  BY <1>1, <1>3 DEF TypeOK
<1>6. LevelsOK'
  <2>1. ASSUME NEW n \in Levels PROVE LevelOK(n)'
    <3>1. LevelOK(n) BY DEF LevelsOK
    <3> QED BY <1>1, <1>2, <1>5, <3>1 DEF LevelOK, InBatch
  <2>2. DispatcherOK'
    BY <1>2, <1>3, <1>5 DEF DispatcherOK
  <2> QED BY <2>1, <2>2 DEF LevelsOK
<1>7. pc'[depth] \in {"process", "discard"} \/ queue = <<>>
  BY <1>1, <1>2, <1>5
<1> QED BY <1>1, <1>3, <1>4, <1>5, <1>6, <1>7, TakeStep

\* The outcome of the function the top level is at changes with its pc.
LEMMA OutcomeStep ==
  ASSUME IInv, NEW p, NEW o,
         \/ p = "running" /\ o = "running"
         \/ p = "finalize" /\ o \in {"returned", "threw"},
         pc[depth] \in {"process", "running"},
         obj' = [obj EXCEPT ![Current].outcome = o],
         pc' = [pc EXCEPT ![depth] = p],
         UNCHANGED <<tid, queue, consoleVars, levelVars, callerVars, live>>
  PROVE  IInv'
<1> USE DEF IInv, consoleVars, levelVars, callerVars
<1>1. /\ depth \in Levels /\ 1 \in Levels /\ batch[depth] # <<>> /\ depth' = depth
      /\ batch' = batch /\ queue' = queue /\ tid' = tid
  BY DEF TypeOK, LevelsOK, LevelOK, InBatch
<1>2. PICK c : c = Current
  OBVIOUS
<1>3. c = batch[depth][1] /\ 1 \in 1..Len(batch[depth]) /\ c \in Delegates
  BY <1>1, <1>2, TailFacts DEF Current, TypeOK
<1>4. Reachable(c)
  BY <1>1, <1>3 DEF PendingOK
<1>5. /\ \A d \in Delegates : obj'[d].sync = obj[d].sync /\ obj'[d].done = obj[d].done
           /\ obj'[d].discarded = obj[d].discarded
      /\ \A d \in Delegates : d # c => obj'[d] = obj[d]
      /\ obj'[c].outcome = o
  BY <1>2, <1>3 DEF TypeOK
<1>6. TypeOK'
  <2>1. pc' \in [Levels -> LevelPCs]
    BY DEF TypeOK
  <2>2. obj' \in [Delegates -> Object]
    <3>1. obj[c] \in Object /\ obj \in [Delegates -> Object] /\ o \in {"running", "returned", "threw"}
      BY <1>3 DEF TypeOK
    <3>2. [obj[c] EXCEPT !.outcome = o] \in Object
      BY <3>1 DEF Object
    <3> QED BY <1>2, <1>3, <3>1, <3>2
  <2> QED BY <2>1, <2>2 DEF TypeOK
<1>7. pc'[depth] = p /\ \A n \in Levels : n # depth => pc'[n] = pc[n]
  BY <1>1 DEF TypeOK
<1>8. LevelsOK'
  <2>1. ASSUME NEW n \in Levels PROVE LevelOK(n)'
    <3>1. LevelOK(n) BY DEF LevelsOK
    <3> QED BY <1>1, <1>7, <3>1 DEF LevelOK, InBatch
  <2>2. DispatcherOK'
    BY <1>1, <1>7 DEF LevelsOK, DispatcherOK
  <2> QED BY <2>1, <2>2 DEF LevelsOK
<1>9. PlacesOK'
  BY DEF PlacesOK
<1>10. CallersOK'
  <2>1. \A t \in Threads : cur[t] = c => tpc[t] = "wait"
    BY <1>4 DEF Reachable
  <2>2. \A t \in Threads : tpc[t] = "enqueue" => obj'[cur[t]] = obj[cur[t]]
    BY <1>5, <2>1 DEF CallersOK, TypeOK
  <2>3. \A t \in Threads : tpc[t] = "wait" => obj'[cur[t]].sync
    BY <1>5 DEF CallersOK, TypeOK
  <2>4. \A t \in Threads : tpc[t] = "enqueue" =>
          obj'[cur[t]].outcome = "unrun" /\ ~obj'[cur[t]].done
    BY <2>2 DEF CallersOK
  <2>5. UNCHANGED <<tpc, cur, live>>
    OBVIOUS
  <2> QED BY <2>3, <2>4, <2>5 DEF CallersOK
<1>11. PendingOK'
  <2>1. \A d : Reachable(d) => Reachable(d)'
    BY <1>5 DEF Reachable, TypeOK
  <2>2. \A i \in 1..Len(queue) : queue[i] # c /\ queue[i] \in Delegates
    <3>1. \A i \in 1..Len(queue) : queue[i] # c
      BY <1>1, <1>3 DEF PlacesOK
    <3>2. \A i \in 1..Len(queue) : queue[i] \in Delegates
      BY DEF TypeOK
    <3> QED BY <3>1, <3>2
  <2>3. \A i \in 1..Len(queue) : Reachable(queue[i])' /\ obj'[queue[i]].outcome = "unrun"
    <3>1. ASSUME NEW i \in 1..Len(queue), NEW d, d = queue[i]
          PROVE  Reachable(d)' /\ obj'[d].outcome = "unrun"
      <4>1. Reachable(d) /\ obj[d].outcome = "unrun"
        BY <3>1 DEF PendingOK
      <4> QED BY <1>5, <2>1, <2>2, <3>1, <4>1
    <3> QED BY <3>1 DEF Reachable
  <2>4. \A n \in Levels : \A i \in 1..Len(batch[n]) :
          (n # depth \/ i # 1) => batch[n][i] # c /\ batch[n][i] \in Delegates
    <3>1. \A n \in Levels : \A i \in 1..Len(batch[n]) : n # depth => batch[n][i] # c
      <4>1. \A m, n \in Levels : m # n =>
              \A i \in 1..Len(batch[m]), j \in 1..Len(batch[n]) : batch[m][i] # batch[n][j]
        BY DEF PlacesOK
      <4> QED BY <1>1, <1>3, <4>1
    <3>2. \A i \in 1..Len(batch[depth]) : i # 1 => batch[depth][i] # c
      BY <1>1, <1>3 DEF PlacesOK
    <3>3. \A n \in Levels : \A i \in 1..Len(batch[n]) : batch[n][i] \in Delegates
      BY DEF TypeOK
    <3> QED BY <3>1, <3>2, <3>3
  <2>5. ASSUME NEW n \in Levels, NEW i \in 1..Len(batch[n]), NEW d, d = batch[n][i]
        PROVE  /\ Reachable(d)'
               /\ i > 1 \/ pc'[n] \in {"process", "discard"} => obj'[d].outcome = "unrun"
               /\ i = 1 /\ pc'[n] = "running" => obj'[d].outcome = "running"
               /\ i = 1 /\ pc'[n] = "finalize" => obj'[d].outcome \in {"returned", "threw"}
    <3>1. Reachable(d)'
      BY <2>1, <2>5 DEF PendingOK
    <3>2. CASE n = depth /\ i = 1
      BY <1>3, <1>5, <1>7, <2>5, <3>1, <3>2
    <3>3. CASE n = depth /\ i # 1
      <4>1. obj'[d] = obj[d] /\ obj[d].outcome = "unrun"
        BY <1>5, <2>4, <2>5, <3>3 DEF PendingOK
      <4> QED BY <3>1, <3>3, <4>1
    <3>4. CASE n # depth
      <4>1. obj'[d] = obj[d] /\ pc'[n] = pc[n]
        BY <1>5, <1>7, <2>4, <2>5, <3>4
      <4>2. /\ i > 1 \/ pc[n] \in {"process", "discard"} => obj[d].outcome = "unrun"
            /\ i = 1 /\ pc[n] = "running" => obj[d].outcome = "running"
            /\ i = 1 /\ pc[n] = "finalize" => obj[d].outcome \in {"returned", "threw"}
        BY <2>5 DEF PendingOK
      <4> QED BY <3>1, <4>1, <4>2
    <3> QED BY <3>2, <3>3, <3>4
  <2>6. \A n \in Levels : \A i \in 1..Len(batch[n]) :
          /\ Reachable(batch[n][i])'
          /\ i > 1 \/ pc'[n] \in {"process", "discard"} => obj'[batch[n][i]].outcome = "unrun"
          /\ i = 1 /\ pc'[n] = "running" => obj'[batch[n][i]].outcome = "running"
          /\ i = 1 /\ pc'[n] = "finalize" => obj'[batch[n][i]].outcome \in {"returned", "threw"}
    BY <1>1, <2>5 DEF Reachable
  <2>7. \A i \in 1..Len(queue) : Reachable(queue[i])'
    BY <2>3
  <2> QED BY <1>1, <2>3, <2>6 DEF PendingOK, Reachable
<1>12. AnswersOK'
  <2>1. \A d : InPlace(d)' <=> InPlace(d)
    BY <1>1 DEF InPlace
  <2>2. \A t \in Threads : tpc[t] = "wait" /\ obj[cur[t]].done => cur[t] # c /\ cur[t] \in Delegates
    BY <1>4 DEF Reachable, CallersOK, TypeOK
  <2>3. \A t \in Threads : tpc[t] = "wait" => cur[t] \in Delegates
    BY DEF CallersOK, TypeOK
  <2>4. ASSUME NEW t \in Threads, tpc[t] = "wait", NEW d, d = cur[t]
        PROVE  IF obj'[d].done
                 THEN obj'[d].discarded <=> obj'[d].outcome # "returned"
                 ELSE InPlace(d)'
    <3>1. CASE obj[d].done
      <4>1. obj'[d] = obj[d]
        BY <1>5, <2>2, <2>4, <3>1
      <4> QED BY <2>4, <3>1, <4>1 DEF AnswersOK
    <3>2. CASE ~obj[d].done
      <4>1. ~obj'[d].done
        BY <1>5, <2>3, <2>4, <3>2
      <4>2. InPlace(d)'
        BY <2>1, <2>4, <3>2 DEF AnswersOK
      <4> QED BY <4>1, <4>2
    <3> QED BY <3>1, <3>2
  <2> QED BY <2>4 DEF AnswersOK, InPlace
<1> QED BY <1>6, <1>8, <1>9, <1>10, <1>11, <1>12

\* The function of a delegate starts or ends.
LEMMA ProcessStep ==
  ASSUME IInv, ProcessBegin \/ \E how \in {"returned", "threw"} : ProcessEnd(how)
  PROVE  IInv'
<1>1. CASE ProcessBegin
  BY <1>1, OutcomeStep DEF ProcessBegin, At, GoTo
<1>2. ASSUME NEW how \in {"returned", "threw"}, ProcessEnd(how) PROVE IInv'
  BY <1>2, OutcomeStep DEF ProcessEnd, At, GoTo
<1> QED BY <1>1, <1>2

\* The delegate at the top level's hand is finalized and the level goes on to
\* p: an iteration of DispatchInterThreadCalls or of the dispatcher's end.
LEMMA FinalizeDelegateStep ==
  ASSUME IInv, LevelsOK', TypeOK', NEW c, c = Current, batch[depth] # <<>>,
         NEW isDiscarded \in BOOLEAN, isDiscarded <=> obj[c].outcome # "returned",
         FinalizeDelegate(c, isDiscarded),
         batch' = [batch EXCEPT ![depth] = Tail(@)],
         pc'[depth] \in {"process", "discard"} \/ Tail(batch[depth]) = <<>>,
         \A n \in Levels : n # depth => pc'[n] = pc[n],
         UNCHANGED <<queue, depth, tpc, cur>>
  PROVE  IInv'
<1> USE DEF IInv
<1>1. depth \in Levels /\ c = Head(batch[depth]) /\ c = batch[depth][1] /\ 1 \in 1..Len(batch[depth])
  BY TailFacts DEF TypeOK, Current
<1>2. Reachable(c) /\ InPlace(c) /\ c \in Delegates
  BY <1>1 DEF PendingOK, InPlace, Reachable, TypeOK
<1>3. PlacesOK' /\ ~InPlace(c)' /\ \A e : InPlace(e) /\ e # c => InPlace(e)'
  BY <1>1, TailPlaces
<1>4. /\ \A d \in Delegates : d # c => obj'[d] = obj[d] /\ (d \in live' <=> d \in live)
      /\ obj[c].sync => /\ live' = live
                        /\ obj'[c].done /\ (obj'[c].discarded <=> isDiscarded)
                        /\ obj'[c].outcome = obj[c].outcome /\ obj'[c].sync
  BY <1>2 DEF FinalizeDelegate, Destroy, TypeOK
<1>5. /\ \A t \in Threads : cur[t] = c => tpc[t] = "wait" /\ obj[c].sync
      /\ \A t \in Threads : tpc[t] # "idle" => cur[t] \in Delegates
  BY <1>2 DEF Reachable, CallersOK, TypeOK
<1>6. CallersOK'
  <2>1. \A t \in Threads : tpc[t] # "idle" => cur[t] \in live'
    BY <1>4, <1>5 DEF CallersOK
  <2>2. \A t \in Threads : tpc[t] = "wait" => obj'[cur[t]].sync
    BY <1>4, <1>5 DEF CallersOK
  <2>3. \A t \in Threads : tpc[t] = "enqueue" => obj'[cur[t]] = obj[cur[t]]
    BY <1>4, <1>5 DEF CallersOK
  <2> QED BY <2>1, <2>2, <2>3 DEF CallersOK
<1>7. PendingOK'
  <2>1. \A d : Reachable(d) /\ d # c => Reachable(d)' /\ obj'[d] = obj[d]
    BY <1>4 DEF Reachable, TypeOK
  <2>2. \A i \in 1..Len(queue) : Reachable(queue[i]) /\ queue[i] # c /\ obj[queue[i]].outcome = "unrun"
    BY <1>1 DEF PlacesOK, PendingOK
  <2>3. \A i \in 1..Len(queue') : (Reachable(queue[i]) /\ obj[queue[i]].outcome = "unrun")'
    <3>1. ASSUME NEW i \in 1..Len(queue), NEW d, d = queue[i]
          PROVE  Reachable(d)' /\ obj'[d].outcome = "unrun"
      BY <2>1, <2>2, <3>1
    <3> QED BY <3>1 DEF Reachable
  <2>4. ASSUME NEW n \in Levels, NEW i \in 1..Len(batch'[n]), NEW d, d = batch'[n][i]
        PROVE  /\ Reachable(d)'
               /\ i > 1 \/ pc'[n] \in {"process", "discard"} => obj'[d].outcome = "unrun"
               /\ i = 1 /\ pc'[n] = "running" => obj'[d].outcome = "running"
               /\ i = 1 /\ pc'[n] = "finalize" => obj'[d].outcome \in {"returned", "threw"}
    <3>1. CASE n = depth
      <4>1. /\ i + 1 \in 1..Len(batch[depth]) /\ i + 1 > 1 /\ i \in Nat
            /\ d = batch[depth][i + 1] /\ Tail(batch[depth]) # <<>>
        <5>1. batch[depth] \in Seq(Delegates) /\ batch'[depth] = Tail(batch[depth])
          BY <1>1 DEF TypeOK
        <5>2. /\ Len(batch[depth]) \in Nat /\ Len(Tail(batch[depth])) = Len(batch[depth]) - 1
              /\ \A k \in 1..(Len(batch[depth]) - 1) : Tail(batch[depth])[k] = batch[depth][k + 1]
          BY <5>1, TailFacts
        <5>3. i \in 1..(Len(batch[depth]) - 1) /\ d = Tail(batch[depth])[i]
          BY <2>4, <3>1, <5>1, <5>2
        <5>4. Tail(batch[depth]) # <<>>
          <6>1. Len(batch[depth]) - 1 >= 1
            BY <5>2, <5>3
          <6>2. Len(Tail(batch[depth])) >= 1
            BY <5>2, <6>1
          <6>3. ASSUME Tail(batch[depth]) = <<>> PROVE Len(Tail(batch[depth])) = Len(<<>>)
            BY <6>3, Zenon
          <6>4. ~(Len(<<>>) >= 1)
            OBVIOUS
          <6>5. CASE Tail(batch[depth]) = <<>>
            <7>1. Len(<<>>) >= 1
              BY <6>2, <6>3, <6>5, Zenon
            <7> QED BY <6>4, <7>1, Zenon
          <6> QED BY <6>5
        <5> QED BY <5>2, <5>3, <5>4
      <4>2. Reachable(d) /\ obj[d].outcome = "unrun"
        BY <1>1, <4>1 DEF PendingOK
      <4>3. d # c
        BY <1>1, <4>1 DEF PlacesOK
      <4>4. pc'[n] \in {"process", "discard"}
        BY <3>1, <4>1
      <4> QED BY <2>1, <4>2, <4>3, <4>4
    <3>2. CASE n # depth
      <4>1. batch'[n] = batch[n] /\ pc'[n] = pc[n]
        BY <1>1, <3>2 DEF TypeOK
      <4>2. d # c
        <5>1. i \in 1..Len(batch[n]) /\ d = batch[n][i]
          BY <2>4, <4>1
        <5>2. \A m, k \in Levels : m # k =>
                \A j \in 1..Len(batch[m]), h \in 1..Len(batch[k]) : batch[m][j] # batch[k][h]
          BY DEF PlacesOK
        <5>. QED  BY <1>1, <3>2, <5>1, <5>2
      <4>3. /\ Reachable(d)
            /\ i > 1 \/ pc[n] \in {"process", "discard"} => obj[d].outcome = "unrun"
            /\ i = 1 /\ pc[n] = "running" => obj[d].outcome = "running"
            /\ i = 1 /\ pc[n] = "finalize" => obj[d].outcome \in {"returned", "threw"}
        <5>1. i \in 1..Len(batch[n]) /\ d = batch[n][i]
          BY <2>4, <4>1
        <5> QED BY <5>1 DEF PendingOK
      <4> QED BY <2>1, <4>1, <4>2, <4>3
    <3> QED BY <3>1, <3>2
  <2>5. \A n \in Levels : \A i \in 1..Len(batch'[n]) :
          /\ Reachable(batch[n][i])'
          /\ i > 1 \/ pc'[n] \in {"process", "discard"} => obj'[batch'[n][i]].outcome = "unrun"
          /\ i = 1 /\ pc'[n] = "running" => obj'[batch'[n][i]].outcome = "running"
          /\ i = 1 /\ pc'[n] = "finalize" => obj'[batch'[n][i]].outcome \in {"returned", "threw"}
    <3>1. ASSUME NEW n \in Levels, NEW i \in 1..Len(batch'[n])
          PROVE  /\ Reachable(batch[n][i])'
                 /\ i > 1 \/ pc'[n] \in {"process", "discard"} => obj'[batch'[n][i]].outcome = "unrun"
                 /\ i = 1 /\ pc'[n] = "running" => obj'[batch'[n][i]].outcome = "running"
                 /\ i = 1 /\ pc'[n] = "finalize" => obj'[batch'[n][i]].outcome \in {"returned", "threw"}
      <4>1. PICK d : d = batch'[n][i]
        OBVIOUS
      <4>2. /\ Reachable(d)'
            /\ i > 1 \/ pc'[n] \in {"process", "discard"} => obj'[d].outcome = "unrun"
            /\ i = 1 /\ pc'[n] = "running" => obj'[d].outcome = "running"
            /\ i = 1 /\ pc'[n] = "finalize" => obj'[d].outcome \in {"returned", "threw"}
        BY ONLY <2>4, <3>1, <4>1, n \in Levels, i \in 1..Len(batch'[n])
      <4> QED BY <4>1, <4>2 DEF Reachable
    <3> QED BY <3>1
  <2> QED BY <2>3, <2>5 DEF PendingOK
<1>8. AnswersOK'
  <2>1. ASSUME NEW t \in Threads, tpc[t] = "wait", NEW d, d = cur[t]
        PROVE  IF obj'[d].done
                 THEN obj'[d].discarded <=> obj'[d].outcome # "returned"
                 ELSE InPlace(d)'
    <3>1. CASE d = c
      BY <1>4, <1>5, <2>1, <3>1
    <3>2. CASE d # c
      <4>1. obj'[d] = obj[d]
        BY <1>4, <1>5, <2>1, <3>2
      <4>2. /\ obj[d].done => (obj[d].discarded <=> obj[d].outcome # "returned")
            /\ ~obj[d].done => InPlace(d)
        BY <2>1 DEF AnswersOK
      <4> QED BY <1>3, <3>2, <4>1, <4>2
    <3> QED BY <3>1, <3>2
  <2> QED BY <2>1 DEF AnswersOK, InPlace
<1> QED BY <1>3, <1>6, <1>7, <1>8

\* FinalizeDelegate keeps the types of live and obj.
LEMMA FinalizeType ==
  ASSUME obj \in [Delegates -> Object], live \in SUBSET Delegates,
         NEW c \in Delegates, NEW b \in BOOLEAN, FinalizeDelegate(c, b)
  PROVE  live' \subseteq Delegates /\ obj' \in [Delegates -> Object]
<1>1. CASE obj[c].sync
  <2>1. live' = live /\ obj' = [obj EXCEPT ![c] = [obj[c] EXCEPT !.done = TRUE, !.discarded = b]]
    BY <1>1 DEF FinalizeDelegate
  <2>2. [obj[c] EXCEPT !.done = TRUE, !.discarded = b] \in Object
    OBVIOUS
  <2> QED BY <2>1, <2>2
<1>2. CASE ~obj[c].sync
  <2>1. live' = live \ {c} /\ obj' = [obj EXCEPT ![c] = NewObject(FALSE)]
    BY <1>2 DEF FinalizeDelegate, Destroy
  <2>2. NewObject(FALSE) \in Object
    OBVIOUS
  <2> HIDE DEF NewObject, Object
  <2> QED BY <2>1, <2>2
<1> QED BY <1>1, <1>2

\* DispatchInterThreadCalls finalizes the delegate it has processed.
LEMMA FinalizeStep ==
  ASSUME IInv, Finalize
  PROVE  IInv'
<1> USE DEF IInv, Finalize, At
<1>1. /\ depth \in Levels /\ 1 \in Levels /\ batch[depth] # <<>> /\ depth' = depth
      /\ batch[depth] \in Seq(Delegates)
  BY DEF TypeOK, LevelsOK, LevelOK, InBatch
<1>2. PICK c : c = Current
  OBVIOUS
<1>3. /\ c = batch[depth][1] /\ 1 \in 1..Len(batch[depth]) /\ c \in Delegates
      /\ Tail(batch[depth]) \in Seq(Delegates)
  BY <1>1, <1>2, TailFacts DEF Current
<1>4. obj[c].outcome \in {"returned", "threw"}
  BY <1>1, <1>3 DEF PendingOK
<1>5. PICK p \in {"process", "dispatch"} :
        p = IF Tail(batch[depth]) = <<>> THEN "dispatch" ELSE "process"
  OBVIOUS
<1>6. /\ batch' = [batch EXCEPT ![depth] = Tail(@)] /\ pc' = [pc EXCEPT ![depth] = p]
      /\ FinalizeDelegate(c, Failed(c)) /\ tid' = tid /\ queue' = queue
      /\ UNCHANGED <<input, kind, cond, tpc, cur>>
  BY <1>2, <1>5 DEF NextInBatch, GoTo, consoleVars, callerVars
<1>7. TypeOK'
  <2>1. live' \subseteq Delegates /\ obj' \in [Delegates -> Object]
    <3>1. Failed(c) \in BOOLEAN
      BY DEF Failed
    <3> QED BY <1>3, <1>6, <3>1, FinalizeType DEF TypeOK
  <2>2. batch' \in [Levels -> Seq(Delegates)] /\ pc' \in [Levels -> LevelPCs]
    BY <1>3, <1>6 DEF TypeOK
  <2> QED BY <1>1, <1>6, <2>1, <2>2 DEF TypeOK
<1>8. /\ pc'[depth] = p /\ batch'[depth] = Tail(batch[depth])
      /\ \A n \in Levels : n # depth => pc'[n] = pc[n] /\ batch'[n] = batch[n]
  BY <1>1, <1>6 DEF TypeOK
<1>9. LevelsOK'
  <2>1. ASSUME NEW n \in Levels PROVE LevelOK(n)'
    <3>1. LevelOK(n) BY DEF LevelsOK
    <3> QED BY <1>1, <1>5, <1>8, <3>1 DEF LevelOK, InBatch
  <2>2. DispatcherOK'
    BY <1>1, <1>6, <1>8 DEF LevelsOK, DispatcherOK
  <2> QED BY <2>1, <2>2 DEF LevelsOK
<1>10. Failed(c) \in BOOLEAN /\ (Failed(c) <=> obj[c].outcome # "returned")
  BY <1>4 DEF Failed
<1> QED BY <1>1, <1>2, <1>5, <1>6, <1>7, <1>8, <1>9, <1>10, FinalizeDelegateStep

\* The destroyed dispatcher finalizes a delegate it has not run.
LEMMA DiscardStep ==
  ASSUME IInv, Discard
  PROVE  IInv'
<1> USE DEF IInv, Discard, At
<1>1. /\ depth \in Levels /\ 1 \in Levels /\ depth = 1 /\ batch[depth] # <<>> /\ depth' = depth
      /\ batch[depth] \in Seq(Delegates)
  BY DEF TypeOK, LevelsOK, LevelOK, InBatch
<1>2. PICK c : c = Current
  OBVIOUS
<1>3. /\ c = batch[depth][1] /\ 1 \in 1..Len(batch[depth]) /\ c \in Delegates
      /\ Tail(batch[depth]) \in Seq(Delegates)
  BY <1>1, <1>2, TailFacts DEF Current
<1>4. obj[c].outcome = "unrun"
  BY <1>1, <1>3 DEF PendingOK
<1>5. PICK p \in {"discard", "exited"} :
        p = IF Tail(batch[depth]) = <<>> THEN "exited" ELSE "discard"
  OBVIOUS
<1>6. /\ batch' = [batch EXCEPT ![depth] = Tail(@)] /\ pc' = [pc EXCEPT ![depth] = p]
      /\ FinalizeDelegate(c, TRUE) /\ tid' = tid /\ queue' = queue
      /\ UNCHANGED <<input, kind, cond, tpc, cur>>
  BY <1>2, <1>5 DEF NextInBatch, GoTo, consoleVars, callerVars
<1>7. TypeOK'
  <2>1. live' \subseteq Delegates /\ obj' \in [Delegates -> Object]
    BY <1>3, <1>6, FinalizeType DEF TypeOK
  <2>2. batch' \in [Levels -> Seq(Delegates)] /\ pc' \in [Levels -> LevelPCs]
    BY <1>3, <1>6 DEF TypeOK
  <2> QED BY <1>1, <1>6, <2>1, <2>2 DEF TypeOK
<1>8. /\ pc'[depth] = p /\ batch'[depth] = Tail(batch[depth])
      /\ \A n \in Levels : n # depth => pc'[n] = pc[n] /\ batch'[n] = batch[n]
  BY <1>1, <1>6 DEF TypeOK
<1>9. LevelsOK'
  <2>1. ASSUME NEW n \in Levels PROVE LevelOK(n)'
    <3>1. LevelOK(n) BY DEF LevelsOK
    <3> QED BY <1>1, <1>5, <1>8, <3>1 DEF LevelOK, InBatch
  <2>2. DispatcherOK'
    BY <1>1, <1>6, <1>8 DEF LevelsOK, DispatcherOK
  <2> QED BY <2>1, <2>2 DEF LevelsOK
<1>10. (TRUE <=> obj[c].outcome # "returned")
  BY <1>4
<1> QED BY <1>1, <1>2, <1>5, <1>6, <1>7, <1>8, <1>9, <1>10, FinalizeDelegateStep

-----------------------------------------------------------------------------
(* The theorems                                                            *)

\* The invariant holds when the dispatcher has been constructed.
LEMMA InitIInv == Init => IInv
<1> SUFFICES ASSUME Init PROVE IInv
  OBVIOUS
<1>1. TypeOK
  BY DEF Init, TypeOK
<1>2. /\ Len(queue) = 0 /\ \A n \in Levels : batch[n] = <<>> /\ Len(batch[n]) = 0
  BY DEF Init
<1>3. LevelsOK
  BY DEF Init, LevelsOK, LevelOK, DispatcherOK, InBatch
<1>4. PlacesOK /\ PendingOK /\ CallersOK /\ AnswersOK
  BY <1>2 DEF Init, PlacesOK, PendingOK, CallersOK, AnswersOK
<1> QED BY <1>1, <1>3, <1>4 DEF IInv

\* Every step of the main thread, the user or a worker keeps the invariant.
LEMMA NextStep ==
  ASSUME IInv, [Next]_vars
  PROVE  IInv'
<1>1. CASE UNCHANGED vars
  <2>1. /\ UNCHANGED <<tid, queue, input, depth, kind, pc, batch, cond, tpc, cur, live, obj>>
    BY <1>1 DEF vars, consoleVars, levelVars, callerVars, delegateVars
  <2>2. TypeOK' /\ LevelsOK'
    BY <2>1 DEF IInv, TypeOK, LevelsOK, LevelOK, DispatcherOK
  <2> QED BY <2>1, <2>2, QuietStep DEF callerVars, delegateVars
<1>2. CASE UserKey
  BY <1>2, InputStep
<1>3. ASSUME NEW t \in Threads, WorkerStep(t) PROVE IInv'
  BY <1>3, StartCallStep, PostStep, RejectStep, ReturnStep, SignalStep DEF WorkerStep
<1>4. CASE MainStep
  <2>1. CASE HandleClose
    BY <2>1, CloseLoopStep DEF HandleClose, At
  <2>2. ASSUME NEW k \in {"modal", "wait"}, OpenLoop(k) PROVE IInv'
    BY <2>2, OpenLoopStep
  <2> QED BY <1>4, <2>1, <2>2, DispatchTakeStep, ProcessStep, FinalizeStep, MainPostStep,
             LoopStep, InputStep, WaitCheckStep, ShutdownStep, DiscardStep DEF MainStep
<1> QED BY <1>1, <1>2, <1>3, <1>4 DEF Next

\* The inductive invariant holds of every reachable state.
THEOREM Invariance == Spec => []IInv
BY InitIInv, NextStep, PTL DEF Spec

\* The variables of the dispatcher, its callers and its loops keep their types.
THEOREM TypeCorrect == Spec => []TypeOK
BY Invariance, PTL DEF IInv

\* Pending, of the properties, is what InPlace, of the invariant, says.
LEMMA PendingPlaces ==
  ASSUME IInv, NEW d
  PROVE  d \in Pending <=> InPlace(d)
<1>1. depth \in Levels /\ \A n \in Levels : n > depth => batch[n] = <<>>
  <2>1. \A n \in Levels : n > depth => pc[n] \notin InBatch
    BY DEF IInv, LevelsOK, LevelOK, InBatch
  <2> QED BY <2>1 DEF IInv, TypeOK, LevelsOK, LevelOK
<1>2. \A n \in Levels : n > depth => 1..Len(batch[n]) = {}
  BY <1>1
<1>3. 1..depth \subseteq Levels /\ \A n \in Levels : n \in 1..depth \/ n > depth
  BY <1>1
<1>4. d \in Pending => InPlace(d)
  BY <1>3 DEF Pending, Queued, Taken, InPlace
<1>5. InPlace(d) => d \in Pending
  BY <1>2, <1>3 DEF Pending, Queued, Taken, InPlace
<1> QED BY <1>4, <1>5

\* No delegate that the dispatcher can reach has been destroyed: the object on
\* the stack of a blocked caller outlives every use of it.
THEOREM Lifetime == Spec => []NoDanglingDelegate
<1>1. IInv => NoDanglingDelegate
  BY PendingPlaces, PlaceFacts DEF NoDanglingDelegate, Reachable, IInv
<1> QED BY <1>1, Invariance, PTL

\* No blocked caller is forgotten, whatever loops are open or closing.
THEOREM NoneForgotten == Spec => []NoForgottenCall
<1>1. IInv => NoForgottenCall
  BY PendingPlaces DEF NoForgottenCall, AnswersOK, IInv
<1> QED BY <1>1, Invariance, PTL

\* InterThreadCall tells its caller the truth about what became of the call.
THEOREM TruthfulAnswers == Spec => []AnswerIsTruthful
<1>1. IInv => AnswerIsTruthful
  BY DEF AnswerIsTruthful, AnswersOK, IInv
<1> QED BY <1>1, Invariance, PTL

\* All that a blocked caller relies on, for any number of callers, delegates and levels.
THEOREM KeptCalls == Spec => []CallsAreKept
<1>1. NoDanglingDelegate /\ NoForgottenCall /\ AnswerIsTruthful => CallsAreKept
  BY DEF CallsAreKept
<1> QED BY <1>1, Lifetime, NoneForgotten, TruthfulAnswers, PTL

\* A delegate that is built, destroyed or finalized is not made to run by that.
LEMMA StaysUnrun ==
  ASSUME obj \in [Delegates -> Object], NEW d \in Delegates, NEW e \in Delegates,
         \/ \E b \in BOOLEAN : Construct(e, b)
         \/ Destroy(e)
         \/ \E b \in BOOLEAN : FinalizeDelegate(e, b)
  PROVE  obj'[d].outcome \in {obj[d].outcome, "unrun"}
<1>1. CASE \E b \in BOOLEAN : Construct(e, b)
  BY <1>1 DEF Construct
<1>2. CASE Destroy(e)
  BY <1>2 DEF Destroy
<1>3. CASE \E b \in BOOLEAN : FinalizeDelegate(e, b)
  <2>1. PICK b \in BOOLEAN : FinalizeDelegate(e, b)
    BY <1>3
  <2>2. CASE obj[e].sync
    <3>1. obj' = [obj EXCEPT ![e] = [obj[e] EXCEPT !.done = TRUE, !.discarded = b]]
      BY <2>1, <2>2 DEF FinalizeDelegate
    <3> QED BY <3>1
  <2>3. CASE ~obj[e].sync
    BY <2>1, <2>3, <1>2 DEF FinalizeDelegate, Destroy
  <2> QED BY <2>2, <2>3
<1> QED BY <1>1, <1>2, <1>3

\* Only d->Process() makes a delegate run, the one the dispatch has come to.
LEMMA RunStarts ==
  ASSUME IInv, Next, NEW d \in Delegates,
         obj[d].outcome # "running", obj'[d].outcome = "running"
  PROVE  At("process") /\ d = Current
<1>1. /\ obj \in [Delegates -> Object]
      /\ \A t \in Threads : tpc[t] # "idle" => cur[t] \in Delegates
      /\ At("finalize") \/ At("discard") \/ At("running") \/ At("process") => Current \in Delegates
  <2>1. obj \in [Delegates -> Object] /\ \A t \in Threads : tpc[t] # "idle" => cur[t] \in Delegates
    BY DEF IInv, TypeOK, CallersOK
  <2>2. depth \in Levels /\ batch[depth] \in Seq(Delegates)
    BY DEF IInv, TypeOK
  <2>3. pc[depth] \in InBatch => batch[depth] # <<>>
    BY <2>2 DEF IInv, LevelsOK, LevelOK
  <2> QED BY <2>1, <2>2, <2>3 DEF At, InBatch, Current
<1>2. obj' # obj
  OBVIOUS
<1>3. ASSUME NEW t \in Threads, WorkerStep(t) PROVE FALSE
  <2>1. ASSUME NEW e \in Delegates, NEW b \in BOOLEAN, StartCall(t, e, b) PROVE FALSE
    BY <1>1, <2>1, StaysUnrun DEF StartCall
  <2>2. CASE Post(t) \/ Signal(t)
    BY <1>2, <2>2 DEF Post, Signal, delegateVars
  <2>3. CASE Reject(t) \/ Return(t)
    BY <1>1, <2>3, StaysUnrun DEF Reject, Return
  <2> QED BY <1>3, <2>1, <2>2, <2>3 DEF WorkerStep
<1>4. CASE MainStep
  <2>1. ASSUME NEW how \in {"returned", "threw"}, ProcessEnd(how) PROVE FALSE
    <3>1. obj' = [obj EXCEPT ![Current].outcome = how] /\ Current \in Delegates
      BY <1>1, <2>1 DEF ProcessEnd
    <3>2. obj'[d].outcome \in {obj[d].outcome, how}
      BY <1>1, <3>1
    <3> QED BY <3>2
  <2>2. CASE Finalize \/ Discard
    <3>1. Current \in Delegates /\ \E b \in BOOLEAN : FinalizeDelegate(Current, b)
      BY <1>1, <2>2 DEF Finalize, Discard, Failed
    <3> QED BY <1>1, <3>1, StaysUnrun
  <2>3. ASSUME NEW e \in Delegates, MainPost(e) PROVE FALSE
    BY <1>1, <2>3, StaysUnrun DEF MainPost
  <2>4. CASE ProcessBegin
    <3>1. obj' = [obj EXCEPT ![Current].outcome = "running"] /\ Current \in Delegates /\ At("process")
      BY <1>1, <2>4 DEF ProcessBegin
    <3>2. d # Current => obj'[d] = obj[d]
      BY <1>1, <3>1
    <3> QED BY <3>1, <3>2
  <2>5. CASE DispatchTake \/ Shutdown \/ WaitCheck \/ WaitTimeout \/ HandleClose
    BY <1>2, <2>5 DEF DispatchTake, Shutdown, WaitCheck, WaitTimeout, HandleClose, CloseLoop, delegateVars
  <2>6. ASSUME NEW k \in {"modal", "wait"}, OpenLoop(k) PROVE FALSE
    BY <1>2, <2>6 DEF OpenLoop, delegateVars
  <2>7. CASE PollRead \/ PollIdle \/ ScanBegin \/ ScanCheckForEsc \/ ScanEnd \/ HandleEnd
    BY <1>2, <2>7 DEF PollRead, PollIdle, ScanBegin, ScanCheckForEsc, ScanEnd, HandleEnd, delegateVars
  <2> QED BY <1>4, <2>1, <2>2, <2>3, <2>4, <2>5, <2>6, <2>7 DEF MainStep
<1>5. CASE UserKey
  BY <1>2, <1>5 DEF UserKey, delegateVars
<1> QED BY <1>3, <1>4, <1>5 DEF Next

\* No delegate is processed twice, nor after its destruction, although nested
\* dispatches take batches of their own from the same queue.
THEOREM ProcessedOnce == Spec => RunsOnce
<1>1. ASSUME IInv, Next, NEW d \in Delegates,
             obj[d].outcome # "running", obj'[d].outcome = "running"
      PROVE  obj[d].outcome = "unrun" /\ d \in live
  <2>1. At("process") /\ d = Current
    BY <1>1, RunStarts
  <2>2. depth \in Levels /\ batch[depth] \in Seq(Delegates)
    BY <1>1 DEF IInv, TypeOK
  <2>3. batch[depth] # <<>>
    <3>1. LevelOK(depth) /\ pc[depth] = "process"
      BY <1>1, <2>1, <2>2 DEF IInv, LevelsOK, At
    <3> QED BY <3>1 DEF LevelOK, InBatch
  <2>4. d = batch[depth][1] /\ 1 \in 1..Len(batch[depth])
    BY <2>1, <2>2, <2>3, TailFacts DEF Current
  <2> QED BY <1>1, <2>1, <2>2, <2>4 DEF IInv, PendingOK, Reachable, At
<1>2. IInv /\ [Next]_vars =>
        [\A d \in Delegates : obj[d].outcome # "running" /\ obj'[d].outcome = "running"
            => obj[d].outcome = "unrun" /\ d \in live]_vars
  BY <1>1
<1> QED BY <1>2, Invariance, PTL DEF Spec, RunsOnce

-----------------------------------------------------------------------------
(* The dispatcher and its callers implement CallService: every step is a   *)
(* step of the progress of one call at most.                               *)

Calls == [d \in Delegates |-> CallProgress(d)]

\* A call whose object and caller are what they were has made no progress.
LEMMA NoProgress ==
  ASSUME NEW d \in Delegates, d \in live' <=> d \in live, obj'[d] = obj[d],
         InHand(d)' <=> InHand(d)
  PROVE  CallProgress(d)' = CallProgress(d)
BY DEF CallProgress

\* A step of one call, whose caller and delegate alone have changed.
LEMMA OneProgress ==
  ASSUME NEW c \in Delegates, NEW p, CallProgress(c)' = p,
         \A d \in Delegates : d # c =>
            /\ d \in live' <=> d \in live
            /\ obj'[d] = obj[d]
            /\ InHand(d)' <=> InHand(d)
  PROVE  Calls' = [Calls EXCEPT ![c] = p]
<1>1. \A d \in Delegates : d # c => CallProgress(d)' = CallProgress(d)
  BY NoProgress
<1> QED BY <1>1 DEF Calls

\* Steps of the loops change no call.
LEMMA NoneProgress ==
  ASSUME UNCHANGED <<tpc, cur, live, obj>>
  PROVE  Calls' = Calls
<1>1. \A d \in Delegates : CallProgress(d)' = CallProgress(d)
  BY NoProgress DEF InHand
<1> QED BY <1>1 DEF Calls

\* Who is about to enqueue what: one caller begins or leaves its call.
LEMMA OneHand ==
  ASSUME TypeOK, NEW t \in Threads, NEW p, NEW x, NEW c,
         tpc' = [tpc EXCEPT ![t] = p], cur' = [cur EXCEPT ![t] = x],
         cur[t] = c \/ tpc[t] # "enqueue", x = c \/ p # "enqueue"
  PROVE  \A d \in Delegates : d # c => (InHand(d)' <=> InHand(d))
<1>1. /\ tpc'[t] = p /\ cur'[t] = x
      /\ \A u \in Threads : u # t => tpc'[u] = tpc[u] /\ cur'[u] = cur[u]
  BY DEF TypeOK
<1> QED BY <1>1 DEF InHand

\* InterThreadCall and InterThreadCallAsync begin.
LEMMA StartCallServes ==
  ASSUME IInv, NEW t \in Threads, NEW d \in Delegates, NEW b \in BOOLEAN, StartCall(t, d, b)
  PROVE  Service!Make(d)
<1>1. /\ d \notin live /\ live' = live \cup {d} /\ tpc[t] = "idle" /\ tid' = tid
      /\ obj' = [obj EXCEPT ![d] = NewObject(b)]
      /\ tpc' = [tpc EXCEPT ![t] = "enqueue"] /\ cur' = [cur EXCEPT ![t] = d]
  BY DEF StartCall, Construct
<1>2. /\ tpc'[t] = "enqueue" /\ cur'[t] = d
      /\ \A e \in Delegates : e # d => obj'[e] = obj[e]
      /\ TypeOK
  BY <1>1 DEF IInv, TypeOK
<1>3. \A e \in Delegates : e # d => (InHand(e)' <=> InHand(e))
  <2>1. \A u \in Threads : u # t => tpc'[u] = tpc[u] /\ cur'[u] = cur[u]
    BY <1>1, <1>2 DEF TypeOK
  <2> QED BY <1>1, <1>2, <2>1 DEF InHand
<1>4. CallProgress(d) = "none" /\ CallProgress(d)' = "made"
  <2>1. InHand(d)' /\ d \in live'
    BY <1>1, <1>2 DEF InHand
  <2> QED BY <1>1, <2>1 DEF CallProgress
<1>5. Calls' = [Calls EXCEPT ![d] = "made"] /\ Calls[d] = "none"
  BY <1>1, <1>2, <1>3, <1>4, OneProgress DEF Calls
<1> QED BY <1>1, <1>5 DEF Service!Make, Service!Become, Calls

\* The dispatcher accepts what a caller has enqueued.
LEMMA PostServes ==
  ASSUME IInv, NEW t \in Threads, Post(t)
  PROVE  \E d \in Delegates : Service!Accept(d)
<1>1. PICK d \in Delegates : d = cur[t] /\ d \in live
  BY DEF IInv, TypeOK, CallersOK, Post
<1>2. /\ tpc[t] = "enqueue" /\ live' = live /\ obj' = obj /\ tid # NoThread /\ tid' = tid /\ TypeOK
      /\ obj[d].outcome = "unrun" /\ ~obj[d].done
      /\ \A u \in Threads : cur[u] = d => u = t
  BY <1>1 DEF Post, Enqueue, delegateVars, IInv, CallersOK
<1>3. PICK p \in {"wait", "idle"}, x \in Delegates \cup {NoDelegate} :
        tpc' = [tpc EXCEPT ![t] = p] /\ cur' = [cur EXCEPT ![t] = x]
  <2>1. CASE obj[cur[t]].sync
    <3>1. cur' = [cur EXCEPT ![t] = cur[t]] /\ tpc' = [tpc EXCEPT ![t] = "wait"]
      BY <2>1, <1>2 DEF TypeOK, Post
    <3>2. cur[t] \in Delegates \cup {NoDelegate} /\ "wait" \in {"wait", "idle"}
      BY <1>1
    <3> QED BY <3>1, <3>2
  <2>2. CASE ~obj[cur[t]].sync
    <3>1. cur' = [cur EXCEPT ![t] = NoDelegate] /\ tpc' = [tpc EXCEPT ![t] = "idle"]
      BY <2>2 DEF Post, LeaveCall
    <3>2. NoDelegate \in Delegates \cup {NoDelegate} /\ "idle" \in {"wait", "idle"}
      OBVIOUS
    <3> QED BY <3>1, <3>2
  <2> QED BY <2>1, <2>2
<1>4. /\ tpc'[t] = p
      /\ \A u \in Threads : u # t => tpc'[u] = tpc[u] /\ cur'[u] = cur[u]
  BY <1>2, <1>3 DEF TypeOK
<1>5. \A e \in Delegates : e # d => (InHand(e)' <=> InHand(e))
  BY <1>1, <1>2, <1>3, OneHand
<1>6. CallProgress(d) = "made" /\ CallProgress(d)' = "waiting"
  <2>1. InHand(d) /\ ~InHand(d)'
    BY <1>1, <1>2, <1>4 DEF InHand
  <2> QED BY <1>1, <1>2, <2>1 DEF CallProgress
<1>7. Calls' = [Calls EXCEPT ![d] = "waiting"] /\ Calls[d] = "made"
  BY <1>2, <1>5, <1>6, OneProgress DEF Calls
<1> QED BY <1>2, <1>7 DEF Service!Accept, Service!Become, Calls

\* A caller's delegate ends with its call: it is refused, or its answer is taken.
LEMMA LeaveServes ==
  ASSUME IInv, NEW t \in Threads, Reject(t) \/ Return(t)
  PROVE  \E d \in Delegates : Service!Refuse(d) \/ Service!Return(d)
<1>1. PICK d \in Delegates : d = cur[t] /\ d \in live
  BY DEF IInv, TypeOK, CallersOK, Reject, Return
<1>2. /\ live' = live \ {d} /\ obj' = [obj EXCEPT ![d] = NewObject(FALSE)] /\ tid' = tid /\ TypeOK
      /\ tpc' = [tpc EXCEPT ![t] = "idle"] /\ cur' = [cur EXCEPT ![t] = NoDelegate]
      /\ \A u \in Threads : cur[u] = d => u = t
  BY <1>1 DEF Reject, Return, Destroy, LeaveCall, IInv, CallersOK
<1>3. \A e \in Delegates : e # d => (InHand(e)' <=> InHand(e))
  BY <1>1, <1>2, OneHand
<1>4. \A e \in Delegates : e # d => obj'[e] = obj[e]
  BY <1>2 DEF TypeOK
<1>5. CallProgress(d)' = "none"
  BY <1>2 DEF CallProgress
<1>6. Calls' = [Calls EXCEPT ![d] = "none"]
  BY <1>2, <1>3, <1>4, <1>5, OneProgress
<1>7. CASE Reject(t)
  <2>1. InHand(d) /\ tid = NoThread
    BY <1>1, <1>7 DEF InHand, Reject
  <2>2. Calls[d] = "made"
    BY <1>1, <2>1 DEF Calls, CallProgress
  <2> QED BY <1>2, <1>6, <2>1, <2>2 DEF Service!Refuse, Service!Become, Calls
<1>8. CASE Return(t)
  <2>1. ~InHand(d) /\ obj[d].done
    BY <1>1, <1>2, <1>8 DEF InHand, Return, CanReturn
  <2>2. Calls[d] \in {"failed", "succeeded"}
    BY <1>1, <2>1 DEF Calls, CallProgress
  <2> QED BY <1>2, <1>6, <2>2 DEF Service!Return, Service!Become, Calls
<1> QED BY <1>7, <1>8

\* An asynchronous call of the main thread itself is accepted at once.
LEMMA MainPostServes ==
  ASSUME IInv, NEW d \in Delegates, MainPost(d)
  PROVE  Service!Accept(d)
<1>1. /\ d \notin live /\ live' = live \cup {d} /\ tid # NoThread /\ tid' = tid /\ TypeOK
      /\ obj' = [obj EXCEPT ![d] = NewObject(FALSE)] /\ tpc' = tpc /\ cur' = cur
  BY DEF MainPost, Construct, Enqueue, callerVars, IInv
<1>2. \A e \in Delegates : InHand(e)' <=> InHand(e)
  BY <1>1 DEF InHand
<1>3. ~InHand(d)
  BY <1>1 DEF InHand, IInv, CallersOK
<1>4. /\ \A e \in Delegates : e # d => obj'[e] = obj[e]
      /\ obj'[d].outcome = "unrun" /\ ~obj'[d].done
  BY <1>1 DEF TypeOK
<1>5. CallProgress(d) = "none" /\ CallProgress(d)' = "waiting"
  BY <1>1, <1>2, <1>3, <1>4 DEF CallProgress
<1>6. Calls' = [Calls EXCEPT ![d] = "waiting"] /\ Calls[d] = "none"
  BY <1>1, <1>2, <1>4, <1>5, OneProgress DEF Calls
<1> QED BY <1>1, <1>6 DEF Service!Accept, Service!Become, Calls

-----------------------------------------------------------------------------

\* The delegate at the head of the batch: it is live, not answered, and not in hand.
LEMMA CurrentFacts ==
  ASSUME IInv, pc[depth] \in InBatch
  PROVE  /\ Current \in Delegates /\ Current \in live /\ ~obj[Current].done /\ ~InHand(Current)
         /\ pc[depth] \in {"process", "discard"} => obj[Current].outcome = "unrun"
         /\ pc[depth] = "running" => obj[Current].outcome = "running"
         /\ pc[depth] = "finalize" => obj[Current].outcome \in {"returned", "threw"}
         /\ tid = NoThread <=> pc[depth] = "discard"
<1>1. depth \in Levels /\ batch[depth] \in Seq(Delegates) /\ batch[depth] # <<>>
  BY DEF IInv, TypeOK, LevelsOK, LevelOK
<1>2. Current = batch[depth][1] /\ 1 \in 1..Len(batch[depth]) /\ Current \in Delegates
  BY <1>1, TailFacts DEF Current
<1>3. /\ Reachable(Current)
      /\ pc[depth] \in {"process", "discard"} => obj[Current].outcome = "unrun"
      /\ pc[depth] = "running" => obj[Current].outcome = "running"
      /\ pc[depth] = "finalize" => obj[Current].outcome \in {"returned", "threw"}
  BY <1>1, <1>2 DEF IInv, PendingOK
<1>4. Current \in live /\ ~obj[Current].done /\ ~InHand(Current)
  BY <1>3 DEF Reachable, InHand
<1>5. tid = NoThread <=> pc[depth] = "discard"
  <2>1. /\ tid = NoThread <=> pc[1] \in {"discard", "exited"}
        /\ depth \in Nat /\ 1 \in Levels
        /\ 1 < depth => pc[1] \in {"running", "handle"}
        /\ pc[depth] = "discard" => depth = 1
    BY <1>1 DEF IInv, LevelsOK, LevelOK, DispatcherOK
  <2>2. CASE depth = 1
    BY <2>1, <2>2 DEF InBatch
  <2>3. CASE depth # 1
    <3>1. 1 < depth
      BY <2>1, <2>3, <1>1
    <3> QED BY <2>1, <2>3, <3>1
  <2> QED BY <2>2, <2>3
<1> QED BY <1>2, <1>3, <1>4, <1>5

\* Process: the function begins to run, and ends.
LEMMA ProcessServes ==
  ASSUME IInv, ProcessBegin \/ \E how \in {"returned", "threw"} : ProcessEnd(how)
  PROVE  \E d \in Delegates : Service!Run(d) \/ Service!End(d)
<1>1. PICK d \in Delegates : d = Current /\ d \in live /\ ~obj[d].done /\ ~InHand(d) /\ tid # NoThread
  BY CurrentFacts DEF ProcessBegin, ProcessEnd, At, InBatch
<1>2. PICK how \in {"running", "returned", "threw"} :
        /\ obj' = [obj EXCEPT ![d].outcome = how]
        /\ how = "running" <=> ProcessBegin
        /\ how # "running" <=> ProcessEnd(how)
  BY <1>1 DEF ProcessBegin, ProcessEnd, At
<1>3. live' = live /\ tpc' = tpc /\ cur' = cur /\ tid' = tid
  BY DEF ProcessBegin, ProcessEnd, callerVars
<1>4. /\ \A e \in Delegates : e # d => obj'[e] = obj[e]
      /\ obj'[d].outcome = how /\ ~obj'[d].done
  BY <1>1, <1>2 DEF IInv, TypeOK
<1>5. \A e \in Delegates : InHand(e)' <=> InHand(e)
  BY <1>3 DEF InHand
<1>6. CallProgress(d)' = how
  BY <1>1, <1>3, <1>4, <1>5 DEF CallProgress
<1>7. Calls' = [Calls EXCEPT ![d] = how]
  BY <1>3, <1>4, <1>5, <1>6, OneProgress
<1>8. CASE ProcessBegin
  <2>1. obj[d].outcome = "unrun"
    BY <1>1, <1>8, CurrentFacts DEF ProcessBegin, At, InBatch
  <2>2. Calls[d] = "waiting"
    BY <1>1, <2>1 DEF Calls, CallProgress
  <2> QED BY <1>1, <1>2, <1>3, <1>7, <1>8, <2>2 DEF Service!Run, Service!Become, Calls
<1>9. CASE ~ProcessBegin
  <2>1. ProcessEnd(how) /\ how \in {"returned", "threw"}
    BY <1>2, <1>9
  <2>2. obj[d].outcome = "running"
    BY <1>1, <2>1, CurrentFacts DEF ProcessEnd, At, InBatch
  <2>3. Calls[d] = "running"
    BY <1>1, <2>2 DEF Calls, CallProgress
  <2> QED BY <1>3, <1>7, <2>1, <2>3 DEF Service!End, Service!Become, Calls
<1> QED BY <1>8, <1>9

\* Finalize, or the destructor of the dispatcher, is done with a delegate: it has an
\* answer if somebody waits for it, or is gone.
LEMMA EndOfCall ==
  ASSUME IInv, NEW d \in Delegates, d \in live, ~InHand(d), NEW b \in BOOLEAN,
         FinalizeDelegate(d, b), UNCHANGED callerVars
  PROVE  \E p \in {"none", IF b THEN "failed" ELSE "succeeded"} :
           Calls' = [Calls EXCEPT ![d] = p]
<1>1. obj \in [Delegates -> Object] /\ tpc' = tpc /\ cur' = cur
  BY DEF IInv, TypeOK, callerVars
<1>2. \A e \in Delegates : InHand(e)' <=> InHand(e)
  BY <1>1 DEF InHand
<1>3. CASE obj[d].sync
  <2>1. /\ live' = live /\ obj' = [obj EXCEPT ![d] = [obj[d] EXCEPT !.done = TRUE, !.discarded = b]]
    BY <1>3 DEF FinalizeDelegate
  <2>2. /\ \A e \in Delegates : e # d => obj'[e] = obj[e]
        /\ obj'[d].done
        /\ obj'[d].discarded <=> b
    BY <1>1, <2>1, Zenon DEF Object
  <2>3. CallProgress(d)' = IF b THEN "failed" ELSE "succeeded"
    BY <1>2, <2>1, <2>2 DEF CallProgress
  <2>4. Calls' = [Calls EXCEPT ![d] = IF b THEN "failed" ELSE "succeeded"]
    BY <1>2, <2>1, <2>2, <2>3, OneProgress
  <2> QED BY <2>4
<1>4. CASE ~obj[d].sync
  <2>1. /\ live' = live \ {d} /\ obj' = [obj EXCEPT ![d] = NewObject(FALSE)]
    BY <1>4 DEF FinalizeDelegate, Destroy
  <2>2. \A e \in Delegates : e # d => obj'[e] = obj[e]
    BY <1>1, <2>1
  <2>3. CallProgress(d)' = "none"
    BY <2>1 DEF CallProgress
  <2>4. Calls' = [Calls EXCEPT ![d] = "none"]
    BY <1>2, <2>1, <2>2, <2>3, OneProgress
  <2> QED BY <2>4
<1> QED BY <1>3, <1>4

\* DispatchInterThreadCalls answers, or forgets, the delegate it has processed.
LEMMA FinalizeServes ==
  ASSUME IInv, Finalize
  PROVE  \E d \in Delegates : Service!Answer(d)
<1>1. PICK d \in Delegates : d = Current /\ d \in live /\ ~obj[d].done /\ ~InHand(d)
                           /\ obj[d].outcome \in {"returned", "threw"}
  BY CurrentFacts DEF Finalize, At, InBatch
<1>2. FinalizeDelegate(d, Failed(d)) /\ UNCHANGED callerVars /\ tid' = tid
  BY <1>1 DEF Finalize
<1>3. PICK b \in BOOLEAN : b <=> obj[d].outcome = "threw"
  OBVIOUS
<1>4. FinalizeDelegate(d, b)
  BY <1>2, <1>3 DEF Failed, FinalizeDelegate
<1>5. PICK p \in {"none", IF b THEN "failed" ELSE "succeeded"} : Calls' = [Calls EXCEPT ![d] = p]
  BY <1>1, <1>2, <1>4, EndOfCall
<1>6. Calls[d] = obj[d].outcome
  BY <1>1 DEF Calls, CallProgress
<1> QED BY <1>1, <1>2, <1>3, <1>5, <1>6 DEF Service!Answer, Service!Become, Calls

\* ~InterThreadCallsDispatcherThread gives up what nobody will process.
LEMMA DiscardServes ==
  ASSUME IInv, Discard
  PROVE  \E d \in Delegates : Service!Drop(d)
<1>1. PICK d \in Delegates : d = Current /\ d \in live /\ ~obj[d].done /\ ~InHand(d)
                           /\ obj[d].outcome = "unrun" /\ tid = NoThread
  BY CurrentFacts DEF Discard, At, InBatch
<1>2. FinalizeDelegate(d, TRUE) /\ UNCHANGED callerVars /\ tid' = tid
  BY <1>1 DEF Discard
<1>3. PICK p \in {"none", "failed"} : Calls' = [Calls EXCEPT ![d] = p]
  BY <1>1, <1>2, EndOfCall
<1>4. Calls[d] = "waiting"
  BY <1>1 DEF Calls, CallProgress
<1> QED BY <1>1, <1>2, <1>3, <1>4 DEF Service!Drop, Service!Become, Calls

\* The destructor closes the service, and touches no call yet.
LEMMA ShutdownServes ==
  ASSUME IInv, Shutdown
  PROVE  Service!CloseService
<1>1. tid # NoThread /\ tid' = NoThread
  <2>1. depth = 1 /\ pc[1] = "handle"
    BY DEF Shutdown, At
  <2> QED BY <2>1 DEF Shutdown, IInv, LevelsOK, DispatcherOK
<1>2. Calls' = Calls
  BY NoneProgress DEF Shutdown, callerVars, delegateVars
<1> QED BY <1>1, <1>2 DEF Service!CloseService, Calls

\* Every step is a step of one call, or none at all to the callers.
LEMMA StepServes ==
  ASSUME IInv, [Next]_vars
  PROVE  [Service!Next]_<<tid # NoThread, Calls>>
<1>1. ASSUME UNCHANGED <<tid, callerVars, delegateVars>>
      PROVE  UNCHANGED <<tid # NoThread, Calls>>
  BY <1>1, NoneProgress DEF callerVars, delegateVars
<1>2. ASSUME NEW t \in Threads, WorkerStep(t)
      PROVE  [Service!Next]_<<tid # NoThread, Calls>>
  <2>1. ASSUME NEW d \in Delegates, NEW b \in BOOLEAN, StartCall(t, d, b)
        PROVE  Service!Next
    BY <2>1, StartCallServes DEF Service!Next
  <2>2. CASE Post(t)
    BY <2>2, PostServes DEF Service!Next
  <2>3. CASE Reject(t) \/ Return(t)
    BY <2>3, LeaveServes DEF Service!Next
  <2>4. CASE Signal(t)
    BY <1>1, <2>4 DEF Signal
  <2> QED BY <1>2, <2>1, <2>2, <2>3, <2>4 DEF WorkerStep
<1>3. CASE MainStep
  <2>1. CASE ProcessBegin \/ \E how \in {"returned", "threw"} : ProcessEnd(how)
    BY <2>1, ProcessServes DEF Service!Next
  <2>2. CASE Finalize
    BY <2>2, FinalizeServes DEF Service!Next
  <2>3. CASE Discard
    BY <2>3, DiscardServes DEF Service!Next
  <2>4. CASE Shutdown
    BY <2>4, ShutdownServes DEF Service!Next
  <2>5. ASSUME NEW d \in Delegates, MainPost(d)
        PROVE  Service!Next
    BY <2>5, MainPostServes DEF Service!Next
  <2>6. CASE \/ DispatchTake \/ \E k \in {"modal", "wait"} : OpenLoop(k)
             \/ WaitCheck \/ WaitTimeout \/ HandleEnd \/ HandleClose
    BY <1>1, <2>6 DEF DispatchTake, OpenLoop, WaitCheck, WaitTimeout, HandleEnd, HandleClose, CloseLoop
  <2>7. CASE PollRead \/ PollIdle \/ ScanBegin \/ ScanCheckForEsc \/ ScanEnd
    BY <1>1, <2>7 DEF PollRead, PollIdle, ScanBegin, ScanCheckForEsc, ScanEnd
  <2> QED BY <1>3, <2>1, <2>2, <2>3, <2>4, <2>5, <2>6, <2>7 DEF MainStep
<1>4. CASE UserKey
  BY <1>1, <1>4 DEF UserKey
<1>5. CASE UNCHANGED vars
  BY <1>1, <1>5 DEF vars
<1> QED BY <1>2, <1>3, <1>4, <1>5 DEF Next

\* InterThreadCall and InterThreadCallAsync keep what CallService promises: a call runs at
\* most once, succeeds only if its function returned, and is dropped unrun only once the
\* dispatcher has been destroyed.
THEOREM Implements == Spec => ImplementsService
<1>1. Init => Service!Init
  <2>1. ASSUME Init PROVE \A d \in Delegates : CallProgress(d) = "none"
    BY <2>1 DEF Init, CallProgress
  <2> QED BY <2>1 DEF Init, Service!Init
<1>2. IInv /\ [Next]_vars => [Service!Next]_<<tid # NoThread, [d \in Delegates |-> CallProgress(d)]>>
  BY StepServes DEF Calls
<1> QED BY <1>1, <1>2, Invariance, PTL DEF Spec, ImplementsService, Service!Spec

-----------------------------------------------------------------------------
(* The record that kicks the main thread                                   *)


NoScan == \A n \in Levels : pc[n] # "scan"

\* Enqueue writes the record when it fills an empty queue, and takes none away.
LEMMA EnqueueKicks ==
  ASSUME TypeOK, KickIsPending, NoScan, NEW d \in Delegates, Enqueue(d), UNCHANGED depth
  PROVE  KickIsPending' /\ NoScan'
<1>1. /\ depth \in Levels /\ queue \in Seq(Delegates) /\ input \in Seq({"noop", "key"})
      /\ pc \in [Levels -> LevelPCs] /\ pc' = Wake(pc)
  BY DEF TypeOK, Enqueue
<1>2. NoScan' /\ (pc'[depth] = "poll" => pc[depth] = "poll")
  BY <1>1 DEF NoScan, Wake
<1>3. WriteNoop(input) # <<>>
  BY <1>1 DEF WriteNoop
<1>4. queue = <<>> => input' # <<>>
  <2>1. Len(Append(<<>>, d)) = 1
    OBVIOUS
  <2> QED BY <1>3, <2>1 DEF Enqueue, KickNeeded
<1>5. input # <<>> => input' # <<>>
  BY <1>3 DEF Enqueue
<1> QED BY <1>2, <1>4, <1>5 DEF KickIsPending, At

\* Nothing else leads to polling with calls queued but the end of a rescan.
LEMMA StepKicks ==
  ASSUME ~Scans, IInv, KickIsPending, NoScan, [Next]_vars
  PROVE  KickIsPending' /\ NoScan'
<1>1. /\ depth \in Levels /\ pc \in [Levels -> LevelPCs] /\ TypeOK
      /\ input \in Seq({"noop", "key"})
  BY DEF IInv, TypeOK
<1>2. ASSUME NEW p \in LevelPCs \ {"poll", "scan"}, GoTo(p), UNCHANGED depth
      PROVE  KickIsPending' /\ NoScan'
  BY <1>1, <1>2 DEF GoTo, KickIsPending, NoScan, At
<1>3. ASSUME UNCHANGED <<queue, depth, pc>>, input' = input \/ input' # <<>>
      PROVE  KickIsPending' /\ NoScan'
  BY <1>3 DEF KickIsPending, NoScan, At
<1>4. ASSUME CloseLoop, pc[depth] \in {"handle", "lock"}
      PROVE  KickIsPending' /\ NoScan'
  <2>1. /\ depth' = depth - 1 /\ pc' = [pc EXCEPT ![depth] = "dispatch"] /\ depth - 1 \in Levels
        /\ depth - 1 < depth
    BY <1>1, <1>4 DEF CloseLoop
  <2>2. pc'[depth'] = pc[depth - 1] /\ pc[depth - 1] \in {"running", "handle"}
    BY <1>1, <2>1 DEF IInv, LevelsOK, LevelOK
  <2> QED BY <1>1, <2>1, <2>2 DEF KickIsPending, NoScan, At
<1>5. ASSUME NEW t \in Threads, WorkerStep(t)
      PROVE  KickIsPending' /\ NoScan'
  <2>1. CASE Post(t)
    <3>1. cur[t] \in Delegates /\ Enqueue(cur[t]) /\ depth' = depth
      BY <2>1 DEF Post, IInv, TypeOK, CallersOK, levelVars
    <3> QED BY <1>1, <3>1, EnqueueKicks
  <2>2. CASE Signal(t)
    BY <1>1, <2>2 DEF Signal, Wake, KickIsPending, NoScan, At, consoleVars
  <2>3. CASE \/ Reject(t) \/ Return(t)
             \/ \E d \in Delegates, isSync \in BOOLEAN : StartCall(t, d, isSync)
    BY <1>3, <2>3 DEF Reject, Return, StartCall, levelVars, consoleVars
  <2> QED BY <1>5, <2>1, <2>2, <2>3 DEF WorkerStep
<1>6. CASE MainStep
  <2>1. CASE DispatchTake
    <3>1. CASE queue = <<>>
      <4>1. queue' = <<>> /\ depth' = depth
        BY <2>1, <3>1 DEF DispatchTake
      <4>2. NoScan'
        BY <1>1, <2>1, <3>1 DEF DispatchTake, NoScan, GoTo, AfterDispatch
      <4> QED BY <4>1, <4>2 DEF KickIsPending
    <3>2. CASE queue # <<>>
      BY <1>2, <2>1, <3>2 DEF DispatchTake
    <3> QED BY <3>1, <3>2
  <2>2. CASE ProcessBegin \/ HandleEnd \/ WaitTimeout \/ PollIdle
             \/ \E how \in {"returned", "threw"} : ProcessEnd(how)
    BY <1>2, <2>2 DEF ProcessBegin, HandleEnd, WaitTimeout, PollIdle, ProcessEnd, levelVars
  <2>3. CASE Finalize \/ Discard
    <3>1. \E p \in LevelPCs \ {"poll", "scan"} : GoTo(p)
      BY <2>3 DEF Finalize, Discard, NextInBatch
    <3>2. UNCHANGED depth
      BY <2>3 DEF Finalize, Discard
    <3> QED BY <1>2, <3>1, <3>2
  <2>4. CASE PollRead
    <3>1. \E p \in LevelPCs \ {"poll", "scan"} : GoTo(p)
      BY <2>4 DEF PollRead
    <3> QED BY <1>2, <2>4, <3>1 DEF PollRead, levelVars
  <2>5. ASSUME NEW d \in Delegates, MainPost(d)
        PROVE  KickIsPending' /\ NoScan'
    BY <1>1, <2>5, EnqueueKicks DEF MainPost, levelVars
  <2>6. ASSUME NEW k \in {"modal", "wait"}, OpenLoop(k)
        PROVE  KickIsPending' /\ NoScan'
    <3>1. /\ depth' = depth + 1 /\ depth + 1 \in Levels
          /\ pc' = [pc EXCEPT ![depth + 1] = "dispatch"]
      BY <1>1, <2>6 DEF OpenLoop
    <3> QED BY <1>1, <3>1 DEF KickIsPending, NoScan, At
  <2>7. CASE ScanBegin \/ ScanCheckForEsc \/ ScanEnd
    BY <1>1, <2>7 DEF ScanBegin, ScanCheckForEsc, ScanEnd, NoScan, At
  <2>8. CASE HandleClose
    BY <1>4, <2>8 DEF HandleClose, At
  <2>9. CASE WaitCheck
    BY <1>2, <1>4, <2>9 DEF WaitCheck, At, levelVars
  <2>10. CASE Shutdown
    <3>1. \E p \in LevelPCs \ {"poll", "scan"} : GoTo(p)
      BY <2>10 DEF Shutdown
    <3> QED BY <1>2, <2>10, <3>1 DEF Shutdown
  <2> QED BY <1>6, <2>1, <2>2, <2>3, <2>4, <2>5, <2>6, <2>7, <2>8, <2>9, <2>10 DEF MainStep
<1>7. CASE UserKey
  <2>1. input' # <<>>
    BY <1>1, <1>7 DEF UserKey
  <2> QED BY <1>3, <1>7, <2>1 DEF UserKey, levelVars
<1>8. CASE UNCHANGED vars
  BY <1>3, <1>8 DEF vars, consoleVars, levelVars
<1> QED BY <1>5, <1>6, <1>7, <1>8 DEF Next

\* EnqueueInterThreadCallDelegate: the main thread never polls an empty console with calls
\* queued, as long as no rescan of the panels reads the record that is to kick it.
THEOREM KicksPend == ASSUME ~Scans PROVE Spec => []KickIsPending
<1>1. Init => KickIsPending /\ NoScan
  BY DEF Init, KickIsPending, NoScan
<1>2. IInv /\ KickIsPending /\ NoScan /\ [Next]_vars => KickIsPending' /\ NoScan'
  BY StepKicks
<1> QED BY <1>1, <1>2, Invariance, PTL DEF Spec

-----------------------------------------------------------------------------
(* The order of calls.  The batches, from the outermost level on, and the  *)
(* queue are rows of delegates; who was enqueued earlier is in an earlier  *)
(* row, or in the same one and before.                                     *)

CallRows   == 1 .. MaxDepth + 1
CallRow(n) == IF n \in Levels THEN batch[n] ELSE queue

Precedes(c, d) ==
  \E m, n \in CallRows : \E i \in 1 .. Len(CallRow(m)), j \in 1 .. Len(CallRow(n)) :
    CallRow(m)[i] = c /\ CallRow(n)[j] = d /\ (m < n \/ (m = n /\ i < j))

Listed(d) == InPlace(d) /\ obj[d].outcome = "unrun"

OrderInv ==
  /\ earlier \subseteq Delegates \X Delegates
  /\ \A p \in earlier : Listed(p[1]) /\ Listed(p[2]) /\ (p[1] # p[2] => Precedes(p[1], p[2]))

\* What a step does to the rows: nothing, a delegate is enqueued, the top level takes the
\* queue, or it is done with the first of its batch.
RowsStay == UNCHANGED <<queue, batch>>

RowsGrow ==
  \E d \in Delegates : ~InPlace(d) /\ queue' = Append(queue, d) /\ batch' = batch

RowsTaken ==
  batch[depth] = <<>> /\ queue' = <<>> /\ batch' = [batch EXCEPT ![depth] = queue]

RowsShrink ==
  /\ batch[depth] # <<>> /\ Head(batch[depth]) \in TakenUp
  /\ queue' = queue /\ batch' = [batch EXCEPT ![depth] = Tail(@)]

-----------------------------------------------------------------------------
\* The rows are sequences of delegates, and a delegate is at one place in them.
LEMMA RowFacts ==
  ASSUME TypeOK, PlacesOK
  PROVE  /\ \A n \in CallRows : CallRow(n) \in Seq(Delegates) /\ Len(CallRow(n)) \in Nat
         /\ \A d : InPlace(d) <=> \E n \in CallRows : \E i \in 1 .. Len(CallRow(n)) : CallRow(n)[i] = d
         /\ \A m, n \in CallRows : \A i \in 1 .. Len(CallRow(m)), j \in 1 .. Len(CallRow(n)) :
              CallRow(m)[i] = CallRow(n)[j] => m = n /\ i = j
<1>1. /\ MaxDepth + 1 \in CallRows /\ CallRow(MaxDepth + 1) = queue
      /\ \A n \in Levels : n \in CallRows /\ CallRow(n) = batch[n]
      /\ \A n \in CallRows : n \in Levels \/ n = MaxDepth + 1
  BY DEF CallRows, CallRow
<1>2. /\ queue \in Seq(Delegates) /\ Len(queue) \in Nat
      /\ \A n \in Levels : batch[n] \in Seq(Delegates) /\ Len(batch[n]) \in Nat
  BY DEF TypeOK
<1>3. \A n \in CallRows : CallRow(n) \in Seq(Delegates) /\ Len(CallRow(n)) \in Nat
  BY <1>1, <1>2
<1>4. ASSUME NEW d
      PROVE  InPlace(d) <=> \E n \in CallRows : \E i \in 1 .. Len(CallRow(n)) : CallRow(n)[i] = d
  BY <1>1 DEF InPlace
<1>5. ASSUME NEW m \in CallRows, NEW n \in CallRows,
             NEW i \in 1 .. Len(CallRow(m)), NEW j \in 1 .. Len(CallRow(n)),
             CallRow(m)[i] = CallRow(n)[j]
      PROVE  m = n /\ i = j
  <2>1. CASE m \in Levels /\ n \in Levels
    <3>1. batch[m][i] = batch[n][j] /\ i \in 1 .. Len(batch[m]) /\ j \in 1 .. Len(batch[n])
      BY <1>1, <1>5, <2>1
    <3>2. m = n
      BY <2>1, <3>1 DEF PlacesOK
    <3>3. \A h, k \in 1 .. Len(batch[m]) : batch[m][h] = batch[m][k] => h = k
      BY <2>1 DEF PlacesOK
    <3>. QED  BY ONLY <3>1, <3>2, <3>3
  <2>2. CASE m = MaxDepth + 1 /\ n \in Levels
    BY <1>1, <1>5, <2>2 DEF PlacesOK
  <2>3. CASE m \in Levels /\ n = MaxDepth + 1
    BY <1>1, <1>5, <2>3 DEF PlacesOK
  <2>4. CASE m = MaxDepth + 1 /\ n = MaxDepth + 1
    BY <1>1, <1>5, <2>4 DEF PlacesOK
  <2>. QED  BY <1>1, <2>1, <2>2, <2>3, <2>4
<1>. QED  BY <1>3, <1>4, <1>5

\* EnqueueInterThreadCallDelegate: what waits stays where it is, and the new one is behind it.
LEMMA GrowKeepsOrder ==
  ASSUME TypeOK, PlacesOK, NEW d \in Delegates, queue' = Append(queue, d), batch' = batch
  PROVE  /\ \A x, y : Precedes(x, y) => Precedes(x, y)'
         /\ \A x : InPlace(x) => Precedes(x, d)'
<1>1. /\ queue' \in Seq(Delegates) /\ Len(queue') = Len(queue) + 1 /\ Len(queue) \in Nat
      /\ \A i \in 1 .. Len(queue) : queue'[i] = queue[i]
      /\ queue'[Len(queue) + 1] = d
  BY AppendFacts DEF TypeOK
<1>2. /\ \A n \in CallRows : \A i \in 1 .. Len(CallRow(n)) :
           i \in 1 .. Len(CallRow(n)') /\ CallRow(n)'[i] = CallRow(n)[i]
      /\ \A n \in CallRows : n # MaxDepth + 1 => n < MaxDepth + 1
      /\ MaxDepth + 1 \in CallRows /\ CallRow(MaxDepth + 1) = queue /\ CallRow(MaxDepth + 1)' = queue'
  BY <1>1 DEF CallRows, CallRow
<1>3. ASSUME NEW x, NEW y, Precedes(x, y) PROVE Precedes(x, y)'
  BY <1>2, <1>3 DEF Precedes
<1>4. ASSUME NEW x, InPlace(x) PROVE Precedes(x, d)'
  <2>0. PICK n \in CallRows : \E i \in 1 .. Len(CallRow(n)) : CallRow(n)[i] = x
    BY <1>4, RowFacts
  <2>1. PICK i \in 1 .. Len(CallRow(n)) : CallRow(n)[i] = x
    BY <2>0
  <2>2. PICK k \in CallRows, j \in 1 .. Len(queue') : k = MaxDepth + 1 /\ j = Len(queue) + 1
    BY <1>1, <1>2
  <2>3. i \in 1 .. Len(CallRow(n)') /\ CallRow(n)'[i] = x
    BY <1>2, <2>1
  <2>4. j \in 1 .. Len(CallRow(k)') /\ CallRow(k)'[j] = d
    BY <1>1, <1>2, <2>2
  <2>5. n < k \/ (n = k /\ i < j)
    BY <1>1, <1>2, <2>1, <2>2
  <2>. QED  BY <2>3, <2>4, <2>5 DEF Precedes
<1>. QED  BY <1>3, <1>4

\* DispatchInterThreadCalls, ~InterThreadCallsDispatcherThread: the queue becomes the batch of
\* the top level, behind those of the others.
LEMMA TakeKeepsOrder ==
  ASSUME TypeOK, LevelsOK, RowsTaken
  PROVE  \A x, y : Precedes(x, y) => Precedes(x, y)'
<1>1. /\ depth \in Levels /\ queue' = <<>> /\ batch'[depth] = queue
      /\ \A n \in Levels : n # depth => batch'[n] = batch[n]
  BY DEF RowsTaken, TypeOK
<1>2. \A n \in Levels : n > depth => batch[n] = <<>>
  <2>1. \A n \in Levels : n > depth => pc[n] \notin InBatch
    BY DEF LevelsOK, LevelOK, InBatch
  <2>. QED  BY <2>1 DEF LevelsOK, LevelOK
<1>3. \A n \in Levels : 1 .. Len(batch[n]) # {} => n < depth
  <2>1. 1 .. Len(<<>>) = {}
    OBVIOUS
  <2>. QED  BY <1>1, <1>2, <2>1 DEF RowsTaken
<1>4. ASSUME NEW n \in CallRows, NEW i \in 1 .. Len(CallRow(n))
      PROVE  \E k \in CallRows :
               /\ i \in 1 .. Len(CallRow(k)') /\ CallRow(k)'[i] = CallRow(n)[i]
               /\ (n = MaxDepth + 1 /\ k = depth) \/ (n < depth /\ k = n)
  <2>1. CASE n = MaxDepth + 1
    <3>1. PICK k \in Levels : k = depth
      BY <1>1
    <3>2. CallRow(n) = queue /\ CallRow(k)' = queue /\ k \in CallRows
      BY <1>1, <2>1, <3>1 DEF CallRow, CallRows
    <3>. QED  BY <2>1, <3>1, <3>2
  <2>2. CASE n \in Levels
    <3>1. n < depth
      BY <1>3, <2>2 DEF CallRow
    <3>2. CallRow(n)' = CallRow(n)
      BY <1>1, <2>2, <3>1 DEF CallRow
    <3>. QED  BY <3>1, <3>2
  <2>. QED  BY <2>1, <2>2 DEF CallRows
<1>5. ASSUME NEW x, NEW y, Precedes(x, y) PROVE Precedes(x, y)'
  <2>0. PICK m \in CallRows, n \in CallRows :
          \E i \in 1 .. Len(CallRow(m)), j \in 1 .. Len(CallRow(n)) :
            CallRow(m)[i] = x /\ CallRow(n)[j] = y /\ (m < n \/ (m = n /\ i < j))
    BY <1>5 DEF Precedes
  <2>1. PICK i \in 1 .. Len(CallRow(m)), j \in 1 .. Len(CallRow(n)) :
          CallRow(m)[i] = x /\ CallRow(n)[j] = y /\ (m < n \/ (m = n /\ i < j))
    BY <2>0
  <2>2. PICK k \in CallRows : /\ i \in 1 .. Len(CallRow(k)') /\ CallRow(k)'[i] = x
                              /\ (m = MaxDepth + 1 /\ k = depth) \/ (m < depth /\ k = m)
    BY <1>4, <2>1
  <2>3. PICK l \in CallRows : /\ j \in 1 .. Len(CallRow(l)') /\ CallRow(l)'[j] = y
                              /\ (n = MaxDepth + 1 /\ l = depth) \/ (n < depth /\ l = n)
    BY <1>4, <2>1
  <2>4. k < l \/ (k = l /\ i < j)
    BY <1>1, <2>1, <2>2, <2>3 DEF CallRows
  <2>. QED  BY <2>2, <2>3, <2>4 DEF Precedes
<1>. QED  BY <1>5

\* The next one of the batch: the others of the row are one place nearer.
LEMMA ShrinkKeepsOrder ==
  ASSUME TypeOK, NEW h, h = Head(batch[depth]), RowsShrink
  PROVE  \A x, y : Precedes(x, y) /\ x # h /\ y # h => Precedes(x, y)'
<1>1. depth \in Levels /\ batch[depth] \in Seq(Delegates) /\ batch[depth] # <<>>
  BY DEF TypeOK, RowsShrink
<1>2. /\ h = batch[depth][1] /\ Len(batch[depth]) \in Nat
      /\ Len(batch'[depth]) = Len(batch[depth]) - 1
      /\ \A i \in 1 .. (Len(batch[depth]) - 1) : batch'[depth][i] = batch[depth][i + 1]
      /\ \A n \in Levels : n # depth => batch'[n] = batch[n]
  BY <1>1, TailFacts DEF TypeOK, RowsShrink
<1>3. ASSUME NEW n \in CallRows, NEW i \in 1 .. Len(CallRow(n)), CallRow(n)[i] # h
      PROVE  \E k \in 1 .. Len(CallRow(n)') :
               CallRow(n)'[k] = CallRow(n)[i] /\ ((n = depth /\ k + 1 = i) \/ (n # depth /\ k = i))
  <2>1. CASE n = depth
    <3>1. CallRow(n) = batch[depth] /\ CallRow(n)' = batch'[depth]
      BY <1>1, <2>1 DEF CallRow
    <3>2. i # 1
      BY <1>2, <1>3, <3>1
    <3>3. PICK k \in Nat : k + 1 = i
      BY <3>2
    <3>4. k \in 1 .. (Len(batch[depth]) - 1) /\ k \in 1 .. Len(CallRow(n)')
      BY <1>2, <3>1, <3>2, <3>3
    <3>. QED  BY <1>2, <2>1, <3>1, <3>3, <3>4
  <2>2. CASE n # depth
    <3>1. CallRow(n)' = CallRow(n)
      BY <1>1, <1>2, <2>2 DEF CallRow, RowsShrink
    <3>. QED  BY <2>2, <3>1
  <2>. QED  BY <2>1, <2>2
<1>4. ASSUME NEW x, NEW y, Precedes(x, y), x # h, y # h PROVE Precedes(x, y)'
  <2>0. PICK m \in CallRows, n \in CallRows :
          \E i \in 1 .. Len(CallRow(m)), j \in 1 .. Len(CallRow(n)) :
            CallRow(m)[i] = x /\ CallRow(n)[j] = y /\ (m < n \/ (m = n /\ i < j))
    BY <1>4 DEF Precedes
  <2>1. PICK i \in 1 .. Len(CallRow(m)), j \in 1 .. Len(CallRow(n)) :
          CallRow(m)[i] = x /\ CallRow(n)[j] = y /\ (m < n \/ (m = n /\ i < j))
    BY <2>0
  <2>2. PICK k \in 1 .. Len(CallRow(m)') :
          CallRow(m)'[k] = x /\ ((m = depth /\ k + 1 = i) \/ (m # depth /\ k = i))
    BY <1>3, <1>4, <2>1
  <2>3. PICK l \in 1 .. Len(CallRow(n)') :
          CallRow(n)'[l] = y /\ ((n = depth /\ l + 1 = j) \/ (n # depth /\ l = j))
    BY <1>3, <1>4, <2>1
  <2>4. m < n \/ (m = n /\ k < l)
    BY <2>1, <2>2, <2>3 DEF CallRows
  <2>. QED  BY <2>2, <2>3, <2>4 DEF Precedes
<1>. QED  BY <1>4

-----------------------------------------------------------------------------
\* Who is done with a delegate has answered it or destroyed it.
LEMMA FinalizedIsTakenUp ==
  ASSUME IInv, NEW d \in Delegates, NEW b, FinalizeDelegate(d, b)
  PROVE  d \in TakenUp
<1>1. obj \in [Delegates -> Object]
  BY DEF IInv, TypeOK
<1>2. CASE obj[d].sync
  <2>1. obj' = [obj EXCEPT ![d] = [obj[d] EXCEPT !.done = TRUE, !.discarded = b]]
    BY <1>2 DEF FinalizeDelegate
  <2>2. obj'[d].done
    BY <1>1, <2>1, Zenon DEF Object
  <2>. QED  BY <2>2 DEF TakenUp
<1>3. CASE ~obj[d].sync
  BY <1>3 DEF FinalizeDelegate, Destroy, TakenUp
<1>. QED  BY <1>2, <1>3

\* Each step does one of four things to the rows.
LEMMA RowSteps ==
  ASSUME IInv, [Next]_vars
  PROVE  RowsStay \/ RowsGrow \/ RowsTaken \/ RowsShrink
<1>1. ASSUME NEW t \in Threads, WorkerStep(t) PROVE RowsStay \/ RowsGrow
  <2>1. CASE Post(t)
    <3>1. cur[t] \in Delegates /\ ~InPlace(cur[t])
      BY <2>1, PlaceFacts DEF Post, Reachable, IInv, CallersOK, TypeOK
    <3>. QED  BY <2>1, <3>1 DEF Post, Enqueue, levelVars, RowsGrow
  <2>2. ASSUME NEW d \in Delegates, NEW b \in BOOLEAN, StartCall(t, d, b) PROVE RowsStay
    BY <2>2 DEF StartCall, levelVars, RowsStay
  <2>3. CASE Reject(t) \/ Return(t) \/ Signal(t)
    BY <2>3 DEF Reject, Return, Signal, levelVars, RowsStay
  <2>. QED  BY <1>1, <2>1, <2>2, <2>3 DEF WorkerStep
<1>2. CASE MainStep
  <2>1. CASE DispatchTake \/ Shutdown
    <3>1. batch[depth] = <<>>
      <4>1. depth \in Levels /\ pc[depth] \notin InBatch
        BY <2>1 DEF DispatchTake, Shutdown, At, InBatch, IInv, TypeOK
      <4>. QED  BY <4>1 DEF IInv, LevelsOK, LevelOK
    <3>. QED  BY <2>1, <3>1 DEF DispatchTake, Shutdown, RowsStay, RowsTaken
  <2>2. CASE Finalize \/ Discard
    <3>1. Current \in Delegates /\ batch[depth] # <<>>
      <4>1. depth \in Levels /\ pc[depth] \in InBatch
        BY <2>2 DEF Finalize, Discard, At, InBatch, IInv, TypeOK
      <4>. QED  BY <4>1, CurrentFacts DEF IInv, LevelsOK, LevelOK
    <3>2. Current \in TakenUp
      BY <2>2, <3>1, FinalizedIsTakenUp DEF Finalize, Discard
    <3>. QED  BY <2>2, <3>1, <3>2 DEF Finalize, Discard, NextInBatch, Current, RowsShrink
  <2>3. ASSUME NEW d \in Delegates, MainPost(d) PROVE RowsGrow
    <3>1. ~InPlace(d)
      BY <2>3, PlaceFacts DEF MainPost, Construct, Reachable, IInv
    <3>. QED  BY <2>3, <3>1 DEF MainPost, Enqueue, levelVars, RowsGrow
  <2>4. ASSUME NEW how \in {"returned", "threw"}, ProcessEnd(how) PROVE RowsStay
    BY <2>4 DEF ProcessEnd, levelVars, RowsStay
  <2>5. ASSUME NEW k \in {"modal", "wait"}, OpenLoop(k) PROVE RowsStay
    BY <2>5 DEF OpenLoop, RowsStay
  <2>6. CASE ProcessBegin \/ HandleClose \/ WaitCheck \/ WaitTimeout
    BY <2>6 DEF ProcessBegin, HandleClose, WaitCheck, CloseLoop, WaitTimeout, levelVars, RowsStay
  <2>7. CASE PollRead \/ PollIdle \/ ScanBegin \/ ScanCheckForEsc \/ ScanEnd \/ HandleEnd
    BY <2>7 DEF PollRead, PollIdle, ScanBegin, ScanCheckForEsc, ScanEnd, HandleEnd, levelVars, RowsStay
  <2>. QED  BY <1>2, <2>1, <2>2, <2>3, <2>4, <2>5, <2>6, <2>7 DEF MainStep
<1>3. CASE UserKey \/ UNCHANGED vars
  BY <1>3 DEF UserKey, vars, levelVars, RowsStay
<1>. QED  BY <1>1, <1>2, <1>3 DEF Next

\* Whatever moves, what waits and is not taken up stays in place and in order.
LEMMA RowsKeepOrder ==
  ASSUME IInv, RowsStay \/ RowsGrow \/ RowsTaken \/ RowsShrink
  PROVE  /\ \A x : InPlace(x) /\ x \notin TakenUp => InPlace(x)'
         /\ \A x, y : Precedes(x, y) /\ x \notin TakenUp /\ y \notin TakenUp => Precedes(x, y)'
<1>. USE DEF IInv
<1>1. CASE RowsStay
  <2>1. queue' = queue /\ batch' = batch
    BY <1>1 DEF RowsStay
  <2>. QED  BY <2>1 DEF InPlace, Precedes, CallRow
<1>2. CASE RowsGrow
  <2>1. PICK d \in Delegates : ~InPlace(d) /\ queue' = Append(queue, d) /\ batch' = batch
    BY <1>2 DEF RowsGrow
  <2>2. \A x : InPlace(x) => InPlace(x)'
    BY <2>1, EnqueuePlaces
  <2>3. \A x, y : Precedes(x, y) => Precedes(x, y)'
    BY <2>1, GrowKeepsOrder
  <2>. QED  BY <2>2, <2>3
<1>3. CASE RowsTaken
  <2>1. depth \in Levels
    BY DEF TypeOK
  <2>2. \A x : InPlace(x) => InPlace(x)'
    BY <1>3, <2>1, TakePlaces DEF RowsTaken
  <2>3. \A x, y : Precedes(x, y) => Precedes(x, y)'
    BY <1>3, TakeKeepsOrder
  <2>. QED  BY <2>2, <2>3
<1>4. CASE RowsShrink
  <2>1. PICK h : h = Head(batch[depth])
    OBVIOUS
  <2>2. h \in TakenUp /\ depth \in Levels
    BY <1>4, <2>1 DEF RowsShrink, TypeOK
  <2>3. \A x : InPlace(x) /\ x # h => InPlace(x)'
    BY <1>4, <2>1, <2>2, TailPlaces DEF RowsShrink
  <2>4. \A x, y : Precedes(x, y) /\ x # h /\ y # h => Precedes(x, y)'
    BY <1>4, <2>1, ShrinkKeepsOrder
  <2>. QED  BY <2>2, <2>3, <2>4
<1>. QED  BY <1>1, <1>2, <1>3, <1>4

\* What arrives is one delegate, which is enqueued behind all that waits.
LEMMA ArrivedIs ==
  ASSUME IInv, RowsStay \/ RowsGrow \/ RowsTaken \/ RowsShrink
  PROVE  \A d \in Arrived : d \in Delegates /\ InPlace(d)' /\ Arrived = {d}
                            /\ \A x : InPlace(x) => Precedes(x, d)'
<1>. USE DEF IInv
<1>1. CASE RowsStay \/ RowsShrink
  <2>1. queue' = queue
    BY <1>1 DEF RowsStay, RowsShrink
  <2>2. Arrived = {}
    BY <2>1 DEF Arrived, Queued
  <2>. QED  BY <2>2
<1>2. CASE RowsTaken
  <2>1. 1 .. Len(queue') = {}
    BY <1>2 DEF RowsTaken
  <2>2. Arrived = {}
    BY <2>1 DEF Arrived, Queued
  <2>. QED  BY <2>2
<1>3. CASE RowsGrow
  <2>1. PICK d \in Delegates : ~InPlace(d) /\ queue' = Append(queue, d) /\ batch' = batch
    BY <1>3 DEF RowsGrow
  <2>2. /\ Len(queue') = Len(queue) + 1 /\ Len(queue) \in Nat
        /\ \A i \in 1 .. Len(queue) : queue'[i] = queue[i]
        /\ queue'[Len(queue) + 1] = d
    BY <2>1, AppendFacts DEF TypeOK
  <2>3. Arrived \subseteq {d}
    <3>1. ASSUME NEW e \in Arrived PROVE e = d
      <4>1. PICK i \in 1 .. Len(queue') : queue'[i] = e
        BY <3>1 DEF Arrived, Queued
      <4>2. i \notin 1 .. Len(queue)
        BY <2>2, <3>1, <4>1 DEF Arrived, Queued
      <4>3. i = Len(queue) + 1
        BY <2>2, <4>1, <4>2
      <4>. QED  BY <2>2, <4>1, <4>3
    <3>. QED  BY <3>1
  <2>4. InPlace(d)'
    BY <2>1, EnqueuePlaces
  <2>5. \A x : InPlace(x) => Precedes(x, d)'
    BY <2>1, GrowKeepsOrder
  <2>. QED  BY <2>1, <2>3, <2>4, <2>5
<1>. QED  BY <1>1, <1>2, <1>3

\* The order stays that of the rows.
LEMMA OrderStep ==
  ASSUME IInv, OrderInv, [NextWithHistory]_<<vars, earlier>>
  PROVE  OrderInv'
<1>1. [Next]_vars
  BY DEF NextWithHistory
<1>2. RowsStay \/ RowsGrow \/ RowsTaken \/ RowsShrink
  BY <1>1, RowSteps
<1>3. CASE UNCHANGED <<vars, earlier>>
  <2>1. queue' = queue /\ batch' = batch /\ obj' = obj /\ earlier' = earlier
    BY <1>3 DEF vars, levelVars, delegateVars
  <2>. QED  BY <2>1 DEF OrderInv, Listed, InPlace, Precedes, CallRow
<1>4. CASE NextWithHistory
  <2>1. ASSUME NEW p \in earlier'
        PROVE  /\ p \in Delegates \X Delegates /\ Listed(p[1])' /\ Listed(p[2])'
               /\ p[1] # p[2] => Precedes(p[1], p[2])'
    <3>1. /\ p[1] \notin TakenUp /\ p[2] \notin TakenUp
          /\ p \in earlier \/ p \in (Enqueued \cup Arrived) \X Arrived
      BY <1>4, <2>1 DEF NextWithHistory
    <3>2. ASSUME NEW d \in Delegates, d \notin TakenUp PROVE obj'[d].outcome = "unrun"
      BY <3>2 DEF TakenUp
    <3>3. CASE p \in earlier
      <4>1. /\ p \in Delegates \X Delegates /\ InPlace(p[1]) /\ InPlace(p[2])
            /\ p[1] # p[2] => Precedes(p[1], p[2])
        BY <3>3 DEF OrderInv, Listed
      <4>2. InPlace(p[1])' /\ InPlace(p[2])' /\ (p[1] # p[2] => Precedes(p[1], p[2])')
        BY <1>2, <3>1, <4>1, RowsKeepOrder
      <4>. QED  BY <3>1, <3>2, <4>1, <4>2 DEF Listed
    <3>4. CASE p \in (Enqueued \cup Arrived) \X Arrived
      <4>1. PICK x \in Enqueued \cup Arrived, d \in Arrived : p = <<x, d>>
        BY <3>4
      <4>2. p[1] = x /\ p[2] = d
        BY <4>1
      <4>3. /\ d \in Delegates /\ InPlace(d)' /\ Arrived = {d}
            /\ \A z : InPlace(z) => Precedes(z, d)'
        BY <1>2, ArrivedIs
      <4>4. CASE x \in Enqueued
        <5>1. x \in Delegates /\ InPlace(x)
          BY <4>4 DEF Enqueued, OrderInv, Listed
        <5>2. InPlace(x)'
          BY <1>2, <3>1, <4>2, <5>1, RowsKeepOrder
        <5>. QED  BY <3>1, <3>2, <4>1, <4>2, <4>3, <5>1, <5>2 DEF Listed
      <4>5. CASE x = d
        BY <3>1, <3>2, <4>1, <4>2, <4>3, <4>5 DEF Listed
      <4>. QED  BY <4>1, <4>3, <4>4, <4>5
    <3>. QED  BY <3>1, <3>3, <3>4
  <2>. QED  BY <2>1 DEF OrderInv
<1>. QED  BY <1>3, <1>4

\* In the midst of a batch, only Process takes a delegate up: the one the dispatch has come to.
LEMMA TakenUpIsCurrent ==
  ASSUME IInv, Next, At("process"), NEW d \in Delegates, Listed(d), d \in TakenUp
  PROVE  d = Current
<1>1. /\ obj \in [Delegates -> Object] /\ Reachable(d) /\ obj[d].outcome = "unrun"
  BY PlaceFacts DEF IInv, TypeOK, Listed
<1>2. d \in live /\ ~obj[d].done /\ \A t \in Threads : cur[t] = d => tpc[t] = "wait"
  BY <1>1 DEF Reachable
<1>3. obj'[d] # obj[d] \/ d \notin live'
  BY <1>1, <1>2 DEF TakenUp
<1>4. ASSUME NEW t \in Threads, WorkerStep(t) PROVE FALSE
  <2>1. ASSUME NEW e \in Delegates, NEW b \in BOOLEAN, StartCall(t, e, b) PROVE FALSE
    BY <1>1, <1>2, <1>3, <2>1 DEF StartCall, Construct
  <2>2. CASE Post(t) \/ Signal(t)
    BY <1>2, <1>3, <2>2 DEF Post, Signal, delegateVars
  <2>3. CASE Reject(t) \/ Return(t)
    <3>1. cur[t] # d /\ Destroy(cur[t])
      BY <1>2, <2>3 DEF Reject, Return, CanReturn
    <3>. QED  BY <1>1, <1>2, <1>3, <3>1 DEF Destroy
  <2>. QED  BY <1>4, <2>1, <2>2, <2>3 DEF WorkerStep
<1>5. CASE MainStep
  <2>1. CASE ProcessBegin
    <3>1. obj' = [obj EXCEPT ![Current].outcome = "running"] /\ live' = live
      BY <2>1 DEF ProcessBegin
    <3>. QED  BY <1>1, <1>2, <1>3, <3>1
  <2>2. ASSUME NEW how \in {"returned", "threw"}, ProcessEnd(how) PROVE FALSE
    BY <2>2 DEF ProcessEnd, At
  <2>3. ASSUME NEW k \in {"modal", "wait"}, OpenLoop(k) PROVE FALSE
    BY <2>3 DEF OpenLoop, RunsCode, At
  <2>4. ASSUME NEW e \in Delegates, MainPost(e) PROVE FALSE
    BY <2>4 DEF MainPost, RunsCode, At
  <2>5. CASE \/ DispatchTake \/ Finalize \/ PollRead \/ PollIdle \/ ScanBegin \/ ScanCheckForEsc \/ ScanEnd
             \/ HandleEnd \/ HandleClose \/ WaitCheck \/ WaitTimeout \/ Shutdown \/ Discard
    BY <2>5 DEF DispatchTake, Finalize, PollRead, PollIdle, ScanBegin, ScanCheckForEsc, ScanEnd,
         HandleEnd, HandleClose, WaitCheck, WaitTimeout, Shutdown, Discard, At
  <2>. QED  BY <1>5, <2>1, <2>2, <2>3, <2>4, <2>5 DEF MainStep
<1>6. CASE UserKey
  BY <1>2, <1>3, <1>6 DEF UserKey, delegateVars
<1>. QED  BY <1>4, <1>5, <1>6 DEF Next

\* DispatchInterThreadCalls walks its batch from the front: what was enqueued before the one it
\* has come to, and still waits, is in the batch of a dispatch that is suspended.
LEMMA StartIsNext ==
  ASSUME IInv, OrderInv, Next, NEW p \in earlier, p[1] # p[2], p[2] \in TakenUp, At("process")
  PROVE  \E n \in 1 .. depth - 1 : p[1] \in Taken(n)
<1>1. p[2] \in Delegates /\ Listed(p[2]) /\ Precedes(p[1], p[2]) /\ TypeOK /\ PlacesOK
  BY DEF OrderInv, IInv
<1>2. p[2] = Current
  BY <1>1, TakenUpIsCurrent
<1>3. depth \in Levels /\ batch[depth] \in Seq(Delegates) /\ batch[depth] # <<>>
  <2>1. depth \in Levels /\ batch[depth] \in Seq(Delegates)
    BY DEF IInv, TypeOK
  <2>. QED  BY <2>1 DEF IInv, LevelsOK, LevelOK, At, InBatch
<1>4. p[2] = batch[depth][1] /\ 1 \in 1 .. Len(batch[depth])
  BY <1>2, <1>3, TailFacts DEF Current
<1>5. depth \in CallRows /\ CallRow(depth) = batch[depth]
  BY <1>3 DEF CallRows, CallRow
<1>0. PICK m \in CallRows, n \in CallRows :
        \E i \in 1 .. Len(CallRow(m)), j \in 1 .. Len(CallRow(n)) :
          CallRow(m)[i] = p[1] /\ CallRow(n)[j] = p[2] /\ (m < n \/ (m = n /\ i < j))
  BY <1>1 DEF Precedes
<1>6. PICK i \in 1 .. Len(CallRow(m)), j \in 1 .. Len(CallRow(n)) :
        CallRow(m)[i] = p[1] /\ CallRow(n)[j] = p[2] /\ (m < n \/ (m = n /\ i < j))
  BY <1>0
<1>7. n = depth /\ j = 1
  BY <1>1, <1>4, <1>5, <1>6, RowFacts
<1>8. m < depth
  BY <1>6, <1>7
<1>9. m \in 1 .. depth - 1 /\ CallRow(m) = batch[m]
  BY <1>3, <1>6, <1>8 DEF CallRows, CallRow
<1>. QED  BY <1>6, <1>9 DEF Taken

\* Calls are taken up in the order in which they were enqueued, but for those that a suspended
\* dispatch holds, for any number of threads, delegates and nested loops.
THEOREM OrderKept == SpecWithHistory => StartsInOrder
<1>1. InitWithHistory => Init /\ OrderInv
  BY DEF InitWithHistory, OrderInv
<1>2. [NextWithHistory]_<<vars, earlier>> => [Next]_vars
  BY DEF NextWithHistory
<1>3. SpecWithHistory => []IInv
  BY <1>1, <1>2, Invariance, PTL DEF SpecWithHistory, Spec
<1>4. SpecWithHistory => []OrderInv
  BY <1>1, <1>3, OrderStep, PTL DEF SpecWithHistory
<1>5. IInv /\ OrderInv /\ [NextWithHistory]_<<vars, earlier>> =>
        [\A p \in earlier : p[1] # p[2] /\ p[2] \in TakenUp /\ At("process") =>
           \E n \in 1 .. depth - 1 : p[1] \in Taken(n)]_<<vars, earlier>>
  BY StartIsNext DEF NextWithHistory
<1>. QED  BY <1>3, <1>4, <1>5, PTL DEF SpecWithHistory, StartsInOrder
=============================================================================
