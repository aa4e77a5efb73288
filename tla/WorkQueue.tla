------------------------------- MODULE WorkQueue -------------------------------
(***************************************************************************)
(* utils/src/ThreadedWorkQueue.cpp: a pool of worker threads that process  *)
(* items in any order, for a producer that destroys them in the order in   *)
(* which it has queued them.  Producer and workers wait on one and the     *)
(* same condition variable.  The producer is the one thread that calls     *)
(* Queue, Finalize and the destructor (in far, the thread that searches).  *)
(* What a thread does under _mtx is one action.                            *)
(*                                                                         *)
(* An uncommented definition right before another one and named after it   *)
(* (TakeUncounted before Take) is a wrong version of it that nothing uses. *)
(***************************************************************************)
EXTENDS Naturals, Sequences, FiniteSets

CONSTANTS
  Producer,  \* the thread that owns the queue
  Workers,   \* the worker threads, _threads_count of them
  Limits,    \* values of backlog_limit
  MaxItems   \* bound: items queued between construction and destruction

ASSUME QueueAssumption ==
  /\ Producer \notin Workers
  /\ IsFiniteSet(Workers) /\ Workers # {}
  /\ Limits \subseteq Nat
  /\ MaxItems \in Nat \ {0}

VARIABLES
  made,       \* number of items queued; item k is the k-th of them
  backlog,    \* _backlog
  done,       \* _done: the pairs <<sequence number, item>>
  doneCount,  \* _done_counter
  finalized,  \* _finalized_counter
  working,    \* _working
  stopping,   \* _stopping
  notify,     \* _notify_on_done
  started,    \* _workers
  qpc,         \* pc[t]: where thread t is
  item,       \* item[w]: <<seq, twi>> of worker w, or NoItem
  limit,      \* backlog_limit of the producer's call
  worked,     \* history: the items whose WorkProc has ended
  destroyed   \* history: the items destroyed, in order

counters == <<doneCount, finalized, working>>
queueVars == <<made, backlog, done, counters, stopping, notify, started, qpc, item,
          limit, worked, destroyed>>

Items == 1..MaxItems
NoItem == <<0, 0>>
Pairs == (0..MaxItems) \X (0..MaxItems)

(* Producer: outside the class, in Queue, in Finalize, in the destructor.  *)
ProducerPCs == {"idle", "queueWait", "queueCheck", "finalWait", "finalCheck",
                "joining", "gone"}
(* Worker: not a thread, in WorkProc, before the lock, in _cond.wait, over *)
WorkerPCs == {"none", "work", "lock", "wait", "ended"}

QueueTypeOK ==
  /\ made \in 0..MaxItems
  /\ backlog \in Seq(Items)
  /\ done \subseteq Pairs
  /\ doneCount \in 0..MaxItems /\ finalized \in 0..MaxItems
  /\ working \in 0..Cardinality(Workers)
  /\ stopping \in BOOLEAN /\ notify \in BOOLEAN
  /\ started \subseteq Workers
  /\ qpc[Producer] \in ProducerPCs
  /\ \A w \in Workers : qpc[w] \in WorkerPCs
  /\ item \in [Workers -> Pairs]
  /\ limit \in Limits \cup {0}
  /\ worked \subseteq Items
  /\ destroyed \in Seq(Items)

QueueInit ==
  /\ made = 0 /\ backlog = <<>> /\ done = {}
  /\ doneCount = 0 /\ finalized = 0 /\ working = 0
  /\ stopping = FALSE /\ notify = FALSE
  /\ started = {}
  /\ qpc = [t \in Workers \cup {Producer} |-> IF t = Producer THEN "idle" ELSE "none"]
  /\ item = [w \in Workers |-> NoItem]
  /\ limit = 0 /\ worked = {} /\ destroyed = <<>>

-----------------------------------------------------------------------------
(* The condition variable                                                  *)

Waiting(p) == {t \in DOMAIN p : p[t] \in {"wait", "queueWait", "finalWait"}}

\* A thread that is woken has to get the lock again
Awake(where) == CASE where = "wait"      -> "lock"
                  [] where = "queueWait" -> "queueCheck"
                  [] where = "finalWait" -> "finalCheck"

WakeAll(p) == [t \in DOMAIN p |-> IF t \in Waiting(p) THEN Awake(p[t]) ELSE p[t]]

\* The outcomes of notify_one
WakeOne(p) ==
  IF Waiting(p) = {} THEN {p} ELSE {[p EXCEPT ![t] = Awake(@)] : t \in Waiting(p)}

\* A wait may end without a notification
SpuriousWake(t) ==
  /\ t \in Waiting(qpc)
  /\ qpc' = [qpc EXCEPT ![t] = Awake(@)]
  /\ UNCHANGED <<made, backlog, done, counters, stopping, notify, started, item,
                 limit, worked, destroyed>>

-----------------------------------------------------------------------------
(* The workers                                                             *)

\* WorkProc, outside the lock; what it throws is caught
Work(w) ==
  /\ qpc[w] = "work"
  /\ worked' = worked \cup {item[w][2]}
  /\ qpc' = [qpc EXCEPT ![w] = "lock"]
  /\ UNCHANGED <<made, backlog, done, counters, stopping, notify, started, item,
                 limit, destroyed>>

\* The producer asked to be told of the next finished item
Announce(p) == IF notify THEN WakeAll(p) ELSE p

TakeUncounted(w, inHand) ==
  /\ backlog # <<>>
  /\ doneCount' = doneCount + 1
  /\ item' = [item EXCEPT ![w] = <<doneCount + 1, Head(backlog)>>]
  /\ backlog' = Tail(backlog)
  /\ working' = working - inHand

\* The first item of the backlog gets the next sequence number
Take(w, inHand) ==
  /\ backlog # <<>>
  /\ doneCount' = doneCount + 1
  /\ item' = [item EXCEPT ![w] = <<doneCount + 1, Head(backlog)>>]
  /\ backlog' = Tail(backlog)
  /\ working' = working - inHand + 1

\* Under the lock: the item worked on is done, then the next one is taken,
\* or the worker waits, or it ends
WorkerLocked(w) ==
  LET has    == item[w] # NoItem
      inHand == IF has THEN 1 ELSE 0
      told   == IF has THEN Announce(qpc) ELSE qpc
  IN  /\ qpc[w] = "lock"
      /\ done' = done \cup (IF has THEN {item[w]} ELSE {})
      /\ notify' = (notify /\ ~has)
      /\ \/ /\ ~stopping
            /\ Take(w, inHand)
            /\ qpc' = [told EXCEPT ![w] = "work"]
         \/ /\ stopping \/ backlog = <<>>
            /\ qpc' = [told EXCEPT ![w] = IF stopping THEN "ended" ELSE "wait"]
            /\ item' = [item EXCEPT ![w] = NoItem]
            /\ working' = working - inHand
            /\ UNCHANGED <<backlog, doneCount>>
      /\ UNCHANGED <<made, finalized, stopping, started, limit, worked, destroyed>>

-----------------------------------------------------------------------------
(* The producer                                                            *)

\* FetchOrderedDoneItems: the finished items without a gap, from the last
\* one fetched, in order.  They are destroyed when the lock is released.
Fetchable ==
  {n \in {pair[1] : pair \in done} :
     \A k \in (finalized + 1)..n : \E pair \in done : pair[1] = k}

ItemOf(n) == (CHOOSE pair \in done : pair[1] = n)[2]

\* The items of a set of sequence numbers, in the order of these
InOrder(numbers) ==
  LET rank(n) == Cardinality({k \in numbers : k <= n})
  IN  [i \in 1..Cardinality(numbers) |-> ItemOf(CHOOSE n \in numbers : rank(n) = i)]

FetchOrderedDoneItems ==
  /\ destroyed' = destroyed \o InOrder(Fetchable)
  /\ finalized' = finalized + Cardinality(Fetchable)
  /\ done' = {pair \in done : pair[1] \notin Fetchable}

\* A first worker, or one more when there is work waiting already
WantsWorker ==
  \/ started = {}
  \/ backlog # <<>> /\ Cardinality(started) < Cardinality(Workers)

\* p with the worker threads of the queue, if the thread could be created
NewWorker(fresh, p) == [t \in DOMAIN p |-> IF t \in fresh THEN "lock" ELSE p[t]]

NotifyNever(p) == {p}

Notify(p) == IF backlog = <<>> THEN WakeOne(p) ELSE {WakeAll(p)}

\* Queue up to its first wait, or to its end.  fresh has the new worker.
Queue(fresh, backlogLimit) ==
  /\ qpc[Producer] = "idle"
  /\ made < MaxItems
  /\ IF WantsWorker THEN Cardinality(fresh) <= 1 /\ fresh \cap started = {} ELSE fresh = {}
  /\ started \cup fresh # {}
  /\ made' = made + 1
  /\ started' = started \cup fresh
  /\ backlog' = Append(backlog, made + 1)
  /\ limit' = backlogLimit
  /\ \E p \in Notify(NewWorker(fresh, qpc)) :
       IF Len(backlog') > backlogLimit
         THEN /\ notify' = TRUE
              /\ qpc' = [p EXCEPT ![Producer] = "queueWait"]
              /\ UNCHANGED <<destroyed, finalized, done>>
         ELSE /\ qpc' = p
              /\ FetchOrderedDoneItems
              /\ UNCHANGED notify
  /\ UNCHANGED <<doneCount, working, stopping, item, worked>>

\* There is no worker and none could be created: it is done here and now
QueueSynchronously(backlogLimit) ==
  /\ qpc[Producer] = "idle"
  /\ made < MaxItems
  /\ started = {}
  /\ made' = made + 1
  /\ limit' = backlogLimit
  /\ worked' = worked \cup {made + 1}
  /\ destroyed' = Append(destroyed, made + 1)
  /\ UNCHANGED <<backlog, done, counters, stopping, notify, started, qpc, item>>

QueueCheck ==
  /\ qpc[Producer] = "queueCheck"
  /\ IF Len(backlog) > limit
       THEN /\ notify' = TRUE
            /\ qpc' = [qpc EXCEPT ![Producer] = "queueWait"]
            /\ UNCHANGED <<destroyed, finalized, done>>
       ELSE /\ FetchOrderedDoneItems
            /\ qpc' = [qpc EXCEPT ![Producer] = "idle"]
            /\ UNCHANGED notify
  /\ UNCHANGED <<made, backlog, doneCount, working, stopping, started, item, limit, worked>>

AllDone == backlog = <<>> /\ working = 0

\* Finalize begins, or has been woken
QueueFinalize ==
  /\ qpc[Producer] \in {"idle", "finalCheck"}
  /\ IF AllDone
       THEN /\ FetchOrderedDoneItems
            /\ qpc' = [qpc EXCEPT ![Producer] = "idle"]
            /\ UNCHANGED notify
       ELSE /\ notify' = TRUE
            /\ qpc' = [qpc EXCEPT ![Producer] = "finalWait"]
            /\ UNCHANGED <<destroyed, finalized, done>>
  /\ UNCHANGED <<made, backlog, doneCount, working, stopping, started, item, limit, worked>>

\* ~ThreadedWorkQueue: the workers are told to stop, and joined ...
Stop ==
  /\ qpc[Producer] = "idle"
  /\ stopping' = (started # {})
  /\ qpc' = [(IF started # {} THEN WakeAll(qpc) ELSE qpc) EXCEPT ![Producer] = "joining"]
  /\ UNCHANGED <<made, backlog, done, counters, notify, started, item, limit, worked, destroyed>>

\* ... and what is left is destroyed, finished items before the others
Joined ==
  /\ qpc[Producer] = "joining"
  /\ \A w \in started : qpc[w] = "ended"
  /\ destroyed' = destroyed \o InOrder({pair[1] : pair \in done}) \o backlog
  /\ done' = {} /\ backlog' = <<>>
  /\ qpc' = [qpc EXCEPT ![Producer] = "gone"]
  /\ UNCHANGED <<made, counters, stopping, notify, started, item, limit, worked>>

\* ThreadedWorkQueuePtrScope makes another one for the next search
QueueConstruct ==
  /\ qpc[Producer] = "gone"
  /\ made' = 0 /\ backlog' = <<>> /\ done' = {}
  /\ doneCount' = 0 /\ finalized' = 0 /\ working' = 0
  /\ stopping' = FALSE /\ notify' = FALSE
  /\ started' = {}
  /\ qpc' = [t \in DOMAIN qpc |-> IF t = Producer THEN "idle" ELSE "none"]
  /\ item' = [w \in Workers |-> NoItem]
  /\ limit' = 0 /\ worked' = {} /\ destroyed' = <<>>

-----------------------------------------------------------------------------
QueueWorkerStep(w) == Work(w) \/ WorkerLocked(w)

\* What the producer does inside a call that has begun
CallStep == QueueCheck \/ (qpc[Producer] # "idle" /\ QueueFinalize) \/ Joined

QueueNext ==
  \/ \E w \in Workers : QueueWorkerStep(w)
  \/ \E t \in Workers \cup {Producer} : SpuriousWake(t)
  \/ \E fresh \in SUBSET Workers, n \in Limits : Queue(fresh, n)
  \/ \E n \in Limits : QueueSynchronously(n)
  \/ QueueCheck \/ QueueFinalize \/ Stop \/ Joined \/ QueueConstruct

QueueSpec == QueueInit /\ [][QueueNext]_queueVars

(* Threads that do not wait go on, and WorkProc returns.  A thread that     *)
(* waits needs a notification: there is no fairness of spurious wakeups.    *)
QueueFairness ==
  /\ WF_queueVars(CallStep)
  /\ \A w \in Workers : WF_queueVars(QueueWorkerStep(w))

QueueFairSpec == QueueSpec /\ QueueFairness

-----------------------------------------------------------------------------
(* Properties                                                              *)

\* ThreadedWorkQueue.h: items are destroyed in the order in which they were
\* queued, whatever order the workers finish them in, also by the destructor.
DestroyedInOrder == \A i \in DOMAIN destroyed : destroyed[i] = i

\* An item is at one place: in the backlog, with one worker, finished, or
\* destroyed; none is lost, processed twice or destroyed twice.
Held(w) == IF item[w] = NoItem THEN {} ELSE {item[w][2]}

ItemsInOnePlace ==
  LET queued   == {backlog[i] : i \in DOMAIN backlog}
      held     == UNION {Held(w) : w \in Workers}
      finished == {pair[2] : pair \in done}
      buried   == {destroyed[i] : i \in DOMAIN destroyed}
  IN  /\ queued \cup held \cup finished \cup buried = 1..made
      /\ Len(backlog) + Cardinality({w \in Workers : item[w] # NoItem})
           + Cardinality(done) + Len(destroyed) = made

\* _working counts the workers that hold an item, so that Finalize may rely on
\* it; the destructor asserts that it is 0 once they have been joined.
WorkingIsCounted ==
  /\ working = Cardinality({w \in Workers : item[w] # NoItem})
  /\ qpc[Producer] = "gone" => working = 0

\* An item is processed without the producer having to call again, unless the
\* queue is destroyed first.
ItemsAreProcessed ==
  \A k \in Items : k <= made /\ k \notin worked ~> k \in worked \/ qpc[Producer] = "gone"
=============================================================================
