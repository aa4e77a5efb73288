--------------------------- MODULE InterThreadCall ---------------------------
(***************************************************************************)
(* far/src/base/InterThreadCall.cpp: how a worker thread has a function    *)
(* run by the main (UI) thread, together with the loops in which the main  *)
(* thread waits and dispatches: Manager::ProcessMainLoop, Modal::Process,  *)
(* the polling loop of GetInputRecordImpl and the macro                    *)
(* WAIT_FOR_AND_DISPATCH_INTER_THREAD_CALLS.                               *)
(*                                                                         *)
(* A function run on behalf of a worker may itself open a dialog or a wait *)
(* loop, which dispatches again: the main thread is a stack of LEVELS, of  *)
(* which only the top one (number depth) executes.                         *)
(*                                                                         *)
(* An uncommented definition right before another one and named after it   *)
(* (FailedNever before Failed) is a wrong version of it, which the *)
(* specification does not use: the README says which property each breaks. *)
(***************************************************************************)
EXTENDS Naturals, Sequences

CONSTANTS
  Main,        \* the thread that runs MainProcess
  Threads,     \* the worker threads
  Delegates,   \* storage for delegate objects, reused after destruction
  NoDelegate,  \* a caller that is not in a call
  NoThread,    \* s_interlocked_delegates_tid = 0
  MaxDepth,    \* bound: nested loops of the main thread
  MaxInput,    \* bound: unread console input records
  Scans        \* the panels rescan their directory while the main loop polls

ASSUME ConstantsAssumption ==
  /\ Main \notin Threads
  /\ NoThread # Main
  /\ NoDelegate \notin Delegates
  /\ MaxDepth \in Nat \ {0}
  /\ MaxInput \in Nat \ {0}
  /\ Scans \in BOOLEAN

VARIABLES
  tid,      \* s_interlocked_delegates_tid
  queue,    \* s_interlocked_delegates
  input,    \* ConsoleInput::_pending: "noop" records and the user's "key"s
  depth,    \* number of levels on the main thread's stack
  kind,     \* kind[n]: the loop level n runs
  pc,       \* pc[n]: where level n is
  batch,    \* batch[n]: the delegates in the local interlocked_delegates of
            \* level n from the one its iteration is at to the end
  cond,     \* cond[n]: the condition a wait loop waits for
  tpc,      \* tpc[t]: where worker t is
  cur,      \* cur[t]: the delegate of t's current call
  live,     \* the delegate objects that exist
  obj       \* obj[d]: the fields of a delegate; its outcome, what became of
            \* its function, is a history field

consoleVars    == <<input>>
levelVars      == <<depth, kind, batch, cond>>
callerVars     == <<tpc, cur>>
delegateVars   == <<live, obj>>
vars == <<tid, queue, consoleVars, levelVars, pc, callerVars, delegateVars>>

Levels == 1..MaxDepth

\* panels: ProcessMainLoop with WaitInMainLoop; modal: a dialog, menu, editor
\* or viewer, whose polling gives up with KEY_IDLE; wait: the waiting macro
LoopKinds == {"panels", "modal", "wait"}

LevelPCs == {"dispatch", "process", "running", "finalize", "poll", "scan",
             "handle", "lock", "asleep", "discard", "exited"}

Outcomes == {"unrun", "running", "returned", "threw"}

Object == [sync : BOOLEAN, done : BOOLEAN, discarded : BOOLEAN, outcome : Outcomes]

NewObject(isSync) ==
  [sync |-> isSync, done |-> FALSE, discarded |-> FALSE, outcome |-> "unrun"]

TypeOK ==
  /\ tid \in {Main, NoThread}
  /\ queue \in Seq(Delegates)
  /\ input \in Seq({"noop", "key"})
  /\ depth \in Levels
  /\ kind \in [Levels -> LoopKinds]
  /\ pc \in [Levels -> LevelPCs]
  /\ batch \in [Levels -> Seq(Delegates)]
  /\ cond \in [Levels -> BOOLEAN]
  /\ tpc \in [Threads -> {"idle", "enqueue", "wait"}]
  /\ cur \in [Threads -> Delegates \cup {NoDelegate}]
  /\ live \in SUBSET Delegates
  /\ obj \in [Delegates -> Object]

Init ==
  /\ tid = Main
  /\ queue = <<>>
  /\ input = <<>>
  /\ depth = 1
  /\ kind = [n \in Levels |-> "panels"]
  /\ pc = [n \in Levels |-> "dispatch"]
  /\ batch = [n \in Levels |-> <<>>]
  /\ cond = [n \in Levels |-> FALSE]
  /\ tpc = [t \in Threads |-> "idle"]
  /\ cur = [t \in Threads |-> NoDelegate]
  /\ live = {}
  /\ obj = [d \in Delegates |-> NewObject(FALSE)]

-----------------------------------------------------------------------------
(* EnqueueInterThreadCallDelegate, under s_inter_thread_call_synch.mtx     *)

\* The first delegate of an empty queue is announced by a NOOP console record
KickNeeded(q) == Len(q) = 1

\* Bound MaxInput: a NOOP behind MaxInput unread records adds nothing
WriteNoop(in) == IF Len(in) < MaxInput THEN Append(in, "noop") ELSE in

\* s_inter_thread_call_synch.cond.notify_all(): a sleeping wait loop goes on
Wake(p) == [p EXCEPT ![depth] = IF @ = "asleep" THEN "dispatch" ELSE @]

EnqueueFirst(d) ==
  /\ tid # NoThread
  /\ queue' = <<d>> \o queue
  /\ input' = IF KickNeeded(queue') THEN WriteNoop(input) ELSE input
  /\ pc' = Wake(pc)
  /\ UNCHANGED tid

Enqueue(d) ==
  /\ tid # NoThread
  /\ queue' = Append(queue, d)
  /\ input' = IF KickNeeded(queue') THEN WriteNoop(input) ELSE input
  /\ pc' = Wake(pc)
  /\ UNCHANGED tid

-----------------------------------------------------------------------------
(* The worker threads.  IsCurrentThreadDispatchesInterThreadCalls() is     *)
(* false in them, so that InterThreadCall builds a delegate on the stack   *)
(* of the caller and InterThreadCallAsync one on the heap.                 *)

Construct(d, isSync) ==
  /\ d \notin live
  /\ live' = live \cup {d}
  /\ obj' = [obj EXCEPT ![d] = NewObject(isSync)]

Destroy(d) ==
  /\ live' = live \ {d}
  /\ obj' = [obj EXCEPT ![d] = NewObject(FALSE)]

StartCall(t, d, isSync) ==
  /\ tpc[t] = "idle"
  /\ Construct(d, isSync)
  /\ tpc' = [tpc EXCEPT ![t] = "enqueue"]
  /\ cur' = [cur EXCEPT ![t] = d]
  /\ UNCHANGED <<tid, queue, consoleVars, levelVars, pc>>

\* A caller that leaves its call: a delegate on its stack goes with it
LeaveCall(t) ==
  /\ tpc' = [tpc EXCEPT ![t] = "idle"]
  /\ cur' = [cur EXCEPT ![t] = NoDelegate]

Post(t) ==
  /\ tpc[t] = "enqueue"
  /\ Enqueue(cur[t])
  /\ IF obj[cur[t]].sync
       THEN tpc' = [tpc EXCEPT ![t] = "wait"] /\ UNCHANGED cur
       ELSE LeaveCall(t)
  /\ UNCHANGED <<levelVars, delegateVars>>

\* After ~InterThreadCallsDispatcherThread: FAIL_RV, or delete this
Reject(t) ==
  /\ tpc[t] = "enqueue"
  /\ tid = NoThread
  /\ Destroy(cur[t])
  /\ LeaveCall(t)
  /\ UNCHANGED <<tid, queue, consoleVars, levelVars, pc>>

\* InterThreadSyncCallDelegate::Do leaves its wait and InterThreadCall returns
CanReturnEarly(d) == TRUE
CanReturn(d) == obj[d].done

Return(t) ==
  /\ tpc[t] = "wait"
  /\ CanReturn(cur[t])
  /\ Destroy(cur[t])
  /\ LeaveCall(t)
  /\ UNCHANGED <<tid, queue, consoleVars, levelVars, pc>>

\* InterThreadLockAndWake around setting what a wait loop waits for
Signal(t) ==
  /\ tpc[t] = "idle"
  /\ \E n \in 2..depth :
       /\ kind[n] = "wait"
       /\ ~cond[n]
       /\ cond' = [cond EXCEPT ![n] = TRUE]
  /\ pc' = Wake(pc)
  /\ UNCHANGED <<tid, queue, consoleVars, depth, kind, batch, callerVars, delegateVars>>

-----------------------------------------------------------------------------
(* The main thread: the stack of levels                                    *)

At(p) == pc[depth] = p

GoTo(p) == pc' = [pc EXCEPT ![depth] = p]

\* Where a level goes when DispatchInterThreadCalls has found the queue empty
AfterDispatch(k) == IF k = "wait" THEN "lock" ELSE "poll"

\* DispatchInterThreadCalls: one round of its loop takes the whole queue.
\* (From a thread that is not the dispatcher it returns -1 and changes nothing.)
DispatchTake ==
  /\ At("dispatch")
  /\ IF queue = <<>>
       THEN /\ GoTo(AfterDispatch(kind[depth]))
            /\ UNCHANGED <<queue, batch>>
       ELSE /\ batch' = [batch EXCEPT ![depth] = queue]
            /\ queue' = <<>>
            /\ GoTo("process")
  /\ UNCHANGED <<tid, consoleVars, depth, kind, cond, callerVars, delegateVars>>

Current == Head(batch[depth])

\* d->Process(): the function starts ...
ProcessBegin ==
  /\ At("process")
  /\ obj' = [obj EXCEPT ![Current].outcome = "running"]
  /\ GoTo("running")
  /\ UNCHANGED <<tid, queue, consoleVars, levelVars, callerVars, live>>

\* ... and ends, by returning or by an exception
ProcessEnd(how) ==
  /\ At("running")
  /\ obj' = [obj EXCEPT ![Current].outcome = how]
  /\ GoTo("finalize")
  /\ UNCHANGED <<tid, queue, consoleVars, levelVars, callerVars, live>>

\* `failed` of DispatchInterThreadCalls: the function threw
FailedNever(d) == FALSE
Failed(d) == obj[d].outcome = "threw"

\* InterThreadSyncCallDelegate::Finalize under the delegate's own mutex, and
\* InterThreadAsyncCallDelegate::Finalize, which destroys the delegate
FinalizeDelegate(d, isDiscarded) ==
  IF obj[d].sync
    THEN /\ obj' = [obj EXCEPT ![d].done = TRUE, ![d].discarded = isDiscarded]
         /\ UNCHANGED live
    ELSE Destroy(d)

\* The next delegate of the batch, or what comes after the last one
NextInBatch(there, after) ==
  /\ batch' = [batch EXCEPT ![depth] = Tail(@)]
  /\ GoTo(IF Tail(batch[depth]) = <<>> THEN after ELSE there)

Finalize ==
  /\ At("finalize")
  /\ FinalizeDelegate(Current, Failed(Current))
  /\ NextInBatch("process", "dispatch")
  /\ UNCHANGED <<tid, queue, consoleVars, depth, kind, cond, callerVars>>

\* The main thread runs code of its own: a called function or a key's handler
RunsCode == At("running") \/ At("handle")

\* InterThreadCallAsync from the main thread (its InterThreadCall just calls)
MainPost(d) ==
  /\ RunsCode
  /\ Construct(d, FALSE)
  /\ Enqueue(d)
  /\ UNCHANGED <<levelVars, callerVars>>

\* That code opens a modal loop or a wait loop (bound MaxDepth)
OpenLoop(k) ==
  /\ RunsCode
  /\ depth < MaxDepth
  /\ depth' = depth + 1
  /\ kind' = [kind EXCEPT ![depth + 1] = k]
  /\ pc' = [pc EXCEPT ![depth + 1] = "dispatch"]
  /\ UNCHANGED <<tid, queue, consoleVars, batch, cond, callerVars, delegateVars>>

CloseLoopAlways ==
  /\ depth' = depth - 1
  /\ kind' = [kind EXCEPT ![depth] = "panels"]
  /\ pc' = [pc EXCEPT ![depth] = "dispatch"]
  /\ cond' = [cond EXCEPT ![depth] = FALSE]
  /\ UNCHANGED <<tid, queue, consoleVars, batch, callerVars, delegateVars>>

\* The top loop ends, outside any batch, and the code that opened it goes on
CloseLoop ==
  /\ depth > 1
  /\ depth' = depth - 1
  /\ kind' = [kind EXCEPT ![depth] = "panels"]
  /\ pc' = [pc EXCEPT ![depth] = "dispatch"]
  /\ cond' = [cond EXCEPT ![depth] = FALSE]
  /\ UNCHANGED <<tid, queue, consoleVars, batch, callerVars, delegateVars>>

-----------------------------------------------------------------------------
(* GetInputRecordImpl: the loop polls the console input every 10 ms        *)

\* NOOP_EVENT is answered with KEY_NONE, which no handler reacts to
PollRead ==
  /\ At("poll")
  /\ input # <<>>
  /\ input' = Tail(input)
  /\ GoTo(IF Head(input) = "key" THEN "handle" ELSE "dispatch")
  /\ UNCHANGED <<tid, queue, levelVars, callerVars, delegateVars>>

\* LoopCount = 64 without WaitInMainLoop: KEY_IDLE
PollIdle ==
  /\ At("poll")
  /\ kind[depth] = "modal"
  /\ input = <<>>
  /\ GoTo("dispatch")
  /\ UNCHANGED <<tid, queue, consoleVars, levelVars, callerVars, delegateVars>>

\* Panel::UpdateIfChanged from the polling loop: the directory is read anew
ScanBegin ==
  /\ Scans
  /\ At("poll")
  /\ kind[depth] = "panels"
  /\ input = <<>>
  /\ GoTo("scan")
  /\ UNCHANGED <<tid, queue, consoleVars, levelVars, callerVars, delegateVars>>

\* CheckForEsc, called now and then from FileList::ReadFileNames, reads a
\* record that is there and looks only whether it is the Escape key
ScanCheckForEsc ==
  /\ At("scan")
  /\ input # <<>>
  /\ input' = Tail(input)
  /\ UNCHANGED <<tid, queue, levelVars, pc, callerVars, delegateVars>>

ScanEnd ==
  /\ At("scan")
  /\ GoTo("poll")
  /\ UNCHANGED <<tid, queue, consoleVars, levelVars, callerVars, delegateVars>>

\* The handler of a key ends; it may have ended the loop that read the key
HandleEnd ==
  /\ At("handle")
  /\ GoTo("dispatch")
  /\ UNCHANGED <<tid, queue, consoleVars, levelVars, callerVars, delegateVars>>

HandleClose == At("handle") /\ CloseLoop

UserKey ==
  /\ Len(input) < MaxInput
  /\ pc[1] # "exited"
  /\ input' = Append(input, "key")
  /\ UNCHANGED <<tid, queue, levelVars, pc, callerVars, delegateVars>>

-----------------------------------------------------------------------------
(* WAIT_FOR_AND_DISPATCH_INTER_THREAD_CALLS, after its dispatch            *)

\* Under InterThreadLock: the condition, or cond.wait_for(5000 ms)
WaitCheck ==
  /\ At("lock")
  /\ IF cond[depth]
       THEN CloseLoop
       ELSE /\ GoTo("asleep")
            /\ UNCHANGED <<tid, queue, consoleVars, levelVars, callerVars, delegateVars>>

WaitTimeoutOnlyChecks ==
  /\ At("asleep")
  /\ GoTo("lock")
  /\ UNCHANGED <<tid, queue, consoleVars, levelVars, callerVars, delegateVars>>

\* The five seconds are over
WaitTimeout ==
  /\ At("asleep")
  /\ GoTo("dispatch")
  /\ UNCHANGED <<tid, queue, consoleVars, levelVars, callerVars, delegateVars>>

-----------------------------------------------------------------------------
(* ~InterThreadCallsDispatcherThread, when MainProcess returns             *)

Shutdown ==
  /\ At("handle")
  /\ depth = 1
  /\ tid' = NoThread
  /\ batch' = [batch EXCEPT ![1] = queue]
  /\ queue' = <<>>
  /\ GoTo(IF queue = <<>> THEN "exited" ELSE "discard")
  /\ UNCHANGED <<consoleVars, depth, kind, cond, callerVars, delegateVars>>

Discard ==
  /\ At("discard")
  /\ FinalizeDelegate(Current, TRUE)
  /\ NextInBatch("discard", "exited")
  /\ UNCHANGED <<tid, queue, consoleVars, depth, kind, cond, callerVars>>

-----------------------------------------------------------------------------
WorkerStep(t) ==
  \/ \E d \in Delegates, isSync \in BOOLEAN : StartCall(t, d, isSync)
  \/ Post(t)
  \/ Reject(t)
  \/ Return(t)
  \/ Signal(t)

MainStep ==
  \/ DispatchTake
  \/ ProcessBegin
  \/ \E how \in {"returned", "threw"} : ProcessEnd(how)
  \/ Finalize
  \/ \E d \in Delegates : MainPost(d)
  \/ \E k \in {"modal", "wait"} : OpenLoop(k)
  \/ PollRead
  \/ PollIdle
  \/ ScanBegin
  \/ ScanCheckForEsc
  \/ ScanEnd
  \/ HandleEnd
  \/ HandleClose
  \/ WaitCheck
  \/ WaitTimeout
  \/ Shutdown
  \/ Discard

Next == MainStep \/ UserKey \/ \E t \in Threads : WorkerStep(t)

Spec == Init /\ [][Next]_vars

(* The threads run: a polling, sleeping or computing main thread goes on,   *)
(* and so does a worker inside a call.  Nothing is assumed of the user, of  *)
(* a worker's next call or of what a wait loop waits for.                   *)
Fairness ==
  /\ WF_vars(MainStep)
  /\ \A t \in Threads : WF_vars(Post(t) \/ Reject(t)) /\ WF_vars(Return(t))

FairSpec == Spec /\ Fairness
-----------------------------------------------------------------------------
(* Properties                                                              *)

\* The delegates enqueued, and those taken by level n and not yet finalized
Queued == {queue[i] : i \in 1..Len(queue)}
Taken(n) == {batch[n][i] : i \in 1..Len(batch[n])}
Pending == Queued \cup UNION {Taken(n) : n \in 1..depth}

\* No delegate the dispatcher can still reach has been destroyed: neither the
\* caller of InterThreadSyncCallDelegate::Do, whose stack holds it, has left,
\* nor has an asynchronous one deleted itself.
NoDanglingDelegate == Pending \subseteq live

\* A caller blocked in Do and not yet answered is in the queue or in a batch
\* some level of the main thread will come back to: no call is forgotten,
\* whatever loops are nested and also while the dispatcher is destroyed.
NoForgottenCall ==
  \A t \in Threads : tpc[t] = "wait" /\ ~obj[cur[t]].done => cur[t] \in Pending

\* What Do reports is what happened: success if and only if the function has
\* run to its end.
AnswerIsTruthful ==
  \A t \in Threads : tpc[t] = "wait" /\ obj[cur[t]].done =>
    (obj[cur[t]].discarded <=> obj[cur[t]].outcome # "returned")

\* What becomes of a call that is waited for, together
CallsAreKept == NoDanglingDelegate /\ NoForgottenCall /\ AnswerIsTruthful

\* Process is called once on a delegate at most, and on a live one only: a
\* delegate that two batches (of nested dispatches) held would run twice.
RunsOnce ==
  [][\A d \in Delegates :
       obj[d].outcome # "running" /\ obj'[d].outcome = "running"
         => obj[d].outcome = "unrun" /\ d \in live]_vars

\* The comment in EnqueueInterThreadCallDelegate: the dummy record kicks the
\* main thread out of its wait for input; it never polls an empty console
\* while calls are queued.
KickIsPending == At("poll") /\ queue # <<>> => input # <<>>

\* A queued call is finalized, unless it ends up in the batch of a dispatch
\* that a nested loop has suspended.
CallsAreServed ==
  \A d \in Delegates :
    d \in Queued ~> (d \notin live \/ \E n \in 1..(depth - 1) : d \in Taken(n))

\* The promise to the callers, with each delegate as a call
InHand(d) == \E t \in Threads : tpc[t] = "enqueue" /\ cur[t] = d

CallProgress(d) ==
  IF d \notin live THEN "none"
  ELSE IF InHand(d) THEN "made"
  ELSE IF obj[d].done THEN IF obj[d].discarded THEN "failed" ELSE "succeeded"
  ELSE IF obj[d].outcome = "unrun" THEN "waiting" ELSE obj[d].outcome

Service == INSTANCE CallService WITH
  Calls <- Delegates,
  open <- tid # NoThread,
  call <- [d \in Delegates |-> CallProgress(d)]

\* The dispatcher and its callers implement the promise
ImplementsService == Service!Spec
=============================================================================
