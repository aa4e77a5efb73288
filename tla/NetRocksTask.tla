------------------------------- MODULE NetRocksTask -----------------------------
(***************************************************************************)
(* NetRocks/src/Op/OpBase.cpp, Op/OpXfer.cpp, BackgroundTasks.cpp and the  *)
(* dialogs of UI/Activities: a transfer in a thread of its own, and the    *)
(* main thread, which waits for it, shows its progress, lets the user      *)
(* pause and abort it or leave it to the background, and runs the dialogs  *)
(* that the transfer's thread asks for by calls to the main thread.        *)
(*                                                                         *)
(* The main thread is a stack of what it is in the middle of; only its top *)
(* can act.  The host is what RemoteHost says of it: a call on it may hang *)
(* until it is aborted, and an abort while it is being connected is lost.  *)
(*                                                                         *)
(* A definition right before another one and named after it is a wrong     *)
(* version of it that nothing uses.                                        *)
(***************************************************************************)
EXTENDS Naturals, Sequences, SequencesExt

CONSTANTS
  MaxDepth,    \* bound: of the main thread's stack
  Identities,  \* the server may show another identity than before
  PluginsMenus,\* the user may press F11 in a dialog
  Exits,       \* the user may leave the program
  LostAborts   \* an abort may come while the host is being connected

ASSUME NetRocksTaskAssumption ==
  /\ MaxDepth \in Nat \ {0}
  /\ {Identities, PluginsMenus, Exits, LostAborts} \subseteq BOOLEAN

VARIABLES
  op,        \* where the transfer's thread is; "none": there is no transfer
  copying,   \* the call that failed is one of FileCopyLoop
  paused, aborting, finished,    \* ProgressState
  saved,     \* saved_paused of AbortOperationRequest
  wanted,    \* what the user has last made of the pause
  cut,       \* the host's connection is aborted
  task,      \* the transfer is a background task
  main

state == <<paused, aborting, finished>>
taskVars  == <<op, copying, state, saved, wanted, cut, task, main>>

TaskPlaces == {"none", "start", "work", "call", "ask", "connect", "login", "identity", "message", "finish", "done"}

\* Where the thread waits for a call to the main thread
Asks == {"ask", "identity", "message"}

Frames == Asks \cup {"panels", "xfer", "wait", "progress", "confirm", "aborting", "list", "show",
                     "siteName", "pluginInfo", "exiting", "exit", "gone"}

Dialogs == Asks \cup {"progress", "confirm", "aborting"}

TaskTypeOK ==
  /\ op \in TaskPlaces
  /\ {copying, paused, aborting, finished, saved, wanted, cut, task} \subseteq BOOLEAN
  /\ main \in Seq(Frames) /\ Len(main) \in 1..MaxDepth

TaskInit ==
  /\ op = "none" /\ copying = FALSE
  /\ paused = FALSE /\ aborting = FALSE /\ finished = FALSE
  /\ saved = FALSE /\ wanted = FALSE /\ cut = FALSE /\ task = FALSE
  /\ main = <<"panels">>

MainTop == Last(main)
Push(f) == Len(main) < MaxDepth /\ main' = Append(main, f)
Pop == main' = Front(main)
Swap(f) == main' = Append(Front(main), f)

\* HostRemote::_mutex, held while the user is asked about the server's identity
HostLocked == op = "identity"

\* g_background_tasks_mutex, held while a task is shown
TasksLocked == Contains(main, "show")

-----------------------------------------------------------------------------
(* The transfer's thread                                                   *)

Go(place) == op' = place /\ UNCHANGED <<copying, state, cut>>

\* OpBase::ResetProgressState
ResetProgressState ==
  /\ op = "start" /\ op' = "work"
  /\ paused' = FALSE /\ aborting' = FALSE /\ finished' = FALSE
  /\ UNCHANGED <<copying, cut>>

\* ProgressStateUpdate, and the next call of the host or the end
CheckState ==
  /\ op = "work"
  /\ \/ aborting /\ Go("finish")
     \/ ~aborting /\ ~paused /\ \E c \in BOOLEAN : op' = "call" /\ copying' = c /\ UNCHANGED <<state, cut>>
     \/ ~aborting /\ ~paused /\ Go("finish")

\* ReInitialize throws: FileCopyLoop asks again, elsewhere the transfer has failed
TaskRefused == Go(IF copying THEN "ask" ELSE IF aborting THEN "finish" ELSE "message")

\* What an aborted connection makes of calls
Broken ==
  /\ cut
  /\ \/ op = "call" /\ Go("ask")
     \/ op = "login" /\ TaskRefused

\* The new pipes are set
Connect ==
  /\ op = "connect" /\ op' = "login"
  /\ cut' = FALSE
  /\ UNCHANGED <<copying, state>>

Finish ==
  /\ op = "finish" /\ op' = "done"
  /\ finished' = TRUE
  /\ UNCHANGED <<copying, paused, aborting, cut>>

Thread == ResetProgressState \/ CheckState \/ Broken \/ Connect \/ Finish

\* The server replies, or fails
Server ==
  /\ ~cut
  /\ \/ op = "call" /\ (Go("work") \/ Go("ask"))
     \/ op = "login" /\ (Go(IF aborting /\ ~copying THEN "finish" ELSE "work") \/ TaskRefused)
     \/ op = "login" /\ Identities /\ Go("identity")

\* Query, OnServerIdentityChanged or the message has its answer
Answered ==
  \/ op = "ask" /\ (Go("finish") \/ Go("work") \/ Go(IF copying /\ aborting THEN "finish" ELSE "connect"))
  \/ op = "identity" /\ (Go("login") \/ TaskRefused)
  \/ op = "message" /\ Go("finish")

\* as it is answered when the program goes down
Unanswered ==
  \/ op = "ask" /\ Go("finish")
  \/ op = "identity" /\ TaskRefused
  \/ op = "message" /\ Go("finish")

-----------------------------------------------------------------------------
(* The main thread                                                         *)

\* It waits for something and calls of other threads are carried out meanwhile
Dispatches == MainTop \notin {"siteName", "pluginInfo", "exiting", "gone", "exit"}

\* The dialog of the transfer's thread
Dispatch ==
  /\ op \in Asks /\ ~Contains(main, op)
  /\ Dispatches /\ Push(op)
  /\ UNCHANGED <<op, copying, state, saved, wanted, cut, task>>

Answer ==
  /\ MainTop = op /\ op \in Asks
  /\ Answered /\ Pop
  /\ UNCHANGED <<saved, wanted, task>>

\* OpXfer::OpXfer
StartXfer ==
  /\ MainTop = "panels" /\ op = "none" /\ Len(main) + 2 <= MaxDepth
  /\ op' = "start" /\ cut' = FALSE
  /\ paused' = FALSE /\ aborting' = FALSE /\ finished' = FALSE /\ wanted' = FALSE
  /\ main' = main \o <<"xfer", "wait">>
  /\ UNCHANGED <<copying, saved, task>>

\* WaitThreadBeforeShowProgress: half a second, or while an error is shown
BeforeShowProgress ==
  /\ MainTop = "wait"
  /\ \/ op = "done" /\ Pop
     \/ op # "ask" /\ Swap("progress")
  /\ UNCHANGED <<op, copying, state, saved, wanted, cut, task>>

\* GetStatus waits for a thread that has finished; the others go on in the background
Status ==
  /\ MainTop \in {"xfer", "show"}
  /\ \/ ~finished /\ Pop /\ task' = TRUE /\ UNCHANGED op
     \/ finished /\ op = "done" /\ Pop /\ task' = FALSE /\ op' = "none"
  /\ UNCHANGED <<copying, state, saved, wanted, cut>>

\* ComplexOperationProgress::Show
Progress ==
  /\ MainTop = "progress" /\ Pop     \* finished, or to the background
  /\ UNCHANGED <<op, copying, state, saved, wanted, cut, task>>

Pause ==
  /\ MainTop = "progress" /\ ~finished /\ op # "start"
  /\ paused' = ~paused /\ wanted' = ~paused
  /\ UNCHANGED <<op, copying, aborting, finished, saved, cut, task, main>>

\* AbortOperationRequest, while the dialog is open the transfer is paused
RequestAbort ==
  /\ MainTop = "progress" /\ ~finished /\ ~aborting
  /\ saved' = paused /\ paused' = TRUE
  /\ Push("confirm")
  /\ UNCHANGED <<op, copying, aborting, finished, wanted, cut, task>>

Refuse ==
  /\ MainTop = "confirm" /\ Pop
  /\ paused' = saved
  /\ UNCHANGED <<op, copying, aborting, finished, saved, wanted, cut, task>>

Confirm ==
  /\ MainTop = "confirm" /\ Swap("aborting")
  /\ aborting' = TRUE /\ paused' = saved
  /\ UNCHANGED <<op, copying, finished, saved, wanted, cut, task>>

ForcefullyAbortOnce ==
  /\ MainTop = "aborting" /\ ~finished
  /\ aborting' = TRUE /\ cut' = (op \notin {"start", "connect"})
  /\ Pop
  /\ UNCHANGED <<op, copying, paused, finished, saved, wanted, task>>

\* AbortOperationProgress::Show: the button breaks the connection, and the dialog
\* comes back
ForcefullyAbort ==
  /\ MainTop = "aborting" /\ ~finished /\ ~(aborting /\ cut)
  /\ aborting' = TRUE /\ cut' = TRUE
  /\ UNCHANGED <<op, copying, paused, finished, saved, wanted, task, main>>

Aborted ==
  /\ MainTop = "aborting" /\ finished /\ Pop
  /\ UNCHANGED <<op, copying, state, saved, wanted, cut, task>>

\* F11: GetPluginInfoW counts the background tasks
PluginsMenu ==
  /\ MainTop = "panels" \/ (PluginsMenus /\ MainTop \in Dialogs)
  /\ task
  /\ Push("pluginInfo")
  /\ UNCHANGED <<op, copying, state, saved, wanted, cut, task>>

\* and BackgroundTasksList, if it is chosen, takes the names of the hosts
PluginInfo ==
  /\ MainTop = "pluginInfo" /\ ~TasksLocked
  /\ Pop \/ Swap("siteName")
  /\ UNCHANGED <<op, copying, state, saved, wanted, cut, task>>

SiteName ==
  /\ MainTop = "siteName" /\ ~HostLocked
  /\ Swap("list")
  /\ UNCHANGED <<op, copying, state, saved, wanted, cut, task>>

\* ShowBackgroundTask
List ==
  /\ MainTop = "list"
  /\ \/ Pop
     \/ /\ task /\ ~TasksLocked /\ Len(main) + 2 <= MaxDepth
        /\ main' = main \o <<"show", "progress">>
  /\ UNCHANGED <<op, copying, state, saved, wanted, cut, task>>

\* ExitFARW asks the tasks for their hosts' names and aborts them
Exit ==
  /\ Exits /\ MainTop = "panels" /\ task
  /\ Push("exiting")
  /\ UNCHANGED <<op, copying, state, saved, wanted, cut, task>>

AbortTasks ==
  /\ MainTop = "exiting" /\ ~HostLocked
  /\ LostAborts \/ op \notin {"start", "connect"}
  /\ Swap("exit")
  /\ aborting' = (aborting \/ ~finished) /\ cut' = (cut \/ ~finished)
  /\ UNCHANGED <<op, copying, paused, finished, saved, wanted, task>>

\* It waits for them, and dialogs are not shown any more
ExitDispatch ==
  /\ MainTop = "exit" /\ Unanswered
  /\ UNCHANGED <<saved, wanted, task, main>>

Gone ==
  /\ MainTop = "exit" /\ op = "done" /\ Swap("gone")
  /\ UNCHANGED <<op, copying, state, saved, wanted, cut, task>>

\* What the main thread does by itself
MainStep ==
  \/ Dispatch \/ BeforeShowProgress \/ Status \/ Aborted \/ PluginInfo \/ SiteName
  \/ AbortTasks \/ ExitDispatch \/ Gone
  \/ (finished /\ Progress)

\* What the user does
UserStep ==
  \/ Answer \/ Progress \/ Pause \/ RequestAbort \/ Refuse \/ Confirm \/ ForcefullyAbort
  \/ StartXfer \/ PluginsMenu \/ List \/ Exit

ThreadStep == Thread /\ UNCHANGED <<saved, wanted, task, main>>

ServerStep == Server /\ UNCHANGED <<saved, wanted, task, main>>

TaskNext == ThreadStep \/ ServerStep \/ MainStep \/ UserStep

TaskSpec == TaskInit /\ [][TaskNext]_taskVars

(* Both threads go on: the main thread carries the calls out each time     *)
(* before it waits for a key, whatever the user does in between.  A user   *)
(* who is asked answers and who aborts presses the button in the end; the  *)
(* server need not reply.                                                  *)
TaskFairSpec ==
  /\ TaskSpec
  /\ WF_taskVars(ThreadStep)
  /\ WF_taskVars(MainStep) /\ SF_taskVars(Dispatch)
  /\ WF_taskVars(Answer) /\ WF_taskVars(Refuse \/ Confirm) /\ SF_taskVars(ForcefullyAbort)
  /\ WF_taskVars(List /\ Len(main') < Len(main))

-----------------------------------------------------------------------------
(* Properties                                                              *)

\* The dialogs refer to the transfer's state, and the list to the transfer: neither is
\* there when it has been destroyed.
StateLives == \A f \in Asks \cup {"xfer", "wait", "progress", "confirm", "aborting", "show"} :
                Contains(main, f) => op # "none"

\* A question about the abort pauses the transfer only as long as it is open: then the
\* transfer is paused if and only if the user has paused it.
PausedByUser == op # "none" /\ ~Contains(main, "confirm") => paused = wanted

\* What the dialogs rely on, and what they leave behind.
TransferIsSound == StateLives /\ PausedByUser
=============================================================================
