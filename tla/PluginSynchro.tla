----------------------------- MODULE PluginSynchro -----------------------------
(***************************************************************************)
(* What threads of plugins leave for the main thread: events that a plugin *)
(* sends to itself (ACTL_SYNCHRO, far/src/synchro.cpp), and the list of    *)
(* background tasks that the panels show (far/src/plug/plugins.cpp).  The  *)
(* main thread hands events out whenever it reads input; a plugin that is  *)
(* handed one may read input itself, so that the rest is handed out while  *)
(* it is still busy, and plugins are loaded and unloaded in between.  An   *)
(* event names its plugin by the address of its object.                    *)
(*                                                                         *)
(* A definition right before another one and named after it is a wrong     *)
(* version of it that nothing uses.                                        *)
(***************************************************************************)
EXTENDS Integers, Sequences, FiniteSets

CONSTANTS
  Addresses,  \* of Plugin objects
  Infos,      \* names of background tasks
  MaxPosts,   \* bound: events sent
  MaxLoads,   \* bound: plugins loaded
  MaxTasks,   \* bound: tasks started
  MaxHandlers    \* bound: handlers on the main thread's stack

ASSUME PluginSynchroAssumption ==
  {MaxPosts, MaxLoads, MaxTasks, MaxHandlers} \subseteq Nat

VARIABLES
  loaded,     \* PluginsData: the plugin at each address, 0 for none
  loads,      \* plugins loaded so far; a plugin is known by its number
  data,       \* PluginSynchro::Data
  posts,      \* events sent so far
  stack,      \* the handlers that run, the innermost last
  begun,      \* history: the events that were handed out, in order
  tasks,      \* BgTasks
  tasksStarted,    \* tasks started so far
  refreshes,  \* calls of OnBackgroundTasksChangedSynched, queued or about to be
  shown       \* the list as it was last drawn

events     == <<data, posts, stack, begun>>
background == <<tasks, tasksStarted, refreshes, shown>>
synchroVars == <<loaded, loads, events, background>>

Plugins == 1 .. MaxLoads
Event   == [address : Addresses, plugin : Plugins, number : 1 .. MaxPosts]

SynchroTypeOK ==
  /\ loaded \in [Addresses -> 0 .. loads] /\ loads \in 0 .. MaxLoads
  /\ data \in Seq(Event) /\ posts \in 0 .. MaxPosts
  /\ stack \in Seq([event : Event, taken : Plugins]) /\ Len(stack) <= MaxHandlers
  /\ begun \in Seq(1 .. MaxPosts)
  /\ tasks \in [Infos -> 0 .. MaxTasks] /\ shown \in [Infos -> 0 .. MaxTasks]
  /\ tasksStarted \in 0 .. MaxTasks /\ refreshes \in 0 .. 2 * MaxTasks

SynchroInit ==
  /\ loaded = [a \in Addresses |-> 0] /\ loads = 0
  /\ data = <<>> /\ posts = 0 /\ stack = <<>> /\ begun = <<>>
  /\ tasks = [i \in Infos |-> 0] /\ shown = tasks /\ tasksStarted = 0 /\ refreshes = 0

-----------------------------------------------------------------------------
(* ACTL_SYNCHRO: any thread of a plugin that is loaded; FarAdvControl has    *)
(* the main thread do it.                                                  *)
Synchro ==
  /\ posts < MaxPosts
  /\ \E a \in Addresses :
       /\ loaded[a] # 0
       /\ data' = Append(data, [address |-> a, plugin |-> loaded[a], number |-> posts + 1])
  /\ posts' = posts + 1
  /\ UNCHANGED <<loaded, loads, stack, begun, background>>

ProcessIfLoaded ==
  /\ data # <<>> /\ Len(stack) < MaxHandlers
  /\ LET event == Head(data) IN
       /\ loaded[event.address] # 0
       /\ data' = Tail(data)
       /\ stack' = Append(stack, [event |-> event, taken |-> loaded[event.address]])
       /\ begun' = Append(begun, event.number)
  /\ UNCHANGED <<loaded, loads, posts, background>>

\* PluginSynchro::Process, in GetInputRecord: one event is taken, and handed to
\* the plugin that is at its address.
Process ==
  /\ data # <<>> /\ Len(stack) < MaxHandlers
  /\ LET event == Head(data) IN
       /\ data' = Tail(data)
       /\ IF loaded[event.address] # 0
          THEN /\ stack' = Append(stack, [event |-> event, taken |-> loaded[event.address]])
               /\ begun' = Append(begun, event.number)
          ELSE UNCHANGED <<stack, begun>>
  /\ UNCHANGED <<loaded, loads, posts, background>>

Handled ==
  /\ stack # <<>>
  /\ stack' = SubSeq(stack, 1, Len(stack) - 1)
  /\ UNCHANGED <<loaded, loads, data, posts, begun, background>>

-----------------------------------------------------------------------------
(* Plugins come and go, also while handlers run; memory is used again.      *)

LoadPlugin ==
  /\ loads < MaxLoads
  /\ loads' = loads + 1
  /\ \E a \in Addresses : loaded[a] = 0 /\ loaded' = [loaded EXCEPT ![a] = loads + 1]
  /\ UNCHANGED <<events, background>>

\* UnloadPluginExternal, RemovePlugin.
UnloadPlugin ==
  /\ \E a \in Addresses : loaded[a] # 0 /\ loaded' = [loaded EXCEPT ![a] = 0]
  /\ UNCHANGED <<loads, events, background>>

-----------------------------------------------------------------------------
(* Background tasks. *)

BackgroundTaskStarted ==
  /\ tasksStarted < MaxTasks /\ tasksStarted' = tasksStarted + 1
  /\ \E i \in Infos : tasks' = [tasks EXCEPT ![i] = @ + 1]
  /\ refreshes' = refreshes + 1
  /\ UNCHANGED <<loaded, loads, events, shown>>

\* One that is not in the list is not finished.
BackgroundTaskFinished ==
  /\ \E i \in Infos : tasks[i] > 0 /\ tasks' = [tasks EXCEPT ![i] = @ - 1]
  /\ refreshes' = refreshes + 1
  /\ UNCHANGED <<loaded, loads, events, tasksStarted, shown>>

\* OnBackgroundTasksChangedSynched, Panel::ShowScreensCount: drawn from the list
\* as it is then.
Refresh ==
  /\ refreshes > 0 /\ refreshes' = refreshes - 1
  /\ shown' = tasks
  /\ UNCHANGED <<loaded, loads, events, tasks, tasksStarted>>

SynchroNext ==
  \/ Synchro \/ Process \/ Handled \/ LoadPlugin \/ UnloadPlugin
  \/ BackgroundTaskStarted \/ BackgroundTaskFinished \/ Refresh

SynchroSpec == SynchroInit /\ [][SynchroNext]_synchroVars

(* The main thread reads input, handlers end, queued calls are made.        *)
SynchroFairness ==
  WF_synchroVars(Process) /\ WF_synchroVars(Handled) /\ WF_synchroVars(Refresh)

SynchroFairSpec == SynchroSpec /\ SynchroFairness

-----------------------------------------------------------------------------
(* Properties                                                               *)

(* PluginSynchro::Process takes events one by one under the mutex and calls *)
(* plugins outside it (synchro.cpp:51): whatever handlers read input        *)
(* themselves, events begin in the order in which they were sent, each once.*)
BegunInOrder == \A m, n \in 1 .. Len(begun) : m < n => begun[m] < begun[n]

(* ShowScreensCount draws what BackgroundTasks() was when it was called     *)
(* (panel.cpp:1447): what is shown differs from the list only while a       *)
(* refresh is on its way, from the change of the list on, whatever order    *)
(* tasks and refreshes come in.                                             *)
TasksAreShown == shown # tasks => refreshes > 0

(* Every event is handed out or its plugin is unloaded first (synchro.cpp). *)
EventsArrive ==
  \A n \in 1 .. MaxPosts :
    (\E i \in 1 .. Len(data) : data[i].number = n)
      ~> \A i \in 1 .. Len(data) : data[i].number # n
=============================================================================
