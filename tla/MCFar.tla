--------------------------------- MODULE MCFar ---------------------------------
(***************************************************************************)
(* Parts of far2l proper that share no state, side by side: which one runs *)
(* is chosen in the beginning, and the others stay as they are.  So one    *)
(* run asks one question of several parts, and no two of them interleave.  *)
(***************************************************************************)
EXTENDS InterThreadCall, WorkQueue, EditorUndo, History, PluginSynchro, VTShell

CONSTANTS
  Parts,   \* those that a run looks at
  t1, t2, d1, d2, d3, w1, w2, i1, n1, n2, n3

VARIABLE part

farVars == <<part, vars, queueVars, editorVars, historyVars, synchroVars, vtVars>>

FarInit ==
  /\ part \in Parts
  /\ Init /\ QueueInit /\ EditorInit /\ HistoryInit /\ SynchroInit /\ ShellInit

FarNext ==
  /\ UNCHANGED part
  /\ \/ /\ part = "calls" /\ Next
        /\ UNCHANGED <<queueVars, editorVars, historyVars, synchroVars, vtVars>>
     \/ /\ part = "queue" /\ QueueNext
        /\ UNCHANGED <<vars, editorVars, historyVars, synchroVars, vtVars>>
     \/ /\ part = "editor" /\ EditorNext
        /\ UNCHANGED <<vars, queueVars, historyVars, synchroVars, vtVars>>
     \/ /\ part = "history" /\ HistoryNext
        /\ UNCHANGED <<vars, queueVars, editorVars, synchroVars, vtVars>>
     \/ /\ part = "synchro" /\ SynchroNext
        /\ UNCHANGED <<vars, queueVars, editorVars, historyVars, vtVars>>
     \/ /\ part = "shell" /\ ShellNext
        /\ UNCHANGED <<vars, queueVars, editorVars, historyVars, synchroVars>>

FarSpec == FarInit /\ [][FarNext]_farVars

(* The fairness of each part, as its module justifies it.  A part that      *)
(* stays as it is has nothing to do, but for the main thread of the calls,  *)
(* which polls from the beginning.                                          *)
FarFairSpec ==
  /\ FarSpec
  /\ WF_vars(part = "calls" /\ MainStep)
  /\ \A t \in Threads : WF_vars(Post(t) \/ Reject(t)) /\ WF_vars(Return(t))
  /\ QueueFairness /\ SynchroFairness /\ ShellFairness

-----------------------------------------------------------------------------
FarTypeOK == QueueTypeOK /\ EditorTypeOK /\ HistoryTypeOK /\ SynchroTypeOK /\ ShellTypeOK

\* Three queues: the work queue keeps its order and its items, whatever its workers do, and
\* that of synchronous events, whatever their handlers do; and the queue of calls is never
\* left with work to a main thread that nobody wakes.
QueuesAreKept ==
  /\ DestroyedInOrder /\ ItemsInOnePlace /\ WorkingIsCounted
  /\ BegunInOrder /\ TasksAreShown
  /\ KickIsPending

\* Undo leads through the lines that there were, and a block is undone as a whole.
UndoIsSound == UndoRestoresLines /\ BlocksStayWhole

\* Nobody but the main thread uses the terminal when it is to have it for itself.
TerminalIsOnesOwn == ReadersAreStopped /\ LogHasTheScreen /\ NeverStartedTwice

\* Who waits goes on.  Queue, Finalize and the destructor of a work queue return: no
\* notification that a waiting producer needs is lost to a worker, or given before it
\* waits.  And a command of the shell whose exit marker has been read does not keep the
\* user from the panels, whatever questions its output has asked.
CallsReturn ==
  (IF part = "queue" THEN qpc[Producer] \notin {"idle", "gone"}
                     ELSE place = "foreground" /\ ~exitMarker)
    ~> IF part = "queue" THEN qpc[Producer] \in {"idle", "gone"} ELSE place # "foreground"
=============================================================================
