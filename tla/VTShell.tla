-------------------------------- MODULE VTShell --------------------------------
(***************************************************************************)
(* far/src/vt/vtshell.cpp and vtshell_ioreaders.cpp: one shell, its output *)
(* reader and input reader threads, and the main thread that executes a    *)
(* command in it, moves the command to the background and back.  Readers   *)
(* call the main thread with InterThreadCall, which is taken here for what *)
(* InterThreadCall proves of it: a call waits until the main thread        *)
(* dispatches, runs there, and is answered.                                *)
(*                                                                         *)
(* A definition right before another one and named after it is a wrong     *)
(* version of it that nothing uses.                                        *)
(***************************************************************************)
EXTENDS Naturals, Sequences

CONSTANTS
  Features,  \* subset of AllFeatures: what user and programs do
  MaxUnread  \* bound: chunks of output in the pseudo terminal

\* ask: output that asks the user something (OSC 52, far2l extensions);
\* log, switch, kill: Ctrl+Shift+F3, Ctrl+Alt+Z, Ctrl+Alt+C
AllFeatures == {"ask", "log", "switch", "kill"}

ASSUME VTAssumption == Features \subseteq AllFeatures /\ MaxUnread \in Nat \ {0}

VARIABLES
  main,         \* where the main thread is
  goal,         \* what it stops the readers for
  place,        \* the command: none, foreground, background
  mayBgnd,      \* may_bgnd of the command in the foreground
  serving,      \* callers whose functions run in the main thread, last on top
  call,         \* call[r]: the InterThreadCall of reader r
  inout,        \* owner of _inout_control_mutex
  readState,    \* the output reader holds _read_state_mutex
  switching,    \* _console_switch_requested
  exitMarker,   \* _exit_marker is not empty: it has not arrived yet
  outStarted, inStarted, \* _started of the readers
  outKick, inKick,       \* a byte in _pipe; a NOOP record in the console
  deactivated,  \* _deactivated
  inStop,       \* _stop
  outPc, inPc,  \* where the readers are
  chunk,        \* what the output reader has still to process of a read
  event,        \* the input event in hand
  shell,        \* the shell: running a command, marker printed, idle, dead
  detached,     \* DetachTerminal has been called
  unread        \* output in the pseudo terminal

mainVars == <<main, goal, place, mayBgnd, serving>>
outVars == <<outStarted, outKick, outPc, chunk, deactivated>>
inVars == <<inStarted, inKick, inStop, inPc, event>>
locks == <<inout, readState>>
shellVars == <<shell, detached, unread>>
vtVars == <<mainVars, call, locks, switching, exitMarker, outVars, inVars, shellVars>>

Readers == {"in", "out"}
Output == {"text", "ask", "marker"}

ShellTypeOK ==
  /\ main \in {"panels", "start", "wait", "stop", "joinOut", "joinIn", "stopped"}
  /\ goal \in {"finish", "continue", "destroy"}
  /\ place \in {"none", "foreground", "background"}
  /\ mayBgnd \in BOOLEAN
  /\ serving \in Seq(Readers) /\ Len(serving) <= 2
  /\ call \in [Readers -> {"none", "waiting", "running", "answered"}]
  /\ inout \in {"free", "main", "in"}
  /\ readState \in BOOLEAN /\ switching \in BOOLEAN /\ exitMarker \in BOOLEAN
  /\ outStarted \in BOOLEAN /\ inStarted \in BOOLEAN
  /\ outKick \in BOOLEAN /\ inKick \in BOOLEAN
  /\ deactivated \in BOOLEAN /\ inStop \in BOOLEAN
  /\ outPc \in {"none", "select", "process", "lock", "ask", "deactivate", "ended"}
  /\ inPc \in {"none", "read", "lock", "log", "logJoin", "logCall", "ended"}
  /\ chunk \in Seq(Output)
  /\ event \in {"key", "log", "switch", "kill"}
  /\ shell \in {"running", "prompt", "idle", "dead"}
  /\ detached \in BOOLEAN
  /\ unread \in Seq(Output) /\ Len(unread) <= MaxUnread

\* The first command makes a VTShell
NewShell ==
  /\ main = "panels" /\ goal = "finish" /\ place = "none" /\ mayBgnd = FALSE
  /\ serving = <<>> /\ call = [r \in Readers |-> "none"]
  /\ inout = "free" /\ readState = FALSE
  /\ switching = FALSE /\ exitMarker = FALSE
  /\ outStarted = FALSE /\ inStarted = FALSE /\ outKick = FALSE /\ inKick = FALSE
  /\ deactivated = FALSE /\ inStop = FALSE
  /\ outPc = "none" /\ inPc = "none" /\ chunk = <<>> /\ event = "key"
  /\ shell = "idle" /\ detached = FALSE /\ unread = <<>>

ShellInit == NewShell

-----------------------------------------------------------------------------
(* The main thread: inter-thread calls                                     *)

\* It dispatches in the panels' loop, in the waiting macro, and in the loops
\* of the functions it runs.  Nowhere else.
Dispatches == main \in {"panels", "wait"} \/ serving # <<>>

Dispatch(r) ==
  /\ Dispatches
  /\ call[r] = "waiting"
  /\ call' = [call EXCEPT ![r] = "running"]
  /\ serving' = Append(serving, r)
  /\ UNCHANGED <<main, goal, place, mayBgnd, locks, switching, exitMarker,
                 outVars, inVars, shellVars>>

\* The user closes the dialog or the viewer that is on top
Answer ==
  /\ serving # <<>>
  /\ call' = [call EXCEPT ![serving[Len(serving)]] = "answered"]
  /\ serving' = SubSeq(serving, 1, Len(serving) - 1)
  /\ UNCHANGED <<main, goal, place, mayBgnd, locks, switching, exitMarker,
                 outVars, inVars, shellVars>>

-----------------------------------------------------------------------------
(* The main thread: ExecuteCommand, ExecuteCommandContinue, ~VTShell       *)

\* A shell that has ended is replaced by a new one
Execute(bgnd) ==
  /\ main = "panels" /\ serving = <<>> /\ place = "none"
  /\ main' = "start" /\ place' = "foreground" /\ mayBgnd' = bgnd
  /\ exitMarker' = TRUE
  /\ shell' = "running"
  /\ IF shell = "dead" THEN unread' = <<>> /\ detached' = FALSE
                       ELSE UNCHANGED <<unread, detached>>
  /\ UNCHANGED <<goal, serving, call, locks, switching, outVars, inVars>>

\* VTOutputReader::Start, after which _started is set and the thread runs
StartOut == outStarted' = TRUE /\ outPc' = "select" /\ outKick' = FALSE

StartIOReaders ==
  /\ main = "start" /\ inout = "free"
  /\ StartOut
  /\ deactivated' = FALSE
  /\ inStarted' = TRUE /\ inStop' = FALSE /\ inPc' = "read"
  /\ main' = IF place = "background" THEN "panels" ELSE "wait"
  /\ UNCHANGED <<goal, place, mayBgnd, serving, call, locks, switching, exitMarker,
                 chunk, inKick, event, shellVars>>

\* The waiting macro of ExecuteCommandCommonTail
LeaveWait ==
  /\ main = "wait" /\ serving = <<>>
  /\ deactivated \/ (switching /\ mayBgnd)
  /\ main' = "stop" /\ goal' = "finish"
  /\ UNCHANGED <<place, mayBgnd, serving, call, locks, switching, exitMarker,
                 outVars, inVars, shellVars>>

\* VTShell_Switch, VTShell_Shutdown
StopFor(aim) ==
  /\ main = "panels" /\ serving = <<>> /\ place = "background"
  /\ main' = "stop" /\ goal' = aim
  /\ UNCHANGED <<place, mayBgnd, serving, call, locks, switching, exitMarker,
                 outVars, inVars, shellVars>>

\* StopIOReaders, one reader after the other under _inout_control_mutex
StopIOReaders ==
  /\ main = "stop" /\ inout = "free"
  /\ inout' = "main"
  /\ main' = "joinOut"
  /\ outStarted' = FALSE /\ outKick' = outStarted
  /\ UNCHANGED <<goal, place, mayBgnd, serving, call, readState, switching, exitMarker,
                 outPc, chunk, deactivated, inVars, shellVars>>

JoinOut ==
  /\ main = "joinOut" /\ outPc \in {"none", "ended"}
  /\ outPc' = "none" /\ outKick' = FALSE
  /\ main' = "joinIn"
  /\ inStop' = TRUE /\ inStarted' = FALSE /\ inKick' = TRUE
  /\ UNCHANGED <<goal, place, mayBgnd, serving, call, locks, switching, exitMarker,
                 outStarted, chunk, deactivated, inPc, event, shellVars>>

JoinInEarly ==
  /\ main = "joinIn"
  /\ inout' = "free"
  /\ main' = "stopped"
  /\ UNCHANGED <<goal, place, mayBgnd, serving, call, readState, switching, exitMarker,
                 outVars, inVars, shellVars>>

\* The NOOP record is left in the console if the thread did not need it; it
\* has no other reader that it could mislead
JoinIn ==
  /\ main = "joinIn" /\ inPc = "ended"
  /\ inPc' = "none" /\ inKick' = FALSE
  /\ inout' = "free"
  /\ main' = "stopped"
  /\ UNCHANGED <<goal, place, mayBgnd, serving, call, readState, switching, exitMarker,
                 outVars, inStarted, inStop, event, shellVars>>

\* The rest of ExecuteCommandCommonTail: ForkConsole or ExecuteCommandEnd
Finish ==
  /\ main = "stopped" /\ goal = "finish"
  /\ switching' = FALSE
  /\ IF switching /\ mayBgnd
       THEN main' = "start" /\ place' = "background"
       ELSE main' = "panels" /\ place' = "none"
  /\ UNCHANGED <<goal, mayBgnd, serving, call, locks, exitMarker, outVars, inVars, shellVars>>

\* JoinConsole, then ExecuteCommandCommonTail(true)
Continue ==
  /\ main = "stopped" /\ goal = "continue"
  /\ main' = "start" /\ place' = "foreground" /\ mayBgnd' = TRUE
  /\ UNCHANGED <<goal, serving, call, locks, switching, exitMarker, outVars, inVars, shellVars>>

\* Shutdown waits for the shell to die
DestroyShell ==
  /\ main = "stopped" /\ goal = "destroy"
  /\ main' = "panels" /\ place' = "none"
  /\ shell' = "dead" /\ detached' = TRUE
  /\ UNCHANGED <<goal, mayBgnd, serving, call, locks, switching, exitMarker,
                 outVars, inVars, unread>>

-----------------------------------------------------------------------------
(* VTOutputReader::ThreadProc and what it calls                            *)

\* One read takes all there is, or what was there a moment ago
OutRead ==
  /\ outPc = "select" /\ unread # <<>> /\ ~detached
  /\ \E n \in 1..Len(unread) :
       /\ chunk' = SubSeq(unread, 1, n)
       /\ unread' = SubSeq(unread, n + 1, Len(unread))
  /\ outPc' = "process"
  /\ UNCHANGED <<mainVars, call, locks, switching, exitMarker, outStarted, outKick,
                 deactivated, inVars, shell, detached>>

OutEnd ==
  /\ outPc = "select"
  /\ detached \/ (shell = "dead" /\ unread = <<>>)
  /\ outPc' = "deactivate"
  /\ UNCHANGED <<mainVars, call, locks, switching, exitMarker, outStarted, outKick,
                 chunk, deactivated, inVars, shellVars>>

\* After OnProcessOutput, or when only the pipe was readable
AfterRead(pc) == IF outStarted THEN pc ELSE "ended"

OutKicked ==
  /\ outPc = "select" /\ outKick
  /\ outKick' = FALSE
  /\ outPc' = AfterRead("select")
  /\ UNCHANGED <<mainVars, call, locks, switching, exitMarker, outStarted, chunk,
                 deactivated, inVars, shellVars>>

\* VTAnsi::Write: the next thing in the chunk
OutProcess ==
  /\ outPc = "process" /\ chunk # <<>>
  /\ chunk' = Tail(chunk)
  /\ exitMarker' = (exitMarker /\ Head(chunk) # "marker")
  /\ outPc' = IF Head(chunk) = "ask" THEN "lock" ELSE "process"
  /\ UNCHANGED <<mainVars, call, locks, switching, outStarted, outKick, deactivated,
                 inVars, shellVars>>

\* OnOSC_ClipboardSet, ClipboardAuthorize: Message, under _read_state_mutex
OutAsk ==
  /\ outPc = "lock" /\ ~readState
  /\ readState' = TRUE
  /\ call' = [call EXCEPT !["out"] = "waiting"]
  /\ outPc' = "ask"
  /\ UNCHANGED <<mainVars, inout, switching, exitMarker, outStarted, outKick, chunk,
                 deactivated, inVars, shellVars>>

OutAnswered ==
  /\ outPc = "ask" /\ call["out"] = "answered"
  /\ readState' = FALSE
  /\ call' = [call EXCEPT !["out"] = "none"]
  /\ outPc' = "process"
  /\ UNCHANGED <<mainVars, inout, switching, exitMarker, outStarted, outKick, chunk,
                 deactivated, inVars, shellVars>>

\* OnProcessOutput is false when the exit marker has arrived
OutProcessed ==
  /\ outPc = "process" /\ chunk = <<>>
  /\ outPc' = IF exitMarker THEN AfterRead("select") ELSE "deactivate"
  /\ UNCHANGED <<mainVars, call, locks, switching, exitMarker, outStarted, outKick,
                 chunk, deactivated, inVars, shellVars>>

DeactivateNever == deactivated' = deactivated

Deactivate == deactivated' = TRUE

OutDeactivate ==
  /\ outPc = "deactivate"
  /\ Deactivate
  /\ outPc' = "ended"
  /\ UNCHANGED <<mainVars, call, locks, switching, exitMarker, outStarted, outKick,
                 chunk, inVars, shellVars>>

OutStep ==
  \/ OutRead \/ OutEnd \/ OutKicked \/ OutProcess
  \/ OutAsk \/ OutAnswered \/ OutProcessed \/ OutDeactivate

-----------------------------------------------------------------------------
(* VTInputReader::ThreadProc and what it calls                             *)

\* The loop's test of _stop
NextInput == IF inStop THEN "ended" ELSE "read"

\* Only a command in the foreground gets the user's keys.  A dialog that the
\* main thread shows for the output reader reads the same console: either of
\* the two may get a key.
InRead(e) ==
  /\ inPc = "read" /\ place = "foreground"
  /\ event' = e /\ inPc' = "lock"
  /\ UNCHANGED <<mainVars, call, locks, switching, exitMarker, outVars, inStarted,
                 inKick, inStop, shellVars>>

InKicked ==
  /\ inPc = "read" /\ inKick
  /\ inKick' = FALSE
  /\ inPc' = NextInput
  /\ UNCHANGED <<mainVars, call, locks, switching, exitMarker, outVars, inStarted,
                 inStop, event, shellVars>>

\* OnInputKey, OnInputMouse: first the extensions, under _read_state_mutex,
\* then OnConsoleLog, OnConsoleSwitch, OnCtrlC or WriteTerm
InHandle ==
  /\ inPc = "lock" /\ ~readState
  /\ inPc' = IF event = "log" THEN "log" ELSE NextInput
  /\ switching' = (switching \/ event = "switch")
  /\ IF event = "kill"
       THEN shell' = "dead" /\ detached' = TRUE /\ outKick' = outStarted
       ELSE UNCHANGED <<shell, detached, outKick>>
  /\ UNCHANGED <<mainVars, call, locks, exitMarker, outStarted, chunk, deactivated,
                 outPc, inStarted, inKick, inStop, event, unread>>

\* OnConsoleLog goes on only if it gets _inout_control_mutex at once.
\* StopAndStart then stops the output reader.
LogTry ==
  /\ inPc = "log"
  /\ IF inout = "free"
       THEN /\ inout' = "in"
            /\ outStarted' = FALSE /\ outKick' = outStarted
            /\ inPc' = "logJoin"
       ELSE inPc' = NextInput /\ UNCHANGED <<inout, outStarted, outKick>>

OnConsoleLog ==
  /\ LogTry
  /\ UNCHANGED <<mainVars, call, readState, switching, exitMarker, outPc, chunk,
                 deactivated, inStarted, inKick, inStop, event, shellVars>>

LogJoined == outPc \in {"none", "ended"}

LogCall ==
  /\ inPc = "logJoin" /\ LogJoined
  /\ outPc' = "none" /\ outKick' = FALSE
  /\ call' = [call EXCEPT !["in"] = "waiting"]
  /\ inPc' = "logCall"
  /\ UNCHANGED <<mainVars, locks, switching, exitMarker, outStarted, chunk, deactivated,
                 inStarted, inKick, inStop, event, shellVars>>

\* ~StopAndStart starts the output reader again
LogReturn ==
  /\ inPc = "logCall" /\ call["in"] = "answered"
  /\ call' = [call EXCEPT !["in"] = "none"]
  /\ StartOut
  /\ inout' = "free"
  /\ inPc' = NextInput
  /\ UNCHANGED <<mainVars, readState, switching, exitMarker, chunk, deactivated,
                 inStarted, inKick, inStop, event, shellVars>>

InStep == InKicked \/ InHandle \/ OnConsoleLog \/ LogCall \/ LogReturn

-----------------------------------------------------------------------------
(* The shell behind the pseudo terminal                                    *)

Emits(what) ==
  /\ Len(unread) < MaxUnread
  /\ unread' = Append(unread, what)
  /\ UNCHANGED <<mainVars, call, locks, switching, exitMarker, outVars, inVars, detached>>

CommandPrints ==
  shell = "running" /\ (Emits("text") \/ ("ask" \in Features /\ Emits("ask"))) /\ UNCHANGED shell

\* The exit marker follows the command, and the prompt the exit marker
CommandEnds == shell = "running" /\ Emits("marker") /\ shell' = "prompt"

Prompt == shell = "prompt" /\ Emits("text") /\ shell' = "idle"

ShellDies ==
  /\ shell = "running"
  /\ shell' = "dead"
  /\ UNCHANGED <<mainVars, call, locks, switching, exitMarker, outVars, inVars, detached, unread>>

-----------------------------------------------------------------------------
ShellMainStep ==
  \/ \E r \in Readers : Dispatch(r)
  \/ StartIOReaders \/ LeaveWait
  \/ StopIOReaders \/ JoinOut \/ JoinIn
  \/ Finish \/ Continue \/ DestroyShell

ShellNext ==
  \/ ShellMainStep \/ OutStep \/ InStep \/ Answer
  \/ \E bgnd \in BOOLEAN : Execute(bgnd)
  \/ \E aim \in {"continue", "destroy"} : StopFor(aim)
  \/ \E e \in {"key"} \cup (Features \cap {"log", "switch", "kill"}) : InRead(e)
  \/ CommandPrints \/ CommandEnds \/ Prompt \/ ShellDies

ShellSpec == ShellInit /\ [][ShellNext]_vtVars

(* Threads go on, the user closes what the main thread shows, and a shell   *)
(* that has run its command prompts.  Nothing is assumed of keys, commands  *)
(* and their ends.                                                          *)
ShellFairness ==
  /\ WF_vtVars(ShellMainStep) /\ WF_vtVars(OutStep) /\ WF_vtVars(InStep)
  /\ WF_vtVars(Answer) /\ WF_vtVars(Prompt)

ShellFairSpec == ShellSpec /\ ShellFairness

-----------------------------------------------------------------------------
(* Properties                                                              *)

\* While the main thread forks or joins the console, or ends a command, there
\* is no reader that uses the console handle, the terminal state or a lock.
ReadersAreStopped ==
  main = "stopped" =>
    /\ inPc = "none" /\ outPc = "none"
    /\ call = [r \in Readers |-> "none"]
    /\ inout = "free" /\ ~readState

\* WithThread::Start asserts !_started: no reader is started twice, whether by
\* the main thread or by an input reader that has stopped the output reader.
NeverStartedTwice ==
  main = "start" \/ inPc = "logCall" => ~outStarted /\ outPc = "none"

\* While the console log is shown, nothing is written into the terminal, whose
\* state VTAnsiSuspend has saved, and no question of the output reader waits.
LogHasTheScreen == inPc = "logCall" => outPc = "none" /\ call["out"] = "none"
=============================================================================
