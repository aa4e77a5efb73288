------------------------------ MODULE ConsoleInput ------------------------------
(***************************************************************************)
(* The queue of console input (WinPort/src/ConsoleInput.cpp), who reads it *)
(* and who writes it.  The application reads at priority 0; a password     *)
(* prompt runs in a thread of its own, raises the priority and has the     *)
(* queue to itself while it is open.  Records may carry a callback, which  *)
(* is run by whoever takes them.                                           *)
(*                                                                         *)
(* A definition right before another one and named after it is a wrong     *)
(* version of it that nothing uses.                                        *)
(***************************************************************************)
EXTENDS Integers, Sequences, SequencesExt, FiniteSets, FiniteSetsExt

CONSTANTS
  App,        \* the thread that runs the application
  Screens,    \* password prompts: each opens once and puts one record when it closes
  Events,     \* the other records, each of which is written once
  Kind        \* Events -> "key", "enter", "esc", "kick", "title", "sync"

ASSUME ConsoleInputAssumption ==
  /\ App \notin Screens /\ Events \cap Screens = {} /\ IsFiniteSet(Screens)
  /\ Kind \in [Events -> {"key", "enter", "esc", "kick", "title", "sync"}]
  /\ \A e, f \in Events : Kind[e] = Kind[f] /\ Kind[e] = "sync" => e = f

Readers == {App} \cup Screens
Records == Events \cup Screens

VARIABLES
  pending,    \* _pending
  written,       \* the events that have been written
  prio,       \* the priority each screen holds, 0 for none: _requestor_priorities
  pc,         \* what each reader does
  calls,      \* the callback each reader runs: "none", "title", "signal", "deref"
  noop,       \* the records turned into NOOP_EVENT
  backlog,    \* of CheckForKeyPress
  tester,     \* the test client's Sync: "no", "waiting", "waited", "late"
  refs,       \* _refcnt of its event
  signalled,  \* its event is signalled
  before,     \* history: the keys written before Sync
  title,      \* "old", "wanted", "shown"
  gone,       \* history: the events that were read, flushed, or dropped as keys by a check
  kicked,     \* history: a kick was written and the application has read nothing since
  answer      \* _result and _input of each screen

queue  == <<pending, written, gone, kicked>>
test   == <<tester, refs, signalled, before>>
consoleVars == <<queue, prio, pc, calls, noop, backlog, test, title, answer>>

Answers == [result : {"pending", "ok", "cancel"}, input : SUBSET Events]

ConsoleTypeOK ==
  /\ pending \in Seq(Records) /\ backlog \in Seq(Records)
  /\ written \subseteq Events /\ noop \subseteq Events /\ kicked \in BOOLEAN
  /\ gone \subseteq Events
  /\ prio \in [Screens -> 0 .. Cardinality(Screens)]
  /\ pc \in [Readers -> {"idle", "read", "wait", "asleep", "check", "checkTake",
                         "closed", "open", "drain", "update", "lower", "done"}]
  /\ calls \in [Readers -> {"none", "title", "signal", "deref"}]
  /\ tester \in {"no", "waiting", "waited", "late"}
  /\ refs \in 0 .. 2 /\ signalled \in BOOLEAN /\ before \subseteq Events
  /\ title \in {"old", "wanted", "shown"}
  /\ answer \in [Screens -> Answers]

Unanswered == [result |-> "pending", input |-> {}]

ConsoleInit ==
  /\ pending = <<>> /\ written = {} /\ gone = {} /\ kicked = FALSE
  /\ prio = [s \in Screens |-> 0]
  /\ pc = [r \in Readers |-> IF r = App THEN "idle" ELSE "closed"]
  /\ calls = [r \in Readers |-> "none"]
  /\ noop = {} /\ backlog = <<>>
  /\ tester = "no" /\ refs = 0 /\ signalled = FALSE /\ before = {}
  /\ title = "old"
  /\ answer = [s \in Screens |-> Unanswered]

-----------------------------------------------------------------------------
(* The queue.  Each operation holds _mutex throughout                      *)

Priority(r) == IF r = App THEN 0 ELSE prio[r]

CurrentPriority == Max({0} \cup {prio[s] : s \in Screens})

Admitted(r) == Priority(r) >= CurrentPriority

Ready(r) == pending # <<>> /\ Admitted(r)

Goes(r, to) == pc' = [pc EXCEPT ![r] = to]

\* notify_all: the sleepers look again
Roused(p) == [r \in Readers |-> IF p[r] = "asleep"
                                  THEN IF r = App THEN "wait" ELSE "open" ELSE p[r]]

\* Enqueue, by a thread that goes on in state p
Put(records, p) ==
  /\ pending' = pending \o records
  /\ pc' = Roused(p)

Call(e) ==
  IF e \in noop \cup Screens \/ Kind[e] \notin {"title", "sync"} THEN "none"
  ELSE IF Kind[e] = "title" THEN "title" ELSE "signal"

InspectOnly(r, e) ==
  /\ calls' = [calls EXCEPT ![r] = Call(e)]
  /\ UNCHANGED noop

\* InspectCallbacks of the record that was taken
Inspect(r, e) ==
  /\ calls' = [calls EXCEPT ![r] = Call(e)]
  /\ noop' = IF Call(e) = "none" THEN noop ELSE noop \cup {e}

\* Dequeue of one record
Take(r) ==
  /\ Ready(r)
  /\ pending' = Tail(pending)
  /\ Inspect(r, Head(pending))

\* The callback runs after the mutex is released
RunTitle(r) ==
  /\ calls[r] = "title"
  /\ calls' = [calls EXCEPT ![r] = "none"]
  /\ title' = "shown"
  /\ UNCHANGED <<queue, prio, pc, noop, backlog, test, answer>>

SignalEvent(r) ==
  /\ calls[r] = "signal"
  /\ calls' = [calls EXCEPT ![r] = "deref"]
  /\ signalled' = TRUE
  /\ UNCHANGED <<queue, prio, pc, noop, backlog, tester, refs, before, title, answer>>

DerefEvent(r) ==
  /\ calls[r] = "deref"
  /\ calls' = [calls EXCEPT ![r] = "none"]
  /\ refs' = refs - 1
  /\ UNCHANGED <<queue, prio, pc, noop, backlog, tester, signalled, before, title, answer>>

IsKey(e) == e \in Events /\ Kind[e] \in {"key", "enter", "esc"}

Loses(records) == gone' = gone \cup (records \cap Events)

At(r, state) == pc[r] = state /\ calls[r] = "none"

-----------------------------------------------------------------------------
(* Writers                                                                 *)

\* Keys of the user and the kick of InterThreadCall
Write(e) ==
  /\ e \notin written /\ Kind[e] \notin {"title", "sync"}
  /\ Put(<<e>>, pc) /\ written' = written \cup {e}
  /\ kicked' = (kicked \/ Kind[e] = "kick")
  /\ UNCHANGED <<gone, prio, calls, noop, backlog, test, title, answer>>

\* OnConsoleOutputTitleChanged
WriteTitle(e) ==
  /\ e \notin written /\ Kind[e] = "title"
  /\ Put(<<e>>, pc) /\ written' = written \cup {e}
  /\ title' = "wanted"
  /\ UNCHANGED <<gone, kicked, prio, calls, noop, backlog, test, answer>>

\* ClientDispatchSync, up to TimedWait
Sync(e) ==
  /\ e \notin written /\ Kind[e] = "sync"
  /\ Put(<<e>>, pc) /\ written' = written \cup {e}
  /\ tester' = "waiting" /\ refs' = 2
  /\ before' = {k \in written : IsKey(k)}
  /\ UNCHANGED <<gone, kicked, prio, calls, noop, backlog, signalled, title, answer>>

\* ... and after it: the event came or the time is over
SyncReturns ==
  /\ tester = "waiting"
  /\ \/ signalled /\ tester' = "waited"
     \/ tester' = "late"
  /\ refs' = refs - 1
  /\ UNCHANGED <<queue, prio, pc, calls, noop, backlog, signalled, before, title, answer>>

-----------------------------------------------------------------------------
(* The application                                                         *)

rest == <<written, prio, test, title, answer>>

\* ReadConsoleInput, or WaitConsoleInput
StartRead ==
  /\ At(App, "idle") /\ Goes(App, "read")
  /\ UNCHANGED <<pending, gone, kicked, calls, noop, backlog, rest>>

Read ==
  /\ At(App, "read")
  /\ \/ /\ Take(App) /\ Goes(App, "idle")
        /\ kicked' = FALSE /\ Loses({Head(pending)})
     \/ /\ ~Ready(App) /\ Goes(App, "wait")
        /\ UNCHANGED <<pending, gone, kicked, calls, noop>>
  /\ UNCHANGED <<backlog, rest>>

\* WaitForNonEmpty
WaitForNonEmpty ==
  /\ At(App, "wait")
  /\ Goes(App, IF Ready(App) THEN "read" ELSE "asleep")
  /\ UNCHANGED <<pending, gone, kicked, calls, noop, backlog, rest>>

\* The wait of WaitConsoleInput times out, or wakes up for nothing
AppWakes ==
  /\ At(App, "asleep")
  /\ \E to \in {"idle", "wait"} : Goes(App, to)
  /\ UNCHANGED <<pending, gone, kicked, calls, noop, backlog, rest>>

\* CheckForKeyPress(Esc, CFKP_KEEP_OTHER_EVENTS), as plugins call it
StartCheck ==
  /\ At(App, "idle") /\ Goes(App, "check")
  /\ UNCHANGED <<pending, gone, kicked, calls, noop, backlog, rest>>

\* The end of CheckForKeyPress: what was put aside goes back
PutBack ==
  /\ IF backlog = <<>>
       THEN Goes(App, "idle") /\ UNCHANGED pending
       ELSE Put(backlog, [pc EXCEPT ![App] = "idle"])
  /\ backlog' = <<>>
  /\ UNCHANGED <<gone, calls, noop>>

\* WaitForNonEmptyWithTimeout(0)
CheckMore ==
  /\ At(App, "check")
  /\ \/ Ready(App) /\ Goes(App, "checkTake")
        /\ UNCHANGED <<pending, gone, calls, noop, backlog>>
     \/ ~Ready(App) /\ PutBack
  /\ UNCHANGED <<kicked, rest>>

\* Keys are dropped, the rest is put aside
Sorted(e) ==
  IF IsKey(e) THEN Loses({e}) /\ UNCHANGED backlog
              ELSE backlog' = Append(backlog, e) /\ UNCHANGED gone

CheckTakeGivesUp ==
  /\ At(App, "checkTake")
  /\ \/ Take(App) /\ Goes(App, "check") /\ Sorted(Head(pending))
     \/ /\ ~Ready(App) /\ Goes(App, "idle") /\ backlog' = <<>>
        /\ UNCHANGED <<pending, gone, calls, noop>>
  /\ UNCHANGED <<kicked, rest>>

\* Dequeue, which may fail although there was a record just before: a screen has opened
CheckTake ==
  /\ At(App, "checkTake")
  /\ \/ Take(App) /\ Goes(App, "check") /\ Sorted(Head(pending))
     \/ ~Ready(App) /\ PutBack
  /\ UNCHANGED <<kicked, rest>>

\* FlushConsoleInputBuffer.  That it takes kicks away as well is InterThreadCall's matter
Flush ==
  /\ At(App, "idle") /\ Ready(App)
  /\ pending' = <<>> /\ kicked' = FALSE /\ Loses(ToSet(pending))
  /\ UNCHANGED <<pc, calls, noop, backlog, rest>>

-----------------------------------------------------------------------------
(* A password prompt: SudoAskpassScreen                                    *)

others == <<written, backlog, test, title>>

\* RaiseRequestorPriority
Open(s) ==
  /\ At(s, "closed") /\ Goes(s, "open")
  /\ prio' = [prio EXCEPT ![s] = CurrentPriority + 1]
  /\ UNCHANGED <<pending, gone, kicked, calls, noop, answer, others>>

\* Loop: WaitForNonEmptyWithTimeout(700), whose time may be over
Loop(s) ==
  /\ At(s, "open")
  /\ \/ Ready(s) /\ Goes(s, "drain")
     \/ ~Ready(s) /\ Goes(s, "asleep")
  /\ UNCHANGED <<pending, gone, kicked, prio, calls, noop, answer, others>>

TimeOut(s) ==
  /\ At(s, "asleep")
  /\ Goes(s, IF answer[s].result = "pending" THEN "open" ELSE "update")
  /\ UNCHANGED <<pending, gone, kicked, prio, calls, noop, answer, others>>

\* DispatchInputKey
Answered(a, e) ==
  IF Kind[e] = "enter" THEN [a EXCEPT !.result = "ok"]
  ELSE IF Kind[e] = "esc" THEN [a EXCEPT !.result = "cancel"]
  ELSE [a EXCEPT !.input = @ \cup {e}]

\* DispatchInput: what is no key is dropped
DispatchInput(s) ==
  /\ At(s, "drain")
  /\ \/ /\ Take(s) /\ UNCHANGED pc /\ Loses({Head(pending)})
        /\ answer' = [answer EXCEPT ![s] = IF IsKey(Head(pending))
                                             THEN Answered(@, Head(pending)) ELSE @]
     \/ /\ ~Ready(s) /\ Goes(s, "open")
        /\ UNCHANGED <<pending, gone, calls, noop, answer>>
  /\ UNCHANGED <<kicked, prio, others>>

UpdateScreenNot(s) ==
  /\ At(s, "update") /\ Goes(s, "lower")
  /\ UNCHANGED <<pending, gone, kicked, prio, calls, noop, answer, others>>

\* ~FinalScreenUpdater: the priority is still raised
UpdateScreen(s) ==
  /\ At(s, "update")
  /\ Put(<<s>>, [pc EXCEPT ![s] = "lower"])
  /\ UNCHANGED <<gone, kicked, prio, calls, noop, answer, others>>

\* ~ConsoleInputPriority: LowerRequestorPriority
Lower(s) ==
  /\ At(s, "lower")
  /\ prio' = [prio EXCEPT ![s] = 0]
  /\ pc' = LET p == [pc EXCEPT ![s] = "done"] IN IF pending = <<>> THEN p ELSE Roused(p)
  /\ UNCHANGED <<pending, gone, kicked, calls, noop, answer, others>>

-----------------------------------------------------------------------------
AppStep ==
  Read \/ WaitForNonEmpty \/ AppWakes \/ CheckMore \/ CheckTake

ScreenStep(s) ==
  Loop(s) \/ TimeOut(s) \/ DispatchInput(s) \/ UpdateScreen(s) \/ Lower(s)

Callback(r) == RunTitle(r) \/ SignalEvent(r) \/ DerefEvent(r)

ConsoleNext ==
  \/ \E e \in Events : Write(e) \/ WriteTitle(e) \/ Sync(e)
  \/ SyncReturns
  \/ StartRead \/ StartCheck \/ Flush \/ AppStep
  \/ \E s \in Screens : Open(s) \/ ScreenStep(s)
  \/ \E r \in Readers : Callback(r)

ConsoleSpec == ConsoleInit /\ [][ConsoleNext]_consoleVars

\* Threads run; the application comes back to reading however often it does something
\* else between; a wait without a time limit is not ended by a timer.
ConsoleFairness ==
  /\ SF_consoleVars(StartRead)
  /\ WF_consoleVars(Read) /\ WF_consoleVars(WaitForNonEmpty)
  /\ WF_consoleVars(CheckMore) /\ WF_consoleVars(CheckTake)
  /\ \A s \in Screens : WF_consoleVars(ScreenStep(s))
  /\ \A r \in Readers : WF_consoleVars(Callback(r))

ConsoleFairSpec == ConsoleSpec /\ ConsoleFairness

-----------------------------------------------------------------------------
(* Properties                                                              *)

\* Who sleeps in WaitForNonEmpty has nothing to read: records were put, or the priority
\* lowered, only with the sleepers told.
SleepersHaveNothing ==
  \A r \in Readers : pc[r] = "asleep" => ~Ready(r)

\* No kick vanishes: one that a screen or CheckForKeyPress takes from the application
\* leaves it something else to wake up for (InterThreadCall writes one kick for many
\* calls).  And no record: what CheckForKeyPress puts aside comes back, whatever opens
\* between its two looks at the queue, except keys and what is flushed.
KickIsReplaced ==
  kicked => \/ pending # <<>> \/ backlog # <<>>
            \/ \E s \in Screens : pc[s] \in {"open", "asleep", "drain", "update"}

PutAsideComesBack ==
  written \subseteq gone \cup ToSet(pending) \cup ToSet(backlog)

\* What the three promise together: whoever could read is told, and there is what it was
\* told of.
NothingVanishes == SleepersHaveNothing /\ KickIsReplaced /\ PutAsideComesBack

\* "waited" tells the test client that the keys it has sent before are taken: none of them
\* is still in the queue, or put aside to be put back behind the Sync.  And the event of a
\* Sync is there when the callback signals it, however late and by whomever that is run.
SyncIsTrue ==
  /\ signalled => before \cap (ToSet(pending) \cup ToSet(backlog)) = {}
  /\ \A r \in Readers : calls[r] \in {"signal", "deref"} => refs > 0

\* A kick wakes the application (InterThreadCall relies on it), unless a screen is open.
KicksWake ==
  kicked ~> ~kicked \/ \E s \in Screens : pc[s] \notin {"closed", "done"}

=============================================================================
