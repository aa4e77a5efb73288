------------------------------- MODULE TTYBackend -------------------------------
(***************************************************************************)
(* The terminal backend (WinPort/src/Backend/TTY/TTYBackend.cpp).  The     *)
(* reader thread owns the connection to a terminal: it starts the writer,  *)
(* reads what the terminal sends, and when the terminal is gone waits for  *)
(* the writer to end and for another terminal to be attached.  The writer  *)
(* takes the events of _ae and paints.  The program's threads leave events *)
(* in _ae, and ask the far2l that runs the terminal questions it answers   *)
(* by number (Far2lInteract); the clipboard has a thread for that          *)
(* (TTYFar2lClipboardBackend.cpp).                                         *)
(*                                                                         *)
(* A definition right before another one and named after it is a wrong     *)
(* version of it that nothing uses.                                        *)
(***************************************************************************)
EXTENDS Integers, Sequences, FiniteSets

CONSTANTS
  MaxSent,   \* 0xff, the questions that may be unanswered and the greatest number of one
  Scenarios  \* what may happen: one of these, see below

(* screens, palettes: changes of the screen and of the palette; questions:  *)
(* waited ones; clips: clipboard transfers, each of so many chunks;         *)
(* damages: SIGWINCH and SIGCONT; breaks: lost terminals.  All are bounds.  *)
(* plain: there are terminals without far2l; detach, exit: the program may  *)
(* go to background, and may end.                                           *)
Scenario ==
  [screens : Nat, palettes : Nat, questions : Nat, clips : Nat, chunks : Nat,
   damages : Nat, breaks : Nat, plain : BOOLEAN, detach : BOOLEAN, exit : BOOLEAN]

\* Two threads ask
ASSUME TTYBackendAssumption == MaxSent \in Nat /\ MaxSent >= 2 /\ Scenarios \subseteq Scenario

KickCap == 2   \* bound: bytes told apart in the kickass pipe
TTYThreads == {"app", "clip"}
AsyncEvents  == {"resized", "output", "interact", "background", "palette"}
Garbage == -1  \* a screen or a palette that is not ours
None == 0      \* no question is being waited for
Pending == -1  \* the Event is not signalled
Cleared == -2  \* it is, with nothing on the stack
Unknown == -2  \* _prev_width = 0: what the terminal shows is not known

VARIABLES
  may,                \* the scenario
  exiting, deadio,    \* _exiting, _deadio
  ae,                 \* the flags of _ae that are set
  taken,              \* the writer's copy of it
  queued, sent,       \* _far2l_interacts_queued, _far2l_interacts_sent
  mine,               \* the writer's copy of the queue
  idCounter,          \* _far2l_interacts_sent._id_counter
  asleep,             \* who waits for _async_cond: "writer", "app"
  kick, flush,        \* bytes in the kickass pipe, _flush_input_queue
  sizeId, seenId,     \* s_terminal_size_change_id, _terminal_size_change_id
  far2lTty, notify,   \* _far2l_tty, _notify_pipe # -1
  size, prev,         \* _cur_width and _cur_height, _prev_output
  con, palette,       \* the console's screen, _palette
  term,               \* the terminal that is attached
  wire, replies,      \* questions it has received, answers not read yet
  hup,                \* a SIGHUP is on its way
  reader, writer, app, clip,
  cancel,             \* SetDataThread::_cancel
  call,               \* what each thread has asked, by serial number, and the answer
  asked, questions,   \* counts of all questions and of the program's own
  clips, left         \* count of transfers, chunks left to send

async   == <<exiting, deadio, ae, asleep>>
talk    == <<queued, sent, mine, idCounter, wire, replies, call, asked>>
pipe    == <<kick, flush, sizeId, seenId>>
attach  == <<far2lTty, notify, term, hup>>
image   == <<size, prev, con, palette>>
threads == <<reader, writer, app, clip>>
transfer == <<cancel, questions, clips, left>>
ttyVars == <<async, taken, talk, pipe, attach, image, threads, transfer>>

Serials == 1 .. may.questions + 2 * may.clips
Asks    == [who : TTYThreads, serial : Serials]
Note    == [who |-> "nobody", serial |-> 0]   \* a question nobody waits for
Ids     == 1 .. MaxSent                       \* uint8_t

TTYTypeOK ==
  /\ may \in Scenarios
  /\ exiting \in BOOLEAN /\ deadio \in BOOLEAN
  /\ ae \subseteq AsyncEvents /\ taken \subseteq AsyncEvents
  /\ asleep \subseteq {"writer", "app"}
  /\ queued \in Seq(Asks \cup {Note}) /\ mine \in Seq(Asks \cup {Note})
  /\ DOMAIN sent \subseteq Ids /\ \A i \in DOMAIN sent : sent[i] \in Asks
  /\ idCounter \in 0 .. MaxSent
  /\ kick \in 0 .. KickCap /\ flush \in BOOLEAN
  /\ sizeId \in 0 .. may.damages /\ seenId \in 0 .. sizeId
  /\ far2lTty \in BOOLEAN /\ notify \in BOOLEAN /\ hup \in BOOLEAN
  /\ size \in {0, 1} /\ prev \in Unknown .. may.screens
  /\ con \in 0 .. may.screens /\ palette \in 0 .. may.palettes
  /\ term \in [alive : BOOLEAN, far2l : BOOLEAN, size : {0, 1},
               screen : Garbage .. may.screens, palette : Garbage .. may.palettes, number : 0 .. may.breaks]
  /\ wire \subseteq [id : Ids, serial : Serials] /\ replies \subseteq [id : Ids, serial : Serials]
  /\ reader \in {"start", "loop", "flush", "input", "kick", "broken", "dead", "join", "revive", "end"}
  /\ writer \in {"off", "start", "check", "lock", "wait", "do", "send", "bye", "hup", "done"}
  /\ app \in {"run", "palette", "ask", "open", "cancel", "background", "joinReader", "joinClip", "gone"}
  /\ clip \in {"off", "chunk", "test", "last", "wait", "close", "end"}
  /\ cancel \in BOOLEAN
  /\ call \in [TTYThreads -> [serial : Serials \cup {0},
                           answer : {None, Pending, Cleared} \cup Serials]]
  /\ asked \in 0 .. may.questions + 2 * may.clips /\ questions \in 0 .. may.questions /\ clips \in 0 .. may.clips /\ left \in 0 .. may.chunks

NewTerm(f, n) == [alive |-> TRUE, far2l |-> f, size |-> 0, screen |-> Garbage,
                  palette |-> Garbage, number |-> n]

\* WinPortMainTTY: the backend is made and its reader is started.
TTYInit ==
  /\ may \in Scenarios
  /\ exiting = FALSE /\ deadio = FALSE /\ ae = {} /\ taken = {} /\ asleep = {}
  /\ queued = <<>> /\ mine = <<>> /\ sent = [i \in {} |-> Note] /\ idCounter = 0
  /\ kick = 0 /\ flush = FALSE /\ sizeId = 0 /\ seenId = 0
  /\ \E f \in {TRUE, ~may.plain} : term = NewTerm(f, 0) /\ far2lTty = f
  /\ notify = TRUE /\ hup = FALSE
  /\ size = 0 /\ prev = Unknown /\ con = 0 /\ palette = 0
  /\ wire = {} /\ replies = {}
  /\ reader = "start" /\ writer = "off" /\ app = "run" /\ clip = "off"
  /\ cancel = FALSE /\ call = [t \in TTYThreads |-> [serial |-> 0, answer |-> None]]
  /\ asked = 0 /\ questions = 0 /\ clips = 0 /\ left = 0

-----------------------------------------------------------------------------
(* What threads do to _ae under _async_mutex, and to the pipe. *)

Raise(e) == ae' = ae \cup {e} /\ asleep' = {}

KickAss == kick' = IF kick < KickCap THEN kick + 1 ELSE kick

\* Far2lInteract: nothing without far2l on the other side, or at the exit.
CanAsk == far2lTty /\ ~exiting

Enqueue(ask) ==
  /\ queued' = Append(queued, ask)
  /\ Raise("interact")

\* The program or the clipboard's thread asks and waits for its Event.
AskAndWait(t) ==
  /\ CanAsk
  /\ asked' = asked + 1
  /\ call' = [call EXCEPT ![t] = [serial |-> asked + 1, answer |-> Pending]]
  /\ Enqueue([who |-> t, serial |-> asked + 1])
  /\ UNCHANGED <<sent, mine, idCounter, wire, replies>>

Tell ==
  /\ CanAsk
  /\ Enqueue(Note)
  /\ UNCHANGED <<sent, mine, idCounter, wire, replies, call, asked>>

\* Far2lInteract returns false at once, and the caller goes on without an answer.
NotTold == ~CanAsk /\ UNCHANGED <<talk, ae, asleep>>

AnsweredTo(t) == call[t].answer \notin {None, Pending}

-----------------------------------------------------------------------------
(* The main thread. *)

\* OnConsoleOutputUpdated, after the console's screen has changed: by any thread,
\* also while the main one waits.
Output ==
  /\ con < may.screens /\ app \notin {"joinReader", "joinClip", "gone"}
  /\ con' = con + 1
  /\ Raise("output")
  /\ UNCHANGED <<exiting, deadio, taken, talk, pipe, attach, size, prev, palette, threads, transfer>>

\* OnConsoleSetBasePalette and others: until the writer has taken the event.
SetPalette ==
  /\ app = "run" /\ palette < may.palettes
  /\ palette' = palette + 1
  /\ ae' = ae \cup {"palette"} /\ asleep' = {"app"}
  /\ app' = "palette"
  /\ UNCHANGED <<exiting, deadio, taken, talk, pipe, attach, size, prev, con, reader, writer, clip, transfer>>

PaletteAwake ==
  /\ app = "palette" /\ "app" \notin asleep
  /\ IF "palette" \in ae THEN asleep' = asleep \cup {"app"} /\ app' = app
                         ELSE asleep' = asleep /\ app' = "run"
  /\ UNCHANGED <<exiting, deadio, ae, taken, talk, pipe, attach, image, reader, writer, clip, transfer>>

\* OnConsoleGetColorPalette, OnConsoleGetLargestWindowSize, ...
Ask ==
  /\ app = "run" /\ questions < may.questions
  /\ questions' = questions + 1
  /\ AskAndWait("app") /\ app' = "ask"
  /\ UNCHANGED <<exiting, deadio, taken, pipe, attach, image, reader, writer, clip, cancel, clips, left>>

\* OnClipboardOpen asks whether there is a clipboard; if so, OnClipboardSetData
\* starts the transfer.
SetData ==
  /\ app = "run" /\ clip = "off" /\ clips < may.clips
  /\ clips' = clips + 1
  /\ \/ AskAndWait("app") /\ app' = "open"
     \/ NotTold /\ app' = app
  /\ UNCHANGED <<exiting, deadio, taken, pipe, attach, image, reader, writer, clip, cancel, questions, left>>

Return ==
  /\ app \in {"ask", "open"} /\ AnsweredTo("app")
  /\ call' = [call EXCEPT !["app"].answer = None]
  /\ app' = "run"
  /\ IF app = "open" /\ call["app"].answer # Cleared
     THEN clip' = "chunk" /\ left' = may.chunks /\ cancel' = FALSE
     ELSE UNCHANGED <<clip, left, cancel>>
  /\ UNCHANGED <<async, taken, queued, sent, mine, idCounter, wire, replies, asked,
                 pipe, attach, image, reader, writer, questions, clips>>

\* OnClipboardEmpty, also before other data are set: the transfer is cancelled
\* and its thread is waited for (~SetDataThread).
Empty ==
  /\ app = "run" /\ clip # "off"
  /\ cancel' = TRUE /\ app' = "cancel"
  /\ UNCHANGED <<async, taken, talk, pipe, attach, image, reader, writer, clip, questions, clips, left>>

Emptied ==
  /\ app = "cancel" /\ clip = "end"
  /\ clip' = "off" /\ app' = "run"
  /\ Tell \/ NotTold
  /\ UNCHANGED <<exiting, deadio, taken, pipe, attach, image, reader, writer, transfer>>

\* OnConsoleBackgroundMode looks at the notify pipe before it locks.
Background ==
  /\ may.detach /\ app = "run" /\ notify
  /\ app' = "background"
  /\ UNCHANGED <<async, taken, talk, pipe, attach, image, reader, writer, clip, transfer>>

GoBackground ==
  /\ app = "background"
  /\ Raise("background") /\ app' = "run"
  /\ UNCHANGED <<exiting, deadio, taken, talk, pipe, attach, image, reader, writer, clip, transfer>>

\* ~TTYBackend.
Exit ==
  /\ may.exit /\ app = "run"
  /\ exiting' = TRUE /\ asleep' = {} /\ KickAss
  /\ app' = "joinReader"
  /\ UNCHANGED <<deadio, ae, taken, talk, flush, sizeId, seenId, attach, image, reader, writer, clip, transfer>>

\* Then the members go, the clipboard's backend with its thread among them.
ReaderJoined ==
  /\ app = "joinReader" /\ reader = "end"
  /\ app' = "joinClip" /\ notify' = FALSE /\ cancel' = TRUE
  /\ UNCHANGED <<async, taken, talk, pipe, far2lTty, term, hup, image, reader, writer, clip, questions, clips, left>>

Gone ==
  /\ app = "joinClip" /\ clip \in {"off", "end"}
  /\ app' = "gone"
  /\ UNCHANGED <<async, taken, talk, pipe, attach, image, reader, writer, clip, transfer>>

-----------------------------------------------------------------------------
(* SetDataThread::ThreadProc.  Of the chunks, each 16th is waited for: here *)
(* none.                                                                   *)

Chunk ==
  /\ clip = "chunk"
  /\ IF left = 0 THEN clip' = "last" /\ left' = left /\ UNCHANGED <<talk, ae, asleep>>
     ELSE clip' = "test" /\ left' = left - 1 /\ (Tell \/ NotTold)
  /\ UNCHANGED <<exiting, deadio, taken, pipe, attach, image, reader, writer, app, cancel, questions, clips>>

\* Cancelled, it takes back the chunks with an empty one.
Test ==
  /\ clip = "test"
  /\ IF cancel THEN clip' = "close" /\ (Tell \/ NotTold)
               ELSE clip' = "chunk" /\ UNCHANGED <<talk, ae, asleep>>
  /\ UNCHANGED <<exiting, deadio, taken, pipe, attach, image, reader, writer, app, transfer>>

LastChunk ==
  /\ clip = "last"
  /\ \/ AskAndWait("clip") /\ clip' = "wait"
     \/ NotTold /\ clip' = "close"
  /\ UNCHANGED <<exiting, deadio, taken, pipe, attach, image, reader, writer, app, transfer>>

LastDone ==
  /\ clip = "wait" /\ AnsweredTo("clip")
  /\ call' = [call EXCEPT !["clip"].answer = None]
  /\ clip' = "close"
  /\ UNCHANGED <<async, taken, queued, sent, mine, idCounter, wire, replies, asked,
                 pipe, attach, image, reader, writer, app, transfer>>

\* OnClipboardClose.
Close ==
  /\ clip = "close"
  /\ clip' = "end"
  /\ Tell \/ NotTold
  /\ UNCHANGED <<exiting, deadio, taken, pipe, attach, image, reader, writer, app, transfer>>

-----------------------------------------------------------------------------
(* The reader thread. *)

\* The numbers begin again as well.
\* OnInputBroken: all who have been sent get an answer that says nothing.
InputBroken ==
  /\ call' = [t \in TTYThreads |->
                IF \E i \in DOMAIN sent : sent[i].who = t
                THEN [call[t] EXCEPT !.answer = Cleared] ELSE call[t]]
  /\ sent' = [i \in {} |-> Note]
  /\ UNCHANGED <<idCounter, queued, mine, wire, replies, asked>>

ReaderStart ==
  /\ reader = "start" /\ ~exiting
  /\ deadio' = FALSE /\ ae' = ae \cup {"resized"}
  /\ writer' = "start" /\ reader' = "loop"
  /\ UNCHANGED <<exiting, asleep, taken, talk, pipe, attach, image, app, clip, transfer>>

ReaderEnd ==
  /\ reader \in {"start", "revive"} /\ exiting
  /\ reader' = "end"
  /\ UNCHANGED <<async, taken, talk, pipe, attach, image, writer, app, clip, transfer>>

\* select() in ReaderLoop; at the end of a terminal it returns as well.
Select ==
  /\ reader = "loop"
  /\ \/ (exiting \/ deadio) /\ reader' = "broken"
     \/ ~exiting /\ ~deadio /\ (kick > 0 \/ replies # {} \/ ~term.alive) /\ reader' = "flush"
  /\ UNCHANGED <<async, taken, talk, pipe, attach, image, writer, app, clip, transfer>>

FlushInput ==
  /\ reader = "flush"
  /\ reader' = "input" /\ flush' = FALSE
  /\ IF flush THEN InputBroken ELSE UNCHANGED talk
  /\ UNCHANGED <<async, taken, kick, sizeId, seenId, attach, image, writer, app, clip, transfer>>

ReplyUnsaid(r) ==
  /\ r \in replies /\ replies' = replies \ {r}
  /\ sent' = [i \in DOMAIN sent \ {r.id} |-> sent[i]]
  /\ UNCHANGED <<call, queued, mine, idCounter, wire, asked>>

\* OnFar2lReply.
Reply(r) ==
  /\ r \in replies /\ replies' = replies \ {r}
  /\ IF r.id \in DOMAIN sent
     THEN /\ call' = [call EXCEPT ![sent[r.id].who].answer = r.serial]
          /\ sent' = [i \in DOMAIN sent \ {r.id} |-> sent[i]]
     ELSE UNCHANGED <<call, sent>>
  /\ UNCHANGED <<queued, mine, idCounter, wire, asked>>

\* A terminal that ended after select() is read in the next round.
ReadInput ==
  /\ reader = "input"
  /\ \/ term.alive /\ reader' = "kick" /\ (\E r \in replies : Reply(r))
     \/ kick > 0 /\ reader' = "kick" /\ UNCHANGED talk
     \/ ~term.alive /\ reader' = "broken" /\ UNCHANGED talk
  /\ UNCHANGED <<async, taken, pipe, attach, image, writer, app, clip, transfer>>

ReadKick ==
  /\ reader = "kick" /\ reader' = "loop"
  /\ kick' = IF kick > 0 THEN kick - 1 ELSE 0
  /\ IF kick > 0 /\ seenId # sizeId THEN seenId' = sizeId /\ Raise("resized")
                                    ELSE UNCHANGED <<seenId, ae, asleep>>
  /\ UNCHANGED <<exiting, deadio, taken, talk, flush, sizeId, attach, image, writer, app, clip, transfer>>

ReaderBroken ==
  /\ reader = "broken" /\ reader' = "dead"
  /\ InputBroken
  /\ UNCHANGED <<async, taken, pipe, attach, image, writer, app, clip, transfer>>

ReaderDead ==
  /\ reader = "dead" /\ reader' = "join"
  /\ deadio' = TRUE /\ asleep' = {}
  /\ UNCHANGED <<exiting, ae, taken, talk, pipe, attach, image, writer, app, clip, transfer>>

WriterJoined ==
  /\ reader = "join" /\ writer = "done"
  /\ reader' = "revive" /\ writer' = "off" /\ notify' = FALSE
  /\ UNCHANGED <<async, taken, talk, pipe, far2lTty, term, hup, image, app, clip, transfer>>

\* TTYReviveMe: a kick ends the wait for a terminal, and it begins again.
Unkick ==
  /\ reader = "revive" /\ ~exiting /\ kick > 0
  /\ kick' = kick - 1
  /\ UNCHANGED <<async, taken, talk, flush, sizeId, seenId, attach, image, threads, transfer>>

\* TTYReviveIt of another far2l hands over its terminal.
Attach ==
  /\ reader = "revive" /\ ~exiting /\ kick = 0 /\ ~term.alive
  /\ \E f \in {TRUE, ~may.plain} :
       term' = NewTerm(f, term.number) /\ far2lTty' = f
  /\ notify' = TRUE /\ reader' = "start"
  /\ UNCHANGED <<async, taken, talk, pipe, hup, image, writer, app, clip, transfer>>

-----------------------------------------------------------------------------
(* The writer thread. *)

WriterStartBare ==
  /\ writer = "start" /\ writer' = "check"
  /\ UNCHANGED <<async, taken, talk, pipe, attach, image, reader, app, clip, transfer>>

\* DispatchPalette
WriterStart ==
  /\ writer = "start" /\ writer' = "check"
  /\ term' = IF term.alive THEN [term EXCEPT !.palette = palette] ELSE term
  /\ UNCHANGED <<async, taken, talk, pipe, far2lTty, notify, hup, image, reader, app, clip, transfer>>

\* The loops' conditions are looked at without the mutex.
WriterCheck ==
  /\ writer = "check"
  /\ writer' = IF exiting \/ deadio THEN "bye" ELSE "lock"
  /\ UNCHANGED <<async, taken, talk, pipe, attach, image, reader, app, clip, transfer>>

TakeEvents ==
  /\ ae # {}
  /\ taken' = ae /\ ae' = {} /\ writer' = "do"
  /\ asleep' = IF "palette" \in ae THEN {} ELSE asleep

WriterLock ==
  /\ writer = "lock"
  /\ \/ TakeEvents
     \/ ae = {} /\ asleep' = asleep \cup {"writer"} /\ writer' = "wait" /\ UNCHANGED <<ae, taken>>
  /\ UNCHANGED <<exiting, deadio, talk, pipe, attach, image, reader, app, clip, transfer>>

WriterAwake ==
  /\ writer = "wait" /\ "writer" \notin asleep
  /\ \/ TakeEvents
     \/ ae = {} /\ writer' = "check" /\ UNCHANGED <<ae, asleep, taken>>
  /\ UNCHANGED <<exiting, deadio, talk, pipe, attach, image, reader, app, clip, transfer>>

Due(e) == writer = "do" /\ e \in taken   \* the events in the order they are looked at

WritePalette ==
  /\ Due("palette")
  /\ taken' = taken \ {"palette"}
  /\ term' = IF term.alive THEN [term EXCEPT !.palette = palette] ELSE term
  /\ UNCHANGED <<async, talk, pipe, far2lTty, notify, hup, image, threads, transfer>>

\* DispatchTermResized: what was painted is forgotten, and painted anew.
WriteResized ==
  /\ Due("resized") /\ "palette" \notin taken
  /\ taken' = (taken \ {"resized"}) \cup {"output"}
  /\ size' = IF term.alive THEN term.size ELSE size
  /\ prev' = Unknown
  /\ UNCHANGED <<async, talk, pipe, attach, con, palette, threads, transfer>>

\* DispatchOutput writes what differs from what was painted before.
WriteOutput ==
  /\ Due("output") /\ taken \cap {"palette", "resized"} = {}
  /\ taken' = taken \ {"output"}
  /\ term' = IF term.alive /\ prev \in {Unknown, term.screen}
             THEN [term EXCEPT !.screen = con] ELSE term
  /\ prev' = con
  /\ UNCHANGED <<async, talk, pipe, far2lTty, notify, hup, size, con, palette, threads, transfer>>

\* DispatchFar2lInteract takes the queue under one mutex, ...
WriteInteract ==
  /\ Due("interact") /\ taken \subseteq {"interact", "background"}
  /\ taken' = taken \ {"interact"} /\ writer' = "send"
  /\ mine' = queued /\ queued' = <<>>
  /\ UNCHANGED <<async, sent, idCounter, wire, replies, call, asked, pipe, attach, image, reader, app, clip, transfer>>

\* The number after the last one given that is not in use; 0 tells that nobody waits
NextId(last, used) ==
  LET after(k) == (last + k) % (MaxSent + 1)
      free(k)  == after(k) # 0 /\ after(k) \notin used
  IN  after(CHOOSE k \in 1 .. MaxSent + 1 : free(k) /\ \A j \in 1 .. k - 1 : ~free(j))

\* ... and sends under the other.  With MaxSent unanswered it clears that one
\* and returns, whatever else it has taken.
SendOne(s, ask) ==
  IF s.full \/ ask = Note THEN s
  ELSE IF Cardinality(DOMAIN s.sent) >= MaxSent
  THEN [s EXCEPT !.full = TRUE, !.call[ask.who].answer = Cleared]
  ELSE LET id == NextId(s.id, DOMAIN s.sent)
       IN [s EXCEPT !.id = id,
                    !.sent = [i \in DOMAIN s.sent \cup {id} |-> IF i = id THEN ask ELSE s.sent[i]],
                    !.wire = @ \cup (IF term.alive /\ term.far2l
                                     THEN {[id |-> id, serial |-> ask.serial]} ELSE {})]

\* What there is after the loop
AllSent ==
  LET s[k \in 0 .. Len(mine)] ==
        IF k = 0 THEN [full |-> FALSE, sent |-> sent, id |-> idCounter, wire |-> wire, call |-> call]
        ELSE SendOne(s[k-1], mine[k])
  IN  s[Len(mine)]

SendAfter ==
  /\ writer = "send" /\ writer' = "do"
  /\ sent' = [i \in {} |-> Note] /\ idCounter' = AllSent.id /\ wire' = AllSent.wire
  /\ call' = AllSent.call
  /\ mine' = <<>>
  /\ UNCHANGED <<async, taken, queued, replies, asked, pipe, attach, image, reader, app, clip, transfer>>

Send ==
  /\ writer = "send" /\ writer' = "do"
  /\ sent' = AllSent.sent /\ idCounter' = AllSent.id /\ wire' = AllSent.wire
  /\ call' = AllSent.call
  /\ mine' = <<>>
  /\ UNCHANGED <<async, taken, queued, replies, asked, pipe, attach, image, reader, app, clip, transfer>>

\* Flush() may throw when the terminal is gone.
WriteFlush ==
  /\ writer = "do" /\ taken \subseteq {"background"}
  /\ \/ taken = {} /\ writer' = "check"
     \/ (taken # {} \/ ~term.alive) /\ writer' = "bye"
  /\ UNCHANGED <<async, taken, talk, pipe, attach, image, reader, app, clip, transfer>>

WriterBye ==
  /\ writer = "bye"
  /\ deadio' = TRUE
  /\ writer' = IF taken = {} THEN "done" ELSE "hup"
  /\ UNCHANGED <<exiting, ae, asleep, taken, talk, pipe, attach, image, reader, app, clip, transfer>>

\* OnSigHup, called by the writer: the terminal is replaced by /dev/null.
WriterHup ==
  /\ writer = "hup" /\ writer' = "done"
  /\ taken' = {}
  /\ term' = [term EXCEPT !.alive = FALSE] /\ wire' = {} /\ replies' = {}
  /\ flush' = TRUE /\ KickAss
  /\ UNCHANGED <<async, queued, sent, mine, idCounter, call, asked, sizeId, seenId,
                 far2lTty, notify, hup, image, reader, app, clip, transfer>>

-----------------------------------------------------------------------------
(* The terminal, and signals. *)

Answer ==
  /\ \E m \in wire : wire' = wire \ {m} /\ replies' = replies \cup {m}
  /\ UNCHANGED <<async, taken, queued, sent, mine, idCounter, call, asked, pipe, attach, image, threads, transfer>>

\* SIGWINCH, and SIGCONT after something else has used the terminal.
Damage ==
  /\ term.alive /\ sizeId < may.damages /\ app \in {"run", "palette", "ask", "open", "cancel", "background"}
  /\ \/ term' = [term EXCEPT !.size = 1 - @, !.screen = Garbage] /\ flush' = flush
     \/ term' = [term EXCEPT !.screen = Garbage] /\ flush' = TRUE
  /\ sizeId' = sizeId + 1 /\ KickAss
  /\ UNCHANGED <<async, taken, talk, seenId, far2lTty, notify, hup, image, threads, transfer>>

Break ==
  /\ term.alive /\ term.number < may.breaks
  /\ term' = [term EXCEPT !.alive = FALSE, !.number = @ + 1]
  /\ wire' = {} /\ replies' = {}
  /\ hup' \in BOOLEAN
  /\ UNCHANGED <<async, taken, queued, sent, mine, idCounter, call, asked, pipe, far2lTty, notify, image, threads, transfer>>

SigHup ==
  /\ hup /\ hup' = FALSE
  /\ flush' = TRUE /\ KickAss
  /\ term' = [term EXCEPT !.alive = FALSE] /\ wire' = {} /\ replies' = {}
  /\ UNCHANGED <<async, taken, queued, sent, mine, idCounter, call, asked, sizeId, seenId, far2lTty, notify, image, threads, transfer>>

Main ==
  \/ Output \/ SetPalette \/ PaletteAwake \/ Ask \/ SetData \/ Return \/ Empty \/ Emptied
  \/ Background \/ GoBackground \/ Exit \/ ReaderJoined \/ Gone
Clip   == Chunk \/ Test \/ LastChunk \/ LastDone \/ Close
Reader ==
  \/ ReaderStart \/ ReaderEnd \/ Select \/ FlushInput \/ ReadInput \/ ReadKick
  \/ ReaderBroken \/ ReaderDead \/ WriterJoined \/ Unkick
Writer ==
  \/ WriterStart \/ WriterCheck \/ WriterLock \/ WriterAwake \/ WritePalette \/ WriteResized
  \/ WriteOutput \/ WriteInteract \/ Send \/ WriteFlush \/ WriterBye \/ WriterHup
Outside == Answer \/ Damage \/ Break \/ SigHup \/ Attach

TTYNext == UNCHANGED may /\ (Main \/ Clip \/ Reader \/ Writer \/ Outside)

TTYSpec == TTYInit /\ [][TTYNext]_<<may, ttyVars>>

(* The threads run, and a terminal with far2l answers what it is asked      *)
(* (FarTTY.h).  Users and signals promise nothing.                           *)
TTYFairness ==
  /\ WF_ttyVars(PaletteAwake) /\ WF_ttyVars(Return) /\ WF_ttyVars(Emptied) /\ WF_ttyVars(GoBackground)
  /\ WF_ttyVars(ReaderJoined) /\ WF_ttyVars(Gone)
  /\ WF_ttyVars(Clip) /\ WF_ttyVars(Reader) /\ WF_ttyVars(Writer) /\ WF_ttyVars(Answer)

TTYFairSpec == TTYSpec /\ TTYFairness

-----------------------------------------------------------------------------
(* Properties                                                               *)

Waiting(t) == call[t].answer = Pending

(* OnFar2lReply finds the question by its number (TTYBackend.cpp:1130): an  *)
(* answer is never taken for that of another question, also when the        *)
(* numbers of questions that were given up come back late.                  *)
AnswerIsItsOwn == \A t \in TTYThreads : call[t].answer \in Serials => call[t].answer = call[t].serial

(* DispatchFar2lInteract and OnFar2lReply move a question between two       *)
(* containers under two mutexes: one whose asker still waits is in the      *)
(* queue, in the writer's hands or among those sent.                        *)
NobodyForgotten ==
  \A t \in TTYThreads : Waiting(t) =>
    \/ \E i \in DOMAIN sent : sent[i].who = t
    \/ \E s \in {queued, mine} : \E i \in DOMAIN s : s[i].who = t

(* Both, for every thread that asks the terminal something.                 *)
AnswersMatch == AnswerIsItsOwn /\ NobodyForgotten

(* OnConsoleOutputUpdated, OnConsoleOverrideColor: what the program has     *)
(* printed, and its palette, come to be shown, whatever was damaged or      *)
(* replaced, while a terminal stays.                                        *)
ScreenIsShown ==
  reader = "loop" /\ term.alive
    ~> \/ term.screen = con /\ term.palette = palette /\ size = term.size
       \/ ~term.alive \/ deadio \/ exiting

(* Far2lInteract waits without a time limit: with a terminal that stays and *)
(* answers, every wait ends, and the wait for the palette.  When the first  *)
(* terminal is lost nobody need come after it.                              *)
WaitsEnd ==
  app \in {"palette", "ask", "open", "cancel"} ~> app \in {"run", "gone"} \/ term.number > 0

=============================================================================
