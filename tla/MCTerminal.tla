------------------------------- MODULE MCTerminal -------------------------------
(***************************************************************************)
(* What is between far2l and the terminal, and between far2l and sudo:     *)
(* three parts side by side, of which one runs, chosen in the beginning.   *)
(***************************************************************************)
EXTENDS ConsoleInput, TTYBackend, SudoClient

CONSTANTS
  Parts,   \* those that a run looks at
  aKey, anEnter, anEsc, aKick, aTitle, aSync

VARIABLE part

\* What each of the console's records is
KindOf ==
  [e \in Events |-> CASE e = aKey    -> "key"
                      [] e = anEnter -> "enter"
                      [] e = anEsc   -> "esc"
                      [] e = aKick   -> "kick"
                      [] e = aTitle  -> "title"
                      [] e = aSync   -> "sync"]

(* Scenarios of the terminal backend *)

Quiet == [screens |-> 0, palettes |-> 0, questions |-> 0, clips |-> 0, chunks |-> 0,
          damages |-> 0, breaks |-> 0, plain |-> FALSE, detach |-> FALSE, exit |-> FALSE]

\* A terminal is lost and another attached in the middle of a transfer
Talk == [Quiet EXCEPT !.questions = 1, !.clips = 1, !.chunks = 1, !.breaks = 1,
                      !.plain = TRUE, !.exit = TRUE]

\* The numbers of questions that were given up are given again
Late == [Quiet EXCEPT !.questions = 2, !.clips = 1, !.damages = 1]

Talks == {Talk, Late}

\* A terminal that stays
Waits == [Quiet EXCEPT !.palettes = 1, !.questions = 1, !.clips = 1, !.chunks = 1]

\* Another terminal
Paint == [Quiet EXCEPT !.screens = 1, !.palettes = 1, !.breaks = 1]

PaintsAndWaits == {Paint, Waits}

-----------------------------------------------------------------------------
terminalVars == <<part, consoleVars, may, ttyVars, sudoVars>>

TerminalInit ==
  /\ part \in Parts
  /\ ConsoleInit /\ TTYInit /\ SudoInit
  /\ part # "tty" => may = (CHOOSE s \in Scenarios : TRUE) /\ far2lTty

TerminalNext ==
  /\ UNCHANGED part
  /\ \/ part = "console" /\ ConsoleNext /\ UNCHANGED <<may, ttyVars, sudoVars>>
     \/ part = "tty" /\ TTYNext /\ UNCHANGED <<consoleVars, sudoVars>>
     \/ part = "sudo" /\ SudoNext /\ UNCHANGED <<consoleVars, may, ttyVars>>

TerminalSpec == TerminalInit /\ [][TerminalNext]_terminalVars

(* The fairness of each part, as its module justifies it: what can be done  *)
(* from the beginning must be done by the part that runs only.              *)
TerminalFairSpec ==
  /\ TerminalSpec
  /\ SF_consoleVars(part = "console" /\ StartRead)
  /\ WF_consoleVars(Read) /\ WF_consoleVars(WaitForNonEmpty)
  /\ WF_consoleVars(CheckMore) /\ WF_consoleVars(CheckTake)
  /\ \A s \in Screens : WF_consoleVars(ScreenStep(s))
  /\ \A r \in Readers : WF_consoleVars(Callback(r))
  /\ WF_ttyVars(PaletteAwake) /\ WF_ttyVars(Return) /\ WF_ttyVars(Emptied) /\ WF_ttyVars(GoBackground)
  /\ WF_ttyVars(ReaderJoined) /\ WF_ttyVars(Gone)
  /\ WF_ttyVars(Clip) /\ WF_ttyVars(part = "tty" /\ Reader) /\ WF_ttyVars(part = "tty" /\ Writer)
  /\ WF_ttyVars(Answer)
  /\ SudoFairness

TerminalTypeOK == ConsoleTypeOK /\ TTYTypeOK /\ SudoTypeOK
=============================================================================
