------------------------------ MODULE EditorUndo ------------------------------
(***************************************************************************)
(* The undo list of an editor (far/src/editor.cpp) and what is derived     *)
(* from it: whether the text differs from the file, which decides whether  *)
(* quitting asks (far/src/fileedit.cpp).  Every command appends records of *)
(* what it is about to change; commands that change several lines put them *)
(* between a BEGIN and an END.  Undo replays records backwards and turns   *)
(* each into its opposite, so that redo can replay them forwards.          *)
(*                                                                         *)
(* A record's "was" is history: the text when the record was appended.     *)
(* A string is a number, 0 the empty one; each change makes a new one.     *)
(* Position 0 of the list stands for UndoData.end().                       *)
(*                                                                         *)
(* A definition right before another one and named after it is a wrong     *)
(* version of it that nothing uses.                                        *)
(***************************************************************************)
EXTENDS Integers, SequencesExt, FiniteSets

CONSTANTS
  Positions,     \* columns at which lines are edited
  InitialLines,  \* lines of the file
  MaxLines,      \* bound: lines of the text
  MaxEdits,      \* bound: changes, and strings made
  MaxBlocks,     \* bound: blocks open at once
  UndoSize,      \* EdOpt.UndoSize, 0 when there is no limit
  CursorMoves,   \* whether the cursor moves before the text that was saved is edited
  SavesFail,     \* whether writing the file may fail
  PluginsExpand  \* whether plugins expand tabs

ASSUME EditorUndoAssumption ==
  /\ Positions \subseteq Nat /\ InitialLines \in 1 .. MaxLines
  /\ {MaxLines, MaxEdits, MaxBlocks, UndoSize} \subseteq Nat
  /\ {CursorMoves, SavesFail, PluginsExpand} \subseteq BOOLEAN

VARIABLES
  text,      \* the lines
  undo,      \* UndoData, UndoPos, UndoSavePos and what goes with them
  modified,  \* FEDITOR_MODIFIED
  saved,     \* the lines that the file holds
  blocks,    \* blocks that are open
  edits      \* changes so far, which number the strings

editorVars == <<text, undo, modified, saved, blocks, edits>>

Line    == [str : 0 .. MaxEdits + MaxLines, eol : BOOLEAN]
Types   == {"edit", "insstr", "delstr", "begin", "end"}
Record  == [type : Types, line : Nat, pos : Nat, of : Line, was : Seq(Line)]
NoLine  == [str |-> 0, eol |-> FALSE]

EditorTypeOK ==
  /\ text \in Seq(Line) /\ Len(text) \in 1 .. MaxLines
  /\ undo \in [list : Seq(Record), pos : Nat, save : Nat, lost : BOOLEAN,
               skip : Nat, fresh : BOOLEAN, last : Nat]
  /\ {undo.pos, undo.save} \subseteq 0 .. Len(undo.list)
  /\ UndoSize > 0 => Len(undo.list) <= UndoSize
  /\ modified \in BOOLEAN /\ saved \in Seq(Line)
  /\ blocks \in 0 .. MaxBlocks /\ edits \in 0 .. MaxEdits

NoUndo == [list |-> <<>>, pos |-> 0, save |-> 0, lost |-> FALSE,
           skip |-> 0, fresh |-> FALSE, last |-> 0]

\* The file's last line has no end, as LoadFile leaves it.
EditorInit ==
  /\ text = [i \in 1 .. InitialLines |->
               [str |-> MaxEdits + i, eol |-> i < InitialLines]]
  /\ saved = text /\ undo = NoUndo /\ modified = FALSE /\ blocks = 0 /\ edits = 0

-----------------------------------------------------------------------------
(* AddUndoData                                                              *)

CutRedoKeepingSave(u) == [u EXCEPT !.list = SubSeq(@, 1, u.pos)]

\* Records that were undone go; a text that was saved among them is out of
\* reach.
CutRedo(u) ==
  [u EXCEPT !.list = SubSeq(@, 1, u.pos),
            !.save = IF @ > u.pos THEN 0 ELSE @,
            !.lost = @ \/ u.save > u.pos]

\* The BEGIN of a block that holds no record, or one: 0 if there is none.
LoneBegin(list) ==
  LET n == Len(list)
      b == IF n > 0 /\ list[n].type # "begin" THEN n - 1 ELSE n
  IN  IF b > 0 /\ list[b].type = "begin" THEN b ELSE 0

\* Such a block needs neither BEGIN nor END.
Unwrap(u, b) ==
  LET n == Len(u.list) - 1
  IN  [u EXCEPT !.list = SubSeq(@, 1, b - 1) \o SubSeq(@, b + 1, n + 1),
                !.pos  = n,
                !.save = IF @ = b THEN n ELSE IF @ > b THEN @ - 1 ELSE @]

MergesAnyLine(u, line, pos) ==
  /\ ~u.fresh /\ u.list # <<>>
  /\ LET prev == u.list[Len(u.list)]
     IN  prev.type = "edit" /\ (pos - prev.pos \in -1 .. 1 \/ pos - u.last \in -1 .. 1)

\* An edit near the one before it in the same line needs no record.
Merges(u, line, pos) ==
  /\ ~u.fresh /\ u.list # <<>>
  /\ LET prev == u.list[Len(u.list)]
     IN  /\ prev.type = "edit" /\ prev.line = line
         /\ pos - prev.pos \in -1 .. 1 \/ pos - u.last \in -1 .. 1

\* How many blocks of which the BEGIN has gone are open after each record
Skipped(u) ==
  LET skip[k \in 0 .. Len(u.list)] ==
        IF k = 0 THEN u.skip
        ELSE IF u.list[k].type = "begin" THEN skip[k-1] + 1
        ELSE IF u.list[k].type = "end" /\ skip[k-1] > 0 THEN skip[k-1] - 1
        ELSE skip[k-1]
  IN  skip

\* The number of records that are too many, with the rest of their blocks
Excess(u) ==
  LET n == Len(u.list)
      enough == {k \in 0 .. n : k = n \/ (n - k <= UndoSize /\ Skipped(u)[k] = 0)}
  IN  CHOOSE k \in enough : \A j \in enough : k <= j

TrimKeepingSave(u) ==
  LET n == Len(u.list)
      k == Excess(u)
  IN  IF UndoSize = 0 THEN u
      ELSE [u EXCEPT !.list = SubSeq(@, k + 1, n), !.pos = n - k, !.skip = Skipped(u)[k],
                     !.save = IF @ > k THEN @ - k ELSE 0]

\* The oldest records go, whole blocks of them, until the list fits; what is
\* saved at a record that goes is next to be at end(), then out of reach.
Trim(u) ==
  LET n == Len(u.list)
      k == Excess(u)
  IN  IF UndoSize = 0 THEN u
      ELSE [u EXCEPT !.list = SubSeq(@, k + 1, n), !.pos = n - k, !.skip = Skipped(u)[k],
                     !.save = IF @ > k THEN @ - k ELSE 0,
                     !.lost = @ \/ u.save < k]

Append1(u, record) ==
  Trim([u EXCEPT !.list = Append(@, record), !.pos = Len(u.list) + 1, !.fresh = FALSE])

AddUndoData(u, type, line, pos, of) ==
  LET c == CutRedo(u)
      b == LoneBegin(c.list)
  IN  IF type = "end" /\ b > 0 THEN Unwrap(c, b)
      ELSE IF type = "edit" /\ Merges(c, line, pos) THEN [c EXCEPT !.last = pos]
      ELSE Append1(c, [type |-> type, line |-> line, pos |-> pos, of |-> of, was |-> text])

Mark(u, type)     == AddUndoData(u, type, 0, 0, NoLine)
EditOf(u, i, pos) == AddUndoData(u, "edit", i, pos, text[i])

Fresh   == MaxEdits >= edits + 1
MayEdit == CursorMoves => undo.fresh \/ undo.pos # undo.save

-----------------------------------------------------------------------------
(* Changes of the text                                                      *)

\* A key, a paste, a plugin or the commands for blocks change one line.
ChangeLine(i, pos) ==
  /\ MayEdit /\ Fresh /\ edits' = edits + 1
  /\ text' = [text EXCEPT ![i].str = edits']
  /\ undo' = EditOf(undo, i, pos)
  /\ modified' = TRUE
  /\ UNCHANGED <<saved, blocks>>

\* ECTL_EXPANDTABS
ExpandTabs(i, pos) ==
  /\ PluginsExpand /\ Fresh /\ edits' = edits + 1
  /\ text' = [text EXCEPT ![i].str = edits']
  /\ undo' = EditOf(undo, i, pos)
  /\ UNCHANGED <<modified, saved, blocks>>

MoveCursor ==
  /\ undo' = [undo EXCEPT !.fresh = TRUE]
  /\ UNCHANGED <<text, modified, saved, blocks, edits>>

\* KEY_ENTER at the end of line i: the line gets an end if it has none.
EnterAtEnd(i) ==
  /\ Len(text) < MaxLines /\ Fresh /\ edits' = edits + 1
  /\ text' = InsertAt([text EXCEPT ![i].eol = TRUE], i + 1, [str |-> 0, eol |-> text[i].eol])
  /\ undo' = AddUndoData([undo EXCEPT !.fresh = TRUE], "insstr", i + 1, 0, NoLine)
  /\ modified' = TRUE
  /\ UNCHANGED <<saved, blocks>>

\* KEY_ENTER inside of line i
Split(i, pos) ==
  /\ Len(text) < MaxLines /\ text[i].str # 0 /\ edits + 2 <= MaxEdits /\ edits' = edits + 2
  /\ text' = InsertAt([text EXCEPT ![i].str = edits + 1], i + 1,
                      [str |-> edits', eol |-> text[i].eol])
  /\ LET begun  == Mark([undo EXCEPT !.fresh = TRUE], "begin")
         edited == AddUndoData(begun, "edit", i, pos, [text[i] EXCEPT !.eol = TRUE])
         added  == AddUndoData(edited, "insstr", i + 1, 0, NoLine)
     IN  undo' = Mark(added, "end")
  /\ modified' = TRUE
  /\ UNCHANGED <<saved, blocks>>

\* DeleteString: the only line, and without deleteLast the last one too, is
\* only emptied.
DeleteString(i, deleteLast) ==
  /\ MayEdit /\ Fresh /\ edits' = edits + 1
  /\ IF i = Len(text) /\ (~deleteLast \/ i = 1)
     THEN /\ undo' = EditOf(undo, i, 0)
          /\ text' = [text EXCEPT ![i] = NoLine]
     ELSE /\ undo' = AddUndoData(undo, "delstr", i, 0, text[i])
          /\ text' = RemoveAt(text, i)
  /\ modified' = TRUE
  /\ UNCHANGED <<saved, blocks>>

\* KEY_DEL at the end of line i: the next line is put after it.
Join(i, pos) ==
  /\ i < Len(text) /\ Fresh /\ edits' = edits + 1
  /\ LET next == text[i+1]
     IN  text' = RemoveAt([text EXCEPT ![i] =
                   [str |-> IF next.str = 0 THEN @.str ELSE edits',
                    eol |-> next.eol /\ next.str # 0]], i + 1)
  /\ LET edited  == EditOf(Mark(undo, "begin"), i, pos)
         deleted == AddUndoData(edited, "delstr", i + 1, 0, text[i+1])
     IN  undo' = Mark(deleted, "end")
  /\ modified' = TRUE
  /\ UNCHANGED <<saved, blocks>>

\* A command that changes several lines (Paste, DeleteBlock, BlockLeft, ...),
\* or a plugin (EUR_BEGIN, EUR_END), puts its records between two marks.
BeginBlock ==
  /\ blocks < MaxBlocks /\ blocks' = blocks + 1 /\ undo' = Mark(undo, "begin")
  /\ UNCHANGED <<text, modified, saved, edits>>

EndBlock ==
  /\ blocks > 0 /\ blocks' = blocks - 1 /\ undo' = Mark(undo, "end")
  /\ UNCHANGED <<text, modified, saved, edits>>

-----------------------------------------------------------------------------
(* Undo and redo                                                            *)

Smaller(a, b) == IF a < b THEN a ELSE b

\* The last line gets an end before a line is put after it.
PutLine(t, i, line) ==
  IF i > Len(t) THEN Append([t EXCEPT ![Len(t)].eol = TRUE], line) ELSE InsertAt(t, i, line)

\* One record is played: the text, and the record that would play it back.
Played(t, r) ==
  LET cur == Smaller(r.line, Len(t))
  IN  CASE r.type = "insstr" ->
             [text |-> IF Len(t) = 1 THEN <<NoLine>> ELSE RemoveAt(t, cur),
              record |-> [r EXCEPT !.type = "delstr", !.of = t[cur]]]
        [] r.type = "delstr" ->
             [text |-> PutLine(t, r.line, r.of), record |-> [r EXCEPT !.type = "insstr"]]
        [] r.type = "edit" ->
             [text |-> [t EXCEPT ![cur] = r.of], record |-> [r EXCEPT !.of = t[cur]]]
        [] r.type \in {"begin", "end"} -> [text |-> t, record |-> r]

\* How many blocks the first records from s on leave open
BlockLevels(list, s, step) ==
  LET opening == IF step = 1 THEN "begin" ELSE "end"
      closing == IF step = 1 THEN "end" ELSE "begin"
      level[k \in 0 .. Len(list)] ==
        LET j == s + step * (k - 1)
        IN  IF k = 0 THEN 0
            ELSE IF j \notin 1 .. Len(list) THEN level[k-1]
            ELSE IF list[j].type = opening THEN level[k-1] + 1
            ELSE IF list[j].type = closing THEN level[k-1] - 1
            ELSE level[k-1]
  IN  level

\* The other end of the block that starts at s, s itself if there is none.
BlockEnd(list, s, step) ==
  LET closed == {k \in 1 .. Len(list) : /\ s + step * (k - 1) \in 1 .. Len(list)
                                       /\ BlockLevels(list, s, step)[k] <= 0}
  IN  IF closed = {} THEN s
      ELSE s + step * ((CHOOSE k \in closed : \A j \in closed : k <= j) - 1)

\* What there is after each of n records from s on has been played
Plays(s, step, n) ==
  LET play[k \in 0 .. n] ==
        IF k = 0 THEN [text |-> text, list |-> undo.list]
        ELSE LET j == s + step * (k - 1)
                 p == Played(play[k-1].text, play[k-1].list[j])
             IN  [text |-> p.text, list |-> [play[k-1].list EXCEPT ![j] = p.record]]
  IN  play

\* Undo from UndoPos down, redo from the record after it up.
Replayed(s, step) ==
  LET e == BlockEnd(undo.list, s, step)
      n == step * (e - s) + 1
      r == Plays(s, step, n)[n]
  IN  [text |-> r.text, list |-> r.list, pos |-> IF step = 1 THEN e ELSE e - 1]

\* A key, after which the next edit is a record of its own, or a plugin.
UndoOrRedo(s, step, byKey) ==
  /\ blocks = 0 /\ s \in 1 .. Len(undo.list)
  /\ LET r == Replayed(s, step)
     IN  /\ text' = r.text
         /\ undo' = [undo EXCEPT !.list = r.list, !.pos = r.pos, !.fresh = @ \/ byKey]
  /\ modified' = (undo.lost \/ undo'.pos # undo.save)
  /\ UNCHANGED <<saved, blocks, edits>>

Undo(byKey) == UndoOrRedo(undo.pos, -1, byKey)
Redo(byKey) == UndoOrRedo(undo.pos + 1, 1, byKey)

-----------------------------------------------------------------------------
(* FileEditor::SaveFile, when it was not cancelled                          *)
SaveFile(succeeds) ==
  /\ blocks = 0
  /\ undo' = [undo EXCEPT !.save = undo.pos, !.lost = FALSE]
  /\ IF succeeds THEN saved' = text /\ modified' = FALSE
     ELSE SavesFail /\ UNCHANGED <<saved, modified>>
  /\ UNCHANGED <<text, blocks, edits>>

EditorNext ==
  \/ \E i \in 1 .. Len(text) :
       \/ \E pos \in Positions :
            ChangeLine(i, pos) \/ ExpandTabs(i, pos) \/ Split(i, pos) \/ Join(i, pos)
       \/ EnterAtEnd(i)
       \/ \E deleteLast \in BOOLEAN : DeleteString(i, deleteLast)
  \/ MoveCursor
  \/ BeginBlock
  \/ EndBlock
  \/ \E byKey \in BOOLEAN : Undo(byKey) \/ Redo(byKey)
  \/ \E succeeds \in BOOLEAN : SaveFile(succeeds)

EditorSpec == EditorInit /\ [][EditorNext]_editorVars

-----------------------------------------------------------------------------
(* Properties                                                               *)

Strings(t) == [i \in 1 .. Len(t) |-> t[i].str]

\* Undo and redo lead through the lines that there were: with records undone,
\* the lines are those of the time when the first of them was appended
\* (Undo plays records back after any number of merges, blocks and trims).
UndoRestoresLines ==
  undo.pos < Len(undo.list) => Strings(text) = Strings(undo.list[undo.pos + 1].was)

\* How many blocks are open after the first k records
Opened(k) ==
  LET N(type) == Cardinality({j \in 1 .. k : undo.list[j].type = type})
  IN  N("begin") - N("end")

\* Blocks stay whole: neither trimming nor undo leaves a part of one, and once
\* all are closed nothing more is dropped on their account (the nesting that
\* AddUndoData counts in UndoSkipLevel).
BlocksStayWhole ==
  /\ \A k \in 1 .. Len(undo.list) : Opened(k) >= 0
  /\ blocks = 0 => undo.skip = 0 /\ Opened(undo.pos) = 0 /\ Opened(Len(undo.list)) = 0

\* An editor that is not "modified", so that SaveFile does not ask when it is
\* left, holds the lines of its file.
NotModifiedIsSaved == ~modified => Strings(text) = Strings(saved)
==============================================================================
