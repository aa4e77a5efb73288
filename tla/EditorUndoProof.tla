----------------------------- MODULE EditorUndoProof -----------------------------
(***************************************************************************)
(* Proofs about the undo list of an editor, for any text, number of        *)
(* changes, depth of blocks and UndoSize: undo and redo lead through the   *)
(* lines that there were, blocks stay whole, and, if the cursor moves      *)
(* after a save, an editor that does not count as modified holds the lines *)
(* of its file.                                                            *)
(***************************************************************************)
EXTENDS EditorUndo, RecursionProof, FiniteSetTheorems, SequenceTheorems, TLAPS

-----------------------------------------------------------------------------
(* Lists of lines                                                           *)

Texts   == {t \in Seq(Line) : Len(t) \in 1 .. MaxLines}
Strs    == 0 .. MaxEdits + MaxLines
Strung  == {s \in Seq(Strs) : Len(s) \in 1 .. MaxLines}

\* SequencesExt: InsertAt moves what is behind by one.
LEMMA Inserts ==
  ASSUME NEW S, NEW s \in Seq(S), NEW i \in 1 .. Len(s) + 1, NEW e \in S
  PROVE  /\ InsertAt(s, i, e) \in Seq(S) /\ Len(InsertAt(s, i, e)) = Len(s) + 1
         /\ \A j \in 1 .. Len(s) + 1 :
              InsertAt(s, i, e)[j] = IF j < i THEN s[j] ELSE IF j = i THEN e ELSE s[j-1]
<1>0. Len(s) \in Nat /\ i \in Int /\ \A j \in 1 .. Len(s) : s[j] \in S
  OBVIOUS
<1>1. PICK a : a = SubSeq(s, 1, i - 1)
  OBVIOUS
<1>2. PICK c : c = SubSeq(s, i, Len(s))
  OBVIOUS
<1>3. PICK m : m = <<e>>
  OBVIOUS
<1>4. a \in Seq(S) /\ Len(a) = i - 1 /\ \A j \in 1 .. i - 1 : a[j] = s[j]
  BY <1>0, <1>1, SubSeqProperties
<1>5. c \in Seq(S) /\ Len(c) = Len(s) + 1 - i /\ \A j \in 1 .. Len(s) + 1 - i : c[j] = s[j + i - 1]
  BY <1>0, <1>2, SubSeqProperties
<1>6. m \in Seq(S) /\ Len(m) = 1 /\ m[1] = e
  BY <1>3
<1>7. PICK d : d = a \o m
  OBVIOUS
<1>8. d \in Seq(S) /\ Len(d) = i /\ \A j \in 1 .. i : d[j] = IF j <= i - 1 THEN a[j] ELSE m[j - (i - 1)]
  <2>1. /\ d \in Seq(S) /\ Len(d) = Len(a) + Len(m)
        /\ \A j \in 1 .. Len(a) + Len(m) : d[j] = IF j <= Len(a) THEN a[j] ELSE m[j - Len(a)]
    BY <1>4, <1>6, <1>7, ConcatProperties
  <2>. QED  BY <2>1, <1>0, <1>4, <1>6
<1>9. PICK w : w = d \o c
  OBVIOUS
<1>10. /\ w \in Seq(S) /\ Len(w) = Len(s) + 1
       /\ \A j \in 1 .. Len(s) + 1 : w[j] = IF j <= i THEN d[j] ELSE c[j - i]
  <2>1. /\ w \in Seq(S) /\ Len(w) = Len(d) + Len(c)
        /\ \A j \in 1 .. Len(d) + Len(c) : w[j] = IF j <= Len(d) THEN d[j] ELSE c[j - Len(d)]
    BY <1>5, <1>8, <1>9, ConcatProperties
  <2>2. Len(d) + Len(c) = Len(s) + 1
    BY <1>0, <1>5, <1>8
  <2>. QED  BY <2>1, <2>2, <1>8
<1>11. InsertAt(s, i, e) = w
  BY <1>1, <1>2, <1>3, <1>7, <1>9 DEF InsertAt
<1>12. ASSUME NEW j \in 1 .. Len(s) + 1
       PROVE  w[j] = IF j < i THEN s[j] ELSE IF j = i THEN e ELSE s[j-1]
  <2>1. CASE j < i
    BY <1>0, <1>4, <1>8, <1>10, <2>1
  <2>2. CASE j = i
    BY <1>0, <1>6, <1>8, <1>10, <2>2
  <2>3. CASE j > i
    <3>1. j - i \in 1 .. Len(s) + 1 - i /\ j - i + i - 1 = j - 1
      BY <1>0, <2>3
    <3>. QED  BY <1>0, <1>5, <1>10, <2>3, <3>1
  <2>. QED  BY <1>0, <2>1, <2>2, <2>3
<1>. QED  BY <1>10, <1>11, <1>12

\* SequencesExt: RemoveAt moves what is behind by one.
LEMMA Removes ==
  ASSUME NEW S, NEW s \in Seq(S), NEW i \in 1 .. Len(s)
  PROVE  /\ RemoveAt(s, i) \in Seq(S) /\ Len(RemoveAt(s, i)) = Len(s) - 1
         /\ \A j \in 1 .. Len(s) - 1 : RemoveAt(s, i)[j] = IF j < i THEN s[j] ELSE s[j+1]
<1>0. Len(s) \in Nat /\ i \in Int /\ \A j \in 1 .. Len(s) : s[j] \in S
  OBVIOUS
<1>1. PICK a : a = SubSeq(s, 1, i - 1)
  OBVIOUS
<1>2. PICK c : c = SubSeq(s, i + 1, Len(s))
  OBVIOUS
<1>4. a \in Seq(S) /\ Len(a) = i - 1 /\ \A j \in 1 .. i - 1 : a[j] = s[j]
  BY <1>0, <1>1, SubSeqProperties
<1>5. c \in Seq(S) /\ Len(c) = Len(s) - i /\ \A j \in 1 .. Len(s) - i : c[j] = s[j + i]
  BY <1>0, <1>2, SubSeqProperties
<1>9. PICK w : w = a \o c
  OBVIOUS
<1>10. /\ w \in Seq(S) /\ Len(w) = Len(s) - 1
       /\ \A j \in 1 .. Len(s) - 1 : w[j] = IF j <= i - 1 THEN a[j] ELSE c[j - (i - 1)]
  BY <1>0, <1>4, <1>5, <1>9, ConcatProperties, SMTT(30)
<1>11. RemoveAt(s, i) = w
  BY <1>1, <1>2, <1>9 DEF RemoveAt
<1>12. ASSUME NEW j \in 1 .. Len(s) - 1 PROVE w[j] = IF j < i THEN s[j] ELSE s[j+1]
  <2>1. CASE j < i
    BY <1>0, <1>4, <1>10, <2>1
  <2>2. CASE j >= i
    <3>1. j - (i - 1) \in 1 .. Len(s) - i /\ j - (i - 1) + i = j + 1
      BY <1>0, <2>2
    <3>. QED  BY <1>0, <1>5, <1>10, <2>2, <3>1
  <2>. QED  BY <1>0, <2>1, <2>2
<1>. QED  BY <1>10, <1>11, <1>12

\* Two lists of strings are the same if they are as long and equal in each place.
LEMMA SameStrings ==
  ASSUME NEW a \in Seq(Strs), NEW b \in Seq(Strs), Len(a) = Len(b),
         \A j \in 1 .. Len(a) : a[j] = b[j]
  PROVE  a = b
  OBVIOUS

\* What the properties see of a text: its strings
LEMMA StringsAre ==
  ASSUME NEW t \in Texts
  PROVE  /\ Strings(t) \in Strung /\ Len(Strings(t)) = Len(t)
         /\ \A j \in 1 .. Len(t) : Strings(t)[j] = t[j].str
<1>1. ASSUME NEW j \in 1 .. Len(t) PROVE t[j].str \in Strs
  <2>1. t \in Seq(Line)
    BY DEF Texts
  <2>2. t[j] \in Line
    BY <2>1
  <2>. QED  BY <2>2 DEF Line, Strs
<1>2. Len(t) \in Nat /\ Len(t) \in 1 .. MaxLines
  BY DEF Texts
<1>. QED  BY <1>1, <1>2 DEF Strings, Strung

-----------------------------------------------------------------------------
(* Records                                                                  *)

\* b is a without its line l.
Deletes(a, b, l) ==
  /\ Len(a) = Len(b) + 1 /\ l \in 1 .. Len(a)
  /\ \A j \in 1 .. Len(b) : b[j] = IF j < l THEN a[j] ELSE a[j+1]

\* a has s in line l, and is the same as b elsewhere.
Differs(a, b, l, s) ==
  /\ Len(a) = Len(b) /\ l \in 1 .. Len(a) /\ a[l] = s
  /\ \A j \in 1 .. Len(a) : j # l => a[j] = b[j]

\* What r makes of b when it is played is a.
Undoes(r, a, b) ==
  /\ r.type = "edit" => Differs(a, b, r.line, r.of.str)
  /\ r.type = "insstr" => Deletes(b, a, r.line)
  /\ r.type = "delstr" => Deletes(a, b, r.line) /\ a[r.line] = r.of.str
  /\ r.type \in {"begin", "end"} => a = b

\* editor.cpp, Undo: a record is played and then is what plays it back.
Swaps(t, r, a, p) ==
  /\ p.text \in Texts /\ Strings(p.text) = a
  /\ p.record \in Record /\ p.record.was = r.was
  /\ p.record.type = "begin" <=> r.type = "begin"
  /\ p.record.type = "end" <=> r.type = "end"
  /\ Undoes(p.record, Strings(t), a)

\* The fields of a record
LEMMA RecordIs ==
  ASSUME NEW r \in Record
  PROVE  /\ r.type \in Types /\ r.line \in Nat /\ r.of \in Line /\ r.was \in Seq(Line)
         /\ \A ty \in Types : \A o \in Line :
              /\ [r EXCEPT !.type = ty, !.of = o] \in Record
              /\ [r EXCEPT !.type = ty, !.of = o].type = ty
              /\ [r EXCEPT !.type = ty, !.of = o].of = o
              /\ [r EXCEPT !.type = ty, !.of = o].line = r.line
              /\ [r EXCEPT !.type = ty, !.of = o].was = r.was
  BY DEF Record

\* A text of which the strings are known
LEMMA TextOf ==
  ASSUME NEW t \in Seq(Line), NEW a \in Strung, Len(t) = Len(a),
         \A j \in 1 .. Len(a) : t[j].str = a[j]
  PROVE  t \in Texts /\ Strings(t) = a
<1>1. t \in Texts /\ a \in Seq(Strs)
  BY DEF Texts, Strung
<1>2. /\ Strings(t) \in Seq(Strs) /\ Len(Strings(t)) = Len(t)
      /\ \A j \in 1 .. Len(t) : Strings(t)[j] = t[j].str
  BY <1>1, StringsAre DEF Strung
<1>3. Strings(t) = a
  BY <1>1, <1>2, SameStrings
<1>. QED  BY <1>1, <1>3

\* UNDO_EDIT
LEMMA PlaysEdit ==
  ASSUME NEW r \in Record, NEW a \in Strung, NEW t \in Texts, Undoes(r, a, Strings(t)),
         r.type = "edit"
  PROVE  Swaps(t, r, a, Played(t, r))
<1>1. /\ t \in Seq(Line) /\ Len(t) \in Nat /\ a \in Seq(Strs) /\ Len(a) \in Nat
      /\ \A j \in 1 .. Len(t) : t[j] \in Line
  BY DEF Texts, Strung
<1>2. /\ Len(Strings(t)) = Len(t) /\ \A j \in 1 .. Len(t) : Strings(t)[j] = t[j].str
  BY StringsAre
<1>3. PICK l : l = r.line
  OBVIOUS
<1>4. Differs(a, Strings(t), l, r.of.str)
  BY <1>3 DEF Undoes
<1>5. /\ Len(a) = Len(t) /\ l \in 1 .. Len(t) /\ a[l] = r.of.str
      /\ \A j \in 1 .. Len(t) : j # l => a[j] = t[j].str
  BY <1>2, <1>4 DEF Differs
<1>6. Smaller(r.line, Len(t)) = l
  BY <1>1, <1>3, <1>5 DEF Smaller
<1>7. PICK n : n = [r EXCEPT !.of = t[l]]
  OBVIOUS
<1>8. /\ n \in Record /\ n.type = "edit" /\ n.of = t[l] /\ n.line = l /\ n.was = r.was
  BY <1>1, <1>3, <1>5, <1>7 DEF Record
<1>9. PICK m : m = [t EXCEPT ![l] = r.of]
  OBVIOUS
<1>10. r.of \in Line
  BY RecordIs
<1>11. /\ m \in Seq(Line) /\ Len(m) = Len(t)
       /\ \A j \in 1 .. Len(t) : m[j] = IF j = l THEN r.of ELSE t[j]
  BY <1>1, <1>5, <1>9, <1>10
<1>12. m \in Texts /\ Strings(m) = a
  BY <1>1, <1>5, <1>11, TextOf
<1>13. Differs(Strings(t), a, l, t[l].str)
  BY <1>1, <1>2, <1>5 DEF Differs
<1>14. Undoes(n, Strings(t), a)
  BY <1>8, <1>13 DEF Undoes
<1>15. Played(t, r) = [text |-> m, record |-> n]
  BY <1>6, <1>7, <1>9 DEF Played
<1>. QED  BY <1>8, <1>12, <1>14, <1>15 DEF Swaps

\* UNDO_INSSTR: the line goes.
LEMMA PlaysInsert ==
  ASSUME NEW r \in Record, NEW a \in Strung, NEW t \in Texts, Undoes(r, a, Strings(t)),
         r.type = "insstr"
  PROVE  Swaps(t, r, a, Played(t, r))
<1>1. /\ t \in Seq(Line) /\ Len(t) \in Nat /\ a \in Seq(Strs) /\ Len(a) \in Nat /\ Len(a) >= 1
      /\ \A j \in 1 .. Len(t) : t[j] \in Line
  BY DEF Texts, Strung
<1>2. /\ Len(Strings(t)) = Len(t) /\ \A j \in 1 .. Len(t) : Strings(t)[j] = t[j].str
  BY StringsAre
<1>3. PICK l : l = r.line
  OBVIOUS
<1>4. Deletes(Strings(t), a, l)
  BY <1>3 DEF Undoes
<1>5. /\ Len(t) = Len(a) + 1 /\ l \in 1 .. Len(t)
      /\ \A j \in 1 .. Len(a) : a[j] = IF j < l THEN Strings(t)[j] ELSE Strings(t)[j+1]
  BY <1>2, <1>4 DEF Deletes
<1>6. Smaller(r.line, Len(t)) = l
  BY <1>1, <1>3, <1>5 DEF Smaller
<1>7. PICK n : n = [r EXCEPT !.type = "delstr", !.of = t[l]]
  OBVIOUS
<1>8. /\ n \in Record /\ n.type = "delstr" /\ n.of = t[l] /\ n.line = l /\ n.was = r.was
  <2>1. t[l] \in Line
    BY <1>1, <1>5
  <2>. QED  BY <2>1, <1>3, <1>7 DEF Record, Types
<1>9. PICK m : m = RemoveAt(t, l)
  OBVIOUS
<1>11. /\ m \in Seq(Line) /\ Len(m) = Len(t) - 1
       /\ \A j \in 1 .. Len(t) - 1 : m[j] = IF j < l THEN t[j] ELSE t[j+1]
  BY <1>1, <1>5, <1>9, Removes
<1>12. m \in Texts /\ Strings(m) = a
  <2>1. ASSUME NEW j \in 1 .. Len(a) PROVE m[j].str = a[j]
    BY <1>1, <1>2, <1>5, <1>11
  <2>. QED  BY <1>1, <1>5, <1>11, <2>1, TextOf
<1>13. Strings(t)[l] = t[l].str
  BY <1>1, <1>2, <1>5
<1>14. Undoes(n, Strings(t), a)
  BY <1>4, <1>8, <1>13 DEF Undoes
<1>15. Played(t, r) = [text |-> m, record |-> n]
  <2>1. Len(t) # 1
    BY <1>1, <1>5
  <2>. QED  BY <2>1, <1>6, <1>7, <1>9 DEF Played
<1>. QED  BY <1>8, <1>12, <1>14, <1>15 DEF Swaps

\* UNDO_DELSTR: the line comes back, behind the last one too.
LEMMA PlaysDelete ==
  ASSUME NEW r \in Record, NEW a \in Strung, NEW t \in Texts, Undoes(r, a, Strings(t)),
         r.type = "delstr"
  PROVE  Swaps(t, r, a, Played(t, r))
<1>1. /\ t \in Seq(Line) /\ Len(t) \in Nat /\ Len(t) >= 1 /\ a \in Seq(Strs) /\ Len(a) \in Nat
      /\ \A j \in 1 .. Len(t) : t[j] \in Line
  BY DEF Texts, Strung
<1>2. /\ Len(Strings(t)) = Len(t) /\ \A j \in 1 .. Len(t) : Strings(t)[j] = t[j].str
  BY StringsAre
<1>3. PICK l : l = r.line
  OBVIOUS
<1>4. Deletes(a, Strings(t), l) /\ a[l] = r.of.str
  BY <1>3 DEF Undoes
<1>5. /\ Len(a) = Len(t) + 1 /\ l \in 1 .. Len(a)
      /\ \A j \in 1 .. Len(t) : Strings(t)[j] = IF j < l THEN a[j] ELSE a[j+1]
  BY <1>2, <1>4 DEF Deletes
<1>7. PICK n : n = [r EXCEPT !.type = "insstr"]
  OBVIOUS
<1>8. n \in Record /\ n.type = "insstr" /\ n.line = l /\ n.was = r.was
  BY <1>3, <1>7 DEF Record, Types
<1>10. r.of \in Line
  BY RecordIs
<1>9. PICK m : m = PutLine(t, l, r.of)
  OBVIOUS
<1>11. /\ m \in Seq(Line) /\ Len(m) = Len(t) + 1
       /\ \A j \in 1 .. Len(t) + 1 : m[j].str = IF j < l THEN t[j].str ELSE IF j = l THEN r.of.str ELSE t[j-1].str
  <2>1. CASE l > Len(t)
    <3>1. l = Len(t) + 1
      BY <1>1, <1>5, <2>1
    <3>2. PICK e : e = [t EXCEPT ![Len(t)].eol = TRUE]
      OBVIOUS
    <3>3. /\ e \in Seq(Line) /\ Len(e) = Len(t) /\ \A j \in 1 .. Len(t) : e[j].str = t[j].str
      <4>1. t[Len(t)] \in Line
        BY <1>1
      <4>2. PICK x : x = [t[Len(t)] EXCEPT !.eol = TRUE]
        OBVIOUS
      <4>3. x \in Line /\ x.str = t[Len(t)].str
        BY <4>1, <4>2 DEF Line
      <4>4. e = [t EXCEPT ![Len(t)] = x]
        BY <3>2, <4>2
      <4>. QED  BY <4>3, <4>4, <1>1, ExceptSeq
    <3>4. m = Append(e, r.of)
      BY <1>9, <2>1, <3>2 DEF PutLine
    <3>5. /\ m \in Seq(Line) /\ Len(m) = Len(t) + 1 /\ m[Len(t) + 1] = r.of
          /\ \A j \in 1 .. Len(t) : m[j] = e[j]
      BY <3>3, <3>4, <1>10, AppendProperties
    <3>6. ASSUME NEW j \in 1 .. Len(t) + 1
          PROVE  m[j].str = IF j < l THEN t[j].str ELSE IF j = l THEN r.of.str ELSE t[j-1].str
      <4>1. j = Len(t) + 1 \/ j \in 1 .. Len(t)
        BY <1>1
      <4>. QED  BY <4>1, <3>1, <3>3, <3>5, <1>1
    <3>. QED  BY <3>5, <3>6
  <2>2. CASE l <= Len(t)
    <3>1. m = InsertAt(t, l, r.of) /\ l \in 1 .. Len(t) + 1
      BY <1>1, <1>5, <1>9, <2>2 DEF PutLine
    <3>2. /\ m \in Seq(Line) /\ Len(m) = Len(t) + 1
          /\ \A j \in 1 .. Len(t) + 1 : m[j] = IF j < l THEN t[j] ELSE IF j = l THEN r.of ELSE t[j-1]
      BY <3>1, <1>1, <1>10, Inserts
    <3>. QED  BY <3>2
  <2>. QED  BY <1>1, <1>5, <2>1, <2>2
<1>12. m \in Texts /\ Strings(m) = a
  <2>1. ASSUME NEW j \in 1 .. Len(a) PROVE m[j].str = a[j]
    <3>0. m[j].str = IF j < l THEN t[j].str ELSE IF j = l THEN r.of.str ELSE t[j-1].str
      BY <1>5, <1>11
    <3>1. CASE j < l
      <4>1. j \in 1 .. Len(t)
        BY <1>1, <1>5, <3>1
      <4>2. Strings(t)[j] = a[j] /\ Strings(t)[j] = t[j].str
        BY <4>1, <3>1, <1>2, <1>5
      <4>. QED  BY <3>0, <3>1, <4>2
    <3>2. CASE j = l
      BY <3>0, <3>2, <1>4
    <3>3. CASE j > l
      <4>1. j - 1 \in 1 .. Len(t) /\ ~(j - 1 < l) /\ (j - 1) + 1 = j /\ ~(j < l) /\ j # l
        BY <1>1, <1>5, <3>3
      <4>2. Strings(t)[j-1] = a[j] /\ Strings(t)[j-1] = t[j-1].str
        BY <4>1, <1>2, <1>5
      <4>. QED  BY <3>0, <4>1, <4>2
    <3>. QED  BY <3>1, <3>2, <3>3, <1>5
  <2>. QED  BY <1>1, <1>5, <1>11, <2>1, TextOf
<1>14. Undoes(n, Strings(t), a)
  BY <1>4, <1>8 DEF Undoes
<1>15. Played(t, r) = [text |-> m, record |-> n]
  BY <1>3, <1>7, <1>9 DEF Played
<1>. QED  BY <1>8, <1>12, <1>14, <1>15 DEF Swaps

\* Any record
LEMMA PlayedIs ==
  ASSUME NEW r \in Record, NEW a \in Strung, NEW t \in Texts, Undoes(r, a, Strings(t))
  PROVE  Swaps(t, r, a, Played(t, r))
<1>1. CASE r.type \in {"begin", "end"}
  <2>1. a = Strings(t) /\ Played(t, r) = [text |-> t, record |-> r]
    BY <1>1 DEF Undoes, Played
  <2>2. Undoes(r, Strings(t), a)
    BY <1>1, <2>1 DEF Undoes
  <2>. QED  BY <2>1, <2>2 DEF Swaps
<1>. QED  BY <1>1, PlaysEdit, PlaysInsert, PlaysDelete, RecordIs DEF Types

-----------------------------------------------------------------------------
(* The inductive invariant                                                  *)

UndoTypes == [list : Seq(Record), pos : Nat, save : Nat, lost : BOOLEAN,
              skip : Nat, fresh : BOOLEAN, last : Nat]

UndoTyped(u) ==
  /\ u \in UndoTypes /\ u.pos <= Len(u.list) /\ u.save <= Len(u.list)
  /\ UndoSize > 0 => Len(u.list) <= UndoSize

\* Whether it is promised that an editor that is not modified holds its file
Careful == CursorMoves /\ ~SavesFail /\ ~PluginsExpand

Weight(type) == IF type = "begin" THEN 1 ELSE IF type = "end" THEN -1 ELSE 0

\* How many blocks are open after each record
Leveled(list, lv) ==
  /\ lv \in [0 .. Len(list) -> Int] /\ lv[0] = 0
  /\ \A k \in 1 .. Len(list) : lv[k] = lv[k-1] + Weight(list[k].type)

Above(list, lv) == \A k \in 0 .. Len(list) : lv[k] >= 0

\* The strings there were between the records, the first p of which can be undone, the
\* others redone
Chained(list, p, ts) ==
  /\ ts \in [0 .. Len(list) -> Strung]
  /\ \A k \in 1 .. p : Undoes(list[k], ts[k-1], ts[k])
  /\ \A k \in p + 1 .. Len(list) : Undoes(list[k], ts[k], ts[k-1])

\* Records remember the text before them, except inside of one command
Recalls(list, lv, ts) ==
  \A k \in 1 .. Len(list) :
    lv[k-1] = 0 \/ (k > 1 /\ list[k-1].type = "begin") => Strings(list[k].was) = ts[k-1]

\* Blocks that are open have their BEGIN in the list, or it was trimmed and the list is empty
Balanced(u, lv, d) ==
  /\ u.skip + lv[u.pos] = d /\ u.skip + lv[Len(u.list)] = d
  /\ u.skip > 0 => Len(u.list) = 0 /\ UndoSize > 0
  /\ d > 0 => u.pos = Len(u.list)

\* The text of the file is the one at the saved position, outside of blocks
SaveFound(u, lv, ts, file) == Careful /\ ~u.lost => lv[u.save] = 0 /\ ts[u.save] = file

UndoState(u, ts, lv, d, now, file) ==
  /\ UndoTyped(u) /\ Leveled(u.list, lv) /\ Above(u.list, lv) /\ Chained(u.list, u.pos, ts)
  /\ Recalls(u.list, lv, ts) /\ Balanced(u, lv, d) /\ SaveFound(u, lv, ts, file)
  /\ ts[u.pos] = now

\* Without records to redo
EndState(u, ts, lv, d, now, file) ==
  UndoState(u, ts, lv, d, now, file) /\ u.pos = Len(u.list)

-----------------------------------------------------------------------------
(* AddUndoData, step by step                                                *)

\* The bounds are numbers.
LEMMA Bounds == {MaxLines, MaxEdits, MaxBlocks, UndoSize} \subseteq Nat /\ UndoSize \in Nat
  BY EditorUndoAssumption

\* The first records of a list
LEMMA FirstRecords ==
  ASSUME NEW l \in Seq(Record), NEW p \in 0 .. Len(l)
  PROVE  /\ SubSeq(l, 1, p) \in Seq(Record) /\ Len(SubSeq(l, 1, p)) = p
         /\ \A k \in 1 .. p : SubSeq(l, 1, p)[k] = l[k]
<1>1. \A k \in 1 .. p : l[k] \in Record
  OBVIOUS
<1>2. 1 \in Int /\ p \in Int /\ p >= 0
  OBVIOUS
<1>3. PICK q : q = SubSeq(l, 1, p)
  OBVIOUS
<1>4. /\ q \in Seq(Record) /\ Len(q) = IF 1 <= p THEN p - 1 + 1 ELSE 0
      /\ \A k \in 1 .. p - 1 + 1 : q[k] = l[1 + k - 1]
  BY <1>1, <1>2, <1>3, SubSeqProperties
<1>. QED  BY <1>2, <1>3, <1>4

\* editor.cpp, AddUndoData: what can be redone goes, and the saved position with it if it was
\* there.
LEMMA CutState ==
  ASSUME NEW u, NEW ts, NEW lv, NEW d \in Nat, NEW now, NEW file,
         UndoState(u, ts, lv, d, now, file)
  PROVE  /\ \E us, ls : EndState(CutRedo(u), us, ls, d, now, file)
         /\ CutRedo(u).list = SubSeq(u.list, 1, u.pos) /\ CutRedo(u).skip = u.skip
         /\ CutRedo(u).fresh = u.fresh /\ (CutRedo(u).save < u.pos \/ u.save = u.pos \/ u.pos = 0)
         /\ (CutRedo(u).save # u.pos \/ u.save = u.pos \/ CutRedo(u).lost)
<1>. DEFINE p == u.pos
<1>1. /\ u \in UndoTypes /\ u.list \in Seq(Record) /\ p \in Nat /\ p <= Len(u.list) /\ Len(u.list) \in Nat
      /\ u.save \in Nat /\ u.save <= Len(u.list) /\ p \in 0 .. Len(u.list)
      /\ UndoSize > 0 => Len(u.list) <= UndoSize
  BY DEF UndoState, UndoTyped, UndoTypes
<1>2. PICK l : l = SubSeq(u.list, 1, p)
  OBVIOUS
<1>3. l \in Seq(Record) /\ Len(l) = p /\ \A k \in 1 .. p : l[k] = u.list[k]
  BY <1>1, <1>2, FirstRecords
<1>4. PICK c : c = CutRedo(u)
  OBVIOUS
<1>5. /\ c \in UndoTypes /\ c.list = l /\ c.pos = p /\ c.skip = u.skip /\ c.fresh = u.fresh
      /\ c.save = (IF u.save > p THEN 0 ELSE u.save)
  BY <1>1, <1>2, <1>3, <1>4 DEF CutRedo, UndoTypes
<1>6. c.lost <=> (u.lost \/ u.save > p)
  BY <1>1, <1>4 DEF CutRedo, UndoTypes
<1>. HIDE DEF p
<1>7. PICK us : us = [k \in 0 .. p |-> ts[k]]
  OBVIOUS
<1>8. PICK ls : ls = [k \in 0 .. p |-> lv[k]]
  OBVIOUS
<1>9. \A k \in 0 .. p : k \in 0 .. Len(u.list) /\ us[k] = ts[k] /\ ls[k] = lv[k]
  BY <1>1, <1>7, <1>8
<1>10. \A k \in 1 .. p : k \in 1 .. Len(u.list) /\ k \in 0 .. p /\ k - 1 \in 0 .. p
  BY <1>1
<1>11. UndoTyped(c)
  <2>1. c.save <= p /\ (UndoSize > 0 => p <= UndoSize)
    BY <1>1, <1>5, Bounds
  <2>. QED  BY <1>1, <1>3, <1>5, <2>1 DEF UndoTyped
<1>12. Leveled(l, ls) /\ Above(l, ls)
  <2>1. Leveled(u.list, lv) /\ Above(u.list, lv)
    BY DEF UndoState
  <2>2. ls \in [0 .. p -> Int]
    BY <1>8, <1>9, <2>1 DEF Leveled
  <2>3. ls[0] = 0
    BY <1>1, <1>9, <2>1 DEF Leveled
  <2>4. ASSUME NEW k \in 1 .. p PROVE ls[k] = ls[k-1] + Weight(l[k].type)
    <3>1. ls[k] = lv[k] /\ ls[k-1] = lv[k-1] /\ l[k] = u.list[k]
      BY <1>3, <1>9, <1>10
    <3>2. lv[k] = lv[k-1] + Weight(u.list[k].type)
      BY <1>10, <2>1 DEF Leveled
    <3>. QED  BY <3>1, <3>2
  <2>. QED  BY <1>3, <1>9, <2>1, <2>2, <2>3, <2>4 DEF Leveled, Above
<1>13. Chained(l, p, us)
  <2>1. Chained(u.list, p, ts)
    BY DEF UndoState, p
  <2>2. us \in [0 .. p -> Strung]
    BY <1>7, <1>9, <2>1 DEF Chained
  <2>3. \A k \in 1 .. p : Undoes(l[k], us[k-1], us[k])
    BY <1>3, <1>9, <1>10, <2>1 DEF Chained
  <2>4. \A k \in p + 1 .. Len(l) : FALSE
    BY <1>1, <1>3
  <2>. QED  BY <1>3, <2>2, <2>3, <2>4 DEF Chained
<1>14. Recalls(l, ls, us)
  <2>1. Recalls(u.list, lv, ts)
    BY DEF UndoState
  <2>2. ASSUME NEW k \in 1 .. p, ls[k-1] = 0 \/ (k > 1 /\ l[k-1].type = "begin")
        PROVE  Strings(l[k].was) = us[k-1]
    <3>1. k > 1 => k - 1 \in 1 .. p
      BY <1>1
    <3>2. lv[k-1] = 0 \/ (k > 1 /\ u.list[k-1].type = "begin")
      BY <1>3, <1>9, <1>10, <2>2, <3>1
    <3>3. Strings(u.list[k].was) = ts[k-1]
      BY <1>10, <2>1, <3>2 DEF Recalls
    <3>. QED  BY <1>3, <1>9, <1>10, <3>3
  <2>. QED  BY <1>3, <2>2 DEF Recalls
<1>15. Balanced(c, ls, d)
  <2>1. Balanced(u, lv, d)
    BY DEF UndoState
  <2>. QED  BY <1>1, <1>3, <1>5, <1>9, <2>1 DEF Balanced, p
<1>16. SaveFound(c, ls, us, file)
  <2>1. SaveFound(u, lv, ts, file)
    BY DEF UndoState
  <2>2. CASE u.save > p
    BY <1>6, <2>2 DEF SaveFound
  <2>3. CASE ~(u.save > p)
    <3>1. c.save = u.save /\ u.save \in 0 .. p
      BY <1>1, <1>5, <2>3
    <3>. QED  BY <1>6, <1>9, <2>1, <2>3, <3>1 DEF SaveFound
  <2>. QED  BY <2>2, <2>3
<1>17. us[p] = now
  BY <1>1, <1>9 DEF UndoState, p
<1>18. EndState(c, us, ls, d, now, file)
  BY <1>3, <1>5, <1>11, <1>12, <1>13, <1>14, <1>15, <1>16, <1>17 DEF EndState, UndoState
<1>19. c.save < p \/ u.save = p \/ p = 0
  BY <1>1, <1>5
<1>20. c.save # p \/ u.save = p \/ c.lost
  BY <1>1, <1>5, <1>6
<1>. QED  BY <1>2, <1>4, <1>5, <1>18, <1>19, <1>20 DEF p

\* A list that has got one record more, and is still to be trimmed
Grown(v, ts, lv, d, now, file) ==
  /\ v \in UndoTypes /\ v.pos = Len(v.list) /\ v.pos >= 1 /\ v.save < v.pos
  /\ Leveled(v.list, lv) /\ Chained(v.list, v.pos, ts) /\ ts[v.pos] = now
  /\ v.skip + lv[v.pos] = d /\ SaveFound(v, lv, ts, file)
  /\ \/ v.skip = 0 /\ Above(v.list, lv) /\ Recalls(v.list, lv, ts)
     \/ v.skip > 0 /\ v.pos = 1 /\ UndoSize > 0

\* One record more
Plus(u, r) == [u EXCEPT !.list = Append(@, r), !.pos = Len(u.list) + 1, !.fresh = FALSE]

\* The fields of the list with one record more
LEMMA PlusIs ==
  ASSUME NEW u \in UndoTypes, NEW r \in Record, NEW n \in Nat, n = Len(u.list)
  PROVE  /\ Plus(u, r) \in UndoTypes /\ Plus(u, r).pos = n + 1 /\ ~Plus(u, r).fresh
         /\ Plus(u, r).skip = u.skip /\ Plus(u, r).save = u.save
         /\ Plus(u, r).lost <=> u.lost
         /\ Len(Plus(u, r).list) = n + 1 /\ Plus(u, r).list[n + 1] = r
         /\ \A k \in 1 .. n : Plus(u, r).list[k] = u.list[k]
<1>1. PICK l : l = Append(u.list, r)
  OBVIOUS
<1>2. u.list \in Seq(Record)
  BY DEF UndoTypes
<1>3. /\ l \in Seq(Record) /\ Len(l) = n + 1 /\ l[n + 1] = r
      /\ \A k \in 1 .. n : l[k] = u.list[k]
  BY <1>1, <1>2, AppendProperties
<1>4. PICK v : v = Plus(u, r)
  OBVIOUS
<1>5. /\ v \in UndoTypes /\ v.list = l /\ v.pos = n + 1 /\ ~v.fresh /\ v.skip = u.skip
      /\ v.save = u.save
  <2>1. PICK m \in Nat : m = n + 1
    OBVIOUS
  <2>2. v = [u EXCEPT !.list = l, !.pos = m, !.fresh = FALSE]
    BY <1>1, <1>4, <2>1 DEF Plus
  <2>. QED  BY <1>3, <2>1, <2>2 DEF UndoTypes
<1>6. v.lost <=> u.lost
  BY <1>4 DEF Plus, UndoTypes
<1>. QED  BY <1>3, <1>4, <1>5, <1>6

\* editor.cpp, AddUndoData: a record is appended.
LEMMA Grows ==
  ASSUME NEW u, NEW ts, NEW lv, NEW d \in Nat, NEW now, NEW file,
         EndState(u, ts, lv, d, now, file), NEW r \in Record, NEW next \in Strung,
         Undoes(r, now, next), d + Weight(r.type) >= 0,
         \/ Strings(r.was) = now
         \/ d > 0 /\ (Len(u.list) > 0 => u.list[Len(u.list)].type # "begin")
  PROVE  \E us, ls : Grown(Plus(u, r), us, ls, d + Weight(r.type), next, file)
<1>1. PICK n : n = Len(u.list)
  OBVIOUS
<1>2. /\ u \in UndoTypes /\ u.pos = n /\ n \in Nat /\ u.save \in Nat /\ u.save <= n
      /\ u.skip \in Nat
  BY <1>1 DEF EndState, UndoState, UndoTyped, UndoTypes
<1>3. PICK v : v = Plus(u, r)
  OBVIOUS
<1>4. /\ v \in UndoTypes /\ v.pos = n + 1 /\ v.skip = u.skip /\ v.save = u.save
      /\ v.lost <=> u.lost
      /\ Len(v.list) = n + 1 /\ v.list[n + 1] = r /\ \A k \in 1 .. n : v.list[k] = u.list[k]
  BY <1>1, <1>2, <1>3, PlusIs
<1>5. PICK w : w = Weight(r.type)
  OBVIOUS
<1>6. w \in Int
  BY <1>5 DEF Weight
<1>7. PICK us : us = [k \in 0 .. n + 1 |-> IF k = n + 1 THEN next ELSE ts[k]]
  OBVIOUS
<1>8. PICK ls : ls = [k \in 0 .. n + 1 |-> IF k = n + 1 THEN lv[n] + w ELSE lv[k]]
  OBVIOUS
<1>9. /\ \A k \in 0 .. n : us[k] = ts[k] /\ ls[k] = lv[k]
      /\ us[n + 1] = next /\ ls[n + 1] = lv[n] + w
  BY <1>2, <1>7, <1>8
<1>10. /\ \A k \in 1 .. n + 1 : k = n + 1 \/ k \in 1 .. n
       /\ \A k \in 0 .. n + 1 : k = n + 1 \/ k \in 0 .. n
       /\ \A k \in 1 .. n : k \in 0 .. n /\ k - 1 \in 0 .. n
       /\ n + 1 - 1 = n /\ n \in 0 .. n
  BY <1>2
<1>11. Leveled(u.list, lv) /\ Above(u.list, lv) /\ Chained(u.list, n, ts) /\ Recalls(u.list, lv, ts)
       /\ Balanced(u, lv, d) /\ SaveFound(u, lv, ts, file) /\ ts[n] = now
  BY <1>2 DEF EndState, UndoState
<1>12. /\ lv \in [0 .. n -> Int] /\ lv[0] = 0
       /\ \A k \in 1 .. n : lv[k] = lv[k-1] + Weight(u.list[k].type)
       /\ \A k \in 0 .. n : lv[k] \in Int /\ lv[k] >= 0
  BY <1>1, <1>11 DEF Leveled, Above
<1>13. Leveled(v.list, ls)
  <2>1. ls \in [0 .. n + 1 -> Int]
    BY <1>6, <1>8, <1>9, <1>10, <1>12
  <2>2. ls[0] = 0
    BY <1>2, <1>9, <1>12
  <2>3. ASSUME NEW k \in 1 .. n + 1 PROVE ls[k] = ls[k-1] + Weight(v.list[k].type)
    <3>1. CASE k = n + 1
      BY <3>1, <1>4, <1>5, <1>9, <1>10
    <3>2. CASE k \in 1 .. n
      <4>1. ls[k] = lv[k] /\ ls[k-1] = lv[k-1] /\ v.list[k] = u.list[k]
        BY <3>2, <1>4, <1>9, <1>10
      <4>. QED  BY <3>2, <4>1, <1>12
    <3>. QED  BY <3>1, <3>2, <1>10
  <2>. QED  BY <2>1, <2>2, <2>3, <1>4 DEF Leveled
<1>14. Chained(v.list, n + 1, us)
  <2>1. us \in [0 .. n + 1 -> Strung]
    <3>1. \A k \in 0 .. n : ts[k] \in Strung
      BY <1>1, <1>11 DEF Chained
    <3>. QED  BY <3>1, <1>7, <1>9, <1>10
  <2>2. ASSUME NEW k \in 1 .. n + 1 PROVE Undoes(v.list[k], us[k-1], us[k])
    <3>1. CASE k = n + 1
      <4>1. us[k-1] = now /\ us[k] = next /\ v.list[k] = r
        BY <3>1, <1>4, <1>9, <1>10, <1>11
      <4>. QED  BY <4>1
    <3>2. CASE k \in 1 .. n
      <4>1. us[k] = ts[k] /\ us[k-1] = ts[k-1] /\ v.list[k] = u.list[k]
        BY <3>2, <1>4, <1>9, <1>10
      <4>2. Undoes(u.list[k], ts[k-1], ts[k])
        BY <3>2, <1>11 DEF Chained
      <4>. QED  BY <4>1, <4>2
    <3>. QED  BY <3>1, <3>2, <1>10
  <2>3. \A k \in n + 1 + 1 .. n + 1 : FALSE
    BY <1>2
  <2>. QED  BY <2>1, <2>2, <2>3, <1>4 DEF Chained
<1>15. SaveFound(v, ls, us, file)
  <2>1. u.save \in 0 .. n
    BY <1>2
  <2>. QED  BY <2>1, <1>4, <1>9, <1>11 DEF SaveFound
<1>16. v.skip + ls[n + 1] = d + w /\ u.skip + lv[n] = d
  <2>1. u.skip + lv[n] = d
    BY <1>1, <1>11 DEF Balanced
  <2>. QED  BY <2>1, <1>2, <1>4, <1>6, <1>9, <1>10, <1>12
<1>17. CASE u.skip > 0
  <2>1. n = 0 /\ UndoSize > 0
    BY <1>1, <1>11, <1>17 DEF Balanced
  <2>2. Grown(v, us, ls, d + w, next, file)
    BY <2>1, <1>2, <1>4, <1>9, <1>13, <1>14, <1>15, <1>16, <1>17 DEF Grown
  <2>. QED  BY <2>2, <1>3, <1>5
<1>18. CASE u.skip = 0
  <2>1. Above(v.list, ls)
    <3>1. lv[n] = d
      BY <1>16, <1>18, <1>10, <1>12
    <3>2. ls[n + 1] >= 0
      BY <3>1, <1>5, <1>9
    <3>. QED  BY <3>2, <1>4, <1>9, <1>10, <1>12 DEF Above
  <2>2. Recalls(v.list, ls, us)
    <3>1. ASSUME NEW k \in 1 .. n + 1, ls[k-1] = 0 \/ (k > 1 /\ v.list[k-1].type = "begin")
          PROVE  Strings(v.list[k].was) = us[k-1]
      <4>1. CASE k = n + 1
        <5>1. us[k-1] = now /\ v.list[k] = r /\ ls[k-1] = lv[n]
          BY <4>1, <1>4, <1>9, <1>10, <1>11
        <5>2. CASE lv[n] = 0
          <6>1. d = 0
            BY <5>2, <1>16, <1>18
          <6>. QED  BY <5>1, <6>1
        <5>3. CASE n + 1 > 1 /\ v.list[n].type = "begin"
          <6>1. Len(u.list) > 0 /\ n \in 1 .. n
            BY <5>3, <1>1, <1>2
          <6>2. u.list[Len(u.list)].type = "begin"
            BY <5>3, <6>1, <1>1, <1>4
          <6>. QED  BY <5>1, <6>1, <6>2
        <5>. QED  BY <3>1, <4>1, <5>1, <5>2, <5>3, <1>10
      <4>2. CASE k \in 1 .. n
        <5>1. us[k-1] = ts[k-1] /\ ls[k-1] = lv[k-1] /\ v.list[k] = u.list[k]
          BY <4>2, <1>4, <1>9, <1>10
        <5>2. k > 1 => v.list[k-1] = u.list[k-1]
          BY <4>2, <1>2, <1>4
        <5>3. lv[k-1] = 0 \/ (k > 1 /\ u.list[k-1].type = "begin")
          BY <3>1, <5>1, <5>2
        <5>4. Strings(u.list[k].was) = ts[k-1]
          BY <4>2, <5>3, <1>1, <1>11 DEF Recalls
        <5>. QED  BY <5>1, <5>4
      <4>. QED  BY <4>1, <4>2, <1>10
    <3>. QED  BY <3>1, <1>4 DEF Recalls
  <2>3. Grown(v, us, ls, d + w, next, file)
    BY <2>1, <2>2, <1>2, <1>4, <1>9, <1>13, <1>14, <1>15, <1>16, <1>18 DEF Grown
  <2>. QED  BY <2>3, <1>3, <1>5
<1>. QED  BY <1>2, <1>17, <1>18

\* editor.cpp, AddUndoData: UndoSkipLevel counts the blocks that have lost their BEGIN.
LEMMA SkippedIs ==
  ASSUME NEW v \in UndoTypes, NEW lv, Leveled(v.list, lv),
         \A k \in 0 .. Len(v.list) : v.skip + lv[k] >= 0
  PROVE  \A k \in 0 .. Len(v.list) : Skipped(v)[k] = v.skip + lv[k]
<1>. DEFINE m == Len(v.list)
<1>1. m \in Nat /\ v.skip \in Nat /\ v.list \in Seq(Record)
  BY DEF UndoTypes
<1>2. /\ \A k \in 0 .. m : lv[k] \in Int
      /\ lv[0] = 0 /\ \A k \in 1 .. m : lv[k] = lv[k-1] + Weight(v.list[k].type)
      /\ \A k \in 0 .. m : v.skip + lv[k] >= 0
  BY DEF Leveled
<1>. DEFINE F(w, k) == IF k = 0 THEN v.skip
                       ELSE IF v.list[k].type = "begin" THEN w[k-1] + 1
                       ELSE IF v.list[k].type = "end" /\ w[k-1] > 0 THEN w[k-1] - 1
                       ELSE w[k-1]
            P(w) == w = [k \in 0 .. m |-> F(w, k)]
<1>3. PICK h : h = [k \in 0 .. m |-> v.skip + lv[k]]
  OBVIOUS
<1>. HIDE DEF m
<1>4. \A k \in 0 .. m : h[k] = v.skip + lv[k] /\ h[k] \in Nat
  BY <1>1, <1>2, <1>3
<1>5. ASSUME NEW w, NEW k \in 1 .. m, w[k-1] = h[k-1]
      PROVE  F(w, k) = h[k]
  <2>1. k - 1 \in 0 .. m /\ k \in 0 .. m /\ k # 0
    BY <1>1
  <2>2. h[k] = h[k-1] + Weight(v.list[k].type) /\ h[k-1] \in Nat /\ h[k] \in Nat
    <3>1. PICK i \in 0 .. m : i = k - 1
      BY ONLY <2>1
    <3>2. h[k] = v.skip + lv[k] /\ h[k] \in Nat /\ h[i] = v.skip + lv[i] /\ h[i] \in Nat
      BY ONLY <1>4, <2>1
    <3>3. lv[k] = lv[k-1] + Weight(v.list[k].type)
      BY <1>2
    <3>4. lv[i] \in Int /\ v.skip \in Nat
      BY ONLY <1>1, <1>2
    <3>5. Weight(v.list[k].type) \in Int
      BY ONLY <1>1 DEF Weight
    <3>. QED  BY ONLY <3>1, <3>2, <3>3, <3>4, <3>5
  <2>. QED  BY <2>1, <2>2, <1>5 DEF Weight
<1>6. P(h)
  <2>1. \A k \in 0 .. m : F(h, k) = h[k]
    <3>1. F(h, 0) = h[0]
      BY <1>1, <1>2, <1>4
    <3>. HIDE DEF F
    <3>2. \A k \in 0 .. m : k = 0 \/ k \in 1 .. m
      BY <1>1
    <3>. QED  BY <3>1, <3>2, <1>5
  <2>. HIDE DEF F
  <2>2. h = [k \in 0 .. m |-> h[k]]
    BY <1>3
  <2>. QED  BY <2>1, <2>2
<1>7. PICK w : w = CHOOSE g : P(g)
  OBVIOUS
<1>8. P(w)
  BY <1>6, <1>7, Zenon
<1>9. Skipped(v) = w
  BY <1>7 DEF Skipped, m
<1>. DEFINE T == {k \in 0 .. m : w[k] = h[k]}
<1>10. 0 \in T
  BY <1>1, <1>2, <1>4, <1>8
<1>11. ASSUME NEW k \in 1 .. m, k - 1 \in T PROVE k \in T
  <2>1. w[k-1] = h[k-1] /\ k \in 0 .. m
    BY <1>11, <1>1
  <2>2. w[k] = F(w, k)
    <3>. HIDE DEF F
    <3>. QED  BY <1>8, <2>1
  <2>3. F(w, k) = h[k]
    BY <1>5, <2>1
  <2>. QED  BY <2>1, <2>2, <2>3
<1>. HIDE DEF T
<1>12. \A k \in 0 .. m : k \in T
  BY <1>1, <1>10, <1>11, UpTo
<1>13. \A k \in 0 .. m : w[k] = h[k]
  BY <1>12 DEF T
<1>. QED  BY <1>4, <1>9, <1>13 DEF m

\* What goes is enough, and ends outside of blocks unless it is all there is.
LEMMA ExcessIs ==
  ASSUME NEW v \in UndoTypes, NEW m, m = Len(v.list)
  PROVE  /\ Excess(v) \in 0 .. m
         /\ Excess(v) = m \/ (m - Excess(v) <= UndoSize /\ Skipped(v)[Excess(v)] = 0)
<1>1. m \in Nat
  BY DEF UndoTypes
<1>2. PICK E : E = {k \in 0 .. m : k = m \/ (m - k <= UndoSize /\ Skipped(v)[k] = 0)}
  OBVIOUS
<1>3. E \in SUBSET Nat /\ E # {}
  BY <1>1, <1>2
<1>4. PICK k \in E : \A j \in E : k <= j
  BY <1>3, LeastOf
<1>5. Excess(v) = CHOOSE x \in E : \A j \in E : x <= j
  BY <1>2 DEF Excess
<1>6. Excess(v) \in E
  BY <1>4, <1>5
<1>. QED  BY <1>2, <1>6

\* The last records of a list
LEMMA LastRecords ==
  ASSUME NEW l \in Seq(Record), NEW m, m = Len(l), NEW k \in 0 .. m
  PROVE  /\ SubSeq(l, k + 1, m) \in Seq(Record) /\ Len(SubSeq(l, k + 1, m)) = m - k
         /\ \A j \in 1 .. m - k : SubSeq(l, k + 1, m)[j] = l[j + k]
<1>1. m \in Nat /\ k \in Int /\ k + 1 \in Int /\ \A j \in k + 1 .. m : l[j] \in Record
  OBVIOUS
<1>2. PICK q : q = SubSeq(l, k + 1, m)
  OBVIOUS
<1>3. PICK a \in Int : a = k + 1
  BY <1>1
<1>4. /\ q \in Seq(Record) /\ Len(q) = (IF a <= m THEN m - a + 1 ELSE 0)
      /\ \A j \in 1 .. m - a + 1 : q[j] = l[a + j - 1]
  BY <1>1, <1>2, <1>3, SubSeqProperties
<1>5. Len(q) = m - k /\ m - a + 1 = m - k
  BY <1>1, <1>3, <1>4
<1>6. ASSUME NEW j \in 1 .. m - k PROVE q[j] = l[j + k]
  <2>1. a + j - 1 = j + k
    BY <1>1, <1>3
  <2>. QED  BY <2>1, <1>4, <1>5
<1>. QED  BY <1>2, <1>4, <1>5, <1>6

\* A list that need not be trimmed
LEMMA Whole ==
  ASSUME NEW v, NEW ts, NEW lv, NEW d \in Nat, NEW now, NEW file,
         Grown(v, ts, lv, d, now, file), v.skip = 0, UndoSize > 0 => v.pos <= UndoSize
  PROVE  EndState(v, ts, lv, d, now, file)
<1>1. /\ v \in UndoTypes /\ v.pos = Len(v.list) /\ v.pos \in Nat /\ v.save \in Nat /\ v.save < v.pos
  BY DEF Grown, UndoTypes
<1>2. UndoTyped(v)
  BY <1>1 DEF UndoTyped
<1>3. Above(v.list, lv) /\ Recalls(v.list, lv, ts) /\ lv[v.pos] \in Int
  BY <1>1 DEF Grown, Leveled
<1>4. Balanced(v, lv, d)
  BY <1>1, <1>3 DEF Grown, Balanced
<1>. QED  BY <1>1, <1>2, <1>3, <1>4 DEF EndState, UndoState, Grown

\* All records have gone.
LEMMA TrimAll ==
  ASSUME NEW z \in UndoTypes, z.list = <<>>, z.pos = 0, z.save = 0, z.lost, NEW now \in Strung,
         NEW d \in Nat, z.skip = d, UndoSize > 0, NEW file
  PROVE  \E us, ls : EndState(z, us, ls, d, now, file)
<1>1. PICK us : us = [k \in 0 .. 0 |-> now]
  OBVIOUS
<1>2. PICK ls : ls = [k \in 0 .. 0 |-> 0]
  OBVIOUS
<1>3. us \in [0 .. 0 -> Strung] /\ us[0] = now /\ ls \in [0 .. 0 -> Int] /\ \A k \in 0 .. 0 : ls[k] = 0
  BY <1>1, <1>2
<1>4. Len(z.list) = 0 /\ \A k \in 1 .. 0 : FALSE
  OBVIOUS
<1>5. UndoTyped(z)
  BY <1>4, Bounds DEF UndoTyped
<1>6. Leveled(z.list, ls) /\ Above(z.list, ls)
  BY <1>3, <1>4 DEF Leveled, Above
<1>7. Chained(z.list, 0, us) /\ Recalls(z.list, ls, us)
  BY <1>3, <1>4 DEF Chained, Recalls
<1>8. Balanced(z, ls, d)
  BY <1>3, <1>4 DEF Balanced
<1>9. SaveFound(z, ls, us, file)
  BY DEF SaveFound
<1>. QED  BY <1>3, <1>4, <1>5, <1>6, <1>7, <1>8, <1>9 DEF EndState, UndoState

\* The first k records have gone, with whole blocks.
LEMMA TrimSome ==
  ASSUME NEW v, NEW ts, NEW lv, NEW d \in Nat, NEW now, NEW file,
         Grown(v, ts, lv, d, now, file), v.skip = 0, NEW k \in 0 .. v.pos - 1, lv[k] = 0,
         NEW z \in UndoTypes, z.list = SubSeq(v.list, k + 1, v.pos), z.pos = v.pos - k, z.skip = 0,
         z.save = (IF v.save > k THEN v.save - k ELSE 0), z.lost <=> (v.lost \/ v.save < k),
         z.pos <= UndoSize
  PROVE  \E us, ls : EndState(z, us, ls, d, now, file)
<1>1. /\ v \in UndoTypes /\ v.pos = Len(v.list) /\ v.pos \in Nat /\ v.save \in Nat /\ v.save < v.pos
      /\ v.list \in Seq(Record)
  BY DEF Grown, UndoTypes
<1>2. PICK m \in Nat : m = v.pos
  BY <1>1
<1>3. PICK n \in Nat : n = m - k
  BY <1>2
<1>4. k \in Nat /\ n >= 1 /\ k + n = m /\ k \in 0 .. m
  <2>1. k \in 0 .. m - 1
    BY <1>2
  <2>. QED  BY ONLY <2>1, <1>2, <1>3
<1>5. /\ Len(z.list) = n /\ z.pos = n
      /\ \A j \in 1 .. n : z.list[j] = v.list[j + k]
  BY <1>1, <1>2, <1>3, <1>4, LastRecords
<1>6. PICK us : us = [j \in 0 .. n |-> ts[j + k]]
  OBVIOUS
<1>7. PICK ls : ls = [j \in 0 .. n |-> lv[j + k]]
  OBVIOUS
<1>8. /\ \A j \in 0 .. n : us[j] = ts[j + k] /\ ls[j] = lv[j + k] /\ j + k \in 0 .. m
  BY <1>4, <1>6, <1>7
<1>a. ASSUME NEW j \in 1 .. n
      PROVE  \E i \in 1 .. m : /\ i = j + k /\ us[j] = ts[i] /\ ls[j] = lv[i]
                               /\ us[j-1] = ts[i - 1] /\ ls[j-1] = lv[i - 1] /\ z.list[j] = v.list[i]
  <2>1. PICK i \in 1 .. m : i = j + k
    BY <1>3, <1>4
  <2>2. PICK h \in 0 .. n : h = j - 1
    BY <1>3
  <2>3. h + k = i - 1 /\ j \in 0 .. n
    BY <1>3, <1>4, <2>1, <2>2
  <2>4. us[h] = ts[i - 1] /\ ls[h] = lv[i - 1] /\ us[j] = ts[i] /\ ls[j] = lv[i]
    BY <1>8, <2>1, <2>3
  <2>. QED  BY <2>1, <2>2, <2>4, <1>5
<1>9. /\ Leveled(v.list, lv) /\ Above(v.list, lv) /\ Chained(v.list, m, ts) /\ Recalls(v.list, lv, ts)
      /\ ts[m] = now /\ lv[m] = d /\ SaveFound(v, lv, ts, file)
  <2>1. 0 + lv[m] = d /\ Leveled(v.list, lv)
    BY <1>2 DEF Grown
  <2>2. lv[m] \in Int
    BY <2>1, <1>1, <1>2 DEF Leveled
  <2>. QED  BY <1>2, <2>1, <2>2 DEF Grown
<1>10. /\ \A j \in 0 .. m : lv[j] \in Int /\ lv[j] >= 0 /\ ts[j] \in Strung
       /\ \A j \in 1 .. m : lv[j] = lv[j-1] + Weight(v.list[j].type)
       /\ \A j \in 1 .. m : Undoes(v.list[j], ts[j-1], ts[j])
  BY <1>1, <1>2, <1>9 DEF Leveled, Above, Chained
<1>11. UndoTyped(z)
  <2>1. z.save <= n
    BY <1>1, <1>2, <1>4
  <2>2. n <= UndoSize
    BY <1>5
  <2>. QED  BY ONLY <2>1, <2>2, <1>3, <1>5, z \in UndoTypes DEF UndoTyped
<1>12. Leveled(z.list, ls) /\ Above(z.list, ls)
  <2>1. ls \in [0 .. n -> Int]
    BY <1>7, <1>8, <1>10
  <2>2. ls[0] = 0
    BY <1>4, <1>8
  <2>3. ASSUME NEW j \in 1 .. n PROVE ls[j] = ls[j-1] + Weight(z.list[j].type)
    <3>1. PICK i \in 1 .. m : ls[j] = lv[i] /\ ls[j-1] = lv[i - 1] /\ z.list[j] = v.list[i]
      BY <1>a
    <3>. QED  BY <3>1, <1>10
  <2>4. \A j \in 0 .. n : ls[j] >= 0
    BY <1>8, <1>10
  <2>. QED  BY <2>1, <2>2, <2>3, <2>4, <1>5 DEF Leveled, Above
<1>13. Chained(z.list, n, us)
  <2>1. us \in [0 .. n -> Strung]
    BY <1>6, <1>8, <1>10
  <2>2. ASSUME NEW j \in 1 .. n PROVE Undoes(z.list[j], us[j-1], us[j])
    <3>1. PICK i \in 1 .. m : us[j] = ts[i] /\ us[j-1] = ts[i - 1] /\ z.list[j] = v.list[i]
      BY <1>a
    <3>. QED  BY <3>1, <1>10
  <2>3. \A j \in n + 1 .. n : FALSE
    OBVIOUS
  <2>. QED  BY <2>1, <2>2, <2>3, <1>5 DEF Chained
<1>14. Recalls(z.list, ls, us)
  <2>1. ASSUME NEW j \in 1 .. n, ls[j-1] = 0 \/ (j > 1 /\ z.list[j-1].type = "begin")
        PROVE  Strings(z.list[j].was) = us[j-1]
    <3>1. PICK i \in 1 .. m : /\ i = j + k /\ us[j-1] = ts[i - 1] /\ ls[j-1] = lv[i - 1]
                             /\ z.list[j] = v.list[i]
      BY <1>a
    <3>2. us[j-1] = ts[i - 1] /\ ls[j-1] = lv[i - 1] /\ z.list[j] = v.list[i]
      BY <3>1
    <3>3. j > 1 => z.list[j-1] = v.list[i - 1] /\ i > 1
      <4>1. j > 1 => j - 1 \in 1 .. n /\ (j - 1) + k = i - 1 /\ i > 1
        BY <1>3, <1>4, <3>1
      <4>. QED  BY <4>1, <1>5
    <3>4. lv[i - 1] = 0 \/ (i > 1 /\ v.list[i - 1].type = "begin")
      BY <2>1, <3>2, <3>3
    <3>5. Recalls(v.list, lv, ts) /\ m = Len(v.list)
      BY <1>1, <1>2, <1>9
    <3>6. Strings(v.list[i].was) = ts[i - 1]
      BY ONLY <3>1, <3>4, <3>5 DEF Recalls
    <3>. QED  BY <3>2, <3>6
  <2>. QED  BY <2>1, <1>5 DEF Recalls
<1>15. us[n] = now /\ ls[n] = d
  BY <1>4, <1>8, <1>9
<1>16. Balanced(z, ls, d)
  BY ONLY <1>3, <1>5, <1>15, z.skip = 0, d \in Nat DEF Balanced
<1>17. SaveFound(z, ls, us, file)
  <2>1. CASE v.save < k
    BY <2>1 DEF SaveFound
  <2>2. CASE ~(v.save < k)
    <3>1. z.save \in 0 .. n /\ z.save + k = v.save
      BY <2>2, <1>1, <1>2, <1>4
    <3>2. us[z.save] = ts[v.save] /\ ls[z.save] = lv[v.save]
      BY <3>1, <1>8
    <3>3. z.lost <=> v.lost
      BY <2>2
    <3>. QED  BY <3>2, <3>3, <1>9 DEF SaveFound
  <2>. QED  BY <2>1, <2>2
<1>. QED  BY <1>5, <1>11, <1>12, <1>13, <1>14, <1>15, <1>16, <1>17 DEF EndState, UndoState

\* editor.cpp, AddUndoData: a list that is too long is cut in front, where no block is open.
LEMMA TrimState ==
  ASSUME NEW v, NEW ts, NEW lv, NEW d \in Nat, NEW now, NEW file, Grown(v, ts, lv, d, now, file)
  PROVE  /\ \E us, ls : EndState(Trim(v), us, ls, d, now, file)
         /\ Len(Trim(v).list) > 0 => Trim(v).list[Len(Trim(v).list)] = v.list[v.pos]
         /\ Trim(v).fresh <=> v.fresh
<1>1. /\ v \in UndoTypes /\ v.pos = Len(v.list) /\ v.pos \in Nat /\ v.pos >= 1 /\ v.save \in Nat
      /\ v.save < v.pos /\ v.list \in Seq(Record) /\ v.skip \in Nat /\ UndoSize \in Nat
  BY Bounds DEF Grown, UndoTypes
<1>2. v.skip = 0 \/ (v.skip > 0 /\ v.pos = 1 /\ UndoSize > 0)
  BY DEF Grown
<1>3. CASE UndoSize = 0
  <2>1. v.skip = 0 /\ Trim(v) = v
    BY <1>2, <1>3 DEF Trim
  <2>2. EndState(v, ts, lv, d, now, file)
    BY <2>1, <1>3, Whole
  <2>. QED  BY <2>1, <2>2, <1>1
<1>4. CASE UndoSize # 0
  <2>1. PICK m \in Nat : m = v.pos
    BY <1>1
  <2>2. PICK k : k = Excess(v)
    OBVIOUS
  <2>3. k \in 0 .. m /\ (k = m \/ (m - k <= UndoSize /\ Skipped(v)[k] = 0))
    BY <1>1, <2>1, <2>2, ExcessIs
  <2>4. /\ lv[0] = 0 /\ Leveled(v.list, lv) /\ (\A j \in 0 .. m : lv[j] \in Int)
        /\ v.skip + lv[m] = d
    BY <1>1, <2>1 DEF Grown, Leveled
  <2>5. ASSUME NEW j \in 0 .. m PROVE v.skip + lv[j] >= 0
    <3>1. CASE v.skip = 0
      <4>1. Above(v.list, lv)
        BY <3>1 DEF Grown
      <4>. QED  BY <3>1, <4>1, <1>1, <2>1, <2>4 DEF Above
    <3>2. CASE v.pos = 1
      <4>1. j = 0 \/ j = m
        BY <3>2, <2>1
      <4>. QED  BY <4>1, <1>1, <2>4
    <3>. QED  BY <3>1, <3>2, <1>2
  <2>6. Skipped(v)[k] = v.skip + lv[k]
    BY <2>1, <2>3, <2>4, <2>5, <1>1, SkippedIs
  <2>7. PICK sk \in Nat : sk = v.skip + lv[k]
    BY <1>1, <2>3, <2>4, <2>5
  <2>8. PICK l : l = SubSeq(v.list, k + 1, m)
    OBVIOUS
  <2>9. l \in Seq(Record) /\ Len(l) = m - k /\ \A j \in 1 .. m - k : l[j] = v.list[j + k]
    BY <1>1, <2>1, <2>3, <2>8, LastRecords
  <2>10. PICK p \in Nat : p = m - k
    BY <2>1, <2>3
  <2>11. PICK sv \in Nat : sv = IF v.save > k THEN v.save - k ELSE 0
    BY <1>1, <2>3
  <2>12. PICK z : z = Trim(v)
    OBVIOUS
  <2>13. PICK lo \in BOOLEAN : lo = (v.lost \/ v.save < k)
    OBVIOUS
  <2>14. z = [v EXCEPT !.list = l, !.pos = p, !.skip = sk, !.save = sv, !.lost = lo]
    BY <1>1, <1>4, <2>1, <2>2, <2>6, <2>7, <2>8, <2>10, <2>11, <2>12, <2>13 DEF Trim
  <2>15. /\ z \in UndoTypes /\ z.list = l /\ z.pos = p /\ z.skip = sk /\ z.save = sv
    BY <2>14, <2>9, <1>1 DEF UndoTypes
  <2>16. z.lost <=> (v.lost \/ v.save < k)
    BY <2>13, <2>14, <1>1 DEF UndoTypes
  <2>17. z.fresh <=> v.fresh
    BY <2>14, <1>1 DEF UndoTypes
  <2>18. CASE k = m
    <3>1. p = 0 /\ sv = 0 /\ sk = d /\ v.save < k
      BY <2>1, <2>4, <2>7, <2>10, <2>11, <2>18, <1>1
    <3>2. l = <<>>
      BY <2>9, <2>10, <3>1
    <3>3. now \in Strung
      BY <1>1, <2>1 DEF Grown, Chained
    <3>4. UndoSize > 0 /\ z.lost
      BY <1>1, <1>4, <2>16, <3>1
    <3>5. \E us, ls : EndState(z, us, ls, d, now, file)
      BY <2>15, <3>1, <3>2, <3>3, <3>4, TrimAll
    <3>6. Len(z.list) = 0
      BY <2>15, <3>2
    <3>. QED  BY <2>12, <2>17, <3>5, <3>6
  <2>19. CASE k # m
    <3>1. k \in 0 .. m - 1 /\ m - k <= UndoSize /\ sk = 0
      BY <2>1, <2>3, <2>6, <2>7, <2>19
    <3>2. v.skip = 0 /\ lv[k] = 0
      <4>1. CASE v.skip = 0
        BY <4>1, <3>1, <2>3, <2>4, <2>7
      <4>2. CASE v.pos = 1
        <5>1. k = 0
          BY <4>2, <3>1, <2>1
        <5>. QED  BY <5>1, <3>1, <2>4, <2>7, <1>1
      <4>. QED  BY <4>1, <4>2, <1>2
    <3>3. \E us, ls : EndState(z, us, ls, d, now, file)
      BY <2>1, <2>8, <2>10, <2>11, <2>15, <2>16, <3>1, <3>2, TrimSome
    <3>4. Len(z.list) = p /\ z.list[p] = v.list[m]
      BY <2>1, <2>3, <2>9, <2>10, <2>15, <3>1
    <3>. QED  BY <2>1, <2>12, <2>17, <3>3, <3>4
  <2>. QED  BY <2>18, <2>19
<1>. QED  BY <1>3, <1>4

\* editor.cpp, AddUndoData: a record that is neither the end of an idle block nor merged
LEMMA Appends ==
  ASSUME NEW u, NEW ts, NEW lv, NEW d \in Nat, NEW now, NEW file,
         EndState(u, ts, lv, d, now, file), NEW r \in Record, NEW next \in Strung,
         Undoes(r, now, next), d + Weight(r.type) >= 0,
         \/ Strings(r.was) = now
         \/ d > 0 /\ (Len(u.list) > 0 => u.list[Len(u.list)].type # "begin")
  PROVE  /\ \E us, ls : EndState(Append1(u, r), us, ls, d + Weight(r.type), next, file)
         /\ LET l == Append1(u, r).list IN Len(l) > 0 => l[Len(l)] = r
         /\ ~Append1(u, r).fresh
<1>1. PICK w : w = d + Weight(r.type)
  OBVIOUS
<1>2. w \in Nat
  BY <1>1 DEF Weight
<1>3. PICK v : v = Plus(u, r)
  OBVIOUS
<1>4. PICK us, ls : Grown(v, us, ls, w, next, file)
  BY <1>1, <1>3, Grows
<1>5. u \in UndoTypes /\ Len(u.list) \in Nat
  BY DEF EndState, UndoState, UndoTyped, UndoTypes
<1>6. ~v.fresh /\ v.list[v.pos] = r
  BY <1>3, <1>5, PlusIs
<1>7. Append1(u, r) = Trim(v)
  BY <1>3 DEF Append1, Plus
<1>8. /\ \E a, b : EndState(Trim(v), a, b, w, next, file)
      /\ Len(Trim(v).list) > 0 => Trim(v).list[Len(Trim(v).list)] = v.list[v.pos]
      /\ Trim(v).fresh <=> v.fresh
  BY <1>2, <1>4, TrimState
<1>. QED  BY <1>1, <1>6, <1>7, <1>8

\* editor.cpp, AddUndoData: which BEGIN an END finds to go with
LEMMA LoneBeginIs ==
  ASSUME NEW l \in Seq(Record), NEW n \in Nat, n = Len(l), NEW b, b = LoneBegin(l), b > 0
  PROVE  /\ b \in 1 .. n /\ l[b].type = "begin" /\ (b = n \/ b = n - 1)
<1>1. PICK c : c = IF n > 0 /\ l[n].type # "begin" THEN n - 1 ELSE n
  OBVIOUS
<1>2. b = IF c > 0 /\ l[c].type = "begin" THEN c ELSE 0
  BY <1>1 DEF LoneBegin
<1>. QED  BY <1>1, <1>2

\* editor.cpp, AddUndoData: an END takes the BEGIN along if there is at most one record between.
LEMMA Unwraps ==
  ASSUME NEW u, NEW ts, NEW lv, NEW d \in Nat, NEW now, NEW file,
         EndState(u, ts, lv, d, now, file), d > 0, NEW b, b = LoneBegin(u.list), b > 0
  PROVE  /\ \E us, ls : EndState(Unwrap(u, b), us, ls, d - 1, now, file)
         /\ Unwrap(u, b).fresh <=> u.fresh
<1>1. PICK l : l = u.list
  OBVIOUS
<1>2. /\ u \in UndoTypes /\ l \in Seq(Record) /\ Len(l) \in Nat /\ u.pos = Len(l) /\ u.save \in Nat
      /\ u.save <= Len(l) /\ u.skip \in Nat /\ (UndoSize > 0 => Len(l) <= UndoSize)
  BY <1>1 DEF EndState, UndoState, UndoTyped, UndoTypes
<1>3. PICK m \in Nat : m = Len(l)
  BY <1>2
<1>4. b \in 1 .. m /\ l[b].type = "begin" /\ (b = m \/ b = m - 1)
  BY <1>1, <1>2, <1>3, LoneBeginIs
<1>5. PICK n \in Nat : n = m - 1
  BY <1>3, <1>4
<1>6. PICK q : q = RemoveAt(l, b)
  OBVIOUS
<1>7. /\ q \in Seq(Record) /\ Len(q) = n
      /\ \A k \in 1 .. n : q[k] = IF k < b THEN l[k] ELSE l[k+1]
  BY <1>2, <1>3, <1>4, <1>5, <1>6, Removes, SMTT(30)
<1>8. q = SubSeq(l, 1, b - 1) \o SubSeq(l, b + 1, n + 1)
  <2>1. n + 1 = Len(l)
    BY <1>3, <1>5
  <2>. QED  BY <2>1, <1>6 DEF RemoveAt
<1>9. PICK sv \in Nat : sv = IF u.save = b THEN n ELSE IF u.save > b THEN u.save - 1 ELSE u.save
  BY <1>2, <1>4
<1>10. PICK z : z = Unwrap(u, b)
  OBVIOUS
<1>11. z = [u EXCEPT !.list = q, !.pos = n, !.save = sv]
  <2>1. Len(u.list) - 1 = n
    BY <1>1, <1>3, <1>5
  <2>. QED  BY <2>1, <1>1, <1>2, <1>8, <1>9, <1>10 DEF Unwrap
<1>12. z \in UndoTypes /\ z.list = q /\ z.pos = n /\ z.save = sv /\ z.skip = u.skip
  BY <1>2, <1>7, <1>11 DEF UndoTypes
<1>13. (z.lost <=> u.lost) /\ (z.fresh <=> u.fresh)
  BY <1>2, <1>11 DEF UndoTypes
<1>14. /\ Leveled(l, lv) /\ Above(l, lv) /\ Chained(l, m, ts) /\ Recalls(l, lv, ts)
       /\ Balanced(u, lv, d) /\ SaveFound(u, lv, ts, file) /\ ts[m] = now
  BY <1>1, <1>2, <1>3 DEF EndState, UndoState
<1>15. /\ \A k \in 0 .. m : lv[k] \in Int /\ lv[k] >= 0 /\ ts[k] \in Strung
       /\ \A k \in 1 .. m : lv[k] = lv[k-1] + Weight(l[k].type)
       /\ \A k \in 1 .. m : Undoes(l[k], ts[k-1], ts[k])
       /\ lv[0] = 0
  BY <1>3, <1>14 DEF Leveled, Above, Chained
<1>16. u.skip = 0 /\ lv[m] = d
  <2>1. u.skip = 0
    BY <1>1, <1>2, <1>3, <1>4, <1>14 DEF Balanced
  <2>2. u.skip + lv[m] = d /\ lv[m] \in Int
    BY <1>1, <1>3, <1>14, <1>15 DEF Balanced
  <2>. QED  BY <2>1, <2>2
<1>17. PICK a \in Nat : a = b - 1
  BY <1>4
<1>18. a \in 0 .. m /\ b \in 0 .. m /\ ts[a] = ts[b] /\ lv[b] = lv[a] + 1
  <2>1. a \in 0 .. m /\ b \in 0 .. m /\ Undoes(l[b], ts[a], ts[b]) /\ lv[b] = lv[a] + Weight("begin")
    BY <1>4, <1>15, <1>17
  <2>. QED  BY <2>1, <1>4 DEF Undoes, Weight
<1>19. PICK us : us = [k \in 0 .. n |-> IF k < b THEN ts[k] ELSE ts[m]]
  OBVIOUS
<1>20. PICK ls : ls = [k \in 0 .. n |-> IF k < b THEN lv[k] ELSE d - 1]
  OBVIOUS
<1>21. /\ \A k \in 0 .. n : k < b => us[k] = ts[k] /\ ls[k] = lv[k] /\ k \in 0 .. m
       /\ \A k \in 0 .. n : ~(k < b) => us[k] = ts[m] /\ ls[k] = d - 1 /\ k = n /\ k = b
       /\ m \in 0 .. m /\ n \in 0 .. n /\ 0 \in 0 .. n /\ 0 < b
  BY <1>3, <1>4, <1>5, <1>19, <1>20
<1>22. \A k \in 1 .. n : k < b => k \in 1 .. m /\ k - 1 \in 0 .. n /\ k - 1 < b /\ k \in 0 .. n
  BY <1>4, <1>5
<1>23. \A k \in 1 .. n : ~(k < b) => k = b /\ k - 1 = a /\ a \in 0 .. n /\ a < b /\ k + 1 = m /\ k \in 0 .. n
  BY <1>3, <1>4, <1>5, <1>17
<1>24. UndoTyped(z)
  <2>1. sv <= n /\ (UndoSize > 0 => n <= UndoSize)
    BY <1>2, <1>3, <1>4, <1>5, <1>9, Bounds
  <2>. QED  BY <2>1, <1>5, <1>7, <1>12 DEF UndoTyped
<1>25. Leveled(q, ls) /\ Above(q, ls)
  <2>1. \A k \in 0 .. n : ls[k] \in Int /\ ls[k] >= 0
    BY <1>15, <1>21
  <2>2. ls \in [0 .. n -> Int]
    BY <2>1, <1>20
  <2>3. ls[0] = 0
    BY <1>15, <1>21
  <2>4. ASSUME NEW k \in 1 .. n PROVE ls[k] = ls[k-1] + Weight(q[k].type)
    <3>1. CASE k < b
      <4>1. ls[k] = lv[k] /\ ls[k-1] = lv[k-1] /\ q[k] = l[k] /\ k \in 1 .. m
        BY <3>1, <1>7, <1>21, <1>22
      <4>. QED  BY <4>1, <1>15
    <3>2. CASE ~(k < b)
      <4>1. ls[k] = d - 1 /\ ls[k-1] = lv[a] /\ q[k] = l[m] /\ k = b /\ k + 1 = m /\ k - 1 = a
        BY <3>2, <1>7, <1>21, <1>23
      <4>2. m - 1 = b /\ m \in 1 .. m
        BY <4>1, <1>3, <1>4
      <4>3. d = lv[b] + Weight(l[m].type)
        BY <4>2, <1>15, <1>16
      <4>4. Weight(l[m].type) \in Int
        BY DEF Weight
      <4>. QED  BY <4>1, <4>3, <4>4, <1>15, <1>18
    <3>. QED  BY <3>1, <3>2
  <2>. QED  BY <2>1, <2>2, <2>3, <2>4, <1>7 DEF Leveled, Above
<1>26. Chained(q, n, us)
  <2>1. us \in [0 .. n -> Strung]
    BY <1>15, <1>19, <1>21
  <2>2. ASSUME NEW k \in 1 .. n PROVE Undoes(q[k], us[k-1], us[k])
    <3>1. CASE k < b
      <4>1. us[k] = ts[k] /\ us[k-1] = ts[k-1] /\ q[k] = l[k] /\ k \in 1 .. m
        BY <3>1, <1>7, <1>21, <1>22
      <4>. QED  BY <4>1, <1>15
    <3>2. CASE ~(k < b)
      <4>1. us[k] = ts[m] /\ us[k-1] = ts[a] /\ q[k] = l[m] /\ k = b /\ k + 1 = m
        BY <3>2, <1>7, <1>21, <1>23
      <4>2. m - 1 = b /\ m \in 1 .. m
        BY <4>1, <1>3, <1>4
      <4>3. Undoes(l[m], ts[b], ts[m])
        BY <4>2, <1>15
      <4>. QED  BY <4>1, <4>3, <1>18
    <3>. QED  BY <3>1, <3>2
  <2>3. \A k \in n + 1 .. n : FALSE
    OBVIOUS
  <2>. QED  BY <2>1, <2>2, <2>3, <1>7 DEF Chained
<1>27. Recalls(q, ls, us)
  <2>1. ASSUME NEW k \in 1 .. n, ls[k-1] = 0 \/ (k > 1 /\ q[k-1].type = "begin")
        PROVE  Strings(q[k].was) = us[k-1]
    <3>1. CASE k < b
      <4>1. us[k-1] = ts[k-1] /\ ls[k-1] = lv[k-1] /\ q[k] = l[k] /\ k \in 1 .. m
        BY <3>1, <1>7, <1>21, <1>22
      <4>2. k > 1 => q[k-1] = l[k-1]
        <5>1. k > 1 => k - 1 \in 1 .. n
          OBVIOUS
        <5>. QED  BY <5>1, <3>1, <1>7, <1>22
      <4>3. lv[k-1] = 0 \/ (k > 1 /\ l[k-1].type = "begin")
        BY <2>1, <4>1, <4>2
      <4>4. Strings(l[k].was) = ts[k-1]
        BY <4>1, <4>3, <1>3, <1>14 DEF Recalls
      <4>. QED  BY <4>1, <4>4
    <3>2. CASE ~(k < b)
      <4>1. us[k-1] = ts[a] /\ q[k] = l[m] /\ k = b /\ k + 1 = m
        BY <3>2, <1>7, <1>21, <1>23
      <4>2. m - 1 = b /\ m \in 1 .. m /\ m > 1
        BY <4>1, <1>3, <1>4
      <4>3. Strings(l[m].was) = ts[b]
        BY <4>2, <1>3, <1>4, <1>14 DEF Recalls
      <4>. QED  BY <4>1, <4>3, <1>18
    <3>. QED  BY <3>1, <3>2
  <2>. QED  BY <2>1, <1>7 DEF Recalls
<1>28. us[n] = now /\ ls[n] = d - 1
  <2>1. CASE b = m
    <3>1. n < b /\ n = a
      BY <2>1, <1>3, <1>5, <1>17
    <3>2. us[n] = ts[a] /\ ls[n] = lv[a]
      BY <3>1, <1>21
    <3>. QED  BY <2>1, <3>2, <1>14, <1>15, <1>16, <1>18
  <2>2. CASE b = m - 1
    <3>1. ~(n < b)
      BY <2>2, <1>5
    <3>. QED  BY <3>1, <1>14, <1>21
  <2>. QED  BY <2>1, <2>2, <1>4
<1>29. Balanced(z, ls, d - 1)
  <2>1. PICK e \in Nat : e = d - 1
    OBVIOUS
  <2>2. Balanced(z, ls, e)
    BY ONLY <2>1, <1>5, <1>7, <1>12, <1>16, <1>28 DEF Balanced
  <2>. QED  BY <2>1, <2>2
<1>30. SaveFound(z, ls, us, file)
  <2>1. SUFFICES ASSUME Careful, ~u.lost PROVE ls[sv] = 0 /\ us[sv] = file
    BY <1>12, <1>13 DEF SaveFound
  <2>2. lv[u.save] = 0 /\ ts[u.save] = file
    BY <2>1, <1>14 DEF SaveFound
  <2>3. u.save # b /\ u.save # m
    BY <2>2, <1>15, <1>16, <1>18
  <2>4. u.save < b /\ sv = u.save /\ sv \in 0 .. n
    BY <2>3, <1>2, <1>3, <1>4, <1>5, <1>9
  <2>. QED  BY <2>2, <2>4, <1>21
<1>31. EndState(z, us, ls, d - 1, now, file)
  BY <1>7, <1>12, <1>24, <1>25, <1>26, <1>27, <1>28, <1>29, <1>30 DEF EndState, UndoState
<1>. QED  BY <1>10, <1>13, <1>31

\* What does not matter to the invariant: where the last edit was, and whether the cursor moved
LEMMA SameUndo ==
  ASSUME NEW u, NEW ts, NEW lv, NEW d, NEW now, NEW file, UndoState(u, ts, lv, d, now, file),
         NEW w \in UndoTypes, w.list = u.list, w.pos = u.pos, w.save = u.save, w.skip = u.skip,
         w.lost <=> u.lost
  PROVE  UndoState(w, ts, lv, d, now, file)
<1>1. UndoTyped(w)
  BY DEF UndoState, UndoTyped
<1>2. Balanced(w, lv, d)
  BY DEF UndoState, Balanced
<1>3. SaveFound(w, lv, ts, file)
  BY DEF UndoState, SaveFound
<1>. QED  BY <1>1, <1>2, <1>3 DEF UndoState

\* Two edits of one line are one.
LEMMA DiffersTwice ==
  ASSUME NEW a \in Strung, NEW b \in Strung, NEW c \in Strung, NEW l, NEW x, NEW y,
         Differs(a, b, l, x), Differs(b, c, l, y)
  PROVE  Differs(a, c, l, x)
  BY DEF Differs

\* editor.cpp, AddUndoData: an edit of the same line is merged into the record before it.
LEMMA MergesIn ==
  ASSUME NEW u, NEW ts, NEW lv, NEW d \in Nat, NEW now, NEW file,
         EndState(u, ts, lv, d, now, file), NEW line, NEW pos \in Nat, Merges(u, line, pos),
         NEW next \in Strung, NEW x, Differs(now, next, line, x),
         Careful => u.save # u.pos \/ u.lost
  PROVE  /\ \E us, ls : EndState([u EXCEPT !.last = pos], us, ls, d, next, file)
         /\ u.list # <<>> /\ u.list[Len(u.list)].type = "edit"
         /\ ~[u EXCEPT !.last = pos].fresh /\ [u EXCEPT !.last = pos].list = u.list
<1>1. PICK n : n = Len(u.list)
  OBVIOUS
<1>2. /\ u \in UndoTypes /\ u.pos = n /\ n \in Nat /\ u.save \in Nat /\ u.save <= n
      /\ u.list \in Seq(Record) /\ n = Len(u.list)
  BY <1>1 DEF EndState, UndoState, UndoTyped, UndoTypes
<1>3. /\ ~u.fresh /\ u.list # <<>> /\ u.list[n].type = "edit" /\ u.list[n].line = line
  BY <1>1 DEF Merges
<1>4. n \in 1 .. n /\ n \in 0 .. n
  BY <1>2, <1>3
<1>5. PICK z : z = [u EXCEPT !.last = pos]
  OBVIOUS
<1>6. /\ z \in UndoTypes /\ z.list = u.list /\ z.pos = u.pos /\ z.save = u.save /\ z.skip = u.skip
  BY <1>2, <1>5 DEF UndoTypes
<1>7. (z.lost <=> u.lost) /\ (z.fresh <=> u.fresh)
  BY <1>2, <1>5 DEF UndoTypes
<1>8. /\ Chained(u.list, n, ts) /\ Recalls(u.list, lv, ts) /\ SaveFound(u, lv, ts, file)
      /\ ts[n] = now /\ UndoState(u, ts, lv, d, now, file)
  BY <1>2 DEF EndState, UndoState
<1>9. /\ ts \in [0 .. n -> Strung] /\ \A k \in 1 .. n : Undoes(u.list[k], ts[k-1], ts[k])
  BY <1>2, <1>8 DEF Chained
<1>10. PICK us : us = [k \in 0 .. n |-> IF k = n THEN next ELSE ts[k]]
  OBVIOUS
<1>11. /\ us \in [0 .. n -> Strung] /\ us[n] = next
       /\ \A k \in 0 .. n : k # n => us[k] = ts[k]
  BY <1>4, <1>9, <1>10
<1>12. \A k \in 1 .. n : k \in 0 .. n /\ k - 1 \in 0 .. n /\ k - 1 # n
  BY <1>2
<1>13. Chained(u.list, n, us)
  <2>1. ASSUME NEW k \in 1 .. n PROVE Undoes(u.list[k], us[k-1], us[k])
    <3>1. us[k-1] = ts[k-1] /\ Undoes(u.list[k], ts[k-1], ts[k])
      BY <1>9, <1>11, <1>12
    <3>2. CASE k # n
      <4>1. us[k] = ts[k]
        BY <3>2, <1>11, <1>12
      <4>. QED  BY <3>1, <4>1
    <3>3. CASE k = n
      <4>1. PICK r : r = u.list[k]
        OBVIOUS
      <4>2. r.type = "edit" /\ r.line = line
        BY <3>3, <4>1, <1>3
      <4>3. PICK a \in Strung : a = ts[k-1]
        BY <1>9, <1>12
      <4>4. Differs(a, now, line, r.of.str)
        BY <3>1, <3>3, <4>1, <4>2, <4>3, <1>8 DEF Undoes
      <4>5. now \in Strung
        BY <1>4, <1>8, <1>9
      <4>6. Differs(a, next, line, r.of.str)
        BY <4>4, <4>5, DiffersTwice
      <4>7. Undoes(r, a, next)
        BY <4>2, <4>6 DEF Undoes
      <4>. QED  BY <3>1, <3>3, <4>1, <4>3, <4>7, <1>11
    <3>. QED  BY <3>2, <3>3
  <2>2. \A k \in n + 1 .. n : FALSE
    BY <1>2
  <2>. QED  BY <2>1, <2>2, <1>2, <1>11 DEF Chained
<1>14. Recalls(u.list, lv, us)
  <2>1. \A k \in 1 .. n : us[k-1] = ts[k-1]
    BY <1>11, <1>12
  <2>. QED  BY <2>1, <1>2, <1>8 DEF Recalls
<1>15. SaveFound(u, lv, us, file)
  <2>1. SUFFICES ASSUME Careful, ~u.lost PROVE lv[u.save] = 0 /\ us[u.save] = file
    BY DEF SaveFound
  <2>2. u.save # n /\ u.save \in 0 .. n
    BY <2>1, <1>2
  <2>. QED  BY <2>1, <2>2, <1>8, <1>11 DEF SaveFound
<1>16. UndoState(u, us, lv, d, next, file)
  BY <1>2, <1>8, <1>11, <1>13, <1>14, <1>15 DEF UndoState
<1>17. UndoState(z, us, lv, d, next, file)
  BY <1>6, <1>7, <1>16, SameUndo
<1>18. EndState(z, us, lv, d, next, file)
  BY <1>1, <1>2, <1>6, <1>17 DEF EndState
<1>. QED  BY <1>1, <1>3, <1>5, <1>6, <1>7, <1>18

\* The record that AddUndoData makes
NewRecord(type, line, pos, of) == [type |-> type, line |-> line, pos |-> pos, of |-> of, was |-> text]

\* What the caller of AddUndoData must see to: the record it is about to append is remembered
\* with the text as it is, or within a block, and is not merged where the text was saved.
Appendable(u, d, now, type) ==
  /\ \/ Strings(text) = now
     \/ d > 0 /\ u.pos = Len(u.list) /\ (Len(u.list) > 0 => u.list[Len(u.list)].type # "begin")
  /\ Careful /\ type = "edit" =>
       \/ u.fresh \/ u.pos # u.save
       \/ u.pos = Len(u.list) /\ (Len(u.list) > 0 => u.list[Len(u.list)].type # "edit")

\* The last record, if it has not been trimmed, is of the type.
EndsWith(u, type) == Len(u.list) > 0 => u.list[Len(u.list)].type = type

\* editor.cpp, AddUndoData
LEMMA Adds ==
  ASSUME NEW u, NEW ts, NEW lv, NEW d \in Nat, NEW now, NEW file,
         UndoState(u, ts, lv, d, now, file), NEW type \in Types, NEW line \in Nat, NEW pos \in Nat,
         NEW of \in Line, text \in Texts, NEW next \in Strung,
         Undoes(NewRecord(type, line, pos, of), now, next), d + Weight(type) >= 0,
         Appendable(u, d, now, type)
  PROVE  /\ \E us, ls : EndState(AddUndoData(u, type, line, pos, of), us, ls, d + Weight(type), next, file)
         /\ type # "end" => /\ EndsWith(AddUndoData(u, type, line, pos, of), type)
                            /\ ~AddUndoData(u, type, line, pos, of).fresh
<1>1. PICK c : c = CutRedo(u)
  OBVIOUS
<1>2. u \in UndoTypes /\ u.list \in Seq(Record) /\ u.pos \in 0 .. Len(u.list) /\ Len(u.list) \in Nat
  BY DEF UndoState, UndoTyped, UndoTypes
<1>3. PICK cs, cl : EndState(c, cs, cl, d, now, file)
  BY <1>1, CutState
<1>4. /\ c.list = SubSeq(u.list, 1, u.pos) /\ (c.fresh <=> u.fresh)
      /\ c.save # u.pos \/ u.save = u.pos \/ c.lost
  BY <1>1, CutState
<1>5. u.pos = Len(u.list) => c.list = u.list
  BY <1>2, <1>4, SubSeqFull
<1>6. c.pos = u.pos /\ c \in UndoTypes /\ c.list \in Seq(Record)
  BY <1>1, <1>2, <1>3 DEF CutRedo, UndoTypes, EndState, UndoState, UndoTyped
<1>7. PICK r : r = NewRecord(type, line, pos, of)
  OBVIOUS
<1>8. /\ r \in Record /\ r.type = type /\ r.line = line /\ r.was = text
      /\ r = [type |-> type, line |-> line, pos |-> pos, of |-> of, was |-> text]
  BY <1>7 DEF NewRecord, Record, Texts
<1>9. PICK a : a = AddUndoData(u, type, line, pos, of)
  OBVIOUS
<1>10. PICK b : b = LoneBegin(c.list)
  OBVIOUS
<1>11. a = IF type = "end" /\ b > 0 THEN Unwrap(c, b)
           ELSE IF type = "edit" /\ Merges(c, line, pos) THEN [c EXCEPT !.last = pos]
           ELSE Append1(c, r)
  BY <1>1, <1>8, <1>9, <1>10 DEF AddUndoData
<1>12. CASE type = "end" /\ b > 0
  <2>1. a = Unwrap(c, b) /\ Weight(type) = -1 /\ d > 0 /\ now = next
    BY <1>7, <1>8, <1>11, <1>12 DEF Weight, Undoes
  <2>2. \E us, ls : EndState(Unwrap(c, b), us, ls, d - 1, now, file)
    BY <2>1, <1>3, <1>10, <1>12, Unwraps
  <2>3. d + Weight(type) = d - 1
    BY <2>1
  <2>. QED  BY <2>1, <2>2, <2>3, <1>9, <1>12
<1>13. CASE type = "edit" /\ Merges(c, line, pos)
  <2>1. a = [c EXCEPT !.last = pos] /\ Weight(type) = 0 /\ d + Weight(type) = d
    BY <1>11, <1>13 DEF Weight
  <2>2. ~c.fresh /\ c.list # <<>> /\ c.list[Len(c.list)].type = "edit"
    BY <1>13 DEF Merges
  <2>3. Careful => c.save # c.pos \/ c.lost
    <3>1. Len(c.list) > 0
      BY <2>2, <1>6
    <3>. QED  BY <2>2, <3>1, <1>4, <1>5, <1>6, <1>13 DEF Appendable
  <2>4. Differs(now, next, line, r.of.str)
    BY <1>7, <1>8, <1>13 DEF Undoes
  <2>5. PICK x : x = r.of.str
    OBVIOUS
  <2>6. /\ \E us, ls : EndState([c EXCEPT !.last = pos], us, ls, d, next, file)
        /\ ~[c EXCEPT !.last = pos].fresh /\ [c EXCEPT !.last = pos].list = c.list
    BY <2>3, <2>4, <2>5, <1>3, <1>13, MergesIn
  <2>7. EndsWith(a, type) /\ ~a.fresh
    BY <2>1, <2>2, <2>6, <1>13 DEF EndsWith
  <2>. QED  BY <2>1, <2>6, <2>7, <1>9
<1>14. CASE ~(type = "end" /\ b > 0) /\ ~(type = "edit" /\ Merges(c, line, pos))
  <2>1. a = Append1(c, r)
    BY <1>11, <1>14
  <2>2. \/ Strings(r.was) = now
        \/ d > 0 /\ (Len(c.list) > 0 => c.list[Len(c.list)].type # "begin")
    BY <1>5, <1>8 DEF Appendable
  <2>3. Undoes(r, now, next) /\ d + Weight(r.type) >= 0
    BY <1>7, <1>8
  <2>4. /\ \E us, ls : EndState(Append1(c, r), us, ls, d + Weight(r.type), next, file)
        /\ LET l == Append1(c, r).list IN Len(l) > 0 => l[Len(l)] = r
        /\ ~Append1(c, r).fresh
    BY <2>2, <2>3, <1>3, <1>8, Appends
  <2>5. EndsWith(a, type) /\ ~a.fresh
    BY <2>1, <2>4, <1>8 DEF EndsWith
  <2>. QED  BY <2>1, <2>4, <2>5, <1>8, <1>9
<1>. QED  BY <1>12, <1>13, <1>14

-----------------------------------------------------------------------------
(* Blocks                                                                   *)

\* The levels are those that are counted.
LEMMA OpenedIs ==
  ASSUME NEW lv, undo.list \in Seq(Record), Leveled(undo.list, lv)
  PROVE  \A k \in 0 .. Len(undo.list) : Opened(k) = lv[k]
<1>. DEFINE m == Len(undo.list)
            Those(type, k) == {j \in 1 .. k : undo.list[j].type = type}
            Num(type, k) == Cardinality(Those(type, k))
<1>1. m \in Nat
  OBVIOUS
<1>2. \A k \in 1 .. m : lv[k] = lv[k-1] + Weight(undo.list[k].type)
  BY DEF Leveled
<1>3. \A k : Opened(k) = Num("begin", k) - Num("end", k)
  BY DEF Opened
<1>4. ASSUME NEW type, NEW k \in Nat PROVE IsFiniteSet(Those(type, k)) /\ Num(type, k) \in Nat
  <2>0. 1 \in Int /\ k \in Int
    OBVIOUS
  <2>1. IsFiniteSet(1 .. k)
    BY <2>0, FS_Interval
  <2>3. Those(type, k) \subseteq 1 .. k
    OBVIOUS
  <2>. HIDE DEF Those
  <2>2. IsFiniteSet(Those(type, k))
    BY <2>1, <2>3, FS_Subset
  <2>. QED  BY <2>2, FS_CardinalityType
<1>5. ASSUME NEW type, NEW k \in 1 .. m
      PROVE  Num(type, k) = Num(type, k - 1) + (IF undo.list[k].type = type THEN 1 ELSE 0)
  <2>1. k - 1 \in Nat /\ k \notin 1 .. k - 1 /\ \A j \in 1 .. k : j = k \/ j \in 1 .. k - 1
    OBVIOUS
  <2>2. CASE undo.list[k].type = type
    <3>1. Those(type, k) = Those(type, k - 1) \cup {k} /\ k \notin Those(type, k - 1)
      BY <2>1, <2>2
    <3>2. IsFiniteSet(Those(type, k - 1))
      BY <1>4, <2>1
    <3>. HIDE DEF Those
    <3>3. Num(type, k) = Num(type, k - 1) + 1
      BY <3>1, <3>2, FS_AddElement
    <3>. QED  BY <2>2, <3>3
  <2>3. CASE undo.list[k].type # type
    <3>1. Those(type, k) = Those(type, k - 1)
      BY <2>1, <2>3
    <3>2. Num(type, k - 1) \in Nat
      BY <1>4, <2>1
    <3>. HIDE DEF Those
    <3>3. Num(type, k) = Num(type, k - 1)
      BY <3>1
    <3>. QED  BY <2>3, <3>2, <3>3
  <2>. QED  BY <2>2, <2>3
<1>. DEFINE T == {k \in 0 .. m : Opened(k) = lv[k]}
<1>6. 0 \in T
  <2>1. Those("begin", 0) = {} /\ Those("end", 0) = {}
    OBVIOUS
  <2>2. Num("begin", 0) = 0 /\ Num("end", 0) = 0
    BY <2>1, FS_EmptySet
  <2>3. lv[0] = 0
    BY DEF Leveled
  <2>4. Opened(0) = Num("begin", 0) - Num("end", 0)
    BY <1>3
  <2>. HIDE DEF Num, Those, m
  <2>5. Opened(0) = lv[0] /\ 0 \in 0 .. m
    BY <1>1, <2>2, <2>3, <2>4
  <2>. QED  BY <2>5
<1>7. ASSUME NEW k \in 1 .. m, k - 1 \in T PROVE k \in T
  <2>. HIDE DEF Num, Those
  <2>1. Opened(k - 1) = lv[k-1] /\ k \in 0 .. m /\ k - 1 \in Nat
    BY <1>7, <1>1
  <2>2. Num("begin", k - 1) \in Nat /\ Num("end", k - 1) \in Nat
    BY <1>4, <2>1
  <2>3. Opened(k) = Opened(k - 1) + Weight(undo.list[k].type)
    BY <1>3, <1>5, <2>2 DEF Weight
  <2>. QED  BY <2>1, <2>3, <1>2
<1>. HIDE DEF T, m
<1>8. \A k \in 0 .. m : k \in T
  BY <1>1, <1>6, <1>7, UpTo
<1>. QED  BY <1>8 DEF T, m

\* Forwards or backwards
Steps == {1, -1}

\* The k-th record from s on
Nth(s, step, k) == IF step = 1 THEN s + k - 1 ELSE s - k + 1

\* The k-th level follows from the one before it.
Counts(l, m, s, step, h, k) ==
  h[k] = IF Nth(s, step, k) \notin 1 .. m THEN h[k-1]
         ELSE IF step = 1 THEN h[k-1] + Weight(l[Nth(s, step, k)].type)
         ELSE h[k-1] - Weight(l[Nth(s, step, k)].type)

\* editor.cpp, Undo: the levels of the records from s on, in either direction
LEMMA LevelsAre ==
  ASSUME NEW l \in Seq(Record), NEW m \in Nat, m = Len(l), NEW s \in 1 .. m, NEW step \in Steps,
         NEW h \in [0 .. m -> Int], h[0] = 0,
         \A k \in 1 .. m : Counts(l, m, s, step, h, k)
  PROVE  \A k \in 0 .. m : BlockLevels(l, s, step)[k] = h[k]
<1>. DEFINE opening == IF step = 1 THEN "begin" ELSE "end"
            closing == IF step = 1 THEN "end" ELSE "begin"
            F(w, k) == LET j == s + step * (k - 1)
                       IN  IF k = 0 THEN 0
                           ELSE IF j \notin 1 .. Len(l) THEN w[k-1]
                           ELSE IF l[j].type = opening THEN w[k-1] + 1
                           ELSE IF l[j].type = closing THEN w[k-1] - 1
                           ELSE w[k-1]
            P(w) == w = [k \in 0 .. Len(l) |-> F(w, k)]
<1>1. ASSUME NEW k \in 1 .. m PROVE s + step * (k - 1) = Nth(s, step, k)
  <2>1. CASE step = 1
    BY <2>1 DEF Nth
  <2>2. CASE step = -1
    BY <2>2 DEF Nth
  <2>. QED  BY <2>1, <2>2 DEF Steps
<1>2. ASSUME NEW w, NEW k \in 1 .. m, w[k-1] = h[k-1] PROVE F(w, k) = h[k]
  <2>1. PICK j : j = Nth(s, step, k)
    OBVIOUS
  <2>2. PICK x \in Int : x = h[k-1]
    OBVIOUS
  <2>3. F(w, k) = IF j \notin 1 .. m THEN x
                  ELSE IF l[j].type = opening THEN x + 1
                  ELSE IF l[j].type = closing THEN x - 1
                  ELSE x
    BY <1>1, <1>2, <2>1, <2>2
  <2>4. h[k] = IF j \notin 1 .. m THEN x
               ELSE IF step = 1 THEN x + Weight(l[j].type) ELSE x - Weight(l[j].type)
    BY <2>1, <2>2 DEF Counts
  <2>. HIDE DEF F
  <2>5. CASE step = 1
    <3>1. opening = "begin" /\ closing = "end"
      BY <2>5
    <3>. QED  BY ONLY <2>2, <2>3, <2>4, <2>5, <3>1 DEF Weight
  <2>6. CASE step = -1
    <3>1. opening = "end" /\ closing = "begin" /\ step # 1
      BY <2>6
    <3>. QED  BY ONLY <2>2, <2>3, <2>4, <3>1 DEF Weight
  <2>. QED  BY <2>5, <2>6 DEF Steps
<1>3. \A k \in 0 .. m : k = 0 \/ k \in 1 .. m
  OBVIOUS
<1>4. F(h, 0) = h[0]
  OBVIOUS
<1>5. P(h)
  <2>1. \A k \in 0 .. m : h[k] = F(h, k)
    <3>. HIDE DEF F
    <3>. QED  BY <1>2, <1>3, <1>4
  <2>. HIDE DEF F
  <2>2. h = [k \in 0 .. m |-> F(h, k)]
    BY ONLY <2>1, h \in [0 .. m -> Int]
  <2>. QED  BY <2>2
<1>6. PICK w : w = CHOOSE g : P(g)
  OBVIOUS
<1>7. P(w)
  BY <1>5, <1>6, Zenon
<1>8. BlockLevels(l, s, step) = w
  BY <1>6 DEF BlockLevels
<1>9. \A k \in 0 .. m : w[k] = F(w, k)
  <2>. HIDE DEF F
  <2>1. w = [k \in 0 .. m |-> F(w, k)]
    BY <1>7
  <2>. QED  BY ONLY <2>1
<1>. DEFINE T == {k \in 0 .. m : w[k] = h[k]}
<1>10. 0 \in T
  <2>1. F(w, 0) = 0
    OBVIOUS
  <2>. HIDE DEF F
  <2>. QED  BY <2>1, <1>9
<1>. HIDE DEF F
<1>11. ASSUME NEW k \in 1 .. m, k - 1 \in T PROVE k \in T
  <2>1. w[k-1] = h[k-1] /\ k \in 0 .. m
    BY <1>11
  <2>. QED  BY <2>1, <1>2, <1>9
<1>. HIDE DEF T
<1>12. \A k \in 0 .. m : k \in T
  BY <1>10, <1>11, UpTo
<1>. QED  BY <1>8, <1>12 DEF T

\* Where the search ends
LEMMA EndFound ==
  ASSUME NEW l \in Seq(Record), NEW m \in Nat, m = Len(l), NEW s \in 1 .. m, NEW step \in Steps,
         NEW a \in 1 .. m, Nth(s, step, a) \in 1 .. m, BlockLevels(l, s, step)[a] <= 0
  PROVE  \E k \in 1 .. m : /\ Nth(s, step, k) \in 1 .. m /\ BlockLevels(l, s, step)[k] <= 0
                           /\ BlockEnd(l, s, step) = Nth(s, step, k)
<1>1. ASSUME NEW k \in 1 .. m PROVE s + step * (k - 1) = Nth(s, step, k)
  <2>1. CASE step = 1
    BY <2>1 DEF Nth
  <2>2. CASE step = -1
    BY <2>2 DEF Nth
  <2>. QED  BY <2>1, <2>2 DEF Steps
<1>2. PICK C : C = {k \in 1 .. m : s + step * (k - 1) \in 1 .. m /\ BlockLevels(l, s, step)[k] <= 0}
  OBVIOUS
<1>3. a \in C
  BY <1>1, <1>2
<1>4. C \in SUBSET Nat /\ C # {}
  BY <1>2, <1>3
<1>5. PICK k \in C : \A j \in C : k <= j
  BY <1>4, LeastOf
<1>6. PICK c : c = CHOOSE x \in C : \A j \in C : x <= j
  OBVIOUS
<1>7. c \in C
  BY <1>5, <1>6
<1>8. BlockEnd(l, s, step) = s + step * (c - 1)
  BY <1>2, <1>4, <1>6 DEF BlockEnd
<1>9. c \in 1 .. m /\ s + step * (c - 1) \in 1 .. m /\ BlockLevels(l, s, step)[c] <= 0
  BY <1>2, <1>7
<1>. QED  BY <1>1, <1>8, <1>9

\* The levels of a list with no block open at its position
LEMMA LevelsOf ==
  ASSUME NEW u, NEW ts, NEW lv, NEW now, NEW file, UndoState(u, ts, lv, 0, now, file)
  PROVE  /\ u.list \in Seq(Record) /\ Len(u.list) \in Nat /\ u.pos \in 0 .. Len(u.list)
         /\ lv \in [0 .. Len(u.list) -> Int] /\ lv[0] = 0 /\ u.skip = 0
         /\ \A k \in 0 .. Len(u.list) : lv[k] \in Int /\ lv[k] >= 0
         /\ \A k \in 1 .. Len(u.list) : lv[k] = lv[k-1] + Weight(u.list[k].type)
         /\ lv[u.pos] = 0 /\ lv[Len(u.list)] = 0
<1>1. /\ u.list \in Seq(Record) /\ Len(u.list) \in Nat /\ u.pos \in 0 .. Len(u.list)
      /\ u.skip \in Nat
  BY DEF UndoState, UndoTyped, UndoTypes
<1>2. /\ lv \in [0 .. Len(u.list) -> Int] /\ lv[0] = 0
      /\ \A k \in 0 .. Len(u.list) : lv[k] >= 0
      /\ \A k \in 1 .. Len(u.list) : lv[k] = lv[k-1] + Weight(u.list[k].type)
  BY DEF UndoState, Leveled, Above
<1>3. u.skip + lv[u.pos] = 0 /\ u.skip + lv[Len(u.list)] = 0
  BY DEF UndoState, Balanced
<1>4. \A k \in 0 .. Len(u.list) : lv[k] \in Int
  BY <1>2
<1>5. Len(u.list) \in 0 .. Len(u.list)
  BY <1>1
<1>. QED  BY <1>1, <1>2, <1>3, <1>4, <1>5, SMTT(30)

\* editor.cpp, Undo: undoing ends where no block is open.
LEMMA UndoEnds ==
  ASSUME NEW u, NEW ts, NEW lv, NEW now, NEW file, UndoState(u, ts, lv, 0, now, file),
         NEW s \in 1 .. Len(u.list), s = u.pos
  PROVE  \E e \in 1 .. s : e = BlockEnd(u.list, s, -1) /\ lv[e-1] = 0
<1>1. PICK l : l = u.list
  OBVIOUS
<1>2. PICK m \in Nat : m = Len(l)
  BY <1>1, LevelsOf
<1>3. /\ l \in Seq(Record) /\ s \in 1 .. m /\ lv \in [0 .. m -> Int] /\ lv[0] = 0 /\ lv[s] = 0
      /\ \A k \in 0 .. m : lv[k] \in Int /\ lv[k] >= 0
      /\ \A k \in 1 .. m : lv[k] = lv[k-1] + Weight(l[k].type)
  BY <1>1, <1>2, LevelsOf
<1>31. s \in Int /\ s >= 1 /\ s <= m /\ m \in Int
  BY <1>3
<1>4. PICK h : h = [k \in 0 .. m |-> IF k <= s THEN lv[s-k] ELSE 0]
  OBVIOUS
<1>5. /\ \A k \in 0 .. m : k <= s => h[k] = lv[s-k] /\ s - k \in 0 .. m
      /\ \A k \in 0 .. m : ~(k <= s) => h[k] = 0
  BY <1>31, <1>4
<1>6. h \in [0 .. m -> Int]
  BY <1>3, <1>4, <1>5
<1>7. h[0] = 0
  <2>1. 0 \in 0 .. m /\ 0 <= s /\ s - 0 = s
    BY <1>3
  <2>. QED  BY <2>1, <1>3, <1>5
<1>8. PICK step \in Steps : step = -1
  BY DEF Steps
<1>9. \A k \in 1 .. m : Nth(s, step, k) = s - k + 1
  BY <1>8 DEF Nth
<1>10. ASSUME NEW k \in 1 .. m
       PROVE  Counts(l, m, s, step, h, k)
  <2>1. k \in 0 .. m /\ k - 1 \in 0 .. m
    OBVIOUS
  <2>2. CASE k <= s
    <3>1. PICK j \in 1 .. m : j = s - k + 1
      BY <1>31, <2>2
    <3>2. h[k-1] = lv[j] /\ h[k] = lv[j-1]
      <4>1. k - 1 <= s /\ s - (k - 1) = j /\ s - k = j - 1
        BY <1>31, <2>2, <3>1
      <4>. QED  BY <4>1, <2>1, <2>2, <1>5
    <3>3. PICK w \in Int : w = Weight(l[j].type)
      BY DEF Weight
    <3>4. lv[j] = lv[j-1] + w /\ lv[j] \in Int /\ lv[j-1] \in Int
      BY <1>3, <3>3
    <3>5. h[k] = h[k-1] - w
      BY <3>2, <3>4
    <3>6. Nth(s, step, k) = j
      BY <1>9, <3>1
    <3>. QED  BY <3>3, <3>5, <3>6, <1>8 DEF Counts
  <2>3. CASE k > s
    <3>1. Nth(s, step, k) \notin 1 .. m
      BY <1>31, <1>9, <2>3
    <3>2. h[k] = 0
      BY <1>3, <1>5, <2>1, <2>3, SMTT(30)
    <3>3. h[k-1] = 0
      <4>1. CASE k - 1 = s
        <5>1. s - (k - 1) = 0 /\ k - 1 <= s
          BY <4>1, <1>31
        <5>2. h[k-1] = lv[s-(k-1)]
          BY <5>1, <1>5, <2>1
        <5>. QED  BY <5>1, <5>2, <1>3
      <4>2. CASE k - 1 # s
        <5>1. ~(k - 1 <= s)
          BY <4>2, <1>31, <2>3
        <5>. QED  BY <5>1, <1>5, <2>1
      <4>. QED  BY <4>1, <4>2
    <3>. QED  BY <3>1, <3>2, <3>3 DEF Counts
  <2>. QED  BY <1>3, <2>2, <2>3
<1>11. \A k \in 0 .. m : BlockLevels(l, s, step)[k] = h[k]
  <2>1. l \in Seq(Record) /\ m \in Nat /\ m = Len(l) /\ s \in 1 .. m /\ step \in Steps
    BY <1>2, <1>3, <1>8
  <2>2. \A k \in 1 .. m : Counts(l, m, s, step, h, k)
    BY <1>10
  <2>. QED  BY ONLY <2>1, <2>2, <1>6, <1>7, LevelsAre
<1>12. PICK a \in 1 .. m : a = s
  BY <1>31
<1>13. Nth(s, step, a) = 1 /\ a \in 0 .. m /\ h[a] = 0
  <2>1. a \in 0 .. m /\ s - a = 0 /\ a <= s /\ s - a + 1 = 1
    BY <1>3, <1>12
  <2>. QED  BY <2>1, <1>3, <1>5, <1>9
<1>14. PICK k \in 1 .. m : /\ Nth(s, step, k) \in 1 .. m /\ BlockLevels(l, s, step)[k] <= 0
                           /\ BlockEnd(l, s, step) = Nth(s, step, k)
  <2>1. Nth(s, step, a) \in 1 .. m /\ BlockLevels(l, s, step)[a] <= 0
    BY <1>11, <1>13
  <2>2. l \in Seq(Record) /\ m \in Nat /\ m = Len(l) /\ s \in 1 .. m /\ step \in Steps
    BY <1>2, <1>3, <1>8
  <2>3. a \in 1 .. m
    BY <1>12
  <2>. QED  BY ONLY <2>1, <2>2, <2>3, EndFound
<1>15. PICK e : e = s - k + 1
  OBVIOUS
<1>16. e \in 1 .. s /\ k <= s /\ k \in 0 .. m /\ s - k = e - 1
  BY <1>31, <1>9, <1>14, <1>15
<1>17. lv[e-1] = h[k] /\ h[k] <= 0 /\ e - 1 \in 0 .. m
  <2>1. h[k] = lv[s-k] /\ BlockLevels(l, s, step)[k] = h[k]
    BY <1>5, <1>11, <1>16
  <2>2. e - 1 \in 0 .. m
    BY <1>31, <1>16
  <2>. QED  BY <2>1, <2>2, <1>14, <1>16
<1>18. lv[e-1] = 0
  BY <1>3, <1>17
<1>. QED  BY <1>1, <1>8, <1>9, <1>14, <1>15, <1>16, <1>18

\* editor.cpp, Undo: so does redoing.
LEMMA RedoEnds ==
  ASSUME NEW u, NEW ts, NEW lv, NEW now, NEW file, UndoState(u, ts, lv, 0, now, file),
         NEW s \in 1 .. Len(u.list), s = u.pos + 1
  PROVE  \E e \in s .. Len(u.list) : e = BlockEnd(u.list, s, 1) /\ lv[e] = 0
<1>1. PICK l : l = u.list
  OBVIOUS
<1>2. PICK m \in Nat : m = Len(l)
  BY <1>1, LevelsOf
<1>3. /\ l \in Seq(Record) /\ s \in 1 .. m /\ lv \in [0 .. m -> Int] /\ lv[m] = 0 /\ lv[s-1] = 0
      /\ \A k \in 0 .. m : lv[k] \in Int /\ lv[k] >= 0
      /\ \A k \in 1 .. m : lv[k] = lv[k-1] + Weight(l[k].type)
  <2>1. u.pos = s - 1
    BY LevelsOf
  <2>. QED  BY <2>1, <1>1, <1>2, LevelsOf
<1>31. s \in Int /\ s >= 1 /\ s <= m /\ m \in Int
  BY <1>3
<1>4. PICK h : h = [k \in 0 .. m |-> IF s - 1 + k <= m THEN lv[s-1+k] ELSE 0]
  OBVIOUS
<1>5. /\ \A k \in 0 .. m : s - 1 + k <= m => h[k] = lv[s-1+k] /\ s - 1 + k \in 0 .. m
      /\ \A k \in 0 .. m : ~(s - 1 + k <= m) => h[k] = 0
  <2>1. \A k \in 0 .. m : h[k] = IF s - 1 + k <= m THEN lv[s-1+k] ELSE 0
    BY ONLY <1>4
  <2>2. ASSUME NEW k \in 0 .. m, s - 1 + k <= m PROVE h[k] = lv[s-1+k] /\ s - 1 + k \in 0 .. m
    <3>1. s - 1 + k \in 0 .. m
      BY <1>31, <2>2
    <3>. QED  BY ONLY <3>1, <2>1, <2>2, k \in 0 .. m
  <2>3. ASSUME NEW k \in 0 .. m, ~(s - 1 + k <= m) PROVE h[k] = 0
    BY ONLY <2>1, <2>3, k \in 0 .. m
  <2>. QED  BY <2>2, <2>3
<1>6. h \in [0 .. m -> Int]
  BY <1>3, <1>4, <1>5, SMTT(30)
<1>7. h[0] = 0
  <2>1. 0 \in 0 .. m /\ s - 1 + 0 <= m /\ s - 1 + 0 = s - 1
    BY <1>3
  <2>. QED  BY <2>1, <1>3, <1>5
<1>8. PICK step \in Steps : step = 1
  BY DEF Steps
<1>9. \A k \in 1 .. m : Nth(s, step, k) = s + k - 1
  BY <1>8 DEF Nth
<1>10. ASSUME NEW k \in 1 .. m
       PROVE  Counts(l, m, s, step, h, k)
  <2>1. k \in 0 .. m /\ k - 1 \in 0 .. m
    OBVIOUS
  <2>2. CASE s + k - 1 <= m
    <3>1. PICK j \in 1 .. m : j = s + k - 1
      BY <1>31, <2>2
    <3>2. h[k-1] = lv[j-1] /\ h[k] = lv[j]
      <4>1. s - 1 + (k - 1) <= m /\ s - 1 + (k - 1) = j - 1 /\ s - 1 + k = j /\ j <= m
        BY <1>31, <2>2, <3>1
      <4>. QED  BY <4>1, <2>1, <2>2, <1>5
    <3>3. PICK w \in Int : w = Weight(l[j].type)
      BY DEF Weight
    <3>4. lv[j] = lv[j-1] + w /\ lv[j] \in Int /\ lv[j-1] \in Int
      BY <1>3, <3>3
    <3>5. h[k] = h[k-1] + w
      BY <3>2, <3>4
    <3>6. Nth(s, step, k) = j
      BY <1>9, <3>1
    <3>. QED  BY <3>3, <3>5, <3>6, <1>8 DEF Counts
  <2>3. CASE s + k - 1 > m
    <3>1. Nth(s, step, k) \notin 1 .. m
      BY <1>31, <1>9, <2>3
    <3>2. h[k] = 0
      <4>1. ~(s - 1 + k <= m)
        BY <1>31, <2>3
      <4>. QED  BY <4>1, <1>5, <2>1
    <3>3. h[k-1] = 0
      <4>1. CASE s - 1 + (k - 1) = m
        BY <4>1, <1>3, <1>5, <2>1
      <4>2. CASE s - 1 + (k - 1) # m
        <5>1. ~(s - 1 + (k - 1) <= m)
          BY <4>2, <1>31, <2>3
        <5>. QED  BY <5>1, <1>5, <2>1
      <4>. QED  BY <4>1, <4>2
    <3>. QED  BY <3>1, <3>2, <3>3 DEF Counts
  <2>. QED  BY <1>3, <2>2, <2>3
<1>11. \A k \in 0 .. m : BlockLevels(l, s, step)[k] = h[k]
  <2>1. l \in Seq(Record) /\ m \in Nat /\ m = Len(l) /\ s \in 1 .. m /\ step \in Steps
    BY <1>2, <1>3, <1>8
  <2>2. \A k \in 1 .. m : Counts(l, m, s, step, h, k)
    BY <1>10
  <2>. QED  BY ONLY <2>1, <2>2, <1>6, <1>7, LevelsAre
<1>12. PICK a \in 1 .. m : a = m - s + 1
  BY <1>31
<1>13. Nth(s, step, a) = m /\ a \in 0 .. m /\ h[a] = 0 /\ m \in 1 .. m
  <2>1. a \in 0 .. m /\ s - 1 + a = m /\ s + a - 1 = m /\ m <= m
    BY <1>31, <1>12
  <2>2. h[a] = lv[s-1+a]
    BY <2>1, <1>5
  <2>3. Nth(s, step, a) = s + a - 1
    BY <1>9, <1>12
  <2>4. m \in 1 .. m
    BY <1>31
  <2>. QED  BY <2>1, <2>2, <2>3, <2>4, <1>3
<1>14. PICK k \in 1 .. m : /\ Nth(s, step, k) \in 1 .. m /\ BlockLevels(l, s, step)[k] <= 0
                           /\ BlockEnd(l, s, step) = Nth(s, step, k)
  <2>1. Nth(s, step, a) \in 1 .. m /\ BlockLevels(l, s, step)[a] <= 0
    BY <1>11, <1>13
  <2>2. l \in Seq(Record) /\ m \in Nat /\ m = Len(l) /\ s \in 1 .. m /\ step \in Steps
    BY <1>2, <1>3, <1>8
  <2>3. a \in 1 .. m
    BY <1>12
  <2>. QED  BY ONLY <2>1, <2>2, <2>3, EndFound
<1>15. PICK e : e = s + k - 1
  OBVIOUS
<1>16. e \in s .. m /\ s - 1 + k = e /\ k \in 0 .. m /\ e <= m
  <2>1. Nth(s, step, k) = e /\ e \in 1 .. m
    BY <1>9, <1>14, <1>15
  <2>2. k >= 1 /\ k <= m
    BY <1>14
  <2>. QED  BY ONLY <2>1, <2>2, <1>15, <1>31
<1>17. lv[e] = h[k] /\ h[k] <= 0 /\ e \in 0 .. m
  BY <1>3, <1>5, <1>11, <1>14, <1>16
<1>18. lv[e] = 0
  BY <1>3, <1>17
<1>. QED  BY <1>1, <1>2, <1>8, <1>9, <1>14, <1>15, <1>16, <1>18

-----------------------------------------------------------------------------
(* Undo and redo                                                            *)

\* The lists have the same marks, and remember the same texts.
Alike(a, b) ==
  /\ Len(a) = Len(b)
  /\ \A k \in 1 .. Len(a) : /\ a[k].was = b[k].was
                            /\ a[k].type = "begin" <=> b[k].type = "begin"
                            /\ a[k].type = "end" <=> b[k].type = "end"

\* The text and the list x while records of l are played, when p of them can be undone
Playing(l, ts, x, p) ==
  /\ x.text \in Texts /\ x.list \in Seq(Record) /\ Alike(l, x.list)
  /\ Chained(x.list, p, ts) /\ Strings(x.text) = ts[p]

\* What there is after the j-th record has been played
After(x, j) ==
  LET r == Played(x.text, x.list[j])
  IN  [text |-> r.text, list |-> [x.list EXCEPT ![j] = r.record]]

\* The record next to the position is played.
NextTo(p, j, q) == (j = p /\ q = p - 1) \/ (j = p + 1 /\ q = p + 1)

\* editor.cpp, Undo: a record in the list is played.
LEMMA PlaysOn ==
  ASSUME NEW l, NEW ts, NEW x, NEW m \in Nat, Len(l) = m, NEW p \in 0 .. m, Playing(l, ts, x, p),
         NEW j \in 1 .. m, NEW q \in 0 .. m, NextTo(p, j, q)
  PROVE  Playing(l, ts, After(x, j), q)
<1>1. PICK t \in Texts : t = x.text
  BY DEF Playing
<1>2. PICK b \in Seq(Record) : b = x.list
  BY DEF Playing
<1>3. Len(b) = m /\ Alike(l, b) /\ Chained(b, p, ts) /\ Strings(t) = ts[p]
  BY <1>1, <1>2 DEF Playing, Alike
<1>4. PICK r : r = b[j]
  OBVIOUS
<1>5. r \in Record
  BY <1>2, <1>3, <1>4
<1>6. /\ ts \in [0 .. m -> Strung]
      /\ \A k \in 1 .. p : Undoes(b[k], ts[k-1], ts[k])
      /\ \A k \in p + 1 .. m : Undoes(b[k], ts[k], ts[k-1])
  BY <1>3 DEF Chained
<1>7. PICK a \in Strung : a = ts[q]
  BY <1>6
<1>8. Undoes(r, a, ts[p])
  <2>1. CASE j = p /\ q = p - 1
    <3>1. j \in 1 .. p
      BY <2>1
    <3>. QED  BY <3>1, <2>1, <1>4, <1>6, <1>7
  <2>2. CASE j = p + 1 /\ q = p + 1
    <3>1. j \in p + 1 .. m /\ j - 1 = p
      BY <2>2
    <3>. QED  BY <3>1, <2>2, <1>4, <1>6, <1>7
  <2>. QED  BY <2>1, <2>2 DEF NextTo
<1>9. PICK y : y = Played(t, r)
  OBVIOUS
<1>10. Swaps(t, r, a, y)
  <2>1. Undoes(r, a, Strings(t))
    BY <1>3, <1>8
  <2>. QED  BY <2>1, <1>5, <1>7, <1>1, <1>9, PlayedIs
<1>11. /\ y.text \in Texts /\ Strings(y.text) = a /\ y.record \in Record /\ y.record.was = r.was
       /\ y.record.type = "begin" <=> r.type = "begin"
       /\ y.record.type = "end" <=> r.type = "end"
       /\ Undoes(y.record, ts[p], a)
  BY <1>3, <1>10 DEF Swaps
<1>12. PICK n \in Record : n = y.record
  BY <1>11
<1>13. PICK c : c = [b EXCEPT ![j] = n]
  OBVIOUS
<1>14. c \in Seq(Record) /\ Len(c) = m /\ \A k \in 1 .. m : c[k] = IF k = j THEN n ELSE b[k]
  BY <1>2, <1>3, <1>12, <1>13, ExceptSeq
<1>15. Chained(c, q, ts)
  <2>1. ASSUME NEW k \in 1 .. q PROVE Undoes(c[k], ts[k-1], ts[k])
    <3>1. CASE k = j
      <4>1. k = q /\ k - 1 = p
        BY <3>1 DEF NextTo
      <4>2. c[k] = n
        BY <3>1, <1>14
      <4>. QED  BY <4>1, <4>2, <1>7, <1>11, <1>12
    <3>2. CASE k # j
      <4>1. k \in 1 .. p /\ k \in 1 .. m
        BY <3>2 DEF NextTo
      <4>. QED  BY <4>1, <3>2, <1>6, <1>14
    <3>. QED  BY <3>1, <3>2
  <2>2. ASSUME NEW k \in q + 1 .. m PROVE Undoes(c[k], ts[k], ts[k-1])
    <3>1. CASE k = j
      <4>1. k = p /\ k - 1 = q
        BY <3>1 DEF NextTo
      <4>2. c[k] = n
        BY <3>1, <1>14
      <4>. QED  BY <4>1, <4>2, <1>7, <1>11, <1>12
    <3>2. CASE k # j
      <4>1. k \in p + 1 .. m /\ k \in 1 .. m
        BY <3>2 DEF NextTo
      <4>. QED  BY <4>1, <3>2, <1>6, <1>14
    <3>. QED  BY <3>1, <3>2
  <2>. QED  BY <2>1, <2>2, <1>6, <1>14 DEF Chained
<1>16. Alike(l, c)
  <2>1. ASSUME NEW k \in 1 .. m
        PROVE  /\ l[k].was = c[k].was
               /\ l[k].type = "begin" <=> c[k].type = "begin"
               /\ l[k].type = "end" <=> c[k].type = "end"
    <3>1. /\ l[k].was = b[k].was
          /\ l[k].type = "begin" <=> b[k].type = "begin"
          /\ l[k].type = "end" <=> b[k].type = "end"
      BY <1>3 DEF Alike
    <3>2. CASE k = j
      BY <3>1, <3>2, <1>4, <1>11, <1>12, <1>14
    <3>3. CASE k # j
      BY <3>1, <3>3, <1>14
    <3>. QED  BY <3>2, <3>3
  <2>. QED  BY <2>1, <1>14 DEF Alike
<1>17. PICK z : z = After(x, j)
  OBVIOUS
<1>18. z = [text |-> y.text, list |-> c]
  BY <1>1, <1>2, <1>4, <1>9, <1>12, <1>13, <1>17 DEF After
<1>19. z.text = y.text /\ z.list = c
  BY <1>18
<1>. QED  BY <1>7, <1>11, <1>14, <1>15, <1>16, <1>17, <1>19 DEF Playing

\* The position after k records have been played
PosAfter(p, step, k) == IF step = 1 THEN p + k ELSE p - k

\* editor.cpp, Undo: n records have been played.
LEMMA PlaysAll ==
  ASSUME NEW ts, NEW m \in Nat, m = Len(undo.list), NEW p \in 0 .. m,
         Playing(undo.list, ts, [text |-> text, list |-> undo.list], p),
         NEW step \in Steps, NEW s \in 1 .. m, s = (IF step = 1 THEN p + 1 ELSE p), NEW n \in Nat,
         PosAfter(p, step, n) \in 0 .. m
  PROVE  Playing(undo.list, ts, Plays(s, step, n)[n], PosAfter(p, step, n))
<1>. DEFINE a == [text |-> text, list |-> undo.list]
            Good(k, x) == Playing(undo.list, ts, x, PosAfter(p, step, k))
            F(w, k) == LET j == s + step * (k - 1)
                           r == Played(w[k-1].text, w[k-1].list[j])
                       IN  IF k = 0 THEN [text |-> text, list |-> undo.list]
                           ELSE [text |-> r.text, list |-> [w[k-1].list EXCEPT ![j] = r.record]]
            P(w) == w = [k \in 0 .. n |-> F(w, k)]
            X == [text : Texts, list : Seq(Record)]
<1>1. ASSUME NEW k \in 1 .. n
      PROVE  /\ s + step * (k - 1) = Nth(s, step, k) /\ Nth(s, step, k) \in 1 .. m
             /\ PosAfter(p, step, k - 1) \in 0 .. m /\ PosAfter(p, step, k) \in 0 .. m
             /\ NextTo(PosAfter(p, step, k - 1), Nth(s, step, k), PosAfter(p, step, k))
  <2>1. CASE step = 1
    BY <2>1 DEF Nth, PosAfter, NextTo
  <2>2. CASE step = -1
    BY <2>2 DEF Nth, PosAfter, NextTo
  <2>. QED  BY <2>1, <2>2 DEF Steps
<1>2. ASSUME NEW x, NEW k \in 1 .. n, Good(k - 1, x) PROVE Good(k, After(x, Nth(s, step, k)))
  <2>1. PICK j \in 1 .. m : j = Nth(s, step, k)
    BY <1>1
  <2>2. PICK o \in 0 .. m : o = PosAfter(p, step, k - 1)
    BY <1>1
  <2>3. PICK q \in 0 .. m : q = PosAfter(p, step, k)
    BY <1>1
  <2>4. NextTo(o, j, q) /\ Playing(undo.list, ts, x, o)
    BY <1>1, <1>2, <2>1, <2>2, <2>3
  <2>5. Playing(undo.list, ts, After(x, j), q)
    BY <2>4, PlaysOn
  <2>. QED  BY <2>1, <2>3, <2>5
<1>3. ASSUME NEW w, NEW k \in 1 .. n PROVE F(w, k) = After(w[k-1], Nth(s, step, k))
  <2>1. k # 0 /\ s + step * (k - 1) = Nth(s, step, k)
    BY <1>1
  <2>. QED  BY <2>1 DEF After
<1>4. Good(0, a)
  <2>1. PosAfter(p, step, 0) = p
    BY DEF PosAfter
  <2>. QED  BY <2>1
<1>. HIDE DEF Good
<1>5. ASSUME NEW g, g[0] = a,
             \A k \in 1 .. n : Good(k - 1, g[k-1]) => g[k] = After(g[k-1], Nth(s, step, k))
      PROVE  \A k \in 0 .. n : Good(k, g[k])
  <2>. DEFINE T == {k \in 0 .. n : Good(k, g[k])}
  <2>1. 0 \in T
    BY <1>4, <1>5
  <2>2. ASSUME NEW k \in 1 .. n, k - 1 \in T PROVE k \in T
    <3>1. Good(k - 1, g[k-1])
      BY <2>2
    <3>2. g[k] = After(g[k-1], Nth(s, step, k))
      BY <3>1, <1>5
    <3>3. Good(k, After(g[k-1], Nth(s, step, k)))
      BY <3>1, <1>2
    <3>4. Good(k, g[k]) /\ k \in 0 .. n
      BY <3>2, <3>3
    <3>. QED  BY <3>4
  <2>. HIDE DEF T
  <2>3. \A k \in 0 .. n : k \in T
    BY <2>1, <2>2, UpTo
  <2>. QED  BY <2>3 DEF T
<1>6. PICK c : c = [k \in 1 .. n |-> [x \in X |-> IF After(x, Nth(s, step, k)) \in X
                                                 THEN After(x, Nth(s, step, k)) ELSE x]]
  OBVIOUS
<1>7. a \in X
  BY <1>4 DEF Good, Playing
<1>. HIDE DEF X, a
<1>8. c \in [1 .. n -> [X -> X]]
  BY <1>6
<1>9. PICK f \in [0 .. n -> X] : Passes(f, n, a, c)
  BY <1>7, <1>8, LoopOf
<1>10. f[0] = a /\ \A k \in 1 .. n : f[k] = c[k][f[k-1]]
  BY <1>9 DEF Passes
<1>11. ASSUME NEW k \in 1 .. n, Good(k - 1, f[k-1])
       PROVE  f[k] = After(f[k-1], Nth(s, step, k))
  <2>1. PICK x : x = f[k-1]
    OBVIOUS
  <2>2. PICK z : z = After(x, Nth(s, step, k))
    OBVIOUS
  <2>3. Good(k, z)
    BY <1>2, <1>11, <2>1, <2>2
  <2>4. z.text \in Texts /\ z.list \in Seq(Record)
    BY <2>3 DEF Good, Playing
  <2>5. z = [text |-> z.text, list |-> z.list]
    BY <2>2 DEF After
  <2>6. z \in X
    BY <2>4, <2>5 DEF X
  <2>7. x \in X
    BY <1>9, <2>1
  <2>8. c[k][x] = z
    BY <1>6, <2>2, <2>6, <2>7
  <2>. QED  BY <2>1, <2>2, <2>8, <1>10
<1>12. \A k \in 0 .. n : Good(k, f[k])
  BY <1>5, <1>10, <1>11
<1>13. P(f)
  <2>1. F(f, 0) = a
    BY DEF a
  <2>. HIDE DEF F
  <2>2. ASSUME NEW k \in 0 .. n PROVE f[k] = F(f, k)
    <3>1. CASE k = 0
      BY <3>1, <2>1, <1>10
    <3>2. CASE k \in 1 .. n
      <4>1. k - 1 \in 0 .. n
        BY <3>2
      <4>. QED  BY <4>1, <3>2, <1>3, <1>11, <1>12
    <3>. QED  BY <3>1, <3>2
  <2>3. f = [k \in 0 .. n |-> F(f, k)]
    BY ONLY <2>2, f \in [0 .. n -> X]
  <2>. QED  BY <2>3
<1>14. PICK w : w = CHOOSE g : P(g)
  OBVIOUS
<1>15. P(w)
  BY <1>13, <1>14, ZenonT(30)
<1>16. Plays(s, step, n) = w
  BY <1>14 DEF Plays
<1>17. \A k \in 0 .. n : w[k] = F(w, k)
  <2>. HIDE DEF F
  <2>1. w = [k \in 0 .. n |-> F(w, k)]
    BY <1>15
  <2>. QED  BY ONLY <2>1
<1>18. w[0] = a
  <2>1. F(w, 0) = a
    BY DEF a
  <2>. HIDE DEF F
  <2>. QED  BY <2>1, <1>17
<1>. HIDE DEF F
<1>19. \A k \in 1 .. n : w[k] = After(w[k-1], Nth(s, step, k))
  BY <1>3, <1>17
<1>20. \A k \in 0 .. n : Good(k, w[k])
  BY <1>5, <1>18, <1>19
<1>21. Good(n, w[n])
  BY <1>20
<1>. QED  BY <1>16, <1>21 DEF Good

\* A list with other records but the same marks, at a position outside of blocks
LEMMA PlayedState ==
  ASSUME NEW u, NEW ts, NEW lv, NEW now, NEW file, UndoState(u, ts, lv, 0, now, file),
         NEW m \in Nat, m = Len(u.list), NEW q \in 0 .. m, lv[q] = 0,
         NEW x, Playing(u.list, ts, x, q), NEW f \in BOOLEAN
  PROVE  UndoState([u EXCEPT !.list = x.list, !.pos = q, !.fresh = f], ts, lv, 0, Strings(x.text), file)
<1>1. PICK b \in Seq(Record) : b = x.list
  BY DEF Playing
<1>2. PICK l \in Seq(Record) : l = u.list
  BY LevelsOf
<1>3. Len(l) = m /\ Len(b) = m /\ Chained(b, q, ts) /\ Strings(x.text) = ts[q]
  BY <1>1, <1>2 DEF Playing, Alike
<1>4. \A k \in 1 .. m : /\ l[k].was = b[k].was
                        /\ l[k].type = "begin" <=> b[k].type = "begin"
                        /\ l[k].type = "end" <=> b[k].type = "end"
  BY <1>1, <1>2, <1>3 DEF Playing, Alike
<1>5. PICK z : z = [u EXCEPT !.list = x.list, !.pos = q, !.fresh = f]
  OBVIOUS
<1>6. /\ u \in UndoTypes /\ u.save <= m /\ (UndoSize > 0 => m <= UndoSize)
  BY DEF UndoState, UndoTyped
<1>7. /\ z \in UndoTypes /\ z.list = b /\ z.pos = q /\ z.save = u.save /\ z.skip = u.skip
  <2>1. z = [u EXCEPT !.list = b, !.pos = q, !.fresh = f] /\ q \in Nat
    BY <1>1, <1>5
  <2>2. CASE f = TRUE
    BY ONLY <2>1, <2>2, <1>6, b \in Seq(Record) DEF UndoTypes
  <2>3. CASE f = FALSE
    BY ONLY <2>1, <2>3, <1>6, b \in Seq(Record) DEF UndoTypes
  <2>. QED  BY <2>2, <2>3
<1>8. z.lost <=> u.lost
  BY <1>5, <1>6 DEF UndoTypes
<1>9. UndoTyped(z)
  BY <1>3, <1>6, <1>7 DEF UndoTyped
<1>10. Leveled(l, lv) /\ Above(l, lv) /\ Recalls(l, lv, ts) /\ SaveFound(u, lv, ts, file)
  BY <1>2 DEF UndoState
<1>11. \A k \in 1 .. m : Weight(b[k].type) = Weight(l[k].type)
  BY <1>4 DEF Weight
<1>12. Leveled(b, lv) /\ Above(b, lv)
  BY <1>3, <1>10, <1>11 DEF Leveled, Above
<1>13. Recalls(b, lv, ts)
  <2>1. ASSUME NEW k \in 1 .. m, lv[k-1] = 0 \/ (k > 1 /\ b[k-1].type = "begin")
        PROVE  Strings(b[k].was) = ts[k-1]
    <3>1. lv[k-1] = 0 \/ (k > 1 /\ l[k-1].type = "begin")
      <4>1. CASE lv[k-1] = 0
        BY <4>1
      <4>2. CASE k > 1 /\ b[k-1].type = "begin"
        <5>1. k - 1 \in 1 .. m
          BY <4>2
        <5>. QED  BY <5>1, <4>2, <1>4
      <4>. QED  BY <4>1, <4>2, <2>1
    <3>2. Strings(l[k].was) = ts[k-1]
      BY <3>1, <1>3, <1>10 DEF Recalls
    <3>. QED  BY <3>2, <1>4
  <2>. QED  BY <2>1, <1>3 DEF Recalls
<1>14. Balanced(z, lv, 0)
  <2>1. u.skip = 0 /\ lv[m] = 0
    BY <1>2, <1>3, LevelsOf
  <2>. QED  BY <2>1, <1>3, <1>7 DEF Balanced
<1>15. SaveFound(z, lv, ts, file)
  BY <1>7, <1>8, <1>10 DEF SaveFound
<1>16. UndoState(z, ts, lv, 0, Strings(x.text), file)
  BY <1>3, <1>7, <1>9, <1>12, <1>13, <1>14, <1>15 DEF UndoState
<1>. QED  BY <1>5, <1>16

\* editor.cpp, Undo: the list and the text when it has ended
LEMMA ReplayState ==
  ASSUME NEW ts, NEW lv, NEW file, text \in Texts, UndoState(undo, ts, lv, 0, Strings(text), file),
         NEW step \in Steps, NEW s \in 1 .. Len(undo.list),
         s = (IF step = 1 THEN undo.pos + 1 ELSE undo.pos), NEW f \in BOOLEAN,
         NEW r, r = Replayed(s, step)
  PROVE  /\ r.text \in Texts
         /\ UndoState([undo EXCEPT !.list = r.list, !.pos = r.pos, !.fresh = f],
                      ts, lv, 0, Strings(r.text), file)
<1>1. PICK m \in Nat : m = Len(undo.list)
  BY LevelsOf
<1>2. PICK p \in 0 .. m : p = undo.pos
  BY <1>1, LevelsOf
<1>3. PICK i \in 1 .. m : i = s
  BY <1>1
<1>4. PICK e : e = BlockEnd(undo.list, s, step)
  OBVIOUS
<1>5. PICK n : n = step * (e - s) + 1
  OBVIOUS
<1>6. PICK q : q = IF step = 1 THEN e ELSE e - 1
  OBVIOUS
<1>7. n \in Nat /\ q \in 0 .. m /\ PosAfter(p, step, n) = q /\ lv[q] = 0
  <2>1. CASE step = 1
    <3>1. \E c \in s .. Len(undo.list) : c = BlockEnd(undo.list, s, 1) /\ lv[c] = 0
      BY <2>1, RedoEnds
    <3>2. e \in s .. m /\ lv[e] = 0
      BY <3>1, <2>1, <1>1, <1>4
    <3>3. n = (e - s) + 1 /\ q = e /\ s = p + 1 /\ s \in 1 .. m
      BY <3>2, <2>1, <1>1, <1>2, <1>3, <1>5, <1>6
    <3>4. n \in Nat /\ p + n = q /\ q \in 0 .. m
      BY ONLY <3>2, <3>3, m \in Nat, p \in 0 .. m
    <3>. QED  BY <3>2, <3>3, <3>4, <2>1 DEF PosAfter
  <2>2. CASE step = -1
    <3>0. step # 1 /\ s = undo.pos
      BY <2>2
    <3>1. \E c \in 1 .. s : c = BlockEnd(undo.list, s, -1) /\ lv[c-1] = 0
      BY <3>0, UndoEnds
    <3>2. e \in 1 .. s /\ lv[e-1] = 0
      BY <3>1, <2>2, <1>4
    <3>5. n = s - e + 1
      <4>1. e \in Int /\ s \in Int
        BY <3>2
      <4>. QED  BY ONLY <4>1, <2>2, <1>5
    <3>3. n = s - e + 1 /\ q = e - 1 /\ s = p /\ s \in 1 .. m
      BY <3>0, <3>5, <1>1, <1>2, <1>3, <1>6
    <3>4. n \in Nat /\ p - n = q /\ q \in 0 .. m
      BY ONLY <3>2, <3>3, m \in Nat, p \in 0 .. m
    <3>. QED  BY <3>0, <3>2, <3>3, <3>4 DEF PosAfter
  <2>. QED  BY <2>1, <2>2 DEF Steps
<1>8. PICK x : x = Plays(s, step, n)[n]
  OBVIOUS
<1>9. r = [text |-> x.text, list |-> x.list, pos |-> q]
  BY <1>4, <1>5, <1>6, <1>8 DEF Replayed
<1>10. Playing(undo.list, ts, [text |-> text, list |-> undo.list], p)
  <2>1. Chained(undo.list, p, ts) /\ Strings(text) = ts[p] /\ undo.list \in Seq(Record)
    BY <1>2 DEF UndoState, UndoTyped, UndoTypes
  <2>2. Alike(undo.list, undo.list)
    BY DEF Alike
  <2>. QED  BY <2>1, <2>2 DEF Playing
<1>11. Playing(undo.list, ts, x, q)
  <2>1. /\ i = (IF step = 1 THEN p + 1 ELSE p) /\ PosAfter(p, step, n) \in 0 .. m
        /\ x = Plays(i, step, n)[n] /\ q = PosAfter(p, step, n) /\ n \in Nat
    BY <1>2, <1>3, <1>7, <1>8
  <2>. QED  BY <2>1, <1>1, <1>2, <1>3, <1>10, PlaysAll
<1>12. UndoState([undo EXCEPT !.list = x.list, !.pos = q, !.fresh = f], ts, lv, 0, Strings(x.text), file)
  BY <1>1, <1>7, <1>11, PlayedState
<1>13. r.text = x.text /\ r.list = x.list /\ r.pos = q
  BY <1>9
<1>14. x.text \in Texts
  BY <1>11 DEF Playing
<1>. QED  BY <1>12, <1>13, <1>14

-----------------------------------------------------------------------------
(* Changes of the text                                                      *)

\* The strings of a text in which one line is replaced
LEMMA ReplaceOne ==
  ASSUME NEW t \in Texts, NEW i \in 1 .. Len(t), NEW l \in Line, NEW n, n = [t EXCEPT ![i] = l]
  PROVE  /\ n \in Texts /\ Len(n) = Len(t) /\ Differs(Strings(t), Strings(n), i, t[i].str)
<1>1. t \in Seq(Line) /\ Len(t) \in Nat /\ Len(t) \in 1 .. MaxLines
  BY DEF Texts
<1>2. /\ n \in Seq(Line) /\ Len(n) = Len(t)
      /\ \A j \in 1 .. Len(t) : n[j] = IF j = i THEN l ELSE t[j]
  BY <1>1, ExceptSeq
<1>3. n \in Texts
  BY <1>1, <1>2 DEF Texts
<1>4. PICK a : a = Strings(t)
  OBVIOUS
<1>5. PICK b : b = Strings(n)
  OBVIOUS
<1>6. a \in Seq(Strs) /\ Len(a) = Len(t) /\ \A j \in 1 .. Len(t) : a[j] = t[j].str
  BY <1>4, StringsAre DEF Strung
<1>7. b \in Seq(Strs) /\ Len(b) = Len(t) /\ \A j \in 1 .. Len(t) : b[j] = n[j].str
  BY <1>2, <1>3, <1>5, StringsAre DEF Strung
<1>8. \A j \in 1 .. Len(t) : j # i => a[j] = b[j]
  BY <1>2, <1>6, <1>7
<1>9. Differs(a, b, i, t[i].str)
  BY <1>6, <1>7, <1>8 DEF Differs
<1>. QED  BY <1>2, <1>3, <1>4, <1>5, <1>9

\* A line's end is not seen.
LEMMA SameEnds ==
  ASSUME NEW t \in Texts, NEW i \in 1 .. Len(t), NEW l \in Line, l.str = t[i].str,
         NEW n, n = [t EXCEPT ![i] = l]
  PROVE  n \in Texts /\ Len(n) = Len(t) /\ Strings(n) = Strings(t)
<1>1. n \in Texts /\ Len(n) = Len(t) /\ Differs(Strings(t), Strings(n), i, t[i].str)
  BY ReplaceOne
<1>2. t \in Seq(Line) /\ n[i] = l
  BY DEF Texts
<1>4. PICK a : a = Strings(t)
  OBVIOUS
<1>5. PICK b : b = Strings(n)
  OBVIOUS
<1>6. a \in Seq(Strs) /\ Len(a) = Len(t) /\ \A j \in 1 .. Len(t) : a[j] = t[j].str
  BY <1>4, StringsAre DEF Strung
<1>7. b \in Seq(Strs) /\ Len(b) = Len(t) /\ \A j \in 1 .. Len(t) : b[j] = n[j].str
  BY <1>1, <1>5, StringsAre DEF Strung
<1>8. \A j \in 1 .. Len(t) : a[j] = b[j]
  BY <1>1, <1>2, <1>4, <1>5, <1>6, <1>7 DEF Differs
<1>9. a = b
  BY <1>6, <1>7, <1>8, SameStrings
<1>. QED  BY <1>1, <1>4, <1>5, <1>9

\* The strings of a text into which a line is put
LEMMA InsertOne ==
  ASSUME NEW t \in Texts, Len(t) < MaxLines, NEW i \in 1 .. Len(t) + 1, NEW l \in Line,
         NEW n, n = InsertAt(t, i, l)
  PROVE  n \in Texts /\ Deletes(Strings(n), Strings(t), i)
<1>1. t \in Seq(Line) /\ Len(t) \in Nat /\ Len(t) >= 1
  BY DEF Texts
<1>2. /\ n \in Seq(Line) /\ Len(n) = Len(t) + 1
      /\ \A j \in 1 .. Len(t) + 1 : n[j] = IF j < i THEN t[j] ELSE IF j = i THEN l ELSE t[j-1]
  BY <1>1, Inserts, SMTT(30)
<1>3. n \in Texts
  <2>1. MaxLines \in Nat
    BY Bounds
  <2>. QED  BY <2>1, <1>1, <1>2 DEF Texts
<1>4. Len(Strings(t)) = Len(t) /\ \A j \in 1 .. Len(t) : Strings(t)[j] = t[j].str
  BY StringsAre
<1>5. Len(Strings(n)) = Len(t) + 1 /\ \A j \in 1 .. Len(t) + 1 : Strings(n)[j] = n[j].str
  BY <1>2, <1>3, StringsAre
<1>6. ASSUME NEW j \in 1 .. Len(t)
      PROVE  Strings(t)[j] = IF j < i THEN Strings(n)[j] ELSE Strings(n)[j+1]
  <2>1. CASE j < i
    <3>1. j \in 1 .. Len(t) + 1
      BY <1>1
    <3>2. Strings(n)[j] = n[j].str /\ n[j] = t[j]
      BY <3>1, <2>1, <1>2, <1>5
    <3>. QED  BY <3>2, <2>1, <1>4
  <2>2. CASE j >= i
    <3>1. PICK k \in 1 .. Len(t) + 1 : k = j + 1
      BY <1>1
    <3>2. ~(k < i) /\ k # i /\ k - 1 = j /\ ~(j < i)
      BY <3>1, <2>2
    <3>3. Strings(n)[k] = n[k].str /\ n[k] = t[k-1]
      BY <3>1, <3>2, <1>2, <1>5
    <3>4. Strings(n)[j+1] = t[j].str
      BY <3>1, <3>2, <3>3
    <3>. QED  BY <3>2, <3>4, <1>4
  <2>. QED  BY <2>1, <2>2
<1>. QED  BY <1>3, <1>4, <1>5, <1>6 DEF Deletes

\* The strings of a text from which a line is taken
LEMMA RemoveOne ==
  ASSUME NEW t \in Texts, Len(t) > 1, NEW i \in 1 .. Len(t), NEW n, n = RemoveAt(t, i)
  PROVE  n \in Texts /\ Deletes(Strings(t), Strings(n), i) /\ Strings(t)[i] = t[i].str
<1>1. t \in Seq(Line) /\ Len(t) \in Nat /\ Len(t) <= MaxLines
  BY DEF Texts
<1>2. /\ n \in Seq(Line) /\ Len(n) = Len(t) - 1
      /\ \A j \in 1 .. Len(t) - 1 : n[j] = IF j < i THEN t[j] ELSE t[j+1]
  BY <1>1, Removes
<1>3. n \in Texts
  <2>1. MaxLines \in Nat
    BY Bounds
  <2>. QED  BY <2>1, <1>1, <1>2 DEF Texts
<1>4. Len(Strings(t)) = Len(t) /\ \A j \in 1 .. Len(t) : Strings(t)[j] = t[j].str
  BY StringsAre
<1>5. Len(Strings(n)) = Len(t) - 1 /\ \A j \in 1 .. Len(t) - 1 : Strings(n)[j] = n[j].str
  BY <1>2, <1>3, StringsAre
<1>6. ASSUME NEW j \in 1 .. Len(t) - 1
      PROVE  Strings(n)[j] = IF j < i THEN Strings(t)[j] ELSE Strings(t)[j+1]
  <2>1. j \in 1 .. Len(t)
    BY <1>1
  <2>2. PICK k \in 1 .. Len(t) : k = j + 1
    BY <1>1
  <2>3. Strings(t)[j] = t[j].str /\ Strings(t)[k] = t[k].str
    BY <2>1, <2>2, <1>4
  <2>. QED  BY <2>2, <2>3, <1>2, <1>5
<1>7. Len(t) = Len(t) - 1 + 1
  BY <1>1
<1>. QED  BY <1>3, <1>4, <1>5, <1>6, <1>7 DEF Deletes

\* Records of lines
LineTypes == {"edit", "insstr", "delstr"}

\* editor.cpp: a command that changes one line and puts in or takes out the next one
LEMMA TwoRecords ==
  ASSUME NEW u, NEW ts, NEW lv, NEW d \in Nat, NEW file, text \in Texts,
         UndoState(u, ts, lv, d, Strings(text), file), NEW mid \in Strung, NEW next \in Strung,
         NEW i \in Nat, NEW pos \in Nat, NEW of \in Line,
         Undoes(NewRecord("edit", i, pos, of), Strings(text), mid),
         NEW type \in LineTypes, type # "edit", NEW line \in Nat, NEW o \in Line,
         Undoes(NewRecord(type, line, 0, o), mid, next),
         NEW v, v = Mark(AddUndoData(AddUndoData(Mark(u, "begin"), "edit", i, pos, of), type, line, 0, o), "end")
  PROVE  \E us, ls : UndoState(v, us, ls, d, next, file)
<1>1. /\ "begin" \in Types /\ "edit" \in Types /\ type \in Types /\ "end" \in Types
      /\ Weight("begin") = 1 /\ Weight("edit") = 0 /\ Weight(type) = 0 /\ Weight("end") = -1
      /\ type # "end" /\ type # "begin" /\ type # "edit"
  BY DEF Types, Weight, LineTypes
<1>2. NoLine \in Line /\ 0 \in Nat
  BY Bounds DEF NoLine, Line
<1>3. Strings(text) \in Strung
  BY StringsAre
<1>4. PICK c \in Nat : c = d + 1
  OBVIOUS
<1>5. PICK a : a = AddUndoData(u, "begin", 0, 0, NoLine)
  OBVIOUS
<1>6. /\ \E us, ls : EndState(a, us, ls, c, Strings(text), file)
      /\ EndsWith(a, "begin")
  <2>1. Undoes(NewRecord("begin", 0, 0, NoLine), Strings(text), Strings(text))
    BY DEF Undoes, NewRecord
  <2>2. Appendable(u, d, Strings(text), "begin")
    BY DEF Appendable
  <2>3. d + Weight("begin") >= 0 /\ c = d + Weight("begin") /\ "begin" # "end"
    BY <1>1, <1>4
  <2>. QED  BY <2>1, <2>2, <2>3, <1>1, <1>2, <1>3, <1>5, Adds
<1>7. PICK s1, l1 : EndState(a, s1, l1, c, Strings(text), file)
  BY <1>6
<1>8. PICK b : b = AddUndoData(a, "edit", i, pos, of)
  OBVIOUS
<1>9. /\ \E us, ls : EndState(b, us, ls, c, mid, file)
      /\ EndsWith(b, "edit")
  <2>1. UndoState(a, s1, l1, c, Strings(text), file) /\ a.pos = Len(a.list)
    BY <1>7 DEF EndState
  <2>2. Appendable(a, c, Strings(text), "edit")
    BY <2>1, <1>6 DEF Appendable, EndsWith
  <2>3. c + Weight("edit") >= 0 /\ c = c + Weight("edit") /\ "edit" # "end"
    BY <1>1, <1>4
  <2>. QED  BY <2>1, <2>2, <2>3, <1>1, <1>8, Adds
<1>10. PICK s2, l2 : EndState(b, s2, l2, c, mid, file)
  BY <1>9
<1>11. PICK e : e = AddUndoData(b, type, line, 0, o)
  OBVIOUS
<1>12. /\ \E us, ls : EndState(e, us, ls, c, next, file)
       /\ EndsWith(e, type)
  <2>1. UndoState(b, s2, l2, c, mid, file) /\ b.pos = Len(b.list) /\ c > 0
    BY <1>4, <1>10 DEF EndState
  <2>2. Appendable(b, c, mid, type)
    BY <2>1, <1>1, <1>9 DEF Appendable, EndsWith
  <2>3. c + Weight(type) >= 0 /\ c = c + Weight(type)
    BY <1>1, <1>4
  <2>. QED  BY <2>1, <2>2, <2>3, <1>1, <1>2, <1>11, Adds
<1>13. PICK s3, l3 : EndState(e, s3, l3, c, next, file)
  BY <1>12
<1>14. v = AddUndoData(e, "end", 0, 0, NoLine)
  BY <1>5, <1>8, <1>11 DEF Mark
<1>15. \E us, ls : EndState(v, us, ls, d, next, file)
  <2>1. UndoState(e, s3, l3, c, next, file) /\ e.pos = Len(e.list) /\ c > 0
    BY <1>4, <1>13 DEF EndState
  <2>2. Appendable(e, c, next, "end")
    BY <2>1, <1>1, <1>12 DEF Appendable, EndsWith
  <2>3. c + Weight("end") >= 0 /\ d = c + Weight("end")
    BY <1>1, <1>4
  <2>4. Undoes(NewRecord("end", 0, 0, NoLine), next, next)
    BY DEF Undoes, NewRecord
  <2>. QED  BY <2>1, <2>2, <2>3, <2>4, <1>1, <1>2, <1>14, Adds
<1>. QED  BY <1>15 DEF EndState

-----------------------------------------------------------------------------
(* The invariant is inductive                                               *)

EditorIInv ==
  /\ text \in Texts /\ saved \in Texts /\ modified \in BOOLEAN
  /\ blocks \in 0 .. MaxBlocks /\ edits \in 0 .. MaxEdits
  /\ \E ts, lv : UndoState(undo, ts, lv, blocks, Strings(text), Strings(saved))
  /\ Careful /\ ~modified => Strings(text) = Strings(saved)

\* What the invariant says at the start of an action
LEMMA EditorNow ==
  ASSUME EditorIInv
  PROVE  /\ text \in Seq(Line) /\ Len(text) \in 1 .. MaxLines /\ Strings(text) \in Strung
         /\ blocks \in Nat /\ edits \in Nat /\ undo \in UndoTypes
         /\ \A i \in 1 .. Len(text) : text[i] \in Line
<1>1. text \in Texts /\ blocks \in 0 .. MaxBlocks /\ edits \in 0 .. MaxEdits
  BY DEF EditorIInv
<1>2. text \in Seq(Line) /\ Len(text) \in 1 .. MaxLines
  BY <1>1 DEF Texts
<1>3. PICK ts, lv : UndoState(undo, ts, lv, blocks, Strings(text), Strings(saved))
  BY DEF EditorIInv
<1>4. undo \in UndoTypes
  BY <1>3 DEF UndoState, UndoTyped
<1>5. Strings(text) \in Strung
  BY <1>1, StringsAre
<1>6. \A i \in 1 .. Len(text) : text[i] \in Line
  BY <1>2
<1>. QED  BY <1>1, <1>2, <1>4, <1>5, <1>6

\* New strings fit.
LEMMA NewStrings ==
  ASSUME NEW e \in Nat, e <= MaxEdits
  PROVE  e \in Strs /\ 0 \in Strs
  BY Bounds DEF Strs

\* editor.cpp: the cursor is moved.
LEMMA Refreshed ==
  ASSUME NEW u, NEW ts, NEW lv, NEW d, NEW now, NEW file, UndoState(u, ts, lv, d, now, file)
  PROVE  /\ UndoState([u EXCEPT !.fresh = TRUE], ts, lv, d, now, file)
         /\ [u EXCEPT !.fresh = TRUE].fresh
<1>1. PICK w : w = [u EXCEPT !.fresh = TRUE]
  OBVIOUS
<1>2. u \in UndoTypes
  BY DEF UndoState, UndoTyped
<1>3. w \in UndoTypes /\ w.list = u.list /\ w.pos = u.pos /\ w.save = u.save /\ w.skip = u.skip /\ w.fresh
  BY <1>1, <1>2 DEF UndoTypes
<1>4. w.lost <=> u.lost
  BY <1>1, <1>2 DEF UndoTypes
<1>5. UndoState(w, ts, lv, d, now, file)
  BY <1>3, <1>4, SameUndo
<1>. QED  BY <1>1, <1>3, <1>5

\* An edit is not merged into the record before the text that was saved.
Apart(u, type) == Careful /\ type = "edit" => u.fresh \/ u.pos # u.save

\* editor.cpp: one record is appended before the text changes.
LEMMA OneRecord ==
  ASSUME NEW u, NEW ts, NEW lv, NEW d \in Nat, NEW file, text \in Texts,
         UndoState(u, ts, lv, d, Strings(text), file),
         NEW type \in LineTypes, NEW line \in Nat, NEW pos \in Nat, NEW o \in Line,
         NEW next \in Strung, Undoes(NewRecord(type, line, pos, o), Strings(text), next),
         Apart(u, type),
         NEW v, v = AddUndoData(u, type, line, pos, o)
  PROVE  \E us, ls : UndoState(v, us, ls, d, next, file)
<1>1. type \in Types /\ Weight(type) = 0
  BY DEF Types, Weight, LineTypes
<1>2. Appendable(u, d, Strings(text), type)
  BY DEF Appendable, Apart
<1>3. d + Weight(type) >= 0 /\ d = d + Weight(type)
  BY <1>1
<1>4. \E us, ls : EndState(v, us, ls, d, next, file)
  BY <1>1, <1>2, <1>3, Adds
<1>. QED  BY <1>4 DEF EndState

\* editor.cpp, LoadFile: the editor starts with the lines of its file and no records.
LEMMA EditorStarts == EditorInit => EditorIInv
<1>. SUFFICES ASSUME EditorInit PROVE EditorIInv
  OBVIOUS
<1>1. /\ InitialLines \in 1 .. MaxLines /\ MaxLines \in Nat /\ MaxEdits \in Nat /\ MaxBlocks \in Nat
  BY EditorUndoAssumption
<1>. DEFINE Loaded(i) == [str |-> MaxEdits + i, eol |-> i < InitialLines]
<1>2. text = [i \in 1 .. InitialLines |-> Loaded(i)]
  BY DEF EditorInit
<1>3. \A i \in 1 .. InitialLines : Loaded(i) \in Line
  BY <1>1 DEF Line
<1>. HIDE DEF Loaded
<1>4. text \in Texts
  <2>0. text \in [1 .. InitialLines -> Line] /\ InitialLines \in Nat
    BY <1>1, <1>2, <1>3
  <2>1. text \in Seq(Line) /\ Len(text) = InitialLines
    BY <2>0
  <2>. QED  BY <2>1, <1>1 DEF Texts
<1>5. saved = text /\ undo = NoUndo /\ modified = FALSE /\ blocks = 0 /\ edits = 0
  BY DEF EditorInit
<1>6. Strings(text) \in Strung
  BY <1>4, StringsAre
<1>7. PICK ts : ts = [k \in 0 .. 0 |-> Strings(text)]
  OBVIOUS
<1>8. PICK lv : lv = [k \in 0 .. 0 |-> 0]
  OBVIOUS
<1>9. /\ undo \in UndoTypes /\ undo.list = <<>> /\ undo.pos = 0 /\ undo.save = 0 /\ undo.skip = 0
      /\ Len(undo.list) = 0
  BY <1>5 DEF NoUndo, UndoTypes
<1>10. /\ ts \in [0 .. 0 -> Strung] /\ ts[0] = Strings(text) /\ lv \in [0 .. 0 -> Int] /\ lv[0] = 0
  BY <1>6, <1>7, <1>8
<1>11. UndoTyped(undo)
  BY <1>9, Bounds DEF UndoTyped
<1>12. Leveled(undo.list, lv) /\ Above(undo.list, lv)
  BY <1>9, <1>10 DEF Leveled, Above
<1>13. Chained(undo.list, undo.pos, ts) /\ Recalls(undo.list, lv, ts)
  BY <1>9, <1>10 DEF Chained, Recalls
<1>14. Balanced(undo, lv, 0) /\ SaveFound(undo, lv, ts, Strings(text))
  BY <1>9, <1>10 DEF Balanced, SaveFound
<1>15. UndoState(undo, ts, lv, 0, Strings(text), Strings(text))
  BY <1>9, <1>10, <1>11, <1>12, <1>13, <1>14 DEF UndoState
<1>16. UndoState(undo, ts, lv, blocks, Strings(text), Strings(saved))
  BY <1>5, <1>15
<1>17. blocks \in 0 .. MaxBlocks /\ edits \in 0 .. MaxEdits
  BY <1>1, <1>5
<1>. QED  BY <1>4, <1>5, <1>16, <1>17 DEF EditorIInv

\* editor.cpp: one line is changed.
LEMMA ChangeLineKeeps ==
  ASSUME EditorIInv, NEW i \in 1 .. Len(text), NEW pos \in Positions,
         ChangeLine(i, pos) \/ ExpandTabs(i, pos)
  PROVE  EditorIInv'
<1>1. /\ Fresh /\ edits' = edits + 1 /\ text' = [text EXCEPT ![i].str = edits']
      /\ undo' = EditOf(undo, i, pos) /\ saved' = saved /\ blocks' = blocks
      /\ (Careful => undo.fresh \/ undo.pos # undo.save) /\ modified' \in BOOLEAN
      /\ ~Careful \/ modified'
  BY DEF ChangeLine, ExpandTabs, Careful, MayEdit, EditorIInv
<1>2. PICK e \in Nat : e = edits + 1
  BY EditorNow
<1>3. e <= MaxEdits
  BY <1>1, <1>2, Bounds DEF Fresh
<1>4. PICK l : l = [text[i] EXCEPT !.str = e]
  OBVIOUS
<1>5. l \in Line
  <2>1. text[i] \in Line /\ e \in Strs
    BY <1>3, EditorNow, NewStrings
  <2>. QED  BY <2>1, <1>4 DEF Line, Strs
<1>6. PICK n : n = [text EXCEPT ![i] = l]
  OBVIOUS
<1>7. text' = n
  BY <1>1, <1>2, <1>4, <1>6
<1>8. text \in Texts
  BY DEF EditorIInv
<1>9. n \in Texts /\ Differs(Strings(text), Strings(n), i, text[i].str)
  BY <1>5, <1>6, <1>8, ReplaceOne
<1>10. PICK ts, lv : UndoState(undo, ts, lv, blocks, Strings(text), Strings(saved))
  BY DEF EditorIInv
<1>11. Undoes(NewRecord("edit", i, pos, text[i]), Strings(text), Strings(n))
  BY <1>9 DEF NewRecord, Undoes
<1>12. undo' = AddUndoData(undo, "edit", i, pos, text[i])
  BY <1>1 DEF EditOf
<1>13. \E us, ls : UndoState(undo', us, ls, blocks, Strings(n), Strings(saved))
  <2>1. Strings(n) \in Strung /\ i \in Nat /\ pos \in Nat /\ text[i] \in Line /\ blocks \in Nat
    BY <1>9, StringsAre, EditorNow, EditorUndoAssumption
  <2>2. PICK type \in LineTypes : type = "edit"
    BY DEF LineTypes
  <2>3. PICK o \in Line : o = text[i]
    BY <2>1
  <2>4. PICK v : v = undo'
    OBVIOUS
  <2>5. PICK file : file = Strings(saved)
    OBVIOUS
  <2>6. /\ UndoState(undo, ts, lv, blocks, Strings(text), file)
        /\ Undoes(NewRecord(type, i, pos, o), Strings(text), Strings(n))
        /\ v = AddUndoData(undo, type, i, pos, o)
        /\ Apart(undo, type) /\ type \in LineTypes /\ o \in Line
    BY <1>1, <1>10, <1>11, <1>12, <2>2, <2>3, <2>4, <2>5 DEF Apart
  <2>7. \E us, ls : UndoState(v, us, ls, blocks, Strings(n), file)
    BY ONLY <2>1, <2>6, <1>8, OneRecord
  <2>. QED  BY <2>4, <2>5, <2>7
<1>14. e \in 0 .. MaxEdits
  BY <1>3
<1>. QED  BY <1>1, <1>2, <1>7, <1>9, <1>13, <1>14 DEF EditorIInv

\* editor.cpp: the cursor moves.
LEMMA MoveCursorKeeps == EditorIInv /\ MoveCursor => EditorIInv'
<1>. SUFFICES ASSUME EditorIInv, MoveCursor PROVE EditorIInv'
  OBVIOUS
<1>1. PICK ts, lv : UndoState(undo, ts, lv, blocks, Strings(text), Strings(saved))
  BY DEF EditorIInv
<1>2. UndoState(undo', ts, lv, blocks, Strings(text), Strings(saved))
  BY <1>1, Refreshed DEF MoveCursor
<1>3. text' = text /\ saved' = saved /\ modified' = modified /\ blocks' = blocks /\ edits' = edits
  BY DEF MoveCursor
<1>. QED  BY <1>2, <1>3 DEF EditorIInv

\* editor.cpp, InsertString: an empty line is put behind line i.
LEMMA EnterKeeps ==
  ASSUME EditorIInv, NEW i \in 1 .. Len(text), EnterAtEnd(i)
  PROVE  EditorIInv'
<1>1. /\ Len(text) < MaxLines /\ Fresh /\ edits' = edits + 1
      /\ text' = InsertAt([text EXCEPT ![i].eol = TRUE], i + 1, [str |-> 0, eol |-> text[i].eol])
      /\ undo' = AddUndoData([undo EXCEPT !.fresh = TRUE], "insstr", i + 1, 0, NoLine)
      /\ modified' = TRUE /\ saved' = saved /\ blocks' = blocks
  BY DEF EnterAtEnd
<1>2. text \in Texts /\ text[i] \in Line /\ i \in Nat /\ i + 1 \in Nat /\ blocks \in Nat
  BY EditorNow DEF EditorIInv
<1>3. PICK l : l = [text[i] EXCEPT !.eol = TRUE]
  OBVIOUS
<1>4. l \in Line /\ l.str = text[i].str
  BY <1>2, <1>3 DEF Line
<1>5. PICK t : t = [text EXCEPT ![i] = l]
  OBVIOUS
<1>6. t \in Texts /\ Len(t) = Len(text) /\ Strings(t) = Strings(text)
  BY <1>2, <1>4, <1>5, SameEnds
<1>7. PICK m : m = [str |-> 0, eol |-> text[i].eol]
  OBVIOUS
<1>8. m \in Line /\ NoLine \in Line
  BY <1>2, <1>7, Bounds DEF Line, NoLine
<1>9. PICK n : n = InsertAt(t, i + 1, m)
  OBVIOUS
<1>10. text' = n
  BY <1>1, <1>3, <1>5, <1>7, <1>9
<1>11. PICK j \in 1 .. Len(t) + 1 : j = i + 1
  BY <1>2, <1>6, EditorNow
<1>12. n \in Texts /\ Deletes(Strings(n), Strings(text), j)
  <2>1. Len(t) < MaxLines /\ n = InsertAt(t, j, m)
    BY <1>1, <1>6, <1>9, <1>11
  <2>2. n \in Texts /\ Deletes(Strings(n), Strings(t), j)
    BY <2>1, <1>6, <1>8, <1>11, InsertOne
  <2>. QED  BY <2>2, <1>6
<1>13. PICK ts, lv : UndoState(undo, ts, lv, blocks, Strings(text), Strings(saved))
  BY DEF EditorIInv
<1>14. PICK u : u = [undo EXCEPT !.fresh = TRUE]
  OBVIOUS
<1>15. UndoState(u, ts, lv, blocks, Strings(text), Strings(saved)) /\ u.fresh
  BY <1>13, <1>14, Refreshed
<1>16. \E us, ls : UndoState(undo', us, ls, blocks, Strings(n), Strings(saved))
  <2>1. PICK type \in LineTypes : type = "insstr"
    BY DEF LineTypes
  <2>2. PICK v : v = undo'
    OBVIOUS
  <2>3. PICK file : file = Strings(saved)
    OBVIOUS
  <2>4. PICK line \in Nat : line = i + 1
    BY <1>2
  <2>5. PICK z \in Nat : z = 0
    OBVIOUS
  <2>6. PICK o \in Line : o = NoLine
    BY <1>8
  <2>7. Undoes(NewRecord(type, line, z, o), Strings(text), Strings(n))
    BY <1>11, <1>12, <2>1, <2>4 DEF Undoes, NewRecord
  <2>8. /\ UndoState(u, ts, lv, blocks, Strings(text), file) /\ v = AddUndoData(u, type, line, z, o)
        /\ Apart(u, type) /\ type \in LineTypes /\ line \in Nat /\ z \in Nat /\ o \in Line
    BY <1>1, <1>14, <1>15, <2>1, <2>2, <2>3, <2>4, <2>5, <2>6 DEF Apart
  <2>9. Strings(n) \in Strung
    BY <1>12, StringsAre
  <2>10. \E us, ls : UndoState(v, us, ls, blocks, Strings(n), file)
    BY ONLY <2>7, <2>8, <2>9, <1>2, OneRecord
  <2>. QED  BY <2>2, <2>3, <2>10
<1>17. edits' \in 0 .. MaxEdits
  BY <1>1, EditorNow, Bounds DEF Fresh
<1>. QED  BY <1>1, <1>10, <1>12, <1>16, <1>17 DEF EditorIInv

\* editor.cpp, InsertString: line i is split.
LEMMA SplitKeeps ==
  ASSUME EditorIInv, NEW i \in 1 .. Len(text), NEW pos \in Positions, Split(i, pos)
  PROVE  EditorIInv'
<1>1. /\ Len(text) < MaxLines /\ edits + 2 <= MaxEdits /\ edits' = edits + 2
      /\ text' = InsertAt([text EXCEPT ![i].str = edits + 1], i + 1,
                          [str |-> edits', eol |-> text[i].eol])
      /\ undo' = Mark(AddUndoData(AddUndoData(Mark([undo EXCEPT !.fresh = TRUE], "begin"),
                                             "edit", i, pos, [text[i] EXCEPT !.eol = TRUE]),
                                 "insstr", i + 1, 0, NoLine), "end")
      /\ modified' = TRUE /\ saved' = saved /\ blocks' = blocks
  BY DEF Split
<1>2. /\ text \in Texts /\ text[i] \in Line /\ i \in Nat /\ i + 1 \in Nat /\ blocks \in Nat
      /\ pos \in Nat
  BY EditorNow, EditorUndoAssumption DEF EditorIInv
<1>3. PICK e \in Nat : e = edits + 1
  BY EditorNow
<1>4. PICK g \in Nat : g = edits + 2
  BY EditorNow
<1>5. e \in Strs /\ g \in Strs
  <2>1. e <= MaxEdits /\ g <= MaxEdits
    BY <1>1, <1>3, <1>4, EditorNow, Bounds
  <2>. QED  BY <2>1, NewStrings
<1>6. PICK l : l = [text[i] EXCEPT !.str = e]
  OBVIOUS
<1>7. PICK m : m = [str |-> g, eol |-> text[i].eol]
  OBVIOUS
<1>8. PICK of : of = [text[i] EXCEPT !.eol = TRUE]
  OBVIOUS
<1>9. l \in Line /\ m \in Line /\ of \in Line /\ of.str = text[i].str /\ NoLine \in Line
  <2>1. PICK x \in Line : x = text[i]
    BY <1>2
  <2>2. l \in Line
    BY <2>1, <1>5, <1>6 DEF Line, Strs
  <2>3. m \in Line
    BY <2>1, <1>5, <1>7 DEF Line, Strs
  <2>4. of \in Line /\ of.str = text[i].str
    BY <2>1, <1>8 DEF Line
  <2>5. NoLine \in Line
    BY Bounds DEF Line, NoLine
  <2>. QED  BY <2>2, <2>3, <2>4, <2>5
<1>10. PICK t : t = [text EXCEPT ![i] = l]
  OBVIOUS
<1>11. t \in Texts /\ Len(t) = Len(text) /\ Differs(Strings(text), Strings(t), i, of.str)
  BY <1>2, <1>9, <1>10, ReplaceOne
<1>12. PICK n : n = InsertAt(t, i + 1, m)
  OBVIOUS
<1>13. text' = n
  BY <1>1, <1>3, <1>4, <1>6, <1>7, <1>10, <1>12
<1>14. PICK j \in 1 .. Len(t) + 1 : j = i + 1
  BY <1>2, <1>11, EditorNow
<1>15. n \in Texts /\ Deletes(Strings(n), Strings(t), j)
  <2>1. Len(t) < MaxLines /\ n = InsertAt(t, j, m)
    BY <1>1, <1>11, <1>12, <1>14
  <2>. QED  BY <2>1, <1>9, <1>11, <1>14, InsertOne
<1>16. PICK ts, lv : UndoState(undo, ts, lv, blocks, Strings(text), Strings(saved))
  BY DEF EditorIInv
<1>17. PICK u : u = [undo EXCEPT !.fresh = TRUE]
  OBVIOUS
<1>18. UndoState(u, ts, lv, blocks, Strings(text), Strings(saved))
  BY <1>16, <1>17, Refreshed
<1>19. \E us, ls : UndoState(undo', us, ls, blocks, Strings(n), Strings(saved))
  <2>1. PICK type \in LineTypes : type = "insstr"
    BY DEF LineTypes
  <2>2. PICK v : v = undo'
    OBVIOUS
  <2>3. PICK file : file = Strings(saved)
    OBVIOUS
  <2>4. PICK line \in Nat : line = i + 1
    BY <1>2
  <2>6. PICK o \in Line : o = NoLine
    BY <1>9
  <2>7. Undoes(NewRecord(type, line, 0, o), Strings(t), Strings(n))
    BY <1>14, <1>15, <2>1, <2>4 DEF Undoes, NewRecord
  <2>8. Undoes(NewRecord("edit", i, pos, of), Strings(text), Strings(t))
    BY <1>11 DEF Undoes, NewRecord
  <2>9. v = Mark(AddUndoData(AddUndoData(Mark(u, "begin"), "edit", i, pos, of), type, line, 0, o), "end")
    BY <1>1, <1>8, <1>17, <2>1, <2>2, <2>4, <2>6
  <2>10. /\ UndoState(u, ts, lv, blocks, Strings(text), file)
         /\ type \in LineTypes /\ type # "edit" /\ line \in Nat /\ o \in Line
    BY <1>18, <2>1, <2>3, <2>4, <2>6
  <2>11. Strings(n) \in Strung /\ Strings(t) \in Strung
    BY <1>11, <1>15, StringsAre
  <2>12. \E us, ls : UndoState(v, us, ls, blocks, Strings(n), file)
    BY ONLY <2>7, <2>8, <2>9, <2>10, <2>11, <1>2, <1>9, TwoRecords
  <2>. QED  BY <2>2, <2>3, <2>12
<1>20. edits' \in 0 .. MaxEdits
  BY <1>1, EditorNow, Bounds, SMTT(30)
<1>. QED  BY <1>1, <1>13, <1>15, <1>19, <1>20 DEF EditorIInv

\* editor.cpp, DeleteString: a line goes, or is emptied.
LEMMA DeleteKeeps ==
  ASSUME EditorIInv, NEW i \in 1 .. Len(text), NEW deleteLast \in BOOLEAN, DeleteString(i, deleteLast)
  PROVE  EditorIInv'
<1>1. /\ (CursorMoves => undo.fresh \/ undo.pos # undo.save) /\ Fresh /\ edits' = edits + 1
      /\ modified' = TRUE /\ saved' = saved /\ blocks' = blocks
  BY DEF DeleteString, MayEdit
<1>2. \/ undo' = AddUndoData(undo, "edit", i, 0, text[i]) /\ text' = [text EXCEPT ![i] = NoLine]
      \/ /\ undo' = AddUndoData(undo, "delstr", i, 0, text[i]) /\ text' = RemoveAt(text, i)
         /\ ~(i = Len(text) /\ (~deleteLast \/ i = 1))
  BY DEF DeleteString, EditOf
<1>3. /\ text \in Texts /\ text[i] \in Line /\ i \in Nat /\ blocks \in Nat
      /\ text \in Seq(Line) /\ Len(text) \in Nat
  BY EditorNow DEF EditorIInv
<1>4. NoLine \in Line
  BY Bounds DEF NoLine, Line
<1>5. PICK n : n = text'
  OBVIOUS
<1>6. PICK ts, lv : UndoState(undo, ts, lv, blocks, Strings(text), Strings(saved))
  BY DEF EditorIInv
<1>7. PICK type \in LineTypes : /\ n \in Texts
                                /\ undo' = AddUndoData(undo, type, i, 0, text[i])
                                /\ Undoes(NewRecord(type, i, 0, text[i]), Strings(text), Strings(n))
  <2>1. CASE undo' = AddUndoData(undo, "edit", i, 0, text[i]) /\ text' = [text EXCEPT ![i] = NoLine]
    <3>1. n = [text EXCEPT ![i] = NoLine]
      BY <1>5, <2>1
    <3>2. n \in Texts /\ Differs(Strings(text), Strings(n), i, text[i].str)
      BY <3>1, <1>3, <1>4, ReplaceOne
    <3>3. Undoes(NewRecord("edit", i, 0, text[i]), Strings(text), Strings(n))
      BY <3>2 DEF Undoes, NewRecord
    <3>4. "edit" \in LineTypes
      BY DEF LineTypes
    <3>. QED  BY <3>2, <3>3, <3>4, <2>1
  <2>2. CASE /\ undo' = AddUndoData(undo, "delstr", i, 0, text[i]) /\ text' = RemoveAt(text, i)
             /\ ~(i = Len(text) /\ (~deleteLast \/ i = 1))
    <3>1. n = RemoveAt(text, i) /\ Len(text) > 1
      BY <1>3, <1>5, <2>2
    <3>2. n \in Texts /\ Deletes(Strings(text), Strings(n), i) /\ Strings(text)[i] = text[i].str
      BY <3>1, <1>3, RemoveOne
    <3>3. Undoes(NewRecord("delstr", i, 0, text[i]), Strings(text), Strings(n))
      BY <3>2 DEF Undoes, NewRecord
    <3>4. "delstr" \in LineTypes
      BY DEF LineTypes
    <3>. QED  BY <3>2, <3>3, <3>4, <2>2
  <2>. QED  BY <1>2, <2>1, <2>2
<1>8. \E us, ls : UndoState(undo', us, ls, blocks, Strings(n), Strings(saved))
  <2>2. PICK v : v = undo'
    OBVIOUS
  <2>3. PICK file : file = Strings(saved)
    OBVIOUS
  <2>5. PICK z \in Nat : z = 0
    OBVIOUS
  <2>6. PICK o \in Line : o = text[i]
    BY <1>3
  <2>7. Apart(undo, type)
    BY <1>1 DEF Apart, Careful
  <2>8. /\ UndoState(undo, ts, lv, blocks, Strings(text), file) /\ v = AddUndoData(undo, type, i, z, o)
        /\ type \in LineTypes /\ z \in Nat /\ o \in Line
        /\ Undoes(NewRecord(type, i, z, o), Strings(text), Strings(n))
    BY <1>6, <1>7, <2>2, <2>3, <2>5, <2>6
  <2>9. Strings(n) \in Strung
    BY <1>7, StringsAre
  <2>10. \E us, ls : UndoState(v, us, ls, blocks, Strings(n), file)
    BY ONLY <2>7, <2>8, <2>9, <1>3, OneRecord
  <2>. QED  BY <2>2, <2>3, <2>10
<1>9. edits' \in 0 .. MaxEdits
  BY <1>1, EditorNow, Bounds DEF Fresh
<1>. QED  BY <1>1, <1>5, <1>7, <1>8, <1>9 DEF EditorIInv

\* editor.cpp, KEY_DEL: the next line is put behind line i.
LEMMA JoinKeeps ==
  ASSUME EditorIInv, NEW i \in 1 .. Len(text), NEW pos \in Positions, Join(i, pos)
  PROVE  EditorIInv'
<1>1. /\ i < Len(text) /\ Fresh /\ edits' = edits + 1
      /\ text' = RemoveAt([text EXCEPT ![i] =
                    [str |-> IF text[i+1].str = 0 THEN text[i].str ELSE edits',
                     eol |-> text[i+1].eol /\ text[i+1].str # 0]], i + 1)
      /\ undo' = Mark(AddUndoData(AddUndoData(Mark(undo, "begin"), "edit", i, pos, text[i]),
                                 "delstr", i + 1, 0, text[i+1]), "end")
      /\ modified' = TRUE /\ saved' = saved /\ blocks' = blocks
  BY DEF Join, EditOf
<1>2. /\ text \in Texts /\ text \in Seq(Line) /\ Len(text) \in Nat /\ text[i] \in Line
      /\ i \in Nat /\ blocks \in Nat /\ pos \in Nat
  BY EditorNow, EditorUndoAssumption DEF EditorIInv
<1>3. PICK e \in Nat : e = edits + 1
  BY EditorNow
<1>4. e \in Strs
  <2>1. e <= MaxEdits
    BY <1>1, <1>3, Bounds DEF Fresh
  <2>. QED  BY <2>1, NewStrings
<1>5. PICK j \in 1 .. Len(text) : j = i + 1
  BY <1>1, <1>2
<1>6. text[j] \in Line /\ j # i /\ j \in Nat
  BY <1>2, <1>5
<1>7. PICK l : l = [str |-> IF text[j].str = 0 THEN text[i].str ELSE e,
                    eol |-> text[j].eol /\ text[j].str # 0]
  OBVIOUS
<1>8. l \in Line
  <2>1. text[i].str \in Strs /\ text[j].eol \in BOOLEAN
    BY <1>2, <1>6 DEF Line, Strs
  <2>2. (IF text[j].str = 0 THEN text[i].str ELSE e) \in Strs
    BY <2>1, <1>4
  <2>3. (text[j].eol /\ text[j].str # 0) \in BOOLEAN
    OBVIOUS
  <2>. QED  BY <2>2, <2>3, <1>7 DEF Line, Strs
<1>9. PICK t : t = [text EXCEPT ![i] = l]
  OBVIOUS
<1>10. t \in Texts /\ Len(t) = Len(text) /\ Differs(Strings(text), Strings(t), i, text[i].str)
  BY <1>2, <1>8, <1>9, ReplaceOne
<1>11. t[j] = text[j]
  BY <1>2, <1>5, <1>6, <1>9
<1>12. PICK n : n = RemoveAt(t, j)
  OBVIOUS
<1>13. text' = n
  BY <1>1, <1>3, <1>5, <1>7, <1>9, <1>12
<1>14. n \in Texts /\ Deletes(Strings(t), Strings(n), j) /\ Strings(t)[j] = text[j].str
  <2>1. Len(t) > 1 /\ j \in 1 .. Len(t)
    BY <1>1, <1>2, <1>5, <1>10
  <2>2. n \in Texts /\ Deletes(Strings(t), Strings(n), j) /\ Strings(t)[j] = t[j].str
    BY <2>1, <1>10, <1>12, RemoveOne
  <2>. QED  BY <2>2, <1>11
<1>16. PICK ts, lv : UndoState(undo, ts, lv, blocks, Strings(text), Strings(saved))
  BY DEF EditorIInv
<1>19. \E us, ls : UndoState(undo', us, ls, blocks, Strings(n), Strings(saved))
  <2>1. PICK type \in LineTypes : type = "delstr"
    BY DEF LineTypes
  <2>2. PICK v : v = undo'
    OBVIOUS
  <2>3. PICK file : file = Strings(saved)
    OBVIOUS
  <2>5. PICK of \in Line : of = text[i]
    BY <1>2
  <2>6. PICK o \in Line : o = text[j]
    BY <1>6
  <2>7. Undoes(NewRecord(type, j, 0, o), Strings(t), Strings(n))
    BY <1>14, <2>1, <2>6 DEF Undoes, NewRecord
  <2>8. Undoes(NewRecord("edit", i, pos, of), Strings(text), Strings(t))
    BY <1>10, <2>5 DEF Undoes, NewRecord
  <2>9. v = Mark(AddUndoData(AddUndoData(Mark(undo, "begin"), "edit", i, pos, of), type, j, 0, o), "end")
    BY <1>1, <1>5, <2>1, <2>2, <2>5, <2>6
  <2>10. /\ UndoState(undo, ts, lv, blocks, Strings(text), file)
         /\ type \in LineTypes /\ type # "edit" /\ o \in Line /\ of \in Line
    BY <1>16, <2>1, <2>3, <2>5, <2>6
  <2>11. Strings(n) \in Strung /\ Strings(t) \in Strung
    BY <1>10, <1>14, StringsAre
  <2>12. \E us, ls : UndoState(v, us, ls, blocks, Strings(n), file)
    BY ONLY <2>7, <2>8, <2>9, <2>10, <2>11, <1>2, <1>6, TwoRecords
  <2>. QED  BY <2>2, <2>3, <2>12
<1>20. edits' \in 0 .. MaxEdits
  BY <1>1, EditorNow, Bounds, SMTT(30) DEF Fresh
<1>. QED  BY <1>1, <1>13, <1>14, <1>19, <1>20 DEF EditorIInv

\* editor.cpp: a mark is appended.
LEMMA Marked ==
  ASSUME NEW u, NEW ts, NEW lv, NEW d \in Nat, NEW file, text \in Texts,
         UndoState(u, ts, lv, d, Strings(text), file), NEW type \in {"begin", "end"},
         NEW w \in Nat, w = d + Weight(type), NEW v, v = Mark(u, type)
  PROVE  \E us, ls : UndoState(v, us, ls, w, Strings(text), file)
<1>1. type \in Types /\ type # "edit" /\ d + Weight(type) >= 0
  BY DEF Types
<1>2. Appendable(u, d, Strings(text), type)
  BY <1>1 DEF Appendable
<1>3. NoLine \in Line /\ 0 \in Nat
  BY Bounds DEF NoLine, Line
<1>4. Undoes(NewRecord(type, 0, 0, NoLine), Strings(text), Strings(text))
  BY DEF Undoes, NewRecord
<1>5. Strings(text) \in Strung
  BY StringsAre
<1>6. v = AddUndoData(u, type, 0, 0, NoLine)
  BY DEF Mark
<1>7. \E us, ls : EndState(v, us, ls, w, Strings(text), file)
  BY <1>1, <1>2, <1>3, <1>4, <1>5, <1>6, Adds
<1>. QED  BY <1>7 DEF EndState

\* editor.cpp: a block is begun.
LEMMA BeginBlockKeeps == EditorIInv /\ BeginBlock => EditorIInv'
<1>. SUFFICES ASSUME EditorIInv, BeginBlock PROVE EditorIInv'
  OBVIOUS
<1>1. /\ blocks < MaxBlocks /\ blocks' = blocks + 1 /\ undo' = Mark(undo, "begin")
      /\ text' = text /\ saved' = saved /\ modified' = modified /\ edits' = edits
  BY DEF BeginBlock
<1>2. PICK ts, lv : UndoState(undo, ts, lv, blocks, Strings(text), Strings(saved))
  BY DEF EditorIInv
<1>3. blocks \in Nat /\ text \in Texts
  BY EditorNow DEF EditorIInv
<1>4. PICK w \in Nat : w = blocks + Weight("begin") /\ w = blocks + 1
  BY <1>3 DEF Weight
<1>5. \E us, ls : UndoState(undo', us, ls, w, Strings(text), Strings(saved))
  BY <1>1, <1>2, <1>3, <1>4, Marked
<1>6. blocks' \in 0 .. MaxBlocks /\ blocks' = w
  BY <1>1, <1>3, <1>4, Bounds
<1>. QED  BY <1>1, <1>5, <1>6 DEF EditorIInv

\* editor.cpp: a block is ended.
LEMMA EndBlockKeeps == EditorIInv /\ EndBlock => EditorIInv'
<1>. SUFFICES ASSUME EditorIInv, EndBlock PROVE EditorIInv'
  OBVIOUS
<1>1. /\ blocks > 0 /\ blocks' = blocks - 1 /\ undo' = Mark(undo, "end")
      /\ text' = text /\ saved' = saved /\ modified' = modified /\ edits' = edits
  BY DEF EndBlock
<1>2. PICK ts, lv : UndoState(undo, ts, lv, blocks, Strings(text), Strings(saved))
  BY DEF EditorIInv
<1>3. blocks \in Nat /\ text \in Texts /\ blocks \in 0 .. MaxBlocks
  BY EditorNow DEF EditorIInv
<1>4. PICK w \in Nat : w = blocks + Weight("end") /\ w = blocks - 1
  BY <1>1, <1>3 DEF Weight
<1>5. \E us, ls : UndoState(undo', us, ls, w, Strings(text), Strings(saved))
  BY <1>1, <1>2, <1>3, <1>4, Marked
<1>6. blocks' \in 0 .. MaxBlocks /\ blocks' = w
  BY <1>1, <1>3, <1>4, Bounds
<1>. QED  BY <1>1, <1>5, <1>6 DEF EditorIInv

\* editor.cpp, Undo: records are played, and the editor is unmodified at the saved position.
LEMMA ReplayKeeps ==
  ASSUME EditorIInv, NEW step \in Steps, NEW s, s = (IF step = 1 THEN undo.pos + 1 ELSE undo.pos),
         NEW byKey \in BOOLEAN, UndoOrRedo(s, step, byKey)
  PROVE  EditorIInv'
<1>1. blocks = 0 /\ s \in 1 .. Len(undo.list) /\ saved' = saved /\ blocks' = blocks /\ edits' = edits
  BY DEF UndoOrRedo
<1>2. PICK r : r = Replayed(s, step)
  OBVIOUS
<1>3. PICK f \in BOOLEAN : f = (undo.fresh \/ byKey)
  OBVIOUS
<1>4. text' = r.text /\ undo' = [undo EXCEPT !.list = r.list, !.pos = r.pos, !.fresh = f]
  BY <1>2, <1>3 DEF UndoOrRedo
<1>5. modified' = (undo.lost \/ undo'.pos # undo.save)
  BY DEF UndoOrRedo
<1>6. text \in Texts /\ saved \in Texts /\ undo \in UndoTypes
  BY EditorNow DEF EditorIInv
<1>7. PICK ts, lv : UndoState(undo, ts, lv, blocks, Strings(text), Strings(saved))
  BY DEF EditorIInv
<1>8. PICK file : file = Strings(saved)
  OBVIOUS
<1>9. UndoState(undo, ts, lv, 0, Strings(text), file)
  BY <1>1, <1>7, <1>8
<1>10. PICK v : v = [undo EXCEPT !.list = r.list, !.pos = r.pos, !.fresh = f]
  OBVIOUS
<1>11. r.text \in Texts /\ UndoState(v, ts, lv, 0, Strings(r.text), file)
  BY <1>1, <1>2, <1>6, <1>9, <1>10, ReplayState
<1>12. v.save = undo.save /\ (v.lost <=> undo.lost) /\ undo' = v
  BY <1>4, <1>6, <1>10 DEF UndoTypes
<1>13. ASSUME Careful, ~modified' PROVE Strings(r.text) = file
  <2>1. ~v.lost /\ v.pos = v.save
    BY <1>5, <1>12, <1>13
  <2>2. ts[v.save] = file /\ ts[v.pos] = Strings(r.text)
    BY <2>1, <1>11, <1>13 DEF UndoState, SaveFound
  <2>. QED  BY <2>1, <2>2
<1>14. modified' \in BOOLEAN
  BY <1>5
<1>15. blocks \in 0 .. MaxBlocks /\ edits \in 0 .. MaxEdits
  BY DEF EditorIInv
<1>16. \E us, ls : UndoState(undo', us, ls, blocks', Strings(text'), Strings(saved'))
  BY <1>1, <1>4, <1>8, <1>11, <1>12
<1>17. Careful /\ ~modified' => Strings(text') = Strings(saved')
  BY <1>1, <1>4, <1>8, <1>13
<1>. QED  BY <1>1, <1>4, <1>6, <1>11, <1>14, <1>15, <1>16, <1>17 DEF EditorIInv

\* fileedit.cpp, SaveFile: the saved position is where the text is.
LEMMA SaveFileKeeps ==
  ASSUME EditorIInv, NEW succeeds \in BOOLEAN, SaveFile(succeeds)
  PROVE  EditorIInv'
<1>1. /\ blocks = 0 /\ undo' = [undo EXCEPT !.save = undo.pos, !.lost = FALSE]
      /\ \/ succeeds /\ saved' = text /\ modified' = FALSE
         \/ ~succeeds /\ SavesFail /\ saved' = saved /\ modified' = modified
      /\ text' = text /\ blocks' = blocks /\ edits' = edits
  BY DEF SaveFile
<1>2. /\ text \in Texts /\ saved \in Texts /\ modified \in BOOLEAN /\ undo \in UndoTypes
      /\ blocks \in 0 .. MaxBlocks /\ edits \in 0 .. MaxEdits
  BY EditorNow DEF EditorIInv
<1>3. PICK ts, lv : UndoState(undo, ts, lv, 0, Strings(text), Strings(saved))
  BY <1>1 DEF EditorIInv
<1>4. PICK p \in Nat : p = undo.pos
  BY <1>2 DEF UndoTypes
<1>5. PICK v : v = [undo EXCEPT !.save = p, !.lost = FALSE]
  OBVIOUS
<1>6. /\ v \in UndoTypes /\ v.list = undo.list /\ v.pos = p /\ v.save = p /\ v.skip = undo.skip
      /\ undo' = v
  BY <1>1, <1>2, <1>4, <1>5 DEF UndoTypes
<1>7. /\ UndoTyped(undo) /\ Leveled(undo.list, lv) /\ Above(undo.list, lv) /\ Chained(undo.list, p, ts)
      /\ Recalls(undo.list, lv, ts) /\ Balanced(undo, lv, 0) /\ ts[p] = Strings(text)
  BY <1>3, <1>4 DEF UndoState
<1>8. UndoTyped(v)
  BY <1>4, <1>6, <1>7 DEF UndoTyped
<1>9. Balanced(v, lv, 0)
  BY <1>4, <1>6, <1>7 DEF Balanced
<1>10. lv[p] = 0
  BY <1>3, <1>4, LevelsOf
<1>11. ASSUME NEW file, Careful => file = Strings(text) PROVE UndoState(v, ts, lv, 0, Strings(text), file)
  <2>1. SaveFound(v, lv, ts, file)
    BY <1>6, <1>7, <1>10, <1>11 DEF SaveFound
  <2>. QED  BY <2>1, <1>6, <1>7, <1>8, <1>9 DEF UndoState
<1>12. Careful => Strings(saved') = Strings(text)
  BY <1>1 DEF Careful
<1>13. saved' \in Texts /\ modified' \in BOOLEAN
  BY <1>1, <1>2
<1>14. \E us, ls : UndoState(undo', us, ls, blocks', Strings(text'), Strings(saved'))
  <2>1. PICK file : file = Strings(saved')
    OBVIOUS
  <2>2. UndoState(v, ts, lv, 0, Strings(text), file)
    BY <2>1, <1>11, <1>12
  <2>. QED  BY <2>1, <2>2, <1>1, <1>6
<1>15. Careful /\ ~modified' => Strings(text') = Strings(saved')
  BY <1>1, <1>12
<1>. QED  BY <1>1, <1>2, <1>13, <1>14, <1>15 DEF EditorIInv

\* Every step of the editor keeps the invariant.
LEMMA EditorKeeps == EditorIInv /\ [EditorNext]_editorVars => EditorIInv'
<1>. SUFFICES ASSUME EditorIInv, [EditorNext]_editorVars PROVE EditorIInv'
  OBVIOUS
<1>1. CASE UNCHANGED editorVars
  BY <1>1 DEF editorVars, EditorIInv
<1>2. ASSUME NEW i \in 1 .. Len(text), NEW pos \in Positions,
             ChangeLine(i, pos) \/ ExpandTabs(i, pos) \/ Split(i, pos) \/ Join(i, pos)
      PROVE  EditorIInv'
  BY <1>2, ChangeLineKeeps, SplitKeeps, JoinKeeps
<1>3. ASSUME NEW i \in 1 .. Len(text), EnterAtEnd(i) PROVE EditorIInv'
  BY <1>3, EnterKeeps
<1>4. ASSUME NEW i \in 1 .. Len(text), NEW deleteLast \in BOOLEAN, DeleteString(i, deleteLast)
      PROVE  EditorIInv'
  BY <1>4, DeleteKeeps
<1>5. CASE MoveCursor \/ BeginBlock \/ EndBlock
  BY <1>5, MoveCursorKeeps, BeginBlockKeeps, EndBlockKeeps
<1>6. ASSUME NEW byKey \in BOOLEAN, Undo(byKey) PROVE EditorIInv'
  <2>1. PICK step \in Steps : step = -1
    BY DEF Steps
  <2>2. PICK s : s = undo.pos
    OBVIOUS
  <2>3. UndoOrRedo(s, step, byKey) /\ s = (IF step = 1 THEN undo.pos + 1 ELSE undo.pos)
    BY <1>6, <2>1, <2>2 DEF Undo
  <2>. QED  BY <2>3, ReplayKeeps
<1>7. ASSUME NEW byKey \in BOOLEAN, Redo(byKey) PROVE EditorIInv'
  <2>1. PICK step \in Steps : step = 1
    BY DEF Steps
  <2>2. PICK s : s = undo.pos + 1
    OBVIOUS
  <2>3. UndoOrRedo(s, step, byKey) /\ s = (IF step = 1 THEN undo.pos + 1 ELSE undo.pos)
    BY <1>7, <2>1, <2>2 DEF Redo
  <2>. QED  BY <2>3, ReplayKeeps
<1>8. ASSUME NEW succeeds \in BOOLEAN, SaveFile(succeeds) PROVE EditorIInv'
  BY <1>8, SaveFileKeeps
<1>. QED  BY <1>1, <1>2, <1>3, <1>4, <1>5, <1>6, <1>7, <1>8 DEF EditorNext

\* What the invariant says of types
LEMMA EditorTyped == EditorIInv => EditorTypeOK
<1>. SUFFICES ASSUME EditorIInv PROVE EditorTypeOK
  OBVIOUS
<1>1. PICK ts, lv : UndoState(undo, ts, lv, blocks, Strings(text), Strings(saved))
  BY DEF EditorIInv
<1>2. /\ undo \in UndoTypes /\ undo.pos <= Len(undo.list) /\ undo.save <= Len(undo.list)
      /\ UndoSize > 0 => Len(undo.list) <= UndoSize
  BY <1>1 DEF UndoState, UndoTyped
<1>3. /\ text \in Seq(Line) /\ Len(text) \in 1 .. MaxLines /\ saved \in Seq(Line) /\ modified \in BOOLEAN
      /\ blocks \in 0 .. MaxBlocks /\ edits \in 0 .. MaxEdits
  BY DEF EditorIInv, Texts
<1>4. undo.list \in Seq(Record) /\ undo.pos \in Nat /\ undo.save \in Nat
  BY <1>2 DEF UndoTypes
<1>5. {undo.pos, undo.save} \subseteq 0 .. Len(undo.list)
  BY <1>2, <1>4
<1>. QED  BY <1>2, <1>3, <1>5 DEF EditorTypeOK, UndoTypes

\* With records undone, the lines are those of the time the first of them was appended.
LEMMA EditorRestores == EditorIInv => UndoRestoresLines
<1>. SUFFICES ASSUME EditorIInv, undo.pos < Len(undo.list)
              PROVE  Strings(text) = Strings(undo.list[undo.pos + 1].was)
  BY DEF UndoRestoresLines
<1>1. PICK ts, lv : UndoState(undo, ts, lv, blocks, Strings(text), Strings(saved))
  BY DEF EditorIInv
<1>2. blocks = 0
  <2>1. undo.pos \in Nat /\ Len(undo.list) \in Nat /\ blocks \in Nat
    BY EditorNow DEF UndoTypes
  <2>. QED  BY <2>1, <1>1 DEF UndoState, Balanced
<1>3. UndoState(undo, ts, lv, 0, Strings(text), Strings(saved))
  BY <1>1, <1>2
<1>4. undo.pos \in 0 .. Len(undo.list) /\ lv[undo.pos] = 0
  BY <1>3, LevelsOf
<1>5. PICK k \in 1 .. Len(undo.list) : k = undo.pos + 1
  BY <1>4
<1>6. k - 1 = undo.pos
  BY <1>4, <1>5
<1>7. Strings(undo.list[k].was) = ts[k-1] /\ ts[undo.pos] = Strings(text)
  BY <1>1, <1>4, <1>6 DEF UndoState, Recalls
<1>. QED  BY <1>5, <1>6, <1>7

\* Blocks stay whole.
LEMMA EditorWhole == EditorIInv => BlocksStayWhole
<1>. SUFFICES ASSUME EditorIInv PROVE BlocksStayWhole
  OBVIOUS
<1>1. PICK ts, lv : UndoState(undo, ts, lv, blocks, Strings(text), Strings(saved))
  BY DEF EditorIInv
<1>2. undo.list \in Seq(Record) /\ undo.pos \in 0 .. Len(undo.list) /\ Len(undo.list) \in 0 .. Len(undo.list)
  BY <1>1 DEF UndoState, UndoTyped, UndoTypes
<1>3. Leveled(undo.list, lv) /\ Above(undo.list, lv)
  BY <1>1 DEF UndoState
<1>4. \A k \in 0 .. Len(undo.list) : Opened(k) = lv[k]
  BY <1>2, <1>3, OpenedIs
<1>5. \A k \in 1 .. Len(undo.list) : Opened(k) >= 0
  BY <1>3, <1>4 DEF Above
<1>6. ASSUME blocks = 0 PROVE undo.skip = 0 /\ Opened(undo.pos) = 0 /\ Opened(Len(undo.list)) = 0
  <2>1. UndoState(undo, ts, lv, 0, Strings(text), Strings(saved))
    BY <1>1, <1>6
  <2>2. undo.skip = 0 /\ lv[undo.pos] = 0 /\ lv[Len(undo.list)] = 0
    BY <2>1, LevelsOf
  <2>. QED  BY <2>2, <1>2, <1>4
<1>. QED  BY <1>5, <1>6 DEF BlocksStayWhole

\* The editor on its own
THEOREM EditorInvariant == EditorSpec => []EditorIInv
  BY EditorStarts, EditorKeeps, PTL DEF EditorSpec

\* editor.cpp: types, and no more records than EdOpt.UndoSize allows
THEOREM EditorTypeCorrect == EditorSpec => []EditorTypeOK
  BY EditorInvariant, EditorTyped, PTL

\* editor.cpp, Undo: undo and redo lead through the lines that there were.
THEOREM RestoresLines == EditorSpec => []UndoRestoresLines
  BY EditorInvariant, EditorRestores, PTL

\* editor.cpp, AddUndoData: the records of one command go, and are played, together.
THEOREM StayWhole == EditorSpec => []BlocksStayWhole
  BY EditorInvariant, EditorWhole, PTL

\* fileedit.cpp: if the cursor moves after a save, saves succeed and plugins leave tabs alone, an
\* editor that is not modified holds the lines of its file.
THEOREM UnmodifiedIsSaved ==
  ASSUME CursorMoves, ~SavesFail, ~PluginsExpand
  PROVE  EditorSpec => []NotModifiedIsSaved
<1>1. EditorIInv => NotModifiedIsSaved
  BY DEF EditorIInv, NotModifiedIsSaved, Careful
<1>. QED  BY <1>1, EditorInvariant, PTL
=============================================================================
