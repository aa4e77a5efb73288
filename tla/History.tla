-------------------------------- MODULE History --------------------------------
(***************************************************************************)
(* The histories of commands, folders, viewed files and edit lines         *)
(* (far/src/hist/history.cpp).  Each running far2l keeps a list in memory; *)
(* all of them share a file, which is read again when its stat has changed *)
(* and is written as a whole.  A dialog's edit line has its list read each *)
(* time, the other lists live as long as far2l.                            *)
(*                                                                         *)
(* A list is a sequence, the newest record last.  A definition right       *)
(* before another one and named after it is a wrong version of it that     *)
(* nothing uses.                                                           *)
(***************************************************************************)
EXTENDS Integers, Sequences, SequencesExt, FiniteSets

CONSTANTS
  Instances,  \* running far2l
  Names,      \* what is remembered
  MaxCount,   \* mHistoryCount
  Dialog,     \* HISTORYTYPE_DIALOG
  Forbids     \* plugins' folders are added with SaveForbid

ASSUME HistoryAssumption ==
  /\ MaxCount \in Nat \ {0}
  /\ Dialog \in BOOLEAN /\ Forbids \in BOOLEAN

VARIABLES
  file,     \* the list in the file
  list,     \* mHistoryList of each instance
  synced,   \* the instances whose mLoadedStat is the stat of the file
  doing,    \* what each instance is doing
  kept      \* history of the model: what was added, not deleted and not pushed out

historyVars == <<file, list, synced, doing, kept>>

Records == [name : Names, lock : BOOLEAN]

NamesOf(l) == {r.name : r \in ToSet(l)}

Lists == {l \in Seq(Records) : Cardinality(NamesOf(l)) = Len(l)}

\* save, stat: in SaveHistory, before the file is replaced and before its stat is taken;
\* menu...: the same with the list of the history open
HistoryTypeOK ==
  /\ file \in Lists
  /\ list \in [Instances -> Lists]
  /\ synced \subseteq Instances
  /\ doing \in [Instances -> {"idle", "save", "stat", "menu", "menuSave", "menuStat"}]
  /\ kept \subseteq Names

HistoryInit ==
  /\ file = <<>> /\ list = [i \in Instances |-> <<>>]
  /\ synced = Instances
  /\ doing = [i \in Instances |-> "idle"]
  /\ kept = {}

-----------------------------------------------------------------------------
(* Lists                                                                   *)

Newest(l, n) ==
  SubSeq(l, IF Len(l) > n THEN Len(l) - n + 1 ELSE 1, Len(l))

\* The records of l that are in S, in their order
Where(l, S) ==
  LET w[k \in 0 .. Len(l)] ==
        IF k = 0 THEN <<>> ELSE IF l[k] \in S THEN Append(w[k-1], l[k]) ELSE w[k-1]
  IN  w[Len(l)]

Unlocked(l) == Where(l, [name : Names, lock : {FALSE}])
Locked(l)   == Where(l, [name : Names, lock : {TRUE}])

\* The oldest records without a lock make room for one more
Trimmed(l) ==
  LET excess  == Len(l) - (MaxCount - 1)
      victims == {Unlocked(l)[k] : k \in {j \in DOMAIN Unlocked(l) : j <= excess}}
  IN  Where(l, Records \ victims)

Without(l, names) == Where(l, [name : Names \ names, lock : BOOLEAN])

\* AddToHistoryLocal: a record of that name gives its lock to the new one
Added(l, n) ==
  Append(Trimmed(Without(l, {n})),
         [name |-> n, lock |-> \E r \in ToSet(l) : r.name = n /\ r.lock])

\* What SaveHistory makes of the list: in dialogs the locked ones come first
Ordered(l) == IF Dialog THEN Unlocked(l) \o Locked(l) ELSE l

-----------------------------------------------------------------------------
(* Reading and writing                                                     *)

\* What is pushed out of a list l that becomes m
PushedOut(l, m) == NamesOf(l) \ NamesOf(m)

\* ReadHistory: at most MaxCount records
Read == Newest(file, MaxCount)

\* SyncChanges, or the constructor in a dialog.  The stat is not kept if nothing is saved
Reads(i) == Dialog \/ i \notin synced

Synced(i) == IF Reads(i) THEN Read ELSE list[i]

\* What is not pushed out by that
StillKept(i) == IF Reads(i) THEN kept \ PushedOut(file, Read) ELSE kept

StatSeen(i) == IF file = <<>> THEN synced ELSE synced \cup {i}

Moves(i, from, to) == doing[i] = from /\ doing' = [doing EXCEPT ![i] = to]

Holds(i, l) == list' = [list EXCEPT ![i] = l]

\* SaveHistory up to the point where the file is replaced
Save(i) ==
  /\ \/ Moves(i, "save", IF list[i] = <<>> THEN "idle" ELSE "stat")
     \/ Moves(i, "menuSave", IF list[i] = <<>> THEN "menu" ELSE "menuStat")
  /\ file' = Ordered(list[i])
  /\ Holds(i, Ordered(list[i]))
  /\ synced' = {}
  /\ UNCHANGED kept

\* mLoadedStat is the stat of the file as it is now
Stat(i) ==
  /\ Moves(i, "stat", "idle") \/ Moves(i, "menuStat", "menu")
  /\ synced' = synced \cup {i}
  /\ UNCHANGED <<file, list, kept>>

-----------------------------------------------------------------------------
(* Adding and deleting                                                     *)

AddUnsaved(i, n) ==
  LET old == Synced(i)
      new == Added(old, n)
  IN  /\ doing[i] = "idle"
      /\ Holds(i, new)
      /\ synced' = StatSeen(i)
      /\ kept' = (StillKept(i) \ PushedOut(old, new)) \cup {n}
      /\ UNCHANGED <<file, doing>>

\* AddToHistory
Add(i, n) ==
  LET old == Synced(i)
      new == Added(old, n)
  IN  /\ Moves(i, "idle", "save")
      /\ Holds(i, new)
      /\ synced' = StatSeen(i)
      /\ kept' = (StillKept(i) \ PushedOut(old, new)) \cup {n}
      /\ UNCHANGED file

\* AddToHistory with SaveForbid
AddForbidden(i, n) ==
  LET old == Synced(i)
      new == Added(old, n)
  IN  /\ Forbids /\ doing[i] = "idle"
      /\ Holds(i, new)
      /\ synced' = StatSeen(i)
      /\ kept' = StillKept(i) \ PushedOut(old, new)
      /\ UNCHANGED <<file, doing>>

\* DeleteMatching
DeleteMatching(i, n) ==
  /\ synced' = StatSeen(i)
  /\ \/ /\ n \in NamesOf(Unlocked(Synced(i)))
        /\ Moves(i, "idle", "save")
        /\ Holds(i, Without(Synced(i), {n}))
        /\ kept' = StillKept(i) \ {n}
     \/ /\ n \notin NamesOf(Unlocked(Synced(i)))
        /\ Moves(i, "idle", "idle")
        /\ Holds(i, Synced(i))
        /\ kept' = StillKept(i)
  /\ UNCHANGED file

-----------------------------------------------------------------------------
(* ProcessMenu                                                             *)

OpenMenu(i) ==
  /\ Dialog => Synced(i) # <<>>
  /\ Moves(i, "idle", "menu")
  /\ Holds(i, Synced(i))
  /\ synced' = StatSeen(i)
  /\ kept' = StillKept(i)
  /\ UNCHANGED file

CloseMenu(i) ==
  /\ Moves(i, "menu", "idle")
  /\ UNCHANGED <<file, list, synced, kept>>

\* Ins
ToggleLock(i, n) ==
  /\ Moves(i, "menu", "menuSave")
  /\ n \in NamesOf(list[i])
  /\ LET at == CHOOSE k \in DOMAIN list[i] : list[i][k].name = n
     IN  list' = [list EXCEPT ![i][at].lock = ~@]
  /\ UNCHANGED <<file, synced, kept>>

Gone(i, names) ==
  /\ Moves(i, "menu", "menuSave")
  /\ Holds(i, Without(list[i], names))
  /\ kept' = kept \ names
  /\ UNCHANGED <<file, synced>>

\* Shift-Del
DeleteItem(i, n) == n \in NamesOf(Unlocked(list[i])) /\ Gone(i, {n})

\* Del
Clear(i) == list[i] # <<>> /\ Gone(i, NamesOf(Unlocked(list[i])))

\* Ctrl-R: the files and folders that are not found
RemoveNonexistent(i) ==
  /\ ~Dialog
  /\ \E names \in (SUBSET NamesOf(Unlocked(list[i]))) \ {{}} : Gone(i, names)

-----------------------------------------------------------------------------
\* far2l is left, or dies, and is started again: the constructor reads the file, which
\* may have been emptied or never written
Restart(i) ==
  /\ doing[i] \in {"idle", "menu"}
  /\ doing' = [doing EXCEPT ![i] = "idle"]
  /\ Holds(i, Read)
  /\ \/ synced' = synced \cup {i}
     \/ file = <<>> /\ synced' = synced \ {i}
  /\ kept' = kept \ PushedOut(file, Read)
  /\ UNCHANGED file

HistoryNext ==
  \E i \in Instances :
    \/ Save(i) \/ Stat(i)
    \/ OpenMenu(i) \/ CloseMenu(i) \/ Clear(i) \/ RemoveNonexistent(i) \/ Restart(i)
    \/ \E n \in Names :
         Add(i, n) \/ AddForbidden(i, n) \/ DeleteMatching(i, n)
         \/ ToggleLock(i, n) \/ DeleteItem(i, n)

HistorySpec == HistoryInit /\ [][HistoryNext]_historyVars

-----------------------------------------------------------------------------
(* Properties                                                              *)

Saved == \A i \in Instances : doing[i] \in {"idle", "menu", "stat", "menuStat"}

\* "The commands history shows the list of previously executed commands": what was added
\* is in the file until it is deleted or pushed out, whatever else is done.
KeptStay == Saved => kept \subseteq NamesOf(file)
=============================================================================
