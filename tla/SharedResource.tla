---------------------------- MODULE SharedResource ----------------------------
(***************************************************************************)
(* The lock files of utils/src/SharedResource.cpp as several processes see *)
(* them: a directory of files by id, open descriptions of these files, and *)
(* flock on them.  A file that is unlinked lives on for the descriptions   *)
(* that have it open, and its name may get another file.  The state of all *)
(* that is a record s:                                                     *)
(*   s.dir     the file of each id, or NoFile                              *)
(*   s.fd      the file each description has open, or NoFile               *)
(*   s.shared  the descriptions that hold LOCK_SH on their file            *)
(* (LOCK_EX is only tried, and given up at once.)                          *)
(***************************************************************************)
CONSTANTS
  Ids,     \* of the resources
  Descs,   \* of the open descriptions: one for each object
  Files,   \* whatever may be a file
  NoFile   \* is none of them

\* Only what is open is locked
Resources ==
  {s \in [dir : [Ids -> Files \cup {NoFile}],
          fd : [Descs -> Files \cup {NoFile}],
          shared : SUBSET Descs] : \A d \in s.shared : s.fd[d] # NoFile}

NoResources == [dir |-> [i \in Ids |-> NoFile], fd |-> [d \in Descs |-> NoFile], shared |-> {}]

Used(s) == {s.dir[i] : i \in Ids} \cup {s.fd[d] : d \in Descs}

\* open with O_CREAT gives one of these
Opened(s, i) == IF s.dir[i] # NoFile THEN {s.dir[i]} ELSE Files \ Used(s)

Open(s, d, i, f) == [s EXCEPT !.dir[i] = f, !.fd[d] = f]

\* The last descriptor of a description is closed
Close(s, d) == [s EXCEPT !.fd[d] = NoFile, !.shared = @ \ {d}]

LockRead(s, d) == [s EXCEPT !.shared = @ \cup {d}]

UnlockRead(s, d) == [s EXCEPT !.shared = @ \ {d}]

\* LOCK_EX | LOCK_NB succeeds: nobody else has locked this file
MayLockWrite(s, d, f) == \A e \in s.shared \ {d} : s.fd[e] # f

\* sEnum
Enum(s) == {i \in Ids : s.dir[i] # NoFile}

\* sCleanup
Unlink(s, i) == [s EXCEPT !.dir[i] = NoFile]
===============================================================================
