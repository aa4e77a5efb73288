-------------------------------- MODULE XferFile -------------------------------
(***************************************************************************)
(* NetRocks/src/Op/OpXfer.cpp: the transfer of one regular file, which may *)
(* exist at the destination, by a loop that resumes after errors, and the  *)
(* deletion of the source when it is moved.  The contents of the           *)
(* destination are units that come from the source or are its own.         *)
(*                                                                         *)
(* Every call of a host may break its connection, which the host's         *)
(* ReInitialize makes anew; a write is reported by the next call on the    *)
(* writer (HostRemoteBroker::OnFilePut).                                   *)
(*                                                                         *)
(* A definition right before another one and named after it is a wrong     *)
(* version of it that nothing uses.                                        *)
(***************************************************************************)
EXTENDS Integers, Sequences, FiniteSetsExt

CONSTANTS
  Sizes,        \* lengths of files, in units
  BufSize,      \* _io_buf
  Kinds,        \* "copy", "move", "onsite": a move that may be a rename
  UserAnswers,      \* what the user says of an error
  MaxBreaks,    \* bound: connections broken
  Existing,     \* whether there is a file at the destination
  FreshBreaks,  \* one may break before the destination has been opened
  ShortReads,   \* Read may return less than there is
  Aborts        \* the user may abort

ASSUME XferAssumption ==
  /\ Sizes \subseteq Nat /\ \E top \in Sizes : \A n \in Sizes : n <= top
  /\ BufSize \in Nat /\ BufSize > 1
  /\ Kinds \subseteq {"copy", "move", "onsite"} /\ Kinds # {}
  /\ UserAnswers \subseteq {"retry", "skip", "cancel"}
  /\ MaxBreaks \in Nat
  /\ Existing \subseteq BOOLEAN /\ Existing # {}
  /\ {FreshBreaks, ShortReads, Aborts} \subseteq BOOLEAN

VARIABLES
  kind,
  size,           \* of the source
  gone,           \* the source has been deleted or renamed
  dst,            \* the destination: a sequence of "src" and "own", or Absent
  opened,         \* FilePut has made or truncated it, or it was accepted as a prefix
  info_size,      \* info.size: first as the source was listed
  file_complete,
  pos,            \* the reader's position
  writer,         \* [pos, piece: units written and not reported yet]
  indicted,
  broken,         \* hosts with a broken connection
  breaks,
  xferAborting,
  xpc,
  result

xferVars == <<kind, size, gone, dst, opened, info_size, file_complete, pos, writer,
          indicted, broken, breaks, xferAborting, xpc, result>>

what == <<kind, size>>

Absent == <<"absent">>

XferPlaces == {"inspect", "decide", "rename", "reinit", "getsize", "get", "put", "read",
           "srcsize", "complete", "write", "fast", "count", "fastcount", "ask",
           "times", "delete", "done"}

XferTop == Max(Sizes)

XferTypeOK ==
  /\ kind \in Kinds /\ size \in Sizes /\ gone \in BOOLEAN
  /\ dst = Absent \/ (dst \in Seq({"src", "own"}) /\ Len(dst) <= XferTop)
  /\ opened \in BOOLEAN
  /\ info_size \in 0..XferTop /\ file_complete \in 0..XferTop /\ pos \in 0..XferTop
  /\ writer \in [pos : 0..XferTop, piece : 0..BufSize]
  /\ indicted \in {"null", "base", "dst"}
  /\ broken \subseteq {"base", "dst"} /\ breaks \in 0..MaxBreaks
  /\ xferAborting \in BOOLEAN
  /\ xpc \in XferPlaces
  /\ result \in {"none", "copied", "skipped", "aborted", "failed", "renamed"}

NoWriter == [pos |-> 0, piece |-> 0]

\* The source may have another size now than when it was listed
XferInit ==
  /\ kind \in Kinds
  /\ size \in Sizes /\ info_size \in Sizes
  /\ \/ FALSE \in Existing /\ dst = Absent
     \/ TRUE \in Existing /\ \E n \in Sizes : dst = [i \in 1..n |-> "own"]
  /\ gone = FALSE /\ opened = FALSE
  /\ file_complete = 0 /\ pos = 0 /\ writer = NoWriter
  /\ indicted = "null" /\ broken = {} /\ breaks = 0
  /\ xferAborting = FALSE /\ xpc = "inspect" /\ result = "none"

XferGo(place) == xpc' = place /\ UNCHANGED result

End(r) == xpc' = "done" /\ result' = r

-----------------------------------------------------------------------------
(* Calls of hosts                                                          *)

\* The call of h goes through
Works(h) == h \notin broken /\ UNCHANGED <<broken, breaks>>

\* or throws, for its connection is broken
Breaks(h) ==
  \/ h \in broken /\ UNCHANGED <<broken, breaks>>
  \/ /\ breaks < MaxBreaks /\ (opened \/ FreshBreaks)
     /\ broken' = broken \cup {h} /\ breaks' = breaks + 1

\* What a write of n units leaves; a gap reads as something else
PutUnits(f, at, n) ==
  [i \in 1..Max({Len(f), at + n}) |->
     IF i \in at + 1..at + n THEN "src" ELSE IF i \in DOMAIN f THEN f[i] ELSE "own"]

\* The writer is destroyed: of what it has not reported, and of what was being
\* sent to it, any part may be written or lost
Closed(sent) ==
  /\ \E n \in 0..writer.piece + sent : dst' = IF n = 0 THEN dst ELSE PutUnits(dst, writer.pos, n)
  /\ writer' = NoWriter
  /\ UNCHANGED opened

\* The catch of FileCopyLoop
Throw == Closed(0) /\ XferGo("ask")

\* ProgressStateUpdate: throws AbortError
Abortable(step) ==
  IF xferAborting THEN End("aborted") /\ Closed(0) /\ UNCHANGED file_complete ELSE step

-----------------------------------------------------------------------------
(* Transfer: before the copying                                            *)

\* GetInformation of the destination: any exception means that it does not exist
Inspect ==
  /\ xpc = "inspect"
  /\ \/ Works("dst") /\ XferGo(IF dst = Absent THEN "rename" ELSE "decide")
     \/ Breaks("dst") /\ XferGo("rename")
  /\ UNCHANGED <<what, gone, dst, opened, info_size, file_complete, pos, writer, indicted, xferAborting>>

Overwrite == XferGo("rename") /\ UNCHANGED <<dst, opened, file_complete>>

\* The user vouches for what is there
Resume ==
  IF Len(dst) < info_size
    THEN /\ XferGo("rename")
         /\ file_complete' = Len(dst)
         /\ dst' = [i \in DOMAIN dst |-> "src"]
         /\ opened' = (dst # <<>>)
    ELSE End("skipped") /\ UNCHANGED <<dst, opened, file_complete>>

DifferentName == XferGo("rename") /\ dst' = Absent /\ UNCHANGED <<opened, file_complete>>

\* XOA_SKIP, XOA_CANCEL, or a newer file is not overwritten
LeaveXfer == End("skipped") /\ UNCHANGED <<dst, opened, file_complete>>

Decide ==
  /\ xpc = "decide"
  /\ Overwrite \/ Resume \/ DifferentName \/ LeaveXfer
  /\ UNCHANGED <<what, gone, info_size, pos, writer, indicted, broken, breaks, xferAborting>>

\* On-site move; one whose reply is lost may have been carried out
Rename ==
  /\ xpc = "rename"
  /\ \/ /\ kind = "onsite" /\ Works("base")
        /\ gone' = TRUE /\ dst' = [i \in 1..size |-> "src"]
        /\ End("renamed")
     \/ /\ kind = "onsite" /\ Breaks("base")
        /\ gone' = TRUE /\ dst' = [i \in 1..size |-> "src"]
        /\ XferGo("get")
     \/ /\ Works("base") \/ (kind = "onsite" /\ Breaks("base"))
        /\ UNCHANGED <<gone, dst>>
        /\ XferGo("get")
  /\ UNCHANGED <<what, opened, info_size, file_complete, pos, writer, indicted, xferAborting>>

-----------------------------------------------------------------------------
(* FileCopyLoop                                                            *)

ReInitializeBase ==
  /\ xpc = "reinit"
  /\ broken' = broken \ {"base"} /\ indicted' = "dst" /\ XferGo("getsize")
  /\ UNCHANGED <<dst, opened, breaks, writer>>
  /\ UNCHANGED <<what, gone, info_size, file_complete, pos, xferAborting>>

\* indicted->ReInitialize()
XferReInitialize ==
  /\ xpc = "reinit"
  /\ \/ /\ broken' = broken \ {indicted} /\ indicted' = "dst" /\ XferGo("getsize")
        /\ UNCHANGED <<dst, opened, breaks, writer>>
     \/ Breaks(indicted) /\ Throw /\ UNCHANGED indicted
  /\ UNCHANGED <<what, gone, info_size, file_complete, pos, xferAborting>>

GetSizeForgotten ==
  /\ xpc = "getsize" /\ dst # Absent /\ Works("dst")
  /\ Abortable(XferGo("get") /\ UNCHANGED <<file_complete, dst, opened, writer>>)
  /\ UNCHANGED <<what, gone, info_size, pos, indicted, xferAborting>>

\* file_complete = _dst_host->GetSize(path_dst)
GetSize ==
  /\ xpc = "getsize"
  /\ \/ dst # Absent /\ Works("dst")
        /\ Abortable(file_complete' = Len(dst) /\ XferGo("get") /\ UNCHANGED <<dst, opened, writer>>)
     \/ dst = Absent /\ Works("dst") /\ Throw /\ UNCHANGED file_complete
     \/ Breaks("dst") /\ Throw /\ UNCHANGED file_complete
  /\ UNCHANGED <<what, gone, info_size, pos, indicted, xferAborting>>

\* _base_host->FileGet(path_src, file_complete)
FileGet ==
  /\ xpc = "get"
  /\ indicted' = "base"
  /\ \/ ~gone /\ Works("base") /\ pos' = file_complete /\ XferGo("put")
        /\ UNCHANGED <<dst, opened, writer>>
     \/ gone /\ Works("base") /\ Throw /\ UNCHANGED pos
     \/ Breaks("base") /\ Throw /\ UNCHANGED pos
  /\ UNCHANGED <<what, gone, info_size, file_complete, xferAborting>>

\* Without a position the file is made or truncated
FilePut ==
  /\ xpc = "put"
  /\ indicted' = "dst"
  /\ \/ /\ Works("dst")
        /\ dst' = IF file_complete = 0 THEN <<>> ELSE dst
        /\ opened' = TRUE
        /\ writer' = [NoWriter EXCEPT !.pos = file_complete]
        /\ XferGo("read")
     \/ Breaks("dst") /\ Throw
  /\ UNCHANGED <<what, gone, info_size, file_complete, pos, xferAborting>>

\* One byte more is asked than should be left, to see whether the file has grown
AskPiece ==
  IF info_size < file_complete + BufSize /\ info_size > file_complete
    THEN info_size - file_complete + 1
    ELSE BufSize

\* What Read returns for n units
Readable(n) ==
  LET left == IF size > pos THEN size - pos ELSE 0
      most == Min({n, left})
  IN IF ShortReads /\ most > 0 THEN 1..most ELSE {most}

\* Nothing read is the end, unless less has been got than was listed
Read ==
  /\ xpc = "read"
  /\ \/ /\ Works("base") /\ indicted' = "base"
        /\ \E piece \in Readable(AskPiece) :
             /\ pos' = pos + piece
             /\ XferGo(IF piece > 0 THEN "write" ELSE IF file_complete < info_size THEN "srcsize" ELSE "complete")
        /\ UNCHANGED <<dst, opened, writer>>
     \/ Breaks("base") /\ indicted' = "base" /\ Throw /\ UNCHANGED pos
  /\ UNCHANGED <<what, gone, info_size, file_complete, xferAborting>>

SrcSize ==
  /\ xpc = "srcsize"
  /\ \/ /\ Works("base")
        /\ IF file_complete < size
             THEN info_size' = size /\ Throw
             ELSE info_size' = file_complete /\ XferGo("complete") /\ UNCHANGED <<dst, opened, writer>>
     \/ Breaks("base") /\ Throw /\ UNCHANGED info_size
  /\ UNCHANGED <<what, gone, file_complete, pos, indicted, xferAborting>>

\* What was written before is done; otherwise its error is thrown now
Reported ==
  /\ Works("dst")
  /\ dst' = IF writer.piece > 0 THEN PutUnits(dst, writer.pos, writer.piece) ELSE dst
  /\ UNCHANGED opened

\* A short piece that ends at the listed size is taken for the last one
Write ==
  /\ xpc = "write"
  /\ indicted' = "dst"
  /\ LET piece == pos - file_complete
         ask == AskPiece
     IN \/ /\ Reported
           /\ writer' = [pos |-> writer.pos + writer.piece, piece |-> piece]
           /\ file_complete' = pos
           /\ XferGo(IF piece < ask /\ pos = info_size THEN "fast" ELSE "count")
        \/ Breaks("dst") /\ Closed(piece) /\ XferGo("ask") /\ UNCHANGED file_complete
  /\ UNCHANGED <<what, gone, info_size, pos, xferAborting>>

\* WriteComplete
Complete(next) ==
  \/ Reported /\ writer' = NoWriter /\ next
  \/ Breaks("dst") /\ Throw

XferWriteComplete ==
  /\ \/ xpc = "complete" /\ Complete(XferGo("times"))
     \/ xpc = "fast" /\ Complete(XferGo("fastcount"))
  /\ indicted' = "dst"
  /\ UNCHANGED <<what, gone, info_size, file_complete, pos, xferAborting>>

\* The progress is told, and the loop goes on or ends
Count ==
  /\ xpc \in {"count", "fastcount"}
  /\ Abortable(/\ XferGo(IF xpc = "count" THEN "read" ELSE "times")
               /\ UNCHANGED <<file_complete, dst, opened, writer>>)
  /\ indicted' = "null"
  /\ UNCHANGED <<what, gone, info_size, pos, broken, breaks, xferAborting>>

\* The user's answer to Query, or the remembered one
AskUser ==
  /\ xpc = "ask"
  /\ \E answer \in UserAnswers :
       \/ answer = "skip" /\ End(IF xferAborting THEN "aborted" ELSE "skipped")
       \/ answer = "retry" /\ IF xferAborting THEN End("aborted") ELSE XferGo("reinit")
       \/ answer = "cancel" /\ End("aborted")
  /\ UNCHANGED <<what, gone, dst, opened, info_size, file_complete, pos, writer, indicted, broken, breaks, xferAborting>>

-----------------------------------------------------------------------------
(* Transfer: after the copying                                             *)

\* WhatOnErrorWrap around a call of h: an error of ReInitialize is not caught
Wrapped(h, done, next) ==
  \/ Works(h) /\ done /\ next
  \/ /\ h \in broken \/ breaks < MaxBreaks
     /\ breaks' = IF h \in broken THEN breaks ELSE breaks + 1
     /\ done \/ UNCHANGED gone
     /\ \/ "skip" \in UserAnswers /\ broken' = broken \cup {h} /\ next
        \/ "cancel" \in UserAnswers /\ broken' = broken \cup {h} /\ End("aborted")
        \/ "retry" \in UserAnswers /\ broken' = broken \cup {h} /\ End("failed")
        \/ /\ "retry" \in UserAnswers /\ broken' = broken \ {h}
           /\ IF xferAborting THEN End("aborted") ELSE UNCHANGED <<xpc, result>>

CopyAttributes ==
  /\ xpc = "times"
  /\ Wrapped("dst", UNCHANGED gone, IF kind = "copy" THEN End("copied") ELSE XferGo("delete"))
  /\ UNCHANGED <<what, dst, opened, info_size, file_complete, pos, writer, indicted, xferAborting>>

\* FileDelete: XK_MOVE
FileDelete ==
  /\ xpc = "delete"
  /\ Wrapped("base", gone' = TRUE, End("copied"))
  /\ UNCHANGED <<what, dst, opened, info_size, file_complete, pos, writer, indicted, xferAborting>>

-----------------------------------------------------------------------------
AbortXfer ==
  /\ Aborts /\ xpc # "done" /\ ~xferAborting
  /\ xferAborting' = TRUE
  /\ UNCHANGED <<what, gone, dst, opened, info_size, file_complete, pos, writer, indicted, broken, breaks, xpc, result>>

Step ==
  \/ Inspect \/ Decide \/ Rename
  \/ XferReInitialize \/ GetSize \/ FileGet \/ FilePut \/ Read \/ SrcSize \/ Write \/ XferWriteComplete \/ Count
  \/ AskUser \/ CopyAttributes \/ FileDelete

XferNext == Step \/ AbortXfer

XferSpec == XferInit /\ [][XferNext]_xferVars

Reconnect == XferReInitialize /\ xpc' = "getsize"

(* The thread goes on; and a server that is connected to again and again    *)
(* answers some time: a Retry can do no more than that.                     *)
XferFairSpec == XferSpec /\ WF_xferVars(Step) /\ SF_xferVars(Reconnect)

-----------------------------------------------------------------------------
(* Properties                                                              *)

\* The destination has what the source has; with short reads, a source that has
\* grown since it was listed may be taken for complete at the listed size.
Faithful ==
  /\ dst # Absent
  /\ \A i \in DOMAIN dst : dst[i] = "src"
  /\ Len(dst) >= (IF ShortReads THEN Min({info_size, size}) ELSE size)

\* However often connections break and the loop resumes, a file that is reported
\* as copied has been, and a source is deleted only after that.
NothingLost == result = "copied" \/ gone => Faithful

\* A write never begins beyond the end of the destination or after units that
\* are not the source's: a resumed copy goes on where the destination ends.
ResumesAtTheEnd ==
  xpc \in {"read", "srcsize", "write", "complete", "count"} =>
    /\ writer.pos + writer.piece = file_complete
    /\ Len(dst) >= writer.pos /\ \A i \in 1..writer.pos : dst[i] = "src"

\* What a copy, resumed or not, is to be in between and in the end.
CopyIsSound == ResumesAtTheEnd /\ NothingLost

\* A user who answers every error with Retry gets the file copied once
\* connections do not break any more: the host that is initialized again is the
\* one that failed.
RetrySucceeds == xpc # "inspect" ~> xpc \in {"times", "delete", "done"}
=============================================================================
