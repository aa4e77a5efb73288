------------------------------- MODULE MCNetRocks -------------------------------
(***************************************************************************)
(* The parts of NetRocks side by side: the pool of connections, the copy   *)
(* of a file, a remote host and its broker, a transfer as a task and the   *)
(* commands at connecting.  Which one runs is chosen in the beginning, and *)
(* the others stay as they are.                                            *)
(*                                                                         *)
(* Two brokers are enough for one to be started while an abort of the one  *)
(* before is still under way, two aborts for one to come when the other    *)
(* has been lost.  Eight levels of the main thread's stack hold a dialog   *)
(* of the transfer's thread over the confirmation over a task shown from   *)
(* the list over the panels.  Three connections are two to one site and    *)
(* one to another of the same group.                                       *)
(***************************************************************************)
EXTENDS ConnectionsPool, XferFile, RemoteHost, NetRocksTask, InitDeinitCmd, TLC

CONSTANTS
  Parts,   \* those that a run looks at
  i1, i2, c1, c2, c3, s1, s2, g, f1, f2, f3, f4

VARIABLE part

SitesOf == [c \in Conns |-> IF c = c3 THEN s2 ELSE s1]
GroupsOf == [s \in Sites |-> g]

-----------------------------------------------------------------------------
netVars == <<part, vars, xferVars, hostVars, taskVars, cmdVars>>

NetInit ==
  /\ part \in Parts
  /\ Init /\ XferInit /\ HostInit /\ TaskInit /\ CmdInit
  /\ part # "pool" => expiration = Min(Expirations)
  /\ part # "xfer" => kind = "copy" /\ size = 0 /\ info_size = 0 /\ dst = Absent

NetNext ==
  /\ UNCHANGED part
  /\ \/ part = "pool" /\ Next /\ UNCHANGED <<xferVars, hostVars, taskVars, cmdVars>>
     \/ part = "xfer" /\ XferNext /\ UNCHANGED <<vars, hostVars, taskVars, cmdVars>>
     \/ part = "host" /\ HostNext /\ UNCHANGED <<vars, xferVars, taskVars, cmdVars>>
     \/ part = "task" /\ TaskNext /\ UNCHANGED <<vars, xferVars, hostVars, cmdVars>>
     \/ part = "cmd" /\ CmdNext /\ UNCHANGED <<vars, xferVars, hostVars, taskVars>>

NetSpec == NetInit /\ [][NetNext]_netVars

(* The fairness of each part, as its module justifies it: what can be done  *)
(* from the beginning must be done by the part that runs only.              *)
NetFairSpec ==
  /\ NetSpec
  /\ WF_vars(PurgerStep) /\ WF_vars(part = "pool" /\ Tick)
  /\ WF_vars(OnGlobalSettingsChanged) /\ WF_vars(Destroyed)
  /\ WF_xferVars(part = "xfer" /\ Step) /\ SF_xferVars(Reconnect)
  /\ WF_hostVars(part = "host" /\ Master) /\ WF_hostVars(Aborting)
  /\ WF_taskVars(ThreadStep)
  /\ WF_taskVars(MainStep) /\ SF_taskVars(Dispatch)
  /\ WF_taskVars(Answer) /\ WF_taskVars(Refuse \/ Confirm) /\ SF_taskVars(ForcefullyAbort)
  /\ WF_taskVars(List /\ Len(main') < Len(main))
  /\ \A c \in Conns : WF_cmdVars(part = "cmd" /\ (Opening(c) \/ Closing(c))) /\ SF_cmdVars(LockGroup(c))

-----------------------------------------------------------------------------
NetTypeOK == TypeOK /\ XferTypeOK /\ HostTypeOK /\ TaskTypeOK /\ CmdTypeOK

\* Copies and moves: nothing is lost in the file's loop, and the task and its dialogs go by
\* the same state of it.
TransfersAreSound == CopyIsSound /\ TransferIsSound

\* Hosts in use stay in step with their brokers; those in the pool do not outstay their
\* time, nor outlive the pool.
ConnectionsAreSound == InStep /\ NoOversleep /\ EndsQuietly

\* What ends, whatever it meets.  Host.h: Abort "forcefully aborts connection and any
\* outstanding operation": a call that is outstanding returns even though the broker hangs.
\* An abort that the user has confirmed comes to an end, though the transfer is paused, its
\* call hangs, errors are being asked about or the abort is lost while connecting.  The
\* destructor of the pool returns, in whatever state it meets the thread.  As "part" stays
\* what it is, the three are said in one.
EndsCome ==
  (CASE part = "host" -> hit [] part = "task" -> aborting [] OTHER -> owner = "destructor")
    ~> CASE part = "host" -> ~hit [] part = "task" -> finished [] OTHER -> owner = "gone"
=============================================================================
