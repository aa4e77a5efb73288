----------------------------- MODULE InitDeinitCmd -----------------------------
(***************************************************************************)
(* The commands a NetRocks site has executed when a connection is opened   *)
(* and when it is closed (NetRocks/src/Host/InitDeinitCmd.cpp).  Each gets *)
(* told in $SINGULAR whether its connection is the only one to the site of *)
(* all NetRocks instances, so that the first command can set something up  *)
(* and the last one can clean it up.  The instances find that out by lock  *)
(* files: each connection that is open holds a read lock on the file of    *)
(* its site, and all that is done about it is done under the write lock of *)
(* a group of sites.                                                       *)
(*                                                                         *)
(* A definition right before another one and named after it is a wrong     *)
(* version of it that nothing uses.                                        *)
(***************************************************************************)
EXTENDS FiniteSets

CONSTANTS
  Conns,     \* the connections of all instances
  Sites,     \* what the lock ids stand for
  Groups,
  SiteOf,    \* the site of each connection
  GroupOf,   \* the group of each site
  Files, NoFile, NoConn,
  Faults     \* what may go wrong, some of AllFaults

\* fail: a command fails; abort: the user aborts; crash: an instance dies;
\* heirs: a command leaves a process behind, which inherits the descriptors
AllFaults == {"fail", "abort", "crash", "heirs"}

ASSUME ConnsAssumption ==
  /\ SiteOf \in [Conns -> Sites] /\ GroupOf \in [Sites -> Groups]
  /\ NoConn \notin Conns /\ NoFile \notin Files
  /\ Faults \subseteq AllFaults

VARIABLES
  cpc,         \* what each connection is doing
  group,      \* which connection has the write lock of each group
  resources,  \* the files of the sites: _sr_private of each connection
  singular,   \* $SINGULAR of the command each connection executes
  aborted,    \* connections that are aborted
  heirs,      \* connections a command of which has left a process behind
  todo,       \* what ~Cleanup has still to look at
  ready       \* the sites whose things are set up

cmdVars == <<cpc, group, resources, singular, aborted, heirs, todo, ready>>

INSTANCE SharedResource WITH Ids <- Sites, Descs <- Conns

\* These run under the lock of the group
Inside == {"open", "test", "command", "lock", "unlock", "drop", "testAgain", "deinit"}

Steps == Inside \cup {"idle", "start", "up", "stop", "cleanup", "dead"}

CmdTypeOK ==
  /\ cpc \in [Conns -> Steps]
  /\ group \in [Groups -> Conns \cup {NoConn}]
  /\ resources \in Resources
  /\ singular \in [Conns -> BOOLEAN]
  /\ aborted \subseteq Conns /\ heirs \subseteq Conns
  /\ todo \in [Conns -> SUBSET Sites]
  /\ ready \subseteq Sites

CmdInit ==
  /\ cpc = [c \in Conns |-> "idle"]
  /\ group = [g \in Groups |-> NoConn]
  /\ resources = NoResources
  /\ singular = [c \in Conns |-> FALSE]
  /\ aborted = {} /\ heirs = {}
  /\ todo = [c \in Conns |-> {}]
  /\ ready = {}

Becomes(c, step) == cpc' = [cpc EXCEPT ![c] = step]

Group(c) == GroupOf[SiteOf[c]]

\* Writer's destructor: an explicit LOCK_UN, which heirs do not outlive
Unlocked(c) == [group EXCEPT ![Group(c)] = NoConn]

-----------------------------------------------------------------------------
(* The constructor                                                         *)

\* HostRemote::ReInitialize
Start(c) ==
  /\ cpc[c] = "idle"
  /\ Becomes(c, "start")
  /\ aborted' = aborted \ {c}
  /\ UNCHANGED <<group, resources, singular, heirs, todo, ready>>

\* It waits for the group's lock without a limit, here and in the destructor
LockGroup(c) ==
  /\ group[Group(c)] = NoConn
  /\ group' = [group EXCEPT ![Group(c)] = c]
  /\ \/ cpc[c] = "start" /\ Becomes(c, "open")
     \/ cpc[c] = "stop" /\ Becomes(c, "drop")
  /\ UNCHANGED <<resources, singular, aborted, heirs, todo, ready>>

OpenPrivate(c) ==
  /\ cpc[c] = "open"
  /\ \E f \in Opened(resources, SiteOf[c]) : resources' = Open(resources, c, SiteOf[c], f)
  /\ Becomes(c, "test")
  /\ UNCHANGED <<group, singular, aborted, heirs, todo, ready>>

\* A command is about to be executed, for a connection that is not aborted
PrivateMayTakeWriteLock(c) ==
  /\ c \notin aborted
  /\ singular' = [singular EXCEPT ![c] = MayLockWrite(resources, c, resources.fd[c])]
  /\ \/ cpc[c] = "test" /\ Becomes(c, "command")
     \/ cpc[c] = "testAgain" /\ Becomes(c, "deinit")
  /\ UNCHANGED <<group, resources, aborted, heirs, todo, ready>>

LeaveLocked(c) ==
  /\ group' = group
  /\ resources' = Close(resources, c)
  /\ heirs' = heirs \ {c}
  /\ todo' = [todo EXCEPT ![c] = Enum(resources)]
  /\ Becomes(c, "cleanup")

\* Everything is given back, and ~Cleanup enumerates the files
LeaveGroup(c) ==
  /\ group' = Unlocked(c)
  /\ resources' = Close(resources, c)
  /\ heirs' = heirs \ {c}
  /\ todo' = [todo EXCEPT ![c] = Enum(resources)]
  /\ Becomes(c, "cleanup")

\* Run throws before it does anything: in the destructor as well
Refused(c) ==
  /\ cpc[c] \in {"test", "testAgain"} /\ c \in aborted
  /\ LeaveGroup(c)
  /\ UNCHANGED <<singular, aborted, ready>>

\* The command succeeds, and sets things up if it is singular
RunCommand(c) ==
  /\ cpc[c] = "command"
  /\ ready' = IF singular[c] THEN ready \cup {SiteOf[c]} ELSE ready
  /\ heirs' \in {heirs} \cup (IF "heirs" \in Faults THEN {heirs \cup {c}} ELSE {})
  /\ Becomes(c, "lock")
  /\ UNCHANGED <<group, resources, singular, aborted, todo>>

\* The command fails, takes too long or is aborted, having done its work or not
CommandFails(c) ==
  /\ cpc[c] = "command"
  /\ c \in aborted \/ "fail" \in Faults
  /\ ready' \in {ready} \cup (IF singular[c] THEN {ready \cup {SiteOf[c]}} ELSE {})
  /\ LeaveGroup(c)
  /\ UNCHANGED <<singular, aborted>>

LockPrivate(c) ==
  /\ cpc[c] = "lock"
  /\ resources' = LockRead(resources, c)
  /\ Becomes(c, "unlock")
  /\ UNCHANGED <<group, singular, aborted, heirs, todo, ready>>

ReleaseGroup(c) ==
  /\ cpc[c] = "unlock"
  /\ group' = Unlocked(c)
  /\ Becomes(c, "up")
  /\ UNCHANGED <<resources, singular, aborted, heirs, todo, ready>>

-----------------------------------------------------------------------------
(* The destructor                                                          *)

StopUnlocking(c) ==
  /\ cpc[c] = "up"
  /\ Becomes(c, "stop")
  /\ resources' = UnlockRead(resources, c)
  /\ UNCHANGED <<group, singular, aborted, heirs, todo, ready>>

\* HostRemote::OnBroken, or the host is destroyed
Stop(c) ==
  /\ cpc[c] = "up"
  /\ Becomes(c, "stop")
  /\ UNCHANGED <<group, resources, singular, aborted, heirs, todo, ready>>

UnlockPrivate(c) ==
  /\ cpc[c] = "drop"
  /\ resources' = UnlockRead(resources, c)
  /\ Becomes(c, "testAgain")
  /\ UNCHANGED <<group, singular, aborted, heirs, todo, ready>>

\* The command succeeds, and cleans up if it is singular
RunCommandDeinit(c) ==
  /\ cpc[c] = "deinit"
  /\ ready' = IF singular[c] THEN ready \ {SiteOf[c]} ELSE ready
  /\ LeaveGroup(c)
  /\ UNCHANGED <<singular, aborted>>

CommandDeinitFails(c) ==
  /\ cpc[c] = "deinit"
  /\ c \in aborted \/ "fail" \in Faults
  /\ ready' \in {ready} \cup (IF singular[c] THEN {ready \ {SiteOf[c]}} ELSE {})
  /\ LeaveGroup(c)
  /\ UNCHANGED <<singular, aborted>>

-----------------------------------------------------------------------------
(* ~Cleanup                                                                *)

CleanedUp(c, i) ==
  IF MayLockWrite(resources, NoConn, resources.dir[i]) THEN Unlink(resources, i) ELSE resources

CleanupLockless(c, i) ==
  /\ cpc[c] = "cleanup" /\ i \in todo[c]
  /\ todo' = [todo EXCEPT ![c] = @ \ {i}]
  /\ resources' = CleanedUp(c, i)
  /\ UNCHANGED <<cpc, group, singular, aborted, heirs, ready>>

\* The file of i is removed under the lock of i's group, unless somebody has locked it
\* or is at work in that group
Cleanup(c, i) ==
  /\ cpc[c] = "cleanup" /\ i \in todo[c]
  /\ todo' = [todo EXCEPT ![c] = @ \ {i}]
  /\ \/ group[GroupOf[i]] = NoConn /\ resources' = CleanedUp(c, i)
     \/ /\ group[GroupOf[i]] # NoConn \/ \E d \in Conns \ {c} : cpc[d] = "cleanup"
        /\ UNCHANGED resources
  /\ UNCHANGED <<cpc, group, singular, aborted, heirs, ready>>

CleanupDone(c) ==
  /\ cpc[c] = "cleanup" /\ todo[c] = {}
  /\ Becomes(c, "idle")
  /\ UNCHANGED <<group, resources, singular, aborted, heirs, todo, ready>>

-----------------------------------------------------------------------------
(* What happens to a connection                                            *)

\* HostRemote::Abort: of a command, or of a connection in use
AbortCmd(c) ==
  /\ "abort" \in Faults
  /\ cpc[c] \in {"start", "command", "up", "stop", "deinit"} /\ c \notin aborted
  /\ aborted' = aborted \cup {c}
  /\ UNCHANGED <<cpc, group, resources, singular, heirs, todo, ready>>

\* The descriptions of c are closed
Released(c) ==
  /\ group' = [g \in Groups |-> IF group[g] = c THEN NoConn ELSE group[g]]
  /\ resources' = Close(resources, c)

\* The process of c dies.  Its locks go with it, unless somebody has inherited them
Crash(c) ==
  /\ "crash" \in Faults
  /\ cpc[c] \notin {"idle", "dead"}
  /\ Becomes(c, "dead")
  /\ \/ c \in heirs /\ UNCHANGED <<group, resources>>
     \/ c \notin heirs /\ Released(c)
  /\ UNCHANGED <<singular, aborted, heirs, todo, ready>>

\* The process that a command has left behind ends
HeirEnds(c) ==
  /\ c \in heirs
  /\ heirs' = heirs \ {c}
  /\ \/ cpc[c] = "dead" /\ Released(c)
     \/ cpc[c] # "dead" /\ UNCHANGED <<group, resources>>
  /\ UNCHANGED <<cpc, singular, aborted, todo, ready>>

-----------------------------------------------------------------------------
Opening(c) ==
  \/ LockGroup(c) \/ OpenPrivate(c) \/ PrivateMayTakeWriteLock(c) \/ Refused(c)
  \/ RunCommand(c) \/ CommandFails(c) \/ LockPrivate(c) \/ ReleaseGroup(c)

Closing(c) ==
  \/ UnlockPrivate(c) \/ RunCommandDeinit(c) \/ CommandDeinitFails(c)
  \/ CleanupDone(c) \/ \E i \in Sites : Cleanup(c, i)

CmdNext ==
  \E c \in Conns :
    \/ Opening(c) \/ Closing(c)
    \/ Start(c) \/ Stop(c) \/ AbortCmd(c) \/ Crash(c) \/ HeirEnds(c)

CmdSpec == CmdInit /\ [][CmdNext]_cmdVars

\* A command has a time limit, and whoever waits for a lock gets it at some time
CmdFairSpec ==
  /\ CmdSpec
  /\ \A c \in Conns : WF_cmdVars(Opening(c) \/ Closing(c)) /\ SF_cmdVars(LockGroup(c))

-----------------------------------------------------------------------------
(* Properties                                                              *)

\* A connection whose command has run, and whose closing command has not yet
Open_(c) == cpc[c] \in {"up", "stop"}

Alone(c) == ~\E d \in Conns \ {c} : SiteOf[d] = SiteOf[c] /\ Open_(d)

Executing(c) == cpc[c] \in {"command", "deinit"}

\* helpe.hlf: "$SINGULAR equals to 1 in case command being executed on a connection that
\* is singular ... across all NetRocks instances": when a command is started, whatever
\* other connections are doing at that time.
SingularIsTrue ==
  [][\A c \in Conns : ~Executing(c) /\ Executing(c)' => (singular'[c] <=> Alone(c))]_cmdVars

\* A command that is told to be singular stays so while it is executed: nobody else opens
\* the site, or closes it, behind its back.
SingularLasts == \A c \in Conns : Executing(c) /\ singular[c] => Alone(c)

\* "so you may use this to initialize/cleanup shared things": what the singular command
\* sets up is there as long as a connection of the site is open.
ReadyWhileOpen == \A c \in Conns : cpc[c] = "up" => SiteOf[c] \in ready

\* Connections of a site lock the same file, the one that the next of them will open.
LocksAreSeen ==
  \A c \in resources.shared : resources.fd[c] = resources.dir[SiteOf[c]]

\* What the locks of the instances are for.
LocksAreKept == SingularLasts /\ ReadyWhileOpen /\ LocksAreSeen

\* Opening and closing a connection ends, however many others do the same.
CommandsEnd ==
  \A c \in Conns : cpc[c] \in {"start", "stop"} ~> cpc[c] \in {"up", "idle"}
=============================================================================
