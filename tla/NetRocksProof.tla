------------------------------ MODULE NetRocksProof ----------------------------
(***************************************************************************)
(* Proofs about the parts of NetRocks that MCNetRocks puts side by side,   *)
(* for any sizes, servers and bounds: the flags of the pool's Threaded     *)
(* tell of its one purging thread, which does not oversleep, and its       *)
(* destructor leaves nothing behind; a copy resumed after errors is the    *)
(* source; the frames of the main thread are those of a transfer that is   *)
(* there; both sides of a connection to a host's broker stay in step, and  *)
(* the host keeps what RemoteCalls promises; the lock files of a site are  *)
(* for what they are for, whatever goes wrong; and so the invariants of    *)
(* the whole.                                                              *)
(***************************************************************************)
EXTENDS MCNetRocks, WellFoundedInduction, TLAPS

-----------------------------------------------------------------------------
(* The commands of a site: InitDeinitCmd                                   *)

(* The inductive invariant                                                 *)

\* The steps between opening the file of the site and closing it
Opens == {"test", "command", "lock", "unlock", "up", "stop", "drop", "testAgain", "deinit"}

\* The steps with a read lock on it
Locking == {"unlock", "up", "stop", "drop"}

Orphaned(c) == cpc[c] = "dead" /\ c \in heirs

\* Nobody else is inside a group whose lock is held
InsideHasGroup == \A c \in Conns : cpc[c] \in Inside => group[Group(c)] = c

\* Different sites have different files
FilesDiffer ==
  \A i, j \in Sites : resources.dir[i] = resources.dir[j] => i = j \/ resources.dir[i] = NoFile

\* The file that is open is the one with the name
OpenHasFile ==
  \A c \in Conns : cpc[c] \in Opens =>
    /\ resources.fd[c] = resources.dir[SiteOf[c]]
    /\ resources.fd[c] # NoFile

\* Who has a lock has it all the time, and leaves it to its heirs at most
SharedIsLocked ==
  /\ \A c \in Conns : cpc[c] \in Locking => c \in resources.shared
  /\ \A c \in resources.shared : cpc[c] \in Locking \/ Orphaned(c)

\* What a command has been told
SingularHasNoOther ==
  \A c \in Conns : Executing(c) /\ singular[c] =>
    \A e \in resources.shared \ {c} : SiteOf[e] # SiteOf[c]

\* What has been set up is there for whoever counts on it, orphans included
ReadyIsKept ==
  /\ \A c \in resources.shared : SiteOf[c] \in ready
  /\ \A c \in Conns : cpc[c] = "lock" => SiteOf[c] \in ready
  /\ \A c \in Conns : cpc[c] = "command" /\ ~singular[c] => SiteOf[c] \in ready

CmdInv ==
  /\ CmdTypeOK
  /\ InsideHasGroup /\ FilesDiffer /\ OpenHasFile /\ SharedIsLocked /\ LocksAreSeen
  /\ SingularHasNoOther /\ ReadyIsKept

-----------------------------------------------------------------------------
(* What the operations on lock files do                                    *)

\* Types are kept; each operation changes only what it is about.
LEMMA OpenFacts ==
  ASSUME NEW s \in Resources, NEW d \in Conns, NEW i \in Sites, NEW f \in Opened(s, i)
  PROVE  /\ d \notin s.shared => Open(s, d, i, f) \in Resources
         /\ Open(s, d, i, f).shared = s.shared
         /\ Open(s, d, i, f).fd = [s.fd EXCEPT ![d] = f]
         /\ Open(s, d, i, f).dir = [s.dir EXCEPT ![i] = f]
         /\ f # NoFile
         /\ s.dir[i] # NoFile => f = s.dir[i]
         /\ s.dir[i] = NoFile => \A j \in Sites : s.dir[j] # f
<1>1. f \in Files /\ f # NoFile
  BY ConnsAssumption DEF Resources, Opened
<1>2. /\ s.dir[i] # NoFile => f = s.dir[i]
      /\ s.dir[i] = NoFile => \A j \in Sites : s.dir[j] # f
  BY DEF Resources, Opened, Used
<1>. QED  BY <1>1, <1>2 DEF Resources, Open

\* A description that is closed has no file and no lock.
LEMMA CloseFacts ==
  ASSUME NEW s \in Resources, NEW d \in Conns
  PROVE  /\ Close(s, d) \in Resources
         /\ Close(s, d).shared = s.shared \ {d}
         /\ Close(s, d).fd = [s.fd EXCEPT ![d] = NoFile]
         /\ Close(s, d).dir = s.dir
BY DEF Resources, Close

\* flock changes who holds locks only.
LEMMA LockFacts ==
  ASSUME NEW s \in Resources, NEW d \in Conns
  PROVE  /\ s.fd[d] # NoFile => LockRead(s, d) \in Resources
         /\ LockRead(s, d).shared = s.shared \cup {d}
         /\ UnlockRead(s, d) \in Resources
         /\ UnlockRead(s, d).shared = s.shared \ {d}
         /\ LockRead(s, d).fd = s.fd /\ LockRead(s, d).dir = s.dir
         /\ UnlockRead(s, d).fd = s.fd /\ UnlockRead(s, d).dir = s.dir
BY DEF Resources, LockRead, UnlockRead

\* A file that is unlinked stays with the descriptions.
LEMMA UnlinkFacts ==
  ASSUME NEW s \in Resources, NEW i \in Sites
  PROVE  /\ Unlink(s, i) \in Resources
         /\ Unlink(s, i).shared = s.shared
         /\ Unlink(s, i).fd = s.fd
         /\ Unlink(s, i).dir = [s.dir EXCEPT ![i] = NoFile]
BY DEF Resources, Unlink

\* Only open files are locked.
LEMMA TypeFacts ==
  ASSUME NEW s \in Resources
  PROVE  /\ s.fd \in [Conns -> Files \cup {NoFile}] /\ s.dir \in [Sites -> Files \cup {NoFile}]
         /\ s.shared \subseteq Conns
         /\ \A d \in s.shared : s.fd[d] # NoFile
BY DEF Resources

-----------------------------------------------------------------------------
(* What the actions do to them                                             *)

\* open with O_CREAT
LEMMA OpenStep ==
  ASSUME CmdTypeOK, NEW c \in Conns, OpenPrivate(c)
  PROVE  \E f \in Files \ {NoFile} :
           /\ resources'.shared = resources.shared
           /\ resources'.fd = [resources.fd EXCEPT ![c] = f]
           /\ resources'.dir = [resources.dir EXCEPT ![SiteOf[c]] = f]
           /\ resources.dir[SiteOf[c]] # NoFile => f = resources.dir[SiteOf[c]]
           /\ resources.dir[SiteOf[c]] = NoFile => \A j \in Sites : resources.dir[j] # f
           /\ c \notin resources.shared => resources' \in Resources
<1>. SiteOf[c] \in Sites /\ resources \in Resources
  BY ConnsAssumption DEF CmdTypeOK
<1>1. PICK f \in Opened(resources, SiteOf[c]) : resources' = Open(resources, c, SiteOf[c], f)
  BY DEF OpenPrivate
<1>2. f \in Files \ {NoFile}
  BY ConnsAssumption DEF Resources, Opened
<1>. QED  BY <1>1, <1>2, OpenFacts

\* The four ways to leave the group with everything given back
LeaveStep(c) ==
  \/ Refused(c) \/ CommandFails(c) \/ RunCommandDeinit(c) \/ CommandDeinitFails(c)

\* c's file is closed
ClosedBy(c) ==
  /\ resources'.shared = resources.shared \ {c}
  /\ resources'.fd = [resources.fd EXCEPT ![c] = NoFile]
  /\ resources'.dir = resources.dir
  /\ resources' \in Resources

\* What they have in common
LEMMA Leaving ==
  ASSUME CmdTypeOK, NEW c \in Conns, LeaveStep(c)
  PROVE  /\ cpc[c] \in {"test", "testAgain", "command", "deinit"}
         /\ cpc' = [cpc EXCEPT ![c] = "cleanup"]
         /\ group' = [group EXCEPT ![Group(c)] = NoConn]
         /\ heirs' = heirs \ {c} /\ todo' = [todo EXCEPT ![c] = Enum(resources)]
         /\ UNCHANGED <<singular, aborted>>
         /\ ClosedBy(c)
         /\ \/ ready' = ready
            \/ cpc[c] = "command" /\ ready' = ready \cup {SiteOf[c]}
            \/ cpc[c] = "deinit" /\ singular[c] /\ ready' = ready \ {SiteOf[c]}
<1>. resources \in Resources
  BY DEF CmdTypeOK
<1>1. LeaveGroup(c) /\ UNCHANGED <<singular, aborted>>
  BY DEF LeaveStep, Refused, CommandFails, RunCommandDeinit, CommandDeinitFails
<1>2. ClosedBy(c)
  BY <1>1, CloseFacts DEF LeaveGroup, ClosedBy
<1>3. \/ ready' = ready
      \/ cpc[c] = "command" /\ ready' = ready \cup {SiteOf[c]}
      \/ cpc[c] = "deinit" /\ singular[c] /\ ready' = ready \ {SiteOf[c]}
  <2>1. CASE Refused(c)
    BY <2>1 DEF Refused
  <2>2. CASE CommandFails(c)
    BY <2>2 DEF CommandFails
  <2>3. CASE RunCommandDeinit(c)
    BY <2>3 DEF RunCommandDeinit
  <2>4. CASE CommandDeinitFails(c)
    BY <2>4 DEF CommandDeinitFails
  <2>. QED  BY <2>1, <2>2, <2>3, <2>4 DEF LeaveStep
<1>4. cpc[c] \in {"test", "testAgain", "command", "deinit"}
  BY DEF LeaveStep, Refused, CommandFails, RunCommandDeinit, CommandDeinitFails
<1>. QED  BY <1>1, <1>2, <1>3, <1>4 DEF LeaveGroup, Unlocked, Becomes

\* A file is taken away from a site only where nobody has locked it or is at work
LEMMA Cleaning ==
  ASSUME CmdTypeOK, NEW c \in Conns, NEW i \in Sites, Cleanup(c, i)
  PROVE  /\ cpc[c] = "cleanup" /\ todo' = [todo EXCEPT ![c] = @ \ {i}]
         /\ UNCHANGED <<cpc, group, singular, aborted, heirs, ready>>
         /\ \/ UNCHANGED resources
            \/ /\ group[GroupOf[i]] = NoConn
               /\ \A e \in resources.shared : resources.fd[e] # resources.dir[i]
               /\ resources'.shared = resources.shared
               /\ resources'.fd = resources.fd
               /\ resources'.dir = [resources.dir EXCEPT ![i] = NoFile]
               /\ resources' \in Resources
<1>. resources \in Resources
  BY DEF CmdTypeOK
<1>1. CASE UNCHANGED resources
  BY <1>1 DEF Cleanup
<1>2. CASE /\ group[GroupOf[i]] = NoConn
           /\ MayLockWrite(resources, NoConn, resources.dir[i])
           /\ resources' = Unlink(resources, i)
  <2>1. NoConn \notin resources.shared
    BY TypeFacts, ConnsAssumption
  <2>. QED  BY <1>2, <2>1, UnlinkFacts DEF Cleanup, MayLockWrite
<1>. QED  BY <1>1, <1>2 DEF Cleanup, CleanedUp

\* A process that ends takes the locks with it when nobody has inherited them
LEMMA Dying ==
  ASSUME CmdTypeOK, NEW c \in Conns, Crash(c) \/ HeirEnds(c)
  PROVE  /\ UNCHANGED <<singular, aborted, todo, ready>>
         /\ \/ /\ UNCHANGED <<group, resources>>
               /\ \/ cpc' = [cpc EXCEPT ![c] = "dead"] /\ c \in heirs /\ heirs' = heirs
                  \/ cpc' = cpc /\ cpc[c] # "dead" /\ heirs' = heirs \ {c}
            \/ /\ group' = [grp \in Groups |-> IF group[grp] = c THEN NoConn ELSE group[grp]]
               /\ ClosedBy(c)
               /\ \/ cpc' = [cpc EXCEPT ![c] = "dead"] /\ heirs' = heirs
                  \/ cpc' = cpc /\ cpc[c] = "dead" /\ heirs' = heirs \ {c}
<1>. resources \in Resources
  BY DEF CmdTypeOK
<1>1. Released(c) => ClosedBy(c)
  BY CloseFacts DEF Released, ClosedBy
<1>. QED  BY <1>1 DEF Crash, HeirEnds, Released, Becomes

-----------------------------------------------------------------------------
(* The steps                                                               *)

\* What the types give
LEMMA Known ==
  ASSUME CmdTypeOK
  PROVE  /\ cpc \in [Conns -> Steps] /\ group \in [Groups -> Conns \cup {NoConn}]
         /\ singular \in [Conns -> BOOLEAN]
         /\ resources.fd \in [Conns -> Files \cup {NoFile}]
         /\ resources.dir \in [Sites -> Files \cup {NoFile}]
         /\ resources.shared \subseteq Conns
         /\ \A d \in resources.shared : resources.fd[d] # NoFile
         /\ \A d \in Conns : SiteOf[d] \in Sites /\ Group(d) = GroupOf[SiteOf[d]]
BY TypeFacts, ConnsAssumption DEF CmdTypeOK, Group

\* What is said of locks, files and what is set up
Locks == FilesDiffer /\ OpenHasFile /\ SharedIsLocked /\ LocksAreSeen

\* The steps that leave files and what is set up alone
Quietly(c) ==
  \/ Start(c) \/ LockGroup(c) \/ ReleaseGroup(c) \/ Stop(c) \/ CleanupDone(c) \/ AbortCmd(c)

\* ... and so keep the invariant: the lock of the group admits one connection.
LEMMA QuietStep ==
  ASSUME CmdInv, NEW c \in Conns, Quietly(c)
  PROVE  CmdInv'
<1>. USE DEF CmdInv
<1>1. UNCHANGED <<resources, singular, heirs, ready, todo>> /\ aborted' \subseteq Conns
  BY DEF Quietly, Start, LockGroup, ReleaseGroup, Stop, CleanupDone, AbortCmd, CmdTypeOK
<1>2. PICK p \in Steps :
        /\ cpc' = [cpc EXCEPT ![c] = p]
        /\ p = cpc[c] \/ (p \notin (Inside \ {"open", "drop"}) \cup {"dead"} /\ cpc[c] \notin {"lock", "dead"})
        /\ p \in Locking <=> cpc[c] \in Locking
        /\ p \in Opens <=> cpc[c] \in Opens
  BY Known DEF Quietly, Start, LockGroup, ReleaseGroup, Stop, CleanupDone, AbortCmd, Becomes,
     Inside, Opens, Locking, Steps
<1>3. \A d \in Conns : cpc'[d] = IF d = c THEN p ELSE cpc[d]
  BY <1>2, Known
<1>4. CmdTypeOK' /\ InsideHasGroup'
  <2>1. CASE LockGroup(c)
    <3>1. group[Group(c)] = NoConn /\ group' = [group EXCEPT ![Group(c)] = c] /\ Group(c) \in Groups
      BY <2>1, ConnsAssumption DEF LockGroup, Group
    <3>2. CmdTypeOK'
      BY <1>1, <1>2, <3>1 DEF CmdTypeOK
    <3>3. InsideHasGroup'
      BY <1>3, <3>1, Known, ConnsAssumption DEF InsideHasGroup
    <3>. QED  BY <3>2, <3>3
  <2>2. CASE ReleaseGroup(c)
    BY <1>1, <1>3, <2>2, Known, ConnsAssumption
       DEF ReleaseGroup, Becomes, Unlocked, CmdTypeOK, InsideHasGroup, Inside, Steps
  <2>3. CASE Start(c) \/ Stop(c) \/ CleanupDone(c) \/ AbortCmd(c)
    <3>1. group' = group /\ (p = cpc[c] \/ p \notin Inside)
      BY <1>3, <2>3, Known DEF Start, Stop, CleanupDone, AbortCmd, Becomes, Inside
    <3>. QED  BY <1>1, <1>2, <1>3, <3>1 DEF CmdTypeOK, InsideHasGroup
  <2>. QED  BY <2>1, <2>2, <2>3 DEF Quietly
<1>5. Locks'
  BY <1>1, <1>2, <1>3, Known DEF Locks, FilesDiffer, OpenHasFile, SharedIsLocked, LocksAreSeen, Orphaned
<1>6. SingularHasNoOther' /\ ReadyIsKept'
  BY <1>1, <1>2, <1>3, Known DEF SingularHasNoOther, ReadyIsKept, Executing, Inside
<1>. QED  BY <1>4, <1>5, <1>6 DEF Locks

\* open gives the file that has the name, or a fresh one: OpenPrivate.
LEMMA OpeningStep ==
  ASSUME CmdInv, NEW c \in Conns, OpenPrivate(c)
  PROVE  CmdInv'
<1>. USE DEF CmdInv
<1>1. PICK f \in Files \ {NoFile} :
        /\ resources'.shared = resources.shared
        /\ resources'.fd = [resources.fd EXCEPT ![c] = f]
        /\ resources'.dir = [resources.dir EXCEPT ![SiteOf[c]] = f]
        /\ resources.dir[SiteOf[c]] # NoFile => f = resources.dir[SiteOf[c]]
        /\ resources.dir[SiteOf[c]] = NoFile => \A j \in Sites : resources.dir[j] # f
        /\ c \notin resources.shared => resources' \in Resources
  BY OpenStep
<1>2. /\ cpc[c] = "open" /\ cpc' = [cpc EXCEPT ![c] = "test"]
      /\ UNCHANGED <<group, singular, aborted, heirs, todo, ready>>
  BY DEF OpenPrivate, Becomes
<1>3. \A d \in Conns : cpc'[d] = IF d = c THEN "test" ELSE cpc[d]
  BY <1>2, Known
<1>4. c \notin resources.shared
  BY <1>2 DEF SharedIsLocked, Locking, Orphaned
<1>5. CmdTypeOK' /\ InsideHasGroup'
  BY <1>1, <1>2, <1>3, <1>4 DEF CmdTypeOK, InsideHasGroup, Inside, Steps
<1>6. FilesDiffer' /\ OpenHasFile' /\ LocksAreSeen'
  <2>1. /\ \A d \in Conns : resources'.fd[d] = IF d = c THEN f ELSE resources.fd[d]
        /\ \A i \in Sites : resources'.dir[i] = IF i = SiteOf[c] THEN f ELSE resources.dir[i]
        /\ f # NoFile /\ SiteOf[c] \in Sites
    BY <1>1, Known
  <2>2. FilesDiffer'
    BY <1>1, <2>1 DEF FilesDiffer
  <2>3. OpenHasFile'
    BY <1>1, <1>2, <1>3, <2>1, Known DEF OpenHasFile, Opens
  <2>4. LocksAreSeen'
    BY <1>1, <1>4, <2>1, Known DEF LocksAreSeen
  <2>. QED  BY <2>2, <2>3, <2>4
<1>7. SharedIsLocked'
  BY <1>1, <1>2, <1>3, Known DEF SharedIsLocked, Locking, Orphaned
<1>8. SingularHasNoOther' /\ ReadyIsKept'
  BY <1>1, <1>2, <1>3, Known DEF SingularHasNoOther, ReadyIsKept, Executing
<1>. QED  BY <1>5, <1>6, <1>7, <1>8

\* What a command is told is what the locks say: everybody who counts on the site, or has
\* left a process behind, holds one.  PrivateMayTakeWriteLock under the group's lock.
LEMMA TellingStep ==
  ASSUME CmdInv, NEW c \in Conns, PrivateMayTakeWriteLock(c)
  PROVE  CmdInv'
<1>. USE DEF CmdInv
<1>1. /\ \/ cpc[c] = "test" /\ cpc' = [cpc EXCEPT ![c] = "command"]
         \/ cpc[c] = "testAgain" /\ cpc' = [cpc EXCEPT ![c] = "deinit"]
      /\ singular' = [singular EXCEPT ![c] = MayLockWrite(resources, c, resources.fd[c])]
      /\ UNCHANGED <<group, resources, aborted, heirs, todo, ready>>
  BY DEF PrivateMayTakeWriteLock, Becomes
<1>2. \A d \in Conns \ {c} : cpc'[d] = cpc[d] /\ singular'[d] = singular[d]
  BY <1>1, Known
<1>3. /\ cpc'[c] = (IF cpc[c] = "test" THEN "command" ELSE "deinit")
      /\ singular'[c] = MayLockWrite(resources, c, resources.fd[c])
  BY <1>1, Known
<1>4. CmdTypeOK' /\ InsideHasGroup'
  <2>1. MayLockWrite(resources, c, resources.fd[c]) \in BOOLEAN
    BY DEF MayLockWrite
  <2>2. singular' \in [Conns -> BOOLEAN]
    BY <1>1, <2>1, Known, Zenon
  <2>3. cpc' \in [Conns -> Steps]
    BY <1>1, Known DEF Steps, Inside
  <2>4. CmdTypeOK'
    BY <1>1, <2>2, <2>3 DEF CmdTypeOK
  <2>5. InsideHasGroup'
    BY <1>1, <1>2, <1>3 DEF InsideHasGroup, Inside
  <2>. QED  BY <2>4, <2>5
<1>5. Locks'
  BY <1>1, <1>2, <1>3, Known DEF Locks, FilesDiffer, OpenHasFile, SharedIsLocked, LocksAreSeen,
     Orphaned, Opens, Locking
<1>6. resources.fd[c] = resources.dir[SiteOf[c]] /\ resources.fd[c] # NoFile
  BY <1>1 DEF OpenHasFile, Opens
<1>7. \A e \in resources.shared : resources.fd[e] = resources.dir[SiteOf[e]]
  BY DEF LocksAreSeen
<1>8. SingularHasNoOther'
  <2>1. ASSUME singular'[c], NEW e \in resources.shared, e # c PROVE SiteOf[e] # SiteOf[c]
    <3>1. resources.fd[e] # resources.fd[c]
      BY <1>3, <2>1 DEF MayLockWrite
    <3>. QED  BY <1>6, <1>7, <3>1
  <2>. QED  BY <1>1, <1>2, <2>1 DEF SingularHasNoOther, Executing
<1>9. ReadyIsKept'
  <2>1. ASSUME ~singular'[c] PROVE SiteOf[c] \in ready
    <3>1. PICK e \in resources.shared : resources.fd[e] = resources.fd[c]
      BY <1>3, <2>1 DEF MayLockWrite
    <3>2. SiteOf[e] = SiteOf[c]
      BY <1>6, <1>7, <3>1, Known DEF FilesDiffer
    <3>. QED  BY <3>2 DEF ReadyIsKept
  <2>. QED  BY <1>1, <1>2, <1>3, <2>1 DEF ReadyIsKept
<1>. QED  BY <1>4, <1>5, <1>8, <1>9 DEF Locks

\* ~Guard of the group and of the file, after a command that is the last, fails or is refused.
LEMMA LeavingStep ==
  ASSUME CmdInv, NEW c \in Conns, LeaveStep(c)
  PROVE  CmdInv'
<1>. USE DEF CmdInv
<1>1. /\ cpc[c] \in {"test", "testAgain", "command", "deinit"}
      /\ cpc' = [cpc EXCEPT ![c] = "cleanup"]
      /\ group' = [group EXCEPT ![Group(c)] = NoConn]
  BY Leaving
<1>2. /\ heirs' = heirs \ {c} /\ todo' = [todo EXCEPT ![c] = Enum(resources)]
      /\ UNCHANGED <<singular, aborted>>
  BY Leaving
<1>3. /\ resources'.shared = resources.shared \ {c}
      /\ resources'.fd = [resources.fd EXCEPT ![c] = NoFile]
      /\ resources'.dir = resources.dir
      /\ resources' \in Resources
  BY Leaving DEF ClosedBy
<1>4. \/ ready' = ready
      \/ cpc[c] = "command" /\ ready' = ready \cup {SiteOf[c]}
      \/ cpc[c] = "deinit" /\ singular[c] /\ ready' = ready \ {SiteOf[c]}
  BY Leaving
<1>5. \A d \in Conns : cpc'[d] = IF d = c THEN "cleanup" ELSE cpc[d]
  BY <1>1, Known
<1>6. CmdTypeOK'
  <2>1. Enum(resources) \subseteq Sites
    BY DEF Enum
  <2>2. cpc' \in [Conns -> Steps] /\ group' \in [Groups -> Conns \cup {NoConn}]
    BY <1>1, Known DEF Steps
  <2>3. /\ todo' \in [Conns -> SUBSET Sites] /\ heirs' \subseteq Conns /\ aborted' \subseteq Conns
        /\ ready' \subseteq Sites
    BY <1>2, <1>4, <2>1, Known DEF CmdTypeOK
  <2>. QED  BY <1>2, <1>3, <2>2, <2>3, Known DEF CmdTypeOK
<1>7. InsideHasGroup'
  BY <1>1, <1>5, Known, ConnsAssumption DEF InsideHasGroup, Inside
<1>8. Locks'
  <2>1. FilesDiffer'
    BY <1>3 DEF FilesDiffer
  <2>2. OpenHasFile'
    BY <1>3, <1>5, Known DEF OpenHasFile, Opens
  <2>3. SharedIsLocked'
    BY <1>2, <1>3, <1>5, Known DEF SharedIsLocked, Orphaned, Locking
  <2>4. LocksAreSeen'
    BY <1>3, Known DEF LocksAreSeen
  <2>. QED  BY <2>1, <2>2, <2>3, <2>4 DEF Locks
<1>9. SingularHasNoOther'
  BY <1>2, <1>3, <1>5 DEF SingularHasNoOther, Executing
<1>10. ReadyIsKept'
  <2>1. CASE ready \subseteq ready'
    BY <1>2, <1>3, <1>5, <2>1, Known DEF ReadyIsKept
  <2>2. CASE cpc[c] = "deinit" /\ singular[c] /\ ready' = ready \ {SiteOf[c]}
    <3>1. \A e \in resources'.shared : SiteOf[e] # SiteOf[c]
      BY <1>3, <2>2 DEF SingularHasNoOther, Executing
    <3>2. \A d \in Conns : d # c /\ cpc[d] \in Inside => SiteOf[d] # SiteOf[c]
      BY <2>2 DEF InsideHasGroup, Group, Inside
    <3>. QED  BY <1>2, <1>3, <1>5, <2>2, <3>1, <3>2, Known DEF ReadyIsKept, Inside
  <2>. QED  BY <1>4, <2>1, <2>2
<1>. QED  BY <1>6, <1>7, <1>8, <1>9, <1>10 DEF Locks

\* The command of the constructor has set the site up, or another connection had.
LEMMA RunningStep ==
  ASSUME CmdInv, NEW c \in Conns, RunCommand(c)
  PROVE  CmdInv'
<1>. USE DEF CmdInv
<1>1. /\ cpc[c] = "command" /\ cpc' = [cpc EXCEPT ![c] = "lock"]
      /\ ready \subseteq ready' /\ ready' \subseteq ready \cup {SiteOf[c]}
      /\ singular[c] => SiteOf[c] \in ready'
      /\ heirs \subseteq heirs' /\ heirs' \subseteq heirs \cup {c}
      /\ UNCHANGED <<group, resources, singular, aborted, todo>>
  BY DEF RunCommand, Becomes
<1>2. \A d \in Conns : cpc'[d] = IF d = c THEN "lock" ELSE cpc[d]
  BY <1>1, Known
<1>3. CmdTypeOK' /\ InsideHasGroup'
  BY <1>1, <1>2, Known DEF CmdTypeOK, InsideHasGroup, Inside, Steps
<1>4. Locks'
  BY <1>1, <1>2, Known DEF Locks, FilesDiffer, OpenHasFile, SharedIsLocked, LocksAreSeen,
     Orphaned, Opens, Locking
<1>5. SingularHasNoOther' /\ ReadyIsKept'
  BY <1>1, <1>2, Known DEF SingularHasNoOther, ReadyIsKept, Executing
<1>. QED  BY <1>3, <1>4, <1>5 DEF Locks

\* Nobody takes a read lock behind a singular command's back: that needs the group's lock.
LEMMA LockingStep ==
  ASSUME CmdInv, NEW c \in Conns, LockPrivate(c)
  PROVE  CmdInv'
<1>. USE DEF CmdInv
<1>1. /\ cpc[c] = "lock" /\ cpc' = [cpc EXCEPT ![c] = "unlock"]
      /\ UNCHANGED <<group, singular, aborted, heirs, todo, ready>>
  BY DEF LockPrivate, Becomes
<1>2. /\ resources.fd[c] = resources.dir[SiteOf[c]]
      /\ resources.fd[c] # NoFile
  BY <1>1 DEF OpenHasFile, Opens
<1>3. /\ resources'.shared = resources.shared \cup {c}
      /\ resources'.fd = resources.fd
      /\ resources'.dir = resources.dir
      /\ resources' \in Resources
  <2>1. resources \in Resources /\ resources' = LockRead(resources, c)
    BY DEF LockPrivate, CmdTypeOK
  <2>. QED  BY <1>2, <2>1, LockFacts
<1>4. \A d \in Conns : cpc'[d] = IF d = c THEN "unlock" ELSE cpc[d]
  BY <1>1, Known
<1>5. CmdTypeOK' /\ InsideHasGroup'
  BY <1>1, <1>3, <1>4, Known DEF CmdTypeOK, InsideHasGroup, Inside, Steps
<1>6. Locks'
  BY <1>1, <1>2, <1>3, <1>4, Known DEF Locks, FilesDiffer, OpenHasFile, SharedIsLocked,
     LocksAreSeen, Orphaned, Opens, Locking
<1>7. SingularHasNoOther'
  <2>1. \A d \in Conns : d # c /\ Executing(d) => SiteOf[d] # SiteOf[c]
    BY <1>1 DEF InsideHasGroup, Group, Inside, Executing
  <2>. QED  BY <1>1, <1>3, <1>4, <2>1 DEF SingularHasNoOther, Executing
<1>8. ReadyIsKept'
  BY <1>1, <1>3, <1>4 DEF ReadyIsKept
<1>. QED  BY <1>5, <1>6, <1>7, <1>8 DEF Locks

\* The destructor gives up its read lock before it asks whether it is the last.
LEMMA UnlockingStep ==
  ASSUME CmdInv, NEW c \in Conns, UnlockPrivate(c)
  PROVE  CmdInv'
<1>. USE DEF CmdInv
<1>1. /\ cpc[c] = "drop" /\ cpc' = [cpc EXCEPT ![c] = "testAgain"]
      /\ UNCHANGED <<group, singular, aborted, heirs, todo, ready>>
  BY DEF UnlockPrivate, Becomes
<1>2. /\ resources'.shared = resources.shared \ {c}
      /\ resources'.fd = resources.fd
      /\ resources'.dir = resources.dir
      /\ resources' \in Resources
  <2>1. resources \in Resources /\ resources' = UnlockRead(resources, c)
    BY DEF UnlockPrivate, CmdTypeOK
  <2>. QED  BY <2>1, LockFacts
<1>3. \A d \in Conns : cpc'[d] = IF d = c THEN "testAgain" ELSE cpc[d]
  BY <1>1, Known
<1>4. CmdTypeOK' /\ InsideHasGroup'
  BY <1>1, <1>2, <1>3, Known DEF CmdTypeOK, InsideHasGroup, Inside, Steps
<1>5. Locks'
  BY <1>1, <1>2, <1>3, Known DEF Locks, FilesDiffer, OpenHasFile, SharedIsLocked,
     LocksAreSeen, Orphaned, Opens, Locking
<1>6. SingularHasNoOther' /\ ReadyIsKept'
  BY <1>1, <1>2, <1>3 DEF SingularHasNoOther, ReadyIsKept, Executing
<1>. QED  BY <1>4, <1>5, <1>6 DEF Locks

\* ~Cleanup takes no file away that somebody has locked, or is about to lock.
LEMMA CleaningStep ==
  ASSUME CmdInv, NEW c \in Conns, NEW i \in Sites, Cleanup(c, i)
  PROVE  CmdInv'
<1>. USE DEF CmdInv
<1>1. todo' = [todo EXCEPT ![c] = @ \ {i}] /\ UNCHANGED <<cpc, group, singular, aborted, heirs, ready>>
  BY Cleaning
<1>2. \/ UNCHANGED resources
      \/ /\ group[GroupOf[i]] = NoConn
         /\ \A e \in resources.shared : resources.fd[e] # resources.dir[i]
         /\ resources'.shared = resources.shared
         /\ resources'.fd = resources.fd
         /\ resources'.dir = [resources.dir EXCEPT ![i] = NoFile]
         /\ resources' \in Resources
  BY Cleaning
<1>3. CmdTypeOK' /\ InsideHasGroup'
  BY <1>1, <1>2 DEF CmdTypeOK, InsideHasGroup
<1>4. Locks'
  <2>1. CASE UNCHANGED resources
    BY <1>1, <2>1 DEF Locks, FilesDiffer, OpenHasFile, SharedIsLocked, LocksAreSeen, Orphaned
  <2>2. CASE resources' # resources
    <3>1. /\ resources'.shared = resources.shared /\ resources'.fd = resources.fd
          /\ \A s \in Sites : resources'.dir[s] = IF s = i THEN NoFile ELSE resources.dir[s]
          /\ \A e \in resources.shared : resources.fd[e] # resources.dir[i]
      BY <1>2, <2>2, Known
    <3>2. ASSUME NEW d \in Conns, cpc[d] \in Opens PROVE SiteOf[d] # i
      <4>1. CASE d \in resources.shared
        BY <3>1, <3>2, <4>1 DEF OpenHasFile
      <4>2. CASE cpc[d] \in Inside
        BY <1>2, <2>2, <4>2, ConnsAssumption DEF InsideHasGroup, Group
      <4>. QED  BY <3>2, <4>1, <4>2 DEF SharedIsLocked, Opens, Locking, Inside
    <3>3. FilesDiffer'
      BY <3>1 DEF FilesDiffer
    <3>4. OpenHasFile'
      BY <1>1, <3>1, <3>2, Known DEF OpenHasFile
    <3>5. SharedIsLocked' /\ LocksAreSeen'
      BY <1>1, <3>1, Known DEF SharedIsLocked, LocksAreSeen, Orphaned
    <3>. QED  BY <3>3, <3>4, <3>5 DEF Locks
  <2>. QED  BY <2>1, <2>2
<1>5. SingularHasNoOther' /\ ReadyIsKept'
  BY <1>1, <1>2 DEF SingularHasNoOther, ReadyIsKept, Executing
<1>. QED  BY <1>3, <1>4, <1>5 DEF Locks

\* A process that dies, or the last that it left behind, takes its locks along: what it
\* had set up stays.
LEMMA DyingStep ==
  ASSUME CmdInv, NEW c \in Conns, Crash(c) \/ HeirEnds(c)
  PROVE  CmdInv'
<1>. USE DEF CmdInv
<1>1. UNCHANGED <<singular, aborted, todo, ready>>
  BY Dying
<1>2. CASE UNCHANGED <<group, resources>>
  <2>1. \/ cpc' = [cpc EXCEPT ![c] = "dead"] /\ c \in heirs /\ heirs' = heirs
        \/ cpc' = cpc /\ cpc[c] # "dead" /\ heirs' = heirs \ {c}
        \/ cpc' = [cpc EXCEPT ![c] = "dead"] /\ heirs' = heirs /\ c \notin resources.shared
        \/ cpc' = cpc /\ heirs' = heirs \ {c} /\ c \notin resources.shared
    BY <1>2, Dying DEF ClosedBy
  <2>2. \A d \in Conns : cpc'[d] = cpc[d] \/ (d = c /\ cpc'[d] = "dead")
    BY <2>1, Known
  <2>3. CmdTypeOK' /\ InsideHasGroup'
    BY <1>1, <1>2, <2>1, <2>2, Known DEF CmdTypeOK, InsideHasGroup, Inside, Steps
  <2>4. SharedIsLocked'
    BY <1>2, <2>1, <2>2, Known DEF SharedIsLocked, Orphaned, Locking
  <2>5. FilesDiffer' /\ OpenHasFile' /\ LocksAreSeen' /\ SingularHasNoOther' /\ ReadyIsKept'
    BY <1>1, <1>2, <2>2, Known
       DEF FilesDiffer, OpenHasFile, LocksAreSeen, SingularHasNoOther, ReadyIsKept, Opens, Executing
  <2>. QED  BY <2>3, <2>4, <2>5
<1>3. CASE /\ group' = [grp \in Groups |-> IF group[grp] = c THEN NoConn ELSE group[grp]]
           /\ ClosedBy(c)
           /\ \/ cpc' = [cpc EXCEPT ![c] = "dead"] /\ heirs' = heirs
              \/ cpc' = cpc /\ cpc[c] = "dead" /\ heirs' = heirs \ {c}
  <2>1. /\ resources'.shared = resources.shared \ {c}
        /\ resources'.fd = [resources.fd EXCEPT ![c] = NoFile]
        /\ resources'.dir = resources.dir
        /\ resources' \in Resources
    BY <1>3 DEF ClosedBy
  <2>2. \A d \in Conns : cpc'[d] = IF d = c THEN "dead" ELSE cpc[d]
    BY <1>3, Known
  <2>3. CmdTypeOK'
    BY <1>1, <1>3, <2>1, Known DEF CmdTypeOK, Steps
  <2>4. InsideHasGroup'
    BY <1>3, <2>2, Known, ConnsAssumption DEF InsideHasGroup, Inside
  <2>5. FilesDiffer' /\ OpenHasFile' /\ LocksAreSeen'
    BY <2>1, <2>2, Known DEF FilesDiffer, OpenHasFile, LocksAreSeen, Opens
  <2>6. SharedIsLocked'
    BY <1>3, <2>1, <2>2, Known DEF SharedIsLocked, Orphaned, Locking
  <2>7. SingularHasNoOther' /\ ReadyIsKept'
    BY <1>1, <2>1, <2>2 DEF SingularHasNoOther, ReadyIsKept, Executing
  <2>. QED  BY <2>3, <2>4, <2>5, <2>6, <2>7
<1>. QED  BY <1>2, <1>3, Dying

\* In the beginning there are no files.
LEMMA CmdInitInv == CmdInit => CmdInv
<1>. SUFFICES ASSUME CmdInit PROVE CmdInv
  OBVIOUS
<1>1. /\ \A c \in Conns : cpc[c] = "idle"
      /\ \A i \in Sites : resources.dir[i] = NoFile
      /\ resources.shared = {}
  BY DEF CmdInit, NoResources
<1>2. CmdTypeOK
  <2>1. resources \in Resources
    BY DEF CmdInit, NoResources, Resources
  <2>2. singular \in [Conns -> BOOLEAN]
    BY Zenon DEF CmdInit
  <2>. QED  BY <2>1, <2>2 DEF CmdInit, CmdTypeOK, Steps
<1>. QED
  BY <1>1, <1>2 DEF CmdInv, InsideHasGroup, FilesDiffer, OpenHasFile, SharedIsLocked, LocksAreSeen,
     SingularHasNoOther, ReadyIsKept, Inside, Opens, Locking, Executing

\* The steps together.
LEMMA CmdStepInv == CmdInv /\ [CmdNext]_cmdVars => CmdInv'
<1>. SUFFICES ASSUME CmdInv, [CmdNext]_cmdVars PROVE CmdInv'
  OBVIOUS
<1>1. CASE UNCHANGED cmdVars
  BY <1>1 DEF cmdVars, CmdInv, CmdTypeOK, InsideHasGroup, FilesDiffer, OpenHasFile, SharedIsLocked,
     LocksAreSeen, SingularHasNoOther, ReadyIsKept, Orphaned, Executing
<1>2. CASE CmdNext
  BY <1>2, QuietStep, OpeningStep, TellingStep, LeavingStep, RunningStep, LockingStep,
     UnlockingStep, CleaningStep, DyingStep
     DEF CmdNext, Opening, Closing, LeaveStep, Quietly
<1>. QED  BY <1>1, <1>2

-----------------------------------------------------------------------------
(* What follows                                                            *)

\* The invariant holds whatever fails, is aborted or dies.
THEOREM CmdInvariance == CmdSpec => []CmdInv
BY CmdInitInv, CmdStepInv, PTL DEF CmdSpec

\* Connections and files keep to their types.
THEOREM CmdTypeCorrect == CmdSpec => []CmdTypeOK
<1>1. CmdInv => CmdTypeOK
  BY DEF CmdInv
<1>. QED  BY <1>1, CmdInvariance, PTL

\* InitDeinitCmd.cpp:184, 211: a command that was told to be singular stays so while it runs, what
\* the first of a site's connections sets up is there as long as one of them is in use, and
\* all of them lock the one file that has the site's name.
THEOREM LocksKept == CmdSpec => []LocksAreKept
<1>1. CmdInv => LocksAreKept
  <2>. SUFFICES ASSUME CmdInv PROVE LocksAreKept
    OBVIOUS
  <2>. USE DEF CmdInv
  <2>1. SingularLasts
    BY DEF SingularLasts, SingularHasNoOther, SharedIsLocked, Alone, Open_, Locking
  <2>2. ReadyWhileOpen
    BY DEF ReadyWhileOpen, ReadyIsKept, SharedIsLocked, Locking
  <2>. QED  BY <2>1, <2>2 DEF LocksAreKept
<1>. QED  BY <1>1, CmdInvariance, PTL

-----------------------------------------------------------------------------
(* $SINGULAR                                                               *)

\* What it takes for a process to die and leave its locks to another
NoHeirs == "heirs" \in Faults \/ heirs = {}
NoDead == "crash" \in Faults \/ \A c \in Conns : cpc[c] # "dead"

\* Without commands that leave processes behind there are no heirs; without crashes
\* nobody is dead.
LEMMA NoOrphans == CmdSpec => [](NoHeirs /\ NoDead)
<1>1. CmdInit => NoHeirs /\ NoDead
  BY DEF CmdInit, NoHeirs, NoDead
<1>2. CmdInv /\ NoHeirs /\ NoDead /\ [CmdNext]_cmdVars => (NoHeirs /\ NoDead)'
  <2>. SUFFICES ASSUME CmdInv, NoHeirs, NoDead, [CmdNext]_cmdVars PROVE NoHeirs' /\ NoDead'
    OBVIOUS
  <2>1. NoHeirs'
    <3>1. ASSUME NEW c \in Conns, NEW i \in Sites, Cleanup(c, i) PROVE NoHeirs'
      BY <3>1, Cleaning DEF NoHeirs, CmdInv
    <3>2. ASSUME NEW c \in Conns, LeaveStep(c) PROVE NoHeirs'
      BY <3>2, Leaving DEF NoHeirs, CmdInv
    <3>3. ASSUME NEW c \in Conns, RunCommand(c) PROVE NoHeirs'
      BY <3>3 DEF RunCommand, NoHeirs
    <3>4. ASSUME NEW c \in Conns, Crash(c) \/ HeirEnds(c) PROVE NoHeirs'
      BY <3>4 DEF Crash, HeirEnds, NoHeirs
    <3>5. ASSUME NEW c \in Conns,
                 Quietly(c) \/ OpenPrivate(c) \/ PrivateMayTakeWriteLock(c) \/ LockPrivate(c)
                            \/ UnlockPrivate(c)
          PROVE  NoHeirs'
      BY <3>5 DEF NoHeirs, Quietly, Start, LockGroup, ReleaseGroup, Stop, CleanupDone, AbortCmd,
         OpenPrivate, PrivateMayTakeWriteLock, LockPrivate, UnlockPrivate
    <3>. QED
      BY <3>1, <3>2, <3>3, <3>4, <3>5
         DEF CmdNext, Opening, Closing, LeaveStep, Quietly, cmdVars, NoHeirs
  <2>2. NoDead'
    <3>1. cpc' = cpc \/ "crash" \in Faults \/ \E c \in Conns, p \in Steps \ {"dead"} : cpc' = [cpc EXCEPT ![c] = p]
      BY DEF CmdNext, Opening, Closing, Start, LockGroup, ReleaseGroup, Stop, CleanupDone, AbortCmd,
         OpenPrivate, PrivateMayTakeWriteLock, LockPrivate, UnlockPrivate, Refused, CommandFails,
         RunCommandDeinit, CommandDeinitFails, LeaveGroup, RunCommand, Crash, HeirEnds, Cleanup,
         Becomes, cmdVars, Steps, Inside
    <3>. QED  BY <3>1, Known DEF NoDead, CmdInv
  <2>. QED  BY <2>1, <2>2
<1>. QED  BY <1>1, <1>2, CmdInvariance, PTL DEF CmdSpec

\* Only PrivateMayTakeWriteLock begins the execution of a command.
LEMMA OnlyTelling ==
  ASSUME CmdInv, [CmdNext]_cmdVars, NEW c \in Conns, ~Executing(c), Executing(c)'
  PROVE  PrivateMayTakeWriteLock(c)
<1>1. ~UNCHANGED cpc
  BY DEF Executing
<1>2. ASSUME NEW d \in Conns, NEW p \in Steps \ {"command", "deinit"} PROVE cpc' # [cpc EXCEPT ![d] = p]
  BY Known DEF Executing, CmdInv
<1>3. ASSUME NEW d \in Conns, NEW p \in Steps, cpc' = [cpc EXCEPT ![d] = p] PROVE d = c
  BY <1>3, Known DEF Executing, CmdInv
<1>4. \A d \in Conns : PrivateMayTakeWriteLock(d) => d = c
  BY <1>3 DEF PrivateMayTakeWriteLock, Becomes, Steps, Inside
<1>5. \A d \in Conns : ~Quietly(d)
  BY <1>1, <1>2 DEF Quietly, Start, LockGroup, ReleaseGroup, Stop, CleanupDone, AbortCmd, Becomes, Steps, Inside
<1>6. \A d \in Conns : ~OpenPrivate(d) /\ ~LeaveStep(d)
  BY <1>1, <1>2 DEF LeaveStep, OpenPrivate, Refused, CommandFails, RunCommandDeinit,
     CommandDeinitFails, LeaveGroup, Becomes, Steps, Inside
<1>7. \A d \in Conns : ~RunCommand(d) /\ ~LockPrivate(d) /\ ~UnlockPrivate(d)
  BY <1>1, <1>2 DEF RunCommand, LockPrivate, UnlockPrivate, Becomes, Steps, Inside
<1>8. \A d \in Conns : ~Crash(d) /\ ~HeirEnds(d) /\ \A i \in Sites : ~Cleanup(d, i)
  BY <1>1, <1>2 DEF Crash, HeirEnds, Cleanup, Becomes, Steps, Inside
<1>. QED
  BY <1>1, <1>4, <1>5, <1>6, <1>7, <1>8 DEF CmdNext, Opening, Closing, LeaveStep, Quietly, cmdVars

\* It tells by the locks whether c is alone, when nobody has left locks to heirs.
LEMMA TellsTruth ==
  ASSUME CmdInv, NoHeirs, NoDead, ~({"crash", "heirs"} \subseteq Faults),
         NEW c \in Conns, PrivateMayTakeWriteLock(c)
  PROVE  singular'[c] <=> Alone(c)
<1>. USE DEF CmdInv
<1>1. cpc[c] \in {"test", "testAgain"} /\ singular'[c] = MayLockWrite(resources, c, resources.fd[c])
  BY Known DEF PrivateMayTakeWriteLock
<1>2. resources.fd[c] = resources.dir[SiteOf[c]] /\ resources.fd[c] # NoFile
  BY <1>1 DEF OpenHasFile, Opens
<1>3. ASSUME NEW e \in resources.shared, e # c
      PROVE  resources.fd[e] = resources.fd[c] <=> SiteOf[e] = SiteOf[c]
  BY <1>2, Known DEF FilesDiffer, LocksAreSeen
<1>4. ASSUME NEW e \in Conns, e # c, SiteOf[e] = SiteOf[c]
      PROVE  e \in resources.shared <=> Open_(e)
  <2>1. cpc[e] \notin Inside
    BY <1>1, <1>4 DEF InsideHasGroup, Group, Inside
  <2>2. ~Orphaned(e)
    BY DEF Orphaned, NoHeirs, NoDead
  <2>. QED  BY <2>1, <2>2 DEF SharedIsLocked, Open_, Locking, Inside
<1>5. MayLockWrite(resources, c, resources.fd[c]) <=> Alone(c)
  BY <1>3, <1>4, Known DEF MayLockWrite, Alone
<1>. QED  BY <1>1, <1>5

\* helpe.hlf on $SINGULAR, as InitDeinitCmd.cpp:184 finds it out: true if and only if no other
\* connection of any instance has the site open.  With commands that leave processes
\* behind, the crash of an instance can leave a lock that nobody uses.
THEOREM SingularTrue ==
  ASSUME ~({"crash", "heirs"} \subseteq Faults)
  PROVE  CmdSpec => SingularIsTrue
<1>1. CmdInv /\ NoHeirs /\ NoDead /\ [CmdNext]_cmdVars =>
        [\A c \in Conns : ~Executing(c) /\ Executing(c)' => (singular'[c] <=> Alone(c))]_cmdVars
  BY OnlyTelling, TellsTruth
<1>. QED  BY <1>1, CmdInvariance, NoOrphans, PTL DEF CmdSpec, SingularIsTrue

-----------------------------------------------------------------------------
(* The remote host                                                         *)

\* What is said on both sides
TokenKinds ==
  {"cred", "SIMPLE", "ENUM", "GET", "PUT", "NEXT", "STOP", "len", "zero", "buf",
   "HELLO", "OK", "IDENTITY", "AUTH", "PROTOCOL", "GENERIC", "END", "DATA", "EOF", "ERROR"}

Token == [is : TokenKinds, of : 0..1]

\* A token of the last request
Now(k) == [is |-> k, of |-> turn]

Carries(pipe, k) == Len(pipe) = 1 /\ pipe[1] = Now(k)

\* The broker is there, or has been when it died
Is(b) == broker \in {b, "dead"}

\* It has the request k before it, or has given one of the replies
Asked(b, k) == Is(b) /\ Carries(toBroker, k) /\ toMaster = <<>>

Told(b, kinds) == Is(b) /\ toBroker = <<>> /\ \E k \in kinds : Carries(toMaster, k)

Quiet(b) == broker = b /\ toBroker = <<>> /\ toMaster = <<>>

-----------------------------------------------------------------------------
(* The conversation, by what the host is waiting for                       *)

\* While it starts a broker and logs in, whether or not it has been aborted
StartingOK ==
  /\ at \in {"reset", "fresh", "fork", "giveup"} => Quiet("none")
  /\ at \in {"forked", "hello"} =>
       /\ toBroker = <<>>
       /\ \/ Is("start") /\ toMaster = <<>>
          \/ Is("login") /\ Carries(toMaster, "HELLO")
  /\ at \in {"peer", "login"} => Is("login") /\ toBroker = <<>> /\ toMaster = <<>>
  /\ at = "status" =>
       \/ Asked("login", "cred")
       \/ Told("login", {"IDENTITY", "AUTH", "PROTOCOL", "GENERIC"})
       \/ Told("loop", {"OK"})

\* A write that was acknowledged may still be on its way
Written ==
  \/ Quiet("put")
  \/ broker = "buf" /\ Len(toBroker) = 1 /\ toBroker[1].is = "buf" /\ toMaster = <<>>

IdleOK ==
  /\ object = "none" \/ complete => Quiet("loop")
  /\ object = "enumer" /\ ~complete => Quiet("enum")
  /\ object = "reader" /\ ~complete => Quiet("get")
  /\ object = "writer" /\ ~complete => Written

\* The end of a file that is written, with an error that is owed or without
Ending ==
  \/ Is("buf") /\ Len(toBroker) = 2 /\ toBroker[1].is = "buf" /\ toBroker[2] = Now("zero")
       /\ toMaster = <<>>
  \/ Asked("put", "zero")
  \/ Told("loop", {"STOP"}) /\ ~failed
  \/ Told("loop", {"ERROR"})

Writing ==
  \/ Is("buf") /\ Len(toBroker) = 3 /\ toBroker[1].is = "buf" /\ toMaster = <<>>
       /\ toBroker[2] = Now("len") /\ toBroker[3] = Now("buf")
  \/ Is("put") /\ Len(toBroker) = 2 /\ toBroker[1] = Now("len") /\ toBroker[2] = Now("buf")
       /\ toMaster = <<>>
  \/ Is("buf") /\ Carries(toBroker, "buf") /\ Carries(toMaster, "PUT")
  \/ Told("put", {"PUT"})
  \/ Told("loop", {"ERROR"})

CallOK ==
  \/ call = "command" /\ (Asked("loop", "SIMPLE") \/ Told("loop", {"SIMPLE", "ERROR"}))
  \/ call = "openenum" /\ (Asked("loop", "ENUM") \/ Told("enum", {"ENUM"}) \/ Told("loop", {"ERROR"}))
  \/ call = "openget" /\ (Asked("loop", "GET") \/ Told("get", {"GET"}) \/ Told("loop", {"ERROR"}))
  \/ call = "openput" /\ (Asked("loop", "PUT") \/ (Told("put", {"PUT"}) /\ ~failed)
                                               \/ Told("loop", {"ERROR"}))
  \/ call = "item" /\ (Asked("enum", "NEXT") \/ Told("enum", {"NEXT"}) \/ Told("loop", {"END", "ERROR"}))
  \/ call = "read" /\ (Asked("get", "len") \/ Told("get", {"DATA"}) \/ Told("loop", {"EOF", "ERROR"}))
  \/ call = "write" /\ Writing
  \/ call = "complete" /\ Ending
  \/ call = "close" /\ object = "enumer" /\ (Asked("enum", "STOP") \/ Told("loop", {"STOP", "ERROR"}))
  \/ call = "close" /\ object = "reader" /\ (Asked("get", "zero") \/ Told("loop", {"STOP"}))
  \/ call = "close" /\ object = "writer" /\ Ending

-----------------------------------------------------------------------------
\* Which object is open during which call
ObjectOK ==
  /\ at = "call" <=> call \in DOMAIN Answers
  /\ at \in Starting <=> call = "init"
  /\ at \in Starting => object = "none"
  /\ call \in {"openenum", "openget", "openput"} => object = "none"
  /\ call = "command" => object = "none" \/ (object = "reader" /\ complete)
  /\ call = "item" => object = "enumer" /\ ~complete
  /\ call = "read" => object = "reader" /\ ~complete
  /\ call = "write" => object = "writer" /\ ~complete
  /\ call = "complete" => object = "writer" /\ complete
  /\ call = "close" => object # "none" /\ complete
  /\ object = "none" => ~complete
  /\ confirmed => object = "writer"

PipesOK ==
  /\ toBroker \in Seq(Token) /\ toMaster \in Seq(Token)
  /\ broker = "none" => toMaster = <<>>

\* Once nothing can be heard any more, what is said does not matter
TalkOK ==
  /\ StartingOK
  /\ at = "idle" /\ ~Deaf => IdleOK
  /\ at = "call" /\ ~Deaf => CallOK

\* What InStep says of a reply that is left when nobody replies any more
SilentOK == at = "idle" /\ ~pipeCut => toMaster = <<>>

\* The broker that is about to be started is one of those that may be
MayStart == at \in {"reset", "fresh", "fork"} => session < MaxSessions

HostInv == HostTypeOK /\ MayStart /\ ObjectOK /\ PipesOK /\ TalkOK /\ SilentOK

USE RemoteHostAssumption

-----------------------------------------------------------------------------
(* What is put into the pipes and taken out of them                        *)

\* Tokens of one kind or of two, as sequences.
LEMMA TokensAre ==
  ASSUME NEW n \in 0..1, NEW j \in TokenKinds, NEW k \in TokenKinds
  PROVE  /\ Tokens(<<>>, n) = <<>>
         /\ Tokens(<<j>>, n) = <<[is |-> j, of |-> n]>>
         /\ Tokens(<<j, k>>, n) = <<[is |-> j, of |-> n], [is |-> k, of |-> n]>>
BY DEF Tokens

\* A sequence with one element more, or two.
LEMMA Longer ==
  ASSUME NEW S, NEW q \in Seq(S), NEW x \in S
  PROVE  /\ q \o <<x>> \in Seq(S) /\ Len(q) \in Nat
         /\ Len(q \o <<x>>) = Len(q) + 1
         /\ \A i \in 1..Len(q) : (q \o <<x>>)[i] = q[i]
         /\ (q \o <<x>>)[Len(q) + 1] = x
OBVIOUS

\* SendCommand and its arguments go into the pipe as two tokens: the ones already
\* there keep their places.
LEMMA LongerByTwo ==
  ASSUME NEW S, NEW q \in Seq(S), NEW x \in S, NEW y \in S
  PROVE  /\ q \o <<x, y>> \in Seq(S) /\ Len(q) \in Nat
         /\ Len(q \o <<x, y>>) = Len(q) + 2
         /\ \A i \in 1..Len(q) : (q \o <<x, y>>)[i] = q[i]
         /\ (q \o <<x, y>>)[Len(q) + 1] = x
         /\ (q \o <<x, y>>)[Len(q) + 2] = y
OBVIOUS

\* A sequence without the first n elements.
LEMMA Shorter ==
  ASSUME NEW S, NEW q \in Seq(S), NEW n \in Nat, n <= Len(q)
  PROVE  /\ SubSeq(q, n + 1, Len(q)) \in Seq(S)
         /\ Len(SubSeq(q, n + 1, Len(q))) = Len(q) - n
         /\ \A i \in 1..(Len(q) - n) : SubSeq(q, n + 1, Len(q))[i] = q[i + n]
<1>1. Len(q) \in Nat
  OBVIOUS
<1>2. SubSeq(q, n + 1, Len(q)) \in Seq(S) /\ Len(SubSeq(q, n + 1, Len(q))) = Len(q) - n
  BY <1>1
<1>3. ASSUME NEW i \in 1..(Len(q) - n) PROVE SubSeq(q, n + 1, Len(q))[i] = q[i + n]
  <2>1. i \in 1..(Len(q) - (n + 1) + 1) /\ i + n = (n + 1) + i - 1
    BY <1>1
  <2> QED BY <1>1, <2>1
<1> QED BY <1>2, <1>3

\* One token after the others.
LEMMA PutOne ==
  ASSUME NEW q \in Seq(Token), NEW n \in 0..1, NEW k \in TokenKinds
  PROVE  /\ q \o Tokens(<<k>>, n) \in Seq(Token)
         /\ Len(q \o Tokens(<<k>>, n)) = Len(q) + 1
         /\ \A i \in 1..Len(q) : (q \o Tokens(<<k>>, n))[i] = q[i]
         /\ (q \o Tokens(<<k>>, n))[Len(q) + 1] = [is |-> k, of |-> n]
<1> DEFINE x == [is |-> k, of |-> n]
<1>1. Tokens(<<k>>, n) = <<x>>
  BY TokensAre
<1>2. x \in Token
  BY DEF Token
<1> HIDE DEF x
<1>3. /\ q \o <<x>> \in Seq(Token)
      /\ Len(q \o <<x>>) = Len(q) + 1
      /\ \A i \in 1..Len(q) : (q \o <<x>>)[i] = q[i]
      /\ (q \o <<x>>)[Len(q) + 1] = x
  BY <1>2, Longer
<1> QED BY ONLY <1>1, <1>3 DEF x

\* What the host says is put after what it has said.
LEMMA SayOne ==
  ASSUME PipesOK, NEW n \in 0..1, NEW k \in TokenKinds, toBroker' = toBroker \o Tokens(<<k>>, n)
  PROVE  /\ toBroker' \in Seq(Token) /\ Len(toBroker') = Len(toBroker) + 1 /\ Len(toBroker) \in Nat
         /\ \A i \in 1..Len(toBroker) : toBroker'[i] = toBroker[i]
         /\ toBroker'[Len(toBroker) + 1] = [is |-> k, of |-> n]
<1>1. toBroker \in Seq(Token)
  BY DEF PipesOK
<1>2. Len(toBroker) \in Nat
  BY <1>1
<1> QED BY <1>1, <1>2, PutOne

\* An operation that writes a command and then one block of arguments puts two
\* tokens of one exchange behind what the broker has not read yet.
LEMMA SayTwo ==
  ASSUME PipesOK, NEW n \in 0..1, NEW j \in TokenKinds, NEW k \in TokenKinds,
         toBroker' = toBroker \o Tokens(<<j, k>>, n)
  PROVE  /\ toBroker' \in Seq(Token) /\ Len(toBroker') = Len(toBroker) + 2 /\ Len(toBroker) \in Nat
         /\ \A i \in 1..Len(toBroker) : toBroker'[i] = toBroker[i]
         /\ toBroker'[Len(toBroker) + 1] = [is |-> j, of |-> n]
         /\ toBroker'[Len(toBroker) + 2] = [is |-> k, of |-> n]
<1>1. toBroker \in Seq(Token)
  BY DEF PipesOK
<1>2. Len(toBroker) \in Nat
  BY <1>1
<1> DEFINE x == [is |-> j, of |-> n]
           y == [is |-> k, of |-> n]
<1>3. toBroker' = toBroker \o <<x, y>>
  BY TokensAre
<1>4. x \in Token /\ y \in Token
  BY DEF Token
<1> HIDE DEF x, y
<1>5. /\ toBroker \o <<x, y>> \in Seq(Token) /\ Len(toBroker \o <<x, y>>) = Len(toBroker) + 2
      /\ \A i \in 1..Len(toBroker) : (toBroker \o <<x, y>>)[i] = toBroker[i]
      /\ (toBroker \o <<x, y>>)[Len(toBroker) + 1] = x
      /\ (toBroker \o <<x, y>>)[Len(toBroker) + 2] = y
  BY <1>1, <1>4, LongerByTwo
<1> QED BY ONLY <1>2, <1>3, <1>5 DEF x, y

\* The broker takes one token and replies to it.
LEMMA ServeOne ==
  ASSUME PipesOK, NEW k \in TokenKinds, NEW r \in TokenKinds, NEW p, Serve(<<k>>, <<r>>, p)
  PROVE  /\ Len(toBroker) \in Nat /\ Len(toBroker) >= 1 /\ toBroker[1].is = k
         /\ toBroker' \in Seq(Token) /\ toMaster' \in Seq(Token) /\ broker' = p
         /\ Len(toBroker') = Len(toBroker) - 1
         /\ \A i \in 1..(Len(toBroker) - 1) : toBroker'[i] = toBroker[i + 1]
         /\ toMaster' # <<>>
         /\ toMaster = <<>> => Len(toMaster') = 1 /\ toMaster'[1] = [is |-> r, of |-> toBroker[1].of]
<1>1. toBroker \in Seq(Token) /\ toMaster \in Seq(Token)
  BY DEF PipesOK
<1>2. /\ Len(toBroker) \in Nat /\ Len(toBroker) >= 1 /\ toBroker[1].is = k
      /\ toBroker' = SubSeq(toBroker, 2, Len(toBroker)) /\ broker' = p
      /\ toMaster' = toMaster \o Tokens(<<r>>, toBroker[1].of)
  <2> DEFINE kinds == <<k>>
  <2>1. Len(kinds) = 1 /\ 1 \in DOMAIN kinds /\ kinds[1] = k
    OBVIOUS
  <2>2. Len(toBroker) \in Nat
    BY <1>1
  <2>3. Serve(kinds, <<r>>, p)
    OBVIOUS
  <2> HIDE DEF kinds
  <2> QED BY ONLY <2>1, <2>2, <2>3 DEF Serve
<1>3. toBroker[1] \in Token
  BY <1>1, <1>2
<1>4. toBroker[1].of \in 0..1
  BY <1>3 DEF Token
<1>5. /\ toBroker' \in Seq(Token) /\ Len(toBroker') = Len(toBroker) - 1
      /\ \A i \in 1..(Len(toBroker) - 1) : toBroker'[i] = toBroker[i + 1]
  BY <1>1, <1>2
<1>6. /\ toMaster' \in Seq(Token) /\ Len(toMaster') = Len(toMaster) + 1
      /\ toMaster'[Len(toMaster) + 1] = [is |-> r, of |-> toBroker[1].of]
  <2>1. PICK n \in 0..1 : n = toBroker[1].of
    BY <1>4
  <2>2. toMaster' = toMaster \o Tokens(<<r>>, n)
    BY <1>2, <2>1
  <2>3. /\ toMaster \o Tokens(<<r>>, n) \in Seq(Token)
        /\ Len(toMaster \o Tokens(<<r>>, n)) = Len(toMaster) + 1
        /\ (toMaster \o Tokens(<<r>>, n))[Len(toMaster) + 1] = [is |-> r, of |-> n]
    BY <1>1, PutOne
  <2> QED BY ONLY <2>1, <2>2, <2>3
<1>7. toMaster' # <<>>
  BY <1>1, <1>6
<1> QED BY <1>1, <1>2, <1>5, <1>6, <1>7

\* ... or the length and the data of a write that it refuses ...
LEMMA ServeTwo ==
  ASSUME PipesOK, NEW j \in TokenKinds, NEW k \in TokenKinds, NEW r \in TokenKinds, NEW p, Serve(<<j, k>>, <<r>>, p)
  PROVE  /\ Len(toBroker) \in Nat /\ Len(toBroker) >= 2 /\ toBroker[1].is = j /\ toBroker[2].is = k
         /\ toBroker' \in Seq(Token) /\ toMaster' \in Seq(Token) /\ broker' = p
         /\ Len(toBroker') = Len(toBroker) - 2
         /\ \A i \in 1..(Len(toBroker) - 2) : toBroker'[i] = toBroker[i + 2]
         /\ toMaster' # <<>>
         /\ toMaster = <<>> => Len(toMaster') = 1 /\ toMaster'[1] = [is |-> r, of |-> toBroker[1].of]
<1>1. toBroker \in Seq(Token) /\ toMaster \in Seq(Token)
  BY DEF PipesOK
<1>2. /\ Len(toBroker) \in Nat /\ Len(toBroker) >= 2 /\ toBroker[1].is = j /\ toBroker[2].is = k
      /\ toBroker' = SubSeq(toBroker, 3, Len(toBroker)) /\ broker' = p
      /\ toMaster' = toMaster \o Tokens(<<r>>, toBroker[1].of)
  <2>1. /\ Len(<<j, k>>) = 2 /\ 1 \in DOMAIN <<j, k>> /\ 2 \in DOMAIN <<j, k>>
        /\ <<j, k>>[1] = j /\ <<j, k>>[2] = k
    OBVIOUS
  <2> QED BY <1>1, <2>1 DEF Serve
<1>3. toBroker[1] \in Token
  BY <1>1, <1>2
<1>4. toBroker[1].of \in 0..1
  BY <1>3 DEF Token
<1>5. /\ toBroker' \in Seq(Token) /\ Len(toBroker') = Len(toBroker) - 2
      /\ \A i \in 1..(Len(toBroker) - 2) : toBroker'[i] = toBroker[i + 2]
  <2>1. 2 \in Nat /\ 2 <= Len(toBroker) /\ toBroker' = SubSeq(toBroker, 2 + 1, Len(toBroker))
    BY <1>2
  <2> QED BY <1>1, <2>1, Shorter
<1>6. /\ toMaster' \in Seq(Token) /\ Len(toMaster') = Len(toMaster) + 1
      /\ toMaster'[Len(toMaster) + 1] = [is |-> r, of |-> toBroker[1].of]
  <2>1. PICK n \in 0..1 : n = toBroker[1].of
    BY <1>4
  <2>2. toMaster' = toMaster \o Tokens(<<r>>, n)
    BY <1>2, <2>1
  <2>3. /\ toMaster \o Tokens(<<r>>, n) \in Seq(Token)
        /\ Len(toMaster \o Tokens(<<r>>, n)) = Len(toMaster) + 1
        /\ (toMaster \o Tokens(<<r>>, n))[Len(toMaster) + 1] = [is |-> r, of |-> n]
    BY <1>1, PutOne
  <2> QED BY ONLY <2>1, <2>2, <2>3
<1>7. toMaster' # <<>>
  BY <1>1, <1>6
<1> QED BY <1>1, <1>2, <1>5, <1>6, <1>7

\* ... or the data, which it has replied to already.
LEMMA ServeData ==
  ASSUME PipesOK, NEW k \in TokenKinds, NEW p, Serve(<<k>>, <<>>, p)
  PROVE  /\ Len(toBroker) \in Nat /\ Len(toBroker) >= 1 /\ toBroker[1].is = k
         /\ toBroker' \in Seq(Token) /\ toMaster' = toMaster /\ broker' = p
         /\ Len(toBroker') = Len(toBroker) - 1
         /\ \A i \in 1..(Len(toBroker) - 1) : toBroker'[i] = toBroker[i + 1]
<1>1. toBroker \in Seq(Token) /\ toMaster \in Seq(Token)
  BY DEF PipesOK
<1>2. /\ Len(toBroker) \in Nat /\ Len(toBroker) >= 1 /\ toBroker[1].is = k
      /\ toBroker' = SubSeq(toBroker, 2, Len(toBroker)) /\ broker' = p
      /\ toMaster' = toMaster \o Tokens(<<>>, toBroker[1].of)
  BY <1>1 DEF Serve
<1>3. Tokens(<<>>, toBroker[1].of) = <<>>
  BY DEF Tokens
<1>4. toMaster \o <<>> = toMaster
  BY <1>1
<1>5. toMaster' = toMaster
  BY ONLY <1>2, <1>3, <1>4
<1>6. /\ toBroker' \in Seq(Token) /\ Len(toBroker') = Len(toBroker) - 1
      /\ \A i \in 1..(Len(toBroker) - 1) : toBroker'[i] = toBroker[i + 1]
  BY <1>1, <1>2
<1> QED BY <1>2, <1>5, <1>6

\* The host takes a reply.
LEMMA HeardOne ==
  ASSUME PipesOK, NEW kinds, Heard(kinds)
  PROVE  /\ ~pipeCut /\ ~Deaf /\ toMaster' \in Seq(Token) /\ Len(toMaster) \in Nat /\ Len(toMaster) >= 1
         /\ toMaster[1].is \in kinds
         /\ Len(toMaster) = 1 => toMaster' = <<>>
<1>1. toMaster \in Seq(Token) /\ toMaster # <<>> /\ toMaster' = Tail(toMaster) /\ ~pipeCut
      /\ Head(toMaster).is \in kinds
  BY DEF PipesOK, Heard
<1>2. ~Deaf
  BY <1>1 DEF Deaf
<1>3. /\ Len(toMaster) \in Nat /\ Len(toMaster) >= 1 /\ Head(toMaster) = toMaster[1]
      /\ toMaster' \in Seq(Token)
      /\ Len(toMaster) = 1 => Len(toMaster') = 0
  BY <1>1
<1> QED BY <1>1, <1>2, <1>3


-----------------------------------------------------------------------------
(* Types                                                                   *)

\* The calls, and what the broker may expect.
LEMMA Domains ==
  /\ DOMAIN Answers = {"command", "openenum", "openget", "openput", "item", "read", "write",
                       "complete", "close"}
  /\ DOMAIN Expects = {"login", "loop", "enum", "get", "put", "buf"}
  /\ DOMAIN ObjectOpened = {"openenum", "openget", "openput"}
  /\ DOMAIN Requests = {"command", "openenum", "openget", "openput"}
BY DEF Answers, Expects, ObjectOpened, Requests

\* The types of the host in three parts.
Places ==
  /\ at \in Starting \cup {"call", "idle"}
  /\ call \in DOMAIN Answers \cup {"init", "none"}
  /\ object \in {"none", "enumer", "reader", "writer"}
  /\ broker \in DOMAIN Expects \cup {"start", "none", "dead"}
  /\ aborter \in {"take", "cut", "kill", "idle"}
  /\ at = "idle" <=> call = "none"

Numbers ==
  /\ turn \in 0..1 /\ session \in 0..MaxSessions /\ peer \in 0..session
  /\ failures \in 0..MaxFailures /\ taken \in 0..session /\ aborts \in 0..MaxAborts

Flags ==
  /\ complete \in BOOLEAN /\ confirmed \in BOOLEAN
  /\ hostAborted \in BOOLEAN /\ pipeCut \in BOOLEAN /\ asks \in BOOLEAN
  /\ failed \in BOOLEAN /\ hit \in BOOLEAN

\* The types of the two ends, by where each is, what it counts and what it has noted.
LEMMA TypesAre ==
  /\ HostTypeOK <=> Places /\ Numbers /\ Flags
  /\ HostTypeOK' <=> Places' /\ Numbers' /\ Flags'
<1>1. /\ Flags <=> {complete, confirmed} \subseteq BOOLEAN
                   /\ {hostAborted, pipeCut, asks, failed, hit} \subseteq BOOLEAN
      /\ Flags' <=> {complete', confirmed'} \subseteq BOOLEAN
                    /\ {hostAborted', pipeCut', asks', failed', hit'} \subseteq BOOLEAN
  BY Zenon DEF Flags
<1>2. HostTypeOK <=> Places /\ Numbers /\ Flags
  BY ONLY <1>1 DEF HostTypeOK, Places, Numbers
<1>3. HostTypeOK' <=> Places' /\ Numbers' /\ Flags'
  BY ONLY <1>1 DEF HostTypeOK, Places, Numbers
<1> QED BY <1>2, <1>3

\* The host's own thread keeps the types while it starts a broker and logs in.
LEMMA StartType ==
  ASSUME HostTypeOK, MayStart,
         \/ ReInitialize \/ DropPeer \/ Fresh \/ Fork \/ InitCommand \/ Plug \/ Hello \/ SetPeer
         \/ Login \/ LoggedIn \/ LoginAgain \/ LoginRefused \/ LoginLost
  PROVE  HostTypeOK' /\ MayStart'
<1>0. Places /\ Numbers /\ Flags
  BY TypesAre
<1>1. Places'
  <2> USE <1>0, Domains DEF Places, Starting, client, login, pipes, other, Return, Unplug
  <2>1. CASE ReInitialize BY <2>1 DEF ReInitialize
  <2>2. CASE DropPeer BY <2>2 DEF DropPeer
  <2>3. CASE Fresh BY <2>3 DEF Fresh
  <2>4. CASE Fork BY <2>4 DEF Fork
  <2>5. CASE InitCommand BY <2>5 DEF InitCommand
  <2>6. CASE Plug BY <2>6 DEF Plug
  <2>7. CASE Hello BY <2>7 DEF Hello
  <2>8. CASE SetPeer BY <2>8 DEF SetPeer
  <2>9. CASE Login BY <2>9 DEF Login
  <2>10. CASE LoggedIn BY <2>10 DEF LoggedIn
  <2>11. CASE LoginAgain BY <2>11 DEF LoginAgain
  <2>12. CASE LoginRefused BY <2>12 DEF LoginRefused
  <2>13. CASE LoginLost BY <2>13 DEF LoginLost
  <2> QED BY <2>1, <2>2, <2>3, <2>4, <2>5, <2>6, <2>7, <2>8, <2>9, <2>10, <2>11, <2>12, <2>13
<1>2. Numbers' /\ MayStart'
  <2> USE <1>0 DEF Numbers, MayStart, Return, client, login, pipes, other
  <2>1. CASE ReInitialize BY <2>1 DEF ReInitialize
  <2>2. CASE DropPeer BY <2>2 DEF DropPeer
  <2>3. CASE Fresh BY <2>3 DEF Fresh
  <2>4. CASE Fork BY <2>4 DEF Fork
  <2>5. CASE InitCommand BY <2>5 DEF InitCommand
  <2>6. CASE Plug BY <2>6 DEF Plug
  <2>7. CASE Hello BY <2>7 DEF Hello
  <2>8. CASE SetPeer BY <2>8 DEF SetPeer
  <2>9. CASE Login BY <2>9 DEF Login
  <2>10. CASE LoggedIn BY <2>10 DEF LoggedIn
  <2>11. CASE LoginAgain BY <2>11 DEF LoginAgain
  <2>12. CASE LoginRefused BY <2>12 DEF LoginRefused
  <2>13. CASE LoginLost BY <2>13 DEF LoginLost
  <2> QED BY <2>1, <2>2, <2>3, <2>4, <2>5, <2>6, <2>7, <2>8, <2>9, <2>10, <2>11, <2>12, <2>13
<1>3. Flags'
  <2> USE <1>0 DEF Flags, client, login, pipes, other, Return, Unplug
  <2>1. CASE ReInitialize BY <2>1, Zenon DEF ReInitialize
  <2>2. CASE DropPeer BY <2>2, Zenon DEF DropPeer
  <2>3. CASE Fresh BY <2>3, Zenon DEF Fresh
  <2>4. CASE Fork BY <2>4, Zenon DEF Fork
  <2>5. CASE InitCommand BY <2>5, Zenon DEF InitCommand
  <2>6. CASE Plug BY <2>6, Zenon DEF Plug
  <2>7. CASE Hello BY <2>7, Zenon DEF Hello
  <2>8. CASE SetPeer BY <2>8, Zenon DEF SetPeer
  <2>9. CASE Login BY <2>9, Zenon DEF Login
  <2>10. CASE LoggedIn BY <2>10, Zenon DEF LoggedIn
  <2>11. CASE LoginAgain BY <2>11, Zenon DEF LoginAgain
  <2>12. CASE LoginRefused BY <2>12, Zenon DEF LoginRefused
  <2>13. CASE LoginLost BY <2>13, Zenon DEF LoginLost
  <2> QED BY <2>1, <2>2, <2>3, <2>4, <2>5, <2>6, <2>7, <2>8, <2>9, <2>10, <2>11, <2>12, <2>13
<1> QED BY <1>1, <1>2, <1>3, TypesAre

\* Calls and their replies keep the types.
LEMMA CallType ==
  ASSUME HostTypeOK, Call \/ Receive
  PROVE  HostTypeOK' /\ MayStart'
<1>0. Places /\ Numbers /\ Flags
  BY TypesAre
<1>1. CASE Call
  <2>1. /\ UNCHANGED <<hit, session, peer, hostAborted, pipeCut, asks, failures, broker, failed,
                       aborter, taken, aborts>>
        /\ confirmed' = (confirmed /\ object' = "writer")
        /\ Command \/ Use \/ WriteComplete \/ DestroyObject
    BY <1>1 DEF Call, login, other
  <2>2. Places' /\ turn' \in 0..1
    <3> USE <1>0, <2>1, Domains DEF Places, Numbers, Starting, Ask
    <3>1. CASE Command BY <3>1 DEF Command
    <3>2. CASE Use BY <3>2 DEF Use
    <3>3. CASE WriteComplete BY <3>3 DEF WriteComplete
    <3>4. CASE DestroyObject BY <3>4 DEF DestroyObject
    <3> QED BY <3>1, <3>2, <3>3, <3>4
  <2>3. complete' \in BOOLEAN
    BY <1>0, <2>1, Zenon DEF Command, Use, WriteComplete, DestroyObject, Flags
  <2>4. Numbers'
    BY <1>0, <2>1, <2>2 DEF Numbers
  <2>5. Flags'
    BY <1>0, <2>1, <2>3, Zenon DEF Flags
  <2>6. MayStart'
    <3>1. at' \in {"idle", "call"}
      BY <2>1 DEF Command, Use, WriteComplete, DestroyObject, Ask
    <3> QED BY <3>1 DEF MayStart
  <2> QED BY <2>2, <2>4, <2>5, <2>6, TypesAre
<1>2. CASE Receive
  <2>1. /\ UNCHANGED <<turn, session, peer, hostAborted, pipeCut, asks, failures, broker, failed,
                       aborter, taken, aborts>>
        /\ at' = "idle" /\ call' = "none" /\ hit' = FALSE
        /\ Replied \/ Thrown
    BY <1>2 DEF Receive, Replied, Thrown, Return, login, other
  <2>2. object' \in {"none", "enumer", "reader", "writer"}
    <3>1. object' \in {"enumer", "reader", "writer"} \/ Dropped
      <4>1. \A c \in DOMAIN ObjectOpened : ObjectOpened[c] \in {"enumer", "reader", "writer"}
        BY DEF ObjectOpened
      <4> QED BY <2>1, <4>1, Zenon DEF Replied, Thrown
    <3> QED BY <1>0, <3>1 DEF Dropped, Places
  <2>3. complete' \in BOOLEAN /\ confirmed' \in BOOLEAN
    BY <2>1, Zenon DEF Replied, Thrown
  <2>4. Places' /\ Numbers'
    BY <1>0, <2>1, <2>2 DEF Places, Numbers
  <2>5. Flags'
    BY <1>0, <2>1, <2>3, Zenon DEF Flags
  <2>6. MayStart'
    BY <2>1 DEF MayStart
  <2> QED BY <2>4, <2>5, <2>6, TypesAre
<1> QED BY <1>1, <1>2

\* Abort and the broker keep the types.
LEMMA OtherType ==
  ASSUME HostTypeOK, MayStart, Abort \/ Aborting \/ Broker
  PROVE  HostTypeOK' /\ MayStart'
<1>0. Places /\ Numbers /\ Flags
  BY TypesAre
<1>1. CASE Abort \/ Aborting
  <2>1. Places'
    BY <1>0, <1>1, Domains DEF Places, Abort, Aborting, TakePeer, AbortReceiving, Kill, client
  <2>2. Numbers'
    BY <1>0, <1>1 DEF Numbers, Abort, Aborting, TakePeer, AbortReceiving, Kill, client, login, other
  <2>3. Flags'
    <3>1. UNCHANGED <<complete, confirmed, asks, failed>>
      BY <1>1 DEF Abort, Aborting, TakePeer, AbortReceiving, Kill, client, login
    <3>2. hostAborted' \in BOOLEAN /\ pipeCut' \in BOOLEAN /\ hit' \in BOOLEAN
      BY <1>0, <1>1, Zenon DEF Abort, Aborting, TakePeer, AbortReceiving, Kill, client, Flags
    <3> QED BY <1>0, <3>1, <3>2, Zenon DEF Flags
  <2>4. MayStart'
    BY <1>1 DEF MayStart, Abort, Aborting, TakePeer, AbortReceiving, Kill
  <2> QED BY <2>1, <2>2, <2>3, <2>4, TypesAre
<1>2. CASE Broker
  <2>1. /\ UNCHANGED <<at, call, object, complete, confirmed, turn, hit, session, peer,
                       hostAborted, pipeCut, asks, failures, aborter, taken, aborts>>
        /\ \/ Greet \/ InitConnection \/ OnCommand \/ OnDirectoryEnum \/ OnFileGet
           \/ ReportFailedWrite \/ OnFilePut \/ DoWrite \/ Die
    BY <1>2 DEF Broker, client, login, other
  <2>2. broker' \in DOMAIN Expects \cup {"start", "none", "dead"}
    BY <2>1, Domains DEF Greet, InitConnection, OnCommand, OnDirectoryEnum, OnFileGet,
                ReportFailedWrite, OnFilePut, DoWrite, Die, Serve, Expects
  <2>3. failed' \in BOOLEAN
    BY <1>0, <2>1, Zenon DEF Flags, Greet, InitConnection, OnCommand, OnDirectoryEnum, OnFileGet,
                ReportFailedWrite, OnFilePut, DoWrite, Die
  <2>4. Places' /\ Numbers'
    BY <1>0, <2>1, <2>2 DEF Places, Numbers
  <2>5. Flags'
    BY <1>0, <2>1, <2>3, Zenon DEF Flags
  <2>6. MayStart'
    BY <2>1 DEF MayStart
  <2> QED BY <2>4, <2>5, <2>6, TypesAre
<1> QED BY <1>1, <1>2

-----------------------------------------------------------------------------
(* ReInitialize                                                            *)

\* The pipes of a broker that is dropped are empty.
LEMMA Unplugged ==
  ASSUME HostTypeOK, Unplug
  PROVE  PipesOK' /\ Quiet("none")' /\ ~failed' /\ ~pipeCut' /\ Deaf'
BY DEF Unplug, PipesOK, Quiet, Deaf

\* A new broker is started, up to the time when the two talk to each other.
LEMMA StartStep ==
  ASSUME HostInv, \/ ReInitialize \/ DropPeer \/ Fresh \/ Fork \/ InitCommand \/ Plug
  PROVE  ObjectOK' /\ PipesOK' /\ TalkOK' /\ SilentOK'
<1> USE DEF HostInv, ObjectOK, Starting, Answers, client, pipes, Return
<1>1. CASE ReInitialize
  <2>1. ObjectOK'
    BY <1>1 DEF ReInitialize
  <2>2. at' = "reset" /\ PipesOK' /\ Quiet("none")'
    BY <1>1, Unplugged DEF ReInitialize
  <2> QED BY <2>1, <2>2 DEF TalkOK, StartingOK, SilentOK
<1>2. CASE DropPeer
  <2>1. ObjectOK'
    BY <1>2 DEF DropPeer
  <2>2. at' \in {"fresh", "idle"} /\ Quiet("none") /\ UNCHANGED <<broker, toBroker, toMaster, pipeCut>>
    BY <1>2 DEF DropPeer, TalkOK, StartingOK
  <2>3. PipesOK' /\ Quiet("none")' /\ Deaf'
    BY <2>2 DEF PipesOK, Quiet, Deaf
  <2> QED BY <2>1, <2>2, <2>3 DEF TalkOK, StartingOK, SilentOK, Quiet
<1>3. CASE Fresh
  <2>1. ObjectOK'
    BY <1>3 DEF Fresh
  <2>2. at' = "fork" /\ Quiet("none") /\ UNCHANGED <<broker, toBroker, toMaster, pipeCut>>
    BY <1>3 DEF Fresh, TalkOK, StartingOK
  <2>3. PipesOK' /\ Quiet("none")'
    BY <2>2 DEF PipesOK, Quiet
  <2> QED BY <2>1, <2>2, <2>3 DEF TalkOK, StartingOK, SilentOK
<1>4. CASE Fork
  <2>1. ObjectOK'
    BY <1>4 DEF Fork
  <2>2. at' = "forked" /\ Quiet("none") /\ UNCHANGED <<toBroker, toMaster, pipeCut>> /\ broker' = "start"
    BY <1>4 DEF Fork, TalkOK, StartingOK
  <2>3. PipesOK' /\ Is("start")' /\ toBroker' = <<>> /\ toMaster' = <<>>
    BY <2>2 DEF PipesOK, Quiet, Is
  <2> QED BY <2>1, <2>2, <2>3 DEF TalkOK, StartingOK, SilentOK
<1>5. CASE InitCommand
  <2>1. ObjectOK'
    BY <1>5 DEF InitCommand
  <2>2. at' = "idle" /\ broker' = "none" /\ toMaster' = <<>> /\ UNCHANGED <<toBroker, pipeCut>>
    BY <1>5 DEF InitCommand
  <2>3. PipesOK' /\ Deaf'
    BY <2>2 DEF PipesOK, Deaf
  <2> QED BY <2>1, <2>2, <2>3 DEF TalkOK, StartingOK, SilentOK
<1>6. CASE Plug
  <2>1. ObjectOK'
    BY <1>6 DEF Plug
  <2>2. at = "forked" /\ at' = "hello" /\ UNCHANGED <<broker, toBroker, toMaster, turn>>
    BY <1>6 DEF Plug
  <2>3. PipesOK'
    BY <2>2 DEF PipesOK
  <2> QED BY <2>1, <2>2, <2>3 DEF TalkOK, StartingOK, SilentOK, Is, Carries, Now
<1> QED BY <1>1, <1>2, <1>3, <1>4, <1>5, <1>6

\* What the host does to the pipes while it logs in.
LEMMA LoginStep ==
  ASSUME HostInv, \/ Hello \/ SetPeer \/ Login \/ LoggedIn \/ LoginAgain \/ LoginRefused \/ LoginLost
  PROVE  ObjectOK' /\ PipesOK' /\ TalkOK' /\ SilentOK'
<1> USE DEF HostInv, ObjectOK, Starting, Answers, client, pipes, Return
<1>0. PipesOK /\ StartingOK /\ HostTypeOK /\ turn \in 0..1
  BY DEF TalkOK, HostTypeOK
<1>a. ASSUME at' = "giveup", Unplug, UNCHANGED <<call, object, complete, confirmed>>, call = "init"
      PROVE  ObjectOK' /\ PipesOK' /\ TalkOK' /\ SilentOK'
  BY <1>0, <1>a, Unplugged DEF TalkOK, StartingOK, SilentOK
<1>1. CASE Hello
  <2>1. CASE Heard({"HELLO"}) /\ at' = "peer" /\ UNCHANGED <<pipeCut, broker, failed, toBroker>>
    <3>1. ObjectOK'
      BY <1>1, <2>1 DEF Hello
    <3>2. Is("login") /\ Carries(toMaster, "HELLO") /\ toBroker = <<>>
      BY <1>0, <1>1, <2>1 DEF Hello, Heard, StartingOK
    <3>3. toMaster' = <<>>
      BY <1>0, <2>1, <3>2, HeardOne DEF Carries
    <3>4. PipesOK'
      BY <1>0, <2>1, <3>3 DEF PipesOK
    <3> QED BY <1>1, <2>1, <3>1, <3>2, <3>3, <3>4 DEF Hello, TalkOK, StartingOK, SilentOK, Is
  <2>2. CASE Deaf /\ Unplug /\ at' = "giveup"
    BY <1>1, <2>2, <1>a DEF Hello
  <2> QED BY <1>1, <2>1, <2>2 DEF Hello
<1>2. CASE SetPeer
  <2>1. ObjectOK'
    BY <1>2 DEF SetPeer
  <2>2. at = "peer" /\ at' = "login" /\ UNCHANGED <<broker, toBroker, toMaster, pipeCut>>
    BY <1>2 DEF SetPeer
  <2>3. PipesOK'
    BY <1>0, <2>2 DEF PipesOK
  <2> QED BY <1>0, <2>1, <2>2, <2>3 DEF TalkOK, StartingOK, SilentOK, Is
<1>3. CASE Login
  <2>1. CASE /\ at' = "status" /\ toBroker' = toBroker \o Tokens(<<"cred">>, turn)
             /\ UNCHANGED <<pipeCut, broker, failed, toMaster>>
    <3>1. ObjectOK'
      BY <1>3, <2>1 DEF Login
    <3>2. Is("login") /\ toBroker = <<>> /\ toMaster = <<>> /\ turn' = turn
      BY <1>0, <1>3 DEF Login, StartingOK
    <3>3. /\ toBroker' \in Seq(Token) /\ Len(toBroker') = Len(toBroker) + 1
          /\ toBroker'[Len(toBroker) + 1] = [is |-> "cred", of |-> turn]
      <4>1. toBroker \in Seq(Token) /\ toBroker' = toBroker \o Tokens(<<"cred">>, turn)
        BY <1>0, <2>1 DEF PipesOK
      <4>2. PICK n \in 0..1 : n = turn
        BY <1>0
      <4>3. PICK k \in TokenKinds : k = "cred"
        BY DEF TokenKinds
      <4>4. toBroker' = toBroker \o Tokens(<<k>>, n)
        BY <4>1, <4>2, <4>3, Zenon
      <4>5. /\ toBroker' \in Seq(Token) /\ Len(toBroker') = Len(toBroker) + 1
            /\ toBroker'[Len(toBroker) + 1] = [is |-> k, of |-> n]
        BY <1>0, <4>4, SayOne
      <4> QED BY ONLY <4>2, <4>3, <4>5
    <3>4. Asked("login", "cred")'
      BY <2>1, <3>2, <3>3 DEF Asked, Is, Carries, Now
    <3>5. PipesOK'
      BY <1>0, <2>1, <3>3 DEF PipesOK
    <3> QED BY <2>1, <3>1, <3>4, <3>5 DEF TalkOK, StartingOK, SilentOK
  <2>2. CASE asks /\ Unplug /\ at' = "giveup"
    BY <1>3, <2>2, <1>a DEF Login
  <2> QED BY <1>3, <2>1, <2>2 DEF Login
<1>4. CASE LoggedIn
  <2>1. ObjectOK'
    BY <1>4 DEF LoggedIn
  <2>2. Told("loop", {"OK"})
    <3>1. toMaster # <<>> /\ toMaster[1].is = "OK"
      BY <1>0, <1>4, HeardOne DEF LoggedIn, PipesOK
    <3> QED BY <1>0, <1>4, <3>1 DEF LoggedIn, StartingOK, Asked, Told, Carries, Now
  <2>3. toMaster' = <<>> /\ toBroker' = <<>> /\ broker' = broker /\ at' = "idle" /\ pipeCut' = pipeCut
        /\ object' = "none"
    BY <1>0, <1>4, <2>2, HeardOne DEF LoggedIn, Told, Carries
  <2>4. PipesOK'
    BY <1>0, <2>3 DEF PipesOK
  <2>5. ~Deaf' => Quiet("loop")'
    BY <2>2, <2>3 DEF Deaf, Quiet, Told, Is
  <2> QED BY <2>1, <2>3, <2>4, <2>5 DEF TalkOK, StartingOK, SilentOK, IdleOK
<1>5. CASE LoginAgain
  <2>1. ObjectOK'
    BY <1>5 DEF LoginAgain
  <2>2. PICK kinds \in {{"IDENTITY"}, {"AUTH"}} : Heard(kinds)
    BY <1>5 DEF LoginAgain
  <2>3. Told("login", {"IDENTITY", "AUTH", "PROTOCOL", "GENERIC"})
    <3>1. toMaster # <<>> /\ toMaster[1].is # "OK"
      BY <1>0, <2>2, HeardOne DEF PipesOK
    <3> QED BY <1>0, <1>5, <3>1 DEF LoginAgain, StartingOK, Asked, Told, Carries, Now
  <2>4. toMaster' = <<>> /\ toBroker' = <<>> /\ broker' = broker /\ at' = "login"
    BY <1>0, <1>5, <2>2, <2>3, HeardOne DEF LoginAgain, Told, Carries
  <2>5. PipesOK'
    BY <1>0, <2>4 DEF PipesOK
  <2> QED BY <2>1, <2>3, <2>4, <2>5 DEF TalkOK, StartingOK, SilentOK, Told, Is
<1>6. CASE LoginRefused
  BY <1>6, <1>a DEF LoginRefused
<1>7. CASE LoginLost
  <2>1. ObjectOK'
    BY <1>7 DEF LoginLost
  <2>2. Deaf /\ at' = "idle" /\ UNCHANGED <<broker, toBroker, toMaster, pipeCut>>
    BY <1>7 DEF LoginLost
  <2>3. Deaf' /\ PipesOK'
    BY <1>0, <2>2 DEF Deaf, PipesOK
  <2> QED BY <2>1, <2>2, <2>3 DEF TalkOK, StartingOK, SilentOK, Deaf
<1> QED BY <1>1, <1>2, <1>3, <1>4, <1>5, <1>6, <1>7

-----------------------------------------------------------------------------
(* Calls                                                                   *)

\* The host asks for one thing, or for two.
LEMMA AskOne ==
  ASSUME HostInv, NEW c, NEW k \in TokenKinds, Ask(c, <<k>>)
  PROVE  /\ toBroker' \in Seq(Token) /\ Len(toBroker') = Len(toBroker) + 1 /\ Len(toBroker) \in Nat
         /\ \A i \in 1..Len(toBroker) : toBroker'[i] = toBroker[i]
         /\ toBroker'[Len(toBroker) + 1] = Now(k)'
<1>1. PipesOK /\ turn \in 0..1 /\ turn' = 1 - turn /\ toBroker' = toBroker \o Tokens(<<k>>, turn')
  BY DEF HostInv, HostTypeOK, Ask
<1>2. PICK n \in 0..1 : n = turn'
  BY <1>1
<1>3. toBroker' = toBroker \o Tokens(<<k>>, n)
  BY <1>1, <1>2
<1>4. /\ toBroker' \in Seq(Token) /\ Len(toBroker') = Len(toBroker) + 1 /\ Len(toBroker) \in Nat
      /\ \A i \in 1..Len(toBroker) : toBroker'[i] = toBroker[i]
      /\ toBroker'[Len(toBroker) + 1] = [is |-> k, of |-> n]
  BY <1>1, <1>3, SayOne
<1> QED BY ONLY <1>2, <1>4 DEF Now

\* HostRemote's two-part requests: both tokens carry the number of the new exchange.
LEMMA AskTwo ==
  ASSUME HostInv, NEW c, NEW j \in TokenKinds, NEW k \in TokenKinds, Ask(c, <<j, k>>)
  PROVE  /\ toBroker' \in Seq(Token) /\ Len(toBroker') = Len(toBroker) + 2 /\ Len(toBroker) \in Nat
         /\ \A i \in 1..Len(toBroker) : toBroker'[i] = toBroker[i]
         /\ toBroker'[Len(toBroker) + 1] = Now(j)' /\ toBroker'[Len(toBroker) + 2] = Now(k)'
<1>1. PipesOK /\ turn \in 0..1 /\ turn' = 1 - turn /\ toBroker' = toBroker \o Tokens(<<j, k>>, turn')
  BY DEF HostInv, HostTypeOK, Ask
<1>2. PICK n \in 0..1 : n = turn'
  BY <1>1
<1>3. toBroker' = toBroker \o Tokens(<<j, k>>, n)
  BY <1>1, <1>2
<1>4. /\ toBroker' \in Seq(Token) /\ Len(toBroker') = Len(toBroker) + 2 /\ Len(toBroker) \in Nat
      /\ \A i \in 1..Len(toBroker) : toBroker'[i] = toBroker[i]
      /\ toBroker'[Len(toBroker) + 1] = [is |-> j, of |-> n]
      /\ toBroker'[Len(toBroker) + 2] = [is |-> k, of |-> n]
  BY <1>1, <1>3, SayTwo
<1> QED BY ONLY <1>2, <1>4 DEF Now

\* It asks a broker that waits for it.
LEMMA QuietAsked ==
  ASSUME HostInv, NEW b, NEW c, NEW k \in TokenKinds, Quiet(b), Ask(c, <<k>>), UNCHANGED <<broker, toMaster>>
  PROVE  Asked(b, k)'
<1>1. Len(toBroker) = 0
  BY DEF Quiet
<1>2. Len(toBroker') = 1 /\ toBroker'[1] = Now(k)'
  BY <1>1, AskOne
<1> QED BY <1>2 DEF Asked, Is, Carries, Quiet

\* What any call leaves alone, and what it makes of the pipes.
LEMMA CallTalks ==
  ASSUME HostInv, Call
  PROVE  /\ UNCHANGED <<broker, toMaster, pipeCut, failed>> /\ Deaf' = Deaf
         /\ PipesOK' /\ SilentOK'
         /\ at = "idle" /\ at' \in {"idle", "call"}
         /\ confirmed' = (confirmed /\ object' = "writer")
<1>1. /\ UNCHANGED <<broker, toMaster, pipeCut, failed>>
      /\ confirmed' = (confirmed /\ object' = "writer")
  BY DEF Call
<1>2. at = "idle" /\ at' \in {"idle", "call"}
  BY DEF Call, Command, Use, WriteComplete, DestroyObject, Ask
<1>3. Deaf' = Deaf
  BY <1>1 DEF Deaf
<1>4. toBroker' \in Seq(Token)
  <2>1. PipesOK
    BY DEF HostInv
  <2>4. CASE Command
    <3>1. PICK c \in DOMAIN Requests : Ask(c, <<Requests[c]>>)
      BY <2>4 DEF Command
    <3>2. Requests[c] \in TokenKinds
      BY DEF Requests, TokenKinds
    <3> QED BY <3>1, <3>2, AskOne
  <2>5. CASE Use
    <3>1. CASE Ask("item", <<"NEXT">>)
      <4>1. "NEXT" \in TokenKinds BY DEF TokenKinds
      <4> QED BY <3>1, <4>1, AskOne
    <3>2. CASE Ask("read", <<"len">>)
      <4>1. "len" \in TokenKinds BY DEF TokenKinds
      <4> QED BY <3>2, <4>1, AskOne
    <3>3. CASE Ask("write", <<"len", "buf">>)
      <4>1. "len" \in TokenKinds /\ "buf" \in TokenKinds BY DEF TokenKinds
      <4> QED BY <3>3, <4>1, AskTwo
    <3> QED BY <2>5, <3>1, <3>2, <3>3 DEF Use
  <2>6. CASE WriteComplete
    <3>1. "zero" \in TokenKinds BY DEF TokenKinds
    <3> QED BY <2>6, <3>1, AskOne DEF WriteComplete
  <2>7. CASE DestroyObject
    <3>1. "zero" \in TokenKinds /\ "STOP" \in TokenKinds BY DEF TokenKinds
    <3>2. CASE complete
      BY <2>1, <2>7, <3>2 DEF DestroyObject, PipesOK
    <3>3. CASE ~complete /\ object = "enumer"
      <4>1. Ask("close", <<"STOP">>)
        BY <2>7, <3>3 DEF DestroyObject
      <4> QED BY <3>1, <4>1, AskOne
    <3>4. CASE ~complete /\ object # "enumer"
      <4>1. Ask("close", <<"zero">>)
        BY <2>7, <3>4 DEF DestroyObject
      <4> QED BY <3>1, <4>1, AskOne
    <3> QED BY <3>2, <3>3, <3>4
  <2> QED BY <2>4, <2>5, <2>6, <2>7 DEF Call
<1>5. PipesOK'
  BY <1>1, <1>4 DEF HostInv, PipesOK
<1>6. SilentOK'
  BY <1>1, <1>2 DEF HostInv, SilentOK
<1> QED BY <1>1, <1>2, <1>3, <1>5, <1>6

\* A call is made of an object that may be called so.
LEMMA CallObject ==
  ASSUME HostInv, Call
  PROVE  ObjectOK'
<1>0. ObjectOK /\ Places
  BY TypesAre DEF HostInv
<1>c. confirmed' = (confirmed /\ object' = "writer")
  BY DEF Call
<1> USE <1>0, <1>c, Domains DEF ObjectOK, Starting, Ask
<1>1. CASE Command BY <1>1 DEF Command, Ready
<1>2. CASE Use BY <1>2 DEF Use
<1>3. CASE WriteComplete BY <1>3 DEF WriteComplete
<1>4. CASE DestroyObject BY <1>4 DEF DestroyObject
<1> QED BY <1>1, <1>2, <1>3, <1>4 DEF Call

\* The end of a file is asked for after the writes that are on their way.
LEMMA EndingAsked ==
  ASSUME HostInv, Written, NEW c, Ask(c, <<"zero">>), UNCHANGED <<broker, toMaster>>
  PROVE  Ending'
<1>1. "zero" \in TokenKinds
  BY DEF TokenKinds
<1>2. CASE Quiet("put")
  BY <1>1, <1>2, QuietAsked DEF Ending
<1>3. CASE broker = "buf" /\ Len(toBroker) = 1 /\ toBroker[1].is = "buf" /\ toMaster = <<>>
  <2>1. Len(toBroker') = 2 /\ toBroker'[1] = toBroker[1] /\ toBroker'[2] = Now("zero")'
    BY <1>1, <1>3, AskOne
  <2> QED BY <1>3, <2>1 DEF Ending, Is
<1> QED BY <1>2, <1>3 DEF Written

\* The next write is asked for after the one that may be on its way.
LEMMA WritingAsked ==
  ASSUME HostInv, Written, NEW c, Ask(c, <<"len", "buf">>), UNCHANGED <<broker, toMaster>>
  PROVE  Writing'
<1>1. "len" \in TokenKinds /\ "buf" \in TokenKinds
  BY DEF TokenKinds
<1>2. CASE Quiet("put")
  <2>1. Len(toBroker) = 0
    BY <1>2 DEF Quiet
  <2>2. Len(toBroker') = 2 /\ toBroker'[1] = Now("len")' /\ toBroker'[2] = Now("buf")'
    BY <1>1, <2>1, AskTwo
  <2> QED BY <1>2, <2>2 DEF Quiet, Writing, Is
<1>3. CASE broker = "buf" /\ Len(toBroker) = 1 /\ toBroker[1].is = "buf" /\ toMaster = <<>>
  <2>1. /\ Len(toBroker') = 3 /\ toBroker'[1] = toBroker[1]
        /\ toBroker'[2] = Now("len")' /\ toBroker'[3] = Now("buf")'
    BY <1>1, <1>3, AskTwo
  <2> QED BY <1>3, <2>1 DEF Writing, Is
<1> QED BY <1>2, <1>3 DEF Written

\* Every call asks what the broker waits for.
LEMMA CallTalk ==
  ASSUME HostInv, Call
  PROVE  TalkOK'
<1>0. /\ UNCHANGED <<broker, toMaster>> /\ Deaf' = Deaf /\ at = "idle" /\ at' \in {"idle", "call"}
      /\ ObjectOK /\ HostTypeOK
  BY CallTalks DEF HostInv
<1>1. StartingOK'
  BY <1>0 DEF StartingOK
<1>2. SUFFICES ASSUME ~Deaf PROVE (at' = "idle" => IdleOK') /\ (at' = "call" => CallOK')
  BY <1>0, <1>1 DEF TalkOK
<1>3. IdleOK
  BY <1>0, <1>2 DEF HostInv, TalkOK
<1>4. CASE Command
  <2>1. PICK c \in DOMAIN Requests : Ask(c, <<Requests[c]>>)
    BY <1>4 DEF Command
  <2>2. Quiet("loop")
    BY <1>3, <1>4 DEF IdleOK, Command, Ready
  <2>3. Requests[c] \in TokenKinds
    BY DEF Requests, TokenKinds
  <2>4. Asked("loop", Requests[c])' /\ call' = c /\ at' = "call"
    <3>1. Asked("loop", Requests[c])'
      BY <1>0, <2>1, <2>2, <2>3, QuietAsked
    <3> QED BY <2>1, <3>1 DEF Ask
  <2>5. \/ c = "command" /\ Asked("loop", "SIMPLE")'
        \/ c = "openenum" /\ Asked("loop", "ENUM")'
        \/ c = "openget" /\ Asked("loop", "GET")'
        \/ c = "openput" /\ Asked("loop", "PUT")'
    <3>1. c \in {"command", "openenum", "openget", "openput"}
      BY Domains
    <3>2. /\ Requests["command"] = "SIMPLE" /\ Requests["openenum"] = "ENUM"
          /\ Requests["openget"] = "GET" /\ Requests["openput"] = "PUT"
      BY DEF Requests
    <3> QED BY <2>4, <3>1, <3>2
  <2> QED BY <2>4, <2>5 DEF CallOK
<1>5. CASE Use
  <2>0. ~complete
    BY <1>5 DEF Use
  <2>1. CASE object = "enumer" /\ Ask("item", <<"NEXT">>)
    <3>1. "NEXT" \in TokenKinds BY DEF TokenKinds
    <3>2. Quiet("enum") BY <1>3, <2>0, <2>1 DEF IdleOK
    <3>3. Asked("enum", "NEXT")' BY <1>0, <2>1, <3>1, <3>2, QuietAsked
    <3> QED BY <2>1, <3>3 DEF Ask, CallOK
  <2>2. CASE object = "reader" /\ Ask("read", <<"len">>)
    <3>1. "len" \in TokenKinds BY DEF TokenKinds
    <3>2. Quiet("get") BY <1>3, <2>0, <2>2 DEF IdleOK
    <3>3. Asked("get", "len")' BY <1>0, <2>2, <3>1, <3>2, QuietAsked
    <3> QED BY <2>2, <3>3 DEF Ask, CallOK
  <2>3. CASE object = "writer" /\ Ask("write", <<"len", "buf">>)
    <3>1. Written BY <1>3, <2>0, <2>3 DEF IdleOK
    <3>2. Writing' BY <1>0, <2>3, <3>1, WritingAsked
    <3> QED BY <2>3, <3>2 DEF Ask, CallOK
  <2> QED BY <1>5, <2>1, <2>2, <2>3 DEF Use
<1>6. CASE WriteComplete
  <2>1. Written /\ Ask("complete", <<"zero">>)
    BY <1>3, <1>6 DEF IdleOK, WriteComplete
  <2>2. Ending'
    BY <1>0, <2>1, EndingAsked
  <2> QED BY <2>1, <2>2 DEF Ask, CallOK
<1>7. CASE DestroyObject
  <2>1. CASE complete
    <3>1. Quiet("loop") BY <1>3, <2>1 DEF IdleOK
    <3>2. object' = "none" /\ at' = "idle" /\ toBroker' = toBroker
      BY <1>0, <1>7, <2>1 DEF DestroyObject
    <3>3. Quiet("loop")' BY <1>0, <3>1, <3>2 DEF Quiet
    <3> QED BY <3>2, <3>3 DEF IdleOK
  <2>2. CASE ~complete /\ object = "enumer"
    <3>1. "STOP" \in TokenKinds BY DEF TokenKinds
    <3>2. Quiet("enum") BY <1>3, <2>2 DEF IdleOK
    <3>3. Ask("close", <<"STOP">>) /\ object' = object BY <1>7, <2>2 DEF DestroyObject
    <3>4. Asked("enum", "STOP")' BY <1>0, <3>1, <3>2, <3>3, QuietAsked
    <3> QED BY <2>2, <3>3, <3>4 DEF Ask, CallOK
  <2>3. CASE ~complete /\ object = "reader"
    <3>1. "zero" \in TokenKinds BY DEF TokenKinds
    <3>2. Quiet("get") BY <1>3, <2>3 DEF IdleOK
    <3>3. Ask("close", <<"zero">>) /\ object' = object BY <1>7, <2>3 DEF DestroyObject
    <3>4. Asked("get", "zero")' BY <1>0, <3>1, <3>2, <3>3, QuietAsked
    <3> QED BY <2>3, <3>3, <3>4 DEF Ask, CallOK
  <2>4. CASE ~complete /\ object = "writer"
    <3>1. Written BY <1>3, <2>4 DEF IdleOK
    <3>2. Ask("close", <<"zero">>) /\ object' = object BY <1>7, <2>4 DEF DestroyObject
    <3>3. Ending' BY <1>0, <3>1, <3>2, EndingAsked
    <3> QED BY <2>4, <3>2, <3>3 DEF Ask, CallOK
  <2>5. object \in {"enumer", "reader", "writer"}
    BY <1>0, <1>7, TypesAre DEF DestroyObject, Places
  <2>6. complete \in BOOLEAN
    BY <1>0, TypesAre DEF Flags
  <2> QED BY <2>1, <2>2, <2>3, <2>4, <2>5, <2>6
<1> QED BY <1>4, <1>5, <1>6, <1>7 DEF Call

\* A call begins where the last one has ended.
LEMMA CallStep ==
  ASSUME HostInv, Call
  PROVE  HostInv'
BY CallTalks, CallObject, CallTalk, CallType DEF HostInv

-----------------------------------------------------------------------------
(* Replies                                                                 *)

\* The broker waits for a request in its turn, unless it died
After(b) == ~Deaf' => Quiet(b)'

\* A broker that has replied goes on where it is, with nothing said on either side.
LEMMA ToldHeard ==
  ASSUME PipesOK, NEW b, NEW kinds, Told(b, kinds), NEW a, Heard({a}),
         UNCHANGED <<broker, toBroker, pipeCut>>
  PROVE  toMaster' = <<>> /\ toBroker = <<>> /\ a \in kinds /\ After(b)
<1>1. PICK k \in kinds : Carries(toMaster, k)
  BY DEF Told
<1>2. Is(b) /\ toBroker = <<>>
  BY DEF Told
<1>3. toMaster' = <<>> /\ a = k
  BY <1>1, HeardOne DEF Carries, Now
<1>4. After(b)
  BY <1>2, <1>3 DEF After, Deaf, Quiet, Is
<1> QED BY <1>1, <1>2, <1>3, <1>4

\* Nothing is heard of what was only asked.
LEMMA AskedHeard ==
  ASSUME NEW b, NEW k, Asked(b, k), NEW a, Heard({a})
  PROVE  FALSE
BY DEF Asked, Heard

\* The reply to a write comes before it is done, that to the end of the file after.
LEMMA WritingHeard ==
  ASSUME PipesOK, Writing, NEW a, Heard({a}), UNCHANGED <<broker, toBroker, pipeCut>>
  PROVE  /\ toMaster' = <<>>
         /\ \/ a = "PUT" /\ (~Deaf' => Written')
            \/ a = "ERROR" /\ After("loop")
<1>1. toMaster # <<>>
  BY DEF Heard
<1>2. CASE Is("buf") /\ Carries(toBroker, "buf") /\ Carries(toMaster, "PUT")
  <2>1. toMaster' = <<>> /\ a = "PUT"
    BY <1>2, HeardOne DEF Carries, Now
  <2>2. ~Deaf' => broker = "buf"
    BY <1>2, <2>1 DEF Deaf, Is
  <2> QED BY <1>2, <2>1, <2>2 DEF Written, Carries, Now
<1>3. CASE Told("put", {"PUT"})
  <2>1. toMaster' = <<>> /\ a \in {"PUT"} /\ After("put")
    BY <1>3, ToldHeard
  <2> QED BY <2>1 DEF After, Written
<1>4. CASE Told("loop", {"ERROR"})
  <2>1. toMaster' = <<>> /\ a \in {"ERROR"} /\ After("loop")
    BY <1>4, ToldHeard
  <2> QED BY <2>1
<1> QED BY <1>1, <1>2, <1>3, <1>4 DEF Writing

\* The broker that has sent its last block hears one answer: the master's STOP,
\* or the error that ends the enumeration or the transfer.
LEMMA EndingHeard ==
  ASSUME PipesOK, Ending, NEW a, Heard({a}), UNCHANGED <<broker, toBroker, pipeCut>>
  PROVE  /\ toMaster' = <<>> /\ After("loop")
         /\ \/ a = "STOP" /\ ~failed /\ toBroker = <<>>
            \/ a = "ERROR"
<1>1. toMaster # <<>>
  BY DEF Heard
<1>2. CASE Told("loop", {"STOP"}) /\ ~failed
  <2>1. toMaster' = <<>> /\ a \in {"STOP"} /\ toBroker = <<>> /\ After("loop")
    BY <1>2, ToldHeard
  <2> QED BY <1>2, <2>1
<1>3. CASE Told("loop", {"ERROR"})
  <2>1. toMaster' = <<>> /\ a \in {"ERROR"} /\ After("loop")
    BY <1>3, ToldHeard
  <2> QED BY <2>1
<1> QED BY <1>1, <1>2, <1>3 DEF Ending, Asked

\* What the reply a to the call says of the broker
Says(a) ==
  /\ toMaster' = <<>>
  /\ call = "command" => (a \in {"SIMPLE", "ERROR"} /\ After("loop"))
  /\ call = "openenum" => (a \in {"ENUM"} /\ After("enum")) \/ (a \in {"ERROR"} /\ After("loop"))
  /\ call = "openget" => (a \in {"GET"} /\ After("get")) \/ (a \in {"ERROR"} /\ After("loop"))
  /\ call = "openput" => (a = "PUT" /\ After("put") /\ ~failed /\ toBroker = <<>>) \/ (a = "ERROR" /\ After("loop"))
  /\ call = "item" => (a \in {"NEXT"} /\ After("enum")) \/ (a \in {"END", "ERROR"} /\ After("loop"))
  /\ call = "read" => (a \in {"DATA"} /\ After("get")) \/ (a \in {"EOF", "ERROR"} /\ After("loop"))
  /\ call = "write" => (a = "PUT" /\ (~Deaf' => Written')) \/ (a = "ERROR" /\ After("loop"))
  /\ call = "complete" => After("loop") /\ ((a = "STOP" /\ ~failed /\ toBroker = <<>>) \/ a = "ERROR")
  /\ call = "close" => After("loop") /\ a \in {"STOP", "ERROR"}

\* A call has one reply, and the broker is then where the reply says.
LEMMA CallHeard ==
  ASSUME PipesOK, CallOK, NEW a, Heard({a}), UNCHANGED <<broker, toBroker, pipeCut>>
  PROVE  Says(a)
<1>1. CASE call = "command"
  <2>1. Asked("loop", "SIMPLE") \/ (Told("loop", {"SIMPLE", "ERROR"}))
    BY <1>1 DEF CallOK
  <2>2. CASE Told("loop", {"SIMPLE", "ERROR"})
    <3>1. toMaster' = <<>> /\ toBroker = <<>> /\ a \in {"SIMPLE", "ERROR"} /\ After("loop")
      BY <2>2, ToldHeard
    <3> QED BY <1>1, <2>2, <3>1 DEF Says
  <2> QED BY <2>1, <2>2, AskedHeard
<1>2. CASE call = "openenum"
  <2>1. Asked("loop", "ENUM") \/ (Told("enum", {"ENUM"})) \/ (Told("loop", {"ERROR"}))
    BY <1>2 DEF CallOK
  <2>2. CASE Told("enum", {"ENUM"})
    <3>1. toMaster' = <<>> /\ toBroker = <<>> /\ a \in {"ENUM"} /\ After("enum")
      BY <2>2, ToldHeard
    <3> QED BY <1>2, <2>2, <3>1 DEF Says
  <2>3. CASE Told("loop", {"ERROR"})
    <3>1. toMaster' = <<>> /\ toBroker = <<>> /\ a \in {"ERROR"} /\ After("loop")
      BY <2>3, ToldHeard
    <3> QED BY <1>2, <2>3, <3>1 DEF Says
  <2> QED BY <2>1, <2>2, <2>3, AskedHeard
<1>3. CASE call = "openget"
  <2>1. Asked("loop", "GET") \/ (Told("get", {"GET"})) \/ (Told("loop", {"ERROR"}))
    BY <1>3 DEF CallOK
  <2>2. CASE Told("get", {"GET"})
    <3>1. toMaster' = <<>> /\ toBroker = <<>> /\ a \in {"GET"} /\ After("get")
      BY <2>2, ToldHeard
    <3> QED BY <1>3, <2>2, <3>1 DEF Says
  <2>3. CASE Told("loop", {"ERROR"})
    <3>1. toMaster' = <<>> /\ toBroker = <<>> /\ a \in {"ERROR"} /\ After("loop")
      BY <2>3, ToldHeard
    <3> QED BY <1>3, <2>3, <3>1 DEF Says
  <2> QED BY <2>1, <2>2, <2>3, AskedHeard
<1>4. CASE call = "openput"
  <2>1. Asked("loop", "PUT") \/ (Told("put", {"PUT"}) /\ ~failed) \/ (Told("loop", {"ERROR"}))
    BY <1>4 DEF CallOK
  <2>2. CASE Told("put", {"PUT"}) /\ ~failed
    <3>1. toMaster' = <<>> /\ toBroker = <<>> /\ a \in {"PUT"} /\ After("put")
      BY <2>2, ToldHeard
    <3> QED BY <1>4, <2>2, <3>1 DEF Says
  <2>3. CASE Told("loop", {"ERROR"})
    <3>1. toMaster' = <<>> /\ toBroker = <<>> /\ a \in {"ERROR"} /\ After("loop")
      BY <2>3, ToldHeard
    <3> QED BY <1>4, <2>3, <3>1 DEF Says
  <2> QED BY <2>1, <2>2, <2>3, AskedHeard
<1>5. CASE call = "item"
  <2>1. Asked("enum", "NEXT") \/ (Told("enum", {"NEXT"})) \/ (Told("loop", {"END", "ERROR"}))
    BY <1>5 DEF CallOK
  <2>2. CASE Told("enum", {"NEXT"})
    <3>1. toMaster' = <<>> /\ toBroker = <<>> /\ a \in {"NEXT"} /\ After("enum")
      BY <2>2, ToldHeard
    <3> QED BY <1>5, <2>2, <3>1 DEF Says
  <2>3. CASE Told("loop", {"END", "ERROR"})
    <3>1. toMaster' = <<>> /\ toBroker = <<>> /\ a \in {"END", "ERROR"} /\ After("loop")
      BY <2>3, ToldHeard
    <3> QED BY <1>5, <2>3, <3>1 DEF Says
  <2> QED BY <2>1, <2>2, <2>3, AskedHeard
<1>6. CASE call = "read"
  <2>1. Asked("get", "len") \/ (Told("get", {"DATA"})) \/ (Told("loop", {"EOF", "ERROR"}))
    BY <1>6 DEF CallOK
  <2>2. CASE Told("get", {"DATA"})
    <3>1. toMaster' = <<>> /\ toBroker = <<>> /\ a \in {"DATA"} /\ After("get")
      BY <2>2, ToldHeard
    <3> QED BY <1>6, <2>2, <3>1 DEF Says
  <2>3. CASE Told("loop", {"EOF", "ERROR"})
    <3>1. toMaster' = <<>> /\ toBroker = <<>> /\ a \in {"EOF", "ERROR"} /\ After("loop")
      BY <2>3, ToldHeard
    <3> QED BY <1>6, <2>3, <3>1 DEF Says
  <2> QED BY <2>1, <2>2, <2>3, AskedHeard
<1>7. CASE call = "write"
  <2>1. Writing
    BY <1>7 DEF CallOK
  <2> QED BY <1>7, <2>1, WritingHeard DEF Says
<1>8. CASE call = "complete"
  <2>1. Ending
    BY <1>8 DEF CallOK
  <2> QED BY <1>8, <2>1, EndingHeard DEF Says
<1>9. CASE call = "close"
  <2>1. \/ Asked("enum", "STOP") \/ Told("loop", {"STOP", "ERROR"})
        \/ Asked("get", "zero") \/ Told("loop", {"STOP"}) \/ Ending
    BY <1>9 DEF CallOK
  <2>2. CASE Told("loop", {"STOP", "ERROR"})
    <3>1. toMaster' = <<>> /\ a \in {"STOP", "ERROR"} /\ After("loop")
      BY <2>2, ToldHeard
    <3> QED BY <1>9, <3>1 DEF Says
  <2>3. CASE Told("loop", {"STOP"})
    <3>1. toMaster' = <<>> /\ a \in {"STOP"} /\ After("loop")
      BY <2>3, ToldHeard
    <3> QED BY <1>9, <3>1 DEF Says
  <2>4. CASE Ending
    BY <1>9, <2>4, EndingHeard DEF Says
  <2> QED BY <2>1, <2>2, <2>3, <2>4, AskedHeard
<1>10. call \in {"command", "openenum", "openget", "openput", "item", "read", "write", "complete", "close"}
  BY DEF CallOK
<1> QED BY <1>1, <1>2, <1>3, <1>4, <1>5, <1>6, <1>7, <1>8, <1>9, <1>10

\* When a call has returned or failed, the object is what the broker thinks it is.
LEMMA ReceiveStep ==
  ASSUME HostInv, Receive
  PROVE  HostInv'
<1>0. /\ HostTypeOK /\ ObjectOK /\ PipesOK /\ TalkOK /\ at = "call" /\ at' = "idle" /\ call' = "none"
      /\ UNCHANGED <<turn, broker, toBroker, pipeCut, failed>> /\ (Replied \/ Thrown)
  BY DEF HostInv, Receive, Replied, Thrown, Return
<1>1. HostTypeOK' /\ MayStart'
  BY CallType DEF HostInv
<1>2. Places /\ complete \in BOOLEAN /\ complete' \in BOOLEAN /\ Places'
  BY <1>0, <1>1, TypesAre DEF Flags
<1>3. toMaster' \in Seq(Token)
  <2>1. CASE toMaster' = toMaster
    BY <1>0, <2>1 DEF PipesOK
  <2>2. CASE \E a : Heard({a})
    BY <1>0, <2>2, HeardOne
  <2> QED BY <1>0, <2>1, <2>2 DEF Replied, Thrown
<1>4. PipesOK'
  <2>1. broker = "none" => toMaster' = <<>>
    BY <1>0 DEF PipesOK, Replied, Thrown, Heard
  <2> QED BY <1>0, <1>3, <2>1 DEF PipesOK
<1>5. ASSUME object' = "none" => ~complete', confirmed' => object' = "writer"
      PROVE  ObjectOK'
  BY <1>0, <1>5, Domains DEF ObjectOK, Starting
<1>6. ASSUME ObjectOK', toMaster' = <<>> \/ pipeCut', ~Deaf' => IdleOK'
      PROVE  HostInv'
  BY <1>0, <1>1, <1>4, <1>6 DEF HostInv, TalkOK, StartingOK, SilentOK
<1>7. CASE Thrown
  <2>1. /\ Dropped /\ complete' = (call # "close" /\ (complete \/ call \in {"item", "read", "write"}))
        /\ confirmed' = (confirmed /\ object' = "writer")
    BY <1>7 DEF Thrown
  <2>2. ObjectOK'
    <3>1. confirmed' => object' = "writer"
      BY <2>1
    <3>2. object' = "none" => ~complete'
      BY <1>0, <1>2, <2>1 DEF Dropped, ObjectOK
    <3> QED BY <1>5, <3>1, <3>2
  <2>3. CASE Deaf /\ UNCHANGED toMaster
    <3>1. Deaf' /\ (toMaster' = <<>> \/ pipeCut')
      BY <1>0, <2>3 DEF Deaf
    <3> QED BY <1>6, <2>2, <3>1
  <2>4. CASE Heard({"ERROR"})
    <3>1. CallOK
      BY <1>0, <2>4, HeardOne DEF TalkOK
    <3>2. Says("ERROR")
      BY <1>0, <2>4, <3>1, CallHeard
    <3>3. toMaster' = <<>> /\ After("loop")
      BY <1>0, <3>2, Domains DEF ObjectOK, Says
    <3>4. object' = "none" \/ complete'
      BY <1>0, <1>2, <2>1, Domains DEF Dropped, ObjectOK
    <3>5. ~Deaf' => IdleOK'
      BY <3>3, <3>4 DEF IdleOK, After
    <3> QED BY <1>6, <2>2, <3>3, <3>5
  <2> QED BY <1>7, <2>3, <2>4 DEF Thrown
<1>8. CASE Replied
  <2>1. PICK a \in Answers[call] :
          /\ Heard({a})
          /\ IF call \in DOMAIN ObjectOpened
               THEN object' = ObjectOpened[call] /\ complete' = FALSE
               ELSE Dropped /\ complete' = (call # "close" /\ (complete \/ a \in {"END", "EOF"}))
    BY <1>8 DEF Replied
  <2>2. confirmed' = (object' = "writer" /\ (confirmed \/ call = "complete"))
    BY <1>8 DEF Replied
  <2>3. CallOK
    BY <1>0, <2>1, HeardOne DEF TalkOK
  <2>4. Says(a)
    BY <1>0, <2>1, <2>3, CallHeard
  <2> DEFINE Outcome == ObjectOK' /\ (~Deaf' => IdleOK')
  <2>5. SUFFICES Outcome
    BY <1>6, <2>4 DEF Says
  <2>6. call \in DOMAIN Answers
    BY <1>0 DEF ObjectOK
  <2>7. CASE call = "command"
    <3>1. a \in {"SIMPLE"}
      BY <2>1, <2>7 DEF Answers
    <3>2. object' = object /\ (complete' <=> complete)
      BY <2>1, <2>7, <3>1, Domains DEF Dropped
    <3>3. After("loop")
      BY <2>4, <2>7, <3>1 DEF Says
    <3>4. ~Deaf' => IdleOK'
      BY <1>0, <2>7, <3>2, <3>3 DEF IdleOK, After, ObjectOK
    <3>5. object' = "none" => ~complete'
      BY <1>0, <2>7, <3>2 DEF ObjectOK
    <3> QED BY <1>5, <2>2, <3>4, <3>5
  <2>8. CASE call = "openenum"
    <3>1. a \in {"ENUM"}
      BY <2>1, <2>8 DEF Answers
    <3>2. object' = "enumer" /\ ~complete'
      BY <2>1, <2>8, Domains DEF ObjectOpened
    <3>3. After("enum")
      BY <2>4, <2>8, <3>1 DEF Says
    <3>4. ~Deaf' => IdleOK'
      BY <3>2, <3>3 DEF IdleOK, After
    <3> QED BY <1>5, <2>2, <3>2, <3>4
  <2>9. CASE call = "openget"
    <3>1. a \in {"GET"}
      BY <2>1, <2>9 DEF Answers
    <3>2. object' = "reader" /\ ~complete'
      BY <2>1, <2>9, Domains DEF ObjectOpened
    <3>3. After("get")
      BY <2>4, <2>9, <3>1 DEF Says
    <3>4. ~Deaf' => IdleOK'
      BY <3>2, <3>3 DEF IdleOK, After
    <3> QED BY <1>5, <2>2, <3>2, <3>4
  <2>10. CASE call = "openput"
    <3>1. a \in {"PUT"}
      BY <2>1, <2>10 DEF Answers
    <3>2. object' = "writer" /\ ~complete'
      BY <2>1, <2>10, Domains DEF ObjectOpened
    <3>3. After("put")
      BY <2>4, <2>10, <3>1 DEF Says
    <3>4. ~Deaf' => IdleOK'
      BY <3>2, <3>3 DEF IdleOK, After, Written
    <3> QED BY <1>5, <2>2, <3>2, <3>4
  <2>11. CASE call = "item"
    <3>1. a \in {"NEXT", "END"}
      BY <2>1, <2>11 DEF Answers
    <3>2. object' = object /\ ~complete /\ (complete' <=> a = "END")
      BY <1>0, <2>1, <2>11, <3>1, Domains DEF Dropped, ObjectOK
    <3>3. IF a = "END" THEN After("loop") ELSE After("enum")
      BY <2>4, <2>11, <3>1 DEF Says
    <3>4. ~Deaf' => IdleOK'
      BY <1>0, <2>11, <3>2, <3>3 DEF IdleOK, After, ObjectOK
    <3>5. object' = "none" => ~complete'
      BY <1>0, <2>11, <3>2 DEF ObjectOK
    <3> QED BY <1>5, <2>2, <3>4, <3>5
  <2>12. CASE call = "read"
    <3>1. a \in {"DATA", "EOF"}
      BY <2>1, <2>12 DEF Answers
    <3>2. object' = object /\ ~complete /\ (complete' <=> a = "EOF")
      BY <1>0, <2>1, <2>12, <3>1, Domains DEF Dropped, ObjectOK
    <3>3. IF a = "EOF" THEN After("loop") ELSE After("get")
      BY <2>4, <2>12, <3>1 DEF Says
    <3>4. ~Deaf' => IdleOK'
      BY <1>0, <2>12, <3>2, <3>3 DEF IdleOK, After, ObjectOK
    <3>5. object' = "none" => ~complete'
      BY <1>0, <2>12, <3>2 DEF ObjectOK
    <3> QED BY <1>5, <2>2, <3>4, <3>5
  <2>13. CASE call = "write"
    <3>1. a \in {"PUT"}
      BY <2>1, <2>13 DEF Answers
    <3>2. object' = object /\ (complete' <=> complete)
      BY <2>1, <2>13, <3>1, Domains DEF Dropped
    <3>3. ~Deaf' => Written'
      BY <2>4, <2>13, <3>1 DEF Says
    <3>4. ~Deaf' => IdleOK'
      BY <1>0, <2>13, <3>2, <3>3 DEF IdleOK, After, ObjectOK
    <3>5. object' = "none" => ~complete'
      BY <1>0, <2>13, <3>2 DEF ObjectOK
    <3> QED BY <1>5, <2>2, <3>4, <3>5
  <2>14. CASE call = "complete"
    <3>1. a \in {"STOP"}
      BY <2>1, <2>14 DEF Answers
    <3>2. object' = object /\ (complete' <=> complete)
      BY <2>1, <2>14, <3>1, Domains DEF Dropped
    <3>3. After("loop")
      BY <2>4, <2>14, <3>1 DEF Says
    <3>4. ~Deaf' => IdleOK'
      BY <1>0, <2>14, <3>2, <3>3 DEF IdleOK, After, ObjectOK
    <3>5. object' = "none" => ~complete'
      BY <1>0, <2>14, <3>2 DEF ObjectOK
    <3> QED BY <1>5, <2>2, <3>4, <3>5
  <2>15. CASE call = "close"
    <3>1. a \in {"STOP"}
      BY <2>1, <2>15 DEF Answers
    <3>2. object' = "none" /\ ~complete'
      BY <2>1, <2>15, Domains DEF Dropped
    <3>3. After("loop")
      BY <2>4, <2>15, <3>1 DEF Says
    <3>4. ~Deaf' => IdleOK'
      BY <1>0, <2>15, <3>2, <3>3 DEF IdleOK, After, ObjectOK
    <3>5. object' = "none" => ~complete'
      BY <1>0, <2>15, <3>2 DEF ObjectOK
    <3> QED BY <1>5, <2>2, <3>4, <3>5
  <2> QED BY <2>6, <2>7, <2>8, <2>9, <2>10, <2>11, <2>12, <2>13, <2>14, <2>15, Domains
<1> QED BY <1>0, <1>7, <1>8

-----------------------------------------------------------------------------
(* The other thread, and the death of the broker                           *)

\* Nothing but what the other thread has of its own, and what only it knows, changes.
LEMMA Aside ==
  ASSUME HostInv, HostTypeOK', MayStart',
         UNCHANGED <<at, call, object, complete, confirmed, turn, pipeCut, broker, failed, toBroker, toMaster>>
  PROVE  HostInv'
<1>1. ObjectOK' /\ PipesOK' /\ SilentOK'
  BY DEF HostInv, ObjectOK, PipesOK, SilentOK
<1>2. StartingOK' /\ (Deaf' <=> Deaf) /\ (IdleOK => IdleOK') /\ (CallOK => CallOK')
  <2> USE DEF Quiet, Is, Asked, Told, Carries, Now
  <2>1. StartingOK'
    BY DEF HostInv, TalkOK, StartingOK
  <2>2. (Deaf' <=> Deaf) /\ (IdleOK => IdleOK')
    BY DEF Deaf, IdleOK, Written
  <2>3. (Ending => Ending') /\ (Writing => Writing')
    BY DEF Ending, Writing
  <2>4. CallOK => CallOK'
    BY <2>3 DEF CallOK
  <2> QED BY <2>1, <2>2, <2>4
<1>3. TalkOK'
  BY <1>2 DEF HostInv, TalkOK
<1> QED BY <1>1, <1>3 DEF HostInv

\* What a dead broker has said can still be heard.
LEMMA Dies ==
  ASSUME HostInv, HostTypeOK', MayStart', broker # "none", broker' = "dead",
         UNCHANGED <<at, call, object, complete, confirmed, turn, pipeCut, failed, toBroker, toMaster>>
  PROVE  HostInv'
<1>1. ObjectOK' /\ PipesOK' /\ SilentOK'
  BY DEF HostInv, ObjectOK, PipesOK, SilentOK
<1>2. \A b, k : Asked(b, k) => Asked(b, k)'
  BY DEF Asked, Is, Carries, Now
<1>3. \A b, kinds : Told(b, kinds) => Told(b, kinds)'
  BY DEF Told, Is, Carries, Now
<1>4. StartingOK'
  BY <1>2, <1>3 DEF HostInv, TalkOK, StartingOK, Quiet, Is, Carries, Now
<1>5. ~Deaf' => ~Deaf /\ toMaster # <<>>
  BY DEF Deaf
<1>6. IdleOK => toMaster = <<>>
  <2>1. HostTypeOK /\ complete \in BOOLEAN /\ Places
    BY TypesAre DEF HostInv, Flags
  <2> QED BY <2>1 DEF IdleOK, Quiet, Written, Places
<1>7. CallOK => CallOK'
  <2>1. Ending => Ending'
    BY <1>2, <1>3 DEF Ending, Is, Now
  <2>2. Writing => Writing'
    BY <1>2, <1>3 DEF Writing, Is, Carries, Now
  <2> QED BY <1>2, <1>3, <2>1, <2>2 DEF CallOK
<1>8. TalkOK'
  BY <1>4, <1>5, <1>6, <1>7 DEF HostInv, TalkOK
<1> QED BY <1>1, <1>8 DEF HostInv

\* Abort leaves the conversation alone, or stops it.
LEMMA AbortStep ==
  ASSUME HostInv, Abort \/ Aborting
  PROVE  HostInv'
<1>1. HostTypeOK' /\ MayStart'
  BY OtherType DEF HostInv
<1>2. CASE Abort
  BY <1>1, <1>2, Aside DEF Abort, pipes
<1>3. CASE TakePeer
  BY <1>1, <1>3, Aside DEF TakePeer, pipes, client
<1>4. CASE AbortReceiving
  <2>1. /\ UNCHANGED <<at, call, object, complete, confirmed, turn, broker, failed, toBroker, toMaster>>
        /\ pipeCut'
    BY <1>4 DEF AbortReceiving, pipes, client
  <2>2. ObjectOK' /\ PipesOK' /\ SilentOK'
    BY <2>1 DEF HostInv, ObjectOK, PipesOK, SilentOK
  <2>3. StartingOK'
    BY <2>1 DEF HostInv, TalkOK, StartingOK, Quiet, Is, Asked, Told, Carries, Now
  <2>4. Deaf'
    BY <2>1 DEF Deaf
  <2> QED BY <1>1, <2>2, <2>3, <2>4 DEF HostInv, TalkOK
<1>5. CASE Kill
  <2>1. CASE taken # 0 /\ taken = session /\ broker # "none"
    BY <1>1, <1>5, <2>1, Dies DEF Kill, pipes, client
  <2>2. CASE ~(taken # 0 /\ taken = session /\ broker # "none")
    BY <1>1, <1>5, <2>2, Aside DEF Kill, pipes, client
  <2> QED BY <2>1, <2>2
<1> QED BY <1>2, <1>3, <1>4, <1>5 DEF Aborting

-----------------------------------------------------------------------------
(* The broker                                                              *)

\* The reply to what was asked.
LEMMA AskedServed ==
  ASSUME PipesOK, NEW b, NEW k, Asked(b, k), NEW j \in TokenKinds, NEW r \in TokenKinds, NEW p, Serve(<<j>>, <<r>>, p),
         turn' = turn, NEW kinds, r \in kinds
  PROVE  j = k /\ Told(p, kinds)'
<1>1. Len(toBroker) = 1 /\ toBroker[1] = Now(k) /\ toMaster = <<>>
  BY DEF Asked, Carries
<1>2. /\ toBroker[1].is = j /\ toBroker' \in Seq(Token) /\ broker' = p /\ Len(toBroker') = 0
      /\ Len(toMaster') = 1 /\ toMaster'[1] = [is |-> r, of |-> toBroker[1].of]
  BY <1>1, ServeOne
<1>3. j = k /\ toMaster'[1] = Now(r)'
  BY <1>1, <1>2 DEF Now
<1>4. toBroker' = <<>>
  BY <1>2
<1> QED BY <1>2, <1>3, <1>4 DEF Told, Is, Carries

\* While the host may hear it, a broker that is there has been asked what it can serve.
LEMMA WhatIsAsked ==
  ASSUME CallOK, toBroker # <<>>, broker \notin {"none", "dead"}
  PROVE  \/ broker = "loop" /\ \/ call = "command" /\ Asked("loop", "SIMPLE")
                               \/ call = "openenum" /\ Asked("loop", "ENUM")
                               \/ call = "openget" /\ Asked("loop", "GET")
                               \/ call = "openput" /\ Asked("loop", "PUT")
         \/ broker = "enum" /\ \/ call = "item" /\ Asked("enum", "NEXT")
                               \/ call = "close" /\ object = "enumer" /\ Asked("enum", "STOP")
         \/ broker = "get" /\ \/ call = "read" /\ Asked("get", "len")
                              \/ call = "close" /\ object = "reader" /\ Asked("get", "zero")
         \/ broker \in {"put", "buf"} /\ \/ call = "write" /\ Writing
                                         \/ call = "complete" /\ Ending
                                         \/ call = "close" /\ object = "writer" /\ Ending
<1>1. \A b, kinds : ~Told(b, kinds)
  BY DEF Told
<1>2. Writing => broker \in {"put", "buf"}
  BY <1>1 DEF Writing, Is
<1>3. Ending => broker \in {"put", "buf"}
  BY <1>1 DEF Ending, Is, Asked
<1>4. \A b, k : Asked(b, k) => broker = b
  BY DEF Asked, Is
<1> QED BY <1>1, <1>2, <1>3, <1>4 DEF CallOK

\* Between calls only a write can be left.
LEMMA WhatIsLeft ==
  ASSUME HostTypeOK, IdleOK, toBroker # <<>>
  PROVE  /\ object = "writer" /\ ~complete
         /\ broker = "buf" /\ Len(toBroker) = 1 /\ toBroker[1].is = "buf" /\ toMaster = <<>>
<1>1. Places /\ complete \in BOOLEAN
  BY TypesAre DEF Flags
<1> QED BY <1>1 DEF IdleOK, Quiet, Written, Places

\* What is left to show of an action of the broker.
LEMMA BrokerKeeps ==
  ASSUME HostInv, Broker, broker \notin {"none", "dead"}, PipesOK', StartingOK',
         at = "idle" /\ IdleOK => IdleOK' /\ toMaster' = <<>>,
         at = "call" /\ CallOK => CallOK'
  PROVE  HostInv'
<1>1. HostTypeOK' /\ MayStart'
  BY OtherType DEF HostInv
<1>2. UNCHANGED <<at, call, object, complete, confirmed, turn, pipeCut>>
  BY DEF Broker, client
<1>3. ObjectOK'
  BY <1>2 DEF HostInv, ObjectOK
<1>4. ~pipeCut => ~Deaf
  BY DEF Deaf
<1>5. ~Deaf' => ~pipeCut
  BY <1>2 DEF Deaf
<1>6. TalkOK'
  BY <1>2, <1>4, <1>5 DEF HostInv, TalkOK
<1>7. SilentOK'
  BY <1>2, <1>4 DEF HostInv, TalkOK, SilentOK
<1> QED BY <1>1, <1>3, <1>6, <1>7 DEF HostInv

\* While it logs in, the host says nothing else.
LEMMA StartingIs ==
  ASSUME HostInv, toBroker # <<>>, broker \notin {"none", "dead"}, at \in Starting
  PROVE  at = "status" /\ Asked("login", "cred") /\ broker = "login"
<1>1. \A b, kinds : ~Told(b, kinds)
  BY DEF Told
<1>2. at = "status" => Asked("login", "cred")
  BY <1>1 DEF HostInv, TalkOK, StartingOK
<1>3. at = "status"
  BY DEF HostInv, TalkOK, StartingOK, Starting, Quiet
<1> QED BY <1>2, <1>3 DEF Asked, Is

\* The pipes after one token is served.
LEMMA OneServed ==
  ASSUME HostInv, NEW j \in TokenKinds, NEW r \in TokenKinds, NEW p, Serve(<<j>>, <<r>>, p), p # "none"
  PROVE  PipesOK' /\ toBroker # <<>>
<1>1. PipesOK
  BY DEF HostInv
<1>2. toBroker' \in Seq(Token) /\ toMaster' \in Seq(Token) /\ broker' = p /\ Len(toBroker) >= 1
  BY <1>1, ServeOne
<1>3. toBroker # <<>>
  BY <1>2
<1> QED BY <1>2, <1>3 DEF PipesOK

\* The broker greets the host when it begins.
LEMMA GreetStep ==
  ASSUME HostInv, Broker, Greet
  PROVE  HostInv'
<1>1. /\ broker = "start" /\ broker' = "login" /\ toBroker' = toBroker
      /\ toMaster' = toMaster \o Tokens(<<"HELLO">>, turn) /\ turn' = turn /\ at' = at
  BY DEF Greet, Broker, client
<1>2. PipesOK /\ turn \in 0..1
  BY DEF HostInv, HostTypeOK
<1>3. /\ toMaster' \in Seq(Token) /\ Len(toMaster') = Len(toMaster) + 1
      /\ toMaster'[Len(toMaster) + 1] = Now("HELLO")
  <2>1. PICK n \in 0..1 : n = turn
    BY <1>2
  <2>2. PICK k \in TokenKinds : k = "HELLO"
    BY DEF TokenKinds
  <2>3. toMaster' = toMaster \o Tokens(<<k>>, n)
    BY <1>1, <2>1, <2>2, Zenon
  <2>4. toMaster \in Seq(Token)
    BY <1>2 DEF PipesOK
  <2>5. /\ toMaster' \in Seq(Token) /\ Len(toMaster') = Len(toMaster) + 1
        /\ toMaster'[Len(toMaster) + 1] = [is |-> k, of |-> n]
    BY <2>3, <2>4, PutOne
  <2> QED BY ONLY <2>1, <2>2, <2>5 DEF Now
<1>4. PipesOK'
  BY <1>1, <1>2, <1>3 DEF PipesOK
<1>5. StartingOK'
  <2>1. at \in {"forked", "hello"} => toBroker = <<>> /\ toMaster = <<>>
    BY <1>1 DEF HostInv, TalkOK, StartingOK, Is
  <2>2. toMaster = <<>> => Carries(toMaster, "HELLO")'
    BY <1>1, <1>3 DEF Carries, Now
  <2>3. at \notin {"reset", "fresh", "fork", "giveup", "peer", "login", "status"}
    <3>1. ~Quiet("none") /\ ~Is("login") /\ ~Is("loop") /\ ~Asked("login", "cred")
      BY <1>1 DEF Quiet, Is, Asked
    <3>2. \A kinds : ~Told("login", kinds) /\ ~Told("loop", kinds)
      BY <3>1 DEF Told
    <3> QED BY <3>1, <3>2 DEF HostInv, TalkOK, StartingOK
  <2> QED BY <1>1, <2>1, <2>2, <2>3 DEF StartingOK, Is
<1>6. ~IdleOK
  <2>1. Places /\ complete \in BOOLEAN
    BY TypesAre DEF HostInv, Flags
  <2> QED BY <1>1, <2>1 DEF IdleOK, Quiet, Written, Places
<1>7. ~CallOK
  <2>1. \A b : Is(b) => b = "start"
    BY <1>1 DEF Is
  <2>2. \A b, k, kinds : (Asked(b, k) \/ Told(b, kinds)) => b = "start"
    BY <2>1 DEF Asked, Told
  <2>3. ~Writing /\ ~Ending
    BY <2>1, <2>2 DEF Writing, Ending
  <2> QED BY <2>2, <2>3 DEF CallOK
<1> QED BY <1>1, <1>4, <1>5, <1>6, <1>7, BrokerKeeps

\* It answers to the credentials.
LEMMA InitConnectionStep ==
  ASSUME HostInv, Broker, InitConnection
  PROVE  HostInv'
<1>1. PICK s \in Statuses : Serve(<<"cred">>, <<s>>, IF s = "OK" THEN "loop" ELSE "login")
  BY DEF InitConnection
<1> DEFINE p == IF s = "OK" THEN "loop" ELSE "login"
<1>2. "cred" \in TokenKinds /\ s \in TokenKinds /\ broker = "login" /\ p # "none" /\ Serve(<<"cred">>, <<s>>, p)
      /\ turn' = turn /\ at' = at
  BY <1>1 DEF TokenKinds, Statuses, InitConnection, Broker, client
<1> HIDE DEF p
<1>3. PipesOK' /\ toBroker # <<>>
  BY <1>2, OneServed
<1>4. StartingOK'
  <2>1. CASE at \in Starting
    <3>1. at = "status" /\ Asked("login", "cred")
      BY <1>2, <1>3, <2>1, StartingIs
    <3>2. \A kinds : s \in kinds => Told(p, kinds)'
      BY <1>2, <3>1, AskedServed DEF HostInv
    <3>3. \/ s = "OK" /\ p = "loop"
          \/ s \in {"IDENTITY", "AUTH", "PROTOCOL", "GENERIC"} /\ p = "login"
      BY DEF Statuses, p
    <3>4. \/ Told("loop", {"OK"})'
          \/ Told("login", {"IDENTITY", "AUTH", "PROTOCOL", "GENERIC"})'
      BY <3>2, <3>3
    <3> QED BY <1>2, <3>1, <3>4 DEF StartingOK
  <2>2. CASE at \notin Starting
    BY <1>2, <2>2 DEF StartingOK, Starting
  <2> QED BY <2>1, <2>2
<1>5. ~(at = "idle" /\ IdleOK)
  BY <1>2, <1>3, WhatIsLeft DEF HostInv
<1>6. ~CallOK
  BY <1>2, <1>3, WhatIsAsked
<1> QED BY <1>2, <1>3, <1>4, <1>5, <1>6, BrokerKeeps

\* A broker that serves requests does so during a call.
LEMMA Serves ==
  ASSUME HostInv, Broker, broker \in {"loop", "enum", "get", "put"}, PipesOK', toBroker # <<>>,
         at = "call" /\ CallOK => CallOK'
  PROVE  HostInv'
<1>1. at' = at
  BY DEF Broker
<1>2. at \notin Starting
  BY StartingIs
<1>3. StartingOK'
  BY <1>1, <1>2 DEF StartingOK, Starting
<1>4. ~(at = "idle" /\ IdleOK)
  BY WhatIsLeft DEF HostInv
<1> QED BY <1>3, <1>4, BrokerKeeps

\* It begins what it is asked for, or replies with an error.
LEMMA OnCommandStep ==
  ASSUME HostInv, Broker, OnCommand
  PROVE  HostInv'
<1>1. PICK c \in {"SIMPLE", "ENUM", "GET", "PUT"}, r \in {"SIMPLE", "ENUM", "GET", "PUT", "ERROR"},
           p \in {"loop", "enum", "get", "put"} :
        /\ Serve(<<c>>, <<r>>, p)
        /\ \/ r = "ERROR" /\ p = "loop"
           \/ r = "SIMPLE" /\ c = "SIMPLE" /\ p = "loop"
           \/ r = "ENUM" /\ c = "ENUM" /\ p = "enum"
           \/ r = "GET" /\ c = "GET" /\ p = "get"
           \/ r = "PUT" /\ c = "PUT" /\ p = "put"
  <2> DEFINE Place(c) == CASE c = "SIMPLE" -> "loop" [] c = "ENUM" -> "enum"
                           [] c = "GET" -> "get" [] c = "PUT" -> "put"
  <2>1. PICK c \in {"SIMPLE", "ENUM", "GET", "PUT"} :
          Serve(<<c>>, <<c>>, Place(c)) \/ Serve(<<c>>, <<"ERROR">>, "loop")
    BY DEF OnCommand, Expects
  <2>2. /\ Place("SIMPLE") = "loop" /\ Place("ENUM") = "enum"
        /\ Place("GET") = "get" /\ Place("PUT") = "put"
    OBVIOUS
  <2> HIDE DEF Place
  <2>3. CASE Serve(<<c>>, <<"ERROR">>, "loop")
    BY <2>3
  <2>4. CASE Serve(<<c>>, <<c>>, Place(c))
    BY <2>2, <2>4
  <2> QED BY <2>1, <2>3, <2>4
<1>2. /\ c \in TokenKinds /\ r \in TokenKinds /\ p # "none" /\ broker = "loop" /\ PipesOK
      /\ UNCHANGED <<at, call, object, turn>> /\ failed' = (failed /\ broker' # "put")
  BY DEF TokenKinds, OnCommand, Broker, client, HostInv
<1>3. PipesOK' /\ toBroker # <<>>
  BY <1>1, <1>2, OneServed
<1>4. broker' = p
  BY <1>1 DEF Serve
<1>5. ASSUME at = "call", CallOK
      PROVE  CallOK'
  <2>1. \A k, kinds : Asked("loop", k) /\ r \in kinds => c = k /\ Told(p, kinds)'
    BY <1>1, <1>2, AskedServed
  <2>2. CASE call = "command" /\ Asked("loop", "SIMPLE")
    <3>1. Told("loop", {"SIMPLE", "ERROR"})'
      BY <1>1, <2>1, <2>2
    <3> QED BY <1>2, <2>2, <3>1 DEF CallOK
  <2>3. CASE call = "openenum" /\ Asked("loop", "ENUM")
    <3>1. Told("enum", {"ENUM"})' \/ Told("loop", {"ERROR"})'
      BY <1>1, <2>1, <2>3
    <3> QED BY <1>2, <2>3, <3>1 DEF CallOK
  <2>4. CASE call = "openget" /\ Asked("loop", "GET")
    <3>1. Told("get", {"GET"})' \/ Told("loop", {"ERROR"})'
      BY <1>1, <2>1, <2>4
    <3> QED BY <1>2, <2>4, <3>1 DEF CallOK
  <2>5. CASE call = "openput" /\ Asked("loop", "PUT")
    <3>1. (Told("put", {"PUT"})' /\ p = "put") \/ Told("loop", {"ERROR"})'
      BY <1>1, <2>1, <2>5
    <3>2. p = "put" => ~failed'
      BY <1>2, <1>4
    <3> QED BY <1>2, <2>5, <3>1, <3>2 DEF CallOK
  <2> QED BY <1>2, <1>3, <1>5, <2>2, <2>3, <2>4, <2>5, WhatIsAsked
<1> QED BY <1>2, <1>3, <1>5, Serves

\* It goes through the directory, which the host may leave, until the end or an error.
LEMMA OnDirectoryEnumStep ==
  ASSUME HostInv, Broker, OnDirectoryEnum
  PROVE  HostInv'
<1>1. PICK c \in {"NEXT", "STOP"}, r \in {"NEXT", "END", "STOP", "ERROR"}, p \in {"enum", "loop"} :
        /\ Serve(<<c>>, <<r>>, p)
        /\ \/ r = "ERROR" /\ p = "loop"
           \/ r = "NEXT" /\ c = "NEXT" /\ p = "enum"
           \/ r = "END" /\ c = "NEXT" /\ p = "loop"
           \/ r = "STOP" /\ c = "STOP" /\ p = "loop"
  BY DEF OnDirectoryEnum, Expects
<1>2. /\ c \in TokenKinds /\ r \in TokenKinds /\ p # "none" /\ broker = "enum" /\ PipesOK
      /\ UNCHANGED <<at, call, object, turn>>
  BY DEF TokenKinds, OnDirectoryEnum, Broker, client, HostInv
<1>3. PipesOK' /\ toBroker # <<>>
  BY <1>1, <1>2, OneServed
<1>4. ASSUME at = "call", CallOK
      PROVE  CallOK'
  <2>1. \A k, kinds : Asked("enum", k) /\ r \in kinds => c = k /\ Told(p, kinds)'
    BY <1>1, <1>2, AskedServed
  <2>2. CASE call = "item" /\ Asked("enum", "NEXT")
    <3>1. Told("enum", {"NEXT"})' \/ Told("loop", {"END", "ERROR"})'
      BY <1>1, <2>1, <2>2
    <3> QED BY <1>2, <2>2, <3>1 DEF CallOK
  <2>3. CASE call = "close" /\ object = "enumer" /\ Asked("enum", "STOP")
    <3>1. Told("loop", {"STOP", "ERROR"})'
      BY <1>1, <2>1, <2>3
    <3> QED BY <1>2, <2>3, <3>1 DEF CallOK
  <2> QED BY <1>2, <1>3, <1>4, <2>2, <2>3, WhatIsAsked
<1> QED BY <1>2, <1>3, <1>4, Serves

\* It sends the file, which the host may leave too.
LEMMA OnFileGetStep ==
  ASSUME HostInv, Broker, OnFileGet
  PROVE  HostInv'
<1>1. PICK c \in {"len", "zero"}, r \in {"DATA", "EOF", "STOP", "ERROR"}, p \in {"get", "loop"} :
        /\ Serve(<<c>>, <<r>>, p)
        /\ \/ r = "DATA" /\ c = "len" /\ p = "get"
           \/ r \in {"EOF", "ERROR"} /\ c = "len" /\ p = "loop"
           \/ r = "STOP" /\ c = "zero" /\ p = "loop"
  BY DEF OnFileGet
<1>2. /\ c \in TokenKinds /\ r \in TokenKinds /\ p # "none" /\ broker = "get" /\ PipesOK
      /\ UNCHANGED <<at, call, object, turn>>
  BY DEF TokenKinds, OnFileGet, Broker, client, HostInv
<1>3. PipesOK' /\ toBroker # <<>>
  BY <1>1, <1>2, OneServed
<1>4. ASSUME at = "call", CallOK
      PROVE  CallOK'
  <2>1. \A k, kinds : Asked("get", k) /\ r \in kinds => c = k /\ Told(p, kinds)'
    BY <1>1, <1>2, AskedServed
  <2>2. CASE call = "read" /\ Asked("get", "len")
    <3>0. c = "len"
      <4>1. r \in {r}
        OBVIOUS
      <4> QED BY <2>1, <2>2, <4>1
    <3>1. Told("get", {"DATA"})' \/ Told("loop", {"EOF", "ERROR"})'
      BY <1>1, <2>1, <2>2, <3>0
    <3> QED BY <1>2, <2>2, <3>1 DEF CallOK
  <2>3. CASE call = "close" /\ object = "reader" /\ Asked("get", "zero")
    <3>0. c = "zero"
      <4>1. r \in {r}
        OBVIOUS
      <4> QED BY <2>1, <2>3, <4>1
    <3>1. Told("loop", {"STOP"})'
      BY <1>1, <2>1, <2>3, <3>0
    <3> QED BY <1>2, <2>3, <3>1 DEF CallOK
  <2> QED BY <1>2, <1>3, <1>4, <2>2, <2>3, WhatIsAsked
<1> QED BY <1>2, <1>3, <1>4, Serves

\* A broker that waits for the next write has been asked to end the file, or to write.
LEMMA PutAsked ==
  ASSUME PipesOK, CallOK, toBroker # <<>>, broker = "put"
  PROVE  \/ call = "complete" /\ Asked("put", "zero")
         \/ call = "close" /\ object = "writer" /\ Asked("put", "zero")
         \/ /\ call = "write" /\ Len(toBroker) = 2
            /\ toBroker[1] = Now("len") /\ toBroker[2] = Now("buf") /\ toMaster = <<>>
<1>1. \A b, kinds : ~Told(b, kinds)
  BY DEF Told
<1>2. Ending => Asked("put", "zero")
  BY <1>1 DEF Ending, Is
<1>3. Writing => /\ Len(toBroker) = 2 /\ toBroker[1] = Now("len") /\ toBroker[2] = Now("buf")
                 /\ toMaster = <<>>
  BY <1>1 DEF Writing, Is
<1> QED BY <1>2, <1>3, WhatIsAsked

\* The error of a write is the reply to the end of the file, or to the next write.
LEMMA ReportFailedWriteStep ==
  ASSUME HostInv, Broker, ReportFailedWrite
  PROVE  HostInv'
<1>1. /\ broker = "put" /\ PipesOK /\ UNCHANGED <<at, call, object, turn>>
      /\ Serve(<<"len", "buf">>, <<"ERROR">>, "loop") \/ Serve(<<"zero">>, <<"ERROR">>, "loop")
  BY DEF ReportFailedWrite, Broker, client, HostInv
<1>2. "len" \in TokenKinds /\ "buf" \in TokenKinds /\ "zero" \in TokenKinds /\ "ERROR" \in TokenKinds
  BY DEF TokenKinds
<1>3. PipesOK' /\ toBroker # <<>>
  <2>1. CASE Serve(<<"len", "buf">>, <<"ERROR">>, "loop")
    <3>1. toBroker' \in Seq(Token) /\ toMaster' \in Seq(Token) /\ broker' = "loop" /\ Len(toBroker) >= 2
      BY <1>1, <1>2, <2>1, ServeTwo
    <3>2. toBroker # <<>>
      BY <3>1
    <3> QED BY <3>1, <3>2 DEF PipesOK
  <2>2. CASE Serve(<<"zero">>, <<"ERROR">>, "loop")
    BY <1>2, <2>2, OneServed
  <2> QED BY <1>1, <2>1, <2>2
<1>4. ASSUME at = "call", CallOK
      PROVE  CallOK'
  <2>1. CASE Asked("put", "zero") /\ (call = "complete" \/ (call = "close" /\ object = "writer"))
    <3>1. Serve(<<"zero">>, <<"ERROR">>, "loop")
      <4>1. Len(toBroker) = 1
        BY <2>1 DEF Asked, Carries
      <4> QED BY <1>1, <1>2, <4>1, ServeTwo
    <3>2. "ERROR" \in {"ERROR"}
      OBVIOUS
    <3>3. Told("loop", {"ERROR"})'
      BY <1>1, <1>2, <2>1, <3>1, <3>2, AskedServed
    <3> QED BY <1>1, <2>1, <3>3 DEF CallOK, Ending
  <2>2. CASE /\ call = "write" /\ Len(toBroker) = 2
             /\ toBroker[1] = Now("len") /\ toBroker[2] = Now("buf") /\ toMaster = <<>>
    <3>1. Serve(<<"len", "buf">>, <<"ERROR">>, "loop")
      <4>1. toBroker[1].is = "len"
        BY <2>2 DEF Now
      <4>2. Serve(<<"zero">>, <<"ERROR">>, "loop") => toBroker[1].is = "zero"
        BY <1>1, <1>2, ServeOne
      <4> QED BY <1>1, <4>1, <4>2
    <3>2. /\ toBroker' \in Seq(Token) /\ broker' = "loop" /\ Len(toBroker') = 0
          /\ Len(toMaster') = 1 /\ toMaster'[1] = [is |-> "ERROR", of |-> toBroker[1].of]
      BY <1>1, <1>2, <2>2, <3>1, ServeTwo
    <3>3. toBroker' = <<>> /\ toMaster'[1] = Now("ERROR")'
      BY <1>1, <2>2, <3>2 DEF Now
    <3>4. Told("loop", {"ERROR"})'
      BY <3>2, <3>3 DEF Told, Is, Carries
    <3> QED BY <1>1, <2>2, <3>4 DEF CallOK, Writing
  <2> QED BY <1>1, <1>3, <1>4, <2>1, <2>2, PutAsked
<1> QED BY <1>1, <1>3, <1>4, Serves

\* It acknowledges a write before it is done, and the end of a file after.
LEMMA OnFilePutStep ==
  ASSUME HostInv, Broker, OnFilePut
  PROVE  HostInv'
<1>1. /\ broker = "put" /\ ~failed /\ ~failed' /\ PipesOK /\ UNCHANGED <<at, call, object, turn>>
      /\ \/ Serve(<<"len">>, <<"PUT">>, "buf")
         \/ Serve(<<"zero">>, <<"STOP">>, "loop") \/ Serve(<<"zero">>, <<"ERROR">>, "loop")
  BY DEF OnFilePut, Broker, client, HostInv
<1>2. "len" \in TokenKinds /\ "PUT" \in TokenKinds /\ "zero" \in TokenKinds /\ "ERROR" \in TokenKinds /\ "STOP" \in TokenKinds
  BY DEF TokenKinds
<1>3. PipesOK' /\ toBroker # <<>>
  <2>1. CASE Serve(<<"len">>, <<"PUT">>, "buf")
    BY <1>2, <2>1, OneServed
  <2>2. CASE Serve(<<"zero">>, <<"STOP">>, "loop")
    BY <1>2, <2>2, OneServed
  <2>3. CASE Serve(<<"zero">>, <<"ERROR">>, "loop")
    BY <1>2, <2>3, OneServed
  <2> QED BY <1>1, <2>1, <2>2, <2>3
<1>4. ASSUME at = "call", CallOK
      PROVE  CallOK'
  <2>1. CASE Asked("put", "zero") /\ (call = "complete" \/ (call = "close" /\ object = "writer"))
    <3>1. Serve(<<"zero">>, <<"STOP">>, "loop") \/ Serve(<<"zero">>, <<"ERROR">>, "loop")
      <4>1. toBroker[1].is = "zero"
        BY <2>1 DEF Asked, Carries, Now
      <4>2. Serve(<<"len">>, <<"PUT">>, "buf") => toBroker[1].is = "len"
        BY <1>1, <1>2, ServeOne
      <4> QED BY <1>1, <4>1, <4>2
    <3>2. "ERROR" \in {"ERROR"} /\ "STOP" \in {"STOP"}
      OBVIOUS
    <3>3. Told("loop", {"STOP"})' \/ Told("loop", {"ERROR"})'
      BY <1>1, <1>2, <2>1, <3>1, <3>2, AskedServed
    <3> QED BY <1>1, <2>1, <3>3 DEF CallOK, Ending
  <2>2. CASE /\ call = "write" /\ Len(toBroker) = 2
             /\ toBroker[1] = Now("len") /\ toBroker[2] = Now("buf") /\ toMaster = <<>>
    <3>1. Serve(<<"len">>, <<"PUT">>, "buf")
      <4>1. toBroker[1].is = "len"
        BY <2>2 DEF Now
      <4>2. Serve(<<"zero">>, <<"ERROR">>, "loop") => toBroker[1].is = "zero"
        BY <1>1, <1>2, ServeOne
      <4>3. Serve(<<"zero">>, <<"STOP">>, "loop") => toBroker[1].is = "zero"
        BY <1>1, <1>2, ServeOne
      <4> QED BY <1>1, <4>1, <4>2, <4>3
    <3>2. /\ broker' = "buf" /\ Len(toBroker') = 1 /\ toBroker'[1] = toBroker[2]
          /\ Len(toMaster') = 1 /\ toMaster'[1] = [is |-> "PUT", of |-> toBroker[1].of]
      BY <1>1, <1>2, <2>2, <3>1, ServeOne
    <3>3. Carries(toBroker, "buf")' /\ Carries(toMaster, "PUT")'
      BY <1>1, <2>2, <3>2 DEF Now, Carries
    <3> QED BY <1>1, <2>2, <3>2, <3>3 DEF CallOK, Writing, Is
  <2> QED BY <1>1, <1>3, <1>4, <2>1, <2>2, PutAsked
<1> QED BY <1>1, <1>3, <1>4, Serves

\* It writes what it has acknowledged, with or without an error.
LEMMA DoWriteStep ==
  ASSUME HostInv, Broker, DoWrite
  PROVE  HostInv'
<1>1. /\ broker = "buf" /\ broker' = "put" /\ PipesOK /\ UNCHANGED <<at, call, object, complete, turn>>
      /\ Serve(<<"buf">>, <<>>, "put")
  BY DEF DoWrite, Serve, Broker, client, HostInv
<1>2. /\ Len(toBroker) \in Nat /\ Len(toBroker) >= 1 /\ toBroker[1].is = "buf"
      /\ toBroker' \in Seq(Token) /\ toMaster' = toMaster
      /\ Len(toBroker') = Len(toBroker) - 1
      /\ \A i \in 1..(Len(toBroker) - 1) : toBroker'[i] = toBroker[i + 1]
  <2>1. "buf" \in TokenKinds
    BY DEF TokenKinds
  <2> QED BY <1>1, <2>1, ServeData
<1>3. PipesOK' /\ toBroker # <<>>
  BY <1>1, <1>2 DEF PipesOK
<1>4. StartingOK'
  <2>1. at \notin Starting
    BY <1>1, <1>3, StartingIs
  <2> QED BY <1>1, <2>1 DEF StartingOK, Starting
<1>5. Len(toBroker) = 1 => toBroker' = <<>>
  BY <1>2
<1>6. ASSUME at = "idle", IdleOK
      PROVE  IdleOK' /\ toMaster' = <<>>
  <2>1. /\ object = "writer" /\ ~complete /\ Len(toBroker) = 1 /\ toMaster = <<>>
    BY <1>3, <1>6, WhatIsLeft DEF HostInv
  <2> QED BY <1>1, <1>2, <1>5, <2>1 DEF IdleOK, Written, Quiet
<1>7. Ending => Ending'
  <2>1. \A b, k : ~Told(b, k)
    BY <1>3 DEF Told
  <2>2. Ending => Len(toBroker) = 2 /\ toBroker[2] = Now("zero") /\ toMaster = <<>>
    BY <1>1, <2>1 DEF Ending, Is, Asked
  <2>3. Len(toBroker) = 2 => Len(toBroker') = 1 /\ toBroker'[1] = toBroker[2]
    BY <1>2
  <2> QED BY <1>1, <1>2, <2>2, <2>3 DEF Ending, Asked, Carries, Is, Now
<1>8. Writing => Writing'
  <2>1. \A b, k : ~Told(b, k)
    BY <1>3 DEF Told
  <2>2. Writing => \/ /\ Len(toBroker) = 3 /\ toMaster = <<>>
                      /\ toBroker[2] = Now("len") /\ toBroker[3] = Now("buf")
                   \/ Carries(toBroker, "buf") /\ Carries(toMaster, "PUT")
    BY <1>1, <2>1 DEF Writing, Is
  <2>3. Len(toBroker) = 3 => Len(toBroker') = 2 /\ toBroker'[1] = toBroker[2] /\ toBroker'[2] = toBroker[3]
    BY <1>2
  <2>4. CASE /\ Len(toBroker) = 3 /\ toMaster = <<>>
             /\ toBroker[2] = Now("len") /\ toBroker[3] = Now("buf")
    BY <1>1, <1>2, <2>3, <2>4 DEF Writing, Is, Now
  <2>5. CASE Carries(toBroker, "buf") /\ Carries(toMaster, "PUT")
    <3>1. Told("put", {"PUT"})'
      BY <1>1, <1>2, <1>5, <2>5 DEF Told, Is, Carries, Now
    <3> QED BY <3>1 DEF Writing
  <2> QED BY <2>2, <2>4, <2>5
<1>9. ASSUME at = "call", CallOK
      PROVE  CallOK'
  <2>1. \/ call = "write" /\ Writing
        \/ call = "complete" /\ Ending
        \/ call = "close" /\ object = "writer" /\ Ending
    BY <1>1, <1>3, <1>9, WhatIsAsked
  <2> QED BY <1>1, <1>7, <1>8, <2>1 DEF CallOK
<1> QED BY <1>1, <1>3, <1>4, <1>6, <1>9, BrokerKeeps

\* It may die at any time.
LEMMA DieStep ==
  ASSUME HostInv, Broker, Die
  PROVE  HostInv'
<1>1. HostTypeOK' /\ MayStart'
  BY OtherType DEF HostInv
<1>2. /\ broker # "none" /\ broker' = "dead"
      /\ UNCHANGED <<at, call, object, complete, confirmed, turn, pipeCut, failed, toBroker, toMaster>>
  BY DEF Die, Broker, client, pipes
<1> QED BY <1>1, <1>2, Dies

-----------------------------------------------------------------------------
(* All steps                                                               *)

\* Nothing has been started.
LEMMA Initially ==
  ASSUME HostInit
  PROVE  HostInv
<1>1. HostTypeOK
  <2>1. Places /\ Numbers
    BY Domains DEF HostInit, Places, Numbers
  <2>2. Flags
    BY Zenon DEF HostInit, Flags
  <2> QED BY <2>1, <2>2, TypesAre
<1>2. ObjectOK
  BY Domains DEF HostInit, ObjectOK, Starting
<1>3. MayStart /\ PipesOK /\ SilentOK
  BY DEF HostInit, MayStart, PipesOK, SilentOK
<1>4. TalkOK
  BY DEF HostInit, TalkOK, StartingOK, Deaf
<1> QED BY <1>1, <1>2, <1>3, <1>4 DEF HostInv

\* Every step of the host, of the other thread and of the broker keeps all that.
LEMMA Stepwise ==
  ASSUME HostInv, [HostNext]_hostVars
  PROVE  HostInv'
<1>1. CASE UNCHANGED hostVars
  <2>1. UNCHANGED <<at, call, object, complete, confirmed, turn, pipeCut, broker, failed, toBroker, toMaster>>
    BY <1>1 DEF hostVars, client, pipes
  <2>2. HostTypeOK' /\ MayStart'
    BY <1>1 DEF hostVars, client, pipes, login, other, HostInv, HostTypeOK, MayStart
  <2> QED BY <2>1, <2>2, Aside
<1>2. CASE \/ ReInitialize \/ DropPeer \/ Fresh \/ Fork \/ InitCommand \/ Plug
  BY <1>2, StartStep, StartType DEF HostInv
<1>3. CASE \/ Hello \/ SetPeer \/ Login \/ LoggedIn \/ LoginAgain \/ LoginRefused \/ LoginLost
  BY <1>3, LoginStep, StartType DEF HostInv
<1>4. CASE Call BY <1>4, CallStep
<1>5. CASE Receive BY <1>5, ReceiveStep
<1>6. CASE Abort \/ Aborting BY <1>6, AbortStep
<1>7. CASE Broker
  BY <1>7, GreetStep, InitConnectionStep, OnCommandStep, OnDirectoryEnumStep, OnFileGetStep,
     ReportFailedWriteStep, OnFilePutStep, DoWriteStep, DieStep DEF Broker
<1> QED BY <1>1, <1>2, <1>3, <1>4, <1>5, <1>6, <1>7 DEF HostNext, Master

\* The invariant holds in every state: what is said on both sides, for each place where
\* the host can be, as HostRemote.cpp and HostRemoteBroker.cpp take turns.
THEOREM HostInvariance ==
  HostSpec => []HostInv
<1>1. HostInit => HostInv
  BY Initially
<1>2. HostInv /\ [HostNext]_hostVars => HostInv'
  BY Stepwise
<1> QED BY <1>1, <1>2, PTL DEF HostSpec

\* HostRemote keeps its variables within their types.
THEOREM HostTypeCorrect ==
  HostSpec => []HostTypeOK
<1>1. HostInv => HostTypeOK
  BY DEF HostInv
<1> QED BY <1>1, HostInvariance, PTL

-----------------------------------------------------------------------------
(* The two sides are in step                                               *)

\* What is waited for, by name.
LEMMA ExpectedAre ==
  /\ Expects["login"] = {"cred"} /\ Expects["loop"] = {"SIMPLE", "ENUM", "GET", "PUT"}
  /\ Expects["enum"] = {"NEXT", "STOP"} /\ Expects["get"] = {"len", "zero"}
  /\ Expects["put"] = {"len", "zero"} /\ Expects["buf"] = {"buf"}
BY DEF Expects

\* The broker finds what it waits for.
LEMMA BrokerInStep ==
  ASSUME HostInv, ~pipeCut, broker \in DOMAIN Expects, toBroker # <<>>
  PROVE  toBroker[1].is \in Expects[broker]
<1>1. broker \in {"login", "loop", "enum", "get", "put", "buf"} /\ ~Deaf /\ PipesOK /\ HostTypeOK
  BY Domains DEF Deaf, HostInv
<1>2. CASE at \in Starting
  <2>1. at = "status" /\ Asked("login", "cred") /\ broker = "login"
    BY <1>1, <1>2, StartingIs
  <2> QED BY <2>1, ExpectedAre DEF Asked, Carries, Now
<1>3. CASE at = "idle"
  <2>1. broker = "buf" /\ toBroker[1].is = "buf"
    BY <1>1, <1>3, WhatIsLeft DEF HostInv, TalkOK
  <2> QED BY <2>1, ExpectedAre
<1>4. CASE at = "call"
  <2>1. CallOK
    BY <1>1, <1>4 DEF HostInv, TalkOK
  <2>2. \A b, k : Asked(b, k) => toBroker[1].is = k
    BY DEF Asked, Carries, Now
  <2>3. \A b, kinds : ~Told(b, kinds)
    BY DEF Told
  <2>4. broker = "buf" /\ (Writing \/ Ending) => toBroker[1].is = "buf"
    BY <2>3 DEF Writing, Ending, Is, Asked, Carries, Now
  <2>5. broker = "put" => toBroker[1].is \in {"len", "zero"}
    BY <1>1, <2>1, <2>2, PutAsked DEF Now
  <2> QED BY <1>1, <2>1, <2>2, <2>4, <2>5, WhatIsAsked, ExpectedAre
<1> QED BY <1>1, <1>2, <1>3, <1>4, TypesAre DEF Places

\* The host finds a reply to its last request.
LEMMA HostInStep ==
  ASSUME HostInv, ~pipeCut, at = "call", toMaster # <<>>
  PROVE  toMaster[1].is \in Answers[call] \cup {"ERROR"} /\ toMaster[1].of = turn
<1>1. CallOK
  BY DEF HostInv, TalkOK, Deaf
<1>2. \A b, k : ~Asked(b, k)
  BY DEF Asked
<1>3. \A b, kinds : Told(b, kinds) => toMaster[1].is \in kinds /\ toMaster[1].of = turn
  BY DEF Told, Carries, Now
<1>4. Writing => toMaster[1].is \in {"PUT", "ERROR"} /\ toMaster[1].of = turn
  BY <1>3 DEF Writing, Carries, Now
<1>5. Ending => toMaster[1].is \in {"STOP", "ERROR"} /\ toMaster[1].of = turn
  BY <1>2, <1>3 DEF Ending
<1>6. /\ Answers["command"] = {"SIMPLE"} /\ Answers["openenum"] = {"ENUM"}
      /\ Answers["openget"] = {"GET"} /\ Answers["openput"] = {"PUT"}
      /\ Answers["item"] = {"NEXT", "END"} /\ Answers["read"] = {"DATA", "EOF"}
      /\ Answers["write"] = {"PUT"} /\ Answers["complete"] = {"STOP"} /\ Answers["close"] = {"STOP"}
  BY DEF Answers
<1>7. \/ call = "command" /\ Told("loop", {"SIMPLE", "ERROR"})
      \/ call = "openenum" /\ (Told("enum", {"ENUM"}) \/ Told("loop", {"ERROR"}))
      \/ call = "openget" /\ (Told("get", {"GET"}) \/ Told("loop", {"ERROR"}))
      \/ call = "openput" /\ (Told("put", {"PUT"}) \/ Told("loop", {"ERROR"}))
      \/ call = "item" /\ (Told("enum", {"NEXT"}) \/ Told("loop", {"END", "ERROR"}))
      \/ call = "read" /\ (Told("get", {"DATA"}) \/ Told("loop", {"EOF", "ERROR"}))
      \/ call = "write" /\ Writing
      \/ call = "complete" /\ Ending
      \/ call = "close" /\ (Told("loop", {"STOP", "ERROR"}) \/ Told("loop", {"STOP"}) \/ Ending)
  BY <1>1, <1>2 DEF CallOK
<1> QED BY <1>3, <1>4, <1>5, <1>6, <1>7

\* Each side reads what the other has written for it.
LEMMA HostIsInStep == HostInv => InStep
BY BrokerInStep, HostInStep DEF InStep, HostInv, SilentOK

\* Errors in the middle of an enumeration or of a file and objects dropped halfway leave
\* the two sides of the pipes in step.
THEOREM InStepAlways ==
  HostSpec => []InStep
BY HostIsInStep, HostInvariance, PTL

-----------------------------------------------------------------------------
(* The host keeps the promise of RemoteCalls                               *)

\* Only a writer has anything unsaved.
LEMMA UnsavedIs ==
  /\ Unsaved \in BOOLEAN /\ Unsaved' \in BOOLEAN
  /\ object # "writer" => ~Unsaved
  /\ object' # "writer" => ~Unsaved'
  /\ (object' = object /\ toBroker' = toBroker /\ (failed' <=> failed)) => (Unsaved' <=> Unsaved)
BY DEF Unsaved

\* A request without data leaves it so, one with data does not.
LEMMA AskUnsaved ==
  ASSUME HostInv, object' = object, failed' = failed, NEW c
  PROVE  /\ \A k \in TokenKinds \ {"buf"} : Ask(c, <<k>>) => (Unsaved' <=> Unsaved)
         /\ Ask(c, <<"len", "buf">>) /\ object = "writer" => Unsaved'
<1>1. ASSUME NEW k \in TokenKinds \ {"buf"}, Ask(c, <<k>>)
      PROVE  Unsaved' <=> Unsaved
  <2>1. /\ toBroker' \in Seq(Token) /\ Len(toBroker') = Len(toBroker) + 1 /\ Len(toBroker) \in Nat
        /\ \A i \in 1..Len(toBroker) : toBroker'[i] = toBroker[i]
        /\ toBroker'[Len(toBroker) + 1].is = k
    <3>1. /\ toBroker' \in Seq(Token) /\ Len(toBroker') = Len(toBroker) + 1 /\ Len(toBroker) \in Nat
          /\ \A i \in 1..Len(toBroker) : toBroker'[i] = toBroker[i]
          /\ toBroker'[Len(toBroker) + 1] = Now(k)'
      BY <1>1, AskOne
    <3> QED BY ONLY <3>1 DEF Now
  <2>2. toBroker \in Seq(Token)
    BY DEF HostInv, PipesOK
  <2>3. DOMAIN toBroker = 1..Len(toBroker) /\ DOMAIN toBroker' = 1..(Len(toBroker) + 1)
    BY <2>1, <2>2
  <2>4. (\E i \in DOMAIN toBroker' : toBroker'[i].is = "buf")
          <=> (\E i \in DOMAIN toBroker : toBroker[i].is = "buf")
    BY <2>1, <2>3
  <2> QED BY <2>4 DEF Unsaved
<1>2. ASSUME Ask(c, <<"len", "buf">>), object = "writer"
      PROVE  Unsaved'
  <2>1. "len" \in TokenKinds /\ "buf" \in TokenKinds
    BY DEF TokenKinds
  <2>2. /\ toBroker' \in Seq(Token) /\ Len(toBroker') = Len(toBroker) + 2 /\ Len(toBroker) \in Nat
        /\ toBroker'[Len(toBroker) + 2].is = "buf"
    <3>1. /\ toBroker' \in Seq(Token) /\ Len(toBroker') = Len(toBroker) + 2 /\ Len(toBroker) \in Nat
          /\ toBroker'[Len(toBroker) + 2] = Now("buf")'
      BY <1>2, <2>1, AskTwo
    <3> QED BY ONLY <3>1 DEF Now
  <2>3. Len(toBroker) + 2 \in DOMAIN toBroker'
    BY <2>2
  <2> QED BY <1>2, <2>2, <2>3 DEF Unsaved
<1> QED BY <1>1, <1>2

\* Starting a broker is a call of its own, which may fail.
LEMMA StartServes ==
  ASSUME HostInv,
         \/ ReInitialize \/ DropPeer \/ Fresh \/ Fork \/ InitCommand \/ Plug \/ Hello \/ SetPeer
         \/ Login \/ LoggedIn \/ LoginAgain \/ LoginRefused \/ LoginLost
  PROVE  Promise!Begin \/ Promise!Fail \/ UNCHANGED <<call, object, Unsaved, confirmed>>
<1>1. /\ object = "none" /\ UNCHANGED <<object, confirmed>>
      /\ \/ call = "none" /\ call' = "init"
         \/ call = "init" /\ call' = "none"
         \/ call' = call
  <2>1. ObjectOK /\ Places
    BY TypesAre DEF HostInv
  <2>2. at \in Starting => call = "init" /\ object = "none"
    BY <2>1 DEF ObjectOK
  <2> USE <2>1, <2>2 DEF Starting, Return, client
  <2>3. CASE ReInitialize BY <2>3 DEF ReInitialize, Places
  <2>4. CASE DropPeer BY <2>4 DEF DropPeer
  <2>5. CASE Fresh BY <2>5 DEF Fresh
  <2>6. CASE Fork BY <2>6 DEF Fork
  <2>7. CASE InitCommand BY <2>7 DEF InitCommand
  <2>8. CASE Plug BY <2>8 DEF Plug
  <2>9. CASE Hello BY <2>9 DEF Hello
  <2>10. CASE SetPeer BY <2>10 DEF SetPeer
  <2>11. CASE Login BY <2>11 DEF Login
  <2>12. CASE LoggedIn BY <2>12 DEF LoggedIn
  <2>13. CASE LoginAgain BY <2>13 DEF LoginAgain
  <2>14. CASE LoginRefused BY <2>14 DEF LoginRefused
  <2>15. CASE LoginLost BY <2>15 DEF LoginLost
  <2> QED BY <2>3, <2>4, <2>5, <2>6, <2>7, <2>8, <2>9, <2>10, <2>11, <2>12, <2>13, <2>14, <2>15
<1>2. ~Unsaved /\ ~Unsaved'
  BY <1>1, UnsavedIs
<1>3. Unsaved' = Unsaved
  BY <1>2, UnsavedIs, Zenon
<1>4. CASE call = "none" /\ call' = "init"
  <2>1. Unsaved' = (Unsaved \/ call' = "write")
    BY <1>2, <1>4, UnsavedIs
  <2> QED BY <1>1, <1>4, <2>1 DEF Promise!Begin
<1>5. CASE call = "init" /\ call' = "none"
  BY <1>1, <1>3, <1>5 DEF Promise!Fail
<1>6. CASE call' = call
  BY <1>1, <1>3, <1>6
<1> QED BY <1>1, <1>4, <1>5, <1>6

\* A call begins, or an object that is at its end goes.
LEMMA CallServes ==
  ASSUME HostInv, Call
  PROVE  Promise!Begin \/ Promise!Drop
<1>0. /\ ObjectOK /\ Places /\ call = "none" /\ failed' = failed
      /\ confirmed' = (confirmed /\ object' = "writer")
      /\ confirmed \in BOOLEAN /\ confirmed' \in BOOLEAN
  <2>1. HostTypeOK' /\ Flags /\ Flags'
    BY CallType, TypesAre DEF HostInv
  <2> QED BY <2>1, CallTalks, TypesAre DEF HostInv, Places, Flags
<1>1. object' = object => confirmed' = confirmed
  BY <1>0, Zenon DEF ObjectOK
<1>2. DOMAIN Promise!Opens = {"openenum", "openget", "openput"}
  BY DEF Promise!Opens
<1>3. /\ DOMAIN Promise!Uses = {"item", "read", "write", "complete"}
      /\ Promise!Uses["item"] = "enumer" /\ Promise!Uses["read"] = "reader"
      /\ Promise!Uses["write"] = "writer" /\ Promise!Uses["complete"] = "writer"
  BY DEF Promise!Uses
<1>4. ASSUME object' = object, call' # "write", Unsaved' <=> Unsaved
      PROVE  Unsaved' = (Unsaved \/ call' = "write")
  BY <1>4, UnsavedIs
<1>5. CASE Command
  <2>1. /\ call' \in {"command", "openenum", "openget", "openput"} /\ object' = object
        /\ object \in {"none", "reader"} /\ (call' = "command" \/ object = "none")
    BY <1>5, Domains DEF Command, Ready, Ask
  <2>2. Unsaved' <=> Unsaved
    BY <2>1, UnsavedIs
  <2>3. Unsaved' = (Unsaved \/ call' = "write")
    BY <1>4, <2>1, <2>2
  <2> QED BY <1>0, <1>1, <1>2, <2>1, <2>3 DEF Promise!Begin
<1>6. CASE Use
  <2>1. object' = object
    BY <1>6 DEF Use
  <2>2. CASE object = "writer" /\ Ask("write", <<"len", "buf">>)
    <3>1. Unsaved' /\ call' = "write"
      BY <1>0, <2>1, <2>2, AskUnsaved DEF Ask
    <3>2. Unsaved' = (Unsaved \/ call' = "write")
      BY <3>1, UnsavedIs
    <3> QED BY <1>0, <1>1, <1>3, <2>1, <2>2, <3>1, <3>2 DEF Promise!Begin
  <2>3. CASE (object = "enumer" /\ call' = "item") \/ (object = "reader" /\ call' = "read")
    <3>1. Unsaved' <=> Unsaved
      BY <2>1, <2>3, UnsavedIs
    <3>2. Unsaved' = (Unsaved \/ call' = "write")
      BY <1>4, <2>1, <2>3, <3>1
    <3> QED BY <1>0, <1>1, <1>3, <2>1, <2>3, <3>2 DEF Promise!Begin
  <2> QED BY <1>6, <2>2, <2>3 DEF Use, Ask
<1>7. "zero" \in TokenKinds \ {"buf"} /\ "STOP" \in TokenKinds \ {"buf"}
  BY DEF TokenKinds
<1>8. CASE WriteComplete
  <2>1. Ask("complete", <<"zero">>) /\ object' = object /\ object = "writer" /\ call' = "complete"
    BY <1>8 DEF WriteComplete, Ask
  <2>2. Unsaved' <=> Unsaved
    BY <1>0, <1>7, <2>1, AskUnsaved
  <2>3. Unsaved' = (Unsaved \/ call' = "write")
    BY <1>4, <2>1, <2>2
  <2> QED BY <1>0, <1>1, <1>3, <2>1, <2>3 DEF Promise!Begin
<1>9. CASE DestroyObject
  <2>1. CASE complete
    <3>1. object # "none" /\ object' = "none" /\ call' = call
      BY <1>9, <2>1 DEF DestroyObject
    <3>2. Unsaved' = FALSE /\ confirmed' = FALSE
      BY <1>0, <3>1, UnsavedIs
    <3> QED BY <1>0, <3>1, <3>2 DEF Promise!Drop
  <2>2. CASE ~complete
    <3>1. PICK k \in {"zero", "STOP"} : Ask("close", <<k>>)
      BY <1>9, <2>2 DEF DestroyObject
    <3>2. object # "none" /\ object' = object /\ call' = "close"
      BY <1>9, <2>2, <3>1 DEF DestroyObject, Ask
    <3>3. Unsaved' <=> Unsaved
      BY <1>0, <1>7, <3>1, <3>2, AskUnsaved
    <3>4. Unsaved' = (Unsaved \/ call' = "write")
      BY <1>4, <3>2, <3>3
    <3> QED BY <1>0, <1>1, <3>2, <3>4 DEF Promise!Begin
  <2> QED BY <2>1, <2>2
<1> QED BY <1>5, <1>6, <1>8, <1>9 DEF Call

\* A call returns or fails; WriteComplete returns when nothing is left to be written.
LEMMA ReceiveServes ==
  ASSUME HostInv, Receive
  PROVE  Promise!Return \/ Promise!Fail
<1>0. /\ ObjectOK /\ PipesOK /\ TalkOK /\ Places /\ at = "call" /\ call' = "none"
      /\ UNCHANGED <<broker, toBroker, pipeCut, failed>> /\ (Replied \/ Thrown)
      /\ confirmed \in BOOLEAN /\ confirmed' \in BOOLEAN
  <2>1. HostTypeOK' /\ Flags /\ Flags'
    BY CallType, TypesAre DEF HostInv
  <2> QED BY <2>1, TypesAre DEF HostInv, Receive, Replied, Thrown, Return, Flags
<1>1. call \in DOMAIN Answers
  BY <1>0 DEF ObjectOK
<1>2. /\ DOMAIN Promise!Opens = DOMAIN ObjectOpened
      /\ \A c \in DOMAIN ObjectOpened : Promise!Opens[c] = ObjectOpened[c]
  BY DEF Promise!Opens, ObjectOpened
<1>3. CASE Thrown
  <2>1. Dropped /\ confirmed' = (confirmed /\ object' = "writer")
    BY <1>3 DEF Thrown
  <2>2. CASE call = "close"
    <3>1. object' = "none"
      BY <2>1, <2>2 DEF Dropped
    <3>2. confirmed' = (object' = "writer" /\ (confirmed \/ call = "complete"))
      BY <2>1, <3>1
    <3>3. Unsaved' = (Unsaved /\ object' = "writer")
      BY <3>1, UnsavedIs
    <3> QED BY <1>0, <1>2, <2>2, <3>1, <3>2, <3>3, Domains DEF Promise!Return
  <2>3. CASE call # "close"
    <3>1. object' = object
      BY <2>1, <2>3 DEF Dropped
    <3>2. confirmed' = confirmed
      BY <1>0, <2>1, <3>1, Zenon DEF ObjectOK
    <3>3. Unsaved' = Unsaved
      BY <1>0, <3>1, UnsavedIs, Zenon
    <3> QED BY <1>0, <1>1, <2>3, <3>1, <3>2, <3>3, Domains DEF Promise!Fail
  <2> QED BY <2>2, <2>3
<1>4. CASE Replied
  <2>1. PICK a \in Answers[call] :
          /\ Heard({a})
          /\ IF call \in DOMAIN ObjectOpened
               THEN object' = ObjectOpened[call] /\ complete' = FALSE
               ELSE Dropped /\ complete' = (call # "close" /\ (complete \/ a \in {"END", "EOF"}))
    BY <1>4 DEF Replied
  <2>2. confirmed' = (object' = "writer" /\ (confirmed \/ call = "complete"))
    BY <1>4 DEF Replied
  <2>3. CallOK
    BY <1>0, <2>1, HeardOne DEF TalkOK
  <2>4. Says(a)
    BY <1>0, <2>1, <2>3, CallHeard
  <2>5. toBroker = <<>> /\ ~failed => ~Unsaved /\ ~Unsaved'
    BY <1>0 DEF Unsaved
  <2>6. call = "complete" => ~Unsaved
    <3>1. call = "complete" => a = "STOP"
      BY <2>1 DEF Answers
    <3> QED BY <2>4, <2>5, <3>1 DEF Says
  <2>7. call \in DOMAIN ObjectOpened => ~Unsaved /\ ~Unsaved'
    <3>1. call \in DOMAIN ObjectOpened => object = "none"
      BY <1>0, Domains DEF ObjectOK
    <3>2. call = "openput" => ~Unsaved'
      <4>1. call = "openput" => a = "PUT"
        BY <2>1 DEF Answers
      <4> QED BY <2>4, <2>5, <4>1 DEF Says
    <3>3. call \in {"openenum", "openget"} => object' # "writer"
      BY <2>1, Domains DEF ObjectOpened
    <3> QED BY <3>1, <3>2, <3>3, UnsavedIs, Domains
  <2>8. call \notin DOMAIN ObjectOpened => (Unsaved' <=> (Unsaved /\ object' = "writer"))
    <3>1. call \notin DOMAIN ObjectOpened => object' \in {"none", object}
      BY <2>1 DEF Dropped
    <3> QED BY <1>0, <3>1, UnsavedIs
  <2>9. Unsaved' = (Unsaved /\ object' = "writer")
    BY <2>7, <2>8, UnsavedIs
  <2>10. object' = IF call \in DOMAIN Promise!Opens THEN Promise!Opens[call]
                   ELSE IF call = "close" THEN "none" ELSE object
    BY <1>2, <2>1 DEF Dropped
  <2>11. call # "none"
    BY <1>1, Domains
  <2> QED BY <1>0, <2>2, <2>6, <2>9, <2>10, <2>11 DEF Promise!Return
<1> QED BY <1>0, <1>3, <1>4

\* What is still in the pipe was in it before.
LEMMA Suffix ==
  ASSUME PipesOK, NEW kinds, Len(kinds) \in Nat, NEW reply, NEW p, Serve(kinds, reply, p)
  PROVE  \A i \in DOMAIN toBroker' : \E j \in DOMAIN toBroker : toBroker'[i] = toBroker[j]
<1> DEFINE n == Len(kinds)
<1>1. toBroker \in Seq(Token) /\ n <= Len(toBroker) /\ toBroker' = SubSeq(toBroker, n + 1, Len(toBroker))
  BY DEF PipesOK, Serve
<1> n \in Nat
  OBVIOUS
<1> HIDE DEF n
<1>2. /\ Len(toBroker) \in Nat /\ toBroker' \in Seq(Token) /\ Len(toBroker') = Len(toBroker) - n
      /\ \A i \in 1..(Len(toBroker) - n) : toBroker'[i] = toBroker[i + n]
  BY <1>1, Shorter
<1>3. DOMAIN toBroker' = 1..(Len(toBroker) - n) /\ DOMAIN toBroker = 1..Len(toBroker)
  BY <1>1, <1>2
<1>4. ASSUME NEW i \in DOMAIN toBroker'
      PROVE  \E j \in DOMAIN toBroker : toBroker'[i] = toBroker[j]
  <2>1. i \in 1..(Len(toBroker) - n)
    BY <1>3, <1>4
  <2>2. i + n \in DOMAIN toBroker
    BY <1>2, <1>3, <2>1
  <2>3. toBroker'[i] = toBroker[i + n]
    BY <1>2, <2>1
  <2> QED BY <2>2, <2>3
<1> QED BY <1>4

\* The broker may save what was written, and never the other way round.
LEMMA BrokerServes ==
  ASSUME HostInv, Broker
  PROVE  Promise!Save \/ UNCHANGED <<call, object, Unsaved, confirmed>>
<1>0. UNCHANGED <<call, object, confirmed>> /\ PipesOK
  BY DEF Broker, client, HostInv
<1>1. Unsaved' => Unsaved
  <2> DEFINE Kept == \A i \in DOMAIN toBroker' : \E j \in DOMAIN toBroker : toBroker'[i] = toBroker[j]
  <2>1. ASSUME Kept, failed' => failed PROVE Unsaved' => Unsaved
    BY <1>0, <2>1 DEF Unsaved
  <2>2. ASSUME NEW k, NEW r, NEW p, Serve(<<k>>, r, p) PROVE Kept
    <3>1. Len(<<k>>) \in Nat
      OBVIOUS
    <3> QED BY <1>0, <2>2, <3>1, Suffix
  <2>3. ASSUME NEW j, NEW k, NEW r, NEW p, Serve(<<j, k>>, r, p) PROVE Kept
    <3>1. Len(<<j, k>>) \in Nat
      OBVIOUS
    <3> QED BY <1>0, <2>3, <3>1, Suffix
  <2>4. toBroker' = toBroker => Kept
    OBVIOUS
  <2> HIDE DEF Kept
  <2>5. CASE Greet \/ Die
    BY <2>1, <2>4, <2>5 DEF Greet, Die, pipes
  <2>6. CASE InitConnection
    BY <2>1, <2>2, <2>6 DEF InitConnection
  <2>7. CASE OnCommand
    BY <2>1, <2>2, <2>7 DEF OnCommand
  <2>8. CASE OnDirectoryEnum
    BY <2>1, <2>2, <2>8 DEF OnDirectoryEnum
  <2>9. CASE OnFileGet
    BY <2>1, <2>2, <2>9 DEF OnFileGet
  <2>10. CASE ReportFailedWrite
    BY <2>1, <2>2, <2>3, <2>10 DEF ReportFailedWrite
  <2>11. CASE OnFilePut
    BY <2>1, <2>2, <2>11 DEF OnFilePut
  <2>12. CASE DoWrite
    <3>1. toBroker # <<>> /\ toBroker[1].is = "buf" /\ 1 \in DOMAIN toBroker
      <4>1. "buf" \in TokenKinds
        BY DEF TokenKinds
      <4>2. Len(toBroker) \in Nat /\ Len(toBroker) >= 1 /\ toBroker[1].is = "buf"
        BY <1>0, <2>12, <4>1, ServeData DEF DoWrite
      <4>3. toBroker \in Seq(Token)
        BY <1>0 DEF PipesOK
      <4> QED BY <4>2, <4>3
    <3> QED BY <1>0, <3>1 DEF Unsaved
  <2> QED BY <2>5, <2>6, <2>7, <2>8, <2>9, <2>10, <2>11, <2>12 DEF Broker
<1>2. CASE Unsaved' <=> Unsaved
  <2>1. Unsaved' = Unsaved
    BY <1>2, UnsavedIs, Zenon
  <2> QED BY <1>0, <2>1
<1>3. CASE Unsaved /\ ~Unsaved'
  <2>1. Unsaved' = FALSE
    BY <1>3, UnsavedIs
  <2> QED BY <1>0, <1>3, <2>1 DEF Promise!Save
<1> QED BY <1>1, <1>2, <1>3

\* Abort changes nothing of what is promised.
LEMMA AbortServes ==
  ASSUME Abort \/ Aborting
  PROVE  UNCHANGED <<call, object, Unsaved, confirmed>>
<1>1. UNCHANGED <<call, object, confirmed, failed, toBroker>>
  BY DEF Abort, Aborting, TakePeer, AbortReceiving, Kill, client, pipes
<1>2. Unsaved' = Unsaved
  BY <1>1 DEF Unsaved
<1> QED BY <1>1, <1>2

\* Every step of the host, of the other thread or of the broker is one of RemoteCalls or
\* none.
LEMMA StepServes ==
  ASSUME HostInv, [HostNext]_hostVars
  PROVE  [Promise!Next]_<<call, object, Unsaved, confirmed>>
<1>1. CASE UNCHANGED hostVars
  <2>1. UNCHANGED <<call, object, confirmed, failed, toBroker>>
    BY <1>1 DEF hostVars, client, pipes
  <2>2. Unsaved' = Unsaved
    BY <2>1 DEF Unsaved
  <2> QED BY <2>1, <2>2
<1>2. CASE \/ ReInitialize \/ DropPeer \/ Fresh \/ Fork \/ InitCommand \/ Plug \/ Hello \/ SetPeer
           \/ Login \/ LoggedIn \/ LoginAgain \/ LoginRefused \/ LoginLost
  BY <1>2, StartServes DEF Promise!Next
<1>3. CASE Call BY <1>3, CallServes DEF Promise!Next
<1>4. CASE Receive BY <1>4, ReceiveServes DEF Promise!Next
<1>5. CASE Abort \/ Aborting BY <1>5, AbortServes
<1>6. CASE Broker BY <1>6, BrokerServes DEF Promise!Next
<1> QED BY <1>1, <1>2, <1>3, <1>4, <1>5, <1>6 DEF HostNext, Master

\* HostRemote keeps what a host promises, whatever becomes of its broker: the error of a
\* write that was acknowledged before it was done comes out before WriteComplete returns.
THEOREM Implements ==
  HostSpec => KeepsPromise
<1>1. HostInit => Promise!Init
  <2>1. HostInit => Unsaved = FALSE
    BY DEF HostInit, Unsaved
  <2> QED BY <2>1 DEF HostInit, Promise!Init
<1>2. HostInv /\ [HostNext]_hostVars => [Promise!Next]_<<call, object, Unsaved, confirmed>>
  BY StepServes
<1> QED BY <1>1, <1>2, HostInvariance, PTL DEF HostSpec, KeepsPromise, Promise!Spec, Promise!vars

HIDE RemoteHostAssumption

-----------------------------------------------------------------------------
(* The pool of connections                                                 *)

\* What the flags say of the thread, whichever of the two got on last
FlagsTellOfThread ==
  /\ trd \in Threads
  /\ purger \in {"none", "begin", "sleep", "destroy", "exit"}
  /\ trd.exited <=> trd.thread # "running"
  /\ trd.joined <=> trd.thread = "none"
  /\ purger = "none" <=> trd.exited

\* In and after the destructor there is nothing to start a thread for
NothingLeft ==
  /\ owner # "use" => pooled = {}
  /\ owner = "gone" => trd.thread = "none"

PoolInv == FlagsTellOfThread /\ NothingLeft

\* The three operators of Threaded keep its flags true to the thread.
LEMMA ThreadedFlags ==
  ASSUME NEW t \in Threads
  PROVE  /\ NewThreaded \in Threads
         /\ StartThread(t) \in Threads
         /\ Ended(t) \in Threads /\ Ended(t).exited /\ Ended(t).joined = t.joined
         /\ Ended(t).thread = "ended"
         /\ WaitThread(t) \in Threads /\ WaitThread(t).exited = t.exited
         /\ WaitThread(t).joined /\ WaitThread(t).thread = "none"
BY DEF Threads, NewThreaded, StartThread, Ended, WaitThread

\* ConnectionsPool(): no thread is started, the pool is empty and its two flags say so.
LEMMA PoolInitInv == Init => PoolInv
BY DEF Init, PoolInv, FlagsTellOfThread, NothingLeft, NewThreaded, Threads

\* UpdateThreadState starts a thread only where the one before has ended.
LEMMA UpdateKeepsFlags ==
  ASSUME FlagsTellOfThread, UpdateThreadState
  PROVE  FlagsTellOfThread'
<1>1. CASE trd' = StartThread(trd) /\ purger' = "begin"
  BY <1>1, ThreadedFlags DEF FlagsTellOfThread, StartThread
<1>2. CASE CanStart(trd) /\ trd' = StartFails(trd) /\ UNCHANGED purger
  <2>1. trd.exited
    BY <1>2 DEF FlagsTellOfThread, CanStart, Threads
  <2>. QED
    BY <1>2, <2>1, ThreadedFlags DEF FlagsTellOfThread, StartFails, NewThreaded
<1>3. CASE UNCHANGED <<trd, purger>>
  BY <1>3 DEF FlagsTellOfThread
<1>. QED  BY <1>1, <1>2, <1>3 DEF UpdateThreadState

\* A wakeup or a look at the pool moves the thread within its loop or out of it,
\* and never makes the pool larger.
LEMMA CheckMoves ==
  ASSUME NEW ids, Check(ids)
  PROVE  pooled' = ids /\ purger' \in {"sleep", "exit"}
BY DEF Check

\* A turn of PurgeIdleConnections drops hosts or none, and touches neither the
\* Threaded object nor what its owner is doing.
LEMMA PurgeMoves ==
  ASSUME Purge
  PROVE  /\ pooled' \subseteq pooled /\ purger = "sleep" /\ purger' \in {"sleep", "destroy", "exit"}
         /\ UNCHANGED <<trd, owner>>
BY CheckMoves DEF Purge

\* PurgeIdleConnections, Put, Get and the destructor, in any order, each keep the
\* flags of the thread true and leave nothing behind a destroyed pool.
LEMMA PoolStepInv == PoolInv /\ [Next]_vars => PoolInv'
<1>. SUFFICES ASSUME PoolInv, [Next]_vars PROVE PoolInv'
  OBVIOUS
<1>. USE DEF PoolInv
<1>1. CASE PurgerBegins \/ HostsDestroyed
  <2>1. /\ pooled' = pooled /\ purger # "none" /\ purger' \in {"sleep", "exit"}
        /\ UNCHANGED <<trd, owner>>
    BY <1>1, CheckMoves DEF PurgerBegins, HostsDestroyed
  <2>. QED  BY <2>1 DEF FlagsTellOfThread, NothingLeft
<1>2. CASE PurgerWakes \/ SpuriousWake
  <2>1. Purge
    BY <1>2 DEF PurgerWakes, SpuriousWake
  <2>. QED  BY <2>1, PurgeMoves DEF FlagsTellOfThread, NothingLeft
<1>3. CASE PurgerExits
  <2>1. FlagsTellOfThread'
    BY <1>3, ThreadedFlags DEF PurgerExits, FlagsTellOfThread, Threads
  <2>2. owner # "gone"
    BY <1>3 DEF PurgerExits, FlagsTellOfThread, NothingLeft, Threads
  <2>. QED  BY <1>3, <2>1, <2>2 DEF PurgerExits, NothingLeft
<1>4. CASE Tick \/ OnGlobalSettingsChanged \/ \E e \in Expirations : Configure(e)
  BY <1>4 DEF Tick, OnGlobalSettingsChanged, Configure, FlagsTellOfThread, NothingLeft
<1>5. ASSUME NEW id \in Ids, Put(id) \/ Get(id) PROVE PoolInv'
  <2>1. UpdateThreadState /\ owner = "use" /\ UNCHANGED owner
    BY <1>5 DEF Put, Get
  <2>. QED  BY <2>1, UpdateKeepsFlags DEF NothingLeft
<1>6. CASE PurgePool \/ Destroy
  BY <1>6 DEF PurgePool, Destroy, PurgeAll, FlagsTellOfThread, NothingLeft
<1>7. CASE Destroyed
  BY <1>7, ThreadedFlags DEF Destroyed, CanJoin, FlagsTellOfThread, NothingLeft
<1>8. CASE UNCHANGED vars
  BY <1>8 DEF vars, FlagsTellOfThread, NothingLeft
<1>. QED
  BY <1>1, <1>2, <1>3, <1>4, <1>5, <1>6, <1>7, <1>8 DEF Next, PurgerStep

\* Whatever ConnectionsPool does, the flags of its Threaded base tell whether a
\* thread runs, and a destroyed pool has neither thread nor host.
THEOREM PoolInvariance == Spec => []PoolInv
BY PoolInitInv, PoolStepInv, PTL DEF Spec

\* A pool that is gone has joined its thread.
LEMMA PoolEnds == PoolInv => EndsQuietly
BY DEF PoolInv, FlagsTellOfThread, NothingLeft, EndsQuietly, MayDestroy, Threads

\* ~Threaded (Threaded.cpp:11) does not abort when the pool is destroyed, and no
\* purging thread and no host outlives it.
THEOREM QuietEnd == Spec => []EndsQuietly
BY PoolEnds, PoolInvariance, PTL

\* A call that leaves hosts in the pool leaves a thread that watches them, unless
\* it met one on its way out: ConnectionsPool.cpp:120.
LEMMA StepWatched ==
  ASSUME ~MayFail, PoolInv, [Next]_vars, pooled' # {}, ~Watched'
  PROVE  purger = "exit" \/ (pooled # {} /\ ~Watched)
<1>. USE DEF PoolInv
<1>1. CASE PurgerBegins \/ HostsDestroyed
  BY <1>1 DEF PurgerBegins, HostsDestroyed, Check, Watched
<1>2. CASE PurgerWakes \/ SpuriousWake
  BY <1>2 DEF PurgerWakes, SpuriousWake, Purge, Check, Watched
<1>3. CASE PurgerExits
  BY <1>3 DEF PurgerExits
<1>4. CASE Tick \/ OnGlobalSettingsChanged \/ Destroyed \/ \E e \in Expirations : Configure(e)
  BY <1>4 DEF Tick, OnGlobalSettingsChanged, Destroyed, Configure, Watched
<1>5. ASSUME NEW id \in Ids, Put(id) \/ Get(id) PROVE purger = "exit" \/ (pooled # {} /\ ~Watched)
  <2>1. UpdateThreadState
    BY <1>5 DEF Put, Get
  <2>2. CASE purger' = "begin"
    BY <2>2 DEF Watched
  <2>3. CASE ~CanStart(trd) /\ UNCHANGED purger
    <3>1. purger # "none"
      BY <2>3 DEF FlagsTellOfThread, CanStart, Threads
    <3>. QED  BY <2>3, <3>1 DEF FlagsTellOfThread, Watched
  <2>. QED  BY <2>1, <2>2, <2>3 DEF UpdateThreadState
<1>6. CASE PurgePool \/ Destroy
  BY <1>6 DEF PurgePool, Destroy, PurgeAll
<1>7. CASE UNCHANGED vars
  BY <1>7 DEF vars, Watched
<1>. QED
  BY <1>1, <1>2, <1>3, <1>4, <1>5, <1>6, <1>7 DEF Next, PurgerStep

\* As long as pthread_create never fails, a host Put leaves in the pool has a thread
\* that will look at it, or one about to be replaced by Put itself.
THEOREM StayWatched ==
  ASSUME ~MayFail
  PROVE  Spec => HostsStayWatched
<1>1. PoolInv /\ [Next]_vars =>
        [pooled' # {} /\ ~Watched' => purger = "exit" \/ (pooled # {} /\ ~Watched)]_vars
  BY StepWatched
<1>. QED  BY <1>1, PoolInvariance, PTL DEF Spec, HostsStayWatched

-----------------------------------------------------------------------------
(* Types, and how long the thread sleeps                                   *)

\* A set of naturals with a member has a least one.
LEMMA Least ==
  ASSUME NEW T \in SUBSET Nat, T # {}
  PROVE  Min(T) \in T /\ \A n \in T : Min(T) <= n
<1>. DEFINE Before == {p \in Nat \X Nat : p[1] < p[2]}
<1>1. IsWellFoundedOn(Before, Nat)
  BY NatLessThanWellFounded DEF OpToRel
<1>. HIDE DEF Before
<1>2. PICK m \in T : \A n \in T : <<n, m>> \notin Before
  BY <1>1, WFMin
<1>3. ASSUME NEW n \in T PROVE m <= n
  <2>1. n \in Nat /\ m \in Nat /\ <<n, m>> \notin Before
    BY <1>2
  <2>2. <<n, m>> \in Before <=> n < m
    BY <2>1 DEF Before
  <2>. QED  BY <2>1, <2>2
<1>4. \E x \in T : \A n \in T : x <= n
  BY <1>3
<1>. QED  BY <1>4 DEF Min

\* EstimateTimeToSleep: at least a second, not longer than the setting allows, and not
\* a second longer than any host has left.
LEMMA Estimate ==
  ASSUME PoolAssumption, expiration \in Expirations, age \in [Ids -> 0 .. OldAge],
         NEW ids \in SUBSET Ids
  PROVE  /\ EstimateTimeToSleep(ids) \in 1 .. OldAge
         /\ \A id \in ids : age[id] < expiration => age[id] + EstimateTimeToSleep(ids) <= expiration + 1
<1>1. expiration \in Nat /\ expiration + 2 <= OldAge /\ OldAge \in Nat
  BY DEF PoolAssumption
<1>2. \A id \in ids : age[id] \in Nat
  OBVIOUS
<1>3. CASE Expired(age, ids) # {}
  BY <1>1, <1>2, <1>3 DEF EstimateTimeToSleep
<1>4. CASE Expired(age, ids) = {}
  <2>. DEFINE T == {expiration \div 2} \cup {expiration - age[id] : id \in ids}
  <2>1. \A id \in ids : age[id] < expiration
    BY <1>1, <1>2, <1>4 DEF Expired
  <2>2. expiration \div 2 \in Nat /\ expiration \div 2 <= expiration
    BY <1>1
  <2>3. \A id \in ids : expiration - age[id] \in Nat
    BY <1>1, <1>2, <2>1
  <2>4. T \in SUBSET Nat /\ T # {} /\ expiration \div 2 \in T /\ \A id \in ids : expiration - age[id] \in T
    BY <2>2, <2>3
  <2>5. Min(T) \in T /\ \A n \in T : Min(T) <= n
    BY <2>4, Least
  <2>6. EstimateTimeToSleep(ids) = Min(T) + 1
    BY <1>4 DEF EstimateTimeToSleep
  <2>. HIDE DEF T
  <2>7. Min(T) \in Nat /\ Min(T) <= expiration \div 2 /\ \A id \in ids : Min(T) <= expiration - age[id]
    BY <2>4, <2>5
  <2>. QED  BY <1>1, <1>2, <2>2, <2>6, <2>7
<1>. QED  BY <1>3, <1>4

\* ConnectionsPool() sets what it keeps, and the thread does not sleep.
LEMMA InitSleep == PoolAssumption /\ Init => TypeOK /\ NoOversleep
<1>. SUFFICES ASSUME PoolAssumption, Init PROVE TypeOK /\ NoOversleep
  OBVIOUS
<1>1. OldAge \in Nat /\ 0 \in 0 .. OldAge /\ NewThreaded \in Threads
  BY DEF PoolAssumption, NewThreaded, Threads
<1>2. age \in [Ids -> 0 .. OldAge]
  BY <1>1 DEF Init
<1>. QED  BY <1>1, <1>2 DEF Init, TypeOK, NoOversleep

\* What Check sets, whatever hosts are left.
LEMMA CheckSleeps ==
  ASSUME PoolAssumption, TypeOK, NEW ids \in SUBSET Ids, Check(ids),
         UNCHANGED <<age, expiration, told, trd, owner>>
  PROVE  TypeOK' /\ NoOversleep'
<1>. DEFINE time == EstimateTimeToSleep(ids)
<1>1. /\ time \in 1 .. OldAge
      /\ \A id \in ids : age[id] < expiration => age[id] + time <= expiration + 1
  BY Estimate DEF TypeOK
<1>2. OldAge \in Nat
  BY DEF PoolAssumption
<1>. HIDE DEF time
<1>3. CASE ids = {}
  BY <1>3 DEF Check, TypeOK, NoOversleep
<1>4. CASE ids # {}
  <2>1. pooled' = ids /\ notified' = FALSE /\ purger' = "sleep" /\ timer' = time
    BY <1>4 DEF Check, time
  <2>3. timer' \in 0 .. OldAge
    BY <1>1, <1>2, <2>1
  <2>2. TypeOK'
    BY <2>1, <2>3 DEF TypeOK
  <2>. QED  BY <1>1, <2>1, <2>2 DEF NoOversleep
<1>. QED  BY <1>3, <1>4

\* UpdateThreadState wakes the thread or starts one.
LEMMA UpdateWakes ==
  ASSUME TypeOK, UpdateThreadState
  PROVE  /\ trd' \in Threads /\ notified' \in BOOLEAN
         /\ purger' \in {"none", "begin", "sleep", "destroy", "exit"}
         /\ purger' = "sleep" => notified'
<1>1. trd' \in Threads
  BY ThreadedFlags DEF TypeOK, UpdateThreadState, StartFails
<1>2. notified' \in BOOLEAN /\ (purger' = "sleep" => notified')
  <2>1. CASE purger' = "begin" /\ UNCHANGED notified
    BY <2>1 DEF TypeOK
  <2>2. CASE Notify /\ UNCHANGED purger
    <3>1. notified' \in BOOLEAN
      BY <2>2, Zenon DEF TypeOK, Notify
    <3>2. purger' = "sleep" => notified'
      BY <2>2, Zenon DEF Notify
    <3>. QED  BY <3>1, <3>2
  <2>. QED  BY <2>1, <2>2 DEF UpdateThreadState
<1>3. purger' \in {"none", "begin", "sleep", "destroy", "exit"}
  BY DEF TypeOK, UpdateThreadState
<1>. QED  BY <1>1, <1>2, <1>3

\* So do Purge and OnGlobalSettingsChanged.
LEMMA NotifyWakes ==
  ASSUME TypeOK, Notify, UNCHANGED purger
  PROVE  notified' \in BOOLEAN /\ (purger' = "sleep" => notified')
<1>1. notified' \in BOOLEAN
  BY Zenon DEF TypeOK, Notify
<1>2. purger' = "sleep" => notified'
  BY Zenon DEF Notify
<1>. QED  BY <1>1, <1>2

\* A host is put with a timestamp of now, the expired ones of those pooled leave.
LEMMA PutSleeps ==
  ASSUME PoolAssumption, TypeOK, NEW id \in Ids, Put(id)
  PROVE  TypeOK' /\ NoOversleep'
<1>1. OldAge \in Nat /\ 0 \in 0 .. OldAge
  BY DEF PoolAssumption
<1>2. pooled' \subseteq Ids /\ age' \in [Ids -> 0 .. OldAge]
  BY <1>1 DEF Put, TypeOK
<1>3. /\ trd' \in Threads /\ notified' \in BOOLEAN
      /\ purger' \in {"none", "begin", "sleep", "destroy", "exit"}
      /\ purger' = "sleep" => notified'
  BY UpdateWakes DEF Put
<1>. QED  BY <1>2, <1>3 DEF Put, TypeOK, NoOversleep

\* A second passes, for the hosts and for the thread alike.
LEMMA TickSleeps ==
  ASSUME PoolAssumption, TypeOK, NoOversleep, Tick
  PROVE  TypeOK' /\ NoOversleep'
<1>1. OldAge \in Nat /\ expiration \in Nat /\ expiration + 2 <= OldAge
  BY DEF PoolAssumption, TypeOK
<1>2. \A id \in Ids : age[id] \in 0 .. OldAge
  BY DEF TypeOK
<1>3. \A id \in Ids : (IF id \in pooled /\ age[id] < OldAge THEN age[id] + 1 ELSE age[id]) \in 0 .. OldAge
  BY <1>1, <1>2
<1>4. age' \in [Ids -> 0 .. OldAge]
  BY <1>3 DEF Tick
<1>5. timer' \in 0 .. OldAge
  BY <1>1 DEF Tick, TypeOK
<1>6. TypeOK'
  BY <1>4, <1>5 DEF Tick, TypeOK
<1>7. ASSUME purger = "sleep", told, ~notified, NEW id \in pooled, age'[id] < expiration
      PROVE  age'[id] + timer' <= expiration + 1
  <2>1. id \in Ids /\ age[id] \in Nat /\ timer \in Nat /\ timer > 0 /\ timer' = timer - 1
    BY <1>7 DEF Tick, TypeOK
  <2>2. age'[id] = IF age[id] < OldAge THEN age[id] + 1 ELSE age[id]
    BY <1>7, <2>1 DEF Tick
  <2>3. age[id] < OldAge
    BY <1>1, <1>7, <2>1, <2>2
  <2>4. age[id] + timer <= expiration + 1
    BY <1>1, <1>7, <2>1, <2>2, <2>3 DEF NoOversleep
  <2>. QED  BY <1>1, <2>1, <2>2, <2>3, <2>4
<1>. QED  BY <1>6, <1>7 DEF Tick, NoOversleep

\* Hosts put and got, settings written and told, and the thread waking at any time, each
\* leave it asleep no longer than it may be, or woken.
LEMMA StepSleep == PoolAssumption /\ TypeOK /\ NoOversleep /\ [Next]_vars => TypeOK' /\ NoOversleep'
<1>. SUFFICES ASSUME PoolAssumption, TypeOK, NoOversleep, [Next]_vars PROVE TypeOK' /\ NoOversleep'
  OBVIOUS
<1>0. pooled \in SUBSET Ids
  BY DEF TypeOK
<1>1. CASE PurgerBegins \/ HostsDestroyed
  BY <1>0, <1>1, CheckSleeps DEF PurgerBegins, HostsDestroyed
<1>2. CASE PurgerWakes \/ SpuriousWake
  <2>1. Purge
    BY <1>2 DEF PurgerWakes, SpuriousWake
  <2>2. CASE Expired(age, pooled) = {}
    BY <1>0, <2>1, <2>2, CheckSleeps DEF Purge
  <2>3. CASE Expired(age, pooled) # {}
    BY <1>0, <2>1, <2>3 DEF Purge, TypeOK, NoOversleep
  <2>. QED  BY <2>2, <2>3
<1>3. CASE PurgerExits
  BY <1>3, ThreadedFlags DEF PurgerExits, TypeOK, NoOversleep
<1>4. CASE Tick
  BY <1>4, TickSleeps
<1>5. ASSUME NEW id \in Ids, Put(id) PROVE TypeOK' /\ NoOversleep'
  BY <1>5, PutSleeps
<1>6. ASSUME NEW id \in Ids, Get(id) PROVE TypeOK' /\ NoOversleep'
  BY <1>6, UpdateWakes DEF Get, TypeOK, NoOversleep
<1>7. CASE PurgePool \/ Destroy
  BY <1>7, NotifyWakes DEF PurgePool, Destroy, PurgeAll, TypeOK, NoOversleep
<1>8. ASSUME NEW e \in Expirations, Configure(e) PROVE TypeOK' /\ NoOversleep'
  BY <1>8 DEF Configure, TypeOK, NoOversleep
<1>9. CASE OnGlobalSettingsChanged
  BY <1>9, NotifyWakes DEF OnGlobalSettingsChanged, Tell, TypeOK, NoOversleep
<1>10. CASE Destroyed
  BY <1>10, ThreadedFlags DEF Destroyed, TypeOK, NoOversleep
<1>11. CASE UNCHANGED vars
  BY <1>11 DEF vars, TypeOK, NoOversleep
<1>. QED
  BY <1>1, <1>2, <1>3, <1>4, <1>5, <1>6, <1>7, <1>8, <1>9, <1>10, <1>11 DEF Next, PurgerStep

\* The pool and its thread keep their types; in particular no estimate is longer than the
\* ages the hosts are given.
THEOREM PoolTypeCorrect == Spec => []TypeOK
BY InitSleep, StepSleep, PoolAssumption, PTL DEF Spec

\* EstimateTimeToSleep (ConnectionsPool.cpp): whatever is put, got and configured while
\* the thread sleeps, it does not sleep a second longer than any host has left, or has
\* been woken.
THEOREM NeverOversleeps == Spec => []NoOversleep
BY InitSleep, StepSleep, PoolAssumption, PTL DEF Spec

-----------------------------------------------------------------------------
(* The copy of a file                                                      *)

\* Where the loop of FileCopyLoop has both a reader and a writer
Copying == {"read", "srcsize", "write", "complete", "count", "fast"}

\* The writer goes on where what has been reported ends, and there is none elsewhere
WriterFollows ==
  IF xpc \in Copying
    THEN writer.pos + writer.piece = file_complete
    ELSE writer = NoWriter

\* There is a file wherever one is counted on
DestinationIsThere ==
  /\ xpc \in Copying \cup {"decide"} \/ file_complete > 0 \/ opened => dst # Absent
  /\ xpc \in {"inspect", "decide"} => ~opened /\ file_complete = 0

\* The reader is where the writer will be, but for the piece between them
ReaderFollows ==
  /\ xpc \in {"put", "read", "srcsize", "complete", "count", "fast"} => pos = file_complete
  /\ xpc = "write" => /\ pos > file_complete /\ pos - file_complete <= AskPiece
                      /\ ~ShortReads /\ pos - file_complete < AskPiece => pos >= size

\* One of the hosts has been called when an error is caught
SomeoneIsIndicted == xpc \in {"getsize", "srcsize", "ask", "reinit"} => indicted # "null"

Basics == XferTypeOK /\ WriterFollows /\ DestinationIsThere /\ ReaderFollows /\ SomeoneIsIndicted

\* Before the destination is opened nothing has failed yet
UntilOpened ==
  ~opened => /\ broken = {} /\ file_complete = 0
             /\ xpc \in {"inspect", "decide", "rename", "get", "put", "done"}
             /\ gone => xpc = "done"

\* What is there comes from the source, and nothing is written but at its end
AllFromSource ==
  /\ opened => \A i \in DOMAIN dst : dst[i] = "src"
  /\ xpc \in Copying => opened /\ ~gone /\ Len(dst) = writer.pos

\* The position to resume from is the length of what is there
ResumesAtLength ==
  /\ xpc \in {"rename", "put"} => ~gone
  /\ xpc \in {"rename", "get", "put"} /\ ~gone => file_complete = IF opened THEN Len(dst) ELSE 0

\* How the end of the source is told
EndIsSeen ==
  /\ xpc = "complete" => file_complete >= size
  /\ xpc = "fast" => file_complete = info_size /\ (~ShortReads => file_complete >= size)

\* After the loop the copy is complete, and it is before the source goes
CompleteBefore ==
  /\ xpc \in {"fastcount", "times", "delete"} \/ gone \/ result = "copied" => Faithful
  /\ result # "none" => xpc = "done"

Copied == UntilOpened /\ AllFromSource /\ ResumesAtLength /\ EndIsSeen /\ CompleteBefore

\* The longer of two, for PutUnits, and the shorter.
LEMMA MaxOfTwo ==
  ASSUME NEW a \in Nat, NEW b \in Nat
  PROVE  /\ Max({a, b}) = IF a >= b THEN a ELSE b
         /\ Min({a, b}) = IF a <= b THEN a ELSE b
<1>1. /\ \E x \in {a, b} : \A y \in {a, b} : x >= y
      /\ \E x \in {a, b} : \A y \in {a, b} : x =< y
  OBVIOUS
<1>2. Max({a, b}) \in {a, b} /\ \A y \in {a, b} : Max({a, b}) >= y
  BY <1>1 DEF Max
<1>3. Min({a, b}) \in {a, b} /\ \A y \in {a, b} : Min({a, b}) =< y
  BY <1>1 DEF Min
<1>. HIDE DEF Max, Min
<1>. QED  BY <1>2, <1>3

\* No file is longer than XferTop.
LEMMA TopIs ==
  ASSUME XferAssumption
  PROVE  XferTop \in Nat /\ Sizes \subseteq 0 .. XferTop
<1>1. \E top \in Sizes : \A n \in Sizes : top >= n
  BY DEF XferAssumption
<1>2. XferTop \in Sizes /\ \A n \in Sizes : XferTop >= n
  BY <1>1 DEF XferTop, Max
<1>. QED  BY <1>2 DEF XferAssumption

Units == {"src", "own"}

\* A file that is there is no absent one, be it empty.
LEMMA NotAbsent ==
  ASSUME NEW f \in Seq(Units)
  PROVE  f # Absent
<1>1. Len(Absent) = 1 /\ Absent[1] = "absent"
  BY DEF Absent
<1>2. Len(f) = 1 => f[1] \in Units
  OBVIOUS
<1>. QED  BY <1>1, <1>2 DEF Units

\* A write of n units at a position makes the file as long as it must be, and one at its
\* end leaves no gap.
LEMMA PutLengthens ==
  ASSUME NEW f \in Seq(Units), NEW from \in Nat, NEW n \in Nat
  PROVE  /\ PutUnits(f, from, n) \in Seq(Units)
         /\ Len(PutUnits(f, from, n)) = IF Len(f) >= from + n THEN Len(f) ELSE from + n
         /\ Len(f) = from /\ (\A i \in DOMAIN f : f[i] = "src")
              => \A i \in DOMAIN PutUnits(f, from, n) : PutUnits(f, from, n)[i] = "src"
<1>. DEFINE m == IF Len(f) >= from + n THEN Len(f) ELSE from + n
<1>1. m \in Nat /\ Max({Len(f), from + n}) = m
  BY MaxOfTwo
<1>. HIDE DEF m
<1>2. PICK p : p = PutUnits(f, from, n)
  OBVIOUS
<1>3. p = [i \in 1 .. m |-> IF i \in from + 1 .. from + n THEN "src" ELSE IF i \in DOMAIN f THEN f[i] ELSE "own"]
  BY <1>1, <1>2 DEF PutUnits
<1>4. \A i \in 1 .. m : p[i] \in Units
  BY <1>3 DEF Units
<1>5. p \in Seq(Units) /\ Len(p) = m
  BY <1>1, <1>3, <1>4
<1>6. ASSUME Len(f) = from, \A i \in DOMAIN f : f[i] = "src", NEW i \in 1 .. m
      PROVE  p[i] = "src"
  BY <1>3, <1>6 DEF m
<1>7. DOMAIN p = 1 .. m
  BY <1>3
<1>. QED  BY <1>2, <1>5, <1>6, <1>7 DEF m

\* What keeps its type however the destination is written to.
LEMMA WriterCloses ==
  ASSUME XferAssumption, XferTypeOK, NEW sent \in Nat, Closed(sent),
         writer.pos + writer.piece + sent <= XferTop,
         writer.piece + sent > 0 => dst # Absent
  PROVE  /\ dst' = Absent \/ (dst' \in Seq(Units) /\ Len(dst') <= XferTop)
         /\ dst' = Absent <=> dst = Absent
         /\ writer' = NoWriter /\ opened' = opened
         /\ writer.piece + sent = 0 => dst' = dst
         /\ dst # Absent /\ Len(dst) = writer.pos /\ (\A i \in DOMAIN dst : dst[i] = "src")
              => \A i \in DOMAIN dst' : dst'[i] = "src"
<1>1. PICK n \in 0 .. writer.piece + sent : dst' = IF n = 0 THEN dst ELSE PutUnits(dst, writer.pos, n)
  BY DEF Closed
<1>2. /\ writer.pos \in Nat /\ writer.piece \in Nat /\ XferTop \in Nat
      /\ dst = Absent \/ (dst \in Seq(Units) /\ Len(dst) <= XferTop)
  BY TopIs DEF XferTypeOK, Units, XferAssumption
<1>3. writer' = NoWriter /\ opened' = opened
  BY DEF Closed
<1>4. CASE n = 0
  BY <1>1, <1>2, <1>3, <1>4
<1>5. CASE n # 0
  <2>1. n \in Nat /\ n <= writer.piece + sent /\ dst # Absent /\ dst \in Seq(Units)
    BY <1>1, <1>2, <1>5
  <2>2. /\ dst' \in Seq(Units)
        /\ Len(dst') = IF Len(dst) >= writer.pos + n THEN Len(dst) ELSE writer.pos + n
        /\ Len(dst) = writer.pos /\ (\A i \in DOMAIN dst : dst[i] = "src")
              => \A i \in DOMAIN dst' : dst'[i] = "src"
    <3>1. dst' = PutUnits(dst, writer.pos, n)
      BY <1>1, <1>5
    <3>2. writer.pos \in Nat
      BY <1>2
    <3>. HIDE DEF PutUnits
    <3>. QED  BY ONLY <2>1, <3>1, <3>2, PutLengthens
  <2>3. dst' # Absent
    BY <2>2, NotAbsent
  <2>4. Len(dst') <= XferTop
    BY <1>2, <2>1, <2>2
  <2>. QED  BY <1>2, <1>3, <1>5, <2>1, <2>2, <2>3, <2>4
<1>. QED  BY <1>4, <1>5

\* What the types come to: numbers that can be counted with.
LEMMA SizesAre ==
  ASSUME XferAssumption, XferTypeOK
  PROVE  /\ XferTop \in Nat /\ size \in 0 .. XferTop /\ info_size \in 0 .. XferTop
         /\ file_complete \in 0 .. XferTop /\ pos \in 0 .. XferTop
         /\ writer.pos \in 0 .. XferTop /\ writer.piece \in 0 .. BufSize /\ BufSize \in Nat /\ BufSize > 1
         /\ NoWriter \in [pos : 0 .. XferTop, piece : 0 .. BufSize]
         /\ dst = Absent \/ (dst \in Seq(Units) /\ Len(dst) <= XferTop)
         /\ DOMAIN writer = {"pos", "piece"}
BY TopIs DEF XferTypeOK, XferAssumption, NoWriter, Units

\* What a piece is asked for: at least a unit, at most what the buffer holds.
LEMMA PieceIs ==
  ASSUME XferAssumption, XferTypeOK
  PROVE  AskPiece \in 1 .. BufSize
<1>1. info_size \in Nat /\ file_complete \in Nat /\ BufSize \in Nat /\ BufSize > 1
  BY SizesAre
<1>. QED  BY ONLY <1>1 DEF AskPiece

\* A break of a connection is counted.
LEMMA BreaksAre ==
  ASSUME XferAssumption, XferTypeOK, NEW h \in {"base", "dst"}, Works(h) \/ Breaks(h)
  PROVE  broken' \subseteq {"base", "dst"} /\ breaks' \in 0 .. MaxBreaks
<1>1. CASE UNCHANGED <<broken, breaks>>
  BY <1>1 DEF XferTypeOK
<1>2. CASE breaks < MaxBreaks /\ broken' = broken \cup {h} /\ breaks' = breaks + 1
  BY <1>2 DEF XferAssumption, XferTypeOK
<1>. QED  BY <1>1, <1>2 DEF Works, Breaks

\* Nothing has been copied yet when the listing and the user have been asked.
LEMMA InspectBasics == XferAssumption /\ Basics /\ Inspect => Basics'
<1>. SUFFICES ASSUME XferAssumption, Basics, Inspect PROVE Basics'
  OBVIOUS
<1>1. broken' \subseteq {"base", "dst"} /\ breaks' \in 0 .. MaxBreaks
  BY BreaksAre DEF Inspect, Basics
<1>2. /\ xpc' \in {"rename", "decide"} /\ xpc = "inspect" /\ (xpc' = "decide" => dst # Absent)
      /\ UNCHANGED <<what, gone, dst, opened, info_size, file_complete, pos, writer, indicted, xferAborting, result>>
  BY DEF Inspect, XferGo
<1>3. XferTypeOK'
  BY <1>1, <1>2 DEF Basics, XferTypeOK, XferPlaces, what
<1>. QED
  BY <1>2, <1>3 DEF Basics, WriterFollows, DestinationIsThere, ReaderFollows, SomeoneIsIndicted, Copying, what

\* A file that is vouched for is as long as it was.
LEMMA DecideBasics == XferAssumption /\ Basics /\ Decide => Basics'
<1>. SUFFICES ASSUME XferAssumption, Basics, Decide PROVE Basics'
  OBVIOUS
<1>. USE SizesAre DEF Basics
<1>1. /\ xpc = "decide" /\ xpc' \in {"rename", "done"}
      /\ result' \in {"none", "copied", "skipped", "aborted", "failed", "renamed"}
      /\ UNCHANGED <<what, gone, info_size, pos, writer, indicted, broken, breaks, xferAborting>>
  BY DEF Decide, Overwrite, Resume, DifferentName, LeaveXfer, XferGo, End, XferTypeOK
<1>2. dst \in Seq(Units) /\ Len(dst) <= XferTop /\ dst # Absent
  BY <1>1 DEF DestinationIsThere
<1>3. CASE UNCHANGED <<dst, opened, file_complete>>
  <2>1. XferTypeOK'
    BY <1>1, <1>3 DEF XferTypeOK, XferPlaces, what
  <2>. QED
    BY <1>1, <1>3, <2>1 DEF WriterFollows, DestinationIsThere, ReaderFollows, SomeoneIsIndicted, Copying, what
<1>4. CASE dst' = [i \in DOMAIN dst |-> "src"] /\ file_complete' = Len(dst) /\ opened' = (dst # <<>>)
  <2>0. DOMAIN dst = 1 .. Len(dst) /\ Len(dst) \in Nat
    BY <1>2
  <2>1. dst' \in Seq(Units) /\ Len(dst') = Len(dst)
    BY <2>0, <1>4 DEF Units
  <2>2. dst' # Absent
    BY <2>1, NotAbsent
  <2>3. opened' \in BOOLEAN
    BY <1>4, Zenon
  <2>4. XferTypeOK'
    BY <1>1, <1>2, <1>4, <2>1, <2>3 DEF XferTypeOK, XferPlaces, what, Units
  <2>. QED
    BY <1>1, <2>2, <2>4 DEF WriterFollows, DestinationIsThere, ReaderFollows, SomeoneIsIndicted, Copying, what
<1>5. CASE dst' = Absent /\ UNCHANGED <<opened, file_complete>>
  <2>1. ~opened /\ file_complete = 0
    BY <1>1 DEF DestinationIsThere
  <2>2. XferTypeOK'
    BY <1>1, <1>5 DEF XferTypeOK, XferPlaces, what
  <2>. QED
    BY <1>1, <1>5, <2>1, <2>2 DEF WriterFollows, DestinationIsThere, ReaderFollows, SomeoneIsIndicted, Copying, what
<1>. QED
  BY <1>3, <1>4, <1>5 DEF Decide, Overwrite, Resume, DifferentName, LeaveXfer

Results == {"none", "copied", "skipped", "aborted", "failed", "renamed"}

\* What no step of the copy but the last ones disturbs.
Apart ==
  /\ UNCHANGED what /\ gone' \in BOOLEAN /\ xferAborting' \in BOOLEAN
  /\ info_size' \in 0 .. XferTop /\ pos' \in 0 .. XferTop
  /\ indicted' \in {"null", "base", "dst"}
  /\ broken' \subseteq {"base", "dst"} /\ breaks' \in 0 .. MaxBreaks
  /\ xpc' \in XferPlaces /\ result' \in Results

\* An error or an abort, wherever it meets the loop, leaves a file and no writer.
LEMMA CloseBasics ==
  ASSUME XferAssumption, Basics, NEW sent \in Nat, Closed(sent), Apart,
         sent > 0 => xpc = "write" /\ sent = pos - file_complete,
         xpc' = "done" \/ (xpc' = "ask" /\ indicted' # "null"), xpc \notin {"inspect", "decide"},
         UNCHANGED file_complete
  PROVE  Basics'
<1>. USE SizesAre DEF Basics
<1>1. /\ writer.pos + writer.piece + sent <= XferTop
      /\ writer.piece + sent > 0 => dst # Absent
  <2>1. CASE xpc \in Copying
    <3>1. writer.pos + writer.piece = file_complete /\ dst # Absent
      BY <2>1 DEF WriterFollows, DestinationIsThere
    <3>2. CASE sent > 0
      BY <3>1, <3>2
    <3>3. CASE sent = 0
      BY <3>1, <3>3
    <3>. QED  BY <3>2, <3>3
  <2>2. CASE xpc \notin Copying
    BY <2>2 DEF WriterFollows, Copying, NoWriter
  <2>. QED  BY <2>1, <2>2
<1>2. /\ dst' = Absent \/ (dst' \in Seq(Units) /\ Len(dst') <= XferTop)
      /\ dst' = Absent <=> dst = Absent
      /\ writer' = NoWriter /\ opened' = opened
  BY <1>1, WriterCloses
<1>3. XferTypeOK'
  BY <1>2 DEF XferTypeOK, Apart, what, Units, Results
<1>4. WriterFollows' /\ ReaderFollows'
  BY <1>2 DEF WriterFollows, ReaderFollows, Copying
<1>5. DestinationIsThere' /\ SomeoneIsIndicted'
  BY <1>2 DEF DestinationIsThere, SomeoneIsIndicted, Copying
<1>. QED  BY <1>3, <1>4, <1>5

\* FileCopyLoop's catch, of what a call to a host throws.
LEMMA ThrowBasics ==
  ASSUME XferAssumption, Basics, Throw, Apart, indicted' # "null", UNCHANGED file_complete,
         xpc \notin {"inspect", "decide"}
  PROVE  Basics'
<1>1. Closed(0) /\ xpc' = "ask"
  BY DEF Throw, XferGo
<1>2. 0 \in Nat /\ (0 > 0 => xpc = "write" /\ 0 = pos - file_complete)
  OBVIOUS
<1>. QED  BY ONLY <1>1, <1>2, XferAssumption, Basics, Apart, indicted' # "null", UNCHANGED file_complete,
         xpc \notin {"inspect", "decide"}, CloseBasics

\* Steps that leave the destination and its writer alone.
LEMMA AsideBasics ==
  ASSUME XferAssumption, Basics, Apart, UNCHANGED <<dst, opened, writer>>,
         file_complete' \in 0 .. XferTop,
         xpc \in Copying => UNCHANGED file_complete,
         xpc \in Copying <=> xpc' \in Copying,
         xpc' \notin {"inspect", "decide"},
         file_complete' > 0 => dst # Absent,
         ReaderFollows', SomeoneIsIndicted'
  PROVE  Basics'
<1>. USE SizesAre DEF Basics
<1>3. XferTypeOK'
  BY DEF XferTypeOK, Apart, what, Results
<1>4. WriterFollows'
  BY DEF WriterFollows, Copying
<1>5. DestinationIsThere'
  BY DEF DestinationIsThere, Copying
<1>. QED  BY <1>3, <1>4, <1>5

\* A rename that is carried out puts the whole source there.
LEMMA RenameBasics == XferAssumption /\ Basics /\ Rename => Basics'
<1>. SUFFICES ASSUME XferAssumption, Basics, Rename PROVE Basics'
  OBVIOUS
<1>. USE SizesAre DEF Basics
<1>1. Works("base") \/ Breaks("base")
  BY DEF Rename
<1>2. broken' \subseteq {"base", "dst"} /\ breaks' \in 0 .. MaxBreaks
  BY <1>1, BreaksAre
<1>3. /\ xpc = "rename" /\ xpc' \in {"get", "done"} /\ result' \in Results
      /\ gone' \in BOOLEAN
      /\ UNCHANGED <<what, opened, info_size, file_complete, pos, writer, indicted, xferAborting>>
      /\ UNCHANGED dst \/ dst' = [i \in 1 .. size |-> "src"]
  BY DEF Rename, XferGo, End, XferTypeOK, Results
<1>4. [i \in 1 .. size |-> "src"] \in Seq(Units) /\ Len([i \in 1 .. size |-> "src"]) = size
  BY DEF Units
<1>7. PICK q : q = [i \in 1 .. size |-> "src"]
  OBVIOUS
<1>8. q \in Seq(Units) /\ Len(q) <= XferTop /\ q # Absent
  <2>1. q \in Seq(Units) /\ Len(q) = size /\ size \in 0 .. XferTop /\ XferTop \in Nat
    BY <1>4, <1>7
  <2>2. q # Absent
    BY ONLY <2>1, NotAbsent
  <2>. QED  BY ONLY <2>1, <2>2
<1>5. dst' = dst \/ (dst' \in Seq(Units) /\ Len(dst') <= XferTop /\ dst' # Absent)
  BY ONLY <1>3, <1>7, <1>8
<1>6. XferTypeOK'
  BY <1>2, <1>3, <1>5 DEF XferTypeOK, XferPlaces, what, Units, Results
<1>. QED
  BY <1>3, <1>5, <1>6 DEF WriterFollows, DestinationIsThere, ReaderFollows, SomeoneIsIndicted, Copying

\* The writer is put where the file ends, after a file was made if there was none to resume.
LEMMA FilePutBasics == XferAssumption /\ Basics /\ FilePut => Basics'
<1>. SUFFICES ASSUME XferAssumption, Basics, FilePut PROVE Basics'
  OBVIOUS
<1>. USE SizesAre DEF Basics
<1>0. broken' \subseteq {"base", "dst"} /\ breaks' \in 0 .. MaxBreaks
  BY BreaksAre DEF FilePut
<1>1. CASE Breaks("dst") /\ Throw
  <2>1. Apart
    BY <1>0, <1>1 DEF FilePut, Throw, XferGo, XferTypeOK, XferPlaces, Apart, what, Results
  <2>2. indicted' # "null" /\ xpc = "put" /\ UNCHANGED file_complete
    BY DEF FilePut
  <2>. QED  BY <1>1, <2>1, <2>2, ThrowBasics
<1>2. CASE /\ dst' = IF file_complete = 0 THEN <<>> ELSE dst
           /\ opened' = TRUE
           /\ writer' = [NoWriter EXCEPT !.pos = file_complete]
           /\ XferGo("read")
  <2>1. /\ xpc = "put" /\ xpc' = "read" /\ indicted' = "dst" /\ result' = result
        /\ UNCHANGED <<what, gone, info_size, file_complete, pos, xferAborting>>
    BY <1>2 DEF FilePut, XferGo
  <2>2. <<>> \in Seq(Units) /\ Len(<<>>) = 0 /\ <<>> # Absent
    <3>1. <<>> \in Seq(Units) /\ Len(<<>>) = 0
      OBVIOUS
    <3>. QED  BY <3>1, NotAbsent
  <2>3. dst' \in Seq(Units) /\ Len(dst') <= XferTop /\ dst' # Absent
    BY <1>2, <2>2 DEF DestinationIsThere
  <2>4. writer' = [pos |-> file_complete, piece |-> 0]
    BY <1>2 DEF NoWriter
  <2>5. XferTypeOK'
    BY <1>0, <1>2, <2>1, <2>3, <2>4 DEF XferTypeOK, XferPlaces, what, Units
  <2>. QED
    BY <2>1, <2>3, <2>4, <2>5 DEF WriterFollows, DestinationIsThere, ReaderFollows, SomeoneIsIndicted, Copying
<1>. QED  BY <1>1, <1>2 DEF FilePut

\* Of a write that is reported later all has been written then.
LEMMA ReportLengthens ==
  ASSUME XferAssumption, Basics, Reported, xpc \in Copying
  PROVE  /\ dst' \in Seq(Units) /\ dst' # Absent /\ Len(dst') <= XferTop /\ opened' = opened
         /\ Len(dst) = writer.pos => Len(dst') = file_complete
         /\ Len(dst) = writer.pos /\ (\A i \in DOMAIN dst : dst[i] = "src")
              => \A i \in DOMAIN dst' : dst'[i] = "src"
<1>. USE SizesAre DEF Basics
<1>1. /\ writer.pos + writer.piece = file_complete /\ dst # Absent /\ dst \in Seq(Units)
      /\ writer.pos \in Nat /\ writer.piece \in Nat
  BY DEF WriterFollows, DestinationIsThere
<1>2. CASE writer.piece > 0
  <2>1. dst' = PutUnits(dst, writer.pos, writer.piece) /\ opened' = opened
    BY <1>2 DEF Reported
  <2>2. /\ dst' \in Seq(Units)
        /\ Len(dst') = IF Len(dst) >= writer.pos + writer.piece THEN Len(dst) ELSE writer.pos + writer.piece
        /\ Len(dst) = writer.pos /\ (\A i \in DOMAIN dst : dst[i] = "src")
              => \A i \in DOMAIN dst' : dst'[i] = "src"
    <3>. HIDE DEF PutUnits
    <3>. QED  BY ONLY <1>1, <2>1, PutLengthens
  <2>3. dst' # Absent
    BY <2>2, NotAbsent
  <2>4. file_complete <= XferTop /\ Len(dst) <= XferTop /\ Len(dst) \in Nat
    BY <1>1
  <2>. QED  BY <1>1, <1>2, <2>1, <2>2, <2>3, <2>4
<1>3. CASE ~ (writer.piece > 0)
  <2>1. dst' = dst /\ opened' = opened /\ writer.piece = 0
    BY <1>1, <1>3 DEF Reported
  <2>. QED  BY <1>1, <2>1
<1>. QED  BY <1>2, <1>3

\* The loop's calls of hosts that may throw: the connections, and the reader.
LEMMA ReInitializeBasics == XferAssumption /\ Basics /\ XferReInitialize => Basics'
<1>. SUFFICES ASSUME XferAssumption, Basics, XferReInitialize PROVE Basics'
  OBVIOUS
<1>. USE SizesAre DEF Basics
<1>1. CASE /\ broken' = broken \ {indicted} /\ indicted' = "dst" /\ XferGo("getsize")
           /\ UNCHANGED <<dst, opened, breaks, writer>>
  <2>1. Apart /\ xpc = "reinit" /\ xpc' = "getsize" /\ UNCHANGED file_complete
    BY <1>1 DEF XferReInitialize, XferGo, XferTypeOK, XferPlaces, Apart, what, Results
  <2>2. ReaderFollows' /\ SomeoneIsIndicted'
    BY <1>1, <2>1 DEF ReaderFollows, SomeoneIsIndicted
  <2>3. file_complete > 0 => dst # Absent
    BY DEF DestinationIsThere
  <2>. QED  BY <1>1, <2>1, <2>2, <2>3, AsideBasics DEF Copying
<1>2. CASE Breaks(indicted) /\ Throw /\ UNCHANGED indicted
  <2>1. xpc = "reinit" /\ xpc' = "ask" /\ UNCHANGED <<what, gone, info_size, file_complete, pos, xferAborting>>
    BY <1>2 DEF XferReInitialize, Throw, XferGo
  <2>2. indicted \in {"base", "dst"} /\ indicted' = indicted
    BY <1>2, <2>1 DEF XferTypeOK, SomeoneIsIndicted
  <2>3. broken' \subseteq {"base", "dst"} /\ breaks' \in 0 .. MaxBreaks
    BY <1>2, <2>2, BreaksAre
  <2>4. Apart
    BY <1>2, <2>1, <2>2, <2>3 DEF Throw, XferGo, XferTypeOK, XferPlaces, Apart, what, Results
  <2>5. indicted' # "null" /\ UNCHANGED file_complete /\ xpc \notin {"inspect", "decide"}
    BY <2>1, <2>2
  <2>. QED  BY <1>2, <2>4, <2>5, ThrowBasics
<1>. QED  BY <1>1, <1>2 DEF XferReInitialize

\* The size of what is there is taken for the place to go on from.
LEMMA GetSizeBasics == XferAssumption /\ Basics /\ GetSize => Basics'
<1>. SUFFICES ASSUME XferAssumption, Basics, GetSize PROVE Basics'
  OBVIOUS
<1>. USE SizesAre DEF Basics
<1>1. /\ xpc = "getsize" /\ (Works("dst") \/ Breaks("dst"))
      /\ UNCHANGED <<what, gone, info_size, pos, indicted, xferAborting>>
      /\ indicted # "null" /\ indicted' # "null"
  BY DEF GetSize, SomeoneIsIndicted
<1>2. broken' \subseteq {"base", "dst"} /\ breaks' \in 0 .. MaxBreaks
  BY <1>1, BreaksAre
<1>3. CASE Closed(0) /\ (XferGo("ask") \/ End("aborted")) /\ UNCHANGED file_complete
  <2>1. Apart
    BY <1>1, <1>2, <1>3 DEF XferGo, End, XferTypeOK, XferPlaces, Apart, what, Results
  <2>. QED  BY <1>1, <1>3, <2>1, CloseBasics DEF XferGo, End
<1>4. CASE dst # Absent /\ file_complete' = Len(dst) /\ XferGo("get") /\ UNCHANGED <<dst, opened, writer>>
  <2>1. Apart
    BY <1>1, <1>2, <1>4 DEF XferGo, XferTypeOK, XferPlaces, Apart, what, Results
  <2>2. file_complete' \in 0 .. XferTop
    BY <1>4
  <2>3. ReaderFollows' /\ SomeoneIsIndicted'
    BY <1>1, <1>4 DEF XferGo, ReaderFollows, SomeoneIsIndicted
  <2>. QED  BY <1>1, <1>4, <2>1, <2>2, <2>3, AsideBasics DEF XferGo, Copying
<1>. QED  BY <1>3, <1>4 DEF GetSize, Abortable, Throw

\* The source is opened at that place.
LEMMA FileGetBasics == XferAssumption /\ Basics /\ FileGet => Basics'
<1>. SUFFICES ASSUME XferAssumption, Basics, FileGet PROVE Basics'
  OBVIOUS
<1>. USE SizesAre DEF Basics
<1>1. /\ xpc = "get" /\ (Works("base") \/ Breaks("base")) /\ indicted' = "base"
      /\ UNCHANGED <<what, gone, info_size, file_complete, xferAborting>>
  BY DEF FileGet
<1>2. broken' \subseteq {"base", "dst"} /\ breaks' \in 0 .. MaxBreaks
  BY <1>1, BreaksAre
<1>3. CASE Throw /\ UNCHANGED pos
  <2>1. Apart
    BY <1>1, <1>2, <1>3 DEF Throw, XferGo, XferTypeOK, XferPlaces, Apart, what, Results
  <2>2. indicted' # "null" /\ UNCHANGED file_complete /\ xpc \notin {"inspect", "decide"}
    BY <1>1
  <2>. QED  BY <1>3, <2>1, <2>2, ThrowBasics
<1>4. CASE pos' = file_complete /\ XferGo("put") /\ UNCHANGED <<dst, opened, writer>>
  <2>1. Apart
    BY <1>1, <1>2, <1>4 DEF XferGo, XferTypeOK, XferPlaces, Apart, what, Results
  <2>3. ReaderFollows' /\ SomeoneIsIndicted' /\ (file_complete > 0 => dst # Absent)
    BY <1>1, <1>4 DEF XferGo, ReaderFollows, SomeoneIsIndicted, DestinationIsThere
  <2>. QED  BY <1>1, <1>4, <2>1, <2>3, AsideBasics DEF XferGo, Copying
<1>. QED  BY <1>3, <1>4 DEF FileGet

\* Read returns no more than there is and was asked for, and without short reads no less.
LEMMA ReadableIs ==
  ASSUME XferAssumption, XferTypeOK, NEW n \in 1 .. BufSize, NEW piece \in Readable(n)
  PROVE  /\ piece \in 0 .. n
         /\ piece > 0 => pos + piece <= size
         /\ piece = 0 => size <= pos
         /\ ~ShortReads /\ piece < n => pos + piece >= size
<1>. DEFINE left == IF size > pos THEN size - pos ELSE 0
            most == Min({n, left})
<1>1. size \in Nat /\ pos \in Nat /\ n \in Nat /\ n > 0
  BY SizesAre
<1>2. left \in Nat /\ most = IF n <= left THEN n ELSE left
  <2>1. left \in Nat
    BY <1>1
  <2>. HIDE DEF left
  <2>. QED  BY <1>1, <2>1, MaxOfTwo
<1>3. piece \in (IF ShortReads /\ most > 0 THEN 1 .. most ELSE {most})
  BY DEF Readable
<1>. HIDE DEF most
<1>4. most \in Nat
  BY <1>1, <1>2
<1>5. piece \in Nat /\ piece <= most /\ (piece = 0 => most = 0) /\ (~ShortReads => piece = most)
  BY <1>3, <1>4
<1>. QED  BY <1>1, <1>2, <1>5

\* Reading goes on from where it is, by a piece that there is.
LEMMA ReadBasics == XferAssumption /\ Basics /\ Read => Basics'
<1>. SUFFICES ASSUME XferAssumption, Basics, Read PROVE Basics'
  OBVIOUS
<1>. USE SizesAre, PieceIs DEF Basics
<1>1. /\ xpc = "read" /\ (Works("base") \/ Breaks("base")) /\ indicted' = "base"
      /\ UNCHANGED <<what, gone, info_size, file_complete, xferAborting>>
  BY DEF Read
<1>2. broken' \subseteq {"base", "dst"} /\ breaks' \in 0 .. MaxBreaks
  BY <1>1, BreaksAre
<1>3. CASE Throw /\ UNCHANGED pos
  <2>1. Apart
    BY <1>1, <1>2, <1>3 DEF Throw, XferGo, XferTypeOK, XferPlaces, Apart, what, Results
  <2>2. indicted' # "null" /\ UNCHANGED file_complete /\ xpc \notin {"inspect", "decide"}
    BY <1>1
  <2>. QED  BY <1>3, <2>1, <2>2, ThrowBasics
<1>4. ASSUME NEW piece \in Readable(AskPiece),
             pos' = pos + piece, UNCHANGED <<dst, opened, writer>>,
             XferGo(IF piece > 0 THEN "write" ELSE IF file_complete < info_size THEN "srcsize" ELSE "complete")
      PROVE  Basics'
  <2>1. /\ piece \in 0 .. AskPiece
        /\ piece > 0 => pos + piece <= size
        /\ ~ShortReads /\ piece < AskPiece => pos + piece >= size
    BY <1>4, ReadableIs
  <2>2. pos' \in 0 .. XferTop
    <3>1. /\ XferTop \in Nat /\ size \in 0 .. XferTop /\ pos \in 0 .. XferTop
          /\ piece \in Nat /\ (piece > 0 => pos + piece <= size) /\ pos' = pos + piece
      BY <1>4, <2>1
    <3>. QED  BY ONLY <3>1
  <2>3. Apart
    BY <1>1, <1>2, <1>4, <2>2 DEF XferGo, XferTypeOK, XferPlaces, Apart, what, Results
  <2>4. AskPiece' = AskPiece /\ pos = file_complete
    BY <1>1 DEF AskPiece, ReaderFollows
  <2>5. ReaderFollows'
    <3>1. size' = size /\ file_complete' = file_complete /\ piece \in Nat
      BY <1>1, <2>1 DEF what
    <3>2. CASE piece > 0
      <4>1. xpc' = "write"
        BY <1>4, <3>2 DEF XferGo
      <4>2. AskPiece \in 1 .. BufSize /\ (~ShortReads /\ piece < AskPiece => pos + piece >= size)
        BY <2>1
      <4>3. pos' = pos + piece /\ (piece > 0 => pos + piece <= size) /\ piece <= AskPiece
        BY <1>4, <2>1
      <4>4. pos \in Nat /\ size \in Nat /\ file_complete \in Nat /\ BufSize \in Nat
        OBVIOUS
      <4>. QED  BY ONLY <2>4, <3>1, <3>2, <4>1, <4>2, <4>3, <4>4 DEF ReaderFollows
    <3>3. CASE piece = 0
      BY <1>4, <2>4, <3>1, <3>3 DEF ReaderFollows, XferGo
    <3>. QED  BY <3>1, <3>2, <3>3
  <2>6. SomeoneIsIndicted' /\ dst # Absent
    BY <1>1, <1>4 DEF XferGo, SomeoneIsIndicted, DestinationIsThere, Copying
  <2>. QED  BY <1>1, <1>4, <2>3, <2>5, <2>6, AsideBasics DEF XferGo, Copying
<1>. QED  BY <1>3, <1>4 DEF Read

\* The size of the source is looked up when it ends too soon.
LEMMA SrcSizeBasics == XferAssumption /\ Basics /\ SrcSize => Basics'
<1>. SUFFICES ASSUME XferAssumption, Basics, SrcSize PROVE Basics'
  OBVIOUS
<1>. USE SizesAre DEF Basics
<1>1. /\ xpc = "srcsize" /\ (Works("base") \/ Breaks("base"))
      /\ UNCHANGED <<what, gone, file_complete, pos, indicted, xferAborting>>
      /\ info_size' \in {info_size, size, file_complete} /\ indicted' # "null"
  BY DEF SrcSize, SomeoneIsIndicted
<1>2. broken' \subseteq {"base", "dst"} /\ breaks' \in 0 .. MaxBreaks
  BY <1>1, BreaksAre
<1>3. CASE Throw
  <2>1. Apart
    BY <1>1, <1>2, <1>3 DEF Throw, XferGo, XferTypeOK, XferPlaces, Apart, what, Results
  <2>2. indicted' # "null" /\ UNCHANGED file_complete /\ xpc \notin {"inspect", "decide"}
    BY <1>1
  <2>. QED  BY <1>3, <2>1, <2>2, ThrowBasics
<1>4. CASE XferGo("complete") /\ UNCHANGED <<dst, opened, writer>>
  <2>1. Apart
    BY <1>1, <1>2, <1>4 DEF XferGo, XferTypeOK, XferPlaces, Apart, what, Results
  <2>3. ReaderFollows' /\ SomeoneIsIndicted' /\ dst # Absent
    BY <1>1, <1>4 DEF XferGo, ReaderFollows, SomeoneIsIndicted, DestinationIsThere, Copying
  <2>. QED  BY <1>1, <1>4, <2>1, <2>3, AsideBasics DEF XferGo, Copying
<1>. QED  BY <1>3, <1>4 DEF SrcSize

\* A piece is handed to the writer once the one before is reported.
LEMMA WriteBasics == XferAssumption /\ Basics /\ Write => Basics'
<1>. SUFFICES ASSUME XferAssumption, Basics, Write PROVE Basics'
  OBVIOUS
<1>. USE SizesAre, PieceIs DEF Basics
<1>. DEFINE piece == pos - file_complete
<1>1. /\ xpc = "write" /\ (Works("dst") \/ Breaks("dst")) /\ indicted' = "dst"
      /\ UNCHANGED <<what, gone, info_size, pos, xferAborting>>
  BY DEF Write, Reported
<1>2. broken' \subseteq {"base", "dst"} /\ breaks' \in 0 .. MaxBreaks
  BY <1>1, BreaksAre
<1>3. piece \in 1 .. BufSize /\ piece \in Nat
  <2>1. pos > file_complete /\ pos - file_complete <= AskPiece
    BY <1>1 DEF ReaderFollows
  <2>2. pos \in Nat /\ file_complete \in Nat /\ AskPiece \in Nat /\ AskPiece <= BufSize
    OBVIOUS
  <2>. QED  BY <2>1, <2>2
<1>4. CASE Closed(piece) /\ XferGo("ask") /\ UNCHANGED file_complete
  <2>1. Apart
    BY <1>1, <1>2, <1>4 DEF XferGo, XferTypeOK, XferPlaces, Apart, what, Results
  <2>. QED  BY <1>1, <1>3, <1>4, <2>1, CloseBasics DEF XferGo
<1>5. CASE /\ Reported /\ file_complete' = pos
           /\ writer' = [pos |-> writer.pos + writer.piece, piece |-> piece]
           /\ XferGo("fast") \/ XferGo("count")
  <2>1. dst' \in Seq(Units) /\ dst' # Absent /\ Len(dst') <= XferTop /\ opened' = opened
    BY <1>1, <1>5, ReportLengthens DEF Copying
  <2>2. writer.pos + writer.piece = file_complete
    BY <1>1 DEF WriterFollows, Copying
  <2>3. writer' = [pos |-> file_complete, piece |-> piece] /\ file_complete + piece = pos
    BY <1>5, <2>2
  <2>. HIDE DEF piece
  <2>6. writer' \in [pos : 0 .. XferTop, piece : 0 .. BufSize] /\ file_complete' \in 0 .. XferTop
    BY <1>3, <1>5, <2>3
  <2>7. writer'.pos = file_complete /\ writer'.piece = piece
    BY <2>3
  <2>8. xpc' \in {"fast", "count"} /\ result' = result
    BY <1>5 DEF XferGo
  <2>4. XferTypeOK'
    BY <1>1, <1>2, <2>1, <2>6, <2>8 DEF XferTypeOK, XferPlaces, what, Units
  <2>5. WriterFollows' /\ ReaderFollows' /\ DestinationIsThere' /\ SomeoneIsIndicted'
    BY <1>1, <1>5, <2>1, <2>3, <2>7, <2>8
       DEF WriterFollows, ReaderFollows, DestinationIsThere, SomeoneIsIndicted, Copying
  <2>. QED  BY <2>4, <2>5
<1>. QED  BY <1>4, <1>5 DEF Write

\* WriteComplete: the last piece is reported too.
LEMMA CompleteBasics == XferAssumption /\ Basics /\ XferWriteComplete => Basics'
<1>. SUFFICES ASSUME XferAssumption, Basics, XferWriteComplete PROVE Basics'
  OBVIOUS
<1>. USE SizesAre DEF Basics
<1>1. /\ xpc \in {"complete", "fast"} /\ (Works("dst") \/ Breaks("dst")) /\ indicted' = "dst"
      /\ UNCHANGED <<what, gone, info_size, file_complete, pos, xferAborting>>
  BY DEF XferWriteComplete, Complete, Reported
<1>2. broken' \subseteq {"base", "dst"} /\ breaks' \in 0 .. MaxBreaks
  BY <1>1, BreaksAre
<1>3. CASE Throw
  <2>1. Apart
    BY <1>1, <1>2, <1>3 DEF Throw, XferGo, XferTypeOK, XferPlaces, Apart, what, Results
  <2>2. indicted' # "null" /\ UNCHANGED file_complete /\ xpc \notin {"inspect", "decide"}
    BY <1>1
  <2>. QED  BY <1>3, <2>1, <2>2, ThrowBasics
<1>4. CASE Reported /\ writer' = NoWriter /\ (XferGo("times") \/ XferGo("fastcount"))
  <2>1. dst' \in Seq(Units) /\ dst' # Absent /\ Len(dst') <= XferTop /\ opened' = opened
    BY <1>1, <1>4, ReportLengthens DEF Copying
  <2>2. XferTypeOK'
    BY <1>1, <1>2, <1>4, <2>1 DEF XferTypeOK, XferGo, XferPlaces, what, Units
  <2>3. WriterFollows' /\ ReaderFollows' /\ DestinationIsThere' /\ SomeoneIsIndicted'
    BY <1>1, <1>4, <2>1
       DEF XferGo, WriterFollows, ReaderFollows, DestinationIsThere, SomeoneIsIndicted, Copying
  <2>. QED  BY <2>2, <2>3
<1>. QED  BY <1>3, <1>4 DEF XferWriteComplete, Complete

\* ProgressStateUpdate after a piece.
LEMMA CountBasics == XferAssumption /\ Basics /\ Count => Basics'
<1>. SUFFICES ASSUME XferAssumption, Basics, Count PROVE Basics'
  OBVIOUS
<1>. USE SizesAre DEF Basics
<1>1. /\ xpc \in {"count", "fastcount"} /\ indicted' = "null"
      /\ UNCHANGED <<what, gone, info_size, pos, broken, breaks, xferAborting, file_complete>>
  BY DEF Count, Abortable
<1>2. CASE Closed(0) /\ End("aborted")
  <2>1. Apart
    BY <1>1, <1>2 DEF End, XferTypeOK, XferPlaces, Apart, what, Results
  <2>. QED  BY <1>1, <1>2, <2>1, CloseBasics DEF End
<1>3. CASE XferGo(IF xpc = "count" THEN "read" ELSE "times") /\ UNCHANGED <<dst, opened, writer>>
  <2>1. Apart
    BY <1>1, <1>3 DEF XferGo, XferTypeOK, XferPlaces, Apart, what, Results
  <2>3. ReaderFollows' /\ SomeoneIsIndicted' /\ (file_complete > 0 => dst # Absent)
    BY <1>1, <1>3 DEF XferGo, ReaderFollows, SomeoneIsIndicted, DestinationIsThere, Copying
  <2>. QED  BY <1>1, <1>3, <2>1, <2>3, AsideBasics DEF XferGo, Copying
<1>. QED  BY <1>2, <1>3 DEF Count, Abortable

\* What the user answers, and what comes after the copying, touches neither end of it.
LEMMA AfterBasics ==
  XferAssumption /\ Basics /\ (AskUser \/ CopyAttributes \/ FileDelete) => Basics'
<1>. SUFFICES ASSUME XferAssumption, Basics, AskUser \/ CopyAttributes \/ FileDelete PROVE Basics'
  OBVIOUS
<1>. USE SizesAre DEF Basics
<1>1. /\ xpc \in {"ask", "times", "delete"}
      /\ UNCHANGED <<what, dst, opened, info_size, file_complete, pos, writer, indicted, xferAborting>>
  BY DEF AskUser, CopyAttributes, FileDelete
<1>2. CASE AskUser
  <2>1. Apart /\ xpc = "ask" /\ xpc' \in {"done", "reinit"}
    BY <1>1, <1>2 DEF AskUser, XferGo, End, XferTypeOK, XferPlaces, Apart, what, Results
  <2>2. ReaderFollows' /\ SomeoneIsIndicted' /\ (file_complete > 0 => dst # Absent)
    BY <1>1, <2>1 DEF ReaderFollows, SomeoneIsIndicted, DestinationIsThere
  <2>. QED  BY <1>1, <2>1, <2>2, AsideBasics DEF Copying
<1>3. CASE CopyAttributes \/ FileDelete
  <2>1. /\ xpc \in {"times", "delete"} /\ xpc' \in {"times", "delete", "done"}
        /\ result' \in Results /\ gone' \in BOOLEAN
    BY <1>3 DEF CopyAttributes, FileDelete, Wrapped, XferGo, End, XferTypeOK, Results
  <2>5. broken \subseteq {"base", "dst"} /\ breaks \in Nat /\ MaxBreaks \in Nat /\ breaks <= MaxBreaks
    BY DEF XferTypeOK, XferAssumption
  <2>2. broken' \subseteq {"base", "dst"} /\ breaks' \in 0 .. MaxBreaks
    <3>1. CASE CopyAttributes
      <4>1. /\ broken' \in {broken, broken \cup {"dst"}, broken \ {"dst"}}
            /\ breaks' = breaks \/ (breaks < MaxBreaks /\ breaks' = breaks + 1)
        BY <3>1 DEF CopyAttributes, Wrapped, Works
      <4>. QED  BY ONLY <2>5, <4>1
    <3>2. CASE FileDelete
      <4>1. /\ broken' \in {broken, broken \cup {"base"}, broken \ {"base"}}
            /\ breaks' = breaks \/ (breaks < MaxBreaks /\ breaks' = breaks + 1)
        BY <3>2 DEF FileDelete, Wrapped, Works
      <4>. QED  BY ONLY <2>5, <4>1
    <3>. QED  BY <1>3, <3>1, <3>2
  <2>3. Apart
    BY <1>1, <2>1, <2>2 DEF Apart, XferTypeOK, XferPlaces, what
  <2>4. ReaderFollows' /\ SomeoneIsIndicted' /\ (file_complete > 0 => dst # Absent)
    BY <1>1, <2>1 DEF ReaderFollows, SomeoneIsIndicted, DestinationIsThere
  <2>. QED  BY <1>1, <2>1, <2>3, <2>4, AsideBasics DEF Copying
<1>. QED  BY <1>2, <1>3

\* A source that is as it was listed or not, a destination of any length.
LEMMA XferInitBasics == XferAssumption /\ XferInit => Basics
<1>. SUFFICES ASSUME XferAssumption, XferInit PROVE Basics
  OBVIOUS
<1>1. XferTop \in Nat /\ Sizes \subseteq 0 .. XferTop /\ 0 \in 0 .. XferTop
  BY TopIs
<1>2. dst = Absent \/ (dst \in Seq(Units) /\ Len(dst) <= XferTop)
  <2>1. ASSUME NEW n \in Sizes, dst = [i \in 1 .. n |-> "own"]
        PROVE  dst \in Seq(Units) /\ Len(dst) <= XferTop
    <3>1. n \in Nat /\ n <= XferTop
      BY <1>1
    <3>. QED  BY <2>1, <3>1 DEF Units
  <2>. QED  BY <2>1 DEF XferInit
<1>4. /\ info_size \in 0 .. XferTop /\ 0 \in 0 .. MaxBreaks
      /\ NoWriter \in [pos : 0 .. XferTop, piece : 0 .. BufSize]
  BY <1>1 DEF XferInit, XferAssumption, NoWriter
<1>3. XferTypeOK
  BY <1>1, <1>2, <1>4 DEF XferInit, XferTypeOK, XferPlaces, Units
<1>. QED
  BY <1>3 DEF XferInit, Basics, WriterFollows, ReaderFollows, DestinationIsThere, SomeoneIsIndicted, Copying

\* XferFile: every step of the copy keeps what its steps rely on, an abort among them.
LEMMA XferStepBasics == XferAssumption /\ Basics /\ [XferNext]_xferVars => Basics'
<1>. SUFFICES ASSUME XferAssumption, Basics, [XferNext]_xferVars PROVE Basics'
  OBVIOUS
<1>1. CASE Step
  BY <1>1, InspectBasics, DecideBasics, RenameBasics, ReInitializeBasics, GetSizeBasics, FileGetBasics,
     FilePutBasics, ReadBasics, SrcSizeBasics, WriteBasics, CompleteBasics, CountBasics, AfterBasics
  DEF Step
<1>2. CASE AbortXfer \/ UNCHANGED xferVars
  <2>1. /\ UNCHANGED <<kind, size, gone, dst, opened, info_size, file_complete, pos, writer, indicted,
                       broken, breaks, xpc, result>>
        /\ xferAborting' \in BOOLEAN
    BY <1>2 DEF AbortXfer, xferVars, what, Basics, XferTypeOK
  <2>2. XferTypeOK'
    BY <2>1 DEF Basics, XferTypeOK
  <2>. QED
    BY <2>1, <2>2 DEF Basics, WriterFollows, ReaderFollows, DestinationIsThere, SomeoneIsIndicted, AskPiece
<1>. QED  BY <1>1, <1>2 DEF XferNext

\* A connection breaks only once the destination has been opened.
LEMMA BreaksAfterOpening ==
  ASSUME ~FreshBreaks, UntilOpened, NEW h, Works(h) \/ Breaks(h)
  PROVE  /\ Breaks(h) => opened
         /\ ~opened => broken' = {}
BY DEF UntilOpened, Works, Breaks

\* Wherever an error or an abort meets the loop, what is there comes from the source.
LEMMA CloseCopied ==
  ASSUME XferAssumption, Basics, Copied, opened, NEW sent \in Nat, Closed(sent),
         sent > 0 => xpc = "write" /\ sent = pos - file_complete,
         xpc' \in {"ask", "done"}, result' # "copied", result' # "none" => xpc' = "done",
         UNCHANGED <<what, gone>>, xpc \in Copying \/ UNCHANGED info_size
  PROVE  Copied'
<1>. USE SizesAre DEF Basics, Copied
<1>1. /\ writer.pos + writer.piece + sent <= XferTop
      /\ writer.piece + sent > 0 => dst # Absent /\ xpc \in Copying
  <2>1. CASE xpc \in Copying
    <3>1. writer.pos + writer.piece = file_complete /\ dst # Absent
      BY <2>1 DEF WriterFollows, DestinationIsThere
    <3>2. CASE sent > 0
      BY <2>1, <3>1, <3>2
    <3>3. CASE sent = 0
      BY <2>1, <3>1, <3>3
    <3>. QED  BY <3>2, <3>3
  <2>2. CASE xpc \notin Copying
    BY <2>2 DEF WriterFollows, Copying, NoWriter
  <2>. QED  BY <2>1, <2>2
<1>2. /\ dst' = Absent <=> dst = Absent
      /\ writer' = NoWriter /\ opened' = opened
      /\ writer.piece + sent = 0 => dst' = dst
      /\ dst # Absent /\ Len(dst) = writer.pos /\ (\A i \in DOMAIN dst : dst[i] = "src")
              => \A i \in DOMAIN dst' : dst'[i] = "src"
  BY <1>1, WriterCloses
<1>3. dst # Absent /\ \A i \in DOMAIN dst : dst[i] = "src"
  BY DEF DestinationIsThere, AllFromSource
<1>4. \A i \in DOMAIN dst' : dst'[i] = "src"
  <2>1. CASE xpc \in Copying
    BY <1>2, <1>3, <2>1 DEF AllFromSource
  <2>2. CASE xpc \notin Copying
    <3>1. writer.piece + sent = 0
      BY <1>1, <2>2
    <3>. QED  BY <1>2, <1>3, <3>1
  <2>. QED  BY <2>1, <2>2
<1>5. UntilOpened' /\ AllFromSource' /\ ResumesAtLength' /\ EndIsSeen'
  BY <1>2, <1>4 DEF UntilOpened, AllFromSource, ResumesAtLength, EndIsSeen, Copying
<1>6. gone => Faithful'
  <2>. SUFFICES ASSUME gone PROVE Faithful'
    OBVIOUS
  <2>1. Faithful /\ xpc \notin Copying
    BY DEF CompleteBefore, AllFromSource
  <2>2. writer.piece + sent = 0
    BY <1>1, <2>1
  <2>3. dst' = dst /\ info_size' = info_size /\ size' = size
    BY <1>2, <2>1, <2>2 DEF what
  <2>. QED  BY <2>1, <2>3 DEF Faithful
<1>7. CompleteBefore'
  BY <1>6 DEF CompleteBefore
<1>. QED  BY <1>5, <1>7

\* Steps that leave the destination alone.
LEMMA AsideCopied ==
  ASSUME Copied, UNCHANGED <<what, dst, opened, info_size>>,
         UntilOpened', ResumesAtLength', EndIsSeen',
         xpc' \in Copying => xpc \in Copying /\ ~gone' /\ UNCHANGED writer,
         xpc' \in {"fastcount", "times", "delete"} \/ gone' \/ result' = "copied"
           => xpc \in {"fastcount", "times", "delete"} \/ gone \/ result = "copied",
         result' # "none" => xpc' = "done"
  PROVE  Copied'
<1>1. AllFromSource'
  BY DEF Copied, AllFromSource
<1>2. CompleteBefore'
  BY DEF Copied, CompleteBefore, Faithful, what
<1>. QED  BY <1>1, <1>2 DEF Copied

\* What a step of the copy starts from.
Begun == XferAssumption /\ ~FreshBreaks /\ Basics /\ Copied

\* XferFile up to its first open: nothing is read or written, and what the destination
\* holds may still be a file of its own.
LEMMA BeforeCopied == Begun /\ (Inspect \/ Decide \/ Rename) => Copied'
<1>. SUFFICES ASSUME Begun, Inspect \/ Decide \/ Rename PROVE Copied'
  OBVIOUS
<1>. USE SizesAre DEF Begun, Basics, Copied
<1>1. CASE Inspect
  <2>1. ~opened /\ file_complete = 0 /\ ~gone /\ xpc = "inspect" /\ result = "none"
    BY <1>1 DEF Inspect, DestinationIsThere, UntilOpened, CompleteBefore
  <2>2. broken' = {} /\ xpc' \in {"rename", "decide"}
    BY <1>1, <2>1, BreaksAfterOpening DEF Inspect, XferGo
  <2>3. /\ UNCHANGED <<what, dst, opened, info_size, file_complete, gone, result>>
    BY <1>1 DEF Inspect, XferGo
  <2>4. UntilOpened' /\ ResumesAtLength' /\ EndIsSeen'
    BY <2>1, <2>2, <2>3 DEF UntilOpened, ResumesAtLength, EndIsSeen
  <2>. QED  BY <2>1, <2>2, <2>3, <2>4, AsideCopied DEF Copying
<1>2. CASE Decide
  <2>1. ~opened /\ file_complete = 0 /\ ~gone /\ xpc = "decide" /\ result = "none" /\ broken = {}
        /\ dst \in Seq(Units)
    BY <1>2 DEF Decide, DestinationIsThere, UntilOpened, CompleteBefore
  <2>2. /\ xpc' \in {"rename", "done"} /\ result' \in {"none", "skipped"} /\ (result' # "none" => xpc' = "done")
        /\ UNCHANGED <<gone, broken>>
    BY <1>2, <2>1 DEF Decide, Overwrite, Resume, DifferentName, LeaveXfer, XferGo, End
  <2>3. CASE UNCHANGED <<opened, file_complete>>
    BY <2>1, <2>2, <2>3
       DEF UntilOpened, AllFromSource, ResumesAtLength, EndIsSeen, CompleteBefore, Copying
  <2>4. CASE dst' = [i \in DOMAIN dst |-> "src"] /\ file_complete' = Len(dst) /\ opened' = (dst # <<>>)
    <3>1. DOMAIN dst = 1 .. Len(dst) /\ Len(dst) \in Nat /\ (dst = <<>> => Len(dst) = 0)
      BY <2>1
    <3>2. Len(dst') = Len(dst) /\ \A i \in DOMAIN dst' : dst'[i] = "src"
      BY <2>4, <3>1
    <3>3. opened' <=> dst # <<>>
      BY <2>4, Zenon
    <3>. QED
      BY <2>1, <2>2, <2>4, <3>1, <3>2, <3>3
         DEF UntilOpened, AllFromSource, ResumesAtLength, EndIsSeen, CompleteBefore, Copying
  <2>. QED
    BY <1>2, <2>3, <2>4 DEF Decide, Overwrite, Resume, DifferentName, LeaveXfer
<1>3. CASE Rename
  <2>1. xpc = "rename" /\ ~gone /\ result = "none" /\ file_complete = IF opened THEN Len(dst) ELSE 0
    BY <1>3 DEF Rename, ResumesAtLength, CompleteBefore
  <2>2. UNCHANGED <<what, opened, info_size, file_complete>>
    BY <1>3 DEF Rename
  <2>3. /\ ~opened => broken' = {}
        /\ Breaks("base") => opened
    BY <1>3, BreaksAfterOpening DEF Rename
  <2>4. CASE UNCHANGED <<gone, dst>> /\ XferGo("get")
    <3>1. UntilOpened' /\ ResumesAtLength' /\ EndIsSeen'
      BY <2>1, <2>2, <2>3, <2>4 DEF UntilOpened, ResumesAtLength, EndIsSeen, XferGo
    <3>. QED  BY <2>1, <2>2, <2>4, <3>1, AsideCopied DEF XferGo, Copying
  <2>5. CASE /\ gone' = TRUE /\ dst' = [i \in 1 .. size |-> "src"]
             /\ End("renamed") \/ (Breaks("base") /\ XferGo("get"))
    <3>1. DOMAIN dst' = 1 .. size /\ Len(dst') = size /\ dst' \in Seq(Units)
      BY <2>5 DEF Units
    <3>2. dst' # Absent
      BY <3>1, NotAbsent
    <3>3. Min({info_size, size}) <= size
      <4>1. info_size \in Nat /\ size \in Nat
        OBVIOUS
      <4>2. Min({info_size, size}) = IF info_size <= size THEN info_size ELSE size
        BY ONLY <4>1, MaxOfTwo
      <4>. QED  BY <4>1, <4>2
    <3>4. \A i \in DOMAIN dst' : dst'[i] = "src"
      BY <2>5, <3>1
    <3>5. Faithful'
      BY <2>2, <3>1, <3>2, <3>3, <3>4 DEF Faithful, what
    <3>6. xpc' \in {"done", "get"} /\ (xpc' = "get" => opened) /\ (result' # "none" => xpc' = "done")
      BY <2>1, <2>3, <2>5 DEF End, XferGo
    <3>7. UntilOpened' /\ AllFromSource' /\ ResumesAtLength' /\ EndIsSeen'
      BY <2>1, <2>2, <2>3, <2>5, <3>4, <3>6 DEF UntilOpened, AllFromSource, ResumesAtLength, EndIsSeen, Copying
    <3>. QED  BY <3>5, <3>6, <3>7 DEF CompleteBefore
  <2>. QED  BY <1>3, <2>4, <2>5 DEF Rename
<1>. QED  BY <1>1, <1>2, <1>3

\* FileCopyLoop's catch leaves what was copied.
LEMMA ThrowCopied ==
  ASSUME XferAssumption, Basics, Copied, opened, Throw, result = "none",
         UNCHANGED <<what, gone, info_size>>
  PROVE  Copied'
<1>1. Closed(0) /\ xpc' = "ask" /\ result' = "none"
  BY DEF Throw, XferGo
<1>2. 0 \in Nat /\ (0 > 0 => xpc = "write" /\ 0 = pos - file_complete)
  OBVIOUS
<1>3. /\ xpc' \in {"ask", "done"} /\ result' # "copied" /\ (result' # "none" => xpc' = "done")
      /\ UNCHANGED <<what, gone>> /\ (xpc \in Copying \/ UNCHANGED info_size)
  BY <1>1
<1>. QED  BY ONLY <1>1, <1>2, <1>3, XferAssumption, Basics, Copied, opened, CloseCopied

\* Connecting again, and opening both ends.
LEMMA OpenCopied == Begun /\ (XferReInitialize \/ GetSize \/ FileGet \/ FilePut) => Copied'
<1>. SUFFICES ASSUME Begun, XferReInitialize \/ GetSize \/ FileGet \/ FilePut PROVE Copied'
  OBVIOUS
<1>. USE SizesAre DEF Begun, Basics, Copied
<1>0. result = "none" /\ xpc \in {"reinit", "getsize", "get", "put"}
  BY DEF XferReInitialize, GetSize, FileGet, FilePut, CompleteBefore
<1>1. CASE XferReInitialize
  <2>1. xpc = "reinit" /\ opened /\ UNCHANGED <<what, gone, info_size, file_complete>>
    BY <1>1 DEF XferReInitialize, UntilOpened
  <2>2. CASE Throw
    BY <1>0, <2>1, <2>2, ThrowCopied
  <2>3. CASE XferGo("getsize") /\ UNCHANGED <<dst, opened, writer>>
    <3>1. UntilOpened' /\ ResumesAtLength' /\ EndIsSeen'
      BY <2>1, <2>3 DEF UntilOpened, ResumesAtLength, EndIsSeen, XferGo
    <3>. QED  BY <1>0, <2>1, <2>3, <3>1, AsideCopied DEF XferGo, Copying
  <2>. QED  BY <1>1, <2>2, <2>3 DEF XferReInitialize
<1>2. CASE GetSize
  <2>1. xpc = "getsize" /\ opened /\ UNCHANGED <<what, gone, info_size>>
    BY <1>2 DEF GetSize, UntilOpened
  <2>2. CASE Throw
    BY <1>0, <2>1, <2>2, ThrowCopied
  <2>4. CASE Closed(0) /\ End("aborted")
    <3>1. /\ xpc' \in {"ask", "done"} /\ result' # "copied" /\ (result' # "none" => xpc' = "done")
          /\ UNCHANGED <<what, gone>> /\ (xpc \in Copying \/ UNCHANGED info_size)
          /\ 0 \in Nat /\ (0 > 0 => xpc = "write" /\ 0 = pos - file_complete)
      BY <2>1, <2>4 DEF End
    <3>. QED  BY ONLY <2>1, <2>4, <3>1, XferAssumption, Basics, Copied, CloseCopied
  <2>3. CASE XferGo("get") /\ file_complete' = Len(dst) /\ UNCHANGED <<dst, opened, writer>>
    <3>1. UntilOpened' /\ ResumesAtLength' /\ EndIsSeen'
      BY <2>1, <2>3 DEF UntilOpened, ResumesAtLength, EndIsSeen, XferGo
    <3>. QED  BY <1>0, <2>1, <2>3, <3>1, AsideCopied DEF XferGo, Copying
  <2>. QED  BY <1>2, <2>2, <2>3, <2>4 DEF GetSize, Abortable
<1>3. CASE FileGet
  <2>1. xpc = "get" /\ UNCHANGED <<what, gone, info_size, file_complete>>
    BY <1>3 DEF FileGet
  <2>2. (Breaks("base") => opened) /\ (~opened => broken' = {}) /\ (gone => opened)
    BY <1>3, <2>1, BreaksAfterOpening DEF FileGet, UntilOpened
  <2>3. CASE (Breaks("base") \/ gone) /\ Throw
    <3>1. opened
      BY <2>2, <2>3
    <3>. QED  BY <1>0, <2>1, <2>3, <3>1, ThrowCopied
  <2>4. CASE XferGo("put") /\ ~gone /\ UNCHANGED <<dst, opened, writer>>
    <3>1. UntilOpened' /\ ResumesAtLength' /\ EndIsSeen'
      BY <2>1, <2>2, <2>4 DEF UntilOpened, ResumesAtLength, EndIsSeen, XferGo
    <3>. QED  BY <1>0, <2>1, <2>4, <3>1, AsideCopied DEF XferGo, Copying
  <2>. QED  BY <1>3, <2>3, <2>4 DEF FileGet
<1>4. CASE FilePut
  <2>1. /\ xpc = "put" /\ UNCHANGED <<what, gone, info_size, file_complete>> /\ ~gone
        /\ file_complete = IF opened THEN Len(dst) ELSE 0
    BY <1>4 DEF FilePut, ResumesAtLength
  <2>2. CASE Breaks("dst") /\ Throw
    <3>1. opened
      BY <2>2, BreaksAfterOpening
    <3>. QED  BY <1>0, <2>1, <2>2, <3>1, ThrowCopied
  <2>3. CASE /\ dst' = IF file_complete = 0 THEN <<>> ELSE dst
             /\ opened' = TRUE /\ writer' = [NoWriter EXCEPT !.pos = file_complete] /\ XferGo("read")
    <3>1. writer'.pos = file_complete /\ xpc' = "read" /\ result' = "none"
      BY <1>0, <2>3 DEF NoWriter, XferGo
    <3>2. Len(dst') = file_complete /\ \A i \in DOMAIN dst' : dst'[i] = "src"
      <4>1. CASE file_complete = 0
        BY <2>3, <4>1
      <4>2. CASE file_complete # 0
        BY <2>1, <2>3, <4>2 DEF AllFromSource
      <4>. QED  BY <4>1, <4>2
    <3>. QED
      BY <2>1, <2>3, <3>1, <3>2 DEF UntilOpened, AllFromSource, ResumesAtLength, EndIsSeen, CompleteBefore
  <2>. QED  BY <1>4, <2>2, <2>3 DEF FilePut
<1>. QED  BY <1>1, <1>2, <1>3, <1>4

\* How far the destination must reach is never more than the source has.
LEMMA Enough ==
  ASSUME XferAssumption, XferTypeOK, NEW n \in Nat,
         n >= size \/ (ShortReads /\ n = info_size)
  PROVE  n >= IF ShortReads THEN Min({info_size, size}) ELSE size
<1>1. info_size \in Nat /\ size \in Nat
  BY SizesAre
<1>2. Min({info_size, size}) = IF info_size <= size THEN info_size ELSE size
  BY <1>1, MaxOfTwo
<1>. QED  BY <1>1, <1>2

\* Reading and writing: the end is not taken for seen before it is.
LEMMA LoopCopied == Begun /\ (Read \/ SrcSize \/ Write) => Copied'
<1>. SUFFICES ASSUME Begun, Read \/ SrcSize \/ Write PROVE Copied'
  OBVIOUS
<1>. USE SizesAre DEF Begun, Basics, Copied
<1>0. /\ xpc \in {"read", "srcsize", "write"} /\ xpc \in Copying /\ result = "none"
      /\ opened /\ ~gone /\ UNCHANGED <<what, gone>>
  BY DEF Read, SrcSize, Write, AllFromSource, CompleteBefore, Copying
<1>1. CASE Throw
  BY <1>0, <1>1, CloseCopied DEF Throw, XferGo
<1>2. ASSUME xpc = "read", NEW piece \in Readable(AskPiece),
             pos' = pos + piece, UNCHANGED <<dst, opened, writer, info_size, file_complete>>,
             XferGo(IF piece > 0 THEN "write" ELSE IF file_complete < info_size THEN "srcsize" ELSE "complete")
      PROVE  Copied'
  <2>1. piece \in Nat /\ (piece = 0 => size <= pos)
    BY <1>2, PieceIs, ReadableIs, SMTT(30)
  <2>2. pos = file_complete
    BY <1>2 DEF ReaderFollows
  <2>3. xpc' \in {"write", "srcsize", "complete"} /\ (xpc' = "complete" => piece = 0) /\ result' = "none"
    BY <1>0, <1>2, <2>1 DEF XferGo
  <2>4. UntilOpened' /\ ResumesAtLength' /\ EndIsSeen'
    BY <1>0, <1>2, <2>1, <2>2, <2>3 DEF UntilOpened, ResumesAtLength, EndIsSeen, what
  <2>. QED  BY <1>0, <1>2, <2>3, <2>4, AsideCopied
<1>3. ASSUME xpc = "srcsize", ~ (file_complete < size), XferGo("complete"),
             UNCHANGED <<dst, opened, writer, file_complete>>
      PROVE  Copied'
  BY <1>0, <1>3
     DEF UntilOpened, AllFromSource, ResumesAtLength, EndIsSeen, CompleteBefore, XferGo, Copying, what
<1>4. ASSUME xpc = "write", Closed(pos - file_complete), XferGo("ask"), UNCHANGED info_size
      PROVE  Copied'
  <2>1. pos - file_complete \in Nat
    BY <1>4 DEF ReaderFollows
  <2>. QED  BY <1>0, <1>4, <2>1, CloseCopied DEF XferGo
<1>5. ASSUME xpc = "write", Reported, file_complete' = pos, UNCHANGED info_size,
             writer' = [pos |-> writer.pos + writer.piece, piece |-> pos - file_complete],
             XferGo(IF pos - file_complete < AskPiece /\ pos = info_size THEN "fast" ELSE "count")
      PROVE  Copied'
  <2>1. /\ opened' = opened /\ Len(dst') = file_complete
        /\ \A i \in DOMAIN dst' : dst'[i] = "src"
    <3>1. Len(dst) = writer.pos /\ (\A i \in DOMAIN dst : dst[i] = "src")
      BY <1>0 DEF AllFromSource
    <3>. QED  BY <1>0, <1>5, <3>1, ReportLengthens
  <2>2. writer'.pos = file_complete
    BY <1>0, <1>5 DEF WriterFollows
  <2>3. /\ xpc' \in {"fast", "count"} /\ result' = "none"
        /\ xpc' = "fast" => pos - file_complete < AskPiece /\ pos = info_size
    BY <1>0, <1>5 DEF XferGo
  <2>4. EndIsSeen'
    BY <1>0, <1>5, <2>3 DEF EndIsSeen, ReaderFollows, what
  <2>. QED
    BY <1>0, <2>1, <2>2, <2>3, <2>4 DEF UntilOpened, AllFromSource, ResumesAtLength, CompleteBefore
<1>6. CASE Read
  BY <1>1, <1>2, <1>6 DEF Read
<1>7. CASE SrcSize
  BY <1>1, <1>3, <1>7 DEF SrcSize
<1>8. CASE Write
  BY <1>4, <1>5, <1>8 DEF Write
<1>. QED  BY <1>6, <1>7, <1>8

\* The end of the loop: what is reported then is as much as there is of the source.
LEMMA EndCopied == Begun /\ (XferWriteComplete \/ Count) => Copied'
<1>. SUFFICES ASSUME Begun, XferWriteComplete \/ Count PROVE Copied'
  OBVIOUS
<1>. USE SizesAre DEF Begun, Basics, Copied
<1>0. /\ xpc \in {"complete", "fast", "count", "fastcount"} /\ result = "none" /\ opened
      /\ UNCHANGED <<what, gone, info_size, file_complete>>
  BY DEF XferWriteComplete, Complete, Reported, Count, Abortable, UntilOpened, CompleteBefore
<1>1. CASE Closed(0) /\ (XferGo("ask") \/ End("aborted"))
  BY <1>0, <1>1, CloseCopied DEF XferGo, End
<1>2. ASSUME xpc \in {"complete", "fast"}, Reported, writer' = NoWriter, XferGo("times") \/ XferGo("fastcount")
      PROVE  Copied'
  <2>1. /\ opened' = opened /\ Len(dst') = file_complete /\ dst' # Absent
        /\ \A i \in DOMAIN dst' : dst'[i] = "src"
    <3>1. Len(dst) = writer.pos /\ (\A i \in DOMAIN dst : dst[i] = "src") /\ xpc \in Copying
      BY <1>2 DEF AllFromSource, Copying
    <3>. QED  BY <1>2, <3>1, ReportLengthens
  <2>2. file_complete \in Nat /\ (file_complete >= size \/ (ShortReads /\ file_complete = info_size))
    BY <1>2 DEF EndIsSeen
  <2>3. file_complete >= IF ShortReads THEN Min({info_size, size}) ELSE size
    BY <2>2, Enough
  <2>4. Faithful'
    BY <1>0, <2>1, <2>3 DEF Faithful, what
  <2>. QED
    BY <1>0, <1>2, <2>1, <2>4
       DEF UntilOpened, AllFromSource, ResumesAtLength, EndIsSeen, CompleteBefore, XferGo, Copying
<1>3. ASSUME xpc \in {"count", "fastcount"}, XferGo(IF xpc = "count" THEN "read" ELSE "times"),
             UNCHANGED <<dst, opened, writer>>
      PROVE  Copied'
  <2>1. UntilOpened' /\ ResumesAtLength' /\ EndIsSeen'
    BY <1>0, <1>3 DEF UntilOpened, ResumesAtLength, EndIsSeen, XferGo
  <2>2. xpc' = "read" => ~gone' /\ xpc \in Copying
    BY <1>0, <1>3 DEF AllFromSource, XferGo, Copying
  <2>. QED  BY <1>0, <1>3, <2>1, <2>2, AsideCopied DEF XferGo, Copying
<1>4. CASE XferWriteComplete
  BY <1>1, <1>2, <1>4 DEF XferWriteComplete, Complete, Throw
<1>5. CASE Count
  BY <1>1, <1>3, <1>5 DEF Count, Abortable
<1>. QED  BY <1>4, <1>5

\* The user's answers, the attributes, and the source, which goes last.
LEMMA AfterCopied == Begun /\ (AskUser \/ CopyAttributes \/ FileDelete) => Copied'
<1>. SUFFICES ASSUME Begun, AskUser \/ CopyAttributes \/ FileDelete PROVE Copied'
  OBVIOUS
<1>. USE DEF Begun, Basics, Copied
<1>1. /\ xpc \in {"ask", "times", "delete"} /\ result = "none" /\ opened
      /\ UNCHANGED <<what, dst, opened, info_size, file_complete, writer>>
  BY DEF AskUser, CopyAttributes, FileDelete, UntilOpened, CompleteBefore
<1>2. /\ xpc' \in {"reinit", "times", "delete", "done"}
      /\ xpc' \in {"times", "delete"} => xpc \in {"times", "delete"}
      /\ result' # "none" => xpc' = "done"
      /\ gone' \/ result' = "copied" => xpc \in {"times", "delete"} \/ gone
  BY <1>1 DEF AskUser, CopyAttributes, FileDelete, Wrapped, XferGo, End
<1>3. UntilOpened' /\ ResumesAtLength' /\ EndIsSeen'
  BY <1>1, <1>2 DEF UntilOpened, ResumesAtLength, EndIsSeen
<1>. QED  BY <1>1, <1>2, <1>3, AsideCopied DEF Copying

\* Before a copy has begun nothing is claimed of the destination but what it is.
LEMMA XferInitCopied == XferAssumption /\ XferInit => Copied
BY DEF XferInit, Copied, UntilOpened, AllFromSource, ResumesAtLength, EndIsSeen, CompleteBefore, Copying

\* FileCopyLoop and its retries: whatever breaks once it is open, the destination stays a
\* start of the source.
LEMMA XferStepCopied == Begun /\ [XferNext]_xferVars => Copied'
<1>. SUFFICES ASSUME Begun, [XferNext]_xferVars PROVE Copied'
  OBVIOUS
<1>1. CASE Step
  BY <1>1, BeforeCopied, OpenCopied, LoopCopied, EndCopied, AfterCopied DEF Step
<1>2. CASE AbortXfer \/ UNCHANGED xferVars
  <2>1. UNCHANGED <<kind, size, gone, dst, opened, info_size, file_complete, pos, writer, broken, xpc, result>>
    BY <1>2 DEF AbortXfer, xferVars, what
  <2>. QED
    BY <2>1 DEF Begun, Copied, UntilOpened, AllFromSource, ResumesAtLength, EndIsSeen, CompleteBefore, Faithful
<1>. QED  BY <1>1, <1>2 DEF XferNext

\* ResumesAtTheEnd and NothingLost are what the loop is for.
LEMMA CopiedIsSound == Basics /\ Copied => CopyIsSound
<1>. SUFFICES ASSUME Basics, Copied PROVE CopyIsSound
  OBVIOUS
<1>1. ResumesAtTheEnd
  <2>. SUFFICES ASSUME xpc \in {"read", "srcsize", "write", "complete", "count"} PROVE
       /\ writer.pos + writer.piece = file_complete
       /\ Len(dst) >= writer.pos /\ \A i \in 1 .. writer.pos : dst[i] = "src"
    BY DEF ResumesAtTheEnd
  <2>1. writer.pos + writer.piece = file_complete /\ dst # Absent
    BY DEF Basics, WriterFollows, DestinationIsThere, Copying
  <2>2. Len(dst) = writer.pos /\ (\A i \in DOMAIN dst : dst[i] = "src") /\ dst \in Seq({"src", "own"})
    BY <2>1 DEF Basics, XferTypeOK, Copied, AllFromSource, Copying
  <2>. QED  BY <2>1, <2>2
<1>2. NothingLost
  BY DEF Copied, CompleteBefore, NothingLost
<1>. QED  BY <1>1, <1>2 DEF CopyIsSound

\* FileCopyLoop keeps the numbers it resumes from within the sizes there are, whatever
\* breaks.
THEOREM XferTypeCorrect == XferSpec => []XferTypeOK
<1>1. Basics => XferTypeOK
  BY DEF Basics
<1>. QED  BY <1>1, XferInitBasics, XferStepBasics, XferAssumption, PTL DEF XferSpec

\* OpXfer.cpp: a copy that is resumed goes on at the end of what has come, and a file that
\* is reported as copied, or whose source has been deleted, is there as a whole.
THEOREM CopySound ==
  ASSUME ~FreshBreaks
  PROVE  XferSpec => []CopyIsSound
<1>1. XferAssumption /\ XferInit => Basics /\ Copied
  BY XferInitBasics, XferInitCopied
<1>2. Basics /\ Copied /\ [XferNext]_xferVars => Basics' /\ Copied'
  BY XferStepBasics, XferStepCopied, XferAssumption DEF Begun
<1>. QED  BY <1>1, <1>2, CopiedIsSound, XferAssumption, PTL DEF XferSpec

-----------------------------------------------------------------------------
(* The task and the main thread's frames                                   *)

\* A frame of F is in m
Has(m, F) == \E i \in 1 .. Len(m) : m[i] \in F

\* How the main thread's frames can lie on each other: a dialog of the progress only over
\* what waits for it, and each of the things there is one of only once
Stacked(m) ==
  /\ m \in Seq(Frames) /\ Len(m) > 0
  /\ \A i \in 1 .. Len(m) :
       /\ m[i] = "panels" <=> i = 1
       /\ m[i] \in {"xfer", "exiting", "exit", "gone"} => i = 2
       /\ m[i] \in {"wait", "progress"} => m[i - 1] \in {"xfer", "show"}
       /\ m[i] \in {"confirm", "aborting"} => m[i - 1] = "progress"
  /\ \A i, j \in 1 .. Len(m) :
       /\ m[i] \in {"xfer", "show"} /\ m[j] \in {"xfer", "show"} => i = j
       /\ m[i] \in Asks /\ m[j] \in Asks => i = j

\* What frames m are about, when the transfer's thread is at o and is a task or not
FramesTell(m, o, t) ==
  \A i \in 1 .. Len(m) :
    /\ m[i] \in Asks => o = m[i]
    /\ m[i] = "xfer" => o # "none" /\ ~t
    /\ m[i] = "show" => t

\* A pause is the user's, or was before the question about the abort
PauseIsKept ==
  /\ op # "none" => (IF Has(main, {"confirm"}) THEN saved ELSE paused) = wanted
  /\ op = "start" => ~wanted

TaskIInv ==
  TaskTypeOK /\ Stacked(main) /\ FramesTell(main, op, task) /\ (task => op # "none") /\ PauseIsKept

\* What there is one of at a time: the dialogs of the transfer, and those it asks for.
OfTransfer == {"xfer", "show", "wait", "progress", "confirm", "aborting"}

\* A frame that is shown over the last one.
LEMMA PushKeeps ==
  ASSUME NEW m, Stacked(m), NEW x \in Frames \ {"panels"},
         x \in {"xfer", "exiting", "exit", "gone"} => Len(m) = 1,
         x \in {"wait", "progress"} => Last(m) \in {"xfer", "show"},
         x \in {"confirm", "aborting"} => Last(m) = "progress",
         x \in {"xfer", "show"} => ~Has(m, {"xfer", "show"}),
         x \in Asks => ~Has(m, Asks)
  PROVE  /\ Stacked(Append(m, x))
         /\ Len(Append(m, x)) = Len(m) + 1 /\ Last(Append(m, x)) = x
         /\ \A i \in 1 .. Len(m) : Append(m, x)[i] = m[i]
         /\ \A F : Has(Append(m, x), F) <=> Has(m, F) \/ x \in F
<1>1. m \in Seq(Frames) /\ Len(m) \in Nat /\ Len(m) > 0 /\ x \in Frames
  BY DEF Stacked
<1>2. PICK p : p = Append(m, x)
  OBVIOUS
<1>3. /\ p \in Seq(Frames) /\ Len(p) = Len(m) + 1 /\ p[Len(m) + 1] = x
      /\ \A i \in 1 .. Len(m) : p[i] = m[i]
  BY ONLY <1>1, <1>2
<1>4. Last(m) = m[Len(m)] /\ Last(p) = p[Len(p)]
  BY DEF Last
<1>5. ASSUME NEW i \in 1 .. Len(p)
      PROVE  /\ p[i] = "panels" <=> i = 1
             /\ p[i] \in {"xfer", "exiting", "exit", "gone"} => i = 2
             /\ p[i] \in {"wait", "progress"} => p[i - 1] \in {"xfer", "show"}
             /\ p[i] \in {"confirm", "aborting"} => p[i - 1] = "progress"
  <2>1. CASE i = Len(m) + 1
    BY <1>1, <1>3, <1>4, <2>1
  <2>2. CASE i # Len(m) + 1
    <3>1. i \in 1 .. Len(m)
      BY <1>1, <1>3, <2>2
    <3>2. i # 1 => i - 1 \in 1 .. Len(m)
      BY <1>1, <3>1
    <3>3. m[i] = "panels" <=> i = 1
      BY <3>1 DEF Stacked
    <3>. QED  BY <1>3, <3>1, <3>2, <3>3 DEF Stacked
  <2>. QED  BY <2>1, <2>2
<1>6. ASSUME NEW i \in 1 .. Len(p), NEW j \in 1 .. Len(p)
      PROVE  /\ p[i] \in {"xfer", "show"} /\ p[j] \in {"xfer", "show"} => i = j
             /\ p[i] \in Asks /\ p[j] \in Asks => i = j
  <2>1. \A k \in 1 .. Len(p) : k = Len(m) + 1 \/ k \in 1 .. Len(m)
    BY <1>1, <1>3
  <2>2. \A k \in 1 .. Len(m) : /\ x \in {"xfer", "show"} => m[k] \notin {"xfer", "show"}
                               /\ x \in Asks => m[k] \notin Asks
    BY DEF Has
  <2>3. CASE i \in 1 .. Len(m) /\ j \in 1 .. Len(m)
    BY <1>3, <2>3 DEF Stacked
  <2>. QED  BY <1>3, <2>1, <2>2, <2>3
<1>7. Stacked(p)
  BY <1>1, <1>3, <1>5, <1>6 DEF Stacked
<1>8. ASSUME NEW F PROVE Has(p, F) <=> Has(m, F) \/ x \in F
  <2>1. \A k \in 1 .. Len(p) : k = Len(m) + 1 \/ k \in 1 .. Len(m)
    BY <1>1, <1>3
  <2>2. Len(m) + 1 \in 1 .. Len(p) /\ \A k \in 1 .. Len(m) : k \in 1 .. Len(p)
    BY <1>1, <1>3
  <2>. QED  BY <1>3, <2>1, <2>2 DEF Has
<1>. QED  BY <1>2, <1>3, <1>4, <1>7, <1>8

\* The last frame is left.
LEMMA PopKeeps ==
  ASSUME NEW m, Stacked(m), Last(m) # "panels"
  PROVE  /\ Stacked(Front(m)) /\ Len(m) > 1 /\ Len(Front(m)) = Len(m) - 1
         /\ \A i \in 1 .. Len(m) - 1 : Front(m)[i] = m[i]
         /\ \A F : Has(m, F) <=> Has(Front(m), F) \/ Last(m) \in F
         /\ Last(m) \in {"xfer", "show"} => ~Has(Front(m), OfTransfer)
         /\ Last(m) \in {"wait", "progress"} => Last(Front(m)) \in {"xfer", "show"}
         /\ Last(m) \in {"confirm", "aborting"} => Last(Front(m)) = "progress" 
         /\ Last(m) \in {"wait", "progress", "confirm", "aborting"} => ~Has(Front(m), {"confirm", "aborting"})
         /\ Last(m) \in Asks => ~Has(Front(m), Asks)
         /\ Last(m) \in {"exiting", "exit"} => Len(m) = 2
<1>1. /\ m \in Seq(Frames) /\ Len(m) \in Nat /\ Len(m) > 0
      /\ m[Len(m)] = Last(m) /\ m[1] = "panels" /\ Len(m) # 1
  BY DEF Stacked, Last
<1>2. PICK p : p = Front(m)
  OBVIOUS
<1>3. p \in Seq(Frames) /\ Len(p) = Len(m) - 1 /\ \A i \in 1 .. Len(m) - 1 : p[i] = m[i]
  BY <1>1, <1>2 DEF Front
<1>4. Stacked(p)
  <2>1. Len(p) > 0 /\ \A i \in 1 .. Len(p) : i \in 1 .. Len(m) /\ p[i] = m[i] /\ (i # 1 => i - 1 \in 1 .. Len(p))
    BY <1>1, <1>3
  <2>2. \A i \in 1 .. Len(p) : p[i] = "panels" <=> i = 1
    BY <2>1 DEF Stacked
  <2>3. \A i \in 1 .. Len(p) : i # 1 => p[i - 1] = m[i - 1]
    BY <2>1
  <2>. QED  BY <1>3, <2>1, <2>2, <2>3 DEF Stacked
<1>5. /\ \A k \in 1 .. Len(m) : k = Len(m) \/ k \in 1 .. Len(p)
      /\ Len(m) \in 1 .. Len(m) /\ \A k \in 1 .. Len(p) : k \in 1 .. Len(m) /\ k # Len(m)
      /\ Len(m) - 1 = Len(p) /\ Len(p) \in 1 .. Len(p)
  BY <1>1, <1>3
<1>6. \A F : Has(m, F) <=> Has(p, F) \/ Last(m) \in F
  BY <1>1, <1>3, <1>5 DEF Has
<1>7. /\ Last(m) \in {"wait", "progress"} => p[Len(p)] \in {"xfer", "show"}
      /\ Last(m) \in {"confirm", "aborting"} => p[Len(p)] = "progress"
  BY <1>1, <1>3, <1>5 DEF Stacked
<1>8. ASSUME NEW a \in {"xfer", "show"}, NEW j \in 1 .. Len(m), m[j] = a, NEW i \in 1 .. Len(m)
      PROVE  /\ m[i] \in {"wait", "progress"} => i = j + 1
             /\ m[i] \in {"confirm", "aborting"} => i = j + 2
  <2>1. ASSUME NEW k \in 1 .. Len(m), m[k] \in {"wait", "progress"} PROVE k = j + 1
    <3>1. k # 1
      BY <1>1, <2>1
    <3>2. k - 1 \in 1 .. Len(m) /\ m[k - 1] \in {"xfer", "show"}
      BY <2>1, <3>1 DEF Stacked
    <3>3. k - 1 = j
      BY <1>8, <3>2 DEF Stacked
    <3>. QED  BY <3>3
  <2>2. ASSUME m[i] \in {"confirm", "aborting"} PROVE i = j + 2
    <3>1. i # 1
      BY <1>1, <2>2
    <3>2. i - 1 \in 1 .. Len(m) /\ m[i - 1] = "progress"
      BY <2>2, <3>1 DEF Stacked
    <3>3. i - 1 = j + 1
      BY <2>1, <3>2
    <3>. QED  BY <3>3
  <2>. QED  BY <2>1, <2>2
<1>9. Last(m) \in {"xfer", "show"} => ~Has(p, OfTransfer)
  <2>. SUFFICES ASSUME Last(m) \in {"xfer", "show"}, NEW i \in 1 .. Len(p), p[i] \in OfTransfer PROVE FALSE
    BY DEF Has
  <2>1. i \in 1 .. Len(m) /\ i < Len(m) /\ m[i] \in OfTransfer
    BY <1>1, <1>3, <1>5
  <2>2. CASE m[i] \in {"xfer", "show"}
    BY <1>1, <1>5, <2>1, <2>2 DEF Stacked
  <2>3. CASE m[i] \notin {"xfer", "show"}
    <3>1. i = Len(m) + 1 \/ i = Len(m) + 2
      BY <1>1, <1>5, <1>8, <2>1, <2>3 DEF OfTransfer
    <3>. QED  BY <1>1, <2>1, <3>1
  <2>. QED  BY <2>2, <2>3
<1>10. Last(m) \in {"wait", "progress", "confirm", "aborting"} => ~Has(p, {"confirm", "aborting"})
  <2>. SUFFICES ASSUME Last(m) \in {"wait", "progress", "confirm", "aborting"},
                       NEW i \in 1 .. Len(p), p[i] \in {"confirm", "aborting"} PROVE FALSE
    BY DEF Has
  <2>1. i \in 1 .. Len(m) /\ i < Len(m) /\ m[i] \in {"confirm", "aborting"}
    BY <1>1, <1>3, <1>5
  <2>2. i # 1 /\ i - 1 \in 1 .. Len(m) /\ m[i - 1] = "progress"
    BY <1>1, <2>1 DEF Stacked
  <2>3. i - 1 # 1 /\ i - 2 \in 1 .. Len(m) /\ m[(i - 1) - 1] \in {"xfer", "show"}
    BY <1>1, <2>2 DEF Stacked
  <2>4. m[i - 2] \in {"xfer", "show"}
    BY <2>1, <2>3
  <2>5. Len(m) = (i - 2) + 1 \/ Len(m) = (i - 2) + 2
    BY <1>1, <1>5, <1>8, <2>3, <2>4
  <2>. QED  BY <1>1, <2>1, <2>5
<1>11. Last(m) \in Asks => ~Has(p, Asks)
  BY <1>1, <1>3, <1>5 DEF Stacked, Has
<1>12. Last(m) \in {"exiting", "exit"} => Len(m) = 2
  BY <1>1, <1>5 DEF Stacked
<1>13. Last(p) = p[Len(p)]
  BY DEF Last
<1>. HIDE DEF Has, Stacked, Last, OfTransfer
<1>. QED
  BY <1>1, <1>2, <1>3, <1>4, <1>6, <1>7, <1>9, <1>10, <1>11, <1>12, <1>13

\* What is told of a frame by what it is pushed over, popped from or left under.
LEMMA TellPushed ==
  ASSUME NEW m, Stacked(m), NEW o, NEW t, FramesTell(m, o, t), NEW x \in Frames,
         x \in Asks => o = x, x = "xfer" => o # "none" /\ ~t, x = "show" => t
  PROVE  FramesTell(Append(m, x), o, t)
<1>1. m \in Seq(Frames)
  BY DEF Stacked
<1>2. PICK p : p = Append(m, x)
  OBVIOUS
<1>3. \A i \in 1 .. Len(p) : p[i] = x \/ (i \in 1 .. Len(m) /\ p[i] = m[i])
  BY ONLY <1>1, <1>2
<1>4. FramesTell(p, o, t)
  BY <1>3 DEF FramesTell
<1>. QED  BY <1>2, <1>4

\* A dialog that closes takes nothing from what the others tell of the transfer.
LEMMA TellPopped ==
  ASSUME NEW m, Stacked(m), Last(m) # "panels", NEW o, NEW t, FramesTell(m, o, t)
  PROVE  FramesTell(Front(m), o, t)
<1>1. PICK p : p = Front(m)
  OBVIOUS
<1>2. Len(p) = Len(m) - 1 /\ Len(m) \in Nat /\ \A i \in 1 .. Len(m) - 1 : p[i] = m[i]
  BY <1>1, PopKeeps DEF Stacked
<1>3. FramesTell(p, o, t)
  BY <1>2 DEF FramesTell
<1>. QED  BY <1>1, <1>3

\* The frames tell as much of another transfer, as long as it is what they need it to be.
LEMMA TellOther ==
  ASSUME NEW m, NEW o, NEW t, FramesTell(m, o, t), NEW o2, NEW t2,
         Has(m, Asks) => o2 = o,
         Has(m, {"xfer"}) => o2 # "none" /\ ~t2,
         Has(m, {"show"}) => t2
  PROVE  FramesTell(m, o2, t2)
BY DEF FramesTell, Has

\* The transfer's frames are there as long as there is a transfer.
LEMMA NoneOfTransfer ==
  ASSUME Stacked(main), FramesTell(main, op, task), task => op # "none", op = "none"
  PROVE  ~Has(main, OfTransfer \cup Asks)
<1>0. main[1] = "panels" /\ \A i \in 1 .. Len(main) : i # 1 => i - 1 \in 1 .. Len(main)
  BY DEF Stacked
<1>1. \A i \in 1 .. Len(main) : main[i] \notin Asks \cup {"xfer", "show"}
  BY DEF FramesTell, Asks
<1>2. \A i \in 1 .. Len(main) : main[i] \notin {"wait", "progress"}
  BY <1>0, <1>1 DEF Stacked
<1>3. \A i \in 1 .. Len(main) : main[i] \notin {"confirm", "aborting"}
  BY <1>0, <1>2 DEF Stacked
<1>. QED  BY <1>1, <1>2, <1>3 DEF Has, OfTransfer

\* The last frame is one of the main thread's frames.
LEMMA TopIsLast ==
  ASSUME Stacked(main)
  PROVE  /\ MainTop = Last(main) /\ MainTop \in Frames /\ main \in Seq(Frames)
         /\ \A F : MainTop \in F => Has(main, F)
         /\ MainTop = "panels" => Len(main) = 1
         /\ Len(main) \in Nat /\ Len(main) > 0
BY DEF MainTop, Last, Stacked, Has

\* Steps of the transfer's thread and of the server; the frames stay.
LEMMA ThreadKeeps ==
  ASSUME NetRocksTaskAssumption, TaskIInv, ThreadStep \/ ServerStep
  PROVE  TaskIInv'
<1>. USE DEF TaskIInv
<1>1. /\ op \notin Asks \cup {"none"} /\ op' \in TaskPlaces \ {"none", "start"}
      /\ UNCHANGED <<saved, wanted, task, main>>
      /\ {copying', paused', aborting', finished', cut'} \subseteq BOOLEAN
  <2>1. CASE ThreadStep
    BY <2>1 DEF ThreadStep, Thread, ResetProgressState, CheckState, Broken, Connect, Finish, TaskRefused, Go,
                TaskTypeOK, TaskPlaces, Asks, state
  <2>2. CASE ServerStep
    BY <2>2 DEF ServerStep, Server, TaskRefused, Go, TaskTypeOK, TaskPlaces, Asks, state
  <2>. QED  BY <2>1, <2>2
<1>2. paused' = paused \/ (op = "start" /\ paused' = FALSE)
  BY DEF ThreadStep, Thread, ResetProgressState, CheckState, Broken, Connect, Finish, TaskRefused, Go,
         ServerStep, Server, state
<1>3. TaskTypeOK'
  BY <1>1 DEF TaskTypeOK
<1>4. FramesTell(main, op', task)
  BY <1>1 DEF FramesTell
<1>5. PauseIsKept'
  BY <1>1, <1>2 DEF PauseIsKept, TaskTypeOK
<1>. QED  BY <1>1, <1>3, <1>4, <1>5

\* The flags of ProgressState and what is kept beside them.
TaskFlags == {copying, paused, aborting, finished, saved, wanted, cut, task} \subseteq BOOLEAN

\* A frame more, a frame less, and another frame, each with what it does to the transfer.
LEMMA AfterPush ==
  ASSUME NetRocksTaskAssumption, TaskIInv, NEW x \in Frames \ {"panels"}, Push(x), UNCHANGED <<op, task>>, TaskFlags', PauseIsKept',
         x \in {"xfer", "exiting", "exit", "gone"} => Len(main) = 1,
         x \in {"wait", "progress"} => MainTop \in {"xfer", "show"},
         x \in {"confirm", "aborting"} => MainTop = "progress",
         x \in {"xfer", "show"} => ~Has(main, {"xfer", "show"}),
         x \in Asks => ~Has(main, Asks) /\ op = x,
         x = "xfer" => op # "none" /\ ~task, x = "show" => task
  PROVE  TaskIInv'
<1>. USE DEF TaskIInv
<1>1. Last(main) = MainTop /\ main' = Append(main, x) /\ Len(main) < MaxDepth
  BY DEF Push, MainTop
<1>2. Stacked(main') /\ Len(main') = Len(main) + 1
  BY <1>1, PushKeeps
<1>3. FramesTell(main', op', task')
  BY <1>1, TellPushed
<1>5. Len(main') \in 1 .. MaxDepth
  BY <1>1, <1>2 DEF TaskTypeOK, NetRocksTaskAssumption
<1>4. TaskTypeOK'
  BY <1>2, <1>5 DEF TaskTypeOK, TaskFlags, Stacked
<1>. QED  BY <1>2, <1>3, <1>4

\* A dialog that closes, with what its end leaves of the transfer.
LEMMA AfterPop ==
  ASSUME NetRocksTaskAssumption, TaskIInv, MainTop # "panels", Pop, op' \in TaskPlaces, TaskFlags', PauseIsKept',
         task' => op' # "none",
         Has(Front(main), Asks) => op' = op,
         Has(Front(main), {"xfer"}) => op' # "none" /\ ~task',
         Has(Front(main), {"show"}) => task'
  PROVE  TaskIInv'
<1>. USE DEF TaskIInv
<1>1. Last(main) # "panels" /\ main' = Front(main)
  BY DEF Pop, MainTop
<1>2. Stacked(main') /\ Len(main') = Len(main) - 1 /\ Len(main) > 1
  BY <1>1, PopKeeps
<1>3. FramesTell(Front(main), op, task)
  BY <1>1, TellPopped
<1>4. FramesTell(main', op', task')
  BY <1>1, <1>3, TellOther
<1>6. Len(main') \in 1 .. MaxDepth
  BY <1>2 DEF TaskTypeOK, NetRocksTaskAssumption
<1>5. TaskTypeOK'
  BY <1>2, <1>6 DEF TaskTypeOK, TaskFlags, Stacked
<1>. QED  BY <1>2, <1>4, <1>5

\* A dialog that closes for another one to open in its place.
LEMMA AfterSwap ==
  ASSUME NetRocksTaskAssumption, TaskIInv, MainTop # "panels", NEW x \in Frames \ ({"panels", "xfer", "show"} \cup Asks), Swap(x),
         UNCHANGED <<op, task>>, TaskFlags', PauseIsKept',
         x \in {"exiting", "exit", "gone"} => Len(main) = 2,
         x \in {"wait", "progress"} => Last(Front(main)) \in {"xfer", "show"},
         x \in {"confirm", "aborting"} => Last(Front(main)) = "progress"
  PROVE  TaskIInv'
<1>. USE DEF TaskIInv
<1>1. PICK q : q = Front(main)
  OBVIOUS
<1>2. Last(main) # "panels" /\ main' = Append(q, x)
  BY <1>1 DEF Swap, MainTop
<1>3. Stacked(q) /\ Len(q) = Len(main) - 1 /\ Len(main) > 1 /\ Len(main) \in Nat
  BY <1>1, <1>2, PopKeeps DEF Stacked
<1>4. FramesTell(q, op, task)
  BY <1>1, <1>2, TellPopped
<1>5. Len(q) = 1 <=> Len(main) = 2
  BY <1>3
<1>6. Stacked(main') /\ Len(main') = Len(q) + 1
  BY <1>1, <1>2, <1>3, <1>5, PushKeeps
<1>7. FramesTell(main', op', task')
  BY <1>2, <1>3, <1>4, TellPushed
<1>8. TaskTypeOK'
  BY <1>3, <1>6 DEF TaskTypeOK, TaskFlags, Stacked
<1>. QED  BY <1>6, <1>7, <1>8

\* Which frames are there after each of the three.
LEMMA HasAfter ==
  ASSUME Stacked(main)
  PROVE  /\ \A x \in Frames : main' = Append(main, x) => (Has(main', {"confirm"}) <=> Has(main, {"confirm"}) \/ x = "confirm")
         /\ MainTop # "panels" /\ main' = Front(main)
              => (Has(main, {"confirm"}) <=> Has(main', {"confirm"}) \/ MainTop = "confirm")
         /\ \A x \in Frames : MainTop # "panels" /\ main' = Append(Front(main), x)
              => (Has(main', {"confirm"}) <=> Has(Front(main), {"confirm"}) \/ x = "confirm")
         /\ MainTop # "panels"
              => (Has(main, {"confirm"}) <=> Has(Front(main), {"confirm"}) \/ MainTop = "confirm")
<1>1. ASSUME NEW q, q \in Seq(Frames), NEW x
      PROVE  Has(Append(q, x), {"confirm"}) <=> Has(q, {"confirm"}) \/ x = "confirm"
  <2>1. PICK p : p = Append(q, x)
    OBVIOUS
  <2>2. /\ Len(p) = Len(q) + 1 /\ p[Len(q) + 1] = x /\ Len(q) \in Nat
        /\ \A i \in 1 .. Len(q) : p[i] = q[i]
    BY ONLY <1>1, <2>1
  <2>3. /\ \A k \in 1 .. Len(p) : k = Len(q) + 1 \/ k \in 1 .. Len(q)
        /\ Len(q) + 1 \in 1 .. Len(p) /\ \A k \in 1 .. Len(q) : k \in 1 .. Len(p)
    BY <2>2
  <2>4. Has(p, {"confirm"}) <=> Has(q, {"confirm"}) \/ x = "confirm"
    BY <2>2, <2>3 DEF Has
  <2>. QED  BY <2>1, <2>4
<1>2. main \in Seq(Frames) /\ (MainTop # "panels" => Front(main) \in Seq(Frames))
  BY PopKeeps DEF Stacked, MainTop
<1>3. MainTop # "panels" => (Has(main, {"confirm"}) <=> Has(Front(main), {"confirm"}) \/ MainTop = "confirm")
  BY PopKeeps DEF MainTop
<1>. QED  BY <1>1, <1>2, <1>3

\* The dialogs that the transfer's thread asks for come and go.
LEMMA AskKeeps ==
  ASSUME NetRocksTaskAssumption, TaskIInv, Dispatch \/ Answer \/ ExitDispatch
  PROVE  TaskIInv'
<1>. USE DEF TaskIInv
<1>0. Asks \subseteq Frames \ {"panels", "xfer", "show", "exiting", "exit", "gone", "wait", "progress", "confirm", "aborting"}
  BY DEF Asks, Frames
<1>1. CASE Dispatch
  <2>1. /\ op \in Asks /\ Push(op) /\ UNCHANGED <<op, copying, state, saved, wanted, cut, task>>
        /\ ~Contains(main, op)
    BY <1>1 DEF Dispatch
  <2>2. ~Has(main, Asks)
    BY <2>1 DEF FramesTell, Has, Contains
  <2>3. TaskFlags'
    BY <2>1 DEF TaskFlags, TaskTypeOK, state
  <2>4. Has(main', {"confirm"}) <=> Has(main, {"confirm"})
    BY <1>0, <2>1, HasAfter DEF Push
  <2>5. PauseIsKept'
    BY <2>1, <2>4 DEF PauseIsKept, state
  <2>. QED  BY <1>0, <2>1, <2>2, <2>3, <2>5, AfterPush
<1>2. CASE Answer
  <2>1. /\ MainTop = op /\ op \in Asks /\ Pop /\ op' \in TaskPlaces \ {"none", "start"}
        /\ UNCHANGED <<copying, state, saved, wanted, cut, task>>
    BY <1>2 DEF Answer, Answered, TaskRefused, Go, TaskPlaces
  <2>2. TaskFlags'
    BY <2>1 DEF TaskFlags, TaskTypeOK, state
  <2>3. MainTop # "panels" /\ MainTop # "confirm"
    BY <1>0, <2>1
  <2>4. Has(main', {"confirm"}) <=> Has(main, {"confirm"})
    BY <2>1, <2>3, HasAfter DEF Pop
  <2>5. PauseIsKept'
    BY <2>1, <2>4 DEF PauseIsKept, state, Asks
  <2>6. ~Has(Front(main), Asks)
    BY <2>1, <2>3, PopKeeps DEF MainTop
  <2>7. FramesTell(Front(main), op, task)
    BY <2>3, TellPopped DEF MainTop
  <2>8. (Has(Front(main), {"xfer"}) => ~task) /\ (Has(Front(main), {"show"}) => task)
    BY <2>7 DEF FramesTell, Has
  <2>. QED  BY <2>1, <2>2, <2>3, <2>5, <2>6, <2>8, AfterPop
<1>3. CASE ExitDispatch
  <2>1. /\ MainTop = "exit" /\ op \in Asks /\ op' \in TaskPlaces \ {"none", "start"}
        /\ UNCHANGED <<copying, state, saved, wanted, cut, task, main>>
    BY <1>3 DEF ExitDispatch, Unanswered, TaskRefused, Go, TaskPlaces, Asks
  <2>2. main[1] = "panels" /\ main[2] = "exit" /\ Len(main) = 2
    BY <2>1, PopKeeps DEF MainTop, Last, Stacked
  <2>3. FramesTell(main, op', task)
    BY <2>2 DEF FramesTell, Asks
  <2>4. TaskTypeOK'
    BY <2>1 DEF TaskTypeOK, state
  <2>5. PauseIsKept'
    BY <2>1 DEF PauseIsKept, state, Asks
  <2>. QED  BY <2>1, <2>3, <2>4, <2>5
<1>. QED  BY <1>1, <1>2, <1>3

\* A transfer begins with the frame of its wait.
LEMMA StartKeeps ==
  ASSUME NetRocksTaskAssumption, TaskIInv, StartXfer
  PROVE  TaskIInv'
<1>. USE DEF TaskIInv
<1>1. /\ MainTop = "panels" /\ op = "none" /\ op' = "start" /\ main' = main \o <<"xfer", "wait">>
      /\ cut' = FALSE /\ paused' = FALSE /\ aborting' = FALSE /\ finished' = FALSE /\ wanted' = FALSE
      /\ UNCHANGED <<copying, saved, task>> /\ Len(main) + 2 <= MaxDepth /\ ~task
  BY DEF StartXfer
<1>2. Len(main) = 1 /\ main \in Seq(Frames) /\ main[1] = "panels"
  BY <1>1, TopIsLast DEF Stacked
<1>3. /\ main' \in Seq(Frames) /\ Len(main') = 3
      /\ main'[1] = "panels" /\ main'[2] = "xfer" /\ main'[3] = "wait"
  <2>1. "xfer" \in Frames /\ "wait" \in Frames
    BY DEF Frames
  <2>2. PICK p : p = main \o <<"xfer", "wait">>
    OBVIOUS
  <2>3. main \in Seq(Frames)
    BY <1>2
  <2>4. /\ p \in Seq(Frames) /\ Len(p) = Len(main) + 2
        /\ \A i \in 1..Len(main) : p[i] = main[i]
        /\ p[Len(main) + 1] = "xfer" /\ p[Len(main) + 2] = "wait"
    <3>. HIDE DEF TaskIInv
    <3>. QED  BY ONLY <2>1, <2>2, <2>3, LongerByTwo
  <2>5. main' = p
    BY <1>1, <2>2
  <2>. QED  BY <1>2, <2>4, <2>5
<1>4. \A i \in 1 .. Len(main') : i = 1 \/ i = 2 \/ i = 3
  BY <1>3
<1>5. Stacked(main')
  BY <1>3, <1>4 DEF Stacked, Asks
<1>6. FramesTell(main', op', task')
  BY <1>1, <1>3, <1>4 DEF FramesTell, Asks
<1>10. Len(main') \in 1 .. MaxDepth
  BY <1>1, <1>2, <1>3 DEF NetRocksTaskAssumption
<1>7. TaskTypeOK'
  BY <1>1, <1>3, <1>10 DEF TaskTypeOK, TaskPlaces
<1>8. ~Has(main', {"confirm"})
  BY <1>3, <1>4 DEF Has
<1>9. PauseIsKept'
  BY <1>1, <1>8 DEF PauseIsKept
<1>. QED  BY <1>1, <1>5, <1>6, <1>7, <1>9

\* The wait becomes the progress, which goes when it is done or left to the background.
LEMMA ShowKeeps ==
  ASSUME NetRocksTaskAssumption, TaskIInv, BeforeShowProgress \/ Status \/ Progress \/ Aborted
  PROVE  TaskIInv'
<1>. USE DEF TaskIInv
<1>0. UNCHANGED <<copying, state, saved, wanted, cut>> /\ MainTop # "panels"
  BY DEF BeforeShowProgress, Status, Progress, Aborted
<1>1. CASE Pop /\ UNCHANGED <<op, task>> /\ MainTop # "confirm"
  <2>1. TaskFlags'
    BY <1>0, <1>1 DEF TaskFlags, TaskTypeOK, state
  <2>2. Has(main', {"confirm"}) <=> Has(main, {"confirm"})
    BY <1>0, <1>1, HasAfter DEF Pop
  <2>3. PauseIsKept'
    BY <1>0, <1>1, <2>2 DEF PauseIsKept, state
  <2>4. FramesTell(Front(main), op, task)
    BY <1>0, TellPopped DEF MainTop
  <2>5. (Has(Front(main), {"xfer"}) => op # "none" /\ ~task) /\ (Has(Front(main), {"show"}) => task)
    BY <2>4 DEF FramesTell, Has
  <2>6. op' \in TaskPlaces
    BY <1>1 DEF TaskTypeOK
  <2>. QED  BY <1>0, <1>1, <2>1, <2>3, <2>5, <2>6, AfterPop
<1>2. CASE BeforeShowProgress
  <2>1. CASE Pop
    BY <1>1, <1>2, <2>1 DEF BeforeShowProgress
  <2>2. CASE Swap("progress")
    <3>1. UNCHANGED <<op, task>> /\ MainTop = "wait"
      BY <1>2 DEF BeforeShowProgress
    <3>2. TaskFlags'
      BY <1>0, <3>1 DEF TaskFlags, TaskTypeOK, state
    <3>3. Has(main', {"confirm"}) <=> Has(main, {"confirm"})
      BY <2>2, <3>1, HasAfter DEF Swap, Frames
    <3>4. PauseIsKept'
      BY <1>0, <3>1, <3>3 DEF PauseIsKept, state
    <3>5. Last(Front(main)) \in {"xfer", "show"}
      BY <3>1, PopKeeps DEF MainTop
    <3>. QED  BY <2>2, <3>1, <3>2, <3>4, <3>5, AfterSwap DEF Frames, Asks
  <2>. QED  BY <1>2, <2>1, <2>2 DEF BeforeShowProgress
<1>3. CASE Status
  <2>1. /\ MainTop \in {"xfer", "show"} /\ Pop
        /\ \/ task' = TRUE /\ op' = op
           \/ op = "done" /\ task' = FALSE /\ op' = "none"
    BY <1>3 DEF Status
  <2>2. op # "none"
    BY <2>1, TopIsLast, NoneOfTransfer DEF OfTransfer
  <2>3. ~Has(Front(main), OfTransfer)
    BY <2>1, PopKeeps DEF MainTop
  <2>4. ~Has(Front(main), {"xfer"}) /\ ~Has(Front(main), {"show"}) /\ ~Has(Front(main), {"confirm"})
    BY <2>3 DEF Has, OfTransfer
  <2>5. TaskFlags'
    BY <1>0, <2>1 DEF TaskFlags, TaskTypeOK, state
  <2>6. ~Has(main, {"confirm"}) /\ ~Has(main', {"confirm"})
    BY <2>1, <2>4, HasAfter DEF Pop
  <2>7. PauseIsKept'
    BY <1>0, <2>1, <2>6 DEF PauseIsKept, state
  <2>8. FramesTell(Front(main), op, task)
    BY <2>1, TellPopped DEF MainTop
  <2>9. op' = "none" => ~Has(Front(main), Asks)
    BY <2>1, <2>2, <2>8 DEF FramesTell, Has, Asks
  <2>10. op' \in TaskPlaces
    BY <2>1 DEF TaskTypeOK, TaskPlaces
  <2>. QED  BY <2>1, <2>2, <2>4, <2>5, <2>7, <2>9, <2>10, AfterPop
<1>4. CASE Progress \/ Aborted
  BY <1>1, <1>4 DEF Progress, Aborted
<1>. QED  BY <1>2, <1>3, <1>4

\* Pausing, and the question about the abort: what was before it is kept and comes back.
LEMMA PauseKeeps ==
  ASSUME NetRocksTaskAssumption, TaskIInv, Pause \/ RequestAbort \/ Refuse \/ Confirm \/ ForcefullyAbort
  PROVE  TaskIInv'
<1>. USE DEF TaskIInv
<1>0. Frames \cap {"confirm", "aborting", "progress"} = {"confirm", "aborting", "progress"}
  BY DEF Frames
<1>1. CASE Pause
  <2>1. /\ MainTop = "progress" /\ op # "start" /\ paused' = ~paused /\ wanted' = ~paused
        /\ UNCHANGED <<op, copying, aborting, finished, saved, cut, task, main>>
    BY <1>1 DEF Pause
  <2>2. paused' \in BOOLEAN /\ wanted' \in BOOLEAN /\ paused' = wanted'
    BY <2>1
  <2>3. TaskTypeOK'
    BY <2>1, <2>2 DEF TaskTypeOK
  <2>4. ~Has(main, {"confirm"})
    <3>1. ~Has(Front(main), {"confirm", "aborting"})
      BY <2>1, PopKeeps DEF MainTop
    <3>2. ~Has(Front(main), {"confirm"})
      BY <3>1 DEF Has
    <3>. QED  BY <2>1, <3>2, HasAfter
  <2>5. PauseIsKept'
    BY <2>1, <2>2, <2>4 DEF PauseIsKept, Has
  <2>. QED  BY <2>1, <2>3, <2>5 DEF FramesTell
<1>2. CASE RequestAbort
  <2>1. /\ MainTop = "progress" /\ saved' = paused /\ paused' = TRUE /\ Push("confirm")
        /\ UNCHANGED <<op, copying, aborting, finished, wanted, cut, task>>
    BY <1>2 DEF RequestAbort
  <2>2. TaskFlags'
    BY <2>1 DEF TaskFlags, TaskTypeOK
  <2>3. ~Has(main, {"confirm"})
    <3>1. ~Has(Front(main), {"confirm", "aborting"})
      BY <2>1, PopKeeps DEF MainTop
    <3>2. ~Has(Front(main), {"confirm"})
      BY <3>1 DEF Has
    <3>. QED  BY <2>1, <3>2, HasAfter
  <2>4. Has(main', {"confirm"})
    BY <1>0, <2>1, HasAfter DEF Push
  <2>5. PauseIsKept'
    BY <2>1, <2>3, <2>4 DEF PauseIsKept
  <2>. QED  BY <1>0, <2>1, <2>2, <2>5, AfterPush DEF Asks
<1>3. CASE Refuse \/ Confirm
  <2>1. /\ MainTop = "confirm" /\ paused' = saved /\ aborting' \in BOOLEAN
        /\ UNCHANGED <<op, copying, finished, saved, wanted, cut, task>>
    BY <1>3 DEF Refuse, Confirm, TaskTypeOK
  <2>2. TaskFlags'
    BY <2>1 DEF TaskFlags, TaskTypeOK
  <2>3. Has(main, {"confirm"}) /\ ~Has(Front(main), {"confirm"}) /\ Last(Front(main)) = "progress"
    <3>1. ~Has(Front(main), {"confirm", "aborting"}) /\ Last(Front(main)) = "progress"
      BY <2>1, PopKeeps DEF MainTop
    <3>2. ~Has(Front(main), {"confirm"})
      BY <3>1 DEF Has
    <3>. QED  BY <2>1, <3>1, <3>2, HasAfter
  <2>4. CASE Refuse
    <3>1. Pop
      BY <2>4 DEF Refuse
    <3>2. PauseIsKept'
      BY <2>1, <2>3, <3>1 DEF PauseIsKept, Pop
    <3>3. FramesTell(Front(main), op, task)
      BY <2>1, TellPopped DEF MainTop
    <3>4. (Has(Front(main), {"xfer"}) => op # "none" /\ ~task) /\ (Has(Front(main), {"show"}) => task)
      BY <3>3 DEF FramesTell, Has
    <3>5. op' \in TaskPlaces
      BY <2>1 DEF TaskTypeOK
    <3>. QED  BY <2>1, <2>2, <3>1, <3>2, <3>4, <3>5, AfterPop
  <2>5. CASE Confirm
    <3>1. Swap("aborting")
      BY <2>5 DEF Confirm
    <3>2. ~Has(main', {"confirm"})
      BY <1>0, <2>1, <2>3, <3>1, HasAfter DEF Swap
    <3>3. PauseIsKept'
      BY <2>1, <2>3, <3>2 DEF PauseIsKept
    <3>. QED  BY <1>0, <2>1, <2>2, <2>3, <3>1, <3>3, AfterSwap DEF Asks
  <2>. QED  BY <1>3, <2>4, <2>5
<1>4. CASE ForcefullyAbort
  <2>1. /\ aborting' = TRUE /\ cut' = TRUE
        /\ UNCHANGED <<op, copying, paused, finished, saved, wanted, task, main>>
    BY <1>4 DEF ForcefullyAbort
  <2>2. TaskTypeOK' /\ PauseIsKept'
    BY <2>1 DEF TaskTypeOK, PauseIsKept, Has
  <2>. QED  BY <2>1, <2>2 DEF FramesTell
<1>. QED  BY <1>1, <1>2, <1>3, <1>4

\* Two frames at once are one after the other.
LEMMA OneByOne ==
  ASSUME NEW S, NEW q \in Seq(S), NEW x \in S, NEW y \in S
  PROVE  q \o <<x, y>> = Append(Append(q, x), y)
OBVIOUS

\* The menu, the list of tasks and the way out of the program.
LEMMA MenuKeeps ==
  ASSUME NetRocksTaskAssumption, TaskIInv,
         PluginsMenu \/ PluginInfo \/ SiteName \/ List \/ Exit \/ AbortTasks \/ Gone
  PROVE  TaskIInv'
<1>. USE DEF TaskIInv
<1>0. {"pluginInfo", "siteName", "list", "show", "progress", "exiting", "exit", "gone"} \subseteq Frames \ (Asks \cup {"panels"})
  BY DEF Frames, Asks
<1>1. /\ UNCHANGED <<op, copying, paused, finished, saved, wanted, task>>
      /\ aborting' \in BOOLEAN /\ cut' \in BOOLEAN
  <2>1. CASE AbortTasks
    <3>1. UNCHANGED <<op, copying, paused, finished, saved, wanted, task>>
      BY <2>1 DEF AbortTasks
    <3>2. aborting' \in BOOLEAN /\ cut' \in BOOLEAN
      BY <2>1, Zenon DEF AbortTasks
    <3>. QED  BY <3>1, <3>2
  <2>2. CASE ~AbortTasks
    BY <2>2 DEF PluginsMenu, PluginInfo, SiteName, List, Exit, Gone, state, TaskTypeOK
  <2>. QED  BY <2>1, <2>2
<1>2. TaskFlags'
  BY <1>1 DEF TaskFlags, TaskTypeOK
<1>3. ASSUME NEW x \in {"pluginInfo", "exiting"}, Push(x), x = "exiting" => MainTop = "panels"
      PROVE  TaskIInv'
  <2>1. Has(main', {"confirm"}) <=> Has(main, {"confirm"})
    BY <1>0, <1>3, HasAfter DEF Push
  <2>2. PauseIsKept'
    BY <1>1, <2>1 DEF PauseIsKept
  <2>3. x = "exiting" => Len(main) = 1
    BY <1>3, TopIsLast
  <2>. QED  BY <1>0, <1>1, <1>2, <1>3, <2>2, <2>3, AfterPush
<1>4. ASSUME NEW x \in {"siteName", "list", "exit", "gone"}, Swap(x), MainTop \notin {"panels", "confirm"},
             x \in {"exit", "gone"} => MainTop \in {"exiting", "exit"}
      PROVE  TaskIInv'
  <2>1. Has(main', {"confirm"}) <=> Has(main, {"confirm"})
    BY <1>0, <1>4, HasAfter DEF Swap
  <2>2. PauseIsKept'
    BY <1>1, <2>1 DEF PauseIsKept
  <2>3. x \in {"exit", "gone"} => Len(main) = 2
    BY <1>4, PopKeeps DEF MainTop
  <2>. QED  BY <1>0, <1>1, <1>2, <1>4, <2>2, <2>3, AfterSwap
<1>5. ASSUME Pop, MainTop \notin {"panels", "confirm"} PROVE TaskIInv'
  <2>1. Has(main', {"confirm"}) <=> Has(main, {"confirm"})
    BY <1>5, HasAfter DEF Pop
  <2>2. PauseIsKept'
    BY <1>1, <2>1 DEF PauseIsKept
  <2>3. FramesTell(Front(main), op, task)
    BY <1>5, TellPopped DEF MainTop
  <2>4. (Has(Front(main), {"xfer"}) => op # "none" /\ ~task) /\ (Has(Front(main), {"show"}) => task)
    BY <2>3 DEF FramesTell, Has
  <2>5. op' \in TaskPlaces
    BY <1>1 DEF TaskTypeOK
  <2>. QED  BY <1>1, <1>2, <1>5, <2>2, <2>4, <2>5, AfterPop
<1>6. ASSUME MainTop = "list", task, ~TasksLocked, Len(main) + 2 <= MaxDepth,
             main' = main \o <<"show", "progress">>
      PROVE  TaskIInv'
  <2>1. PICK p : p = Append(main, "show")
    OBVIOUS
  <2>2. main \in Seq(Frames)
    BY TopIsLast
  <2>3. main' = Append(p, "progress")
    BY <1>0, <1>6, <2>1, <2>2, OneByOne
  <2>4. ~Has(main, {"xfer", "show"})
    BY <1>6 DEF TasksLocked, Contains, Has, FramesTell
  <2>5. Stacked(p) /\ Last(p) = "show" /\ Len(p) = Len(main) + 1
    BY <1>0, <2>1, <2>4, PushKeeps
  <2>6. Stacked(main') /\ Len(main') = Len(p) + 1
    BY <1>0, <2>3, <2>5, PushKeeps
  <2>7. FramesTell(p, op, task)
    BY <1>0, <1>6, <2>1, TellPushed
  <2>8. FramesTell(main', op, task)
    BY <1>0, <2>3, <2>5, <2>7, TellPushed
  <2>9. Has(main', {"confirm"}) <=> Has(main, {"confirm"})
    <3>1. Has(p, {"confirm"}) <=> Has(main, {"confirm"}) \/ "show" \in {"confirm"}
      BY <1>0, <2>1, <2>4, PushKeeps
    <3>2. Has(main', {"confirm"}) <=> Has(p, {"confirm"}) \/ "progress" \in {"confirm"}
      BY <1>0, <2>3, <2>5, PushKeeps
    <3>. QED  BY <3>1, <3>2
  <2>10. PauseIsKept'
    BY <1>1, <2>9 DEF PauseIsKept
  <2>11. Len(main') \in 1 .. MaxDepth
    BY <1>6, <2>2, <2>5, <2>6 DEF NetRocksTaskAssumption
  <2>12. TaskTypeOK'
    BY <1>1, <1>2, <2>6, <2>11 DEF TaskTypeOK, TaskFlags, Stacked
  <2>. QED  BY <1>1, <2>6, <2>8, <2>10, <2>12
<1>. QED
  BY <1>3, <1>4, <1>5, <1>6 DEF PluginsMenu, PluginInfo, SiteName, List, Exit, AbortTasks, Gone

\* The panels alone, and no transfer: nothing is asked, shown or paused.
LEMMA TaskInitInv == NetRocksTaskAssumption /\ TaskInit => TaskIInv
<1>. SUFFICES ASSUME NetRocksTaskAssumption, TaskInit PROVE TaskIInv
  OBVIOUS
<1>1. main \in Seq(Frames) /\ Len(main) = 1 /\ main[1] = "panels"
  BY DEF TaskInit, Frames
<1>2. Stacked(main) /\ FramesTell(main, op, task)
  BY <1>1 DEF Stacked, FramesTell, Asks
<1>3. TaskTypeOK
  <2>1. Len(main) \in 1 .. MaxDepth
    BY <1>1 DEF NetRocksTaskAssumption
  <2>. QED  BY <1>1, <2>1 DEF TaskInit, TaskTypeOK, TaskPlaces
<1>4. PauseIsKept
  BY DEF TaskInit, PauseIsKept
<1>. QED  BY <1>2, <1>3, <1>4 DEF TaskIInv, TaskInit

\* Whatever the main thread, the transfer's thread or the user does next, the frames stay
\* in order and a pause stays with its question.
LEMMA TaskStepInv == NetRocksTaskAssumption /\ TaskIInv /\ [TaskNext]_taskVars => TaskIInv'
<1>. SUFFICES ASSUME NetRocksTaskAssumption, TaskIInv, [TaskNext]_taskVars PROVE TaskIInv'
  OBVIOUS
<1>1. CASE UNCHANGED taskVars
  BY <1>1 DEF taskVars, state, TaskIInv, TaskTypeOK, Stacked, FramesTell, PauseIsKept, Has
<1>2. CASE MainStep
  BY <1>2, AskKeeps, ShowKeeps, MenuKeeps DEF MainStep
<1>3. CASE UserStep
  BY <1>3, AskKeeps, ShowKeeps, MenuKeeps, PauseKeeps, StartKeeps DEF UserStep
<1>. QED  BY <1>1, <1>2, <1>3, ThreadKeeps DEF TaskNext

\* What the dialogs rely on is what the frames tell.
LEMMA TaskIsSound == TaskIInv => TransferIsSound
<1>. SUFFICES ASSUME TaskIInv PROVE TransferIsSound
  OBVIOUS
<1>. USE DEF TaskIInv
<1>1. StateLives
  <2>. SUFFICES ASSUME NEW f \in Asks \cup {"xfer", "wait", "progress", "confirm", "aborting", "show"},
                       Contains(main, f), op = "none"
                PROVE  FALSE
    BY DEF StateLives
  <2>. QED  BY NoneOfTransfer DEF Contains, Has, OfTransfer
<1>2. PausedByUser
  BY DEF PausedByUser, PauseIsKept, Contains, Has
<1>. QED  BY <1>1, <1>2 DEF TransferIsSound

\* Wherever the transfer's thread and the user are, the main thread's frames stay within
\* their bound.
THEOREM TaskTypeCorrect == TaskSpec => []TaskTypeOK
<1>1. TaskIInv => TaskTypeOK
  BY DEF TaskIInv
<1>. QED  BY <1>1, TaskInitInv, TaskStepInv, NetRocksTaskAssumption, PTL DEF TaskSpec

\* AbortOperationRequest and the dialogs of the transfer (UI/Activities): none of them is
\* there without a transfer, and a pause is the user's unless the question is open.
THEOREM TaskSound == TaskSpec => []TransferIsSound
BY TaskIsSound, TaskInitInv, TaskStepInv, NetRocksTaskAssumption, PTL DEF TaskSpec
-----------------------------------------------------------------------------
(* The parts side by side                                                  *)

\* Each part starts as its module says, whatever is chosen to run.
LEMMA PartsInit == NetInit => Init /\ XferInit /\ HostInit /\ TaskInit /\ CmdInit
BY DEF NetInit

\* A step is one of the part that runs; the others stay as they are.
LEMMA PartsStep ==
  ASSUME [NetNext]_netVars
  PROVE  [Next]_vars /\ [XferNext]_xferVars /\ [HostNext]_hostVars /\ [TaskNext]_taskVars /\ [CmdNext]_cmdVars
<1>1. CASE UNCHANGED netVars
  BY <1>1 DEF netVars
<1>2. CASE NetNext
  BY <1>2 DEF NetNext
<1>. QED  BY <1>1, <1>2

\* What holds in every part, of those that need nothing assumed of the constants but what
\* their modules assume.
PartsInv ==
  /\ PoolInv /\ TypeOK /\ NoOversleep
  /\ Basics /\ HostInv /\ TaskIInv /\ CmdInv

\* What each part relies on holds where it starts.
LEMMA PartsInitInv == NetInit => PartsInv
<1>. SUFFICES ASSUME NetInit PROVE PartsInv
  OBVIOUS
<1>1. Init /\ XferInit /\ HostInit /\ TaskInit /\ CmdInit
  BY PartsInit
<1>2. PoolInv /\ TypeOK /\ NoOversleep
  BY <1>1, PoolInitInv, InitSleep, PoolAssumption
<1>3. Basics
  BY <1>1, XferInitBasics, XferAssumption
<1>4. TaskIInv
  BY <1>1, TaskInitInv, NetRocksTaskAssumption
<1>5. HostInv /\ CmdInv
  BY <1>1, Initially, CmdInitInv
<1>. QED  BY <1>2, <1>3, <1>4, <1>5 DEF PartsInv

\* A step of one part keeps what that part relies on, and leaves the others'.
LEMMA PartsStepInv == PartsInv /\ [NetNext]_netVars => PartsInv'
<1>. SUFFICES ASSUME PartsInv, [NetNext]_netVars PROVE PartsInv'
  OBVIOUS
<1>. USE DEF PartsInv
<1>1. [Next]_vars /\ [XferNext]_xferVars /\ [HostNext]_hostVars /\ [TaskNext]_taskVars /\ [CmdNext]_cmdVars
  BY PartsStep
<1>2. PoolInv' /\ TypeOK' /\ NoOversleep'
  BY <1>1, PoolStepInv, StepSleep, PoolAssumption
<1>3. Basics'
  BY <1>1, XferStepBasics, XferAssumption
<1>4. TaskIInv'
  BY <1>1, TaskStepInv, NetRocksTaskAssumption
<1>5. HostInv'
  BY <1>1, Stepwise
<1>6. CmdInv'
  BY <1>1, CmdStepInv
<1>. QED  BY <1>2, <1>3, <1>4, <1>5, <1>6

\* All of NetRocks keeps to its types, whatever runs.
THEOREM NetTypeCorrect == NetSpec => []NetTypeOK
<1>1. PartsInv => NetTypeOK
  BY DEF PartsInv, NetTypeOK, Basics, HostInv, TaskIInv, CmdInv
<1>. QED  BY <1>1, PartsInitInv, PartsStepInv, PTL DEF NetSpec

\* OpXfer.cpp and the dialogs of its progress: copies end as the source, none is reported
\* before, and the user sees and pauses a transfer that is there.
THEOREM TransfersSound ==
  ASSUME ~FreshBreaks
  PROVE  NetSpec => []TransfersAreSound
<1>1. NetInit => PartsInv /\ Copied
  BY PartsInitInv, PartsInit, XferInitCopied, XferAssumption
<1>2. PartsInv /\ Copied /\ [NetNext]_netVars => PartsInv' /\ Copied'
  <2>. SUFFICES ASSUME PartsInv, Copied, [NetNext]_netVars PROVE PartsInv' /\ Copied'
    OBVIOUS
  <2>1. [XferNext]_xferVars /\ Begun
    BY PartsStep, XferAssumption DEF PartsInv, Begun
  <2>2. Copied'
    BY <2>1, XferStepCopied
  <2>. QED  BY <2>2, PartsStepInv
<1>3. PartsInv /\ Copied => TransfersAreSound
  BY CopiedIsSound, TaskIsSound DEF PartsInv, TransfersAreSound
<1>. QED  BY <1>1, <1>2, <1>3, PTL DEF NetSpec

\* HostRemote.cpp, HostRemoteBroker.cpp and ConnectionsPool.cpp: a connection that may be
\* used is in step with its broker, and one that is pooled goes in time and with the pool.
THEOREM ConnectionsSound == NetSpec => []ConnectionsAreSound
<1>1. PartsInv => ConnectionsAreSound
  <2>. SUFFICES ASSUME PartsInv PROVE ConnectionsAreSound
    OBVIOUS
  <2>1. InStep
    BY HostIsInStep DEF PartsInv
  <2>2. EndsQuietly
    BY PoolEnds DEF PartsInv
  <2>. QED  BY <2>1, <2>2 DEF PartsInv, ConnectionsAreSound
<1>. QED  BY <1>1, PartsInitInv, PartsStepInv, PTL DEF NetSpec
==============================================================================
