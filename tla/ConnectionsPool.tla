---------------------------- MODULE ConnectionsPool ----------------------------
(***************************************************************************)
(* NetRocks/src/ConnectionsPool.cpp on Threaded: connections that are kept *)
(* for a while after their panel has been left, and the thread that purges *)
(* them.  Every critical section of _mutex is an action.  Seconds pass in  *)
(* Tick; a wait that has timed out goes on before the next one.            *)
(*                                                                         *)
(* A definition right before another one and named after it is a wrong     *)
(* version of it that nothing uses.                                        *)
(***************************************************************************)
EXTENDS Integers, FiniteSets, FiniteSetsExt, Threaded

CONSTANTS
  Ids,          \* servers, keys of the pool
  Expirations,  \* values of the setting ConnectionsPoolExpiration
  OldAge,       \* bound: ages count up to here
  MayFail       \* pthread_create may fail

ASSUME PoolAssumption ==
  /\ Ids # {} /\ IsFiniteSet(Ids)
  /\ Expirations \subseteq Nat /\ Expirations # {}
  /\ OldAge \in Nat /\ \A e \in Expirations : e + 2 <= OldAge
  /\ MayFail \in BOOLEAN

VARIABLES
  pooled,      \* keys of _id_2_pooled_host
  age,         \* age[id]: now - ts of a pooled host
  expiration,  \* the setting
  told,        \* OnGlobalSettingsChanged has been called since it was written
  trd,         \* the Threaded
  purger,      \* where its thread is
  timer,       \* seconds left of its wait
  notified,    \* _cond has been notified during its wait
  owner        \* the pool: in use, in its destructor, gone

vars == <<pooled, age, expiration, told, trd, purger, timer, notified, owner>>

TypeOK ==
  /\ pooled \subseteq Ids
  /\ age \in [Ids -> 0..OldAge]
  /\ expiration \in Expirations /\ told \in BOOLEAN
  /\ trd \in Threads
  /\ purger \in {"none", "begin", "sleep", "destroy", "exit"}
  /\ timer \in 0..OldAge /\ notified \in BOOLEAN
  /\ owner \in {"use", "destructor", "gone"}

\* DismissRemoteHost makes the pool
Init ==
  /\ pooled = {} /\ age = [id \in Ids |-> 0]
  /\ expiration \in Expirations /\ told = TRUE
  /\ trd = NewThreaded
  /\ purger = "none" /\ timer = 0 /\ notified = FALSE
  /\ owner = "use"

Expired(ages, ids) == {id \in ids : ages[id] >= expiration}

EstimateUnchecked(ids) ==
  Min({expiration \div 2} \cup {expiration - age[id] : id \in ids}) + 1

\* EstimateTimeToSleep
EstimateTimeToSleep(ids) ==
  IF Expired(age, ids) # {}
    THEN 1
    ELSE Min({expiration \div 2} \cup {expiration - age[id] : id \in ids}) + 1

-----------------------------------------------------------------------------
(* The purging thread                                                      *)

CheckOnce(ids) ==
  /\ pooled' = ids
  /\ notified' = FALSE
  /\ IF ids = {} \/ purger = "destroy"
       THEN purger' = "exit" /\ UNCHANGED timer
       ELSE purger' = "sleep" /\ timer' = EstimateTimeToSleep(ids)

\* The loop's condition, to the next wait or out of the loop
Check(ids) ==
  /\ pooled' = ids
  /\ notified' = FALSE
  /\ IF ids = {}
       THEN purger' = "exit" /\ UNCHANGED timer
       ELSE purger' = "sleep" /\ timer' = EstimateTimeToSleep(ids)

PurgerBegins ==
  /\ purger = "begin"
  /\ Check(pooled)
  /\ UNCHANGED <<age, expiration, told, trd, owner>>

\* wait_for returns; expired hosts are taken out to be destroyed out of the lock
Purge ==
  /\ purger = "sleep"
  /\ LET expired == Expired(age, pooled)
     IN IF expired = {}
          THEN Check(pooled)
          ELSE /\ pooled' = pooled \ expired
               /\ purger' = "destroy"
               /\ UNCHANGED <<timer, notified>>
  /\ UNCHANGED <<age, expiration, told, trd, owner>>

PurgerWakes == (timer = 0 \/ notified) /\ Purge

SpuriousWake == Purge

HostsDestroyed ==
  /\ purger = "destroy"
  /\ Check(pooled)
  /\ UNCHANGED <<age, expiration, told, trd, owner>>

\* sThreadProc, after ThreadProc has returned and released _mutex
PurgerExits ==
  /\ purger = "exit"
  /\ purger' = "none"
  /\ trd' = Ended(trd)
  /\ UNCHANGED <<pooled, age, expiration, told, timer, notified, owner>>

PurgerStep == PurgerBegins \/ PurgerWakes \/ HostsDestroyed \/ PurgerExits

-----------------------------------------------------------------------------
(* The main thread                                                         *)

\* _cond.notify_all: heard only by a thread that waits
Notify == notified' = (notified \/ purger = "sleep")

\* UpdateThreadState with what is pooled now
UpdateThreadState ==
  \/ /\ pooled' # {} /\ CanStart(trd)
     /\ trd' = StartThread(trd) /\ purger' = "begin"
     /\ UNCHANGED notified
  \/ /\ pooled' # {} /\ CanStart(trd) /\ MayFail
     /\ trd' = StartFails(trd)
     /\ Notify /\ UNCHANGED purger
  \/ /\ pooled' = {} \/ ~CanStart(trd)
     /\ Notify /\ UNCHANGED <<trd, purger>>

\* A host that is not Alive is not taken; one with the same id is replaced
Put(id) ==
  /\ owner = "use"
  /\ age' = [age EXCEPT ![id] = 0]
  /\ pooled' = (pooled \cup {id}) \ Expired(age', pooled \cup {id})
  /\ UpdateThreadState
  /\ UNCHANGED <<expiration, told, timer, owner>>

Get(id) ==
  /\ owner = "use" /\ id \in pooled
  /\ pooled' = pooled \ {id}
  /\ UpdateThreadState
  /\ UNCHANGED <<age, expiration, told, timer, owner>>

PurgeAll ==
  /\ pooled' = {}
  /\ Notify

PurgePool ==
  /\ owner = "use"
  /\ PurgeAll
  /\ UNCHANGED <<age, expiration, told, trd, purger, timer, owner>>

\* ConfigurePluginGlobalOptions writes the setting, then the pool is told
Configure(e) ==
  /\ owner = "use"
  /\ expiration' = e /\ told' = FALSE
  /\ UNCHANGED <<pooled, age, trd, purger, timer, notified, owner>>

Tell == told' = TRUE /\ Notify

OnGlobalSettingsChanged ==
  /\ ~told
  /\ Tell
  /\ UNCHANGED <<pooled, age, expiration, trd, purger, timer, owner>>

Destroy ==
  /\ owner = "use" /\ told
  /\ PurgeAll
  /\ owner' = "destructor"
  /\ UNCHANGED <<age, expiration, told, trd, purger, timer>>

\* WaitThread in the destructor, then ~Threaded
Destroyed ==
  /\ owner = "destructor" /\ CanJoin(trd)
  /\ trd' = WaitThread(trd)
  /\ owner' = "gone"
  /\ UNCHANGED <<pooled, age, expiration, told, purger, timer, notified>>

-----------------------------------------------------------------------------
Tick ==
  /\ purger = "sleep" => timer > 0
  /\ age' = [id \in Ids |-> IF id \in pooled /\ age[id] < OldAge THEN age[id] + 1 ELSE age[id]]
  /\ timer' = IF timer > 0 THEN timer - 1 ELSE 0
  /\ UNCHANGED <<pooled, expiration, told, trd, purger, notified, owner>>

Next ==
  \/ PurgerStep \/ SpuriousWake \/ Tick
  \/ \E id \in Ids : Put(id) \/ Get(id)
  \/ PurgePool
  \/ \E e \in Expirations : Configure(e)
  \/ OnGlobalSettingsChanged
  \/ Destroy \/ Destroyed

Spec == Init /\ [][Next]_vars

(* The thread and the clock go on, and so does a call that has begun.       *)
FairSpec ==
  /\ Spec
  /\ WF_vars(PurgerStep) /\ WF_vars(Tick)
  /\ WF_vars(OnGlobalSettingsChanged) /\ WF_vars(Destroyed)

-----------------------------------------------------------------------------
(* Properties                                                              *)

\* The purging thread will look at the pool again before it ends.
Watched == purger \in {"begin", "sleep", "destroy"}

\* The thread never sleeps longer than a second beyond the expiration of any
\* host, one put while it sleeps or under a setting changed meanwhile included,
\* unless it has been woken already.
NoOversleep ==
  purger = "sleep" /\ told /\ ~notified =>
    \A id \in pooled : age[id] < expiration => age[id] + timer <= expiration + 1

\* A host gets a thread that watches it when it is put, and the thread does not
\* leave it, unless UpdateThreadState meets a thread that has left its loop and
\* not yet marked its end.
HostsStayWatched ==
  [][pooled' # {} /\ ~Watched' => purger = "exit" \/ (pooled # {} /\ ~Watched)]_vars

\* ~Threaded does not abort: the thread is gone, and no host stays behind.
EndsQuietly == owner = "gone" => MayDestroy(trd) /\ purger = "none" /\ trd.thread = "none" /\ pooled = {}
=============================================================================
