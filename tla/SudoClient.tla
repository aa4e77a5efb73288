------------------------------- MODULE SudoClient -------------------------------
(***************************************************************************)
(* File operations that are repeated with other rights                     *)
(* (WinPort/src/sudo).  Threads do them inside regions; the first one that *)
(* needs it starts a dispatcher through sudo, which asks the user and      *)
(* connects to a socket of one fixed path.  The connection is shared, kept *)
(* while any thread is in a region, and each operation is a transaction    *)
(* under s_uds_mutex.  The check that there is a connection is made under  *)
(* the same mutex, but not in the same critical section.                   *)
(*                                                                         *)
(* A definition right before another one and named after it is a wrong     *)
(* version of it that nothing uses.                                        *)
(***************************************************************************)
EXTENDS Integers, FiniteSets

CONSTANTS
  Threads,
  Silent,     \* the threads that read in a silent query region
  MaxConns,   \* bound: how many dispatchers are started
  Confirms,   \* SCM_CONFIRM_MODIFY
  MayFail,    \* a dispatcher may die
  Nobody

ASSUME SudoClientAssumption ==
  /\ Nobody \notin Threads /\ Silent \subseteq Threads
  /\ MaxConns \in Nat \ {0}
  /\ Confirms \in BOOLEAN /\ MayFail \in BOOLEAN

Conns == 1 .. MaxConns

VARIABLES
  lock,       \* who holds s_uds_mutex
  conn,       \* s_uds: the number of the connection, 0 if there is none
  started,    \* how many dispatchers have been started
  disp,       \* what each dispatcher does
  path,       \* whose socket is at the path, 0 if there is none
  region,     \* count of each thread's regions
  cancelled,  \* the threads with thread_client_region_counter.cancelled
  modify,     \* "undefined", "allowed", "denied" of each thread
  drop,       \* client_drop_pending
  spc, op,     \* what each thread does, and with what: "read", "write", "open", "list", "close"
  dir,        \* the directory each thread has open: its connection, 0 for none
  refused,    \* history: the threads whose user has refused in this region
  agreed,     \* history: the threads whose user has agreed to modify in this region
  dropped,    \* history: the connections that were to be dropped
  astray,     \* history: a directory was asked of a dispatcher that had not opened it
  unasked,    \* history: something was modified without the user's consent
  failed      \* history: a dispatcher has died

socket == <<conn, started, disp, path>>
user   == <<refused, agreed>>
facts  == <<dropped, astray, unasked, failed>>
sudoVars == <<lock, socket, region, cancelled, modify, drop, spc, op, dir, user, facts>>

SudoTypeOK ==
  /\ lock \in Threads \cup {Nobody}
  /\ conn \in 0 .. started /\ started \in 0 .. MaxConns /\ path \in 0 .. started
  /\ disp \in [Conns -> {"none", "asking", "connecting", "serving", "ending", "over"}]
  /\ region \in [Threads -> 0 .. 2]
  /\ cancelled \subseteq Threads
  /\ modify \in [Threads -> {"undefined", "allowed", "denied"}]
  /\ spc \in [Threads -> {"idle", "opening", "confirm", "touched", "sent", "answered",
                         "crashed"}]
  /\ op \in [Threads -> {"read", "write", "open", "list", "close"}]
  /\ dir \in [Threads -> 0 .. started]
  /\ drop \in BOOLEAN /\ astray \in BOOLEAN /\ unasked \in BOOLEAN /\ failed \in BOOLEAN
  /\ refused \subseteq Threads /\ agreed \subseteq Threads /\ dropped \subseteq Conns

SudoInit ==
  /\ lock = Nobody
  /\ conn = 0 /\ started = 0 /\ path = 0
  /\ disp = [g \in Conns |-> "none"]
  /\ region = [t \in Threads |-> 0]
  /\ cancelled = {} /\ modify = [t \in Threads |-> "undefined"]
  /\ drop = FALSE
  /\ spc = [t \in Threads |-> "idle"] /\ op = [t \in Threads |-> "read"]
  /\ dir = [t \in Threads |-> 0]
  /\ refused = {} /\ agreed = {}
  /\ dropped = {} /\ astray = FALSE /\ unasked = FALSE /\ failed = FALSE

-----------------------------------------------------------------------------
(* Regions                                                                 *)

\* A thread that dereferences the empty s_uds takes the others with it
Alive == \A t \in Threads : spc[t] # "crashed"

Moves(t, from, to) ==
  /\ Alive /\ spc[t] = from
  /\ spc' = [spc EXCEPT ![t] = to]

SomeoneIn(r) == \E t \in Threads : r[t] > 0

CloseHeedless(r) ==
  \/ conn' = 0 /\ drop' = FALSE
  \/ ~drop /\ UNCHANGED <<conn, drop>>

\* CheckForCloseClientConnection; the password may have expired
CheckForClose(r) ==
  \/ SomeoneIn(r) /\ UNCHANGED <<conn, drop>>
  \/ ~SomeoneIn(r) /\ CloseHeedless(r)

\* sudo_client_region_enter
Enter(t) ==
  /\ Alive /\ spc[t] = "idle" /\ lock = Nobody /\ region[t] < 2
  /\ region' = [region EXCEPT ![t] = @ + 1]
  /\ UNCHANGED <<lock, socket, cancelled, modify, drop, spc, op, dir, user, facts>>

LeaveTwice(t) ==
  /\ Alive /\ spc[t] = "idle" /\ lock = Nobody /\ region[t] > 0 /\ dir[t] = 0
  /\ region' = [region EXCEPT ![t] = @ - 2]
  /\ CheckForClose(region')
  /\ UNCHANGED <<lock, started, disp, path, cancelled, modify, user, spc, op, dir, facts>>

\* sudo_client_region_leave.  Directories are closed in the region they were opened in
Leave(t) ==
  /\ Alive /\ spc[t] = "idle" /\ lock = Nobody /\ region[t] > 0 /\ dir[t] = 0
  /\ region' = [region EXCEPT ![t] = @ - 1]
  /\ IF region[t] > 1
       THEN UNCHANGED <<cancelled, modify, user>>
       ELSE /\ cancelled' = cancelled \ {t}
            /\ modify' = [modify EXCEPT ![t] = "undefined"]
            /\ refused' = refused \ {t} /\ agreed' = agreed \ {t}
  /\ CheckForClose(region')
  /\ UNCHANGED <<lock, started, disp, path, spc, op, dir, facts>>

\* sudo_client_drop
Drop ==
  /\ Alive /\ lock = Nobody /\ conn \notin dropped \cup {0}
  /\ dropped' = dropped \cup {conn}
  /\ IF SomeoneIn(region) THEN drop' = TRUE /\ UNCHANGED conn
                          ELSE conn' = 0 /\ UNCHANGED drop
  /\ UNCHANGED <<lock, started, disp, path, region, cancelled, modify, spc, op, dir, user>>
  /\ UNCHANGED <<astray, unasked, failed>>

-----------------------------------------------------------------------------
(* TouchClientConnection                                                   *)

Wants(t, o) ==
  /\ spc[t] = "idle" /\ lock = Nobody
  /\ region[t] > 0 /\ t \notin cancelled
  /\ o = "open" => dir[t] = 0
  /\ op' = [op EXCEPT ![t] = o]

steady == <<region, cancelled, dir>>

\* There is a connection, and nothing to ask
TouchWithoutConfirm(t, o) ==
  /\ Wants(t, o) /\ conn # 0
  /\ Moves(t, "idle", "touched")
  /\ UNCHANGED <<lock, socket, modify, drop, user, facts, steady>>

Touch(t, o) ==
  /\ (o = "write" /\ Confirms) => modify[t] = "allowed"
  /\ TouchWithoutConfirm(t, o)

\* ClientConfirm, with the mutex held
AskToModify(t) ==
  /\ Wants(t, "write") /\ conn # 0 /\ Confirms /\ modify[t] = "undefined"
  /\ Moves(t, "idle", "confirm")
  /\ lock' = t
  /\ UNCHANGED <<socket, modify, drop, user, facts, steady>>

AnswerAsked(t, yes) ==
  /\ Moves(t, "confirm", IF yes THEN "touched" ELSE "idle")
  /\ lock' = Nobody
  /\ modify' = [modify EXCEPT ![t] = IF yes THEN "allowed" ELSE "denied"]
  /\ agreed' = IF yes THEN agreed \cup {t} ELSE agreed
  /\ UNCHANGED <<socket, drop, op, refused, facts, steady>>

\* OpenClientConnection up to WaitForClient: the socket is at the path, sudo is started
Launch(t, o) ==
  /\ Wants(t, o) /\ conn = 0
  /\ o = "write" \/ t \notin Silent
  /\ started < MaxConns
  /\ started' = started + 1
  /\ path' = started + 1
  /\ disp' = [disp EXCEPT ![started + 1] = "asking"]
  /\ Moves(t, "idle", "opening")
  /\ lock' = t
  /\ UNCHANGED <<conn, modify, drop, user, facts, steady>>

\* The client has connected, and ClientInitSequence is through
Opened(t) ==
  /\ Moves(t, "opening", "touched")
  /\ disp[started] = "serving"
  /\ conn' = started
  /\ lock' = Nobody
  /\ IF op[t] = "write" /\ Confirms
       THEN modify' = [modify EXCEPT ![t] = "allowed"] /\ agreed' = agreed \cup {t}
       ELSE UNCHANGED <<modify, agreed>>
  /\ UNCHANGED <<started, disp, path, drop, op, refused, facts, steady>>

NotOpenedUnleashed(t) ==
  /\ Moves(t, "opening", "idle")
  /\ disp[started] = "over" /\ failed
  /\ path' = 0
  /\ lock' = Nobody
  /\ cancelled' = cancelled \cup {t}
  /\ UNCHANGED <<conn, started, disp, region, modify, drop, op, dir, user, facts>>

\* The other end of the leash is closed, or ClientInitSequence fails
NotOpened(t) ==
  /\ Moves(t, "opening", "idle")
  /\ disp[started] = "over"
  /\ path' = 0
  /\ lock' = Nobody
  /\ cancelled' = cancelled \cup {t}
  /\ UNCHANGED <<conn, started, disp, region, modify, drop, op, dir, user, facts>>

-----------------------------------------------------------------------------
(* The dispatcher                                                          *)

around == <<lock, conn, started, region, cancelled, modify, drop, op, dir>>

\* sudo asks for the password: only then it starts the dispatcher
Password(t) ==
  /\ spc[t] = "opening" /\ disp[started] = "asking"
  /\ \/ disp' = [disp EXCEPT ![started] = "connecting"] /\ UNCHANGED refused
     \/ disp' = [disp EXCEPT ![started] = "over"] /\ refused' = refused \cup {t}
  /\ UNCHANGED <<around, path, spc, agreed, facts>>

\* connect
Connect(g) ==
  /\ disp[g] = "connecting"
  /\ disp' = [disp EXCEPT ![g] = IF path = g THEN "serving" ELSE "ending"]
  /\ UNCHANGED <<around, path, spc, user, facts>>

\* The client has closed the connection
Disconnected(g) ==
  /\ disp[g] = "serving" /\ conn # g
  /\ ~\E t \in Threads : spc[t] = "opening" /\ g = started
  /\ disp' = [disp EXCEPT ![g] = "ending"]
  /\ UNCHANGED <<around, path, spc, user, facts>>

\* The end of sudo_main_dispatcher: unlink(argv[0]), whoever's socket is there
Unlink(g) ==
  /\ disp[g] = "ending"
  /\ disp' = [disp EXCEPT ![g] = "over"]
  /\ path' = 0
  /\ UNCHANGED <<around, spc, user, facts>>

Die(g) ==
  /\ MayFail /\ disp[g] \in {"connecting", "serving"}
  /\ disp' = [disp EXCEPT ![g] = "over"]
  /\ failed' = TRUE
  /\ UNCHANGED <<around, path, spc, user, dropped, astray, unasked>>

\* One command is served
Serve(t) ==
  /\ Moves(t, "sent", "answered")
  /\ disp[conn] = "serving"
  /\ astray' = (astray \/ (op[t] \in {"list", "close"} /\ dir[t] # conn))
  /\ unasked' = (unasked \/ (op[t] = "write" /\ Confirms /\ t \notin agreed))
  /\ UNCHANGED <<around, disp, path, user, dropped, failed>>

-----------------------------------------------------------------------------
(* Transactions                                                            *)

\* sdc_readdir and sdc_closedir look for no connection
UseDir(t, o) ==
  /\ spc[t] = "idle" /\ dir[t] # 0
  /\ op' = [op EXCEPT ![t] = o]
  /\ Moves(t, "idle", "touched")
  /\ UNCHANGED <<lock, socket, modify, drop, user, facts, steady>>

\* ClientTransaction: *s_uds is not looked at again
Begin(t) ==
  /\ lock = Nobody
  /\ \/ conn # 0 /\ Moves(t, "touched", "sent") /\ lock' = t
     \/ conn = 0 /\ Moves(t, "touched", "crashed") /\ UNCHANGED lock
  /\ UNCHANGED <<socket, modify, drop, op, user, facts, steady>>

After(t) ==
  dir' = [dir EXCEPT ![t] = CASE op[t] = "open" -> conn
                              [] op[t] = "close" -> 0
                              [] OTHER -> @]

\* ~ClientTransaction
Finish(t) ==
  /\ Moves(t, "answered", "idle")
  /\ lock' = Nobody
  /\ After(t)
  /\ UNCHANGED <<socket, region, cancelled, modify, drop, op, user, facts>>

\* ... if the dispatcher is gone: the connection is closed
Broken(t) ==
  /\ Moves(t, "sent", "idle")
  /\ disp[conn] # "serving"
  /\ conn' = 0
  /\ lock' = Nobody
  /\ dir' = IF op[t] = "close" THEN [dir EXCEPT ![t] = 0] ELSE dir
  /\ UNCHANGED <<started, disp, path, region, cancelled, modify, drop, op, user, facts>>

-----------------------------------------------------------------------------
SudoNext ==
  \/ Drop
  \/ \E t \in Threads :
       \/ Enter(t) \/ Leave(t)
       \/ \E o \in {"read", "write", "open"} : Touch(t, o) \/ Launch(t, o)
       \/ AskToModify(t) \/ \E yes \in BOOLEAN : AnswerAsked(t, yes)
       \/ Opened(t) \/ NotOpened(t)
       \/ \E o \in {"list", "close"} : UseDir(t, o)
       \/ Begin(t) \/ Serve(t) \/ Finish(t) \/ Broken(t) \/ Password(t)
  \/ \E g \in Conns : Connect(g) \/ Disconnected(g) \/ Unlink(g) \/ Die(g)

SudoSpec == SudoInit /\ [][SudoNext]_sudoVars

\* The mutex is fair enough, the dispatcher runs, the user answers
SudoFairness ==
  /\ \A t \in Threads :
       /\ SF_sudoVars(Begin(t))
       /\ WF_sudoVars(Opened(t) \/ NotOpened(t) \/ Password(t))
       /\ WF_sudoVars(\E yes \in BOOLEAN : AnswerAsked(t, yes))
       /\ WF_sudoVars(Serve(t) \/ Finish(t) \/ Broken(t))
  /\ \A g \in Conns : WF_sudoVars(Connect(g) \/ Disconnected(g) \/ Unlink(g))

SudoFairSpec == SudoSpec /\ SudoFairness

-----------------------------------------------------------------------------
(* Properties                                                              *)

\* A thread that was told there is a connection finds one when it uses it: nobody closes
\* it while a thread is in a region.  Only the death of a dispatcher takes it away from
\* under a thread, and then s_uds is dereferenced although it is empty.
ConnectionLasts == \A t \in Threads : spc[t] = "crashed" => failed

\* A directory is read and closed by the dispatcher that has opened it.
DirsStayAtHome == astray => failed

\* A connection that was to be dropped is in use only while a region that was entered
\* before goes on, or another one that overlaps it.
DropIsPending == conn \in dropped => drop /\ SomeoneIn(region)

\* The connection as the counts of regions are to keep it (sudo_client.cpp).
ConnectionIsKept == ConnectionLasts /\ DirsStayAtHome /\ DropIsPending

\* "assume user confirmed also modify operation with this password": with confirmation on,
\* nothing is modified in a region unless the user was asked in it, one way or the other.
ModifiesAreConfirmed == ~unasked

\* Nobody waits for ever for the mutex, for sudo or for a dispatcher that is gone.
OperationsEnd ==
  \A t \in Threads : spc[t] # "idle" ~> spc[t] = "idle" \/ ~Alive

=============================================================================
