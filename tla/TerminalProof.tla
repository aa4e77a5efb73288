---------------------------- MODULE TerminalProof -----------------------------
(***************************************************************************)
(* Proofs about the parts between far2l and the terminal, each for itself. *)
(* TTYBackend, for any questions, threads and terminals: the types, that   *)
(* no question is forgotten and, until their numbers come round, that an   *)
(* answer is that to the question that waits for it.  SudoClient, for any  *)
(* threads, any number of dispatchers and whether or not they die: the     *)
(* types, that a connection is kept for those who count on it, and that    *)
(* nothing is modified unasked.  ConsoleInput, for any number of password  *)
(* prompts and any records: who sleeps has nothing to read, what is put    *)
(* aside comes back, a kick is replaced by something else to wake up for,  *)
(* and a test client's Sync tells the truth.                               *)
(***************************************************************************)
EXTENDS MCTerminal, RecursionProof, FiniteSetTheorems, TLAPS

-----------------------------------------------------------------------------
(* SudoClient                                                              *)

-----------------------------------------------------------------------------
(* The inductive invariant                                                 *)

\* Who is between two critical sections, or in one, is in a region: it cannot leave
InRegion ==
  \A t \in Threads : spc[t] # "idle" \/ dir[t] # 0 => region[t] > 0

\* The mutex is held from the start of a dispatcher, a question or a transaction to its end
Holds(t) == spc[t] \in {"opening", "confirm", "sent", "answered"}
LockIsHeld == \A t \in Threads : Holds(t) <=> lock = t

\* A dispatcher is started when there is no connection, and is the last one
OpeningIsLast ==
  \A t \in Threads : spc[t] = "opening" => conn = 0 /\ started # 0 /\ started \notin dropped

\* What was seen when the connection was looked for is still so
ConnectionServes == conn # 0 => disp[conn] = "serving" \/ failed
SentHasOne == \A t \in Threads : spc[t] = "sent" => conn # 0
TouchedHasOne ==
  \A t \in Threads : spc[t] \in {"confirm", "touched", "answered"} => conn # 0 \/ failed
DirIsOfConn ==
  \A t \in Threads : dir[t] # 0 => dir[t] = conn \/ failed
DirIsUsed ==
  \A t \in Threads : spc[t] # "idle" /\ op[t] \in {"list", "close"} => dir[t] # 0

DroppedWasStarted == \A g \in dropped : g \in 1 .. started

\* The answer is remembered as long as the region lasts
AllowedHasAgreed == \A t \in Threads : modify[t] = "allowed" => t \in agreed
WriterHasAgreed ==
  \A t \in Threads :
    spc[t] \in {"touched", "sent"} /\ op[t] = "write" /\ Confirms => t \in agreed

Shared == InRegion /\ LockIsHeld /\ OpeningIsLast
Served == ConnectionServes /\ SentHasOne /\ TouchedHasOne /\ DirIsOfConn /\ DirIsUsed
Asked  == AllowedHasAgreed /\ WriterHasAgreed

SudoIInv ==
  /\ SudoTypeOK
  /\ Shared /\ Served /\ Asked /\ DroppedWasStarted
  /\ ConnectionIsKept /\ ModifiesAreConfirmed

-----------------------------------------------------------------------------
\* In the beginning there is no connection, and nobody is in a region.
LEMMA InitInv == SudoInit => SudoIInv
<1>. SUFFICES ASSUME SudoInit PROVE SudoIInv
  OBVIOUS
<1>1. SudoTypeOK
  <2>1. /\ lock \in Threads \cup {Nobody}
        /\ conn \in 0 .. started /\ started \in 0 .. MaxConns /\ path \in 0 .. started
    BY SudoClientAssumption DEF SudoInit
  <2>2. drop \in BOOLEAN /\ astray \in BOOLEAN /\ unasked \in BOOLEAN /\ failed \in BOOLEAN
    BY Zenon DEF SudoInit
  <2>3. /\ region \in [Threads -> 0 .. 2] /\ dir \in [Threads -> 0 .. started]
        /\ disp \in [Conns -> {"none", "asking", "connecting", "serving", "ending", "over"}]
    BY DEF SudoInit
  <2>4. /\ modify \in [Threads -> {"undefined", "allowed", "denied"}]
        /\ spc \in [Threads -> {"idle", "opening", "confirm", "touched", "sent", "answered",
                                "crashed"}]
        /\ op \in [Threads -> {"read", "write", "open", "list", "close"}]
        /\ cancelled = {} /\ refused = {} /\ agreed = {} /\ dropped = {}
    BY DEF SudoInit
  <2>. QED
    BY <2>1, <2>2, <2>3, <2>4 DEF SudoTypeOK
<1>2. Shared /\ Served
  BY SudoClientAssumption DEF SudoInit, Shared, Served, InRegion, LockIsHeld, Holds, OpeningIsLast,
     ConnectionServes, SentHasOne, TouchedHasOne, DirIsOfConn, DirIsUsed
<1>3. Asked /\ DroppedWasStarted /\ ConnectionIsKept /\ ModifiesAreConfirmed
  BY DEF SudoInit, Asked, AllowedHasAgreed, WriterHasAgreed, DroppedWasStarted, ConnectionIsKept,
     ConnectionLasts, DirsStayAtHome, DropIsPending, ModifiesAreConfirmed
<1>. QED  BY <1>1, <1>2, <1>3 DEF SudoIInv

\* No step leaves the types.
LEMMA TypeStep == SudoTypeOK /\ [SudoNext]_sudoVars => SudoTypeOK'
<1>. SUFFICES ASSUME SudoTypeOK, [SudoNext]_sudoVars PROVE SudoTypeOK'
  OBVIOUS
<1>. USE SudoClientAssumption DEF SudoTypeOK, Conns, socket, user, facts, steady, around
<1>1. CASE Drop
  <2>1. dropped' \subseteq Conns
    BY <1>1 DEF Drop
  <2>2. conn' \in 0 .. started'
    BY <1>1 DEF Drop
  <2>3. drop' \in BOOLEAN
    BY <1>1, Zenon DEF Drop
  <2>. QED  BY <1>1, <2>1, <2>2, <2>3 DEF Drop
<1>2. ASSUME NEW t \in Threads, Enter(t) PROVE SudoTypeOK'
  <2>1. region' \in [Threads -> 0 .. 2]
    BY <1>2 DEF Enter
  <2>. QED  BY <1>2, <2>1 DEF Enter
<1>3. ASSUME NEW t \in Threads, Leave(t) PROVE SudoTypeOK'
  <2>1. conn' \in 0 .. started'
    BY <1>3 DEF Leave, CheckForClose, CloseHeedless
  <2>4. drop' \in BOOLEAN
    BY <1>3, Zenon DEF Leave, CheckForClose, CloseHeedless
  <2>2. region' \in [Threads -> 0 .. 2]
    BY <1>3 DEF Leave
  <2>3. /\ cancelled' \subseteq Threads /\ modify' \in [Threads -> {"undefined", "allowed", "denied"}]
        /\ refused' \subseteq Threads /\ agreed' \subseteq Threads
    BY <1>3 DEF Leave
  <2>. QED  BY <1>3, <2>1, <2>2, <2>3, <2>4 DEF Leave
<1>4. ASSUME NEW t \in Threads, NEW o \in {"read", "write", "open"}, Touch(t, o) PROVE SudoTypeOK'
  BY <1>4 DEF Touch, TouchWithoutConfirm, Wants, Moves
<1>5. ASSUME NEW t \in Threads, NEW o \in {"read", "write", "open"}, Launch(t, o) PROVE SudoTypeOK'
  BY <1>5 DEF Launch, Wants, Moves
<1>6. ASSUME NEW t \in Threads, AskToModify(t) PROVE SudoTypeOK'
  BY <1>6 DEF AskToModify, Wants, Moves
<1>7. ASSUME NEW t \in Threads, NEW yes \in BOOLEAN, AnswerAsked(t, yes) PROVE SudoTypeOK'
  BY <1>7 DEF AnswerAsked, Moves
<1>8. ASSUME NEW t \in Threads, Opened(t) PROVE SudoTypeOK'
  <2>1. modify' \in [Threads -> {"undefined", "allowed", "denied"}]
    BY <1>8 DEF Opened
  <2>3. agreed' \subseteq Threads
    BY <1>8 DEF Opened
  <2>2. conn' \in 0 .. started' /\ lock' = Nobody
    BY <1>8 DEF Opened
  <2>. QED  BY <1>8, <2>1, <2>2, <2>3 DEF Opened, Moves
<1>9. ASSUME NEW t \in Threads, NotOpened(t) PROVE SudoTypeOK'
  BY <1>9 DEF NotOpened, Moves
<1>10. ASSUME NEW t \in Threads, NEW o \in {"list", "close"}, UseDir(t, o) PROVE SudoTypeOK'
  BY <1>10 DEF UseDir, Moves
<1>11. ASSUME NEW t \in Threads, Begin(t) PROVE SudoTypeOK'
  BY <1>11 DEF Begin, Moves
<1>12. ASSUME NEW t \in Threads, Serve(t) PROVE SudoTypeOK'
  BY <1>12 DEF Serve, Moves
<1>13. ASSUME NEW t \in Threads, Finish(t) PROVE SudoTypeOK'
  BY <1>13 DEF Finish, After, Moves
<1>14. ASSUME NEW t \in Threads, Broken(t) PROVE SudoTypeOK'
  BY <1>14 DEF Broken, Moves
<1>15. ASSUME NEW t \in Threads, Password(t) PROVE SudoTypeOK'
  BY <1>15 DEF Password
<1>16. ASSUME NEW g \in Conns, Connect(g) \/ Disconnected(g) \/ Unlink(g) \/ Die(g) PROVE SudoTypeOK'
  <2>1. disp' \in [Conns -> {"none", "asking", "connecting", "serving", "ending", "over"}]
    BY <1>16 DEF Connect, Disconnected, Unlink, Die
  <2>2. failed' \in BOOLEAN
    BY <1>16, Zenon DEF Connect, Disconnected, Unlink, Die
  <2>3. /\ path' = path \/ path' = 0
        /\ UNCHANGED <<around, spc, user, dropped, astray, unasked>>
    BY <1>16 DEF Connect, Disconnected, Unlink, Die
  <2>. QED  BY <2>1, <2>2, <2>3
<1>17. CASE UNCHANGED sudoVars
  BY <1>17 DEF sudoVars
<1>. HIDE DEF SudoTypeOK
<1>. QED
  BY <1>1, <1>2, <1>3, <1>4, <1>5, <1>6, <1>7, <1>8, <1>9, <1>10, <1>11, <1>12, <1>13, <1>14,
     <1>15, <1>16, <1>17 DEF SudoNext

-----------------------------------------------------------------------------
(* What the actions do, as far as the invariant looks at it                *)

\* The connection is closed when the last region is left, and at no other time
LEMMA Closing ==
  ASSUME NEW r, CheckForClose(r)
  PROVE  \/ conn' = conn /\ (drop' <=> drop) /\ (SomeoneIn(r) \/ ~drop)
         \/ conn' = 0 /\ ~SomeoneIn(r)
BY DEF CheckForClose, CloseHeedless

\* A dispatcher, or sudo before it, moves by itself
DispatcherStep ==
  \/ \E t \in Threads : Password(t)
  \/ \E g \in Conns : Connect(g) \/ Disconnected(g) \/ Unlink(g) \/ Die(g)

\* Dispatchers leave the client alone, and one that serves goes on serving unless it dies
LEMMA DispatcherMoves ==
  ASSUME SudoTypeOK, DispatcherStep
  PROVE  /\ UNCHANGED <<lock, conn, started, region, modify, drop, spc, op, dir, agreed, dropped>>
         /\ (astray' <=> astray) /\ (unasked' <=> unasked) /\ (failed => failed')
         /\ conn # 0 /\ disp[conn] = "serving" => disp'[conn] = "serving" \/ failed'
<1>. DEFINE D == {"none", "asking", "connecting", "serving", "ending", "over"}
<1>. disp \in [Conns -> D] /\ (conn # 0 => conn \in Conns)
  BY SudoClientAssumption DEF SudoTypeOK, Conns
<1>1. ASSUME NEW t \in Threads, Password(t)
      PROVE  conn # 0 /\ disp[conn] = "serving" => disp'[conn] = "serving"
  BY <1>1 DEF Password
<1>2. ASSUME NEW g \in Conns, Connect(g) \/ Disconnected(g) \/ Unlink(g)
      PROVE  conn # 0 /\ disp[conn] = "serving" => disp'[conn] = "serving"
  BY <1>2 DEF Connect, Disconnected, Unlink
<1>3. (\E g \in Conns : Die(g)) => failed'
  BY DEF Die
<1>. QED
  BY <1>1, <1>2, <1>3
     DEF DispatcherStep, Password, Connect, Disconnected, Unlink, Die, around, user, facts

\* Only who is idle, and has no directory open, is outside of all regions
LEMMA Entering ==
  ASSUME SudoTypeOK, NEW t \in Threads, Enter(t), SomeoneIn(region)
  PROVE  SomeoneIn(region')
BY DEF SudoTypeOK, Enter, SomeoneIn

\* The last SudoClientRegion to leave finds every thread idle and no directory open.
LEMMA Leaving ==
  ASSUME SudoTypeOK, InRegion, NEW t \in Threads, Leave(t), ~SomeoneIn(region'), NEW u \in Threads
  PROVE  spc[u] = "idle" /\ dir[u] = 0
<1>1. CASE u = t
  BY <1>1 DEF Leave
<1>2. CASE u # t
  <2>1. region'[u] = region[u]
    BY <1>2 DEF SudoTypeOK, Leave
  <2>. QED  BY <2>1 DEF InRegion, SomeoneIn
<1>. QED  BY <1>1, <1>2

-----------------------------------------------------------------------------
(* The steps                                                               *)

\* Regions are left, and the mutex given back, when nothing is under way.
LEMMA SharedStep ==
  ASSUME SudoTypeOK, Shared, DroppedWasStarted, [SudoNext]_sudoVars
  PROVE  Shared' /\ DroppedWasStarted'
<1>. USE SudoClientAssumption DEF SudoTypeOK, Conns, Shared, InRegion, LockIsHeld, Holds, OpeningIsLast, DroppedWasStarted, socket, user, facts
<1>1. CASE DispatcherStep
  BY <1>1, DispatcherMoves
<1>2. CASE Drop
  BY <1>2 DEF Drop
<1>3. ASSUME NEW t \in Threads, Enter(t) PROVE Shared' /\ DroppedWasStarted'
  BY <1>3 DEF Enter
<1>4. ASSUME NEW t \in Threads, Leave(t) PROVE Shared' /\ DroppedWasStarted'
  BY <1>4 DEF Leave, CheckForClose, CloseHeedless
<1>5. ASSUME NEW t \in Threads, NEW o \in {"read", "write", "open"}, Touch(t, o) PROVE Shared' /\ DroppedWasStarted'
  BY <1>5 DEF Touch, TouchWithoutConfirm, Wants, Moves, steady
<1>6. ASSUME NEW t \in Threads, NEW o \in {"read", "write", "open"}, Launch(t, o) PROVE Shared' /\ DroppedWasStarted'
  BY <1>6 DEF Launch, Wants, Moves, steady
<1>7. ASSUME NEW t \in Threads, AskToModify(t) PROVE Shared' /\ DroppedWasStarted'
  BY <1>7 DEF AskToModify, Wants, Moves, steady
<1>8. ASSUME NEW t \in Threads, NEW yes \in BOOLEAN, AnswerAsked(t, yes) PROVE Shared' /\ DroppedWasStarted'
  BY <1>8 DEF AnswerAsked, Moves, steady
<1>9. ASSUME NEW t \in Threads, Opened(t) PROVE Shared' /\ DroppedWasStarted'
  BY <1>9 DEF Opened, Moves, steady
<1>10. ASSUME NEW t \in Threads, NotOpened(t) PROVE Shared' /\ DroppedWasStarted'
  BY <1>10 DEF NotOpened, Moves
<1>11. ASSUME NEW t \in Threads, NEW o \in {"list", "close"}, UseDir(t, o) PROVE Shared' /\ DroppedWasStarted'
  BY <1>11 DEF UseDir, Moves, steady
<1>12. ASSUME NEW t \in Threads, Begin(t) PROVE Shared' /\ DroppedWasStarted'
  BY <1>12 DEF Begin, Moves, steady
<1>13. ASSUME NEW t \in Threads, Serve(t) PROVE Shared' /\ DroppedWasStarted'
  BY <1>13 DEF Serve, Moves, around
<1>14. ASSUME NEW t \in Threads, Finish(t) PROVE Shared' /\ DroppedWasStarted'
  BY <1>14 DEF Finish, After, Moves
<1>15. ASSUME NEW t \in Threads, Broken(t) PROVE Shared' /\ DroppedWasStarted'
  BY <1>15 DEF Broken, Moves
<1>16. CASE UNCHANGED sudoVars
  BY <1>16 DEF sudoVars
<1>. QED
  BY <1>1, <1>2, <1>3, <1>4, <1>5, <1>6, <1>7, <1>8, <1>9, <1>10, <1>11, <1>12, <1>13, <1>14, <1>15, <1>16 DEF SudoNext, DispatcherStep

\* What a thread has looked up lasts.
LEMMA ServedStep ==
  ASSUME SudoTypeOK, Shared, Served, [SudoNext]_sudoVars
  PROVE  Served'
<1>. USE SudoClientAssumption DEF SudoTypeOK, Conns, Shared, InRegion, LockIsHeld, Holds, OpeningIsLast, Served, ConnectionServes, SentHasOne, TouchedHasOne, DirIsOfConn, DirIsUsed, socket, user, facts
<1>1. CASE DispatcherStep
  BY <1>1, DispatcherMoves
<1>2. CASE Drop
  BY <1>2 DEF Drop, SomeoneIn
<1>3. ASSUME NEW t \in Threads, Enter(t) PROVE Served'
  BY <1>3 DEF Enter
<1>4. ASSUME NEW t \in Threads, Leave(t) PROVE Served'
  <2>1. CASE conn' = 0 /\ ~SomeoneIn(region')
    BY <1>4, <2>1, Leaving DEF Leave
  <2>2. CASE conn' = conn
    BY <1>4, <2>2 DEF Leave
  <2>. QED  BY <1>4, <2>1, <2>2, Closing DEF Leave
<1>5. ASSUME NEW t \in Threads, NEW o \in {"read", "write", "open"}, Touch(t, o) PROVE Served'
  BY <1>5 DEF Touch, TouchWithoutConfirm, Wants, Moves, steady
<1>6. ASSUME NEW t \in Threads, NEW o \in {"read", "write", "open"}, Launch(t, o) PROVE Served'
  BY <1>6 DEF Launch, Wants, Moves, steady
<1>7. ASSUME NEW t \in Threads, AskToModify(t) PROVE Served'
  BY <1>7 DEF AskToModify, Wants, Moves, steady
<1>8. ASSUME NEW t \in Threads, NEW yes \in BOOLEAN, AnswerAsked(t, yes) PROVE Served'
  BY <1>8 DEF AnswerAsked, Moves, steady
<1>9. ASSUME NEW t \in Threads, Opened(t) PROVE Served'
  BY <1>9 DEF Opened, Moves, steady
<1>10. ASSUME NEW t \in Threads, NotOpened(t) PROVE Served'
  BY <1>10 DEF NotOpened, Moves
<1>11. ASSUME NEW t \in Threads, NEW o \in {"list", "close"}, UseDir(t, o) PROVE Served'
  BY <1>11 DEF UseDir, Moves, steady
<1>12. ASSUME NEW t \in Threads, Begin(t) PROVE Served'
  BY <1>12 DEF Begin, Moves, steady
<1>13. ASSUME NEW t \in Threads, Serve(t) PROVE Served'
  BY <1>13 DEF Serve, Moves, around
<1>14. ASSUME NEW t \in Threads, Finish(t) PROVE Served'
  BY <1>14 DEF Finish, After, Moves
<1>15. ASSUME NEW t \in Threads, Broken(t) PROVE Served'
  BY <1>15 DEF Broken, Moves
<1>16. CASE UNCHANGED sudoVars
  BY <1>16 DEF sudoVars
<1>. QED
  BY <1>1, <1>2, <1>3, <1>4, <1>5, <1>6, <1>7, <1>8, <1>9, <1>10, <1>11, <1>12, <1>13, <1>14, <1>15, <1>16 DEF SudoNext, DispatcherStep

\* The user's answer is taken for the region it was given in.
LEMMA AskedStep ==
  ASSUME SudoTypeOK, Shared, Asked, [SudoNext]_sudoVars
  PROVE  Asked'
<1>. USE SudoClientAssumption DEF SudoTypeOK, Shared, InRegion, Asked, AllowedHasAgreed, WriterHasAgreed, socket, user, facts
<1>1. CASE DispatcherStep
  BY <1>1, DispatcherMoves
<1>2. CASE Drop
  BY <1>2 DEF Drop
<1>3. ASSUME NEW t \in Threads, Enter(t) PROVE Asked'
  BY <1>3 DEF Enter
<1>4. ASSUME NEW t \in Threads, Leave(t) PROVE Asked'
  BY <1>4 DEF Leave, CheckForClose, CloseHeedless
<1>5. ASSUME NEW t \in Threads, NEW o \in {"read", "write", "open"}, Touch(t, o) PROVE Asked'
  BY <1>5 DEF Touch, TouchWithoutConfirm, Wants, Moves, steady
<1>6. ASSUME NEW t \in Threads, NEW o \in {"read", "write", "open"}, Launch(t, o) PROVE Asked'
  BY <1>6 DEF Launch, Wants, Moves, steady
<1>7. ASSUME NEW t \in Threads, AskToModify(t) PROVE Asked'
  BY <1>7 DEF AskToModify, Wants, Moves, steady
<1>8. ASSUME NEW t \in Threads, NEW yes \in BOOLEAN, AnswerAsked(t, yes) PROVE Asked'
  BY <1>8 DEF AnswerAsked, Moves, steady
<1>9. ASSUME NEW t \in Threads, Opened(t) PROVE Asked'
  BY <1>9 DEF Opened, Moves, steady
<1>10. ASSUME NEW t \in Threads, NotOpened(t) PROVE Asked'
  BY <1>10 DEF NotOpened, Moves
<1>11. ASSUME NEW t \in Threads, NEW o \in {"list", "close"}, UseDir(t, o) PROVE Asked'
  BY <1>11 DEF UseDir, Moves, steady
<1>12. ASSUME NEW t \in Threads, Begin(t) PROVE Asked'
  BY <1>12 DEF Begin, Moves, steady
<1>13. ASSUME NEW t \in Threads, Serve(t) PROVE Asked'
  BY <1>13 DEF Serve, Moves, around
<1>14. ASSUME NEW t \in Threads, Finish(t) PROVE Asked'
  BY <1>14 DEF Finish, After, Moves
<1>15. ASSUME NEW t \in Threads, Broken(t) PROVE Asked'
  BY <1>15 DEF Broken, Moves
<1>16. CASE UNCHANGED sudoVars
  BY <1>16 DEF sudoVars
<1>. QED
  BY <1>1, <1>2, <1>3, <1>4, <1>5, <1>6, <1>7, <1>8, <1>9, <1>10, <1>11, <1>12, <1>13, <1>14, <1>15, <1>16 DEF SudoNext, DispatcherStep

\* The properties themselves.
LEMMA MainStep ==
  ASSUME SudoIInv, [SudoNext]_sudoVars
  PROVE  ConnectionIsKept' /\ ModifiesAreConfirmed'
<1>. USE SudoClientAssumption DEF SudoIInv, SudoTypeOK, Conns, Shared, InRegion, LockIsHeld, Holds, OpeningIsLast, Served, ConnectionServes, SentHasOne, TouchedHasOne, DirIsOfConn, DirIsUsed, Asked, WriterHasAgreed, DroppedWasStarted, ConnectionIsKept, ConnectionLasts, DirsStayAtHome, DropIsPending, ModifiesAreConfirmed, SomeoneIn, socket, user, facts
<1>1. CASE DispatcherStep
  BY <1>1, DispatcherMoves
<1>2. CASE Drop
  BY <1>2 DEF Drop
<1>3. ASSUME NEW t \in Threads, Enter(t) PROVE ConnectionIsKept' /\ ModifiesAreConfirmed'
  BY <1>3, Entering DEF Enter
<1>4. ASSUME NEW t \in Threads, Leave(t) PROVE ConnectionIsKept' /\ ModifiesAreConfirmed'
  BY <1>4 DEF Leave, CheckForClose, CloseHeedless
<1>5. ASSUME NEW t \in Threads, NEW o \in {"read", "write", "open"}, Touch(t, o) PROVE ConnectionIsKept' /\ ModifiesAreConfirmed'
  BY <1>5 DEF Touch, TouchWithoutConfirm, Wants, Moves, steady
<1>6. ASSUME NEW t \in Threads, NEW o \in {"read", "write", "open"}, Launch(t, o) PROVE ConnectionIsKept' /\ ModifiesAreConfirmed'
  BY <1>6 DEF Launch, Wants, Moves, steady
<1>7. ASSUME NEW t \in Threads, AskToModify(t) PROVE ConnectionIsKept' /\ ModifiesAreConfirmed'
  BY <1>7 DEF AskToModify, Wants, Moves, steady
<1>8. ASSUME NEW t \in Threads, NEW yes \in BOOLEAN, AnswerAsked(t, yes) PROVE ConnectionIsKept' /\ ModifiesAreConfirmed'
  BY <1>8 DEF AnswerAsked, Moves, steady
<1>9. ASSUME NEW t \in Threads, Opened(t) PROVE ConnectionIsKept' /\ ModifiesAreConfirmed'
  BY <1>9 DEF Opened, Moves, steady
<1>10. ASSUME NEW t \in Threads, NotOpened(t) PROVE ConnectionIsKept' /\ ModifiesAreConfirmed'
  BY <1>10 DEF NotOpened, Moves
<1>11. ASSUME NEW t \in Threads, NEW o \in {"list", "close"}, UseDir(t, o) PROVE ConnectionIsKept' /\ ModifiesAreConfirmed'
  BY <1>11 DEF UseDir, Moves, steady
<1>12. ASSUME NEW t \in Threads, Begin(t) PROVE ConnectionIsKept' /\ ModifiesAreConfirmed'
  BY <1>12 DEF Begin, Moves, steady
<1>13. ASSUME NEW t \in Threads, Serve(t) PROVE ConnectionIsKept' /\ ModifiesAreConfirmed'
  BY <1>13 DEF Serve, Moves, around
<1>14. ASSUME NEW t \in Threads, Finish(t) PROVE ConnectionIsKept' /\ ModifiesAreConfirmed'
  BY <1>14 DEF Finish, After, Moves
<1>15. ASSUME NEW t \in Threads, Broken(t) PROVE ConnectionIsKept' /\ ModifiesAreConfirmed'
  BY <1>15 DEF Broken, Moves
<1>16. CASE UNCHANGED sudoVars
  BY <1>16 DEF sudoVars
<1>. QED
  BY <1>1, <1>2, <1>3, <1>4, <1>5, <1>6, <1>7, <1>8, <1>9, <1>10, <1>11, <1>12, <1>13, <1>14, <1>15, <1>16 DEF SudoNext, DispatcherStep

\* All parts together are inductive.
LEMMA SudoStepInv == SudoIInv /\ [SudoNext]_sudoVars => SudoIInv'
BY TypeStep, SharedStep, ServedStep, AskedStep, MainStep DEF SudoIInv

-----------------------------------------------------------------------------
(* What follows                                                            *)

\* The invariant holds in every state of the client and its dispatchers.
THEOREM SudoInvariance == SudoSpec => []SudoIInv
BY InitInv, SudoStepInv, PTL DEF SudoSpec

\* Each variable keeps to its type: connections are numbered up to the last dispatcher
\* OpenClientConnection has started.
THEOREM SudoTypeCorrect == SudoSpec => []SudoTypeOK
<1>1. SudoIInv => SudoTypeOK
  BY DEF SudoIInv
<1>. QED  BY <1>1, SudoInvariance, PTL

\* sudo_client.cpp:368: what TouchClientConnection saw is there for ClientTransaction
\* unless a dispatcher died, directories are asked of the dispatcher that opened them,
\* and a connection dropped by sudo_client_drop outlives no region.
THEOREM ConnectionKept == SudoSpec => []ConnectionIsKept
<1>1. SudoIInv => ConnectionIsKept
  BY DEF SudoIInv
<1>. QED  BY <1>1, SudoInvariance, PTL

\* sudo_client.cpp:393: a modifying transaction is served only for a thread whose user has
\* agreed in the same region, by ClientConfirm or by giving the password.
THEOREM Confirmed == SudoSpec => []ModifiesAreConfirmed
<1>1. SudoIInv => ModifiesAreConfirmed
  BY DEF SudoIInv
<1>. QED  BY <1>1, SudoInvariance, PTL

\* With dispatchers that live until their client closes the connection, ClientTransaction
\* never dereferences an empty s_uds.
THEOREM NobodyCrashes ==
  ASSUME ~MayFail
  PROVE  SudoSpec => []Alive
<1>1. SudoInit => ~failed
  BY DEF SudoInit
<1>2. ~failed /\ [SudoNext]_sudoVars => ~failed'
  <2>. SUFFICES ASSUME ~failed, [SudoNext]_sudoVars PROVE ~failed'
    OBVIOUS
  <2>1. \A g \in Conns : ~Die(g)
    BY DEF Die
  <2>. QED
    BY <2>1, Zenon DEF SudoNext, sudoVars, facts, Drop, Enter, Leave, Touch, TouchWithoutConfirm,
       Launch, AskToModify, AnswerAsked, Opened, NotOpened, UseDir, Begin, Serve, Finish,
       Broken, Password, Connect, Disconnected, Unlink
<1>3. SudoIInv /\ ~failed => Alive
  BY DEF SudoIInv, ConnectionIsKept, ConnectionLasts, Alive
<1>. QED  BY <1>1, <1>2, <1>3, SudoInvariance, PTL DEF SudoSpec

-----------------------------------------------------------------------------
(* TTYBackend                                                              *)

\* The questions of a queue that come after the first k of it; of the others nobody waits.
Rest(l, k) == {j \in k + 1 .. Len(l) : l[j] # Note}

\* An asker waits for the very question that is there
Awaited(ca, ask) == ca[ask.who].answer = Pending /\ ca[ask.who].serial = ask.serial

\* Every question on its way has an asker who waits for it, and is in one place: among those
\* sent, in the writer's hands from after the first k on, or in the queue.  And who waits
\* has one on its way.
OnePlace(se, m, k, q, ca) ==
  /\ \A i \in DOMAIN se : se[i].who \in TTYThreads /\ Awaited(ca, se[i])
  /\ \A i \in Rest(m, k) : m[i].who \in TTYThreads /\ Awaited(ca, m[i])
  /\ \A i \in Rest(q, 0) : q[i].who \in TTYThreads /\ Awaited(ca, q[i])
  /\ \A i, j \in DOMAIN se : se[i].who = se[j].who => i = j
  /\ \A i, j \in Rest(m, k) : m[i].who = m[j].who => i = j
  /\ \A i, j \in Rest(q, 0) : q[i].who = q[j].who => i = j
  /\ \A i \in DOMAIN se : \A j \in Rest(m, k) : se[i].who # m[j].who
  /\ \A i \in DOMAIN se : \A j \in Rest(q, 0) : se[i].who # q[j].who
  /\ \A i \in Rest(m, k) : \A j \in Rest(q, 0) : m[i].who # q[j].who
  /\ \A t \in TTYThreads : ca[t].answer = Pending =>
       \/ \E i \in DOMAIN se : se[i].who = t
       \/ \E i \in Rest(m, k) : m[i].who = t
       \/ \E i \in Rest(q, 0) : q[i].who = t

\* As long as there have been no more questions than numbers, the number of a question is
\* that of its turn: those not sent yet are the last ones, in the order of the queue.
InTurn(se, id, m, k, q, n) ==
  /\ id <= n
  /\ \A i \in DOMAIN se : se[i].serial = i /\ i <= id
  /\ {m[j].serial : j \in Rest(m, k)} \cup {q[j].serial : j \in Rest(q, 0)} = id + 1 .. n
  /\ \A i, j \in Rest(m, k) : i < j => m[i].serial < m[j].serial
  /\ \A i, j \in Rest(q, 0) : i < j => q[i].serial < q[j].serial
  /\ \A i \in Rest(m, k) : \A j \in Rest(q, 0) : m[i].serial < q[j].serial

\* The first number after the last one that is in use, as the loop finds it.
LEMMA NextIdIs ==
  ASSUME MaxSent \in Nat, NEW last \in 0 .. MaxSent, NEW used \in SUBSET (1 .. MaxSent),
         Cardinality(used) < MaxSent
  PROVE  /\ NextId(last, used) \in (1 .. MaxSent) \ used
         /\ last + 1 \in (1 .. MaxSent) \ used => NextId(last, used) = last + 1
<1>. DEFINE after(k) == (last + k) % (MaxSent + 1)
            free(k)  == after(k) # 0 /\ after(k) \notin used
            T        == {k \in 1 .. MaxSent + 1 : free(k)}
<1>1. IsFiniteSet(1 .. MaxSent) /\ Cardinality(1 .. MaxSent) = MaxSent
  BY FS_Interval
<1>2. PICK x \in 1 .. MaxSent : x \notin used
  <2>1. ASSUME 1 .. MaxSent \subseteq used PROVE FALSE
    <3>1. used = 1 .. MaxSent
      BY <2>1
    <3>. QED  BY ONLY <3>1, <1>1, Cardinality(used) < MaxSent, MaxSent \in Nat
  <2>. QED  BY <2>1
<1>3. \A k \in 1 .. MaxSent + 1 :
        after(k) = IF last + k <= MaxSent THEN last + k ELSE last + k - (MaxSent + 1)
  OBVIOUS
<1>. HIDE DEF after
<1>4. T # {}
  <2>1. CASE x > last
    <3>1. x - last \in 1 .. MaxSent + 1 /\ after(x - last) = x
      BY <2>1, <1>3
    <3>. QED  BY <3>1, <1>2
  <2>2. CASE x <= last
    <3>1. x + MaxSent + 1 - last \in 1 .. MaxSent + 1 /\ after(x + MaxSent + 1 - last) = x
      BY <2>2, <1>3
    <3>. QED  BY <3>1, <1>2
  <2>. QED  BY <2>1, <2>2
<1>5. T \in SUBSET Nat
  OBVIOUS
<1>. HIDE DEF T
<1>6. PICK k \in T : \A j \in T : k <= j
  BY <1>4, <1>5, LeastOf
<1>. DEFINE first(y) == free(y) /\ \A j \in 1 .. y - 1 : ~free(j)
<1>7. k \in 1 .. MaxSent + 1 /\ first(k)
  BY <1>6 DEF T
<1>8. PICK c : c = CHOOSE y \in 1 .. MaxSent + 1 : first(y)
  OBVIOUS
<1>9. c \in 1 .. MaxSent + 1 /\ first(c)
  <2>. HIDE DEF first
  <2>. QED  BY ONLY <1>7, <1>8
<1>10. NextId(last, used) = after(c)
  BY <1>8 DEF NextId, after
<1>11. after(c) \in 0 .. MaxSent
  BY <1>3, <1>9
<1>12. after(c) \in (1 .. MaxSent) \ used
  BY <1>9, <1>11
<1>13. ASSUME last + 1 \in (1 .. MaxSent) \ used PROVE after(c) = last + 1
  <2>1. 1 \in 1 .. MaxSent + 1 /\ after(1) = last + 1
    BY <1>3, <1>13
  <2>2. free(1)
    BY <2>1, <1>13
  <2>3. c = 1
    BY <2>2, <1>9
  <2>. QED  BY <2>1, <2>3
<1>. QED  BY <1>10, <1>12, <1>13

SentMaps == UNION {[D -> Asks] : D \in SUBSET Ids}
Calls    == [TTYThreads -> [serial : Serials \cup {0}, answer : {None, Pending, Cleared} \cup Serials]]
Messages == [id : Ids, serial : Serials]

\* What the loop of DispatchFar2lInteract works on
SendStates ==
  [full : BOOLEAN, sent : SentMaps, id : 0 .. MaxSent, wire : SUBSET Messages, call : Calls]

\* Those sent have numbers of a byte.
LEMMA SentIs ==
  ASSUME TTYBackendAssumption, NEW se \in SentMaps
  PROVE  /\ DOMAIN se \in SUBSET Ids /\ \A i \in DOMAIN se : se[i] \in Asks
         /\ IsFiniteSet(DOMAIN se) /\ Cardinality(DOMAIN se) \in Nat
<1>1. PICK D \in SUBSET Ids : se \in [D -> Asks]
  BY DEF SentMaps
<1>2. D \in SUBSET (1 .. MaxSent) /\ IsFiniteSet(1 .. MaxSent)
  BY FS_Interval, TTYBackendAssumption DEF Ids, TTYBackendAssumption
<1>3. IsFiniteSet(D)
  BY <1>2, FS_Subset
<1>4. Cardinality(D) \in Nat
  BY <1>3, FS_CardinalityType
<1>. QED  BY <1>1, <1>3, <1>4

\* Those sent, with one more.
LEMMA SentMore ==
  ASSUME NEW se \in SentMaps, NEW id \in Ids, NEW ask \in Asks, NEW new,
         new = [i \in DOMAIN se \cup {id} |-> IF i = id THEN ask ELSE se[i]]
  PROVE  /\ new \in SentMaps /\ DOMAIN new = DOMAIN se \cup {id} /\ new[id] = ask
         /\ \A i \in DOMAIN se : i # id => new[i] = se[i]
<1>1. PICK D \in SUBSET Ids : se \in [D -> Asks]
  BY DEF SentMaps
<1>2. new \in [D \cup {id} -> Asks]
  BY <1>1
<1>. QED  BY <1>1, <1>2 DEF SentMaps

\* A question is sent under a number that none of those sent has.
SentAs(s, ask, id, z) ==
  /\ id \in Ids \ DOMAIN s.sent /\ z.full = FALSE /\ z.id = id /\ z.call = s.call
  /\ DOMAIN z.sent = DOMAIN s.sent \cup {id} /\ z.sent[id] = ask
  /\ \A i \in DOMAIN s.sent : z.sent[i] = s.sent[i]
  /\ z.wire \subseteq s.wire \cup {[id |-> id, serial |-> ask.serial]}

\* One pass of the loop.
LEMMA SendOneIs ==
  ASSUME TTYBackendAssumption, NEW s \in SendStates, NEW ask \in Asks \cup {Note}
  PROVE  /\ SendOne(s, ask) \in SendStates
         /\ ask = Note => SendOne(s, ask) = s
         /\ ask # Note /\ ~s.full /\ Cardinality(DOMAIN s.sent) < MaxSent =>
              SentAs(s, ask, NextId(s.id, DOMAIN s.sent), SendOne(s, ask))
<1>1. /\ s.full \in BOOLEAN /\ s.sent \in SentMaps /\ s.id \in 0 .. MaxSent
      /\ s.wire \in SUBSET Messages /\ s.call \in Calls
  BY DEF SendStates
<1>2. CASE s.full \/ ask = Note
  <2>1. SendOne(s, ask) = s
    BY <1>2 DEF SendOne
  <2>. QED  BY <1>2, <2>1
<1>. DEFINE full == Cardinality(DOMAIN s.sent) >= MaxSent
<1>3. CASE ~s.full /\ ask # Note /\ full
  <2>1. SendOne(s, ask) = [s EXCEPT !.full = TRUE, !.call[ask.who].answer = Cleared]
    BY <1>3 DEF SendOne
  <2>2. ask.who \in TTYThreads
    BY <1>3 DEF Asks
  <2>3. PICK c : c = [s.call EXCEPT ![ask.who].answer = Cleared]
    OBVIOUS
  <2>4. c \in Calls
    BY <1>1, <2>2, <2>3 DEF Calls
  <2>5. SendOne(s, ask) = [s EXCEPT !.full = TRUE, !.call = c]
    BY <2>1, <2>3
  <2>6. SendOne(s, ask) \in SendStates
    BY <2>4, <2>5, <1>1 DEF SendStates
  <2>7. ~(Cardinality(DOMAIN s.sent) < MaxSent)
    <3>1. Cardinality(DOMAIN s.sent) \in Nat /\ MaxSent \in Nat
      BY <1>1, SentIs DEF TTYBackendAssumption
    <3>. QED  BY <1>3, <3>1
  <2>. QED  BY <1>3, <2>6, <2>7
<1>4. CASE ~s.full /\ ask # Note /\ ~full
  <2>. DEFINE id == NextId(s.id, DOMAIN s.sent)
  <2>1. ask \in Asks
    BY <1>4
  <2>3. Ids = 1 .. MaxSent /\ MaxSent \in Nat
    BY TTYBackendAssumption DEF Ids, TTYBackendAssumption
  <2>4. DOMAIN s.sent \in SUBSET Ids /\ Cardinality(DOMAIN s.sent) \in Nat
    BY <1>1, SentIs
  <2>5. Cardinality(DOMAIN s.sent) < MaxSent
    BY <1>4, <2>3, <2>4
  <2>6. id \in Ids \ DOMAIN s.sent
    BY <1>1, <2>3, <2>4, <2>5, NextIdIs
  <2>. HIDE DEF id
  <2>7. PICK new : new = [i \in DOMAIN s.sent \cup {id} |-> IF i = id THEN ask ELSE s.sent[i]]
    OBVIOUS
  <2>8. new \in SentMaps
    <3>1. PICK se \in SentMaps : se = s.sent
      BY <1>1
    <3>2. new = [i \in DOMAIN se \cup {id} |-> IF i = id THEN ask ELSE se[i]]
      BY <2>7, <3>1
    <3>. QED  BY <2>1, <2>6, <3>2, SentMore
  <2>9. PICK more : more = IF term.alive /\ term.far2l THEN {[id |-> id, serial |-> ask.serial]} ELSE {}
    OBVIOUS
  <2>10. SendOne(s, ask) = [s EXCEPT !.id = id, !.sent = new, !.wire = @ \cup more]
    BY <1>4, <2>7, <2>9 DEF SendOne, id
  <2>11. more \subseteq {[id |-> id, serial |-> ask.serial]}
    BY <2>9
  <2>12. [id |-> id, serial |-> ask.serial] \in Messages
    BY <2>1, <2>6 DEF Messages, Asks
  <2>13. PICK wi : wi = s.wire \cup more
    OBVIOUS
  <2>14. wi \in SUBSET Messages
    BY <1>1, <2>11, <2>12, <2>13
  <2>15. PICK z : z = [s EXCEPT !.id = id, !.sent = new, !.wire = wi]
    OBVIOUS
  <2>16. SendOne(s, ask) = z
    BY <2>10, <2>13, <2>15
  <2>17. /\ z \in SendStates /\ z.full = s.full /\ z.id = id /\ z.call = s.call /\ z.sent = new
         /\ z.wire = wi
    <3>1. z = [full |-> s.full, sent |-> new, id |-> id, wire |-> wi, call |-> s.call]
      BY <2>15 DEF SendStates
    <3>2. id \in 0 .. MaxSent
      BY <2>6, <2>3
    <3>. QED  BY <3>1, <3>2, <2>8, <2>14, <1>1 DEF SendStates
  <2>18. /\ DOMAIN new = DOMAIN s.sent \cup {id} /\ new[id] = ask
         /\ \A i \in DOMAIN s.sent : new[i] = s.sent[i]
    BY <2>6, <2>7
  <2>19. SentAs(s, ask, id, z)
    BY <1>4, <2>6, <2>11, <2>13, <2>17, <2>18 DEF SentAs
  <2>. QED  BY <1>4, <2>16, <2>17, <2>19 DEF id
<1>. QED  BY <1>1, <1>2, <1>3, <1>4

\* What is left of a queue when one more of it is done.
LEMMA RestIs ==
  ASSUME NEW m \in Seq(Asks \cup {Note}), NEW k \in 1 .. Len(m)
  PROVE  /\ Rest(m, k) \subseteq Rest(m, k - 1) /\ k \notin Rest(m, k)
         /\ \A j \in Rest(m, k) : j \in 1 .. Len(m) /\ k < j /\ m[j] \in Asks
         /\ m[k] = Note => Rest(m, k - 1) = Rest(m, k)
         /\ m[k] # Note => Rest(m, k - 1) = Rest(m, k) \cup {k} /\ m[k] \in Asks
<1>1. Len(m) \in Nat /\ \A j \in 1 .. Len(m) : m[j] \in Asks \cup {Note}
  OBVIOUS
<1>2. k + 1 .. Len(m) \subseteq k .. Len(m) /\ k .. Len(m) = (k + 1 .. Len(m)) \cup {k}
  BY <1>1
<1>3. (k - 1) + 1 = k
  OBVIOUS
<1>4. Rest(m, k - 1) = {j \in k .. Len(m) : m[j] # Note}
  BY <1>3 DEF Rest
<1>5. Rest(m, k) = {j \in k + 1 .. Len(m) : m[j] # Note}
  BY DEF Rest
<1>6. \A j \in k + 1 .. Len(m) : j \in 1 .. Len(m) /\ k < j
  OBVIOUS
<1>. QED  BY <1>1, <1>2, <1>4, <1>5, <1>6

\* With a question still to be sent, the other asker may have sent one at most.
LEMMA NeverFull ==
  ASSUME TTYBackendAssumption, NEW se \in SentMaps, NEW who \in TTYThreads,
         \A i \in DOMAIN se : se[i].who \in TTYThreads /\ se[i].who # who,
         \A i, j \in DOMAIN se : se[i].who = se[j].who => i = j
  PROVE  Cardinality(DOMAIN se) < MaxSent
<1>1. IsFiniteSet(DOMAIN se) /\ Cardinality(DOMAIN se) \in Nat /\ MaxSent \in Nat /\ MaxSent >= 2
  BY SentIs DEF TTYBackendAssumption
<1>2. \A i, j \in DOMAIN se : i = j
  BY DEF TTYThreads
<1>3. CASE DOMAIN se = {}
  BY <1>1, <1>3, FS_EmptySet
<1>4. CASE DOMAIN se # {}
  <2>0. PICK j : j \in DOMAIN se
    BY <1>4
  <2>1. PICK i : DOMAIN se = {i}
    BY <1>2, <2>0, ZenonT(30)
  <2>2. Cardinality(DOMAIN se) = 1
    BY <2>1, FS_Singleton
  <2>. QED  BY <2>2, <1>1
<1>. QED  BY <1>3, <1>4

\* One pass of the loop moves a question from the writer's hands to those sent.
LEMMA SendPlace ==
  ASSUME TTYBackendAssumption, NEW s \in SendStates, NEW m \in Seq(Asks \cup {Note}),
         NEW k \in 1 .. Len(m), NEW q, NEW ca,
         s.full = FALSE, OnePlace(s.sent, m, k - 1, q, ca),
         NEW z, z = SendOne(s, m[k])
  PROVE  /\ z \in SendStates /\ z.full = FALSE /\ z.call = s.call
         /\ OnePlace(z.sent, m, k, q, ca)
         /\ m[k] # Note => Cardinality(DOMAIN s.sent) < MaxSent
<1>0. m[k] \in Asks \cup {Note} /\ s.sent \in SentMaps
  BY DEF SendStates
<1>1. z \in SendStates
  BY <1>0, SendOneIs
<1>2. CASE m[k] = Note
  <2>1. z = s
    BY <1>0, <1>2, SendOneIs
  <2>2. Rest(m, k - 1) = Rest(m, k)
    BY <1>2, RestIs
  <2>. QED  BY <1>1, <1>2, <2>1, <2>2 DEF OnePlace
<1>3. CASE m[k] # Note
  <2>1. /\ Rest(m, k - 1) = Rest(m, k) \cup {k} /\ k \notin Rest(m, k) /\ m[k] \in Asks
    BY <1>3, RestIs
  <2>2. PICK se \in SentMaps : se = s.sent
    BY <1>0
  <2>3. PICK ask \in Asks : ask = m[k]
    BY <2>1
  <2>4. /\ ask.who \in TTYThreads /\ Awaited(ca, ask)
        /\ \A i \in DOMAIN se : se[i].who # ask.who
        /\ \A i \in Rest(m, k) : m[i].who # ask.who
        /\ \A i \in Rest(q, 0) : q[i].who # ask.who
    BY <2>1, <2>2, <2>3 DEF OnePlace
  <2>5. Cardinality(DOMAIN se) < MaxSent
    BY <2>2, <2>4, NeverFull DEF OnePlace
  <2>6. PICK id : id = NextId(s.id, DOMAIN s.sent)
    OBVIOUS
  <2>7. SentAs(s, ask, id, z)
    BY <1>3, <1>0, <2>2, <2>3, <2>5, <2>6, SendOneIs
  <2>8. PICK new : new = z.sent
    OBVIOUS
  <2>9. /\ DOMAIN new = DOMAIN se \cup {id} /\ id \notin DOMAIN se /\ new[id] = ask
        /\ \A i \in DOMAIN se : new[i] = se[i]
    BY <2>2, <2>7, <2>8 DEF SentAs
  <2>10. OnePlace(se, m, k - 1, q, ca)
    BY <2>2
  <2>11. OnePlace(new, m, k, q, ca)
    <3>1. /\ \A i \in DOMAIN new : new[i].who \in TTYThreads /\ Awaited(ca, new[i])
          /\ \A i \in Rest(m, k) : m[i].who \in TTYThreads /\ Awaited(ca, m[i])
          /\ \A i \in Rest(q, 0) : q[i].who \in TTYThreads /\ Awaited(ca, q[i])
      BY <2>1, <2>4, <2>9, <2>10 DEF OnePlace
    <3>2. /\ \A i, j \in DOMAIN new : new[i].who = new[j].who => i = j
          /\ \A i, j \in Rest(m, k) : m[i].who = m[j].who => i = j
          /\ \A i, j \in Rest(q, 0) : q[i].who = q[j].who => i = j
      BY <2>1, <2>4, <2>9, <2>10 DEF OnePlace
    <3>3. /\ \A i \in DOMAIN new : \A j \in Rest(m, k) : new[i].who # m[j].who
          /\ \A i \in DOMAIN new : \A j \in Rest(q, 0) : new[i].who # q[j].who
          /\ \A i \in Rest(m, k) : \A j \in Rest(q, 0) : m[i].who # q[j].who
      BY <2>1, <2>4, <2>9, <2>10 DEF OnePlace
    <3>4. ASSUME NEW t \in TTYThreads, ca[t].answer = Pending
          PROVE  \/ \E i \in DOMAIN new : new[i].who = t
                 \/ \E i \in Rest(m, k) : m[i].who = t
                 \/ \E i \in Rest(q, 0) : q[i].who = t
      <4>1. \/ \E i \in DOMAIN se : se[i].who = t
            \/ \E i \in Rest(m, k - 1) : m[i].who = t
            \/ \E i \in Rest(q, 0) : q[i].who = t
        BY <3>4, <2>10 DEF OnePlace
      <4>. QED  BY <4>1, <2>1, <2>3, <2>9
    <3>. QED  BY <3>1, <3>2, <3>3, <3>4 DEF OnePlace
  <2>. QED  BY <1>1, <2>2, <2>5, <2>7, <2>8, <2>11 DEF SentAs
<1>. QED  BY <1>2, <1>3

\* ... under the number that is its turn.
LEMMA SendTurn ==
  ASSUME TTYBackendAssumption, NEW s \in SendStates, NEW m \in Seq(Asks \cup {Note}),
         NEW k \in 1 .. Len(m), NEW q, NEW n \in Nat, n <= MaxSent,
         m[k] # Note => s.full = FALSE /\ Cardinality(DOMAIN s.sent) < MaxSent,
         InTurn(s.sent, s.id, m, k - 1, q, n), \A r \in s.wire : r.serial = r.id,
         \A i \in Rest(q, 0) : q[i] \in Asks,
         NEW z, z = SendOne(s, m[k])
  PROVE  InTurn(z.sent, z.id, m, k, q, n) /\ \A r \in z.wire : r.serial = r.id
<1>0. m[k] \in Asks \cup {Note} /\ s.sent \in SentMaps /\ s.id \in 0 .. MaxSent /\ MaxSent \in Nat
  BY TTYBackendAssumption DEF SendStates, TTYBackendAssumption
<1>2. CASE m[k] = Note
  <2>1. z = s
    BY <1>0, <1>2, SendOneIs
  <2>2. Rest(m, k - 1) = Rest(m, k)
    BY <1>2, RestIs
  <2>. QED  BY <1>2, <2>1, <2>2 DEF InTurn
<1>3. CASE m[k] # Note
  <2>1. /\ Rest(m, k - 1) = Rest(m, k) \cup {k} /\ m[k] \in Asks
        /\ \A j \in Rest(m, k) : j \in 1 .. Len(m) /\ k < j /\ m[j] \in Asks
    BY <1>3, RestIs
  <2>2. PICK se \in SentMaps : se = s.sent
    BY <1>0
  <2>3. PICK ask \in Asks : ask = m[k]
    BY <2>1
  <2>4. PICK last \in 0 .. MaxSent : last = s.id
    BY <1>0
  <2>5. DOMAIN se \in SUBSET Ids /\ Ids = 1 .. MaxSent
    BY SentIs DEF Ids
  <2>6. InTurn(se, last, m, k - 1, q, n)
    BY <2>2, <2>4
  <2>7. PICK x \in Int : x = ask.serial
    BY DEF Asks, Serials
  <2>. DEFINE U == {m[j].serial : j \in Rest(m, k)} \cup {q[j].serial : j \in Rest(q, 0)}
  <2>8. \A y \in U : y \in Int /\ x < y
    <3>1. \A j \in Rest(m, k) : x < m[j].serial
      BY <2>1, <2>3, <2>6, <2>7 DEF InTurn
    <3>2. \A j \in Rest(q, 0) : x < q[j].serial
      BY <2>1, <2>3, <2>6, <2>7 DEF InTurn
    <3>3. \A a \in Asks : a.serial \in Int
      BY DEF Asks, Serials
    <3>. QED  BY <3>1, <3>2, <3>3, <2>1
  <2>9. U \cup {x} = last + 1 .. n
    <3>1. {m[j].serial : j \in Rest(m, k - 1)} = {m[j].serial : j \in Rest(m, k)} \cup {x}
      BY <2>1, <2>3, <2>7
    <3>. QED  BY <3>1, <2>6 DEF InTurn
  <2>. HIDE DEF U
  <2>10. x = last + 1 /\ last + 1 <= n
    <3>1. x \in last + 1 .. n
      BY <2>9
    <3>2. last + 1 \in U \cup {x}
      BY <3>1, <2>9
    <3>. QED  BY <3>1, <3>2, <2>8
  <2>11. U = last + 2 .. n
    <3>1. \A y \in U : y \in last + 2 .. n
      <4>. SUFFICES ASSUME NEW y \in U PROVE y \in last + 2 .. n
        OBVIOUS
      <4>1. y \in last + 1 .. n /\ last + 1 < y
        BY <2>8, <2>9, <2>10
      <4>. QED  BY <4>1, <1>0
    <3>2. \A y \in last + 2 .. n : y \in U
      <4>. SUFFICES ASSUME NEW y \in last + 2 .. n PROVE y \in U
        OBVIOUS
      <4>1. y \in last + 1 .. n /\ y # last + 1
        BY <1>0
      <4>. QED  BY <4>1, <2>9, <2>10
    <3>. QED  BY <3>1, <3>2
  <2>12. last + 1 \in (1 .. MaxSent) \ DOMAIN se
    <3>1. \A i \in DOMAIN se : i <= last
      BY <2>6 DEF InTurn
    <3>. QED  BY <3>1, <2>10, <1>0
  <2>13. NextId(last, DOMAIN se) = last + 1
    BY <1>0, <1>3, <2>2, <2>5, <2>12, NextIdIs
  <2>14. SentAs(s, ask, last + 1, z)
    BY <1>0, <1>3, <2>2, <2>3, <2>4, <2>13, SendOneIs
  <2>15. PICK new : new = z.sent
    OBVIOUS
  <2>16. /\ DOMAIN new = DOMAIN se \cup {last + 1} /\ new[last + 1] = ask
         /\ \A i \in DOMAIN se : new[i] = se[i]
    BY <2>2, <2>14, <2>15 DEF SentAs
  <2>17. z.id = last + 1 /\ \A r \in z.wire : r.serial = r.id
    BY <2>7, <2>10, <2>14 DEF SentAs
  <2>18. \A i \in DOMAIN new : new[i].serial = i /\ i <= last + 1
    <3>1. \A i \in DOMAIN se : se[i].serial = i /\ i <= last /\ i \in Int
      BY <2>5, <2>6 DEF InTurn
    <3>2. \A i \in DOMAIN se : new[i].serial = i /\ i <= last + 1
      BY <3>1, <2>16
    <3>3. new[last + 1].serial = last + 1 /\ last + 1 <= last + 1
      <4>1. new[last + 1] = ask /\ ask.serial = last + 1
        BY <2>7, <2>10, <2>16
      <4>. QED  BY <4>1
    <3>4. PICK y : y = last + 1
      OBVIOUS
    <3>5. \A i \in DOMAIN se : new[i].serial = i /\ i <= y
      BY ONLY <3>2, <3>4
    <3>6. DOMAIN new = DOMAIN se \cup {y} /\ new[y].serial = y /\ y <= y
      BY ONLY <3>3, <3>4, <2>16
    <3>7. \A i \in DOMAIN new : new[i].serial = i /\ i <= y
      BY ONLY <3>5, <3>6
    <3>. QED  BY ONLY <3>4, <3>7
  <2>19. /\ \A i, j \in Rest(m, k) : i < j => m[i].serial < m[j].serial
         /\ \A i, j \in Rest(q, 0) : i < j => q[i].serial < q[j].serial
         /\ \A i \in Rest(m, k) : \A j \in Rest(q, 0) : m[i].serial < q[j].serial
    BY <2>1, <2>6 DEF InTurn
  <2>20. {m[j].serial : j \in Rest(m, k)} \cup {q[j].serial : j \in Rest(q, 0)} = (last + 1) + 1 .. n
    <3>1. (last + 1) + 1 = last + 2
      BY <1>0
    <3>. QED  BY <3>1, <2>11 DEF U
  <2>21. InTurn(new, last + 1, m, k, q, n)
    BY ONLY <2>10, <2>18, <2>19, <2>20 DEF InTurn
  <2>. QED  BY <2>15, <2>17, <2>21
<1>. QED  BY <1>2, <1>3

\* What there is before the loop of DispatchFar2lInteract
Unsent == [full |-> FALSE, sent |-> sent, id |-> idCounter, wire |-> wire, call |-> call]

\* The loop, with what there is after each question.
LEMMA SendLoop ==
  ASSUME TTYBackendAssumption, Unsent \in SendStates, mine \in Seq(Asks \cup {Note})
  PROVE  \E w \in [0 .. Len(mine) -> SendStates] :
           /\ AllSent = w[Len(mine)] /\ w[0] = Unsent
           /\ \A k \in 1 .. Len(mine) : w[k] = SendOne(w[k-1], mine[k])
<1>. DEFINE n == Len(mine)
            X == SendStates
<1>1. n \in Nat /\ Unsent \in X /\ \A k \in 1 .. n : mine[k] \in Asks \cup {Note}
  OBVIOUS
<1>2. PICK s : s = [k \in 1 .. n |-> [x \in X |-> SendOne(x, mine[k])]]
  OBVIOUS
<1>3. \A k \in 1 .. n : \A x \in X : SendOne(x, mine[k]) \in X
  BY <1>1, SendOneIs
<1>. HIDE DEF n, X
<1>4. s \in [1 .. n -> [X -> X]]
  BY <1>2, <1>3
<1>5. PICK h \in [0 .. n -> X] : Passes(h, n, Unsent, s)
  BY <1>1, <1>4, LoopOf
<1>6. h[0] = Unsent /\ \A k \in 1 .. n : h[k] = SendOne(h[k-1], mine[k])
  <2>1. \A k \in 1 .. n : h[k] = s[k][h[k-1]] /\ h[k-1] \in X
    BY <1>1, <1>5 DEF Passes
  <2>. QED  BY <2>1, <1>2, <1>5 DEF Passes
<1>. DEFINE P(w) == w = [k \in 0 .. n |-> IF k = 0 THEN Unsent ELSE SendOne(w[k-1], mine[k])]
<1>7. P(h)
  <2>. DEFINE G(k) == IF k = 0 THEN Unsent ELSE SendOne(h[k-1], mine[k])
  <2>a. G(0) = Unsent /\ \A k \in 1 .. n : G(k) = SendOne(h[k-1], mine[k])
    BY ONLY <1>1
  <2>1. \A k \in 0 .. n : h[k] = G(k)
    <3>. HIDE DEF G
    <3>1. \A k \in 0 .. n : k = 0 \/ k \in 1 .. n
      BY <1>1
    <3>. QED  BY <3>1, <2>a, <1>6
  <2>. HIDE DEF G
  <2>2. h = [k \in 0 .. n |-> G(k)]
    BY ONLY <2>1, h \in [0 .. n -> X]
  <2>. QED  BY <2>2 DEF G
<1>8. PICK w : w = CHOOSE g : P(g)
  OBVIOUS
<1>9. P(w)
  BY <1>7, <1>8, Zenon
<1>10. w[0] = Unsent /\ \A k \in 1 .. n : w[k] = SendOne(w[k-1], mine[k])
  <2>. DEFINE G(k) == IF k = 0 THEN Unsent ELSE SendOne(w[k-1], mine[k])
  <2>1. w = [k \in 0 .. n |-> G(k)]
    BY <1>9
  <2>. HIDE DEF G
  <2>2. \A k \in 0 .. n : w[k] = G(k)
    BY ONLY <2>1
  <2>. QED  BY ONLY <2>2, <1>1 DEF G
<1>11. AllSent = w[n]
  BY <1>8 DEF AllSent, n, Unsent
<1>12. w \in [0 .. n -> X]
  <2>. DEFINE T == {k \in 0 .. n : w[k] \in X}
  <2>1. 0 \in T
    BY <1>1, <1>10
  <2>2. \A k \in 1 .. n : k - 1 \in T => k \in T
    BY <1>1, <1>10, <1>3
  <2>. HIDE DEF T
  <2>3. \A k \in 0 .. n : k \in T
    BY <1>1, <2>1, <2>2, UpTo
  <2>. QED  BY <2>3, <1>9 DEF T
<1>. QED  BY <1>10, <1>11, <1>12 DEF n, X

\* After the loop everything is sent, nobody is cleared, and the numbers are in turn.
LEMMA AllSentIs ==
  ASSUME TTYBackendAssumption, Unsent \in SendStates, mine \in Seq(Asks \cup {Note}),
         OnePlace(sent, mine, 0, queued, call), NEW n \in Nat
  PROVE  /\ AllSent \in SendStates /\ AllSent.call = call
         /\ OnePlace(AllSent.sent, mine, Len(mine), queued, call)
         /\ /\ n <= MaxSent /\ InTurn(sent, idCounter, mine, 0, queued, n)
            /\ \A r \in wire : r.serial = r.id
            /\ \A i \in Rest(queued, 0) : queued[i] \in Asks
            => InTurn(AllSent.sent, AllSent.id, mine, Len(mine), queued, n)
               /\ \A r \in AllSent.wire : r.serial = r.id
<1>1. PICK w \in [0 .. Len(mine) -> SendStates] :
           /\ AllSent = w[Len(mine)] /\ w[0] = Unsent
           /\ \A k \in 1 .. Len(mine) : w[k] = SendOne(w[k-1], mine[k])
  BY SendLoop
<1>2. Len(mine) \in Nat
  OBVIOUS
<1>. DEFINE Placed(k) == /\ w[k].full = FALSE /\ w[k].call = call
                         /\ OnePlace(w[k].sent, mine, k, queued, call)
            Turned(k) == InTurn(w[k].sent, w[k].id, mine, k, queued, n)
                         /\ \A r \in w[k].wire : r.serial = r.id
            S == {k \in 0 .. Len(mine) : Placed(k)}
            U == {k \in 0 .. Len(mine) : Turned(k)}
<1>3. 0 \in S
  BY <1>1, <1>2 DEF Unsent
<1>4. ASSUME NEW k \in 1 .. Len(mine), k - 1 \in S PROVE k \in S
  <2>1. k - 1 \in 0 .. Len(mine) /\ w[k-1] \in SendStates /\ w[k] = SendOne(w[k-1], mine[k])
    BY <1>1, <1>2
  <2>2. Placed(k - 1)
    BY <1>4
  <2>3. PICK s \in SendStates : s = w[k-1]
    BY <2>1
  <2>4. PICK z : z = SendOne(s, mine[k])
    OBVIOUS
  <2>5. s.full = FALSE /\ OnePlace(s.sent, mine, k - 1, queued, call) /\ s.call = call
    BY <2>2, <2>3
  <2>6. z.full = FALSE /\ z.call = s.call /\ OnePlace(z.sent, mine, k, queued, call)
    BY ONLY <2>4, <2>5, TTYBackendAssumption, mine \in Seq(Asks \cup {Note}), SendPlace, SMTT(30)
  <2>7. Placed(k)
    BY <2>1, <2>3, <2>4, <2>5, <2>6
  <2>. QED  BY <2>7
<1>5. \A k \in 0 .. Len(mine) : k \in S
  <2>. HIDE DEF S
  <2>. QED  BY <1>2, <1>3, <1>4, UpTo
<1>6. ASSUME n <= MaxSent, InTurn(sent, idCounter, mine, 0, queued, n),
             \A r \in wire : r.serial = r.id, \A i \in Rest(queued, 0) : queued[i] \in Asks
      PROVE  Turned(Len(mine))
  <2>1. 0 \in U
    BY <1>1, <1>2, <1>6 DEF Unsent
  <2>2. ASSUME NEW k \in 1 .. Len(mine), k - 1 \in U PROVE k \in U
    <3>1. k - 1 \in 0 .. Len(mine) /\ w[k-1] \in SendStates /\ w[k] = SendOne(w[k-1], mine[k])
      BY <1>1, <1>2
    <3>2. Turned(k - 1)
      BY <2>2
    <3>3. Placed(k - 1)
      BY <1>5, <3>1
    <3>4. PICK s \in SendStates : s = w[k-1]
      BY <3>1
    <3>5. PICK z : z = SendOne(s, mine[k])
      OBVIOUS
    <3>6. s.full = FALSE /\ OnePlace(s.sent, mine, k - 1, queued, call)
      BY <3>3, <3>4
    <3>7. mine[k] # Note => Cardinality(DOMAIN s.sent) < MaxSent
      BY ONLY <3>5, <3>6, TTYBackendAssumption, mine \in Seq(Asks \cup {Note}), SendPlace
    <3>8. InTurn(s.sent, s.id, mine, k - 1, queued, n) /\ \A r \in s.wire : r.serial = r.id
      BY <3>2, <3>4
    <3>9. InTurn(z.sent, z.id, mine, k, queued, n) /\ \A r \in z.wire : r.serial = r.id
      <4>1. n <= MaxSent /\ \A i \in Rest(queued, 0) : queued[i] \in Asks
        BY <1>6
      <4>. QED  BY ONLY <3>5, <3>6, <3>7, <3>8, <4>1, TTYBackendAssumption, SMTT(30),
                        mine \in Seq(Asks \cup {Note}), n \in Nat, SendTurn
    <3>10. Turned(k)
      BY <3>1, <3>4, <3>5, <3>9
    <3>. QED  BY <3>10
  <2>. HIDE DEF U
  <2>3. \A k \in 0 .. Len(mine) : k \in U
    BY <1>2, <2>1, <2>2, UpTo
  <2>4. Len(mine) \in U
    BY <2>3, <1>2
  <2>. QED  BY <2>4 DEF U
<1>7. Placed(Len(mine)) /\ w[Len(mine)] \in SendStates
  BY <1>1, <1>2, <1>5
<1>. QED  BY <1>1, <1>6, <1>7

-----------------------------------------------------------------------------
(* What is said between the threads and the terminal                       *)

TalkTypes ==
  /\ sent \in SentMaps /\ idCounter \in 0 .. MaxSent
  /\ wire \in SUBSET Messages /\ replies \in SUBSET Messages
  /\ call \in Calls /\ asked \in Nat
  /\ queued \in Seq(Asks \cup {Note}) /\ mine \in Seq(Asks \cup {Note})

Placed == OnePlace(sent, mine, 0, queued, call)

Numbered ==
  /\ InTurn(sent, idCounter, mine, 0, queued, asked)
  /\ \A r \in wire \cup replies : r.serial = r.id
  /\ AnswerIsItsOwn

TalkInv == TalkTypes /\ Placed /\ (asked <= MaxSent => Numbered)

\* The same scenario, the same questions.
LEMMA SameAsks ==
  ASSUME UNCHANGED may
  PROVE  Serials' = Serials /\ Asks' = Asks /\ Calls' = Calls /\ Messages' = Messages
         /\ SentMaps' = SentMaps
BY DEF Serials, Asks, Calls, Messages, SentMaps

\* A queue with one more at its end
OneMore(z, q, x) == z = Append(q, x)

\* What is not sent yet of a queue with one more.
LEMMA RestMore ==
  ASSUME NEW q \in Seq(Asks \cup {Note}), NEW x \in Asks \cup {Note}, NEW z, OneMore(z, q, x),
         NEW m \in Nat, m = Len(q) + 1
  PROVE  /\ z \in Seq(Asks \cup {Note}) /\ m \notin Rest(q, 0)
         /\ \A j \in Rest(q, 0) : z[j] = q[j] /\ q[j] \in Asks
         /\ Rest(q, 0) \subseteq 1 .. m - 1
         /\ x = Note => Rest(z, 0) = Rest(q, 0)
         /\ x # Note => Rest(z, 0) = Rest(q, 0) \cup {m} /\ z[m] = x
<1>1. PICK n \in Nat : n = Len(q) /\ m = n + 1
  OBVIOUS
<1>2. /\ z \in Seq(Asks \cup {Note}) /\ Len(z) = n + 1 /\ z[n+1] = x
      /\ \A j \in 1 .. n : z[j] = q[j] /\ q[j] \in Asks \cup {Note}
  BY <1>1 DEF OneMore
<1>3. Rest(q, 0) = {j \in 1 .. n : q[j] # Note}
  BY <1>1 DEF Rest
<1>4. Rest(z, 0) = {j \in 1 .. n + 1 : z[j] # Note}
  BY <1>2 DEF Rest
<1>5. 1 .. n + 1 = (1 .. n) \cup {n + 1} /\ n + 1 \notin 1 .. n
  BY <1>1
<1>6. \A j \in 1 .. n : j \in Nat /\ j < n + 1
  BY <1>1
<1>7. 1 .. m - 1 = 1 .. n
  BY <1>1
<1>. QED  BY ONLY <1>1, <1>2, <1>3, <1>4, <1>5, <1>6, <1>7

\* A thread that waits for nothing asks.
LEMMA TalkAsk ==
  ASSUME TTYBackendAssumption, TalkInv, UNCHANGED may, NEW t \in TTYThreads,
         AskAndWait(t), ~Waiting(t), asked + 1 \in Serials
  PROVE  TalkInv'
<1>1. PICK n \in Nat : n = asked
  BY DEF TalkInv, TalkTypes
<1>2. PICK ask : ask = [who |-> t, serial |-> n + 1]
  OBVIOUS
<1>3. ask \in Asks /\ ask # Note /\ ask.who = t /\ ask.serial = n + 1
  <2>1. ask \in Asks /\ ask.who = t /\ ask.serial = n + 1
    BY <1>1, <1>2 DEF Asks
  <2>2. ask.who # "nobody"
    BY <2>1 DEF TTYThreads
  <2>. QED  BY <2>1, <2>2 DEF Note
<1>4. /\ asked' = n + 1 /\ queued' = Append(queued, ask)
      /\ sent' = sent /\ mine' = mine /\ idCounter' = idCounter /\ wire' = wire /\ replies' = replies
  BY <1>1, <1>2 DEF AskAndWait, Enqueue
<1>5. PICK c : c = [serial |-> n + 1, answer |-> Pending]
  OBVIOUS
<1>6. call' = [call EXCEPT ![t] = c]
  BY <1>1, <1>5 DEF AskAndWait
<1>7. c \in [serial : Serials \cup {0}, answer : {None, Pending, Cleared} \cup Serials]
  BY <1>1, <1>5
<1>8. /\ call \in Calls /\ queued \in Seq(Asks \cup {Note}) /\ mine \in Seq(Asks \cup {Note})
      /\ sent \in SentMaps
  BY DEF TalkInv, TalkTypes
<1>9. PICK ca : ca = call'
  OBVIOUS
<1>10. /\ ca \in Calls /\ ca[t] = c /\ \A u \in TTYThreads : u # t => ca[u] = call[u]
  BY <1>6, <1>7, <1>8, <1>9 DEF Calls
<1>11. PICK z : z = queued'
  OBVIOUS
<1>12. PICK m \in Nat : m = Len(queued) + 1
  BY <1>8
<1>13. /\ z \in Seq(Asks \cup {Note}) /\ m \notin Rest(queued, 0)
       /\ \A j \in Rest(queued, 0) : z[j] = queued[j] /\ queued[j] \in Asks /\ j \in Nat /\ j < m
       /\ Rest(z, 0) = Rest(queued, 0) \cup {m} /\ z[m] = ask
  <2>1. OneMore(z, queued, ask) /\ ask \in Asks \cup {Note}
    BY <1>3, <1>4, <1>11 DEF OneMore
  <2>2. /\ z \in Seq(Asks \cup {Note}) /\ m \notin Rest(queued, 0)
        /\ \A j \in Rest(queued, 0) : z[j] = queued[j] /\ queued[j] \in Asks /\ j \in Nat /\ j < m
        /\ ask # Note => Rest(z, 0) = Rest(queued, 0) \cup {m} /\ z[m] = ask
    <3>1. queued \in Seq(Asks \cup {Note})
      BY <1>8
    <3>2. m \in Nat /\ m = Len(queued) + 1
      BY <1>12
    <3>3. z \in Seq(Asks \cup {Note})
      BY ONLY <3>1, <3>2, <2>1, RestMore
    <3>4. m \notin Rest(queued, 0)
      BY ONLY <3>1, <3>2, <2>1, RestMore
    <3>5. \A j \in Rest(queued, 0) : z[j] = queued[j] /\ queued[j] \in Asks
      BY ONLY <3>1, <3>2, <2>1, RestMore
    <3>8. Rest(queued, 0) \subseteq 1 .. m - 1
      BY ONLY <3>1, <3>2, <2>1, RestMore
    <3>9. \A j \in Rest(queued, 0) : j \in Nat /\ j < m
      BY ONLY <3>2, <3>8
    <3>6. ask # Note => Rest(z, 0) = Rest(queued, 0) \cup {m}
      BY ONLY <3>1, <3>2, <2>1, RestMore
    <3>7. ask # Note => z[m] = ask
      BY ONLY <3>1, <3>2, <2>1, RestMore
    <3>. QED  BY ONLY <3>3, <3>4, <3>5, <3>6, <3>7, <3>9
  <2>. QED  BY ONLY <2>2, <1>3
<1>14. TalkTypes'
  <2>1. asked' \in Nat
    BY <1>4
  <2>. QED  BY <2>1, <1>4, <1>9, <1>10, <1>11, <1>13, SameAsks DEF TalkInv, TalkTypes
<1>15. call[t].answer # Pending
  BY DEF Waiting
<1>16. OnePlace(sent, mine, 0, queued, call)
  BY DEF TalkInv, Placed
<1>17. /\ \A i \in DOMAIN sent : sent[i].who # t
       /\ \A i \in Rest(mine, 0) : mine[i].who # t
       /\ \A i \in Rest(queued, 0) : queued[i].who # t
  BY <1>15, <1>16 DEF OnePlace, Awaited
<1>18. OnePlace(sent, mine, 0, z, ca)
  <2>1. /\ \A i \in DOMAIN sent : sent[i].who \in TTYThreads /\ Awaited(ca, sent[i])
        /\ \A i \in Rest(mine, 0) : mine[i].who \in TTYThreads /\ Awaited(ca, mine[i])
        /\ \A i \in Rest(queued, 0) : queued[i].who \in TTYThreads /\ Awaited(ca, queued[i])
    BY <1>10, <1>16, <1>17 DEF OnePlace, Awaited
  <2>2. Awaited(ca, ask)
    BY <1>3, <1>5, <1>10 DEF Awaited
  <2>3. \A i \in Rest(z, 0) : z[i].who \in TTYThreads /\ Awaited(ca, z[i])
    BY <2>1, <2>2, <1>3, <1>13
  <2>4. /\ \A i, j \in DOMAIN sent : sent[i].who = sent[j].who => i = j
        /\ \A i, j \in Rest(mine, 0) : mine[i].who = mine[j].who => i = j
        /\ \A i \in DOMAIN sent : \A j \in Rest(mine, 0) : sent[i].who # mine[j].who
    BY <1>16 DEF OnePlace
  <2>5. \A i, j \in Rest(z, 0) : z[i].who = z[j].who => i = j
    BY <1>3, <1>13, <1>16, <1>17 DEF OnePlace
  <2>6. /\ \A i \in DOMAIN sent : \A j \in Rest(z, 0) : sent[i].who # z[j].who
        /\ \A i \in Rest(mine, 0) : \A j \in Rest(z, 0) : mine[i].who # z[j].who
    BY <1>3, <1>13, <1>16, <1>17 DEF OnePlace
  <2>7. ASSUME NEW u \in TTYThreads, ca[u].answer = Pending
        PROVE  \/ \E i \in DOMAIN sent : sent[i].who = u
               \/ \E i \in Rest(mine, 0) : mine[i].who = u
               \/ \E i \in Rest(z, 0) : z[i].who = u
    <3>1. CASE u = t
      BY <3>1, <1>3, <1>13
    <3>2. CASE u # t
      <4>1. \/ \E i \in DOMAIN sent : sent[i].who = u
            \/ \E i \in Rest(mine, 0) : mine[i].who = u
            \/ \E i \in Rest(queued, 0) : queued[i].who = u
        BY <3>2, <2>7, <1>10, <1>16 DEF OnePlace
      <4>. QED  BY <4>1, <1>13
    <3>. QED  BY <3>1, <3>2
  <2>. QED  BY <2>1, <2>3, <2>4, <2>5, <2>6, <2>7 DEF OnePlace
<1>19. ASSUME asked' <= MaxSent PROVE Numbered'
  <2>1. n <= MaxSent
    BY <1>1, <1>4, <1>19 DEF TTYBackendAssumption
  <2>2. InTurn(sent, idCounter, mine, 0, queued, n) /\ AnswerIsItsOwn
        /\ \A r \in wire \cup replies : r.serial = r.id
    BY <1>1, <2>1 DEF TalkInv, Numbered
  <2>3. PICK id \in 0 .. MaxSent : id = idCounter
    BY DEF TalkInv, TalkTypes
  <2>. DEFINE U == {mine[j].serial : j \in Rest(mine, 0)} \cup {queued[j].serial : j \in Rest(queued, 0)}
              V == {mine[j].serial : j \in Rest(mine, 0)} \cup {z[j].serial : j \in Rest(z, 0)}
  <2>4. U = id + 1 .. n /\ id <= n
    BY <2>2, <2>3 DEF InTurn
  <2>5. V = U \cup {n + 1}
    BY <1>3, <1>13
  <2>6. V = id + 1 .. n + 1
    <3>. HIDE DEF U, V
    <3>. QED  BY <2>4, <2>5, <1>1
  <2>7. \A x \in U : x < n + 1
    <3>. HIDE DEF U
    <3>. QED  BY <2>4, <1>1
  <2>8. /\ \A j \in Rest(mine, 0) : mine[j].serial < n + 1
        /\ \A j \in Rest(queued, 0) : queued[j].serial < n + 1
    BY <2>7
  <2>9. \A i, j \in Rest(z, 0) : i < j => z[i].serial < z[j].serial
    <3>. SUFFICES ASSUME NEW i \in Rest(z, 0), NEW j \in Rest(z, 0), i < j
                  PROVE  z[i].serial < z[j].serial
      OBVIOUS
    <3>1. CASE j = m
      <4>1. i \in Rest(queued, 0)
        BY <3>1, <1>13, <1>12
      <4>. QED  BY <4>1, <3>1, <2>8, <1>3, <1>13
    <3>2. CASE j # m
      <4>1. j \in Rest(queued, 0)
        BY <3>2, <1>13
      <4>2. i \in Rest(queued, 0)
        BY <4>1, <1>12, <1>13
      <4>. QED  BY <4>1, <4>2, <1>13, <2>2 DEF InTurn
    <3>. QED  BY <3>1, <3>2
  <2>10. \A i \in Rest(mine, 0) : \A j \in Rest(z, 0) : mine[i].serial < z[j].serial
    BY <1>3, <1>13, <2>2, <2>8 DEF InTurn
  <2>11. /\ \A i \in DOMAIN sent : sent[i].serial = i /\ i <= id
         /\ \A i, j \in Rest(mine, 0) : i < j => mine[i].serial < mine[j].serial
    BY <2>2, <2>3 DEF InTurn
  <2>12. InTurn(sent, id, mine, 0, z, n + 1)
    <3>1. id <= n + 1
      BY <2>4
    <3>. QED  BY <3>1, <2>6, <2>9, <2>10, <2>11 DEF InTurn
  <2>13. AnswerIsItsOwn'
    <3>1. Pending \notin Serials
      BY DEF Serials, Pending
    <3>. QED  BY <3>1, <2>2, <1>5, <1>9, <1>10, SameAsks DEF AnswerIsItsOwn
  <2>. QED  BY <2>2, <2>3, <2>12, <2>13, <1>4, <1>11 DEF Numbered
<1>. QED  BY <1>4, <1>9, <1>11, <1>14, <1>18, <1>19 DEF TalkInv, Placed

\* Something is said that nobody waits for.
LEMMA TalkTell ==
  ASSUME TalkInv, UNCHANGED may, Tell
  PROVE  TalkInv'
<1>1. /\ queued' = Append(queued, Note) /\ asked' = asked /\ call' = call
      /\ sent' = sent /\ mine' = mine /\ idCounter' = idCounter /\ wire' = wire /\ replies' = replies
  BY DEF Tell, Enqueue
<1>2. /\ queued \in Seq(Asks \cup {Note})
  BY DEF TalkInv, TalkTypes
<1>3. PICK z : z = queued'
  OBVIOUS
<1>4. /\ z \in Seq(Asks \cup {Note}) /\ \A j \in Rest(queued, 0) : z[j] = queued[j]
      /\ Rest(z, 0) = Rest(queued, 0)
  <2>1. OneMore(z, queued, Note) /\ Note \in Asks \cup {Note}
    BY <1>1, <1>3 DEF OneMore
  <2>2. PICK m \in Nat : m = Len(queued) + 1
    BY <1>2
  <2>. QED  BY ONLY <1>2, <2>1, <2>2, RestMore
<1>5. TalkTypes'
  BY <1>1, <1>3, <1>4, SameAsks DEF TalkInv, TalkTypes
<1>6. OnePlace(sent, mine, 0, z, call)
  BY <1>4 DEF TalkInv, Placed, OnePlace
<1>7. InTurn(sent, idCounter, mine, 0, queued, asked) => InTurn(sent, idCounter, mine, 0, z, asked)
  <2>1. {z[j].serial : j \in Rest(z, 0)} = {queued[j].serial : j \in Rest(queued, 0)}
    BY <1>4
  <2>. QED  BY <2>1, <1>4 DEF InTurn
<1>8. AnswerIsItsOwn => AnswerIsItsOwn'
  BY <1>1, SameAsks DEF AnswerIsItsOwn
<1>. QED  BY <1>1, <1>3, <1>5, <1>6, <1>7, <1>8 DEF TalkInv, Placed, Numbered

\* Nothing is said.
LEMMA TalkSame ==
  ASSUME TalkInv, UNCHANGED may, UNCHANGED talk
  PROVE  TalkInv'
<1>1. /\ queued' = queued /\ asked' = asked /\ call' = call
      /\ sent' = sent /\ mine' = mine /\ idCounter' = idCounter /\ wire' = wire /\ replies' = replies
  BY DEF talk
<1>2. TalkTypes'
  BY <1>1, SameAsks DEF TalkInv, TalkTypes
<1>3. AnswerIsItsOwn => AnswerIsItsOwn'
  BY <1>1, SameAsks DEF AnswerIsItsOwn
<1>. QED  BY <1>1, <1>2, <1>3 DEF TalkInv, Placed, Numbered

\* The answers of some threads change, and nothing else does.
LEMMA CallsMove ==
  ASSUME TalkInv, UNCHANGED may, NEW W \in SUBSET TTYThreads, call' \in Calls,
         \A u \in TTYThreads \ W : call'[u] = call[u],
         \A u \in W : call'[u].answer # Pending,
         AnswerIsItsOwn /\ asked <= MaxSent => AnswerIsItsOwn',
         DOMAIN sent' \subseteq DOMAIN sent, sent' \in SentMaps,
         \A i \in DOMAIN sent' : sent'[i] = sent[i],
         \A i \in DOMAIN sent : i \notin DOMAIN sent' => sent[i].who \in W,
         \A i \in DOMAIN sent' : sent[i].who \notin W,
         \A i \in Rest(mine, 0) : mine[i].who \notin W,
         \A i \in Rest(queued, 0) : queued[i].who \notin W,
         replies' \subseteq replies,
         UNCHANGED <<queued, mine, idCounter, wire, asked>>
  PROVE  TalkInv'
<1>1. PICK se \in SentMaps : se = sent'
  OBVIOUS
<1>2. PICK ca \in Calls : ca = call'
  OBVIOUS
<1>3. /\ DOMAIN se \subseteq DOMAIN sent /\ \A i \in DOMAIN se : se[i] = sent[i]
      /\ \A i \in DOMAIN sent : i \notin DOMAIN se => sent[i].who \in W
      /\ \A i \in DOMAIN se : sent[i].who \notin W
      /\ \A u \in TTYThreads \ W : ca[u] = call[u]
      /\ \A u \in W : ca[u].answer # Pending
  BY <1>1, <1>2
<1>4. TalkTypes'
  BY SameAsks DEF TalkInv, TalkTypes
<1>5. OnePlace(sent, mine, 0, queued, call)
  BY DEF TalkInv, Placed
<1>6. OnePlace(se, mine, 0, queued, ca)
  <2>1. /\ \A i \in DOMAIN se : se[i].who \in TTYThreads /\ Awaited(ca, se[i])
        /\ \A i \in Rest(mine, 0) : mine[i].who \in TTYThreads /\ Awaited(ca, mine[i])
        /\ \A i \in Rest(queued, 0) : queued[i].who \in TTYThreads /\ Awaited(ca, queued[i])
    BY <1>3, <1>5 DEF OnePlace, Awaited
  <2>2. /\ \A i, j \in DOMAIN se : se[i].who = se[j].who => i = j
        /\ \A i, j \in Rest(mine, 0) : mine[i].who = mine[j].who => i = j
        /\ \A i, j \in Rest(queued, 0) : queued[i].who = queued[j].who => i = j
        /\ \A i \in DOMAIN se : \A j \in Rest(mine, 0) : se[i].who # mine[j].who
        /\ \A i \in DOMAIN se : \A j \in Rest(queued, 0) : se[i].who # queued[j].who
        /\ \A i \in Rest(mine, 0) : \A j \in Rest(queued, 0) : mine[i].who # queued[j].who
    BY <1>3, <1>5 DEF OnePlace
  <2>3. ASSUME NEW u \in TTYThreads, ca[u].answer = Pending
        PROVE  \/ \E i \in DOMAIN se : se[i].who = u
               \/ \E i \in Rest(mine, 0) : mine[i].who = u
               \/ \E i \in Rest(queued, 0) : queued[i].who = u
    <3>1. u \notin W /\ call[u].answer = Pending
      BY <2>3, <1>3
    <3>2. \/ \E i \in DOMAIN sent : sent[i].who = u
          \/ \E i \in Rest(mine, 0) : mine[i].who = u
          \/ \E i \in Rest(queued, 0) : queued[i].who = u
      BY <3>1, <1>5 DEF OnePlace
    <3>. QED  BY <3>1, <3>2, <1>3
  <2>. QED  BY <2>1, <2>2, <2>3 DEF OnePlace
<1>7. InTurn(sent, idCounter, mine, 0, queued, asked) => InTurn(se, idCounter, mine, 0, queued, asked)
  BY <1>3 DEF InTurn
<1>. QED  BY <1>1, <1>2, <1>4, <1>6, <1>7 DEF TalkInv, Placed, Numbered

\* Who has an answer goes on.
LEMMA TalkReturn ==
  ASSUME TalkInv, UNCHANGED may, NEW t \in TTYThreads, AnsweredTo(t),
         call' = [call EXCEPT ![t].answer = None],
         UNCHANGED <<queued, sent, mine, idCounter, wire, replies, asked>>
  PROVE  TalkInv'
<1>1. call \in Calls /\ sent \in SentMaps
  BY DEF TalkInv, TalkTypes
<1>2. PICK c : c = [call[t] EXCEPT !.answer = None]
  OBVIOUS
<1>3. call' = [call EXCEPT ![t] = c]
  BY <1>2
<1>4. c.answer = None /\ c \in [serial : Serials \cup {0}, answer : {None, Pending, Cleared} \cup Serials]
  BY <1>1, <1>2 DEF Calls
<1>5. call' \in Calls /\ call'[t] = c /\ \A u \in TTYThreads \ {t} : call'[u] = call[u]
  BY <1>1, <1>3, <1>4 DEF Calls
<1>6. call[t].answer # Pending
  BY DEF AnsweredTo
<1>7. /\ \A i \in DOMAIN sent : sent[i].who # t
      /\ \A i \in Rest(mine, 0) : mine[i].who # t
      /\ \A i \in Rest(queued, 0) : queued[i].who # t
  BY <1>6 DEF TalkInv, Placed, OnePlace, Awaited
<1>8. AnswerIsItsOwn => AnswerIsItsOwn'
  <2>1. None \notin Serials
    BY DEF None, Serials
  <2>. QED  BY <2>1, <1>4, <1>5, SameAsks DEF AnswerIsItsOwn
<1>9. None # Pending
  BY DEF None, Pending
<1>10. /\ {t} \in SUBSET TTYThreads /\ \A u \in {t} : call'[u].answer # Pending
       /\ sent' = sent /\ replies' = replies
  BY <1>4, <1>5, <1>9
<1>11. /\ \A i \in DOMAIN sent' : sent'[i] = sent[i] /\ sent[i].who \notin {t}
       /\ \A i \in Rest(mine, 0) : mine[i].who \notin {t}
       /\ \A i \in Rest(queued, 0) : queued[i].who \notin {t}
  BY <1>7, <1>10
<1>12. UNCHANGED <<queued, mine, idCounter, wire, asked>>
  OBVIOUS
<1>. QED  BY ONLY <1>1, <1>5, <1>8, <1>10, <1>11, <1>12, TalkInv, UNCHANGED may, CallsMove

\* The input ends: those sent get an answer that says nothing.
LEMMA TalkBroken ==
  ASSUME TalkInv, UNCHANGED may, InputBroken
  PROVE  TalkInv'
<1>1. call \in Calls /\ sent \in SentMaps
  BY DEF TalkInv, TalkTypes
<1>. DEFINE W == {t \in TTYThreads : \E i \in DOMAIN sent : sent[i].who = t}
            C(t) == [call[t] EXCEPT !.answer = Cleared]
<1>2. /\ call' = [t \in TTYThreads |-> IF t \in W THEN C(t) ELSE call[t]]
      /\ sent' = [i \in {} |-> Note]
      /\ UNCHANGED <<queued, mine, idCounter, wire, replies, asked>>
  BY DEF InputBroken
<1>3. \A t \in TTYThreads : C(t).answer = Cleared
         /\ C(t) \in [serial : Serials \cup {0}, answer : {None, Pending, Cleared} \cup Serials]
  BY <1>1 DEF Calls
<1>. HIDE DEF C
<1>4. /\ call' \in Calls /\ \A t \in W : call'[t].answer = Cleared
      /\ \A t \in TTYThreads \ W : call'[t] = call[t]
  BY <1>1, <1>2, <1>3 DEF Calls
<1>5. DOMAIN sent' = {}
  BY <1>2
<1>6. sent' \in SentMaps
  <2>1. sent' \in [{} -> Asks]
    BY <1>2
  <2>. QED  BY <2>1 DEF SentMaps
<1>7. /\ \A i \in DOMAIN sent : sent[i].who \in W
      /\ \A i \in Rest(mine, 0) : mine[i].who \notin W
      /\ \A i \in Rest(queued, 0) : queued[i].who \notin W
  BY DEF TalkInv, Placed, OnePlace
<1>8. Cleared # Pending /\ Cleared \notin Serials
  BY DEF Cleared, Pending, Serials
<1>9. AnswerIsItsOwn => AnswerIsItsOwn'
  <2>1. \A t \in TTYThreads : call'[t].answer \in Serials => t \notin W
    BY <1>4, <1>8
  <2>. QED  BY <2>1, <1>4, SameAsks DEF AnswerIsItsOwn
<1>10. W \in SUBSET TTYThreads
  OBVIOUS
<1>. HIDE DEF W
<1>. QED  BY <1>2, <1>4, <1>5, <1>6, <1>7, <1>8, <1>9, <1>10, CallsMove

\* An answer comes.
LEMMA TalkReply ==
  ASSUME TTYBackendAssumption, TalkInv, UNCHANGED may, NEW r, Reply(r)
  PROVE  TalkInv'
<1>1. call \in Calls /\ sent \in SentMaps /\ r \in Messages
  BY DEF TalkInv, TalkTypes, Reply
<1>2. replies' \subseteq replies /\ UNCHANGED <<queued, mine, idCounter, wire, asked>>
  BY DEF Reply
<1>3. CASE r.id \in DOMAIN sent
  <2>1. PICK ask \in Asks : ask = sent[r.id]
    BY <1>1, <1>3, SentIs
  <2>2. PICK t \in TTYThreads : t = ask.who
    BY DEF Asks
  <2>3. PICK c : c = [call[t] EXCEPT !.answer = r.serial]
    OBVIOUS
  <2>4. call' = [call EXCEPT ![t] = c]
    BY <1>3, <2>1, <2>2, <2>3 DEF Reply
  <2>5. /\ c.answer = r.serial /\ c.answer \in Serials /\ c.serial = call[t].serial
        /\ c \in [serial : Serials \cup {0}, answer : {None, Pending, Cleared} \cup Serials]
    BY <1>1, <2>3 DEF Calls, Messages
  <2>6. call' \in Calls /\ call'[t] = c /\ \A u \in TTYThreads \ {t} : call'[u] = call[u]
    BY <1>1, <2>4, <2>5 DEF Calls
  <2>7. sent' = [i \in DOMAIN sent \ {r.id} |-> sent[i]]
    BY <1>3 DEF Reply
  <2>8. DOMAIN sent' = DOMAIN sent \ {r.id} /\ \A i \in DOMAIN sent' : sent'[i] = sent[i]
    BY <2>7
  <2>9. sent' \in SentMaps
    <3>1. DOMAIN sent \in SUBSET Ids /\ \A i \in DOMAIN sent : sent[i] \in Asks
      BY <1>1, SentIs
    <3>2. DOMAIN sent \ {r.id} \in SUBSET Ids /\ sent' \in [DOMAIN sent \ {r.id} -> Asks]
      BY <2>7, <3>1
    <3>. QED  BY <3>2 DEF SentMaps
  <2>10. Awaited(call, ask) /\ ask.who = t
    BY <1>3, <2>1, <2>2 DEF TalkInv, Placed, OnePlace
  <2>11. /\ \A i \in DOMAIN sent : i # r.id => sent[i].who # t
         /\ \A i \in Rest(mine, 0) : mine[i].who # t
         /\ \A i \in Rest(queued, 0) : queued[i].who # t
    BY <1>3, <2>1, <2>2 DEF TalkInv, Placed, OnePlace
  <2>12. c.answer # Pending
    BY <2>5 DEF Pending, Serials
  <2>13. AnswerIsItsOwn /\ asked <= MaxSent => AnswerIsItsOwn'
    <3>. SUFFICES ASSUME AnswerIsItsOwn, asked <= MaxSent PROVE AnswerIsItsOwn'
      OBVIOUS
    <3>1. r.serial = r.id /\ ask.serial = r.id
      BY <1>3, <2>1 DEF TalkInv, Numbered, InTurn, Reply
    <3>2. c.answer = c.serial
      BY <3>1, <2>5, <2>10 DEF Awaited
    <3>. QED  BY <3>2, <2>6, SameAsks DEF AnswerIsItsOwn
  <2>14. {t} \in SUBSET TTYThreads /\ \A u \in {t} : call'[u].answer # Pending
    BY <2>6, <2>12
  <2>15. /\ DOMAIN sent' \subseteq DOMAIN sent
         /\ \A i \in DOMAIN sent : i \notin DOMAIN sent' => sent[i].who \in {t}
         /\ \A i \in DOMAIN sent' : sent'[i] = sent[i] /\ sent[i].who \notin {t}
         /\ \A i \in Rest(mine, 0) : mine[i].who \notin {t}
         /\ \A i \in Rest(queued, 0) : queued[i].who \notin {t}
    BY <1>3, <2>1, <2>2, <2>8, <2>11
  <2>. QED  BY ONLY <1>2, <2>6, <2>9, <2>13, <2>14, <2>15, TalkInv, UNCHANGED may, CallsMove
<1>4. CASE r.id \notin DOMAIN sent
  <2>1. call' = call /\ sent' = sent
    BY <1>4 DEF Reply
  <2>2. AnswerIsItsOwn => AnswerIsItsOwn'
    BY <2>1, SameAsks DEF AnswerIsItsOwn
  <2>3. \A i \in DOMAIN sent : sent[i] = sent[i]
    OBVIOUS
  <2>. QED  BY <1>1, <1>2, <2>1, <2>2, {} \in SUBSET TTYThreads, CallsMove
<1>. QED  BY <1>3, <1>4

\* Nothing is left of an empty queue, nor of one that is done.
LEMMA RestNone ==
  ASSUME NEW q \in Seq(Asks \cup {Note})
  PROVE  Rest(q, Len(q)) = {} /\ Rest(<<>>, 0) = {} /\ <<>> \in Seq(Asks \cup {Note})
<1>1. PICK n \in Nat : n = Len(q)
  OBVIOUS
<1>2. n + 1 .. n = {}
  BY <1>1
<1>3. PICK e : e = Len(<<>>)
  OBVIOUS
<1>4. e = 0 /\ 0 + 1 .. e = {}
  BY <1>3
<1>. QED  BY <1>1, <1>2, <1>3, <1>4 DEF Rest

\* The writer takes the queue.
LEMMA TalkTaken ==
  ASSUME TalkInv, UNCHANGED may, mine = <<>>, mine' = queued, queued' = <<>>,
         UNCHANGED <<sent, idCounter, wire, replies, call, asked>>
  PROVE  TalkInv'
<1>1. queued \in Seq(Asks \cup {Note})
  BY DEF TalkInv, TalkTypes
<1>2. PICK e \in Seq(Asks \cup {Note}) : e = <<>>
  BY <1>1, RestNone
<1>3. Rest(e, 0) = {} /\ mine = e /\ queued' = e
  BY <1>1, <1>2, RestNone
<1>4. TalkTypes'
  BY <1>1, <1>2, SameAsks DEF TalkInv, TalkTypes
<1>5. OnePlace(sent, mine', 0, e, call)
  BY <1>3 DEF TalkInv, Placed, OnePlace
<1>6. InTurn(sent, idCounter, mine, 0, queued, asked) => InTurn(sent, idCounter, mine', 0, e, asked)
  <2>. SUFFICES ASSUME InTurn(sent, idCounter, mine, 0, queued, asked)
                PROVE  InTurn(sent, idCounter, mine', 0, e, asked)
    OBVIOUS
  <2>1. \A m, q : {m[j].serial : j \in Rest(e, 0)} \cup {q[j].serial : j \in Rest(queued, 0)}
                   = {q[j].serial : j \in Rest(queued, 0)} \cup {m[j].serial : j \in Rest(e, 0)}
    BY <1>3
  <2>. QED  BY <1>3, <2>1 DEF InTurn
<1>7. AnswerIsItsOwn => AnswerIsItsOwn'
  BY SameAsks DEF AnswerIsItsOwn
<1>. QED  BY <1>3, <1>4, <1>5, <1>6, <1>7 DEF TalkInv, Placed, Numbered

\* The writer sends what it has taken.
LEMMA TalkSent ==
  ASSUME TTYBackendAssumption, TalkInv, UNCHANGED may, Send
  PROVE  TalkInv'
<1>1. /\ sent \in SentMaps /\ idCounter \in 0 .. MaxSent /\ wire \in SUBSET Messages
      /\ call \in Calls /\ mine \in Seq(Asks \cup {Note}) /\ asked \in Nat
      /\ queued \in Seq(Asks \cup {Note})
  BY DEF TalkInv, TalkTypes
<1>2. Unsent \in SendStates
  BY <1>1 DEF Unsent, SendStates
<1>3. OnePlace(sent, mine, 0, queued, call)
  BY DEF TalkInv, Placed
<1>4. PICK z : z = AllSent
  OBVIOUS
<1>5. \A i \in Rest(queued, 0) : queued[i] \in Asks
  BY <1>1 DEF Rest
<1>6. /\ z \in SendStates /\ z.call = call /\ OnePlace(z.sent, mine, Len(mine), queued, call)
      /\ /\ asked <= MaxSent /\ InTurn(sent, idCounter, mine, 0, queued, asked)
         /\ \A r \in wire : r.serial = r.id
         => InTurn(z.sent, z.id, mine, Len(mine), queued, asked) /\ \A r \in z.wire : r.serial = r.id
  BY <1>1, <1>2, <1>3, <1>4, <1>5, AllSentIs
<1>7. PICK e \in Seq(Asks \cup {Note}) : e = <<>>
  BY <1>1, RestNone
<1>8. Rest(mine, Len(mine)) = {} /\ Rest(e, 0) = {}
  BY <1>1, <1>7, RestNone
<1>9. /\ sent' = z.sent /\ idCounter' = z.id /\ wire' = z.wire /\ call' = call /\ mine' = e
      /\ UNCHANGED <<queued, replies, asked>>
  BY <1>4, <1>6, <1>7 DEF Send
<1>10. TalkTypes'
  <2>1. z.sent \in SentMaps /\ z.id \in 0 .. MaxSent /\ z.wire \in SUBSET Messages
    BY <1>6 DEF SendStates
  <2>2. replies \in SUBSET Messages
    BY DEF TalkInv, TalkTypes
  <2>. QED  BY ONLY <2>1, <2>2, <1>1, <1>7, <1>9, UNCHANGED may, SameAsks DEF TalkTypes
<1>11. OnePlace(z.sent, e, 0, queued, call)
  BY <1>6, <1>8 DEF OnePlace
<1>12. InTurn(z.sent, z.id, mine, Len(mine), queued, asked) => InTurn(z.sent, z.id, e, 0, queued, asked)
  <2>1. {mine[j].serial : j \in Rest(mine, Len(mine))} = {e[j].serial : j \in Rest(e, 0)}
    BY <1>8
  <2>. QED  BY <1>8, <2>1 DEF InTurn
<1>13. AnswerIsItsOwn => AnswerIsItsOwn'
  BY <1>9, SameAsks DEF AnswerIsItsOwn
<1>14. asked <= MaxSent => Numbered'
  <2>. SUFFICES ASSUME asked <= MaxSent PROVE Numbered'
    OBVIOUS
  <2>1. Numbered
    BY DEF TalkInv
  <2>2. InTurn(z.sent, z.id, e, 0, queued, asked) /\ \A r \in z.wire : r.serial = r.id
    BY <2>1, <1>6, <1>12 DEF Numbered
  <2>. QED  BY <2>1, <2>2, <1>9, <1>13 DEF Numbered
<1>. QED  BY <1>9, <1>10, <1>11, <1>14 DEF TalkInv, Placed

\* On its way, a question becomes an answer, or is lost with the terminal.
LEMMA TalkMoved ==
  ASSUME TalkInv, UNCHANGED may, wire' \cup replies' \subseteq wire \cup replies,
         UNCHANGED <<queued, sent, mine, idCounter, call, asked>>
  PROVE  TalkInv'
<1>1. TalkTypes'
  BY SameAsks DEF TalkInv, TalkTypes
<1>2. AnswerIsItsOwn => AnswerIsItsOwn'
  BY SameAsks DEF AnswerIsItsOwn
<1>. QED  BY <1>1, <1>2 DEF TalkInv, Placed, Numbered

-----------------------------------------------------------------------------
(* The threads                                                             *)

AsyncTypes ==
  /\ exiting \in BOOLEAN /\ deadio \in BOOLEAN
  /\ ae \subseteq AsyncEvents /\ taken \subseteq AsyncEvents
  /\ asleep \subseteq {"writer", "app"}

PipeTypes ==
  /\ kick \in 0 .. KickCap /\ flush \in BOOLEAN
  /\ sizeId \in 0 .. may.damages /\ seenId \in 0 .. sizeId

TermTypes ==
  [alive : BOOLEAN, far2l : BOOLEAN, size : {0, 1}, screen : Garbage .. may.screens,
   palette : Garbage .. may.palettes, number : 0 .. may.breaks]

ImageTypes ==
  /\ far2lTty \in BOOLEAN /\ notify \in BOOLEAN /\ hup \in BOOLEAN
  /\ size \in {0, 1} /\ prev \in Unknown .. may.screens
  /\ con \in 0 .. may.screens /\ palette \in 0 .. may.palettes
  /\ term \in TermTypes

ThreadTypes ==
  /\ reader \in {"start", "loop", "flush", "input", "kick", "broken", "dead", "join", "revive", "end"}
  /\ writer \in {"off", "start", "check", "lock", "wait", "do", "send", "bye", "hup", "done"}
  /\ app \in {"run", "palette", "ask", "open", "cancel", "background", "joinReader", "joinClip", "gone"}
  /\ clip \in {"off", "chunk", "test", "last", "wait", "close", "end"}
  /\ cancel \in BOOLEAN
  /\ questions \in 0 .. may.questions /\ clips \in 0 .. may.clips /\ left \in 0 .. may.chunks

\* A transfer that is not over has one more question to ask
ToAsk == IF app = "open" \/ clip \in {"chunk", "test", "last"} THEN 1 ELSE 0

\* Where each thread is as far as what it has asked goes; the writer is there for one
\* terminal.
Stands ==
  /\ (Waiting("app") => app \in {"ask", "open"}) /\ (Waiting("clip") => clip = "wait")
  /\ app = "open" => clip = "off"
  /\ writer # "send" => mine = <<>>
  /\ reader \in {"start", "revive"} => writer = "off"
  /\ asked + ToAsk <= questions + 2 * clips

TTYIInv ==
  /\ may \in Scenarios
  /\ AsyncTypes /\ PipeTypes /\ ImageTypes /\ ThreadTypes
  /\ Stands /\ TalkInv

\* What a scenario bounds, as numbers.
LEMMA Bounds ==
  ASSUME TTYBackendAssumption, may \in Scenarios
  PROVE  /\ may.screens \in Nat /\ may.palettes \in Nat /\ may.questions \in Nat
         /\ may.clips \in Nat /\ may.chunks \in Nat /\ may.damages \in Nat /\ may.breaks \in Nat
BY DEF TTYBackendAssumption, Scenario

\* _ae, the pipe and the counts of what the threads do keep their types.
LEMMA ThreadStep ==
  ASSUME TTYBackendAssumption, TTYIInv, TTYNext
  PROVE  may' \in Scenarios /\ AsyncTypes' /\ PipeTypes' /\ ThreadTypes'
<1>1. PICK q \in Nat, c \in Nat, h \in Nat, d \in Nat :
           q = may.questions /\ c = may.clips /\ h = may.chunks /\ d = may.damages
  BY Bounds DEF TTYIInv
<1>2. may' = may /\ may \in Scenarios
  BY DEF TTYIInv, TTYNext
<1>3. AsyncTypes /\ PipeTypes /\ ThreadTypes
  BY DEF TTYIInv
<1>4. kick \in 0 .. KickCap /\ flush \in BOOLEAN /\ sizeId \in 0 .. d /\ seenId \in 0 .. sizeId
  BY <1>1, <1>3 DEF PipeTypes
<1>5. questions \in 0 .. q /\ clips \in 0 .. c /\ left \in 0 .. h
  BY <1>1, <1>3 DEF ThreadTypes
<1>. DEFINE Threads4 == /\ reader' \in {"start", "loop", "flush", "input", "kick", "broken", "dead", "join", "revive", "end"}
  /\ writer' \in {"off", "start", "check", "lock", "wait", "do", "send", "bye", "hup", "done"}
  /\ app' \in {"run", "palette", "ask", "open", "cancel", "background", "joinReader", "joinClip", "gone"}
  /\ clip' \in {"off", "chunk", "test", "last", "wait", "close", "end"}
  /\ cancel' \in BOOLEAN
            Counts == questions' \in 0 .. q /\ clips' \in 0 .. c /\ left' \in 0 .. h
            Kicks == kick' \in 0 .. KickCap /\ flush' \in BOOLEAN
            SizeIds == sizeId' \in 0 .. d /\ seenId' \in 0 .. sizeId'
            Goal == AsyncTypes' /\ Threads4 /\ Counts /\ Kicks /\ SizeIds
<1>. USE DEF async, pipe, threads, transfer
<1>6. ASSUME Main PROVE Goal
  <2>. USE DEF Raise, Enqueue, KickAss, AskAndWait, Tell, NotTold, AsyncEvents, KickCap
  <2>1. AsyncTypes'
    BY <1>3, <1>6 DEF Main, Output, SetPalette, PaletteAwake, Ask, SetData, Return, Empty,
       Emptied, Background, GoBackground, Exit, ReaderJoined, Gone, AsyncTypes
  <2>2. Threads4
    BY <1>3, <1>6 DEF Main, Output, SetPalette, PaletteAwake, Ask, SetData, Return, Empty,
       Emptied, Background, GoBackground, Exit, ReaderJoined, Gone, ThreadTypes
  <2>3. Counts
    BY <1>1, <1>5, <1>6 DEF Main, Output, SetPalette, PaletteAwake, Ask, SetData, Return, Empty,
       Emptied, Background, GoBackground, Exit, ReaderJoined, Gone
  <2>4. Kicks
    BY <1>4, <1>6 DEF Main, Output, SetPalette, PaletteAwake, Ask, SetData, Return, Empty,
       Emptied, Background, GoBackground, Exit, ReaderJoined, Gone
  <2>5. SizeIds
    BY <1>1, <1>4, <1>6 DEF Main, Output, SetPalette, PaletteAwake, Ask, SetData, Return, Empty,
       Emptied, Background, GoBackground, Exit, ReaderJoined, Gone
  <2>. HIDE DEF Threads4, Counts, Kicks, SizeIds
  <2>. QED  BY <2>1, <2>2, <2>3, <2>4, <2>5 DEF Goal
<1>7. ASSUME Clip PROVE Goal
  <2>. USE DEF Raise, Enqueue, AskAndWait, Tell, NotTold, AsyncEvents
  <2>1. AsyncTypes'
    BY <1>3, <1>7 DEF Clip, Chunk, Test, LastChunk, LastDone, Close, AsyncTypes
  <2>2. Threads4
    BY <1>3, <1>7 DEF Clip, Chunk, Test, LastChunk, LastDone, Close, ThreadTypes
  <2>3. Counts
    BY <1>1, <1>5, <1>7 DEF Clip, Chunk, Test, LastChunk, LastDone, Close
  <2>4. Kicks
    BY <1>4, <1>7 DEF Clip, Chunk, Test, LastChunk, LastDone, Close
  <2>5. SizeIds
    BY <1>1, <1>4, <1>7 DEF Clip, Chunk, Test, LastChunk, LastDone, Close
  <2>. HIDE DEF Threads4, Counts, Kicks, SizeIds
  <2>. QED  BY <2>1, <2>2, <2>3, <2>4, <2>5 DEF Goal
<1>8. ASSUME Reader PROVE Goal
  <2>. USE DEF Raise, AsyncEvents, KickCap
  <2>1. AsyncTypes'
    BY <1>3, <1>8 DEF Reader, ReaderStart, ReaderEnd, Select, FlushInput, ReadInput, ReadKick,
       ReaderBroken, ReaderDead, WriterJoined, Unkick, AsyncTypes
  <2>2. Threads4
    BY <1>3, <1>8 DEF Reader, ReaderStart, ReaderEnd, Select, FlushInput, ReadInput, ReadKick,
       ReaderBroken, ReaderDead, WriterJoined, Unkick, ThreadTypes
  <2>3. Counts
    BY <1>1, <1>5, <1>8 DEF Reader, ReaderStart, ReaderEnd, Select, FlushInput, ReadInput, ReadKick,
       ReaderBroken, ReaderDead, WriterJoined, Unkick
  <2>4. Kicks
    <3>1. CASE ReaderStart
      BY <1>4, <3>1 DEF ReaderStart
    <3>2. CASE ReaderEnd
      BY <1>4, <3>2 DEF ReaderEnd
    <3>3. CASE Select
      BY <1>4, <3>3 DEF Select
    <3>4. CASE FlushInput
      BY <1>4, <3>4 DEF FlushInput
    <3>5. CASE ReadInput
      BY <1>4, <3>5 DEF ReadInput
    <3>6. CASE ReadKick
      BY <1>4, <3>6 DEF ReadKick
    <3>7. CASE ReaderBroken
      BY <1>4, <3>7 DEF ReaderBroken
    <3>8. CASE ReaderDead
      BY <1>4, <3>8 DEF ReaderDead
    <3>9. CASE WriterJoined
      BY <1>4, <3>9 DEF WriterJoined
    <3>10. CASE Unkick
      BY <1>4, <3>10 DEF Unkick
    <3>. QED  BY <1>8, <3>1, <3>2, <3>3, <3>4, <3>5, <3>6, <3>7, <3>8, <3>9, <3>10 DEF Reader
  <2>5. SizeIds
    BY <1>1, <1>4, <1>8 DEF Reader, ReaderStart, ReaderEnd, Select, FlushInput, ReadInput, ReadKick,
       ReaderBroken, ReaderDead, WriterJoined, Unkick
  <2>. HIDE DEF Threads4, Counts, Kicks, SizeIds
  <2>. QED  BY <2>1, <2>2, <2>3, <2>4, <2>5 DEF Goal
<1>9. ASSUME Writer PROVE Goal
  <2>. USE DEF TakeEvents, Due, KickAss, AsyncEvents, KickCap
  <2>1. AsyncTypes'
    BY <1>3, <1>9 DEF Writer, WriterStart, WriterCheck, WriterLock, WriterAwake, WritePalette,
       WriteResized, WriteOutput, WriteInteract, Send, WriteFlush, WriterBye, WriterHup, AsyncTypes
  <2>2. Threads4
    BY <1>3, <1>9 DEF Writer, WriterStart, WriterCheck, WriterLock, WriterAwake, WritePalette,
       WriteResized, WriteOutput, WriteInteract, Send, WriteFlush, WriterBye, WriterHup, ThreadTypes
  <2>3. Counts
    BY <1>1, <1>5, <1>9 DEF Writer, WriterStart, WriterCheck, WriterLock, WriterAwake, WritePalette,
       WriteResized, WriteOutput, WriteInteract, Send, WriteFlush, WriterBye, WriterHup
  <2>4. Kicks
    <3>1. CASE WriterStart
      BY <1>4, <3>1 DEF WriterStart
    <3>2. CASE WriterCheck
      BY <1>4, <3>2 DEF WriterCheck
    <3>3. CASE WriterLock
      BY <1>4, <3>3 DEF WriterLock
    <3>4. CASE WriterAwake
      BY <1>4, <3>4 DEF WriterAwake
    <3>5. CASE WritePalette
      BY <1>4, <3>5 DEF WritePalette
    <3>6. CASE WriteResized
      BY <1>4, <3>6 DEF WriteResized
    <3>7. CASE WriteOutput
      BY <1>4, <3>7 DEF WriteOutput
    <3>8. CASE WriteInteract
      BY <1>4, <3>8 DEF WriteInteract
    <3>9. CASE Send
      BY <1>4, <3>9 DEF Send
    <3>10. CASE WriteFlush
      BY <1>4, <3>10 DEF WriteFlush
    <3>11. CASE WriterBye
      BY <1>4, <3>11 DEF WriterBye
    <3>12. CASE WriterHup
      BY <1>4, <3>12 DEF WriterHup
    <3>. QED  BY <1>9, <3>1, <3>2, <3>3, <3>4, <3>5, <3>6, <3>7, <3>8, <3>9, <3>10, <3>11, <3>12 DEF Writer
  <2>5. SizeIds
    BY <1>1, <1>4, <1>9 DEF Writer, WriterStart, WriterCheck, WriterLock, WriterAwake, WritePalette,
       WriteResized, WriteOutput, WriteInteract, Send, WriteFlush, WriterBye, WriterHup
  <2>. HIDE DEF Threads4, Counts, Kicks, SizeIds
  <2>. QED  BY <2>1, <2>2, <2>3, <2>4, <2>5 DEF Goal
<1>10. ASSUME Outside PROVE Goal
  <2>. USE DEF KickAss, KickCap
  <2>1. AsyncTypes'
    BY <1>3, <1>10 DEF Outside, Answer, Damage, Break, SigHup, Attach, AsyncTypes
  <2>2. Threads4
    <3>1. CASE Answer
      BY <1>3, <3>1 DEF Answer, ThreadTypes
    <3>2. CASE Damage
      BY <1>3, <3>2 DEF Damage, ThreadTypes
    <3>3. CASE Break
      BY <1>3, <3>3 DEF Break, ThreadTypes
    <3>4. CASE SigHup
      BY <1>3, <3>4 DEF SigHup, ThreadTypes
    <3>5. CASE Attach
      BY <1>3, <3>5 DEF Attach, ThreadTypes
    <3>. QED  BY <1>10, <3>1, <3>2, <3>3, <3>4, <3>5 DEF Outside
  <2>3. Counts
    BY <1>1, <1>5, <1>10 DEF Outside, Answer, Damage, Break, SigHup, Attach
  <2>4. Kicks
    <3>1. CASE Answer
      BY <1>4, <3>1 DEF Answer
    <3>2. CASE Damage
      <4>1. (flush' = flush \/ flush' = TRUE) /\ KickAss
        BY <3>2, Zenon DEF Damage
      <4>2. flush' \in BOOLEAN
        BY <1>4, <4>1, Zenon
      <4>3. kick' \in 0 .. KickCap
        BY <1>4, <4>1 DEF KickAss, KickCap
      <4>. QED  BY <4>1, <4>2, <4>3
    <3>3. CASE Break
      BY <1>4, <3>3 DEF Break
    <3>4. CASE SigHup
      BY <1>4, <3>4 DEF SigHup
    <3>5. CASE Attach
      BY <1>4, <3>5 DEF Attach
    <3>. QED  BY <1>10, <3>1, <3>2, <3>3, <3>4, <3>5 DEF Outside
  <2>5. SizeIds
    <3>1. CASE Answer
      BY <1>1, <1>4, <3>1 DEF Answer
    <3>2. CASE Damage
      BY <1>1, <1>4, <3>2 DEF Damage
    <3>3. CASE Break
      BY <1>1, <1>4, <3>3 DEF Break
    <3>4. CASE SigHup
      BY <1>1, <1>4, <3>4 DEF SigHup
    <3>5. CASE Attach
      BY <1>1, <1>4, <3>5 DEF Attach
    <3>. QED  BY <1>10, <3>1, <3>2, <3>3, <3>4, <3>5 DEF Outside
  <2>. HIDE DEF Threads4, Counts, Kicks, SizeIds
  <2>. QED  BY <2>1, <2>2, <2>3, <2>4, <2>5 DEF Goal
<1>11. Goal
  <2>. HIDE DEF Goal
  <2>. QED  BY <1>6, <1>7, <1>8, <1>9, <1>10 DEF TTYNext
<1>. QED  BY <1>1, <1>2, <1>11 DEF PipeTypes, ThreadTypes

\* What the terminal and the console show keeps its types.
LEMMA ImageStep ==
  ASSUME TTYBackendAssumption, TTYIInv, TTYNext
  PROVE  ImageTypes'
<1>1. PICK sc \in Nat, pa \in Nat, br \in Nat :
           sc = may.screens /\ pa = may.palettes /\ br = may.breaks
  BY Bounds DEF TTYIInv
<1>2. may' = may
  BY DEF TTYNext
<1>. DEFINE T == [alive : BOOLEAN, far2l : BOOLEAN, size : {0, 1}, screen : Garbage .. sc,
                  palette : Garbage .. pa, number : 0 .. br]
            Flags == far2lTty' \in BOOLEAN /\ notify' \in BOOLEAN /\ hup' \in BOOLEAN
            Shown == /\ size' \in {0, 1} /\ prev' \in Unknown .. sc
                     /\ con' \in 0 .. sc /\ palette' \in 0 .. pa
            Goal == Flags /\ Shown /\ term' \in T
<1>3. far2lTty \in BOOLEAN /\ notify \in BOOLEAN /\ hup \in BOOLEAN
  BY DEF TTYIInv, ImageTypes
<1>4. size \in {0, 1} /\ prev \in Unknown .. sc /\ con \in 0 .. sc /\ palette \in 0 .. pa
  BY <1>1 DEF TTYIInv, ImageTypes
<1>5. term \in T
  BY <1>1 DEF TTYIInv, ImageTypes, TermTypes
<1>a. Garbage = -1 /\ Unknown = -2
  BY DEF Garbage, Unknown
<1>b. /\ term.alive \in BOOLEAN /\ term.far2l \in BOOLEAN /\ term.size \in {0, 1}
      /\ term.screen \in Garbage .. sc /\ term.palette \in Garbage .. pa /\ term.number \in 0 .. br
      /\ term = [alive |-> term.alive, far2l |-> term.far2l, size |-> term.size, screen |-> term.screen,
                 palette |-> term.palette, number |-> term.number]
  BY <1>5
<1>c. \A a \in BOOLEAN, f \in BOOLEAN, z \in {0, 1}, x \in Garbage .. sc, y \in Garbage .. pa, n \in 0 .. br :
        [alive |-> a, far2l |-> f, size |-> z, screen |-> x, palette |-> y, number |-> n] \in T
  OBVIOUS
<1>d. con \in Garbage .. sc /\ palette \in Garbage .. pa /\ con \in Unknown .. sc
      /\ Garbage \in Garbage .. sc /\ Garbage \in Garbage .. pa /\ Unknown \in Unknown .. sc
  BY <1>4, <1>a
<1>. USE DEF attach, image
<1>6. ASSUME Main PROVE Goal
  <2>1. Flags
    BY <1>3, <1>6 DEF Main, Output, SetPalette, PaletteAwake, Ask, SetData, Return, Empty,
       Emptied, Background, GoBackground, Exit, ReaderJoined, Gone
  <2>2. Shown
    BY <1>1, <1>4, <1>6 DEF Main, Output, SetPalette, PaletteAwake, Ask, SetData, Return, Empty,
       Emptied, Background, GoBackground, Exit, ReaderJoined, Gone
  <2>3. term' = term
    BY <1>6 DEF Main, Output, SetPalette, PaletteAwake, Ask, SetData, Return, Empty,
       Emptied, Background, GoBackground, Exit, ReaderJoined, Gone
  <2>. QED  BY <2>1, <2>2, <2>3, <1>5
<1>7. ASSUME Clip PROVE Goal
  <2>1. Flags
    BY <1>3, <1>7 DEF Clip, Chunk, Test, LastChunk, LastDone, Close
  <2>2. Shown
    BY <1>1, <1>4, <1>7 DEF Clip, Chunk, Test, LastChunk, LastDone, Close
  <2>3. term' = term
    BY <1>7 DEF Clip, Chunk, Test, LastChunk, LastDone, Close
  <2>. QED  BY <2>1, <2>2, <2>3, <1>5
<1>8. ASSUME Reader PROVE Goal
  <2>1. CASE ReaderStart
    <3>1. Flags
      BY <1>3, <2>1 DEF ReaderStart
    <3>2. Shown
      BY <1>1, <1>4, <1>b, <1>d, <2>1 DEF ReaderStart
    <3>5. term' \in T
      BY <1>5, <2>1 DEF ReaderStart
    <3>. HIDE DEF Flags, Shown, T
    <3>. QED  BY <3>1, <3>2, <3>5
  <2>2. CASE ReaderEnd
    <3>1. Flags
      BY <1>3, <2>2 DEF ReaderEnd
    <3>2. Shown
      BY <1>1, <1>4, <1>b, <1>d, <2>2 DEF ReaderEnd
    <3>5. term' \in T
      BY <1>5, <2>2 DEF ReaderEnd
    <3>. HIDE DEF Flags, Shown, T
    <3>. QED  BY <3>1, <3>2, <3>5
  <2>3. CASE Select
    <3>1. Flags
      BY <1>3, <2>3 DEF Select
    <3>2. Shown
      BY <1>1, <1>4, <1>b, <1>d, <2>3 DEF Select
    <3>5. term' \in T
      BY <1>5, <2>3 DEF Select
    <3>. HIDE DEF Flags, Shown, T
    <3>. QED  BY <3>1, <3>2, <3>5
  <2>4. CASE FlushInput
    <3>1. Flags
      BY <1>3, <2>4 DEF FlushInput
    <3>2. Shown
      BY <1>1, <1>4, <1>b, <1>d, <2>4 DEF FlushInput
    <3>5. term' \in T
      BY <1>5, <2>4 DEF FlushInput
    <3>. HIDE DEF Flags, Shown, T
    <3>. QED  BY <3>1, <3>2, <3>5
  <2>5. CASE ReadInput
    <3>1. Flags
      BY <1>3, <2>5 DEF ReadInput
    <3>2. Shown
      BY <1>1, <1>4, <1>b, <1>d, <2>5 DEF ReadInput
    <3>5. term' \in T
      BY <1>5, <2>5 DEF ReadInput
    <3>. HIDE DEF Flags, Shown, T
    <3>. QED  BY <3>1, <3>2, <3>5
  <2>6. CASE ReadKick
    <3>1. Flags
      BY <1>3, <2>6 DEF ReadKick
    <3>2. Shown
      BY <1>1, <1>4, <1>b, <1>d, <2>6 DEF ReadKick
    <3>5. term' \in T
      BY <1>5, <2>6 DEF ReadKick
    <3>. HIDE DEF Flags, Shown, T
    <3>. QED  BY <3>1, <3>2, <3>5
  <2>7. CASE ReaderBroken
    <3>1. Flags
      BY <1>3, <2>7 DEF ReaderBroken
    <3>2. Shown
      BY <1>1, <1>4, <1>b, <1>d, <2>7 DEF ReaderBroken
    <3>5. term' \in T
      BY <1>5, <2>7 DEF ReaderBroken
    <3>. HIDE DEF Flags, Shown, T
    <3>. QED  BY <3>1, <3>2, <3>5
  <2>8. CASE ReaderDead
    <3>1. Flags
      BY <1>3, <2>8 DEF ReaderDead
    <3>2. Shown
      BY <1>1, <1>4, <1>b, <1>d, <2>8 DEF ReaderDead
    <3>5. term' \in T
      BY <1>5, <2>8 DEF ReaderDead
    <3>. HIDE DEF Flags, Shown, T
    <3>. QED  BY <3>1, <3>2, <3>5
  <2>9. CASE WriterJoined
    <3>1. Flags
      BY <1>3, <2>9 DEF WriterJoined
    <3>2. Shown
      BY <1>1, <1>4, <1>b, <1>d, <2>9 DEF WriterJoined
    <3>5. term' \in T
      BY <1>5, <2>9 DEF WriterJoined
    <3>. HIDE DEF Flags, Shown, T
    <3>. QED  BY <3>1, <3>2, <3>5
  <2>10. CASE Unkick
    <3>1. Flags
      BY <1>3, <2>10 DEF Unkick
    <3>2. Shown
      BY <1>1, <1>4, <1>b, <1>d, <2>10 DEF Unkick
    <3>5. term' \in T
      BY <1>5, <2>10 DEF Unkick
    <3>. HIDE DEF Flags, Shown, T
    <3>. QED  BY <3>1, <3>2, <3>5
  <2>. HIDE DEF Goal
  <2>. QED  BY <1>8, <2>1, <2>2, <2>3, <2>4, <2>5, <2>6, <2>7, <2>8, <2>9, <2>10 DEF Reader
<1>9. ASSUME Writer PROVE Goal
  <2>1. CASE WriterStart
    <3>1. Flags
      BY <1>3, <2>1 DEF WriterStart
    <3>2. Shown
      BY <1>1, <1>4, <1>b, <1>d, <2>1 DEF WriterStart
    <3>3. term' = term \/ term' = [alive |-> term.alive, far2l |-> term.far2l, size |-> term.size, screen |-> term.screen, palette |-> palette, number |-> term.number]
      BY <1>b, <2>1 DEF WriterStart
    <3>5. term' \in T
      BY <1>b, <1>c, <1>d, <1>5, <3>3
    <3>. HIDE DEF Flags, Shown, T
    <3>. QED  BY <3>1, <3>2, <3>5
  <2>2. CASE WriterCheck
    <3>1. Flags
      BY <1>3, <2>2 DEF WriterCheck
    <3>2. Shown
      BY <1>1, <1>4, <1>b, <1>d, <2>2 DEF WriterCheck
    <3>5. term' \in T
      BY <1>5, <2>2 DEF WriterCheck
    <3>. HIDE DEF Flags, Shown, T
    <3>. QED  BY <3>1, <3>2, <3>5
  <2>3. CASE WriterLock
    <3>1. Flags
      BY <1>3, <2>3 DEF WriterLock
    <3>2. Shown
      BY <1>1, <1>4, <1>b, <1>d, <2>3 DEF WriterLock
    <3>5. term' \in T
      BY <1>5, <2>3 DEF WriterLock
    <3>. HIDE DEF Flags, Shown, T
    <3>. QED  BY <3>1, <3>2, <3>5
  <2>4. CASE WriterAwake
    <3>1. Flags
      BY <1>3, <2>4 DEF WriterAwake
    <3>2. Shown
      BY <1>1, <1>4, <1>b, <1>d, <2>4 DEF WriterAwake
    <3>5. term' \in T
      BY <1>5, <2>4 DEF WriterAwake
    <3>. HIDE DEF Flags, Shown, T
    <3>. QED  BY <3>1, <3>2, <3>5
  <2>5. CASE WritePalette
    <3>1. Flags
      BY <1>3, <2>5 DEF WritePalette
    <3>2. Shown
      BY <1>1, <1>4, <1>b, <1>d, <2>5 DEF WritePalette
    <3>3. term' = term \/ term' = [alive |-> term.alive, far2l |-> term.far2l, size |-> term.size, screen |-> term.screen, palette |-> palette, number |-> term.number]
      BY <1>b, <2>5 DEF WritePalette
    <3>5. term' \in T
      BY <1>b, <1>c, <1>d, <1>5, <3>3
    <3>. HIDE DEF Flags, Shown, T
    <3>. QED  BY <3>1, <3>2, <3>5
  <2>6. CASE WriteResized
    <3>1. Flags
      BY <1>3, <2>6 DEF WriteResized
    <3>2. Shown
      BY <1>1, <1>4, <1>b, <1>d, <2>6 DEF WriteResized
    <3>5. term' \in T
      BY <1>5, <2>6 DEF WriteResized
    <3>. HIDE DEF Flags, Shown, T
    <3>. QED  BY <3>1, <3>2, <3>5
  <2>7. CASE WriteOutput
    <3>1. Flags
      BY <1>3, <2>7 DEF WriteOutput
    <3>2. Shown
      BY <1>1, <1>4, <1>b, <1>d, <2>7 DEF WriteOutput
    <3>3. term' = term \/ term' = [alive |-> term.alive, far2l |-> term.far2l, size |-> term.size, screen |-> con, palette |-> term.palette, number |-> term.number]
      BY <1>b, <2>7 DEF WriteOutput
    <3>5. term' \in T
      BY <1>b, <1>c, <1>d, <1>5, <3>3
    <3>. HIDE DEF Flags, Shown, T
    <3>. QED  BY <3>1, <3>2, <3>5
  <2>8. CASE WriteInteract
    <3>1. Flags
      BY <1>3, <2>8 DEF WriteInteract
    <3>2. Shown
      BY <1>1, <1>4, <1>b, <1>d, <2>8 DEF WriteInteract
    <3>5. term' \in T
      BY <1>5, <2>8 DEF WriteInteract
    <3>. HIDE DEF Flags, Shown, T
    <3>. QED  BY <3>1, <3>2, <3>5
  <2>9. CASE Send
    <3>1. Flags
      BY <1>3, <2>9 DEF Send
    <3>2. Shown
      BY <1>1, <1>4, <1>b, <1>d, <2>9 DEF Send
    <3>5. term' \in T
      BY <1>5, <2>9 DEF Send
    <3>. HIDE DEF Flags, Shown, T
    <3>. QED  BY <3>1, <3>2, <3>5
  <2>10. CASE WriteFlush
    <3>1. Flags
      BY <1>3, <2>10 DEF WriteFlush
    <3>2. Shown
      BY <1>1, <1>4, <1>b, <1>d, <2>10 DEF WriteFlush
    <3>5. term' \in T
      BY <1>5, <2>10 DEF WriteFlush
    <3>. HIDE DEF Flags, Shown, T
    <3>. QED  BY <3>1, <3>2, <3>5
  <2>11. CASE WriterBye
    <3>1. Flags
      BY <1>3, <2>11 DEF WriterBye
    <3>2. Shown
      BY <1>1, <1>4, <1>b, <1>d, <2>11 DEF WriterBye
    <3>5. term' \in T
      BY <1>5, <2>11 DEF WriterBye
    <3>. HIDE DEF Flags, Shown, T
    <3>. QED  BY <3>1, <3>2, <3>5
  <2>12. CASE WriterHup
    <3>1. Flags
      BY <1>3, <2>12 DEF WriterHup
    <3>2. Shown
      BY <1>1, <1>4, <1>b, <1>d, <2>12 DEF WriterHup
    <3>3. term' = [alive |-> FALSE, far2l |-> term.far2l, size |-> term.size, screen |-> term.screen, palette |-> term.palette, number |-> term.number]
      BY <1>b, <2>12 DEF WriterHup
    <3>5. term' \in T
      BY <1>b, <1>c, <1>d, <1>5, <3>3
    <3>. HIDE DEF Flags, Shown, T
    <3>. QED  BY <3>1, <3>2, <3>5
  <2>. HIDE DEF Goal
  <2>. QED  BY <1>9, <2>1, <2>2, <2>3, <2>4, <2>5, <2>6, <2>7, <2>8, <2>9, <2>10, <2>11, <2>12 DEF Writer
<1>10. ASSUME Outside PROVE Goal
  <2>1. CASE Answer
    <3>1. Flags
      BY <1>3, <2>1 DEF Answer
    <3>2. Shown
      BY <1>1, <1>4, <1>b, <1>d, <2>1 DEF Answer
    <3>5. term' \in T
      BY <1>5, <2>1 DEF Answer
    <3>. HIDE DEF Flags, Shown, T
    <3>. QED  BY <3>1, <3>2, <3>5
  <2>2. CASE Damage
    <3>1. Flags
      BY <1>3, <2>2 DEF Damage
    <3>2. Shown
      BY <1>1, <1>4, <1>b, <1>d, <2>2 DEF Damage
    <3>3. term' = [alive |-> term.alive, far2l |-> term.far2l, size |-> 1 - term.size, screen |-> Garbage, palette |-> term.palette, number |-> term.number] \/ term' = [alive |-> term.alive, far2l |-> term.far2l, size |-> term.size, screen |-> Garbage, palette |-> term.palette, number |-> term.number]
      BY <1>b, <2>2 DEF Damage
    <3>4. 1 - term.size \in {0, 1}
      BY <1>b
    <3>5. term' \in T
      BY <1>b, <1>c, <1>d, <3>3, <3>4
    <3>. HIDE DEF Flags, Shown, T
    <3>. QED  BY <3>1, <3>2, <3>5
  <2>3. CASE Break
    <3>1. Flags
      BY <1>3, <2>3 DEF Break
    <3>2. Shown
      BY <1>1, <1>4, <1>b, <1>d, <2>3 DEF Break
    <3>3. term' = [alive |-> FALSE, far2l |-> term.far2l, size |-> term.size, screen |-> term.screen, palette |-> term.palette, number |-> term.number + 1]
      BY <1>b, <2>3 DEF Break
    <3>4. term.number + 1 \in 0 .. br
      BY <1>1, <1>b, <2>3 DEF Break
    <3>5. term' \in T
      BY <1>b, <1>c, <1>d, <3>3, <3>4
    <3>. HIDE DEF Flags, Shown, T
    <3>. QED  BY <3>1, <3>2, <3>5
  <2>4. CASE SigHup
    <3>1. Flags
      BY <1>3, <2>4 DEF SigHup
    <3>2. Shown
      BY <1>1, <1>4, <1>b, <1>d, <2>4 DEF SigHup
    <3>3. term' = [alive |-> FALSE, far2l |-> term.far2l, size |-> term.size, screen |-> term.screen, palette |-> term.palette, number |-> term.number]
      BY <1>b, <2>4 DEF SigHup
    <3>5. term' \in T
      BY <1>b, <1>c, <1>d, <1>5, <3>3
    <3>. HIDE DEF Flags, Shown, T
    <3>. QED  BY <3>1, <3>2, <3>5
  <2>5. CASE Attach
    <3>1. Flags
      BY <1>3, <2>5, Zenon DEF Attach
    <3>2. Shown
      BY <1>1, <1>4, <1>b, <1>d, <2>5 DEF Attach
    <3>3. PICK f \in BOOLEAN : term' = NewTerm(f, term.number)
      <4>1. {TRUE, ~may.plain} \subseteq BOOLEAN
        OBVIOUS
      <4>. QED  BY <4>1, <2>5, Zenon DEF Attach
    <3>5. term' \in T
      BY <1>b, <1>c, <1>d, <3>3 DEF NewTerm
    <3>. HIDE DEF Flags, Shown, T
    <3>. QED  BY <3>1, <3>2, <3>5
  <2>. HIDE DEF Goal
  <2>. QED  BY <1>10, <2>1, <2>2, <2>3, <2>4, <2>5 DEF Outside
<1>11. Goal
  <2>. HIDE DEF Goal
  <2>. QED  BY <1>6, <1>7, <1>8, <1>9, <1>10 DEF TTYNext
<1>. QED  BY <1>1, <1>2, <1>11 DEF ImageTypes, TermTypes

\* A thread that goes to ask waits for nothing, and may ask once more.
LEMMA MayAsk ==
  ASSUME TTYBackendAssumption, TTYIInv, TTYNext
  PROVE  /\ Ask => ~Waiting("app") /\ asked + 1 \in Serials
         /\ SetData => ~Waiting("app") /\ asked + 1 \in Serials
         /\ LastChunk => ~Waiting("clip") /\ asked + 1 \in Serials
<1>1. PICK q \in Nat, c \in Nat : q = may.questions /\ c = may.clips /\ Serials = 1 .. q + 2 * c
  BY Bounds DEF TTYIInv, Serials
<1>2. questions \in 0 .. q /\ clips \in 0 .. c /\ asked \in Nat
  BY <1>1 DEF TTYIInv, ThreadTypes, TalkInv, TalkTypes
<1>3. asked + ToAsk <= questions + 2 * clips
  BY DEF TTYIInv, Stands
<1>4. ToAsk \in {0, 1}
  BY DEF ToAsk
<1>5. CASE Ask
  <2>1. app = "run" /\ questions < q
    BY <1>1, <1>5 DEF Ask
  <2>2. asked + 1 \in 1 .. q + 2 * c
    BY <1>2, <1>3, <1>4, <2>1
  <2>3. ~Waiting("app")
    BY <2>1 DEF TTYIInv, Stands
  <2>. QED  BY <1>1, <2>2, <2>3 DEF LastChunk, TTYIInv, Stands
<1>6. CASE SetData
  <2>1. app = "run" /\ clips < c
    BY <1>1, <1>6 DEF SetData
  <2>2. asked + 1 \in 1 .. q + 2 * c
    BY <1>2, <1>3, <1>4, <2>1
  <2>3. ~Waiting("app")
    BY <2>1 DEF TTYIInv, Stands
  <2>. QED  BY <1>1, <2>2, <2>3 DEF LastChunk, TTYIInv, Stands
<1>7. CASE LastChunk
  <2>1. clip = "last"
    BY <1>7 DEF LastChunk
  <2>2. ToAsk = 1
    BY <2>1 DEF ToAsk
  <2>3. asked + 1 \in 1 .. q + 2 * c
    BY <1>2, <1>3, <2>2
  <2>4. ~Waiting("clip")
    BY <2>1 DEF TTYIInv, Stands
  <2>. QED  BY <1>1, <2>3, <2>4 DEF Ask, SetData, TTYIInv, Stands
<1>. QED  BY <1>5, <1>6, <1>7

\* Each step is one of these, as far as what is said goes.
LEMMA TalkStep ==
  ASSUME TTYBackendAssumption, TTYIInv, TTYNext
  PROVE  TalkInv'
<1>1. TalkInv /\ UNCHANGED may
  BY DEF TTYIInv, TTYNext
<1>2. "app" \in TTYThreads /\ "clip" \in TTYThreads
  BY DEF TTYThreads
<1>3. UNCHANGED talk => TalkInv'
  BY <1>1, TalkSame
<1>4. Tell => TalkInv'
  BY <1>1, TalkTell
<1>5. NotTold => TalkInv'
  BY <1>3 DEF NotTold
<1>6. CASE Main
  <2>1. CASE Output \/ SetPalette \/ PaletteAwake \/ Empty \/ Background \/ GoBackground \/ Exit
               \/ ReaderJoined \/ Gone
    BY <1>3, <2>1 DEF Output, SetPalette, PaletteAwake, Empty, Background, GoBackground, Exit, ReaderJoined, Gone
  <2>2. CASE Ask
    <3>1. AskAndWait("app")
      BY <2>2, Zenon DEF Ask
    <3>. QED  BY <1>1, <1>2, <2>2, <3>1, MayAsk, TalkAsk
  <2>3. CASE SetData
    <3>1. AskAndWait("app") \/ NotTold
      BY <2>3, Zenon DEF SetData
    <3>. QED  BY <1>1, <1>2, <1>5, <2>3, <3>1, MayAsk, TalkAsk
  <2>4. CASE Return
    <3>1. /\ AnsweredTo("app") /\ call' = [call EXCEPT !["app"].answer = None]
          /\ UNCHANGED <<queued, sent, mine, idCounter, wire, replies, asked>>
      BY <2>4, Zenon DEF Return
    <3>. QED  BY <1>1, <1>2, <3>1, TalkReturn
  <2>5. CASE Emptied
    <3>1. Tell \/ NotTold
      BY <2>5, Zenon DEF Emptied
    <3>. QED  BY <1>4, <1>5, <3>1
  <2>. QED  BY <1>6, <2>1, <2>2, <2>3, <2>4, <2>5 DEF Main
<1>7. CASE Clip
  <2>1. CASE Chunk
    <3>1. UNCHANGED talk \/ Tell \/ NotTold
      BY <2>1, Zenon DEF Chunk
    <3>. QED  BY <1>3, <1>4, <1>5, <3>1
  <2>2. CASE Test
    <3>1. UNCHANGED talk \/ Tell \/ NotTold
      BY <2>2, Zenon DEF Test
    <3>. QED  BY <1>3, <1>4, <1>5, <3>1
  <2>3. CASE LastChunk
    <3>1. AskAndWait("clip") \/ NotTold
      BY <2>3, Zenon DEF LastChunk
    <3>. QED  BY <1>1, <1>2, <1>5, <2>3, <3>1, MayAsk, TalkAsk
  <2>4. CASE LastDone
    <3>1. /\ AnsweredTo("clip") /\ call' = [call EXCEPT !["clip"].answer = None]
          /\ UNCHANGED <<queued, sent, mine, idCounter, wire, replies, asked>>
      BY <2>4, Zenon DEF LastDone
    <3>. QED  BY <1>1, <1>2, <3>1, TalkReturn
  <2>5. CASE Close
    <3>1. Tell \/ NotTold
      BY <2>5, Zenon DEF Close
    <3>. QED  BY <1>4, <1>5, <3>1
  <2>. QED  BY <1>7, <2>1, <2>2, <2>3, <2>4, <2>5 DEF Clip
<1>8. CASE Reader
  <2>1. CASE ReaderStart \/ ReaderEnd \/ Select \/ ReadKick \/ ReaderDead \/ WriterJoined \/ Unkick
    BY <1>3, <2>1 DEF ReaderStart, ReaderEnd, Select, ReadKick, ReaderDead, WriterJoined, Unkick
  <2>2. CASE FlushInput
    <3>1. InputBroken \/ UNCHANGED talk
      BY <2>2, Zenon DEF FlushInput
    <3>. QED  BY <1>1, <1>3, <3>1, TalkBroken
  <2>3. CASE ReadInput
    <3>1. (\E r \in replies : Reply(r)) \/ UNCHANGED talk
      BY <2>3, Zenon DEF ReadInput
    <3>2. ASSUME NEW r \in replies, Reply(r) PROVE TalkInv'
      BY <1>1, <3>2, TalkReply
    <3>. QED  BY <1>3, <3>1, <3>2
  <2>4. CASE ReaderBroken
    <3>1. InputBroken
      BY <2>4, Zenon DEF ReaderBroken
    <3>. QED  BY <1>1, <3>1, TalkBroken
  <2>. QED  BY <1>8, <2>1, <2>2, <2>3, <2>4 DEF Reader
<1>9. CASE Writer
  <2>1. CASE WriterStart \/ WriterCheck \/ WriterLock \/ WriterAwake \/ WritePalette \/ WriteResized
              \/ WriteOutput \/ WriteFlush \/ WriterBye
    BY <1>3, <2>1 DEF WriterStart, WriterCheck, WriterLock, WriterAwake, WritePalette, WriteResized, WriteOutput, WriteFlush, WriterBye
  <2>2. CASE WriteInteract
    <3>1. /\ mine' = queued /\ queued' = <<>> /\ writer = "do"
          /\ UNCHANGED <<sent, idCounter, wire, call, asked, replies>>
      BY <2>2 DEF WriteInteract, Due
    <3>2. mine = <<>>
      BY <3>1 DEF TTYIInv, Stands
    <3>. QED  BY <1>1, <3>1, <3>2, TalkTaken
  <2>3. CASE Send
    BY <1>1, <2>3, TalkSent
  <2>4. CASE WriterHup
    <3>1. /\ wire' \cup replies' \subseteq wire \cup replies
          /\ UNCHANGED <<queued, sent, mine, idCounter, call, asked>>
      BY <2>4 DEF WriterHup
    <3>. QED  BY <1>1, <3>1, TalkMoved
  <2>. QED  BY <1>9, <2>1, <2>2, <2>3, <2>4 DEF Writer
<1>10. CASE Outside
  <2>1. CASE Damage \/ Attach
    BY <1>3, <2>1 DEF Damage, Attach
  <2>2. CASE Answer
    <3>1. /\ wire' \cup replies' \subseteq wire \cup replies
          /\ UNCHANGED <<queued, sent, mine, idCounter, call, asked>>
      BY <2>2 DEF Answer
    <3>. QED  BY <1>1, <3>1, TalkMoved
  <2>3. CASE Break
    <3>1. /\ wire' \cup replies' \subseteq wire \cup replies
          /\ UNCHANGED <<queued, sent, mine, idCounter, call, asked>>
      BY <2>3 DEF Break
    <3>. QED  BY <1>1, <3>1, TalkMoved
  <2>4. CASE SigHup
    <3>1. /\ wire' \cup replies' \subseteq wire \cup replies
          /\ UNCHANGED <<queued, sent, mine, idCounter, call, asked>>
      BY <2>4 DEF SigHup
    <3>. QED  BY <1>1, <3>1, TalkMoved
  <2>. QED  BY <1>10, <2>1, <2>2, <2>3, <2>4 DEF Outside
<1>. QED  BY <1>6, <1>7, <1>8, <1>9, <1>10 DEF TTYNext

\* Each thread waits where it has asked, and a transfer is taken to its end.
LEMMA StandStep ==
  ASSUME TTYBackendAssumption, TTYIInv, TTYNext
  PROVE  Stands'
<1>1. Stands /\ ThreadTypes
  BY DEF TTYIInv
<1>2. call \in Calls /\ asked \in Nat /\ questions \in Nat /\ clips \in Nat /\ ToAsk \in {0, 1}
  BY Bounds DEF TTYIInv, TalkInv, TalkTypes, ThreadTypes, ToAsk
<1>3. \A t \in TTYThreads : UNCHANGED call => (Waiting(t))' = Waiting(t)
  BY DEF Waiting
<1>a. \A t \in TTYThreads : call[t] \in [serial : Serials \cup {0}, answer : {None, Pending, Cleared} \cup Serials]
  BY <1>2 DEF Calls
<1>b. Cleared # Pending /\ None # Pending /\ Pending \notin Serials /\ "app" \in TTYThreads /\ "clip" \in TTYThreads
  BY DEF Cleared, None, Pending, Serials, TTYThreads
<1>c. ASSUME InputBroken, NEW t \in TTYThreads, (Waiting(t))' PROVE Waiting(t)
  <2>. DEFINE C(u) == [call[u] EXCEPT !.answer = Cleared]
  <2>1. C(t).answer = Cleared
    BY <1>a
  <2>. HIDE DEF C
  <2>2. call'[t] = C(t) \/ call'[t] = call[t]
    BY <1>c DEF InputBroken, C
  <2>. QED  BY <1>b, <1>c, <2>1, <2>2 DEF Waiting
<1>d. ASSUME NEW u \in TTYThreads, NEW x, x # Pending, call' = [call EXCEPT ![u].answer = x],
             NEW t \in TTYThreads, (Waiting(t))'
      PROVE  Waiting(t) /\ t # u
  <2>1. PICK c : c = [call[u] EXCEPT !.answer = x]
    OBVIOUS
  <2>2. c.answer = x
    BY <1>a, <2>1
  <2>3. call' = [call EXCEPT ![u] = c]
    BY <1>d, <2>1
  <2>4. call'[u] = c /\ (t # u => call'[t] = call[t])
    BY <1>2, <2>3 DEF Calls
  <2>. QED  BY <1>d, <2>2, <2>4 DEF Waiting
<1>e. ASSUME NEW r \in replies, Reply(r), NEW t \in TTYThreads, (Waiting(t))' PROVE Waiting(t)
  <2>1. sent \in SentMaps /\ r \in Messages
    BY DEF TTYIInv, TalkInv, TalkTypes
  <2>2. CASE r.id \in DOMAIN sent
    <3>1. PICK u \in TTYThreads : u = sent[r.id].who
      <4>1. sent[r.id] \in Asks
        BY <2>1, <2>2, SentIs
      <4>. QED  BY <4>1 DEF Asks
    <3>2. PICK x : x = r.serial
      OBVIOUS
    <3>3. x # Pending
      BY <1>b, <2>1, <3>2 DEF Messages
    <3>4. call' = [call EXCEPT ![u].answer = x]
      BY <1>e, <2>2, <3>1, <3>2 DEF Reply
    <3>. QED  BY <1>d, <1>e, <3>3, <3>4
  <2>3. CASE r.id \notin DOMAIN sent
    BY <1>3, <1>e, <2>3 DEF Reply
  <2>. QED  BY <2>2, <2>3
<1>f. Send => UNCHANGED call
  <2>. SUFFICES ASSUME Send PROVE call' = call
    OBVIOUS
  <2>1. /\ sent \in SentMaps /\ idCounter \in 0 .. MaxSent /\ wire \in SUBSET Messages
        /\ mine \in Seq(Asks \cup {Note}) /\ OnePlace(sent, mine, 0, queued, call)
    BY DEF TTYIInv, TalkInv, TalkTypes, Placed
  <2>2. Unsent \in SendStates
    BY <1>2, <2>1 DEF Unsent, SendStates
  <2>3. AllSent.call = call
    BY <1>2, <2>1, <2>2, AllSentIs
  <2>. QED  BY <2>3 DEF Send
<1>. DEFINE Writes == /\ writer' # "send" => mine' = <<>>
                      /\ reader' \in {"start", "revive"} => writer' = "off"
            Await  == /\ (Waiting("app"))' => app' \in {"ask", "open"}
                      /\ (Waiting("clip"))' => clip' = "wait"
                      /\ app' = "open" => clip' = "off"
            Counts == asked' + ToAsk' <= questions' + 2 * clips'
            Goal == Writes /\ Await /\ Counts
<1>. USE DEF talk, threads, transfer
<1>4. ASSUME Main PROVE Goal
  <2>1. CASE Output
    <3>1. Writes
      BY <1>1, <2>1 DEF Stands, Output
    <3>2. Await
      BY <1>1, <1>2, <1>3, <2>1 DEF Stands, Waiting, TTYThreads, Calls, Output
    <3>3. Counts
      BY <1>1, <1>2, <2>1 DEF Stands, ToAsk, Output
    <3>. HIDE DEF Writes, Await, Counts
    <3>. QED  BY <3>1, <3>2, <3>3
  <2>2. CASE SetPalette
    <3>1. Writes
      BY <1>1, <2>2 DEF Stands, SetPalette
    <3>2. Await
      BY <1>1, <1>2, <1>3, <2>2 DEF Stands, Waiting, TTYThreads, Calls, SetPalette
    <3>3. Counts
      BY <1>1, <1>2, <2>2 DEF Stands, ToAsk, SetPalette
    <3>. HIDE DEF Writes, Await, Counts
    <3>. QED  BY <3>1, <3>2, <3>3
  <2>3. CASE PaletteAwake
    <3>1. Writes
      BY <1>1, <2>3 DEF Stands, PaletteAwake
    <3>2. Await
      BY <1>1, <1>2, <1>3, <2>3 DEF Stands, Waiting, TTYThreads, Calls, PaletteAwake
    <3>3. Counts
      BY <1>1, <1>2, <2>3 DEF Stands, ToAsk, PaletteAwake
    <3>. HIDE DEF Writes, Await, Counts
    <3>. QED  BY <3>1, <3>2, <3>3
  <2>4. CASE Ask
    <3>1. Writes
      BY <1>1, <2>4 DEF Stands, Ask, AskAndWait
    <3>2. Await
      BY <1>1, <1>2, <1>3, <2>4 DEF Stands, Waiting, TTYThreads, Calls, Ask, AskAndWait
    <3>3. Counts
      BY <1>1, <1>2, <2>4 DEF Stands, ToAsk, Ask, AskAndWait
    <3>. HIDE DEF Writes, Await, Counts
    <3>. QED  BY <3>1, <3>2, <3>3
  <2>5. CASE SetData
    <3>1. Writes
      BY <1>1, <2>5 DEF Stands, SetData, AskAndWait, NotTold
    <3>2. Await
      BY <1>1, <1>2, <1>3, <2>5 DEF Stands, Waiting, TTYThreads, Calls, SetData, AskAndWait, NotTold
    <3>3. Counts
      BY <1>1, <1>2, <2>5 DEF Stands, ToAsk, SetData, AskAndWait, NotTold
    <3>. HIDE DEF Writes, Await, Counts
    <3>. QED  BY <3>1, <3>2, <3>3
  <2>6. CASE Return
    <3>1. Writes
      BY <1>1, <2>6 DEF Stands, Return
    <3>2. Await
      <4>1. /\ call' = [call EXCEPT !["app"].answer = None] /\ app' = "run"
            /\ clip' = "wait" <=> clip = "wait"
        BY <1>1, <2>6 DEF Stands, Return
      <4>2. ~(Waiting("app"))' /\ ((Waiting("clip"))' => Waiting("clip"))
        BY <1>b, <1>d, <4>1
      <4>. QED  BY <1>1, <4>1, <4>2 DEF Stands
    <3>3. Counts
      BY <1>1, <1>2, <2>6 DEF Stands, ToAsk, Return
    <3>. HIDE DEF Writes, Await, Counts
    <3>. QED  BY <3>1, <3>2, <3>3
  <2>7. CASE Empty
    <3>1. Writes
      BY <1>1, <2>7 DEF Stands, Empty
    <3>2. Await
      BY <1>1, <1>2, <1>3, <2>7 DEF Stands, Waiting, TTYThreads, Calls, Empty
    <3>3. Counts
      BY <1>1, <1>2, <2>7 DEF Stands, ToAsk, Empty
    <3>. HIDE DEF Writes, Await, Counts
    <3>. QED  BY <3>1, <3>2, <3>3
  <2>8. CASE Emptied
    <3>1. Writes
      BY <1>1, <2>8 DEF Stands, Emptied, Tell, NotTold
    <3>2. Await
      BY <1>1, <1>2, <1>3, <2>8 DEF Stands, Waiting, TTYThreads, Calls, Emptied, Tell, NotTold
    <3>3. Counts
      BY <1>1, <1>2, <2>8 DEF Stands, ToAsk, Emptied, Tell, NotTold
    <3>. HIDE DEF Writes, Await, Counts
    <3>. QED  BY <3>1, <3>2, <3>3
  <2>9. CASE Background
    <3>1. Writes
      BY <1>1, <2>9 DEF Stands, Background
    <3>2. Await
      BY <1>1, <1>2, <1>3, <2>9 DEF Stands, Waiting, TTYThreads, Calls, Background
    <3>3. Counts
      BY <1>1, <1>2, <2>9 DEF Stands, ToAsk, Background
    <3>. HIDE DEF Writes, Await, Counts
    <3>. QED  BY <3>1, <3>2, <3>3
  <2>10. CASE GoBackground
    <3>1. Writes
      BY <1>1, <2>10 DEF Stands, GoBackground
    <3>2. Await
      BY <1>1, <1>2, <1>3, <2>10 DEF Stands, Waiting, TTYThreads, Calls, GoBackground
    <3>3. Counts
      BY <1>1, <1>2, <2>10 DEF Stands, ToAsk, GoBackground
    <3>. HIDE DEF Writes, Await, Counts
    <3>. QED  BY <3>1, <3>2, <3>3
  <2>11. CASE Exit
    <3>1. Writes
      BY <1>1, <2>11 DEF Stands, Exit
    <3>2. Await
      BY <1>1, <1>2, <1>3, <2>11 DEF Stands, Waiting, TTYThreads, Calls, Exit
    <3>3. Counts
      BY <1>1, <1>2, <2>11 DEF Stands, ToAsk, Exit
    <3>. HIDE DEF Writes, Await, Counts
    <3>. QED  BY <3>1, <3>2, <3>3
  <2>12. CASE ReaderJoined
    <3>1. Writes
      BY <1>1, <2>12 DEF Stands, ReaderJoined
    <3>2. Await
      BY <1>1, <1>2, <1>3, <2>12 DEF Stands, Waiting, TTYThreads, Calls, ReaderJoined
    <3>3. Counts
      BY <1>1, <1>2, <2>12 DEF Stands, ToAsk, ReaderJoined
    <3>. HIDE DEF Writes, Await, Counts
    <3>. QED  BY <3>1, <3>2, <3>3
  <2>13. CASE Gone
    <3>1. Writes
      BY <1>1, <2>13 DEF Stands, Gone
    <3>2. Await
      BY <1>1, <1>2, <1>3, <2>13 DEF Stands, Waiting, TTYThreads, Calls, Gone
    <3>3. Counts
      BY <1>1, <1>2, <2>13 DEF Stands, ToAsk, Gone
    <3>. HIDE DEF Writes, Await, Counts
    <3>. QED  BY <3>1, <3>2, <3>3
  <2>. HIDE DEF Goal
  <2>. QED  BY <1>4, <2>1, <2>2, <2>3, <2>4, <2>5, <2>6, <2>7, <2>8, <2>9, <2>10, <2>11, <2>12, <2>13 DEF Main
<1>5. ASSUME Clip PROVE Goal
  <2>1. CASE Chunk
    <3>1. Writes
      BY <1>1, <2>1 DEF Stands, Chunk, Tell, NotTold
    <3>2. Await
      BY <1>1, <1>2, <1>3, <2>1 DEF Stands, Waiting, TTYThreads, Calls, Chunk, Tell, NotTold
    <3>3. Counts
      BY <1>1, <1>2, <2>1 DEF Stands, ToAsk, Chunk, Tell, NotTold
    <3>. HIDE DEF Writes, Await, Counts
    <3>. QED  BY <3>1, <3>2, <3>3
  <2>2. CASE Test
    <3>1. Writes
      BY <1>1, <2>2 DEF Stands, Test, Tell, NotTold
    <3>2. Await
      BY <1>1, <1>2, <1>3, <2>2 DEF Stands, Waiting, TTYThreads, Calls, Test, Tell, NotTold
    <3>3. Counts
      BY <1>1, <1>2, <2>2 DEF Stands, ToAsk, Test, Tell, NotTold
    <3>. HIDE DEF Writes, Await, Counts
    <3>. QED  BY <3>1, <3>2, <3>3
  <2>3. CASE LastChunk
    <3>1. Writes
      BY <1>1, <2>3 DEF Stands, LastChunk, AskAndWait, NotTold
    <3>2. Await
      BY <1>1, <1>2, <1>3, <2>3 DEF Stands, Waiting, TTYThreads, Calls, LastChunk, AskAndWait, NotTold
    <3>3. Counts
      BY <1>1, <1>2, <2>3 DEF Stands, ToAsk, LastChunk, AskAndWait, NotTold
    <3>. HIDE DEF Writes, Await, Counts
    <3>. QED  BY <3>1, <3>2, <3>3
  <2>4. CASE LastDone
    <3>1. Writes
      BY <1>1, <2>4 DEF Stands, LastDone
    <3>2. Await
      <4>1. /\ call' = [call EXCEPT !["clip"].answer = None] /\ app' = app /\ clip = "wait"
        BY <2>4 DEF LastDone
      <4>2. ~(Waiting("clip"))' /\ ((Waiting("app"))' => Waiting("app"))
        BY <1>b, <1>d, <4>1
      <4>. QED  BY <1>1, <4>1, <4>2 DEF Stands
    <3>3. Counts
      BY <1>1, <1>2, <2>4 DEF Stands, ToAsk, LastDone
    <3>. HIDE DEF Writes, Await, Counts
    <3>. QED  BY <3>1, <3>2, <3>3
  <2>5. CASE Close
    <3>1. Writes
      BY <1>1, <2>5 DEF Stands, Close, Tell, NotTold
    <3>2. Await
      BY <1>1, <1>2, <1>3, <2>5 DEF Stands, Waiting, TTYThreads, Calls, Close, Tell, NotTold
    <3>3. Counts
      BY <1>1, <1>2, <2>5 DEF Stands, ToAsk, Close, Tell, NotTold
    <3>. HIDE DEF Writes, Await, Counts
    <3>. QED  BY <3>1, <3>2, <3>3
  <2>. HIDE DEF Goal
  <2>. QED  BY <1>5, <2>1, <2>2, <2>3, <2>4, <2>5 DEF Clip
<1>6. ASSUME Reader PROVE Goal
  <2>1. CASE ReaderStart
    <3>1. Writes
      BY <1>1, <2>1 DEF Stands, ReaderStart
    <3>2. Await
      BY <1>1, <1>2, <1>3, <2>1 DEF Stands, Waiting, TTYThreads, Calls, ReaderStart
    <3>3. Counts
      BY <1>1, <1>2, <2>1 DEF Stands, ToAsk, ReaderStart
    <3>. HIDE DEF Writes, Await, Counts
    <3>. QED  BY <3>1, <3>2, <3>3
  <2>2. CASE ReaderEnd
    <3>1. Writes
      BY <1>1, <2>2 DEF Stands, ReaderEnd
    <3>2. Await
      BY <1>1, <1>2, <1>3, <2>2 DEF Stands, Waiting, TTYThreads, Calls, ReaderEnd
    <3>3. Counts
      BY <1>1, <1>2, <2>2 DEF Stands, ToAsk, ReaderEnd
    <3>. HIDE DEF Writes, Await, Counts
    <3>. QED  BY <3>1, <3>2, <3>3
  <2>3. CASE Select
    <3>1. Writes
      BY <1>1, <2>3 DEF Stands, Select
    <3>2. Await
      BY <1>1, <1>2, <1>3, <2>3 DEF Stands, Waiting, TTYThreads, Calls, Select
    <3>3. Counts
      BY <1>1, <1>2, <2>3 DEF Stands, ToAsk, Select
    <3>. HIDE DEF Writes, Await, Counts
    <3>. QED  BY <3>1, <3>2, <3>3
  <2>4. CASE FlushInput
    <3>1. Writes
      BY <1>1, <2>4 DEF Stands, FlushInput, InputBroken
    <3>2. Await
      <4>1. app' = app /\ clip' = clip
        BY <2>4 DEF FlushInput
      <4>2. InputBroken \/ UNCHANGED talk
        BY <2>4, Zenon DEF FlushInput
      <4>3. UNCHANGED talk => UNCHANGED call
        BY DEF talk
      <4>4. \A t \in TTYThreads : (Waiting(t))' => Waiting(t)
        BY <1>3, <1>c, <1>e, <4>2, <4>3
      <4>. QED  BY <1>1, <1>b, <4>1, <4>4 DEF Stands
    <3>3. Counts
      BY <1>1, <1>2, <2>4 DEF Stands, ToAsk, FlushInput, InputBroken
    <3>. HIDE DEF Writes, Await, Counts
    <3>. QED  BY <3>1, <3>2, <3>3
  <2>5. CASE ReadInput
    <3>1. Writes
      BY <1>1, <2>5 DEF Stands, ReadInput, Reply
    <3>2. Await
      <4>1. app' = app /\ clip' = clip
        BY <2>5 DEF ReadInput
      <4>2. (\E r \in replies : Reply(r)) \/ UNCHANGED talk
        BY <2>5, Zenon DEF ReadInput
      <4>3. UNCHANGED talk => UNCHANGED call
        BY DEF talk
      <4>4. \A t \in TTYThreads : (Waiting(t))' => Waiting(t)
        BY <1>3, <1>c, <1>e, <4>2, <4>3
      <4>. QED  BY <1>1, <1>b, <4>1, <4>4 DEF Stands
    <3>3. Counts
      BY <1>1, <1>2, <2>5 DEF Stands, ToAsk, ReadInput, Reply
    <3>. HIDE DEF Writes, Await, Counts
    <3>. QED  BY <3>1, <3>2, <3>3
  <2>6. CASE ReadKick
    <3>1. Writes
      BY <1>1, <2>6 DEF Stands, ReadKick
    <3>2. Await
      BY <1>1, <1>2, <1>3, <2>6 DEF Stands, Waiting, TTYThreads, Calls, ReadKick
    <3>3. Counts
      BY <1>1, <1>2, <2>6 DEF Stands, ToAsk, ReadKick
    <3>. HIDE DEF Writes, Await, Counts
    <3>. QED  BY <3>1, <3>2, <3>3
  <2>7. CASE ReaderBroken
    <3>1. Writes
      BY <1>1, <2>7 DEF Stands, ReaderBroken, InputBroken
    <3>2. Await
      <4>1. app' = app /\ clip' = clip
        BY <2>7 DEF ReaderBroken
      <4>2. InputBroken
        BY <2>7, Zenon DEF ReaderBroken
      <4>3. UNCHANGED talk => UNCHANGED call
        BY DEF talk
      <4>4. \A t \in TTYThreads : (Waiting(t))' => Waiting(t)
        BY <1>3, <1>c, <1>e, <4>2, <4>3
      <4>. QED  BY <1>1, <1>b, <4>1, <4>4 DEF Stands
    <3>3. Counts
      BY <1>1, <1>2, <2>7 DEF Stands, ToAsk, ReaderBroken, InputBroken
    <3>. HIDE DEF Writes, Await, Counts
    <3>. QED  BY <3>1, <3>2, <3>3
  <2>8. CASE ReaderDead
    <3>1. Writes
      BY <1>1, <2>8 DEF Stands, ReaderDead
    <3>2. Await
      BY <1>1, <1>2, <1>3, <2>8 DEF Stands, Waiting, TTYThreads, Calls, ReaderDead
    <3>3. Counts
      BY <1>1, <1>2, <2>8 DEF Stands, ToAsk, ReaderDead
    <3>. HIDE DEF Writes, Await, Counts
    <3>. QED  BY <3>1, <3>2, <3>3
  <2>9. CASE WriterJoined
    <3>1. Writes
      BY <1>1, <2>9 DEF Stands, WriterJoined
    <3>2. Await
      BY <1>1, <1>2, <1>3, <2>9 DEF Stands, Waiting, TTYThreads, Calls, WriterJoined
    <3>3. Counts
      BY <1>1, <1>2, <2>9 DEF Stands, ToAsk, WriterJoined
    <3>. HIDE DEF Writes, Await, Counts
    <3>. QED  BY <3>1, <3>2, <3>3
  <2>10. CASE Unkick
    <3>1. Writes
      BY <1>1, <2>10 DEF Stands, Unkick
    <3>2. Await
      BY <1>1, <1>2, <1>3, <2>10 DEF Stands, Waiting, TTYThreads, Calls, Unkick
    <3>3. Counts
      BY <1>1, <1>2, <2>10 DEF Stands, ToAsk, Unkick
    <3>. HIDE DEF Writes, Await, Counts
    <3>. QED  BY <3>1, <3>2, <3>3
  <2>. HIDE DEF Goal
  <2>. QED  BY <1>6, <2>1, <2>2, <2>3, <2>4, <2>5, <2>6, <2>7, <2>8, <2>9, <2>10 DEF Reader
<1>7. ASSUME Writer PROVE Goal
  <2>1. CASE WriterStart
    <3>1. Writes
      BY <1>1, <2>1 DEF Stands, WriterStart
    <3>2. Await
      BY <1>1, <1>2, <1>3, <2>1 DEF Stands, Waiting, TTYThreads, Calls, WriterStart
    <3>3. Counts
      BY <1>1, <1>2, <2>1 DEF Stands, ToAsk, WriterStart
    <3>. HIDE DEF Writes, Await, Counts
    <3>. QED  BY <3>1, <3>2, <3>3
  <2>2. CASE WriterCheck
    <3>1. Writes
      BY <1>1, <2>2 DEF Stands, WriterCheck
    <3>2. Await
      BY <1>1, <1>2, <1>3, <2>2 DEF Stands, Waiting, TTYThreads, Calls, WriterCheck
    <3>3. Counts
      BY <1>1, <1>2, <2>2 DEF Stands, ToAsk, WriterCheck
    <3>. HIDE DEF Writes, Await, Counts
    <3>. QED  BY <3>1, <3>2, <3>3
  <2>3. CASE WriterLock
    <3>1. Writes
      BY <1>1, <2>3 DEF Stands, WriterLock, TakeEvents
    <3>2. Await
      BY <1>1, <1>2, <1>3, <2>3 DEF Stands, Waiting, TTYThreads, Calls, WriterLock, TakeEvents
    <3>3. Counts
      BY <1>1, <1>2, <2>3 DEF Stands, ToAsk, WriterLock, TakeEvents
    <3>. HIDE DEF Writes, Await, Counts
    <3>. QED  BY <3>1, <3>2, <3>3
  <2>4. CASE WriterAwake
    <3>1. Writes
      BY <1>1, <2>4 DEF Stands, WriterAwake, TakeEvents
    <3>2. Await
      BY <1>1, <1>2, <1>3, <2>4 DEF Stands, Waiting, TTYThreads, Calls, WriterAwake, TakeEvents
    <3>3. Counts
      BY <1>1, <1>2, <2>4 DEF Stands, ToAsk, WriterAwake, TakeEvents
    <3>. HIDE DEF Writes, Await, Counts
    <3>. QED  BY <3>1, <3>2, <3>3
  <2>5. CASE WritePalette
    <3>1. Writes
      BY <1>1, <2>5 DEF Stands, WritePalette, Due
    <3>2. Await
      BY <1>1, <1>2, <1>3, <2>5 DEF Stands, Waiting, TTYThreads, Calls, WritePalette, Due
    <3>3. Counts
      BY <1>1, <1>2, <2>5 DEF Stands, ToAsk, WritePalette, Due
    <3>. HIDE DEF Writes, Await, Counts
    <3>. QED  BY <3>1, <3>2, <3>3
  <2>6. CASE WriteResized
    <3>1. Writes
      BY <1>1, <2>6 DEF Stands, WriteResized, Due
    <3>2. Await
      BY <1>1, <1>2, <1>3, <2>6 DEF Stands, Waiting, TTYThreads, Calls, WriteResized, Due
    <3>3. Counts
      BY <1>1, <1>2, <2>6 DEF Stands, ToAsk, WriteResized, Due
    <3>. HIDE DEF Writes, Await, Counts
    <3>. QED  BY <3>1, <3>2, <3>3
  <2>7. CASE WriteOutput
    <3>1. Writes
      BY <1>1, <2>7 DEF Stands, WriteOutput, Due
    <3>2. Await
      BY <1>1, <1>2, <1>3, <2>7 DEF Stands, Waiting, TTYThreads, Calls, WriteOutput, Due
    <3>3. Counts
      BY <1>1, <1>2, <2>7 DEF Stands, ToAsk, WriteOutput, Due
    <3>. HIDE DEF Writes, Await, Counts
    <3>. QED  BY <3>1, <3>2, <3>3
  <2>8. CASE WriteInteract
    <3>1. Writes
      BY <1>1, <2>8 DEF Stands, WriteInteract, Due
    <3>2. Await
      BY <1>1, <1>2, <1>3, <2>8 DEF Stands, Waiting, TTYThreads, Calls, WriteInteract, Due
    <3>3. Counts
      BY <1>1, <1>2, <2>8 DEF Stands, ToAsk, WriteInteract, Due
    <3>. HIDE DEF Writes, Await, Counts
    <3>. QED  BY <3>1, <3>2, <3>3
  <2>9. CASE Send
    <3>1. Writes
      BY <1>1, <2>9 DEF Stands, Send
    <3>2. Await
      <4>1. app' = app /\ clip' = clip
        BY <2>9 DEF Send
      <4>. QED  BY <1>1, <1>3, <1>b, <1>f, <2>9, <4>1 DEF Stands
    <3>3. Counts
      BY <1>1, <1>2, <2>9 DEF Stands, ToAsk, Send
    <3>. HIDE DEF Writes, Await, Counts
    <3>. QED  BY <3>1, <3>2, <3>3
  <2>10. CASE WriteFlush
    <3>1. Writes
      BY <1>1, <2>10 DEF Stands, WriteFlush
    <3>2. Await
      BY <1>1, <1>2, <1>3, <2>10 DEF Stands, Waiting, TTYThreads, Calls, WriteFlush
    <3>3. Counts
      BY <1>1, <1>2, <2>10 DEF Stands, ToAsk, WriteFlush
    <3>. HIDE DEF Writes, Await, Counts
    <3>. QED  BY <3>1, <3>2, <3>3
  <2>11. CASE WriterBye
    <3>1. Writes
      BY <1>1, <2>11 DEF Stands, WriterBye
    <3>2. Await
      BY <1>1, <1>2, <1>3, <2>11 DEF Stands, Waiting, TTYThreads, Calls, WriterBye
    <3>3. Counts
      BY <1>1, <1>2, <2>11 DEF Stands, ToAsk, WriterBye
    <3>. HIDE DEF Writes, Await, Counts
    <3>. QED  BY <3>1, <3>2, <3>3
  <2>12. CASE WriterHup
    <3>1. Writes
      BY <1>1, <2>12 DEF Stands, WriterHup
    <3>2. Await
      BY <1>1, <1>2, <1>3, <2>12 DEF Stands, Waiting, TTYThreads, Calls, WriterHup
    <3>3. Counts
      BY <1>1, <1>2, <2>12 DEF Stands, ToAsk, WriterHup
    <3>. HIDE DEF Writes, Await, Counts
    <3>. QED  BY <3>1, <3>2, <3>3
  <2>. HIDE DEF Goal
  <2>. QED  BY <1>7, <2>1, <2>2, <2>3, <2>4, <2>5, <2>6, <2>7, <2>8, <2>9, <2>10, <2>11, <2>12 DEF Writer
<1>8. ASSUME Outside PROVE Goal
  <2>1. CASE Answer
    <3>1. Writes
      BY <1>1, <2>1 DEF Stands, Answer
    <3>2. Await
      BY <1>1, <1>2, <1>3, <2>1 DEF Stands, Waiting, TTYThreads, Calls, Answer
    <3>3. Counts
      BY <1>1, <1>2, <2>1 DEF Stands, ToAsk, Answer
    <3>. HIDE DEF Writes, Await, Counts
    <3>. QED  BY <3>1, <3>2, <3>3
  <2>2. CASE Damage
    <3>1. Writes
      BY <1>1, <2>2 DEF Stands, Damage
    <3>2. Await
      BY <1>1, <1>2, <1>3, <2>2 DEF Stands, Waiting, TTYThreads, Calls, Damage
    <3>3. Counts
      BY <1>1, <1>2, <2>2 DEF Stands, ToAsk, Damage
    <3>. HIDE DEF Writes, Await, Counts
    <3>. QED  BY <3>1, <3>2, <3>3
  <2>3. CASE Break
    <3>1. Writes
      BY <1>1, <2>3 DEF Stands, Break
    <3>2. Await
      BY <1>1, <1>2, <1>3, <2>3 DEF Stands, Waiting, TTYThreads, Calls, Break
    <3>3. Counts
      BY <1>1, <1>2, <2>3 DEF Stands, ToAsk, Break
    <3>. HIDE DEF Writes, Await, Counts
    <3>. QED  BY <3>1, <3>2, <3>3
  <2>4. CASE SigHup
    <3>1. Writes
      BY <1>1, <2>4 DEF Stands, SigHup
    <3>2. Await
      BY <1>1, <1>2, <1>3, <2>4 DEF Stands, Waiting, TTYThreads, Calls, SigHup
    <3>3. Counts
      BY <1>1, <1>2, <2>4 DEF Stands, ToAsk, SigHup
    <3>. HIDE DEF Writes, Await, Counts
    <3>. QED  BY <3>1, <3>2, <3>3
  <2>5. CASE Attach
    <3>1. Writes
      BY <1>1, <2>5 DEF Stands, Attach
    <3>2. Await
      BY <1>1, <1>2, <1>3, <2>5 DEF Stands, Waiting, TTYThreads, Calls, Attach
    <3>3. Counts
      BY <1>1, <1>2, <2>5 DEF Stands, ToAsk, Attach
    <3>. HIDE DEF Writes, Await, Counts
    <3>. QED  BY <3>1, <3>2, <3>3
  <2>. HIDE DEF Goal
  <2>. QED  BY <1>8, <2>1, <2>2, <2>3, <2>4, <2>5 DEF Outside
<1>9. Goal
  <2>. HIDE DEF Goal
  <2>. QED  BY <1>4, <1>5, <1>6, <1>7, <1>8 DEF TTYNext
<1>. QED  BY <1>9 DEF Stands

\* In the beginning nobody has asked anything.
LEMMA TTYBegins ==
  ASSUME TTYBackendAssumption, TTYInit
  PROVE  TTYIInv
<1>1. /\ may \in Scenarios /\ may.screens \in Nat /\ may.palettes \in Nat /\ may.questions \in Nat
      /\ may.clips \in Nat /\ may.chunks \in Nat /\ may.damages \in Nat /\ may.breaks \in Nat
  BY Bounds DEF TTYInit
<1>a. PICK sc \in Nat, pa \in Nat, qu \in Nat, cl \in Nat, ch \in Nat, da \in Nat, br \in Nat :
           /\ sc = may.screens /\ pa = may.palettes /\ qu = may.questions /\ cl = may.clips
           /\ ch = may.chunks /\ da = may.damages /\ br = may.breaks
  BY <1>1
<1>2. AsyncTypes /\ PipeTypes /\ ThreadTypes
  <2>1. AsyncTypes
    BY DEF TTYInit, AsyncTypes
  <2>2. PipeTypes
    <3>1. kick = 0 /\ flush \in BOOLEAN /\ sizeId = 0 /\ seenId = 0
      BY DEF TTYInit
    <3>2. kick \in 0 .. 2 /\ sizeId \in 0 .. da /\ seenId \in 0 .. sizeId
      BY <3>1
    <3>. QED  BY ONLY <3>1, <3>2, <1>a DEF PipeTypes, KickCap
  <2>3. ThreadTypes
    <3>1. reader = "start" /\ writer = "off" /\ app = "run" /\ clip = "off" /\ cancel \in BOOLEAN
      BY DEF TTYInit
    <3>2. questions = 0 /\ clips = 0 /\ left = 0
      BY DEF TTYInit
    <3>3. questions \in 0 .. qu /\ clips \in 0 .. cl /\ left \in 0 .. ch
      BY <3>2
    <3>. QED  BY ONLY <3>1, <3>3, <1>a DEF ThreadTypes
  <2>. QED  BY <2>1, <2>2, <2>3
<1>3. ImageTypes
  <2>1. PICK f \in BOOLEAN : term = NewTerm(f, 0) /\ far2lTty = f
    <3>1. {TRUE, ~may.plain} \subseteq BOOLEAN
      OBVIOUS
    <3>. QED  BY <3>1, Zenon DEF TTYInit
  <2>2. term \in TermTypes
    BY <1>1, <2>1 DEF TermTypes, NewTerm, Garbage
  <2>3. far2lTty \in BOOLEAN /\ notify \in BOOLEAN /\ hup \in BOOLEAN
    BY <2>1 DEF TTYInit
  <2>4. /\ size \in {0, 1} /\ prev \in Unknown .. may.screens
        /\ con \in 0 .. may.screens /\ palette \in 0 .. may.palettes
    BY <1>a DEF TTYInit, Unknown
  <2>. QED  BY <2>2, <2>3, <2>4 DEF ImageTypes
<1>4. PICK e \in Seq(Asks \cup {Note}) : e = <<>>
  <2>1. <<>> \in Seq(Asks \cup {Note})
    OBVIOUS
  <2>. QED  BY ONLY <2>1
<1>5. Rest(e, 0) = {}
  BY <1>4, RestNone
<1>6. queued = e /\ mine = e /\ DOMAIN sent = {}
  BY <1>4 DEF TTYInit
<1>7. TalkTypes
  <2>1. sent \in SentMaps
    <3>1. sent \in [{} -> Asks]
      BY DEF TTYInit
    <3>. QED  BY <3>1 DEF SentMaps
  <2>2. call \in Calls
    BY DEF TTYInit, Calls
  <2>3. idCounter \in 0 .. MaxSent /\ wire \in SUBSET Messages /\ replies \in SUBSET Messages /\ asked \in Nat
    BY DEF TTYInit, TTYBackendAssumption
  <2>. QED  BY <1>6, <2>1, <2>2, <2>3 DEF TalkTypes
<1>8. \A t \in TTYThreads : call[t].answer = None
  BY DEF TTYInit
<1>9. None # Pending /\ None \notin Serials
  BY DEF None, Pending, Serials
<1>10. Placed
  BY <1>5, <1>6, <1>8, <1>9 DEF Placed, OnePlace
<1>11. Numbered
  <2>1. {mine[j].serial : j \in Rest(mine, 0)} \cup {queued[j].serial : j \in Rest(queued, 0)} = 0 + 1 .. 0
    BY <1>5, <1>6
  <2>2. idCounter = 0 /\ asked = 0 /\ wire = {} /\ replies = {}
    BY DEF TTYInit
  <2>. QED  BY <1>5, <1>6, <1>8, <1>9, <2>1, <2>2 DEF Numbered, InTurn, AnswerIsItsOwn
<1>12. Stands
  <2>1. "app" \in TTYThreads /\ "clip" \in TTYThreads
    BY DEF TTYThreads
  <2>. QED  BY <1>8, <1>9, <2>1 DEF TTYInit, Stands, Waiting, ToAsk
<1>. QED  BY <1>1, <1>2, <1>3, <1>7, <1>10, <1>11, <1>12 DEF TTYIInv, TalkInv

\* Every step keeps it.
LEMMA TTYStepInv ==
  ASSUME TTYBackendAssumption, TTYIInv, [TTYNext]_<<may, ttyVars>>
  PROVE  TTYIInv'
<1>1. CASE TTYNext
  BY <1>1, ThreadStep, ImageStep, StandStep, TalkStep DEF TTYIInv
<1>2. CASE UNCHANGED <<may, ttyVars>>
  <2>1. UNCHANGED may /\ UNCHANGED talk
    BY <1>2 DEF ttyVars, talk
  <2>2. TalkInv'
    BY <2>1, TalkSame DEF TTYIInv
  <2>3. may' \in Scenarios /\ AsyncTypes' /\ PipeTypes' /\ ImageTypes' /\ ThreadTypes' /\ Stands'
    BY <1>2 DEF TTYIInv, AsyncTypes, PipeTypes, ImageTypes, TermTypes, ThreadTypes, Stands, ToAsk,
       Waiting, ttyVars, async, talk, pipe, attach, image, threads, transfer
  <2>. QED  BY <2>2, <2>3 DEF TTYIInv
<1>. QED  BY <1>1, <1>2

\* The invariant gives the types, ...
LEMMA TTYTyped ==
  ASSUME TTYBackendAssumption, TTYIInv
  PROVE  TTYTypeOK
<1>1. /\ sent \in SentMaps /\ idCounter \in 0 .. MaxSent /\ wire \in SUBSET Messages
      /\ replies \in SUBSET Messages /\ call \in Calls /\ asked \in Nat
      /\ queued \in Seq(Asks \cup {Note}) /\ mine \in Seq(Asks \cup {Note})
  BY DEF TTYIInv, TalkInv, TalkTypes
<1>2. DOMAIN sent \subseteq Ids /\ \A i \in DOMAIN sent : sent[i] \in Asks
  BY <1>1, SentIs
<1>3. asked \in 0 .. may.questions + 2 * may.clips
  <2>1. PICK q \in Nat, c \in Nat : q = may.questions /\ c = may.clips
    BY Bounds DEF TTYIInv
  <2>2. questions \in 0 .. q /\ clips \in 0 .. c /\ asked + ToAsk <= questions + 2 * clips /\ ToAsk \in {0, 1}
    BY <2>1 DEF TTYIInv, ThreadTypes, Stands, ToAsk
  <2>3. asked \in 0 .. q + 2 * c
    BY <1>1, <2>2
  <2>. QED  BY <2>1, <2>3
<1>4. AsyncTypes /\ PipeTypes /\ ImageTypes /\ ThreadTypes /\ may \in Scenarios
  BY DEF TTYIInv
<1>. QED  BY <1>1, <1>2, <1>3, <1>4
          DEF TTYTypeOK, AsyncTypes, PipeTypes, ImageTypes, TermTypes, ThreadTypes, Calls, Messages

\* ... that nobody who waits is forgotten, and that no answer is another's as long as no
\* number has come round.
LEMMA TTYMatches ==
  ASSUME TTYBackendAssumption, TTYIInv
  PROVE  NobodyForgotten /\ (asked <= MaxSent => AnswersMatch)
<1>1. OnePlace(sent, mine, 0, queued, call)
  BY DEF TTYIInv, TalkInv, Placed
<1>2. queued \in Seq(Asks \cup {Note}) /\ mine \in Seq(Asks \cup {Note})
  BY DEF TTYIInv, TalkInv, TalkTypes
<1>3. Rest(queued, 0) \subseteq DOMAIN queued /\ Rest(mine, 0) \subseteq DOMAIN mine
  BY <1>2 DEF Rest
<1>4. NobodyForgotten
  <2>. SUFFICES ASSUME NEW t \in TTYThreads, Waiting(t)
                PROVE  \/ \E i \in DOMAIN sent : sent[i].who = t
                       \/ \E s \in {queued, mine} : \E i \in DOMAIN s : s[i].who = t
    BY DEF NobodyForgotten
  <2>1. \/ \E i \in DOMAIN sent : sent[i].who = t
        \/ \E i \in Rest(mine, 0) : mine[i].who = t
        \/ \E i \in Rest(queued, 0) : queued[i].who = t
    BY <1>1 DEF OnePlace, Waiting
  <2>. QED  BY <2>1, <1>3
<1>. QED  BY <1>4 DEF TTYIInv, TalkInv, Numbered, AnswersMatch

\* The terminal's threads, as one of the parts.
LEMMA TTYRuns == TerminalSpec => TTYSpec
<1>1. TerminalInit => TTYInit
  BY DEF TerminalInit
<1>2. [TerminalNext]_terminalVars => [TTYNext]_<<may, ttyVars>>
  BY DEF TerminalNext, terminalVars
<1>. QED  BY <1>1, <1>2, PTL DEF TerminalSpec, TTYSpec

\* Whatever is asked, lost, replaced and painted, in any order.
LEMMA TTYInvariance == TerminalSpec => []TTYIInv
<1>1. TTYInit => TTYIInv
  BY TTYBackendAssumption, TTYBegins
<1>2. TTYIInv /\ [TTYNext]_<<may, ttyVars>> => TTYIInv'
  BY TTYBackendAssumption, TTYStepInv
<1>. QED  BY <1>1, <1>2, TTYRuns, PTL DEF TTYSpec

\* TTYBackend.cpp:579 and 1125: _far2l_interacts_queued and _far2l_interacts_sent have a
\* mutex each, and OnInputBroken and OnFar2lReply come in between.  A question whose asker
\* still waits is never in neither of them nor in the writer's hands; and a reply finds the
\* question it is the answer to, also late, as long as no more than 255 have been asked: the
\* number given next is then the next one.
THEOREM AnswersMatchUntilRound ==
  TerminalSpec => [](NobodyForgotten /\ (asked <= MaxSent => AnswersMatch))
<1>1. TTYIInv => NobodyForgotten /\ (asked <= MaxSent => AnswersMatch)
  BY TTYBackendAssumption, TTYMatches
<1>. QED  BY <1>1, TTYInvariance, PTL

\* In a program that asks the terminal no more often than that, no answer is another's.
THEOREM AnswersMatched ==
  ASSUME \A s \in Scenarios : s.questions + 2 * s.clips <= MaxSent
  PROVE  TerminalSpec => []AnswersMatch
<1>1. TTYIInv => asked <= MaxSent
  <2>. SUFFICES ASSUME TTYIInv PROVE asked <= MaxSent
    OBVIOUS
  <2>1. may \in Scenarios
    BY DEF TTYIInv
  <2>2. PICK q \in Nat, c \in Nat : q = may.questions /\ c = may.clips
    BY TTYBackendAssumption, Bounds, <2>1
  <2>3. q + 2 * c <= MaxSent /\ MaxSent \in Nat
    BY <2>1, <2>2, TTYBackendAssumption DEF TTYBackendAssumption
  <2>4. asked \in 0 .. q + 2 * c
    BY <2>2, TTYBackendAssumption, TTYTyped DEF TTYTypeOK
  <2>. QED  BY <2>3, <2>4
<1>. QED  BY <1>1, TTYInvariance, AnswersMatchUntilRound, PTL

-----------------------------------------------------------------------------
(* ConsoleInput                                                            *)

USE ConsoleInputAssumption

-----------------------------------------------------------------------------
(* The invariant                                                           *)

\* RaiseRequestorPriority gives each prompt one more than all others have, so that
\* priorities are at most the number of the prompts that were opened.
OpenPrompts == {s \in Screens : pc[s] # "closed"}

Places == {"idle", "read", "wait", "asleep", "check", "checkTake",
           "closed", "open", "drain", "update", "lower", "done"}

PrioritiesCounted ==
  /\ pc \in [Readers -> Places]
  /\ prio \in [Screens -> 0 .. Cardinality(Screens)]
  /\ CurrentPriority <= Cardinality(OpenPrompts)

\* The kick of InterThreadCall may be gone, but then there is a record that is no key, or
\* a prompt that puts one when it closes.
Other(q) == \E i \in 1..Len(q) : ~IsKey(q[i])

Up == \E s \in Screens : pc[s] \in {"open", "asleep", "drain", "update"}

KickLeavesOther == kicked => Other(pending) \/ Other(backlog) \/ Up

\* What records there are, and that keys are never put aside.
RecordsKnown ==
  /\ pending \in Seq(Records) /\ backlog \in Seq(Records)
  /\ written \subseteq Events /\ noop \subseteq written /\ gone \subseteq Events
  /\ before \subseteq written
  /\ \A k \in before : IsKey(k)
  /\ \A i \in 1..Len(pending) : pending[i] \in Events => pending[i] \in written
  /\ \A i \in 1..Len(backlog) : backlog[i] \in Events => backlog[i] \in written /\ ~IsKey(backlog[i])

\* A Sync whose callback has not been taken is in its place: once in the queue, never put
\* aside, and behind the keys that were sent before it.
SyncFollows ==
  \A e \in Events : Kind[e] = "sync" /\ e \notin noop =>
    /\ \A j \in 1..Len(pending) : pending[j] \in before =>
         \E i \in 1..Len(pending) : i > j /\ pending[i] = e
    /\ \A i, j \in 1..Len(pending) : pending[i] = e /\ pending[j] = e => i = j
    /\ \A i \in 1..Len(backlog) : backlog[i] # e

SyncWritten == \E e \in written : Kind[e] = "sync"
SyncTaken   == \E e \in noop : Kind[e] = "sync"

\* When it has been taken those keys are gone.
TakenInOrder == SyncTaken => \A j \in 1..Len(pending) : pending[j] \notin before

\* The references to the event: the test client's, and the callback's until it has run.
Runs(r) == calls[r] \in {"signal", "deref"}

ReferencesCounted ==
  /\ calls \in [Readers -> {"none", "title", "signal", "deref"}]
  /\ tester \in {"no", "waiting", "waited", "late"}
  /\ ~SyncWritten => tester = "no" /\ before = {} /\ ~signalled
  /\ signalled => SyncTaken
  /\ \A r \in Readers : Runs(r) => SyncTaken
  /\ \A r, q \in Readers : Runs(r) /\ Runs(q) => r = q
  /\ refs = (IF tester = "waiting" THEN 1 ELSE 0)
            + (IF SyncWritten /\ (~SyncTaken \/ \E r \in Readers : Runs(r)) THEN 1 ELSE 0)

\* The other variables
Flags == /\ signalled \in BOOLEAN /\ kicked \in BOOLEAN
         /\ title \in {"old", "wanted", "shown"}
         /\ answer \in [Screens -> Answers]

ConsoleIInv ==
  /\ PrioritiesCounted /\ SleepersHaveNothing
  /\ KickLeavesOther /\ RecordsKnown /\ PutAsideComesBack
  /\ SyncFollows /\ TakenInOrder /\ ReferencesCounted /\ Flags

-----------------------------------------------------------------------------
(* Numbers and sequences                                                   *)

\* CurrentRequestorPriority (ConsoleInput.cpp) is the highest of the priorities.
LEMMA Highest ==
  ASSUME NEW p, NEW n \in Nat, p \in [Screens -> 0 .. n],
         NEW top, top = Max({0} \cup {p[s] : s \in Screens})
  PROVE  /\ top \in 0 .. n
         /\ \A s \in Screens : p[s] <= top
         /\ top = 0 \/ \E s \in Screens : p[s] = top
<1>. DEFINE T == {m \in Nat : \A s \in Screens : p[s] <= m}
            P == {0} \cup {p[s] : s \in Screens}
<1>1. T \in SUBSET Nat /\ n \in T
  OBVIOUS
<1>2. PICK m \in T : \A k \in T : m <= k
  BY <1>1, LeastOf
<1>3. m = 0 \/ \E s \in Screens : p[s] = m
  <2>. SUFFICES ASSUME m # 0 PROVE \E s \in Screens : p[s] = m
    OBVIOUS
  <2>1. m - 1 \in Nat /\ m - 1 \notin T
    BY <1>2
  <2>2. PICK s \in Screens : ~ (p[s] <= m - 1)
    BY <2>1
  <2>3. p[s] \in Nat /\ p[s] <= m /\ m \in Nat
    BY <1>2
  <2>. QED  BY <2>2, <2>3
<1>4. m \in P /\ (\A k \in P : m >= k) /\ P \subseteq Nat /\ m <= n
  BY <1>1, <1>2, <1>3
<1>5. top \in P /\ \A k \in P : top >= k
  BY <1>4 DEF Max
<1>6. top = m
  BY <1>4, <1>5
<1>7. m \in 0 .. n /\ (\A s \in Screens : p[s] <= m)
  BY <1>2, <1>4
<1>. QED  BY <1>3, <1>6, <1>7

\* _pending and the backlog are only appended to ...
LEMMA Longer ==
  ASSUME NEW S, NEW q \in Seq(S), NEW r \in Seq(S)
  PROVE  /\ q \o r \in Seq(S) /\ Len(q \o r) = Len(q) + Len(r) /\ Len(q) \in Nat /\ Len(r) \in Nat
         /\ \A i \in 1..Len(q) : (q \o r)[i] = q[i]
         /\ \A i \in 1..Len(r) : (q \o r)[Len(q) + i] = r[i]
         /\ \A i \in 1..Len(q \o r) : i \in 1..Len(q) \/ \E k \in 1..Len(r) : i = Len(q) + k
<1>1. /\ q \o r \in Seq(S) /\ Len(q \o r) = Len(q) + Len(r) /\ Len(q) \in Nat /\ Len(r) \in Nat
      /\ \A i \in 1..Len(q) : (q \o r)[i] = q[i]
      /\ \A i \in 1..Len(r) : (q \o r)[Len(q) + i] = r[i]
  OBVIOUS
<1>2. ASSUME NEW i \in 1..Len(q \o r), i \notin 1..Len(q)
      PROVE  \E k \in 1..Len(r) : i = Len(q) + k
  <2>1. i - Len(q) \in 1..Len(r) /\ i = Len(q) + (i - Len(q))
    BY <1>1, <1>2
  <2>. QED  BY <2>1
<1>. QED  BY <1>1, <1>2

\* ... and taken from the front.
LEMMA Shorter ==
  ASSUME NEW S, NEW q \in Seq(S), q # <<>>
  PROVE  /\ Tail(q) \in Seq(S) /\ Head(q) \in S /\ Head(q) = q[1]
         /\ Len(q) \in Nat /\ 1 \in 1..Len(q) /\ Len(Tail(q)) = Len(q) - 1
         /\ \A i \in 1..Len(Tail(q)) : i + 1 \in 1..Len(q) /\ Tail(q)[i] = q[i + 1]
OBVIOUS

\* What is in the queue
LEMMA Members ==
  ASSUME NEW S, NEW q \in Seq(S)
  PROVE  ToSet(q) = {q[i] : i \in 1..Len(q)}
BY DEF ToSet

-----------------------------------------------------------------------------
(* Where the readers are                                                   *)

\* A reader goes to another place.
LEMMA Going ==
  ASSUME NEW p \in [Readers -> Places], NEW r \in Readers, NEW to \in Places
  PROVE  /\ [p EXCEPT ![r] = to] \in [Readers -> Places]
         /\ [p EXCEPT ![r] = to][r] = to
         /\ \A q \in Readers : q # r => [p EXCEPT ![r] = to][q] = p[q]
OBVIOUS

\* notify_all leaves nobody asleep, and moves nobody else.
LEMMA Rousing ==
  ASSUME NEW p \in [Readers -> Places]
  PROVE  /\ Roused(p) \in [Readers -> Places]
         /\ \A r \in Readers : /\ Roused(p)[r] # "asleep"
                               /\ p[r] # "asleep" => Roused(p)[r] = p[r]
                               /\ p[r] = "asleep" => Roused(p)[r] = IF r = App THEN "wait" ELSE "open"
<1>1. \A r \in Readers : Roused(p)[r] =
        IF p[r] = "asleep" THEN IF r = App THEN "wait" ELSE "open" ELSE p[r]
  BY DEF Roused
<1>2. DOMAIN Roused(p) = Readers /\ \A r \in Readers : Roused(p)[r] \in Places
  BY <1>1 DEF Roused, Places
<1>. QED  BY <1>1, <1>2 DEF Roused, Places

\* A record is put, or one turns out to be the last: everybody is told.
ToldAll(r, to) == pc' = Roused([pc EXCEPT ![r] = to])

\* Every step but Open moves at most one reader, not out of "closed" or into it, and to
\* "asleep" only one that has nothing to read.  It may tell the others.
Takes == pending' # <<>> => pending # <<>>

Stays == prio' = prio /\ UNCHANGED pc /\ Takes

Steps(r, to) ==
  /\ prio' = prio /\ to # "closed" /\ pc[r] # "closed"
  /\ Goes(r, to) /\ Takes /\ (to = "asleep" => ~Ready(r) /\ pending' = pending)

Tells(r, to) == prio' = prio /\ to # "closed" /\ pc[r] # "closed" /\ ToldAll(r, to)

\* Except Open and Lower, which change the priorities
LEMMA OneMoves ==
  ASSUME PrioritiesCounted, ConsoleNext
  PROVE  \/ Stays
         \/ prio' = prio /\ pc' = Roused(pc)
         \/ \E r \in Readers, to \in Places \ {"asleep"} : Steps(r, to) \/ Tells(r, to)
         \/ \E r \in Readers : Steps(r, "asleep")
         \/ \E s \in Screens : Open(s) \/ Lower(s)
<1>. USE DEF Readers, Places, Steps, Tells, Stays, ToldAll, At, Goes, rest, others, Takes
<1>. DEFINE Goal == \/ Stays
                    \/ prio' = prio /\ pc' = Roused(pc)
                    \/ \E r \in Readers, to \in Places \ {"asleep"} : Steps(r, to) \/ Tells(r, to)
                    \/ \E r \in Readers : Steps(r, "asleep")
                    \/ \E s \in Screens : Open(s) \/ Lower(s)
<1>1. CASE \E e \in Events : Write(e) \/ WriteTitle(e) \/ Sync(e)
  BY <1>1 DEF Write, WriteTitle, Sync, Put
<1>2. CASE SyncReturns \/ Flush \/ \E r \in Readers : Callback(r)
  BY <1>2 DEF SyncReturns, Flush, queue, Callback, RunTitle, SignalEvent, DerefEvent
<1>3. CASE StartRead \/ StartCheck
  BY <1>3 DEF StartRead, StartCheck
<1>4. CASE Read
  <2>1. CASE Take(App) /\ Goes(App, "idle")
    <3>1. Steps(App, "idle")
      BY <1>4, <2>1 DEF Read, Take, Ready
    <3>. QED  BY <3>1
  <2>2. CASE Goes(App, "wait") /\ UNCHANGED pending
    <3>1. Steps(App, "wait")
      BY <1>4, <2>2 DEF Read
    <3>. QED  BY <3>1
  <2>. QED  BY <1>4, <2>1, <2>2 DEF Read
<1>5. CASE WaitForNonEmpty
  <2>1. CASE Ready(App)
    <3>1. Steps(App, "read")
      BY <1>5, <2>1 DEF WaitForNonEmpty
    <3>. QED  BY <3>1
  <2>2. CASE ~Ready(App)
    <3>1. Steps(App, "asleep")
      BY <1>5, <2>2 DEF WaitForNonEmpty
    <3>. QED  BY <3>1
  <2>. QED  BY <2>1, <2>2
<1>6. CASE AppWakes
  BY <1>6 DEF AppWakes
<1>7. CASE CheckMore \/ CheckTake
  <2>1. CASE At(App, "check") /\ Goes(App, "checkTake") /\ UNCHANGED rest /\ Takes
    <3>1. Steps(App, "checkTake")
      BY <2>1
    <3>. QED  BY <3>1
  <2>2. CASE At(App, "checkTake") /\ Goes(App, "check") /\ UNCHANGED rest /\ Takes
    <3>1. Steps(App, "check")
      BY <2>2
    <3>. QED  BY <3>1
  <2>3. CASE pc[App] \in {"check", "checkTake"} /\ PutBack /\ UNCHANGED rest
    <3>1. CASE Goes(App, "idle") /\ UNCHANGED pending
      <4>1. Steps(App, "idle")
        BY <2>3, <3>1
      <4>. QED  BY <4>1
    <3>2. CASE ToldAll(App, "idle")
      BY <2>3, <3>2
    <3>. QED  BY <2>3, <3>1, <3>2 DEF PutBack, Put
  <2>. QED  BY <1>7, <2>1, <2>2, <2>3 DEF CheckMore, CheckTake, Take, Ready
<1>8. ASSUME NEW s \in Screens, Loop(s) PROVE Goal
  BY <1>8 DEF Loop
<1>9. ASSUME NEW s \in Screens, TimeOut(s) PROVE Goal
  <2>1. PICK to \in {"open", "update"} : Goes(s, to)
    BY <1>9 DEF TimeOut
  <2>2. Steps(s, to)
    BY <1>9, <2>1 DEF TimeOut
  <2>. QED  BY <2>2
<1>10. ASSUME NEW s \in Screens, DispatchInput(s) PROVE Goal
  BY <1>10 DEF DispatchInput, Take, Ready
<1>11. ASSUME NEW s \in Screens, UpdateScreen(s) PROVE Goal
  BY <1>11 DEF UpdateScreen, Put
<1>. QED
  BY <1>1, <1>2, <1>3, <1>4, <1>5, <1>6, <1>7, <1>8, <1>9, <1>10, <1>11
  DEF ConsoleNext, AppStep, ScreenStep

\* CurrentRequestorPriority, of the priorities as they are
LEMMA Current ==
  ASSUME PrioritiesCounted
  PROVE  /\ CurrentPriority \in Nat
         /\ \A s \in Screens : prio[s] \in Nat /\ prio[s] <= CurrentPriority
         /\ \A r \in Readers : Priority(r) \in Nat /\ Priority(r) <= CurrentPriority
<1>1. Cardinality(Screens) \in Nat
  BY FS_CardinalityType
<1>2. PICK top : top = Max({0} \cup {prio[s] : s \in Screens})
  OBVIOUS
<1>3. top \in 0 .. Cardinality(Screens) /\ \A s \in Screens : prio[s] <= top
  BY <1>1, <1>2, Highest DEF PrioritiesCounted
<1>4. \A s \in Screens : prio[s] \in Nat
  BY <1>1 DEF PrioritiesCounted
<1>. QED  BY <1>2, <1>3, <1>4 DEF CurrentPriority, Priority, Readers

\* A prompt that opens has a higher priority than anybody has.
LEMMA Raised ==
  ASSUME PrioritiesCounted, NEW s \in Screens, Open(s)
  PROVE  PrioritiesCounted' /\ CurrentPriority' = CurrentPriority + 1
<1>. DEFINE n == Cardinality(OpenPrompts)
<1>1. /\ n \in Nat /\ n < Cardinality(Screens) /\ Cardinality(Screens) \in Nat
      /\ Cardinality(OpenPrompts') = n + 1
  <2>1. /\ s \notin OpenPrompts /\ OpenPrompts' = OpenPrompts \cup {s} /\ s \in Screens
        /\ OpenPrompts \subseteq Screens /\ OpenPrompts' \subseteq Screens
    BY DEF Open, At, Goes, OpenPrompts, PrioritiesCounted, Readers
  <2>2. IsFiniteSet(OpenPrompts) /\ IsFiniteSet(OpenPrompts')
    BY <2>1, FS_Subset
  <2>3. n \in Nat /\ Cardinality(OpenPrompts') = n + 1
    BY <2>1, <2>2, FS_AddElement, FS_CardinalityType
  <2>4. Cardinality(OpenPrompts') <= Cardinality(Screens) /\ Cardinality(Screens) \in Nat
    BY <2>1, FS_Subset, FS_CardinalityType
  <2>. QED  BY <2>3, <2>4
<1>2. /\ CurrentPriority \in Nat /\ CurrentPriority <= n
      /\ \A q \in Screens : prio[q] \in Nat /\ prio[q] <= CurrentPriority
  BY Current DEF PrioritiesCounted
<1>3. PICK p : p = prio'
  OBVIOUS
<1>4. p = [prio EXCEPT ![s] = CurrentPriority + 1]
  BY <1>3 DEF Open
<1>5. /\ p \in [Screens -> 0 .. (n + 1)] /\ p \in [Screens -> 0 .. Cardinality(Screens)]
      /\ p[s] = CurrentPriority + 1
      /\ \A q \in Screens : p[q] <= CurrentPriority + 1
  BY <1>1, <1>2, <1>4 DEF PrioritiesCounted
<1>6. PICK top : top = Max({0} \cup {p[q] : q \in Screens})
  OBVIOUS
<1>7. /\ top \in 0 .. (n + 1) /\ (\A q \in Screens : p[q] <= top)
      /\ top = 0 \/ \E q \in Screens : p[q] = top
  BY <1>1, <1>5, <1>6, Highest
<1>8. top = CurrentPriority + 1 /\ top <= n + 1
  BY <1>1, <1>2, <1>5, <1>7
<1>9. CurrentPriority' = top
  BY <1>3, <1>6 DEF CurrentPriority
<1>10. pc' \in [Readers -> Places]
  BY Going DEF Open, Goes, PrioritiesCounted, Readers, Places
<1>. QED  BY <1>1, <1>3, <1>5, <1>8, <1>9, <1>10 DEF PrioritiesCounted

\* One that closes leaves the highest of the others.
LEMMA Lowered ==
  ASSUME PrioritiesCounted, NEW s \in Screens, Lower(s)
  PROVE  PrioritiesCounted'
<1>1. pc' \in [Readers -> Places] /\ OpenPrompts' = OpenPrompts
  <2>1. PICK p : p = [pc EXCEPT ![s] = "done"]
    OBVIOUS
  <2>2. p \in [Readers -> Places] /\ \A q \in Readers : p[q] = "closed" <=> pc[q] = "closed"
    BY <2>1 DEF Lower, At, PrioritiesCounted, Readers, Places
  <2>3. pc' = p \/ pc' = Roused(p)
    BY <2>1 DEF Lower
  <2>4. pc' \in [Readers -> Places] /\ \A q \in Readers : pc'[q] = "closed" <=> p[q] = "closed"
    BY <2>2, <2>3, Rousing
  <2>. QED  BY <2>2, <2>4 DEF OpenPrompts, Readers
<1>2. PICK p : p = prio'
  OBVIOUS
<1>3. PICK n : n = Cardinality(OpenPrompts)
  OBVIOUS
<1>4. n \in Nat /\ n <= Cardinality(Screens) /\ Cardinality(Screens) \in Nat
  BY <1>3, FS_Subset, FS_CardinalityType DEF OpenPrompts
<1>5. /\ CurrentPriority \in Nat /\ CurrentPriority <= n
      /\ \A q \in Screens : prio[q] \in Nat /\ prio[q] <= CurrentPriority
  BY <1>3, Current DEF PrioritiesCounted
<1>6. p = [prio EXCEPT ![s] = 0]
  BY <1>2 DEF Lower
<1>7. p \in [Screens -> 0 .. n] /\ p \in [Screens -> 0 .. Cardinality(Screens)]
  BY <1>4, <1>5, <1>6 DEF PrioritiesCounted
<1>8. PICK top : top = Max({0} \cup {p[q] : q \in Screens})
  OBVIOUS
<1>9. top \in 0 .. n
  BY <1>4, <1>7, <1>8, Highest
<1>10. CurrentPriority' = top
  BY <1>2, <1>8 DEF CurrentPriority
<1>. QED  BY <1>1, <1>2, <1>3, <1>4, <1>7, <1>9, <1>10 DEF PrioritiesCounted

\* Where nobody opens or closes, places change as they do and priorities not at all.
LEMMA Otherwise ==
  ASSUME PrioritiesCounted,
         \/ Stays
         \/ prio' = prio /\ pc' = Roused(pc)
         \/ \E r \in Readers, to \in Places : Steps(r, to) \/ Tells(r, to)
  PROVE  PrioritiesCounted' /\ CurrentPriority' = CurrentPriority
<1>1. CurrentPriority' = CurrentPriority
  BY DEF CurrentPriority, Stays, Steps, Tells
<1>2. pc' \in [Readers -> Places] /\ \A q \in Readers : pc'[q] = "closed" <=> pc[q] = "closed"
  <2>1. CASE Stays
    BY <2>1 DEF Stays, PrioritiesCounted
  <2>2. CASE prio' = prio /\ pc' = Roused(pc)
    BY <2>2, Rousing DEF PrioritiesCounted
  <2>3. ASSUME NEW r \in Readers, NEW to \in Places, Steps(r, to)
        PROVE  pc' \in [Readers -> Places] /\ \A q \in Readers : pc'[q] = "closed" <=> pc[q] = "closed"
    BY <2>3, Going DEF Steps, Goes, PrioritiesCounted
  <2>4. ASSUME NEW r \in Readers, NEW to \in Places, Tells(r, to)
        PROVE  pc' \in [Readers -> Places] /\ \A q \in Readers : pc'[q] = "closed" <=> pc[q] = "closed"
    <3>1. PICK p : p = [pc EXCEPT ![r] = to]
      OBVIOUS
    <3>2. p \in [Readers -> Places] /\ \A q \in Readers : p[q] = "closed" <=> pc[q] = "closed"
      BY <2>4, <3>1, Going DEF Tells, PrioritiesCounted
    <3>3. pc' = Roused(p)
      BY <2>4, <3>1 DEF Tells, ToldAll
    <3>. QED  BY <3>2, <3>3, Rousing
  <2>. QED  BY <2>1, <2>2, <2>3, <2>4
<1>3. OpenPrompts' = OpenPrompts /\ prio' = prio
  BY <1>2 DEF OpenPrompts, Readers, Stays, Steps, Tells
<1>. QED  BY <1>1, <1>2, <1>3 DEF PrioritiesCounted

\* Priorities stay counted.
LEMMA StepPriorities ==
  ASSUME PrioritiesCounted, ConsoleNext
  PROVE  PrioritiesCounted'
<1>1. "asleep" \in Places
  BY DEF Places
<1>. QED  BY <1>1, OneMoves, Otherwise, Raised, Lowered

\* Who goes to sleep has nothing to read; who sleeps is told when that changes.
LEMMA StepSleepers ==
  ASSUME PrioritiesCounted, SleepersHaveNothing, ConsoleNext
  PROVE  SleepersHaveNothing'
<1>. SUFFICES ASSUME NEW q \in Readers, pc'[q] = "asleep" PROVE ~Ready(q)'
  BY DEF SleepersHaveNothing
<1>1. "asleep" \in Places
  BY DEF Places
<1>2. CASE Stays
  <2>1. pc[q] = "asleep" /\ ~Ready(q) /\ CurrentPriority' = CurrentPriority
    BY <1>2, Otherwise DEF Stays, SleepersHaveNothing
  <2>. QED  BY <1>2, <2>1 DEF Stays, Takes, Ready, Admitted, Priority
<1>3. CASE prio' = prio /\ pc' = Roused(pc)
  BY <1>3, Rousing DEF PrioritiesCounted
<1>4. ASSUME NEW r \in Readers, NEW to \in Places, Tells(r, to) PROVE FALSE
  <2>1. PICK p : p = [pc EXCEPT ![r] = to]
    OBVIOUS
  <2>2. p \in [Readers -> Places] /\ pc' = Roused(p)
    BY <1>4, <2>1, Going DEF Tells, ToldAll, PrioritiesCounted
  <2>. QED  BY <2>2, Rousing
<1>5. ASSUME NEW r \in Readers, NEW to \in Places, Steps(r, to) PROVE ~Ready(q)'
  <2>1. CurrentPriority' = CurrentPriority
    BY <1>5, Otherwise
  <2>2. Ready(q)' => Ready(q)
    BY <1>5, <2>1 DEF Steps, Takes, Ready, Admitted, Priority
  <2>3. CASE q = r
    BY <1>5, <2>2, <2>3, Going DEF Steps, Goes, PrioritiesCounted
  <2>4. CASE q # r
    BY <1>5, <2>2, <2>4, Going DEF Steps, Goes, PrioritiesCounted, SleepersHaveNothing
  <2>. QED  BY <2>3, <2>4
<1>6. ASSUME NEW s \in Screens, Open(s) PROVE ~Ready(q)'
  <2>1. q # s /\ pc[q] = "asleep" /\ ~Ready(q)
    BY <1>6, Going DEF Open, Goes, PrioritiesCounted, SleepersHaveNothing, Readers, Places
  <2>2. CurrentPriority' = CurrentPriority + 1 /\ pending' = pending /\ Priority(q)' = Priority(q)
    BY <1>6, <2>1, Raised DEF Open, Priority, PrioritiesCounted, Readers
  <2>3. Priority(q) \in Nat /\ CurrentPriority \in Nat /\ Priority(q) <= CurrentPriority
    BY Current
  <2>. QED  BY <2>2, <2>3 DEF Ready, Admitted
<1>7. ASSUME NEW s \in Screens, Lower(s) PROVE ~Ready(q)'
  <2>1. PICK p : p = [pc EXCEPT ![s] = "done"]
    OBVIOUS
  <2>2. p \in [Readers -> Places] /\ pc' = IF pending = <<>> THEN p ELSE Roused(p)
    BY <1>7, <2>1, Going DEF Lower, PrioritiesCounted, Readers, Places
  <2>3. pending = <<>> /\ pending' = <<>>
    BY <1>7, <2>2, Rousing DEF Lower
  <2>. QED  BY <2>3 DEF Ready
<1>. QED  BY <1>1, <1>2, <1>3, <1>4, <1>5, <1>6, <1>7, OneMoves

-----------------------------------------------------------------------------
(* What becomes of the records                                             *)

Keeps == UNCHANGED <<pending, backlog, written, gone, noop, before>>

Puts(e) ==
  /\ e \notin written /\ pending' = pending \o <<e>> /\ written' = written \cup {e}
  /\ UNCHANGED <<backlog, gone, noop>>
  /\ Kind[e] = "sync" => before' = {k \in written : IsKey(k)}
  /\ Kind[e] # "sync" => before' = before

\* A record that is taken is lost or put aside
LosesHead == gone' = gone \cup ({Head(pending)} \cap Events) /\ UNCHANGED backlog

KeepsHead == ~IsKey(Head(pending)) /\ backlog' = Append(backlog, Head(pending)) /\ UNCHANGED gone

TakesOne(r) ==
  /\ pending # <<>> /\ pending' = Tail(pending)
  /\ calls[r] = "none" /\ Inspect(r, Head(pending))
  /\ UNCHANGED <<written, before>>
  /\ LosesHead \/ KeepsHead
  /\ kicked' => Up' \/ IsKey(Head(pending)) \/ KeepsHead

PutsBack ==
  pending' = pending \o backlog /\ backlog' = <<>> /\ UNCHANGED <<written, gone, noop, before>>

Flushes ==
  /\ pending' = <<>> /\ gone' = gone \cup (ToSet(pending) \cap Events)
  /\ UNCHANGED <<backlog, written, noop, before>> /\ ~kicked'

Closes(s) == pending' = pending \o <<s>> /\ UNCHANGED <<backlog, written, gone, noop, before>>

\* Every step does one of these.
LEMMA RecordsMove ==
  ASSUME ConsoleIInv, ConsoleNext
  PROVE  \/ Keeps \/ PutsBack \/ Flushes
         \/ \E e \in Events : Puts(e)
         \/ \E r \in Readers : TakesOne(r)
         \/ \E s \in Screens : UpdateScreen(s) /\ Closes(s)
<1>. DEFINE Goal == \/ Keeps \/ PutsBack \/ Flushes
                    \/ \E e \in Events : Puts(e)
                    \/ \E r \in Readers : TakesOne(r)
                    \/ \E s \in Screens : UpdateScreen(s) /\ Closes(s)
<1>1. ASSUME NEW e \in Events, Write(e) \/ WriteTitle(e) \/ Sync(e) PROVE Goal
  BY <1>1 DEF Write, WriteTitle, Sync, Put, Puts, test
<1>2. CASE SyncReturns \/ \E r \in Readers : Callback(r)
  BY <1>2 DEF SyncReturns, queue, test, Callback, RunTitle, SignalEvent, DerefEvent, Keeps
<1>3. CASE StartRead \/ StartCheck \/ WaitForNonEmpty \/ AppWakes
  BY <1>3 DEF StartRead, StartCheck, WaitForNonEmpty, AppWakes, rest, test, Keeps
<1>4. CASE Flush
  BY <1>4 DEF Flush, Flushes, Loses, rest, test
<1>5. CASE Read
  <2>1. App \in Readers
    BY DEF Readers
  <2>2. TakesOne(App) \/ Keeps
    BY <1>5 DEF Read, At, Take, Ready, TakesOne, LosesHead, Loses, Keeps, rest, test
  <2>. QED  BY <2>1, <2>2
<1>6. CASE CheckMore \/ CheckTake
  <2>1. App \in Readers
    BY DEF Readers
  <2>2. CASE PutBack /\ UNCHANGED rest
    <3>1. CASE backlog # <<>>
      BY <2>2, <3>1 DEF PutBack, Put, PutsBack, rest, test
    <3>2. CASE backlog = <<>>
      BY <2>2, <3>2 DEF PutBack, Keeps, rest, test
    <3>. QED  BY <3>1, <3>2
  <2>3. CASE Take(App) /\ calls[App] = "none" /\ Sorted(Head(pending)) /\ UNCHANGED rest
    <3>1. TakesOne(App)
      BY <2>3 DEF Take, Ready, Sorted, Loses, TakesOne, LosesHead, KeepsHead, rest, test
    <3>. QED  BY <2>1, <3>1
  <2>4. CASE UNCHANGED <<pending, gone, noop, backlog>> /\ UNCHANGED rest
    BY <2>4 DEF Keeps, rest, test
  <2>. QED  BY <1>6, <2>2, <2>3, <2>4 DEF CheckMore, CheckTake, At
<1>7. ASSUME NEW s \in Screens, Open(s) \/ Loop(s) \/ TimeOut(s) \/ Lower(s) PROVE Goal
  BY <1>7 DEF Open, Loop, TimeOut, Lower, others, test, Keeps
<1>8. ASSUME NEW s \in Screens, DispatchInput(s) PROVE Goal
  <2>1. s \in Readers
    BY DEF Readers
  <2>2. CASE Take(s) /\ UNCHANGED pc /\ Loses({Head(pending)})
    <3>1. Up'
      BY <1>8, <2>2 DEF DispatchInput, At, Up
    <3>2. TakesOne(s)
      BY <1>8, <2>2, <3>1 DEF DispatchInput, At, Take, Ready, Loses, TakesOne, LosesHead, others, test
    <3>. QED  BY <2>1, <3>2
  <2>3. CASE UNCHANGED <<pending, gone, calls, noop>>
    BY <1>8, <2>3 DEF DispatchInput, others, test, Keeps
  <2>. QED  BY <1>8, <2>2, <2>3 DEF DispatchInput
<1>9. ASSUME NEW s \in Screens, UpdateScreen(s) PROVE Goal
  BY <1>9 DEF UpdateScreen, Put, others, test, Closes
<1>. QED
  BY <1>1, <1>2, <1>3, <1>4, <1>5, <1>6, <1>7, <1>8, <1>9 DEF ConsoleNext, AppStep, ScreenStep

\* InspectCallbacks: a callback is found in a record of that kind, once.
LEMMA Inspecting ==
  ASSUME NEW r, NEW e \in Records, Inspect(r, e)
  PROVE  \/ Call(e) \in {"none"} /\ noop' = noop
         \/ /\ Call(e) \in {"title", "signal"} /\ noop' = noop \cup {e} /\ e \in Events /\ e \notin noop
            /\ Call(e) = "signal" <=> Kind[e] = "sync"
<1>1. /\ e \in noop \cup Screens => Call(e) = "none"
      /\ e \notin noop \cup Screens /\ Kind[e] = "title" => Call(e) = "title"
      /\ e \notin noop \cup Screens /\ Kind[e] = "sync" => Call(e) = "signal"
      /\ e \notin noop \cup Screens /\ Kind[e] \notin {"title", "sync"} => Call(e) = "none"
  BY DEF Call
<1>2. e \notin Screens => e \in Events
  BY DEF Records
<1>. QED  BY <1>1, <1>2 DEF Inspect

\* The queue and the backlog hold records that were written, and the backlog no key.
LEMMA StepRecords ==
  ASSUME ConsoleIInv, ConsoleNext
  PROVE  RecordsKnown'
<1>. DEFINE In(q, w) == \A i \in 1..Len(q) : q[i] \in Events => q[i] \in w
            Aside(q, w) == \A i \in 1..Len(q) : q[i] \in Events => q[i] \in w /\ ~IsKey(q[i])
<1>1. /\ RecordsKnown /\ pending \in Seq(Records) /\ backlog \in Seq(Records)
      /\ written \subseteq Events /\ noop \subseteq written /\ gone \subseteq Events
      /\ before \subseteq written /\ (\A k \in before : IsKey(k))
      /\ In(pending, written) /\ Aside(backlog, written)
  BY DEF ConsoleIInv, RecordsKnown
<1>2. SUFFICES /\ pending' \in Seq(Records) /\ backlog' \in Seq(Records)
               /\ written' \subseteq Events /\ noop' \subseteq written' /\ gone' \subseteq Events
               /\ before' \subseteq written' /\ (\A k \in before' : IsKey(k))
               /\ In(pending', written') /\ Aside(backlog', written')
  BY DEF RecordsKnown, IsKey
<1>3. CASE Keeps
  BY <1>1, <1>3 DEF Keeps
<1>4. ASSUME NEW e \in Events, Puts(e) PROVE pending' \in Seq(Records) /\ In(pending', written \cup {e})
  <2>1. e \in Records /\ <<e>> \in Seq(Records) /\ Len(<<e>>) = 1 /\ <<e>>[1] = e
    BY DEF Records
  <2>2. PICK p : p = pending \o <<e>>
    OBVIOUS
  <2>3. p \in Seq(Records) /\ In(p, written \cup {e})
    BY <1>1, <2>1, <2>2, Longer
  <2>. QED  BY <1>4, <2>2, <2>3 DEF Puts
<1>5. CASE \E e \in Events : Puts(e)
  BY <1>1, <1>4, <1>5 DEF Puts
<1>6. CASE PutsBack
  <2>1. PICK p : p = pending \o backlog
    OBVIOUS
  <2>2. p \in Seq(Records) /\ In(p, written)
    BY <1>1, <2>1, Longer
  <2>3. <<>> \in Seq(Records) /\ Aside(<<>>, written)
    OBVIOUS
  <2>. QED  BY <1>1, <1>6, <2>1, <2>2, <2>3 DEF PutsBack
<1>7. CASE Flushes
  <2>1. <<>> \in Seq(Records) /\ In(<<>>, written)
    OBVIOUS
  <2>. QED  BY <1>1, <1>7, <2>1 DEF Flushes
<1>8. ASSUME NEW s \in Screens, Closes(s) PROVE pending' \in Seq(Records) /\ In(pending', written)
  <2>1. s \in Records /\ s \notin Events /\ <<s>> \in Seq(Records) /\ Len(<<s>>) = 1 /\ <<s>>[1] = s
    BY DEF Records
  <2>2. PICK p : p = pending \o <<s>>
    OBVIOUS
  <2>3. /\ p \in Seq(Records) /\ Len(pending) \in Nat /\ Len(p) = Len(pending) + 1
        /\ p[Len(pending) + 1] = s /\ \A i \in 1..Len(pending) : p[i] = pending[i]
    BY <1>1, <2>1, <2>2
  <2>4. In(p, written)
    BY <1>1, <2>1, <2>3
  <2>. QED  BY <1>8, <2>2, <2>3, <2>4 DEF Closes
<1>9. CASE \E s \in Screens : Closes(s)
  BY <1>1, <1>8, <1>9 DEF Closes
<1>10. ASSUME NEW r \in Readers, TakesOne(r)
       PROVE  /\ pending' \in Seq(Records) /\ backlog' \in Seq(Records)
              /\ written' \subseteq Events /\ noop' \subseteq written' /\ gone' \subseteq Events
              /\ before' \subseteq written' /\ (\A k \in before' : IsKey(k))
              /\ In(pending', written') /\ Aside(backlog', written')
  <2>1. pending # <<>> /\ pending' = Tail(pending) /\ Inspect(r, Head(pending))
        /\ written' = written /\ before' = before
    BY <1>10 DEF TakesOne
  <2>2. PICK e : e = Head(pending)
    OBVIOUS
  <2>3. e \in Records /\ (e \in Events => e \in written)
    BY <1>1, <2>1, <2>2, Shorter
  <2>4. noop' \subseteq written
    BY <1>1, <2>1, <2>2, <2>3, Inspecting
  <2>5. PICK p : p = Tail(pending)
    OBVIOUS
  <2>6. p \in Seq(Records) /\ In(p, written)
    BY <1>1, <2>1, <2>5, Shorter
  <2>7. CASE LosesHead
    <3>1. gone' \subseteq Events /\ backlog' = backlog
      BY <1>1, <2>7 DEF LosesHead
    <3>. QED  BY <1>1, <2>1, <2>4, <2>5, <2>6, <3>1
  <2>8. CASE KeepsHead
    <3>1. gone' = gone /\ ~IsKey(e) /\ backlog' = Append(backlog, e)
      BY <2>2, <2>8 DEF KeepsHead
    <3>2. <<e>> \in Seq(Records) /\ Len(<<e>>) = 1 /\ <<e>>[1] = e /\ Append(backlog, e) = backlog \o <<e>>
      BY <1>1, <2>3
    <3>3. PICK b : b = backlog \o <<e>>
      OBVIOUS
    <3>4. b \in Seq(Records) /\ Aside(b, written)
      BY <1>1, <2>3, <3>1, <3>2, <3>3, Longer
    <3>. QED  BY <1>1, <2>1, <2>4, <2>5, <2>6, <3>1, <3>2, <3>3, <3>4
  <2>. QED  BY <1>10, <2>7, <2>8 DEF TakesOne
<1>. QED  BY <1>3, <1>5, <1>6, <1>7, <1>9, <1>10, RecordsMove

\* What is appended is there ...
LEMMA SetLonger ==
  ASSUME NEW S, NEW q \in Seq(S), NEW r \in Seq(S)
  PROVE  ToSet(q \o r) = ToSet(q) \cup ToSet(r)
<1>1. PICK w : w = q \o r
  OBVIOUS
<1>2. /\ w \in Seq(S) /\ Len(w) = Len(q) + Len(r) /\ Len(q) \in Nat /\ Len(r) \in Nat
      /\ \A i \in 1..Len(q) : w[i] = q[i]
      /\ \A i \in 1..Len(r) : w[Len(q) + i] = r[i]
      /\ \A i \in 1..Len(w) : i \in 1..Len(q) \/ \E k \in 1..Len(r) : i = Len(q) + k
  BY <1>1, Longer
<1>3. ToSet(w) = {w[i] : i \in 1..Len(w)}
  <2>1. w \in Seq(S)
    BY <1>2
  <2>. QED  BY <2>1, Members
<1>4. ToSet(q) = {q[i] : i \in 1..Len(q)} /\ ToSet(r) = {r[i] : i \in 1..Len(r)}
  BY Members
<1>5. \A i \in 1..Len(q) : i \in 1..Len(w)
  BY <1>2
<1>6. \A i \in 1..Len(r) : Len(q) + i \in 1..Len(w)
  BY <1>2
<1>7. ASSUME NEW x \in ToSet(w) PROVE x \in ToSet(q) \cup ToSet(r)
  <2>1. PICK i \in 1..Len(w) : x = w[i]
    BY <1>3
  <2>2. CASE i \in 1..Len(q)
    BY <1>2, <1>4, <2>1, <2>2
  <2>3. ASSUME NEW k \in 1..Len(r), i = Len(q) + k PROVE x \in ToSet(r)
    BY <1>2, <1>4, <2>1, <2>3
  <2>. QED  BY <1>2, <2>2, <2>3
<1>8. \A x \in ToSet(q) : x \in ToSet(w)
  BY <1>2, <1>3, <1>4, <1>5
<1>9. \A x \in ToSet(r) : x \in ToSet(w)
  BY <1>2, <1>3, <1>4, <1>6
<1>. QED  BY <1>1, <1>7, <1>8, <1>9

\* ... and what is taken was the head.
LEMMA SetShorter ==
  ASSUME NEW S, NEW q \in Seq(S), q # <<>>
  PROVE  ToSet(q) = {Head(q)} \cup ToSet(Tail(q))
<1>1. PICK w : w = Tail(q)
  OBVIOUS
<1>2. /\ w \in Seq(S) /\ Head(q) = q[1] /\ 1 \in 1..Len(q) /\ Len(w) = Len(q) - 1 /\ Len(q) \in Nat
      /\ \A i \in 1..Len(w) : i + 1 \in 1..Len(q) /\ w[i] = q[i + 1]
  BY <1>1, Shorter
<1>3. ToSet(w) = {w[i] : i \in 1..Len(w)} /\ ToSet(q) = {q[i] : i \in 1..Len(q)}
  BY <1>2, Members
<1>4. \A i \in 1..Len(q) : i # 1 => i - 1 \in 1..Len(w) /\ q[i] = w[i - 1]
  BY <1>2
<1>5. \A x \in ToSet(q) : x \in {Head(q)} \cup ToSet(w)
  BY <1>2, <1>3, <1>4
<1>6. \A x \in {Head(q)} \cup ToSet(w) : x \in ToSet(q)
  BY <1>2, <1>3
<1>. QED  BY <1>1, <1>5, <1>6

\* A record that was written is in the queue or the backlog, or was read, flushed, or a key.
LEMMA StepPutAside ==
  ASSUME ConsoleIInv, ConsoleNext
  PROVE  PutAsideComesBack'
<1>1. /\ pending \in Seq(Records) /\ backlog \in Seq(Records) /\ written \subseteq Events
      /\ written \subseteq gone \cup ToSet(pending) \cup ToSet(backlog)
  BY DEF ConsoleIInv, RecordsKnown, PutAsideComesBack
<1>. SUFFICES written' \subseteq gone' \cup ToSet(pending') \cup ToSet(backlog')
  BY DEF PutAsideComesBack
<1>2. CASE Keeps
  BY <1>1, <1>2 DEF Keeps
<1>3. ASSUME NEW x \in Records
      PROVE  /\ ToSet(pending \o <<x>>) = ToSet(pending) \cup {x}
             /\ ToSet(Append(backlog, x)) = ToSet(backlog) \cup {x}
  <2>1. <<x>> \in Seq(Records) /\ Append(backlog, x) = backlog \o <<x>>
    BY <1>1
  <2>2. ToSet(<<x>>) = {x}
    BY DEF ToSet
  <2>3. pending \in Seq(Records) /\ backlog \in Seq(Records) /\ <<x>> \in Seq(Records)
    BY <1>1, <2>1
  <2>4. PICK q \in Seq(Records) : q = <<x>>
    BY <2>3
  <2>5. ToSet(pending \o q) = ToSet(pending) \cup ToSet(q)
    BY ONLY <2>3, SetLonger
  <2>6. ToSet(backlog \o q) = ToSet(backlog) \cup ToSet(q)
    BY ONLY <2>3, SetLonger
  <2>. QED  BY <2>1, <2>2, <2>4, <2>5, <2>6
<1>4. ASSUME NEW e \in Events, Puts(e) PROVE written' \subseteq gone' \cup ToSet(pending') \cup ToSet(backlog')
  <2>1. e \in Records
    BY DEF Records
  <2>. QED  BY <1>1, <1>3, <1>4, <2>1 DEF Puts
<1>5. ASSUME NEW s \in Screens, Closes(s) PROVE written' \subseteq gone' \cup ToSet(pending') \cup ToSet(backlog')
  <2>1. s \in Records
    BY DEF Records
  <2>. QED  BY <1>1, <1>3, <1>5, <2>1 DEF Closes
<1>6. CASE PutsBack
  BY <1>1, <1>6, SetLonger DEF PutsBack
<1>7. CASE Flushes
  BY <1>1, <1>7 DEF Flushes
<1>8. ASSUME NEW r \in Readers, TakesOne(r)
      PROVE  written' \subseteq gone' \cup ToSet(pending') \cup ToSet(backlog')
  <2>1. pending # <<>> /\ pending' = Tail(pending) /\ written' = written /\ Head(pending) \in Records
    BY <1>1, <1>8, Shorter DEF TakesOne
  <2>2. ToSet(pending) = {Head(pending)} \cup ToSet(pending')
    BY <1>1, <2>1, SetShorter
  <2>3. CASE LosesHead
    BY <1>1, <2>1, <2>2, <2>3 DEF LosesHead
  <2>4. CASE KeepsHead
    BY <1>1, <1>3, <2>1, <2>2, <2>4 DEF KeepsHead
  <2>. QED  BY <1>8, <2>3, <2>4 DEF TakesOne
<1>. QED  BY <1>2, <1>4, <1>5, <1>6, <1>7, <1>8, RecordsMove

-----------------------------------------------------------------------------
(* Kicks                                                                   *)

\* A record that is no key stays one, behind and before others.
LEMMA OtherLonger ==
  ASSUME NEW q \in Seq(Records), NEW r \in Seq(Records), Other(q) \/ Other(r)
  PROVE  Other(q \o r)
<1>1. PICK w : w = q \o r
  OBVIOUS
<1>2. /\ Len(w) = Len(q) + Len(r) /\ Len(q) \in Nat /\ Len(r) \in Nat
      /\ \A i \in 1..Len(q) : w[i] = q[i]
      /\ \A i \in 1..Len(r) : w[Len(q) + i] = r[i]
  BY <1>1, Longer
<1>3. CASE Other(q)
  BY <1>1, <1>2, <1>3 DEF Other
<1>4. ASSUME NEW i \in 1..Len(r), ~IsKey(r[i]) PROVE Other(w)
  <2>1. Len(q) + i \in 1..Len(w) /\ w[Len(q) + i] = r[i]
    BY <1>2
  <2>. QED  BY <1>4, <2>1 DEF Other
<1>. QED  BY <1>1, <1>3, <1>4 DEF Other

\* A key that is taken leaves it there.
LEMMA OtherShorter ==
  ASSUME NEW q \in Seq(Records), q # <<>>, IsKey(Head(q)), Other(q)
  PROVE  Other(Tail(q))
<1>1. PICK w : w = Tail(q)
  OBVIOUS
<1>2. /\ Head(q) = q[1] /\ Len(w) = Len(q) - 1 /\ Len(q) \in Nat
      /\ \A i \in 1..Len(w) : w[i] = q[i + 1]
  BY <1>1, Shorter
<1>3. PICK i \in 1..Len(q) : ~IsKey(q[i])
  BY DEF Other
<1>4. i # 1
  BY <1>2, <1>3
<1>5. i - 1 \in 1..Len(w) /\ w[i - 1] = q[i]
  BY <1>2, <1>4
<1>. QED  BY <1>1, <1>3, <1>5 DEF Other

\* No prompt is done before it has put its record.
LEMMA UpStays ==
  ASSUME PrioritiesCounted, ConsoleNext, Up
  PROVE  Up' \/ \E s \in Screens : UpdateScreen(s)
<1>. USE DEF Readers, Places, At, Goes, rest, others
<1>1. PICK s \in Screens : pc[s] \in {"open", "asleep", "drain", "update"}
  BY DEF Up
<1>. SUFFICES ASSUME \A z \in Screens : ~UpdateScreen(z)
              PROVE  pc'[s] \in {"open", "asleep", "drain", "update"}
  BY DEF Up
<1>. DEFINE Goal == pc'[s] \in {"open", "asleep", "drain", "update"}
<1>2. CASE \E e \in Events : Write(e) \/ WriteTitle(e) \/ Sync(e)
  <2>1. pc' = Roused(pc)
    BY <1>2 DEF Write, WriteTitle, Sync, Put
  <2>. QED  BY <1>1, <2>1, Rousing DEF PrioritiesCounted
<1>3. CASE SyncReturns \/ Flush \/ \E r \in Readers : Callback(r)
  BY <1>1, <1>3 DEF SyncReturns, Flush, Callback, RunTitle, SignalEvent, DerefEvent
<1>4. ASSUME NEW to \in Places, Goes(App, to) PROVE Goal
  BY <1>1, <1>4 DEF PrioritiesCounted
<1>5. CASE StartRead \/ StartCheck \/ Read \/ AppWakes
  BY <1>4, <1>5 DEF StartRead, StartCheck, Read, AppWakes
<1>6. CASE WaitForNonEmpty
  <2>1. PICK to \in {"read", "asleep"} : Goes(App, to)
    BY <1>6 DEF WaitForNonEmpty
  <2>. QED  BY <1>4, <2>1
<1>7. CASE CheckMore \/ CheckTake
  <2>1. ASSUME pc' = Roused([pc EXCEPT ![App] = "idle"]) PROVE Goal
    <3>1. PICK p : p = [pc EXCEPT ![App] = "idle"]
      OBVIOUS
    <3>2. p \in [Readers -> Places] /\ p[s] = pc[s]
      BY <3>1, Going DEF PrioritiesCounted
    <3>. QED  BY <1>1, <2>1, <3>1, <3>2, Rousing
  <2>2. CASE PutBack
    BY <1>4, <2>1, <2>2 DEF PutBack, Put
  <2>. QED  BY <1>4, <1>7, <2>2 DEF CheckMore, CheckTake
<1>8. ASSUME NEW z \in Screens, NEW to \in Places, Goes(z, to), z # s \/ to \in {"open", "asleep", "drain", "update"}
      PROVE  Goal
  BY <1>1, <1>8 DEF PrioritiesCounted
<1>9. ASSUME NEW z \in Screens, Open(z) \/ Loop(z) PROVE Goal
  BY <1>8, <1>9 DEF Open, Loop
<1>10. ASSUME NEW z \in Screens, TimeOut(z) PROVE Goal
  <2>1. PICK to \in {"open", "update"} : Goes(z, to)
    BY <1>10 DEF TimeOut
  <2>. QED  BY <1>8, <2>1
<1>11. ASSUME NEW z \in Screens, DispatchInput(z) PROVE Goal
  BY <1>1, <1>8, <1>11 DEF DispatchInput
<1>12. ASSUME NEW z \in Screens, Lower(z) PROVE Goal
  <2>1. PICK p : p = [pc EXCEPT ![z] = "done"]
    OBVIOUS
  <2>2. p \in [Readers -> Places] /\ p[s] = pc[s]
    BY <1>1, <1>12, <2>1, Going DEF Lower, PrioritiesCounted
  <2>3. pc' = p \/ pc' = Roused(p)
    BY <1>12, <2>1 DEF Lower
  <2>. QED  BY <1>1, <2>2, <2>3, Rousing
<1>. QED
  BY <1>2, <1>3, <1>5, <1>6, <1>7, <1>9, <1>10, <1>11, <1>12 DEF ConsoleNext, AppStep, ScreenStep

\* A kick is written, or was there before.
LEMMA KickedBefore ==
  ASSUME ConsoleNext, kicked'
  PROVE  kicked \/ \E e \in Events : Kind[e] = "kick" /\ pending' = pending \o <<e>>
<1>. USE DEF queue, test, rest, others
<1>1. CASE \E e \in Events : Write(e) \/ WriteTitle(e) \/ Sync(e)
  BY <1>1 DEF Write, WriteTitle, Sync, Put
<1>2. CASE SyncReturns \/ Flush \/ \E r \in Readers : Callback(r)
  BY <1>2 DEF SyncReturns, Flush, Callback, RunTitle, SignalEvent, DerefEvent
<1>3. CASE StartRead \/ StartCheck \/ AppStep
  BY <1>3 DEF StartRead, StartCheck, AppStep, Read, WaitForNonEmpty, AppWakes, CheckMore, CheckTake
<1>4. ASSUME NEW s \in Screens, Open(s) \/ ScreenStep(s) PROVE kicked
  BY <1>4 DEF Open, ScreenStep, Loop, TimeOut, DispatchInput, UpdateScreen, Lower
<1>. QED  BY <1>1, <1>2, <1>3, <1>4 DEF ConsoleNext

\* A kick that was taken from the application leaves it something else.
LEMMA StepKick ==
  ASSUME ConsoleIInv, ConsoleNext
  PROVE  KickLeavesOther'
<1>. SUFFICES ASSUME kicked', ~Up' PROVE Other(pending') \/ Other(backlog')
  BY DEF KickLeavesOther, Other, IsKey
<1>1. PrioritiesCounted /\ KickLeavesOther /\ pending \in Seq(Records) /\ backlog \in Seq(Records)
  BY DEF ConsoleIInv, RecordsKnown
<1>2. ASSUME NEW x \in Records, ~IsKey(x) \/ Other(pending), pending' = pending \o <<x>> PROVE Other(pending')
  <2>1. <<x>> \in Seq(Records) /\ Len(<<x>>) = 1 /\ <<x>>[1] = x
    OBVIOUS
  <2>2. Other(<<x>>) \/ Other(pending)
    BY <1>2, <2>1 DEF Other
  <2>. QED  BY <1>1, <1>2, <2>1, <2>2, OtherLonger
<1>3. CASE \E s \in Screens : UpdateScreen(s)
  <2>1. PICK s \in Screens : pending' = pending \o <<s>>
    BY <1>3 DEF UpdateScreen, Put
  <2>2. s \in Records /\ ~IsKey(s)
    BY DEF Records, IsKey
  <2>. QED  BY <1>2, <2>1, <2>2
<1>4. CASE \E e \in Events : Kind[e] = "kick" /\ pending' = pending \o <<e>>
  <2>1. PICK e \in Events : Kind[e] = "kick" /\ pending' = pending \o <<e>>
    BY <1>4
  <2>2. e \in Records /\ ~IsKey(e)
    BY <2>1 DEF Records, IsKey
  <2>. QED  BY <1>2, <2>1, <2>2
<1>5. CASE (\A s \in Screens : ~UpdateScreen(s)) /\ kicked
  <2>1. Other(pending) \/ Other(backlog)
    BY <1>1, <1>5, UpStays DEF KickLeavesOther
  <2>2. CASE Keeps
    BY <2>1, <2>2 DEF Keeps
  <2>3. CASE PutsBack
    BY <1>1, <2>1, <2>3, OtherLonger DEF PutsBack
  <2>4. ASSUME NEW e \in Events, Puts(e) PROVE Other(pending') \/ Other(backlog')
    <3>1. e \in Records
      BY DEF Records
    <3>. QED  BY <1>2, <2>1, <2>4, <3>1 DEF Puts
  <2>5. ASSUME NEW r \in Readers, TakesOne(r) PROVE Other(pending') \/ Other(backlog')
    <3>1. pending # <<>> /\ pending' = Tail(pending) /\ (LosesHead \/ KeepsHead) /\ Head(pending) \in Records
      BY <1>1, <2>5, Shorter DEF TakesOne
    <3>2. CASE KeepsHead
      <4>1. PICK x \in Records : x = Head(pending)
        BY <3>1
      <4>2. ~IsKey(x) /\ backlog' = Append(backlog, x)
        BY <3>2, <4>1 DEF KeepsHead
      <4>3. <<x>> \in Seq(Records) /\ Len(<<x>>) = 1 /\ <<x>>[1] = x /\ Append(backlog, x) = backlog \o <<x>>
        BY <1>1
      <4>4. Other(<<x>>)
        BY <4>2, <4>3 DEF Other
      <4>. QED  BY <1>1, <4>2, <4>3, <4>4, OtherLonger
    <3>3. CASE LosesHead /\ ~KeepsHead
      <4>1. IsKey(Head(pending)) /\ backlog' = backlog
        BY <2>5, <3>3 DEF TakesOne, LosesHead
      <4>. QED  BY <1>1, <2>1, <3>1, <4>1, OtherShorter
    <3>. QED  BY <3>1, <3>2, <3>3
  <2>. QED  BY <1>5, <2>2, <2>3, <2>4, <2>5, RecordsMove DEF Flushes
<1>. QED  BY <1>3, <1>4, <1>5, KickedBefore

-----------------------------------------------------------------------------
(* The test client's Sync                                                  *)

\* What is put aside, and what a prompt puts, is neither a key nor a Sync still to come.
LEMMA StepSyncFollows ==
  ASSUME ConsoleIInv, ConsoleNext
  PROVE  SyncFollows'
<1>1. /\ pending \in Seq(Records) /\ backlog \in Seq(Records) /\ noop \subseteq written
      /\ before \subseteq written /\ (\A k \in before : IsKey(k)) /\ written \subseteq Events
      /\ \A i \in 1..Len(pending) : pending[i] \in Events => pending[i] \in written
      /\ \A i \in 1..Len(backlog) : backlog[i] \in Events => backlog[i] \in written /\ ~IsKey(backlog[i])
  BY DEF ConsoleIInv, RecordsKnown
<1>. SUFFICES ASSUME NEW e \in Events, Kind[e] = "sync", e \notin noop'
              PROVE  /\ \A j \in 1..Len(pending') : pending'[j] \in before' =>
                          \E i \in 1..Len(pending') : i > j /\ pending'[i] = e
                     /\ \A i, j \in 1..Len(pending') : pending'[i] = e /\ pending'[j] = e => i = j
                     /\ \A i \in 1..Len(backlog') : backlog'[i] # e
  BY DEF SyncFollows
<1>. DEFINE Follows(p, b) == \A j \in 1..Len(p) : p[j] \in b => \E i \in 1..Len(p) : i > j /\ p[i] = e
            Single(p) == \A i, j \in 1..Len(p) : p[i] = e /\ p[j] = e => i = j
            Not(b) == \A i \in 1..Len(b) : b[i] # e
            Goal == Follows(pending', before') /\ Single(pending') /\ Not(backlog')
<1>2. e \notin noop => Follows(pending, before) /\ Single(pending) /\ Not(backlog)
  BY DEF ConsoleIInv, SyncFollows
<1>3. CASE Keeps
  BY <1>2, <1>3 DEF Keeps
<1>4. ASSUME NEW q \in Seq(Records), e \notin noop, \A i \in 1..Len(q) : q[i] # e /\ q[i] \notin before,
             pending' = pending \o q
      PROVE  Follows(pending', before) /\ Single(pending')
  <2>0. PICK p : p = pending \o q
    OBVIOUS
  <2>1. /\ Len(p) = Len(pending) + Len(q) /\ Len(pending) \in Nat /\ Len(q) \in Nat
        /\ \A i \in 1..Len(pending) : p[i] = pending[i]
        /\ \A i \in 1..Len(q) : p[Len(pending) + i] = q[i]
        /\ \A i \in 1..Len(p) : i \in 1..Len(pending) \/ \E k \in 1..Len(q) : i = Len(pending) + k
    BY <1>1, <2>0, Longer
  <2>2. ASSUME NEW i \in 1..Len(p), p[i] = e \/ p[i] \in before
        PROVE  i \in 1..Len(pending) /\ p[i] = pending[i]
    <3>1. ASSUME NEW k \in 1..Len(q), i = Len(pending) + k PROVE FALSE
      BY <1>4, <2>1, <2>2, <3>1
    <3>. QED  BY <2>1, <3>1
  <2>3. Single(p)
    BY <1>2, <1>4, <2>2
  <2>4. ASSUME NEW j \in 1..Len(p), p[j] \in before PROVE \E i \in 1..Len(p) : i > j /\ p[i] = e
    <3>1. PICK i \in 1..Len(pending) : i > j /\ pending[i] = e
      BY <1>2, <1>4, <2>2, <2>4
    <3>2. i \in 1..Len(p) /\ p[i] = e
      BY <2>1, <3>1
    <3>. QED  BY <3>1, <3>2
  <2>. QED  BY <1>4, <2>0, <2>3, <2>4
<1>5. ASSUME NEW s \in Screens, Closes(s) PROVE Goal
  <2>1. e \notin noop /\ before' = before /\ backlog' = backlog /\ pending' = pending \o <<s>>
    BY <1>5 DEF Closes
  <2>2. <<s>> \in Seq(Records) /\ Len(<<s>>) = 1 /\ <<s>>[1] = s /\ s # e /\ s \notin before
    BY <1>1 DEF Records
  <2>3. \A i \in 1..Len(<<s>>) : <<s>>[i] # e /\ <<s>>[i] \notin before
    BY <2>2
  <2>4. Follows(pending', before) /\ Single(pending')
    BY ONLY <1>4, <2>1, <2>2, <2>3
  <2>. QED  BY <1>2, <2>1, <2>4
<1>6. CASE PutsBack
  <2>1. e \notin noop /\ before' = before /\ backlog' = <<>> /\ pending' = pending \o backlog
    BY <1>6 DEF PutsBack
  <2>2. \A i \in 1..Len(backlog) : backlog[i] # e /\ backlog[i] \notin before
    BY <1>1, <1>2, <2>1
  <2>3. Follows(pending', before) /\ Single(pending')
    <3>1. backlog \in Seq(Records)
      BY <1>1
    <3>. QED  BY ONLY <1>4, <2>1, <2>2, <3>1
  <2>. QED  BY <2>1, <2>3
<1>7. CASE Flushes
  BY <1>2, <1>7 DEF Flushes
<1>8. ASSUME NEW x \in Events, Puts(x) PROVE Goal
  <2>1. /\ x \notin written /\ e \notin noop /\ pending' = pending \o <<x>> /\ backlog' = backlog
        /\ Kind[x] # "sync" => before' = before
        /\ Kind[x] = "sync" => before' = {k \in written : IsKey(k)}
    BY <1>8 DEF Puts
  <2>2. <<x>> \in Seq(Records) /\ Len(<<x>>) = 1 /\ <<x>>[1] = x /\ x \notin before
    BY <1>1, <2>1 DEF Records
  <2>3. CASE Kind[x] # "sync"
    <3>1. x # e
      BY <2>3
    <3>2. \A i \in 1..Len(<<x>>) : <<x>>[i] # e /\ <<x>>[i] \notin before
      BY <2>2, <3>1
    <3>3. Follows(pending', before) /\ Single(pending')
      BY ONLY <1>4, <2>1, <2>2, <3>2
    <3>. QED  BY <1>2, <2>1, <2>3, <3>3
  <2>4. CASE Kind[x] = "sync"
    <3>1. x = e /\ e \notin written /\ e \notin before'
      BY <2>1, <2>4
    <3>2. PICK p : p = pending \o <<x>>
      OBVIOUS
    <3>3. /\ Len(p) = Len(pending) + 1 /\ Len(pending) \in Nat
          /\ (\A i \in 1..Len(pending) : p[i] = pending[i]) /\ p[Len(p)] = e
      BY <1>1, <2>2, <3>1, <3>2
    <3>4. \A i \in 1..Len(pending) : pending[i] # e
      BY <1>1, <3>1
    <3>5. Single(p) /\ Follows(p, before')
      BY <3>1, <3>3, <3>4
    <3>6. Not(backlog)
      BY <1>1, <3>1
    <3>. QED  BY <2>1, <3>2, <3>5, <3>6
  <2>. QED  BY <2>3, <2>4
<1>9. ASSUME NEW r \in Readers, TakesOne(r) PROVE Goal
  <2>1. /\ pending # <<>> /\ pending' = Tail(pending) /\ Inspect(r, Head(pending))
        /\ before' = before /\ Head(pending) \in Records
    BY <1>1, <1>9, Shorter DEF TakesOne
  <2>2. e \notin noop /\ Head(pending) # e
    <3>1. PICK h \in Records : h = Head(pending)
      BY <2>1
    <3>2. Inspect(r, h)
      BY <2>1, <3>1
    <3>3. h = e => Call(h) # "none" \/ e \in noop
      BY DEF Call
    <3>. QED  BY <3>1, <3>2, <3>3, Inspecting
  <2>3. PICK p : p = Tail(pending)
    OBVIOUS
  <2>4. /\ Head(pending) = pending[1] /\ Len(pending) \in Nat /\ Len(p) = Len(pending) - 1
        /\ \A i \in 1..Len(p) : i + 1 \in 1..Len(pending) /\ p[i] = pending[i + 1]
    BY <1>1, <2>1, <2>3, Shorter
  <2>5. \A i \in 1..Len(pending) : i # 1 => i - 1 \in 1..Len(p) /\ p[i - 1] = pending[i]
    BY <2>4
  <2>6. ASSUME NEW i \in 1..Len(p), NEW n \in 1..Len(p), p[i] = e, p[n] = e PROVE i = n
    <3>1. i + 1 \in 1..Len(pending) /\ n + 1 \in 1..Len(pending) /\ pending[i + 1] = e /\ pending[n + 1] = e
      BY <2>4, <2>6
    <3>2. i + 1 = n + 1
      BY <1>2, <2>2, <3>1
    <3>. QED  BY <3>2
  <2>7. ASSUME NEW j \in 1..Len(p), p[j] \in before PROVE \E i \in 1..Len(p) : i > j /\ p[i] = e
    <3>1. PICK i \in 1..Len(pending) : i > j + 1 /\ pending[i] = e
      BY <1>2, <2>2, <2>4, <2>7
    <3>2. i - 1 \in 1..Len(p) /\ i - 1 > j /\ p[i - 1] = e
      BY <2>5, <3>1
    <3>. QED  BY <3>2
  <2>8. Not(backlog')
    <3>1. CASE LosesHead
      BY <1>2, <2>2, <3>1 DEF LosesHead
    <3>2. CASE KeepsHead
      <4>1. PICK h \in Records : h = Head(pending)
        BY <2>1
      <4>2. PICK b : b = Append(backlog, h)
        OBVIOUS
      <4>3. /\ Len(b) = Len(backlog) + 1 /\ Len(backlog) \in Nat /\ b[Len(b)] = h
            /\ \A i \in 1..Len(backlog) : b[i] = backlog[i]
        BY <1>1, <4>1, <4>2
      <4>4. Not(b)
        BY <1>2, <2>2, <4>1, <4>3
      <4>. QED  BY <3>2, <4>1, <4>2, <4>4 DEF KeepsHead
    <3>. QED  BY <1>9, <3>1, <3>2 DEF TakesOne
  <2>. QED  BY <2>1, <2>3, <2>6, <2>7, <2>8
<1>. QED  BY <1>3, <1>5, <1>6, <1>7, <1>8, <1>9, RecordsMove

\* There is one Sync.
LEMMA OneSync ==
  ASSUME NEW e \in Events, NEW f \in Events, Kind[e] = "sync", Kind[f] = "sync"
  PROVE  e = f
OBVIOUS

\* When the callback of a Sync is taken, the keys in front of it have been.
LEMMA StepTaken ==
  ASSUME ConsoleIInv, ConsoleNext
  PROVE  TakenInOrder'
<1>1. /\ pending \in Seq(Records) /\ backlog \in Seq(Records) /\ noop \subseteq written
      /\ before \subseteq written /\ (\A k \in before : IsKey(k)) /\ written \subseteq Events
      /\ \A i \in 1..Len(backlog) : backlog[i] \in Events => ~IsKey(backlog[i])
  BY DEF ConsoleIInv, RecordsKnown
<1>. SUFFICES ASSUME NEW e \in noop', Kind[e] = "sync", NEW j \in 1..Len(pending'), pending'[j] \in before'
              PROVE  FALSE
  BY DEF TakenInOrder, SyncTaken
<1>2. e \in noop => \A i \in 1..Len(pending) : pending[i] \notin before
  BY DEF ConsoleIInv, TakenInOrder, SyncTaken
<1>3. CASE Keeps
  BY <1>2, <1>3 DEF Keeps
<1>4. ASSUME NEW q \in Seq(Records), e \in noop, \A i \in 1..Len(q) : q[i] \notin before,
             pending' = pending \o q, before' = before
      PROVE  FALSE
  <2>1. PICK p : p = pending \o q
    OBVIOUS
  <2>2. /\ \A i \in 1..Len(pending) : p[i] = pending[i]
        /\ \A i \in 1..Len(q) : p[Len(pending) + i] = q[i]
        /\ \A i \in 1..Len(p) : i \in 1..Len(pending) \/ \E k \in 1..Len(q) : i = Len(pending) + k
    BY <1>1, <2>1, Longer
  <2>3. j \in 1..Len(p) /\ p[j] \in before
    BY <1>4, <2>1
  <2>4. ASSUME NEW k \in 1..Len(q), j = Len(pending) + k PROVE FALSE
    BY <1>4, <2>2, <2>3, <2>4
  <2>. QED  BY <1>2, <1>4, <2>2, <2>3, <2>4
<1>5. ASSUME NEW s \in Screens, Closes(s) PROVE FALSE
  <2>1. e \in noop /\ before' = before /\ pending' = pending \o <<s>>
    BY <1>5 DEF Closes
  <2>2. <<s>> \in Seq(Records) /\ Len(<<s>>) = 1 /\ <<s>>[1] = s /\ s \notin before
    BY <1>1 DEF Records
  <2>3. \A i \in 1..Len(<<s>>) : <<s>>[i] \notin before
    BY <2>2
  <2>. QED  BY ONLY <1>4, <2>1, <2>2, <2>3
<1>6. CASE PutsBack
  <2>1. e \in noop /\ before' = before /\ pending' = pending \o backlog /\ backlog \in Seq(Records)
    BY <1>1, <1>6 DEF PutsBack
  <2>2. \A i \in 1..Len(backlog) : backlog[i] \notin before
    BY <1>1
  <2>. QED  BY ONLY <1>4, <2>1, <2>2
<1>7. CASE Flushes
  BY <1>7 DEF Flushes
<1>8. ASSUME NEW x \in Events, Puts(x) PROVE FALSE
  <2>1. x \notin written /\ e \in noop /\ pending' = pending \o <<x>>
    BY <1>8 DEF Puts
  <2>2. Kind[x] # "sync"
    BY <1>1, <2>1, OneSync
  <2>3. before' = before /\ <<x>> \in Seq(Records)
    BY <1>8, <2>2 DEF Puts, Records
  <2>4. \A i \in 1..Len(<<x>>) : <<x>>[i] \notin before
    <3>1. Len(<<x>>) = 1 /\ <<x>>[1] = x /\ x \notin before
      BY <1>1, <2>1
    <3>. QED  BY <3>1
  <2>. QED  BY ONLY <1>4, <2>1, <2>3, <2>4
<1>9. ASSUME NEW r \in Readers, TakesOne(r) PROVE FALSE
  <2>1. /\ pending # <<>> /\ pending' = Tail(pending) /\ Inspect(r, Head(pending))
        /\ before' = before /\ Head(pending) \in Records
    BY <1>1, <1>9, Shorter DEF TakesOne
  <2>2. PICK p : p = Tail(pending)
    OBVIOUS
  <2>3. /\ Head(pending) = pending[1] /\ Len(pending) \in Nat /\ Len(p) = Len(pending) - 1
        /\ 1 \in 1..Len(pending)
        /\ \A i \in 1..Len(p) : i + 1 \in 1..Len(pending) /\ p[i] = pending[i + 1]
    BY <1>1, <2>1, <2>2, Shorter
  <2>4. j + 1 \in 1..Len(pending) /\ pending[j + 1] \in before
    BY <2>1, <2>2, <2>3
  <2>5. CASE e \in noop
    BY <1>2, <2>4, <2>5
  <2>6. CASE e \notin noop
    <3>1. Head(pending) = e /\ e \in Events
      BY <2>1, <2>6, Inspecting
    <3>2. /\ \A n \in 1..Len(pending) : pending[n] \in before =>
               \E i \in 1..Len(pending) : i > n /\ pending[i] = e
          /\ \A i, n \in 1..Len(pending) : pending[i] = e /\ pending[n] = e => i = n
      BY <2>6, <3>1 DEF ConsoleIInv, SyncFollows
    <3>3. PICK i \in 1..Len(pending) : i > j + 1 /\ pending[i] = e
      BY <2>4, <3>2
    <3>4. i = 1
      BY <2>3, <3>1, <3>2, <3>3
    <3>. QED  BY <3>3, <3>4
  <2>. QED  BY <2>5, <2>6
<1>. QED  BY <1>3, <1>5, <1>6, <1>7, <1>8, <1>9, RecordsMove

\* What happens to the event of the test client
LEMMA TestMoves ==
  ASSUME ConsoleIInv, ConsoleNext
  PROVE  \/ UNCHANGED <<calls, written, noop, test>>
         \/ \E e \in Events : /\ e \notin written /\ Kind[e] # "sync" /\ written' = written \cup {e}
                              /\ UNCHANGED <<calls, noop, test>>
         \/ \E e \in Events : Sync(e)
         \/ SyncReturns
         \/ \E r \in Readers : calls[r] = "none" /\ Take(r) /\ UNCHANGED <<written, test>>
         \/ \E r \in Readers : Callback(r)
<1>. USE DEF queue, rest, others
<1>1. CASE \E e \in Events : Write(e) \/ WriteTitle(e)
  BY <1>1 DEF Write, WriteTitle
<1>2. CASE StartRead \/ StartCheck \/ Flush \/ WaitForNonEmpty \/ AppWakes
  BY <1>2 DEF StartRead, StartCheck, Flush, WaitForNonEmpty, AppWakes
<1>3. CASE Read \/ CheckMore \/ CheckTake
  BY <1>3 DEF Read, CheckMore, CheckTake, PutBack, At, Readers
<1>4. CASE \E s \in Screens : Open(s) \/ ScreenStep(s)
  BY <1>4 DEF Open, ScreenStep, Loop, TimeOut, DispatchInput, UpdateScreen, Lower, At, Readers
<1>. QED  BY <1>1, <1>2, <1>3, <1>4 DEF ConsoleNext, AppStep

\* The references to the event are those of the client that waits and of the callback
\* that has not run.
LEMMA StepReferences ==
  ASSUME ConsoleIInv, ConsoleNext
  PROVE  ReferencesCounted'
<1>1. /\ ReferencesCounted /\ noop \subseteq written /\ written \subseteq Events
      /\ pending \in Seq(Records)
  BY DEF ConsoleIInv, RecordsKnown
<1>. DEFINE Running == \E r \in Readers : Runs(r)
<1>2. CASE UNCHANGED <<calls, written, noop, test>>
  BY <1>1, <1>2 DEF ReferencesCounted, Runs, SyncWritten, SyncTaken, test
<1>3. ASSUME NEW e \in Events, e \notin written, Kind[e] # "sync", written' = written \cup {e},
             UNCHANGED <<calls, noop, test>>
      PROVE  ReferencesCounted'
  <2>1. (SyncWritten' <=> SyncWritten) /\ (SyncTaken' <=> SyncTaken)
    BY <1>3 DEF SyncWritten, SyncTaken
  <2>2. /\ UNCHANGED <<calls, tester, refs, signalled, before>>
        /\ \A r \in Readers : Runs(r)' <=> Runs(r)
    BY <1>3 DEF Runs, test
  <2>. QED  BY <1>1, <2>1, <2>2 DEF ReferencesCounted
<1>4. ASSUME NEW e \in Events, Sync(e) PROVE ReferencesCounted'
  <2>1. /\ e \notin written /\ Kind[e] = "sync" /\ written' = written \cup {e}
        /\ tester' = "waiting" /\ refs' = 2 /\ UNCHANGED <<calls, noop, signalled>>
    BY <1>4 DEF Sync
  <2>2. ~SyncWritten /\ ~SyncTaken /\ SyncWritten' /\ ~SyncTaken'
    BY <1>1, <2>1, OneSync DEF SyncWritten, SyncTaken
  <2>3. ~signalled /\ ~signalled' /\ \A r \in Readers : ~Runs(r) /\ ~Runs(r)'
    BY <1>1, <2>1, <2>2 DEF ReferencesCounted, Runs
  <2>. QED  BY <1>1, <2>1, <2>2, <2>3 DEF ReferencesCounted
<1>5. CASE SyncReturns
  <2>1. /\ tester = "waiting" /\ tester' \in {"waited", "late"} /\ refs' = refs - 1
        /\ UNCHANGED <<calls, written, noop, signalled, before>>
    BY <1>5 DEF SyncReturns, queue
  <2>2. /\ (SyncWritten' <=> SyncWritten) /\ (SyncTaken' <=> SyncTaken)
        /\ \A r \in Readers : Runs(r)' <=> Runs(r)
    BY <2>1 DEF SyncWritten, SyncTaken, Runs
  <2>3. SyncWritten
    BY <1>1, <2>1 DEF ReferencesCounted
  <2>. QED  BY <1>1, <2>1, <2>2, <2>3 DEF ReferencesCounted
<1>6. ASSUME NEW r \in Readers, calls[r] = "none", Take(r), UNCHANGED <<written, test>>
      PROVE  ReferencesCounted'
  <2>1. PICK e \in Records : e = Head(pending)
    BY <1>1, <1>6, Shorter DEF Take, Ready
  <2>2. Inspect(r, e) /\ calls' = [calls EXCEPT ![r] = Call(e)]
    BY <1>6, <2>1 DEF Take, Inspect
  <2>3. /\ UNCHANGED <<tester, refs, signalled, before>> /\ (SyncWritten' <=> SyncWritten)
        /\ ~Runs(r)
        /\ \A q \in Readers : q # r => (Runs(q)' <=> Runs(q))
    BY <1>1, <1>6, <2>2 DEF test, SyncWritten, Runs, ReferencesCounted
  <2>4. CASE Call(e) # "signal"
    <3>1. ~Runs(r)' /\ calls' \in [Readers -> {"none", "title", "signal", "deref"}]
      BY <1>1, <2>2, <2>4, Inspecting DEF Runs, ReferencesCounted
    <3>2. SyncTaken' <=> SyncTaken
      BY <2>2, <2>4, Inspecting DEF SyncTaken
    <3>3. \A q \in Readers : Runs(q)' <=> Runs(q)
      BY <2>3, <3>1
    <3>. QED  BY <1>1, <2>3, <3>1, <3>2, <3>3 DEF ReferencesCounted
  <2>5. CASE Call(e) = "signal"
    <3>1. /\ noop' = noop \cup {e} /\ e \in Events /\ e \notin noop /\ Kind[e] = "sync"
      BY <2>2, <2>5, Inspecting
    <3>2. SyncTaken' /\ ~SyncTaken
      BY <1>1, <3>1, OneSync DEF SyncTaken
    <3>3. SyncWritten
      <4>1. Len(pending) \in Nat /\ 1 \in 1..Len(pending) /\ e = pending[1]
        BY <1>1, <1>6, <2>1, Shorter DEF Take, Ready
      <4>2. e \in written
        BY <3>1, <4>1 DEF ConsoleIInv, RecordsKnown
      <4>. QED  BY <3>1, <4>2 DEF SyncWritten
    <3>4. Runs(r)' /\ calls' \in [Readers -> {"none", "title", "signal", "deref"}]
      BY <1>1, <2>2, <2>5 DEF Runs, ReferencesCounted
    <3>5. \A q \in Readers : ~Runs(q) /\ (Runs(q)' => q = r)
      BY <1>1, <2>3, <3>2 DEF ReferencesCounted
    <3>. QED  BY <1>1, <2>3, <3>2, <3>3, <3>4, <3>5 DEF ReferencesCounted
  <2>. QED  BY <2>4, <2>5
<1>7. ASSUME NEW r \in Readers, Callback(r) PROVE ReferencesCounted'
  <2>1. /\ UNCHANGED <<written, noop, tester, before>>
        /\ (SyncWritten' <=> SyncWritten) /\ (SyncTaken' <=> SyncTaken)
    BY <1>7 DEF Callback, RunTitle, SignalEvent, DerefEvent, queue, test, SyncWritten, SyncTaken
  <2>2. CASE RunTitle(r)
    <3>1. /\ UNCHANGED <<refs, signalled>> /\ calls' \in [Readers -> {"none", "title", "signal", "deref"}]
          /\ \A q \in Readers : Runs(q)' <=> Runs(q)
      BY <1>1, <2>2 DEF RunTitle, test, Runs, ReferencesCounted
    <3>. QED  BY <1>1, <2>1, <3>1 DEF ReferencesCounted
  <2>3. CASE SignalEvent(r)
    <3>1. /\ refs' = refs /\ calls' \in [Readers -> {"none", "title", "signal", "deref"}]
          /\ Runs(r) /\ \A q \in Readers : Runs(q)' <=> Runs(q)
      BY <1>1, <2>3 DEF SignalEvent, Runs, ReferencesCounted
    <3>2. SyncTaken /\ SyncWritten
      BY <1>1, <3>1 DEF ReferencesCounted, SyncTaken, SyncWritten
    <3>. QED  BY <1>1, <2>1, <3>1, <3>2 DEF ReferencesCounted
  <2>4. CASE DerefEvent(r)
    <3>1. /\ refs' = refs - 1 /\ UNCHANGED signalled
          /\ calls' \in [Readers -> {"none", "title", "signal", "deref"}]
          /\ Runs(r) /\ ~Runs(r)' /\ \A q \in Readers : q # r => (Runs(q)' <=> Runs(q))
      BY <1>1, <2>4 DEF DerefEvent, Runs, ReferencesCounted
    <3>2. \A q \in Readers : ~Runs(q)'
      BY <1>1, <3>1 DEF ReferencesCounted
    <3>3. SyncTaken /\ SyncWritten
      BY <1>1, <3>1 DEF ReferencesCounted, SyncTaken, SyncWritten
    <3>. QED  BY <1>1, <2>1, <3>1, <3>2, <3>3 DEF ReferencesCounted
  <2>. QED  BY <1>7, <2>2, <2>3, <2>4 DEF Callback
<1>. QED  BY <1>2, <1>3, <1>4, <1>5, <1>6, <1>7, TestMoves

-----------------------------------------------------------------------------
(* The other variables, and all together                                   *)

\* A prompt's answer is none, the password so far, or what ends it.
LEMMA StepAnswer ==
  ASSUME answer \in [Screens -> Answers], ConsoleNext
  PROVE  answer' \in [Screens -> Answers]
<1>. USE DEF rest, others
<1>1. CASE \E e \in Events : Write(e) \/ WriteTitle(e) \/ Sync(e)
  BY <1>1 DEF Write, WriteTitle, Sync
<1>2. CASE SyncReturns \/ Flush \/ \E r \in Readers : Callback(r)
  BY <1>2 DEF SyncReturns, Flush, Callback, RunTitle, SignalEvent, DerefEvent
<1>3. CASE StartRead \/ StartCheck \/ AppStep
  BY <1>3 DEF StartRead, StartCheck, AppStep, Read, WaitForNonEmpty, AppWakes, CheckMore, CheckTake
<1>4. ASSUME NEW s \in Screens, Open(s) \/ Loop(s) \/ TimeOut(s) \/ UpdateScreen(s) \/ Lower(s)
      PROVE  answer' = answer
  BY <1>4 DEF Open, Loop, TimeOut, UpdateScreen, Lower
<1>5. ASSUME NEW s \in Screens, DispatchInput(s) PROVE answer' \in [Screens -> Answers]
  <2>1. CASE answer' = answer
    BY <2>1
  <2>2. CASE answer' # answer
    <3>1. PICK e : e = Head(pending)
      OBVIOUS
    <3>2. IsKey(e) /\ answer' = [answer EXCEPT ![s] = Answered(answer[s], e)]
      BY <1>5, <2>2, <3>1 DEF DispatchInput
    <3>3. answer[s] \in Answers /\ e \in Events
      BY <3>2 DEF IsKey
    <3>4. Answered(answer[s], e) \in Answers
      BY <3>3 DEF Answered, Answers
    <3>. QED  BY <3>2, <3>4
  <2>. QED  BY <2>1, <2>2
<1>. QED  BY <1>1, <1>2, <1>3, <1>4, <1>5 DEF ConsoleNext, ScreenStep

\* Whether a kick is out and whether the event is signalled are yes or no; the title
\* is old, wanted or shown.
LEMMA StepSigns ==
  ASSUME signalled \in BOOLEAN, kicked \in BOOLEAN, title \in {"old", "wanted", "shown"}, ConsoleNext
  PROVE  signalled' \in BOOLEAN /\ kicked' \in BOOLEAN /\ title' \in {"old", "wanted", "shown"}
<1>. USE DEF rest, others, queue, test
<1>1. CASE \E e \in Events : Write(e)
  BY <1>1, Zenon DEF Write
<1>2. CASE \E e \in Events : WriteTitle(e) \/ Sync(e)
  BY <1>2 DEF WriteTitle, Sync
<1>3. CASE SyncReturns \/ Flush \/ \E r \in Readers : Callback(r)
  BY <1>3 DEF SyncReturns, Flush, Callback, RunTitle, SignalEvent, DerefEvent
<1>4. CASE StartRead \/ StartCheck \/ AppStep
  BY <1>4 DEF StartRead, StartCheck, AppStep, Read, WaitForNonEmpty, AppWakes, CheckMore, CheckTake
<1>5. CASE \E s \in Screens : Open(s) \/ ScreenStep(s)
  BY <1>5 DEF Open, ScreenStep, Loop, TimeOut, DispatchInput, UpdateScreen, Lower
<1>. QED  BY <1>1, <1>2, <1>3, <1>4, <1>5 DEF ConsoleNext

\* Init: no record, no prompt.
LEMMA Initially == ConsoleInit => ConsoleIInv
<1>. SUFFICES ASSUME ConsoleInit PROVE ConsoleIInv
  OBVIOUS
<1>1. PrioritiesCounted
  <2>1. OpenPrompts = {}
    BY DEF ConsoleInit, OpenPrompts, Readers
  <2>2. Cardinality(OpenPrompts) = 0 /\ Cardinality(Screens) \in Nat
    BY <2>1, FS_EmptySet, FS_CardinalityType
  <2>3. PICK p : p = prio
    OBVIOUS
  <2>4. p \in [Screens -> 0 .. 0] /\ p \in [Screens -> 0 .. Cardinality(Screens)]
    BY <2>2, <2>3 DEF ConsoleInit
  <2>5. PICK top : top = Max({0} \cup {p[s] : s \in Screens})
    OBVIOUS
  <2>6. top \in 0 .. 0
    BY <2>4, <2>5, Highest
  <2>7. CurrentPriority = 0
    BY <2>3, <2>5, <2>6 DEF CurrentPriority
  <2>8. pc \in [Readers -> Places]
    BY DEF ConsoleInit, Places
  <2>. QED  BY <2>2, <2>3, <2>4, <2>7, <2>8 DEF PrioritiesCounted
<1>2. SleepersHaveNothing
  BY DEF ConsoleInit, SleepersHaveNothing, Ready
<1>3. KickLeavesOther /\ PutAsideComesBack /\ Flags
  BY DEF ConsoleInit, KickLeavesOther, PutAsideComesBack, Flags, Unanswered, Answers
<1>4. RecordsKnown
  BY DEF ConsoleInit, RecordsKnown
<1>5. SyncFollows /\ TakenInOrder
  BY DEF ConsoleInit, SyncFollows, TakenInOrder
<1>6. ReferencesCounted
  BY DEF ConsoleInit, ReferencesCounted, SyncWritten, SyncTaken, Runs
<1>. QED  BY <1>1, <1>2, <1>3, <1>4, <1>5, <1>6 DEF ConsoleIInv

\* Readers, writers, prompts and callbacks each keep all of it.
LEMMA ConsoleStepInv == ConsoleIInv /\ [ConsoleNext]_consoleVars => ConsoleIInv'
<1>1. ASSUME ConsoleIInv, ConsoleNext PROVE ConsoleIInv'
  <2>1. PrioritiesCounted' /\ SleepersHaveNothing'
    BY <1>1, StepPriorities, StepSleepers DEF ConsoleIInv
  <2>2. KickLeavesOther' /\ RecordsKnown' /\ PutAsideComesBack'
    BY <1>1, StepKick, StepRecords, StepPutAside
  <2>3. SyncFollows' /\ TakenInOrder' /\ ReferencesCounted'
    BY <1>1, StepSyncFollows, StepTaken, StepReferences
  <2>4. Flags'
    BY <1>1, StepSigns, StepAnswer DEF ConsoleIInv, Flags
  <2>. QED  BY <2>1, <2>2, <2>3, <2>4 DEF ConsoleIInv
<1>2. ASSUME ConsoleIInv, UNCHANGED consoleVars PROVE ConsoleIInv'
  <2>. USE DEF consoleVars, queue, test
  <2>1. PrioritiesCounted'
    BY <1>2 DEF ConsoleIInv, PrioritiesCounted, CurrentPriority, OpenPrompts
  <2>2. SleepersHaveNothing'
    BY <1>2 DEF ConsoleIInv, SleepersHaveNothing, Ready, Admitted, Priority, CurrentPriority
  <2>3. KickLeavesOther' /\ PutAsideComesBack' /\ Flags'
    BY <1>2 DEF ConsoleIInv, KickLeavesOther, Other, Up, PutAsideComesBack, Flags, IsKey
  <2>4. RecordsKnown'
    BY <1>2 DEF ConsoleIInv, RecordsKnown, IsKey
  <2>5. SyncFollows' /\ TakenInOrder' /\ ReferencesCounted'
    BY <1>2 DEF ConsoleIInv, SyncFollows, TakenInOrder, ReferencesCounted, SyncTaken, SyncWritten, Runs
  <2>. QED  BY <2>1, <2>2, <2>3, <2>4, <2>5 DEF ConsoleIInv
<1>. QED  BY <1>1, <1>2

-----------------------------------------------------------------------------
(* Theorems                                                                *)

\* Whatever is written, read, put aside, flushed and prompted for, in any order.
THEOREM ConsoleInvariance == ConsoleSpec => []ConsoleIInv
BY Initially, ConsoleStepInv, PTL DEF ConsoleSpec

\* The queue, the priorities and the event of the test client keep their types; in
\* particular RaiseRequestorPriority never needs more priorities than there are prompts,
\* and the event has no reference too many.
THEOREM ConsoleTypeCorrect == ConsoleSpec => []ConsoleTypeOK
<1>1. ConsoleIInv => ConsoleTypeOK
  <2>. SUFFICES ASSUME ConsoleIInv PROVE ConsoleTypeOK
    OBVIOUS
  <2>1. /\ pending \in Seq(Records) /\ backlog \in Seq(Records)
        /\ written \subseteq Events /\ noop \subseteq Events /\ gone \subseteq Events /\ before \subseteq Events
    BY DEF ConsoleIInv, RecordsKnown
  <2>2. /\ prio \in [Screens -> 0 .. Cardinality(Screens)]
        /\ pc \in [Readers -> {"idle", "read", "wait", "asleep", "check", "checkTake",
                               "closed", "open", "drain", "update", "lower", "done"}]
    BY DEF ConsoleIInv, PrioritiesCounted, Places
  <2>3. /\ calls \in [Readers -> {"none", "title", "signal", "deref"}]
        /\ tester \in {"no", "waiting", "waited", "late"} /\ refs \in 0 .. 2
    BY DEF ConsoleIInv, ReferencesCounted
  <2>4. kicked \in BOOLEAN /\ signalled \in BOOLEAN
        /\ title \in {"old", "wanted", "shown"} /\ answer \in [Screens -> Answers]
    BY DEF ConsoleIInv, Flags
  <2>. QED  BY <2>1, <2>2, <2>3, <2>4, Zenon DEF ConsoleTypeOK
<1>. QED  BY <1>1, ConsoleInvariance, PTL

\* Who sleeps in WaitForNonEmpty has nothing it may read; a kick that a prompt or
\* CheckForKeyPress took from the application is replaced; and nothing is lost but what was
\* read, flushed, or dropped as a key.
THEOREM NothingLost == ConsoleSpec => []NothingVanishes
<1>1. ConsoleIInv => NothingVanishes
  <2>. SUFFICES ASSUME ConsoleIInv PROVE NothingVanishes
    OBVIOUS
  <2>1. pending \in Seq(Records) /\ backlog \in Seq(Records)
    BY DEF ConsoleIInv, RecordsKnown
  <2>2. (Other(pending) => pending # <<>>) /\ (Other(backlog) => backlog # <<>>)
    BY <2>1 DEF Other
  <2>3. KickIsReplaced
    BY <2>2 DEF ConsoleIInv, KickLeavesOther, KickIsReplaced, Up
  <2>. QED  BY <2>3 DEF ConsoleIInv, NothingVanishes
<1>. QED  BY <1>1, ConsoleInvariance, PTL

\* ClientDispatchSync: once its event is signalled the keys sent before it have been taken,
\* and who signals or dereferences the event holds a reference to it.
THEOREM SyncTrue == ConsoleSpec => []SyncIsTrue
<1>1. ConsoleIInv => SyncIsTrue
  <2>. SUFFICES ASSUME ConsoleIInv PROVE SyncIsTrue
    OBVIOUS
  <2>1. ASSUME signalled PROVE before \cap (ToSet(pending) \cup ToSet(backlog)) = {}
    <3>1. /\ pending \in Seq(Records) /\ backlog \in Seq(Records)
          /\ before \subseteq Events /\ \A k \in before : IsKey(k)
          /\ \A i \in 1..Len(backlog) : backlog[i] \in Events => ~IsKey(backlog[i])
      BY DEF ConsoleIInv, RecordsKnown
    <3>2. \A i \in 1..Len(pending) : pending[i] \notin before
      BY <2>1 DEF ConsoleIInv, ReferencesCounted, TakenInOrder
    <3>3. ToSet(pending) = {pending[i] : i \in 1..Len(pending)}
      BY <3>1, Members
    <3>4. ToSet(backlog) = {backlog[i] : i \in 1..Len(backlog)}
      BY <3>1, Members
    <3>. QED  BY <3>1, <3>2, <3>3, <3>4
  <2>2. ASSUME NEW r \in Readers, calls[r] \in {"signal", "deref"} PROVE refs > 0
    <3>1. Runs(r) /\ SyncTaken
      BY <2>2 DEF ConsoleIInv, ReferencesCounted, Runs
    <3>2. SyncWritten
      BY <3>1 DEF ConsoleIInv, RecordsKnown, SyncTaken, SyncWritten
    <3>. QED  BY <3>1, <3>2 DEF ConsoleIInv, ReferencesCounted
  <2>. QED  BY <2>1, <2>2 DEF SyncIsTrue
<1>. QED  BY <1>1, ConsoleInvariance, PTL

-----------------------------------------------------------------------------
(* The three together                                                      *)

\* The queue of events with its priorities, the backend's threads with all that they count
\* and number, the terminal, and the clients of the sudo dispatcher keep their types.
THEOREM TerminalTypeCorrect == TerminalSpec => []TerminalTypeOK
<1>1. TerminalInit => ConsoleInit /\ SudoInit
  BY DEF TerminalInit
<1>2. [TerminalNext]_terminalVars => [ConsoleNext]_consoleVars /\ [SudoNext]_sudoVars
  BY DEF TerminalNext, terminalVars
<1>3. TerminalSpec => ConsoleSpec /\ SudoSpec
  BY <1>1, <1>2, PTL DEF TerminalSpec, ConsoleSpec, SudoSpec
<1>4. TTYIInv => TTYTypeOK
  BY TTYBackendAssumption, TTYTyped
<1>5. SudoIInv => SudoTypeOK
  BY DEF SudoIInv
<1>6. ConsoleTypeOK /\ TTYTypeOK /\ SudoTypeOK => TerminalTypeOK
  BY DEF TerminalTypeOK
<1>. QED  BY <1>3, <1>4, <1>5, <1>6, ConsoleTypeCorrect, TTYInvariance, SudoInvariance, PTL
===============================================================================
