-------------------------------- MODULE Threaded -------------------------------
(***************************************************************************)
(* utils/src/Threaded.cpp: the base of classes with a thread of their own, *)
(* as a record of its flags and operators on it.  The class that has it    *)
(* says what the thread does; Ended is its last critical section.  All     *)
(* operators are under _trd_mtx, so each is part of one action.            *)
(***************************************************************************)

\* thread: none, running, or ended and not joined yet (a pthread to be joined)
Threads == [exited : BOOLEAN, joined : BOOLEAN, thread : {"none", "running", "ended"}]

NewThreaded == [exited |-> TRUE, joined |-> TRUE, thread |-> "none"]

\* StartThread is refused while there is a thread that has not marked its end
CanStart(t) == t.joined \/ t.exited

\* It joins the thread before, if any, and makes a new one
StartThread(t) == [exited |-> FALSE, joined |-> FALSE, thread |-> "running"]

\* or pthread_create fails
StartFails(t) == NewThreaded

Ended(t) == [t EXCEPT !.exited = TRUE, !.thread = "ended"]

\* WaitThread returns TRUE
CanJoin(t) == t.exited

WaitThread(t) == [t EXCEPT !.joined = TRUE, !.thread = "none"]

\* ~Threaded aborts the program otherwise
MayDestroy(t) == t.exited /\ t.joined
=============================================================================
