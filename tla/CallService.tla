----------------------------- MODULE CallService -----------------------------
(***************************************************************************)
(* What far/src/base/InterThreadCall.hpp promises to the code that calls   *)
(* InterThreadCall and InterThreadCallAsync, whatever the main thread's    *)
(* loops are doing: a call is run at most once, is answered with success   *)
(* only if its function returned, and is dropped without having been run   *)
(* only once the dispatcher has been destroyed.                            *)
(***************************************************************************)
CONSTANT Calls

VARIABLES
  open,     \* a dispatcher thread exists
  call      \* call[c]: the progress of call c

Progress == {"none", "made", "waiting", "running", "returned", "threw",
             "succeeded", "failed"}

TypeOK == open \in BOOLEAN /\ call \in [Calls -> Progress]

Init == open = TRUE /\ call = [c \in Calls |-> "none"]

Become(c, p) == call' = [call EXCEPT ![c] = p]

Make(c) == call[c] = "none" /\ Become(c, "made") /\ UNCHANGED open

Accept(c) ==
  open /\ call[c] \in {"none", "made"} /\ Become(c, "waiting") /\ UNCHANGED open

Refuse(c) == ~open /\ call[c] = "made" /\ Become(c, "none") /\ UNCHANGED open

Run(c) == open /\ call[c] = "waiting" /\ Become(c, "running") /\ UNCHANGED open

End(c) ==
  /\ call[c] = "running"
  /\ \E r \in {"returned", "threw"} : Become(c, r)
  /\ UNCHANGED open

\* A synchronous call learns its fate, an asynchronous one is forgotten
Answer(c) ==
  /\ \/ call[c] = "returned" /\ \E a \in {"succeeded", "none"} : Become(c, a)
     \/ call[c] = "threw" /\ \E a \in {"failed", "none"} : Become(c, a)
  /\ UNCHANGED open

Drop(c) ==
  /\ ~open
  /\ call[c] = "waiting"
  /\ \E a \in {"failed", "none"} : Become(c, a)
  /\ UNCHANGED open

Return(c) ==
  call[c] \in {"succeeded", "failed"} /\ Become(c, "none") /\ UNCHANGED open

CloseService == open /\ open' = FALSE /\ UNCHANGED call

Next ==
  \/ CloseService
  \/ \E c \in Calls :
       Make(c) \/ Accept(c) \/ Refuse(c) \/ Run(c) \/ End(c)
         \/ Answer(c) \/ Drop(c) \/ Return(c)

Spec == Init /\ [][Next]_<<open, call>>
=============================================================================
