------------------------------- MODULE RemoteCalls ------------------------------
(***************************************************************************)
(* What a remote host of NetRocks promises to the one thread that uses it, *)
(* whatever becomes of the broker process behind it (Host/Host.h,          *)
(* Protocol/Protocol.h): every call returns or fails on its own, an object *)
(* exists only if the call that opens it has returned, and a writer that   *)
(* reports completion has stored all that was written.                     *)
(***************************************************************************)
VARIABLES
  call,     \* the outstanding call, or "none"
  object,   \* "none", "enumer", "reader", "writer"
  unsaved,  \* something that was written is not stored
  confirmed \* the writer has reported completion

vars == <<call, object, unsaved, confirmed>>

Opens == [openenum |-> "enumer", openget |-> "reader", openput |-> "writer"]

\* The calls of an object
Uses == [item |-> "enumer", read |-> "reader", write |-> "writer", complete |-> "writer"]

Init == call = "none" /\ object = "none" /\ unsaved = FALSE /\ confirmed = FALSE

Begin ==
  /\ call = "none"
  /\ \/ call' \in DOMAIN Opens \cup {"init"} /\ object = "none"
     \/ call' = "command" /\ object \in {"none", "reader"}
     \/ call' \in DOMAIN Uses /\ object = Uses[call']
     \/ call' = "close" /\ object # "none"
  /\ unsaved' = (unsaved \/ call' = "write")
  /\ UNCHANGED <<object, confirmed>>

Save == unsaved /\ unsaved' = FALSE /\ UNCHANGED <<call, object, confirmed>>

Return ==
  /\ call # "none" /\ call' = "none"
  /\ call = "complete" => ~unsaved
  /\ object' = IF call \in DOMAIN Opens THEN Opens[call]
               ELSE IF call = "close" THEN "none" ELSE object
  /\ unsaved' = (unsaved /\ object' = "writer")
  /\ confirmed' = (object' = "writer" /\ (confirmed \/ call = "complete"))

\* It throws, which closing an object never does
Fail ==
  /\ call \notin {"none", "close"} /\ call' = "none"
  /\ UNCHANGED <<object, unsaved, confirmed>>

\* An object that takes no more calls is dropped at once
Drop ==
  /\ call = "none" /\ object # "none"
  /\ object' = "none" /\ unsaved' = FALSE /\ confirmed' = FALSE /\ UNCHANGED call

Next == Begin \/ Save \/ Return \/ Fail \/ Drop

Spec == Init /\ [][Next]_vars
=============================================================================
